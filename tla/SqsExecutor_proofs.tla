------------------------- MODULE SqsExecutor_proofs -------------------------
(***************************************************************************)
(* Proofs about SqsExecutor, for every set of messages, events and         *)
(* processes, every batch size and every redrive limit.                    *)
(***************************************************************************)
EXTENDS SqsExecutor, TLAPS

\* What a future knows between emission and acknowledgement: the outputs it
\* has ticked off are downstream, and if the handler said Ok then whatever
\* is not ticked off yet is all that is missing.
Progress(w, m) ==
  /\ w.stage \in {"emit", "cacheMessage", "cacheEvents"} =>
       /\ \A e \in w.out : e \in w.todo \/ <<m, e>> \in downstream
       /\ w.verdict = "ok" => \A e \in Events : e \in w.todo \/ <<m, e>> \in downstream
  /\ w.stage \in {"cacheMessage", "cacheEvents"} => w.todo = {}
  /\ w.stage = "cacheMessage" => w.verdict = "ok"

WorkProgress == \A p \in Procs, m \in Messages : Progress(work[p][m], m)

-----------------------------------------------------------------------------
\* A record of type Work, and what the helpers that change one yield.
LEMMA IdleType ==
  /\ Idle \in Work
  /\ \A n \in Receipt : Received(n) \in Work
  /\ [Idle EXCEPT !.stage = "done"] \in Work
  /\ \A n \in Receipt :
       /\ [Idle EXCEPT !.stage = "deadLetter", !.receipt = n] \in Work
       /\ [Idle EXCEPT !.stage = "deleting", !.receipt = n] \in Work
<1>1. Idle \in Work
  BY ConstantsAssumption DEF Idle, Work, Stage, Verdict, Receipt
<1>2. ASSUME NEW w \in Work, NEW s \in Stage, NEW n \in Receipt
      PROVE  /\ [w EXCEPT !.stage = s] \in Work
             /\ [w EXCEPT !.stage = s, !.receipt = n] \in Work
  BY DEF Work
<1>3. {"check", "done", "deadLetter", "deleting"} \subseteq Stage
  BY DEF Stage
<1>4. 0 \in Receipt
  BY ConstantsAssumption DEF Receipt
<1> QED
  BY <1>1, <1>2, <1>3, <1>4 DEF Received

\* The task a future spawns is a task.
LEMMA TaskType ==
  ASSUME TypeOK, NEW p \in Procs, NEW m \in Messages, NEW kind \in {"delete", "send"}
  PROVE  TaskOf(p, m, kind) \in Task
<1>1. work[p][m] \in Work
  BY DEF TypeOK
<1>2. work[p][m].receipt \in Receipt
  BY <1>1 DEF Work
<1> QED
  BY <1>2 DEF TaskOf, Task

\* Moving a future to another stage, finishing it, and resuming it keep work
\* well typed.
LEMMA GotoType ==
  ASSUME TypeOK, NEW p \in Procs, NEW m \in Messages, NEW s \in Stage, Goto(p, m, s)
  PROVE  work' \in [Procs -> [Messages -> Work]]
<1>1. work[p][m] \in Work
  BY DEF TypeOK
<1>2. [work[p][m] EXCEPT !.stage = s] \in Work
  BY <1>1 DEF Work
<1> QED
  BY <1>2 DEF TypeOK, Goto

LEMMA FinishType ==
  ASSUME TypeOK, NEW p \in Procs, NEW m \in Messages, Finish(p, m)
  PROVE  work' \in [Procs -> [Messages -> Work]]
BY IdleType DEF TypeOK, Finish

LEMMA ResumeType ==
  ASSUME TypeOK, NEW t \in Task, NEW s \in Stage, Resume(t, s)
  PROVE  work' \in [Procs -> [Messages -> Work]]
<1>1. t.proc \in Procs /\ t.msg \in Messages
  BY DEF Task
<1>2. CASE Awaits(t, s)
  BY <1>1, <1>2, FinishType DEF Resume
<1>3. CASE ~Awaits(t, s)
  BY <1>3 DEF Resume, TypeOK
<1> QED
  BY <1>2, <1>3

-----------------------------------------------------------------------------
\* The type invariant.  Initially it holds.
LEMMA TypeInit == Init => TypeOK
<1> SUFFICES ASSUME Init PROVE TypeOK
  OBVIOUS
<1>1. 0 \in Receipt
  BY ConstantsAssumption DEF Receipt
<1>2. work \in [Procs -> [Messages -> Work]]
  BY IdleType DEF Init
<1> QED
  BY <1>1, <1>2 DEF Init, TypeOK

\* Every step of a future keeps the types.
LEMMA TypeWorker ==
  ASSUME TypeOK, NEW p \in Procs, NEW m \in Messages, WorkerStep(p, m)
  PROVE  TypeOK'
<1>0. work[p][m] \in Work /\ work[p][m].receipt \in Receipt
  BY DEF TypeOK, Work
<1>1. {"fetch", "handle", "emit", "cacheMessage", "cacheEvents", "deleting"} \subseteq Stage
  BY DEF Stage
<1>2. TaskOf(p, m, "delete") \in Task /\ TaskOf(p, m, "send") \in Task
  BY TaskType
<1>3. CASE CheckHit(p, m)
  BY <1>1, <1>2, <1>3, GotoType DEF CheckHit, TypeOK
<1>4. CASE CheckMiss(p, m) \/ CheckUnavailable(p, m)
  BY <1>1, <1>4, GotoType DEF CheckMiss, CheckUnavailable, TypeOK
<1>5. CASE FetchPayload(p, m)
  BY <1>1, <1>5, GotoType DEF FetchPayload, TypeOK
<1>6. CASE FetchTestEvent(p, m)
  BY <1>2, <1>6, FinishType DEF FetchTestEvent, TypeOK
<1>7. CASE FetchTransient(p, m) \/ HandleTransient(p, m)
  BY <1>7, FinishType DEF FetchTransient, HandleTransient, TypeOK
<1>8. CASE FetchPersistent(p, m) \/ HandlePersistent(p, m)
  <2>1. StartDeadLetter(p, m)
    BY <1>8 DEF FetchPersistent, HandlePersistent
  <2>2. work' \in [Procs -> [Messages -> Work]]
    BY <1>0, <2>1, IdleType DEF StartDeadLetter, TypeOK
  <2> QED
    BY <1>2, <2>1, <2>2 DEF StartDeadLetter, TypeOK
<1>9. ASSUME NEW out \in SUBSET Events, NEW v \in Verdict, StartEmit(p, m, out, v)
      PROVE  TypeOK'
  <2>1. [stage |-> "emit", receipt |-> work[p][m].receipt, out |-> out,
         todo |-> out, verdict |-> v] \in Work
    BY <1>0 DEF Work, Stage
  <2>2. work' \in [Procs -> [Messages -> Work]]
    BY <1>9, <2>1 DEF StartEmit, TypeOK
  <2> QED
    BY <1>9, <2>2 DEF StartEmit, TypeOK
<1>10. CASE HandleOk(p, m)
  <2>1. PICK fresh \in ToDo(m) : StartEmit(p, m, fresh, "ok")
    BY <1>10 DEF HandleOk
  <2> QED
    BY <1>9, <2>1 DEF ToDo, Verdict
<1>11. CASE HandlePartial(p, m)
  <2>1. PICK fresh \in ToDo(m), v \in {"transient", "persistent"} :
          \E good \in SUBSET fresh \ {fresh} : StartEmit(p, m, good, v)
    BY <1>11 DEF HandlePartial
  <2>2. PICK good \in SUBSET fresh : StartEmit(p, m, good, v)
    BY <2>1
  <2>3. good \in SUBSET Events
    BY <2>2 DEF ToDo
  <2> QED
    BY <1>9, <2>2, <2>3 DEF Verdict
<1>12. CASE EmitOne(p, m)
  <2>1. PICK e \in work[p][m].todo :
          /\ downstream' = downstream \union {<<m, e>>}
          /\ work' = [work EXCEPT ![p][m].todo = @ \ {e}]
    BY <1>12 DEF EmitOne
  <2>2. e \in Events /\ work[p][m].todo \ {e} \in SUBSET Events
    BY <1>0, <2>1 DEF Work
  <2>3. [work[p][m] EXCEPT !.todo = @ \ {e}] \in Work
    BY <1>0, <2>2 DEF Work
  <2>4. work' \in [Procs -> [Messages -> Work]]
    BY <2>1, <2>3 DEF TypeOK
  <2> QED
    BY <1>12, <2>1, <2>2, <2>4 DEF EmitOne, TypeOK, Output
<1>13. CASE EmitDone(p, m)
  <2>1. work' \in [Procs -> [Messages -> Work]]
    BY <1>1, <1>13, GotoType DEF EmitDone
  <2> QED
    BY <1>13, <2>1 DEF EmitDone, TypeOK
<1>14. CASE CacheMessage(p, m)
  <2>1. work' \in [Procs -> [Messages -> Work]]
    BY <1>1, <1>14, GotoType DEF CacheMessage
  <2>2. cached' \in SUBSET StoredKeys
    BY <1>14 DEF CacheMessage, TypeOK, StoredKeys
  <2> QED
    BY <1>14, <2>1, <2>2 DEF CacheMessage, TypeOK
<1>15. CASE CacheEvents(p, m)
  <2>1. CompletedKeys(p, m) \subseteq StoredKeys
    BY <1>0 DEF CompletedKeys, StoredKeys, Output, Work
  <2>2. cached' \in SUBSET StoredKeys
    BY <1>15, <2>1 DEF CacheEvents, TypeOK
  <2>3. tasks' \in SUBSET Task
    BY <1>2, <1>15 DEF CacheEvents, TypeOK
  <2>4. work' \in [Procs -> [Messages -> Work]]
    <3>1. CASE Finish(p, m)
      BY <3>1, FinishType
    <3>2. ASSUME NEW w \in Work, work' = [work EXCEPT ![p][m] = w]
          PROVE  work' \in [Procs -> [Messages -> Work]]
      BY <3>2 DEF TypeOK
    <3> DEFINE n == work[p][m].receipt
    <3>3. /\ [Idle EXCEPT !.stage = "deadLetter", !.receipt = n] \in Work
          /\ [Idle EXCEPT !.stage = "deleting", !.receipt = n] \in Work
      BY <1>0, IdleType
    <3> QED
      BY <1>15, <3>1, <3>2, <3>3 DEF CacheEvents
  <2> QED
    BY <1>15, <2>2, <2>3, <2>4 DEF CacheEvents, TypeOK
<1> QED
  BY <1>3, <1>4, <1>5, <1>6, <1>7, <1>8, <1>10, <1>11, <1>12, <1>13, <1>14, <1>15
  DEF WorkerStep

\* Every end of a detached task keeps the types.
LEMMA TypeTask ==
  ASSUME TypeOK, NEW t \in tasks, TaskStep(t)
  PROVE  TypeOK'
<1>0. t \in Task /\ t.proc \in Procs /\ t.msg \in Messages
  BY DEF TypeOK, Task
<1>1. {"deleting", "deadLetter"} \subseteq Stage
  BY DEF Stage
<1>2. CASE DeleteOk(t)
  BY <1>0, <1>1, <1>2, ResumeType DEF DeleteOk, TypeOK
<1>3. CASE DeleteFail(t)
  BY <1>0, <1>1, <1>3, ResumeType DEF DeleteFail, TypeOK
<1>4. CASE SendOk(t)
  <2>1. [t EXCEPT !.kind = "delete"] \in Task
    BY <1>0 DEF Task
  <2>2. tasks' \in SUBSET Task
    BY <1>4, <2>1 DEF SendOk, TypeOK
  <2>3. work' \in [Procs -> [Messages -> Work]]
    <3>1. CASE Awaits(t, "deadLetter")
      BY <1>0, <1>1, <1>4, <3>1, GotoType DEF SendOk
    <3>2. CASE ~Awaits(t, "deadLetter")
      BY <1>4, <3>2 DEF SendOk, TypeOK
    <3> QED
      BY <3>1, <3>2
  <2> QED
    BY <1>0, <1>4, <2>2, <2>3 DEF SendOk, TypeOK
<1>5. CASE SendFail(t)
  <2>1. deadLetters' \in SUBSET Messages
    BY <1>0, <1>5 DEF SendFail, TypeOK
  <2>2. work' \in [Procs -> [Messages -> Work]]
    BY <1>0, <1>1, <1>5, ResumeType DEF SendFail
  <2> QED
    BY <1>5, <2>1, <2>2 DEF SendFail, TypeOK
<1> QED
  BY <1>2, <1>3, <1>4, <1>5 DEF TaskStep

\* So does everything the queue and the processes do.
LEMMA TypeQueue ==
  ASSUME TypeOK,
         \/ \E p \in Procs, batch \in SUBSET Messages : Receive(p, batch)
         \/ \E m \in Messages : Expire(m) \/ Redrive(m)
         \/ \E p \in Procs : Abort(p) \/ Crash(p) \/ EmptyReceive(p)
         \/ UNCHANGED vars
  PROVE  TypeOK'
<1>1. ASSUME NEW p \in Procs, NEW batch \in SUBSET Messages, Receive(p, batch)
      PROVE  TypeOK'
  <2>1. \A m \in batch : receives[m] + 1 \in Receipt
    BY <1>1, ConstantsAssumption DEF Receive, TypeOK, Receipt
  <2>2. receives' \in [Messages -> Receipt]
    BY <1>1, <2>1 DEF Receive, TypeOK
  <2>3. \A m \in Messages :
          (IF m \in batch THEN Received(receives[m] + 1) ELSE Idle) \in Work
    BY <2>1, IdleType
  <2>4. work' \in [Procs -> [Messages -> Work]]
    BY <1>1, <2>3 DEF Receive, TypeOK
  <2>5. queue' \in [Messages -> {"visible", "inflight", "deleted", "redriven"}]
    BY <1>1 DEF Receive, TypeOK
  <2> QED
    BY <1>1, <2>2, <2>4, <2>5 DEF Receive, TypeOK
<1>2. ASSUME NEW m \in Messages, Expire(m) \/ Redrive(m)
      PROVE  TypeOK'
  BY <1>2 DEF Expire, Redrive, TypeOK
<1>3. ASSUME NEW p \in Procs, Abort(p) \/ Crash(p)
      PROVE  TypeOK'
  <2>1. [m \in Messages |-> Idle] \in [Messages -> Work]
    BY IdleType
  <2>2. work' \in [Procs -> [Messages -> Work]]
    BY <1>3, <2>1 DEF Abort, Crash, TypeOK
  <2> QED
    BY <1>3, <2>2 DEF Abort, Crash, TypeOK
<1>4. ASSUME UNCHANGED vars
      PROVE  TypeOK'
  BY <1>4 DEF vars, TypeOK
<1> QED
  BY <1>1, <1>2, <1>3, <1>4 DEF EmptyReceive

\* TypeOK is an invariant of the worker: no interleaving of futures, tasks,
\* aborts and crashes takes its state out of its types.
THEOREM TypeCorrect == Spec => []TypeOK
<1>1. TypeOK /\ [Next]_vars => TypeOK'
  BY TypeWorker, TypeTask, TypeQueue DEF Next
<1> QED
  BY <1>1, TypeInit, PTL DEF Spec

-----------------------------------------------------------------------------
\* What is downstream or in the dead letter queue stays there.
Grows == downstream \subseteq downstream' /\ deadLetters \subseteq deadLetters'

LEMMA SettledStays ==
  ASSUME Grows, NEW m \in Messages, Settled(m)
  PROVE  Settled(m)'
BY DEF Grows, Settled, Outputs

\* A truthful cache: what a lookup finds is downstream.
LEMMA CheckedIsDownstream ==
  ASSUME TypeOK, CacheIsTruthful, NEW m \in Messages, MessageKeyChecked(m) \in cached
  PROVE  Outputs(m) \subseteq downstream
<1>1. MessageKeyChecked(m) \in StoredKeys
  BY DEF TypeOK
<1>2. \A o \in Output : EventKeyStored(o) # MessageKeyChecked(m)
  BY NoCollision
<1>3. PICK n \in Messages : MessageKeyStored(n) = MessageKeyChecked(m)
  BY <1>1, <1>2 DEF StoredKeys
<1>4. n = m
  BY <1>3, NoCollision
<1> QED
  BY <1>3, <1>4 DEF CacheIsTruthful

LEMMA SkippedIsDownstream ==
  ASSUME TypeOK, CacheIsTruthful, NEW m \in Messages, NEW e \in Events \ Uncached(m)
  PROVE  <<m, e>> \in downstream
<1> DEFINE o == <<m, e>>
<1>1. o \in Output /\ EventKeyChecked(o) \in cached
  BY DEF Output, Uncached
<1>2. EventKeyChecked(o) \in StoredKeys
  BY <1>1 DEF TypeOK
<1>3. \A n \in Messages : MessageKeyStored(n) # EventKeyChecked(o)
  BY <1>1, NoCollision
<1>4. PICK q \in Output : EventKeyStored(q) = EventKeyChecked(o)
  BY <1>2, <1>3 DEF StoredKeys
<1>5. q = o
  BY <1>1, <1>4, NoCollision
<1> QED
  BY <1>1, <1>4, <1>5 DEF CacheIsTruthful

\* The conjuncts a step leaves alone.
LEMMA Frame ==
  ASSUME TypeOK, CacheIsTruthful, DeleteTasksAreSafe, NoLoss, Grows
  PROVE  /\ cached' = cached => CacheIsTruthful'
         /\ (\A t \in tasks' : t.kind = "delete" => t \in tasks) => DeleteTasksAreSafe'
         /\ queue' = queue => NoLoss'
<1>1. \A m \in Messages : Settled(m) => Settled(m)'
  BY SettledStays
<1>2. \A t \in tasks : t.msg \in Messages
  BY DEF TypeOK, Task
<1> QED
  BY <1>1, <1>2 DEF CacheIsTruthful, DeleteTasksAreSafe, NoLoss, Grows

\* One future changes; the others know what they knew.
LEMMA OneFuture ==
  ASSUME TypeOK, WorkProgress, Grows, NEW p \in Procs, NEW m \in Messages, NEW w,
         work' = [work EXCEPT ![p][m] = w], Progress(w, m)'
  PROVE  WorkProgress'
<1> SUFFICES ASSUME NEW q \in Procs, NEW n \in Messages
             PROVE  Progress(work[q][n], n)'
  BY DEF WorkProgress
<1>1. CASE q = p /\ n = m
  <2>1. work'[q][n] = w
    BY <1>1 DEF TypeOK
  <2> QED
    BY <1>1, <2>1 DEF Progress
<1>2. CASE ~(q = p /\ n = m)
  <2>1. work'[q][n] = work[q][n]
    BY <1>2 DEF TypeOK
  <2> QED
    BY <2>1 DEF WorkProgress, Progress, Grows
<1> QED
  BY <1>1, <1>2

\* The inductive invariant is TypeOK and Safety.
Safety == CacheIsTruthful /\ DeleteTasksAreSafe /\ NoLoss /\ WorkProgress

\* A future outside emission and caching has nothing to prove.
LEMMA NoProgressNeeded ==
  ASSUME NEW w, NEW m, w.stage \notin {"emit", "cacheMessage", "cacheEvents"}
  PROVE  Progress(w, m)'
BY DEF Progress

\* A step in which a future ends or moves to a stage without obligations,
\* and which at most spawns a task of its own.
LEMMA SimpleStep ==
  ASSUME TypeOK, Safety, NEW p \in Procs, NEW m \in Messages, NEW w, NEW t,
         work' = [work EXCEPT ![p][m] = w],
         w.stage \notin {"emit", "cacheMessage", "cacheEvents"},
         tasks' \in {tasks, tasks \union {t}},
         t.kind = "delete" => t.msg = m /\ Settled(m),
         UNCHANGED <<queue, receives, deadLetters, downstream, cached>>
  PROVE  Safety'
<1>1. Grows
  BY DEF Grows
<1>2. WorkProgress'
  BY <1>1, NoProgressNeeded, OneFuture DEF Safety
<1>3. CacheIsTruthful' /\ NoLoss'
  BY <1>1, Frame DEF Safety
<1>4. DeleteTasksAreSafe'
  BY DEF Safety, DeleteTasksAreSafe, Settled
<1> QED
  BY <1>2, <1>3, <1>4 DEF Safety

\* The checks, the payload and the handlers that emit nothing.
LEMMA SafetyBeforeEmit ==
  ASSUME TypeOK, Safety, NEW p \in Procs, NEW m \in Messages,
         \/ CheckHit(p, m) \/ CheckMiss(p, m) \/ CheckUnavailable(p, m)
         \/ FetchPayload(p, m) \/ FetchTestEvent(p, m)
         \/ FetchTransient(p, m) \/ FetchPersistent(p, m)
         \/ HandleTransient(p, m) \/ HandlePersistent(p, m)
  PROVE  Safety'
<1>0. work[p][m] \in Work /\ work[p][m].receipt \in Receipt
  BY DEF TypeOK, Work
<1> DEFINE del == TaskOf(p, m, "delete")
           send == TaskOf(p, m, "send")
           n == work[p][m].receipt
           done == [Idle EXCEPT !.stage = "done"]
           dead == [Idle EXCEPT !.stage = "deadLetter", !.receipt = n]
<1>1. del.kind = "delete" /\ del.msg = m /\ send.kind = "send"
  BY DEF TaskOf
<1>2. done.stage = "done" /\ dead.stage = "deadLetter"
  BY DEF Idle
<1>3. ASSUME NEW s \in Stage
      PROVE  [work[p][m] EXCEPT !.stage = s].stage = s
  BY <1>0 DEF Work
<1>4. ASSUME NEW s \in Stage, Goto(p, m, s)
      PROVE  work' = [work EXCEPT ![p][m] = [work[p][m] EXCEPT !.stage = s]]
  BY <1>4 DEF Goto, TypeOK
<1>5. {"fetch", "handle", "deleting"} \subseteq Stage
  BY DEF Stage
<1>6. CASE CheckHit(p, m)
  <2>1. Settled(m)
    BY <1>6, CheckedIsDownstream DEF CheckHit, Safety, Settled
  <2>2. work' = [work EXCEPT ![p][m] = [work[p][m] EXCEPT !.stage = "deleting"]]
    BY <1>4, <1>5, <1>6 DEF CheckHit
  <2>3. [work[p][m] EXCEPT !.stage = "deleting"].stage = "deleting"
    BY <1>3, <1>5
  <2> QED
    BY <1>1, <1>6, <2>1, <2>2, <2>3, SimpleStep DEF CheckHit
<1>7. CASE CheckMiss(p, m) \/ CheckUnavailable(p, m)
  <2>1. work' = [work EXCEPT ![p][m] = [work[p][m] EXCEPT !.stage = "fetch"]]
    BY <1>4, <1>5, <1>7 DEF CheckMiss, CheckUnavailable
  <2>2. [work[p][m] EXCEPT !.stage = "fetch"].stage = "fetch"
    BY <1>3, <1>5
  <2> QED
    BY <1>1, <1>7, <2>1, <2>2, SimpleStep DEF CheckMiss, CheckUnavailable
<1>8. CASE FetchPayload(p, m)
  <2>1. work' = [work EXCEPT ![p][m] = [work[p][m] EXCEPT !.stage = "handle"]]
    BY <1>4, <1>5, <1>8 DEF FetchPayload
  <2>2. [work[p][m] EXCEPT !.stage = "handle"].stage = "handle"
    BY <1>3, <1>5
  <2> QED
    BY <1>1, <1>8, <2>1, <2>2, SimpleStep DEF FetchPayload
<1>9. CASE FetchTestEvent(p, m)
  BY <1>1, <1>2, <1>9, SimpleStep DEF FetchTestEvent, Finish, Settled
<1>10. CASE FetchTransient(p, m) \/ HandleTransient(p, m)
  BY <1>1, <1>2, <1>10, SimpleStep DEF FetchTransient, HandleTransient, Finish
<1>11. CASE FetchPersistent(p, m) \/ HandlePersistent(p, m)
  <2>1. StartDeadLetter(p, m)
    BY <1>11 DEF FetchPersistent, HandlePersistent
  <2>2. work' = [work EXCEPT ![p][m] = dead]
    BY <2>1 DEF StartDeadLetter
  <2>3. tasks' = tasks \union {send} /\ UNCHANGED <<queue, receives, deadLetters, downstream, cached>>
    BY <2>1 DEF StartDeadLetter
  <2> QED
    BY <1>1, <1>2, <2>2, <2>3, SimpleStep
<1> QED
  BY <1>6, <1>7, <1>8, <1>9, <1>10, <1>11

\* A handler that reports a result: nothing is emitted yet, and what an Ok
\* leaves out was found in the cache.
LEMMA SafetyHandle ==
  ASSUME TypeOK, Safety, NEW p \in Procs, NEW m \in Messages,
         HandleOk(p, m) \/ HandlePartial(p, m)
  PROVE  Safety'
<1>1. ASSUME NEW out \in SUBSET Events, NEW v, StartEmit(p, m, out, v),
             v = "ok" => Uncached(m) \subseteq out
      PROVE  Safety'
  <2>0. PICK w : w = [stage |-> "emit", receipt |-> work[p][m].receipt, out |-> out,
                      todo |-> out, verdict |-> v]
    OBVIOUS
  <2>1. Grows
    BY <1>1 DEF StartEmit, Grows
  <2>2. v = "ok" => \A e \in Events : e \in out \/ <<m, e>> \in downstream
    BY <1>1, SkippedIsDownstream DEF Safety
  <2>3. Progress(w, m)'
    BY <1>1, <2>0, <2>2 DEF StartEmit, Progress
  <2>4. WorkProgress'
    BY <1>1, <2>0, <2>1, <2>3, OneFuture DEF StartEmit, Safety
  <2>5. CacheIsTruthful' /\ NoLoss' /\ DeleteTasksAreSafe'
    BY <1>1, <2>1, Frame DEF StartEmit, Safety
  <2> QED
    BY <2>4, <2>5 DEF Safety
<1>2. CASE HandleOk(p, m)
  BY <1>1, <1>2 DEF HandleOk, ToDo
<1>3. CASE HandlePartial(p, m)
  <2>1. PICK fresh \in ToDo(m), v \in {"transient", "persistent"} :
          \E good \in SUBSET fresh \ {fresh} : StartEmit(p, m, good, v)
    BY <1>3 DEF HandlePartial
  <2>2. PICK good \in SUBSET fresh : StartEmit(p, m, good, v)
    BY <2>1
  <2>3. good \in SUBSET Events
    BY <2>2 DEF ToDo
  <2> QED
    BY <1>1, <2>1, <2>2, <2>3
<1> QED
  BY <1>2, <1>3

\* Emission: each output ticked off is downstream.
LEMMA SafetyEmit ==
  ASSUME TypeOK, Safety, NEW p \in Procs, NEW m \in Messages,
         EmitOne(p, m) \/ EmitDone(p, m)
  PROVE  Safety'
<1>0. work[p][m] \in Work /\ Progress(work[p][m], m)
  BY DEF TypeOK, Safety, WorkProgress
<1>1. Grows
  BY DEF EmitOne, EmitDone, Grows
<1>2. CacheIsTruthful' /\ NoLoss' /\ DeleteTasksAreSafe'
  BY <1>1, Frame DEF EmitOne, EmitDone, Safety
<1>3. CASE EmitOne(p, m)
  <2>1. PICK e \in work[p][m].todo :
          /\ downstream' = downstream \union {<<m, e>>}
          /\ work' = [work EXCEPT ![p][m].todo = @ \ {e}]
    BY <1>3 DEF EmitOne
  <2>0. PICK w : w = [work[p][m] EXCEPT !.todo = @ \ {e}]
    OBVIOUS
  <2>2. /\ w.stage = "emit" /\ w.out = work[p][m].out
        /\ w.verdict = work[p][m].verdict /\ w.todo = work[p][m].todo \ {e}
    BY <1>0, <1>3, <2>0 DEF EmitOne, At, Work
  <2>3. work[p][m].stage = "emit"
    BY <1>3 DEF EmitOne, At
  <2>4. Progress(w, m)'
    <3>1. <<m, e>> \in downstream'
      BY <2>1
    <3> QED
      BY <1>0, <1>1, <2>2, <2>3, <3>1 DEF Progress, Grows
  <2>5. work' = [work EXCEPT ![p][m] = w]
    BY <2>0, <2>1
  <2> QED
    BY <1>1, <1>2, <2>4, <2>5, OneFuture DEF Safety
<1>4. CASE EmitDone(p, m)
  <2>0. PICK s, w :
          /\ s = IF work[p][m].verdict = "ok" THEN "cacheMessage" ELSE "cacheEvents"
          /\ w = [work[p][m] EXCEPT !.stage = s]
    OBVIOUS
  <2>1. /\ w.stage = s /\ w.out = work[p][m].out
        /\ w.verdict = work[p][m].verdict /\ w.todo = work[p][m].todo
    BY <1>0, <2>0 DEF Work
  <2>2. work[p][m].stage = "emit" /\ work[p][m].todo = {}
    BY <1>4 DEF EmitDone, At
  <2>3. Progress(w, m)'
    BY <1>0, <1>1, <2>0, <2>1, <2>2 DEF Progress, Grows
  <2>4. work' = [work EXCEPT ![p][m] = w]
    BY <1>4, <2>0 DEF EmitDone, Goto, TypeOK
  <2> QED
    BY <1>1, <1>2, <2>3, <2>4, OneFuture DEF Safety
<1> QED
  BY <1>3, <1>4

\* Caching, and the acknowledgement or dead letter that follows.
LEMMA SafetyCache ==
  ASSUME TypeOK, Safety, NEW p \in Procs, NEW m \in Messages,
         CacheMessage(p, m) \/ CacheEvents(p, m)
  PROVE  Safety'
<1>0. work[p][m] \in Work /\ Progress(work[p][m], m)
  BY DEF TypeOK, Safety, WorkProgress
<1>1. Grows
  BY DEF CacheMessage, CacheEvents, Grows
<1>2. NoLoss'
  BY <1>1, Frame DEF CacheMessage, CacheEvents, Safety
<1>3. CASE CacheMessage(p, m)
  <2>1. work[p][m].stage = "cacheMessage"
    BY <1>3 DEF CacheMessage, At
  <2>2. Outputs(m) \subseteq downstream
    BY <1>0, <2>1 DEF Progress, Outputs
  <2>3. CacheIsTruthful'
    <3>1. \A n \in Messages : MessageKeyStored(n) = MessageKeyStored(m) => n = m
      BY NoCollision
    <3>2. \A o \in Output : EventKeyStored(o) # MessageKeyStored(m)
      BY NoCollision
    <3> QED
      BY <1>3, <2>2, <3>1, <3>2 DEF CacheMessage, Safety, CacheIsTruthful
  <2>4. DeleteTasksAreSafe'
    BY <1>1, <1>3, Frame DEF CacheMessage, Safety
  <2>5. PICK w : w = [work[p][m] EXCEPT !.stage = "cacheEvents"]
    OBVIOUS
  <2>6. /\ w.stage = "cacheEvents" /\ w.out = work[p][m].out
        /\ w.verdict = work[p][m].verdict /\ w.todo = work[p][m].todo
    BY <1>0, <2>5 DEF Work
  <2>7. Progress(w, m)'
    BY <1>0, <1>1, <2>1, <2>6 DEF Progress, Grows
  <2>8. work' = [work EXCEPT ![p][m] = w]
    BY <1>3, <2>5 DEF CacheMessage, Goto, TypeOK
  <2> QED
    BY <1>1, <1>2, <2>3, <2>4, <2>7, <2>8, OneFuture DEF Safety
<1>4. CASE CacheEvents(p, m)
  <2>1. work[p][m].stage = "cacheEvents"
    BY <1>4 DEF CacheEvents, At
  <2>2. \A e \in work[p][m].out : <<m, e>> \in Output /\ <<m, e>> \in downstream
    BY <1>0, <2>1 DEF Progress, Work, Output
  <2>3. CacheIsTruthful'
    <3>1. ASSUME NEW k \in CompletedKeys(p, m)
          PROVE  /\ \A n \in Messages : MessageKeyStored(n) # k
                 /\ \A o \in Output : EventKeyStored(o) = k => o \in downstream
      <4>1. PICK e \in work[p][m].out : k = EventKeyStored(<<m, e>>)
        BY DEF CompletedKeys
      <4> QED
        BY <2>2, <4>1, NoCollision
    <3> QED
      BY <1>4, <3>1 DEF CacheEvents, Safety, CacheIsTruthful
  <2>4. work[p][m].verdict = "ok" => Settled(m)
    BY <1>0, <2>1 DEF Progress, Settled, Outputs
  <2>5. TaskOf(p, m, "delete").msg = m /\ TaskOf(p, m, "send").kind = "send"
    BY DEF TaskOf
  <2>6. DeleteTasksAreSafe'
    BY <1>4, <2>4, <2>5 DEF CacheEvents, Safety, DeleteTasksAreSafe, Settled
  <2>7. PICK w : /\ work' = [work EXCEPT ![p][m] = w]
                 /\ w.stage \in {"deleting", "deadLetter", "done"}
    <3>1. [Idle EXCEPT !.stage = "done"].stage = "done"
      BY DEF Idle
    <3>2. \A n : /\ [Idle EXCEPT !.stage = "deleting", !.receipt = n].stage = "deleting"
                 /\ [Idle EXCEPT !.stage = "deadLetter", !.receipt = n].stage = "deadLetter"
      BY DEF Idle
    <3> DEFINE n == work[p][m].receipt
    <3>3. CASE Finish(p, m)
      BY <3>1, <3>3 DEF Finish
    <3>4. CASE work' = [work EXCEPT ![p][m] = [Idle EXCEPT !.stage = "deleting", !.receipt = n]]
      BY <3>2, <3>4
    <3>5. CASE work' = [work EXCEPT ![p][m] = [Idle EXCEPT !.stage = "deadLetter", !.receipt = n]]
      BY <3>2, <3>5
    <3> QED
      BY <1>4, <3>3, <3>4, <3>5 DEF CacheEvents
  <2>8. Progress(w, m)'
    BY <2>7, NoProgressNeeded
  <2> QED
    BY <1>1, <1>2, <2>3, <2>6, <2>7, <2>8, OneFuture DEF Safety
<1> QED
  BY <1>3, <1>4

\* The end of a detached task.
LEMMA SafetyTask ==
  ASSUME TypeOK, Safety, NEW t \in tasks, TaskStep(t)
  PROVE  Safety'
<1>0. t \in Task /\ t.proc \in Procs /\ t.msg \in Messages
  BY DEF TypeOK, Task
<1>1. Grows
  BY DEF TaskStep, DeleteOk, DeleteFail, SendOk, SendFail, Grows
<1>2. CacheIsTruthful'
  BY <1>1, Frame DEF TaskStep, DeleteOk, DeleteFail, SendOk, SendFail, Safety
<1>3. NoLoss'
  <2>1. CASE DeleteOk(t)
    <3>1. Settled(t.msg)'
      BY <1>0, <1>1, <2>1, SettledStays DEF DeleteOk, Safety, DeleteTasksAreSafe
    <3>2. \A m \in Messages : m # t.msg => queue'[m] = queue[m]
      BY <2>1 DEF DeleteOk, TypeOK
    <3>3. \A m \in Messages : Settled(m) => Settled(m)'
      BY <1>1, SettledStays
    <3> QED
      BY <3>1, <3>2, <3>3 DEF Safety, NoLoss
  <2>2. CASE DeleteFail(t) \/ SendOk(t) \/ SendFail(t)
    BY <1>1, <2>2, Frame DEF DeleteFail, SendOk, SendFail, Safety
  <2> QED
    BY <2>1, <2>2 DEF TaskStep
<1>4. DeleteTasksAreSafe'
  <2>1. CASE DeleteOk(t) \/ DeleteFail(t) \/ SendFail(t)
    BY <1>1, <2>1, Frame DEF DeleteOk, DeleteFail, SendFail, Safety
  <2>2. CASE SendOk(t)
    <3>1. \A u \in tasks : u.kind = "delete" => Settled(u.msg)'
      BY <1>1, SettledStays DEF Safety, DeleteTasksAreSafe, TypeOK, Task
    <3>2. Settled(t.msg)'
      BY <2>2 DEF SendOk, Settled
    <3>3. [t EXCEPT !.kind = "delete"].msg = t.msg
      BY <1>0 DEF Task
    <3>4. \A u \in tasks' : u \in tasks \/ u = [t EXCEPT !.kind = "delete"]
      BY <2>2 DEF SendOk
    <3> QED
      BY <3>1, <3>2, <3>3, <3>4 DEF DeleteTasksAreSafe
  <2> QED
    BY <2>1, <2>2 DEF TaskStep
<1>5. WorkProgress'
  <2>2. CASE work' = work
    BY <1>1, <2>2 DEF Safety, WorkProgress, Progress, Grows
  <2>3. CASE Finish(t.proc, t.msg)
    <3>1. PICK w : w = [Idle EXCEPT !.stage = "done"]
      OBVIOUS
    <3>2. w.stage = "done"
      BY <3>1 DEF Idle
    <3>3. work' = [work EXCEPT ![t.proc][t.msg] = w]
      BY <2>3, <3>1 DEF Finish
    <3>4. Progress(w, t.msg)'
      BY <3>2 DEF Progress
    <3> QED
      BY <1>0, <1>1, <3>3, <3>4, OneFuture DEF Safety
  <2>4. CASE Goto(t.proc, t.msg, "deleting")
    <3>1. PICK w : w = [work[t.proc][t.msg] EXCEPT !.stage = "deleting"]
      OBVIOUS
    <3>2. work[t.proc][t.msg] \in Work
      BY <1>0 DEF TypeOK
    <3>3. w.stage = "deleting"
      BY <3>1, <3>2 DEF Work
    <3>4. work' = [work EXCEPT ![t.proc][t.msg] = w]
      BY <1>0, <2>4, <3>1 DEF Goto, TypeOK
    <3>5. Progress(w, t.msg)'
      BY <3>3 DEF Progress
    <3> QED
      BY <1>0, <1>1, <3>4, <3>5, OneFuture DEF Safety
  <2> QED
    BY <2>2, <2>3, <2>4 DEF TaskStep, DeleteOk, DeleteFail, SendOk, SendFail, Resume
<1> QED
  BY <1>2, <1>3, <1>4, <1>5 DEF Safety

\* The queue, aborts and crashes: futures are dropped or started afresh, and
\* what they had published stays published.
LEMMA SafetyQueue ==
  ASSUME TypeOK, Safety,
         \/ \E p \in Procs, batch \in SUBSET Messages : Receive(p, batch)
         \/ \E m \in Messages : Expire(m) \/ Redrive(m)
         \/ \E p \in Procs : Abort(p) \/ Crash(p) \/ EmptyReceive(p)
         \/ UNCHANGED vars
  PROVE  Safety'
<1>1. Grows /\ cached' = cached
  BY DEF Receive, Expire, Redrive, Abort, Crash, EmptyReceive, vars, Grows
<1>2. tasks' \subseteq tasks
  BY DEF Receive, Expire, Redrive, Abort, Crash, EmptyReceive, vars
<1>3. CacheIsTruthful' /\ DeleteTasksAreSafe'
  BY <1>1, <1>2, Frame DEF Safety
<1>4. NoLoss'
  <2>1. \A m \in Messages : queue'[m] = "deleted" => queue[m] = "deleted"
    BY DEF Receive, Expire, Redrive, Abort, Crash, EmptyReceive, vars, TypeOK
  <2>2. \A m \in Messages : Settled(m) => Settled(m)'
    BY <1>1, SettledStays
  <2> QED
    BY <2>1, <2>2 DEF Safety, NoLoss
<1>5. WorkProgress'
  <2>1. CASE work' = work
    BY <1>1, <2>1 DEF Safety, WorkProgress, Progress, Grows
  <2>2. ASSUME NEW p \in Procs, NEW f,
               work' = [work EXCEPT ![p] = f],
               \A m \in Messages :
                 f[m].stage \notin {"emit", "cacheMessage", "cacheEvents"}
        PROVE  WorkProgress'
    <3> SUFFICES ASSUME NEW q \in Procs, NEW m \in Messages
                 PROVE  Progress(work[q][m], m)'
      BY DEF WorkProgress
    <3>1. CASE q = p
      BY <2>2, <3>1 DEF Progress, TypeOK
    <3>2. CASE q # p
      BY <1>1, <2>2, <3>2 DEF Safety, WorkProgress, Progress, Grows, TypeOK
    <3> QED
      BY <3>1, <3>2
  <2>3. Idle.stage = "idle" /\ \A n : Received(n).stage = "check"
    BY DEF Idle, Received
  <2>4. ASSUME NEW p \in Procs, NEW batch \in SUBSET Messages, Receive(p, batch)
        PROVE  WorkProgress'
    <3>1. PICK f : f = [m \in Messages |->
                         IF m \in batch THEN Received(receives[m] + 1) ELSE Idle]
      OBVIOUS
    <3>2. work' = [work EXCEPT ![p] = f]
      BY <2>4, <3>1 DEF Receive
    <3>3. \A m \in Messages : f[m].stage \in {"idle", "check"}
      BY <2>3, <3>1
    <3> QED
      BY <2>2, <3>2, <3>3
  <2>5. ASSUME NEW p \in Procs, Abort(p) \/ Crash(p)
        PROVE  WorkProgress'
    <3>1. PICK f : f = [m \in Messages |-> Idle]
      OBVIOUS
    <3>2. work' = [work EXCEPT ![p] = f]
      BY <2>5, <3>1 DEF Abort, Crash
    <3>3. \A m \in Messages : f[m].stage = "idle"
      BY <2>3, <3>1
    <3> QED
      BY <2>2, <3>2, <3>3
  <2> QED
    BY <2>1, <2>4, <2>5 DEF Expire, Redrive, EmptyReceive, vars
<1> QED
  BY <1>3, <1>4, <1>5 DEF Safety

-----------------------------------------------------------------------------
LEMMA SafetyInit == Init => Safety
<1> SUFFICES ASSUME Init PROVE Safety
  OBVIOUS
<1>1. CacheIsTruthful /\ DeleteTasksAreSafe /\ NoLoss
  BY DEF Init, CacheIsTruthful, DeleteTasksAreSafe, NoLoss
<1>2. WorkProgress
  BY DEF Init, WorkProgress, Progress, Idle
<1> QED
  BY <1>1, <1>2 DEF Safety

LEMMA SafetyStep == TypeOK /\ Safety /\ [Next]_vars => Safety'
<1> SUFFICES ASSUME TypeOK, Safety, [Next]_vars
             PROVE  Safety'
  OBVIOUS
<1>1. ASSUME NEW p \in Procs, NEW m \in Messages, WorkerStep(p, m)
      PROVE  Safety'
  BY <1>1, SafetyBeforeEmit, SafetyHandle, SafetyEmit, SafetyCache DEF WorkerStep
<1> QED
  BY <1>1, SafetyTask, SafetyQueue DEF Next

\* The inductive invariant.
THEOREM SafetyCorrect == Spec => [](TypeOK /\ Safety)
<1>1. Init => TypeOK /\ Safety
  BY TypeInit, SafetyInit
<1>2. (TypeOK /\ Safety) /\ [Next]_vars => (TypeOK /\ Safety)'
  BY SafetyStep, TypeWorker, TypeTask, TypeQueue DEF Next
<1> QED
  BY <1>1, <1>2, PTL DEF Spec

\* No message is lost: whatever panics, batch timeouts, crashes, premature
\* redeliveries and failed calls happen, a deleted message was settled.
THEOREM NothingIsLost == Spec => []NoLoss
<1>1. TypeOK /\ Safety => NoLoss
  BY DEF Safety
<1> QED
  BY <1>1, SafetyCorrect, PTL

\* A delete that is still under way after its batch was dropped is harmless.
THEOREM LateDeletesAreSafe == Spec => []DeleteTasksAreSafe
<1>1. TypeOK /\ Safety => DeleteTasksAreSafe
  BY DEF Safety
<1> QED
  BY <1>1, SafetyCorrect, PTL

\* The completion cache never claims an output that is not downstream.
THEOREM CacheCorrect == Spec => []CacheIsTruthful
<1>1. TypeOK /\ Safety => CacheIsTruthful
  BY DEF Safety
<1> QED
  BY <1>1, SafetyCorrect, PTL

-----------------------------------------------------------------------------
\* The refinement.  Each step publishes one output, adds one dead letter,
\* acknowledges one settled message, or changes nothing the upstream service
\* can see.
LEMMA AbstractWorker ==
  ASSUME TypeOK, NEW p \in Procs, NEW m \in Messages, WorkerStep(p, m)
  PROVE  [Abstract!Next]_(Abstract!vars)
<1>1. CASE EmitOne(p, m)
  <2>1. PICK e \in work[p][m].todo : downstream' = downstream \union {<<m, e>>}
    BY <1>1 DEF EmitOne
  <2>2. e \in Events
    BY <2>1 DEF TypeOK, Work
  <2>3. Abstract!Publish(m, e)
    BY <1>1, <2>1 DEF EmitOne, Abstract!Publish
  <2> QED
    BY <2>2, <2>3 DEF Abstract!Next
<1>2. CASE ~EmitOne(p, m)
  <2>1. UNCHANGED <<queue, deadLetters, downstream>>
    BY <1>2 DEF WorkerStep, CheckHit, CheckMiss, CheckUnavailable, FetchPayload,
       FetchTestEvent, FetchTransient, FetchPersistent, HandleOk, HandlePartial,
       HandleTransient, HandlePersistent, EmitDone, CacheMessage, CacheEvents,
       StartEmit, StartDeadLetter
  <2> QED
    BY <2>1 DEF Abstract!vars
<1> QED
  BY <1>1, <1>2

LEMMA AbstractTask ==
  ASSUME TypeOK, Safety, NEW t \in tasks, TaskStep(t)
  PROVE  [Abstract!Next]_(Abstract!vars)
<1>0. t.msg \in Messages
  BY DEF TypeOK, Task
<1>1. CASE DeleteOk(t) /\ queue' # queue
  <2>1. Settled(t.msg)
    BY <1>1 DEF DeleteOk, Safety, DeleteTasksAreSafe
  <2>2. queue' = [queue EXCEPT ![t.msg] = "deleted"]
    BY <1>1 DEF DeleteOk
  <2>3. {m \in Messages : queue'[m] = "deleted"}
          = {m \in Messages : queue[m] = "deleted"} \union {t.msg}
    BY <1>0, <2>2 DEF TypeOK
  <2>4. Abstract!Acknowledge(t.msg)
    BY <1>1, <2>1, <2>3
    DEF DeleteOk, Abstract!Acknowledge, Abstract!Settled, Abstract!Outputs, Settled, Outputs
  <2> QED
    BY <1>0, <2>4 DEF Abstract!Next
<1>2. CASE (SendOk(t) \/ SendFail(t)) /\ deadLetters' # deadLetters
  <2>1. Abstract!DeadLetter(t.msg)
    BY <1>2 DEF SendOk, SendFail, Abstract!DeadLetter
  <2> QED
    BY <1>0, <2>1 DEF Abstract!Next
<1>3. CASE UNCHANGED <<queue, deadLetters, downstream>>
  BY <1>3 DEF Abstract!vars
<1> QED
  BY <1>1, <1>2, <1>3 DEF TaskStep, DeleteOk, DeleteFail, SendOk, SendFail

LEMMA AbstractQueue ==
  ASSUME TypeOK,
         \/ \E p \in Procs, batch \in SUBSET Messages : Receive(p, batch)
         \/ \E m \in Messages : Expire(m) \/ Redrive(m)
         \/ \E p \in Procs : Abort(p) \/ Crash(p) \/ EmptyReceive(p)
         \/ UNCHANGED vars
  PROVE  [Abstract!Next]_(Abstract!vars)
<1>1. UNCHANGED <<deadLetters, downstream>>
  BY DEF Receive, Expire, Redrive, Abort, Crash, EmptyReceive, vars
<1>2. \A m \in Messages : queue'[m] = "deleted" <=> queue[m] = "deleted"
  BY DEF Receive, Expire, Redrive, Abort, Crash, EmptyReceive, vars, TypeOK
<1>3. {m \in Messages : queue'[m] = "deleted"} = {m \in Messages : queue[m] = "deleted"}
  BY <1>2
<1> QED
  BY <1>1, <1>3 DEF Abstract!vars

\* The worker implements at-least-once delivery (module AtLeastOnce).
THEOREM Refinement == Spec => DeliversAtLeastOnce
<1>1. Init => Abstract!Init
  BY DEF Init, Abstract!Init
<1>2. (TypeOK /\ Safety) /\ [Next]_vars => [Abstract!Next]_(Abstract!vars)
  BY AbstractWorker, AbstractTask, AbstractQueue DEF Next
<1> QED
  BY <1>1, <1>2, SafetyCorrect, PTL DEF Spec, Abstract!Spec, DeliversAtLeastOnce

-----------------------------------------------------------------------------
(***************************************************************************)
(* A future and its task.  Receipts only grow, and no task has one that    *)
(* the queue has not given out yet: a new receive finds no task of its     *)
(* own, and gets one only by spawning it.                                  *)
(***************************************************************************)
Receipts ==
  /\ \A p \in Procs, m \in Messages : Working(p, m) => work[p][m].receipt <= receives[m]
  /\ \A t \in tasks : t.receipt <= receives[t.msg]

Waits == Receipts /\ WaitsForItsTask

\* A task of p's for m in the receive n.
Own(t, p, m, n) == t.proc = p /\ t.msg = m /\ t.receipt = n

\* One future becomes w and spawns or ends tasks of its own.
LEMMA OneFutureWaits ==
  ASSUME TypeOK, Waits, receives' = receives, NEW p \in Procs, NEW m \in Messages,
         NEW w \in Work, work' = [work EXCEPT ![p][m] = w],
         \A t \in tasks' : t \in tasks \/ (t.proc = p /\ t.msg = m /\ t.receipt <= receives[m]),
         \A t \in tasks : t \in tasks' \/ (t.proc = p /\ t.msg = m),
         w.stage \notin {"idle", "done"} => w.receipt <= receives[m],
         \A t \in tasks' : w.stage \notin {"idle", "done"} /\ Own(t, p, m, w.receipt) =>
           w.stage = awaiting[t.kind],
         \A kind \in DOMAIN awaiting : w.stage = awaiting[kind] =>
           [kind |-> kind, proc |-> p, msg |-> m, receipt |-> w.receipt] \in tasks'
  PROVE  Waits'
<1>1. work'[p][m] = w
  BY DEF TypeOK
<1>2. \A q \in Procs, n \in Messages : (q # p \/ n # m) => work'[q][n] = work[q][n]
  BY DEF TypeOK
<1>3. \A t \in tasks : t.proc \in Procs /\ t.msg \in Messages
  BY DEF TypeOK, Task
<1>4. \A t \in tasks' : t.proc \in Procs /\ t.msg \in Messages
  BY <1>3
<1>5. Receipts'
  <2>1. \A q \in Procs, n \in Messages : Working(q, n)' => work'[q][n].receipt <= receives[n]
    BY <1>1, <1>2 DEF Waits, Receipts, Working
  <2>2. \A t \in tasks' : t.receipt <= receives[t.msg]
    BY DEF Waits, Receipts
  <2> QED BY <2>1, <2>2 DEF Receipts
<1>6. ASSUME NEW q \in Procs, NEW n \in Messages, NEW kind \in DOMAIN awaiting,
             At(q, n, awaiting[kind])'
      PROVE  TaskOf(q, n, kind)' \in tasks'
  <2>1. CASE q = p /\ n = m
    BY <1>1, <1>6, <2>1 DEF At, TaskOf, awaiting
  <2>2. CASE q # p \/ n # m
    <3>1. At(q, n, awaiting[kind]) /\ TaskOf(q, n, kind)' = TaskOf(q, n, kind)
      BY <1>2, <1>6, <2>2 DEF At, TaskOf, awaiting
    <3>2. TaskOf(q, n, kind) \in tasks
      BY <3>1 DEF Waits, WaitsForItsTask
    <3>3. TaskOf(q, n, kind).proc = q /\ TaskOf(q, n, kind).msg = n
      BY DEF TaskOf
    <3> QED BY <2>2, <3>1, <3>2, <3>3
  <2> QED BY <2>1, <2>2
<1>7. ASSUME NEW t \in tasks', Working(t.proc, t.msg)',
             work'[t.proc][t.msg].receipt = t.receipt
      PROVE  work'[t.proc][t.msg].stage = awaiting[t.kind]
  <2>1. CASE t.proc = p /\ t.msg = m
    BY <1>1, <1>7, <2>1 DEF Own, Working
  <2>2. CASE t.proc # p \/ t.msg # m
    BY <1>2, <1>3, <1>7, <2>2 DEF Waits, WaitsForItsTask, Working, At
  <2> QED BY <2>1, <2>2
<1> QED BY <1>5, <1>6, <1>7 DEF Waits, WaitsForItsTask, At, awaiting

\* A future that does not wait has no task.
LEMMA NoTaskYet ==
  ASSUME TypeOK, Waits, NEW p \in Procs, NEW m \in Messages, Working(p, m),
         ~At(p, m, "deleting"), ~At(p, m, "deadLetter")
  PROVE  /\ work[p][m].receipt \in Nat /\ work[p][m].receipt <= receives[m]
         /\ \A t \in tasks : ~Own(t, p, m, work[p][m].receipt)
<1>1. \A t \in tasks : awaiting[t.kind] \in {"deleting", "deadLetter"}
  BY DEF TypeOK, Task, awaiting
<1>2. work[p][m].receipt \in Nat
  BY ConstantsAssumption DEF TypeOK, Work, Receipt
<1> QED BY <1>1, <1>2 DEF Waits, WaitsForItsTask, Receipts, Own, At

\* It goes on without one, or is done and may leave one behind,
LEMMA GoesOn ==
  ASSUME TypeOK, Waits, receives' = receives, NEW p \in Procs, NEW m \in Messages,
         Working(p, m), ~At(p, m, "deleting"), ~At(p, m, "deadLetter"),
         NEW w \in Work, work' = [work EXCEPT ![p][m] = w],
         w.stage \notin {"deleting", "deadLetter"}, w.receipt = work[p][m].receipt,
         tasks' = tasks
  PROVE  Waits'
<1>1. /\ w.receipt <= receives[m]
      /\ \A t \in tasks : ~Own(t, p, m, w.receipt)
  BY NoTaskYet
<1>2. \A kind \in DOMAIN awaiting : w.stage # awaiting[kind]
  BY DEF awaiting
<1> QED BY <1>1, <1>2, OneFutureWaits

LEMMA IsDone ==
  ASSUME TypeOK, Waits, receives' = receives, NEW p \in Procs, NEW m \in Messages,
         Finish(p, m), \A t \in tasks : t \in tasks' \/ (t.proc = p /\ t.msg = m),
         \A t \in tasks' : t \in tasks \/ (t.proc = p /\ t.msg = m /\ t.receipt <= receives[m])
  PROVE  Waits'
<1>1. PICK w : w = [Idle EXCEPT !.stage = "done"]
  OBVIOUS
<1>2. w \in Work /\ w.stage = "done"
  BY <1>1, IdleType DEF Idle
<1>3. work' = [work EXCEPT ![p][m] = w]
  BY <1>1 DEF Finish
<1>4. \A kind \in DOMAIN awaiting : w.stage # awaiting[kind]
  BY <1>2 DEF awaiting
<1> QED BY <1>2, <1>3, <1>4, OneFutureWaits

\* or it spawns one and waits for it.
LEMMA Spawns ==
  ASSUME TypeOK, Waits, receives' = receives, NEW p \in Procs, NEW m \in Messages,
         Working(p, m), ~At(p, m, "deleting"), ~At(p, m, "deadLetter"),
         NEW kind \in {"delete", "send"}, NEW w \in Work, work' = [work EXCEPT ![p][m] = w],
         w.stage = awaiting[kind], w.receipt = work[p][m].receipt,
         tasks' = tasks \union {TaskOf(p, m, kind)}
  PROVE  Waits'
<1>1. /\ w.receipt <= receives[m]
      /\ \A t \in tasks : ~Own(t, p, m, w.receipt)
  BY NoTaskYet
<1>2. PICK u : u = TaskOf(p, m, kind)
  OBVIOUS
<1>3. /\ u = [kind |-> kind, proc |-> p, msg |-> m, receipt |-> w.receipt]
      /\ u.kind = kind /\ u.proc = p /\ u.msg = m /\ u.receipt = w.receipt
      /\ tasks' = tasks \union {u}
  BY <1>2 DEF TaskOf
<1>4. \A k \in DOMAIN awaiting : w.stage = awaiting[k] => k = kind
  BY DEF awaiting
<1>5. \A t \in tasks' : Own(t, p, m, w.receipt) => w.stage = awaiting[t.kind]
  BY <1>1, <1>3
<1>6. /\ \A t \in tasks' : t \in tasks \/ (t.proc = p /\ t.msg = m /\ t.receipt <= receives[m])
      /\ \A t \in tasks : t \in tasks'
  BY <1>1, <1>3
<1>7. \A k \in DOMAIN awaiting : w.stage = awaiting[k] =>
        [kind |-> k, proc |-> p, msg |-> m, receipt |-> w.receipt] \in tasks'
  BY <1>3, <1>4
<1> QED BY <1>1, <1>5, <1>6, <1>7, OneFutureWaits

LEMMA WaitsWorker ==
  ASSUME TypeOK, Waits, NEW p \in Procs, NEW m \in Messages, WorkerStep(p, m)
  PROVE  Waits'
<1>0. /\ work[p][m] \in Work /\ work[p][m].receipt \in Receipt
      /\ {"fetch", "handle", "emit", "cacheMessage", "cacheEvents", "deleting"} \subseteq Stage
      /\ awaiting["delete"] = "deleting" /\ awaiting["send"] = "deadLetter"
  BY DEF TypeOK, Work, Stage, awaiting
<1>1. /\ At(p, m, "check") \/ At(p, m, "fetch") \/ At(p, m, "handle") \/ At(p, m, "emit")
           \/ At(p, m, "cacheMessage") \/ At(p, m, "cacheEvents")
      /\ receives' = receives
  BY DEF WorkerStep, CheckHit, CheckMiss, CheckUnavailable, FetchPayload, FetchTestEvent,
     FetchTransient, FetchPersistent, HandleOk, HandlePartial, HandleTransient,
     HandlePersistent, StartDeadLetter, StartEmit, EmitOne, EmitDone, CacheMessage, CacheEvents
<1>2. Working(p, m) /\ ~At(p, m, "deleting") /\ ~At(p, m, "deadLetter")
  BY <1>1 DEF At, Working
<1>3. ASSUME NEW s \in {"fetch", "handle", "cacheMessage", "cacheEvents"}, Goto(p, m, s),
             tasks' = tasks
      PROVE  Waits'
  <2>1. PICK w : w = [work[p][m] EXCEPT !.stage = s]
    OBVIOUS
  <2>2. /\ w \in Work /\ w.stage \notin {"deleting", "deadLetter"}
        /\ w.receipt = work[p][m].receipt
    BY <1>0, <2>1 DEF Work
  <2>3. work' = [work EXCEPT ![p][m] = w]
    BY <1>3, <2>1 DEF Goto, TypeOK
  <2> QED BY <1>1, <1>2, <1>3, <2>2, <2>3, GoesOn
<1>4. ASSUME Finish(p, m), tasks' = tasks \/ tasks' = tasks \union {TaskOf(p, m, "delete")}
      PROVE  Waits'
  <2>1. /\ TaskOf(p, m, "delete").proc = p /\ TaskOf(p, m, "delete").msg = m
        /\ TaskOf(p, m, "delete").receipt <= receives[m]
    BY <1>2, NoTaskYet DEF TaskOf
  <2> QED BY <1>1, <1>4, <2>1, IsDone
<1>5. ASSUME NEW kind \in {"delete", "send"}, NEW w \in Work,
             work' = [work EXCEPT ![p][m] = w],
             w.stage = awaiting[kind], w.receipt = work[p][m].receipt,
             tasks' = tasks \union {TaskOf(p, m, kind)}
      PROVE  Waits'
  BY <1>1, <1>2, <1>5, Spawns
<1>6. ASSUME NEW kind \in {"delete", "send"},
             work' = [work EXCEPT ![p][m] =
               [Idle EXCEPT !.stage = awaiting[kind], !.receipt = work[p][m].receipt]],
             tasks' = tasks \union {TaskOf(p, m, kind)}
      PROVE  Waits'
  <2>1. PICK w : w = [Idle EXCEPT !.stage = awaiting[kind], !.receipt = work[p][m].receipt]
    OBVIOUS
  <2>2. w \in Work
    BY <1>0, <2>1, IdleType
  <2>3. w.stage = awaiting[kind] /\ w.receipt = work[p][m].receipt
    BY <2>1 DEF Idle
  <2>4. work' = [work EXCEPT ![p][m] = w]
    BY <1>6, <2>1
  <2> QED BY <1>5, <1>6, <2>2, <2>3, <2>4
<1>7. CASE CheckHit(p, m)
  <2>1. PICK w : w = [work[p][m] EXCEPT !.stage = "deleting"]
    OBVIOUS
  <2>2. w \in Work /\ w.stage = "deleting" /\ w.receipt = work[p][m].receipt
    BY <1>0, <2>1 DEF Work
  <2>3. work' = [work EXCEPT ![p][m] = w]
    BY <1>7, <2>1 DEF CheckHit, Goto, TypeOK
  <2>4. tasks' = tasks \union {TaskOf(p, m, "delete")}
    BY <1>7 DEF CheckHit
  <2> QED BY <1>0, <1>5, <2>2, <2>3, <2>4
<1>8. CASE CheckMiss(p, m) \/ CheckUnavailable(p, m) \/ FetchPayload(p, m)
  BY <1>3, <1>8 DEF CheckMiss, CheckUnavailable, FetchPayload
<1>9. CASE FetchTestEvent(p, m) \/ FetchTransient(p, m) \/ HandleTransient(p, m)
  BY <1>4, <1>9 DEF FetchTestEvent, FetchTransient, HandleTransient
<1>10. CASE FetchPersistent(p, m) \/ HandlePersistent(p, m)
  <2>1. StartDeadLetter(p, m)
    BY <1>10 DEF FetchPersistent, HandlePersistent
  <2> QED BY <1>0, <1>6, <2>1 DEF StartDeadLetter
<1>11. ASSUME NEW out \in SUBSET Events, NEW v \in Verdict, StartEmit(p, m, out, v)
       PROVE  Waits'
  <2>1. PICK w : w = [stage |-> "emit", receipt |-> work[p][m].receipt, out |-> out,
                      todo |-> out, verdict |-> v]
    OBVIOUS
  <2>2. /\ w \in Work /\ w.stage \notin {"deleting", "deadLetter"}
        /\ w.receipt = work[p][m].receipt
    BY <1>0, <2>1 DEF Work
  <2>3. work' = [work EXCEPT ![p][m] = w] /\ tasks' = tasks
    BY <1>11, <2>1 DEF StartEmit
  <2> QED BY <1>1, <1>2, <2>2, <2>3, GoesOn
<1>12. CASE HandleOk(p, m)
  <2>1. PICK fresh \in ToDo(m) : StartEmit(p, m, fresh, "ok")
    BY <1>12 DEF HandleOk
  <2> QED BY <1>11, <2>1 DEF ToDo, Verdict
<1>13. CASE HandlePartial(p, m)
  <2>1. PICK fresh \in ToDo(m), v \in {"transient", "persistent"} :
          \E good \in SUBSET fresh \ {fresh} : StartEmit(p, m, good, v)
    BY <1>13 DEF HandlePartial
  <2>2. PICK good \in SUBSET fresh : StartEmit(p, m, good, v)
    BY <2>1
  <2>3. good \in SUBSET Events
    BY <2>2 DEF ToDo
  <2> QED BY <1>11, <2>2, <2>3 DEF Verdict
<1>14. CASE EmitOne(p, m)
  <2>1. PICK e : work' = [work EXCEPT ![p][m].todo = @ \ {e}]
    BY <1>14 DEF EmitOne
  <2>2. PICK w : w = [work[p][m] EXCEPT !.todo = @ \ {e}]
    OBVIOUS
  <2>3. /\ w \in Work /\ w.stage = work[p][m].stage
        /\ w.receipt = work[p][m].receipt
    BY <1>0, <2>2 DEF Work
  <2>4. work' = [work EXCEPT ![p][m] = w] /\ tasks' = tasks
    BY <1>14, <2>1, <2>2 DEF EmitOne, TypeOK
  <2>5. w.stage \notin {"deleting", "deadLetter"}
    BY <1>2, <2>3 DEF At
  <2> QED BY <1>1, <1>2, <2>3, <2>4, <2>5, GoesOn
<1>15. CASE EmitDone(p, m) \/ CacheMessage(p, m)
  BY <1>3, <1>15 DEF EmitDone, CacheMessage
<1>16. CASE CacheEvents(p, m)
  <2>1. CASE work[p][m].verdict = "ok"
    BY <1>0, <1>6, <1>16, <2>1 DEF CacheEvents
  <2>2. CASE work[p][m].verdict = "persistent"
    BY <1>0, <1>6, <1>16, <2>2 DEF CacheEvents
  <2>3. CASE work[p][m].verdict = "transient"
    BY <1>4, <1>16, <2>3 DEF CacheEvents
  <2> QED BY <1>16, <2>1, <2>2, <2>3 DEF CacheEvents
<1> QED
  BY <1>7, <1>8, <1>9, <1>10, <1>12, <1>13, <1>14, <1>15, <1>16 DEF WorkerStep

\* A task ends that nobody waits for.
LEMMA Unheard ==
  ASSUME TypeOK, Waits, receives' = receives, work' = work, NEW t \in tasks,
         tasks' = tasks \ {t}, ~Awaits(t, awaiting[t.kind])
  PROVE  Waits'
<1>1. Receipts'
  BY DEF Waits, Receipts, Working
<1>2. ASSUME NEW p \in Procs, NEW m \in Messages, NEW kind \in DOMAIN awaiting,
             At(p, m, awaiting[kind])
      PROVE  TaskOf(p, m, kind) \in tasks'
  <2>1. TaskOf(p, m, kind) \in tasks
    BY <1>2 DEF Waits, WaitsForItsTask
  <2>2. TaskOf(p, m, kind) # t
    BY <1>2 DEF Awaits, TaskOf
  <2> QED BY <2>1, <2>2
<1> QED BY <1>1, <1>2 DEF Waits, WaitsForItsTask, At, Working, TaskOf, awaiting

LEMMA WaitsTask ==
  ASSUME TypeOK, Waits, NEW t \in tasks, TaskStep(t)
  PROVE  Waits'
<1>0. /\ t \in Task /\ t.proc \in Procs /\ t.msg \in Messages
      /\ t.kind \in {"delete", "send"}
      /\ awaiting["delete"] = "deleting" /\ awaiting["send"] = "deadLetter"
  BY DEF TypeOK, Task, awaiting
<1>1. receives' = receives
  BY DEF TaskStep, DeleteOk, DeleteFail, SendOk, SendFail
<1>2. ASSUME Resume(t, awaiting[t.kind]), tasks' = tasks \ {t}
      PROVE  Waits'
  <2>1. CASE Awaits(t, awaiting[t.kind])
    <3>1. Finish(t.proc, t.msg)
      BY <1>2, <2>1 DEF Resume
    <3>2. /\ \A u \in tasks' : u \in tasks
          /\ \A u \in tasks : u \in tasks' \/ (u.proc = t.proc /\ u.msg = t.msg)
      BY <1>2
    <3> QED BY <1>0, <1>1, <3>1, <3>2, IsDone
  <2>2. CASE ~Awaits(t, awaiting[t.kind])
    BY <1>1, <1>2, <2>2, Unheard DEF Resume
  <2> QED BY <2>1, <2>2
<1>3. CASE DeleteOk(t) \/ DeleteFail(t)
  BY <1>0, <1>2, <1>3 DEF DeleteOk, DeleteFail
<1>4. CASE SendFail(t)
  BY <1>0, <1>2, <1>4 DEF SendFail
<1>5. CASE SendOk(t) /\ ~Awaits(t, "deadLetter")
  BY <1>0, <1>1, <1>5, Unheard DEF SendOk
<1>6. CASE SendOk(t) /\ Awaits(t, "deadLetter")
  <2>1. PICK u : u = [t EXCEPT !.kind = "delete"]
    OBVIOUS
  <2>2. /\ u = [kind |-> "delete", proc |-> t.proc, msg |-> t.msg, receipt |-> t.receipt]
        /\ u.kind = "delete" /\ u.proc = t.proc /\ u.msg = t.msg /\ u.receipt = t.receipt
    BY <1>0, <2>1 DEF Task
  <2>3. PICK w : w = [work[t.proc][t.msg] EXCEPT !.stage = "deleting"]
    OBVIOUS
  <2>4. w \in Work /\ w.stage = "deleting" /\ w.receipt = t.receipt
    <3>1. work[t.proc][t.msg] \in Work /\ work[t.proc][t.msg].receipt = t.receipt
      BY <1>0, <1>6 DEF TypeOK, Awaits
    <3>2. "deleting" \in Stage
      BY DEF Stage
    <3> QED BY <2>3, <3>1, <3>2 DEF Work
  <2>5. work' = [work EXCEPT ![t.proc][t.msg] = w] /\ tasks' = (tasks \ {t}) \union {u}
    BY <1>0, <1>6, <2>1, <2>3 DEF SendOk, Goto, TypeOK
  <2>6. t.receipt <= receives[t.msg]
    BY DEF Waits, Receipts
  <2>7. ASSUME NEW k \in tasks', Own(k, t.proc, t.msg, t.receipt)
        PROVE  k = u
    <3>1. SUFFICES ASSUME k \in tasks PROVE k = t
      BY <2>5, <2>7
    <3>2. k \in Task /\ k.kind \in {"delete", "send"}
      BY <3>1 DEF TypeOK, Task
    <3>3. At(t.proc, t.msg, awaiting[k.kind])
      BY <1>6, <2>7, <3>1 DEF Waits, WaitsForItsTask, Own, Awaits, At, Working
    <3>4. k.kind = "send" /\ t.kind = "send"
      BY <1>0, <1>6, <3>2, <3>3 DEF At, Awaits, SendOk
    <3> QED BY <1>0, <2>7, <3>2, <3>4 DEF Own, Task
  <2>8. \A k \in tasks' : Own(k, t.proc, t.msg, w.receipt) => w.stage = awaiting[k.kind]
    BY <1>0, <2>2, <2>4, <2>7
  <2>9. \A kind \in DOMAIN awaiting : w.stage = awaiting[kind] =>
          [kind |-> kind, proc |-> t.proc, msg |-> t.msg, receipt |-> w.receipt] \in tasks'
    <3>1. \A kind \in DOMAIN awaiting : w.stage = awaiting[kind] => kind = "delete"
      BY <2>4 DEF awaiting
    <3> QED BY <2>2, <2>4, <2>5, <3>1
  <2>10. /\ \A k \in tasks' :
              k \in tasks \/ (k.proc = t.proc /\ k.msg = t.msg /\ k.receipt <= receives[t.msg])
         /\ \A k \in tasks : k \in tasks' \/ (k.proc = t.proc /\ k.msg = t.msg)
    BY <2>2, <2>5, <2>6
  <2> QED BY <1>0, <1>1, <2>4, <2>5, <2>6, <2>8, <2>9, <2>10, OneFutureWaits
<1> QED BY <1>3, <1>4, <1>5, <1>6 DEF TaskStep

LEMMA WaitsQueue ==
  ASSUME TypeOK, Waits,
         \/ \E p \in Procs, batch \in SUBSET Messages : Receive(p, batch)
         \/ \E m \in Messages : Expire(m) \/ Redrive(m)
         \/ \E p \in Procs : Abort(p) \/ Crash(p) \/ EmptyReceive(p)
         \/ UNCHANGED vars
  PROVE  Waits'
<1>0. /\ \A t \in tasks : t.proc \in Procs /\ t.msg \in Messages /\ t.receipt \in Nat
      /\ \A m \in Messages : receives[m] \in Nat
  BY ConstantsAssumption DEF TypeOK, Task, Receipt
<1>1. CASE UNCHANGED <<receives, work, tasks>>
  BY <1>1 DEF Waits, Receipts, WaitsForItsTask, Working, At, TaskOf
\* every future of a process is new, or gone
<1>2. ASSUME NEW p \in Procs, NEW f, work' = [work EXCEPT ![p] = f],
             \A m \in Messages : receives'[m] \in Nat /\ receives[m] <= receives'[m],
             \A m \in Messages :
               \/ f[m].stage = "idle"
               \/ f[m].stage = "check" /\ f[m].receipt = receives'[m]
                    /\ receives'[m] = receives[m] + 1,
             tasks' \subseteq tasks, \A t \in tasks : t.proc # p => t \in tasks'
      PROVE  Waits'
  <2>1. work'[p] = f /\ \A q \in Procs : q # p => work'[q] = work[q]
    BY <1>2 DEF TypeOK
  <2>2. \A q \in Procs, m \in Messages : work[q][m].receipt \in Nat
    BY ConstantsAssumption DEF TypeOK, Work, Receipt
  <2>3. Receipts'
    <3>1. ASSUME NEW q \in Procs, NEW m \in Messages, Working(q, m)'
          PROVE  work'[q][m].receipt <= receives'[m]
      <4>1. CASE q = p
        BY <1>2, <2>1, <3>1, <4>1 DEF Working
      <4>2. CASE q # p
        BY <1>0, <1>2, <2>1, <2>2, <3>1, <4>2 DEF Waits, Receipts, Working
      <4> QED BY <4>1, <4>2
    <3>2. \A t \in tasks' : t.receipt <= receives'[t.msg]
      BY <1>0, <1>2 DEF Waits, Receipts
    <3> QED BY <3>1, <3>2 DEF Receipts
  <2>4. ASSUME NEW q \in Procs, NEW m \in Messages, NEW kind \in DOMAIN awaiting,
               At(q, m, awaiting[kind])'
        PROVE  TaskOf(q, m, kind)' \in tasks'
    <3>1. q # p
      BY <1>2, <2>1, <2>4 DEF At, awaiting
    <3>2. At(q, m, awaiting[kind]) /\ TaskOf(q, m, kind)' = TaskOf(q, m, kind)
      BY <2>1, <2>4, <3>1 DEF At, TaskOf, awaiting
    <3>3. TaskOf(q, m, kind) \in tasks /\ TaskOf(q, m, kind).proc = q
      BY <3>2 DEF Waits, WaitsForItsTask, TaskOf
    <3> QED BY <1>2, <3>1, <3>2, <3>3
  <2>5. ASSUME NEW t \in tasks', Working(t.proc, t.msg)',
               work'[t.proc][t.msg].receipt = t.receipt
        PROVE  work'[t.proc][t.msg].stage = awaiting[t.kind]
    <3>1. t \in tasks /\ t.receipt <= receives[t.msg]
      BY <1>2 DEF Waits, Receipts
    <3>2. t.proc # p
      BY <1>0, <1>2, <2>1, <2>5, <3>1 DEF Working
    <3> QED BY <1>0, <2>1, <2>5, <3>1, <3>2 DEF Waits, WaitsForItsTask, Working, At
  <2> QED BY <2>3, <2>4, <2>5 DEF Waits, WaitsForItsTask, At, awaiting
<1>3. ASSUME NEW p \in Procs, NEW batch \in SUBSET Messages, Receive(p, batch)
      PROVE  Waits'
  <2>1. PICK f : f = [m \in Messages |->
                       IF m \in batch THEN Received(receives[m] + 1) ELSE Idle]
    OBVIOUS
  <2>2. work' = [work EXCEPT ![p] = f] /\ tasks' = tasks
    BY <1>3, <2>1 DEF Receive
  <2>3. \A m \in Messages :
          receives'[m] = IF m \in batch THEN receives[m] + 1 ELSE receives[m]
    BY <1>3 DEF Receive
  <2>4. Idle.stage = "idle" /\ \A n : Received(n).stage = "check" /\ Received(n).receipt = n
    BY DEF Idle, Received
  <2>5. \A m \in Messages :
          \/ f[m].stage = "idle"
          \/ f[m].stage = "check" /\ f[m].receipt = receives'[m]
               /\ receives'[m] = receives[m] + 1
    BY <2>1, <2>3, <2>4
  <2>6. \A m \in Messages : receives'[m] \in Nat /\ receives[m] <= receives'[m]
    BY <1>0, <2>3
  <2> QED BY <1>2, <2>2, <2>5, <2>6
<1>4. ASSUME NEW p \in Procs, Abort(p) \/ Crash(p)
      PROVE  Waits'
  <2>1. PICK f : f = [m \in Messages |-> Idle]
    OBVIOUS
  <2>2. /\ work' = [work EXCEPT ![p] = f] /\ receives' = receives
        /\ tasks' \subseteq tasks /\ \A t \in tasks : t.proc # p => t \in tasks'
    BY <1>4, <2>1 DEF Abort, Crash
  <2>3. \A m \in Messages : f[m].stage = "idle"
    BY <2>1 DEF Idle
  <2>4. \A m \in Messages : receives'[m] \in Nat /\ receives[m] <= receives'[m]
    BY <1>0, <2>2
  <2> QED BY <1>2, <2>2, <2>3, <2>4
<1> QED BY <1>1, <1>3, <1>4 DEF Expire, Redrive, EmptyReceive, vars

LEMMA WaitsInit == Init => Waits
  BY DEF Init, Waits, Receipts, WaitsForItsTask, Working, At, Idle, awaiting

\* A future that waits has its task, and one that does not wait has none: no batch is
\* kept by a task that is gone, and no future takes another receive's answer for its own.
THEOREM FuturesWaitForTheirTasks == Spec => []WaitsForItsTask
<1>1. Init => TypeOK /\ Waits
  BY TypeInit, WaitsInit
<1>2. (TypeOK /\ Waits) /\ [Next]_vars => (TypeOK /\ Waits)'
  BY TypeWorker, TypeTask, TypeQueue, WaitsWorker, WaitsTask, WaitsQueue DEF Next
<1>3. TypeOK /\ Waits => WaitsForItsTask
  BY DEF Waits
<1> QED
  BY <1>1, <1>2, <1>3, PTL DEF Spec
=============================================================================
