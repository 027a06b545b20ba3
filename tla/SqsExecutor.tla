---------------------------- MODULE SqsExecutor ----------------------------
(***************************************************************************)
(* The queue worker every Rust service of Grapl runs (rust/sqs-executor).  *)
(* A process receives a batch of messages, works on all of them            *)
(* concurrently (one future per message, `process_message`), and receives  *)
(* again when all of them are done.  A message is fetched from S3, given   *)
(* to the service's handler, its output is emitted, what was completed is  *)
(* remembered in a cache shared by all processes, and the message is       *)
(* deleted or moved to the dead letter queue.                              *)
(*                                                                         *)
(* Deletes and dead letter sends run as detached tokio tasks: they outlive *)
(* the future that spawned them (a panic or the batch timeout drops every  *)
(* future of the batch), but not the process.                              *)
(*                                                                         *)
(* An event stands for one unit of a message's payload with one output.    *)
(***************************************************************************)
EXTENDS Naturals, FiniteSets

CONSTANTS
  Messages,     \* message ids on the source queue
  Events,       \* the events in a payload
  TestEvents,   \* messages that are s3:TestEvent notifications
  Procs,        \* replicas of the service
  BatchSize,    \* messages per receive (10 in the code)
  MaxReceives,  \* maxReceiveCount of the queue's redrive policy (3 in the code)
  Hash(_)       \* DefaultHasher over a typed value

ASSUME ConstantsAssumption ==
  /\ TestEvents \subseteq Messages
  /\ BatchSize \in Nat \ {0}
  /\ MaxReceives \in Nat \ {0}

Output == Messages \X Events
Outputs(m) == {m} \X Events

(***************************************************************************)
(* Cache identities.  `Cacheable` hashes the value it is given with its    *)
(* own Hash impl, and the impls of String and Vec<u8> feed the hasher      *)
(* differently.  The worker looks a message id up as a String and stores   *)
(* it as a Vec<u8>; a generator looks an event up as the event, while a    *)
(* completed event is stored as the Vec<u8> that already is its identity.  *)
(***************************************************************************)
MessageKeyChecked(m) == Hash([type |-> "String", value |-> m])
MessageKeyStored(m) == Hash([type |-> "Bytes", value |-> m])
EventKeyChecked(o) == Hash([type |-> "Event", value |-> o])
EventKeyStored(o) ==
  Hash([type |-> "Bytes", value |-> Hash([type |-> "Event", value |-> o])])

StoredKeys ==
  {MessageKeyStored(m) : m \in Messages} \union {EventKeyStored(o) : o \in Output}

\* No two different things share a 64-bit identity.  Whether the two
\* identities of one and the same thing agree is left open.
ASSUME NoCollision ==
  /\ \A m, n \in Messages :
       MessageKeyStored(n) \in {MessageKeyStored(m), MessageKeyChecked(m)} => n = m
  /\ \A o, q \in Output :
       EventKeyStored(q) \in {EventKeyStored(o), EventKeyChecked(o)} => q = o
  /\ \A m \in Messages, o \in Output :
       /\ MessageKeyStored(m) \notin {EventKeyStored(o), EventKeyChecked(o)}
       /\ EventKeyStored(o) # MessageKeyChecked(m)

VARIABLES
  queue,        \* where each message is
  receives,     \* times each message was received, also its latest receipt
  deadLetters,  \* messages with a copy in the dead letter queue
  downstream,   \* outputs published: uploaded, and notified downstream
  cached,       \* identities in the completion cache
  work,         \* per process and message, the future working on it
  tasks         \* detached delete and send tasks

vars == <<queue, receives, deadLetters, downstream, cached, work, tasks>>

Stage == {"idle", "check", "fetch", "handle", "emit", "cacheMessage",
          "cacheEvents", "deadLetter", "deleting", "done"}
Verdict == {"none", "ok", "transient", "persistent"}
Receipt == 0 .. MaxReceives
Work == [stage : Stage, receipt : Receipt, out : SUBSET Events,
         todo : SUBSET Events, verdict : Verdict]
Task == [kind : {"delete", "send"}, proc : Procs, msg : Messages, receipt : Receipt]

Idle == [stage |-> "idle", receipt |-> 0, out |-> {}, todo |-> {}, verdict |-> "none"]
Received(n) == [Idle EXCEPT !.stage = "check", !.receipt = n]

Working(p, m) == work[p][m].stage \notin {"idle", "done"}
At(p, m, stage) == work[p][m].stage = stage
Goto(p, m, stage) == work' = [work EXCEPT ![p][m].stage = stage]
Finish(p, m) == work' = [work EXCEPT ![p][m] = [Idle EXCEPT !.stage = "done"]]
TaskOf(p, m, kind) ==
  [kind |-> kind, proc |-> p, msg |-> m, receipt |-> work[p][m].receipt]

Init ==
  /\ queue = [m \in Messages |-> "visible"]
  /\ receives = [m \in Messages |-> 0]
  /\ deadLetters = {}
  /\ downstream = {}
  /\ cached = {}
  /\ work = [p \in Procs |-> [m \in Messages |-> Idle]]
  /\ tasks = {}

-----------------------------------------------------------------------------
\* The source queue.

\* Mutant of Receive: the redrive limit is off by one.
ReceivePastLimit(p, batch) ==
  /\ \A m \in Messages : ~Working(p, m)
  /\ batch # {} /\ Cardinality(batch) <= BatchSize
  /\ \A m \in batch : queue[m] = "visible" /\ receives[m] <= MaxReceives
  /\ queue' = [m \in Messages |-> IF m \in batch THEN "inflight" ELSE queue[m]]
  /\ receives' = [m \in Messages |-> IF m \in batch THEN receives[m] + 1 ELSE receives[m]]
  /\ work' = [work EXCEPT ![p] =
       [m \in Messages |-> IF m \in batch THEN Received(receives[m] + 1) ELSE Idle]]
  /\ UNCHANGED <<deadLetters, downstream, cached, tasks>>

\* get_message: up to BatchSize visible messages, each with a new receipt.
\* The loop asks for more only when join_all has seen every future finish.
Receive(p, batch) ==
  /\ \A m \in Messages : ~Working(p, m)
  /\ batch # {} /\ Cardinality(batch) <= BatchSize
  /\ \A m \in batch : queue[m] = "visible" /\ receives[m] < MaxReceives
  /\ queue' = [m \in Messages |-> IF m \in batch THEN "inflight" ELSE queue[m]]
  /\ receives' = [m \in Messages |-> IF m \in batch THEN receives[m] + 1 ELSE receives[m]]
  /\ work' = [work EXCEPT ![p] =
       [m \in Messages |-> IF m \in batch THEN Received(receives[m] + 1) ELSE Idle]]
  /\ UNCHANGED <<deadLetters, downstream, cached, tasks>>

\* The visibility timeout of a received message runs out: nobody extends it
\* any more, or its keep-alive gave up while a worker still has it.
Expire(m) ==
  /\ queue[m] = "inflight"
  /\ queue' = [queue EXCEPT ![m] = "visible"]
  /\ UNCHANGED <<receives, deadLetters, downstream, cached, work, tasks>>

\* Mutant of Redrive: the retry queue is the queue itself.
RedriveToItself(m) ==
  /\ queue[m] = "visible" /\ receives[m] = MaxReceives
  /\ receives' = [receives EXCEPT ![m] = 0]
  /\ UNCHANGED <<queue, deadLetters, downstream, cached, work, tasks>>

\* The redrive policy moves a message received too often to the retry queue.
Redrive(m) ==
  /\ queue[m] = "visible" /\ receives[m] = MaxReceives
  /\ queue' = [queue EXCEPT ![m] = "redriven"]
  /\ UNCHANGED <<receives, deadLetters, downstream, cached, work, tasks>>

-----------------------------------------------------------------------------
\* process_message: the completion cache.

\* all_exist answers true: delete the message without working on it.
CheckHit(p, m) ==
  /\ At(p, m, "check")
  /\ MessageKeyChecked(m) \in cached
  /\ tasks' = tasks \union {TaskOf(p, m, "delete")}
  /\ Goto(p, m, "deleting")
  /\ UNCHANGED <<queue, receives, deadLetters, downstream, cached>>

\* all_exist answers false.
CheckMiss(p, m) ==
  /\ At(p, m, "check")
  /\ MessageKeyChecked(m) \notin cached
  /\ Goto(p, m, "fetch")
  /\ UNCHANGED <<queue, receives, deadLetters, downstream, cached, tasks>>

\* Redis does not answer: an unknown identity counts as not cached.
CheckUnavailable(p, m) ==
  /\ At(p, m, "check")
  /\ MessageKeyChecked(m) \in cached
  /\ Goto(p, m, "fetch")
  /\ UNCHANGED <<queue, receives, deadLetters, downstream, cached, tasks>>

-----------------------------------------------------------------------------
\* process_message: the payload.

FetchPayload(p, m) ==
  /\ At(p, m, "fetch") /\ m \notin TestEvents
  /\ Goto(p, m, "handle")
  /\ UNCHANGED <<queue, receives, deadLetters, downstream, cached, tasks>>

\* An s3:TestEvent has no payload: its delete is spawned and not awaited.
FetchTestEvent(p, m) ==
  /\ At(p, m, "fetch") /\ m \in TestEvents
  /\ tasks' = tasks \union {TaskOf(p, m, "delete")}
  /\ Finish(p, m)
  /\ UNCHANGED <<queue, receives, deadLetters, downstream, cached>>

\* S3 or I/O trouble: the message is left to become visible again.
FetchTransient(p, m) ==
  /\ At(p, m, "fetch") /\ m \notin TestEvents
  /\ Finish(p, m)
  /\ UNCHANGED <<queue, receives, deadLetters, downstream, cached, tasks>>

\* move_to_dead_letter, up to the send: its task runs detached.
StartDeadLetter(p, m) ==
  /\ tasks' = tasks \union {TaskOf(p, m, "send")}
  /\ work' = [work EXCEPT ![p][m] =
       [Idle EXCEPT !.stage = "deadLetter", !.receipt = work[p][m].receipt]]
  /\ UNCHANGED <<queue, receives, deadLetters, downstream, cached>>

\* The payload does not decode, and never will.
FetchPersistent(p, m) ==
  /\ At(p, m, "fetch") /\ m \notin TestEvents
  /\ StartDeadLetter(p, m)

-----------------------------------------------------------------------------
\* process_message: the handler.

\* The events a handler that consults the cache still has to do.  An answer
\* Redis does not give counts as a miss, so it may be asked for more.
Uncached(m) == {e \in Events : EventKeyChecked(<<m, e>>) \notin cached}
ToDo(m) == {fresh \in SUBSET Events : Uncached(m) \subseteq fresh}

StartEmit(p, m, out, verdict) ==
  /\ work' = [work EXCEPT ![p][m] =
       [stage |-> "emit", receipt |-> work[p][m].receipt, out |-> out,
        todo |-> out, verdict |-> verdict]]
  /\ UNCHANGED <<queue, receives, deadLetters, downstream, cached, tasks>>

\* Ok(total)
HandleOk(p, m) ==
  /\ At(p, m, "handle")
  /\ \E fresh \in ToDo(m) : StartEmit(p, m, fresh, "ok")

\* Err(Ok((partial, e))): some events failed, the others have an output.
HandlePartial(p, m) ==
  /\ At(p, m, "handle")
  /\ \E fresh \in ToDo(m), verdict \in {"transient", "persistent"} :
       \E good \in SUBSET fresh \ {fresh} : StartEmit(p, m, good, verdict)

\* Err(Err(e)), e recoverable: the message is left to become visible again.
HandleTransient(p, m) ==
  /\ At(p, m, "handle")
  /\ Finish(p, m)
  /\ UNCHANGED <<queue, receives, deadLetters, downstream, cached, tasks>>

\* Err(Err(e)), e not recoverable.
HandlePersistent(p, m) ==
  /\ At(p, m, "handle")
  /\ StartDeadLetter(p, m)

-----------------------------------------------------------------------------
\* process_message: emission.  The uploads of a message run concurrently.

EmitOne(p, m) ==
  /\ At(p, m, "emit")
  /\ \E e \in work[p][m].todo :
       /\ downstream' = downstream \union {<<m, e>>}
       /\ work' = [work EXCEPT ![p][m].todo = @ \ {e}]
  /\ UNCHANGED <<queue, receives, deadLetters, cached, tasks>>

\* Mutant of EmitDone: the uploads are started and not awaited.
EmitDoneEarly(p, m) ==
  /\ At(p, m, "emit")
  /\ Goto(p, m, IF work[p][m].verdict = "ok" THEN "cacheMessage" ELSE "cacheEvents")
  /\ UNCHANGED <<queue, receives, deadLetters, downstream, cached, tasks>>

\* emit_event returned Ok; if it had not, expect would have panicked (Abort).
EmitDone(p, m) ==
  /\ At(p, m, "emit") /\ work[p][m].todo = {}
  /\ Goto(p, m, IF work[p][m].verdict = "ok" THEN "cacheMessage" ELSE "cacheEvents")
  /\ UNCHANGED <<queue, receives, deadLetters, downstream, cached, tasks>>

-----------------------------------------------------------------------------
\* process_message: what was completed is remembered, then the message is
\* acknowledged.  A store that fails is logged and the work goes on.

CacheMessage(p, m) ==
  /\ At(p, m, "cacheMessage")
  /\ cached' \in {cached, cached \union {MessageKeyStored(m)}}
  /\ Goto(p, m, "cacheEvents")
  /\ UNCHANGED <<queue, receives, deadLetters, downstream, tasks>>

\* Mutant of CompletedKeys: failed events are remembered as completed too.
CompletedKeysWithFailures(p, m) == {EventKeyStored(<<m, e>>) : e \in Events}

CompletedKeys(p, m) == {EventKeyStored(<<m, e>>) : e \in work[p][m].out}

\* Mutant of CacheEvents: a recoverable partial failure is acknowledged.
CacheEventsAcksTransient(p, m) ==
  /\ At(p, m, "cacheEvents")
  /\ cached' \in {cached, cached \union CompletedKeys(p, m)}
  /\ tasks' = tasks \union
       {TaskOf(p, m, IF work[p][m].verdict = "persistent" THEN "send" ELSE "delete")}
  /\ Finish(p, m)
  /\ UNCHANGED <<queue, receives, deadLetters, downstream>>

\* cache_completed, and what each verdict does after it.
CacheEvents(p, m) ==
  /\ At(p, m, "cacheEvents")
  /\ cached' \in {cached, cached \union CompletedKeys(p, m)}
  /\ \/ /\ work[p][m].verdict = "ok"
        /\ tasks' = tasks \union {TaskOf(p, m, "delete")}
        /\ work' = [work EXCEPT ![p][m] =
             [Idle EXCEPT !.stage = "deleting", !.receipt = work[p][m].receipt]]
     \/ /\ work[p][m].verdict = "persistent"
        /\ tasks' = tasks \union {TaskOf(p, m, "send")}
        /\ work' = [work EXCEPT ![p][m] =
             [Idle EXCEPT !.stage = "deadLetter", !.receipt = work[p][m].receipt]]
     \/ /\ work[p][m].verdict = "transient"
        /\ Finish(p, m)
        /\ tasks' = tasks
  /\ UNCHANGED <<queue, receives, deadLetters, downstream>>

-----------------------------------------------------------------------------
\* The detached tasks.  A future that awaits its task resumes when it ends.

Awaits(t, stage) ==
  At(t.proc, t.msg, stage) /\ work[t.proc][t.msg].receipt = t.receipt

Resume(t, stage) ==
  IF Awaits(t, stage) THEN Finish(t.proc, t.msg) ELSE work' = work

\* delete_message succeeds.  SQS promises to delete only for the receipt of
\* the latest receive, and the retry queue does not know the receipt at all.
DeleteOk(t) ==
  /\ t.kind = "delete"
  /\ tasks' = tasks \ {t}
  /\ \/ /\ queue[t.msg] \in {"visible", "inflight"}
        /\ queue' = [queue EXCEPT ![t.msg] = "deleted"]
     \/ /\ t.receipt # receives[t.msg] \/ queue[t.msg] \notin {"visible", "inflight"}
        /\ queue' = queue
  /\ Resume(t, "deleting")
  /\ UNCHANGED <<receives, deadLetters, downstream, cached>>

\* Mutant of DeleteFail: the delete is retried without end, out of sight.
DeleteFailNeverReturns(t) ==
  /\ t.kind = "delete"
  /\ tasks' = tasks \ {t}
  /\ UNCHANGED <<queue, receives, deadLetters, downstream, cached, work>>

\* Five failed attempts, or an error that is not recoverable.
DeleteFail(t) ==
  /\ t.kind = "delete"
  /\ tasks' = tasks \ {t}
  /\ Resume(t, "deleting")
  /\ UNCHANGED <<queue, receives, deadLetters, downstream, cached>>

\* The copy is in the dead letter queue; move_to_dead_letter, if it still
\* runs, spawns the delete and awaits it.
SendOk(t) ==
  /\ t.kind = "send"
  /\ deadLetters' = deadLetters \union {t.msg}
  /\ IF Awaits(t, "deadLetter")
       THEN /\ tasks' = (tasks \ {t}) \union {[t EXCEPT !.kind = "delete"]}
            /\ Goto(t.proc, t.msg, "deleting")
       ELSE /\ tasks' = tasks \ {t}
            /\ work' = work
  /\ UNCHANGED <<queue, receives, downstream, cached>>

\* Mutant of SendFail: the delete follows a send that failed.
SendFailDeletes(t) ==
  /\ t.kind = "send"
  /\ tasks' = (tasks \ {t}) \union {[t EXCEPT !.kind = "delete"]}
  /\ Resume(t, "deadLetter")
  /\ UNCHANGED <<queue, receives, deadLetters, downstream, cached>>

\* The send reports an error; after a timeout the copy may be there anyway.
SendFail(t) ==
  /\ t.kind = "send"
  /\ deadLetters' \in {deadLetters, deadLetters \union {t.msg}}
  /\ tasks' = tasks \ {t}
  /\ Resume(t, "deadLetter")
  /\ UNCHANGED <<queue, receives, downstream, cached>>

-----------------------------------------------------------------------------
\* A panic in any future of the batch, or the 450 s batch timeout: every
\* future is dropped where it stands, the tasks they spawned go on.
Abort(p) ==
  /\ \E m \in Messages : Working(p, m)
  /\ work' = [work EXCEPT ![p] = [m \in Messages |-> Idle]]
  /\ UNCHANGED <<queue, receives, deadLetters, downstream, cached, tasks>>

\* The process dies, and its tasks with it; its replacement starts polling.
Crash(p) ==
  /\ \/ \E m \in Messages : Working(p, m)
     \/ \E t \in tasks : t.proc = p
  /\ work' = [work EXCEPT ![p] = [m \in Messages |-> Idle]]
  /\ tasks' = {t \in tasks : t.proc # p}
  /\ UNCHANGED <<queue, receives, deadLetters, downstream, cached>>

\* get_message returns nothing, or an error: sleep and ask again.
EmptyReceive(p) ==
  /\ \A m \in Messages : ~Working(p, m)
  /\ \A m \in Messages : queue[m] # "visible"
  /\ UNCHANGED vars

-----------------------------------------------------------------------------
WorkerStep(p, m) ==
  \/ CheckHit(p, m) \/ CheckMiss(p, m) \/ CheckUnavailable(p, m)
  \/ FetchPayload(p, m) \/ FetchTestEvent(p, m)
  \/ FetchTransient(p, m) \/ FetchPersistent(p, m)
  \/ HandleOk(p, m) \/ HandlePartial(p, m)
  \/ HandleTransient(p, m) \/ HandlePersistent(p, m)
  \/ EmitOne(p, m) \/ EmitDone(p, m)
  \/ CacheMessage(p, m) \/ CacheEvents(p, m)

TaskStep(t) == DeleteOk(t) \/ DeleteFail(t) \/ SendOk(t) \/ SendFail(t)

Next ==
  \/ \E p \in Procs :
       \/ \E batch \in SUBSET Messages : Receive(p, batch)
       \/ \E m \in Messages : WorkerStep(p, m)
       \/ Abort(p) \/ Crash(p) \/ EmptyReceive(p)
  \/ \E m \in Messages : Expire(m) \/ Redrive(m)
  \/ \E t \in tasks : TaskStep(t)

Spec == Init /\ [][Next]_vars

(***************************************************************************)
(* Fairness.  A future may hang, and so may a detached task: what ends a   *)
(* batch for certain is its 450 s timeout, which is Abort.  SQS runs its   *)
(* timers, and long polling returns a message that stays available to some *)
(* poll again and again in the end.                                        *)
(***************************************************************************)
Fairness ==
  /\ \A p \in Procs : WF_vars(Abort(p))
  /\ \A m \in Messages :
       /\ WF_vars(Expire(m))
       /\ WF_vars(Redrive(m))
       /\ SF_vars(\E p \in Procs : \E batch \in SUBSET Messages :
                    m \in batch /\ Receive(p, batch))

FairSpec == Spec /\ Fairness

-----------------------------------------------------------------------------
\* Properties.

\* Type correctness of the worker's state.
TypeOK ==
  /\ queue \in [Messages -> {"visible", "inflight", "deleted", "redriven"}]
  /\ receives \in [Messages -> Receipt]
  /\ deadLetters \in SUBSET Messages
  /\ downstream \in SUBSET Output
  /\ cached \in SUBSET StoredKeys
  /\ work \in [Procs -> [Messages -> Work]]
  /\ tasks \in SUBSET Task

\* Nothing more needs to be done for m.
Settled(m) ==
  m \in TestEvents \/ m \in deadLetters \/ Outputs(m) \subseteq downstream

\* A deleted message was settled first, whatever panics, batch timeouts,
\* crashes, premature redeliveries and failed calls happened on the way.
NoLoss == \A m \in Messages : queue[m] = "deleted" => Settled(m)

\* The cache claims nothing that is not true: a message id in it means every
\* output of the message is downstream, an event in it that the event's is.
\* A redelivery that trusts the cache therefore skips only what was emitted.
CacheIsTruthful ==
  /\ \A m \in Messages : MessageKeyStored(m) \in cached => Outputs(m) \subseteq downstream
  /\ \A o \in Output : EventKeyStored(o) \in cached => o \in downstream

\* A delete task that is under way belongs to a settled message: whenever it
\* runs, long after its batch was aborted too, it loses nothing.
DeleteTasksAreSafe == \A t \in tasks : t.kind = "delete" => Settled(t.msg)

\* A future that waits for a task waits for one that is under way, and one that does not
\* wait has none: no future waits in vain for a task that is gone, none is woken by the
\* task of an earlier receive, and no receive sends and deletes at once.
awaiting == [delete |-> "deleting", send |-> "deadLetter"]
WaitsForItsTask ==
  /\ \A p \in Procs, m \in Messages, kind \in DOMAIN awaiting :
       At(p, m, awaiting[kind]) => TaskOf(p, m, kind) \in tasks
  /\ \A t \in tasks :
       Working(t.proc, t.msg) /\ work[t.proc][t.msg].receipt = t.receipt =>
         At(t.proc, t.msg, awaiting[t.kind])

\* Every message leaves the source queue for good: it is deleted, or handed
\* to the retry queue by the redrive policy.
EventuallyLeaves == \A m \in Messages : <>(queue[m] \in {"deleted", "redriven"})

\* lib.rs: "Message has already been processed".  A message whose id is in
\* the cache is not worked on again while Redis answers.
ProcessedIsRecognised ==
  [][\A p \in Procs, m \in Messages :
       MessageKeyStored(m) \in cached => ~CheckMiss(p, m)]_vars

\* The worker implements at-least-once delivery.
Abstract == INSTANCE AtLeastOnce WITH
  acknowledged <- {m \in Messages : queue[m] = "deleted"}

DeliversAtLeastOnce == Abstract!Spec
=============================================================================
