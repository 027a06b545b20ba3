-------------------------- MODULE Pipeline_proofs --------------------------
(***************************************************************************)
(* Proofs about Pipeline, for any number of logs, analyzers, receives and  *)
(* faults: messages are well formed, nothing is lost, nothing comes to a   *)
(* retry queue for want of a grant, nothing goes round, and the pipeline   *)
(* as a whole implements AtLeastOnce.                                      *)
(***************************************************************************)
EXTENDS Pipeline, TLAPS

\* Every service may do in its default role what its code needs.
LEMMA DefaultRolesAreAllowed == \A s \in Services : Allowed(s, "default")
<1>1. ASSUME NEW s \in FargateServices
      PROVE  /\ <<s, "default", "get", s>> \in Grants
             /\ <<s, "default", "put", writesTo[s]>> \in Grants
  <2>1. FargateService(s) \subseteq Grants
    BY <1>1 DEF FargateServices, Generators, Grants, SysmonGraphGenerator,
       OSQueryGraphGenerator, NodeIdentifier, GraphMerger, AnalyzerDispatch, AnalyzerExecutor
  <2> QED BY <2>1 DEF FargateService, readsFromBucket, writesToBucket
<1>2. <<"engagement-creator", "default", "get", "engagement-creator">> \in Grants
  BY DEF Grants, EngagementCreator, readsFrom, both
<1>3. <<"engagement-creator", "default", "connect", "dgraph">> \in Grants
  BY DEF Grants, EngagementCreator
<1>4. <<"node-identifier", "default", "write", "history-db">> \in Grants
  BY DEF Grants, NodeIdentifier, allowReadWrite2
<1>5. /\ <<"graph-merger", "default", "read", "schema-table">> \in Grants
      /\ <<"graph-merger", "default", "connect", "dgraph">> \in Grants
  BY DEF Grants, GraphMerger, allowRead, both
<1>6. <<"analyzer-dispatcher", "default", "get", "analyzers-bucket">> \in Grants
  BY DEF Grants, AnalyzerDispatch, both
<1>7. /\ <<"analyzer-executor", "default", "get", "analyzers-bucket">> \in Grants
      /\ <<"analyzer-executor", "default", "get", "model-plugins-bucket">> \in Grants
      /\ <<"analyzer-executor", "default", "connect", "dgraph">> \in Grants
  BY DEF Grants, AnalyzerExecutor, both, readsFromBucket
<1>8. \A u \in uses : <<u[1], "default", u[2], u[3]>> \in Grants
  BY <1>3, <1>4, <1>5, <1>6, <1>7 DEF uses
<1> SUFFICES ASSUME NEW s \in Services, NEW need \in Needs(s)
             PROVE  <<s, "default", need[1], need[2]>> \in Grants
  BY DEF Allowed
<1>9. CASE need = <<"get", s>>
  BY <1>1, <1>2, <1>9 DEF Services
<1>10. CASE s \in FargateServices /\ need = <<"put", writesTo[s]>>
  BY <1>1, <1>10
<1>11. CASE \E u \in uses : u[1] = s /\ need = <<u[2], u[3]>>
  BY <1>8, <1>11
<1> QED BY <1>9, <1>10, <1>11 DEF Needs

-----------------------------------------------------------------------------
(* Types *)

Message ==
  [service : Services, queue : Queues, receives : 0..maxReceiveCount,
   state : {"visible", "handled"}, body : {"event", "string"},
   log : uploaded, analyzer : Analyzers \union {NoAnalyzer}]

\* What a message may stand for.
Verdicts == Logs \X (Analyzers \union {NoAnalyzer})

\* A message is for one analyzer from the dispatcher on.
AddressOK(m) ==
  m.analyzer \in IF m.service \in {"analyzer-executor", "engagement-creator"}
                 THEN Analyzers ELSE {NoAnalyzer}

Typed ==
  /\ uploaded \subseteq Logs /\ settled \subseteq Logs \X Analyzers
  /\ hung \subseteq Queues /\ dropped \subseteq Verdicts
  /\ faults \in 0..MaxFaults /\ poisoned \in 0..MaxPoison /\ redrives \in 0..MaxRedrives
  /\ messages \subseteq Message
  /\ \A m \in messages : AddressOK(m)

LEMMA TypedIsTypeOK == Typed => TypeOK
  BY DEF Typed, TypeOK, Message, AddressOK, Verdicts

LEMMA InitTyped == Init => Typed
  BY PipelineAssumption DEF Init, Typed

\* What becomes of a message that stays with its service.
LEMMA SameAddress ==
  ASSUME NEW m, NEW n, AddressOK(m), n.service = m.service, n.analyzer = m.analyzer
  PROVE  AddressOK(n)
  BY DEF AddressOK

\* One field of a message changes.
LEMMA SetQueue ==
  ASSUME NEW m \in Message, NEW q \in Queues, NEW n, n = [m EXCEPT !.queue = q]
  PROVE  /\ n \in Message /\ n.queue = q
         /\ n.service = m.service /\ n.receives = m.receives /\ n.state = m.state
         /\ n.body = m.body /\ n.log = m.log /\ n.analyzer = m.analyzer
  BY DEF Message

LEMMA SetReceives ==
  ASSUME NEW m \in Message, NEW r \in 0..maxReceiveCount, NEW n,
         n = [m EXCEPT !.receives = r]
  PROVE  /\ n \in Message /\ n.receives = r
         /\ n.service = m.service /\ n.queue = m.queue /\ n.state = m.state
         /\ n.body = m.body /\ n.log = m.log /\ n.analyzer = m.analyzer
  BY DEF Message

LEMMA SetState ==
  ASSUME NEW m \in Message, NEW s \in {"visible", "handled"}, NEW n,
         n = [m EXCEPT !.state = s]
  PROVE  /\ n \in Message /\ n.state = s
         /\ n.service = m.service /\ n.queue = m.queue /\ n.receives = m.receives
         /\ n.body = m.body /\ n.log = m.log /\ n.analyzer = m.analyzer
  BY DEF Message

LEMMA SetBody ==
  ASSUME NEW m \in Message, NEW b \in {"event", "string"}, NEW n,
         n = [m EXCEPT !.body = b]
  PROVE  /\ n \in Message /\ n.body = b
         /\ n.service = m.service /\ n.queue = m.queue /\ n.receives = m.receives
         /\ n.state = m.state /\ n.log = m.log /\ n.analyzer = m.analyzer
  BY DEF Message

\* What becomes of a message that is received, fails, dies or is moved.
LEMMA ReceivedTyped ==
  ASSUME NEW m \in Message, receivable(m)
  PROVE  /\ received(m) \in Message
         /\ received(m).state = m.state /\ received(m).receives = m.receives + 1
         /\ received(m).service = m.service /\ received(m).queue = m.queue
         /\ received(m).body = m.body /\ received(m).log = m.log
         /\ received(m).analyzer = m.analyzer
<1>1. PICK r : r = m.receives + 1
  OBVIOUS
<1>2. r \in 0..maxReceiveCount
  BY <1>1, PipelineAssumption DEF Message, receivable
<1>3. received(m) = [m EXCEPT !.receives = r]
  BY <1>1 DEF received
<1>4. /\ received(m) \in Message
      /\ received(m).state = m.state /\ received(m).receives = r
      /\ received(m).service = m.service /\ received(m).queue = m.queue
      /\ received(m).body = m.body /\ received(m).log = m.log
      /\ received(m).analyzer = m.analyzer
  BY <1>2, <1>3, SetReceives
<1> QED BY <1>1, <1>4

LEMMA HandledTyped ==
  ASSUME NEW m \in Message, receivable(m)
  PROVE  /\ handled(m) \in Message
         /\ handled(m).state = "handled" /\ handled(m).receives = m.receives + 1
         /\ handled(m).service = m.service /\ handled(m).queue = m.queue
         /\ handled(m).body = m.body /\ handled(m).log = m.log
         /\ handled(m).analyzer = m.analyzer
<1>1. handled(m) = [received(m) EXCEPT !.state = "handled"]
  BY DEF handled
<1>2. received(m) \in Message
  BY ReceivedTyped
<1>3. /\ handled(m) \in Message /\ handled(m).state = "handled"
      /\ handled(m).receives = received(m).receives
      /\ handled(m).service = received(m).service /\ handled(m).queue = received(m).queue
      /\ handled(m).body = received(m).body /\ handled(m).log = received(m).log
      /\ handled(m).analyzer = received(m).analyzer
  BY <1>1, <1>2, SetState
<1> QED BY <1>3, ReceivedTyped

LEMMA RetriedTyped ==
  ASSUME NEW m \in Message
  PROVE  /\ retried(m) \in Message
         /\ retried(m).state = m.state /\ retried(m).receives = m.receives
         /\ retried(m).service = m.service /\ retried(m).queue = "retry"
         /\ retried(m).body = m.body /\ retried(m).log = m.log
         /\ retried(m).analyzer = m.analyzer
<1>1. retried(m) = [m EXCEPT !.queue = "retry"]
  BY DEF retried
<1>2. "retry" \in Queues
  BY DEF Queues
<1> QED BY <1>1, <1>2, SetQueue

LEMMA FailedTyped ==
  ASSUME NEW m \in Message, receivable(m) \/ m.state = "handled"
  PROVE  /\ failed(m) \in Message /\ failed(m).state = "visible"
         /\ failed(m).receives = IF m.state = "visible" THEN m.receives + 1 ELSE m.receives
         /\ failed(m).service = m.service /\ failed(m).queue = m.queue
         /\ failed(m).body = m.body /\ failed(m).log = m.log
         /\ failed(m).analyzer = m.analyzer
<1>1. PICK n : n = [m EXCEPT !.state = "visible"]
  OBVIOUS
<1>2. PICK r : r = IF m.state = "visible" THEN m.receives + 1 ELSE m.receives
  OBVIOUS
<1>3. r \in 0..maxReceiveCount
  BY <1>2, PipelineAssumption DEF Message, receivable
<1>4. failed(m) = [n EXCEPT !.receives = r]
  BY <1>1, <1>2 DEF failed
<1>5. n \in Message /\ n.state = "visible" /\ n.service = m.service /\ n.queue = m.queue
      /\ n.receives = m.receives /\ n.body = m.body /\ n.log = m.log
      /\ n.analyzer = m.analyzer
  BY <1>1, SetState
<1>6. /\ failed(m) \in Message /\ failed(m).receives = r
      /\ failed(m).service = n.service /\ failed(m).queue = n.queue
      /\ failed(m).state = n.state /\ failed(m).body = n.body /\ failed(m).log = n.log
      /\ failed(m).analyzer = n.analyzer
  BY <1>3, <1>4, <1>5, SetReceives
<1> QED BY <1>2, <1>5, <1>6

LEMMA DeadTyped ==
  ASSUME NEW m \in Message
  PROVE  /\ dead(m) \in Message
         /\ dead(m).queue = "dead" /\ dead(m).body = "string" /\ dead(m).state = "visible"
         /\ dead(m).service = m.service /\ dead(m).log = m.log
         /\ dead(m).analyzer = m.analyzer
<1>1. PICK n1 : n1 = [m EXCEPT !.queue = "dead"]
  OBVIOUS
<1>2. PICK n2 : n2 = [n1 EXCEPT !.state = "visible"]
  OBVIOUS
<1>3. PICK n3 : n3 = [n2 EXCEPT !.receives = 0]
  OBVIOUS
<1>4. dead(m) = [n3 EXCEPT !.body = "string"]
  BY <1>1, <1>2, <1>3 DEF dead
<1>5. n1 \in Message /\ n1.service = m.service /\ n1.queue = "dead" /\ n1.log = m.log
      /\ n1.analyzer = m.analyzer
  BY <1>1, SetQueue DEF Queues
<1>6. n2 \in Message /\ n2.service = m.service /\ n2.queue = "dead" /\ n2.log = m.log
      /\ n2.analyzer = m.analyzer /\ n2.state = "visible"
  BY <1>2, <1>5, SetState
<1>7. n3 \in Message /\ n3.service = m.service /\ n3.queue = "dead" /\ n3.log = m.log
      /\ n3.analyzer = m.analyzer /\ n3.state = "visible"
  BY <1>3, <1>6, SetReceives, PipelineAssumption
<1> QED BY <1>4, <1>7, SetBody

LEMMA RedrivenTyped ==
  ASSUME NEW m \in Message, m.queue # "dead"
  PROVE  /\ redriven(m) \in Message /\ redriven(m).queue # "queue"
         /\ redriven(m).service = m.service /\ redriven(m).state = m.state
         /\ redriven(m).body = m.body /\ redriven(m).log = m.log
         /\ redriven(m).analyzer = m.analyzer
<1>0. 0 \in 0..maxReceiveCount
  BY PipelineAssumption
<1>1. PICK q : q = next[m.queue]
  OBVIOUS
<1>2. q \in Queues /\ q # "queue"
  BY <1>1 DEF Message, Queues, next
<1>3. PICK n : n = [m EXCEPT !.queue = q]
  OBVIOUS
<1>4. redriven(m) = [n EXCEPT !.receives = 0]
  BY <1>1, <1>3 DEF redriven
<1>5. n \in Message /\ n.queue = q /\ n.service = m.service /\ n.state = m.state
      /\ n.body = m.body /\ n.log = m.log /\ n.analyzer = m.analyzer
  BY <1>2, <1>3, SetQueue
<1>6. /\ redriven(m) \in Message /\ redriven(m).service = n.service
      /\ redriven(m).queue = n.queue /\ redriven(m).state = n.state
      /\ redriven(m).body = n.body /\ redriven(m).log = n.log
      /\ redriven(m).analyzer = n.analyzer
  BY <1>0, <1>4, <1>5, SetReceives
<1> QED BY <1>2, <1>5, <1>6

LEMMA NotificationsTyped ==
  ASSUME NEW s \in Services, NEW l \in uploaded, NEW A,
         A \subseteq IF s \in {"analyzer-executor", "engagement-creator"}
                      THEN Analyzers ELSE {NoAnalyzer}
  PROVE  \A n \in notifications(s, l, A) : n \in Message /\ AddressOK(n)
<1> TAKE n \in notifications(s, l, A)
<1>1. PICK a \in A :
        n = [service |-> s, queue |-> "queue", receives |-> 0, state |-> "visible",
             body |-> "event", log |-> l, analyzer |-> a]
  BY DEF notifications
<1> QED BY <1>1, PipelineAssumption DEF Message, AddressOK, Queues

\* Behind the dispatcher every service writes for one analyzer, before it for none.
LEMMA OutputsTyped ==
  ASSUME NEW m \in Message, AddressOK(m), m.service # "engagement-creator"
  PROVE  \A n \in outputs(m) : n \in Message /\ AddressOK(n)
<1> DEFINE A == IF m.service = "analyzer-dispatcher" THEN Analyzers ELSE {m.analyzer}
           s == writesTo[m.service]
<1>1. m.service \in FargateServices /\ m.log \in uploaded
  BY DEF Message, Services
<1>2. s \in Services
  BY <1>1 DEF writesTo, Services, FargateServices, Generators
<1>3. A \subseteq IF s \in {"analyzer-executor", "engagement-creator"}
                  THEN Analyzers ELSE {NoAnalyzer}
  BY <1>1 DEF writesTo, AddressOK, FargateServices, Generators
<1>4. outputs(m) = notifications(s, m.log, A)
  BY DEF outputs
<1> QED BY <1>1, <1>2, <1>3, <1>4, NotificationsTyped

\* What a step must keep to of the messages it makes.
LEMMA MessagesTyped ==
  ASSUME Typed, uploaded' = uploaded, NEW S, messages' \subseteq messages \union S,
         \A n \in S : n \in Message /\ AddressOK(n),
         settled' \subseteq Logs \X Analyzers, hung' \subseteq Queues,
         dropped' \subseteq Verdicts, faults' \in 0..MaxFaults,
         poisoned' \in 0..MaxPoison, redrives' \in 0..MaxRedrives
  PROVE  Typed'
<1>1. Message' = Message
  BY DEF Message
<1>2. /\ \A n : AddressOK(n)' <=> AddressOK(n)
      /\ Verdicts' = Verdicts
  BY DEF AddressOK, Verdicts
<1>3. \A n \in messages' : n \in Message /\ AddressOK(n)
  BY DEF Typed
<1> QED BY <1>1, <1>2, <1>3 DEF Typed

LEMMA StepTyped == Typed /\ [Next]_vars => Typed'
<1> SUFFICES ASSUME Typed, [Next]_vars PROVE Typed'
  OBVIOUS
<1>0. \A m \in messages : m \in Message /\ AddressOK(m)
  BY DEF Typed
<1>t. /\ settled \subseteq Logs \X Analyzers /\ hung \subseteq Queues
      /\ dropped \subseteq Verdicts /\ faults \in 0..MaxFaults
      /\ poisoned \in 0..MaxPoison /\ redrives \in 0..MaxRedrives
  BY DEF Typed
<1>1. CASE UNCHANGED vars
  BY <1>1 DEF vars, Typed, Message, AddressOK, Verdicts
<1>2. ASSUME NEW l \in Logs, Upload(l) PROVE Typed'
  <2>1. Message \subseteq Message' /\ uploaded' \subseteq Logs
    BY <1>2 DEF Message, Upload, Typed
  <2>2. \A n : AddressOK(n)' <=> AddressOK(n)
    BY DEF AddressOK
  <2>3. ASSUME NEW n \in notifications(Source[l], l, {NoAnalyzer})
        PROVE  n \in Message' /\ AddressOK(n)
    <3>1. n = [service |-> Source[l], queue |-> "queue", receives |-> 0, state |-> "visible",
               body |-> "event", log |-> l, analyzer |-> NoAnalyzer]
      BY <2>3 DEF notifications
    <3>2. Source[l] \in Generators /\ l \in uploaded'
      BY <1>2, PipelineAssumption DEF Upload
    <3>3. /\ Source[l] \in Services
          /\ Source[l] \notin {"analyzer-executor", "engagement-creator"}
      BY <3>2 DEF Generators, Services, FargateServices
    <3> QED BY <3>1, <3>2, <3>3, PipelineAssumption DEF Message, AddressOK, Queues
  <2>4. messages' = messages \union notifications(Source[l], l, {NoAnalyzer})
    BY <1>2 DEF Upload
  <2>5. \A n \in messages' : n \in Message' /\ AddressOK(n)
    BY <1>0, <2>1, <2>3, <2>4
  <2> QED BY <1>2, <1>t, <2>1, <2>2, <2>5 DEF Typed, Upload, Verdicts
<1>3. ASSUME NEW m \in messages, Redrive(m) PROVE Typed'
  <2>2. m.queue # "dead"
    BY <1>3 DEF Redrive, redrivePolicy
  <2>3. redriven(m) \in Message /\ AddressOK(redriven(m))
    BY <1>0, <2>2, RedrivenTyped, SameAddress
  <2>4. messages' \subseteq messages \union {redriven(m)}
    BY <1>3 DEF Redrive, become
  <2> QED BY <1>3, <1>t, <2>3, <2>4, MessagesTyped DEF Redrive
<1>4. ASSUME NEW m \in messages, Handle(m) PROVE Typed'
  <2>1. handled(m) \in Message /\ AddressOK(handled(m))
    BY <1>0, <1>4, HandledTyped, SameAddress DEF Handle
  <2>2. CASE /\ m.service # "engagement-creator"
             /\ become(m, {handled(m)} \union outputs(m))
             /\ UNCHANGED settled
    <3>1. \A n \in {handled(m)} \union outputs(m) : n \in Message /\ AddressOK(n)
      BY <1>0, <2>1, <2>2, OutputsTyped
    <3>2. messages' \subseteq messages \union ({handled(m)} \union outputs(m))
      BY <2>2 DEF become
    <3> QED BY <1>4, <1>t, <2>2, <3>1, <3>2, MessagesTyped DEF Handle
  <2>3. CASE /\ m.service \in {"analyzer-executor", "engagement-creator"}
             /\ become(m, {handled(m)})
             /\ settled' = settled \union {<<m.log, m.analyzer>>}
    <3>1. m.analyzer \in Analyzers /\ m.log \in Logs
      BY <1>0, <2>3 DEF AddressOK, Message, Typed
    <3>2. settled' \subseteq Logs \X Analyzers
      BY <1>t, <2>3, <3>1
    <3>3. messages' \subseteq messages \union {handled(m)}
      BY <2>3 DEF become
    <3> QED BY <1>4, <1>t, <2>1, <3>2, <3>3, MessagesTyped DEF Handle
  <2> QED BY <1>4, <2>2, <2>3 DEF Handle
<1>5. ASSUME NEW m \in messages, Delete(m) PROVE Typed'
  <2>1. messages' \subseteq messages \union {}
    BY <1>5 DEF Delete, become
  <2> QED BY <1>5, <1>t, <2>1, MessagesTyped DEF Delete
<1>6. ASSUME NEW m \in messages, Denied(m) PROVE Typed'
  <2>2. received(m) \in Message /\ AddressOK(received(m))
    BY <1>0, <1>6, ReceivedTyped, SameAddress DEF Denied
  <2>3. messages' \subseteq messages \union {received(m)}
    BY <1>6 DEF Denied, become
  <2> QED BY <1>6, <1>t, <2>2, <2>3, MessagesTyped DEF Denied
<1>7. ASSUME NEW batch \in Batches, Fault(batch) \/ Hang(batch) PROVE Typed'
  <2>1. \A m \in batch : m \in messages /\ (receivable(m) \/ m.state = "handled")
    BY DEF Batches
  <2>2. \A n \in {failed(m) : m \in batch} : n \in Message /\ AddressOK(n)
    BY <1>0, <2>1, FailedTyped, SameAddress
  <2>3. messages' \subseteq messages \union {failed(m) : m \in batch}
    BY <1>7 DEF Fault, Hang, bringBack
  <2>4. faults' \in 0..MaxFaults
    BY <1>7, <1>t, PipelineAssumption DEF Fault, Hang
  <2>5. hung' \subseteq Queues
    BY <1>0, <1>7, <1>t, <2>1 DEF Fault, Hang, Message
  <2>6. /\ uploaded' = uploaded /\ settled' \subseteq Logs \X Analyzers
        /\ dropped' \subseteq Verdicts
        /\ poisoned' \in 0..MaxPoison /\ redrives' \in 0..MaxRedrives
    BY <1>7, <1>t DEF Fault, Hang
  <2> QED BY <2>2, <2>3, <2>4, <2>5, <2>6, MessagesTyped
<1>8. ASSUME NEW m \in messages, NEW moved, Poisoned(m, moved) PROVE Typed'
  <2>0. PICK S : S = {dead(m), failed(m)}
    OBVIOUS
  <2>1. \A n \in S : n \in Message /\ AddressOK(n)
    BY <1>0, <1>8, <2>0, DeadTyped, FailedTyped, SameAddress DEF Poisoned
  <2>2. messages' \subseteq messages \union S
    BY <1>8, <2>0 DEF Poisoned, become
  <2>3. poisoned' \in 0..MaxPoison
    BY <1>8, <1>t, PipelineAssumption DEF Poisoned
  <2>5. /\ uploaded' = uploaded /\ settled' \subseteq Logs \X Analyzers
        /\ hung' \subseteq Queues /\ dropped' \subseteq Verdicts
        /\ faults' \in 0..MaxFaults /\ redrives' \in 0..MaxRedrives
    BY <1>8, <1>t DEF Poisoned
  <2> QED BY <2>1, <2>2, <2>3, <2>5, MessagesTyped
<1>9. ASSUME NEW m \in messages, NEW sent, NEW deleted, OperatorRedrive(m, sent, deleted)
      PROVE  Typed'
  <2>0. PICK S : S = {retried(m)}
    OBVIOUS
  <2>2. \A n \in S : n \in Message /\ AddressOK(n)
    BY <1>0, <2>0, RetriedTyped, SameAddress
  <2>3. messages' \subseteq messages \union S
    BY <1>9, <2>0 DEF OperatorRedrive, become
  <2>4. redrives' \in 0..MaxRedrives
    BY <1>9, <1>t, PipelineAssumption DEF OperatorRedrive
  <2>5. /\ uploaded' = uploaded /\ settled' \subseteq Logs \X Analyzers
        /\ hung' \subseteq Queues
        /\ faults' \in 0..MaxFaults /\ poisoned' \in 0..MaxPoison
    BY <1>9, <1>t DEF OperatorRedrive
  <2>6. <<m.log, m.analyzer>> \in Verdicts
    BY <1>0 DEF Message, Typed, Verdicts
  <2>7. dropped' \subseteq Verdicts
    BY <1>9, <1>t, <2>6 DEF OperatorRedrive
  <2> QED BY <2>4, <2>2, <2>3, <2>5, <2>7, MessagesTyped
<1>10. ASSUME NEW q, Restart(q) PROVE Typed'
  <2>0. PICK S : S = {}
    OBVIOUS
  <2>1. /\ messages' \subseteq messages \union S /\ uploaded' = uploaded
        /\ settled' \subseteq Logs \X Analyzers /\ hung' \subseteq Queues
        /\ dropped' \subseteq Verdicts /\ faults' \in 0..MaxFaults
        /\ poisoned' \in 0..MaxPoison /\ redrives' \in 0..MaxRedrives
    BY <1>10, <1>t DEF Restart
  <2> QED BY <2>0, <2>1, MessagesTyped
<1> QED BY <1>1, <1>2, <1>3, <1>4, <1>5, <1>6, <1>7, <1>8, <1>9, <1>10 DEF Next, Progress

\* Messages are well formed, and received at most maxReceiveCount times from a queue.
THEOREM TypeCorrect == Spec => []TypeOK
<1>1. Spec => []Typed
  BY InitTyped, StepTyped, PTL DEF Spec
<1> QED BY <1>1, TypedIsTypeOK, PTL

-----------------------------------------------------------------------------
(* Nothing is lost *)

\* That a message stands for a verdict is not inductive: one that was handled stands
\* for it too, and is deleted.  One that is visible does, until a redrive loses it.
StandsFor(m, l, a) ==
  m.log = l /\ m.analyzer \in {a, NoAnalyzer} /\ m.state = "visible"

Stands ==
  \A l \in uploaded, a \in Analyzers :
    <<l, a>> \in settled \/ Dropped(l, a) \/ \E m \in messages : StandsFor(m, l, a)

LEMMA StandsIsNothingLost == Stands => NothingLost
  BY DEF Stands, StandsFor, NothingLost, Carried

LEMMA InitStands == Init => Stands
  BY DEF Init, Stands

\* It is enough that what a visible message stood for has another, or is settled, or lost.
LEMMA Succession ==
  ASSUME Stands, uploaded' = uploaded, settled \subseteq settled', dropped \subseteq dropped',
         \A l \in uploaded, a \in Analyzers : \A m \in messages :
           StandsFor(m, l, a) =>
             \/ <<l, a>> \in settled' \/ Dropped(l, a)'
             \/ \E n \in messages' : StandsFor(n, l, a)
  PROVE  Stands'
<1>1. \A n, l, a : StandsFor(n, l, a)' <=> StandsFor(n, l, a)
  BY DEF StandsFor
<1>2. \A l, a : Dropped(l, a) => Dropped(l, a)'
  BY DEF Dropped
<1> QED BY <1>1, <1>2 DEF Stands

\* A step that takes away one message and brings one that stands for the same.
LEMMA Replaced ==
  ASSUME Stands, uploaded' = uploaded, settled \subseteq settled', dropped \subseteq dropped',
         NEW m \in messages, messages \ {m} \subseteq messages', NEW n \in messages',
         n.log = m.log, n.analyzer = m.analyzer, n.state = "visible"
  PROVE  Stands'
<1>1. ASSUME NEW l \in uploaded, NEW a \in Analyzers, NEW k \in messages,
             StandsFor(k, l, a)
      PROVE  \E i \in messages' : StandsFor(i, l, a)
  <2>1. CASE k = m
    BY <1>1, <2>1 DEF StandsFor
  <2>2. CASE k # m
    BY <1>1, <2>2
  <2> QED BY <2>1, <2>2
<1> QED BY <1>1, Succession

\* A service's outputs stand for what its message stood for.
LEMMA OutputsStand ==
  ASSUME NEW m \in Message, NEW a \in Analyzers, StandsFor(m, m.log, a)
  PROVE  \E n \in outputs(m) : StandsFor(n, m.log, a)
<1> DEFINE b == IF m.service = "analyzer-dispatcher" THEN a ELSE m.analyzer
           A == IF m.service = "analyzer-dispatcher" THEN Analyzers ELSE {m.analyzer}
<1>1. PICK n : n = [service |-> writesTo[m.service], queue |-> "queue", receives |-> 0,
                    state |-> "visible", body |-> "event", log |-> m.log, analyzer |-> b]
  OBVIOUS
<1>2. b \in A /\ b \in {a, NoAnalyzer}
  BY DEF StandsFor
<1>3. n \in outputs(m)
  <2> HIDE DEF b
  <2> QED BY <1>1, <1>2 DEF outputs, notifications
<1>4. StandsFor(n, m.log, a)
  <2> HIDE DEF b
  <2> QED BY <1>1, <1>2 DEF StandsFor
<1> QED BY <1>3, <1>4

LEMMA StepStands == Typed /\ Stands /\ [Next]_vars => Stands'
<1> SUFFICES ASSUME Typed, Stands, [Next]_vars PROVE Stands'
  OBVIOUS
<1>0. \A m \in messages : m \in Message /\ AddressOK(m)
  BY DEF Typed
<1>1. CASE UNCHANGED vars
  BY <1>1 DEF vars, Stands, StandsFor, Dropped
<1>2. ASSUME NEW l \in Logs, Upload(l) PROVE Stands'
  <2>1. PICK n : n = [service |-> Source[l], queue |-> "queue", receives |-> 0,
                      state |-> "visible", body |-> "event", log |-> l,
                      analyzer |-> NoAnalyzer]
    OBVIOUS
  <2>2. n \in messages' /\ messages \subseteq messages'
    BY <1>2, <2>1 DEF Upload, notifications
  <2>3. \A a : StandsFor(n, l, a)
    BY <2>1 DEF StandsFor
  <2>4. \A k, i, a : StandsFor(k, i, a)' <=> StandsFor(k, i, a)
    BY DEF StandsFor
  <2>5. uploaded' = uploaded \union {l} /\ settled' = settled
    BY <1>2 DEF Upload
  <2>6. \A i, a : Dropped(i, a) => Dropped(i, a)'
    BY <1>2 DEF Upload, Dropped
  <2> QED BY <2>2, <2>3, <2>4, <2>5, <2>6 DEF Stands
<1>3. ASSUME NEW m \in messages, Redrive(m) PROVE Stands'
  <2>1. /\ messages \ {m} \subseteq messages' /\ redriven(m) \in messages'
        /\ m.queue # "dead" /\ m.state = "visible" /\ UNCHANGED <<uploaded, settled, dropped>>
    BY <1>3 DEF Redrive, become, redrivePolicy
  <2> QED BY <1>0, <2>1, RedrivenTyped, Replaced
<1>4. ASSUME NEW m \in messages, Handle(m) PROVE Stands'
  <2>1. ASSUME NEW l \in uploaded, NEW a \in Analyzers, NEW k \in messages,
               StandsFor(k, l, a)
        PROVE  <<l, a>> \in settled' \/ \E n \in messages' : StandsFor(n, l, a)
    <3>1. CASE k # m
      BY <1>4, <2>1, <3>1 DEF Handle, become
    <3>2. CASE k = m /\ m.service # "engagement-creator" /\ outputs(m) \subseteq messages'
      <4>1. l = m.log
        BY <2>1, <3>2 DEF StandsFor
      <4> QED BY <1>0, <2>1, <3>2, <4>1, OutputsStand
    <3>3. CASE /\ k = m /\ m.service \in {"analyzer-executor", "engagement-creator"}
               /\ settled' = settled \union {<<m.log, m.analyzer>>}
      <4>1. m.analyzer \in Analyzers
        BY <1>0, <3>3 DEF AddressOK
      <4>2. l = m.log /\ a = m.analyzer
        BY <2>1, <3>3, <4>1, PipelineAssumption DEF StandsFor
      <4> QED BY <3>3, <4>2
    <3> QED BY <1>4, <3>1, <3>2, <3>3 DEF Handle, become
  <2>2. uploaded' = uploaded /\ settled \subseteq settled' /\ dropped \subseteq dropped'
    BY <1>4 DEF Handle
  <2> QED BY <2>1, <2>2, Succession
<1>5. ASSUME NEW m \in messages, Delete(m) PROVE Stands'
  <2>1. /\ m.state = "handled" /\ messages' = messages \ {m}
        /\ UNCHANGED <<uploaded, settled, dropped>>
    BY <1>5 DEF Delete, become
  <2>2. \A l, a : ~StandsFor(m, l, a)
    BY <2>1 DEF StandsFor
  <2> QED BY <2>1, <2>2, Succession
<1>6. ASSUME NEW m \in messages, Denied(m) PROVE Stands'
  <2>1. /\ messages \ {m} \subseteq messages' /\ received(m) \in messages'
        /\ receivable(m) /\ UNCHANGED <<uploaded, settled, dropped>>
    BY <1>6 DEF Denied, become
  <2>2. m.state = "visible"
    BY <2>1 DEF receivable
  <2> QED BY <1>0, <2>1, <2>2, ReceivedTyped, Replaced
<1>7. ASSUME NEW batch \in Batches, Fault(batch) \/ Hang(batch) PROVE Stands'
  <2>1. \A m \in batch : m \in messages /\ (receivable(m) \/ m.state = "handled")
    BY DEF Batches
  <2>2. /\ messages' = (messages \ batch) \union {failed(m) : m \in batch}
        /\ UNCHANGED <<uploaded, settled, dropped>>
    BY <1>7 DEF Fault, Hang, bringBack
  <2>3. ASSUME NEW l \in uploaded, NEW a \in Analyzers, NEW k \in messages,
               StandsFor(k, l, a)
        PROVE  \E n \in messages' : StandsFor(n, l, a)
    <3>1. CASE k \notin batch
      BY <2>2, <2>3, <3>1
    <3>2. CASE k \in batch
      <4>1. failed(k) \in messages'
        BY <2>2, <3>2
      <4>2. StandsFor(failed(k), l, a)
        BY <1>0, <2>1, <2>3, <3>2, FailedTyped DEF StandsFor
      <4> QED BY <4>1, <4>2
    <3> QED BY <3>1, <3>2
  <2> QED BY <2>2, <2>3, Succession
<1>8. ASSUME NEW m \in messages, NEW moved, Poisoned(m, moved) PROVE Stands'
  <2>1. /\ messages \ {m} \subseteq messages' /\ dead(m) \in messages'
        /\ UNCHANGED <<uploaded, settled, dropped>>
    BY <1>8 DEF Poisoned, become
  <2> QED BY <1>0, <2>1, DeadTyped, Replaced
<1>9. ASSUME NEW m \in messages, NEW sent, NEW deleted, OperatorRedrive(m, sent, deleted)
      PROVE  Stands'
  <2>1. /\ messages \ {m} \subseteq messages' /\ UNCHANGED <<uploaded, settled>>
        /\ dropped \subseteq dropped'
    BY <1>9 DEF OperatorRedrive, become
  <2>2. CASE retried(m) \in messages' /\ m.state = "visible"
    BY <1>0, <2>1, <2>2, RetriedTyped, Replaced
  <2>3. CASE \A l, a : ~StandsFor(m, l, a)
    BY <2>1, <2>3, Succession
  <2>4. CASE m \in messages'
    BY <2>1, <2>4, Succession
  <2>5. CASE <<m.log, m.analyzer>> \in dropped'
    <3>1. \A l, a : StandsFor(m, l, a) => Dropped(l, a)'
      BY <2>5 DEF StandsFor, Dropped
    <3> QED BY <2>1, <3>1, Succession
  <2> QED BY <1>9, <2>2, <2>3, <2>4, <2>5 DEF OperatorRedrive, become, StandsFor
<1>10. ASSUME NEW q, Restart(q) PROVE Stands'
  BY <1>10, Succession DEF Restart
<1> QED BY <1>1, <1>2, <1>3, <1>4, <1>5, <1>6, <1>7, <1>8, <1>9, <1>10 DEF Next, Progress

\* Whatever fails, a log that was uploaded is judged or a message stands for it, or an
\* operator's redrive lost that message.
THEOREM NothingIsLost == Spec => []NothingLost
<1>1. Spec => [](Typed /\ Stands)
  BY InitTyped, StepTyped, InitStands, StepStands, PTL DEF Spec
<1> QED BY <1>1, StandsIsNothingLost, PTL

-----------------------------------------------------------------------------
(* Nothing is retried for want of a grant *)

\* What has brought a message to where it is, of so many failures f and poisonings p:
\* in its queue every receive was one, the last apart while the message is handled.
Paid(m, f, p) ==
  /\ m.queue = "queue" =>
       m.body = "event" /\ m.receives <= f + p + (IF m.state = "handled" THEN 1 ELSE 0)
  /\ m.queue # "queue" => f + p >= maxReceiveCount \/ (p > 0 /\ m.body = "string")

AllPaid == \A m \in messages : Paid(m, faults, poisoned)

LEMMA AllPaidIsNoFreeRetry == AllPaid => NoFreeRetry
  BY DEF AllPaid, Paid, NoFreeRetry

LEMMA InitAllPaid == Init => AllPaid
  BY DEF Init, AllPaid

\* Failures only add up.
LEMMA StillPaid ==
  ASSUME NEW m \in Message, NEW f \in Nat, NEW p \in Nat, NEW g \in Nat, NEW q \in Nat,
         f <= g, p <= q, Paid(m, f, p)
  PROVE  Paid(m, g, q)
<1>1. m.receives \in Nat
  BY PipelineAssumption DEF Message
<1> QED BY <1>1, PipelineAssumption DEF Paid

\* A message that fails costs one.
LEMMA FailedPaid ==
  ASSUME NEW m \in Message, NEW f \in Nat, NEW p \in Nat, NEW g \in Nat, NEW q \in Nat,
         f <= g, p <= q, f + p + 1 <= g + q, Paid(m, f, p),
         receivable(m) \/ m.state = "handled"
  PROVE  Paid(failed(m), g, q)
<1>1. m.receives \in Nat
  BY PipelineAssumption DEF Message
<1>2. /\ failed(m).queue = m.queue /\ failed(m).body = m.body
      /\ failed(m).state = "visible"
      /\ failed(m).receives = IF m.state = "visible" THEN m.receives + 1 ELSE m.receives
  BY FailedTyped
<1>3. m.state \in {"visible", "handled"}
  BY DEF Message
<1> QED BY <1>1, <1>2, <1>3, PipelineAssumption DEF Paid

\* What a step must keep to.
LEMMA PaidStep ==
  ASSUME Typed, AllPaid, faults' \in Nat, poisoned' \in Nat,
         faults <= faults', poisoned <= poisoned', NEW S,
         messages' \subseteq messages \union S,
         \A n \in S : Paid(n, faults', poisoned')
  PROVE  AllPaid'
<1>1. faults \in Nat /\ poisoned \in Nat /\ messages \subseteq Message
  BY PipelineAssumption DEF Typed
<1>2. \A m \in messages : Paid(m, faults', poisoned')
  BY <1>1, StillPaid DEF AllPaid
<1>3. \A n, f, p : Paid(n, f, p)' <=> Paid(n, f, p)
  BY DEF Paid
<1>4. \A n \in messages' : Paid(n, faults', poisoned')
  BY <1>2
<1> QED BY <1>4 DEF AllPaid, Paid

\* Fresh messages owe nothing.
LEMMA FreshPaid ==
  ASSUME NEW s, NEW l, NEW A, NEW f \in Nat, NEW p \in Nat
  PROVE  \A n \in notifications(s, l, A) : Paid(n, f, p)
  BY DEF notifications, Paid

LEMMA StepPaid == Typed /\ AllPaid /\ [Next]_vars => AllPaid'
<1> SUFFICES ASSUME Typed, AllPaid, [Next]_vars PROVE AllPaid'
  OBVIOUS
<1>0. \A m \in messages : m \in Message /\ Paid(m, faults, poisoned)
  BY DEF Typed, AllPaid
<1>n. faults \in Nat /\ poisoned \in Nat
  BY PipelineAssumption DEF Typed
<1>1. CASE UNCHANGED vars
  BY <1>1 DEF vars, AllPaid, Paid
<1>2. ASSUME NEW l \in Logs, Upload(l) PROVE AllPaid'
  <2>1. PICK S : S = notifications(Source[l], l, {NoAnalyzer})
    OBVIOUS
  <2>2. messages' \subseteq messages \union S /\ faults' = faults /\ poisoned' = poisoned
    BY <1>2, <2>1 DEF Upload
  <2>3. \A n \in S : Paid(n, faults', poisoned')
    BY <1>n, <2>1, <2>2, FreshPaid
  <2> QED BY <1>n, <2>2, <2>3, PaidStep
<1>3. ASSUME NEW m \in messages, Redrive(m) PROVE AllPaid'
  <2>1. PICK S : S = {redriven(m)}
    OBVIOUS
  <2>2. messages' \subseteq messages \union S /\ faults' = faults /\ poisoned' = poisoned
    BY <1>3, <2>1 DEF Redrive, become
  <2>3. m.state = "visible" /\ m.queue # "dead" /\ m.receives = maxReceiveCount
    BY <1>3 DEF Redrive, redrivePolicy
  <2>4. redriven(m).queue # "queue" /\ redriven(m).body = m.body
    BY <1>0, <2>3, RedrivenTyped
  <2>5. Paid(redriven(m), faults, poisoned)
    BY <1>0, <1>n, <2>3, <2>4, PipelineAssumption DEF Paid
  <2>6. \A n \in S : Paid(n, faults', poisoned')
    BY <2>1, <2>2, <2>5
  <2> QED BY <1>n, <2>2, <2>6, PaidStep
<1>4. ASSUME NEW m \in messages, Handle(m) PROVE AllPaid'
  <2>1. PICK S : S = {handled(m)} \union outputs(m)
    OBVIOUS
  <2>2. messages' \subseteq messages \union S /\ faults' = faults /\ poisoned' = poisoned
    BY <1>4, <2>1 DEF Handle, become
  <2>3. m.state = "visible" /\ m.receives \in Nat /\ receivable(m)
    BY <1>0, <1>4, PipelineAssumption DEF Handle, receivable, Message
  <2>4. /\ handled(m).queue = m.queue /\ handled(m).body = m.body
        /\ handled(m).state = "handled" /\ handled(m).receives = m.receives + 1
    BY <1>0, <2>3, HandledTyped
  <2>5. Paid(handled(m), faults, poisoned)
    BY <1>0, <1>n, <2>3, <2>4 DEF Paid
  <2>6. \A n \in outputs(m) : Paid(n, faults, poisoned)
    BY <1>n, FreshPaid DEF outputs
  <2>7. \A n \in S : Paid(n, faults', poisoned')
    BY <2>1, <2>2, <2>5, <2>6
  <2> QED BY <1>n, <2>2, <2>7, PaidStep
<1>5. ASSUME NEW m \in messages, Delete(m) PROVE AllPaid'
  <2>1. PICK S : S = {}
    OBVIOUS
  <2>2. messages' \subseteq messages \union S /\ faults' = faults /\ poisoned' = poisoned
    BY <1>5, <2>1 DEF Delete, become
  <2> QED BY <1>n, <2>1, <2>2, PaidStep
<1>6. ASSUME NEW m \in messages, Denied(m) PROVE AllPaid'
  <2>1. PICK S : S = {received(m)}
    OBVIOUS
  <2>2. messages' \subseteq messages \union S /\ faults' = faults /\ poisoned' = poisoned
    BY <1>6, <2>1 DEF Denied, become
  <2>3. receivable(m) /\ ~CanHandle(m)
    BY <1>6 DEF Denied
  <2>4. m.queue # "queue"
    <3>1. SUFFICES ASSUME m.queue = "queue" PROVE FALSE
      OBVIOUS
    <3>2. m.body = "event" /\ m.service \in Services /\ roleOf[m.queue] = "default"
      BY <1>0, <3>1 DEF Paid, Message, roleOf
    <3> QED BY <2>3, <3>2, DefaultRolesAreAllowed DEF CanHandle
  <2>5. received(m).queue = m.queue /\ received(m).body = m.body
    BY <1>0, <2>3, ReceivedTyped
  <2>6. Paid(received(m), faults, poisoned)
    BY <1>0, <2>4, <2>5 DEF Paid
  <2>7. \A n \in S : Paid(n, faults', poisoned')
    BY <2>1, <2>2, <2>6
  <2> QED BY <1>n, <2>2, <2>7, PaidStep
<1>7. ASSUME NEW batch \in Batches, Fault(batch) \/ Hang(batch) PROVE AllPaid'
  <2>1. PICK S : S = {failed(m) : m \in batch}
    OBVIOUS
  <2>2. /\ messages' \subseteq messages \union S
        /\ faults' = faults + 1 /\ poisoned' = poisoned
    BY <1>7, <2>1 DEF Fault, Hang, bringBack
  <2>3. \A m \in batch : m \in messages /\ (receivable(m) \/ m.state = "handled")
    BY DEF Batches
  <2>4. ASSUME NEW m \in batch PROVE Paid(failed(m), faults', poisoned')
    BY <1>0, <1>n, <2>2, <2>3, FailedPaid
  <2>5. \A n \in S : Paid(n, faults', poisoned')
    BY <2>1, <2>4
  <2> QED BY <1>n, <2>2, <2>5, PaidStep
<1>8. ASSUME NEW m \in messages, NEW moved, Poisoned(m, moved) PROVE AllPaid'
  <2>1. PICK S : S = {dead(m), failed(m)}
    OBVIOUS
  <2>2. messages' \subseteq messages \union S
    BY <1>8, <2>1 DEF Poisoned, become
  <2>3. /\ receivable(m) \/ m.state = "handled"
        /\ faults' = faults /\ poisoned' = poisoned + 1
    BY <1>8 DEF Poisoned
  <2>4. dead(m).queue = "dead" /\ dead(m).body = "string"
    BY <1>0, DeadTyped
  <2>5. Paid(dead(m), faults', poisoned')
    BY <1>n, <2>3, <2>4 DEF Paid
  <2>6. Paid(failed(m), faults', poisoned')
    BY <1>0, <1>n, <2>3, FailedPaid
  <2>7. \A n \in S : Paid(n, faults', poisoned')
    BY <2>1, <2>5, <2>6
  <2> QED BY <1>n, <2>2, <2>3, <2>7, PaidStep
<1>9. ASSUME NEW m \in messages, NEW sent, NEW deleted, OperatorRedrive(m, sent, deleted)
      PROVE  AllPaid'
  <2>1. PICK S : S = {retried(m)}
    OBVIOUS
  <2>2. messages' \subseteq messages \union S
    BY <1>9, <2>1 DEF OperatorRedrive, become
  <2>3. m.queue = "dead" /\ faults' = faults /\ poisoned' = poisoned
    BY <1>9 DEF OperatorRedrive
  <2>4. retried(m).queue = "retry" /\ retried(m).body = m.body
    BY <1>0, RetriedTyped
  <2>5. Paid(retried(m), faults, poisoned)
    BY <1>0, <2>3, <2>4 DEF Paid
  <2>6. \A n \in S : Paid(n, faults', poisoned')
    BY <2>1, <2>3, <2>5
  <2> QED BY <1>n, <2>2, <2>3, <2>6, PaidStep
<1>10. ASSUME NEW q, Restart(q) PROVE AllPaid'
  <2>1. PICK S : S = {}
    OBVIOUS
  <2>2. messages' \subseteq messages \union S /\ faults' = faults /\ poisoned' = poisoned
    BY <1>10, <2>1 DEF Restart
  <2> QED BY <1>n, <2>1, <2>2, PaidStep
<1> QED BY <1>1, <1>2, <1>3, <1>4, <1>5, <1>6, <1>7, <1>8, <1>9, <1>10 DEF Next, Progress

\* A message comes to a retry queue only for maxReceiveCount faults, or as poisoned.
THEOREM RetriesAreForFaults == Spec => []NoFreeRetry
<1>1. Spec => [](Typed /\ AllPaid)
  BY InitTyped, StepTyped, InitAllPaid, StepPaid, PTL DEF Spec
<1> QED BY <1>1, AllPaidIsNoFreeRetry, PTL

-----------------------------------------------------------------------------
(* Nothing goes round *)

\* Every bucket is that of a later service.
LEMMA WritesFurther ==
  \A s \in FargateServices : hops[writesTo[s]] > hops[s] /\ writesTo[s] # s
<1>1. \A s \in FargateServices : s \in Services /\ writesTo[s] \in Services
  BY DEF writesTo, Services, FargateServices, Generators
<1>2. \A s \in Generators : hops[s] = 0
  BY DEF hops, Services, FargateServices, Generators
<1>3. /\ hops["node-identifier"] = 1 /\ hops["graph-merger"] = 2
      /\ hops["analyzer-dispatcher"] = 3 /\ hops["analyzer-executor"] = 4
      /\ hops["engagement-creator"] = 5
  BY DEF hops, Services, FargateServices, Generators
<1>4. \A s \in Generators : writesTo[s] = "node-identifier" /\ s # "node-identifier"
  BY DEF writesTo, FargateServices, Generators
<1>5. /\ writesTo["node-identifier"] = "graph-merger"
      /\ writesTo["graph-merger"] = "analyzer-dispatcher"
      /\ writesTo["analyzer-dispatcher"] = "analyzer-executor"
      /\ writesTo["analyzer-executor"] = "engagement-creator"
  BY DEF writesTo, FargateServices, Generators
<1> QED BY <1>2, <1>3, <1>4, <1>5 DEF FargateServices

\* And every queue before the last leads to a later one.
LEMMA RedrivenFurther ==
  ASSUME NEW m \in Message, m.queue # "dead"
  PROVE  Further(redriven(m), m) /\ redriven(m) # m
<1>1. redriven(m).queue = next[m.queue]
  BY DEF redriven, Message
<1>2. m.queue \in {"queue", "retry"}
  BY DEF Message, Queues
<1>3. turns[next[m.queue]] > turns[m.queue] /\ next[m.queue] # m.queue
  BY <1>2 DEF turns, next
<1>4. redriven(m).service = m.service
  BY RedrivenTyped
<1> QED BY <1>1, <1>3, <1>4 DEF Further

\* A step that takes one message and brings what is further along.
LEMMA Advances ==
  ASSUME NEW m \in messages, NEW S, messages' = (messages \ {m}) \union S,
         \A n \in S : n.log = m.log /\ Further(n, m) /\ n # m
  PROVE  \E k \in messages \ messages' : \A n \in messages' \ messages :
           n.log = k.log /\ Further(n, k)
  OBVIOUS

LEMMA StepGoesForward ==
  Typed /\ [Next]_vars =>
    [UNCHANGED <<uploaded, hung, faults, poisoned, redrives>> =>
       \E m \in messages \ messages' : \A n \in messages' \ messages :
         n.log = m.log /\ Further(n, m)]_vars
<1> SUFFICES ASSUME Typed, Next, UNCHANGED <<uploaded, hung, faults, poisoned, redrives>>
             PROVE  \E m \in messages \ messages' : \A n \in messages' \ messages :
                      n.log = m.log /\ Further(n, m)
  OBVIOUS
<1>0. /\ \A m \in messages : m \in Message /\ AddressOK(m)
      /\ faults \in Nat /\ poisoned \in Nat /\ redrives \in Nat
  BY PipelineAssumption DEF Typed
<1>1. PICK m \in messages : Redrive(m) \/ Handle(m) \/ Delete(m) \/ Denied(m)
  <2>1. \A l \in Logs : ~Upload(l)
    BY DEF Upload
  <2>2. \A batch : ~Fault(batch) /\ ~Hang(batch)
    BY <1>0 DEF Fault, Hang
  <2>3. \A m, moved : ~Poisoned(m, moved)
    BY <1>0 DEF Poisoned
  <2>4. \A m, sent, deleted : ~OperatorRedrive(m, sent, deleted)
    BY <1>0 DEF OperatorRedrive
  <2>5. \A q : ~Restart(q)
    BY DEF Restart
  <2> QED BY <2>1, <2>2, <2>3, <2>4, <2>5 DEF Next, Progress
<1>2. m \in Message /\ AddressOK(m) /\ m.receives \in Nat
  BY <1>0, PipelineAssumption DEF Message
<1>3. CASE Redrive(m)
  <2>1. PICK S : S = {redriven(m)}
    OBVIOUS
  <2>2. messages' = (messages \ {m}) \union S /\ m.queue # "dead"
    BY <1>3, <2>1 DEF Redrive, become, redrivePolicy
  <2>3. \A n \in S : n.log = m.log /\ Further(n, m) /\ n # m
    BY <1>2, <2>1, <2>2, RedrivenTyped, RedrivenFurther
  <2> QED BY <2>2, <2>3, Advances
<1>4. CASE Handle(m)
  <2>1. receivable(m) /\ m.state = "visible"
    BY <1>4 DEF Handle, receivable
  <2>2. handled(m).log = m.log /\ Further(handled(m), m) /\ handled(m) # m
    <3>1. /\ handled(m).state = "handled" /\ handled(m).receives = m.receives + 1
          /\ handled(m).service = m.service /\ handled(m).queue = m.queue
          /\ handled(m).log = m.log
      BY <1>2, <2>1, HandledTyped
    <3> QED BY <1>2, <2>1, <3>1 DEF Further
  <2>3. ASSUME m.service # "engagement-creator", NEW n \in outputs(m)
        PROVE  n.log = m.log /\ Further(n, m) /\ n # m
    <3>1. m.service \in FargateServices
      BY <1>2, <2>3 DEF Message, Services
    <3>2. n.log = m.log /\ n.service = writesTo[m.service]
      BY <2>3 DEF outputs, notifications
    <3> QED BY <3>1, <3>2, WritesFurther DEF Further
  <2>4. CASE m.service # "engagement-creator" /\ become(m, {handled(m)} \union outputs(m))
    <3>1. PICK S : S = {handled(m)} \union outputs(m)
      OBVIOUS
    <3>2. messages' = (messages \ {m}) \union S
      BY <2>4, <3>1 DEF become
    <3>3. \A n \in S : n.log = m.log /\ Further(n, m) /\ n # m
      BY <2>2, <2>3, <2>4, <3>1
    <3> QED BY <3>2, <3>3, Advances
  <2>5. CASE become(m, {handled(m)})
    <3>1. PICK S : S = {handled(m)}
      OBVIOUS
    <3>2. messages' = (messages \ {m}) \union S
      BY <2>5, <3>1 DEF become
    <3>3. \A n \in S : n.log = m.log /\ Further(n, m) /\ n # m
      BY <2>2, <3>1
    <3> QED BY <3>2, <3>3, Advances
  <2> QED BY <1>4, <2>4, <2>5 DEF Handle
<1>5. CASE Delete(m)
  <2>1. messages' = messages \ {m}
    BY <1>5 DEF Delete, become
  <2> QED BY <2>1
<1>6. CASE Denied(m)
  <2>1. PICK S : S = {received(m)}
    OBVIOUS
  <2>2. receivable(m) /\ messages' = (messages \ {m}) \union S
    BY <1>6, <2>1 DEF Denied, become
  <2>3. /\ received(m).receives = m.receives + 1 /\ received(m).service = m.service
        /\ received(m).queue = m.queue /\ received(m).log = m.log
    BY <1>2, <2>2, ReceivedTyped
  <2>4. \A n \in S : n.log = m.log /\ Further(n, m) /\ n # m
    BY <1>2, <2>1, <2>3 DEF Further
  <2> QED BY <2>2, <2>4, Advances
<1> QED BY <1>1, <1>3, <1>4, <1>5, <1>6

\* While nothing fails and nobody interferes, every step takes a message for good and
\* puts nothing in its place but what is further along: the pipeline has no circle.
THEOREM GoesForward == Spec => OnlyForwards
<1>1. Spec => []Typed
  BY InitTyped, StepTyped, PTL DEF Spec
<1> QED BY <1>1, StepGoesForward, PTL DEF Spec, OnlyForwards

-----------------------------------------------------------------------------
(* The pipeline delivers at least once *)

\* A log is done with when no message of it is left, and none was lost.
Done == {l \in uploaded : /\ \A m \in messages : m.log # l
                          /\ \A d \in dropped : d[1] # l}

\* Logs whose messages all stay, or give way to others of the log, are as done as before.
LEMMA SameDone ==
  ASSUME uploaded' = uploaded, dropped' = dropped, NEW R, NEW S, R \subseteq messages,
         messages' = (messages \ R) \union S,
         \A m \in R : \E n \in S : n.log = m.log,
         \A n \in S : \E m \in messages : n.log = m.log
  PROVE  Done' = Done
<1>1. ASSUME NEW l, NEW m \in messages, m.log = l
      PROVE  \E n \in messages' : n.log = l
  BY <1>1
<1>2. ASSUME NEW l, NEW n \in messages', n.log = l
      PROVE  \E m \in messages : m.log = l
  BY <1>2
<1> QED BY <1>1, <1>2 DEF Done

\* One message gives way to others of its log.
LEMMA ReplacedDone ==
  ASSUME uploaded' = uploaded, dropped' = dropped, NEW m \in messages, NEW S,
         become(m, S), \E n \in S : TRUE, \A n \in S : n.log = m.log
  PROVE  Done' = Done
<1>1. PICK R : R = {m}
  OBVIOUS
<1>2. R \subseteq messages /\ messages' = (messages \ R) \union S
  BY <1>1 DEF become
<1>3. /\ \A k \in R : \E n \in S : n.log = k.log
      /\ \A n \in S : \E k \in messages : n.log = k.log
  BY <1>1
<1> QED BY <1>2, <1>3, SameDone

LEMMA InitIsJourney == Init => Journey!Init
  BY DEF Init, Journey!Init

LEMMA StepIsJourney ==
  Typed /\ Stands' /\ [Next]_vars => [Journey!Next]_(Journey!vars)
<1> SUFFICES ASSUME Typed, Stands', [Next]_vars
             PROVE  Journey!Next \/ (Done' = Done /\ settled' = settled)
  BY DEF Journey!vars, Done
<1>0. \A m \in messages : m \in Message /\ AddressOK(m) /\ m.log \in Logs
  BY DEF Typed, Message
<1>1. CASE UNCHANGED vars
  BY <1>1 DEF vars, Done
<1>2. ASSUME NEW l \in Logs, Upload(l) PROVE Done' = Done /\ settled' = settled
  <2>1. /\ l \notin uploaded /\ uploaded' = uploaded \union {l} /\ settled' = settled
        /\ dropped' = dropped
        /\ messages' = messages \union notifications(Source[l], l, {NoAnalyzer})
    BY <1>2 DEF Upload
  <2>2. \E n \in messages' : n.log = l
    <3>1. PICK n : n = [service |-> Source[l], queue |-> "queue", receives |-> 0,
                        state |-> "visible", body |-> "event", log |-> l,
                        analyzer |-> NoAnalyzer]
      OBVIOUS
    <3>2. n \in messages' /\ n.log = l
      BY <2>1, <3>1 DEF notifications
    <3> QED BY <3>2
  <2>3. \A n \in messages' : n \in messages \/ n.log = l
    BY <2>1 DEF notifications
  <2> QED BY <2>1, <2>2, <2>3 DEF Done
<1>3. ASSUME NEW m \in messages, Redrive(m) PROVE Done' = Done /\ settled' = settled
  <2>1. /\ become(m, {redriven(m)}) /\ m.queue # "dead" /\ UNCHANGED <<uploaded, settled, dropped>>
    BY <1>3 DEF Redrive, redrivePolicy
  <2>2. redriven(m).log = m.log
    BY <1>0, <2>1, RedrivenTyped
  <2>3. \A n \in {redriven(m)} : n.log = m.log
    BY <2>2
  <2> QED BY <2>1, <2>3, ReplacedDone
<1>4. ASSUME NEW m \in messages, Handle(m)
      PROVE  Journey!Next \/ (Done' = Done /\ settled' = settled)
  <2>1. receivable(m) /\ uploaded' = uploaded /\ dropped' = dropped
    BY <1>4 DEF Handle
  <2>2. handled(m).log = m.log
    BY <1>0, <2>1, HandledTyped
  <2>3. CASE become(m, {handled(m)} \union outputs(m)) /\ UNCHANGED settled
    <3>1. \A n \in {handled(m)} \union outputs(m) : n.log = m.log
      BY <2>2 DEF outputs, notifications
    <3> QED BY <2>1, <2>3, <3>1, ReplacedDone
  <2>4. CASE /\ m.service \in {"analyzer-executor", "engagement-creator"}
             /\ become(m, {handled(m)})
             /\ settled' = settled \union {<<m.log, m.analyzer>>}
    <3>1. \A n \in {handled(m)} : n.log = m.log
      BY <2>2
    <3>2. Done' = Done
      BY <2>1, <2>4, <3>1, ReplacedDone
    <3>3. m.log \in Logs /\ m.analyzer \in Analyzers
      BY <1>0, <2>4 DEF AddressOK
    <3>4. Journey!Publish(m.log, m.analyzer)
      BY <2>4, <3>2 DEF Journey!Publish, Done
    <3> QED BY <3>3, <3>4 DEF Journey!Next
  <2> QED BY <1>4, <2>3, <2>4 DEF Handle
<1>5. ASSUME NEW m \in messages, Delete(m)
      PROVE  Journey!Next \/ (Done' = Done /\ settled' = settled)
  <2>1. /\ messages' = messages \ {m} /\ uploaded' = uploaded /\ settled' = settled
        /\ dropped' = dropped
    BY <1>5 DEF Delete, become
  <2>2. CASE \E n \in messages' : n.log = m.log
    BY <2>1, <2>2 DEF Done
  <2>3. CASE \E d \in dropped : d[1] = m.log
    BY <2>1, <2>3 DEF Done
  <2>4. CASE (\A n \in messages' : n.log # m.log) /\ \A d \in dropped : d[1] # m.log
    <3>1. m.log \in uploaded /\ m.log \in Logs
      BY <1>0, <2>1 DEF Message
    <3>2. Done' = Done \union {m.log}
      BY <2>1, <2>4, <3>1 DEF Done
    <3>3. \A a \in Analyzers : <<m.log, a>> \in settled
      <4>1. \A a : ~Dropped(m.log, a)'
        BY <2>1, <2>4 DEF Dropped
      <4> QED BY <2>1, <2>4, <3>1, <4>1 DEF Stands, StandsFor
    <3>4. Journey!Acknowledge(m.log)
      BY <2>1, <3>2, <3>3 DEF Journey!Acknowledge, Journey!Settled, Journey!Outputs, Done
    <3> QED BY <3>1, <3>4 DEF Journey!Next
  <2> QED BY <2>2, <2>3, <2>4
<1>6. ASSUME NEW m \in messages, Denied(m) PROVE Done' = Done /\ settled' = settled
  <2>1. /\ become(m, {received(m)}) /\ receivable(m) /\ UNCHANGED <<uploaded, settled, dropped>>
    BY <1>6 DEF Denied
  <2>2. \A n \in {received(m)} : n.log = m.log
    BY <1>0, <2>1, ReceivedTyped
  <2> QED BY <2>1, <2>2, ReplacedDone
<1>7. ASSUME NEW batch \in Batches, Fault(batch) \/ Hang(batch)
      PROVE  Done' = Done /\ settled' = settled
  <2>1. \A m \in batch : m \in messages /\ (receivable(m) \/ m.state = "handled")
    BY DEF Batches
  <2>2. PICK S : S = {failed(m) : m \in batch}
    OBVIOUS
  <2>3. /\ messages' = (messages \ batch) \union S /\ UNCHANGED <<uploaded, settled, dropped>>
    BY <1>7, <2>2 DEF Fault, Hang, bringBack
  <2>4. \A m \in batch : failed(m) \in S /\ failed(m).log = m.log
    BY <1>0, <2>1, <2>2, FailedTyped
  <2>5. /\ \A m \in batch : \E n \in S : n.log = m.log
        /\ \A n \in S : \E m \in messages : n.log = m.log
    BY <2>1, <2>2, <2>4
  <2> QED BY <2>1, <2>3, <2>5, SameDone
<1>8. ASSUME NEW m \in messages, NEW moved, Poisoned(m, moved)
      PROVE  Done' = Done /\ settled' = settled
  <2>1. PICK S : S = {dead(m)} \union IF moved THEN {} ELSE {failed(m)}
    OBVIOUS
  <2>2. /\ become(m, S) /\ (receivable(m) \/ m.state = "handled")
        /\ UNCHANGED <<uploaded, settled, dropped>>
    BY <1>8, <2>1 DEF Poisoned
  <2>3. dead(m).log = m.log /\ failed(m).log = m.log
    BY <1>0, <2>2, DeadTyped, FailedTyped
  <2>4. dead(m) \in S /\ \A n \in S : n.log = m.log
    BY <2>1, <2>3
  <2> QED BY <2>2, <2>4, ReplacedDone
<1>9. ASSUME NEW m \in messages, NEW sent, NEW deleted, OperatorRedrive(m, sent, deleted)
      PROVE  Done' = Done /\ settled' = settled
  <2>1. /\ messages \ {m} \subseteq messages' /\ messages' \subseteq messages \union {retried(m)}
        /\ UNCHANGED <<uploaded, settled>> /\ dropped \subseteq dropped'
        /\ dropped' \subseteq dropped \union {<<m.log, m.analyzer>>}
    BY <1>9 DEF OperatorRedrive, become
  <2>2. retried(m).log = m.log
    BY <1>0, RetriedTyped
  <2>3. \/ \E n \in messages' : n.log = m.log
        \/ \E d \in dropped' : d[1] = m.log
    <3>1. CASE retried(m) \in messages'
      BY <2>2, <3>1
    <3>2. CASE m \in messages'
      BY <3>2
    <3>3. CASE <<m.log, m.analyzer>> \in dropped'
      BY <3>3
    <3> QED BY <1>9, <3>1, <3>2, <3>3 DEF OperatorRedrive, become
  <2>4. m.log \notin Done /\ m.log \notin Done'
    BY <2>3 DEF Done
  <2>5. ASSUME NEW l, l # m.log PROVE l \in Done' <=> l \in Done
    <3>1. \A n \in messages : n.log = l => n \in messages'
      BY <2>1, <2>5
    <3>2. \A n \in messages' : n.log = l => n \in messages
      BY <2>1, <2>2, <2>5
    <3>3. \A d : d[1] = l => (d \in dropped' <=> d \in dropped)
      BY <2>1, <2>5
    <3> QED BY <2>1, <3>1, <3>2, <3>3 DEF Done
  <2>6. Done' = Done
    <3>1. \A l : l \in Done' <=> l \in Done
      BY <2>4, <2>5
    <3> QED BY <3>1
  <2> QED BY <2>1, <2>6
<1>10. ASSUME NEW q, Restart(q) PROVE Done' = Done /\ settled' = settled
  BY <1>10 DEF Restart, Done
<1> QED BY <1>1, <1>2, <1>3, <1>4, <1>5, <1>6, <1>7, <1>8, <1>9, <1>10 DEF Next, Progress

\* The pipeline as a whole implements AtLeastOnce, the promise of each of its workers:
\* whatever fails, the last message of a log is deleted only when every analyzer has
\* judged the log, and no message of it comes back.
THEOREM JourneyIsAtLeastOnce == Spec => DeliversJudgements
<1>1. Spec => [](Typed /\ Stands)
  BY InitTyped, StepTyped, InitStands, StepStands, PTL DEF Spec
<1> QED BY <1>1, InitIsJourney, StepIsJourney, PTL DEF Spec, DeliversJudgements, Journey!Spec
=============================================================================
