------------------------------ MODULE Pipeline ------------------------------
(***************************************************************************)
(* A log on its way through the deployed pipeline: bucket, topic, queue,   *)
(* service, the next bucket, and so on to the engagement creator.  Every   *)
(* service has three queues (Queues of fargate_service.ts and service.ts): *)
(* what is received maxReceiveCount times without being deleted goes from  *)
(* the queue to the retry queue, which another instance of the service     *)
(* reads, and from there to the dead letter queue, which an operator can   *)
(* redrive (graplctl queues redrive).                                      *)
(*                                                                         *)
(* A message is handled as module AtLeastOnce says, which SqsExecutor is   *)
(* shown to implement: its output is emitted before it is deleted, and a   *)
(* message that is not deleted becomes visible again.  What a service does *)
(* between the receive and its output touches nothing that others see, and *)
(* is one step.  Messages that are alike in everything are one.            *)
(*                                                                         *)
(* Bounds: MaxFaults crashes, hangs, timeouts and transient errors,        *)
(* MaxPoison errors a service takes for persistent, MaxRedrives messages   *)
(* redriven by graplctl.                                                   *)
(***************************************************************************)
EXTENDS Deployment

CONSTANTS
  Source,            \* log -> the generator it is meant for
  Analyzers,
  NoAnalyzer,        \* what is not for one analyzer
  maxReceiveCount,   \* 3 in the code
  MaxFaults, MaxPoison, MaxRedrives

Logs == DOMAIN Source

ASSUME PipelineAssumption == /\ \A l \in Logs : Source[l] \in Generators
                             /\ NoAnalyzer \notin Analyzers
                             /\ maxReceiveCount \in Nat \ {0}
                             /\ MaxFaults \in Nat /\ MaxPoison \in Nat /\ MaxRedrives \in Nat

VARIABLES
  uploaded,   \* logs put into a generator's bucket
  messages,   \* [service, queue, receives, state, body, log, analyzer]
  settled,    \* <<log, analyzer>> alerted or cleared
  hung,       \* the queues whose analyzer-executor waits for a dead child
  dropped,    \* history: <<log, analyzer>> of the messages a redrive lost
  faults, poisoned, redrives

vars == <<uploaded, messages, settled, hung, dropped, faults, poisoned, redrives>>

Queues == {"queue", "retry", "dead"}
\* (nextInCircle: a mutant whose retry queue gives up to the queue.)
nextInCircle == [queue |-> "retry", retry |-> "queue"]
next == [queue |-> "retry", retry |-> "dead"]
roleOf == [queue |-> "default", retry |-> "retry"]

\* An EventEmitter's bucket tells its topic, which tells the queue.
notifications(s, log, analyzers) ==
  {[service |-> s, queue |-> "queue", receives |-> 0, state |-> "visible", body |-> "event",
    log |-> log, analyzer |-> a] : a \in analyzers}

Init ==
  /\ uploaded = {} /\ messages = {} /\ settled = {} /\ hung = {} /\ dropped = {}
  /\ faults = 0 /\ poisoned = 0 /\ redrives = 0

Upload(l) ==
  /\ l \notin uploaded /\ uploaded' = uploaded \union {l}
  /\ messages' = messages \union notifications(Source[l], l, {NoAnalyzer})
  /\ UNCHANGED <<settled, hung, dropped, faults, poisoned, redrives>>

-----------------------------------------------------------------------------
\* The redrive policy: m is not handed out again.  (deadEndPolicy: a mutant without
\* a policy for the retry queue.)
deadEndPolicy(m) == m.queue = "queue" /\ m.receives = maxReceiveCount
redrivePolicy(m) == m.queue # "dead" /\ m.receives = maxReceiveCount

become(m, new) == messages' = (messages \ {m}) \union new

\* Somebody asks for the messages of m's queue.
polled(m) == ~(m.service = "analyzer-executor" /\ m.queue \in hung)

\* A service can receive m.
receivable(m) ==
  m.state = "visible" /\ m.queue # "dead" /\ m.receives < maxReceiveCount /\ polled(m)

redriven(m) == [m EXCEPT !.queue = next[m.queue], !.receives = 0]

\* SQS moves what has been received too often when it would be received once more.
Redrive(m) ==
  /\ m.state = "visible" /\ redrivePolicy(m) /\ polled(m)
  /\ become(m, {redriven(m)})
  /\ UNCHANGED <<uploaded, settled, hung, dropped, faults, poisoned, redrives>>

\* What move_to_dead_letter made of a body is a string of JSON, not an object:
\* retrieve_event finds no bucket name in it and panics.
CanHandle(m) == Allowed(m.service, roleOf[m.queue]) /\ m.body = "event"

received(m) == [m EXCEPT !.receives = @ + 1]
handled(m) == [received(m) EXCEPT !.state = "handled"]

outputs(m) ==
  notifications(writesTo[m.service], m.log,
                IF m.service = "analyzer-dispatcher" THEN Analyzers ELSE {m.analyzer})

\* A service receives m, handles it and writes what comes of it to the next bucket:
\* the dispatcher once for every analyzer, the executor if it is a hit, which
\* depends on what else is in the graph by then.
Handle(m) ==
  /\ receivable(m) /\ CanHandle(m)
  /\ \/ /\ m.service # "engagement-creator"
        /\ become(m, {handled(m)} \union outputs(m))
        /\ UNCHANGED settled
     \/ /\ m.service \in {"analyzer-executor", "engagement-creator"}
        /\ become(m, {handled(m)})
        /\ settled' = settled \union {<<m.log, m.analyzer>>}
  /\ UNCHANGED <<uploaded, hung, dropped, faults, poisoned, redrives>>

\* (DeleteUnhandled: a mutant that deletes what it received, whatever came of it.)
DeleteUnhandled(m) ==
  /\ m.state = "handled" \/ receivable(m)
  /\ become(m, {})
  /\ UNCHANGED <<uploaded, settled, hung, dropped, faults, poisoned, redrives>>

Delete(m) ==
  /\ m.state = "handled" /\ become(m, {})
  /\ UNCHANGED <<uploaded, settled, hung, dropped, faults, poisoned, redrives>>

\* Access denied, no route, or a panic: the message was received, and stays.
Denied(m) ==
  /\ receivable(m) /\ ~CanHandle(m)
  /\ become(m, {received(m)})
  /\ UNCHANGED <<uploaded, settled, hung, dropped, faults, poisoned, redrives>>

-----------------------------------------------------------------------------
\* A crash, a transient error, a handler that outlives the visibility timeout, a
\* deletion that fails: m was received, handled or not, and is visible again.
failed(m) ==
  [m EXCEPT !.state = "visible", !.receives = IF m.state = "visible" THEN @ + 1 ELSE @]

\* Every service gets up to ten messages at once.  In an executor, a panic of one or the
\* timeout brings back all that are not deleted; the analyzer-executor's process ends with
\* the first that fails, and a lambda's whole batch is retried.
Batches ==
  LET taken == {m \in messages : receivable(m) \/ m.state = "handled"}
  IN  {batch \in SUBSET taken :
         batch # {} /\ \A m, n \in batch : m.service = n.service /\ m.queue = n.queue}

bringBack(batch) == messages' = (messages \ batch) \union {failed(m) : m \in batch}

Fault(batch) ==
  /\ faults < MaxFaults /\ faults' = faults + 1
  /\ bringBack(batch)
  /\ UNCHANGED <<uploaded, settled, hung, dropped, poisoned, redrives>>

\* An analyzer's process ends without a result, or never ends: poll_process waits for
\* ever, and with it the service.  The messages of its batch become visible again.
Hang(batch) ==
  /\ faults < MaxFaults /\ faults' = faults + 1
  /\ \E m \in batch :
       /\ m.service = "analyzer-executor" /\ CanHandle(m)
       /\ \A n \in messages :
            n.service = m.service /\ n.queue = m.queue /\ n.state = "handled" => n \in batch
       /\ hung' = hung \union {m.queue}
  /\ bringBack(batch)
  /\ UNCHANGED <<uploaded, settled, dropped, poisoned, redrives>>

\* Somebody restarts it; nothing in the code does.
Restart(q) ==
  /\ q \in hung /\ hung' = hung \ {q}
  /\ UNCHANGED <<uploaded, messages, settled, dropped, faults, poisoned, redrives>>

\* move_to_dead_letter: sends, then deletes, and may fail in between.
\* (DeleteThenSend: a mutant that does it the other way round.)
dead(m) ==
  [m EXCEPT !.queue = "dead", !.state = "visible", !.receives = 0, !.body = "string"]

DeleteThenSend(m, moved) ==
  /\ poisoned < MaxPoison /\ poisoned' = poisoned + 1
  /\ m.service \in Executors /\ (receivable(m) \/ m.state = "handled")
  /\ become(m, IF moved THEN {dead(m)} ELSE {})
  /\ UNCHANGED <<uploaded, settled, hung, dropped, faults, redrives>>

Poisoned(m, moved) ==
  /\ poisoned < MaxPoison /\ poisoned' = poisoned + 1
  /\ m.service \in Executors /\ (receivable(m) \/ m.state = "handled")
  /\ become(m, {dead(m)} \union IF moved THEN {} ELSE {failed(m)})
  /\ UNCHANGED <<uploaded, settled, hung, dropped, faults, redrives>>

\* redrive_from_dlq: sends to the retry queue, then deletes, if it gets so far.  An entry
\* of the batch that was not sent is reported in the answer, which nothing reads: the
\* message is deleted all the same.
retried(m) == [m EXCEPT !.queue = "retry"]

OperatorRedrive(m, sent, deleted) ==
  /\ redrives < MaxRedrives /\ redrives' = redrives + 1
  /\ m.queue = "dead"
  /\ become(m, (IF sent THEN {retried(m)} ELSE {}) \union IF deleted THEN {} ELSE {m})
  /\ dropped' = dropped \union IF deleted /\ ~sent THEN {<<m.log, m.analyzer>>} ELSE {}
  /\ UNCHANGED <<uploaded, settled, hung, faults, poisoned>>

Progress == \E m \in messages : Redrive(m) \/ Handle(m) \/ Delete(m) \/ Denied(m)

Next ==
  \/ \E l \in Logs : Upload(l)
  \/ Progress
  \/ \E batch \in Batches : Fault(batch) \/ Hang(batch)
  \/ \E q \in Queues : Restart(q)
  \/ \E m \in messages, moved \in BOOLEAN : Poisoned(m, moved)
  \/ \E m \in messages, sent, deleted \in BOOLEAN : OperatorRedrive(m, sent, deleted)

Spec == Init /\ [][Next]_vars

\* The services that are not hung go on: an executor's batch has a timeout, as a lambda
\* has, and what crashed is started again.  Nobody need restart what hangs.
FairSpec == Spec /\ WF_vars(Progress)

-----------------------------------------------------------------------------
\* Messages are well formed; none is received more than maxReceiveCount times from
\* one queue, whatever fails (maxReceiveCount of Queues).
TypeOK ==
  /\ uploaded \subseteq Logs /\ settled \subseteq Logs \X Analyzers
  /\ hung \subseteq Queues /\ dropped \subseteq Logs \X (Analyzers \union {NoAnalyzer})
  /\ faults \in 0..MaxFaults /\ poisoned \in 0..MaxPoison /\ redrives \in 0..MaxRedrives
  /\ \A m \in messages :
       /\ m.service \in Services /\ m.queue \in Queues /\ m.receives \in 0..maxReceiveCount
       /\ m.log \in uploaded /\ m.body \in {"event", "string"}
       /\ m.analyzer \in IF m.service \in {"analyzer-executor", "engagement-creator"}
                         THEN Analyzers ELSE {NoAnalyzer}

\* Whatever fails and however often, what an analyzer has to say of a log is known,
\* or a message in some queue still stands for it, unless an operator's redrive lost that
\* message (services emit before they delete, move_to_dead_letter sends before it does).
Carried(l, a) == {m \in messages : m.log = l /\ m.analyzer \in {a, NoAnalyzer}}
Dropped(l, a) == {<<l, a>>, <<l, NoAnalyzer>>} \intersect dropped # {}
NothingLost ==
  \A l \in uploaded, a \in Analyzers :
    <<l, a>> \in settled \/ Carried(l, a) # {} \/ Dropped(l, a)

\* A message does not come to a retry queue, or further, for anything else than
\* maxReceiveCount faults or one that was taken for persistent: the default roles have all
\* the access they need, and every queue leads to the next.
NoFreeRetry ==
  \A m \in messages : m.queue # "queue" =>
    faults + poisoned >= maxReceiveCount \/ (poisoned > 0 /\ m.body = "string")

\* Every log is judged by every analyzer, or ends in a dead letter queue for someone
\* to see, or is lost by a redrive, unless an analyzer-executor hangs for good: no message
\* goes round for ever.
EveryLogSettles ==
  \A l \in Logs, a \in Analyzers :
    []<>(hung = {}) =>
      (l \in uploaded ~> \/ <<l, a>> \in settled
                         \/ \E m \in Carried(l, a) : m.queue = "dead"
                         \/ Dropped(l, a))

\* Nothing goes round: as long as nothing fails and nobody interferes, every step takes
\* one message for good, and what it brings for it is further along, in a later service,
\* a later queue or a later receive.  (Two classes make the
\* redrive policies and seven stacks the buckets; that they lead somewhere none can see.)
hops ==
  [s \in Services |->
     CASE s \in Generators -> 0 [] s = "node-identifier" -> 1 [] s = "graph-merger" -> 2
       [] s = "analyzer-dispatcher" -> 3 [] s = "analyzer-executor" -> 4
       [] s = "engagement-creator" -> 5]
turns == [queue |-> 0, retry |-> 1, dead |-> 2]
Further(n, m) ==
  \/ hops[n.service] > hops[m.service]
  \/ n.service = m.service /\ turns[n.queue] > turns[m.queue]
  \/ n.service = m.service /\ n.queue = m.queue /\ n.receives > m.receives
OnlyForwards ==
  [][UNCHANGED <<uploaded, hung, faults, poisoned, redrives>> =>
       \E m \in messages \ messages' : \A n \in messages' \ messages :
         n.log = m.log /\ Further(n, m)]_vars

\* The whole pipeline keeps the promise that each of its workers makes, with a log for a
\* message and the analyzers' judgements of it for its outputs: the last trace of a log
\* leaves the queues only when every analyzer has judged it, and none comes back.  A log of
\* which a redrive lost a message does not count as acknowledged.
Journey == INSTANCE AtLeastOnce WITH
  Messages <- Logs, Events <- Analyzers, TestEvents <- {}, deadLetters <- {},
  acknowledged <- {l \in uploaded : /\ \A m \in messages : m.log # l
                                    /\ \A d \in dropped : d[1] # l},
  downstream <- settled
DeliversJudgements == Journey!Spec

\* "redrive messages from a dead letter queue" (graplctl queues redrive) sends them
\* to the retry queue: what is there must be something the retry handler can work
\* on, in body and in access.
RetriesCanSucceed == \A m \in messages : m.queue = "retry" => CanHandle(m)
=============================================================================
