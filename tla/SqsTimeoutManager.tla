-------------------------- MODULE SqsTimeoutManager --------------------------
(***************************************************************************)
(* keep_alive (rust/sqs-executor/src/sqs_timeout_manager.rs): while a      *)
(* worker works on a message, a manager task keeps the message invisible   *)
(* on its queue by extending its visibility timeout ever further; dropping *)
(* the `Sender` tells the manager to stop.                                 *)
(*                                                                         *)
(* Time passes in Tick, by one second.  Timers are the seconds left.  A    *)
(* task that can run does so before time passes; a call to SQS takes up to *)
(* Latency seconds from the moment the timer fires to the moment the next  *)
(* timer is set, and so does the way from the receive to keep_alive.       *)
(***************************************************************************)
EXTENDS Naturals

CONSTANTS
  VisibilityTimeout,  \* the queue's, as given to keep_alive (30 in the code)
  MaxIter,            \* how often the manager extends it (10 in the code)
  BatchTimeout,       \* after which the worker's future is dropped (450)
  Latency             \* bound on a call to SQS

ASSUME ConstantsAssumption ==
  /\ VisibilityTimeout \in Nat /\ VisibilityTimeout > 10
  /\ MaxIter \in Nat \ {0}
  /\ BatchTimeout \in Nat
  /\ Latency \in Nat /\ 2 * Latency < 10

\* What the constants of the code are worth: the iterations outlast the batch
\* (the sleeps add up, and the last extension follows them), and the sixth
\* extension is not due before the batch times out.
ASSUME BatchAssumption ==
  /\ 2 * BatchTimeout < VisibilityTimeout * ((MaxIter + 1) * (MaxIter + 2)) - 20 * MaxIter
  /\ BatchTimeout < 21 * VisibilityTimeout - 60

VARIABLES
  visible,  \* seconds until the queue shows the message again
  deleted,  \* the worker deleted the message
  worker,   \* it "works" until it drops its Sender, then it is "done"
  age,      \* seconds the worker has been working
  channel,  \* the stop: "open", on its "way" to the manager's receiver, "there"
  manager,  \* "sleeps" in the select, "calls" SQS, got its "reply", "stopped"
  i,        \* the manager's iteration
  sleep,    \* seconds left of its sleep
  busy,     \* seconds it has been calling
  failed,   \* history: a call failed for a reason other than SQS's refusal
  late,     \* history: calls made after the worker dropped its Sender
  over      \* history: seconds the manager has outlived it

vars ==
  <<visible, deleted, worker, age, channel, manager, i, sleep, busy, failed, late, over>>

\* As below, without the ten seconds in advance.
get_next_sleep_for_whole(initial_timeout, n) == initial_timeout * n

get_next_sleep_for(initial_timeout, n) == (initial_timeout * n) - 10

\* As below, as if the first iteration were 0.
get_next_timeout_short(initial_timeout, n) == initial_timeout * n

\* As below, one timeout more.
get_next_timeout_long(initial_timeout, n) == initial_timeout * (n + 2)

get_next_timeout(initial_timeout, n) == initial_timeout * (n + 1)

Init ==  \* keep_alive, for a message just received
  /\ visible \in (VisibilityTimeout - Latency)..VisibilityTimeout
  /\ deleted = FALSE
  /\ worker = "works"
  /\ age = 0
  /\ channel = "open"
  /\ manager = "sleeps"
  /\ i = 1
  /\ sleep = get_next_sleep_for(VisibilityTimeout, 1)
  /\ busy = 0
  /\ failed = FALSE
  /\ late = 0
  /\ over = 0

-----------------------------------------------------------------------------
(***************************************************************************)
(* The worker.                                                             *)
(***************************************************************************)

Delete ==
  /\ worker = "works"
  /\ deleted' = TRUE
  /\ UNCHANGED <<visible, worker, age, channel, manager, i, sleep, busy, failed, late, over>>

\* The Sender is dropped: the message is done with, or the future panicked or
\* was dropped.
Drop ==
  /\ worker = "works"
  /\ worker' = "done"
  /\ channel' = "way"
  /\ UNCHANGED <<visible, deleted, age, manager, i, sleep, busy, failed, late, over>>

(***************************************************************************)
(* route_oneshot, a task of its own.                                       *)
(***************************************************************************)

\* As Route, with the message dropped on the way.
RouteDrops ==
  /\ channel = "way"
  /\ channel' = "open"
  /\ UNCHANGED <<visible, deleted, worker, age, manager, i, sleep, busy, failed, late, over>>

Route ==
  /\ channel = "way"
  /\ channel' = "there"
  /\ UNCHANGED <<visible, deleted, worker, age, manager, i, sleep, busy, failed, late, over>>

(***************************************************************************)
(* The manager.                                                            *)
(***************************************************************************)

\* The select prefers the sleep if both are ready.
TimerFires ==
  /\ manager = "sleeps"
  /\ sleep = 0
  /\ manager' = "calls"
  /\ busy' = 0
  /\ late' = IF worker = "done" THEN late + 1 ELSE late
  /\ UNCHANGED <<visible, deleted, worker, age, channel, i, sleep, failed, over>>

\* The select sees the stop.
Stopped ==
  /\ manager = "sleeps"
  /\ sleep > 0
  /\ channel = "there"
  /\ manager' = "stopped"
  /\ UNCHANGED <<visible, deleted, worker, age, channel, i, sleep, busy, failed, late, over>>

\* SQS knows the receipt handle of a message that is neither deleted nor
\* visible.
InFlight == ~deleted /\ visible > 0

\* SQS extends the visibility timeout.
Extended ==
  /\ manager = "calls"
  /\ InFlight
  /\ visible' = get_next_timeout(VisibilityTimeout, i)
  /\ manager' = "reply"
  /\ UNCHANGED <<deleted, worker, age, channel, i, sleep, busy, failed, late, over>>

NextIteration ==
  /\ manager = "reply"
  /\ IF i < MaxIter
     THEN /\ i' = i + 1
          /\ sleep' = get_next_sleep_for(VisibilityTimeout, i + 1)
          /\ manager' = "sleeps"
     ELSE manager' = "stopped" /\ UNCHANGED <<i, sleep>>
  /\ UNCHANGED <<visible, deleted, worker, age, channel, busy, failed, late, over>>

\* SQS refuses: the manager breaks out of the loop.
Refused ==
  /\ manager = "calls"
  /\ ~InFlight
  /\ manager' = "stopped"
  /\ UNCHANGED <<visible, deleted, worker, age, channel, i, sleep, busy, failed, late, over>>

\* The call fails in another way, done by SQS or not: the manager returns.
CallFails ==
  /\ manager \in {"calls", "reply"}
  /\ manager' = "stopped"
  /\ failed' = TRUE
  /\ UNCHANGED <<visible, deleted, worker, age, channel, i, sleep, busy, late, over>>

(***************************************************************************)
(* Time.                                                                   *)
(***************************************************************************)
Calling == manager \in {"calls", "reply"}

Minus1(n) == IF n = 0 THEN 0 ELSE n - 1

Tick ==
  /\ worker = "works" => age < BatchTimeout
  /\ channel # "way"
  /\ manager = "sleeps" => sleep > 0 /\ channel # "there"
  /\ Calling => busy < Latency
  /\ visible > 0 \/ manager # "stopped"
  /\ visible' = Minus1(visible)
  /\ age' = IF worker = "works" THEN age + 1 ELSE age
  /\ sleep' = IF manager = "sleeps" THEN sleep - 1 ELSE sleep
  /\ busy' = IF Calling THEN busy + 1 ELSE busy
  /\ over' = IF worker = "done" /\ manager # "stopped" THEN over + 1 ELSE over
  /\ UNCHANGED <<deleted, worker, channel, manager, i, failed, late>>

Manage == TimerFires \/ Stopped \/ Extended \/ NextIteration \/ Refused \/ CallFails

Next == Delete \/ Drop \/ Route \/ Manage \/ Tick

Spec == Init /\ [][Next]_vars

-----------------------------------------------------------------------------
\* Every timer stays within what the iteration set.
TypeOK ==
  /\ visible \in Nat
  /\ deleted \in BOOLEAN
  /\ worker \in {"works", "done"}
  /\ age \in 0..BatchTimeout
  /\ channel \in {"open", "way", "there"}
  /\ (channel = "open") <=> (worker = "works")
  /\ manager \in {"sleeps", "calls", "reply", "stopped"}
  /\ i \in 1..MaxIter
  /\ sleep \in 0..get_next_sleep_for(VisibilityTimeout, i)
  /\ busy \in 0..Latency
  /\ failed \in BOOLEAN
  /\ late \in Nat
  /\ over \in Nat

\* While the manager runs, the message is invisible: each extension is in
\* force before the one before it runs out, though it is asked for only ten
\* seconds ahead and takes effect late.
ExtendedInTime == manager # "stopped" => visible > 0

\* "`keep_alive` will ensure that a message will stay alive during the
\* lifetime of the returned `Sender`" (sqs_timeout_manager.rs:171): the ten
\* iterations outlast the batch timeout.  Not so once a call has failed: the
\* manager returns ("it's probably fine", line 98) and the message becomes
\* visible while the worker is still at it.
KeptAlive == worker = "works" /\ ~deleted /\ ~failed => visible > 0

\* A message whose work is over is extended at most once more: the stop may
\* race the timer, but is then seen first.
OneLateCall == late <= 1

\* A message that was given up is retried within six visibility timeouts,
\* the extension in force when the batch times out included.
RetriedSoon == worker = "done" => visible <= 6 * VisibilityTimeout

\* The manager outlives its message's worker by one call to SQS: the stop comes
\* through another task, and is seen only between two calls.
StopsInTime == over <= Latency
=============================================================================
