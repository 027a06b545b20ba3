---------------------------- MODULE AtLeastOnce ----------------------------
(***************************************************************************)
(* What a queue worker of Grapl promises to the service upstream of it:    *)
(* a message leaves its queue for good only when every output the message  *)
(* calls for has been published downstream, or a copy of the message is in *)
(* the dead letter queue, or the message carries no work (the s3:TestEvent *)
(* that S3 sends when a notification is configured).  Outputs may be       *)
(* published any number of times and in any order: delivery is at least    *)
(* once.  SqsExecutor implements this specification.                       *)
(***************************************************************************)
CONSTANTS
  Messages,     \* the messages put on the source queue
  Events,       \* the events of a message, one output each
  TestEvents    \* the messages that are S3 test notifications

VARIABLES
  acknowledged, \* messages deleted from the source queue
  deadLetters,  \* messages with a copy in the dead letter queue
  downstream    \* outputs <<message, event>> published downstream

vars == <<acknowledged, deadLetters, downstream>>

Outputs(m) == {m} \X Events

Settled(m) == m \in TestEvents \/ m \in deadLetters \/ Outputs(m) \subseteq downstream

Init ==
  /\ acknowledged = {}
  /\ deadLetters = {}
  /\ downstream = {}

Publish(m, e) ==
  /\ downstream' = downstream \union {<<m, e>>}
  /\ UNCHANGED <<acknowledged, deadLetters>>

DeadLetter(m) ==
  /\ deadLetters' = deadLetters \union {m}
  /\ UNCHANGED <<acknowledged, downstream>>

Acknowledge(m) ==
  /\ Settled(m)
  /\ acknowledged' = acknowledged \union {m}
  /\ UNCHANGED <<deadLetters, downstream>>

Next ==
  \E m \in Messages :
    \/ \E e \in Events : Publish(m, e)
    \/ DeadLetter(m)
    \/ Acknowledge(m)

Spec == Init /\ [][Next]_vars
=============================================================================
