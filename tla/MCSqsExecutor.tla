---------------------------- MODULE MCSqsExecutor ----------------------------
(***************************************************************************)
(* Instances of SqsExecutor for TLC.                                       *)
(***************************************************************************)
EXTENDS SqsExecutor

CONSTANTS m1, m2, e1, p1, p2

MCMessages == {m1, m2}
MCOneMessage == {m1}
MCTestEvents == {m2}
MCNoTestEvents == {}
MCOneEvent == {e1}
MCProcs == {p1, p2}
MCOneProc == {p1}

\* DefaultHasher as built: values of different types hash differently.
TypedHash(x) == <<x.type, x.value>>

\* A hash of the contents alone, under which the identity of an identity is
\* itself: what a working completion cache would need.
ContentHash(x) == x.value
=============================================================================
