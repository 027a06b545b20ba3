----------------------------- MODULE MCSessionDb -----------------------------
(***************************************************************************)
(* Instances of SessionDb for TLC.                                         *)
(***************************************************************************)
EXTENDS SessionDb, TLC

CONSTANTS k1, k2, w1, w2

Created(k, t) == [pseudo_key |-> k, timestamp |-> t, is_creation |-> TRUE]
Seen(k, t) == [pseudo_key |-> k, timestamp |-> t, is_creation |-> FALSE]

MCWorkers == {w1, w2}

\* A creation and a sighting at the two ends of one tenth of a second, a
\* creation in the next, and a sighting after that.
MCUnids == {Created(k1, 210), Seen(k1, 290), Created(k1, 300), Seen(k1, 410)}

Symmetry == Permutations(MCWorkers)
=============================================================================
