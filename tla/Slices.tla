------------------------------- MODULE Slices -------------------------------
(***************************************************************************)
(* The slices of identities that a cache is called with, and what          *)
(* Iterator::partition makes of them.                                      *)
(***************************************************************************)
EXTENDS Naturals, Sequences

Elements(xs) == {xs[i] : i \in DOMAIN xs}

\* What is left of the first i elements of xs, for every i.
Kept(xs, S) ==
  LET kept[i \in 0..Len(xs)] ==
        IF i = 0 THEN << >>
        ELSE IF xs[i] \in S THEN Append(kept[i - 1], xs[i]) ELSE kept[i - 1]
  IN  kept

\* The elements of xs that are in S, and those that are not, in their order.
Within(xs, S) == Kept(xs, S)[Len(xs)]
Without(xs, S) == Within(xs, Elements(xs) \ S)
=============================================================================
