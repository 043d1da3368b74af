---------------------------- MODULE MCDirectory ----------------------------
(* Instances of Directory for TLC. *)
EXTENDS Directory, TLC

CONSTANTS a, b, c, r1

\* c is as long as a name can be
Sizes == [n \in Names |-> IF n = c THEN Full ELSE 2]

SameSize == Permutations({a, b})
=============================================================================
