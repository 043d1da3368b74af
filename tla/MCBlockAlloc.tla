---------------------------- MODULE MCBlockAlloc ----------------------------
(* Instances of BlockAlloc for TLC. *)
EXTENDS BlockAlloc, TLC

CONSTANTS c1, c2

Owners == Permutations({c1, c2})
=============================================================================
