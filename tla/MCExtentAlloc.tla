--------------------------- MODULE MCExtentAlloc ---------------------------
(* Instances of ExtentAlloc for TLC. *)
EXTENDS ExtentAlloc, TLC

CONSTANTS c1, c2

Callers == Permutations({c1, c2})
=============================================================================
