---------------------------- MODULE MCInodeCache ----------------------------
(* An instance of InodeCache for TLC. *)
EXTENDS InodeCache, TLC

CONSTANTS t1, t2, t3

\* No behaviour is followed beyond the step that loses a change.
Interchange == Permutations(Threads)

Within == crossed \cap Losses = {}
=============================================================================
