----------------------------- MODULE MCContext -----------------------------
(* An instance of Context for TLC. *)
EXTENDS Context

CONSTANTS t1, t2, f, g

\* Every size up to 400 MB, where one more block of the data bitmap is needed
\* three times, and the largest ones.
LayoutSizes == 1 .. 400 \cup 16200 .. 16384
=============================================================================
