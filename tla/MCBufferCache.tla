--------------------------- MODULE MCBufferCache ---------------------------
(* Instances of BufferCache for TLC. *)
EXTENDS BufferCache, TLC

CONSTANTS t1, t2, a, b

\* Nothing is asked of a behaviour after the step that leaves the limits.
WithinLimits == crossed = {}
=============================================================================
