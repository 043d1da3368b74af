----------------------------- MODULE MCJournal -----------------------------
(* Instances of Journal for TLC. *)
EXTENDS Journal, TLC

CONSTANTS t1, t2, a, b, v1, v2

OneBlock  == {<< <<a, v1>> >>, << <<a, v2>> >>}
TwoBlocks == {<< <<a, v1>>, <<b, v1>> >>, << <<a, v2>>, <<b, v2>> >>}
OneOrTwo  == {<< <<a, v1>> >>, << <<a, v1>>, <<b, v1>> >>}
Mixed     == {<< <<a, v1>>, <<b, v2>> >>, << <<a, v2>> >>}

\* Nothing is asked of a behaviour after the step that leaves the limits, so
\* TLC does not follow it further.
NoMixed == "mixed" \notin crossed
=============================================================================
