---------------------------- MODULE MCFileBlocks ----------------------------
(* Instances of FileBlocks for TLC. *)
EXTENDS FileBlocks, TLC

CONSTANTS f, g, d

\* a whole block, parts of blocks, from a direct into an indirect block, and
\* into the first and the second table of the double indirect one
Reaches == {<<0, 2>>, <<1, 2>>, <<6, 1>>, <<10, 2>>, <<12, 4>>}
Shorts  == {<<0, 2>>}
=============================================================================
