---------------------------- MODULE MCFileSystem ----------------------------
(* An instance of FileSystem for TLC. *)
EXTENDS FileSystem

CONSTANTS t1, t2, t3, a, b

\* "/a" and "/b", and what is in "/a"
FewPaths == {<<a>>, <<b>>, <<a, a>>, <<a, b>>}

\* a root with nothing in it, with a directory, with a file and a directory
\* that has a file
FewImages ==
  {[kind    |-> [i \in Inums |-> IF i = 1 THEN "dir" ELSE "free"],
    entries |-> [i \in Inums |-> {}]],
   [kind    |-> [i \in Inums |-> IF i <= 2 THEN "dir" ELSE "free"],
    entries |-> [i \in Inums |-> IF i = 1 THEN {<<a, 2>>} ELSE {}]],
   [kind    |-> [i \in Inums |-> CASE i \in {1, 3} -> "dir" [] i \in {2, 4} -> "file" [] OTHER -> "free"],
    entries |-> [i \in Inums |-> CASE i = 1 -> {<<a, 3>>, <<b, 2>>} [] i = 3 -> {<<a, 4>>} [] OTHER -> {}]]}

Interchange == Permutations(Threads)

\* No behaviour is followed behind a limit.
Inside == crossed = {}
=============================================================================
