-------------------------- MODULE FileSystemProofs --------------------------
(***************************************************************************)
(* Proofs about FileSystem, for every tree to begin with and any number of *)
(* threads, requests and failing calls: TreeSound, HandlesKeepFile, and    *)
(* that the requests implement Namespace.                                  *)
(***************************************************************************)
EXTENDS FileSystem, FiniteSetTheorems, SequenceTheorems, Iteration

LOCAL INSTANCE SequencesExt

\* What most proofs need of the assumptions.
LEMMA InumsAre == Root \in Inums /\ NONE \notin Inums
BY FileSystemAssumption DEF NONE

USE InumsAre DEF inodeVars, callVars

----------------------------------------------------------------------------
(* The invariants.                                                         *)

Path(t)   == req[t].path
AtWork    == {t \in Threads : pc[t] # "idle"}
Parent(p) == IF Len(p) = 1 THEN Root ELSE Lookup(Root, p[1])

\* the parent of the path has been found
Past(t)  == pc[t] \in {"lock", "find", "look", "add", "remove", "free"} \/ (pc[t] = "reply" /\ ans[t] = "ok")
\* the thread has an inode without a name
Holds(t) == pc[t] \in {"add", "free"}

Stages == {"idle", "basename", "copy", "walk", "lock", "find", "look", "add", "remove", "free", "reply"}
Errors == {"ENOENT", "EISDIR", "ENOTDIR", "EEXIST", "ENOSPC", "EIO", "ENOTEMPTY"}

\* what the place of a thread says of its request, and the inode it has
CallOK(t) ==
  /\ pc[t] = "idle" => req[t] = <<>> /\ tgt[t] = NONE
  /\ pc[t] # "idle" => req[t] \in Requests
  /\ ans[t] = "none" <=> pc[t] \notin {"free", "reply"}
  /\ pc[t] = "free" => ans[t] = "ok"
  /\ pc[t] \in {"basename", "copy", "lock"} => Op(t) \in Mutators
  /\ pc[t] = "add" => Makes(t)
  /\ pc[t] \in {"remove", "free"} => Removes(req[t])
  /\ pc[t] \in {"find", "look"} => Op(t) \in Readers
  /\ pc[t] \in {"walk", "lock", "add", "remove", "free"} /\ Op(t) \in Mutators => nm[t] \in Names
  /\ Past(t) => dir[t] \in Inums
  /\ pc[t] \in {"look", "add", "remove", "free"} => tgt[t] \in Inums
  /\ pc[t] = "reply" /\ ans[t] = "ok" => tgt[t] \in Inums
  /\ pc[t] # "idle" /\ Op(t) \in Mutators => tgt[t] # Root

CallInv ==
  /\ pc \in [Threads -> Stages] /\ ans \in [Threads -> {"none", "ok"} \cup Errors]
  /\ \A t \in Threads : CallOK(t)
  /\ NamesOnce
  /\ \A d \in Inums : \A e \in entries[d] : e[2] # Root

\* Requests at work are apart, and a file that is open is not being unlinked.
KernelInv ==
  \A t \in AtWork :
    /\ \A u \in AtWork \ {t} : Apart(req[t], req[u])
    /\ "hardRemove" \notin crossed /\ Op(t) = "unlink" => ~IsOpen(Path(t))

\* The tree: only the root and the directories in it have entries,
Shallow ==
  \A d \in Inums :
    /\ IsFiniteSet(entries[d])
    /\ entries[d] # {} => kind[d] = "dir" /\ (d = Root \/ \E e \in entries[Root] : e[2] = d)
\* an inode has one name at most,
OneName == \A d, c \in Inums : \A e \in entries[d], g \in entries[c] : e[2] = g[2] => c = d /\ e = g
\* what has a name is in use and in nobody's hand,
Named == \A d \in Inums : \A e \in entries[d] : kind[e[2]] # "free" /\ ~InHand(e[2])
\* what is in use has a name or is in a thread's hand,
NoneLost ==
  \A i \in Inums \ {Root} : kind[i] # "free" /\ ~InHand(i) => \E d \in Inums : \E e \in entries[d] : e[2] = i
\* the directories in a directory are counted,
SubDirs(d) == {e \in entries[d] : kind[e[2]] = "dir"}
Counted == \A d \in Inums : kind[d] = "dir" => nlink[d] = 2 + Cardinality(SubDirs(d))
\* and no two threads have one inode in hand.
HandsApart == \A t, u \in Threads : t # u /\ Holds(t) /\ Holds(u) => tgt[t] # tgt[u]

TreeInv == Shallow /\ OneName /\ Named /\ NoneLost /\ Counted /\ HandsApart

\* A request works on the name it was given and in that name's directory, and
\* the inode it has is what its place says.
PlaceOK(t) ==
  /\ pc[t] \notin {"basename", "copy"} /\ Op(t) \in Mutators => nm[t] = Last(Path(t))
  /\ Past(t) => dir[t] = Parent(Path(t)) /\ kind[dir[t]] = "dir"
  /\ pc[t] = "look" => At(Path(t)) = tgt[t]
  /\ pc[t] = "add" => /\ kind[tgt[t]] = IF Op(t) = "mkdir" THEN "dir" ELSE "file"
                      /\ Op(t) = "mkdir" => nlink[tgt[t]] = 2
                      /\ entries[tgt[t]] = {}
  /\ pc[t] = "remove" => /\ At(Path(t)) = tgt[t]
                         /\ Op(t) = "rmdir" <=> kind[tgt[t]] = "dir"
                         /\ entries[tgt[t]] = {}
  /\ pc[t] = "free" => kind[tgt[t]] # "free" /\ entries[tgt[t]] = {}
  /\ pc[t] = "reply" /\ ans[t] = "ok" /\ Op(t) \in {"create", "open"} =>
       At(Path(t)) = tgt[t] /\ kind[tgt[t]] = "file"
PlaceInv == \A t \in AtWork : PlaceOK(t)

\* as long as these limits have not been crossed
Sheltered == Within({"nameRace", "walk", "files"})

ImageInv == TypeOK /\ CallInv /\ KernelInv /\ (Sheltered => TreeInv /\ PlaceInv)

\* the parts of TypeOK
TreeTypes ==
  /\ kind \in [Inums -> {"free", "file", "dir"}] /\ kind[Root] = "dir"
  /\ nlink \in [Inums -> Int]
  /\ entries \in [Inums -> SUBSET (Names \X Inums)]
RestTypes ==
  /\ buf \in Names \cup {NONE}
  /\ handles \subseteq [path : Paths, fh : Inums]
  /\ req \in [Threads -> Requests \cup {<<>>}]
  /\ nm \in [Threads -> Names \cup {NONE}]
  /\ dir \in [Threads -> Inums \cup {NONE}] /\ tgt \in [Threads -> Inums \cup {NONE}]
  /\ crossed \subseteq {"nameRace", "walk", "files", "hardRemove", "unread"}

----------------------------------------------------------------------------
\* A request has a path of one name or two, and is none that a thread at rest has.
LEMMA RequestIs ==
  ASSUME NEW r \in Requests
  PROVE  r.path \in TreePaths /\ r.op \in Mutators \cup Readers /\ r # <<>>
BY FileSystemAssumption DEF Requests

\* The directory of a path of two names.
LEMMA DirnameIs == ASSUME NEW n \in Names, NEW m \in Names PROVE Dirname(<<n, m>>) = <<n>>
<1>. DEFINE p == <<n, m>>
<1>1. p \in Seq(Names) /\ Len(p) = 2 /\ p[1] = n
  OBVIOUS
<1>. HIDE DEF p
<1>2. SubSeq(p, 1, 1) \in Seq(Names) /\ Len(SubSeq(p, 1, 1)) = 1 /\ SubSeq(p, 1, 1)[1] = n
  BY <1>1, SubSeqProperties
<1>3. \A q \in Seq(Names) : Len(q) = 1 /\ q[1] = n => q = <<n>>
  OBVIOUS
<1>4. Len(p) - 1 = 1
  BY <1>1
<1>5. SubSeq(p, 1, 1) = <<n>>
  BY <1>2, <1>3, Zenon
<1>. QED  BY <1>4, <1>5, Zenon DEF Dirname, Front, p

\* A path of one name, and one of two.
LEMMA PathIs ==
  ASSUME NEW p \in TreePaths
  PROVE  \/ \E n \in Names : p = <<n>> /\ Len(p) = 1 /\ p[1] = n /\ Last(p) = n /\ Head(p) = n /\ Dirname(p) = <<>>
         \/ \E n, m \in Names : /\ p = <<n, m>> /\ Len(p) = 2 /\ p[1] = n /\ p[2] = m
                                /\ Last(p) = m /\ Head(p) = n /\ Dirname(p) = <<n>>
<1>1. CASE \E n \in Names : p = <<n>>
  BY <1>1 DEF Last, Dirname, Front
<1>2. CASE \E n, m \in Names : p = <<n, m>>
  <2>1. PICK n \in Names, m \in Names : p = <<n, m>>
    BY <1>2
  <2>2. Len(p) = 2 /\ p[1] = n /\ p[2] = m /\ Last(p) = m /\ Head(p) = n
    BY <2>1 DEF Last
  <2>3. Dirname(p) = <<n>>
    BY <2>1, DirnameIs
  <2>. QED  BY <2>1, <2>2, <2>3
<1>. QED  BY <1>1, <1>2 DEF TreePaths

\* The last name of a path is a name.
LEMMA LastIs == \A p \in TreePaths : Last(p) \in Names
BY PathIs

\* Of the entries of one directory there is one at most with a name, and
\* Lookup finds it.
LEMMA LookInIs ==
  ASSUME NEW D \in SUBSET (Names \X Inums), \A e, g \in D : e[1] = g[1] => e = g, NEW n \in Names
  PROVE  LET found == IF \E e \in D : e[1] = n THEN (CHOOSE e \in D : e[1] = n)[2] ELSE NONE
         IN  /\ found \in Inums \cup {NONE}
             /\ \A i \in Inums : found = i <=> <<n, i>> \in D
<1>. DEFINE found == IF \E e \in D : e[1] = n THEN (CHOOSE e \in D : e[1] = n)[2] ELSE NONE
<1>1. CASE \E e \in D : e[1] = n
  <2>. DEFINE e == CHOOSE e \in D : e[1] = n
  <2>1. e \in D /\ e[1] = n
    BY <1>1
  <2>2. found = e[2]
    BY <1>1
  <2>. HIDE DEF e, found
  <2>3. e = <<n, e[2]>> /\ e[2] \in Inums
    BY <2>1
  <2>4. \A i \in Inums : <<n, i>> \in D => <<n, i>> = e
    BY <2>1
  <2>5. found \in Inums \cup {NONE} /\ \A i \in Inums : found = i <=> <<n, i>> \in D
    BY <2>1, <2>2, <2>3, <2>4
  <2>. QED  BY <2>5 DEF found
<1>2. CASE ~\E e \in D : e[1] = n
  BY <1>2
<1>. QED  BY <1>1, <1>2

\* What dir_lookup finds is what an entry of that name says.
LEMMA LookupIs ==
  ASSUME TypeOK, NamesOnce, NEW d \in Inums, NEW n \in Names
  PROVE  /\ Lookup(d, n) \in Inums \cup {NONE}
         /\ \A i \in Inums : Lookup(d, n) = i <=> <<n, i>> \in entries[d]
<1>1. entries[d] \in SUBSET (Names \X Inums) /\ \A e, g \in entries[d] : e[1] = g[1] => e = g
  BY DEF TypeOK, NamesOnce
<1>. QED  BY <1>1, LookInIs DEF Lookup

\* The same after a step.
LEMMA LookupIsNext ==
  ASSUME TypeOK', NamesOnce', NEW d \in Inums, NEW n \in Names
  PROVE  /\ Lookup(d, n)' \in Inums \cup {NONE}
         /\ \A i \in Inums : Lookup(d, n)' = i <=> <<n, i>> \in entries'[d]
<1>1. entries'[d] \in SUBSET (Names \X Inums) /\ \A e, g \in entries'[d] : e[1] = g[1] => e = g
  BY DEF TypeOK, NamesOnce
<1>. QED  BY <1>1, LookInIs DEF Lookup

\* The lowest number of a set of inodes is one of it.
LEMMA LowestIs ==
  ASSUME NEW S \in SUBSET Inums, S # {}
  PROVE  Lowest(S) \in S
<1>1. \E n \in S : \A m \in S : n <= m
  BY Least, FileSystemAssumption
<1>. QED  BY <1>1, FileSystemAssumption DEF Lowest

\* CallInv and the types hold at the beginning.
LEMMA CallInit == Init => TypeOK /\ CallInv
<1>. SUFFICES ASSUME Init PROVE TypeOK /\ CallInv
  OBVIOUS
<1>1. PICK image \in Images : kind = image.kind /\ entries = image.entries
  BY DEF Init
<1>2. SoundImage(kind, entries)
  BY <1>1, FileSystemAssumption
<1>3. \A S : IsFiniteSet(S) => Cardinality(S) \in Nat
  BY FS_CardinalityType
<1>4. \A i \in Inums : Cardinality({e \in entries[i] : kind[e[2]] = "dir"}) \in Nat
  <2>. SUFFICES ASSUME NEW i \in Inums PROVE Cardinality({e \in entries[i] : kind[e[2]] = "dir"}) \in Nat
    OBVIOUS
  <2>1. IsFiniteSet({e \in entries[i] : kind[e[2]] = "dir"})
    BY <1>2, FS_Subset DEF SoundImage
  <2>. QED  BY <2>1, <1>3
<1>5. nlink \in [Inums -> Int]
  <2>1. nlink = [i \in Inums |->
            CASE kind[i] = "dir" -> 2 + Cardinality({e \in entries[i] : kind[e[2]] = "dir"})
              [] kind[i] = "file" -> 1
              [] OTHER -> 0]
    BY <1>1 DEF Init
  <2>2. ASSUME NEW i \in Inums PROVE nlink[i] \in Int
    <3>. DEFINE c == Cardinality({e \in entries[i] : kind[e[2]] = "dir"})
    <3>1. c \in Nat
      BY <1>4
    <3>. HIDE DEF c
    <3>2. nlink[i] = CASE kind[i] = "dir" -> 2 + c [] kind[i] = "file" -> 1 [] OTHER -> 0
      BY <2>1 DEF c
    <3>. QED  BY <3>1, <3>2
  <2>. QED  BY <2>1, <2>2
<1>6. TypeOK
  BY <1>2, <1>5 DEF Init, TypeOK, SoundImage
<1>7. NamesOnce /\ \A d \in Inums : \A e \in entries[d] : e[2] # Root
  BY <1>2 DEF NamesOnce, SoundImage
<1>8. \A t \in Threads : CallOK(t)
  BY DEF Init, CallOK, Past
<1>. QED  BY <1>6, <1>7, <1>8 DEF Init, CallInv, Stages


\* What a step says of one thread it says of no other.
LEMMA OthersKeep ==
  ASSUME CallInv, NEW t \in Threads,
         \A u \in Threads \ {t} : /\ pc'[u] = pc[u] /\ req'[u] = req[u] /\ ans'[u] = ans[u]
                                  /\ nm'[u] = nm[u] /\ dir'[u] = dir[u] /\ tgt'[u] = tgt[u]
  PROVE  \A u \in Threads \ {t} : CallOK(u)'
BY DEF CallInv, CallOK, Past, Op, Makes

\* Every action keeps the types and what the place of its thread says: a call,
LEMMA AskCalls ==
  ASSUME TypeOK, CallInv, NEW t \in Threads, Ask(t)
  PROVE  TypeOK' /\ CallInv'
<1>1. TypeOK'
  BY DEF Ask, TypeOK, Goto, Cross, Use
<1>2. pc' \in [Threads -> Stages] /\ ans' \in [Threads -> {"none", "ok"} \cup Errors]
  BY DEF Ask, CallInv, Goto, Answer, Stages, Errors
<1>3. CallOK(t)'
  BY RequestIs DEF Ask, TypeOK, CallInv, CallOK, Past, Op, Makes, Goto, Mutators, Readers, Removes
<1>4. \A u \in Threads \ {t} : CallOK(u)'
  BY OthersKeep DEF Ask, TypeOK, CallInv, Goto, Answer
<1>5. NamesOnce' /\ \A d \in Inums : \A e \in entries'[d] : e[2] # Root
  BY DEF Ask, TypeOK, CallInv, NamesOnce
<1>. QED  BY <1>1, <1>2, <1>3, <1>4, <1>5 DEF CallInv

\* path_basename,
LEMMA BasenameCalls ==
  ASSUME TypeOK, CallInv, NEW t \in Threads, Basename(t)
  PROVE  TypeOK' /\ CallInv'
<1>1. TypeOK'
  BY LastIs, RequestIs DEF Basename, TypeOK, CallInv, CallOK
<1>2. pc' \in [Threads -> Stages] /\ ans' \in [Threads -> {"none", "ok"} \cup Errors]
  BY DEF Basename, CallInv, Goto, Answer, Stages, Errors
<1>3. CallOK(t)'
  BY DEF Basename, TypeOK, CallInv, CallOK, Past, Op, Makes, Goto, Mutators, Readers, Removes
<1>4. \A u \in Threads \ {t} : CallOK(u)'
  BY OthersKeep DEF Basename, TypeOK, CallInv, Goto, Answer
<1>5. NamesOnce' /\ \A d \in Inums : \A e \in entries'[d] : e[2] # Root
  BY DEF Basename, TypeOK, CallInv, NamesOnce
<1>. QED  BY <1>1, <1>2, <1>3, <1>4, <1>5 DEF CallInv

\* strcpy out of its buffer,
LEMMA CopyNameCalls ==
  ASSUME TypeOK, CallInv, NEW t \in Threads, CopyName(t)
  PROVE  TypeOK' /\ CallInv'
<1>1. TypeOK'
  BY DEF CopyName, TypeOK, Goto, Cross
<1>2. pc' \in [Threads -> Stages] /\ ans' \in [Threads -> {"none", "ok"} \cup Errors]
  BY DEF CopyName, CallInv, Goto, Answer, Stages, Errors
<1>3. CallOK(t)'
  BY DEF CopyName, TypeOK, CallInv, CallOK, Past, Op, Makes, Goto, Mutators, Readers, Removes
<1>4. \A u \in Threads \ {t} : CallOK(u)'
  BY OthersKeep DEF CopyName, TypeOK, CallInv, Goto, Answer
<1>5. NamesOnce' /\ \A d \in Inums : \A e \in entries'[d] : e[2] # Root
  BY DEF CopyName, TypeOK, CallInv, NamesOnce
<1>. QED  BY <1>1, <1>2, <1>3, <1>4, <1>5 DEF CallInv

\* the walk to the parent,
LEMMA WalkCalls ==
  ASSUME TypeOK, CallInv, NEW t \in Threads, Walk(t)
  PROVE  TypeOK' /\ CallInv'
<1>1. TypeOK'
  <2>1. TreeTypes'
    BY DEF TreeTypes, Walk, Found, TypeOK, Goto, Answer, Cross
  <2>2. PICK i \in Inums \cup {NONE} :
          /\ dir' = [dir EXCEPT ![t] = i]
          /\ crossed' = crossed \/ crossed' = crossed \cup {} \/ crossed' = crossed \cup {"walk"}
    BY DEF Walk, Found, Cross
  <2>3. RestTypes'
    BY <2>2 DEF RestTypes, TypeOK, Walk
  <2>. QED  BY <2>1, <2>3 DEF TypeOK, TreeTypes, RestTypes
<1>2. pc' \in [Threads -> Stages] /\ ans' \in [Threads -> {"none", "ok"} \cup Errors]
  BY DEF Walk, Found, CallInv, Goto, Answer, Stages, Errors
<1>3. CallOK(t)'
  BY RequestIs DEF Walk, Found, TypeOK, CallInv, CallOK, Past, Op, Makes, Goto, Answer, Mutators, Readers, Removes
<1>4. \A u \in Threads \ {t} : CallOK(u)'
  BY OthersKeep DEF Walk, Found, TypeOK, CallInv, Goto, Answer
<1>5. NamesOnce' /\ \A d \in Inums : \A e \in entries'[d] : e[2] # Root
  BY DEF Walk, Found, TypeOK, CallInv, NamesOnce
<1>. QED  BY <1>1, <1>2, <1>3, <1>4, <1>5 DEF CallInv

\* to the last name,
LEMMA FindCalls ==
  ASSUME TypeOK, CallInv, NEW t \in Threads, Find(t)
  PROVE  TypeOK' /\ CallInv'
<1>1. TypeOK'
  BY DEF Find, Found, TypeOK, Goto, Answer, Cross
<1>2. pc' \in [Threads -> Stages] /\ ans' \in [Threads -> {"none", "ok"} \cup Errors]
  BY DEF Find, Found, CallInv, Goto, Answer, Stages, Errors
<1>3. CallOK(t)'
  BY DEF Find, Found, TypeOK, CallInv, CallOK, Past, Op, Makes, Goto, Answer, Mutators, Readers, Removes
<1>4. \A u \in Threads \ {t} : CallOK(u)'
  BY OthersKeep DEF Find, Found, TypeOK, CallInv, Goto, Answer
<1>5. NamesOnce' /\ \A d \in Inums : \A e \in entries'[d] : e[2] # Root
  BY DEF Find, Found, TypeOK, CallInv, NamesOnce
<1>. QED  BY <1>1, <1>2, <1>3, <1>4, <1>5 DEF CallInv

\* a walk that fails,
LEMMA WalkFailsCalls ==
  ASSUME TypeOK, CallInv, NEW t \in Threads, WalkFails(t)
  PROVE  TypeOK' /\ CallInv'
<1>1. TypeOK'
  BY DEF WalkFails, TypeOK, Goto, Answer, Cross, Use
<1>2. pc' \in [Threads -> Stages] /\ ans' \in [Threads -> {"none", "ok"} \cup Errors]
  BY DEF WalkFails, CallInv, Goto, Answer, Stages, Errors
<1>3. CallOK(t)'
  BY DEF WalkFails, TypeOK, CallInv, CallOK, Past, Op, Makes, Goto, Answer, Mutators, Readers, Removes
<1>4. \A u \in Threads \ {t} : CallOK(u)'
  BY OthersKeep DEF WalkFails, TypeOK, CallInv, Goto, Answer
<1>5. NamesOnce' /\ \A d \in Inums : \A e \in entries'[d] : e[2] # Root
  BY DEF WalkFails, TypeOK, CallInv, NamesOnce
<1>. QED  BY <1>1, <1>2, <1>3, <1>4, <1>5 DEF CallInv

\* getattr,
LEMMA GetattrCalls ==
  ASSUME TypeOK, CallInv, NEW t \in Threads, Getattr(t)
  PROVE  TypeOK' /\ CallInv'
<1>1. TypeOK'
  BY DEF Getattr, Look, TypeOK, Goto, Answer
<1>2. pc' \in [Threads -> Stages] /\ ans' \in [Threads -> {"none", "ok"} \cup Errors]
  BY DEF Getattr, Look, CallInv, Goto, Answer, Stages, Errors
<1>3. CallOK(t)'
  BY DEF Getattr, Look, TypeOK, CallInv, CallOK, Past, Op, Makes, Goto, Answer, Mutators, Readers, Removes
<1>4. \A u \in Threads \ {t} : CallOK(u)'
  BY OthersKeep DEF Getattr, Look, TypeOK, CallInv, Goto, Answer
<1>5. NamesOnce' /\ \A d \in Inums : \A e \in entries'[d] : e[2] # Root
  BY DEF Getattr, Look, TypeOK, CallInv, NamesOnce
<1>. QED  BY <1>1, <1>2, <1>3, <1>4, <1>5 DEF CallInv

\* open,
LEMMA OpenCalls ==
  ASSUME TypeOK, CallInv, NEW t \in Threads, Open(t)
  PROVE  TypeOK' /\ CallInv'
<1>1. TypeOK'
  BY DEF Open, Look, TypeOK, Goto, Answer
<1>2. pc' \in [Threads -> Stages] /\ ans' \in [Threads -> {"none", "ok"} \cup Errors]
  BY DEF Open, Look, CallInv, Goto, Answer, Stages, Errors
<1>3. CallOK(t)'
  BY DEF Open, Look, TypeOK, CallInv, CallOK, Past, Op, Makes, Goto, Answer, Mutators, Readers, Removes
<1>4. \A u \in Threads \ {t} : CallOK(u)'
  BY OthersKeep DEF Open, Look, TypeOK, CallInv, Goto, Answer
<1>5. NamesOnce' /\ \A d \in Inums : \A e \in entries'[d] : e[2] # Root
  BY DEF Open, Look, TypeOK, CallInv, NamesOnce
<1>. QED  BY <1>1, <1>2, <1>3, <1>4, <1>5 DEF CallInv

\* readdir,
LEMMA ReaddirCalls ==
  ASSUME TypeOK, CallInv, NEW t \in Threads, Readdir(t)
  PROVE  TypeOK' /\ CallInv'
<1>1. TypeOK'
  BY DEF Readdir, Look, TypeOK, Goto, Answer
<1>2. pc' \in [Threads -> Stages] /\ ans' \in [Threads -> {"none", "ok"} \cup Errors]
  BY DEF Readdir, Look, CallInv, Goto, Answer, Stages, Errors
<1>3. CallOK(t)'
  BY DEF Readdir, Look, TypeOK, CallInv, CallOK, Past, Op, Makes, Goto, Answer, Mutators, Readers, Removes
<1>4. \A u \in Threads \ {t} : CallOK(u)'
  BY OthersKeep DEF Readdir, Look, TypeOK, CallInv, Goto, Answer
<1>5. NamesOnce' /\ \A d \in Inums : \A e \in entries'[d] : e[2] # Root
  BY DEF Readdir, Look, TypeOK, CallInv, NamesOnce
<1>. QED  BY <1>1, <1>2, <1>3, <1>4, <1>5 DEF CallInv

\* inode_alloc in create and mkdir,
LEMMA MakeCalls ==
  ASSUME TypeOK, CallInv, NEW t \in Threads, Make(t)
  PROVE  TypeOK' /\ CallInv'
<1>0. Lowest(FreeInums) \in FreeInums \/ FreeInums = {}
  BY LowestIs DEF FreeInums
<1>1. TypeOK'
  <2>1. CASE Alloc(t)
    <3>1. TreeTypes'
      BY <1>0, <2>1 DEF TreeTypes, Alloc, FreeInums, TypeOK
    <3>2. RestTypes'
      BY <1>0, <2>1 DEF RestTypes, Make, Alloc, FreeInums, TypeOK
    <3>. QED  BY <3>1, <3>2 DEF TypeOK, TreeTypes, RestTypes
  <2>2. CASE UNCHANGED <<inodeVars, tgt>>
    BY <2>2 DEF Make, TypeOK
  <2>. QED  BY <2>1, <2>2 DEF Make
<1>2. pc' \in [Threads -> Stages] /\ ans' \in [Threads -> {"none", "ok"} \cup Errors]
  BY DEF Make, Alloc, FreeInums, CallInv, Goto, Answer, Stages, Errors
<1>3. CallOK(t)'
  BY <1>0 DEF Make, Alloc, FreeInums, TypeOK, CallInv, CallOK, Past, Op, Makes, Goto, Answer, Mutators, Readers, Removes
<1>4. \A u \in Threads \ {t} : CallOK(u)'
  BY OthersKeep DEF Make, Alloc, FreeInums, TypeOK, CallInv, Goto, Answer
<1>5. NamesOnce' /\ \A d \in Inums : \A e \in entries'[d] : e[2] # Root
  BY <1>0 DEF Make, Alloc, FreeInums, TypeOK, CallInv, NamesOnce
<1>. QED  BY <1>1, <1>2, <1>3, <1>4, <1>5 DEF CallInv

\* in a directory that cannot be read,
LEMMA MakeUnreadCalls ==
  ASSUME TypeOK, CallInv, NEW t \in Threads, MakeUnread(t)
  PROVE  TypeOK' /\ CallInv'
<1>0. Lowest(FreeInums) \in FreeInums \/ FreeInums = {}
  BY LowestIs DEF FreeInums
<1>1. TypeOK'
  BY <1>0 DEF MakeUnread, Alloc, FreeInums, TypeOK, Goto, Use
<1>2. pc' \in [Threads -> Stages] /\ ans' \in [Threads -> {"none", "ok"} \cup Errors]
  BY DEF MakeUnread, Alloc, FreeInums, CallInv, Goto, Answer, Stages, Errors
<1>3. CallOK(t)'
  BY <1>0 DEF MakeUnread, Alloc, FreeInums, TypeOK, CallInv, CallOK, Past, Op, Makes, Goto, Mutators, Readers, Removes
<1>4. \A u \in Threads \ {t} : CallOK(u)'
  BY OthersKeep DEF MakeUnread, Alloc, FreeInums, TypeOK, CallInv, Goto, Answer
<1>5. NamesOnce' /\ \A d \in Inums : \A e \in entries'[d] : e[2] # Root
  BY <1>0 DEF MakeUnread, Alloc, FreeInums, TypeOK, CallInv, NamesOnce
<1>. QED  BY <1>1, <1>2, <1>3, <1>4, <1>5 DEF CallInv

\* inode_alloc that fails,
LEMMA MakeFailsCalls ==
  ASSUME TypeOK, CallInv, NEW t \in Threads, MakeFails(t)
  PROVE  TypeOK' /\ CallInv'
<1>1. TypeOK'
  BY DEF MakeFails, TypeOK, Goto, Answer, Use
<1>2. pc' \in [Threads -> Stages] /\ ans' \in [Threads -> {"none", "ok"} \cup Errors]
  BY DEF MakeFails, CallInv, Goto, Answer, Stages, Errors
<1>3. CallOK(t)'
  BY DEF MakeFails, TypeOK, CallInv, CallOK, Past, Op, Makes, Goto, Answer, Mutators, Readers, Removes
<1>4. \A u \in Threads \ {t} : CallOK(u)'
  BY OthersKeep DEF MakeFails, TypeOK, CallInv, Goto, Answer
<1>5. NamesOnce' /\ \A d \in Inums : \A e \in entries'[d] : e[2] # Root
  BY DEF MakeFails, TypeOK, CallInv, NamesOnce
<1>. QED  BY <1>1, <1>2, <1>3, <1>4, <1>5 DEF CallInv

\* dir_add,
LEMMA AddCalls ==
  ASSUME TypeOK, CallInv, NEW t \in Threads, Add(t)
  PROVE  TypeOK' /\ CallInv'
<1>0. dir[t] \in Inums /\ nm[t] \in Names /\ tgt[t] \in Inums \ {Root}
  BY DEF Add, CallInv, CallOK, Past, Makes, Mutators, Op
<1>a. \A i \in Inums : <<nm[t], i>> \notin entries[dir[t]]
  BY <1>0, LookupIs DEF Add, CallInv
<1>b. entries[dir[t]] \subseteq Names \X Inums
  BY <1>0 DEF TypeOK
<1>1. TypeOK'
  <2>1. entries' \in [Inums -> SUBSET (Names \X Inums)]
    BY <1>0 DEF Add, TypeOK
  <2>a. nlink' \in [Inums -> Int]
    BY <1>0 DEF Add, TypeOK
  <2>2. RestTypes'
    BY <1>0 DEF RestTypes, Add, TypeOK, Goto, Answer
  <2>. QED  BY <2>1, <2>a, <2>2 DEF TypeOK, RestTypes, Add
<1>2. pc' \in [Threads -> Stages] /\ ans' \in [Threads -> {"none", "ok"} \cup Errors]
  BY DEF Add, CallInv, Goto, Answer, Stages, Errors
<1>3. CallOK(t)'
  BY <1>0 DEF Add, TypeOK, CallInv, CallOK, Past, Op, Makes, Goto, Answer, Mutators, Readers, Removes
<1>4. \A u \in Threads \ {t} : CallOK(u)'
  BY OthersKeep DEF Add, TypeOK, CallInv, Goto, Answer
<1>5. NamesOnce' /\ \A d \in Inums : \A e \in entries'[d] : e[2] # Root
  <2>1. \A d \in Inums \ {dir[t]} : entries'[d] = entries[d]
    BY <1>0 DEF Add, TypeOK
  <2>2. entries'[dir[t]] = entries[dir[t]] \cup {<<nm[t], tgt[t]>>}
    BY <1>0 DEF Add, TypeOK
  <2>3. \A e \in entries[dir[t]] : e[1] # nm[t]
    BY <1>a, <1>b
  <2>. QED  BY <1>0, <2>1, <2>2, <2>3 DEF CallInv, NamesOnce
<1>. QED  BY <1>1, <1>2, <1>3, <1>4, <1>5 DEF CallInv

\* dir_add that fails,
LEMMA AddFailsCalls ==
  ASSUME TypeOK, CallInv, NEW t \in Threads, AddFails(t)
  PROVE  TypeOK' /\ CallInv'
<1>1. TypeOK'
  BY DEF AddFails, AddRefused, TypeOK, CallInv, CallOK, Op, Makes, Mutators
<1>2. pc' \in [Threads -> Stages] /\ ans' \in [Threads -> {"none", "ok"} \cup Errors]
  BY DEF AddFails, AddRefused, CallInv, Goto, Answer, Stages, Errors
<1>3. CallOK(t)'
  BY DEF AddFails, AddRefused, TypeOK, CallInv, CallOK, Past, Op, Makes, Goto, Answer, Mutators, Readers, Removes
<1>4. \A u \in Threads \ {t} : CallOK(u)'
  BY OthersKeep DEF AddFails, AddRefused, TypeOK, CallInv, Goto, Answer
<1>5. NamesOnce' /\ \A d \in Inums : \A e \in entries'[d] : e[2] # Root
  BY DEF AddFails, AddRefused, TypeOK, CallInv, NamesOnce
<1>. QED  BY <1>1, <1>2, <1>3, <1>4, <1>5 DEF CallInv

\* the checks of unlink and rmdir,
LEMMA CheckCalls ==
  ASSUME TypeOK, CallInv, NEW t \in Threads, Check(t)
  PROVE  TypeOK' /\ CallInv'
<1>0. /\ Lookup(dir[t], nm[t]) \in Inums \cup {NONE}
      /\ \A i \in Inums : Lookup(dir[t], nm[t]) = i => <<nm[t], i>> \in entries[dir[t]]
  BY LookupIs DEF Check, CallInv, CallOK, Past, Makes, Mutators
<1>1. TypeOK'
  BY <1>0, RequestIs DEF Check, TypeOK, Goto, Answer, Cross
<1>2. pc' \in [Threads -> Stages] /\ ans' \in [Threads -> {"none", "ok"} \cup Errors]
  BY DEF Check, CallInv, Goto, Answer, Stages, Errors
<1>3. CallOK(t)'
  <2>0. \A i \in Inums : <<nm[t], i>> \in entries[dir[t]] => i # Root
    BY DEF Check, CallInv, CallOK, Past
  <2>1. tgt'[t] # Root
    BY <1>0, <2>0 DEF Check, TypeOK, CallInv
  <2>2. pc'[t] \in {"reply", "remove"} /\ (pc'[t] = "reply" <=> ans'[t] # "none") /\ ans'[t] # "ok"
    BY DEF Check, Answer, Goto, CallInv, CallOK
  <2>3. pc'[t] = "remove" => tgt'[t] \in Inums
    BY <1>0, <2>2 DEF Check, Answer, Goto, TypeOK, CallInv
  <2>4. Removes(req[t]) /\ req[t] \in Requests /\ dir[t] \in Inums /\ nm[t] \in Names
    BY RequestIs DEF Check, CallInv, CallOK, Makes, Op, Mutators, Removes, Past
  <2>. QED  BY <2>1, <2>2, <2>3, <2>4 DEF Check, CallOK, Past, Op, Makes, Removes, Readers
<1>4. \A u \in Threads \ {t} : CallOK(u)'
  BY OthersKeep DEF Check, TypeOK, CallInv, Goto, Answer
<1>5. NamesOnce' /\ \A d \in Inums : \A e \in entries'[d] : e[2] # Root
  BY <1>0 DEF Check, TypeOK, CallInv, NamesOnce
<1>. QED  BY <1>1, <1>2, <1>3, <1>4, <1>5 DEF CallInv

\* dir_remove,
LEMMA UnnameCalls ==
  ASSUME TypeOK, CallInv, NEW t \in Threads, Unname(t)
  PROVE  TypeOK' /\ CallInv'
<1>1. TypeOK'
  <2>0. dir[t] \in Inums
    BY DEF Unname, CallInv, CallOK, Past
  <2>1. entries' \in [Inums -> SUBSET (Names \X Inums)]
    BY <2>0 DEF Unname, TypeOK
  <2>a. nlink' \in [Inums -> Int]
    BY <2>0 DEF Unname, TypeOK
  <2>2. RestTypes'
    BY DEF RestTypes, Unname, TypeOK, Goto
  <2>. QED  BY <2>1, <2>a, <2>2 DEF TypeOK, RestTypes, Unname
<1>2. pc' \in [Threads -> Stages] /\ ans' \in [Threads -> {"none", "ok"} \cup Errors]
  BY DEF Unname, CallInv, Goto, Answer, Stages, Errors
<1>3. CallOK(t)'
  BY DEF Unname, TypeOK, CallInv, CallOK, Past, Op, Makes, Goto, Mutators, Readers, Removes
<1>4. \A u \in Threads \ {t} : CallOK(u)'
  BY OthersKeep DEF Unname, TypeOK, CallInv, Goto, Answer
<1>5. NamesOnce' /\ \A d \in Inums : \A e \in entries'[d] : e[2] # Root
  BY DEF Unname, TypeOK, CallInv, NamesOnce
<1>. QED  BY <1>1, <1>2, <1>3, <1>4, <1>5 DEF CallInv

\* dir_remove that fails,
LEMMA UnnameFailsCalls ==
  ASSUME TypeOK, CallInv, NEW t \in Threads, UnnameFails(t)
  PROVE  TypeOK' /\ CallInv'
<1>1. TypeOK'
  BY DEF UnnameFails, TypeOK, Goto, Answer, Use
<1>2. pc' \in [Threads -> Stages] /\ ans' \in [Threads -> {"none", "ok"} \cup Errors]
  BY DEF UnnameFails, CallInv, Goto, Answer, Stages, Errors
<1>3. CallOK(t)'
  BY DEF UnnameFails, TypeOK, CallInv, CallOK, Past, Op, Makes, Goto, Answer, Mutators, Readers, Removes
<1>4. \A u \in Threads \ {t} : CallOK(u)'
  BY OthersKeep DEF UnnameFails, TypeOK, CallInv, Goto, Answer
<1>5. NamesOnce' /\ \A d \in Inums : \A e \in entries'[d] : e[2] # Root
  BY DEF UnnameFails, TypeOK, CallInv, NamesOnce
<1>. QED  BY <1>1, <1>2, <1>3, <1>4, <1>5 DEF CallInv

\* inode_free,
LEMMA FreeCalls ==
  ASSUME TypeOK, CallInv, NEW t \in Threads, Free(t)
  PROVE  TypeOK' /\ CallInv'
<1>1. TypeOK'
  BY DEF Free, TypeOK, CallInv, CallOK, Op, Removes, Mutators
<1>2. pc' \in [Threads -> Stages] /\ ans' \in [Threads -> {"none", "ok"} \cup Errors]
  BY DEF Free, CallInv, Goto, Answer, Stages, Errors
<1>3. CallOK(t)'
  BY DEF Free, TypeOK, CallInv, CallOK, Past, Op, Makes, Goto, Mutators, Readers, Removes
<1>4. \A u \in Threads \ {t} : CallOK(u)'
  BY OthersKeep DEF Free, TypeOK, CallInv, Goto, Answer
<1>5. NamesOnce' /\ \A d \in Inums : \A e \in entries'[d] : e[2] # Root
  BY DEF Free, TypeOK, CallInv, NamesOnce
<1>. QED  BY <1>1, <1>2, <1>3, <1>4, <1>5 DEF CallInv

\* and the reply.
LEMMA ReplyCalls ==
  ASSUME TypeOK, CallInv, NEW t \in Threads, Reply(t)
  PROVE  TypeOK' /\ CallInv'
<1>1. TypeOK'
  <2>1. TreeTypes'
    BY DEF TreeTypes, Reply, TypeOK, Goto
  <2>2. handles' \subseteq [path : Paths, fh : Inums]
    <3>1. req[t] \in Requests /\ (ans[t] = "ok" => tgt[t] \in Inums)
      BY DEF Reply, CallInv, CallOK
    <3>2. req[t].path \in Paths
      BY <3>1 DEF Requests
    <3>. QED  BY <3>1, <3>2 DEF Reply, TypeOK
  <2>3. RestTypes'
    BY <2>2 DEF RestTypes, Reply, TypeOK
  <2>. QED  BY <2>1, <2>3 DEF TypeOK, TreeTypes, RestTypes
<1>2. pc' \in [Threads -> Stages] /\ ans' \in [Threads -> {"none", "ok"} \cup Errors]
  BY DEF Reply, CallInv, Goto, Answer, Stages, Errors
<1>3. CallOK(t)'
  BY DEF Reply, TypeOK, CallInv, CallOK, Past, Op, Makes, Goto, Mutators, Readers, Removes
<1>4. \A u \in Threads \ {t} : CallOK(u)'
  BY OthersKeep DEF Reply, TypeOK, CallInv, Goto, Answer
<1>5. NamesOnce' /\ \A d \in Inums : \A e \in entries'[d] : e[2] # Root
  BY DEF Reply, TypeOK, CallInv, NamesOnce
<1>. QED  BY <1>1, <1>2, <1>3, <1>4, <1>5 DEF CallInv


\* Every step keeps the types and CallInv.
LEMMA CallStep == TypeOK /\ CallInv /\ [Next]_vars => TypeOK' /\ CallInv'
<1>. SUFFICES ASSUME TypeOK, CallInv, [Next]_vars PROVE TypeOK' /\ CallInv'
  OBVIOUS
<1>1. ASSUME NEW t \in Threads, Resolve(t) PROVE TypeOK' /\ CallInv'
  BY <1>1, BasenameCalls, CopyNameCalls, WalkCalls, FindCalls, WalkFailsCalls DEF Resolve
<1>2. ASSUME NEW t \in Threads, Read(t) PROVE TypeOK' /\ CallInv'
  BY <1>2, GetattrCalls, OpenCalls, ReaddirCalls DEF Read
<1>3. ASSUME NEW t \in Threads, Change(t) PROVE TypeOK' /\ CallInv'
  BY <1>3, MakeCalls, MakeUnreadCalls, MakeFailsCalls, AddCalls, AddFailsCalls, CheckCalls,
     UnnameCalls, UnnameFailsCalls, FreeCalls DEF Change
<1>4. CASE Release
  <2>1. TypeOK'
    BY <1>4 DEF Release, TypeOK
  <2>2. CallInv'
    BY <1>4 DEF Release, CallInv, CallOK, Past, Op, Makes, NamesOnce
  <2>. QED  BY <2>1, <2>2
<1>5. CASE UNCHANGED vars
  <2>1. TypeOK'
    BY <1>5 DEF vars, TypeOK
  <2>2. CallInv'
    BY <1>5 DEF vars, CallInv, CallOK, Past, Op, Makes, NamesOnce
  <2>. QED  BY <2>1, <2>2
<1>. QED  BY <1>1, <1>2, <1>3, <1>4, <1>5, AskCalls, ReplyCalls DEF Next, Finished

\* Within a request, its path and the open files stay as they are.
LEMMA OtherSteps ==
  ASSUME TypeOK, CallInv, NEW t \in Threads, Resolve(t) \/ Read(t) \/ Change(t)
  PROVE  req' = req /\ handles' = handles /\ AtWork' = AtWork /\ crossed \subseteq crossed'
<1>1. CASE Resolve(t)
  BY <1>1 DEF Resolve, Basename, CopyName, Walk, Find, Found, WalkFails, Goto, Answer, Cross, AtWork, CallInv
<1>2. CASE Read(t)
  BY <1>2 DEF Read, Getattr, Open, Readdir, Look, Goto, Answer, Cross, AtWork, CallInv
<1>3. CASE Make(t) \/ MakeUnread(t) \/ MakeFails(t) \/ Add(t) \/ AddFails(t)
  BY <1>3 DEF Make, MakeUnread, MakeFails, Alloc, Add, AddFails, AddRefused, Goto, Answer, AtWork, CallInv
<1>4. CASE Check(t) \/ Unname(t) \/ UnnameFails(t) \/ Free(t)
  BY <1>4 DEF Check, Unname, UnnameFails, Free, Goto, Answer, Cross, AtWork, CallInv
<1>. QED  BY <1>1, <1>2, <1>3, <1>4 DEF Change

\* KernelInv at the beginning.
LEMMA KernelInit == Init => KernelInv
BY DEF Init, KernelInv, AtWork

\* Every step keeps KernelInv.
LEMMA KernelStep == TypeOK /\ CallInv /\ KernelInv /\ [Next]_vars => KernelInv'
<1>. SUFFICES ASSUME TypeOK, CallInv, KernelInv, [Next]_vars PROVE KernelInv'
  OBVIOUS
<1>1. ASSUME NEW t \in Threads, Resolve(t) \/ Read(t) \/ Change(t) PROVE KernelInv'
  BY <1>1, OtherSteps DEF KernelInv, Op, Path, IsOpen
<1>2. ASSUME NEW t \in Threads, Ask(t) PROVE KernelInv'
  <2>1. PICK r \in Requests :
          /\ \A u \in Threads : pc[u] # "idle" => Apart(r, req[u])
          /\ req' = [req EXCEPT ![t] = r]
          /\ crossed' = crossed \cup (IF r.op = "unlink" /\ IsOpen(r.path) THEN {"hardRemove"} ELSE {})
    BY <1>2 DEF Ask, Cross
  <2>2. /\ pc[t] = "idle" /\ AtWork' = AtWork \cup {t} /\ handles' = handles
    BY <1>2 DEF Ask, Goto, AtWork, CallInv
  <2>3. req'[t] = r /\ \A u \in AtWork : u # t /\ req'[u] = req[u]
    BY <2>1, <2>2 DEF TypeOK, AtWork
  <2>4. \A u \in AtWork : Apart(r, req[u]) /\ Apart(req[u], r)
    BY <2>1 DEF AtWork, Apart
  <2>5. ASSUME NEW u \in AtWork' PROVE \A v \in AtWork' \ {u} : Apart(req'[u], req'[v])
    BY <2>2, <2>3, <2>4 DEF KernelInv
  <2>6. ASSUME NEW u \in AtWork', "hardRemove" \notin crossed', req'[u].op = "unlink"
        PROVE ~(\E h \in handles : h.path = req'[u].path)
    BY <2>6, <2>1, <2>2, <2>3 DEF KernelInv, Op, Path, IsOpen
  <2>. QED  BY <2>2, <2>5, <2>6 DEF KernelInv, Op, Path, IsOpen
<1>3. ASSUME NEW t \in Threads, Reply(t) PROVE KernelInv'
  <2>1. /\ AtWork' = AtWork \ {t} /\ crossed' = crossed /\ t \in AtWork
        /\ \A u \in AtWork' : req'[u] = req[u]
    BY <1>3 DEF Reply, Goto, AtWork, CallInv, TypeOK
  <2>2. \A h \in handles' : h \in handles \/ (h.path = Path(t) /\ Op(t) \in {"create", "open"})
    BY <1>3 DEF Reply, Path
  <2>3. ASSUME NEW u \in AtWork', "hardRemove" \notin crossed, Op(u) = "unlink", NEW h \in handles'
        PROVE h.path # Path(u)
    BY <2>3, <2>1, <2>2 DEF KernelInv, IsOpen, Apart, Op, Path, Readers
  <2>. QED  BY <2>1, <2>3 DEF KernelInv, Op, Path, IsOpen
<1>4. CASE Release
  BY <1>4 DEF Release, KernelInv, AtWork, Op, Path, IsOpen
<1>5. CASE UNCHANGED vars
  BY <1>5 DEF vars, KernelInv, AtWork, Op, Path, IsOpen
<1>. QED  BY <1>1, <1>2, <1>3, <1>4, <1>5 DEF Next, Finished


----------------------------------------------------------------------------
(* Paths and what is at them.                                              *)

\* What Lookup finds, as At and Parent use it.
LEMMA AtOne ==
  ASSUME NEW n \in Names
  PROVE  At(<<n>>) = Lookup(Root, n) /\ Parent(<<n>>) = Root
BY DEF At, Parent

\* And at a path of two names.
LEMMA AtTwo ==
  ASSUME NEW n \in Names, NEW m \in Names
  PROVE  /\ Parent(<<n, m>>) = Lookup(Root, n)
         /\ At(<<n, m>>) = IF Lookup(Root, n) = NONE THEN NONE ELSE Lookup(Lookup(Root, n), m)
BY DEF At, Parent

\* The root has no name.
LEMMA NoRoot ==
  ASSUME TypeOK, CallInv, NEW d \in Inums, NEW n \in Names
  PROVE  Lookup(d, n) # Root
<1>. SUFFICES ASSUME Lookup(d, n) = Root PROVE FALSE
  OBVIOUS
<1>1. <<n, Root>> \in entries[d]
  BY LookupIs DEF CallInv
<1>2. <<n, Root>>[2] # Root
  BY <1>1 DEF CallInv
<1>. QED  BY <1>2

\* The parent of a path is the root, or a directory in it that is not the root.
LEMMA ParentIs ==
  ASSUME TypeOK, CallInv, NEW p \in TreePaths
  PROVE  /\ Parent(p) \in Inums \cup {NONE} /\ Last(p) \in Names
         /\ \/ \E n \in Names : p = <<n>> /\ Parent(p) = Root
            \/ \E n, m \in Names : p = <<n, m>> /\ Parent(p) = At(<<n>>) /\ Parent(p) # Root
<1>1. \A n \in Names : Lookup(Root, n) # Root /\ Lookup(Root, n) \in Inums \cup {NONE}
  BY LookupIs, NoRoot DEF CallInv
<1>. QED  BY <1>1, PathIs, AtOne, AtTwo

\* At a path is what its parent names with the last name.
LEMMA AtIs ==
  ASSUME TypeOK, CallInv, NEW p \in TreePaths
  PROVE  /\ At(p) \in (Inums \ {Root}) \cup {NONE}
         /\ \A i \in Inums : At(p) = i <=> Parent(p) \in Inums /\ <<Last(p), i>> \in entries[Parent(p)]
<1>1. \A d \in Inums, n \in Names :
        /\ Lookup(d, n) \in (Inums \ {Root}) \cup {NONE}
        /\ \A i \in Inums : Lookup(d, n) = i <=> <<n, i>> \in entries[d]
  BY LookupIs, NoRoot DEF CallInv
<1>2. CASE \E n \in Names : p = <<n>> /\ Last(p) = n
  BY <1>1, <1>2, AtOne
<1>3. CASE \E n, m \in Names : p = <<n, m>> /\ Last(p) = m
  BY <1>1, <1>3, AtTwo
<1>. QED  BY <1>2, <1>3, PathIs

\* What is at two paths is not the same.
LEMMA AtOnce ==
  ASSUME TypeOK, CallInv, TreeInv, NEW p \in TreePaths, NEW q \in TreePaths, At(p) = At(q), At(p) # NONE
  PROVE  p = q
<1>1. \A r, s \in TreePaths : At(r) = At(s) /\ At(r) # NONE => Parent(r) = Parent(s) /\ Last(r) = Last(s)
  <2>. SUFFICES ASSUME NEW r \in TreePaths, NEW s \in TreePaths, At(r) = At(s), At(r) # NONE
                PROVE  Parent(r) = Parent(s) /\ Last(r) = Last(s)
    OBVIOUS
  <2>1. At(r) \in Inums /\ Parent(r) \in Inums /\ Parent(s) \in Inums
    BY AtIs
  <2>2. <<Last(r), At(r)>> \in entries[Parent(r)] /\ <<Last(s), At(r)>> \in entries[Parent(s)]
    BY <2>1, AtIs
  <2>b. <<Last(r), At(r)>>[2] = <<Last(s), At(r)>>[2]
    OBVIOUS
  <2>3. Parent(r) = Parent(s) /\ <<Last(r), At(r)>> = <<Last(s), At(r)>>
    BY <2>1, <2>2, <2>b DEF TreeInv, OneName
  <2>. QED  BY <2>3
<1>2. Parent(p) = Parent(q) /\ Last(p) = Last(q) /\ Parent(p) \in Inums
  BY <1>1, AtIs
<1>3. CASE Parent(p) = Root
  <2>1. PICK n \in Names : p = <<n>>
    BY <1>3, ParentIs
  <2>2. PICK m \in Names : q = <<m>>
    BY <1>2, <1>3, ParentIs
  <2>3. n = m
    BY <1>2, <2>1, <2>2 DEF Last
  <2>. QED  BY <2>1, <2>2, <2>3
<1>4. CASE Parent(p) # Root
  <2>1. PICK n, m \in Names : p = <<n, m>> /\ Parent(p) = At(<<n>>)
    BY <1>4, ParentIs
  <2>2. PICK k, l \in Names : q = <<k, l>> /\ Parent(q) = At(<<k>>)
    BY <1>2, <1>4, ParentIs
  <2>3. <<n>> \in TreePaths /\ <<k>> \in TreePaths
    BY DEF TreePaths
  <2>4. Last(<<n>>) = Last(<<k>>)
    BY <1>1, <1>2, <2>1, <2>2, <2>3
  <2>5. n = k /\ Last(p) = m /\ Last(q) = l
    BY <2>1, <2>2, <2>4 DEF Last
  <2>. QED  BY <1>2, <2>1, <2>2, <2>5
<1>. QED  BY <1>3, <1>4


\* When nothing in the directories changes, nothing else is at a path.
LEMMA AtSame ==
  ASSUME entries' = entries, NEW p
  PROVE  At(p)' = At(p)
BY DEF At, Lookup

\* An entry more.
LEMMA LookupAdded ==
  ASSUME TypeOK, CallInv, TypeOK', CallInv', NEW d \in Inums, NEW n \in Names, NEW i \in Inums,
         Lookup(d, n) = NONE, entries' = [entries EXCEPT ![d] = @ \cup {<<n, i>>}]
  PROVE  \A c \in Inums, m \in Names : Lookup(c, m)' = IF c = d /\ m = n THEN i ELSE Lookup(c, m)
<1>. SUFFICES ASSUME NEW c \in Inums, NEW m \in Names
              PROVE  Lookup(c, m)' = IF c = d /\ m = n THEN i ELSE Lookup(c, m)
  OBVIOUS
<1>1. \A k \in Inums : <<m, k>> \in entries'[c] <=> <<m, k>> \in entries[c] \/ (c = d /\ m = n /\ k = i)
  BY DEF TypeOK
<1>2. \A k \in Inums : (Lookup(c, m) = k <=> <<m, k>> \in entries[c]) /\ (Lookup(c, m)' = k <=> <<m, k>> \in entries'[c])
  BY LookupIs, LookupIsNext DEF CallInv
<1>3. Lookup(c, m) \in Inums \cup {NONE} /\ Lookup(c, m)' \in Inums \cup {NONE}
  BY LookupIs, LookupIsNext DEF CallInv
<1>4. CASE c = d /\ m = n
  BY <1>1, <1>2, <1>4
<1>5. CASE ~(c = d /\ m = n)
  <2>1. \A k \in Inums : Lookup(c, m) = k <=> Lookup(c, m)' = k
    BY <1>1, <1>2, <1>5
  <2>. QED  BY <1>3, <1>5, <2>1
<1>. QED  BY <1>4, <1>5

\* An entry less.
LEMMA LookupRemoved ==
  ASSUME TypeOK, CallInv, TypeOK', CallInv', NEW d \in Inums, NEW n \in Names, NEW i \in Inums,
         Lookup(d, n) = i, entries' = [entries EXCEPT ![d] = @ \ {<<n, i>>}]
  PROVE  \A c \in Inums, m \in Names : Lookup(c, m)' = IF c = d /\ m = n THEN NONE ELSE Lookup(c, m)
<1>. SUFFICES ASSUME NEW c \in Inums, NEW m \in Names
              PROVE  Lookup(c, m)' = IF c = d /\ m = n THEN NONE ELSE Lookup(c, m)
  OBVIOUS
<1>1. \A k \in Inums : <<m, k>> \in entries'[c] <=> <<m, k>> \in entries[c] /\ ~(c = d /\ m = n /\ k = i)
  BY DEF TypeOK
<1>2. \A k \in Inums : (Lookup(c, m) = k <=> <<m, k>> \in entries[c]) /\ (Lookup(c, m)' = k <=> <<m, k>> \in entries'[c])
  BY LookupIs, LookupIsNext DEF CallInv
<1>3. Lookup(c, m) \in Inums \cup {NONE} /\ Lookup(c, m)' \in Inums \cup {NONE}
  BY LookupIs, LookupIsNext DEF CallInv
<1>4. CASE c = d /\ m = n
  <2>1. \A k \in Inums : Lookup(c, m)' # k
    BY <1>1, <1>2, <1>4
  <2>. QED  BY <1>3, <1>4, <2>1
<1>5. CASE ~(c = d /\ m = n)
  <2>1. \A k \in Inums : Lookup(c, m) = k <=> Lookup(c, m)' = k
    BY <1>1, <1>2, <1>5
  <2>. QED  BY <1>3, <1>5, <2>1
<1>. QED  BY <1>4, <1>5

\* At a path of two names after a step.
LEMMA AtTwoNext ==
  ASSUME NEW n \in Names, NEW m \in Names, NEW d, Lookup(Root, n)' = d
  PROVE  At(<<n, m>>)' = IF d = NONE THEN NONE ELSE Lookup(d, m)'
<1>1. At(<<n, m>>)' = (IF Lookup(Root, n) = NONE THEN NONE ELSE Lookup(Lookup(Root, n), m))'
  BY DEF At
<1>2. (Lookup(Lookup(Root, n), m))' = Lookup(d, m)'
  <2>. DEFINE parent == Lookup(Root, n)
  <2>1. parent' = d
    OBVIOUS
  <2>. HIDE DEF parent
  <2>2. (Lookup(parent, m))' = Lookup(d, m)'
    BY <2>1 DEF Lookup
  <2>. QED  BY <2>2 DEF parent
<1>. QED  BY <1>1, <1>2

\* What a changed Lookup at a path's parent makes of the paths: the inode i is
\* empty, so nothing is beneath the path before or after.
LEMMA AtChanged ==
  ASSUME TypeOK, CallInv, TreeInv, NEW q \in TreePaths, Parent(q) \in Inums,
         NEW i \in Inums \ {Root}, entries[i] = {}, NEW before, NEW after, before # after,
         {before, after} = {i, NONE}, At(q) = before,
         \A c \in Inums, m \in Names :
            Lookup(c, m)' = IF c = Parent(q) /\ m = Last(q) THEN after ELSE Lookup(c, m)
  PROVE  \A p \in TreePaths : At(p)' = IF p = q THEN after ELSE At(p)
<1>. SUFFICES ASSUME NEW p \in TreePaths PROVE At(p)' = IF p = q THEN after ELSE At(p)
  OBVIOUS
<1>1. \A n \in Names : Lookup(Root, n) \in (Inums \ {Root}) \cup {NONE}
  BY LookupIs, NoRoot DEF CallInv
<1>2. \A m \in Names : Lookup(i, m) = NONE
  BY LookupIs DEF CallInv
<1>3. CASE \E n \in Names : q = <<n>>
  <2>1. PICK x \in Names : q = <<x>> /\ Parent(q) = Root /\ Last(q) = x /\ Lookup(Root, x) = before
    BY <1>3, AtOne DEF Last
  <2>2. CASE \E n \in Names : p = <<n>>
    <3>1. PICK n \in Names : p = <<n>>
      BY <2>2
    <3>2. At(p)' = Lookup(Root, n)' /\ At(p) = Lookup(Root, n) /\ (p = q <=> n = x)
      BY <3>1, <2>1 DEF At
    <3>. QED  BY <2>1, <3>2
  <2>3. CASE \E n, m \in Names : p = <<n, m>>
    <3>1. PICK n, m \in Names : p = <<n, m>>
      BY <2>3
    <3>a. PICK d \in Inums \cup {NONE} : Lookup(Root, n)' = d
      BY <1>1, <2>1
    <3>2. /\ At(p) = IF Lookup(Root, n) = NONE THEN NONE ELSE Lookup(Lookup(Root, n), m)
          /\ At(p)' = IF d = NONE THEN NONE ELSE Lookup(d, m)'
          /\ p # q
      BY <3>1, <3>a, <2>1, AtTwo, AtTwoNext
    <3>3. \A c \in Inums \ {Root} : Lookup(c, m)' = Lookup(c, m)
      BY <2>1
    <3>. QED  BY <1>1, <1>2, <2>1, <3>a, <3>2, <3>3
  <2>. QED  BY <2>2, <2>3 DEF TreePaths
<1>4. CASE \E n, m \in Names : q = <<n, m>>
  <2>1. PICK x, y \in Names : q = <<x, y>> /\ Parent(q) = Lookup(Root, x) /\ Last(q) = y
    BY <1>4, AtTwo DEF Last
  <2>2. \A n \in Names : Lookup(Root, n)' = Lookup(Root, n)
    BY <1>1, <2>1
  <2>3. CASE \E n \in Names : p = <<n>>
    <3>1. PICK n \in Names : p = <<n>>
      BY <2>3
    <3>2. At(p)' = Lookup(Root, n)' /\ At(p) = Lookup(Root, n) /\ p # q
      BY <3>1, <2>1 DEF At
    <3>. QED  BY <2>2, <3>2
  <2>4. CASE \E n, m \in Names : p = <<n, m>>
    <3>1. PICK n, m \in Names : p = <<n, m>>
      BY <2>4
    <3>a. PICK d \in Inums \cup {NONE} : Lookup(Root, n)' = d
      BY <1>1, <2>2
    <3>2. /\ At(p) = IF Lookup(Root, n) = NONE THEN NONE ELSE Lookup(Lookup(Root, n), m)
          /\ At(p)' = IF d = NONE THEN NONE ELSE Lookup(d, m)'
          /\ p = q <=> n = x /\ m = y
      BY <3>1, <3>a, <2>1, AtTwo, AtTwoNext
    <3>3. Lookup(Root, n) = Parent(q) => n = x
      <4>1. Lookup(Root, n) = Parent(q) => At(<<n>>) = At(<<x>>) /\ At(<<n>>) # NONE
        BY <2>1, AtOne
      <4>2. <<n>> \in TreePaths /\ <<x>> \in TreePaths
        BY DEF TreePaths
      <4>3. <<n>> = <<x>> => n = x
        OBVIOUS
      <4>. QED  BY <4>1, <4>2, <4>3, AtOnce
    <3>. QED  BY <1>1, <2>1, <2>2, <3>a, <3>2, <3>3
  <2>. QED  BY <2>3, <2>4 DEF TreePaths
<1>. QED  BY <1>3, <1>4 DEF TreePaths

\* A path of one name is a prefix of what lies beneath it, and of nothing else.
LEMMA PrefixIs ==
  ASSUME NEW p \in TreePaths, NEW q \in TreePaths, p # q
  PROVE  IsPrefix(p, q) <=> \E n, m \in Names : p = <<n>> /\ q = <<n, m>>
<1>0. \A s \in Seq(Names) : Len(s) \in Nat /\ SubSeq(s, 1, Len(s)) = s
  BY SubSeqFull
<1>1. \A s \in Seq(Names) : Len(s) >= 1 => SubSeq(s, 1, 1) = <<s[1]>>
  <2>. SUFFICES ASSUME NEW s \in Seq(Names), Len(s) >= 1 PROVE SubSeq(s, 1, 1) = <<s[1]>>
    OBVIOUS
  <2>1. SubSeq(s, 1, 1) \in Seq(Names) /\ Len(SubSeq(s, 1, 1)) = 1 /\ SubSeq(s, 1, 1)[1] = s[1]
    BY SubSeqProperties
  <2>2. \A r \in Seq(Names) : Len(r) = 1 => r = <<r[1]>>
    OBVIOUS
  <2>. QED  BY <2>1, <2>2, Zenon
<1>2. p \in Seq(Names) /\ q \in Seq(Names)
  <2>1. \A n, m \in Names : <<n>> \in Seq(Names) /\ <<n, m>> \in Seq(Names)
    OBVIOUS
  <2>. QED  BY <2>1, PathIs
<1>3. CASE Len(p) = Len(q)
  <2>1. ~IsPrefix(p, q)
    BY <1>0, <1>2, <1>3, Zenon DEF IsPrefix
  <2>. QED  BY <1>3, <2>1, PathIs
<1>4. CASE Len(p) = 2 /\ Len(q) = 1
  BY <1>4 DEF IsPrefix
<1>5. CASE Len(p) = 1 /\ Len(q) = 2
  <2>1. PICK n \in Names : p = <<n>>
    BY <1>5, PathIs
  <2>2. PICK k, m \in Names : q = <<k, m>>
    BY <1>5, PathIs
  <2>3. p[1] = n /\ q[1] = k /\ Len(p) >= 1 /\ Len(q) >= 1 /\ Len(p) <= Len(q)
    BY <1>5, <2>1, <2>2
  <2>4. SubSeq(p, 1, 1) = <<n>> /\ SubSeq(q, 1, 1) = <<k>>
    BY <1>1, <1>2, <2>3, Zenon
  <2>5. IsPrefix(p, q) <=> <<n>> = <<k>>
    BY <1>5, <2>3, <2>4, Zenon DEF IsPrefix
  <2>. QED  BY <2>1, <2>2, <2>5
<1>. QED  BY <1>3, <1>4, <1>5, PathIs


----------------------------------------------------------------------------
(* The tree.                                                               *)

\* Who has an inode in hand.
LEMMA HandIs ==
  ASSUME CallInv, NEW i
  PROVE  InHand(i) <=> \E t \in Threads : Holds(t) /\ tgt[t] = i
BY DEF InHand, Holds, CallInv, CallOK

\* The same after a step.
LEMMA HandIsNext ==
  ASSUME CallInv', NEW i
  PROVE  InHand(i)' <=> \E t \in Threads : Holds(t)' /\ tgt'[t] = i
BY DEF InHand, Holds, CallInv, CallOK

\* A thread with an inode in hand is at work, and the inode is in use.
LEMMA HoldsIs ==
  ASSUME TypeOK, CallInv, PlaceInv, NEW t \in Threads, Holds(t)
  PROVE  t \in AtWork /\ tgt[t] \in Inums \ {Root} /\ kind[tgt[t]] # "free" /\ entries[tgt[t]] = {}
<1>1. t \in AtWork /\ PlaceOK(t) /\ tgt[t] \in Inums /\ Op(t) \in Mutators
  BY DEF Holds, AtWork, PlaceInv, CallInv, CallOK, Makes, Removes, Mutators, Op
<1>. QED  BY <1>1 DEF Holds, AtWork, PlaceOK, CallInv, CallOK

\* What is at a path is in use and in nobody's hand.
LEMMA AtNamed ==
  ASSUME TypeOK, CallInv, TreeInv, NEW p \in TreePaths, At(p) # NONE
  PROVE  At(p) \in Inums \ {Root} /\ kind[At(p)] # "free" /\ ~InHand(At(p))
<1>1. At(p) \in Inums \ {Root} /\ Parent(p) \in Inums /\ <<Last(p), At(p)>> \in entries[Parent(p)]
  BY AtIs
<1>. QED  BY <1>1 DEF TreeInv, Named

\* So is the directory that a request works in, which is the root or in it.
LEMMA DirIs ==
  ASSUME TypeOK, CallInv, TreeInv, PlaceInv, NEW t \in AtWork, Past(t)
  PROVE  /\ Path(t) \in TreePaths /\ Parent(Path(t)) = dir[t]
         /\ dir[t] \in Inums /\ kind[dir[t]] = "dir" /\ ~InHand(dir[t])
         /\ dir[t] = Root \/ \E e \in entries[Root] : e[2] = dir[t]
<1>1. /\ Path(t) \in TreePaths /\ Parent(Path(t)) = dir[t]
      /\ dir[t] \in Inums /\ kind[dir[t]] = "dir"
  BY RequestIs DEF PlaceInv, PlaceOK, CallInv, CallOK, AtWork, Path
<1>2. CASE dir[t] = Root
  <2>1. ~InHand(Root)
    BY HandIs, HoldsIs
  <2>. QED  BY <1>1, <1>2, <2>1
<1>3. CASE dir[t] # Root
  <2>1. PICK n \in Names : Parent(Path(t)) = At(<<n>>) /\ <<n>> \in TreePaths
    BY <1>1, <1>3, ParentIs DEF TreePaths
  <2>2. ~InHand(dir[t])
    BY <1>1, <2>1, AtNamed
  <2>3. <<n, dir[t]>> \in entries[Root]
    BY <1>1, <2>1, AtOne, LookupIs DEF CallInv
  <2>4. <<n, dir[t]>>[2] = dir[t]
    OBVIOUS
  <2>. QED  BY <1>1, <2>2, <2>3, <2>4
<1>. QED  BY <1>2, <1>3

\* A step that leaves the tree and the hands alone.
LEMMA TreeSame ==
  ASSUME TypeOK, CallInv, CallInv', TreeInv, UNCHANGED inodeVars,
         \A u \in Threads : (Holds(u)' <=> Holds(u)) /\ (Holds(u) => tgt'[u] = tgt[u])
  PROVE  TreeInv'
<1>1. \A i : InHand(i)' <=> InHand(i)
  BY HandIs, HandIsNext
<1>2. Shallow' /\ OneName'
  BY DEF TreeInv, Shallow, OneName
<1>3. Named' /\ NoneLost'
  BY <1>1 DEF TreeInv, Named, NoneLost
<1>4. Counted'
  BY DEF TreeInv, Counted, SubDirs
<1>5. HandsApart'
  BY DEF TreeInv, HandsApart
<1>. QED  BY <1>2, <1>3, <1>4, <1>5 DEF TreeInv

\* inode_alloc puts a free inode into the hand of the thread.
LEMMA AllocTree ==
  ASSUME TypeOK, CallInv, CallInv', TreeInv, PlaceInv, NEW t \in Threads, pc[t] = "lock", Alloc(t)
  PROVE  /\ TreeInv' /\ entries' = entries
         /\ tgt'[t] \in Inums /\ kind[tgt'[t]] = "free"
         /\ \A i \in Inums : i # tgt'[t] => kind'[i] = kind[i] /\ nlink'[i] = nlink[i]
         /\ kind'[tgt'[t]] = (IF Op(t) = "mkdir" THEN "dir" ELSE "file")
         /\ (Op(t) = "mkdir" => nlink'[tgt'[t]] = 2) /\ entries[tgt'[t]] = {}
<1>0. FreeInums \in SUBSET Inums /\ FreeInums # {}
  BY DEF Alloc, FreeInums
<1>1. PICK i \in Inums : i = Lowest(FreeInums) /\ kind[i] = "free"
  BY <1>0, LowestIs DEF FreeInums
<1>2. /\ tgt' = [tgt EXCEPT ![t] = i]
      /\ kind' = [kind EXCEPT ![i] = IF Op(t) = "mkdir" THEN "dir" ELSE "file"]
      /\ nlink' = [nlink EXCEPT ![i] = IF Op(t) = "mkdir" THEN 2 ELSE 1]
      /\ entries' = [entries EXCEPT ![i] = {}]
      /\ pc' = [pc EXCEPT ![t] = "add"]
  BY <1>1 DEF Alloc, Goto
<1>3. entries[i] = {}
  BY <1>1 DEF TreeInv, Shallow
<1>4. entries' = entries
  BY <1>2, <1>3 DEF TypeOK
<1>5. \A d \in Inums : \A e \in entries[d] : e[2] \in Inums /\ e[2] # i
  BY <1>1 DEF TreeInv, Named, TypeOK
<1>6. \A u \in Threads \ {t} : (Holds(u)' <=> Holds(u)) /\ tgt'[u] = tgt[u]
  BY <1>2 DEF Holds, CallInv, TypeOK
<1>7. Holds(t)' /\ ~Holds(t) /\ tgt'[t] = i
  BY <1>2 DEF Holds, CallInv, TypeOK
<1>8. \A j : InHand(j)' <=> InHand(j) \/ j = i
  BY <1>6, <1>7, HandIs, HandIsNext
<1>9. \A j \in Inums : kind'[j] = IF j = i THEN (IF Op(t) = "mkdir" THEN "dir" ELSE "file") ELSE kind[j]
  BY <1>2 DEF TypeOK
<1>10. Shallow' /\ OneName'
  BY <1>1, <1>3, <1>4, <1>9 DEF TreeInv, Shallow, OneName
<1>11. Named' /\ NoneLost'
  BY <1>4, <1>5, <1>8, <1>9 DEF TreeInv, Named, NoneLost
<1>12. Counted'
  <2>. SUFFICES ASSUME NEW d \in Inums, kind'[d] = "dir" PROVE nlink'[d] = 2 + Cardinality(SubDirs(d)')
    BY DEF Counted
  <2>1. SubDirs(d)' = SubDirs(d)
    BY <1>4, <1>5, <1>9 DEF SubDirs
  <2>2. CASE d = i
    <3>1. SubDirs(d) = {} /\ nlink'[d] = 2
      BY <1>2, <1>3, <1>9, <2>2 DEF SubDirs, TypeOK
    <3>. QED  BY <2>1, <3>1, FS_EmptySet
  <2>3. CASE d # i
    BY <1>2, <1>9, <2>1, <2>3 DEF TreeInv, Counted, TypeOK
  <2>. QED  BY <2>2, <2>3
<1>13. HandsApart'
  <2>1. \A u \in Threads : Holds(u) => tgt[u] # i
    BY <1>1, HoldsIs
  <2>. QED  BY <1>6, <1>7, <2>1 DEF TreeInv, HandsApart
<1>14. TreeInv'
  BY <1>10, <1>11, <1>12, <1>13 DEF TreeInv
<1>. QED  BY <1>1, <1>2, <1>3, <1>4, <1>7, <1>9, <1>14 DEF TypeOK

\* What is in hand is given back: AddFails, Free.
LEMMA GiveBackTree ==
  ASSUME TypeOK, CallInv, CallInv', TreeInv, PlaceInv, NEW t \in Threads, Holds(t), ~Holds(t)',
         kind' = [kind EXCEPT ![tgt[t]] = "free"], UNCHANGED <<nlink, entries>>,
         \A u \in Threads \ {t} : pc'[u] = pc[u] /\ tgt'[u] = tgt[u]
  PROVE  TreeInv'
<1>. DEFINE i == tgt[t]
<1>1. i \in Inums \ {Root} /\ entries[i] = {} /\ InHand(i)
  BY HoldsIs, HandIs
<1>. HIDE DEF i
<1>2. \A j \in Inums : kind'[j] = IF j = i THEN "free" ELSE kind[j]
  BY <1>1 DEF TypeOK, i
<1>3. \A d \in Inums : \A e \in entries[d] : e[2] \in Inums /\ e[2] # i
  BY <1>1 DEF TreeInv, Named, TypeOK
<1>4. \A u \in Threads \ {t} : Holds(u)' <=> Holds(u)
  BY DEF Holds
<1>5. \A j : InHand(j)' <=> InHand(j) /\ j # i
  BY <1>4, HandIs, HandIsNext DEF TreeInv, HandsApart, i
<1>6. Shallow' /\ OneName'
  BY <1>1, <1>2 DEF TreeInv, Shallow, OneName
<1>7. Named' /\ NoneLost'
  BY <1>2, <1>3, <1>5 DEF TreeInv, Named, NoneLost
<1>8. Counted'
  <2>. SUFFICES ASSUME NEW d \in Inums, kind'[d] = "dir" PROVE nlink'[d] = 2 + Cardinality(SubDirs(d)')
    BY DEF Counted
  <2>1. SubDirs(d)' = SubDirs(d)
    BY <1>2, <1>3 DEF SubDirs
  <2>. QED  BY <1>2, <2>1 DEF TreeInv, Counted
<1>9. HandsApart'
  BY <1>4 DEF TreeInv, HandsApart
<1>. QED  BY <1>6, <1>7, <1>8, <1>9 DEF TreeInv


\* dir_add names what is in hand.
LEMMA AddTree ==
  ASSUME TypeOK, CallInv, TypeOK', CallInv', TreeInv, PlaceInv, NEW t \in Threads, Add(t)
  PROVE  /\ TreeInv' /\ kind' = kind
         /\ \A d \in Inums : d # dir[t] => entries'[d] = entries[d] /\ nlink'[d] = nlink[d]
         /\ \A p \in TreePaths : At(p)' = IF p = Path(t) THEN tgt[t] ELSE At(p)
         /\ At(Path(t)) = NONE
<1>. DEFINE i == tgt[t]
            d == dir[t]
            n == nm[t]
<1>1. /\ t \in AtWork /\ Past(t) /\ Holds(t) /\ PlaceOK(t) /\ pc[t] = "add" /\ Makes(t)
      /\ Path(t) \in TreePaths /\ Parent(Path(t)) = d /\ d \in Inums /\ ~InHand(d)
      /\ d = Root \/ \E e \in entries[Root] : e[2] = d
      /\ kind[d] = "dir"
  BY DirIs DEF Add, AtWork, Past, Holds, PlaceInv, CallInv, CallOK
<1>2. /\ i \in Inums /\ i \in Inums \ {Root} /\ entries[i] = {} /\ InHand(i)
      /\ kind[i] # "free" /\ i # d
  BY <1>1, HoldsIs, HandIs
<1>3. n \in Names /\ n = Last(Path(t)) /\ (Op(t) = "mkdir" <=> kind[i] = "dir")
  BY <1>1 DEF Makes, Mutators, PlaceOK, CallInv, CallOK
<1>. HIDE DEF i, d, n
<1>4. entries' = [entries EXCEPT ![d] = @ \cup {<<n, i>>}] /\ Lookup(d, n) = NONE
  BY DEF Add, i, d, n
<1>5. \A c \in Inums : entries'[c] = IF c = d THEN entries[c] \cup {<<n, i>>} ELSE entries[c]
  BY <1>4 DEF TypeOK
<1>6. /\ kind' = kind
      /\ \A c \in Inums : nlink'[c] = IF c = d /\ Op(t) = "mkdir" THEN nlink[c] + 1 ELSE nlink[c]
  BY DEF Add, TypeOK, d
<1>7. \A c \in Inums, m \in Names : Lookup(c, m)' = IF c = d /\ m = n THEN i ELSE Lookup(c, m)
  <2>1. d \in Inums /\ n \in Names /\ i \in Inums
    BY <1>1, <1>2, <1>3
  <2>. QED  BY <1>4, <2>1, LookupAdded
<1>8. At(Path(t)) = NONE
  BY <1>1, <1>3, <1>4, AtIs, LookupIs DEF CallInv
<1>9. \A p \in TreePaths : At(p)' = IF p = Path(t) THEN i ELSE At(p)
  <2>1. NONE # i
    BY <1>2
  <2>. HIDE DEF NONE
  <2>2. {NONE, i} = {i, NONE}
    OBVIOUS
  <2>. QED  BY <1>1, <1>2, <1>3, <1>7, <1>8, <2>1, <2>2, AtChanged
<1>10. \A u \in Threads \ {t} : (Holds(u)' <=> Holds(u)) /\ tgt'[u] = tgt[u]
  BY DEF Add, Answer, Goto, Holds, CallInv, TypeOK
<1>11. ~Holds(t)'
  BY DEF Add, Answer, Goto, Holds, CallInv
<1>12. \A j : InHand(j)' <=> InHand(j) /\ j # i
  BY <1>1, <1>10, <1>11, HandIs, HandIsNext DEF TreeInv, HandsApart, i
<1>13. \A c \in Inums : \A e \in entries[c] : e[2] \in Inums /\ e[2] # i
  BY <1>2 DEF TreeInv, Named, TypeOK
<1>14. <<n, i>>[2] = i
  OBVIOUS
<1>15. Shallow'
  <2>1. ASSUME NEW c \in Inums PROVE IsFiniteSet(entries'[c])
    <3>1. IsFiniteSet(entries[c])
      BY DEF TreeInv, Shallow
    <3>2. IsFiniteSet(entries[c] \cup {<<n, i>>})
      BY <3>1, FS_AddElement
    <3>. QED  BY <1>5, <3>1, <3>2
  <2>2. ASSUME NEW c \in Inums, entries'[c] # {}
        PROVE  kind'[c] = "dir" /\ (c = Root \/ \E e \in entries'[Root] : e[2] = c)
    BY <1>1, <1>5, <1>6, <2>2 DEF TreeInv, Shallow
  <2>. QED  BY <2>1, <2>2 DEF Shallow
<1>16. OneName'
  <2>. SUFFICES ASSUME NEW a \in Inums, NEW c \in Inums, NEW e \in entries'[a], NEW g \in entries'[c], e[2] = g[2]
                PROVE  a = c /\ e = g
    BY DEF OneName
  <2>1. CASE e[2] = i
    <3>1. e \notin entries[a] /\ g \notin entries[c]
      BY <1>13, <2>1
    <3>2. a = d /\ e = <<n, i>>
      BY <1>5, <3>1
    <3>3. c = d /\ g = <<n, i>>
      BY <1>5, <3>1
    <3>. QED  BY <3>2, <3>3
  <2>2. CASE e[2] # i
    <3>1. e \in entries[a] /\ g \in entries[c]
      BY <1>5, <1>14, <2>2
    <3>. QED  BY <3>1 DEF TreeInv, OneName
  <2>. QED  BY <2>1, <2>2
<1>17. Named' /\ NoneLost'
  <2>1. Named'
    <3>. SUFFICES ASSUME NEW c \in Inums, NEW e \in entries'[c] PROVE kind'[e[2]] # "free" /\ ~InHand(e[2])'
      BY DEF Named
    <3>1. CASE e \in entries[c]
      BY <1>6, <1>12, <3>1 DEF TreeInv, Named
    <3>2. CASE e \notin entries[c]
      <4>1. e[2] = i
        BY <1>5, <1>14, <3>2
      <4>. QED  BY <1>2, <1>6, <1>12, <4>1
    <3>. QED  BY <3>1, <3>2
  <2>2. NoneLost'
    <3>. SUFFICES ASSUME NEW j \in Inums \ {Root}, kind'[j] # "free", ~InHand(j)'
                  PROVE  \E c \in Inums : \E e \in entries'[c] : e[2] = j
      BY DEF NoneLost
    <3>1. CASE j = i
      <4>1. <<n, i>> \in entries'[d]
        BY <1>1, <1>5
      <4>. QED  BY <1>1, <1>14, <3>1, <4>1
    <3>2. CASE j # i
      <4>1. kind[j] # "free" /\ ~InHand(j)
        BY <1>6, <1>12, <3>2
      <4>2. PICK c \in Inums : \E e \in entries[c] : e[2] = j
        BY <4>1 DEF TreeInv, NoneLost
      <4>3. entries[c] \subseteq entries'[c]
        BY <1>5
      <4>. QED  BY <4>2, <4>3
    <3>. QED  BY <3>1, <3>2
  <2>. QED  BY <2>1, <2>2
<1>18. Counted'
  <2>. SUFFICES ASSUME NEW c \in Inums, kind'[c] = "dir" PROVE nlink'[c] = 2 + Cardinality(SubDirs(c)')
    BY DEF Counted
  <2>1. CASE c = d /\ Op(t) = "mkdir"
    <3>a. kind[i] = "dir" /\ entries'[c] = entries[c] \cup {<<n, i>>} /\ <<n, i>> \notin entries[c]
      BY <1>3, <1>5, <1>13, <1>14, <2>1
    <3>1. SubDirs(c)' = SubDirs(c) \cup {<<n, i>>} /\ <<n, i>> \notin SubDirs(c)
      BY <1>6, <1>14, <3>a DEF SubDirs
    <3>2. IsFiniteSet(SubDirs(c))
      BY FS_Subset DEF TreeInv, Shallow, SubDirs
    <3>3. Cardinality(SubDirs(c)') = Cardinality(SubDirs(c)) + 1 /\ Cardinality(SubDirs(c)) \in Nat
      BY <3>1, <3>2, FS_AddElement, FS_CardinalityType
    <3>4. nlink'[c] = nlink[c] + 1 /\ nlink[c] = 2 + Cardinality(SubDirs(c))
      BY <1>6, <2>1 DEF TreeInv, Counted
    <3>. QED  BY <3>3, <3>4
  <2>2. CASE ~(c = d /\ Op(t) = "mkdir")
    <3>1. SubDirs(c)' = SubDirs(c)
      BY <1>3, <1>5, <1>6, <1>14, <2>2 DEF SubDirs
    <3>. QED  BY <1>6, <2>2, <3>1 DEF TreeInv, Counted
  <2>. QED  BY <2>1, <2>2
<1>19. HandsApart'
  BY <1>10, <1>11 DEF TreeInv, HandsApart
<1>20. TreeInv'
  BY <1>15, <1>16, <1>17, <1>18, <1>19 DEF TreeInv
<1>. QED  BY <1>5, <1>6, <1>8, <1>9, <1>20 DEF i, d

\* dir_remove takes the name of what the thread then has in hand.
LEMMA UnnameTree ==
  ASSUME TypeOK, CallInv, TypeOK', CallInv', TreeInv, PlaceInv, NEW t \in Threads, Unname(t)
  PROVE  /\ TreeInv' /\ kind' = kind
         /\ \A d \in Inums : d # dir[t] => entries'[d] = entries[d] /\ nlink'[d] = nlink[d]
         /\ \A p \in TreePaths : At(p)' = IF p = Path(t) THEN NONE ELSE At(p)
<1>. DEFINE i == tgt[t]
            d == dir[t]
            n == nm[t]
<1>1. /\ t \in AtWork /\ Past(t) /\ PlaceOK(t) /\ pc[t] = "remove" /\ Removes(req[t]) /\ ~Holds(t)
      /\ Path(t) \in TreePaths /\ Parent(Path(t)) = d /\ d \in Inums
      /\ kind[d] = "dir"
  BY DirIs DEF Unname, AtWork, Past, Holds, PlaceInv, CallInv, CallOK
<1>2. i \in Inums /\ At(Path(t)) = i /\ entries[i] = {}
  BY <1>1 DEF PlaceOK, CallInv, CallOK
<1>3. n \in Names /\ n = Last(Path(t)) /\ (Op(t) = "rmdir" <=> kind[i] = "dir")
  BY <1>1 DEF Removes, Op, Mutators, PlaceOK, CallInv, CallOK
<1>4. i # Root /\ kind[i] # "free" /\ ~InHand(i) /\ <<n, i>> \in entries[d]
  BY <1>1, <1>2, <1>3, AtNamed, AtIs
<1>. HIDE DEF i, d, n
<1>5. entries' = [entries EXCEPT ![d] = @ \ {<<n, i>>}] /\ Lookup(d, n) = i
  BY <1>1, <1>2, <1>3, <1>4, LookupIs DEF Unname, CallInv, i, d, n
<1>6. \A c \in Inums : entries'[c] = IF c = d THEN entries[c] \ {<<n, i>>} ELSE entries[c]
  BY <1>5 DEF TypeOK
<1>7. /\ kind' = kind
      /\ \A c \in Inums : nlink'[c] = IF c = d /\ Op(t) = "rmdir" THEN nlink[c] - 1 ELSE nlink[c]
  BY DEF Unname, TypeOK, d
<1>8. \A c \in Inums, m \in Names : Lookup(c, m)' = IF c = d /\ m = n THEN NONE ELSE Lookup(c, m)
  <2>1. d \in Inums /\ n \in Names /\ i \in Inums
    BY <1>1, <1>2, <1>3
  <2>. QED  BY <1>5, <2>1, LookupRemoved
<1>9. \A p \in TreePaths : At(p)' = IF p = Path(t) THEN NONE ELSE At(p)
  <2>1. NONE # i /\ {i, NONE} = {i, NONE}
    BY <1>2
  <2>. HIDE DEF NONE
  <2>. QED  BY <1>1, <1>2, <1>3, <1>4, <1>8, <2>1, AtChanged
<1>10. \A u \in Threads \ {t} : (Holds(u)' <=> Holds(u)) /\ tgt'[u] = tgt[u]
  BY DEF Unname, Goto, Holds, CallInv, TypeOK
<1>11. Holds(t)' /\ tgt'[t] = i
  BY DEF Unname, Goto, Holds, CallInv, i
<1>12. \A j : InHand(j)' <=> InHand(j) \/ j = i
  BY <1>1, <1>10, <1>11, HandIs, HandIsNext
<1>13. <<n, i>>[2] = i
  OBVIOUS
<1>14. \A c \in Inums : \A e \in entries[c] : e[2] \in Inums /\ (e[2] = i => c = d /\ e = <<n, i>>)
  BY <1>1, <1>4, <1>13 DEF TreeInv, OneName, TypeOK
<1>15. Shallow'
  <2>1. ASSUME NEW c \in Inums PROVE IsFiniteSet(entries'[c])
    <3>1. IsFiniteSet(entries[c])
      BY DEF TreeInv, Shallow
    <3>2. IsFiniteSet(entries[c] \ {<<n, i>>})
      BY <3>1, FS_RemoveElement
    <3>. QED  BY <1>6, <3>1, <3>2
  <2>2. ASSUME NEW c \in Inums, entries'[c] # {}
        PROVE  kind'[c] = "dir" /\ (c = Root \/ \E e \in entries'[Root] : e[2] = c)
    <3>1. entries[c] # {} /\ c # i
      BY <1>2, <1>6, <2>2
    <3>. QED  BY <1>6, <1>7, <1>13, <3>1 DEF TreeInv, Shallow
  <2>. QED  BY <2>1, <2>2 DEF Shallow
<1>16. OneName'
  <2>. SUFFICES ASSUME NEW a \in Inums, NEW c \in Inums, NEW e \in entries'[a], NEW g \in entries'[c], e[2] = g[2]
                PROVE  a = c /\ e = g
    BY DEF OneName
  <2>1. e \in entries[a] /\ g \in entries[c]
    BY <1>6
  <2>. QED  BY <2>1 DEF TreeInv, OneName
<1>17. Named' /\ NoneLost'
  <2>1. Named'
    <3>. SUFFICES ASSUME NEW c \in Inums, NEW e \in entries'[c] PROVE kind'[e[2]] # "free" /\ ~InHand(e[2])'
      BY DEF Named
    <3>1. e \in entries[c] /\ (c = d => e # <<n, i>>)
      BY <1>6
    <3>2. e[2] # i
      BY <1>14, <3>1
    <3>. QED  BY <1>7, <1>12, <3>1, <3>2 DEF TreeInv, Named
  <2>2. NoneLost'
    <3>. SUFFICES ASSUME NEW j \in Inums \ {Root}, kind'[j] # "free", ~InHand(j)'
                  PROVE  \E c \in Inums : \E e \in entries'[c] : e[2] = j
      BY DEF NoneLost
    <3>1. kind[j] # "free" /\ ~InHand(j) /\ j # i
      BY <1>7, <1>12
    <3>2. PICK c \in Inums : \E e \in entries[c] : e[2] = j
      BY <3>1 DEF TreeInv, NoneLost
    <3>3. PICK e \in entries[c] : e[2] = j
      BY <3>2
    <3>4. e # <<n, i>>
      BY <1>13, <3>1, <3>3
    <3>5. e \in entries'[c]
      BY <1>6, <3>4
    <3>. QED  BY <3>3, <3>5
  <2>. QED  BY <2>1, <2>2
<1>18. Counted'
  <2>. SUFFICES ASSUME NEW c \in Inums, kind'[c] = "dir" PROVE nlink'[c] = 2 + Cardinality(SubDirs(c)')
    BY DEF Counted
  <2>1. CASE c = d /\ Op(t) = "rmdir"
    <3>1. SubDirs(c)' = SubDirs(c) \ {<<n, i>>} /\ <<n, i>> \in SubDirs(c)
      BY <1>3, <1>4, <1>6, <1>7, <1>13, <2>1 DEF SubDirs
    <3>2. IsFiniteSet(SubDirs(c))
      BY FS_Subset DEF TreeInv, Shallow, SubDirs
    <3>3. Cardinality(SubDirs(c)') = Cardinality(SubDirs(c)) - 1 /\ Cardinality(SubDirs(c)) \in Nat
      BY <3>1, <3>2, FS_RemoveElement, FS_CardinalityType
    <3>4. nlink'[c] = nlink[c] - 1 /\ nlink[c] = 2 + Cardinality(SubDirs(c))
      BY <1>7, <2>1 DEF TreeInv, Counted
    <3>. QED  BY <3>3, <3>4
  <2>2. CASE ~(c = d /\ Op(t) = "rmdir")
    <3>1. SubDirs(c)' = SubDirs(c)
      BY <1>3, <1>6, <1>7, <1>13, <2>2 DEF SubDirs
    <3>. QED  BY <1>7, <2>2, <3>1 DEF TreeInv, Counted
  <2>. QED  BY <2>1, <2>2
<1>19. HandsApart'
  <2>1. \A u \in Threads : Holds(u) => tgt[u] # i
    BY <1>4, HandIs
  <2>. QED  BY <1>10, <1>11, <2>1 DEF TreeInv, HandsApart
<1>20. TreeInv'
  BY <1>15, <1>16, <1>17, <1>18, <1>19 DEF TreeInv
<1>. QED  BY <1>6, <1>7, <1>9, <1>20 DEF d


----------------------------------------------------------------------------
(* The requests.                                                           *)

\* The thread u is where it was.
Keeps(u) ==
  /\ pc'[u] = pc[u] /\ req'[u] = req[u] /\ ans'[u] = ans[u]
  /\ nm'[u] = nm[u] /\ dir'[u] = dir[u] /\ tgt'[u] = tgt[u]

\* At the path of a request that did not move is what is at that path after the step.
LEMMA AtPathNext ==
  ASSUME NEW u, NEW p, Path(u)' = p
  PROVE  At(Path(u))' = At(p)' /\ Parent(Path(u))' = Parent(p)'
<1>. DEFINE q == Path(u)
<1>1. q' = p
  OBVIOUS
<1>. HIDE DEF q
<1>2. At(q)' = At(p)' /\ Parent(q)' = Parent(p)'
  BY <1>1 DEF At, Parent, Lookup
<1>. QED  BY <1>2 DEF q

\* A request that did not move is still in place.
LEMMA PlaceKept ==
  ASSUME NEW u \in AtWork, PlaceOK(u), Keeps(u),
         Past(u) => Parent(Path(u))' = Parent(Path(u)) /\ kind'[dir[u]] = kind[dir[u]],
         pc[u] \in {"look", "remove"} \/ (pc[u] = "reply" /\ ans[u] = "ok") => At(Path(u))' = At(Path(u)),
         pc[u] \in {"add", "remove", "free"} =>
           kind'[tgt[u]] = kind[tgt[u]] /\ entries'[tgt[u]] = entries[tgt[u]],
         pc[u] = "add" => nlink'[tgt[u]] = nlink[tgt[u]],
         pc[u] = "reply" /\ ans[u] = "ok" /\ Op(u) \in {"create", "open"} => kind'[tgt[u]] = kind[tgt[u]]
  PROVE  PlaceOK(u)'
<1>1. Path(u)' = Path(u) /\ Op(u)' = Op(u) /\ (Past(u)' <=> Past(u))
  BY DEF Keeps, Path, Op, Past
<1>. HIDE DEF At, Parent, Path, Op, Past
<1>. QED  BY <1>1 DEF PlaceOK, Keeps

\* A parent stays the same when the directory that a path begins with does.
LEMMA ParentKept ==
  ASSUME NEW p \in TreePaths, \A n, m \in Names : p = <<n, m>> => At(<<n>>)' = At(<<n>>)
  PROVE  Parent(p)' = Parent(p)
<1>1. CASE \E n \in Names : p = <<n>>
  BY <1>1 DEF Parent
<1>2. CASE \E n, m \in Names : p = <<n, m>>
  <2>1. PICK n, m \in Names : p = <<n, m>>
    BY <1>2
  <2>2. At(<<n>>)' = Lookup(Root, n)' /\ At(<<n>>) = Lookup(Root, n)
    BY DEF At
  <2>3. Parent(p)' = Lookup(Root, n)' /\ Parent(p) = Lookup(Root, n)
    BY <2>1 DEF Parent
  <2>. QED  BY <2>1, <2>2, <2>3
<1>. QED  BY <1>1, <1>2 DEF TreePaths

\* A step that leaves the tree alone, of a thread that has nothing in hand.
LEMMA QuietStep ==
  ASSUME TypeOK, CallInv, CallInv', TreeInv, PlaceInv, NEW t \in Threads, UNCHANGED inodeVars,
         \A u \in Threads \ {t} : Keeps(u), ~Holds(t), ~Holds(t)', pc'[t] # "idle" => PlaceOK(t)'
  PROVE  TreeInv' /\ PlaceInv'
<1>1. TreeInv'
  BY TreeSame DEF Keeps, Holds
<1>2. ASSUME NEW u \in AtWork \ {t} PROVE PlaceOK(u)'
  <2>1. \A p : At(p)' = At(p) /\ Parent(p)' = Parent(p)
    BY DEF At, Parent, Lookup
  <2>2. Keeps(u) /\ PlaceOK(u)
    BY DEF PlaceInv, AtWork
  <2>3. At(Path(u))' = At(Path(u)) /\ Parent(Path(u))' = Parent(Path(u))
    <3>1. Path(u)' = Path(u)
      BY <2>2 DEF Keeps, Path
    <3>. QED  BY <2>1, <3>1, AtPathNext
  <2>. QED  BY <2>2, <2>3, PlaceKept
<1>3. AtWork' \subseteq AtWork \cup {t} /\ (t \in AtWork' => pc'[t] # "idle")
  BY DEF AtWork, Keeps
<1>. QED  BY <1>1, <1>2, <1>3 DEF PlaceInv


\* What is so of every step that leaves the tree alone.
LEMMA StillIs ==
  ASSUME NEW p
  PROVE  UNCHANGED inodeVars => At(p)' = At(p) /\ Parent(p)' = Parent(p)
BY DEF At, Parent, Lookup

\* The steps one by one: a call,
LEMMA AskPlaces ==
  ASSUME TypeOK, CallInv, TypeOK', CallInv', TreeInv, PlaceInv, Sheltered', NEW t \in Threads, Ask(t)
  PROVE  TreeInv' /\ PlaceInv'
<1>1. UNCHANGED inodeVars /\ \A u \in Threads \ {t} : Keeps(u)
  BY DEF Ask, Goto, Keeps, TypeOK, CallInv
<1>2. ~Holds(t) /\ ~Holds(t)'
  BY DEF Ask, Goto, Holds, CallInv
<1>3. PlaceOK(t)'
  BY RequestIs DEF Ask, Goto, CallInv, CallOK, TypeOK, PlaceOK, Past, Op, Readers
<1>. QED  BY <1>1, <1>2, <1>3, QuietStep

\* strcpy of the name,
LEMMA BasenamePlaces ==
  ASSUME TypeOK, CallInv, TypeOK', CallInv', TreeInv, PlaceInv, Sheltered', NEW t \in Threads, Basename(t) \/ CopyName(t)
  PROVE  TreeInv' /\ PlaceInv'
<1>1. UNCHANGED inodeVars /\ \A u \in Threads \ {t} : Keeps(u)
  BY DEF Basename, CopyName, Goto, Keeps, TypeOK, CallInv
<1>2. ~Holds(t) /\ ~Holds(t)'
  BY DEF Basename, CopyName, Goto, Holds, CallInv
<1>3. PlaceOK(t)'
  <2>1. CASE Basename(t)
    BY <2>1 DEF Basename, Goto, CallInv, CallOK, PlaceOK, Past
  <2>2. CASE CopyName(t)
    <3>1. nm'[t] = Last(Path(t)) /\ Path(t)' = Path(t)
      BY <2>2 DEF CopyName, Cross, Sheltered, Within, TypeOK, Path
    <3>2. pc'[t] = "walk"
      BY <2>2 DEF CopyName, Goto, CallInv
    <3>. QED  BY <3>1, <3>2 DEF PlaceOK, Past
  <2>. QED  BY <2>1, <2>2
<1>. QED  BY <1>1, <1>2, <1>3, QuietStep

\* path_resolve,
LEMMA WalkPlaces ==
  ASSUME TypeOK, CallInv, TypeOK', CallInv', TreeInv, PlaceInv, Sheltered', NEW t \in Threads, Walk(t)
  PROVE  /\ TreeInv' /\ PlaceInv'
         /\ pc'[t] = "reply" => /\ ans'[t] = "ENOENT"
                                /\ Parent(Path(t)) = NONE \/ kind[Parent(Path(t))] # "dir"
<1>1. UNCHANGED inodeVars /\ \A u \in Threads \ {t} : Keeps(u)
  BY DEF Walk, Answer, Goto, Keeps, TypeOK, CallInv
<1>2. ~Holds(t) /\ ~Holds(t)'
  BY DEF Walk, Answer, Goto, Holds, CallInv
<1>3. PICK i \in Inums \cup {NONE} :
        /\ IF Dirname(req[t].path) = <<>> THEN i = Root ELSE i = Lookup(Root, Head(Dirname(req[t].path)))
        /\ dir' = [dir EXCEPT ![t] = i]
        /\ IF i = NONE \/ kind[i] # "dir" THEN Answer(t, "ENOENT")
           ELSE Goto(t, IF Op(t) \in Mutators THEN "lock" ELSE "find") /\ UNCHANGED ans
  <2>1. "walk" \notin crossed'
    BY DEF Sheltered, Within
  <2>. QED  BY <2>1 DEF Walk, Found, Cross
<1>4. t \in AtWork /\ Path(t) \in TreePaths /\ Path(t)' = Path(t) /\ Op(t)' = Op(t)
  BY RequestIs DEF Walk, CallInv, CallOK, AtWork, Path, Op
<1>5. i = Parent(Path(t))
  <2>1. CASE \E n \in Names : Path(t) = <<n>>
    <3>1. Dirname(Path(t)) = <<>>
      BY <1>4, <2>1, PathIs
    <3>. QED  BY <1>3, <2>1, <3>1, AtOne DEF Path
  <2>2. CASE \E n, m \in Names : Path(t) = <<n, m>>
    <3>1. PICK n, m \in Names : Path(t) = <<n, m>> /\ Dirname(Path(t)) = <<n>>
      BY <1>4, <2>2, DirnameIs
    <3>2. Dirname(Path(t)) # <<>> /\ Head(Dirname(Path(t))) = n
      BY <3>1
    <3>. QED  BY <1>3, <3>1, <3>2, AtTwo DEF Path
  <2>. QED  BY <1>4, <2>1, <2>2 DEF TreePaths
<1>6. PlaceOK(t)'
  <2>1. CASE i = NONE \/ kind[i] # "dir"
    <3>1. pc'[t] = "reply" /\ ans'[t] = "ENOENT"
      BY <1>3, <2>1 DEF Answer, Goto, CallInv
    <3>2. Op(t) \in Mutators => nm'[t] = Last(Path(t))
      BY <1>4 DEF Walk, PlaceInv, PlaceOK
    <3>. QED  BY <1>4, <3>1, <3>2 DEF PlaceOK, Past
  <2>2. CASE ~(i = NONE \/ kind[i] # "dir")
    <3>1. pc'[t] \in {"lock", "find"} /\ dir'[t] = i /\ kind'[i] = "dir"
      BY <1>1, <1>3, <2>2 DEF Goto, CallInv, TypeOK
    <3>2. Op(t) \in Mutators => nm'[t] = Last(Path(t))
      BY <1>4 DEF Walk, PlaceInv, PlaceOK
    <3>3. Parent(Path(t))' = Parent(Path(t))
      BY <1>1, <1>4, StillIs, AtPathNext
    <3>. QED  BY <1>4, <1>5, <3>1, <3>2, <3>3 DEF PlaceOK
  <2>. QED  BY <2>1, <2>2
<1>7. pc'[t] = "reply" => ans'[t] = "ENOENT" /\ (Parent(Path(t)) = NONE \/ kind[Parent(Path(t))] # "dir")
  BY <1>3, <1>5 DEF Answer, Goto, CallInv
<1>. QED  BY <1>1, <1>2, <1>6, <1>7, QuietStep

\* the last name of it,
LEMMA FindPlaces ==
  ASSUME TypeOK, CallInv, TypeOK', CallInv', TreeInv, PlaceInv, Sheltered', NEW t \in Threads, Find(t)
  PROVE  /\ TreeInv' /\ PlaceInv'
         /\ pc'[t] = "reply" => ans'[t] = "ENOENT" /\ At(Path(t)) = NONE
<1>1. UNCHANGED inodeVars /\ \A u \in Threads \ {t} : Keeps(u)
  BY DEF Find, Answer, Goto, Keeps, TypeOK, CallInv
<1>2. ~Holds(t) /\ ~Holds(t)'
  BY DEF Find, Answer, Goto, Holds, CallInv
<1>3. PICK i \in Inums \cup {NONE} :
        /\ i = Lookup(dir[t], Last(req[t].path))
        /\ tgt' = [tgt EXCEPT ![t] = i]
        /\ IF i = NONE THEN Answer(t, "ENOENT") ELSE Goto(t, "look") /\ UNCHANGED ans
  <2>1. "walk" \notin crossed'
    BY DEF Sheltered, Within
  <2>. QED  BY <2>1 DEF Find, Found, Cross
<1>4. t \in AtWork /\ Path(t)' = Path(t) /\ Op(t)' = Op(t) /\ pc[t] = "find" /\ Past(t)
  BY DEF Find, AtWork, Path, Op, Past
<1>5. Path(t) \in TreePaths /\ Parent(Path(t)) = dir[t] /\ dir[t] \in Inums /\ kind[dir[t]] = "dir" /\ Last(Path(t)) \in Names
  BY <1>4, DirIs, LastIs
<1>6. i = At(Path(t))
  <2>1. \A k \in Inums : At(Path(t)) = k <=> Lookup(dir[t], Last(Path(t))) = k
    <3>1. \A k \in Inums : At(Path(t)) = k <=> <<Last(Path(t)), k>> \in entries[dir[t]]
      BY <1>5, AtIs
    <3>2. \A k \in Inums : Lookup(dir[t], Last(Path(t))) = k <=> <<Last(Path(t)), k>> \in entries[dir[t]]
      BY <1>5, LookupIs DEF CallInv
    <3>. QED  BY <3>1, <3>2
  <2>2. At(Path(t)) \in Inums \cup {NONE}
    BY <1>5, AtIs
  <2>. QED  BY <1>3, <2>1, <2>2 DEF Path
<1>7. At(Path(t))' = At(Path(t)) /\ Parent(Path(t))' = Parent(Path(t))
  BY <1>1, <1>4, StillIs, AtPathNext
<1>8. PlaceOK(t)'
  <2>1. CASE i = NONE
    <3>1. pc'[t] = "reply" /\ ans'[t] = "ENOENT"
      BY <1>3, <2>1 DEF Answer, Goto, CallInv
    <3>. QED  BY <1>4, <3>1 DEF PlaceOK, Past, CallInv, CallOK, Mutators, Readers
  <2>2. CASE i # NONE
    <3>1. pc'[t] = "look" /\ tgt'[t] = i /\ dir'[t] = dir[t] /\ kind' = kind /\ Op(t) \in Readers
      BY <1>1, <1>3, <2>2 DEF Find, Goto, CallInv, CallOK, TypeOK
    <3>. QED  BY <1>4, <1>5, <1>6, <1>7, <3>1 DEF PlaceOK, Mutators, Readers
  <2>. QED  BY <2>1, <2>2
<1>9. pc'[t] = "reply" => ans'[t] = "ENOENT" /\ i = NONE
  BY <1>3 DEF Answer, Goto, CallInv
<1>. QED  BY <1>1, <1>2, <1>6, <1>8, <1>9, QuietStep

\* an error and nothing else,
LEMMA ErrorPlaces ==
  ASSUME TypeOK, CallInv, TypeOK', CallInv', TreeInv, PlaceInv, Sheltered', NEW t \in Threads, NEW a \in Errors, t \in AtWork, ~Holds(t),
         UNCHANGED <<inodeVars, req, nm, dir>>, tgt' = tgt \/ pc[t] = "lock",
         \A u \in Threads \ {t} : tgt'[u] = tgt[u], Answer(t, a), pc[t] \notin {"basename", "copy"}
  PROVE  TreeInv' /\ PlaceInv'
<1>1. \A u \in Threads \ {t} : Keeps(u)
  BY DEF Answer, Goto, Keeps, TypeOK, CallInv
<1>2. pc'[t] = "reply" /\ ans'[t] = a /\ a # "ok"
  BY DEF Answer, Goto, CallInv, Errors
<1>3. Op(t) \in Mutators => nm'[t] = Last(Path(t))
  BY DEF PlaceInv, PlaceOK
<1>4. Path(t)' = Path(t) /\ Op(t)' = Op(t) /\ ~Holds(t)'
  BY <1>2 DEF Path, Op, Holds
<1>5. PlaceOK(t)'
  BY <1>2, <1>3, <1>4 DEF PlaceOK, Past
<1>. QED  BY <1>1, <1>4, <1>5, QuietStep

\* the answers of those that look.
LEMMA LookPlaces ==
  ASSUME TypeOK, CallInv, TypeOK', CallInv', TreeInv, PlaceInv, Sheltered', NEW t \in Threads, Read(t)
  PROVE  TreeInv' /\ PlaceInv'
<1>1. PICK a \in {"ok"} \cup Errors :
        /\ pc[t] = "look" /\ Answer(t, a) /\ UNCHANGED <<inodeVars, req, nm, dir, tgt>>
        /\ Op(t) = "open" /\ a = "ok" => kind[tgt[t]] = "file"
  <2>1. CASE Getattr(t)
    BY <2>1 DEF Getattr, Look
  <2>2. CASE Open(t)
    BY <2>2 DEF Open, Look, Errors
  <2>3. CASE Readdir(t)
    BY <2>3 DEF Readdir, Look, Errors
  <2>. QED  BY <2>1, <2>2, <2>3 DEF Read
<1>2. /\ t \in AtWork /\ ~Holds(t) /\ Op(t) \in Readers /\ PlaceOK(t) /\ Past(t)
      /\ \A u \in Threads \ {t} : Keeps(u)
  BY <1>1 DEF AtWork, Holds, CallInv, CallOK, PlaceInv, Past, Keeps, Answer, Goto
<1>3. pc'[t] = "reply" /\ ans'[t] = a
  BY <1>1 DEF Answer, Goto, CallInv
<1>4. Path(t)' = Path(t) /\ Op(t)' = Op(t)
  BY <1>1 DEF Path, Op
<1>5. At(Path(t))' = At(Path(t)) /\ Parent(Path(t))' = Parent(Path(t))
  BY <1>1, <1>4, StillIs, AtPathNext
<1>6. PlaceOK(t)'
  BY <1>1, <1>2, <1>3, <1>4, <1>5 DEF PlaceOK, Mutators, Readers
<1>7. ~Holds(t)'
  BY <1>3 DEF Holds
<1>. QED  BY <1>1, <1>2, <1>6, <1>7, QuietStep

\* A request that has a directory's lock sees the name of its path there.
LEMMA LockIs ==
  ASSUME TypeOK, CallInv, TreeInv, PlaceInv, NEW t \in Threads, pc[t] = "lock"
  PROVE  /\ t \in AtWork /\ Past(t) /\ PlaceOK(t) /\ ~Holds(t)
         /\ Path(t) \in TreePaths /\ dir[t] = Parent(Path(t)) /\ dir[t] \in Inums
         /\ nm[t] = Last(Path(t)) /\ Lookup(dir[t], nm[t]) = At(Path(t))
<1>1. t \in AtWork /\ Past(t) /\ PlaceOK(t) /\ ~Holds(t) /\ Op(t) \in Mutators
  BY DEF AtWork, Past, Holds, PlaceInv, CallInv, CallOK
<1>2. Path(t) \in TreePaths /\ dir[t] = Parent(Path(t)) /\ dir[t] \in Inums
  BY <1>1, DirIs
<1>3. nm[t] = Last(Path(t)) /\ nm[t] \in Names
  BY <1>1, <1>2, LastIs DEF PlaceOK
<1>4. \A i \in Inums : At(Path(t)) = i <=> Lookup(dir[t], nm[t]) = i
  <2>1. \A i \in Inums : At(Path(t)) = i <=> <<nm[t], i>> \in entries[dir[t]]
    BY <1>2, <1>3, AtIs
  <2>2. \A i \in Inums : Lookup(dir[t], nm[t]) = i <=> <<nm[t], i>> \in entries[dir[t]]
    BY <1>2, <1>3, LookupIs DEF CallInv
  <2>. QED  BY <2>1, <2>2
<1>5. At(Path(t)) \in Inums \cup {NONE} /\ Lookup(dir[t], nm[t]) \in Inums \cup {NONE}
  BY <1>2, <1>3, AtIs, LookupIs DEF CallInv
<1>. QED  BY <1>1, <1>2, <1>3, <1>4, <1>5

\* A new inode is in nobody's way.
LEMMA AllocPlaces ==
  ASSUME TypeOK, CallInv, TypeOK', CallInv', TreeInv, PlaceInv, NEW t \in Threads, pc[t] = "lock", Alloc(t),
         UNCHANGED <<req, ans, nm, dir>>
  PROVE  TreeInv' /\ PlaceInv'
<1>. DEFINE i == tgt'[t]
<1>1. /\ TreeInv' /\ entries' = entries
      /\ i \in Inums /\ kind[i] = "free"
      /\ \A j \in Inums : j # i => kind'[j] = kind[j] /\ nlink'[j] = nlink[j]
      /\ kind'[i] = (IF Op(t) = "mkdir" THEN "dir" ELSE "file")
      /\ (Op(t) = "mkdir" => nlink'[i] = 2) /\ entries[i] = {}
  BY AllocTree
<1>2. pc'[t] = "add" /\ \A u \in Threads \ {t} : Keeps(u)
  BY DEF Alloc, Goto, Keeps, TypeOK, CallInv
<1>. HIDE DEF i
<1>3. ASSUME NEW q PROVE At(q)' = At(q) /\ Parent(q)' = Parent(q)
  BY <1>1 DEF At, Parent, Lookup
<1>4. ASSUME NEW u \in AtWork, Path(u)' = Path(u)
      PROVE  At(Path(u))' = At(Path(u)) /\ Parent(Path(u))' = Parent(Path(u))
  BY <1>3, <1>4, AtPathNext
<1>5. ASSUME NEW u \in AtWork \ {t} PROVE PlaceOK(u)'
  <2>1. Keeps(u) /\ PlaceOK(u) /\ Path(u)' = Path(u)
    BY <1>2 DEF PlaceInv, AtWork, Keeps, Path
  <2>2. Past(u) => kind'[dir[u]] = kind[dir[u]]
    BY <1>1, DirIs
  <2>3. pc[u] \in {"add", "remove", "free"} => tgt[u] \in Inums /\ tgt[u] # i
    <3>1. CASE Holds(u)
      BY <1>1, <3>1, HoldsIs DEF AtWork
    <3>2. CASE pc[u] = "remove"
      <4>1. At(Path(u)) = tgt[u] /\ tgt[u] \in Inums /\ Path(u) \in TreePaths
        BY <2>1, <3>2, DirIs DEF PlaceOK, CallInv, CallOK, AtWork, Past
      <4>. QED  BY <1>1, <4>1, AtNamed
    <3>. QED  BY <3>1, <3>2 DEF Holds
  <2>4. pc[u] = "reply" /\ ans[u] = "ok" /\ Op(u) \in {"create", "open"} => kind'[tgt[u]] = kind[tgt[u]]
    BY <1>1, <2>1 DEF PlaceOK, CallInv, CallOK, AtWork
  <2>5. At(Path(u))' = At(Path(u)) /\ Parent(Path(u))' = Parent(Path(u))
    BY <1>4, <2>1
  <2>. QED  BY <1>1, <2>1, <2>2, <2>3, <2>4, <2>5, PlaceKept
<1>6. PlaceOK(t)'
  <2>1. Path(t)' = Path(t) /\ Op(t)' = Op(t) /\ t \in AtWork
    BY LockIs DEF Path, Op
  <2>2. Op(t) \in Mutators => nm'[t] = Last(Path(t))
    BY LockIs
  <2>3. dir'[t] = Parent(Path(t))' /\ kind'[dir[t]] = "dir"
    BY <1>1, <1>4, <2>1, LockIs, DirIs
  <2>. QED  BY <1>1, <1>2, <2>1, <2>2, <2>3 DEF PlaceOK, i
<1>7. AtWork' \subseteq AtWork \cup {t}
  BY <1>2 DEF AtWork, Keeps
<1>. QED  BY <1>1, <1>5, <1>6, <1>7 DEF PlaceInv

\* Nobody works on what is given back.
LEMMA GiveBackPlaces ==
  ASSUME TypeOK, CallInv, TypeOK', CallInv', TreeInv, PlaceInv, NEW t \in Threads, AddFails(t) \/ Free(t)
  PROVE  TreeInv' /\ PlaceInv'
<1>. DEFINE i == tgt[t]
<1>1. /\ kind' = [kind EXCEPT ![i] = "free"] /\ UNCHANGED <<nlink, entries, req, nm, dir, tgt>>
      /\ Holds(t) /\ pc'[t] = "reply" /\ (ans'[t] = "ok" => pc[t] = "free" /\ ans[t] = "ok")
      /\ \A u \in Threads \ {t} : Keeps(u)
  BY DEF AddFails, AddRefused, Free, Answer, Goto, Holds, Keeps, TypeOK, CallInv, CallOK
<1>2. i \in Inums /\ InHand(i) /\ t \in AtWork
  BY <1>1, HoldsIs, HandIs
<1>3. \A j \in Inums : j # i => kind'[j] = kind[j]
  BY <1>1, <1>2 DEF TypeOK
<1>4. TreeInv'
  <2>1. ~Holds(t)'
    BY <1>1 DEF Holds
  <2>. QED  BY <1>1, <2>1, GiveBackTree DEF Keeps
<1>5. ASSUME NEW q PROVE At(q)' = At(q) /\ Parent(q)' = Parent(q)
  BY <1>1 DEF At, Parent, Lookup
<1>6. ASSUME NEW u \in AtWork, Path(u)' = Path(u)
      PROVE  At(Path(u))' = At(Path(u)) /\ Parent(Path(u))' = Parent(Path(u))
  BY <1>5, <1>6, AtPathNext
<1>. HIDE DEF i
<1>7. ASSUME NEW u \in AtWork \ {t} PROVE PlaceOK(u)'
  <2>1. Keeps(u) /\ PlaceOK(u) /\ Path(u)' = Path(u) /\ Path(u) \in TreePaths
    BY <1>1, RequestIs DEF PlaceInv, AtWork, Keeps, Path, CallInv, CallOK
  <2>2. Past(u) => kind'[dir[u]] = kind[dir[u]]
    BY <1>2, <1>3, DirIs
  <2>3. pc[u] \in {"add", "remove", "free"} => tgt[u] \in Inums /\ tgt[u] # i
    <3>1. CASE Holds(u)
      BY <1>1, <3>1, HoldsIs DEF AtWork, TreeInv, HandsApart, i
    <3>2. CASE pc[u] = "remove"
      <4>1. At(Path(u)) = tgt[u] /\ tgt[u] \in Inums
        BY <2>1, <3>2 DEF PlaceOK, CallInv, CallOK, AtWork
      <4>. QED  BY <1>2, <2>1, <4>1, AtNamed
    <3>. QED  BY <3>1, <3>2 DEF Holds
  <2>4. pc[u] = "reply" /\ ans[u] = "ok" /\ Op(u) \in {"create", "open"} => kind'[tgt[u]] = kind[tgt[u]]
    <3>. SUFFICES ASSUME pc[u] = "reply", ans[u] = "ok", Op(u) \in {"create", "open"} PROVE kind'[tgt[u]] = kind[tgt[u]]
      OBVIOUS
    <3>1. At(Path(u)) = tgt[u] /\ tgt[u] \in Inums
      BY <2>1 DEF PlaceOK, CallInv, CallOK, AtWork
    <3>. QED  BY <1>2, <1>3, <2>1, <3>1, AtNamed
  <2>5. At(Path(u))' = At(Path(u)) /\ Parent(Path(u))' = Parent(Path(u))
    BY <1>6, <2>1
  <2>. QED  BY <1>1, <1>3, <2>1, <2>2, <2>3, <2>4, <2>5, PlaceKept
<1>8. PlaceOK(t)'
  <2>1. Path(t)' = Path(t) /\ Op(t)' = Op(t) /\ PlaceOK(t)
    BY <1>1, <1>2 DEF Path, Op, PlaceInv
  <2>2. Op(t) \in Mutators => nm'[t] = Last(Path(t))
    BY <1>1, <2>1 DEF PlaceOK, Holds
  <2>3. ans'[t] = "ok" => /\ Op(t) \notin {"create", "open"}
                          /\ dir'[t] = Parent(Path(t))' /\ kind'[dir[t]] = "dir"
    <3>. SUFFICES ASSUME ans'[t] = "ok" PROVE /\ Op(t) \notin {"create", "open"}
                                              /\ dir'[t] = Parent(Path(t))' /\ kind'[dir[t]] = "dir"
      OBVIOUS
    <3>1. pc[t] = "free" /\ Removes(req[t]) /\ Past(t)
      BY <1>1 DEF Past, CallInv, CallOK
    <3>2. dir[t] = Parent(Path(t)) /\ dir[t] \in Inums /\ kind[dir[t]] = "dir" /\ ~InHand(dir[t])
      BY <1>2, <3>1, DirIs
    <3>3. Parent(Path(t))' = Parent(Path(t))
      BY <1>2, <1>6, <2>1
    <3>. QED  BY <1>1, <1>2, <1>3, <3>1, <3>2, <3>3 DEF Removes, Op
  <2>. QED  BY <1>1, <2>1, <2>2, <2>3 DEF PlaceOK, Past
<1>9. AtWork' \subseteq AtWork \cup {t}
  BY <1>1 DEF AtWork, Keeps
<1>. QED  BY <1>4, <1>7, <1>8, <1>9 DEF PlaceInv

\* While a request changes a directory, no other has that directory in its hand
\* or takes it away, or works on the same path.
LEMMA BesideDir ==
  ASSUME TypeOK, CallInv, KernelInv, TreeInv, PlaceInv,
         NEW t \in AtWork, Past(t), Op(t) \in Mutators, NEW u \in AtWork \ {t}
  PROVE  /\ Path(u) \in TreePaths /\ Path(u) # Path(t)
         /\ pc[u] \in {"add", "remove", "free"} => tgt[u] \in Inums /\ tgt[u] # dir[t]
<1>1. /\ Path(t) \in TreePaths /\ Parent(Path(t)) = dir[t] /\ dir[t] \in Inums /\ ~InHand(dir[t])
      /\ PlaceOK(u) /\ Path(u) \in TreePaths /\ Apart(req[t], req[u]) /\ CallOK(u)
  BY DirIs, RequestIs DEF PlaceInv, KernelInv, AtWork, CallInv, CallOK, Path
<1>2. Path(u) # Path(t)
  BY <1>1 DEF Apart, Path, Op, Mutators, Readers
<1>3. CASE Holds(u)
  BY <1>1, <1>2, <1>3, HoldsIs, HandIs DEF AtWork
<1>4. CASE pc[u] = "remove"
  <2>1. At(Path(u)) = tgt[u] /\ tgt[u] \in Inums /\ Removes(req[u]) /\ tgt[u] # Root
    BY <1>1, <1>4, AtIs, NoRoot DEF PlaceOK, CallOK
  <2>. SUFFICES ASSUME tgt[u] = dir[t] PROVE FALSE
    BY <1>1, <1>2, <2>1
  <2>2. PICK n, m \in Names : Path(t) = <<n, m>> /\ Parent(Path(t)) = At(<<n>>) /\ <<n>> \in TreePaths
    BY <1>1, <2>1, ParentIs DEF TreePaths
  <2>3. Path(u) = <<n>>
    BY <1>1, <2>1, <2>2, AtOnce
  <2>4. IsPrefix(Path(u), Path(t))
    BY <1>1, <1>2, <2>2, <2>3, PrefixIs
  <2>. QED  BY <1>1, <2>1, <2>4 DEF Apart, Path
<1>. QED  BY <1>1, <1>2, <1>3, <1>4 DEF Holds

\* The others' places when one path changes.
LEMMA OthersPlaces ==
  ASSUME TypeOK, CallInv, KernelInv, TreeInv, PlaceInv,
         NEW t \in AtWork, Past(t), Op(t) \in Mutators, NEW u \in AtWork \ {t}, Keeps(u), kind' = kind,
         \A d \in Inums : d # dir[t] => entries'[d] = entries[d] /\ nlink'[d] = nlink[d],
         NEW after, \A p \in TreePaths : At(p)' = IF p = Path(t) THEN after ELSE At(p),
         At(Path(t)) = NONE \/ Removes(req[t])
  PROVE  PlaceOK(u)'
<1>1. PlaceOK(u) /\ Path(u)' = Path(u) /\ Path(u) \in TreePaths /\ Path(u) # Path(t)
  BY BesideDir DEF PlaceInv, Keeps, Path
<1>2. At(Path(u))' = At(Path(u))
  <2>1. PICK p \in TreePaths : p = Path(u)
    BY <1>1
  <2>2. p # Path(t) /\ Path(u)' = p
    BY <1>1, <2>1
  <2>3. At(p)' = At(p) /\ At(Path(u))' = At(p)'
    BY <2>2, AtPathNext
  <2>. QED  BY <2>1, <2>3
<1>3. Past(u) => Parent(Path(u))' = Parent(Path(u))
  <2>. SUFFICES ASSUME Past(u) PROVE Parent(Path(u))' = Parent(Path(u))
    OBVIOUS
  <2>0. PICK p \in TreePaths : p = Path(u)
    BY <1>1
  <2>1. Path(u)' = p /\ Parent(p) \in Inums
    BY <1>1, <2>0, DirIs
  <2>2. ASSUME NEW n \in Names, NEW m \in Names, p = <<n, m>> PROVE <<n>> \in TreePaths /\ <<n>> # Path(t)
    <3>1. <<n>> \in TreePaths /\ <<n>> # p
      BY <2>2 DEF TreePaths
    <3>2. At(<<n>>) # NONE
      BY <2>1, <2>2, AtOne, AtTwo
    <3>3. IsPrefix(<<n>>, p)
      BY <2>1, <2>2, <3>1, PrefixIs
    <3>4. Apart(req[t], req[u])
      BY DEF KernelInv
    <3>. QED  BY <2>0, <3>1, <3>2, <3>3, <3>4 DEF Apart, Path
  <2>3. Parent(p)' = Parent(p)
    BY <2>1, <2>2, ParentKept
  <2>4. Parent(Path(u))' = Parent(p)'
    BY <2>1, AtPathNext
  <2>. QED  BY <2>0, <2>3, <2>4
<1>4. pc[u] \in {"add", "remove", "free"} => tgt[u] \in Inums /\ tgt[u] # dir[t]
  BY BesideDir
<1>. QED  BY <1>1, <1>2, <1>3, <1>4, PlaceKept

\* The place of the request that changes a path.
LEMMA OwnParent ==
  ASSUME TypeOK, CallInv, TreeInv, PlaceInv, NEW t \in AtWork, Past(t), req' = req,
         NEW after, \A p \in TreePaths : At(p)' = IF p = Path(t) THEN after ELSE At(p)
  PROVE  Parent(Path(t))' = dir[t] /\ At(Path(t))' = after
<1>0. PICK p \in TreePaths : p = Path(t)
  BY DirIs
<1>1. Path(t)' = p /\ Parent(p) = dir[t]
  BY <1>0, DirIs DEF Path
<1>2. \A n, m \in Names : p = <<n, m>> => <<n>> \in TreePaths /\ <<n>> # p
  BY DEF TreePaths
<1>3. Parent(p)' = Parent(p)
  BY <1>0, <1>2, ParentKept
<1>4. Parent(Path(t))' = Parent(p)' /\ At(Path(t))' = At(p)'
  BY <1>1, AtPathNext
<1>. QED  BY <1>0, <1>1, <1>3, <1>4

\* dir_add,
LEMMA AddPlaces ==
  ASSUME TypeOK, CallInv, TypeOK', CallInv', KernelInv, TreeInv, PlaceInv, NEW t \in Threads, Add(t)
  PROVE  TreeInv' /\ PlaceInv'
<1>1. /\ t \in AtWork /\ Past(t) /\ Makes(t) /\ PlaceOK(t) /\ pc[t] = "add"
      /\ pc'[t] = "reply" /\ ans'[t] = "ok" /\ UNCHANGED <<req, nm, dir, tgt>>
      /\ \A u \in Threads \ {t} : Keeps(u)
  BY DEF Add, Answer, Goto, AtWork, Past, Keeps, TypeOK, CallInv, CallOK, PlaceInv
<1>2. Op(t) \in Mutators
  BY <1>1 DEF Makes, Mutators
<1>3. /\ TreeInv' /\ kind' = kind
      /\ \A d \in Inums : d # dir[t] => entries'[d] = entries[d] /\ nlink'[d] = nlink[d]
      /\ \A p \in TreePaths : At(p)' = IF p = Path(t) THEN tgt[t] ELSE At(p)
      /\ At(Path(t)) = NONE
  BY AddTree
<1>4. ASSUME NEW u \in AtWork \ {t} PROVE PlaceOK(u)'
  <2>1. Keeps(u)
    BY <1>1 DEF AtWork
  <2>. QED  BY <1>1, <1>2, <1>3, <2>1, OthersPlaces
<1>5. PlaceOK(t)'
  <2>1. Parent(Path(t))' = dir[t] /\ At(Path(t))' = tgt[t]
    BY <1>1, <1>3, OwnParent
  <2>2. Path(t)' = Path(t) /\ Op(t)' = Op(t) /\ dir[t] \in Inums /\ kind[dir[t]] = "dir"
    BY <1>1, DirIs DEF Path, Op
  <2>. QED  BY <1>1, <1>2, <1>3, <2>1, <2>2 DEF PlaceOK
<1>6. AtWork' \subseteq AtWork \cup {t}
  BY <1>1 DEF AtWork, Keeps
<1>. QED  BY <1>3, <1>4, <1>5, <1>6 DEF PlaceInv

\* dir_remove,
LEMMA UnnamePlaces ==
  ASSUME TypeOK, CallInv, TypeOK', CallInv', KernelInv, TreeInv, PlaceInv, NEW t \in Threads, Unname(t)
  PROVE  TreeInv' /\ PlaceInv'
<1>1. /\ t \in AtWork /\ Past(t) /\ Removes(req[t]) /\ PlaceOK(t) /\ pc[t] = "remove"
      /\ pc'[t] = "free" /\ UNCHANGED <<req, nm, dir, tgt>>
      /\ \A u \in Threads \ {t} : Keeps(u)
  BY DEF Unname, Goto, AtWork, Past, Keeps, TypeOK, CallInv, CallOK, PlaceInv
<1>2. Op(t) \in Mutators
  BY <1>1 DEF Removes, Op, Mutators
<1>3. /\ TreeInv' /\ kind' = kind
      /\ \A d \in Inums : d # dir[t] => entries'[d] = entries[d] /\ nlink'[d] = nlink[d]
      /\ \A p \in TreePaths : At(p)' = IF p = Path(t) THEN NONE ELSE At(p)
  BY UnnameTree
<1>4. ASSUME NEW u \in AtWork \ {t} PROVE PlaceOK(u)'
  <2>1. Keeps(u)
    BY <1>1 DEF AtWork
  <2>. QED  BY <1>1, <1>2, <1>3, <2>1, OthersPlaces
<1>5. PlaceOK(t)'
  <2>1. Parent(Path(t))' = dir[t]
    BY <1>1, <1>3, OwnParent
  <2>2. Path(t)' = Path(t) /\ Op(t)' = Op(t) /\ dir[t] \in Inums /\ kind[dir[t]] = "dir" /\ Path(t) \in TreePaths
        /\ Parent(Path(t)) = dir[t]
    BY <1>1, DirIs DEF Path, Op
  <2>3. tgt[t] \in Inums /\ At(Path(t)) = tgt[t] /\ entries[tgt[t]] = {}
    BY <1>1 DEF PlaceOK, CallInv, CallOK
  <2>4. kind[tgt[t]] # "free" /\ entries[dir[t]] # {}
    BY <2>2, <2>3, AtNamed, AtIs
  <2>5. kind'[tgt[t]] # "free" /\ entries'[tgt[t]] = {}
    BY <1>3, <2>3, <2>4
  <2>6. nm[t] = Last(Path(t))
    BY <1>1, <1>2 DEF PlaceOK
  <2>. QED  BY <1>1, <1>2, <1>3, <2>1, <2>2, <2>5, <2>6 DEF PlaceOK
<1>6. AtWork' \subseteq AtWork \cup {t}
  BY <1>1 DEF AtWork, Keeps
<1>. QED  BY <1>3, <1>4, <1>5, <1>6 DEF PlaceInv

\* and the checks before it.
LEMMA CheckPlaces ==
  ASSUME TypeOK, CallInv, TypeOK', CallInv', TreeInv, PlaceInv, Sheltered', NEW t \in Threads, Check(t)
  PROVE  TreeInv' /\ PlaceInv'
<1>1. /\ t \in AtWork /\ Past(t) /\ PlaceOK(t) /\ ~Holds(t) /\ pc[t] = "lock"
      /\ Path(t) \in TreePaths /\ dir[t] = Parent(Path(t)) /\ dir[t] \in Inums
      /\ nm[t] = Last(Path(t)) /\ Lookup(dir[t], nm[t]) = At(Path(t))
  BY LockIs DEF Check
<1>2. UNCHANGED <<inodeVars, req, nm, dir>> /\ \A u \in Threads \ {t} : tgt'[u] = tgt[u]
  BY DEF Check, TypeOK
<1>3. CASE \E a \in Errors : Answer(t, a)
  BY <1>1, <1>2, <1>3, ErrorPlaces
<1>4. CASE ~\E a \in Errors : Answer(t, a)
  <2>. DEFINE i == At(Path(t))
  <2>1. /\ i # NONE /\ tgt' = [tgt EXCEPT ![t] = i]
        /\ ~(Op(t) = "unlink" /\ kind[i] = "dir") /\ ~(Op(t) = "rmdir" /\ kind[i] # "dir")
        /\ Goto(t, "remove") /\ UNCHANGED ans /\ ~Makes(t)
        /\ Op(t) = "rmdir" /\ entries[i] # {} => "files" \in crossed'
    BY <1>1, <1>4 DEF Check, Cross, Errors
  <2>2. i \in Inums /\ Op(t) \in {"unlink", "rmdir"}
    BY <1>1, <2>1, AtIs DEF CallInv, CallOK, Makes, Mutators
  <2>3. entries[i] = {}
    BY <2>1, <2>2 DEF TreeInv, Shallow, Sheltered, Within
  <2>. HIDE DEF i
  <2>4. pc'[t] = "remove" /\ tgt'[t] = i /\ (Op(t) = "rmdir" <=> kind[i] = "dir")
    BY <2>1, <2>2 DEF Goto, CallInv, TypeOK
  <2>5. \A u \in Threads \ {t} : Keeps(u)
    BY <1>2, <2>1 DEF Keeps, Goto, CallInv
  <2>6. Path(t)' = Path(t) /\ Op(t)' = Op(t)
    BY <1>2 DEF Path, Op
  <2>7. At(Path(t))' = i /\ Parent(Path(t))' = Parent(Path(t))
    BY <1>2, <2>6, StillIs, AtPathNext DEF i
  <2>8. kind[dir[t]] = "dir"
    BY <1>1, DirIs
  <2>9. PlaceOK(t)'
    BY <1>1, <1>2, <2>2, <2>3, <2>4, <2>6, <2>7, <2>8 DEF PlaceOK
  <2>10. ~Holds(t)'
    BY <2>4 DEF Holds
  <2>. QED  BY <1>1, <1>2, <2>5, <2>9, <2>10, QuietStep
<1>. QED  BY <1>3, <1>4

\* What ends a request with an error, and what refuses to make an inode.
LEMMA FailPlaces ==
  ASSUME TypeOK, CallInv, TypeOK', CallInv', TreeInv, PlaceInv, Sheltered', NEW t \in Threads,
         WalkFails(t) \/ MakeFails(t) \/ UnnameFails(t)
  PROVE  TreeInv' /\ PlaceInv'
<1>1. PICK a \in Errors : Answer(t, a)
  BY DEF WalkFails, MakeFails, UnnameFails, Errors
<1>2. /\ t \in AtWork /\ ~Holds(t) /\ UNCHANGED <<inodeVars, req, nm, dir, tgt>>
      /\ pc[t] \notin {"basename", "copy"}
  BY DEF WalkFails, MakeFails, UnnameFails, AtWork, Holds
<1>. QED  BY <1>1, <1>2, ErrorPlaces

\* inode_alloc and the checks before it,
LEMMA MakePlaces ==
  ASSUME TypeOK, CallInv, TypeOK', CallInv', TreeInv, PlaceInv, Sheltered', NEW t \in Threads,
         Make(t) \/ MakeUnread(t)
  PROVE  TreeInv' /\ PlaceInv'
<1>1. pc[t] = "lock" /\ UNCHANGED <<req, nm, dir>>
  BY DEF Make, MakeUnread
<1>2. CASE Alloc(t) /\ UNCHANGED ans
  BY <1>1, <1>2, AllocPlaces
<1>3. CASE ~(Alloc(t) /\ UNCHANGED ans)
  <2>1. PICK a \in Errors : Answer(t, a) /\ UNCHANGED <<inodeVars, tgt>>
    BY <1>3 DEF Make, MakeUnread, Errors
  <2>2. t \in AtWork /\ ~Holds(t) /\ pc[t] \notin {"basename", "copy"}
    BY <1>1 DEF AtWork, Holds
  <2>. QED  BY <1>1, <2>1, <2>2, ErrorPlaces
<1>. QED  BY <1>2, <1>3

\* and the reply.
LEMMA ReplyPlaces ==
  ASSUME TypeOK, CallInv, TypeOK', CallInv', TreeInv, PlaceInv, NEW t \in Threads, Reply(t)
  PROVE  TreeInv' /\ PlaceInv'
<1>1. UNCHANGED inodeVars /\ ~Holds(t) /\ \A u \in Threads \ {t} : Keeps(u)
  BY DEF Reply, Goto, Keeps, Holds, TypeOK, CallInv
<1>2. pc'[t] = "idle" /\ ~Holds(t)'
  BY DEF Reply, Goto, Holds, CallInv
<1>. QED  BY <1>1, <1>2, QuietStep

\* A step of no request.
LEMMA RestPlaces ==
  ASSUME TypeOK, CallInv, CallInv', TreeInv, PlaceInv, UNCHANGED <<inodeVars, pc, req, ans, callVars>>
  PROVE  TreeInv' /\ PlaceInv'
<1>1. TreeInv'
  <2>1. \A u \in Threads : (Holds(u)' <=> Holds(u)) /\ tgt'[u] = tgt[u]
    BY DEF Holds
  <2>. QED  BY <2>1, TreeSame
<1>2. AtWork' = AtWork
  BY DEF AtWork
<1>3. ASSUME NEW u \in AtWork PROVE PlaceOK(u)'
  <2>1. \A p : At(p)' = At(p) /\ Parent(p)' = Parent(p)
    BY DEF At, Parent, Lookup
  <2>2. Keeps(u) /\ PlaceOK(u) /\ Path(u)' = Path(u)
    BY DEF PlaceInv, AtWork, Keeps, Path
  <2>3. At(Path(u))' = At(Path(u)) /\ Parent(Path(u))' = Parent(Path(u))
    BY <2>1, <2>2, AtPathNext
  <2>. QED  BY <2>2, <2>3, PlaceKept
<1>. QED  BY <1>1, <1>2, <1>3 DEF PlaceInv

\* The limits left behind are never forgotten.
LEMMA CrossedGrows == TypeOK /\ CallInv /\ [Next]_vars => crossed \subseteq crossed'
<1>. SUFFICES ASSUME TypeOK, CallInv, [Next]_vars PROVE crossed \subseteq crossed'
  OBVIOUS
<1>1. ASSUME NEW t \in Threads, Ask(t) \/ Reply(t) PROVE crossed \subseteq crossed'
  BY <1>1 DEF Ask, Reply, Cross
<1>2. CASE Release \/ UNCHANGED vars
  BY <1>2 DEF Release, vars
<1>. QED  BY <1>1, <1>2, OtherSteps DEF Next, Finished

\* Every step keeps the invariant.
LEMMA ImageStep == ImageInv /\ [Next]_vars => ImageInv'
<1>. SUFFICES ASSUME ImageInv, [Next]_vars PROVE ImageInv'
  OBVIOUS
<1>1. TypeOK /\ CallInv /\ KernelInv /\ (Sheltered => TreeInv /\ PlaceInv)
  BY DEF ImageInv
<1>2. TypeOK' /\ CallInv' /\ KernelInv'
  BY <1>1, CallStep, KernelStep
<1>3. ASSUME Sheltered' PROVE TreeInv' /\ PlaceInv'
  <2>1. TreeInv /\ PlaceInv
    BY <1>1, <1>3, CrossedGrows DEF Sheltered, Within
  <2>2. ASSUME NEW t \in Threads, Ask(t) \/ Resolve(t) \/ Read(t) PROVE TreeInv' /\ PlaceInv'
    BY <1>1, <1>2, <1>3, <2>1, <2>2, AskPlaces, BasenamePlaces, WalkPlaces, FindPlaces, FailPlaces, LookPlaces
       DEF Resolve
  <2>3. ASSUME NEW t \in Threads, Change(t) PROVE TreeInv' /\ PlaceInv'
    BY <1>1, <1>2, <1>3, <2>1, <2>3, MakePlaces, FailPlaces, AddPlaces, GiveBackPlaces, CheckPlaces, UnnamePlaces
       DEF Change
  <2>4. ASSUME NEW t \in Threads, Reply(t) PROVE TreeInv' /\ PlaceInv'
    BY <1>1, <1>2, <2>1, <2>4, ReplyPlaces
  <2>5. CASE Release \/ UNCHANGED vars
    BY <1>1, <1>2, <2>1, <2>5, RestPlaces DEF Release, vars
  <2>. QED  BY <2>2, <2>3, <2>4, <2>5 DEF Next, Finished
<1>. QED  BY <1>2, <1>3 DEF ImageInv

\* A file system that mkfs or an earlier mount left is sound.
LEMMA ImageInit == Init => ImageInv
<1>. SUFFICES ASSUME Init PROVE ImageInv
  OBVIOUS
<1>1. TypeOK /\ CallInv /\ KernelInv
  BY CallInit, KernelInit
<1>2. SoundImage(kind, entries)
  BY FileSystemAssumption DEF Init
<1>3. \A i : ~InHand(i) /\ \A t \in Threads : ~Holds(t)
  BY DEF Init, InHand, Holds
<1>4. Shallow /\ OneName
  BY <1>2 DEF SoundImage, Shallow, OneName
<1>5. Named /\ NoneLost
  BY <1>2, <1>3 DEF SoundImage, Named, NoneLost
<1>6. Counted
  <2>. SUFFICES ASSUME NEW d \in Inums, kind[d] = "dir" PROVE nlink[d] = 2 + Cardinality(SubDirs(d))
    BY DEF Counted
  <2>1. nlink = [i \in Inums |->
            CASE kind[i] = "dir" -> 2 + Cardinality({e \in entries[i] : kind[e[2]] = "dir"})
              [] kind[i] = "file" -> 1
              [] OTHER -> 0]
    BY DEF Init
  <2>2. nlink[d] = 2 + Cardinality({e \in entries[d] : kind[e[2]] = "dir"})
    BY <2>1, Zenon
  <2>. QED  BY <2>2 DEF SubDirs
<1>7. HandsApart /\ AtWork = {}
  BY <1>3 DEF Init, HandsApart, AtWork
<1>. QED  BY <1>1, <1>4, <1>5, <1>6, <1>7 DEF ImageInv, TreeInv, PlaceInv

\* The invariant of the requests and the tree.
THEOREM ImageInvariant == Spec => []ImageInv
BY ImageInit, ImageStep, PTL DEF Spec

----------------------------------------------------------------------------
(* What follows.                                                           *)

\* Of the names of an inode there is one when one entry names it.
LEMMA OneNameOf ==
  ASSUME TypeOK, TreeInv, NEW i \in Inums, NEW d \in Inums, NEW e \in entries[d], e[2] = i
  PROVE  NamesOf(i) = {<<d, e[1]>>}
<1>1. e \in Names \X Inums /\ e = <<e[1], i>> /\ e[1] \in Names /\ kind[d] = "dir"
  BY DEF TypeOK, TreeInv, Shallow
<1>2. <<d, e[1]>> \in NamesOf(i)
  BY <1>1 DEF NamesOf
<1>3. ASSUME NEW n \in NamesOf(i) PROVE n = <<d, e[1]>>
  <2>1. n \in Inums \X Names /\ <<n[2], i>> \in entries[n[1]] /\ n = <<n[1], n[2]>>
    BY DEF NamesOf
  <2>2. <<n[2], i>>[2] = e[2]
    OBVIOUS
  <2>3. n[1] = d /\ <<n[2], i>> = e
    BY <2>1, <2>2 DEF TreeInv, OneName
  <2>. QED  BY <2>1, <2>3
<1>. QED  BY <1>2, <1>3

\* No inode is lost and none has two names, although requests make, name, unname
\* and free it in separate steps (create, mkdir, unlink and rmdir of fuse_ops.c)
\* of which each may fail: of every thread, tree, request and failure.
THEOREM TreeIsSound == Spec => []TreeSound
<1>1. ASSUME ImageInv PROVE TreeSound
  <2>1. TypeOK /\ CallInv /\ NamesOnce /\ (Sheltered => TreeInv /\ PlaceInv)
    BY <1>1 DEF ImageInv, CallInv
  <2>2. ASSUME Sheltered, NEW i \in Inums \ {Root}
        PROVE  /\ kind[i] # "free" => IF InHand(i) THEN NamesOf(i) = {} ELSE Cardinality(NamesOf(i)) = 1
               /\ kind[i] = "free" => NamesOf(i) = {}
               /\ kind[i] = "dir" => nlink[i] = 2 + Cardinality({e \in entries[i] : kind[e[2]] = "dir"})
    <3>0. TreeInv
      BY <2>1, <2>2
    <3>1. NamesOf(i) # {} => kind[i] # "free" /\ ~InHand(i)
      <4>. SUFFICES ASSUME NEW n \in NamesOf(i) PROVE kind[i] # "free" /\ ~InHand(i)
        OBVIOUS
      <4>1. n[1] \in Inums /\ <<n[2], i>> \in entries[n[1]] /\ <<n[2], i>>[2] = i
        BY DEF NamesOf
      <4>. QED  BY <3>0, <4>1 DEF TreeInv, Named
    <3>2. kind[i] # "free" /\ ~InHand(i) => Cardinality(NamesOf(i)) = 1
      <4>. SUFFICES ASSUME kind[i] # "free", ~InHand(i) PROVE Cardinality(NamesOf(i)) = 1
        OBVIOUS
      <4>1. PICK d \in Inums : \E e \in entries[d] : e[2] = i
        BY <3>0 DEF TreeInv, NoneLost
      <4>2. PICK e \in entries[d] : e[2] = i
        BY <4>1
      <4>3. NamesOf(i) = {<<d, e[1]>>}
        BY <2>1, <3>0, <4>2, OneNameOf
      <4>. QED  BY <4>3, FS_Singleton
    <3>3. kind[i] = "dir" => nlink[i] = 2 + Cardinality({e \in entries[i] : kind[e[2]] = "dir"})
      BY <3>0 DEF TreeInv, Counted, SubDirs
    <3>. QED  BY <3>1, <3>2, <3>3
  <2>. QED  BY <2>1, <2>2 DEF TreeSound, Sheltered
<1>. QED  BY <1>1, ImageInvariant, PTL

\* What is at the paths stays, and so does its kind.
Still == \A p \in TreePaths : At(p)' = At(p) /\ (At(p) # NONE => kind'[At(p)] = kind[At(p)])

\* Only dir_add and dir_remove change what is at a path.
LEMMA StillSame == ASSUME UNCHANGED inodeVars PROVE Still
BY StillIs DEF Still

\* What is allocated is at no path,
LEMMA StillAlloc ==
  ASSUME TypeOK, CallInv, CallInv', TreeInv, PlaceInv, NEW t \in Threads, pc[t] = "lock", Alloc(t)
  PROVE  Still
<1>. DEFINE i == tgt'[t]
<1>1. entries' = entries /\ kind[i] = "free" /\ \A j \in Inums : j # i => kind'[j] = kind[j]
  BY AllocTree
<1>. HIDE DEF i
<1>2. ASSUME NEW p \in TreePaths PROVE At(p)' = At(p) /\ (At(p) # NONE => kind'[At(p)] = kind[At(p)])
  BY <1>1, AtSame, AtNamed
<1>. QED  BY <1>2 DEF Still

\* nor is what is given back.
LEMMA StillGiveBack ==
  ASSUME TypeOK, CallInv, TreeInv, PlaceInv, NEW t \in Threads, AddFails(t) \/ Free(t)
  PROVE  Still
<1>. DEFINE i == tgt[t]
<1>1. entries' = entries /\ kind' = [kind EXCEPT ![i] = "free"] /\ Holds(t)
  BY DEF AddFails, AddRefused, Free, Holds
<1>2. InHand(i)
  BY <1>1, HandIs
<1>3. \A j \in Inums : j # i => kind'[j] = kind[j]
  BY <1>1 DEF TypeOK
<1>. HIDE DEF i
<1>4. ASSUME NEW p \in TreePaths PROVE At(p)' = At(p) /\ (At(p) # NONE => kind'[At(p)] = kind[At(p)])
  BY <1>1, <1>2, <1>3, AtSame, AtNamed
<1>. QED  BY <1>4 DEF Still

\* So nothing else does.
LEMMA StillStep ==
  ASSUME TypeOK, CallInv, CallInv', TreeInv, PlaceInv, NEW t \in Threads,
         Ask(t) \/ Resolve(t) \/ Read(t) \/ Change(t) \/ Reply(t), ~Add(t), ~Unname(t)
  PROVE  Still
<1>1. CASE Ask(t) \/ Resolve(t) \/ Read(t) \/ Reply(t)
  BY <1>1, StillSame
     DEF Ask, Resolve, Basename, CopyName, Walk, Find, WalkFails, Read, Getattr, Open, Readdir, Look, Reply
<1>2. CASE Make(t) \/ MakeUnread(t)
  BY <1>2, StillSame, StillAlloc DEF Make, MakeUnread
<1>3. CASE AddFails(t) \/ Free(t)
  BY <1>3, StillGiveBack
<1>4. CASE MakeFails(t) \/ Check(t) \/ UnnameFails(t)
  BY <1>4, StillSame DEF MakeFails, Check, UnnameFails
<1>. QED  BY <1>1, <1>2, <1>3, <1>4 DEF Change

\* The limits within which a handle keeps its file.
HandleLimits == {"nameRace", "walk", "files", "hardRemove"}
HandlesKept  == \A h \in handles : At(h.path) = h.fh /\ kind[h.fh] = "file"

\* Every step keeps the files of the handles.
LEMMA HandleStep ==
  ASSUME ImageInv, ImageInv', TreeInv, PlaceInv, "hardRemove" \notin crossed, HandlesKept, [Next]_vars
  PROVE  HandlesKept'
<1>1. /\ TypeOK /\ CallInv /\ KernelInv /\ TypeOK' /\ CallInv'
  BY DEF ImageInv
<1>2. \A h \in handles : h.path \in TreePaths /\ h.fh \in Inums /\ h.fh # NONE
  BY <1>1, FileSystemAssumption DEF TypeOK
<1>3. ASSUME Still, handles' \subseteq handles PROVE HandlesKept'
  <2>1. ASSUME NEW h \in handles PROVE At(h.path)' = h.fh /\ kind'[h.fh] = "file"
    <3>1. PICK p \in TreePaths : p = h.path
      BY <1>2
    <3>2. At(p) = h.fh /\ kind[h.fh] = "file"
      BY <3>1 DEF HandlesKept
    <3>. QED  BY <1>2, <1>3, <3>1, <3>2 DEF Still
  <2>. QED  BY <1>3, <2>1 DEF HandlesKept
<1>4. ASSUME NEW t \in AtWork, Op(t) \in Mutators, kind' = kind, handles' = handles, NEW after,
             \A p \in TreePaths : At(p)' = IF p = Path(t) THEN after ELSE At(p), ~IsOpen(Path(t))
      PROVE  HandlesKept'
  <2>1. ASSUME NEW h \in handles PROVE At(h.path)' = h.fh /\ kind'[h.fh] = "file"
    <3>1. PICK p \in TreePaths : p = h.path
      BY <1>2
    <3>2. At(p) = h.fh /\ kind[h.fh] = "file" /\ p # Path(t)
      BY <1>4, <3>1 DEF HandlesKept, IsOpen
    <3>. QED  BY <1>4, <3>1, <3>2
  <2>. QED  BY <1>4, <2>1 DEF HandlesKept
<1>5. ASSUME NEW t \in Threads, Add(t) PROVE HandlesKept'
  <2>1. /\ kind' = kind /\ At(Path(t)) = NONE
        /\ \A p \in TreePaths : At(p)' = IF p = Path(t) THEN tgt[t] ELSE At(p)
    BY <1>1, <1>5, AddTree
  <2>2. t \in AtWork /\ Op(t) \in Mutators /\ handles' = handles
    BY <1>1, <1>5 DEF Add, AtWork, CallInv, CallOK, Makes, Mutators
  <2>3. ~IsOpen(Path(t))
    BY <1>2, <2>1 DEF IsOpen, HandlesKept
  <2>. QED  BY <1>4, <2>1, <2>2, <2>3
<1>6. ASSUME NEW t \in Threads, Unname(t) PROVE HandlesKept'
  <2>1. /\ kind' = kind
        /\ \A p \in TreePaths : At(p)' = IF p = Path(t) THEN NONE ELSE At(p)
    BY <1>1, <1>6, UnnameTree
  <2>2. t \in AtWork /\ pc[t] = "remove" /\ Op(t) \in {"unlink", "rmdir"} /\ handles' = handles
    BY <1>1, <1>6 DEF Unname, AtWork, CallInv, CallOK, Removes, Op
  <2>3. At(Path(t)) = tgt[t] /\ (Op(t) = "rmdir" => kind[tgt[t]] = "dir")
    BY <2>2 DEF PlaceInv, PlaceOK
  <2>4. ~IsOpen(Path(t))
    <3>1. CASE Op(t) = "unlink"
      BY <1>1, <2>2, <3>1 DEF KernelInv
    <3>2. CASE Op(t) = "rmdir"
      BY <2>3, <3>2 DEF IsOpen, HandlesKept
    <3>. QED  BY <2>2, <3>1, <3>2
  <2>. QED  BY <1>4, <2>1, <2>2, <2>4 DEF Mutators
<1>7. ASSUME NEW t \in Threads, Reply(t) PROVE HandlesKept'
  <2>0. UNCHANGED inodeVars
    BY <1>7 DEF Reply
  <2>1. ASSUME NEW h \in handles' PROVE At(h.path) = h.fh /\ kind[h.fh] = "file"
    <3>1. CASE h \in handles
      BY <3>1 DEF HandlesKept
    <3>2. CASE h \notin handles
      <4>1. h = [path |-> req[t].path, fh |-> tgt[t]] /\ Op(t) \in {"create", "open"} /\ ans[t] = "ok"
        BY <1>7, <3>2 DEF Reply
      <4>2. h.path = Path(t) /\ h.fh = tgt[t]
        BY <4>1 DEF Path
      <4>3. pc[t] = "reply" /\ t \in AtWork
        BY <1>7 DEF Reply, AtWork
      <4>4. At(Path(t)) = tgt[t] /\ kind[tgt[t]] = "file"
        BY <4>1, <4>3 DEF PlaceInv, PlaceOK
      <4>. QED  BY <4>2, <4>4, Zenon
    <3>. QED  BY <3>1, <3>2
  <2>2. ASSUME NEW p PROVE At(p)' = At(p)
    BY <2>0, StillIs
  <2>3. ASSUME NEW h \in handles' PROVE At(h.path)' = h.fh /\ kind'[h.fh] = "file"
    <3>1. PICK p : p = h.path
      OBVIOUS
    <3>. QED  BY <2>0, <2>1, <2>2, <3>1
  <2>. QED  BY <2>3 DEF HandlesKept
<1>8. ASSUME NEW t \in Threads, Ask(t) \/ Resolve(t) \/ Read(t) \/ Change(t), ~Add(t), ~Unname(t) PROVE HandlesKept'
  <2>1. handles' = handles
    BY <1>1, <1>8, OtherSteps DEF Ask
  <2>. QED  BY <1>1, <1>3, <1>8, <2>1, StillStep
<1>9. CASE Release \/ UNCHANGED vars
  <2>1. Still /\ handles' \subseteq handles
    BY <1>9, StillSame DEF Release, vars
  <2>. QED  BY <1>3, <2>1
<1>. QED  BY <1>5, <1>6, <1>7, <1>8, <1>9 DEF Next, Finished

\* The number in a handle (fi->fh of create and open in fuse_ops.c) is that of
\* the file at the path that was opened, for as long as it is open: of every
\* thread, tree, request and failure.
THEOREM HandlesAreKept == Spec => []HandlesKeepFile
<1>1. Init => HandlesKeepFile
  BY DEF Init, HandlesKeepFile
<1>2. ImageInv /\ ImageInv' /\ HandlesKeepFile /\ [Next]_vars => HandlesKeepFile'
  <2>. SUFFICES ASSUME ImageInv, ImageInv', HandlesKeepFile, [Next]_vars, Within(HandleLimits)'
                PROVE  HandlesKept'
    BY DEF HandlesKeepFile, HandlesKept, HandleLimits, Within
  <2>1. crossed \subseteq crossed'
    BY CrossedGrows DEF ImageInv
  <2>2. Within(HandleLimits) /\ Sheltered /\ "hardRemove" \notin crossed
    BY <2>1 DEF Within, HandleLimits, Sheltered
  <2>3. TreeInv /\ PlaceInv /\ HandlesKept
    BY <2>2 DEF ImageInv, HandlesKeepFile, HandlesKept, HandleLimits
  <2>. QED  BY <2>2, <2>3, HandleStep
<1>. QED  BY <1>1, <1>2, ImageInvariant, PTL DEF Spec

----------------------------------------------------------------------------
(* The requests implement Namespace.                                       *)

\* What the tree of names has at a path.
LEMMA TreeIs ==
  ASSUME NEW p \in TreePaths
  PROVE  /\ Abstract!Exists(p) <=> At(p) # NONE
         /\ \A k : Abstract!IsA(p, k) <=> At(p) # NONE /\ kind[At(p)] = k
<1>1. DOMAIN Tree = {q \in TreePaths : At(q) # NONE}
  BY DEF Tree
<1>2. p \in DOMAIN Tree => Tree[p] = kind[At(p)]
  BY DEF Tree
<1>. QED  BY <1>1, <1>2 DEF Abstract!Exists, Abstract!IsA

\* The directory that a path is in, in the tree of names.
LEMMA TreeDirIs ==
  ASSUME TypeOK, CallInv, NEW p \in TreePaths
  PROVE  Abstract!IsDir(Abstract!Front(p)) <=> Parent(p) # NONE /\ kind[Parent(p)] = "dir"
<1>0. Abstract!Front(p) = Dirname(p)
  BY DEF Abstract!Front, Front, Dirname
<1>1. CASE \E n \in Names : p = <<n>>
  <2>1. Dirname(p) = <<>> /\ Parent(p) = Root
    BY <1>1, PathIs, AtOne
  <2>. QED  BY <1>0, <2>1 DEF Abstract!IsDir, TypeOK
<1>2. CASE \E n, m \in Names : p = <<n, m>>
  <2>1. PICK n, m \in Names : p = <<n, m>>
    BY <1>2
  <2>2. Dirname(p) = <<n>> /\ <<n>> # <<>> /\ <<n>> \in TreePaths
    BY <2>1, DirnameIs DEF TreePaths
  <2>3. Parent(p) = At(<<n>>)
    BY <2>1, AtOne, AtTwo
  <2>4. Abstract!IsA(<<n>>, "dir") <=> At(<<n>>) # NONE /\ kind[At(<<n>>)] = "dir"
    BY <2>2, TreeIs
  <2>. QED  BY <1>0, <2>2, <2>3, <2>4 DEF Abstract!IsDir
<1>. QED  BY <1>1, <1>2 DEF TreePaths

\* The tree of names stays when what is at the paths does.
LEMMA TreeStays == ASSUME Still PROVE Tree' = Tree
<1>1. {p \in TreePaths : At(p) # NONE}' = {p \in TreePaths : At(p) # NONE}
  BY DEF Still
<1>2. ASSUME NEW p \in TreePaths, At(p) # NONE PROVE (kind[At(p)])' = kind[At(p)]
  BY <1>2 DEF Still
<1>. QED  BY <1>1, <1>2 DEF Tree, Still

\* What dir_add and dir_remove do to it.
LEMMA TreeChanges ==
  ASSUME TypeOK, CallInv, TypeOK', CallInv', NEW q \in TreePaths, NEW after \in Inums \cup {NONE}, kind' = kind,
         NEW k, after # NONE => kind[after] = k,
         \A p \in TreePaths : At(p)' = IF p = q THEN after ELSE At(p)
  PROVE  /\ after # NONE => Tree' = [p \in DOMAIN Tree \cup {q} |-> IF p = q THEN k ELSE Tree[p]]
         /\ after = NONE => Tree' = [p \in DOMAIN Tree \ {q} |-> Tree[p]]
<1>1. DOMAIN Tree = {p \in TreePaths : At(p) # NONE}
  BY DEF Tree
<1>2. Tree' = [p \in {p \in TreePaths : At(p)' # NONE} |-> kind[At(p)']]
  BY DEF Tree
<1>3. \A p \in DOMAIN Tree : Tree[p] = kind[At(p)]
  BY DEF Tree
<1>4. CASE after # NONE
  <2>1. {p \in TreePaths : At(p)' # NONE} = DOMAIN Tree \cup {q}
    BY <1>1, <1>4
  <2>2. ASSUME NEW p \in DOMAIN Tree \cup {q} PROVE kind[At(p)'] = IF p = q THEN k ELSE Tree[p]
    <3>1. CASE p = q
      BY <1>1, <1>4, <3>1
    <3>2. CASE p # q
      BY <1>1, <1>3, <2>2, <3>2
    <3>. QED  BY <3>1, <3>2
  <2>. QED  BY <1>2, <1>4, <2>1, <2>2
<1>5. CASE after = NONE
  <2>1. {p \in TreePaths : At(p)' # NONE} = DOMAIN Tree \ {q}
    BY <1>1, <1>5
  <2>2. ASSUME NEW p \in DOMAIN Tree \ {q} PROVE kind[At(p)'] = Tree[p]
    BY <1>1, <1>3
  <2>. QED  BY <1>2, <1>5, <2>1, <2>2
<1>. QED  BY <1>4, <1>5

\* What is beneath a path.
LEMMA BeneathIs ==
  ASSUME TypeOK, CallInv, TreeInv, NEW p \in TreePaths, At(p) # NONE
  PROVE  Abstract!HasChild(p) <=> entries[At(p)] # {}
<1>0. At(p) \in Inums \ {Root} /\ Parent(p) \in Inums /\ <<Last(p), At(p)>> \in entries[Parent(p)]
  BY AtIs
<1>1. ASSUME Abstract!HasChild(p) PROVE entries[At(p)] # {}
  <2>1. PICK q \in TreePaths : At(q) # NONE /\ q # p /\ IsPrefix(p, q)
    BY <1>1 DEF Abstract!HasChild, Abstract!IsPrefix, IsPrefix, Tree
  <2>2. PICK n, m \in Names : p = <<n>> /\ q = <<n, m>>
    BY <2>1, PrefixIs
  <2>3. Parent(q) = At(p)
    BY <2>2, AtOne, AtTwo
  <2>4. At(q) \in Inums /\ <<Last(q), At(q)>> \in entries[Parent(q)]
    BY <2>1, AtIs
  <2>. QED  BY <2>3, <2>4
<1>2. ASSUME entries[At(p)] # {} PROVE Abstract!HasChild(p)
  <2>1. PICK e \in entries[At(p)] : e \in Names \X Inums
    BY <1>0, <1>2 DEF TypeOK
  <2>2. PICK g \in entries[Root] : g[2] = At(p)
    BY <1>0, <1>2 DEF TreeInv, Shallow
  <2>3. Parent(p) = Root
    <3>1. <<Last(p), At(p)>>[2] = g[2]
      BY <2>2
    <3>. QED  BY <1>0, <3>1 DEF TreeInv, OneName
  <2>4. PICK n \in Names : p = <<n>>
    BY <2>3, ParentIs
  <2>5. PICK m \in Names, i \in Inums : e = <<m, i>>
    BY <2>1
  <2>6. PICK q \in TreePaths : q = <<n, m>>
    BY DEF TreePaths
  <2>7. Parent(q) = At(p) /\ Last(q) = m /\ q # p
    BY <2>4, <2>6, AtOne, AtTwo DEF Last
  <2>8. At(q) = i /\ i # NONE
    BY <1>0, <2>1, <2>5, <2>7, AtIs
  <2>9. IsPrefix(p, q)
    BY <2>4, <2>6, <2>7, PrefixIs
  <2>10. q \in DOMAIN Tree
    BY <2>8 DEF Tree
  <2>. QED  BY <2>7, <2>9, <2>10 DEF Abstract!HasChild, Abstract!IsPrefix, IsPrefix
<1>. QED  BY <1>1, <1>2

\* A request that has not acted, and is to.
LEMMA ActIs ==
  ASSUME CallInv, NEW t \in AtWork, pc[t] \notin {"free", "reply"}, NEW a, ans' = [ans EXCEPT ![t] = a]
  PROVE  Abstract!Act(t, a)
BY RequestIs DEF Abstract!Act, CallInv, CallOK, AtWork

\* The steps that end a request with an error refuse it for a reason.
LEMMA Refuses ==
  ASSUME TypeOK, CallInv, TypeOK', CallInv', TreeInv, PlaceInv, Sheltered', crossed = {}, crossed' = {},
         NEW t \in AtWork, pc[t] \notin {"free", "reply"}, UNCHANGED <<inodeVars, req>>,
         NEW a, ans' = [ans EXCEPT ![t] = a],
         \/ a = "ENOENT" /\ IF Makes(t) THEN Parent(Path(t)) = NONE \/ kind[Parent(Path(t))] # "dir"
                            ELSE At(Path(t)) = NONE
         \/ a = "EEXIST" /\ Makes(t) /\ At(Path(t)) # NONE
         \/ a = "EISDIR" /\ Op(t) \in {"unlink", "open"} /\ At(Path(t)) # NONE /\ kind[At(Path(t))] = "dir"
         \/ a = "ENOTDIR" /\ Op(t) \in {"rmdir", "readdir"} /\ At(Path(t)) # NONE /\ kind[At(Path(t))] # "dir"
         \/ a = "ENOTEMPTY" /\ Op(t) = "rmdir" /\ At(Path(t)) # NONE /\ entries[At(Path(t))] # {}
         \/ a \in {"EIO", "ENOSPC"}
  PROVE  Abstract!Refuse(t)
<1>1. Abstract!Act(t, a)
  BY ActIs
<1>2. UNCHANGED <<Tree, req, crossed # {}>>
  BY StillSame, TreeStays
<1>3. Path(t) \in TreePaths /\ req[t].path = Path(t) /\ req[t].op = Op(t)
  BY RequestIs DEF CallInv, CallOK, AtWork, Path, Op
<1>4. CASE a = "ENOENT"
  <2>1. CASE Makes(t)
    <3>1. ~Abstract!IsDir(Abstract!Front(Path(t)))
      BY <1>3, <1>4, <2>1, TreeDirIs
    <3>. QED  BY <1>1, <1>2, <1>3, <1>4, <2>1, <3>1, Zenon DEF Abstract!Refuse, Makes
  <2>2. CASE ~Makes(t)
    <3>1. ~Abstract!Exists(Path(t))
      BY <1>3, <1>4, <2>2, TreeIs
    <3>. QED  BY <1>1, <1>2, <1>3, <1>4, <2>2, <3>1, Zenon DEF Abstract!Refuse, Makes
  <2>. QED  BY <2>1, <2>2
<1>5. CASE a = "EEXIST"
  <2>1. Abstract!Exists(Path(t)) /\ Makes(t)
    BY <1>3, <1>5, TreeIs
  <2>. QED  BY <1>1, <1>2, <1>3, <1>5, <2>1, Zenon DEF Abstract!Refuse, Makes
<1>6. CASE a = "EISDIR"
  <2>1. Abstract!IsA(Path(t), "dir") /\ Op(t) \in {"unlink", "open"}
    BY <1>3, <1>6, TreeIs
  <2>. QED  BY <1>1, <1>2, <1>3, <1>6, <2>1, Zenon DEF Abstract!Refuse
<1>7. CASE a = "ENOTDIR"
  <2>0. At(Path(t)) # NONE /\ kind[At(Path(t))] # "dir" /\ Op(t) \in {"rmdir", "readdir"}
    BY <1>7
  <2>1. kind[At(Path(t))] = "file"
    BY <1>3, <2>0, AtNamed DEF TypeOK
  <2>2. Abstract!IsA(Path(t), "file")
    BY <1>3, <2>0, <2>1, TreeIs
  <2>. QED  BY <1>1, <1>2, <1>3, <1>7, <2>0, <2>2, Zenon DEF Abstract!Refuse
<1>8. CASE a = "ENOTEMPTY"
  <2>1. Abstract!HasChild(Path(t)) /\ Op(t) = "rmdir"
    BY <1>3, <1>8, BeneathIs
  <2>. QED  BY <1>1, <1>2, <1>3, <1>8, <2>1, Zenon DEF Abstract!Refuse
<1>9. CASE a = "EIO"
  BY <1>1, <1>2, <1>9, Zenon DEF Abstract!Refuse
<1>10. CASE a = "ENOSPC"
  BY <1>1, <1>2, <1>10, Zenon DEF Abstract!Refuse
<1>. QED  BY <1>4, <1>5, <1>6, <1>7, <1>8, <1>9, <1>10

\* The walk,
LEMMA WalkActs ==
  ASSUME TypeOK, CallInv, TypeOK', CallInv', TreeInv, PlaceInv, Sheltered', crossed = {}, crossed' = {},
         NEW t \in Threads, Walk(t) \/ Find(t)
  PROVE  Abstract!Refuse(t) \/ UNCHANGED <<Tree, req, ans>>
<1>1. /\ UNCHANGED <<inodeVars, req>> /\ t \in AtWork /\ pc[t] \in {"walk", "find"}
      /\ (pc'[t] = "reply" /\ \E a \in Errors : ans' = [ans EXCEPT ![t] = a]) \/ ans' = ans
  BY DEF Walk, Find, AtWork, Answer, Goto, CallInv, Errors
<1>2. CASE ans' = ans
  BY <1>1, <1>2, StillSame, TreeStays
<1>3. CASE ans' # ans
  <2>1. PICK a \in Errors : pc'[t] = "reply" /\ ans' = [ans EXCEPT ![t] = a]
    BY <1>1, <1>3
  <2>2. ans'[t] = a
    BY <2>1 DEF CallInv
  <2>3. Path(t) \in TreePaths
    BY <1>1, RequestIs DEF CallInv, CallOK, AtWork, Path
  <2>4. CASE Walk(t)
    <3>1. a = "ENOENT" /\ (Parent(Path(t)) = NONE \/ kind[Parent(Path(t))] # "dir")
      BY <2>1, <2>2, <2>4, WalkPlaces
    <3>2. At(Path(t)) = NONE
      BY <2>3, <3>1, AtIs DEF TreeInv, Shallow
    <3>. QED  BY <1>1, <2>1, <3>1, <3>2, Refuses
  <2>5. CASE Find(t)
    <3>1. a = "ENOENT" /\ At(Path(t)) = NONE /\ ~Makes(t)
      BY <2>1, <2>2, <2>5, FindPlaces DEF Find, CallInv, CallOK, Makes, Readers
    <3>. QED  BY <1>1, <2>1, <3>1, Refuses
  <2>. QED  BY <2>4, <2>5
<1>. QED  BY <1>2, <1>3

\* what looks only,
LEMMA ReadActs ==
  ASSUME TypeOK, CallInv, TypeOK', CallInv', TreeInv, PlaceInv, Sheltered', crossed = {}, crossed' = {},
         NEW t \in Threads, Read(t)
  PROVE  Abstract!Succeed(t) \/ Abstract!Refuse(t)
<1>1. /\ UNCHANGED <<inodeVars, req>> /\ t \in AtWork /\ pc[t] = "look"
  BY DEF Read, Getattr, Open, Readdir, Look, AtWork
<1>2. /\ At(Path(t)) = tgt[t] /\ tgt[t] # NONE /\ Path(t) \in TreePaths
  BY <1>1, RequestIs DEF PlaceInv, PlaceOK, CallInv, CallOK, AtWork, Path
<1>3. kind[tgt[t]] # "dir" => kind[tgt[t]] = "file"
  BY <1>2, AtNamed DEF TypeOK
<1>4. UNCHANGED <<Tree, req, crossed # {}>>
  BY <1>1, StillSame, TreeStays
<1>5. req[t].path = Path(t) /\ req[t].op = Op(t)
  BY DEF Path, Op
<1>6. ASSUME ans' = [ans EXCEPT ![t] = "ok"],
             \/ Op(t) = "open" /\ kind[tgt[t]] = "file"
             \/ Op(t) = "readdir" /\ kind[tgt[t]] = "dir"
             \/ Op(t) = "getattr"
      PROVE  Abstract!Succeed(t)
  <2>1. Abstract!Act(t, "ok")
    BY <1>1, <1>6, ActIs
  <2>2. /\ Abstract!Exists(Path(t))
        /\ Op(t) = "open" => Abstract!IsA(Path(t), "file")
        /\ Op(t) = "readdir" => Abstract!IsA(Path(t), "dir")
    BY <1>2, <1>6, TreeIs
  <2>3. CASE Op(t) = "open"
    BY <1>4, <1>5, <2>1, <2>2, <2>3 DEF Abstract!Succeed
  <2>4. CASE Op(t) = "readdir"
    BY <1>4, <1>5, <2>1, <2>2, <2>4 DEF Abstract!Succeed
  <2>5. CASE Op(t) = "getattr"
    BY <1>4, <1>5, <2>1, <2>2, <2>5 DEF Abstract!Succeed
  <2>. QED  BY <1>6, <2>3, <2>4, <2>5
<1>7. CASE Getattr(t)
  BY <1>6, <1>7 DEF Getattr, Look, Answer
<1>8. CASE Open(t)
  <2>1. CASE kind[tgt[t]] = "file"
    BY <1>6, <1>8, <2>1 DEF Open, Look, Answer
  <2>2. CASE kind[tgt[t]] # "file"
    <3>1. ans' = [ans EXCEPT ![t] = "EISDIR"] /\ Op(t) = "open" /\ kind[tgt[t]] = "dir"
      BY <1>3, <1>8, <2>2 DEF Open, Look, Answer
    <3>. QED  BY <1>1, <1>2, <3>1, Refuses
  <2>. QED  BY <2>1, <2>2
<1>9. CASE Readdir(t)
  <2>1. CASE kind[tgt[t]] = "dir"
    BY <1>6, <1>9, <2>1 DEF Readdir, Look, Answer
  <2>2. CASE kind[tgt[t]] # "dir"
    <3>1. ans' = [ans EXCEPT ![t] = "ENOTDIR"] /\ Op(t) = "readdir"
      BY <1>9, <2>2 DEF Readdir, Look, Answer
    <3>. QED  BY <1>1, <1>2, <2>2, <3>1, Refuses
  <2>. QED  BY <2>1, <2>2
<1>. QED  BY <1>7, <1>8, <1>9 DEF Read

\* dir_add
LEMMA AddActs ==
  ASSUME TypeOK, CallInv, TypeOK', CallInv', TreeInv, PlaceInv, crossed = {}, crossed' = {},
         NEW t \in Threads, Add(t)
  PROVE  Abstract!Succeed(t)
<1>1. /\ t \in AtWork /\ Past(t) /\ Makes(t) /\ PlaceOK(t) /\ pc[t] = "add" /\ req' = req
      /\ ans' = [ans EXCEPT ![t] = "ok"] /\ tgt[t] \in Inums
  BY DEF Add, Answer, AtWork, Past, PlaceInv, CallInv, CallOK
<1>2. /\ kind' = kind /\ At(Path(t)) = NONE
      /\ \A p \in TreePaths : At(p)' = IF p = Path(t) THEN tgt[t] ELSE At(p)
  BY AddTree
<1>3. /\ Path(t) \in TreePaths /\ Parent(Path(t)) # NONE /\ kind[Parent(Path(t))] = "dir"
  BY <1>1, DirIs
<1>4. PICK p \in TreePaths : p = Path(t)
  BY <1>3
<1>5. PICK k : k = kind[tgt[t]]
  OBVIOUS
<1>6. Tree' = [q \in DOMAIN Tree \cup {p} |-> IF q = p THEN k ELSE Tree[q]]
  <2>1. PICK after \in Inums : after = tgt[t] /\ after # NONE /\ kind[after] = k
    BY <1>1, <1>5
  <2>2. \A q \in TreePaths : At(q)' = IF q = p THEN after ELSE At(q)
    BY <1>2, <1>4, <2>1
  <2>3. after \in Inums \cup {NONE} /\ kind' = kind /\ (after # NONE => kind[after] = k)
    BY <1>2, <2>1
  <2>4. after # NONE => Tree' = [q \in DOMAIN Tree \cup {p} |-> IF q = p THEN k ELSE Tree[q]]
    BY <2>2, <2>3, TreeChanges
  <2>. QED  BY <2>1, <2>4
<1>7. Abstract!Make(t, p, k)
  <2>1. Abstract!IsDir(Abstract!Front(p)) /\ ~Abstract!Exists(p)
    BY <1>2, <1>3, <1>4, TreeDirIs, TreeIs
  <2>. QED  BY <1>6, <2>1 DEF Abstract!Make
<1>8. Abstract!Act(t, "ok")
  BY <1>1, ActIs
<1>9. /\ (Op(t) = "create" /\ k = "file") \/ (Op(t) = "mkdir" /\ k = "dir")
      /\ req[t].path = p /\ req[t].op = Op(t)
  BY <1>1, <1>4, <1>5 DEF PlaceOK, Makes, Path, Op
<1>. QED  BY <1>1, <1>7, <1>8, <1>9 DEF Abstract!Succeed

\* and dir_remove act as the tree of names does,
LEMMA UnnameActs ==
  ASSUME TypeOK, CallInv, TypeOK', CallInv', TreeInv, PlaceInv, crossed = {}, crossed' = {},
         NEW t \in Threads, Unname(t)
  PROVE  Abstract!Succeed(t)
<1>1. /\ t \in AtWork /\ Past(t) /\ Removes(req[t]) /\ PlaceOK(t) /\ pc[t] = "remove" /\ req' = req
      /\ ans' = [ans EXCEPT ![t] = "ok"] /\ tgt[t] \in Inums
  BY DEF Unname, AtWork, Past, PlaceInv, CallInv, CallOK
<1>2. /\ kind' = kind
      /\ \A p \in TreePaths : At(p)' = IF p = Path(t) THEN NONE ELSE At(p)
  BY UnnameTree
<1>3. Path(t) \in TreePaths /\ At(Path(t)) = tgt[t] /\ entries[tgt[t]] = {} /\ (Op(t) = "rmdir" <=> kind[tgt[t]] = "dir")
  BY <1>1, DirIs DEF PlaceOK
<1>4. PICK p \in TreePaths : p = Path(t)
  BY <1>3
<1>5. PICK k : k = kind[tgt[t]]
  OBVIOUS
<1>6. Tree' = [q \in DOMAIN Tree \ {p} |-> Tree[q]]
  <2>1. \A q \in TreePaths : At(q)' = IF q = p THEN NONE ELSE At(q)
    BY <1>2, <1>4
  <2>. QED  BY <1>2, <2>1, TreeChanges
<1>7. Abstract!Unname(t, p, k)
  <2>1. Abstract!IsA(p, k) /\ ~Abstract!HasChild(p)
    BY <1>1, <1>3, <1>4, <1>5, TreeIs, BeneathIs
  <2>. QED  BY <1>6, <2>1 DEF Abstract!Unname, Abstract!Restrict, Restrict
<1>8. Abstract!Act(t, "ok")
  BY <1>1, ActIs
<1>9. /\ (Op(t) = "unlink" /\ k = "file") \/ (Op(t) = "rmdir" /\ k = "dir")
      /\ req[t].path = p /\ req[t].op = Op(t)
  <2>1. kind[tgt[t]] \in {"file", "dir"}
    BY <1>1, <1>3, AtNamed DEF TypeOK
  <2>. QED  BY <1>1, <1>3, <1>4, <1>5, <2>1 DEF Removes, Path, Op
<1>. QED  BY <1>1, <1>7, <1>8, <1>9 DEF Abstract!Succeed

\* what makes an inode,
LEMMA MakeActs ==
  ASSUME TypeOK, CallInv, TypeOK', CallInv', TreeInv, PlaceInv, Sheltered', crossed = {}, crossed' = {},
         NEW t \in Threads, Make(t) \/ MakeUnread(t) \/ MakeFails(t)
  PROVE  Abstract!Refuse(t) \/ UNCHANGED <<Tree, req, ans>>
<1>1. pc[t] = "lock" /\ Makes(t) /\ req' = req
  BY DEF Make, MakeUnread, MakeFails
<1>2. t \in AtWork /\ Lookup(dir[t], nm[t]) = At(Path(t))
  BY <1>1, LockIs
<1>3. CASE Alloc(t) /\ ans' = ans
  BY <1>1, <1>3, StillAlloc, TreeStays
<1>4. CASE ~(Alloc(t) /\ ans' = ans)
  <2>1. PICK a : /\ ans' = [ans EXCEPT ![t] = a] /\ UNCHANGED inodeVars
                 /\ (a = "EEXIST" /\ At(Path(t)) # NONE) \/ a = "ENOSPC"
    BY <1>2, <1>4 DEF Make, MakeUnread, MakeFails, Answer
  <2>. QED  BY <1>1, <1>2, <2>1, Refuses
<1>. QED  BY <1>3, <1>4

\* the checks before an inode is removed,
LEMMA CheckActs ==
  ASSUME TypeOK, CallInv, TypeOK', CallInv', TreeInv, PlaceInv, Sheltered', crossed = {}, crossed' = {},
         NEW t \in Threads, Check(t)
  PROVE  Abstract!Refuse(t) \/ UNCHANGED <<Tree, req, ans>>
<1>1. pc[t] = "lock" /\ ~Makes(t) /\ UNCHANGED <<inodeVars, req>>
  BY DEF Check
<1>2. t \in AtWork /\ Lookup(dir[t], nm[t]) = At(Path(t)) /\ Path(t) \in TreePaths
  BY <1>1, LockIs
<1>3. CASE ans' = ans
  BY <1>1, <1>3, StillSame, TreeStays
<1>4. CASE ans' # ans
  <2>. DEFINE i == At(Path(t))
  <2>1. PICK a :
          /\ ans' = [ans EXCEPT ![t] = a]
          /\ \/ a = "ENOENT" /\ i = NONE
             \/ a = "EISDIR" /\ i # NONE /\ Op(t) = "unlink" /\ kind[i] = "dir"
             \/ a = "ENOTDIR" /\ i # NONE /\ Op(t) = "rmdir" /\ kind[i] # "dir"
             \/ a = "ENOTEMPTY" /\ i # NONE /\ Op(t) = "rmdir" /\ kind[i] = "dir" /\ nlink[i] > 2
    BY <1>2, <1>4 DEF Check, Answer
  <2>2. i # NONE /\ kind[i] = "dir" /\ nlink[i] > 2 => entries[i] # {}
    <3>. SUFFICES ASSUME i # NONE, kind[i] = "dir", nlink[i] > 2, entries[i] = {} PROVE FALSE
      OBVIOUS
    <3>1. i \in Inums
      BY <1>2, AtIs
    <3>2. SubDirs(i) = {}
      BY DEF SubDirs
    <3>3. nlink[i] = 2 + Cardinality(SubDirs(i)) /\ Cardinality(SubDirs(i)) = 0
      BY <3>1, <3>2, FS_EmptySet DEF TreeInv, Counted
    <3>. QED  BY <3>3
  <2>. QED  BY <1>1, <1>2, <2>1, <2>2, Refuses
<1>. QED  BY <1>3, <1>4

\* and what fails.
LEMMA FailActs ==
  ASSUME TypeOK, CallInv, TypeOK', CallInv', TreeInv, PlaceInv, Sheltered', crossed = {}, crossed' = {},
         NEW t \in Threads, AddFails(t) \/ UnnameFails(t)
  PROVE  Abstract!Refuse(t)
<1>1. CASE AddFails(t)
  <2>1. t \in AtWork /\ pc[t] = "add" /\ ans' = [ans EXCEPT ![t] = "EIO"] /\ req' = req
    BY <1>1 DEF AddFails, AddRefused, AtWork, Answer
  <2>2. Tree' = Tree
    BY <1>1, StillGiveBack, TreeStays
  <2>3. Abstract!Act(t, "EIO")
    BY <2>1, ActIs
  <2>. QED  BY <2>1, <2>2, <2>3 DEF Abstract!Refuse
<1>2. CASE UnnameFails(t)
  <2>1. /\ t \in AtWork /\ pc[t] = "remove" /\ ans' = [ans EXCEPT ![t] = "EIO"]
        /\ UNCHANGED <<inodeVars, req>>
    BY <1>2 DEF UnnameFails, AtWork, Answer
  <2>. QED  BY <2>1, Refuses
<1>. QED  BY <1>1, <1>2

\* The steps by which a request comes and goes, and those of no request.
LEMMA CallActs ==
  ASSUME TypeOK, CallInv, NEW t \in Threads, crossed = {}, crossed' = {}
  PROVE  /\ Ask(t) => Abstract!Ask(t)
         /\ Reply(t) => Abstract!Reply(t)
<1>1. CASE Ask(t)
  <2>1. req[t] = <<>> /\ ans' = ans /\ \E r \in Requests : req' = [req EXCEPT ![t] = r]
    BY <1>1 DEF Ask, CallInv, CallOK
  <2>2. Tree' = Tree
    BY <1>1, StillSame, TreeStays DEF Ask
  <2>3. Abstract!Ask(t)
    BY <2>1, <2>2 DEF Abstract!Ask
  <2>. QED  BY <1>1, <2>3 DEF Ask, Reply
<1>2. CASE Reply(t)
  <2>1. ans[t] # "none" /\ req' = [req EXCEPT ![t] = <<>>] /\ ans' = [ans EXCEPT ![t] = "none"]
    BY <1>2 DEF Reply, CallInv, CallOK
  <2>2. Tree' = Tree
    BY <1>2, StillSame, TreeStays DEF Reply
  <2>3. Abstract!Reply(t)
    BY <2>1, <2>2 DEF Abstract!Reply
  <2>. QED  BY <1>2, <2>3 DEF Ask, Reply
<1>. QED  BY <1>1, <1>2

\* Every step is one of Namespace, or changes nothing of it.
LEMMA ActsStep == ImageInv /\ ImageInv' /\ [Next]_vars => [Abstract!Next]_Abstract!vars
<1>. SUFFICES ASSUME ImageInv, ImageInv', [Next]_vars PROVE [Abstract!Next]_Abstract!vars
  OBVIOUS
<1>1. CASE crossed' # {}
  BY <1>1 DEF Abstract!Next
<1>2. CASE crossed' = {}
  <2>1. /\ TypeOK /\ CallInv /\ TypeOK' /\ CallInv' /\ Sheltered' /\ crossed = {} /\ TreeInv /\ PlaceInv
    BY <1>2, CrossedGrows DEF ImageInv, Sheltered, Within
  <2>2. ASSUME UNCHANGED <<Tree, req, ans>> PROVE [Abstract!Next]_Abstract!vars
    BY <1>2, <2>1, <2>2 DEF Abstract!vars
  <2>3. ASSUME NEW t \in Threads, Abstract!Ask(t) \/ Abstract!Succeed(t) \/ Abstract!Refuse(t) \/ Abstract!Reply(t)
        PROVE  [Abstract!Next]_Abstract!vars
    BY <2>3 DEF Abstract!Next
  <2>4. ASSUME NEW t \in Threads, Ask(t) \/ Reply(t) PROVE [Abstract!Next]_Abstract!vars
    BY <1>2, <2>1, <2>3, <2>4, CallActs
  <2>5. ASSUME NEW t \in Threads, Resolve(t) PROVE [Abstract!Next]_Abstract!vars
    <3>1. CASE Basename(t) \/ CopyName(t)
      BY <2>2, <3>1, StillSame, TreeStays DEF Basename, CopyName
    <3>2. CASE Walk(t) \/ Find(t)
      BY <1>2, <2>1, <2>2, <2>3, <3>2, WalkActs
    <3>3. CASE WalkFails(t)
      BY <1>2, <3>3 DEF WalkFails, Cross
    <3>. QED  BY <2>5, <3>1, <3>2, <3>3 DEF Resolve
  <2>6. ASSUME NEW t \in Threads, Read(t) PROVE [Abstract!Next]_Abstract!vars
    BY <1>2, <2>1, <2>3, <2>6, ReadActs
  <2>7. ASSUME NEW t \in Threads, Change(t) PROVE [Abstract!Next]_Abstract!vars
    <3>1. CASE Make(t) \/ MakeUnread(t) \/ MakeFails(t)
      BY <1>2, <2>1, <2>2, <2>3, <3>1, MakeActs
    <3>2. CASE Add(t)
      BY <1>2, <2>1, <2>3, <3>2, AddActs
    <3>3. CASE AddFails(t) \/ UnnameFails(t)
      BY <1>2, <2>1, <2>3, <3>3, FailActs
    <3>4. CASE Check(t)
      BY <1>2, <2>1, <2>2, <2>3, <3>4, CheckActs
    <3>5. CASE Unname(t)
      BY <1>2, <2>1, <2>3, <3>5, UnnameActs
    <3>6. CASE Free(t)
      <4>1. req' = req /\ ans' = ans
        BY <3>6 DEF Free
      <4>2. Tree' = Tree
        BY <2>1, <3>6, StillGiveBack, TreeStays
      <4>. QED  BY <2>2, <4>1, <4>2
    <3>. QED  BY <2>7, <3>1, <3>2, <3>3, <3>4, <3>5, <3>6 DEF Change
  <2>8. CASE Release \/ UNCHANGED vars
    BY <2>2, <2>8, StillSame, TreeStays DEF Release, vars
  <2>. QED  BY <2>4, <2>5, <2>6, <2>7, <2>8 DEF Next, Finished
<1>. QED  BY <1>1, <1>2

\* Within the limits the requests implement Namespace: each acts at one moment
\* between its call and its reply, on the path it was given, and answers by the
\* tree of that moment.
THEOREM Implements == Spec => ActsOnceAsNamed
<1>1. Init => Abstract!Init
  BY DEF Init, Abstract!Init
<1>. QED  BY <1>1, ImageInvariant, ActsStep, PTL DEF Spec, ActsOnceAsNamed, Abstract!Spec

=============================================================================
