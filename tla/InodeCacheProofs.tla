-------------------------- MODULE InodeCacheProofs --------------------------
(***************************************************************************)
(* Theorems about InodeCache, for every number of threads, entries, hash   *)
(* chains and inodes.                                                      *)
(***************************************************************************)
EXTENDS InodeCache, FiniteSetTheorems, SequenceTheorems, Iteration, TLAPS

USE InodeCacheAssumption

(***************************************************************************)
(* Types, and what the program counter says of a thread's locals.          *)
(***************************************************************************)

Ops   == {"use", "alloc", "free"}
Counted == {"ops", "faults"}

EntryTypes ==
  /\ inum \in [Entries -> Inums] /\ ref \in [Entries -> Int]
  /\ valid \subseteq Entries /\ dirty \subseteq Entries
ContentTypes ==
  copy \in [Entries -> 0 .. MaxOps] /\ table \in [Inums -> 0 .. MaxOps] /\ latest \in [Inums -> 0 .. MaxOps]
ListTypes ==
  head \in [Buckets -> Entries \cup {NULL}] /\ hnext \in [Entries -> Entries \cup {NULL}]
LruTypes  ==
  lru \in [Entries -> Entries] /\ \A e \in Entries : \E n \in Entries : lru[n] = e
BitTypes  == bits \subseteq Inums /\ stored \subseteq Inums /\ live \subseteq Inums /\ free \in Int
PcTypes ==
  /\ pc \in [Threads -> Pcs] /\ why \in [Threads -> {"own", "evict", "all"}]
  /\ op \in [Threads -> {"none", "use", "alloc", "free", "all"}]
LocalTypes ==
  /\ want \in [Threads -> Inums] /\ ent \in [Threads -> 0 .. PoolSize + 1]
  /\ ver \in [Threads -> 0 .. MaxOps] /\ image = [u \in Threads |-> image[u]]
GhostTypes == crossed \subseteq Limits /\ used \in [Counted -> Nat]

TypeInv ==
  /\ EntryTypes /\ ContentTypes /\ ListTypes /\ LruTypes /\ BitTypes
  /\ PcTypes /\ LocalTypes /\ GhostTypes

Local(t) ==
  /\ pc[t] = "idle" => op[t] = "none" /\ ent[t] = NULL
  /\ pc[t] = "find" => op[t] \in Ops /\ ent[t] = NULL
  /\ pc[t] \in {"claim", "load", "reload", "use", "put", "drop"} => op[t] \in Ops /\ ent[t] \in Entries
  /\ pc[t] \in SyncPcs =>
       /\ ent[t] \in Entries
       /\ why[t] = "own" => op[t] \in {"use", "alloc"}
       /\ why[t] = "evict" => op[t] \in Ops
       /\ why[t] = "all" => op[t] = "all"
  /\ pc[t] = "write" => image[t] \in [Inums -> 0 .. MaxOps]
  /\ pc[t] = "rollback" => op[t] = "alloc" /\ ent[t] \in Entries \cup {NULL}
  /\ pc[t] \in {"count", "bitmap"} => \/ op[t] = "alloc" /\ ent[t] \in Entries
                                      \/ op[t] = "free" /\ ent[t] = NULL
  /\ pc[t] = "unbit" => op[t] = "free" /\ ent[t] = NULL
  /\ pc[t] = "all" => op[t] = "all" /\ ent[t] \in 1 .. PoolSize + 1

\* What a step of t leaves to the others.
Beside(t) ==
  \A u \in Threads \ {t} : /\ pc'[u] = pc[u] /\ op'[u] = op[u] /\ want'[u] = want[u] /\ ent'[u] = ent[u]
                           /\ why'[u] = why[u] /\ ver'[u] = ver[u] /\ image'[u] = image[u]

Step(t) == Calls(t) \/ Get(t) \/ Work(t) \/ Sync(t) \/ Bits(t) \/ Faults(t)

\* inode_sync returns to one of four places.
SyncedBy(t, ok) ==
  /\ image' = [image EXCEPT ![t] = <<>>]
  /\ \/ why[t] = "own" /\ op[t] = "use" /\ Goto(t, "put") /\ ent' = ent
     \/ why[t] = "own" /\ op[t] = "alloc" /\ Goto(t, IF ok THEN "count" ELSE "rollback") /\ ent' = ent
     \/ why[t] = "evict" /\ Goto(t, "claim") /\ ent' = ent
     \/ why[t] = "all" /\ Goto(t, "all") /\ ent' = [ent EXCEPT ![t] = @ + 1]

\* The four returns of inode_sync, spelled out.
LEMMA SyncedCases ==
  ASSUME TypeInv, NEW t \in Threads, Local(t), pc[t] \in SyncPcs, NEW ok \in BOOLEAN, Synced(t, ok)
  PROVE  SyncedBy(t, ok)
<1>1. why[t] \in {"own", "evict", "all"} /\ (why[t] = "own" => op[t] \in {"use", "alloc"})
  BY DEF TypeInv, PcTypes, Local
<1>2. CASE why[t] = "own" /\ op[t] = "use"
  BY <1>2 DEF Synced, SyncedBy
<1>3. CASE why[t] = "own" /\ op[t] = "alloc"
  BY <1>3 DEF Synced, SyncedBy
<1>4. CASE why[t] = "evict"
  BY <1>4 DEF Synced, SyncedBy
<1>5. CASE why[t] = "all"
  BY <1>5 DEF Synced, SyncedBy
<1>. QED  BY <1>1, <1>2, <1>3, <1>4, <1>5

\* inode_put gives the entry back, and goes on after a free or a failed alloc.
LEMMA PutCases ==
  ASSUME NEW t \in Threads, Put(t)
  PROVE  /\ ent' = [ent EXCEPT ![t] = NULL]
         /\ \/ pc[t] = "put" /\ op[t] = "free" /\ Goto(t, "unbit") /\ UNCHANGED callVars
            \/ pc[t] = "drop" /\ op[t] = "alloc" /\ Goto(t, "rollback") /\ UNCHANGED callVars
            \/ /\ (pc[t] = "put" /\ op[t] # "free") \/ (pc[t] = "drop" /\ op[t] # "alloc")
               /\ Return(t)
<1>1. CASE pc[t] = "put" /\ op[t] = "free"
  BY <1>1 DEF Put
<1>2. CASE pc[t] = "drop" /\ op[t] = "alloc"
  BY <1>2 DEF Put
<1>3. CASE ~(pc[t] = "put" /\ op[t] = "free") /\ ~(pc[t] = "drop" /\ op[t] = "alloc")
  BY <1>3 DEF Put
<1>. QED  BY <1>1, <1>2, <1>3

\* A thread's step is not one of another.
LEMMA StepBeside ==
  ASSUME TypeInv, NEW t \in Threads, Local(t), Step(t)
  PROVE  Beside(t)
<1>. USE DEF TypeInv, PcTypes, LocalTypes, Beside
<1>1. CASE Calls(t)
  BY <1>1 DEF Calls, AllocBit, SyncAll, UseBegin, FreeBegin, Call, Goto
<1>2. CASE Get(t)
  BY <1>2 DEF Get, GetHit, GetVictim, GetFull, Claim, Load, Reload, Goto, Return, callVars
<1>3. CASE Put(t)
  BY <1>3, PutCases DEF Put, Goto, Return, callVars
<1>4. CASE UseQuick(t) \/ UseSync(t) \/ FreeTruncate(t)
  BY <1>4 DEF UseQuick, UseSync, FreeTruncate, Goto, callVars
<1>5. CASE SyncWrite(t) \/ ScanEntry(t) \/ ScanEnd(t)
  BY <1>5 DEF SyncWrite, ScanEntry, ScanEnd, Goto, Return, callVars
<1>6. CASE SyncRead(t) /\ ent[t] \in valid \cap dirty
  BY <1>6 DEF SyncRead, Goto, callVars
<1>7. CASE SyncClear(t) \/ SyncFault(t) \/ (SyncRead(t) /\ ent[t] \notin valid \cap dirty)
  <2>1. SyncedBy(t, TRUE) \/ SyncedBy(t, FALSE)
    BY <1>7, SyncedCases DEF SyncClear, SyncFault, SyncRead, SyncPcs
  <2>2. UNCHANGED <<op, want, ver, why>>
    BY <1>7 DEF SyncClear, SyncFault, SyncRead, callVars
  <2>. QED  BY <2>1, <2>2 DEF SyncedBy, Goto
<1>8. CASE Bits(t)
  BY <1>8 DEF Bits, Rollback, FreeBit, Count, BitmapSync, Goto, Return, callVars, bitmapVars
<1>9. CASE LoadFault(t)
  BY <1>9 DEF LoadFault, Goto, callVars
<1>. QED  BY <1>1, <1>2, <1>3, <1>4, <1>5, <1>6, <1>7, <1>8, <1>9 DEF Step, Work, Sync, Faults

\* The inodes that are named at first can be counted.
LEMMA NamedFinite ==
  IsFiniteSet(Named)
<1>1. IsFiniteSet(2 .. TotalInodes - 1)
  BY FS_Interval
<1>. QED  BY <1>1, FS_Subset

(***************************************************************************)
(* The walk along a chain.                                                 *)
(***************************************************************************)

\* What a walk is: from the head, from each entry to its next, NULL for ever.
WalkOf(b, w) ==
  /\ w \in [0 .. PoolSize -> Entries \cup {NULL}]
  /\ w[0] = head[b]
  /\ \A n \in 1 .. PoolSize : w[n] = IF w[n - 1] = NULL THEN NULL ELSE hnext[w[n - 1]]

\* Walk is such a walk.
LEMMA WalkIs ==
  ASSUME TypeInv, NEW b \in Buckets
  PROVE  WalkOf(b, Walk(b))
<1>. DEFINE T == Entries \cup {NULL}
            next == [x \in (1 .. PoolSize) \X T |-> IF x[2] = NULL THEN NULL ELSE hnext[x[2]]]
            Loop(g) == [n \in 0 .. PoolSize |->
                          IF n = 0 THEN head[b] ELSE IF g[n - 1] = NULL THEN NULL ELSE hnext[g[n - 1]]]
            w == CHOOSE g : g = Loop(g)
<1>1. head[b] \in T /\ next \in [(1 .. PoolSize) \X T -> T] /\ PoolSize \in Nat
  BY DEF TypeInv, ListTypes
<1>2. PICK f : Iterates(f, PoolSize, T, head[b], next)
  <2>. HIDE DEF T, next
  <2>. QED  BY <1>1, IterationExists
<1>3. f \in [0 .. PoolSize -> T] /\ f[0] = head[b]
      /\ \A n \in 1 .. PoolSize : f[n] = IF f[n - 1] = NULL THEN NULL ELSE hnext[f[n - 1]]
  <2>1. \A n \in 1 .. PoolSize : <<n, f[n - 1]>> \in (1 .. PoolSize) \X T
    BY <1>2 DEF Iterates
  <2>. QED  BY <1>2, <2>1 DEF Iterates
<1>4. f = Loop(f)
  BY <1>3
<1>5. w = Loop(w)
  <2>. HIDE DEF Loop
  <2>. QED  BY <1>4
<1>6. w = Walk(b)
  BY DEF Walk
<1>. HIDE DEF w
<1>7. w = [n \in 0 .. PoolSize |-> w[n]]
  BY <1>5
<1>8. \A n \in 0 .. PoolSize : w[n] = IF n = 0 THEN head[b] ELSE IF w[n - 1] = NULL THEN NULL ELSE hnext[w[n - 1]]
  BY <1>5
<1>9. w[0] = head[b] /\ \A n \in 1 .. PoolSize : w[n] = IF w[n - 1] = NULL THEN NULL ELSE hnext[w[n - 1]]
  <2>1. 0 \in 0 .. PoolSize /\ \A n \in 1 .. PoolSize : n \in 0 .. PoolSize /\ n # 0
    BY <1>1
  <2>. QED  BY <1>8, <2>1
<1>. DEFINE G == {n \in 0 .. PoolSize : w[n] \in T}
<1>10. \A n \in 0 .. PoolSize : n \in G
  <2>1. 0 \in G
    BY <1>1, <1>9
  <2>2. ASSUME NEW n \in 0 .. PoolSize - 1, n \in G PROVE n + 1 \in G
    <3>1. n + 1 \in 1 .. PoolSize /\ n + 1 - 1 = n
      OBVIOUS
    <3>2. w[n + 1] = IF w[n + 1 - 1] = NULL THEN NULL ELSE hnext[w[n + 1 - 1]]
      BY <1>9, <3>1
    <3>. QED  BY <2>2, <3>1, <3>2 DEF TypeInv, ListTypes
  <2>. HIDE DEF G
  <2>. QED  BY <1>1, <2>1, <2>2, BoundedInduction
<1>11. w \in [0 .. PoolSize -> T]
  BY <1>7, <1>10
<1>. QED  BY <1>6, <1>9, <1>11 DEF WalkOf

\* What a lookup finds is an entry of that number in the chain.
LEMMA FoundIs ==
  ASSUME TypeInv, NEW i \in Inums
  PROVE  /\ Hash(i) \in Buckets
         /\ Found(i) # NULL => Found(i) \in Chain(Hash(i)) /\ Found(i) \in Entries /\ inum[Found(i)] = i
         /\ Found(i) = NULL => \A e \in Chain(Hash(i)) : inum[e] # i
<1>. DEFINE w == Walk(Hash(i))
            hits == {n \in 0 .. PoolSize : w[n] # NULL /\ inum[w[n]] = i}
<1>1. Hash(i) \in Buckets
  BY DEF Hash, Buckets, Inums
<1>2. WalkOf(Hash(i), w)
  BY <1>1, WalkIs
<1>3. Found(i) = IF hits = {} THEN NULL ELSE w[Lowest(hits)]
  BY DEF Found
<1>4. Chain(Hash(i)) = {w[n] : n \in 0 .. PoolSize} \ {NULL}
  BY DEF Chain
<1>. HIDE DEF w
<1>5. CASE hits = {}
  BY <1>1, <1>3, <1>4, <1>5
<1>6. CASE hits # {}
  <2>1. Lowest(hits) \in hits
    <3>1. hits \in SUBSET Nat
      OBVIOUS
    <3>. HIDE DEF hits
    <3>. QED  BY <1>6, <3>1, Least DEF Lowest
  <2>2. w[Lowest(hits)] # NULL /\ inum[w[Lowest(hits)]] = i /\ Lowest(hits) \in 0 .. PoolSize
    BY <2>1
  <2>3. w[Lowest(hits)] \in Entries
    BY <1>2, <2>2 DEF WalkOf
  <2>. HIDE DEF hits
  <2>. QED  BY <1>1, <1>3, <1>4, <1>6, <2>2, <2>3
<1>. QED  BY <1>5, <1>6

(***************************************************************************)
(* Every step keeps the types and the thread's own locals.                 *)
(***************************************************************************)

\* An entry moves to the front, and each keeps its place in the list.
LEMMA ToFrontTypes ==
  ASSUME LruTypes, NEW e \in Entries, ToFront(e)
  PROVE  LruTypes'
<1>1. Place(e) \in Entries /\ lru[Place(e)] = e
  BY DEF Place, LruTypes
<1>2. \A n \in Entries : n # 1 => n - 1 \in Entries
  BY DEF Entries
<1>3. lru' \in [Entries -> Entries]
  BY <1>2 DEF ToFront, LruTypes
<1>4. ASSUME NEW x \in Entries PROVE \E n \in Entries : lru'[n] = x
  <2>1. PICK n \in Entries : lru[n] = x
    BY DEF LruTypes
  <2>2. CASE x = e
    BY <2>2 DEF ToFront, Entries
  <2>3. CASE x # e /\ n < Place(e)
    <3>1. n + 1 \in Entries /\ n + 1 <= Place(e) /\ n + 1 # 1 /\ n + 1 - 1 = n
      BY <1>1, <2>3 DEF Entries
    <3>. DEFINE m == n + 1
    <3>2. m \in Entries /\ m # 1 /\ m <= Place(e) /\ m - 1 = n
      BY <3>1 DEF Entries
    <3>. HIDE DEF m
    <3>3. lru'[m] = x
      BY <2>1, <3>2 DEF ToFront
    <3>. QED  BY <3>2, <3>3
  <2>4. CASE x # e /\ ~(n < Place(e))
    <3>1. n # 1 /\ ~(n <= Place(e))
      BY <1>1, <2>1, <2>4 DEF Entries
    <3>2. lru'[n] = lru[n]
      BY <3>1 DEF ToFront
    <3>. QED  BY <2>1, <3>2
  <2>. QED  BY <2>2, <2>3, <2>4
<1>. QED  BY <1>3, <1>4 DEF LruTypes

\* The list has all the entries.
LEMMA LruLength ==
  ASSUME LruTypes
  PROVE  Len(lru) = PoolSize /\ {lru[n] : n \in Entries} = Entries
<1>1. lru \in Seq(Entries) /\ DOMAIN lru = 1 .. PoolSize
  <2>1. PoolSize \in Nat /\ lru \in [1 .. PoolSize -> Entries]
    BY DEF LruTypes, Entries
  <2>. QED  BY <2>1, SeqDef
<1>2. Len(lru) = PoolSize
  BY <1>1
<1>. QED  BY <1>2 DEF LruTypes

\* Calls.
LEMMA CallTypes ==
  ASSUME TypeInv, NEW t \in Threads, Local(t), Calls(t)
  PROVE  TypeInv' /\ Local(t)'
<1>1. ASSUME NEW o \in {"use", "alloc", "free", "all"}, NEW i \in Inums, NEW p \in {"find", "all"}, Call(t, o, i), Goto(t, p),
             p = "all" <=> o = "all", ent' = IF o = "all" THEN [ent EXCEPT ![t] = 1] ELSE ent,
             bits' \subseteq Inums
      PROVE  TypeInv' /\ Local(t)'
  <2>1. op' = [op EXCEPT ![t] = o] /\ want' = [want EXCEPT ![t] = i] /\ pc' = [pc EXCEPT ![t] = p]
        /\ ver' = [ver EXCEPT ![t] = used["ops"] + 1] /\ used["ops"] < MaxOps
        /\ used' = [used EXCEPT !["ops"] = @ + 1] /\ pc[t] = "idle"
        /\ UNCHANGED <<inum, ref, valid, dirty, copy, head, hnext, lru, table, stored, free, live, image, why, latest, crossed>>
    BY <1>1 DEF Call, Use, Goto, entryVars, hashVars
  <2>2. EntryTypes' /\ ContentTypes' /\ ListTypes' /\ LruTypes'
    BY <2>1 DEF TypeInv, EntryTypes, ContentTypes, ListTypes, LruTypes
  <2>3. BitTypes' /\ GhostTypes'
    BY <1>1, <2>1 DEF TypeInv, BitTypes, GhostTypes, Counted
  <2>4. PcTypes'
    BY <2>1 DEF TypeInv, PcTypes, Pcs
  <2>5. LocalTypes'
    BY <1>1, <2>1 DEF TypeInv, LocalTypes, GhostTypes, Counted
  <2>6. pc'[t] = p /\ op'[t] = o /\ (o = "all" => ent'[t] = 1) /\ (o # "all" => ent'[t] = NULL)
    BY <1>1, <2>1 DEF TypeInv, PcTypes, LocalTypes, Local
  <2>7. Local(t)'
    BY <1>1, <2>6 DEF Local, Ops, SyncPcs
  <2>. QED  BY <2>2, <2>3, <2>4, <2>5, <2>7 DEF TypeInv
<1>2. CASE \E i \in Inums : UseBegin(t, i) \/ FreeBegin(t, i)
  BY <1>1, <1>2 DEF UseBegin, FreeBegin, TypeInv, BitTypes
<1>3. CASE AllocBit(t)
  <2>1. Lowest(Inums \ bits) \in Inums
    <3>1. Inums \ bits \in SUBSET Nat /\ Inums \ bits # {}
      BY <1>3 DEF AllocBit, Inums
    <3>2. \E n \in Inums \ bits : \A m \in Inums \ bits : n <= m
      BY <3>1, Least
    <3>. QED  BY <3>2 DEF Lowest
  <2>2. PICK i \in Inums : Call(t, "alloc", i) /\ bits' = bits \cup {i} /\ Goto(t, "find") /\ UNCHANGED ent
    BY <1>3, <2>1 DEF AllocBit
  <2>3. bits' \subseteq Inums
    BY <2>2 DEF TypeInv, BitTypes
  <2>. QED  BY <1>1, <2>2, <2>3
<1>4. CASE SyncAll(t)
  <2>1. NULL \in Inums
    BY DEF NULL, Inums
  <2>. QED  BY <1>1, <1>4, <2>1 DEF SyncAll, TypeInv, BitTypes
<1>. QED  BY <1>2, <1>3, <1>4 DEF Calls

\* Returns.
LEMMA ReturnTypes ==
  ASSUME TypeInv, NEW t \in Threads, Return(t), UNCHANGED <<why, image>>
  PROVE  /\ PcTypes' /\ LocalTypes' /\ Local(t)'
         /\ pc'[t] = "idle" /\ op'[t] = "none" /\ ent'[t] = NULL
<1>1. NULL \in Inums /\ NULL \in 0 .. PoolSize + 1 /\ 0 \in 0 .. MaxOps
  BY DEF NULL, Inums
<1>2. pc' = [pc EXCEPT ![t] = "idle"] /\ op' = [op EXCEPT ![t] = "none"] /\ want' = [want EXCEPT ![t] = NULL]
      /\ ver' = [ver EXCEPT ![t] = 0] /\ ent' = [ent EXCEPT ![t] = NULL]
  BY DEF Return, Goto
<1>3. PcTypes'
  BY <1>2 DEF TypeInv, PcTypes, Pcs
<1>4. LocalTypes'
  BY <1>1, <1>2 DEF TypeInv, LocalTypes
<1>5. pc'[t] = "idle" /\ op'[t] = "none" /\ ent'[t] = NULL
  BY <1>2 DEF TypeInv, PcTypes, LocalTypes
<1>. QED  BY <1>3, <1>4, <1>5 DEF Local, SyncPcs

\* A move of t that keeps its operation.
LEMMA MoveTypes ==
  ASSUME TypeInv, NEW t \in Threads, NEW p \in Pcs, Goto(t, p), UNCHANGED callVars,
         UNCHANGED ent \/ \E e \in 0 .. PoolSize + 1 : ent' = [ent EXCEPT ![t] = e],
         UNCHANGED why \/ \E y \in {"own", "evict", "all"} : why' = [why EXCEPT ![t] = y],
         UNCHANGED image \/ \E d : image' = [image EXCEPT ![t] = d]
  PROVE  /\ PcTypes' /\ LocalTypes' /\ pc'[t] = p /\ op'[t] = op[t]
         /\ \A e : ent' = [ent EXCEPT ![t] = e] => ent'[t] = e
         /\ \A y : why' = [why EXCEPT ![t] = y] => why'[t] = y
         /\ \A d : image' = [image EXCEPT ![t] = d] => image'[t] = d
<1>1. pc' = [pc EXCEPT ![t] = p] /\ UNCHANGED <<op, want, ver>>
  BY DEF Goto, callVars
<1>2. PcTypes'
  BY <1>1 DEF TypeInv, PcTypes
<1>3. ent' \in [Threads -> 0 .. PoolSize + 1]
  BY DEF TypeInv, LocalTypes
<1>4. image' = [u \in Threads |-> image'[u]]
  BY DEF TypeInv, LocalTypes
<1>5. LocalTypes'
  BY <1>1, <1>3, <1>4 DEF TypeInv, LocalTypes
<1>6. /\ DOMAIN pc = Threads /\ DOMAIN ent = Threads /\ DOMAIN why = Threads /\ DOMAIN image = Threads
  BY DEF TypeInv, PcTypes, LocalTypes
<1>. QED  BY <1>1, <1>2, <1>5, <1>6

\* inode_get.
LEMMA GetTypes ==
  ASSUME TypeInv, NEW t \in Threads, Local(t), Get(t)
  PROVE  TypeInv' /\ Local(t)'
<1>. USE DEF TypeInv
<1>1. want[t] \in Inums /\ Entries \subseteq 0 .. PoolSize + 1 /\ NULL \notin Entries
  BY DEF LocalTypes, Entries, NULL
<1>2. CASE GetHit(t)
  <2>1. PICK e \in Entries :
          /\ ref' = [ref EXCEPT ![e] = @ + 1] /\ ToFront(e) /\ ent' = [ent EXCEPT ![t] = e]
          /\ Goto(t, IF e \in valid THEN "use" ELSE "reload")
    BY <1>1, <1>2, FoundIs DEF GetHit
  <2>2. /\ UNCHANGED <<inum, valid, dirty, copy, head, hnext, table, bits, stored, free, live, image, why, latest, crossed, used>>
        /\ UNCHANGED callVars /\ pc[t] = "find"
    BY <1>2 DEF GetHit, bitmapVars
  <2>3. /\ PcTypes' /\ LocalTypes' /\ pc'[t] \in {"use", "reload"} /\ op'[t] = op[t] /\ ent'[t] = e
    BY <1>1, <2>1, <2>2, MoveTypes DEF Pcs
  <2>4. LruTypes'
    BY <2>1, ToFrontTypes
  <2>5. Local(t)'
    BY <2>2, <2>3 DEF Local, SyncPcs
  <2>. QED  BY <2>1, <2>2, <2>3, <2>4, <2>5 DEF EntryTypes, ContentTypes, ListTypes, BitTypes, GhostTypes
<1>3. CASE GetVictim(t)
  <2>1. PICK e \in Entries :
          /\ ent' = [ent EXCEPT ![t] = e]
          /\ \/ Goto(t, "read") /\ why' = [why EXCEPT ![t] = "evict"]
             \/ Goto(t, "claim") /\ UNCHANGED why
    <3>1. PICK n \in Unused : /\ ent' = [ent EXCEPT ![t] = lru[n]]
                              /\ IF lru[n] \in dirty \cap valid
                                 THEN Goto(t, "read") /\ why' = [why EXCEPT ![t] = "evict"]
                                 ELSE Goto(t, "claim") /\ UNCHANGED why
      BY <1>3 DEF GetVictim
    <3>2. lru[n] \in Entries
      BY LruLength DEF LruTypes, Unused
    <3>. QED  BY <3>1, <3>2
  <2>2. /\ UNCHANGED <<inum, ref, valid, dirty, copy, head, hnext, lru, table, bits, stored, free, live, image, latest, crossed, used>>
        /\ UNCHANGED callVars /\ pc[t] = "find"
    BY <1>3 DEF GetVictim, bitmapVars, entryVars, hashVars
  <2>3. /\ PcTypes' /\ LocalTypes' /\ op'[t] = op[t] /\ ent'[t] = e
        /\ pc'[t] = "claim" \/ (pc'[t] = "read" /\ why'[t] = "evict")
    BY <1>1, <2>1, <2>2, MoveTypes DEF Pcs, SyncPcs
  <2>4. Local(t)'
    BY <2>2, <2>3 DEF Local, SyncPcs
  <2>. QED  BY <2>1, <2>2, <2>3, <2>4 DEF EntryTypes, ContentTypes, ListTypes, LruTypes, BitTypes, GhostTypes
<1>4. CASE GetFull(t)
  <2>1. /\ UNCHANGED <<inum, ref, valid, dirty, copy, head, hnext, lru, table, bits, stored, free, live, image, why, latest, crossed, used>>
        /\ pc[t] = "find"
        /\ \/ op[t] = "alloc" /\ Goto(t, "rollback") /\ UNCHANGED <<callVars, ent>>
           \/ Return(t)
    BY <1>4 DEF GetFull, bitmapVars, entryVars, hashVars
  <2>2. PcTypes' /\ LocalTypes' /\ Local(t)'
    <3>1. CASE Return(t)
      BY <2>1, <3>1, ReturnTypes
    <3>2. CASE op[t] = "alloc" /\ Goto(t, "rollback") /\ UNCHANGED <<callVars, ent>>
      <4>1. PcTypes' /\ LocalTypes' /\ pc'[t] = "rollback" /\ op'[t] = op[t] /\ ent'[t] = ent[t]
        BY <2>1, <3>2, MoveTypes DEF Pcs
      <4>. QED  BY <2>1, <3>2, <4>1 DEF Local, SyncPcs
    <3>. QED  BY <2>1, <3>1, <3>2
  <2>. QED  BY <2>1, <2>2 DEF EntryTypes, ContentTypes, ListTypes, LruTypes, BitTypes, GhostTypes
<1>5. CASE Claim(t)
  <2>1. ent[t] \in Entries /\ op[t] \in Ops /\ pc[t] = "claim"
    BY <1>5 DEF Claim, Local
  <2>. DEFINE e == ent[t]
              r == Unhashed(e)
  <2>2. /\ head'  = [r.head EXCEPT ![Hash(want[t])] = e]
        /\ hnext' = [r.next EXCEPT ![e] = r.head[Hash(want[t])]]
        /\ ToFront(e)
        /\ inum' = [inum EXCEPT ![e] = want[t]] /\ ref' = [ref EXCEPT ![e] = 1]
        /\ valid' = valid \ {e} /\ dirty' = dirty \ {e}
        /\ Goto(t, "load") /\ crossed' \subseteq crossed \cup {"unhashed"}
        /\ UNCHANGED <<copy, table, bits, stored, free, live, ent, image, why, latest, used>>
        /\ UNCHANGED callVars
    BY <1>5 DEF Claim, Cross, bitmapVars
  <2>3. r.head \in [Buckets -> Entries \cup {NULL}] /\ r.next \in [Entries -> Entries \cup {NULL}]
    <3>1. hnext[e] \in Entries \cup {NULL}
      BY <2>1 DEF ListTypes
    <3>2. CASE e \notin valid
      BY <3>2 DEF Unhashed, ListTypes
    <3>3. CASE e \in valid
      BY <3>1, <3>3 DEF Unhashed, ListTypes
    <3>. QED  BY <3>2, <3>3
  <2>. HIDE DEF r
  <2>4. Hash(want[t]) \in Buckets
    BY <1>1, FoundIs
  <2>5. ListTypes'
    BY <2>1, <2>2, <2>3, <2>4 DEF ListTypes
  <2>6. LruTypes'
    BY <2>1, <2>2, ToFrontTypes
  <2>7. EntryTypes' /\ ContentTypes' /\ BitTypes' /\ GhostTypes'
    <3>. HIDE DEF e
    <3>1. e \in Entries
      BY <2>1 DEF e
    <3>2. EntryTypes'
      BY <1>1, <2>2, <3>1 DEF EntryTypes
    <3>. QED  BY <2>2, <3>2 DEF ContentTypes, BitTypes, GhostTypes, Limits
  <2>8. PcTypes' /\ LocalTypes' /\ pc'[t] = "load" /\ op'[t] = op[t] /\ ent'[t] = ent[t]
    BY <2>2, MoveTypes DEF Pcs
  <2>9. Local(t)'
    BY <2>1, <2>8 DEF Local, SyncPcs
  <2>. QED  BY <2>5, <2>6, <2>7, <2>8, <2>9
<1>6. CASE Load(t) \/ Reload(t)
  <2>1. ent[t] \in Entries /\ op[t] \in Ops
    BY <1>6 DEF Load, Reload, Local
  <2>2. /\ UNCHANGED <<inum, ref, dirty, head, hnext, lru, table, bits, stored, free, live, ent, image, why, latest, used>>
        /\ UNCHANGED callVars /\ Goto(t, "use")
        /\ \/ UNCHANGED <<copy, valid>>
           \/ copy' = [copy EXCEPT ![ent[t]] = table[want[t]]] /\ valid' = valid \cup {ent[t]}
        /\ crossed' \subseteq crossed \cup {"lateLoad"}
    BY <1>6 DEF Load, Reload, Cross, hashVars, bitmapVars
  <2>3. EntryTypes' /\ ContentTypes' /\ ListTypes' /\ LruTypes' /\ BitTypes' /\ GhostTypes'
    <3>0. valid' \subseteq valid \cup {ent[t]} /\ inum' = inum /\ ref' = ref /\ dirty' = dirty
      BY <2>2
    <3>1. EntryTypes'
      BY ONLY EntryTypes, <2>1, <3>0 DEF EntryTypes
    <3>2. ContentTypes'
      BY <1>1, <2>1, <2>2 DEF ContentTypes
    <3>3. ListTypes'
      BY <1>1, <2>2 DEF ListTypes
    <3>4. LruTypes'
      BY <1>1, <2>2 DEF LruTypes
    <3>5. BitTypes'
      BY <1>1, <2>2 DEF BitTypes
    <3>6. GhostTypes'
      BY <1>1, <2>2 DEF GhostTypes, Limits
    <3>. QED  BY <3>1, <3>2, <3>3, <3>4, <3>5, <3>6
  <2>4. PcTypes' /\ LocalTypes' /\ pc'[t] = "use" /\ op'[t] = op[t] /\ ent'[t] = ent[t]
    BY <2>2, MoveTypes DEF Pcs
  <2>5. Local(t)'
    BY <2>1, <2>4 DEF Local, SyncPcs
  <2>. QED  BY <2>3, <2>4, <2>5
<1>. QED  BY <1>2, <1>3, <1>4, <1>5, <1>6 DEF Get

\* What the callers do.
LEMMA WorkTypes ==
  ASSUME TypeInv, NEW t \in Threads, Local(t), Work(t)
  PROVE  TypeInv' /\ Local(t)'
<1>. USE DEF TypeInv
<1>1. want[t] \in Inums /\ ver[t] \in 0 .. MaxOps /\ NULL \in 0 .. PoolSize + 1 /\ NULL \notin Entries
  BY DEF LocalTypes, Entries, NULL
<1>2. ASSUME ent[t] \in Entries, Store(t) \/ UNCHANGED <<copy, dirty, latest>>, UNCHANGED <<inum, ref>>,
             valid' \subseteq valid \cup {ent[t]}
      PROVE  EntryTypes'
  BY <1>2 DEF Store, EntryTypes
<1>3. ASSUME ent[t] \in Entries, Store(t) \/ UNCHANGED <<copy, dirty, latest>>, UNCHANGED table
      PROVE  ContentTypes'
  BY <1>1, <1>3 DEF Store, ContentTypes
<1>4. CASE UseQuick(t)
  <2>1. /\ Goto(t, "put") /\ pc[t] = "use" /\ op[t] = "use" /\ (Store(t) \/ UNCHANGED <<copy, dirty, latest>>)
        /\ UNCHANGED <<inum, ref, valid, head, hnext, lru, table, bits, stored, free, live, ent, image, why, crossed, used>>
        /\ UNCHANGED callVars
    BY <1>4 DEF UseQuick, hashVars, bitmapVars
  <2>2. ent[t] \in Entries
    BY <2>1 DEF Local
  <2>3. EntryTypes' /\ ContentTypes' /\ ListTypes' /\ LruTypes' /\ BitTypes' /\ GhostTypes'
    BY <1>2, <1>3, <2>1, <2>2 DEF ListTypes, LruTypes, BitTypes, GhostTypes
  <2>4. PcTypes' /\ LocalTypes' /\ pc'[t] = "put" /\ op'[t] = op[t] /\ ent'[t] = ent[t]
    BY <2>1, MoveTypes DEF Pcs
  <2>5. Local(t)'
    BY <2>1, <2>2, <2>4 DEF Local, SyncPcs, Ops
  <2>. QED  BY <2>3, <2>4, <2>5
<1>5. CASE UseSync(t)
  <2>1. /\ Goto(t, "read") /\ pc[t] = "use" /\ op[t] \in {"use", "alloc"} /\ Store(t) /\ valid' = valid \cup {ent[t]}
        /\ why' = [why EXCEPT ![t] = "own"]
        /\ UNCHANGED <<inum, ref, head, hnext, lru, table, bits, stored, free, live, ent, image, crossed, used>>
        /\ UNCHANGED callVars
    BY <1>5 DEF UseSync, hashVars, bitmapVars
  <2>2. ent[t] \in Entries
    BY <2>1 DEF Local
  <2>3. EntryTypes' /\ ContentTypes' /\ ListTypes' /\ LruTypes' /\ BitTypes' /\ GhostTypes'
    BY <1>2, <1>3, <2>1, <2>2 DEF ListTypes, LruTypes, BitTypes, GhostTypes
  <2>4. PcTypes' /\ LocalTypes' /\ pc'[t] = "read" /\ op'[t] = op[t] /\ ent'[t] = ent[t] /\ why'[t] = "own"
    BY <2>1, MoveTypes DEF Pcs, SyncPcs
  <2>5. Local(t)'
    BY <2>1, <2>2, <2>4 DEF Local, SyncPcs, Ops
  <2>. QED  BY <2>3, <2>4, <2>5
<1>6. CASE FreeTruncate(t)
  <2>1. /\ Goto(t, "put") /\ pc[t] = "use" /\ op[t] = "free" /\ Store(t) /\ live' = live \ {want[t]}
        /\ UNCHANGED <<inum, ref, valid, head, hnext, lru, table, bits, stored, free, ent, image, why, crossed, used>>
        /\ UNCHANGED callVars
    BY <1>6 DEF FreeTruncate, hashVars, bitmapVars
  <2>2. ent[t] \in Entries
    BY <2>1 DEF Local
  <2>3. EntryTypes' /\ ContentTypes' /\ ListTypes' /\ LruTypes' /\ BitTypes' /\ GhostTypes'
    BY <1>2, <1>3, <2>1, <2>2 DEF ListTypes, LruTypes, BitTypes, GhostTypes
  <2>4. PcTypes' /\ LocalTypes' /\ pc'[t] = "put" /\ op'[t] = op[t] /\ ent'[t] = ent[t]
    BY <2>1, MoveTypes DEF Pcs
  <2>5. Local(t)'
    BY <2>1, <2>2, <2>4 DEF Local, SyncPcs, Ops
  <2>. QED  BY <2>3, <2>4, <2>5
<1>7. CASE Put(t)
  <2>1. /\ ref' = [ref EXCEPT ![ent[t]] = @ - 1] /\ pc[t] \in {"put", "drop"}
        /\ UNCHANGED <<inum, valid, dirty, copy, head, hnext, lru, table, bits, stored, free, live, image, why, latest, crossed, used>>
    BY <1>7 DEF Put, hashVars, bitmapVars
  <2>2. ent[t] \in Entries /\ op[t] \in Ops
    BY <2>1 DEF Local
  <2>3. EntryTypes' /\ ContentTypes' /\ ListTypes' /\ LruTypes' /\ BitTypes' /\ GhostTypes'
    BY <2>1, <2>2 DEF EntryTypes, ContentTypes, ListTypes, LruTypes, BitTypes, GhostTypes
  <2>4. PcTypes' /\ LocalTypes' /\ Local(t)'
    <3>1. CASE Return(t)
      BY <2>1, <3>1, ReturnTypes
    <3>2. ASSUME NEW p \in {"unbit", "rollback"}, Goto(t, p), UNCHANGED callVars,
                 (p = "unbit" /\ op[t] = "free") \/ (p = "rollback" /\ op[t] = "alloc")
          PROVE  PcTypes' /\ LocalTypes' /\ Local(t)'
      <4>1. ent' = [ent EXCEPT ![t] = NULL]
        BY <1>7, PutCases
      <4>2. PcTypes' /\ LocalTypes' /\ pc'[t] = p /\ op'[t] = op[t] /\ ent'[t] = NULL
        BY <1>1, <2>1, <3>2, <4>1, MoveTypes DEF Pcs
      <4>. QED  BY <3>2, <4>2 DEF Local, SyncPcs
    <3>. QED  BY <1>7, <3>1, <3>2, PutCases
  <2>. QED  BY <2>3, <2>4
<1>. QED  BY <1>4, <1>5, <1>6, <1>7 DEF Work

\* inode_sync, wherever it returns to.
LEMMA SyncedTypes ==
  ASSUME TypeInv, NEW t \in Threads, Local(t), pc[t] \in SyncPcs, NEW ok \in BOOLEAN, SyncedBy(t, ok),
         UNCHANGED callVars, UNCHANGED why
  PROVE  PcTypes' /\ LocalTypes' /\ Local(t)'
<1>. USE DEF TypeInv
<1>1. ent[t] \in Entries /\ image' = [image EXCEPT ![t] = <<>>] /\ op[t] \in {"none", "use", "alloc", "free", "all"}
  BY DEF SyncedBy, Local, PcTypes
<1>2. CASE why[t] = "own" /\ op[t] = "use" /\ Goto(t, "put") /\ ent' = ent
  <2>1. PcTypes' /\ LocalTypes' /\ pc'[t] = "put" /\ op'[t] = op[t] /\ ent'[t] = ent[t]
    BY <1>1, <1>2, MoveTypes DEF Pcs
  <2>. QED  BY <1>1, <1>2, <2>1 DEF Local, SyncPcs, Ops
<1>3. CASE why[t] = "own" /\ op[t] = "alloc" /\ Goto(t, IF ok THEN "count" ELSE "rollback") /\ ent' = ent
  <2>1. PICK p \in {"count", "rollback"} : Goto(t, p)
    BY <1>3
  <2>2. PcTypes' /\ LocalTypes' /\ pc'[t] = p /\ op'[t] = op[t] /\ ent'[t] = ent[t]
    BY <1>1, <1>3, <2>1, MoveTypes DEF Pcs
  <2>. QED  BY <1>1, <1>3, <2>2 DEF Local, SyncPcs, Ops
<1>4. CASE why[t] = "evict" /\ Goto(t, "claim") /\ ent' = ent
  <2>1. PcTypes' /\ LocalTypes' /\ pc'[t] = "claim" /\ op'[t] = op[t] /\ ent'[t] = ent[t]
    BY <1>1, <1>4, MoveTypes DEF Pcs
  <2>. QED  BY <1>1, <1>4, <2>1 DEF Local, SyncPcs, Ops
<1>5. CASE why[t] = "all" /\ Goto(t, "all") /\ ent' = [ent EXCEPT ![t] = @ + 1]
  <2>1. ent' = [ent EXCEPT ![t] = ent[t] + 1] /\ ent[t] + 1 \in 1 .. PoolSize + 1 /\ ent[t] + 1 \in 0 .. PoolSize + 1
    BY <1>1, <1>5 DEF Entries
  <2>2. PcTypes' /\ LocalTypes' /\ pc'[t] = "all" /\ op'[t] = op[t] /\ ent'[t] = ent[t] + 1
    BY <1>1, <1>5, <2>1, MoveTypes DEF Pcs
  <2>. QED  BY <1>5, <2>1, <2>2 DEF Local, SyncPcs, Ops
<1>. QED  BY <1>2, <1>3, <1>4, <1>5 DEF SyncedBy

\* inode_sync and the scan of sync_all.
LEMMA SyncTypes ==
  ASSUME TypeInv, NEW t \in Threads, Local(t), Sync(t)
  PROVE  TypeInv' /\ Local(t)'
<1>. USE DEF TypeInv
<1>1. TRUE \in BOOLEAN /\ ent[t] \in 0 .. PoolSize + 1 /\ (inum[ent[t]] \in Inums \/ ent[t] \notin Entries)
  BY DEF LocalTypes, EntryTypes
<1>2. CASE SyncRead(t)
  <2>1. /\ pc[t] = "read" /\ UNCHANGED callVars
        /\ UNCHANGED <<inum, ref, valid, dirty, copy, head, hnext, lru, table, bits, stored, free, live, why, latest, crossed, used>>
        /\ \/ Goto(t, "write") /\ image' = [image EXCEPT ![t] = table] /\ UNCHANGED ent
           \/ Synced(t, TRUE)
    BY <1>2 DEF SyncRead, entryVars, hashVars, bitmapVars
  <2>2. EntryTypes' /\ ContentTypes' /\ ListTypes' /\ LruTypes' /\ BitTypes' /\ GhostTypes'
    BY <2>1 DEF EntryTypes, ContentTypes, ListTypes, LruTypes, BitTypes, GhostTypes
  <2>3. PcTypes' /\ LocalTypes' /\ Local(t)'
    <3>1. CASE Synced(t, TRUE)
      BY <2>1, <3>1, SyncedCases, SyncedTypes DEF SyncPcs
    <3>2. CASE Goto(t, "write") /\ image' = [image EXCEPT ![t] = table] /\ UNCHANGED ent
      <4>1. PcTypes' /\ LocalTypes' /\ pc'[t] = "write" /\ op'[t] = op[t] /\ ent'[t] = ent[t] /\ why'[t] = why[t]
            /\ image'[t] = table
        BY <2>1, <3>2, MoveTypes DEF Pcs, SyncPcs
      <4>2. table \in [Inums -> 0 .. MaxOps]
        BY DEF ContentTypes
      <4>. QED  BY <2>1, <4>1, <4>2 DEF Local, SyncPcs
    <3>. QED  BY <2>1, <3>1, <3>2
  <2>. QED  BY <2>2, <2>3
<1>3. CASE SyncWrite(t)
  <2>1. ent[t] \in Entries /\ inum[ent[t]] \in Inums /\ image[t] \in [Inums -> 0 .. MaxOps]
    BY <1>3 DEF SyncWrite, Local, SyncPcs, EntryTypes
  <2>. DEFINE i == inum[ent[t]]
  <2>2. /\ pc[t] = "write" /\ UNCHANGED callVars /\ Goto(t, "clear")
        /\ UNCHANGED <<inum, ref, valid, dirty, copy, head, hnext, lru, bits, stored, free, live, ent, image, why, latest, used>>
        /\ crossed' \subseteq crossed \cup {"tableRace"}
        /\ table' = [j \in Inums |-> IF j = i THEN copy[ent[t]] ELSE IF Block(j) = Block(i) THEN image[t][j] ELSE table[j]]
    BY <1>3 DEF SyncWrite, Cross, entryVars, hashVars, bitmapVars
  <2>3. table' \in [Inums -> 0 .. MaxOps]
    <3>. HIDE DEF i
    <3>. QED  BY <2>1, <2>2 DEF ContentTypes
  <2>4. EntryTypes' /\ ContentTypes' /\ ListTypes' /\ LruTypes' /\ BitTypes' /\ GhostTypes'
    BY <2>2, <2>3 DEF EntryTypes, ContentTypes, ListTypes, LruTypes, BitTypes, GhostTypes, Limits
  <2>5. PcTypes' /\ LocalTypes' /\ pc'[t] = "clear" /\ op'[t] = op[t] /\ ent'[t] = ent[t] /\ why'[t] = why[t]
    BY <2>2, MoveTypes DEF Pcs, SyncPcs
  <2>6. Local(t)'
    BY <2>2, <2>5 DEF Local, SyncPcs
  <2>. QED  BY <2>4, <2>5, <2>6
<1>4. CASE SyncClear(t)
  <2>1. /\ pc[t] = "clear" /\ UNCHANGED callVars /\ Synced(t, TRUE) /\ dirty' \subseteq dirty
        /\ UNCHANGED <<inum, ref, valid, copy, head, hnext, lru, table, bits, stored, free, live, why, latest, used>>
        /\ crossed' \subseteq crossed \cup {"syncRace"}
    BY <1>4 DEF SyncClear, Cross, hashVars, bitmapVars
  <2>2. EntryTypes' /\ ContentTypes' /\ ListTypes' /\ LruTypes' /\ BitTypes' /\ GhostTypes'
    BY <2>1 DEF EntryTypes, ContentTypes, ListTypes, LruTypes, BitTypes, GhostTypes, Limits
  <2>3. PcTypes' /\ LocalTypes' /\ Local(t)'
    BY <2>1, SyncedCases, SyncedTypes DEF SyncPcs
  <2>. QED  BY <2>2, <2>3
<1>5. CASE ScanEntry(t)
  <2>1. /\ pc[t] = "all" /\ ent[t] \in Entries /\ UNCHANGED callVars
        /\ UNCHANGED <<inum, ref, valid, dirty, copy, head, hnext, lru, table, bits, stored, free, live, image, latest, crossed, used>>
        /\ \/ Goto(t, "read") /\ why' = [why EXCEPT ![t] = "all"] /\ UNCHANGED ent
           \/ ent' = [ent EXCEPT ![t] = @ + 1] /\ UNCHANGED <<pc, why>>
    BY <1>5 DEF ScanEntry, entryVars, hashVars, bitmapVars
  <2>2. EntryTypes' /\ ContentTypes' /\ ListTypes' /\ LruTypes' /\ BitTypes' /\ GhostTypes'
    BY <2>1 DEF EntryTypes, ContentTypes, ListTypes, LruTypes, BitTypes, GhostTypes
  <2>3. PcTypes' /\ LocalTypes' /\ Local(t)'
    <3>1. CASE Goto(t, "read") /\ why' = [why EXCEPT ![t] = "all"] /\ UNCHANGED ent
      <4>1. PcTypes' /\ LocalTypes' /\ pc'[t] = "read" /\ op'[t] = op[t] /\ ent'[t] = ent[t] /\ why'[t] = "all"
        BY <2>1, <3>1, MoveTypes DEF Pcs, SyncPcs
      <4>. QED  BY <2>1, <4>1 DEF Local, SyncPcs
    <3>2. CASE ent' = [ent EXCEPT ![t] = @ + 1] /\ UNCHANGED <<pc, why>>
      <4>1. ent' = [ent EXCEPT ![t] = ent[t] + 1] /\ ent[t] + 1 \in 1 .. PoolSize + 1 /\ ent[t] + 1 \in 0 .. PoolSize + 1
        BY <2>1, <3>2 DEF Entries
      <4>2. Goto(t, "all") /\ "all" \in Pcs
        BY <2>1, <3>2 DEF Goto, PcTypes, Pcs
      <4>3. PcTypes' /\ LocalTypes' /\ pc'[t] = "all" /\ op'[t] = op[t] /\ ent'[t] = ent[t] + 1
        BY <2>1, <3>2, <4>1, <4>2, MoveTypes
      <4>. QED  BY <2>1, <4>1, <4>3 DEF Local, SyncPcs
    <3>. QED  BY <2>1, <3>1, <3>2
  <2>. QED  BY <2>2, <2>3
<1>6. CASE ScanEnd(t)
  <2>1. UNCHANGED <<inum, ref, valid, dirty, copy, head, hnext, lru, table, bits, stored, free, live, image, why, latest, crossed, used>>
        /\ Return(t)
    BY <1>6 DEF ScanEnd, entryVars, hashVars, bitmapVars
  <2>2. EntryTypes' /\ ContentTypes' /\ ListTypes' /\ LruTypes' /\ BitTypes' /\ GhostTypes'
    BY <2>1 DEF EntryTypes, ContentTypes, ListTypes, LruTypes, BitTypes, GhostTypes
  <2>. QED  BY <2>1, <2>2, ReturnTypes
<1>. QED  BY <1>2, <1>3, <1>4, <1>5, <1>6 DEF Sync

\* The ends of inode_alloc and inode_free.
LEMMA BitsTypes ==
  ASSUME TypeInv, NEW t \in Threads, Local(t), Bits(t)
  PROVE  TypeInv' /\ Local(t)'
<1>. USE DEF TypeInv
<1>1. want[t] \in Inums
  BY DEF LocalTypes
<1>2. PICK p \in {"rollback", "unbit", "count", "bitmap"} : pc[t] = p
  BY DEF Bits, Rollback, FreeBit, Count, BitmapSync
<1>3. /\ UNCHANGED <<inum, ref, valid, dirty, copy, head, hnext, lru, table, image, why, latest>>
      /\ bits' \in {bits, bits \ {want[t]}} /\ stored' \in {stored, bits} /\ live' \in {live, live \cup {want[t]}}
      /\ free' \in {free, free - 1, free + 1}
      /\ used' = used \/ used' = [used EXCEPT !["faults"] = @ + 1]
      /\ crossed' \subseteq crossed \cup {"unrolled", "count", "unstored"}
  BY DEF Bits, Rollback, FreeBit, Count, BitmapSync, Cross, Use, entryVars, hashVars
<1>4. EntryTypes' /\ ContentTypes' /\ ListTypes' /\ LruTypes'
  BY <1>3 DEF EntryTypes, ContentTypes, ListTypes, LruTypes
<1>5. BitTypes'
  BY <1>1, <1>3 DEF BitTypes
<1>6. GhostTypes'
  BY <1>3 DEF GhostTypes, Limits, Counted
<1>7. /\ pc[t] = "unbit" => Goto(t, "count") /\ UNCHANGED <<callVars, ent>>
      /\ pc[t] = "count" => Goto(t, "bitmap") /\ UNCHANGED <<callVars, ent>>
      /\ pc[t] \in {"rollback", "bitmap"} => Return(t) \/ (Goto(t, "put") /\ UNCHANGED <<callVars, ent>> /\ op[t] = "alloc" /\ ent[t] # NULL)
  BY DEF Bits, Rollback, FreeBit, Count, BitmapSync, Local, Entries, NULL
<1>8. PcTypes' /\ LocalTypes' /\ Local(t)'
  <2>1. CASE Return(t)
    BY <1>3, <2>1, ReturnTypes
  <2>2. ASSUME NEW q \in {"count", "bitmap", "put"}, Goto(t, q), UNCHANGED <<callVars, ent>>,
               q = "put" => op[t] = "alloc" /\ ent[t] \in Entries,
               q \in {"count", "bitmap"} => (op[t] = "alloc" /\ ent[t] \in Entries) \/ (op[t] = "free" /\ ent[t] = NULL)
        PROVE  PcTypes' /\ LocalTypes' /\ Local(t)'
    <3>1. PcTypes' /\ LocalTypes' /\ pc'[t] = q /\ op'[t] = op[t] /\ ent'[t] = ent[t]
      BY <1>3, <2>2, MoveTypes DEF Pcs
    <3>. QED  BY <2>2, <3>1 DEF Local, SyncPcs, Ops
  <2>3. CASE pc[t] = "unbit"
    BY <1>7, <2>2, <2>3 DEF Local
  <2>4. CASE pc[t] = "count"
    BY <1>7, <2>2, <2>4 DEF Local
  <2>5. CASE pc[t] \in {"rollback", "bitmap"}
    BY <1>7, <2>1, <2>2, <2>5 DEF Local
  <2>. QED  BY <1>2, <2>3, <2>4, <2>5
<1>. QED  BY <1>4, <1>5, <1>6, <1>8

\* Failing device calls.
LEMMA FaultsTypes ==
  ASSUME TypeInv, NEW t \in Threads, Local(t), Faults(t)
  PROVE  TypeInv' /\ Local(t)'
<1>. USE DEF TypeInv
<1>1. UNCHANGED <<inum, ref, valid, dirty, copy, head, hnext, lru, table, bits, stored, free, live, why, latest>>
      /\ UNCHANGED callVars /\ used' = [used EXCEPT !["faults"] = @ + 1] /\ crossed' \subseteq crossed \cup {"dropped"}
  BY DEF Faults, LoadFault, SyncFault, Cross, Use, entryVars, hashVars, bitmapVars
<1>2. EntryTypes' /\ ContentTypes' /\ ListTypes' /\ LruTypes' /\ BitTypes' /\ GhostTypes'
  BY <1>1 DEF EntryTypes, ContentTypes, ListTypes, LruTypes, BitTypes, GhostTypes, Counted, Limits
<1>3. PcTypes' /\ LocalTypes' /\ Local(t)'
  <2>1. CASE LoadFault(t)
    <3>1. pc[t] \in {"load", "reload"} /\ Goto(t, "drop") /\ UNCHANGED <<ent, image>>
      BY <2>1 DEF LoadFault
    <3>2. PcTypes' /\ LocalTypes' /\ pc'[t] = "drop" /\ op'[t] = op[t] /\ ent'[t] = ent[t]
      BY <1>1, <3>1, MoveTypes DEF Pcs
    <3>. QED  BY <3>1, <3>2 DEF Local, SyncPcs
  <2>2. CASE SyncFault(t)
    BY <1>1, <2>2, SyncedCases, SyncedTypes DEF SyncFault, SyncPcs
  <2>. QED  BY <2>1, <2>2 DEF Faults
<1>. QED  BY <1>2, <1>3

Locals == \A t \in Threads : Local(t)

\* A fresh pool.
LEMMA PoolTypes ==
  /\ EmptyPool.inum = [e \in Entries |-> 0] /\ EmptyPool.head = [b \in Buckets |-> NULL]
  /\ EmptyPool.lru \in [Entries -> Entries]
  /\ \A e \in Entries : \E n \in Entries : EmptyPool.lru[n] = e
<1>1. \A n \in Entries : PoolSize + 1 - n \in Entries /\ PoolSize + 1 - (PoolSize + 1 - n) = n
  BY DEF Entries
<1>. QED  BY <1>1 DEF EmptyPool

\* inode_cache_destroy writes what is dirty; from then on the pool is fresh.
LEMMA RemountIs ==
  ASSUME TypeInv, Remount
  PROVE  /\ \A t \in Threads : pc[t] = "idle"
         /\ \A i \in Inums : \/ (\A e \in valid \cap dirty : inum[e] # i) /\ table'[i] = table[i]
                             \/ \E e \in valid \cap dirty : inum[e] = i /\ table'[i] = copy[e]
         /\ table' \in [Inums -> 0 .. MaxOps]
         /\ stored' = bits /\ bits' = bits /\ live' = live /\ free' = FormattedFree
         /\ crossed' = crossed \cup (IF free # FormattedFree THEN {"recount"} ELSE {})
         /\ inum' = EmptyPool.inum /\ ref' = EmptyPool.inum /\ copy' = EmptyPool.inum
         /\ valid' = {} /\ dirty' = {} /\ head' = EmptyPool.head /\ hnext' = EmptyPool.inum /\ lru' = EmptyPool.lru
         /\ UNCHANGED <<pc, op, want, ver, ent, image, why, latest>>
         /\ used' = [used EXCEPT !["ops"] = @ + 1]
<1>. DEFINE owner(i) == CHOOSE e \in valid \cap dirty : inum[e] = i
<1>1. table' = [i \in Inums |-> IF \E e \in valid \cap dirty : inum[e] = i THEN copy[owner(i)] ELSE table[i]]
  BY DEF Remount
<1>2. ASSUME NEW i \in Inums, \E e \in valid \cap dirty : inum[e] = i
      PROVE  owner(i) \in valid \cap dirty /\ inum[owner(i)] = i
  BY <1>2
<1>. HIDE DEF owner
<1>3. \A i \in Inums : \/ (\A e \in valid \cap dirty : inum[e] # i) /\ table'[i] = table[i]
                       \/ \E e \in valid \cap dirty : inum[e] = i /\ table'[i] = copy[e]
  BY <1>1, <1>2
<1>4. table' \in [Inums -> 0 .. MaxOps]
  BY <1>1, <1>2 DEF TypeInv, EntryTypes, ContentTypes
<1>. QED  BY <1>3, <1>4 DEF Remount, Use, Cross, callVars

\* A remount keeps the types.
LEMMA RemountTypes ==
  ASSUME TypeInv, Remount
  PROVE  TypeInv'
<1>1. NULL \in Entries \cup {NULL} /\ 0 \in Inums /\ 0 \in Int /\ 0 \in 0 .. MaxOps /\ {} \subseteq Entries /\ 0 = NULL
  BY DEF NULL, Inums
<1>2. EntryTypes'
  BY <1>1, RemountIs, PoolTypes DEF EntryTypes
<1>3. ContentTypes'
  BY <1>1, RemountIs, PoolTypes DEF TypeInv, ContentTypes
<1>4. ListTypes' /\ LruTypes'
  BY <1>1, RemountIs, PoolTypes DEF ListTypes, LruTypes
<1>5. FormattedFree \in Int
  BY NamedFinite, FS_CardinalityType DEF FormattedFree
<1>6. BitTypes' /\ GhostTypes'
  <2>1. stored' = bits /\ bits' = bits /\ live' = live /\ free' = FormattedFree
    BY RemountIs
  <2>2. crossed' \subseteq crossed \cup {"recount"} /\ used' = [used EXCEPT !["ops"] = @ + 1]
    BY RemountIs
  <2>3. BitTypes'
    BY <1>5, <2>1 DEF TypeInv, BitTypes
  <2>. QED  BY <2>2, <2>3 DEF TypeInv, GhostTypes, Limits, Counted
<1>7. PcTypes' /\ LocalTypes'
  BY RemountIs DEF TypeInv, PcTypes, LocalTypes
<1>. QED  BY <1>2, <1>3, <1>4, <1>6, <1>7 DEF TypeInv

\* What mkfs leaves is typed, and nothing runs.
LEMMA InitTypes == Init => TypeInv /\ Locals
<1>. SUFFICES ASSUME Init PROVE TypeInv /\ Locals
  OBVIOUS
<1>1. NULL \in Entries \cup {NULL} /\ 0 \in Inums /\ 0 \in Int /\ 0 \in 0 .. MaxOps /\ 0 = NULL
  BY DEF NULL, Inums
<1>2. EntryTypes /\ ContentTypes
  BY <1>1, PoolTypes DEF Init, EntryTypes, ContentTypes
<1>3. ListTypes /\ LruTypes
  BY <1>1, PoolTypes DEF Init, ListTypes, LruTypes
<1>4. FormattedFree \in Int
  BY NamedFinite, FS_CardinalityType DEF FormattedFree
<1>5. BitTypes /\ GhostTypes
  BY <1>4 DEF Init, BitTypes, GhostTypes, Inums, Limits, Counted
<1>6. PcTypes /\ LocalTypes
  BY <1>1 DEF Init, PcTypes, LocalTypes, Pcs
<1>7. Locals
  BY <1>1 DEF Init, Locals, Local, SyncPcs
<1>. QED  BY <1>2, <1>3, <1>5, <1>6, <1>7 DEF TypeInv

\* The locals of the others stay what they were.
LEMMA OthersLocal ==
  ASSUME TypeInv, TypeInv', Locals, NEW t \in Threads, Beside(t), Local(t)'
  PROVE  Locals'
<1>1. ASSUME NEW u \in Threads \ {t} PROVE Local(u)'
  BY <1>1 DEF Locals, Local, Beside
<1>. QED  BY <1>1 DEF Locals

\* Types and locals, over every step.
LEMMA TypesNext == TypeInv /\ Locals /\ [Next]_vars => TypeInv' /\ Locals'
<1>. SUFFICES ASSUME TypeInv, Locals, [Next]_vars PROVE TypeInv' /\ Locals'
  OBVIOUS
<1>1. ASSUME NEW t \in Threads, Step(t) PROVE TypeInv' /\ Locals'
  <2>1. Local(t)
    BY DEF Locals
  <2>2. TypeInv' /\ Local(t)'
    BY <1>1, <2>1, CallTypes, GetTypes, WorkTypes, SyncTypes, BitsTypes, FaultsTypes DEF Step
  <2>. QED  BY <1>1, <2>1, <2>2, StepBeside, OthersLocal
<1>2. CASE Remount
  BY <1>2, RemountTypes, RemountIs DEF Locals, Local
<1>3. CASE UNCHANGED vars
  BY <1>3 DEF vars, entryVars, hashVars, bitmapVars, TypeInv, EntryTypes, ContentTypes, ListTypes, LruTypes, BitTypes,
              PcTypes, LocalTypes, GhostTypes, Locals, Local
<1>. QED  BY <1>1, <1>2, <1>3 DEF Next, Finished, Step

\* The types hold throughout, and the program counters say what they say.
LEMMA TypesInductive == Spec => [](TypeInv /\ Locals)
BY InitTypes, TypesNext, PTL DEF Spec

(***************************************************************************)
(* References, and the lock of the cache.                                  *)
(***************************************************************************)

\* A step that takes no reference and gives none back.
Keeps(t) ==
  /\ ref' = ref /\ (Holds(t)' <=> Holds(t)) /\ (Holds(t) => ent'[t] = ent[t] /\ want'[t] = want[t])
  /\ Recycles(t)' =>
       /\ want'[t] = want[t]
       /\ \/ Recycles(t) /\ ent'[t] = ent[t]
          \/ CacheFree(t) /\ Found(want[t]) = NULL /\ ent'[t] \in Entries /\ ref[ent'[t]] = 0
  /\ Scans(t)' => Scans(t) \/ \A u \in Threads : ~Recycles(u)
\* inode_get finds the entry.
Takes(t) ==
  \E e \in Entries : /\ CacheFree(t) /\ ~Holds(t) /\ ~Recycles(t) /\ Holds(t)' /\ ent'[t] = e /\ want'[t] = want[t]
                     /\ ref' = [ref EXCEPT ![e] = @ + 1] /\ e = Found(want[t])
\* inode_get recycles one.
Claims(t) ==
  /\ Recycles(t) /\ ~Holds(t) /\ Holds(t)' /\ ent'[t] = ent[t] /\ ent[t] \in Entries /\ want'[t] = want[t]
  /\ ref' = [ref EXCEPT ![ent[t]] = 1] /\ Claim(t)
\* inode_put.
GivesBack(t) ==
  /\ CacheFree(t) /\ Holds(t) /\ ~Holds(t)' /\ ent[t] \in Entries /\ ref' = [ref EXCEPT ![ent[t]] = @ - 1]

Kinds(t) == Keeps(t) \/ ((Takes(t) \/ Claims(t) \/ GivesBack(t)) /\ ~Recycles(t)' /\ ~Scans(t)')

\* Those who hold cannot recycle or scan.
LEMMA HoldsApart ==
  ASSUME NEW t \in Threads
  PROVE  Holds(t) => ~Recycles(t) /\ ~Scans(t)
BY DEF Holds, Recycles, Scans, SyncPcs

\* What the kind of a step depends on.
LEMMA SyncedKeeps ==
  ASSUME TypeInv, TypeInv', NEW t \in Threads, Local(t), pc[t] \in SyncPcs, NEW ok \in BOOLEAN, SyncedBy(t, ok),
         ref' = ref, why' = why, UNCHANGED callVars
  PROVE  Keeps(t)
<1>0. DOMAIN pc = Threads /\ NULL \notin Entries /\ ent[t] \in Entries /\ want' = want
  BY DEF TypeInv, PcTypes, Local, Entries, NULL, callVars
<1>1. CASE why[t] = "own" /\ op[t] = "use" /\ Goto(t, "put") /\ ent' = ent
  BY <1>0, <1>1 DEF Goto, Keeps, Holds, Recycles, Scans, SyncPcs
<1>2. CASE why[t] = "own" /\ op[t] = "alloc" /\ Goto(t, IF ok THEN "count" ELSE "rollback") /\ ent' = ent
  BY <1>0, <1>2 DEF Goto, Keeps, Holds, Recycles, Scans, SyncPcs
<1>3. CASE why[t] = "evict" /\ Goto(t, "claim") /\ ent' = ent
  BY <1>0, <1>3 DEF Goto, Keeps, Holds, Recycles, Scans, SyncPcs
<1>4. CASE why[t] = "all" /\ Goto(t, "all") /\ ent' = [ent EXCEPT ![t] = @ + 1]
  BY <1>0, <1>4 DEF Goto, Keeps, Holds, Recycles, Scans, SyncPcs
<1>. QED  BY <1>1, <1>2, <1>3, <1>4 DEF SyncedBy

\* Every step is of one of these kinds.
LEMMA StepKinds ==
  ASSUME TypeInv, TypeInv', NEW t \in Threads, Local(t), Step(t)
  PROVE  Kinds(t)
<1>0. /\ DOMAIN pc = Threads /\ DOMAIN ent = Threads /\ DOMAIN why = Threads /\ DOMAIN op = Threads
      /\ NULL \notin Entries
  BY DEF TypeInv, PcTypes, LocalTypes, Entries, NULL
<1>1. CASE Calls(t)
  <2>1. /\ pc[t] = "idle" /\ pc'[t] \in {"find", "all"} /\ ref' = ref
        /\ pc'[t] = "all" => \A u \in Threads : ~Recycles(u)
    BY <1>0, <1>1 DEF Calls, AllocBit, SyncAll, UseBegin, FreeBegin, Call, Goto, entryVars
  <2>. QED  BY <2>1 DEF Kinds, Keeps, Holds, Recycles, Scans, SyncPcs
<1>2. CASE GetHit(t)
  <2>1. PICK e \in Entries : /\ ref' = [ref EXCEPT ![e] = @ + 1] /\ ent' = [ent EXCEPT ![t] = e] /\ e = Found(want[t])
                             /\ Goto(t, IF e \in valid THEN "use" ELSE "reload")
    BY <1>2, FoundIs DEF GetHit, TypeInv, LocalTypes
  <2>2. pc[t] = "find" /\ CacheFree(t) /\ pc'[t] \in {"use", "reload"} /\ ent'[t] = e /\ want' = want
    BY <1>0, <1>2, <2>1 DEF GetHit, Goto, callVars
  <2>. QED  BY <2>1, <2>2 DEF Kinds, Takes, Holds, Recycles, Scans, SyncPcs
<1>3. CASE GetVictim(t)
  <2>1. PICK n \in Unused : /\ ent' = [ent EXCEPT ![t] = lru[n]]
                            /\ IF lru[n] \in dirty \cap valid
                               THEN Goto(t, "read") /\ why' = [why EXCEPT ![t] = "evict"]
                               ELSE Goto(t, "claim") /\ UNCHANGED why
    BY <1>3 DEF GetVictim
  <2>2. lru[n] \in Entries /\ ref[lru[n]] = 0
    BY LruLength DEF TypeInv, LruTypes, Unused
  <2>3. /\ pc[t] = "find" /\ CacheFree(t) /\ ref' = ref /\ ent'[t] = lru[n] /\ want' = want /\ Found(want[t]) = NULL
        /\ pc'[t] = "claim" \/ (pc'[t] = "read" /\ why'[t] = "evict")
    BY <1>0, <1>3, <2>1 DEF GetVictim, Goto, entryVars, callVars
  <2>. QED  BY <2>2, <2>3 DEF Kinds, Keeps, Holds, Recycles, Scans, SyncPcs
<1>4. CASE GetFull(t)
  <2>1. /\ pc[t] = "find" /\ ref' = ref /\ (pc'[t] = "idle" \/ (pc'[t] = "rollback" /\ ent'[t] = ent[t]))
    BY <1>0, <1>4 DEF GetFull, Goto, Return, entryVars
  <2>2. ent[t] = NULL
    BY <2>1 DEF Local
  <2>. QED  BY <1>0, <2>1, <2>2 DEF Kinds, Keeps, Holds, Recycles, Scans, SyncPcs
<1>5. CASE Claim(t)
  <2>1. /\ pc[t] = "claim" /\ pc'[t] = "load" /\ ref' = [ref EXCEPT ![ent[t]] = 1] /\ ent' = ent /\ want' = want
    BY <1>0, <1>5 DEF Claim, Goto, callVars
  <2>2. ent[t] \in Entries
    BY <2>1 DEF Local
  <2>. QED  BY <1>5, <2>1, <2>2 DEF Kinds, Claims, Holds, Recycles, Scans, SyncPcs
<1>6. CASE Load(t) \/ Reload(t) \/ LoadFault(t)
  <2>1. pc[t] \in {"load", "reload"} /\ pc'[t] \in {"use", "drop"} /\ ref' = ref /\ ent' = ent /\ want' = want
    BY <1>0, <1>6 DEF Load, Reload, LoadFault, Goto, entryVars, callVars
  <2>. QED  BY <2>1 DEF Kinds, Keeps, Holds, Recycles, Scans, SyncPcs
<1>7. CASE UseQuick(t) \/ UseSync(t) \/ FreeTruncate(t)
  <2>1. pc[t] = "use" /\ ref' = ref /\ ent' = ent /\ want' = want /\ (pc'[t] = "put" \/ (pc'[t] = "read" /\ why'[t] = "own"))
    BY <1>0, <1>7 DEF UseQuick, UseSync, FreeTruncate, Goto, callVars
  <2>. QED  BY <2>1 DEF Kinds, Keeps, Holds, Recycles, Scans, SyncPcs
<1>8. CASE Put(t)
  <2>1. pc[t] \in {"put", "drop"} /\ CacheFree(t) /\ ref' = [ref EXCEPT ![ent[t]] = @ - 1] /\ ent'[t] = NULL
    BY <1>0, <1>8, PutCases DEF Put
  <2>2. ent[t] \in Entries
    BY <2>1 DEF Local
  <2>3. pc'[t] \in {"unbit", "rollback", "idle"}
    BY <1>0, <1>8, PutCases DEF Return, Goto
  <2>. QED  BY <2>1, <2>2, <2>3 DEF Kinds, GivesBack, Holds, Recycles, Scans, SyncPcs
<1>9. CASE SyncRead(t) /\ ent[t] \in valid \cap dirty
  <2>1. pc[t] = "read" /\ pc'[t] = "write" /\ ref' = ref /\ ent' = ent /\ why' = why /\ want' = want
    BY <1>0, <1>9 DEF SyncRead, Goto, entryVars, callVars
  <2>. QED  BY <2>1 DEF Kinds, Keeps, Holds, Recycles, Scans, SyncPcs
<1>10. CASE SyncClear(t) \/ SyncFault(t) \/ (SyncRead(t) /\ ent[t] \notin valid \cap dirty)
  <2>1. pc[t] \in SyncPcs /\ (SyncedBy(t, TRUE) \/ SyncedBy(t, FALSE))
    BY <1>10, SyncedCases DEF SyncClear, SyncFault, SyncRead, SyncPcs
  <2>2. ref' = ref /\ why' = why /\ UNCHANGED callVars
    BY <1>10 DEF SyncClear, SyncFault, SyncRead, entryVars
  <2>. QED  BY <2>1, <2>2, SyncedKeeps DEF Kinds
<1>11. CASE SyncWrite(t)
  <2>1. pc[t] = "write" /\ pc'[t] = "clear" /\ ref' = ref /\ ent' = ent /\ why' = why /\ want' = want
    BY <1>0, <1>11 DEF SyncWrite, Goto, entryVars, callVars
  <2>. QED  BY <2>1 DEF Kinds, Keeps, Holds, Recycles, Scans, SyncPcs
<1>12. CASE ScanEntry(t) \/ ScanEnd(t)
  <2>1. pc[t] = "all" /\ ref' = ref /\ (pc'[t] \in {"all", "idle"} \/ (pc'[t] = "read" /\ why'[t] = "all"))
    BY <1>0, <1>12 DEF ScanEntry, ScanEnd, Goto, Return, entryVars
  <2>. QED  BY <2>1 DEF Kinds, Keeps, Holds, Recycles, Scans, SyncPcs
<1>13. CASE Bits(t)
  <2>1. /\ pc[t] \in {"rollback", "unbit", "count", "bitmap"} /\ ref' = ref
        /\ \/ /\ pc'[t] = "idle"
              /\ (pc[t] = "rollback" /\ ent[t] = NULL) \/ (pc[t] = "bitmap" /\ op[t] # "alloc")
           \/ pc[t] = "unbit" /\ pc'[t] = "count" /\ ent' = ent /\ want' = want
           \/ pc[t] = "count" /\ pc'[t] = "bitmap" /\ ent' = ent /\ want' = want
           \/ pc[t] = "bitmap" /\ op[t] = "alloc" /\ pc'[t] = "put" /\ ent' = ent /\ want' = want
           \/ pc[t] = "rollback" /\ ent[t] # NULL /\ pc'[t] = "put" /\ ent' = ent /\ want' = want
    BY <1>0, <1>13 DEF Bits, Rollback, FreeBit, Count, BitmapSync, Goto, Return, entryVars, callVars
  <2>2. /\ pc[t] = "unbit" => ent[t] = NULL
        /\ pc[t] = "bitmap" /\ op[t] # "alloc" => ent[t] = NULL
        /\ pc[t] = "bitmap" /\ op[t] = "alloc" => ent[t] # NULL
    BY <1>0 DEF Local
  <2>3. Holds(t)' <=> Holds(t)
    BY <2>1, <2>2 DEF Holds, SyncPcs
  <2>4. Holds(t) => ent'[t] = ent[t] /\ want'[t] = want[t]
    BY <2>1, <2>2 DEF Holds, SyncPcs
  <2>. QED  BY <2>1, <2>3, <2>4 DEF Kinds, Keeps, Recycles, Scans, SyncPcs
<1>. QED  BY <1>1, <1>2, <1>3, <1>4, <1>5, <1>6, <1>7, <1>8, <1>9, <1>10, <1>11, <1>12, <1>13
          DEF Step, Get, Work, Sync, Faults

\* One recycles alone, and nobody refers to what is recycled.
Alone ==
  /\ \A t, u \in Threads : t # u /\ Recycles(t) => ~Recycles(u) /\ ~Scans(u)
  /\ \A t \in Threads : Recycles(t) => ent[t] \in Entries /\ ref[ent[t]] = 0

Holders(e) == {t \in Threads : Holds(t) /\ ent[t] = e}
Counts == \A e \in Entries : ref[e] = Cardinality(Holders(e))

\* Holders can be counted.
LEMMA HoldersFinite ==
  \A e : IsFiniteSet(Holders(e)) /\ Cardinality(Holders(e)) \in Nat /\ Cardinality(Holders(e)) <= Cardinality(Threads)
<1>1. \A e : Holders(e) \in SUBSET Threads
  BY DEF Holders
<1>. QED  BY <1>1, FS_Subset, FS_CardinalityType

\* Nobody refers to an entry whose count is 0.
LEMMA NoHolders ==
  ASSUME Counts, NEW e \in Entries, ref[e] = 0
  PROVE  Holders(e) = {}
BY HoldersFinite, FS_EmptySet DEF Counts

\* The lock of the cache keeps the recycling alone.
LEMMA AloneStep ==
  ASSUME Alone, NEW t \in Threads, Beside(t), Kinds(t), ref \in [Entries -> Int]
  PROVE  Alone'
<1>1. \A u \in Threads \ {t} : /\ Recycles(u)' <=> Recycles(u)
                               /\ Scans(u)' <=> Scans(u)
                               /\ ent'[u] = ent[u]
  BY DEF Beside, Recycles, Scans
<1>2. CASE Keeps(t)
  BY <1>1, <1>2 DEF Keeps, Alone, CacheFree
<1>3. CASE Takes(t) \/ GivesBack(t)
  <2>1. ~Recycles(t)' /\ \A u \in Threads \ {t} : ~Recycles(u)
    BY <1>3, HoldsApart DEF Kinds, Keeps, Takes, GivesBack, CacheFree
  <2>. QED  BY <1>1, <2>1 DEF Alone
<1>4. CASE Claims(t) /\ ~Recycles(t)'
  <2>1. \A u \in Threads \ {t} : ~Recycles(u)
    BY <1>4 DEF Claims, Alone
  <2>. QED  BY <1>1, <1>4, <2>1 DEF Alone
<1>. QED  BY <1>2, <1>3, <1>4 DEF Kinds

\* A count follows its holders.
LEMMA CountsStep ==
  ASSUME Alone, Counts, NEW t \in Threads, Beside(t), Kinds(t), ref \in [Entries -> Int]
  PROVE  Counts'
<1>1. \A u \in Threads \ {t} : (Holds(u)' <=> Holds(u)) /\ ent'[u] = ent[u]
  BY DEF Beside, Holds
<1>2. CASE Keeps(t)
  <2>1. \A e : Holders(e)' = Holders(e)
    BY <1>1, <1>2 DEF Keeps, Holders
  <2>. QED  BY <1>2, <2>1 DEF Keeps, Counts
<1>3. CASE Takes(t)
  <2>1. PICK e \in Entries : ~Holds(t) /\ Holds(t)' /\ ent'[t] = e /\ ref' = [ref EXCEPT ![e] = @ + 1]
    BY <1>3 DEF Takes
  <2>2. Holders(e)' = Holders(e) \cup {t} /\ t \notin Holders(e) /\ \A x \in Entries \ {e} : Holders(x)' = Holders(x)
    BY <1>1, <2>1 DEF Holders
  <2>3. Cardinality(Holders(e)') = Cardinality(Holders(e)) + 1
    BY <2>2, HoldersFinite, FS_AddElement
  <2>. QED  BY <2>1, <2>2, <2>3 DEF Counts
<1>4. CASE Claims(t)
  <2>1. PICK e \in Entries : ent[t] = e /\ ref[e] = 0 /\ Holds(t)' /\ ent'[t] = e /\ ref' = [ref EXCEPT ![e] = 1]
    BY <1>4 DEF Claims, Alone
  <2>2. Holders(e) = {}
    BY <2>1, NoHolders
  <2>3. ~Holds(t)
    BY <1>4 DEF Claims
  <2>4. Holders(e)' = {t} /\ \A x \in Entries \ {e} : Holders(x)' = Holders(x)
    BY <1>1, <2>1, <2>2, <2>3 DEF Holders
  <2>5. Cardinality(Holders(e)') = 1
    BY <2>4, FS_Singleton
  <2>. QED  BY <2>1, <2>4, <2>5 DEF Counts
<1>5. CASE GivesBack(t)
  <2>1. PICK e \in Entries : ent[t] = e /\ Holds(t) /\ ~Holds(t)' /\ ref' = [ref EXCEPT ![e] = @ - 1]
    BY <1>5 DEF GivesBack
  <2>2. Holders(e)' = Holders(e) \ {t} /\ t \in Holders(e) /\ \A x \in Entries \ {e} : Holders(x)' = Holders(x)
    BY <1>1, <2>1 DEF Holders
  <2>3. Cardinality(Holders(e)') = Cardinality(Holders(e)) - 1
    BY <2>2, HoldersFinite, FS_RemoveElement
  <2>. QED  BY <2>1, <2>2, <2>3 DEF Counts
<1>. QED  BY <1>2, <1>3, <1>4, <1>5 DEF Kinds

RefInv == Alone /\ Counts

\* Nobody holds an entry at first.
LEMMA RefInit == Init => RefInv
<1>. SUFFICES ASSUME Init PROVE RefInv
  OBVIOUS
<1>1. \A t \in Threads : pc[t] = "idle"
  BY DEF Init
<1>2. \A t \in Threads : ~Recycles(t) /\ ~Holds(t)
  BY <1>1 DEF Recycles, Holds, SyncPcs
<1>3. \A e : Holders(e) = {}
  BY <1>2 DEF Holders
<1>4. \A e \in Entries : ref[e] = 0
  BY PoolTypes DEF Init
<1>. QED  BY <1>2, <1>3, <1>4, FS_EmptySet DEF RefInv, Alone, Counts

\* Locks and references, over every step.
LEMMA RefNext == TypeInv /\ TypeInv' /\ Locals /\ RefInv /\ [Next]_vars => RefInv'
<1>. SUFFICES ASSUME TypeInv, TypeInv', Locals, RefInv, [Next]_vars PROVE RefInv'
  OBVIOUS
<1>1. ASSUME NEW t \in Threads, Step(t) PROVE RefInv'
  <2>1. Beside(t) /\ Kinds(t) /\ ref \in [Entries -> Int]
    BY <1>1, StepBeside, StepKinds DEF Locals, TypeInv, EntryTypes
  <2>. QED  BY <2>1, AloneStep, CountsStep DEF RefInv
<1>2. CASE Remount
  <2>1. \A t \in Threads : pc'[t] = "idle"
    BY <1>2, RemountIs
  <2>2. \A t \in Threads : ~Recycles(t)' /\ ~Holds(t)'
    BY <2>1 DEF Recycles, Holds, SyncPcs
  <2>3. \A e : Holders(e)' = {}
    BY <2>2 DEF Holders
  <2>4. \A e \in Entries : ref'[e] = 0
    BY <1>2, RemountIs, PoolTypes
  <2>. QED  BY <2>2, <2>3, <2>4, FS_EmptySet DEF RefInv, Alone, Counts
<1>3. CASE UNCHANGED vars
  <2>1. /\ \A t \in Threads : /\ Recycles(t)' <=> Recycles(t)
                              /\ Scans(t)' <=> Scans(t)
                              /\ Holds(t)' <=> Holds(t)
        /\ ent' = ent /\ ref' = ref
    BY <1>3 DEF vars, entryVars, hashVars, bitmapVars, Recycles, Scans, Holds
  <2>2. \A e : Holders(e)' = Holders(e)
    BY <2>1 DEF Holders
  <2>. QED  BY <2>1, <2>2 DEF RefInv, Alone, Counts
<1>. QED  BY <1>1, <1>2, <1>3 DEF Next, Finished, Step

\* They hold throughout.
LEMMA RefInductive == Spec => [](TypeInv /\ Locals /\ RefInv)
<1>1. Init => RefInv
  BY RefInit
<1>. QED  BY TypesInductive, RefInit, RefNext, PTL DEF Spec

\* The reference counts are the references, for any number of threads and
\* entries: no path of inode_get, inode_alloc, inode_free or a failing call
\* keeps one or gives one back twice.
THEOREM ReferencesExact == Spec => []RefsExact
<1>1. RefInv => RefsExact
  BY DEF RefInv, Counts, Holders, RefsExact
<1>. QED  BY RefInductive, <1>1, PTL

(***************************************************************************)
(* The hash chains.                                                        *)
(***************************************************************************)

\* Numbers have buckets.
LEMMA HashType ==
  \A i \in Inums : Hash(i) \in Buckets
BY DEF Hash, Buckets, Inums

Lists(hd, nx, im) ==
  /\ hd \in [Buckets -> Entries \cup {NULL}] /\ nx \in [Entries -> Entries \cup {NULL}]
  /\ im \in [Entries -> Inums]

\* The entries of H are linked into the chains of their numbers, each once:
\* rank falls along a chain.
Linked(hd, nx, im, H, rank, k) ==
  /\ H \in SUBSET Entries /\ k \in Nat /\ rank \in [Entries -> 0 .. k]
  /\ \A b \in Buckets : hd[b] # NULL => hd[b] \in H /\ Hash(im[hd[b]]) = b
  /\ \A e \in H : nx[e] # NULL => nx[e] \in H /\ Hash(im[nx[e]]) = Hash(im[e]) /\ rank[nx[e]] < rank[e]
  /\ \A e \in H : hd[Hash(im[e])] = e \/ \E x \in H : nx[x] = e
  /\ \A x, y \in H : im[x] = im[y] => x = y

\* An entry that no chain has becomes the first of the chain of i.
LEMMA PushLinked ==
  ASSUME NEW hd, NEW nx, NEW im, Lists(hd, nx, im), NEW H, NEW rank, NEW k, Linked(hd, nx, im, H, rank, k),
         NEW e \in Entries \ H, NEW i \in Inums, \A y \in H : im[y] # i,
         NEW hd2, hd2 = [hd EXCEPT ![Hash(i)] = e],
         NEW nx2, nx2 = [nx EXCEPT ![e] = hd[Hash(i)]],
         NEW im2, im2 = [im EXCEPT ![e] = i]
  PROVE  Linked(hd2, nx2, im2, H \cup {e}, [rank EXCEPT ![e] = k + 1], k + 1)
<1>. DEFINE G == H \cup {e}
            r == [rank EXCEPT ![e] = k + 1]
            b == Hash(i)
<1>0. b \in Buckets /\ NULL \notin Entries /\ H \subseteq Entries /\ k \in Nat /\ rank \in [Entries -> 0 .. k]
  BY HashType DEF NULL, Entries, Linked
<1>1. G \in SUBSET Entries /\ k + 1 \in Nat /\ r \in [Entries -> 0 .. k + 1]
  BY <1>0
<1>2. /\ hd2[b] = e /\ (\A c \in Buckets : c # b => hd2[c] = hd[c])
      /\ nx2[e] = hd[b] /\ (\A x \in H : nx2[x] = nx[x])
      /\ im2[e] = i /\ (\A x \in H : im2[x] = im[x])
  BY <1>0 DEF Lists
<1>3. r[e] = k + 1 /\ \A x \in H : r[x] = rank[x] /\ r[x] < k + 1
  <2>1. r[e] = k + 1 /\ \A x \in H : r[x] = rank[x]
    BY <1>0
  <2>. QED  BY <1>0, <2>1
<1>4. \A x \in H : Hash(im[x]) \in Buckets
  BY <1>0, HashType DEF Lists
<1>. HIDE DEF b, r
<1>5. \A c \in Buckets : hd2[c] # NULL => hd2[c] \in G /\ Hash(im2[hd2[c]]) = c
  BY <1>0, <1>2 DEF Linked, b
<1>6. \A x \in G : nx2[x] # NULL => nx2[x] \in G /\ Hash(im2[nx2[x]]) = Hash(im2[x]) /\ r[nx2[x]] < r[x]
  BY <1>0, <1>2, <1>3 DEF Linked, b
<1>7. \A x \in G : hd2[Hash(im2[x])] = x \/ \E z \in G : nx2[z] = x
  BY <1>0, <1>2, <1>4 DEF Linked, b
<1>8. \A x, y \in G : im2[x] = im2[y] => x = y
  BY <1>0, <1>2 DEF Linked
<1>. HIDE DEF G
<1>9. Linked(hd2, nx2, im2, G, r, k + 1)
  BY <1>1, <1>5, <1>6, <1>7, <1>8 DEF Linked
<1>. QED  BY <1>9 DEF G, r

\* hash_remove: e is taken out of its chain.
Removed(hd, nx, im, H, e, hd2, nx2) ==
  /\ hd2[Hash(im[e])] = IF hd[Hash(im[e])] = e THEN nx[e] ELSE hd[Hash(im[e])]
  /\ \A c \in Buckets \ {Hash(im[e])} : hd2[c] = hd[c]
  /\ \A x \in Entries \ {e} :
       nx2[x] = IF x \in H /\ Hash(im[x]) = Hash(im[e]) /\ nx[x] = e THEN nx[e] ELSE nx[x]

\* The others keep their places.
LEMMA RemoveLinked ==
  ASSUME NEW hd, NEW nx, NEW im, Lists(hd, nx, im), NEW H, NEW rank, NEW k, Linked(hd, nx, im, H, rank, k),
         NEW e \in H, NEW hd2, NEW nx2, Removed(hd, nx, im, H, e, hd2, nx2)
  PROVE  Linked(hd2, nx2, im, H \ {e}, rank, k)
<1>. DEFINE G == H \ {e}
            b == Hash(im[e])
<1>0. /\ b \in Buckets /\ NULL \notin Entries /\ H \subseteq Entries /\ k \in Nat /\ rank \in [Entries -> 0 .. k]
      /\ e \in Entries
  BY HashType DEF NULL, Entries, Linked, Lists
<1>1. \A x \in H : Hash(im[x]) \in Buckets /\ rank[x] \in Int
  BY <1>0, HashType DEF Lists
<1>2. \A x \in H : nx[x] = e => Hash(im[x]) = Hash(im[e])
  BY <1>0 DEF Linked
<1>3. /\ hd2[b] = (IF hd[b] = e THEN nx[e] ELSE hd[b]) /\ (\A c \in Buckets : c # b => hd2[c] = hd[c])
      /\ \A x \in G : nx2[x] = IF nx[x] = e THEN nx[e] ELSE nx[x]
  <2>1. hd2[b] = IF hd[b] = e THEN nx[e] ELSE hd[b]
    BY DEF Removed
  <2>2. \A c \in Buckets : c # b => hd2[c] = hd[c]
    BY DEF Removed
  <2>3. ASSUME NEW x \in G PROVE nx2[x] = IF nx[x] = e THEN nx[e] ELSE nx[x]
    BY <1>0, <1>2 DEF Removed
  <2>. QED  BY <2>1, <2>2, <2>3
<1>4. nx[e] # NULL => nx[e] \in G /\ Hash(im[nx[e]]) = b /\ rank[nx[e]] < rank[e]
  BY <1>0, <1>1 DEF Linked
<1>. HIDE DEF b
<1>5. \A c \in Buckets : hd2[c] # NULL => hd2[c] \in G /\ Hash(im[hd2[c]]) = c
  <2>1. CASE hd[b] = e
    BY <1>0, <1>3, <1>4, <2>1 DEF Linked, b
  <2>2. CASE hd[b] # e
    BY <1>0, <1>3, <2>2 DEF Linked, b
  <2>. QED  BY <2>1, <2>2
<1>6. ASSUME NEW x \in G, nx2[x] # NULL PROVE nx2[x] \in G /\ Hash(im[nx2[x]]) = Hash(im[x]) /\ rank[nx2[x]] < rank[x]
  <2>1. CASE nx[x] = e
    <3>1. Hash(im[x]) = b /\ rank[e] < rank[x] /\ nx2[x] = nx[e]
      BY <1>0, <1>3, <2>1 DEF Linked, b
    <3>. QED  BY <1>0, <1>1, <1>4, <1>6, <3>1
  <2>2. CASE nx[x] # e
    BY <1>0, <1>3, <1>6, <2>2 DEF Linked
  <2>. QED  BY <2>1, <2>2
<1>7. ASSUME NEW y \in G PROVE hd2[Hash(im[y])] = y \/ \E z \in G : nx2[z] = y
  <2>1. CASE hd[Hash(im[y])] = y
    BY <1>1, <1>3, <2>1
  <2>2. ASSUME NEW x \in G, nx[x] = y PROVE \E z \in G : nx2[z] = y
    BY <1>3, <2>2
  <2>3. CASE nx[e] = y
    <3>1. Hash(im[y]) = b
      BY <1>0, <1>4, <2>3
    <3>2. CASE hd[b] = e
      BY <1>3, <2>3, <3>1, <3>2
    <3>3. ASSUME NEW z \in H, nx[z] = e PROVE \E q \in G : nx2[q] = y
      <4>1. rank[e] < rank[z]
        BY <1>0, <3>3 DEF Linked
      <4>2. z \in G
        BY <1>1, <4>1
      <4>. QED  BY <1>3, <2>3, <3>3, <4>2
    <3>4. hd[b] = e \/ \E z \in H : nx[z] = e
      BY DEF Linked, b
    <3>. QED  BY <3>2, <3>3, <3>4
  <2>4. hd[Hash(im[y])] = y \/ \E x \in H : nx[x] = y
    BY DEF Linked
  <2>. QED  BY <2>1, <2>2, <2>3, <2>4
<1>8. \A x, y \in G : im[x] = im[y] => x = y
  BY DEF Linked
<1>9. G \in SUBSET Entries
  BY <1>0
<1>. HIDE DEF G
<1>10. Linked(hd2, nx2, im, G, rank, k)
  BY <1>0, <1>5, <1>6, <1>7, <1>8, <1>9 DEF Linked
<1>. QED  BY <1>10 DEF G

\* The chain of b, walked, is the entries of H that belong there; the walk ends.
LEMMA Reached ==
  ASSUME TypeInv, NEW H, NEW rank, NEW k, Linked(head, hnext, inum, H, rank, k), NEW b \in Buckets
  PROVE  Chain(b) = {e \in H : Hash(inum[e]) = b} /\ Ends(b)
<1>. DEFINE w == Walk(b)
            N == 0 .. PoolSize
<1>0. /\ NULL \notin Entries /\ H \subseteq Entries /\ k \in Nat /\ rank \in [Entries -> 0 .. k] /\ PoolSize \in Nat
      /\ \A e \in H : inum[e] \in Inums /\ rank[e] \in 0 .. k
  BY DEF NULL, Entries, Linked, TypeInv, EntryTypes
<1>1. w \in [N -> Entries \cup {NULL}] /\ w[0] = head[b]
      /\ \A n \in 1 .. PoolSize : w[n] = IF w[n - 1] = NULL THEN NULL ELSE hnext[w[n - 1]]
  BY WalkIs DEF WalkOf
<1>2. Chain(b) = {w[n] : n \in N} \ {NULL} /\ (Ends(b) <=> w[PoolSize] = NULL)
  BY DEF Chain, Ends
<1>. HIDE DEF w
<1>3. \A n \in N : w[n] # NULL => w[n] \in H /\ Hash(inum[w[n]]) = b
  <2>. DEFINE S == {n \in N : w[n] # NULL => w[n] \in H /\ Hash(inum[w[n]]) = b}
  <2>1. 0 \in S
    BY <1>1 DEF Linked
  <2>2. ASSUME NEW n \in 0 .. PoolSize - 1, n \in S PROVE n + 1 \in S
    <3>1. n + 1 \in 1 .. PoolSize /\ n + 1 - 1 = n
      OBVIOUS
    <3>2. w[n + 1] = IF w[n + 1 - 1] = NULL THEN NULL ELSE hnext[w[n + 1 - 1]]
      BY <1>1, <3>1
    <3>. QED  BY <2>2, <3>1, <3>2 DEF Linked
  <2>. HIDE DEF S
  <2>3. \A n \in 0 .. PoolSize : n \in S
    BY <1>0, <2>1, <2>2, BoundedInduction
  <2>. QED  BY <2>3 DEF S
\* What is behind an entry has a lower rank.
<1>4. \A n \in N : \A m \in 0 .. n - 1 : w[n] # NULL => w[m] # NULL /\ rank[w[n]] < rank[w[m]]
  <2>. DEFINE S == {n \in N : \A m \in 0 .. n - 1 : w[n] # NULL => w[m] # NULL /\ rank[w[n]] < rank[w[m]]}
  <2>1. 0 \in S
    OBVIOUS
  <2>2. ASSUME NEW n \in 0 .. PoolSize - 1, n \in S PROVE n + 1 \in S
    <3>. DEFINE p == n + 1
    <3>1. p \in 1 .. PoolSize /\ p - 1 = n /\ p \in N /\ n \in N
      OBVIOUS
    <3>2. 0 .. p - 1 = (0 .. n - 1) \cup {n}
      OBVIOUS
    <3>. HIDE DEF p
    <3>3. w[p] = IF w[n] = NULL THEN NULL ELSE hnext[w[n]]
      BY <1>1, <3>1
    <3>4. w[p] # NULL => w[n] # NULL /\ w[n] \in H /\ w[p] \in H /\ rank[w[p]] < rank[w[n]]
      BY <1>3, <3>1, <3>3 DEF Linked
    <3>5. ASSUME NEW m \in 0 .. p - 1, w[p] # NULL PROVE w[m] # NULL /\ rank[w[p]] < rank[w[m]]
      <4>1. CASE m = n
        BY <3>4, <3>5, <4>1
      <4>2. CASE m \in 0 .. n - 1
        <5>1. w[m] # NULL /\ rank[w[n]] < rank[w[m]] /\ m \in N
          BY <2>2, <3>4, <3>5, <4>2
        <5>2. w[m] \in H
          BY <1>3, <5>1
        <5>. QED  BY <1>0, <3>4, <3>5, <5>1, <5>2
      <4>. QED  BY <3>2, <4>1, <4>2
    <3>6. p \in S
      BY <3>1, <3>5
    <3>. QED  BY <3>6 DEF p
  <2>. HIDE DEF S
  <2>3. \A n \in 0 .. PoolSize : n \in S
    BY <1>0, <2>1, <2>2, BoundedInduction
  <2>. QED  BY <2>3 DEF S
<1>5. w[PoolSize] = NULL
  <2>. SUFFICES ASSUME w[PoolSize] # NULL PROVE FALSE
    OBVIOUS
  <2>1. \A n \in N : w[n] \in Entries
    <3>1. PoolSize \in N
      BY <1>0
    <3>2. \A n \in N : n = PoolSize \/ n \in 0 .. PoolSize - 1
      BY <1>0
    <3>. QED  BY <1>1, <1>4, <3>1, <3>2
  <2>2. IsFiniteSet(Entries) /\ Cardinality(Entries) = PoolSize /\ IsFiniteSet(N) /\ Cardinality(N) = PoolSize + 1
    <3>1. IsFiniteSet(1 .. PoolSize) /\ Cardinality(1 .. PoolSize) = PoolSize
      BY <1>0, FS_Interval
    <3>2. IsFiniteSet(0 .. PoolSize) /\ Cardinality(0 .. PoolSize) = PoolSize + 1
      BY <1>0, FS_Interval
    <3>. QED  BY <3>1, <3>2 DEF Entries
  <2>3. w \in [N -> Entries]
    BY <1>1, <2>1
  <2>4. \E n, m \in N : n # m /\ w[n] = w[m]
    <3>. HIDE DEF N
    <3>. QED  BY <1>0, <2>2, <2>3, FS_PigeonHole
  <2>5. PICK n \in N, m \in N : m < n /\ w[n] = w[m]
    BY <2>4
  <2>6. rank[w[n]] < rank[w[m]] /\ w[n] \in H
    BY <1>3, <1>4, <2>1, <2>5, <1>0
  <2>. QED  BY <1>0, <2>5, <2>6
<1>6. \A e \in H : Hash(inum[e]) = b => e \in Chain(b)
  <2>. DEFINE U == {e \in H : Hash(inum[e]) = b /\ e \notin Chain(b)}
              R == {k - rank[e] : e \in U}
  <2>. SUFFICES ASSUME U # {} PROVE FALSE
    OBVIOUS
  <2>1. PICK e \in U : \A x \in U : rank[x] <= rank[e]
    <3>1. R \in SUBSET Nat /\ R # {}
      BY <1>0
    <3>2. PICK r \in R : \A q \in R : r <= q
      <4>. HIDE DEF R
      <4>. QED  BY <3>1, Least
    <3>3. PICK e \in U : r = k - rank[e]
      BY <3>2
    <3>4. \A x \in U : k - rank[e] <= k - rank[x]
      BY <3>2, <3>3
    <3>. QED  BY <1>0, <3>4
  <2>2. e \in H /\ Hash(inum[e]) = b /\ e \notin Chain(b) /\ e # NULL
    BY <1>0, <2>1
  <2>3. head[b] # e
    BY <1>0, <1>1, <1>2, <2>2
  <2>4. PICK x \in H : hnext[x] = e
    BY <2>2, <2>3 DEF Linked
  <2>5. Hash(inum[x]) = b /\ rank[e] < rank[x]
    BY <2>2, <2>4 DEF Linked
  <2>6. x \in Chain(b)
    BY <1>0, <2>1, <2>5
  <2>7. PICK n \in N : w[n] = x /\ x # NULL
    BY <1>2, <2>6
  <2>8. n # PoolSize /\ n + 1 \in 1 .. PoolSize /\ n + 1 - 1 = n
    BY <1>0, <1>5, <2>7
  <2>9. w[n + 1] = IF w[n + 1 - 1] = NULL THEN NULL ELSE hnext[w[n + 1 - 1]]
    BY <1>1, <2>8
  <2>10. w[n + 1] = e /\ n + 1 \in N
    BY <2>4, <2>7, <2>8, <2>9
  <2>. QED  BY <1>2, <2>2, <2>10
<1>7. \A e \in Chain(b) : e \in H /\ Hash(inum[e]) = b
  BY <1>2, <1>3
<1>. QED  BY <1>2, <1>5, <1>6, <1>7

\* A lookup finds the entry of H that has the number, if there is one.
LEMMA FoundLinked ==
  ASSUME TypeInv, NEW H, NEW rank, NEW k, Linked(head, hnext, inum, H, rank, k), NEW i \in Inums
  PROVE  /\ Found(i) # NULL => Found(i) \in H /\ inum[Found(i)] = i
         /\ Found(i) = NULL => \A e \in H : inum[e] # i
         /\ \A e \in H : inum[e] = i => Found(i) = e
<1>1. Hash(i) \in Buckets /\ Chain(Hash(i)) = {e \in H : Hash(inum[e]) = Hash(i)}
  BY HashType, Reached
<1>2. Found(i) # NULL => Found(i) \in H /\ inum[Found(i)] = i
  BY <1>1, FoundIs
<1>3. Found(i) = NULL => \A e \in H : inum[e] # i
  BY <1>1, FoundIs
<1>. QED  BY <1>2, <1>3 DEF Linked

\* What a step does to the chains: only Claim changes them, and only one who
\* holds an entry loads it.
LEMMA StepLists ==
  ASSUME TypeInv, NEW t \in Threads, Local(t), Step(t)
  PROVE  /\ crossed \subseteq crossed'
         /\ \/ Claim(t)
            \/ /\ UNCHANGED <<inum, head, hnext>>
               /\ valid' \subseteq valid \/ (Holds(t) /\ valid' \subseteq valid \cup {ent[t]})
<1>1. CASE Calls(t)
  BY <1>1 DEF Calls, AllocBit, SyncAll, UseBegin, FreeBegin, Call, entryVars, hashVars
<1>2. CASE Get(t)
  BY <1>2 DEF Get, GetHit, GetVictim, GetFull, Claim, Load, Reload, Cross, Holds, entryVars, hashVars
<1>3. CASE Work(t)
  BY <1>3 DEF Work, UseQuick, UseSync, FreeTruncate, Put, Holds, hashVars
<1>4. CASE Sync(t)
  BY <1>4 DEF Sync, SyncRead, SyncWrite, SyncClear, ScanEntry, ScanEnd, Cross, entryVars, hashVars
<1>5. CASE Bits(t)
  BY <1>5 DEF Bits, Rollback, FreeBit, Count, BitmapSync, Cross, entryVars, hashVars
<1>6. CASE Faults(t)
  BY <1>6 DEF Faults, LoadFault, SyncFault, Cross, entryVars, hashVars
<1>. QED  BY <1>1, <1>2, <1>3, <1>4, <1>5, <1>6 DEF Step

\* The chains hold the entries of H; a loaded one and one in use is among
\* them, under the number it is used for, and what is recycled is for a number
\* that is not there.
Shape(H, rank, k) ==
  /\ Linked(head, hnext, inum, H, rank, k) /\ valid \subseteq H
  /\ \A t \in Threads : Holds(t) => ent[t] \in H /\ inum[ent[t]] = want[t]
  /\ \A t \in Threads : Recycles(t) => \A y \in H : inum[y] # want[t]

ChainInv == "unhashed" \notin crossed => \E H, rank, k : Shape(H, rank, k)

\* A victim leaves its chain, if it was in one, and enters the one of its new
\* number.
LEMMA ClaimLinked ==
  ASSUME TypeInv, RefInv, NEW t \in Threads, Local(t), Beside(t), Claims(t), "unhashed" \notin crossed',
         NEW H, NEW rank, NEW k, Shape(H, rank, k)
  PROVE  ChainInv'
<1>A. PICK e \in Entries : e = ent[t]
  BY DEF Claims
<1>B. PICK i \in Inums : i = want[t]
  BY DEF TypeInv, LocalTypes
<1>. DEFINE r == Unhashed(e)
            G == H \ {e}
<1>0. Recycles(t) /\ ref[e] = 0 /\ Holds(t)' /\ ent'[t] = e /\ want'[t] = i
      /\ Lists(head, hnext, inum)
  BY <1>A, <1>B DEF Claims, RefInv, Alone, TypeInv, LocalTypes, ListTypes, EntryTypes, Lists
<1>1. /\ head' = [r.head EXCEPT ![Hash(i)] = e] /\ hnext' = [r.next EXCEPT ![e] = r.head[Hash(i)]]
      /\ inum' = [inum EXCEPT ![e] = i] /\ valid' = valid \ {e}
      /\ e \notin valid => e \notin Chain(Hash(inum[e]))
  BY <1>A, <1>B DEF Claims, Claim, Cross
<1>2. Linked(head, hnext, inum, H, rank, k) /\ Hash(inum[e]) \in Buckets /\ inum[e] \in Inums
  BY <1>0, HashType DEF Shape, Lists
<1>3. Chain(Hash(inum[e])) = {x \in H : Hash(inum[x]) = Hash(inum[e])}
  BY <1>2, Reached
<1>4. Lists(r.head, r.next, inum) /\ Linked(r.head, r.next, inum, G, rank, k)
  <2>1. CASE e \notin valid
    <3>1. e \notin H /\ G = H
      BY <1>1, <1>3, <2>1
    <3>2. r.head = head /\ r.next = hnext
      BY <2>1 DEF Unhashed
    <3>. QED  BY <1>0, <1>2, <3>1, <3>2
  <2>2. CASE e \in valid
    <3>. DEFINE hd == [head EXCEPT ![Hash(inum[e])] = IF @ = e THEN hnext[e] ELSE @]
                nx == [x \in Entries |-> IF x = e THEN NULL
                                         ELSE IF x \in Chain(Hash(inum[e])) /\ hnext[x] = e THEN hnext[e] ELSE hnext[x]]
    <3>1. r.head = hd /\ r.next = nx
      BY <2>2 DEF Unhashed
    <3>2. e \in H
      BY <2>2 DEF Shape
    <3>3. Lists(hd, nx, inum)
      BY <1>0, <1>2 DEF Lists
    <3>4. Linked(hd, nx, inum, G, rank, k)
      <4>1. hd[Hash(inum[e])] = IF head[Hash(inum[e])] = e THEN hnext[e] ELSE head[Hash(inum[e])]
        BY <1>0, <1>2 DEF Lists
      <4>2. \A c \in Buckets \ {Hash(inum[e])} : hd[c] = head[c]
        BY <1>0, <1>2 DEF Lists
      <4>3. \A x \in Entries \ {e} : nx[x] = IF x \in Chain(Hash(inum[e])) /\ hnext[x] = e THEN hnext[e] ELSE hnext[x]
        OBVIOUS
      <4>4. Lists(head, hnext, inum) /\ Linked(head, hnext, inum, H, rank, k)
        BY <1>0, <1>2
      <4>. HIDE DEF hd, nx
      <4>5. Removed(head, hnext, inum, H, e, hd, nx)
        BY <1>3, <4>1, <4>2, <4>3 DEF Removed
      <4>. QED  BY <3>2, <4>4, <4>5, RemoveLinked
    <3>. QED  BY <3>1, <3>3, <3>4
  <2>. QED  BY <2>1, <2>2
<1>5. \A y \in G : inum[y] # i
  BY <1>B, <1>0 DEF Shape
<1>. DEFINE rank2 == [rank EXCEPT ![e] = k + 1]
<1>6. Linked(head', hnext', inum', G \cup {e}, rank2, k + 1)
  <2>1. e \in Entries \ G
    BY <1>0
  <2>. HIDE DEF r, G
  <2>. QED  BY <1>0, <1>1, <1>4, <1>5, <2>1, PushLinked
<1>7. Shape(G \cup {e}, rank2, k + 1)'
  <2>1. valid' \subseteq G \cup {e}
    BY <1>1 DEF Shape
  <2>2. ASSUME NEW u \in Threads, Holds(u)' PROVE ent'[u] \in G \cup {e} /\ inum'[ent'[u]] = want'[u]
    <3>1. CASE u = t
      BY <1>0, <1>1, <3>1 DEF TypeInv, EntryTypes
    <3>2. CASE u # t
      <4>1. Holds(u) /\ ent'[u] = ent[u] /\ want'[u] = want[u]
        BY <2>2, <3>2 DEF Beside, Holds
      <4>2. ent[u] \in H /\ inum[ent[u]] = want[u] /\ ent[u] \in Entries
        BY <4>1 DEF Shape, Linked
      <4>3. ent[u] # e
        <5>1. Holders(e) = {}
          BY <1>0, NoHolders DEF RefInv
        <5>. QED  BY <4>1, <5>1 DEF Holders
      <4>. QED  BY <1>1, <4>1, <4>2, <4>3 DEF TypeInv, EntryTypes
    <3>. QED  BY <3>1, <3>2
  <2>3. ASSUME NEW u \in Threads, Recycles(u)' PROVE FALSE
    <3>1. u # t
      BY <1>0, <2>3 DEF Holds, Recycles, SyncPcs
    <3>2. Recycles(u)
      BY <2>3, <3>1 DEF Beside, Recycles
    <3>. QED  BY <1>0, <3>1, <3>2 DEF RefInv, Alone
  <2>. HIDE DEF r, G, rank2
  <2>. QED  BY <1>6, <2>1, <2>2, <2>3 DEF Shape
<1>. QED  BY <1>7 DEF ChainInv

\* The other steps find, keep or give back what the chains have.
LEMMA ChainStep ==
  ASSUME TypeInv, RefInv, ChainInv, NEW t \in Threads, Local(t), Step(t), Beside(t), Kinds(t)
  PROVE  ChainInv'
<1>. SUFFICES ASSUME "unhashed" \notin crossed' PROVE ChainInv'
  BY DEF ChainInv
<1>1. "unhashed" \notin crossed
  BY StepLists
<1>2. PICK H, rank, k : Shape(H, rank, k)
  BY <1>1 DEF ChainInv
<1>3. CASE Claims(t)
  BY <1>2, <1>3, ClaimLinked
<1>4. CASE ~Claims(t)
  <2>1. ~Claim(t)
    <3>1. Claim(t) => pc[t] = "claim"
      BY DEF Claim
    <3>2. Claim(t) => pc'[t] = "load"
      BY DEF Claim, Goto, TypeInv, PcTypes
    <3>. QED  BY <1>4, <3>1, <3>2 DEF Kinds, Keeps, Takes, GivesBack, Holds, Recycles, SyncPcs
  <2>2. UNCHANGED <<inum, head, hnext>> /\ (valid' \subseteq valid \/ (Holds(t) /\ valid' \subseteq valid \cup {ent[t]}))
    BY <2>1, StepLists
  <2>3. want[t] \in Inums
    BY DEF TypeInv, LocalTypes
  <2>4. valid' \subseteq H
    BY <1>2, <2>2 DEF Shape
  <2>5. ASSUME NEW u \in Threads, Holds(u)' PROVE ent'[u] \in H /\ inum[ent'[u]] = want'[u]
    <3>1. CASE u # t
      BY <1>2, <2>5, <3>1 DEF Beside, Holds, Shape
    <3>2. CASE u = t /\ Keeps(t)
      BY <1>2, <2>5, <3>2 DEF Keeps, Shape
    <3>3. CASE u = t /\ Takes(t)
      <4>1. PICK e \in Entries : ent'[t] = e /\ want'[t] = want[t] /\ e = Found(want[t]) /\ e # NULL
        BY <3>3 DEF Takes, Entries, NULL
      <4>. QED  BY <1>2, <2>3, <3>3, <4>1, FoundLinked DEF Shape
    <3>4. CASE u = t /\ GivesBack(t)
      BY <2>5, <3>4 DEF GivesBack
    <3>. QED  BY <1>4, <3>1, <3>2, <3>3, <3>4 DEF Kinds
  <2>6. ASSUME NEW u \in Threads, Recycles(u)' PROVE \A y \in H : inum[y] # want'[u]
    <3>1. CASE u # t
      BY <1>2, <2>6, <3>1 DEF Beside, Recycles, Shape
    <3>2. CASE u = t
      <4>1. Keeps(t)
        BY <1>4, <2>6, <3>2 DEF Kinds
      <4>2. want'[t] = want[t] /\ (Recycles(t) \/ Found(want[t]) = NULL)
        BY <2>6, <3>2, <4>1 DEF Keeps
      <4>. QED  BY <1>2, <2>3, <3>2, <4>2, FoundLinked DEF Shape
    <3>. QED  BY <3>1, <3>2
  <2>7. Shape(H, rank, k)'
    BY <1>2, <2>2, <2>4, <2>5, <2>6 DEF Shape
  <2>. QED  BY <2>7 DEF ChainInv
<1>. QED  BY <1>3, <1>4

\* The chains of a fresh pool are empty.
LEMMA PoolLinked ==
  Linked(EmptyPool.head, EmptyPool.inum, EmptyPool.inum, {}, EmptyPool.inum, 0)
BY PoolTypes DEF Linked, NULL

\* The first chains are empty.
LEMMA ChainInit == Init => ChainInv
<1>. SUFFICES ASSUME Init PROVE ChainInv
  OBVIOUS
<1>1. \A t \in Threads : ~Holds(t) /\ ~Recycles(t)
  BY DEF Init, Holds, Recycles, SyncPcs
<1>2. Shape({}, EmptyPool.inum, 0)
  BY <1>1, PoolLinked DEF Init, Shape
<1>. QED  BY <1>2 DEF ChainInv

\* The chains, over every step.
LEMMA ChainNext == TypeInv /\ Locals /\ RefInv /\ ChainInv /\ TypeInv' /\ [Next]_vars => ChainInv'
<1>. SUFFICES ASSUME TypeInv, Locals, RefInv, ChainInv, TypeInv', [Next]_vars PROVE ChainInv'
  OBVIOUS
<1>1. ASSUME NEW t \in Threads, Step(t) PROVE ChainInv'
  <2>1. Local(t) /\ Beside(t) /\ Kinds(t)
    BY <1>1, StepBeside, StepKinds DEF Locals
  <2>. QED  BY <1>1, <2>1, ChainStep
<1>2. CASE Remount
  <2>1. /\ \A t \in Threads : pc'[t] = "idle"
        /\ inum' = EmptyPool.inum /\ head' = EmptyPool.head /\ hnext' = EmptyPool.inum /\ valid' = {}
    BY <1>2, RemountIs
  <2>2. \A t \in Threads : ~Holds(t)' /\ ~Recycles(t)'
    BY <2>1 DEF Holds, Recycles, SyncPcs
  <2>3. Shape({}, EmptyPool.inum, 0)'
    BY <2>1, <2>2, PoolLinked DEF Shape
  <2>. QED  BY <2>3 DEF ChainInv
<1>3. CASE UNCHANGED vars
  BY <1>3 DEF vars, entryVars, hashVars, bitmapVars, ChainInv, Shape, Holds, Recycles
<1>. QED  BY <1>1, <1>2, <1>3 DEF Next, Finished, Step

(***************************************************************************)
(* What is stored in an inode.                                             *)
(***************************************************************************)

\* A step that changes no contents.
Rests(t) == UNCHANGED <<inum, valid, dirty, copy, table, latest>>
\* An entry takes what the table has.
Loads(t) ==
  /\ Holds(t) /\ ent[t] \in Entries /\ UNCHANGED <<inum, dirty, table, latest>>
  /\ copy' = [copy EXCEPT ![ent[t]] = table[want[t]]] /\ valid' = valid \cup {ent[t]}
  /\ ent[t] \in valid /\ copy[ent[t]] # table[want[t]] => "lateLoad" \in crossed'
\* An entry is changed by one who has it loaded.
Stores(t) ==
  /\ Holds(t) /\ ent[t] \in valid /\ UNCHANGED <<inum, valid, table>> /\ Store(t)
\* The block goes to the table, the dirty mark away.
Writes(t) ==
  /\ ent[t] \in valid /\ UNCHANGED <<inum, valid, dirty, copy, latest>>
  /\ table'[inum[ent[t]]] = copy[ent[t]]
  /\ (\A j \in Inums \ {inum[ent[t]]} : table'[j] = table[j]) \/ "tableRace" \in crossed'
Clears(t) ==
  /\ ent[t] \in valid /\ UNCHANGED <<inum, valid, copy, table, latest>> /\ dirty' = dirty \ {ent[t]}
  /\ copy[ent[t]] # table[inum[ent[t]]] => "syncRace" \in crossed'
\* A victim is recycled.
Forgets(t) ==
  /\ Claims(t) /\ pc[t] = "claim" /\ UNCHANGED <<copy, table, latest>> /\ inum' = [inum EXCEPT ![ent[t]] = want[t]]
  /\ valid' = valid \ {ent[t]} /\ dirty' = dirty \ {ent[t]}

ContentKinds(t) == Rests(t) \/ Loads(t) \/ Stores(t) \/ Writes(t) \/ Clears(t) \/ Forgets(t)

\* What is used or written is loaded; what is recycled owes no write.
Ready(t) == pc[t] \in {"use", "write", "clear"} => ent[t] \in valid
Clean(t) == pc[t] = "claim" => "dropped" \in crossed \/ ent[t] \notin valid \cap dirty

\* Every step is of one of these kinds; what it moves on to use is loaded.
LEMMA StepContents ==
  ASSUME TypeInv, TypeInv', NEW t \in Threads, Local(t), Ready(t), Step(t)
  PROVE  ContentKinds(t) /\ Ready(t)' /\ Clean(t)'
<1>0. /\ DOMAIN pc = Threads /\ DOMAIN ent = Threads /\ DOMAIN why = Threads /\ DOMAIN op = Threads
  BY DEF TypeInv, PcTypes, LocalTypes
<1>1. CASE Calls(t)
  <2>1. Rests(t) /\ pc'[t] \in {"find", "all"}
    BY <1>0, <1>1 DEF Calls, AllocBit, SyncAll, UseBegin, FreeBegin, Call, Goto, entryVars, Rests
  <2>. QED  BY <2>1 DEF ContentKinds, Ready, Clean
<1>2. CASE GetHit(t)
  <2>1. Rests(t)
    BY <1>2 DEF GetHit, Rests
  <2>2. PICK e : ent' = [ent EXCEPT ![t] = e] /\ Goto(t, IF e \in valid THEN "use" ELSE "reload")
    BY <1>2 DEF GetHit
  <2>3. ent'[t] = e /\ pc'[t] = IF e \in valid THEN "use" ELSE "reload"
    BY <1>0, <2>2 DEF Goto
  <2>. QED  BY <2>1, <2>3 DEF ContentKinds, Rests, Ready, Clean
<1>3. CASE GetVictim(t)
  <2>1. Rests(t)
    BY <1>3 DEF GetVictim, entryVars, Rests
  <2>2. PICK e : /\ ent' = [ent EXCEPT ![t] = e]
                 /\ IF e \in dirty \cap valid THEN Goto(t, "read") ELSE Goto(t, "claim")
    BY <1>3 DEF GetVictim
  <2>3. ent'[t] = e /\ pc'[t] = IF e \in dirty \cap valid THEN "read" ELSE "claim"
    BY <1>0, <2>2 DEF Goto
  <2>. QED  BY <2>1, <2>3 DEF ContentKinds, Rests, Ready, Clean
<1>4. CASE GetFull(t) \/ LoadFault(t) \/ Put(t) \/ Bits(t) \/ ScanEntry(t) \/ ScanEnd(t)
  <2>1. Rests(t)
    BY <1>4 DEF GetFull, LoadFault, Put, Bits, Rollback, FreeBit, Count, BitmapSync, ScanEntry, ScanEnd, entryVars, Rests
  <2>2. pc'[t] \notin {"use", "write", "clear", "claim"}
    BY <1>0, <1>4, PutCases DEF GetFull, LoadFault, Bits, Rollback, FreeBit, Count, BitmapSync, ScanEntry, ScanEnd, Goto, Return
  <2>. QED  BY <2>1, <2>2 DEF ContentKinds, Ready, Clean
<1>5. CASE Claim(t)
  <2>1. pc[t] = "claim" /\ pc'[t] = "load" /\ ent'[t] = ent[t] /\ want'[t] = want[t] /\ ent[t] \in Entries
    BY <1>0, <1>5 DEF Claim, Goto, Local, callVars
  <2>2. /\ UNCHANGED <<copy, table, latest>> /\ inum' = [inum EXCEPT ![ent[t]] = want[t]]
        /\ valid' = valid \ {ent[t]} /\ dirty' = dirty \ {ent[t]} /\ ref' = [ref EXCEPT ![ent[t]] = 1]
    BY <1>5 DEF Claim
  <2>3. Forgets(t)
    BY <1>5, <2>1, <2>2 DEF Forgets, Claims, Holds, Recycles, SyncPcs
  <2>. QED  BY <2>1, <2>3 DEF ContentKinds, Ready, Clean
<1>6. CASE Load(t) \/ Reload(t)
  <2>1. pc[t] \in {"load", "reload"} /\ pc'[t] = "use" /\ ent'[t] = ent[t] /\ ent[t] \in Entries /\ Holds(t) /\ ent[t] \in valid'
    BY <1>0, <1>6 DEF Load, Reload, Goto, Local, Holds
  <2>2. Loads(t) \/ Rests(t)
    BY <1>6, <2>1 DEF Load, Reload, Loads, Rests, Cross
  <2>. QED  BY <2>1, <2>2 DEF ContentKinds, Ready, Clean
<1>7. CASE UseQuick(t) \/ UseSync(t) \/ FreeTruncate(t)
  <2>1. pc[t] = "use" /\ pc'[t] \in {"put", "read"} /\ Holds(t) /\ ent[t] \in valid /\ UNCHANGED <<inum, valid, table>>
    BY <1>0, <1>7 DEF UseQuick, UseSync, FreeTruncate, Goto, Holds, Ready
  <2>2. Stores(t) \/ Rests(t)
    BY <1>7, <2>1 DEF UseQuick, UseSync, FreeTruncate, Stores, Rests
  <2>. QED  BY <2>1, <2>2 DEF ContentKinds, Ready, Clean
<1>8. CASE SyncRead(t) /\ ent[t] \in valid \cap dirty
  <2>1. Rests(t) /\ pc'[t] = "write" /\ ent' = ent
    BY <1>0, <1>8 DEF SyncRead, Goto, entryVars, Rests
  <2>. QED  BY <1>8, <2>1 DEF ContentKinds, Rests, Ready, Clean
<1>9. CASE SyncWrite(t)
  <2>1. /\ pc[t] = "write" /\ pc'[t] = "clear" /\ ent' = ent /\ ent[t] \in valid /\ inum[ent[t]] \in Inums
        /\ UNCHANGED <<inum, valid, dirty, copy, latest>>
    BY <1>0, <1>9 DEF SyncWrite, Goto, entryVars, Ready, TypeInv, EntryTypes
  <2>2. PICK i \in Inums : i = inum[ent[t]]
    BY <2>1
  <2>3. /\ table' = [j \in Inums |-> IF j = i THEN copy[ent[t]]
                                     ELSE IF Block(j) = Block(i) THEN image[t][j] ELSE table[j]]
        /\ crossed' = crossed \cup IF \E j \in Inums \ {i} : table'[j] # table[j] THEN {"tableRace"} ELSE {}
    BY <1>9, <2>2 DEF SyncWrite, Cross
  <2>4. table'[i] = copy[ent[t]]
    BY <2>3
  <2>5. Writes(t)
    BY <2>1, <2>2, <2>3, <2>4 DEF Writes
  <2>. QED  BY <2>1, <2>5 DEF ContentKinds, Ready, Clean
<1>10. CASE SyncClear(t) \/ SyncFault(t) \/ (SyncRead(t) /\ ent[t] \notin valid \cap dirty)
  <2>1. pc[t] \in SyncPcs /\ (SyncedBy(t, TRUE) \/ SyncedBy(t, FALSE))
    BY <1>10, SyncedCases DEF SyncClear, SyncFault, SyncRead, SyncPcs
  <2>2. pc'[t] \notin {"use", "write", "clear"} /\ (pc'[t] = "claim" => ent' = ent /\ why[t] = "evict")
    BY <1>0, <2>1 DEF SyncedBy, Goto
  <2>3. CASE SyncClear(t)
    <3>1. Clears(t) /\ dirty' = dirty \ {ent[t]}
      BY <2>3 DEF SyncClear, Clears, Ready, Cross
    <3>. QED  BY <2>2, <3>1 DEF ContentKinds, Ready, Clean
  <2>4. CASE SyncFault(t)
    <3>1. Rests(t) /\ (why[t] = "evict" => "dropped" \in crossed')
      BY <2>4 DEF SyncFault, Rests, entryVars, Cross
    <3>. QED  BY <2>2, <3>1 DEF ContentKinds, Ready, Clean
  <2>5. CASE SyncRead(t) /\ ent[t] \notin valid \cap dirty
    <3>1. Rests(t)
      BY <2>5 DEF SyncRead, Rests, entryVars
    <3>. QED  BY <2>2, <2>5, <3>1 DEF ContentKinds, Rests, Ready, Clean
  <2>. QED  BY <1>10, <2>3, <2>4, <2>5
<1>. QED  BY <1>1, <1>2, <1>3, <1>4, <1>5, <1>6, <1>7, <1>8, <1>9, <1>10 DEF Step, Get, Work, Sync, Faults

Readies == \A t \in Threads : Ready(t) /\ Clean(t)

\* An inode whose latest contents are not in the table has a loaded, dirty
\* entry; and what is loaded is the latest.
Owed ==
  crossed \cap Losses = {} =>
    /\ \A i \in Inums : table[i] # latest[i] => \E e \in valid \cap dirty : inum[e] = i
    /\ \A e \in valid : copy[e] = latest[inum[e]]

ContentInv == Readies /\ Owed

\* No step takes from another thread the entry that it uses, writes or recycles.
LEMMA ReadiesStep ==
  ASSUME TypeInv, RefInv, Readies, NEW t \in Threads, Beside(t), ContentKinds(t), Ready(t)', Clean(t)',
         crossed \subseteq crossed'
  PROVE  Readies'
<1>1. ASSUME NEW u \in Threads, u # t PROVE Ready(u)' /\ Clean(u)'
  <2>1. pc'[u] = pc[u] /\ ent'[u] = ent[u] /\ why'[u] = why[u]
    BY <1>1 DEF Beside
  <2>2. pc[u] \in {"use", "write", "clear"} => Holds(u) \/ Recycles(u) \/ Scans(u)
    BY DEF Holds, Recycles, Scans, SyncPcs, TypeInv, PcTypes
  <2>3. Ready(u)'
    <3>1. CASE Claims(t)
      <4>1. Recycles(t) /\ ref[ent[t]] = 0 /\ ent[t] \in Entries
        BY <3>1 DEF Claims, RefInv, Alone
      <4>2. ~Recycles(u) /\ ~Scans(u)
        BY <1>1, <4>1 DEF RefInv, Alone
      <4>3. Holds(u) => ent[u] # ent[t]
        BY <4>1, NoHolders DEF RefInv, Holders
      <4>4. valid' = valid \ {ent[t]}
        BY <3>1 DEF Claims, Claim
      <4>. QED  BY <2>1, <2>2, <4>2, <4>3, <4>4 DEF Readies, Ready
    <3>2. CASE ~Claims(t)
      BY <2>1, <3>2 DEF Readies, Ready, ContentKinds, Rests, Loads, Stores, Writes, Clears, Forgets
    <3>. QED  BY <3>1, <3>2
  <2>4. Clean(u)'
    <3>. SUFFICES ASSUME pc[u] = "claim", "dropped" \notin crossed' PROVE ent[u] \notin valid' \cap dirty'
      BY <2>1 DEF Clean
    <3>1. Recycles(u) /\ ent[u] \in Entries /\ ref[ent[u]] = 0
      BY DEF Recycles, RefInv, Alone
    <3>2. Holds(t) => ent[t] # ent[u]
      BY <3>1, NoHolders DEF RefInv, Holders
    <3>3. ent[u] \notin valid \cap dirty
      BY DEF Readies, Clean
    <3>. QED  BY <3>2, <3>3 DEF ContentKinds, Rests, Loads, Stores, Writes, Clears, Forgets, Store
  <2>. QED  BY <2>3, <2>4
<1>. QED  BY <1>1 DEF Readies

\* Within the limits, a step keeps what is owed to the table.
LEMMA OwedStep ==
  ASSUME TypeInv, TypeInv', ChainInv, Readies, Owed, NEW t \in Threads, ContentKinds(t), crossed \subseteq crossed'
  PROVE  Owed'
<1>. SUFFICES ASSUME crossed' \cap Losses = {} PROVE Owed'
  BY DEF Owed
<1>1. "unhashed" \notin crossed /\ "dropped" \notin crossed /\ crossed \cap Losses = {}
      /\ "lateLoad" \notin crossed' /\ "tableRace" \notin crossed' /\ "syncRace" \notin crossed'
  BY DEF Losses
<1>2. /\ \A i \in Inums : table[i] # latest[i] => \E e \in valid \cap dirty : inum[e] = i
      /\ \A e \in valid : copy[e] = latest[inum[e]]
  BY <1>1 DEF Owed
<1>3. PICK H, rank, k : Shape(H, rank, k)
  BY <1>1 DEF ChainInv
<1>4. /\ H \subseteq Entries /\ valid \subseteq H /\ (\A x, y \in H : inum[x] = inum[y] => x = y)
      /\ Holds(t) => ent[t] \in H /\ inum[ent[t]] = want[t]
  BY <1>3 DEF Shape, Linked
<1>5. /\ inum \in [Entries -> Inums] /\ copy \in [Entries -> 0 .. MaxOps] /\ latest \in [Inums -> 0 .. MaxOps]
      /\ want[t] \in Inums /\ valid \subseteq Entries
  BY DEF TypeInv, EntryTypes, ContentTypes, LocalTypes
<1>6. CASE Rests(t)
  BY <1>2, <1>6 DEF Rests, Owed
<1>7. CASE Loads(t)
  <2>. DEFINE a == ent[t]
  <2>1. a \in H /\ inum[a] = want[t] /\ a \in Entries
    BY <1>4, <1>7 DEF Loads
  <2>2. a \notin valid => table[want[t]] = latest[want[t]]
    BY <1>2, <1>4, <1>5, <2>1
  <2>3. a \in valid => table[want[t]] = copy[a]
    BY <1>1, <1>7 DEF Loads
  <2>4. table[want[t]] = latest[inum[a]]
    BY <1>2, <2>1, <2>2, <2>3
  <2>5. \A e \in valid' : copy'[e] = latest'[inum'[e]]
    BY <1>2, <1>5, <1>7, <2>1, <2>4 DEF Loads
  <2>6. \A i \in Inums : table'[i] # latest'[i] => \E e \in valid' \cap dirty' : inum'[e] = i
    BY <1>2, <1>7 DEF Loads
  <2>. QED  BY <2>5, <2>6 DEF Owed
<1>8. CASE Stores(t)
  <2>. DEFINE a == ent[t]
  <2>1. a \in H /\ inum[a] = want[t] /\ a \in Entries /\ a \in valid
    BY <1>4, <1>8 DEF Stores
  <2>2. /\ copy' = [copy EXCEPT ![a] = ver[t]] /\ dirty' = dirty \cup {a} /\ latest' = [latest EXCEPT ![want[t]] = ver[t]]
        /\ UNCHANGED <<inum, valid, table>>
    BY <1>8 DEF Stores, Store
  <2>3. \A e \in valid : e # a => inum[e] # want[t] /\ inum[e] \in Inums
    BY <1>4, <1>5, <2>1
  <2>4. \A e \in valid' : copy'[e] = latest'[inum'[e]]
    BY <1>2, <1>5, <2>1, <2>2, <2>3
  <2>5. \A i \in Inums : table'[i] # latest'[i] => \E e \in valid' \cap dirty' : inum'[e] = i
    BY <1>2, <1>5, <2>1, <2>2
  <2>. QED  BY <2>4, <2>5 DEF Owed
<1>9. CASE Writes(t)
  <2>1. table'[inum[ent[t]]] = latest[inum[ent[t]]]
    BY <1>2, <1>9 DEF Writes
  <2>2. \A j \in Inums \ {inum[ent[t]]} : table'[j] = table[j]
    BY <1>1, <1>9 DEF Writes
  <2>. QED  BY <1>2, <1>9, <2>1, <2>2 DEF Writes, Owed
<1>10. CASE Clears(t)
  <2>1. table[inum[ent[t]]] = latest[inum[ent[t]]]
    BY <1>1, <1>2, <1>10 DEF Clears
  <2>. QED  BY <1>2, <1>10, <2>1 DEF Clears, Owed
<1>11. CASE Forgets(t)
  <2>1. ent[t] \notin valid \cap dirty
    BY <1>1, <1>11 DEF Forgets, Readies, Clean
  <2>. QED  BY <1>2, <1>5, <1>11, <2>1 DEF Forgets, Owed
<1>. QED  BY <1>6, <1>7, <1>8, <1>9, <1>10, <1>11 DEF ContentKinds

\* At first the table has everything.
LEMMA ContentInit == Init => ContentInv
<1>. SUFFICES ASSUME Init PROVE ContentInv
  OBVIOUS
<1>1. Readies
  BY DEF Init, Readies, Ready, Clean
<1>2. Owed
  BY DEF Init, Owed
<1>. QED  BY <1>1, <1>2 DEF ContentInv

\* The contents, over every step.
LEMMA ContentNext == TypeInv /\ TypeInv' /\ Locals /\ RefInv /\ ChainInv /\ ContentInv /\ [Next]_vars => ContentInv'
<1>. SUFFICES ASSUME TypeInv, TypeInv', Locals, RefInv, ChainInv, ContentInv, [Next]_vars PROVE ContentInv'
  OBVIOUS
<1>1. ASSUME NEW t \in Threads, Step(t) PROVE ContentInv'
  <2>1. Local(t) /\ Ready(t)
    BY DEF Locals, ContentInv, Readies
  <2>2. Beside(t) /\ ContentKinds(t) /\ Ready(t)' /\ Clean(t)' /\ crossed \subseteq crossed'
    BY <1>1, <2>1, StepBeside, StepContents, StepLists
  <2>. QED  BY <2>2, ReadiesStep, OwedStep DEF ContentInv
<1>2. CASE Remount
  <2>1. /\ \A t \in Threads : pc'[t] = "idle"
        /\ latest' = latest /\ valid' = {} /\ crossed \subseteq crossed'
        /\ \A i \in Inums : \/ (\A e \in valid \cap dirty : inum[e] # i) /\ table'[i] = table[i]
                            \/ \E e \in valid \cap dirty : inum[e] = i /\ table'[i] = copy[e]
    BY <1>2, RemountIs
  <2>2. Readies'
    BY <2>1 DEF Readies, Ready, Clean
  <2>3. Owed'
    <3>. SUFFICES ASSUME crossed' \cap Losses = {}, NEW i \in Inums PROVE table'[i] = latest'[i]
      BY <2>1 DEF Owed
    <3>1. crossed \cap Losses = {}
      BY <2>1
    <3>. QED  BY <2>1, <3>1 DEF ContentInv, Owed
  <2>. QED  BY <2>2, <2>3 DEF ContentInv
<1>3. CASE UNCHANGED vars
  BY <1>3 DEF vars, entryVars, hashVars, bitmapVars, ContentInv, Readies, Ready, Clean, Owed
<1>. QED  BY <1>1, <1>2, <1>3 DEF Next, Finished, Step

\* All of it together.
LEMMA CacheInductive == Spec => [](TypeInv /\ RefInv /\ ChainInv /\ ContentInv)
BY InitTypes, TypesNext, RefInit, RefNext, ChainInit, ChainNext, ContentInit, ContentNext, PTL DEF Spec

\* No change of an inode is lost, whatever the threads, the recycling and the
\* failing calls do, as long as the limits that the code does not enforce are
\* kept: a victim is written before it goes, and a load sees what was written.
THEOREM ChangesAreKept == Spec => []NothingLost
<1>1. ContentInv => NothingLost
  BY DEF ContentInv, Owed, NothingLost
<1>. QED  BY CacheInductive, <1>1, PTL

(***************************************************************************)
(* The inode bitmap.                                                       *)
(***************************************************************************)

\* How far an inode_alloc or inode_free is with its bit: an alloc has the bit
\* ("alloc", and "counted" once free_inodes knows); a free wants to clear the
\* bit of an inode that is named ("wants"), then of one that no directory
\* names ("has"), has cleared it ("due") and has counted it ("gone").
Phase(t) ==
  IF op[t] = "alloc" THEN IF pc[t] = "put" THEN "none" ELSE IF pc[t] = "bitmap" THEN "counted" ELSE "alloc"
  ELSE IF op[t] = "free"
  THEN IF pc[t] \in {"put", "unbit"} THEN "has" ELSE IF pc[t] = "count" THEN "due"
       ELSE IF pc[t] = "bitmap" THEN "gone" ELSE "wants"
  ELSE "none"

Marks   == {"alloc", "counted", "has"}
Freeing == {"wants", "has", "due", "gone"}

\* A step that leaves the bitmap alone.
Quiet(t) ==
  /\ UNCHANGED <<bits, stored, live, free>>
  /\ \/ Phase(t)' = "none" /\ Phase(t) \in {"none", "wants"}
     \/ Phase(t)' = Phase(t) /\ want'[t] = want[t]
\* The first clear bit is set; a free begins.
Marked(t) ==
  /\ Phase(t) = "none" /\ Phase(t)' = "alloc" /\ want'[t] \in Inums \ bits /\ bits' = bits \cup {want'[t]}
  /\ UNCHANGED <<stored, live, free>>
Wanted(t) ==
  /\ Phase(t) = "none" /\ Phase(t)' = "wants" /\ want'[t] \in live
  /\ \A u \in Threads : Phase(u) \in Freeing => want[u] # want'[t]
  /\ UNCHANGED <<bits, stored, live, free>>
\* The truncated inode has no name; its bit is cleared.
Unnamed(t) ==
  /\ Phase(t) = "wants" /\ Phase(t)' = "has" /\ want'[t] = want[t] /\ live' = live \ {want[t]}
  /\ UNCHANGED <<bits, stored, free>>
Cleared(t) ==
  /\ Phase(t) = "has" /\ Phase(t)' = "due" /\ want'[t] = want[t] /\ bits' = bits \ {want[t]}
  /\ UNCHANGED <<stored, live, free>>
\* A failing alloc clears the bit again.
Unmarked(t) ==
  /\ Phase(t) = "alloc" /\ Phase(t)' = "none" /\ bits' = bits \ {want[t]}
  /\ want[t] \in stored => "unrolled" \in crossed'
  /\ UNCHANGED <<stored, live, free>>
\* free_inodes follows, and the disk.
Reckoned(t) ==
  /\ want'[t] = want[t] /\ UNCHANGED <<bits, stored, live>>
  /\ \/ Phase(t) = "alloc" /\ Phase(t)' = "counted" /\ (free' = free - 1 \/ "count" \in crossed')
     \/ Phase(t) = "due" /\ Phase(t)' = "gone" /\ (free' = free + 1 \/ "count" \in crossed')
Saved(t) ==
  /\ Phase(t)' = "none" /\ UNCHANGED <<bits, free>>
  /\ stored' = bits \/ (stored' = stored /\ "unstored" \in crossed')
  /\ \/ Phase(t) = "counted" /\ live' = live \cup {want[t]}
     \/ Phase(t) = "gone" /\ live' = live

BitKinds(t) ==
  \/ Quiet(t) \/ Marked(t) \/ Wanted(t) \/ Unnamed(t) \/ Cleared(t) \/ Unmarked(t) \/ Reckoned(t) \/ Saved(t)

\* Every step is of one of these kinds.
LEMMA StepBits ==
  ASSUME TypeInv, TypeInv', NEW t \in Threads, Local(t), Step(t)
  PROVE  BitKinds(t) /\ crossed \subseteq crossed'
<1>0. /\ DOMAIN pc = Threads /\ DOMAIN ent = Threads /\ DOMAIN why = Threads /\ DOMAIN op = Threads /\ DOMAIN want = Threads
      /\ NULL \notin Entries
  BY DEF TypeInv, PcTypes, LocalTypes, Entries, NULL
<1>. DEFINE Still == UNCHANGED <<bits, stored, live, free>>
<1>1. CASE Calls(t)
  <2>1. pc[t] = "idle" /\ crossed' = crossed /\ UNCHANGED <<stored, live, free>> /\ op[t] = "none"
    BY <1>1 DEF Calls, AllocBit, SyncAll, UseBegin, FreeBegin, Call, Local
  <2>2. CASE AllocBit(t)
    <3>1. PICK i : i = Lowest(Inums \ bits) /\ Call(t, "alloc", i) /\ bits' = bits \cup {i} /\ Goto(t, "find")
      BY <2>2 DEF AllocBit
    <3>2. i \in Inums \ bits
      <4>1. Inums \ bits \in SUBSET Nat /\ Inums \ bits # {}
        BY <2>2 DEF AllocBit, Inums
      <4>2. \E n \in Inums \ bits : \A m \in Inums \ bits : n <= m
        BY <4>1, Least
      <4>. QED  BY <3>1, <4>2 DEF Lowest
    <3>3. pc'[t] = "find" /\ op'[t] = "alloc" /\ want'[t] = i
      BY <1>0, <3>1 DEF Call, Goto
    <3>4. Marked(t)
      BY <2>1, <3>1, <3>2, <3>3 DEF Marked, Phase
    <3>. QED  BY <2>1, <3>4 DEF BitKinds
  <2>3. CASE SyncAll(t)
    <3>1. pc'[t] = "all" /\ op'[t] = "all" /\ bits' = bits
      BY <1>0, <2>3 DEF SyncAll, Call, Goto
    <3>2. Quiet(t)
      BY <2>1, <3>1 DEF Quiet, Phase
    <3>. QED  BY <2>1, <3>2 DEF BitKinds
  <2>4. ASSUME NEW i \in Inums, UseBegin(t, i) PROVE Quiet(t)
    <3>1. pc'[t] = "find" /\ op'[t] = "use" /\ bits' = bits
      BY <1>0, <2>4 DEF UseBegin, Call, Goto
    <3>. QED  BY <2>1, <3>1 DEF Quiet, Phase
  <2>5. ASSUME NEW i \in Inums, FreeBegin(t, i) PROVE Wanted(t)
    <3>1. pc'[t] = "find" /\ op'[t] = "free" /\ want'[t] = i /\ bits' = bits /\ i \in live
          /\ \A u \in Threads : op[u] = "free" => want[u] # i
      BY <1>0, <2>5 DEF FreeBegin, Call, Goto
    <3>2. \A u \in Threads : Phase(u) \in Freeing => op[u] = "free"
      BY DEF Phase, Freeing
    <3>. QED  BY <2>1, <3>1, <3>2 DEF Wanted, Phase
  <2>. QED  BY <1>1, <2>1, <2>2, <2>3, <2>4, <2>5 DEF Calls, BitKinds
<1>2. CASE GetHit(t) \/ GetVictim(t) \/ Claim(t) \/ Load(t) \/ Reload(t) \/ LoadFault(t)
  <2>1. /\ pc[t] \in {"find", "claim", "load", "reload"} /\ op' = op /\ want' = want /\ Still
        /\ pc'[t] \in {"use", "reload", "read", "claim", "load", "drop"} /\ crossed \subseteq crossed'
    BY <1>0, <1>2 DEF GetHit, GetVictim, Claim, Load, Reload, LoadFault, Goto, callVars, bitmapVars, Cross
  <2>2. Quiet(t)
    BY <2>1 DEF Quiet, Phase
  <2>. QED  BY <2>1, <2>2 DEF BitKinds
<1>3. CASE GetFull(t)
  <2>1. /\ pc[t] = "find" /\ Still /\ crossed' = crossed
        /\ \/ pc'[t] = "rollback" /\ op[t] = "alloc" /\ op' = op /\ want' = want
           \/ pc'[t] = "idle" /\ op'[t] = "none" /\ op[t] # "alloc"
    BY <1>0, <1>3 DEF GetFull, Goto, Return, callVars, bitmapVars
  <2>2. Quiet(t)
    BY <2>1 DEF Quiet, Phase
  <2>. QED  BY <2>1, <2>2 DEF BitKinds
<1>4. CASE UseQuick(t) \/ UseSync(t)
  <2>1. /\ pc[t] = "use" /\ op' = op /\ want' = want /\ Still /\ crossed' = crossed
        /\ \/ op[t] = "use" /\ pc'[t] = "put"
           \/ op[t] \in {"use", "alloc"} /\ pc'[t] = "read"
    BY <1>0, <1>4 DEF UseQuick, UseSync, Goto, callVars, bitmapVars
  <2>2. Quiet(t)
    BY <2>1 DEF Quiet, Phase
  <2>. QED  BY <2>1, <2>2 DEF BitKinds
<1>5. CASE FreeTruncate(t)
  <2>1. /\ pc[t] = "use" /\ op[t] = "free" /\ op' = op /\ want' = want /\ crossed' = crossed /\ pc'[t] = "put"
        /\ UNCHANGED <<bits, stored, free>> /\ live' = live \ {want[t]}
    BY <1>0, <1>5 DEF FreeTruncate, Goto, callVars
  <2>2. Unnamed(t)
    BY <2>1 DEF Unnamed, Phase
  <2>. QED  BY <2>1, <2>2 DEF BitKinds
<1>6. CASE Put(t)
  <2>1. /\ pc[t] \in {"put", "drop"} /\ Still /\ crossed' = crossed
        /\ \/ pc[t] = "put" /\ op[t] = "free" /\ pc'[t] = "unbit" /\ op' = op /\ want' = want
           \/ pc[t] = "drop" /\ op[t] = "alloc" /\ pc'[t] = "rollback" /\ op' = op /\ want' = want
           \/ /\ (pc[t] = "put" /\ op[t] # "free") \/ (pc[t] = "drop" /\ op[t] # "alloc")
              /\ pc'[t] = "idle" /\ op'[t] = "none"
    BY <1>0, <1>6, PutCases DEF Put, Goto, Return, callVars, bitmapVars
  <2>2. Quiet(t)
    BY <2>1 DEF Quiet, Phase
  <2>. QED  BY <2>1, <2>2 DEF BitKinds
<1>7. CASE SyncWrite(t) \/ (SyncRead(t) /\ ent[t] \in valid \cap dirty)
  <2>1. /\ pc[t] \in {"read", "write"} /\ op' = op /\ want' = want /\ Still /\ pc'[t] \in {"clear", "write"} /\ crossed \subseteq crossed'
    BY <1>0, <1>7 DEF SyncRead, SyncWrite, Goto, Cross, callVars, bitmapVars
  <2>2. Quiet(t)
    BY <2>1 DEF Quiet, Phase
  <2>. QED  BY <2>1, <2>2 DEF BitKinds
<1>8. CASE SyncClear(t) \/ SyncFault(t) \/ (SyncRead(t) /\ ent[t] \notin valid \cap dirty)
  <2>1. pc[t] \in SyncPcs /\ (SyncedBy(t, TRUE) \/ SyncedBy(t, FALSE))
    BY <1>8, SyncedCases DEF SyncClear, SyncFault, SyncRead, SyncPcs
  <2>2. op' = op /\ want' = want /\ Still /\ crossed \subseteq crossed'
    BY <1>8 DEF SyncClear, SyncFault, SyncRead, callVars, bitmapVars, Cross
  <2>3. \/ op[t] = "use" /\ pc'[t] = "put"
        \/ op[t] = "alloc" /\ pc'[t] \in {"count", "rollback"}
        \/ pc'[t] \in {"claim", "all"}
    BY <1>0, <2>1 DEF SyncedBy, Goto
  <2>4. Quiet(t)
    BY <2>1, <2>2, <2>3 DEF Quiet, Phase, SyncPcs
  <2>. QED  BY <2>2, <2>4 DEF BitKinds
<1>9. CASE ScanEntry(t) \/ ScanEnd(t)
  <2>1. pc[t] = "all" /\ op[t] = "all" /\ (op'[t] = "all" \/ op'[t] = "none") /\ Still /\ crossed' = crossed
    BY <1>0, <1>9 DEF ScanEntry, ScanEnd, Return, Local, callVars, bitmapVars
  <2>2. Quiet(t)
    BY <2>1 DEF Quiet, Phase
  <2>. QED  BY <2>1, <2>2 DEF BitKinds
<1>10. CASE Rollback(t)
  <2>1. /\ pc[t] = "rollback" /\ op[t] = "alloc" /\ bits' = bits \ {want[t]} /\ UNCHANGED <<stored, live, free>>
        /\ crossed \subseteq crossed' /\ (want[t] \in stored => "unrolled" \in crossed')
        /\ \/ pc'[t] = "idle" /\ op'[t] = "none"
           \/ pc'[t] = "put" /\ op' = op
    BY <1>0, <1>10 DEF Rollback, Local, Goto, Return, Cross, callVars
  <2>2. Unmarked(t)
    BY <2>1 DEF Unmarked, Phase
  <2>. QED  BY <2>1, <2>2 DEF BitKinds
<1>11. CASE FreeBit(t)
  <2>1. /\ pc[t] = "unbit" /\ op[t] = "free" /\ bits' = bits \ {want[t]} /\ UNCHANGED <<stored, live, free>>
        /\ crossed' = crossed /\ pc'[t] = "count" /\ op' = op /\ want' = want
    BY <1>0, <1>11 DEF FreeBit, Local, Goto, callVars
  <2>2. Cleared(t)
    BY <2>1 DEF Cleared, Phase
  <2>. QED  BY <2>1, <2>2 DEF BitKinds
<1>12. CASE Count(t)
  <2>1. /\ pc[t] = "count" /\ op[t] \in {"alloc", "free"} /\ UNCHANGED <<bits, stored, live>> /\ pc'[t] = "bitmap"
        /\ op' = op /\ want' = want /\ crossed \subseteq crossed'
    BY <1>0, <1>12 DEF Count, Local, Goto, Cross, callVars
  <2>2. free' = (IF op[t] = "alloc" THEN free - 1 ELSE free + 1) \/ "count" \in crossed'
    BY <1>12 DEF Count, Cross
  <2>3. Reckoned(t)
    BY <2>1, <2>2 DEF Reckoned, Phase
  <2>. QED  BY <2>1, <2>3 DEF BitKinds
<1>13. CASE BitmapSync(t)
  <2>1. /\ pc[t] = "bitmap" /\ op[t] \in {"alloc", "free"} /\ UNCHANGED <<bits, free>> /\ crossed \subseteq crossed'
        /\ stored' = bits \/ (stored' = stored /\ "unstored" \in crossed')
        /\ \/ op[t] = "alloc" /\ live' = live \cup {want[t]} /\ pc'[t] = "put" /\ op' = op
           \/ op[t] = "free" /\ live' = live /\ op'[t] = "none"
    BY <1>0, <1>13 DEF BitmapSync, Local, Goto, Return, Cross, callVars
  <2>2. Saved(t)
    BY <2>1 DEF Saved, Phase
  <2>. QED  BY <2>1, <2>2 DEF BitKinds
<1>. QED  BY <1>1, <1>2, <1>3, <1>4, <1>5, <1>6, <1>7, <1>8, <1>9, <1>10, <1>11, <1>12, <1>13
          DEF Step, Get, Work, Sync, Bits, Faults

\* A bit is set for a reserved inode, for one that is named, and for one that
\* an alloc or a free is busy with, each with one of them.
BitSets ==
  /\ \A i \in Inums : i \in bits <=> \/ i \in {0, 1} \cup live
                                     \/ \E t \in Threads : Phase(t) \in Marks /\ want[t] = i
  /\ \A t \in Threads : Phase(t) \in Marks => want[t] \notin {0, 1} \cup live
  /\ \A t, u \in Threads : Phase(t) \in Marks /\ Phase(u) \in Marks /\ want[t] = want[u] => t = u
  /\ \A t, u \in Threads : Phase(t) \in Freeing /\ Phase(u) \in Freeing /\ want[t] = want[u] => t = u
  /\ \A t \in Threads : Phase(t) = "wants" => want[t] \in live
  /\ 0 \notin live /\ 1 \notin live

\* The bitmap on disk lags behind by what is under way.
Trails ==
  crossed \cap {"unstored", "unrolled"} = {} =>
    /\ \A i \in bits \ stored : \E t \in Threads : Phase(t) \in {"alloc", "counted"} /\ want[t] = i
    /\ \A i \in stored \ bits : \E t \in Threads : Phase(t) \in {"due", "gone"} /\ want[t] = i

InPhase(p) == {t \in Threads : Phase(t) = p}

\* free_inodes lags behind by what it has not been told.
Balanced ==
  crossed \cap {"count", "recount"} = {} =>
    free = TotalInodes - Cardinality(bits) + Cardinality(InPhase("alloc")) - Cardinality(InPhase("due"))

BitInv == BitSets /\ Trails /\ Balanced

\* What the others leave.
LEMMA OthersPhase ==
  ASSUME NEW t \in Threads, Beside(t), NEW u \in Threads, u # t
  PROVE  Phase(u)' = Phase(u) /\ want'[u] = want[u]
BY DEF Beside, Phase

\* A step keeps every bit with one owner.
LEMMA BitSetsStep ==
  ASSUME TypeInv, TypeInv', BitSets, NEW t \in Threads, Beside(t), BitKinds(t)
  PROVE  BitSets'
<1>1. \A u \in Threads : u # t => Phase(u)' = Phase(u) /\ want'[u] = want[u]
  BY OthersPhase
<1>2. want[t] \in Inums /\ want'[t] \in Inums /\ bits \subseteq Inums /\ live \subseteq Inums
  BY DEF TypeInv, LocalTypes, BitTypes
<1>3. CASE Quiet(t)
  BY <1>1, <1>2, <1>3 DEF Quiet, BitSets, Marks, Freeing
<1>4. CASE Marked(t)
  BY <1>1, <1>2, <1>4 DEF Marked, BitSets, Marks, Freeing
<1>5. CASE Wanted(t)
  BY <1>1, <1>2, <1>5 DEF Wanted, BitSets, Marks, Freeing
<1>6. CASE Unnamed(t)
  BY <1>1, <1>2, <1>6 DEF Unnamed, BitSets, Marks, Freeing
<1>7. CASE Cleared(t)
  BY <1>1, <1>2, <1>7 DEF Cleared, BitSets, Marks, Freeing
<1>8. CASE Unmarked(t)
  BY <1>1, <1>2, <1>8 DEF Unmarked, BitSets, Marks, Freeing
<1>9. CASE Reckoned(t)
  BY <1>1, <1>2, <1>9 DEF Reckoned, BitSets, Marks, Freeing
<1>10. CASE Saved(t)
  BY <1>1, <1>2, <1>10 DEF Saved, BitSets, Marks, Freeing
<1>. QED  BY <1>3, <1>4, <1>5, <1>6, <1>7, <1>8, <1>9, <1>10 DEF BitKinds

\* The bitmap on disk lags behind by no more than what is under way.
LEMMA TrailsStep ==
  ASSUME TypeInv, TypeInv', BitSets, Trails, NEW t \in Threads, Beside(t), BitKinds(t), crossed \subseteq crossed'
  PROVE  Trails'
<1>. SUFFICES ASSUME crossed' \cap {"unstored", "unrolled"} = {} PROVE Trails'
  BY DEF Trails
<1>1. \A u \in Threads : u # t => Phase(u)' = Phase(u) /\ want'[u] = want[u]
  BY OthersPhase
<1>2. want[t] \in Inums /\ want'[t] \in Inums /\ bits \subseteq Inums /\ live \subseteq Inums
  BY DEF TypeInv, LocalTypes, BitTypes
<1>3. /\ \A i \in bits \ stored : \E u \in Threads : Phase(u) \in {"alloc", "counted"} /\ want[u] = i
      /\ \A i \in stored \ bits : \E u \in Threads : Phase(u) \in {"due", "gone"} /\ want[u] = i
  BY DEF Trails
<1>4. CASE Quiet(t)
  BY <1>1, <1>3, <1>4 DEF Quiet, Trails
<1>5. CASE Marked(t)
  BY <1>1, <1>2, <1>3, <1>5 DEF Marked, Trails
<1>6. CASE Wanted(t)
  BY <1>1, <1>3, <1>6 DEF Wanted, Trails
<1>7. CASE Unnamed(t)
  BY <1>1, <1>3, <1>7 DEF Unnamed, Trails
<1>8. CASE Cleared(t)
  BY <1>1, <1>2, <1>3, <1>8 DEF Cleared, Trails
<1>9. CASE Unmarked(t)
  BY <1>1, <1>2, <1>3, <1>9 DEF Unmarked, Trails
<1>10. CASE Reckoned(t)
  BY <1>1, <1>2, <1>3, <1>10 DEF Reckoned, Trails
<1>11. CASE Saved(t)
  BY <1>11 DEF Saved, Trails
<1>. QED  BY <1>4, <1>5, <1>6, <1>7, <1>8, <1>9, <1>10, <1>11 DEF BitKinds

\* Bits and phases can be counted.
LEMMA BitsFinite ==
  ASSUME TypeInv
  PROVE  /\ IsFiniteSet(bits) /\ Cardinality(bits) \in Nat
         /\ \A p : IsFiniteSet(InPhase(p)) /\ Cardinality(InPhase(p)) \in Nat
<1>1. IsFiniteSet(Inums)
  <2>1. IsFiniteSet(0 .. TotalInodes - 1)
    BY FS_Interval
  <2>. QED  BY <2>1 DEF Inums
<1>2. bits \in SUBSET Inums /\ \A p : InPhase(p) \in SUBSET Threads
  BY DEF TypeInv, BitTypes, InPhase
<1>. QED  BY <1>1, <1>2, FS_Subset, FS_CardinalityType

\* So does free_inodes.
LEMMA BalancedStep ==
  ASSUME TypeInv, TypeInv', BitSets, Balanced, NEW t \in Threads, Beside(t), BitKinds(t), crossed \subseteq crossed'
  PROVE  Balanced'
<1>. SUFFICES ASSUME crossed' \cap {"count", "recount"} = {} PROVE Balanced'
  BY DEF Balanced
<1>. DEFINE a == Cardinality(InPhase("alloc"))
            d == Cardinality(InPhase("due"))
            b == Cardinality(bits)
            a2 == Cardinality(InPhase("alloc")')
            d2 == Cardinality(InPhase("due")')
            b2 == Cardinality(bits')
<1>1. \A p : /\ Phase(t) = p /\ Phase(t)' = p => InPhase(p)' = InPhase(p)
             /\ Phase(t) # p /\ Phase(t)' # p => InPhase(p)' = InPhase(p)
             /\ Phase(t) # p /\ Phase(t)' = p => InPhase(p)' = InPhase(p) \cup {t} /\ t \notin InPhase(p)
             /\ Phase(t) = p /\ Phase(t)' # p => InPhase(p)' = InPhase(p) \ {t} /\ t \in InPhase(p)
  BY OthersPhase DEF InPhase
<1>2. /\ IsFiniteSet(bits) /\ b \in Nat
      /\ \A p : IsFiniteSet(InPhase(p)) /\ Cardinality(InPhase(p)) \in Nat
  BY BitsFinite
<1>3. \A p : /\ Phase(t) # p /\ Phase(t)' = p => Cardinality(InPhase(p)') = Cardinality(InPhase(p)) + 1
             /\ Phase(t) = p /\ Phase(t)' # p => Cardinality(InPhase(p)') = Cardinality(InPhase(p)) - 1
  <2>. SUFFICES ASSUME NEW p PROVE
         /\ Phase(t) # p /\ Phase(t)' = p => Cardinality(InPhase(p)') = Cardinality(InPhase(p)) + 1
         /\ Phase(t) = p /\ Phase(t)' # p => Cardinality(InPhase(p)') = Cardinality(InPhase(p)) - 1
    OBVIOUS
  <2>1. IsFiniteSet(InPhase(p))
    BY <1>2
  <2>2. ASSUME Phase(t) # p, Phase(t)' = p PROVE Cardinality(InPhase(p)') = Cardinality(InPhase(p)) + 1
    BY <1>1, <2>1, <2>2, FS_AddElement
  <2>3. ASSUME Phase(t) = p, Phase(t)' # p PROVE Cardinality(InPhase(p)') = Cardinality(InPhase(p)) - 1
    BY <1>1, <2>1, <2>3, FS_RemoveElement
  <2>. QED  BY <2>2, <2>3
<1>4. /\ Phase(t) \in Marks => want[t] \in bits
  BY DEF BitSets, TypeInv, LocalTypes
<1>5. free = TotalInodes - b + a - d /\ a \in Nat /\ d \in Nat
  BY <1>2 DEF Balanced
<1>6. SUFFICES free' = TotalInodes - b2 + a2 - d2
  BY DEF Balanced
<1>7. CASE Quiet(t) \/ Wanted(t) \/ Unnamed(t) \/ Saved(t)
  <2>1. bits' = bits /\ free' = free
    BY <1>7 DEF Quiet, Wanted, Unnamed, Saved
  <2>2. InPhase("alloc")' = InPhase("alloc") /\ InPhase("due")' = InPhase("due")
    BY <1>1, <1>7 DEF Quiet, Wanted, Unnamed, Saved
  <2>. QED  BY <1>5, <2>1, <2>2
<1>8. CASE Marked(t)
  <2>1. b2 = b + 1 /\ free' = free
    BY <1>2, <1>8, FS_AddElement DEF Marked
  <2>2. a2 = a + 1 /\ InPhase("due")' = InPhase("due")
    BY <1>1, <1>3, <1>8 DEF Marked
  <2>. QED  BY <1>2, <1>5, <2>1, <2>2
<1>9. CASE Cleared(t)
  <2>1. b2 = b - 1 /\ free' = free
    BY <1>2, <1>4, <1>9, FS_RemoveElement DEF Cleared, Marks
  <2>2. d2 = d + 1 /\ InPhase("alloc")' = InPhase("alloc")
    BY <1>1, <1>3, <1>9 DEF Cleared
  <2>. QED  BY <1>2, <1>5, <2>1, <2>2
<1>10. CASE Unmarked(t)
  <2>1. b2 = b - 1 /\ free' = free
    BY <1>2, <1>4, <1>10, FS_RemoveElement DEF Unmarked, Marks
  <2>2. a2 = a - 1 /\ InPhase("due")' = InPhase("due")
    BY <1>1, <1>3, <1>10 DEF Unmarked
  <2>. QED  BY <1>2, <1>5, <2>1, <2>2
<1>11. CASE Reckoned(t)
  <2>1. bits' = bits
    BY <1>11 DEF Reckoned
  <2>2. \/ a2 = a - 1 /\ InPhase("due")' = InPhase("due") /\ free' = free - 1
        \/ d2 = d - 1 /\ InPhase("alloc")' = InPhase("alloc") /\ free' = free + 1
    BY <1>1, <1>3, <1>11 DEF Reckoned
  <2>. QED  BY <1>2, <1>5, <2>1, <2>2
<1>. QED  BY <1>7, <1>8, <1>9, <1>10, <1>11 DEF BitKinds

\* When nothing runs, no bit is under way.
LEMMA BitRest ==
  ASSUME \A t \in Threads : op[t] \notin {"alloc", "free"}
  PROVE  (\A t \in Threads : Phase(t) = "none") /\ InPhase("alloc") = {} /\ InPhase("due") = {}
BY DEF Phase, InPhase

\* The bitmap that mkfs wrote.
LEMMA BitInit == Init => BitInv
<1>. SUFFICES ASSUME Init PROVE BitInv
  OBVIOUS
<1>1. live = Named /\ bits = {0, 1} \cup Named /\ stored = bits /\ free = FormattedFree /\ \A t \in Threads : op[t] = "none"
  BY DEF Init
<1>2. (\A t \in Threads : Phase(t) = "none") /\ InPhase("alloc") = {} /\ InPhase("due") = {}
  BY <1>1, BitRest
<1>3. BitSets
  BY <1>1, <1>2 DEF BitSets, Marks, Freeing
<1>4. Trails
  BY <1>1 DEF Trails
<1>5. Cardinality(bits) = 2 + Cardinality(Named)
  <2>1. IsFiniteSet(Named) /\ Cardinality(Named) \in Nat /\ 0 \notin Named /\ 1 \notin Named
    BY NamedFinite, FS_CardinalityType
  <2>2. IsFiniteSet(Named \cup {1}) /\ Cardinality(Named \cup {1}) = Cardinality(Named) + 1
    BY <2>1, FS_AddElement
  <2>3. 0 \notin Named \cup {1}
    BY <2>1
  <2>4. Cardinality((Named \cup {1}) \cup {0}) = Cardinality(Named \cup {1}) + 1
    BY <2>2, <2>3, FS_AddElement
  <2>5. bits = (Named \cup {1}) \cup {0}
    BY <1>1
  <2>. QED  BY <2>1, <2>2, <2>4, <2>5
<1>6. Balanced
  <2>1. Cardinality(Named) \in Nat /\ Cardinality({}) = 0
    BY NamedFinite, FS_CardinalityType, FS_EmptySet
  <2>2. Cardinality(InPhase("alloc")) = 0 /\ Cardinality(InPhase("due")) = 0
    BY <1>2, <2>1
  <2>. QED  BY <1>1, <1>5, <2>1, <2>2 DEF Balanced, FormattedFree
<1>. QED  BY <1>3, <1>4, <1>6 DEF BitInv

\* The bitmap, over every step.
LEMMA BitNext == TypeInv /\ TypeInv' /\ Locals /\ BitInv /\ [Next]_vars => BitInv'
<1>. SUFFICES ASSUME TypeInv, TypeInv', Locals, BitInv, [Next]_vars PROVE BitInv'
  OBVIOUS
<1>1. ASSUME NEW t \in Threads, Step(t) PROVE BitInv'
  <2>1. Beside(t) /\ BitKinds(t) /\ crossed \subseteq crossed'
    BY <1>1, StepBeside, StepBits DEF Locals
  <2>. QED  BY <2>1, BitSetsStep, TrailsStep, BalancedStep DEF BitInv
<1>2. CASE Remount
  <2>1. /\ UNCHANGED <<bits, live, op, want, pc>> /\ stored' = bits /\ free' = FormattedFree
        /\ crossed' = crossed \cup (IF free # FormattedFree THEN {"recount"} ELSE {})
    BY <1>2, RemountIs
  <2>2. \A u \in Threads : Phase(u)' = Phase(u)
    BY <2>1 DEF Phase
  <2>3. \A p : InPhase(p)' = InPhase(p)
    BY <2>2 DEF InPhase
  <2>4. BitSets'
    BY <2>1, <2>2 DEF BitInv, BitSets
  <2>5. Trails'
    BY <2>1 DEF Trails
  <2>6. Balanced'
    BY <2>1, <2>3 DEF BitInv, Balanced
  <2>. QED  BY <2>4, <2>5, <2>6 DEF BitInv
<1>3. CASE UNCHANGED vars
  <2>1. UNCHANGED <<bits, stored, live, free, crossed, want>> /\ \A u \in Threads : Phase(u)' = Phase(u)
    BY <1>3 DEF vars, bitmapVars, Phase
  <2>2. \A p : InPhase(p)' = InPhase(p)
    BY <2>1 DEF InPhase
  <2>. QED  BY <2>1, <2>2 DEF BitInv, BitSets, Trails, Balanced
<1>. QED  BY <1>1, <1>2, <1>3 DEF Next, Finished, Step

\* When no inode is being allocated or freed, the bitmap in memory is that of
\* the directories, the one on disk is the same, and free_inodes counts it,
\* whatever interleaved before and whichever device call failed.
THEOREM InodesAlwaysAccounted == Spec => []InodesAccounted
<1>1. Spec => [](TypeInv /\ BitInv)
  BY TypesInductive, BitInit, BitNext, PTL DEF Spec
<1>2. TypeInv /\ BitInv => InodesAccounted
  <2>. SUFFICES ASSUME TypeInv, BitInv, Settled PROVE InodesAccounted
    BY DEF InodesAccounted
  <2>1. (\A t \in Threads : Phase(t) = "none") /\ InPhase("alloc") = {} /\ InPhase("due") = {}
    BY BitRest DEF Settled
  <2>2. bits = {0, 1} \cup live
    <3>1. \A i \in Inums : i \in bits <=> i \in {0, 1} \cup live
      BY <2>1 DEF BitInv, BitSets, Marks
    <3>2. bits \subseteq Inums /\ live \subseteq Inums /\ 0 \in Inums /\ 1 \in Inums
      BY DEF TypeInv, BitTypes, Inums
    <3>. QED  BY <3>1, <3>2
  <2>3. crossed \cap {"unstored", "unrolled"} = {} => stored = bits
    BY <2>1 DEF BitInv, Trails
  <2>4. crossed \cap {"count", "recount"} = {} => free = TotalInodes - Cardinality(bits)
    BY <2>1, BitsFinite, FS_EmptySet DEF BitInv, Balanced
  <2>. QED  BY <2>2, <2>3, <2>4 DEF InodesAccounted
<1>. QED  BY <1>1, <1>2, PTL

(***************************************************************************)
(* One entry per inode.                                                    *)
(***************************************************************************)

\* The parts of the invariants that TypeOK asks for.
LEMMA TypesHold ==
  ASSUME TypeInv, RefInv, BitInv
  PROVE  TypeOK
<1>1. ref \in [Entries -> 0 .. Cardinality(Threads)]
  <2>1. \A e \in Entries : ref[e] \in 0 .. Cardinality(Threads)
    BY HoldersFinite, FS_CardinalityType DEF RefInv, Counts
  <2>. QED  BY <2>1 DEF TypeInv, EntryTypes
<1>2. live \subseteq bits
  BY DEF TypeInv, BitTypes, BitInv, BitSets
<1>3. Len(lru) = PoolSize /\ {lru[n] : n \in Entries} = Entries
  BY LruLength DEF TypeInv
<1>. QED  BY <1>1, <1>2, <1>3
          DEF TypeOK, TypeInv, EntryTypes, ContentTypes, ListTypes, BitTypes, PcTypes, LocalTypes, GhostTypes

\* One inode has one entry, for any number of threads, entries, buckets and
\* inodes: the entry somebody uses is the one that a lookup finds, it keeps
\* its number for as long as it is used, and the walk along a chain ends.
THEOREM OneEntryPerInode == Spec => []OneCopy
<1>1. TypeInv /\ RefInv /\ ChainInv /\ BitInv => OneCopy
  <2>. SUFFICES ASSUME TypeInv, RefInv, ChainInv, BitInv PROVE OneCopy
    OBVIOUS
  <2>. SUFFICES ASSUME "unhashed" \notin crossed
                PROVE  /\ \A b \in Buckets : Ends(b)
                       /\ \A e \in Entries : ref[e] > 0 => Found(inum[e]) = e
                       /\ \A t \in Threads : Holds(t) => inum[ent[t]] = want[t]
    BY TypesHold DEF OneCopy
  <2>1. PICK H, rank, k : Shape(H, rank, k)
    BY DEF ChainInv
  <2>2. Linked(head, hnext, inum, H, rank, k)
    BY <2>1 DEF Shape
  <2>3. \A b \in Buckets : Ends(b)
    BY <2>2, Reached
  <2>4. ASSUME NEW e \in Entries, ref[e] > 0 PROVE Found(inum[e]) = e
    <3>1. Holders(e) # {}
      BY <2>4, FS_EmptySet DEF RefInv, Counts
    <3>2. e \in H /\ inum[e] \in Inums
      BY <2>1, <3>1 DEF Holders, Shape, TypeInv, EntryTypes
    <3>. QED  BY <2>2, <3>2, FoundLinked
  <2>5. \A t \in Threads : Holds(t) => inum[ent[t]] = want[t]
    BY <2>1 DEF Shape
  <2>. QED  BY <2>3, <2>4, <2>5
<1>2. Spec => [](TypeInv /\ BitInv)
  BY TypesInductive, BitInit, BitNext, PTL DEF Spec
<1>. QED  BY <1>1, <1>2, CacheInductive, PTL
=============================================================================
