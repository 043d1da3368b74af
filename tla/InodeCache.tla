----------------------------- MODULE InodeCache -----------------------------
(***************************************************************************)
(* The cache of inodes in inode.c: a pool of entries in hash chains and an *)
(* LRU list under cache_lock, a mutex per entry, the inode bitmap under    *)
(* bitmap_lock, and the inode table on disk, whose blocks hold PerBlock    *)
(* inodes each.  inode_sync reads a block of the table, changes one inode  *)
(* in it and writes it back.                                               *)
(*                                                                         *)
(* The contents of an inode are the number of the operation that wrote     *)
(* them.  One action per critical section, and one per device call and per *)
(* store that is made outside of the lock that should cover it.  A lock    *)
(* that is held across steps is a guard over the program counters.         *)
(***************************************************************************)
EXTENDS Integers, Sequences, FiniteSets

CONSTANTS
  Threads,
  PoolSize,     \* max_inodes: entries of the cache
  TotalInodes,  \* inodes of the table, 0 (reserved) and 1 (root) included
  PerBlock,     \* inodes in a block of the table
  HashSize,
  Named,        \* inodes that directories name at the start
  MaxOps,       \* bound: operations begun in a behaviour
  MaxFaults     \* bound: failing device calls in a behaviour

ASSUME InodeCacheAssumption ==
  /\ IsFiniteSet(Threads)
  /\ PoolSize \in Nat \ {0} /\ PerBlock \in Nat \ {0} /\ HashSize \in Nat \ {0}
  /\ TotalInodes \in Nat /\ TotalInodes >= 2 /\ Named \subseteq 2 .. TotalInodes - 1
  /\ MaxOps \in Nat /\ MaxFaults \in Nat

Entries == 1 .. PoolSize
NULL    == 0
Inums   == 0 .. TotalInodes - 1
Buckets == 0 .. HashSize - 1

VARIABLES
  inum, ref,    \* per entry: the number it holds, its references
  valid, dirty, \* the entries that are loaded; that owe a write
  copy,         \* contents per entry
  head, hnext,  \* the hash chains: first entry per bucket, next per entry
  lru,          \* the entries, most recently used first
  table,        \* contents per inode in the table on disk
  bits, stored, \* allocated inodes: the bitmap in memory and on disk
  free,         \* cache->sb.free_inodes
  pc, op, want, ent, image, why, ver,  \* per thread: see below
  latest, live, crossed, used          \* ghosts

(***************************************************************************)
(* A thread runs op ("use", "alloc", "free", "all") on inode want through  *)
(* entry ent; inside inode_sync, image is the block it has read and why    *)
(* says who called ("own", "evict", "all").  ver is the operation's number.*)
(* latest: what was last stored in an inode; live: the inodes directories  *)
(* name; crossed: the limits left behind; used: what the bounds count.     *)
(***************************************************************************)
entryVars  == <<inum, ref, valid, dirty, copy>>
hashVars   == <<head, hnext, lru>>
bitmapVars == <<bits, stored, free, live>>
vars == <<entryVars, hashVars, table, bitmapVars, pc, op, want, ent, image, why, ver,
          latest, crossed, used>>
callVars == <<op, want, ver>>

SyncPcs == {"read", "write", "clear"}
Pcs == {"idle", "find", "claim", "load", "reload", "use", "put", "drop",
        "rollback", "unbit", "count", "bitmap", "all"} \cup SyncPcs

Goto(t, p)    == pc' = [pc EXCEPT ![t] = p]
Cross(limits) == crossed' = crossed \cup limits
Use(b, limit) == used[b] < limit /\ used' = [used EXCEPT ![b] = @ + 1]
Block(i)      == i \div PerBlock
Lowest(S)     == CHOOSE n \in S : \A m \in S : n <= m

\* cache_lock: held for writing by one that recycles, for reading by sync_all
Recycles(u)  == pc[u] = "claim" \/ (pc[u] \in SyncPcs /\ why[u] = "evict")
Scans(u)     == pc[u] = "all" \/ (pc[u] \in SyncPcs /\ why[u] = "all")
CacheFree(t) == \A u \in Threads \ {t} : ~Recycles(u) /\ ~Scans(u)
\* inode_lock: held by a caller of inode_sync
InodeFree(t) ==
  \A u \in Threads \ {t} : ~(ent[u] = ent[t] /\ pc[u] \in SyncPcs /\ why[u] = "own")

----------------------------------------------------------------------------
(* The hash table and the LRU list.                                        *)

Hash(i) == i % HashSize

\* the entries of a chain in order, NULL behind its end
Walk(b) ==
  LET w[n \in 0 .. PoolSize] ==
        IF n = 0 THEN head[b] ELSE IF w[n - 1] = NULL THEN NULL ELSE hnext[w[n - 1]]
  IN w

Chain(b) == {Walk(b)[n] : n \in 0 .. PoolSize} \ {NULL}
Ends(b)  == Walk(b)[PoolSize] = NULL

\* hash_lookup
Found(i) ==
  LET w    == Walk(Hash(i))
      hits == {n \in 0 .. PoolSize : w[n] # NULL /\ inum[w[n]] = i}
  IN  IF hits = {} THEN NULL ELSE w[Lowest(hits)]

\* hash_remove, which the code leaves out for an entry that is not valid
Unhashed(e) ==
  LET b == Hash(inum[e]) IN
  IF e \notin valid THEN [head |-> head, next |-> hnext]
  ELSE [head |-> [head EXCEPT ![b] = IF @ = e THEN hnext[e] ELSE @],
        next |-> [x \in Entries |-> IF x = e THEN NULL
                                    ELSE IF x \in Chain(b) /\ hnext[x] = e THEN hnext[e]
                                    ELSE hnext[x]]]

\* lru_remove, lru_push_front: what was before e moves back by one
Place(e)   == CHOOSE n \in Entries : lru[n] = e
ToFront(e) ==
  lru' = [n \in Entries |-> IF n = 1 THEN e ELSE IF n <= Place(e) THEN lru[n - 1] ELSE lru[n]]

Unused == {n \in 1 .. Len(lru) : ref[lru[n]] = 0}

----------------------------------------------------------------------------
(* Calls, and the returns of inode_get.                                    *)

Call(t, o, i) ==
  /\ pc[t] = "idle"
  /\ Use("ops", MaxOps)
  /\ op' = [op EXCEPT ![t] = o] /\ want' = [want EXCEPT ![t] = i]
  /\ ver' = [ver EXCEPT ![t] = used["ops"] + 1]
  /\ UNCHANGED <<entryVars, hashVars, table, stored, free, live, image, why, latest, crossed>>

\* a file operation on an inode that a directory names
UseBegin(t, i) ==
  i \in live /\ Call(t, "use", i) /\ Goto(t, "find") /\ UNCHANGED <<bits, ent>>

\* unlink, rmdir: the lock of the directory keeps a second one away
FreeBegin(t, i) ==
  /\ i \in live /\ \A u \in Threads : op[u] = "free" => want[u] # i
  /\ Call(t, "free", i) /\ Goto(t, "find") /\ UNCHANGED <<bits, ent>>

\* inode_alloc: the first clear bit
AllocBit(t) ==
  /\ Inums \ bits # {}
  /\ \E i \in {Lowest(Inums \ bits)} : Call(t, "alloc", i) /\ bits' = bits \cup {i}
  /\ Goto(t, "find") /\ UNCHANGED ent

\* inode_sync_all
SyncAll(t) ==
  /\ \A u \in Threads : ~Recycles(u)
  /\ Call(t, "all", NULL) /\ Goto(t, "all") /\ ent' = [ent EXCEPT ![t] = 1]
  /\ UNCHANGED bits

\* the thread returns to its caller; its locals are gone
Return(t) ==
  /\ Goto(t, "idle")
  /\ op' = [op EXCEPT ![t] = "none"] /\ want' = [want EXCEPT ![t] = NULL]
  /\ ver' = [ver EXCEPT ![t] = 0] /\ ent' = [ent EXCEPT ![t] = NULL]

\* slip: the hit takes no reference
GetHitUncounted(t) ==
  /\ pc[t] = "find" /\ CacheFree(t) /\ Found(want[t]) # NULL
  /\ \E e \in {Found(want[t])} :
       /\ ToFront(e)
       /\ ent' = [ent EXCEPT ![t] = e]
       /\ Goto(t, IF e \in valid THEN "use" ELSE "reload")
  /\ UNCHANGED <<entryVars, head, hnext, table, bitmapVars, callVars,
                 image, why, latest, crossed, used>>

GetHit(t) ==
  /\ pc[t] = "find" /\ CacheFree(t) /\ Found(want[t]) # NULL
  /\ \E e \in {Found(want[t])} :
       /\ ref' = [ref EXCEPT ![e] = @ + 1]
       /\ ToFront(e)
       /\ ent' = [ent EXCEPT ![t] = e]
       /\ Goto(t, IF e \in valid THEN "use" ELSE "reload")
  /\ UNCHANGED <<inum, valid, dirty, copy, head, hnext, table, bitmapVars, callVars,
                 image, why, latest, crossed, used>>

\* slip: a dirty victim is not written
GetVictimDirty(t) ==
  /\ pc[t] = "find" /\ CacheFree(t)
  /\ Found(want[t]) = NULL /\ Ends(Hash(want[t])) /\ Unused # {}
  /\ \E e \in {lru[n] : n \in {m \in Unused : \A k \in Unused : k <= m}} :
       /\ ent' = [ent EXCEPT ![t] = e]
       /\ Goto(t, "claim") /\ UNCHANGED why
  /\ UNCHANGED <<entryVars, hashVars, table, bitmapVars, callVars, image, latest, crossed, used>>

\* the least recently used entry without references; a dirty one is written first
GetVictim(t) ==
  /\ pc[t] = "find" /\ CacheFree(t)
  /\ Found(want[t]) = NULL /\ Ends(Hash(want[t])) /\ Unused # {}
  /\ \E e \in {lru[n] : n \in {m \in Unused : \A k \in Unused : k <= m}} :
       /\ ent' = [ent EXCEPT ![t] = e]
       /\ IF e \in dirty \cap valid
          THEN Goto(t, "read") /\ why' = [why EXCEPT ![t] = "evict"]
          ELSE Goto(t, "claim") /\ UNCHANGED why
  /\ UNCHANGED <<entryVars, hashVars, table, bitmapVars, callVars, image, latest, crossed, used>>

\* ENOMEM: every entry is in use
GetFull(t) ==
  /\ pc[t] = "find" /\ CacheFree(t) /\ Found(want[t]) = NULL /\ Unused = {}
  /\ IF op[t] = "alloc" THEN Goto(t, "rollback") /\ UNCHANGED <<callVars, ent>> ELSE Return(t)
  /\ UNCHANGED <<entryVars, hashVars, table, bitmapVars, image, why, latest, crossed, used>>

\* slip: a recycled entry stays in its old chain
ClaimHashed(t) ==
  /\ pc[t] = "claim"
  /\ \E e \in {ent[t]} :
       /\ head'  = [head EXCEPT ![Hash(want[t])] = e]
       /\ hnext' = [hnext EXCEPT ![e] = head[Hash(want[t])]]
       /\ ToFront(e)
       /\ inum' = [inum EXCEPT ![e] = want[t]] /\ ref' = [ref EXCEPT ![e] = 1]
       /\ valid' = valid \ {e} /\ dirty' = dirty \ {e}
  /\ Goto(t, "load")
  /\ UNCHANGED <<copy, table, bitmapVars, callVars, ent, image, why, latest, crossed, used>>

\* the victim becomes the entry of want, not yet loaded
Claim(t) ==
  /\ pc[t] = "claim"
  /\ \E e \in {ent[t]} : \E r \in {Unhashed(e)} :
       /\ head'  = [r.head EXCEPT ![Hash(want[t])] = e]
       /\ hnext' = [r.next EXCEPT ![e] = r.head[Hash(want[t])]]
       /\ ToFront(e)
       /\ inum' = [inum EXCEPT ![e] = want[t]] /\ ref' = [ref EXCEPT ![e] = 1]
       /\ valid' = valid \ {e} /\ dirty' = dirty \ {e}
       /\ Cross(IF e \notin valid /\ e \in Chain(Hash(inum[e])) THEN {"unhashed"} ELSE {})
  /\ Goto(t, "load")
  /\ UNCHANGED <<copy, table, bitmapVars, callVars, ent, image, why, latest, used>>

\* the load of a claimed entry does not look whether somebody was faster
Load(t) ==
  /\ pc[t] = "load" /\ InodeFree(t)
  /\ copy' = [copy EXCEPT ![ent[t]] = table[want[t]]] /\ valid' = valid \cup {ent[t]}
  /\ Cross(IF ent[t] \in valid /\ copy[ent[t]] # table[want[t]] THEN {"lateLoad"} ELSE {})
  /\ Goto(t, "use")
  /\ UNCHANGED <<inum, ref, dirty, hashVars, table, bitmapVars, callVars, ent, image, why,
                 latest, used>>

\* a hit on an entry that is not loaded looks again under its lock
Reload(t) ==
  /\ pc[t] = "reload" /\ InodeFree(t)
  /\ IF ent[t] \in valid THEN UNCHANGED <<copy, valid>>
     ELSE copy' = [copy EXCEPT ![ent[t]] = table[want[t]]] /\ valid' = valid \cup {ent[t]}
  /\ Goto(t, "use")
  /\ UNCHANGED <<inum, ref, dirty, hashVars, table, bitmapVars, callVars, ent, image, why,
                 latest, crossed, used>>

\* the read fails: the reference is given back, the entry stays, not valid
LoadFault(t) ==
  /\ pc[t] = "load" \/ (pc[t] = "reload" /\ ent[t] \notin valid)
  /\ InodeFree(t) /\ Use("faults", MaxFaults)
  /\ Goto(t, "drop")
  /\ UNCHANGED <<entryVars, hashVars, table, bitmapVars, callVars, ent, image, why,
                 latest, crossed>>

----------------------------------------------------------------------------
(* What the callers do with the entry, under its lock.                     *)

Store(t) ==
  /\ copy' = [copy EXCEPT ![ent[t]] = ver[t]] /\ dirty' = dirty \cup {ent[t]}
  /\ latest' = [latest EXCEPT ![want[t]] = ver[t]]

\* getattr, open: looked at; chmod, utimens, truncate, read: changed, not synced
UseQuick(t) ==
  /\ pc[t] = "use" /\ op[t] = "use" /\ InodeFree(t)
  /\ Store(t) \/ UNCHANGED <<copy, dirty, latest>>
  /\ Goto(t, "put")
  /\ UNCHANGED <<inum, ref, valid, hashVars, table, bitmapVars, callVars, ent, image, why,
                 crossed, used>>

\* write, and the new inode of inode_alloc: changed, then synced under the lock
UseSync(t) ==
  /\ pc[t] = "use" /\ op[t] \in {"use", "alloc"} /\ InodeFree(t)
  /\ Store(t) /\ valid' = valid \cup {ent[t]}
  /\ why' = [why EXCEPT ![t] = "own"]
  /\ Goto(t, "read")
  /\ UNCHANGED <<inum, ref, hashVars, table, bitmapVars, callVars, ent, image, crossed, used>>

\* inode_free: the truncated inode stays dirty in the cache
FreeTruncate(t) ==
  /\ pc[t] = "use" /\ op[t] = "free" /\ InodeFree(t)
  /\ Store(t) /\ live' = live \ {want[t]}
  /\ Goto(t, "put")
  /\ UNCHANGED <<inum, ref, valid, hashVars, table, bits, stored, free, callVars, ent, image,
                 why, crossed, used>>

\* inode_put
Put(t) ==
  /\ pc[t] \in {"put", "drop"} /\ CacheFree(t)
  /\ ref' = [ref EXCEPT ![ent[t]] = @ - 1]
  /\ CASE pc[t] = "put" /\ op[t] = "free" -> Goto(t, "unbit") /\ UNCHANGED callVars
       [] pc[t] = "drop" /\ op[t] = "alloc" -> Goto(t, "rollback") /\ UNCHANGED callVars
       [] OTHER -> Return(t)
  /\ ent' = [ent EXCEPT ![t] = NULL]
  /\ UNCHANGED <<inum, valid, dirty, copy, hashVars, table, bitmapVars, image, why, latest,
                 crossed, used>>

----------------------------------------------------------------------------
(* inode_sync.                                                             *)

\* its return: to the caller that holds the inode, to the recycling, to the scan
Synced(t, ok) ==
  /\ image' = [image EXCEPT ![t] = <<>>]
  /\ CASE why[t] = "own" /\ op[t] = "use" -> Goto(t, "put") /\ UNCHANGED ent
       [] why[t] = "own" /\ op[t] = "alloc" ->
            Goto(t, IF ok THEN "count" ELSE "rollback") /\ UNCHANGED ent
       [] why[t] = "evict" -> Goto(t, "claim") /\ UNCHANGED ent
       [] why[t] = "all" -> Goto(t, "all") /\ ent' = [ent EXCEPT ![t] = @ + 1]

SyncRead(t) ==
  /\ pc[t] = "read"
  /\ IF ent[t] \in valid \cap dirty
     THEN Goto(t, "write") /\ image' = [image EXCEPT ![t] = table] /\ UNCHANGED ent
     ELSE Synced(t, TRUE)
  /\ UNCHANGED <<entryVars, hashVars, table, bitmapVars, callVars, why, latest, crossed, used>>

\* the whole block is written, with the other inodes as they were read
SyncWrite(t) ==
  /\ pc[t] = "write"
  /\ \E i \in {inum[ent[t]]} :
       /\ table' = [j \in Inums |-> IF j = i THEN copy[ent[t]]
                                    ELSE IF Block(j) = Block(i) THEN image[t][j] ELSE table[j]]
       /\ Cross(IF \E j \in Inums \ {i} : table'[j] # table[j] THEN {"tableRace"} ELSE {})
  /\ Goto(t, "clear")
  /\ UNCHANGED <<entryVars, hashVars, bitmapVars, callVars, ent, image, why, latest, used>>

SyncClear(t) ==
  /\ pc[t] = "clear"
  /\ dirty' = dirty \ {ent[t]}
  /\ Cross(IF copy[ent[t]] # table[inum[ent[t]]] THEN {"syncRace"} ELSE {})
  /\ Synced(t, TRUE)
  /\ UNCHANGED <<inum, ref, valid, copy, hashVars, table, bitmapVars, callVars, why, latest, used>>

\* a device call fails: what was dirty stays so, but a victim is recycled all the same
SyncFault(t) ==
  /\ pc[t] \in {"read", "write"} /\ Use("faults", MaxFaults)
  /\ Synced(t, FALSE)
  /\ Cross(IF why[t] = "evict" THEN {"dropped"} ELSE {})
  /\ UNCHANGED <<entryVars, hashVars, table, bitmapVars, callVars, why, latest>>

\* sync_all goes over the pool and takes no lock of an inode
ScanEntry(t) ==
  /\ pc[t] = "all" /\ ent[t] \in Entries
  /\ IF ent[t] \in valid \cap dirty
     THEN Goto(t, "read") /\ why' = [why EXCEPT ![t] = "all"] /\ UNCHANGED ent
     ELSE ent' = [ent EXCEPT ![t] = @ + 1] /\ UNCHANGED <<pc, why>>
  /\ UNCHANGED <<entryVars, hashVars, table, bitmapVars, callVars, image, latest, crossed, used>>

ScanEnd(t) ==
  /\ pc[t] = "all" /\ ent[t] \notin Entries
  /\ Return(t)
  /\ UNCHANGED <<entryVars, hashVars, table, bitmapVars, image, why, latest, crossed, used>>

----------------------------------------------------------------------------
(* The inode bitmap: the ends of inode_alloc and inode_free.               *)

\* inode_get or inode_sync failed inside inode_alloc
Rollback(t) ==
  /\ pc[t] = "rollback"
  /\ bits' = bits \ {want[t]}
  /\ Cross(IF want[t] \in stored THEN {"unrolled"} ELSE {})
  /\ IF ent[t] = NULL THEN Return(t) ELSE Goto(t, "put") /\ UNCHANGED <<callVars, ent>>
  /\ UNCHANGED <<entryVars, hashVars, table, stored, free, live, image, why, latest, used>>

FreeBit(t) ==
  /\ pc[t] = "unbit"
  /\ bits' = bits \ {want[t]}
  /\ Goto(t, "count")
  /\ UNCHANGED <<entryVars, hashVars, table, stored, free, live, callVars, ent, image, why,
                 latest, crossed, used>>

\* free_inodes is changed under no lock: beside another change one may be lost
Count(t) ==
  /\ pc[t] = "count"
  /\ \E race \in {\E u \in Threads \ {t} : pc[u] = "count"} :
       /\ \/ free' = IF op[t] = "alloc" THEN free - 1 ELSE free + 1
          \/ (race /\ free' = free)
       /\ Cross(IF race THEN {"count"} ELSE {})
  /\ Goto(t, "bitmap")
  /\ UNCHANGED <<entryVars, hashVars, table, bits, stored, live, callVars, ent, image, why,
                 latest, used>>

\* slip: the bitmap is not written after an inode was freed
BitmapSyncAlloc(t) ==
  /\ pc[t] = "bitmap"
  /\ IF op[t] = "alloc"
     THEN stored' = bits /\ live' = live \cup {want[t]} /\ Goto(t, "put") /\ UNCHANGED <<callVars, ent>>
     ELSE Return(t) /\ UNCHANGED <<stored, live>>
  /\ UNCHANGED <<entryVars, hashVars, table, bits, free, image, why, latest, crossed, used>>

\* sync_inode_bitmap; a failure of it is ignored
BitmapSync(t) ==
  /\ pc[t] = "bitmap"
  /\ \/ (stored' = bits /\ UNCHANGED <<crossed, used>>)
     \/ (Use("faults", MaxFaults) /\ Cross({"unstored"}) /\ UNCHANGED stored)
  /\ IF op[t] = "alloc"
     THEN live' = live \cup {want[t]} /\ Goto(t, "put") /\ UNCHANGED <<callVars, ent>>
     ELSE Return(t) /\ UNCHANGED live
  /\ UNCHANGED <<entryVars, hashVars, table, bits, free, image, why, latest>>

----------------------------------------------------------------------------
(* inode_cache_destroy and inode_cache_init, when nothing runs.  The       *)
(* superblock on disk still has the count that mkfs wrote.                 *)

EmptyPool ==
  [inum |-> [e \in Entries |-> 0], head |-> [b \in Buckets |-> NULL],
   lru |-> [n \in Entries |-> PoolSize + 1 - n]]

FormattedFree == TotalInodes - 2 - Cardinality(Named)

Remount ==
  /\ \A t \in Threads : pc[t] = "idle"
  /\ Use("ops", MaxOps)
  /\ table' = [i \in Inums |-> IF \E e \in valid \cap dirty : inum[e] = i
                               THEN copy[CHOOSE e \in valid \cap dirty : inum[e] = i] ELSE table[i]]
  /\ stored' = bits /\ bits' = bits
  /\ free' = FormattedFree
  /\ Cross(IF free # FormattedFree THEN {"recount"} ELSE {})
  /\ inum' = EmptyPool.inum /\ ref' = EmptyPool.inum /\ copy' = EmptyPool.inum
  /\ valid' = {} /\ dirty' = {}
  /\ head' = EmptyPool.head /\ hnext' = EmptyPool.inum /\ lru' = EmptyPool.lru
  /\ UNCHANGED <<live, pc, callVars, ent, image, why, latest>>

Init ==
  /\ inum = EmptyPool.inum /\ ref = inum /\ copy = inum /\ valid = {} /\ dirty = {}
  /\ head = EmptyPool.head /\ hnext = inum /\ lru = EmptyPool.lru
  /\ table = [i \in Inums |-> 0] /\ latest = table
  /\ live = Named /\ bits = {0, 1} \cup Named /\ stored = bits /\ free = FormattedFree
  /\ pc = [t \in Threads |-> "idle"] /\ op = [t \in Threads |-> "none"]
  /\ want = [t \in Threads |-> NULL] /\ ent = want /\ ver = want
  /\ image = [t \in Threads |-> <<>>] /\ why = [t \in Threads |-> "own"]
  /\ crossed = {} /\ used = [b \in {"ops", "faults"} |-> 0]

\* a behaviour may stop here only: elsewhere a step must be possible
Finished == (\A t \in Threads : pc[t] = "idle") /\ used["ops"] = MaxOps /\ UNCHANGED vars

Calls(t) == AllocBit(t) \/ SyncAll(t) \/ \E i \in Inums : UseBegin(t, i) \/ FreeBegin(t, i)
Get(t)   == GetHit(t) \/ GetVictim(t) \/ GetFull(t) \/ Claim(t) \/ Load(t) \/ Reload(t)
Work(t)  == UseQuick(t) \/ UseSync(t) \/ FreeTruncate(t) \/ Put(t)
Sync(t)  == SyncRead(t) \/ SyncWrite(t) \/ SyncClear(t) \/ ScanEntry(t) \/ ScanEnd(t)
Bits(t)  == Rollback(t) \/ FreeBit(t) \/ Count(t) \/ BitmapSync(t)
Faults(t) == LoadFault(t) \/ SyncFault(t)

Next ==
  \/ \E t \in Threads : Calls(t) \/ Get(t) \/ Work(t) \/ Sync(t) \/ Bits(t) \/ Faults(t)
  \/ Remount
  \/ Finished

Spec == Init /\ [][Next]_vars

----------------------------------------------------------------------------
(* Properties.  The code does not enforce the limits under which the cache *)
(* keeps its inodes; "crossed" names those a behaviour has gone beyond:    *)
(*   lateLoad   the load of a claimed entry overwrote what another thread, *)
(*              which had loaded the entry first, stored in it             *)
(*   tableRace  two inode_syncs on one block of the table: the second      *)
(*              write carried the first one's inode as it was before       *)
(*   syncRace   sync_all, which takes no inode's lock, cleared the dirty   *)
(*              mark of a change made after it had copied the inode        *)
(*   dropped    the write of a dirty victim failed, and it was recycled    *)
(*   unhashed   an entry whose load had failed was recycled: it stays in   *)
(*              its old chain, which now goes on into the new one          *)
(*   unstored   a write of the inode bitmap failed                         *)
(*   unrolled   another thread wrote the bitmap with the bit of an inode   *)
(*              whose allocation then failed: the rollback is not written  *)
(*   count      two changes of free_inodes at once                         *)
(*   recount    a mount took the count that mkfs wrote                     *)

Limits == {"lateLoad", "tableRace", "syncRace", "dropped", "unhashed", "unstored",
           "unrolled", "count", "recount"}
Losses == {"lateLoad", "tableRace", "syncRace", "dropped", "unhashed"}

TypeOK ==
  /\ inum \in [Entries -> Inums] /\ ref \in [Entries -> 0 .. Cardinality(Threads)]
  /\ valid \subseteq Entries /\ dirty \subseteq Entries
  /\ copy \in [Entries -> 0 .. MaxOps] /\ table \in [Inums -> 0 .. MaxOps]
  /\ head \in [Buckets -> Entries \cup {NULL}] /\ hnext \in [Entries -> Entries \cup {NULL}]
  /\ Len(lru) = PoolSize /\ {lru[n] : n \in Entries} = Entries
  /\ bits \subseteq Inums /\ stored \subseteq Inums /\ live \subseteq bits /\ free \in Int
  /\ pc \in [Threads -> Pcs] /\ why \in [Threads -> {"own", "evict", "all"}]
  /\ op \in [Threads -> {"none", "use", "alloc", "free", "all"}]
  /\ want \in [Threads -> Inums] /\ ent \in [Threads -> 0 .. PoolSize + 1]
  /\ latest \in [Inums -> 0 .. MaxOps] /\ crossed \subseteq Limits

\* t has a reference to an entry
Holds(t) ==
  \/ pc[t] \in {"load", "reload", "use", "put", "drop"}
  \/ pc[t] \in {"rollback", "count", "bitmap"} /\ ent[t] # NULL
  \/ pc[t] \in SyncPcs /\ why[t] = "own"

\* One inode has one entry, however many threads use it: an entry with a
\* reference is the one a lookup of its number finds, and it is not recycled
\* under a thread that holds it (inode_get's hash, LRU and reference count).
\* No chain is walked for ever, and the LRU list has every entry once (TypeOK).
OneCopy ==
  /\ TypeOK
  /\ "unhashed" \notin crossed =>
    /\ \A b \in Buckets : Ends(b)
    /\ \A e \in Entries : ref[e] > 0 => Found(inum[e]) = e
    /\ \A t \in Threads : Holds(t) => inum[ent[t]] = want[t]

\* The reference counts are the references: no failing load, failing
\* allocation or free keeps one (a pinned entry is lost to the cache) or gives
\* one back twice.
RefsExact ==
  \A e \in Entries : ref[e] = Cardinality({t \in Threads : Holds(t) /\ ent[t] = e})

\* No change of an inode is lost: what was stored last is in the table or in a
\* loaded, dirty entry; and an entry that is loaded shows it.
NothingLost ==
  crossed \cap Losses = {} =>
    /\ \A i \in Inums : \/ table[i] = latest[i]
                        \/ \E e \in valid \cap dirty : inum[e] = i /\ copy[e] = latest[i]
    /\ \A e \in valid : Found(inum[e]) = e => copy[e] = latest[inum[e]]

Settled == \A t \in Threads : op[t] \notin {"alloc", "free"}

\* When no inode is being allocated or freed, the bitmap has the reserved
\* inodes and those that directories name, no other, after failing calls too;
\* the disk has the same bitmap, and free_inodes counts the clear bits.
InodesAccounted ==
  Settled =>
    /\ bits = {0, 1} \cup live
    /\ crossed \cap {"unstored", "unrolled"} = {} => stored = bits
    /\ crossed \cap {"count", "recount"} = {} => free = TotalInodes - Cardinality(bits)
=============================================================================
