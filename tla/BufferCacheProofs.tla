------------------------- MODULE BufferCacheProofs -------------------------
(***************************************************************************)
(* Theorems about BufferCache, for every number of threads, every set of   *)
(* blocks and every capacity of the cache: a read returns the latest write *)
(* and a sync that returned success is not undone, within the limits that  *)
(* "crossed" names.                                                        *)
(*                                                                         *)
(* The invariant has two parts.  BasicInv holds always.  StrictInv holds   *)
(* as long as no limit is crossed; it says, for an operation at each of    *)
(* its steps, what the buffer of its block and the device then hold, and   *)
(* for a block on which no write is half-way that cache and device agree.  *)
(***************************************************************************)
EXTENDS BufferCache, FiniteSetTheorems, TLAPS

USE CacheAssumption

OnPcs == ReadPcs \cup WritePcs \cup ApplyPcs

\* a thread is at one of these steps of an operation on b
At(b, ps) == \E t \in Threads : on[t] = b /\ pc[t] \in ps

\* the writes begun so far bound every version there is
Bounded ==
  /\ used \in [{"writes", "faults", "crashes"} -> Nat] /\ used["writes"] <= MaxWrites
  /\ \A t \in Threads : val[t] <= used["writes"]
  /\ \A b \in Blocks : /\ data[b] <= used["writes"] /\ disk[b] <= used["writes"]
                       /\ latest[b] <= used["writes"]

\* where a thread is tells what it works on, and whether it has cache_lock
Places ==
  \A t \in Threads :
    /\ pc[t] \in OnPcs \cup {"clear"} <=> on[t] # NoBlock
    /\ pc[t] \in {"rdHit", "reload", "refill", "wrHit", "mark", "clear"} => on[t] \in cached
    /\ pc[t] \in SyncPcs <=> lock = t

BasicInv == TypeOK /\ Bounded /\ Places

\* a dirty buffer is a valid one
DirtyValid == dirty \subseteq valid

\* beside a write or a checkpoint of a block there is no other operation on it
Alone ==
  \A t, u \in Threads :
    t # u /\ on[t] = on[u] /\ pc[t] \in OnPcs /\ pc[u] \in OnPcs => {pc[t], pc[u]} \subseteq ReadPcs

\* what a thread can rely on at each step of its operation
Locals(t) ==
  LET b == on[t] IN
  /\ pc[t] \in {"reload", "refill", "rdMiss", "insert"} => b \notin dirty
  /\ pc[t] \in {"refill", "insert"} => val[t] = disk[b]
  /\ pc[t] \in {"wrMiss", "direct"} => b \notin cached
  /\ pc[t] = "mark" => b \in valid \ dirty /\ data[b] = val[t] /\ disk[b] = latest[b]
  /\ pc[t] = "inval" => disk[b] = val[t]
  /\ pc[t] \in WritePcs \cup ApplyPcs => disk[b] <= val[t] /\ latest[b] <= val[t]
  /\ pc[t] = "clear" => b \in dirty /\ (~At(b, {"inval"}) => data[b] = disk[b])

\* a read returns the latest write, and a clean buffer is what the device has
Settled(b) ==
  /\ Visible(b) = latest[b]
  /\ b \in valid \ dirty => data[b] = disk[b]

\* a block is settled but between an insertion and its mark and between the
\* device write of a checkpoint and its invalidation; and the device has what
\* a running sync has gone past, and what finished syncs owe
Whole(b) ==
  /\ ~At(b, {"mark", "inval"}) => Settled(b)
  /\ ~At(b, {"inval"}) => disk[b] <= latest[b]
  /\ owed[b] <= latest[b]
  /\ lock # Nobody /\ b \in visited \cup (Blocks \ cached) => owed[b] <= disk[b]
  /\ synced[b] <= disk[b]

AllLocals == \A t \in Threads : Locals(t)
AllWhole  == \A b \in Blocks : Whole(b)
StrictInv == DirtyValid /\ Alone /\ AllLocals /\ AllWhole

CacheInv == BasicInv /\ (crossed = {} => StrictInv)

(***************************************************************************)
(* Lemmas.                                                                 *)
(***************************************************************************)

\* An operation, and a sync that has written a buffer, is on a block.
LEMMA OnType ==
  ASSUME BasicInv, NEW t \in Threads, pc[t] \in OnPcs \cup {"clear"}
  PROVE  on[t] \in Blocks
BY DEF BasicInv, TypeOK, Places

\* A buffer for a block that has one, or that there is room for, fits.
LEMMA RoomFor ==
  ASSUME BasicInv, NEW b \in Blocks, b \in cached \/ Room
  PROVE  Cardinality(cached \cup {b}) <= Capacity
<1>1. IsFiniteSet(cached)
  BY FS_Subset DEF BasicInv, TypeOK
<1>2. Cardinality(cached) \in Nat /\ Cardinality(cached) <= Capacity
  BY <1>1, FS_CardinalityType DEF BasicInv, TypeOK
<1>3. Cardinality(cached \cup {b}) = IF b \in cached THEN Cardinality(cached) ELSE Cardinality(cached) + 1
  BY <1>1, FS_AddElement
<1>. QED  BY <1>2, <1>3 DEF Room

\* The invariant holds of the empty cache.
LEMMA InitInv == Init => CacheInv
<1>. SUFFICES ASSUME Init PROVE CacheInv
  OBVIOUS
<1>1. TypeOK
  BY FS_EmptySet DEF Init, TypeOK, Versions, Pcs, Limits
<1>2. Bounded
  BY DEF Init, Bounded
<1>3. Places
  BY DEF Init, Places, OnPcs, ReadPcs, WritePcs, ApplyPcs, SyncPcs
<1>4. DirtyValid /\ Alone
  BY DEF Init, DirtyValid, Alone, OnPcs, ReadPcs, WritePcs, ApplyPcs
<1>5. AllLocals
  BY DEF Init, AllLocals, Locals, ReadPcs, WritePcs, ApplyPcs
<1>6. AllWhole
  BY DEF Init, AllWhole, Whole, Settled, Visible
<1>. QED  BY <1>1, <1>2, <1>3, <1>4, <1>5, <1>6 DEF CacheInv, BasicInv, StrictInv

(***************************************************************************)
(* What holds always.                                                      *)
(***************************************************************************)

\* No step leaves the types; a cache that is full takes no further buffer.
LEMMA TypeStep ==
  ASSUME BasicInv, [Next]_vars
  PROVE  TypeOK'
<1>. USE DEF BasicInv, bufferVars, syncVars, threadVars, Pcs, ReadPcs, WritePcs, ApplyPcs,
            SyncPcs, TypeOK, Bounded, Places, Versions, Limits
<1>1. ASSUME NEW t \in Threads, NEW b \in Blocks, NEW p \in {"rd", "wr", "apply"},
            Begin(t, b, p)
     PROVE  TypeOK'
  BY <1>1 DEF Begin, Goto, Use, Cross, Overlap
<1>2. ASSUME NEW t \in Threads, ReadLookup(t)  PROVE TypeOK'
  BY <1>2 DEF ReadLookup, Lookup, Goto
<1>3. ASSUME NEW t \in Threads, ReadValid(t)  PROVE TypeOK'
  BY <1>3 DEF ReadValid, Return, Done, Changing, Goto
<1>4. ASSUME NEW t \in Threads, ReadInvalid(t)  PROVE TypeOK'
  BY <1>4 DEF ReadInvalid, Goto
<1>5. ASSUME NEW t \in Threads, ReadDevice(t)  PROVE TypeOK'
  <2>1. on[t] \in Blocks
    BY <1>5, OnType DEF ReadDevice, OnPcs
  <2>2. val' \in [Threads -> Versions]
    BY <1>5, <2>1 DEF ReadDevice
  <2>. QED  BY <1>5, <2>1, <2>2 DEF ReadDevice, Goto
<1>6. ASSUME NEW t \in Threads, Refill(t)  PROVE TypeOK'
  BY <1>6 DEF Refill, Fill, Return, Done, Changing, Goto
<1>7. ASSUME NEW t \in Threads, ReadInsert(t)  PROVE TypeOK'
  <2>1. on[t] \in Blocks
    BY <1>7, OnType DEF ReadInsert, OnPcs
  <2>2. Cardinality(cached') <= Capacity
    BY <1>7, <2>1, RoomFor DEF ReadInsert, Insert
  <2>3. /\ pc' \in [Threads -> Pcs] /\ on' \in [Threads -> Blocks \cup {NoBlock}]
        /\ val' \in [Threads -> Versions]
    BY <1>7 DEF ReadInsert, Return, Done, Goto
  <2>4. /\ data' \in [Blocks -> Versions] /\ cached' \subseteq Blocks /\ cached \subseteq cached'
        /\ valid' \subseteq cached' /\ dirty' \subseteq cached'
    BY <1>7, <2>1 DEF ReadInsert, Insert, Fill
  <2>. QED  BY <1>7, <2>2, <2>3, <2>4 DEF ReadInsert, Return, Changing
<1>8. ASSUME NEW t \in Threads, WriteLookup(t)  PROVE TypeOK'
  BY <1>8 DEF WriteLookup, Lookup, Goto
<1>9. ASSUME NEW t \in Threads, WriteHit(t)  PROVE TypeOK'
  BY <1>9 DEF WriteHit, Return, Done, Changing, Goto, Cross
<1>10. ASSUME NEW t \in Threads, WriteInsert(t)  PROVE TypeOK'
  <2>1. on[t] \in Blocks
    BY <1>10, OnType DEF WriteInsert, OnPcs
  <2>2. Cardinality(cached') <= Capacity
    BY <1>10, <2>1, RoomFor DEF WriteInsert, Insert
  <2>3. pc' \in [Threads -> Pcs]
    BY <1>10 DEF WriteInsert, Goto
  <2>4. /\ data' \in [Blocks -> Versions] /\ cached' \subseteq Blocks /\ cached \subseteq cached'
        /\ valid' \subseteq cached' /\ dirty' \subseteq cached'
    BY <1>10, <2>1 DEF WriteInsert, Insert, Fill
  <2>. QED  BY <1>10, <2>2, <2>3, <2>4 DEF WriteInsert
<1>11. ASSUME NEW t \in Threads, WriteMark(t)  PROVE TypeOK'
  BY <1>11 DEF WriteMark, Return, Done, Changing, Goto
<1>12. ASSUME NEW t \in Threads, WriteDirect(t)  PROVE TypeOK'
  <2>1. on[t] \in Blocks
    BY <1>12, OnType DEF WriteDirect, OnPcs
  <2>2. disk' \in [Blocks -> Versions] /\ latest' \in [Blocks -> Versions]
    BY <1>12, <2>1 DEF WriteDirect, Return
  <2>. QED  BY <1>12, <2>2 DEF WriteDirect, Return, Done, Goto
<1>13. ASSUME NEW t \in Threads, ApplyDevice(t)  PROVE TypeOK'
  BY <1>13 DEF ApplyDevice, Goto
<1>14. ASSUME NEW t \in Threads, ApplyInvalidate(t)  PROVE TypeOK'
  <2>1. on[t] \in Blocks
    BY <1>14, OnType DEF ApplyInvalidate, OnPcs
  <2>2. latest' \in [Blocks -> Versions]
    BY <1>14, <2>1 DEF ApplyInvalidate, Return
  <2>3. /\ pc' \in [Threads -> Pcs] /\ on' \in [Threads -> Blocks \cup {NoBlock}]
        /\ val' \in [Threads -> Versions]
    BY <1>14 DEF ApplyInvalidate, Return, Done, Goto
  <2>. QED  BY <1>14, <2>2, <2>3 DEF ApplyInvalidate
<1>15. ASSUME NEW t \in Threads, SyncBegin(t)  PROVE TypeOK'
  BY <1>15 DEF SyncBegin, Goto
<1>16. ASSUME NEW t \in Threads, NEW b \in Blocks, SyncWrite(t, b)  PROVE TypeOK'
  BY <1>16 DEF SyncWrite, Goto, Cross
<1>17. ASSUME NEW t \in Threads, SyncClear(t)  PROVE TypeOK'
  BY <1>17 DEF SyncClear, Goto
<1>18. ASSUME NEW t \in Threads, NEW b \in Blocks, SyncSkip(t, b)  PROVE TypeOK'
  BY <1>18 DEF SyncSkip
<1>19. ASSUME NEW t \in Threads, SyncEnd(t)  PROVE TypeOK'
  BY <1>19 DEF SyncEnd, Done, Goto
<1>20. ASSUME NEW t \in Threads, SyncFault(t)  PROVE TypeOK'
  BY <1>20 DEF SyncFault, Use, Done, Goto
<1>21. ASSUME NEW t \in Threads, Fault(t)  PROVE TypeOK'
  BY <1>21 DEF Fault, Use, Done, Goto
<1>22. CASE Crash
  <2>1. Cardinality({}) = 0
    BY FS_EmptySet
  <2>. QED  BY <1>22, <2>1 DEF Crash, Use
<1>23. CASE UNCHANGED vars
  BY <1>23 DEF vars
<1>. QED
  BY ONLY [Next]_vars, <1>1, <1>2, <1>3, <1>4, <1>5, <1>6, <1>7, <1>8, <1>9, <1>10, <1>11,
          <1>12, <1>13, <1>14, <1>15, <1>16, <1>17, <1>18, <1>19, <1>20, <1>21, <1>22, <1>23
  DEF Next, Calls, Read, Write, Apply, Sync, Faults

\* A new write has the highest version.
LEMMA BoundedStep ==
  ASSUME BasicInv, [Next]_vars
  PROVE  Bounded'
<1>. USE DEF BasicInv, bufferVars, syncVars, threadVars, Pcs, ReadPcs, WritePcs, ApplyPcs,
            SyncPcs, TypeOK, Bounded, Places, Versions
<1>1. ASSUME NEW t \in Threads, NEW b \in Blocks, NEW p \in {"rd", "wr", "apply"},
            Begin(t, b, p)
     PROVE  Bounded'
  BY <1>1 DEF Begin, Goto, Use, Cross, Overlap
<1>2. ASSUME NEW t \in Threads, ReadLookup(t)  PROVE Bounded'
  BY <1>2 DEF ReadLookup, Lookup, Goto
<1>3. ASSUME NEW t \in Threads, ReadValid(t)  PROVE Bounded'
  BY <1>3 DEF ReadValid, Return, Done, Changing, Goto
<1>4. ASSUME NEW t \in Threads, ReadInvalid(t)  PROVE Bounded'
  BY <1>4 DEF ReadInvalid, Goto
<1>5. ASSUME NEW t \in Threads, ReadDevice(t)  PROVE Bounded'
  <2>1. on[t] \in Blocks
    BY <1>5, OnType DEF ReadDevice, OnPcs
  <2>2. \A u \in Threads : val'[u] = IF u = t THEN disk[on[t]] ELSE val[u]
    BY <1>5 DEF ReadDevice
  <2>. QED  BY <1>5, <2>1, <2>2 DEF ReadDevice
<1>6. ASSUME NEW t \in Threads, Refill(t)  PROVE Bounded'
  BY <1>6 DEF Refill, Fill, Return, Done, Changing, Goto
<1>7. ASSUME NEW t \in Threads, ReadInsert(t)  PROVE Bounded'
  BY <1>7 DEF ReadInsert, Insert, Fill, Room, Return, Done, Changing, Goto
<1>8. ASSUME NEW t \in Threads, WriteLookup(t)  PROVE Bounded'
  BY <1>8 DEF WriteLookup, Lookup, Goto
<1>9. ASSUME NEW t \in Threads, WriteHit(t)  PROVE Bounded'
  BY <1>9 DEF WriteHit, Return, Done, Changing, Goto, Cross
<1>10. ASSUME NEW t \in Threads, WriteInsert(t)  PROVE Bounded'
  BY <1>10 DEF WriteInsert, Insert, Fill, Room, Goto
<1>11. ASSUME NEW t \in Threads, WriteMark(t)  PROVE Bounded'
  BY <1>11 DEF WriteMark, Return, Done, Changing, Goto
<1>12. ASSUME NEW t \in Threads, WriteDirect(t)  PROVE Bounded'
  BY <1>12 DEF WriteDirect, Return, Done, Changing, Goto
<1>13. ASSUME NEW t \in Threads, ApplyDevice(t)  PROVE Bounded'
  BY <1>13 DEF ApplyDevice, Goto
<1>14. ASSUME NEW t \in Threads, ApplyInvalidate(t)  PROVE Bounded'
  BY <1>14 DEF ApplyInvalidate, Return, Done, Changing, Goto
<1>15. ASSUME NEW t \in Threads, SyncBegin(t)  PROVE Bounded'
  BY <1>15 DEF SyncBegin, Goto
<1>16. ASSUME NEW t \in Threads, NEW b \in Blocks, SyncWrite(t, b)  PROVE Bounded'
  BY <1>16 DEF SyncWrite, Goto, Cross
<1>17. ASSUME NEW t \in Threads, SyncClear(t)  PROVE Bounded'
  BY <1>17 DEF SyncClear, Goto
<1>18. ASSUME NEW t \in Threads, NEW b \in Blocks, SyncSkip(t, b)  PROVE Bounded'
  BY <1>18 DEF SyncSkip
<1>19. ASSUME NEW t \in Threads, SyncEnd(t)  PROVE Bounded'
  BY <1>19 DEF SyncEnd, Done, Goto
<1>20. ASSUME NEW t \in Threads, SyncFault(t)  PROVE Bounded'
  BY <1>20 DEF SyncFault, Use, Done, Goto
<1>21. ASSUME NEW t \in Threads, Fault(t)  PROVE Bounded'
  BY <1>21 DEF Fault, Use, Done, Goto
<1>22. CASE Crash
  BY <1>22 DEF Crash, Use
<1>23. CASE UNCHANGED vars
  BY <1>23 DEF vars
<1>. QED
  BY ONLY [Next]_vars, <1>1, <1>2, <1>3, <1>4, <1>5, <1>6, <1>7, <1>8, <1>9, <1>10, <1>11,
          <1>12, <1>13, <1>14, <1>15, <1>16, <1>17, <1>18, <1>19, <1>20, <1>21, <1>22, <1>23
  DEF Next, Calls, Read, Write, Apply, Sync, Faults

\* cache_lock is with the one thread that is inside a sync; buffers stay.
LEMMA PlacesStep ==
  ASSUME BasicInv, [Next]_vars
  PROVE  Places'
<1>. USE DEF BasicInv, bufferVars, syncVars, threadVars, Pcs, ReadPcs, WritePcs, ApplyPcs,
            SyncPcs, TypeOK, Places, OnPcs
<1>1. ASSUME NEW t \in Threads, NEW b \in Blocks, NEW p \in {"rd", "wr", "apply"},
            Begin(t, b, p)
     PROVE  Places'
  BY <1>1 DEF Begin, Goto, Use, Cross, Overlap
<1>2. ASSUME NEW t \in Threads, ReadLookup(t)  PROVE Places'
  BY <1>2 DEF ReadLookup, Lookup, Goto
<1>3. ASSUME NEW t \in Threads, ReadValid(t)  PROVE Places'
  BY <1>3 DEF ReadValid, Return, Done, Changing, Goto
<1>4. ASSUME NEW t \in Threads, ReadInvalid(t)  PROVE Places'
  BY <1>4 DEF ReadInvalid, Goto
<1>5. ASSUME NEW t \in Threads, ReadDevice(t)  PROVE Places'
  BY <1>5 DEF ReadDevice, Goto
<1>6. ASSUME NEW t \in Threads, Refill(t)  PROVE Places'
  BY <1>6 DEF Refill, Fill, Return, Done, Changing, Goto
<1>7. ASSUME NEW t \in Threads, ReadInsert(t)  PROVE Places'
  BY <1>7 DEF ReadInsert, Insert, Fill, Room, Return, Done, Changing, Goto
<1>8. ASSUME NEW t \in Threads, WriteLookup(t)  PROVE Places'
  BY <1>8 DEF WriteLookup, Lookup, Goto
<1>9. ASSUME NEW t \in Threads, WriteHit(t)  PROVE Places'
  BY <1>9 DEF WriteHit, Return, Done, Changing, Goto, Cross
<1>10. ASSUME NEW t \in Threads, WriteInsert(t)  PROVE Places'
  BY <1>10 DEF WriteInsert, Insert, Fill, Room, Goto
<1>11. ASSUME NEW t \in Threads, WriteMark(t)  PROVE Places'
  BY <1>11 DEF WriteMark, Return, Done, Changing, Goto
<1>12. ASSUME NEW t \in Threads, WriteDirect(t)  PROVE Places'
  BY <1>12 DEF WriteDirect, Return, Done, Changing, Goto
<1>13. ASSUME NEW t \in Threads, ApplyDevice(t)  PROVE Places'
  BY <1>13 DEF ApplyDevice, Goto
<1>14. ASSUME NEW t \in Threads, ApplyInvalidate(t)  PROVE Places'
  BY <1>14 DEF ApplyInvalidate, Return, Done, Changing, Goto
<1>15. ASSUME NEW t \in Threads, SyncBegin(t)  PROVE Places'
  <2>1. \A u \in Threads : pc'[u] = IF u = t THEN "visit" ELSE pc[u]
    BY <1>15 DEF SyncBegin, Goto
  <2>2. \A u \in Threads : lock' = u <=> u = t
    BY <1>15 DEF SyncBegin
  <2>3. \A u \in Threads : u # t => pc[u] \notin SyncPcs
    BY <1>15 DEF SyncBegin, LockFree
  <2>. QED  BY <1>15, <2>1, <2>2, <2>3 DEF SyncBegin
<1>16. ASSUME NEW t \in Threads, NEW b \in Blocks, SyncWrite(t, b)  PROVE Places'
  BY <1>16 DEF SyncWrite, Goto, Cross
<1>17. ASSUME NEW t \in Threads, SyncClear(t)  PROVE Places'
  BY <1>17 DEF SyncClear, Goto
<1>18. ASSUME NEW t \in Threads, NEW b \in Blocks, SyncSkip(t, b)  PROVE Places'
  BY <1>18 DEF SyncSkip
<1>19. ASSUME NEW t \in Threads, SyncEnd(t)  PROVE Places'
  BY <1>19 DEF SyncEnd, Done, Goto
<1>20. ASSUME NEW t \in Threads, SyncFault(t)  PROVE Places'
  BY <1>20 DEF SyncFault, Use, Done, Goto
<1>21. ASSUME NEW t \in Threads, Fault(t)  PROVE Places'
  BY <1>21 DEF Fault, Use, Done, Goto
<1>22. CASE Crash
  BY <1>22 DEF Crash, Use
<1>23. CASE UNCHANGED vars
  BY <1>23 DEF vars
<1>. QED
  BY ONLY [Next]_vars, <1>1, <1>2, <1>3, <1>4, <1>5, <1>6, <1>7, <1>8, <1>9, <1>10, <1>11,
          <1>12, <1>13, <1>14, <1>15, <1>16, <1>17, <1>18, <1>19, <1>20, <1>21, <1>22, <1>23
  DEF Next, Calls, Read, Write, Apply, Sync, Faults

(***************************************************************************)
(* What holds within the limits.                                           *)
(***************************************************************************)

\* No buffer that is not valid is marked: a write that would hit one crosses a limit.
LEMMA MarkedStep ==
  ASSUME BasicInv, StrictInv, crossed' = {}, [Next]_vars
  PROVE  DirtyValid'
<1>. USE DEF BasicInv, bufferVars, syncVars, threadVars, Pcs, ReadPcs, WritePcs, ApplyPcs,
            SyncPcs, TypeOK, Bounded, Places, Versions, OnPcs,
            StrictInv, DirtyValid, AllLocals, Locals
<1>1. ASSUME NEW t \in Threads, NEW b \in Blocks, NEW p \in {"rd", "wr", "apply"},
            Begin(t, b, p)
     PROVE  DirtyValid'
  BY <1>1 DEF Begin, Goto, Use, Cross, Overlap
<1>2. ASSUME NEW t \in Threads, ReadLookup(t)  PROVE DirtyValid'
  BY <1>2 DEF ReadLookup, Lookup, Goto
<1>3. ASSUME NEW t \in Threads, ReadValid(t)  PROVE DirtyValid'
  BY <1>3 DEF ReadValid, Return, Done, Changing, Goto
<1>4. ASSUME NEW t \in Threads, ReadInvalid(t)  PROVE DirtyValid'
  BY <1>4 DEF ReadInvalid, Goto
<1>5. ASSUME NEW t \in Threads, ReadDevice(t)  PROVE DirtyValid'
  BY <1>5 DEF ReadDevice, Goto
<1>6. ASSUME NEW t \in Threads, Refill(t)  PROVE DirtyValid'
  BY <1>6 DEF Refill, Fill, Return, Done, Changing, Goto
<1>7. ASSUME NEW t \in Threads, ReadInsert(t)  PROVE DirtyValid'
  BY <1>7 DEF ReadInsert, Insert, Fill, Room, Return, Done, Changing, Goto
<1>8. ASSUME NEW t \in Threads, WriteLookup(t)  PROVE DirtyValid'
  BY <1>8 DEF WriteLookup, Lookup, Goto
<1>9. ASSUME NEW t \in Threads, WriteHit(t)  PROVE DirtyValid'
  <2>1. on[t] \in valid
    BY <1>9 DEF WriteHit, Cross
  <2>. QED  BY <1>9, <2>1 DEF WriteHit
<1>10. ASSUME NEW t \in Threads, WriteInsert(t)  PROVE DirtyValid'
  BY <1>10 DEF WriteInsert, Insert, Fill, Room, Goto
<1>11. ASSUME NEW t \in Threads, WriteMark(t)  PROVE DirtyValid'
  BY <1>11 DEF WriteMark, Return, Done, Changing, Goto
<1>12. ASSUME NEW t \in Threads, WriteDirect(t)  PROVE DirtyValid'
  BY <1>12 DEF WriteDirect, Return, Done, Changing, Goto
<1>13. ASSUME NEW t \in Threads, ApplyDevice(t)  PROVE DirtyValid'
  BY <1>13 DEF ApplyDevice, Goto
<1>14. ASSUME NEW t \in Threads, ApplyInvalidate(t)  PROVE DirtyValid'
  BY <1>14 DEF ApplyInvalidate, Return, Done, Changing, Goto
<1>15. ASSUME NEW t \in Threads, SyncBegin(t)  PROVE DirtyValid'
  BY <1>15 DEF SyncBegin, Goto
<1>16. ASSUME NEW t \in Threads, NEW b \in Blocks, SyncWrite(t, b)  PROVE DirtyValid'
  BY <1>16 DEF SyncWrite, Goto, Cross
<1>17. ASSUME NEW t \in Threads, SyncClear(t)  PROVE DirtyValid'
  BY <1>17 DEF SyncClear, Goto
<1>18. ASSUME NEW t \in Threads, NEW b \in Blocks, SyncSkip(t, b)  PROVE DirtyValid'
  BY <1>18 DEF SyncSkip
<1>19. ASSUME NEW t \in Threads, SyncEnd(t)  PROVE DirtyValid'
  BY <1>19 DEF SyncEnd, Done, Goto
<1>20. ASSUME NEW t \in Threads, SyncFault(t)  PROVE DirtyValid'
  BY <1>20 DEF SyncFault, Use, Done, Goto
<1>21. ASSUME NEW t \in Threads, Fault(t)  PROVE DirtyValid'
  BY <1>21 DEF Fault, Use, Done, Goto
<1>22. CASE Crash
  BY <1>22 DEF Crash, Use
<1>23. CASE UNCHANGED vars
  BY <1>23 DEF vars
<1>. QED
  BY ONLY [Next]_vars, <1>1, <1>2, <1>3, <1>4, <1>5, <1>6, <1>7, <1>8, <1>9, <1>10, <1>11,
          <1>12, <1>13, <1>14, <1>15, <1>16, <1>17, <1>18, <1>19, <1>20, <1>21, <1>22, <1>23
  DEF Next, Calls, Read, Write, Apply, Sync, Faults

\* Nobody begins beside a change, nor a change beside anybody.
LEMMA AloneStep ==
  ASSUME BasicInv, StrictInv, crossed' = {}, [Next]_vars
  PROVE  Alone'
<1>. USE DEF BasicInv, bufferVars, syncVars, threadVars, Pcs, ReadPcs, WritePcs, ApplyPcs,
            SyncPcs, TypeOK, Bounded, Places, Versions, OnPcs,
            StrictInv, Alone, OnBlock, Changing
<1>1. ASSUME NEW t \in Threads, NEW b \in Blocks, NEW p \in {"rd", "wr", "apply"},
            Begin(t, b, p)
     PROVE  Alone'
  <2>1. \A u \in Threads : pc'[u] = (IF u = t THEN p ELSE pc[u]) /\ on'[u] = (IF u = t THEN b ELSE on[u])
    BY <1>1 DEF Begin, Goto
  <2>2. \A u \in Threads \ {t} : ~(OnBlock(u, b) /\ (Changing(u) \/ p # "rd"))
    BY <1>1 DEF Begin, Cross, Overlap
  <2>. QED  BY <2>1, <2>2
<1>2. ASSUME NEW t \in Threads, ReadLookup(t)  PROVE Alone'
  BY <1>2 DEF ReadLookup, Lookup, Goto
<1>3. ASSUME NEW t \in Threads, ReadValid(t)  PROVE Alone'
  BY <1>3 DEF ReadValid, Return, Done, Changing, Goto
<1>4. ASSUME NEW t \in Threads, ReadInvalid(t)  PROVE Alone'
  BY <1>4 DEF ReadInvalid, Goto
<1>5. ASSUME NEW t \in Threads, ReadDevice(t)  PROVE Alone'
  BY <1>5 DEF ReadDevice, Goto
<1>6. ASSUME NEW t \in Threads, Refill(t)  PROVE Alone'
  BY <1>6 DEF Refill, Fill, Return, Done, Changing, Goto
<1>7. ASSUME NEW t \in Threads, ReadInsert(t)  PROVE Alone'
  BY <1>7 DEF ReadInsert, Insert, Fill, Room, Return, Done, Changing, Goto
<1>8. ASSUME NEW t \in Threads, WriteLookup(t)  PROVE Alone'
  BY <1>8 DEF WriteLookup, Lookup, Goto
<1>9. ASSUME NEW t \in Threads, WriteHit(t)  PROVE Alone'
  BY <1>9 DEF WriteHit, Return, Done, Changing, Goto, Cross
<1>10. ASSUME NEW t \in Threads, WriteInsert(t)  PROVE Alone'
  BY <1>10 DEF WriteInsert, Insert, Fill, Room, Goto
<1>11. ASSUME NEW t \in Threads, WriteMark(t)  PROVE Alone'
  BY <1>11 DEF WriteMark, Return, Done, Changing, Goto
<1>12. ASSUME NEW t \in Threads, WriteDirect(t)  PROVE Alone'
  BY <1>12 DEF WriteDirect, Return, Done, Changing, Goto
<1>13. ASSUME NEW t \in Threads, ApplyDevice(t)  PROVE Alone'
  BY <1>13 DEF ApplyDevice, Goto
<1>14. ASSUME NEW t \in Threads, ApplyInvalidate(t)  PROVE Alone'
  BY <1>14 DEF ApplyInvalidate, Return, Done, Changing, Goto
<1>15. ASSUME NEW t \in Threads, SyncBegin(t)  PROVE Alone'
  BY <1>15 DEF SyncBegin, Goto
<1>16. ASSUME NEW t \in Threads, NEW b \in Blocks, SyncWrite(t, b)  PROVE Alone'
  BY <1>16 DEF SyncWrite, Goto, Cross
<1>17. ASSUME NEW t \in Threads, SyncClear(t)  PROVE Alone'
  BY <1>17 DEF SyncClear, Goto
<1>18. ASSUME NEW t \in Threads, NEW b \in Blocks, SyncSkip(t, b)  PROVE Alone'
  BY <1>18 DEF SyncSkip
<1>19. ASSUME NEW t \in Threads, SyncEnd(t)  PROVE Alone'
  BY <1>19 DEF SyncEnd, Done, Goto
<1>20. ASSUME NEW t \in Threads, SyncFault(t)  PROVE Alone'
  BY <1>20 DEF SyncFault, Use, Done, Goto
<1>21. ASSUME NEW t \in Threads, Fault(t)  PROVE Alone'
  BY <1>21 DEF Fault, Use, Done, Goto
<1>22. CASE Crash
  BY <1>22 DEF Crash, Use
<1>23. CASE UNCHANGED vars
  BY <1>23 DEF vars
<1>. QED
  BY ONLY [Next]_vars, <1>1, <1>2, <1>3, <1>4, <1>5, <1>6, <1>7, <1>8, <1>9, <1>10, <1>11,
          <1>12, <1>13, <1>14, <1>15, <1>16, <1>17, <1>18, <1>19, <1>20, <1>21, <1>22, <1>23
  DEF Next, Calls, Read, Write, Apply, Sync, Faults

\* No step of one thread takes away what another one relies on.
LEMMA LocalsStep ==
  ASSUME BasicInv, StrictInv, crossed' = {}, [Next]_vars
  PROVE  AllLocals'
<1>. USE DEF BasicInv, bufferVars, syncVars, threadVars, Pcs, ReadPcs, WritePcs, ApplyPcs,
            SyncPcs, TypeOK, Bounded, Places, Versions, OnPcs,
            StrictInv, DirtyValid, Alone, AllLocals, Locals,
            AllWhole, Whole, Settled, At, Visible
<1>1. ASSUME NEW t \in Threads, NEW b \in Blocks, NEW p \in {"rd", "wr", "apply"},
            Begin(t, b, p)
     PROVE  AllLocals'
  BY <1>1 DEF Begin, Goto, Use, Cross, Overlap
<1>2. ASSUME NEW t \in Threads, ReadLookup(t)  PROVE AllLocals'
  BY <1>2 DEF ReadLookup, Lookup, Goto
<1>3. ASSUME NEW t \in Threads, ReadValid(t)  PROVE AllLocals'
  BY <1>3 DEF ReadValid, Return, Done, Changing, Goto
<1>4. ASSUME NEW t \in Threads, ReadInvalid(t)  PROVE AllLocals'
  BY <1>4 DEF ReadInvalid, Goto
<1>5. ASSUME NEW t \in Threads, ReadDevice(t)  PROVE AllLocals'
  BY <1>5 DEF ReadDevice, Goto
<1>6. ASSUME NEW t \in Threads, Refill(t)  PROVE AllLocals'
  BY <1>6 DEF Refill, Fill, Return, Done, Changing, Goto
<1>7. ASSUME NEW t \in Threads, ReadInsert(t)  PROVE AllLocals'
  BY <1>7 DEF ReadInsert, Insert, Fill, Room, Return, Done, Changing, Goto
<1>8. ASSUME NEW t \in Threads, WriteLookup(t)  PROVE AllLocals'
  BY <1>8 DEF WriteLookup, Lookup, Goto
<1>9. ASSUME NEW t \in Threads, WriteHit(t)  PROVE AllLocals'
  <2>. DEFINE b == on[t]
  <2>1. b \in Blocks /\ b \in valid
    BY <1>9, OnType DEF WriteHit, Cross
  <2>2. \A u \in Threads : u # t /\ on[u] = b => pc[u] \notin OnPcs \cup {"clear"}
    <3>1. \A u \in Threads : on[u] = b => pc[u] # "clear"
      BY <1>9 DEF WriteHit, Cross
    <3>2. pc[t] = "wrHit" /\ on[t] = b
      BY <1>9 DEF WriteHit
    <3>3. \A u \in Threads : u # t /\ on[u] = b => pc[u] \notin OnPcs
      BY <3>2
    <3> QED BY <3>1, <3>3
  <2>3. \A u \in Threads : /\ pc'[u] = (IF u = t THEN "idle" ELSE pc[u])
                          /\ on'[u] = (IF u = t THEN NoBlock ELSE on[u])
                          /\ val'[u] = (IF u = t THEN 0 ELSE val[u])
    BY <1>9 DEF WriteHit, Return, Done, Goto
  <2>4. \A c \in Blocks : /\ data'[c] = (IF c = b THEN val[t] ELSE data[c])
                         /\ latest'[c] = (IF c = b THEN val[t] ELSE latest[c])
    BY <1>9, <2>1 DEF WriteHit, Return, Changing
  <2>5. dirty' = dirty \cup {b} /\ disk' = disk /\ cached' = cached /\ valid' = valid
    BY <1>9 DEF WriteHit
  <2>6. ASSUME NEW u \in Threads, u # t PROVE Locals(u)'
    <3>1. CASE pc[u] \in OnPcs \cup {"clear"}
      <4>1. on[u] \in Blocks /\ on[u] # b
        BY <3>1, <2>2, <2>6, OnType
      <4>2. At(on[u], {"inval"})' <=> At(on[u], {"inval"})
        BY <2>3, <4>1, <1>9 DEF WriteHit
      <4>3. Locals(u)
        OBVIOUS
      <4> HIDE DEF At, b
      <4> QED BY <2>3, <2>4, <2>5, <2>6, <4>1, <4>2, <4>3
    <3>2. CASE pc[u] \notin OnPcs \cup {"clear"}
      BY <2>3, <2>6, <3>2
    <3> QED BY <3>1, <3>2
  <2>7. Locals(t)'
    BY <2>3
  <2>. QED  BY <2>6, <2>7
<1>10. ASSUME NEW t \in Threads, WriteInsert(t)  PROVE AllLocals'
  BY <1>10 DEF WriteInsert, Insert, Fill, Room, Goto
<1>11. ASSUME NEW t \in Threads, WriteMark(t)  PROVE AllLocals'
  BY <1>11 DEF WriteMark, Return, Done, Changing, Goto
<1>12. ASSUME NEW t \in Threads, WriteDirect(t)  PROVE AllLocals'
  BY <1>12 DEF WriteDirect, Return, Done, Changing, Goto
<1>13. ASSUME NEW t \in Threads, ApplyDevice(t)  PROVE AllLocals'
  BY <1>13 DEF ApplyDevice, Goto
<1>14. ASSUME NEW t \in Threads, ApplyInvalidate(t)  PROVE AllLocals'
  <2>. DEFINE b == on[t]
  <2>1. b \in Blocks
    BY <1>14, OnType DEF ApplyInvalidate
  <2>2. \A u \in Threads : u # t /\ on[u] = b => pc[u] \notin OnPcs \cup {"clear"}
    BY <1>14 DEF ApplyInvalidate, LockFree
  <2>3. \A u \in Threads : /\ pc'[u] = (IF u = t THEN "idle" ELSE pc[u])
                          /\ on'[u] = (IF u = t THEN NoBlock ELSE on[u])
                          /\ val'[u] = (IF u = t THEN 0 ELSE val[u])
    BY <1>14 DEF ApplyInvalidate, Return, Done, Goto
  <2>4. \A c \in Blocks : latest'[c] = (IF c = b THEN val[t] ELSE latest[c])
    BY <1>14, <2>1 DEF ApplyInvalidate, Return, Changing
  <2>5. /\ dirty' = dirty \ {b} /\ disk' = disk /\ cached' = cached /\ valid' = valid \ {b}
        /\ data' = data
    BY <1>14 DEF ApplyInvalidate
  <2>6. ASSUME NEW u \in Threads, u # t PROVE Locals(u)'
    <3>1. CASE pc[u] \in OnPcs \cup {"clear"}
      <4>1. on[u] \in Blocks /\ on[u] # b
        BY <3>1, <2>2, <2>6, OnType
      <4>2. At(on[u], {"inval"})' <=> At(on[u], {"inval"})
        BY <2>3, <4>1, <1>14 DEF ApplyInvalidate
      <4>3. Locals(u)
        OBVIOUS
      <4> HIDE DEF At, b
      <4> QED BY <2>3, <2>4, <2>5, <2>6, <4>1, <4>2, <4>3
    <3>2. CASE pc[u] \notin OnPcs \cup {"clear"}
      BY <2>3, <2>6, <3>2
    <3> QED BY <3>1, <3>2
  <2>7. Locals(t)'
    BY <2>3
  <2>. QED  BY <2>6, <2>7
<1>15. ASSUME NEW t \in Threads, SyncBegin(t)  PROVE AllLocals'
  BY <1>15 DEF SyncBegin, Goto
<1>16. ASSUME NEW t \in Threads, NEW b \in Blocks, SyncWrite(t, b)  PROVE AllLocals'
  <2>1. \A u \in Threads : ~(on[u] = b /\ pc[u] \in ApplyPcs)
    BY <1>16 DEF SyncWrite, Cross
  <2>2. \A u \in Threads : /\ pc'[u] = (IF u = t THEN "clear" ELSE pc[u])
                          /\ on'[u] = (IF u = t THEN b ELSE on[u])
    BY <1>16 DEF SyncWrite, Goto
  <2>3. \A c \in Blocks : disk'[c] = (IF c = b THEN data[b] ELSE disk[c])
    BY <1>16 DEF SyncWrite
  <2>4. UNCHANGED <<bufferVars, syncVars, val, latest>> /\ pc[t] = "visit" /\ b \in dirty
    BY <1>16 DEF SyncWrite
  <2>5. ASSUME NEW u \in Threads, u # t PROVE Locals(u)'
    <3>1. pc[u] \notin SyncPcs
      BY <2>4, <2>5
    <3>2. CASE pc[u] \in OnPcs
      <4>1. on[u] \in Blocks
        BY <3>2, OnType
      <4>2. Locals(u) /\ Whole(b)
        OBVIOUS
      <4>3. CASE on[u] # b
        <5> HIDE DEF At
        <5> QED BY <2>2, <2>3, <2>4, <2>5, <3>1, <4>1, <4>2, <4>3
      <4>4. CASE on[u] = b
        <5>1. pc[u] \in ReadPcs \cup WritePcs
          BY <2>1, <3>2, <4>4
        <5>2. \A v \in Threads : on[v] = b => pc[v] # "mark"
          BY <2>4
        <5>3. Settled(b)
          BY <2>1, <4>2, <5>2
        <5>4. data[b] = latest[b]
          BY <5>3, <2>4
        <5>5. pc[u] \in WritePcs => data[b] <= val[u]
          BY <4>2, <4>4, <5>4
        <5> HIDE DEF At
        <5> QED BY <2>2, <2>3, <2>4, <2>5, <4>1, <4>2, <4>4, <5>1, <5>4, <5>5
      <4> QED BY <4>3, <4>4
    <3>3. CASE pc[u] \notin OnPcs
      BY <2>2, <2>5, <3>1, <3>3
    <3> QED BY <3>2, <3>3
  <2>6. Locals(t)'
    BY <2>2, <2>3, <2>4
  <2>. QED  BY <2>5, <2>6
<1>17. ASSUME NEW t \in Threads, SyncClear(t)  PROVE AllLocals'
  BY <1>17 DEF SyncClear, Goto
<1>18. ASSUME NEW t \in Threads, NEW b \in Blocks, SyncSkip(t, b)  PROVE AllLocals'
  BY <1>18 DEF SyncSkip
<1>19. ASSUME NEW t \in Threads, SyncEnd(t)  PROVE AllLocals'
  BY <1>19 DEF SyncEnd, Done, Goto
<1>20. ASSUME NEW t \in Threads, SyncFault(t)  PROVE AllLocals'
  BY <1>20 DEF SyncFault, Use, Done, Goto
<1>21. ASSUME NEW t \in Threads, Fault(t)  PROVE AllLocals'
  BY <1>21 DEF Fault, Use, Done, Goto
<1>22. CASE Crash
  BY <1>22 DEF Crash, Use
<1>23. CASE UNCHANGED vars
  BY <1>23 DEF vars
<1>. QED
  BY ONLY [Next]_vars, <1>1, <1>2, <1>3, <1>4, <1>5, <1>6, <1>7, <1>8, <1>9, <1>10, <1>11,
          <1>12, <1>13, <1>14, <1>15, <1>16, <1>17, <1>18, <1>19, <1>20, <1>21, <1>22, <1>23
  DEF Next, Calls, Read, Write, Apply, Sync, Faults

\* Every step leaves every block settled, or half-way as its thread says.
LEMMA WholeStep ==
  ASSUME BasicInv, StrictInv, crossed' = {}, [Next]_vars
  PROVE  AllWhole'
<1>. USE DEF BasicInv, bufferVars, syncVars, threadVars, Pcs, ReadPcs, WritePcs, ApplyPcs,
            SyncPcs, TypeOK, Bounded, Places, Versions, OnPcs,
            StrictInv, DirtyValid, Alone, AllLocals, Locals,
            AllWhole, Whole, Settled, At, Visible, Changing
<1>1. ASSUME NEW t \in Threads, NEW b \in Blocks, NEW p \in {"rd", "wr", "apply"},
            Begin(t, b, p)
     PROVE  AllWhole'
  BY <1>1 DEF Begin, Goto, Use, Cross, Overlap
<1>2. ASSUME NEW t \in Threads, ReadLookup(t)  PROVE AllWhole'
  BY <1>2 DEF ReadLookup, Lookup, Goto
<1>3. ASSUME NEW t \in Threads, ReadValid(t)  PROVE AllWhole'
  BY <1>3 DEF ReadValid, Return, Done, Changing, Goto
<1>4. ASSUME NEW t \in Threads, ReadInvalid(t)  PROVE AllWhole'
  BY <1>4 DEF ReadInvalid, Goto
<1>5. ASSUME NEW t \in Threads, ReadDevice(t)  PROVE AllWhole'
  BY <1>5 DEF ReadDevice, Goto
<1>6. ASSUME NEW t \in Threads, Refill(t)  PROVE AllWhole'
  BY <1>6 DEF Refill, Fill, Return, Done, Changing, Goto
<1>7. ASSUME NEW t \in Threads, ReadInsert(t)  PROVE AllWhole'
  BY <1>7 DEF ReadInsert, Insert, Fill, Room, Return, Done, Changing, Goto
<1>8. ASSUME NEW t \in Threads, WriteLookup(t)  PROVE AllWhole'
  BY <1>8 DEF WriteLookup, Lookup, Goto
<1>9. ASSUME NEW t \in Threads, WriteHit(t)  PROVE AllWhole'
  <2>. DEFINE b == on[t]
  <2>1. b \in Blocks /\ b \in valid
    BY <1>9, OnType DEF WriteHit, Cross
  <2>2. \A u \in Threads : /\ pc'[u] = (IF u = t THEN "idle" ELSE pc[u])
                          /\ on'[u] = (IF u = t THEN NoBlock ELSE on[u])
    BY <1>9 DEF WriteHit, Return, Done, Goto
  <2>3. \A c \in Blocks : /\ data'[c] = (IF c = b THEN val[t] ELSE data[c])
                         /\ latest'[c] = (IF c = b THEN val[t] ELSE latest[c])
    BY <1>9, <2>1 DEF WriteHit, Return, Changing
  <2>4. /\ dirty' = dirty \cup {b} /\ disk' = disk /\ cached' = cached /\ valid' = valid
        /\ UNCHANGED syncVars
    BY <1>9 DEF WriteHit
  <2>5. Locals(t) /\ pc[t] = "wrHit"
    BY <1>9 DEF WriteHit
  <2>6. ASSUME NEW c \in Blocks PROVE Whole(c)'
    <3>0. Whole(c)
      OBVIOUS
    <3>1. \A ps \in SUBSET {"mark", "inval"} : At(c, ps)' <=> At(c, ps)
      BY <2>2, <2>5
    <3>2. CASE c = b
      BY <2>1, <2>3, <2>4, <2>5, <3>0, <3>2
    <3>3. CASE c # b
      <4> HIDE DEF At, b
      <4> QED BY <2>3, <2>4, <3>0, <3>1, <3>3
    <3> QED BY <3>2, <3>3
  <2>. QED  BY <2>6
<1>10. ASSUME NEW t \in Threads, WriteInsert(t)  PROVE AllWhole'
  BY <1>10 DEF WriteInsert, Insert, Fill, Room, Goto
<1>11. ASSUME NEW t \in Threads, WriteMark(t)  PROVE AllWhole'
  BY <1>11 DEF WriteMark, Return, Done, Changing, Goto
<1>12. ASSUME NEW t \in Threads, WriteDirect(t)  PROVE AllWhole'
  BY <1>12 DEF WriteDirect, Return, Done, Changing, Goto
<1>13. ASSUME NEW t \in Threads, ApplyDevice(t)  PROVE AllWhole'
  BY <1>13 DEF ApplyDevice, Goto
<1>14. ASSUME NEW t \in Threads, ApplyInvalidate(t)  PROVE AllWhole'
  BY <1>14 DEF ApplyInvalidate, Return, Done, Changing, Goto
<1>15. ASSUME NEW t \in Threads, SyncBegin(t)  PROVE AllWhole'
  BY <1>15 DEF SyncBegin, Goto
<1>16. ASSUME NEW t \in Threads, NEW b \in Blocks, SyncWrite(t, b)  PROVE AllWhole'
  <2>1. \A u \in Threads : ~(on[u] = b /\ pc[u] \in ApplyPcs)
    BY <1>16 DEF SyncWrite, Cross
  <2>2. \A u \in Threads : /\ pc'[u] = (IF u = t THEN "clear" ELSE pc[u])
                          /\ on'[u] = (IF u = t THEN b ELSE on[u])
    BY <1>16 DEF SyncWrite, Goto
  <2>3. \A c \in Blocks : disk'[c] = (IF c = b THEN data[b] ELSE disk[c])
    BY <1>16 DEF SyncWrite
  <2>4. UNCHANGED <<bufferVars, syncVars, val, latest>> /\ pc[t] = "visit" /\ b \in dirty
    BY <1>16 DEF SyncWrite
  <2>5. on[t] = NoBlock
    BY <2>4
  <2>6. ASSUME NEW c \in Blocks PROVE Whole(c)'
    <3>1. Whole(c)
      OBVIOUS
    <3>2. \A ps \in SUBSET {"mark", "inval"} : At(c, ps)' <=> At(c, ps)
      BY <2>2, <2>5, <2>4
    <3>3. CASE c = b
      <4>1. ~At(b, {"mark", "inval"}) /\ ~At(b, {"inval"})
        BY <2>1, <2>4
      <4>2. Settled(b) /\ disk[b] <= latest[b] /\ data[b] = latest[b] /\ b \in valid
        BY <4>1, <3>1, <3>3, <2>4
      <4> HIDE DEF At
      <4> QED BY <2>3, <2>4, <3>1, <3>2, <3>3, <4>1, <4>2
    <3>4. CASE c # b
      <4> HIDE DEF At
      <4> QED BY <2>3, <2>4, <3>1, <3>2, <3>4
    <3> QED BY <3>3, <3>4
  <2>. QED  BY <2>6
<1>17. ASSUME NEW t \in Threads, SyncClear(t)  PROVE AllWhole'
  BY <1>17 DEF SyncClear, Goto
<1>18. ASSUME NEW t \in Threads, NEW b \in Blocks, SyncSkip(t, b)  PROVE AllWhole'
  BY <1>18 DEF SyncSkip
<1>19. ASSUME NEW t \in Threads, SyncEnd(t)  PROVE AllWhole'
  BY <1>19 DEF SyncEnd, Done, Goto
<1>20. ASSUME NEW t \in Threads, SyncFault(t)  PROVE AllWhole'
  BY <1>20 DEF SyncFault, Use, Done, Goto
<1>21. ASSUME NEW t \in Threads, Fault(t)  PROVE AllWhole'
  BY <1>21 DEF Fault, Use, Done, Goto
<1>22. CASE Crash
  BY <1>22 DEF Crash, Use
<1>23. CASE UNCHANGED vars
  BY <1>23 DEF vars
<1>. QED
  BY ONLY [Next]_vars, <1>1, <1>2, <1>3, <1>4, <1>5, <1>6, <1>7, <1>8, <1>9, <1>10, <1>11,
          <1>12, <1>13, <1>14, <1>15, <1>16, <1>17, <1>18, <1>19, <1>20, <1>21, <1>22, <1>23
  DEF Next, Calls, Read, Write, Apply, Sync, Faults

(***************************************************************************)
(* The theorems.                                                           *)
(***************************************************************************)

\* Limits once crossed stay crossed.
LEMMA CrossedGrows == [Next]_vars => crossed \subseteq crossed'
<1>. USE DEF vars, bufferVars, syncVars, threadVars, Cross, Return, Done
<1>1. ASSUME NEW t \in Threads, Calls(t)  PROVE crossed \subseteq crossed'
  BY <1>1 DEF Calls, Begin, SyncBegin
<1>2. ASSUME NEW t \in Threads, Read(t)  PROVE crossed \subseteq crossed'
  BY <1>2 DEF Read, ReadLookup, Lookup, ReadValid, ReadInvalid, ReadDevice, Refill, ReadInsert
<1>3. ASSUME NEW t \in Threads, Write(t)  PROVE crossed \subseteq crossed'
  BY <1>3 DEF Write, WriteLookup, Lookup, WriteHit, WriteInsert, WriteMark, WriteDirect
<1>4. ASSUME NEW t \in Threads, Apply(t) \/ Sync(t) \/ Faults(t)  PROVE crossed \subseteq crossed'
  BY <1>4 DEF Apply, ApplyDevice, ApplyInvalidate, Sync, SyncWrite, SyncSkip, SyncClear, SyncEnd,
     Faults, SyncFault, Fault
<1>5. CASE Crash \/ UNCHANGED vars
  BY <1>5 DEF Crash
<1>. QED  BY <1>1, <1>2, <1>3, <1>4, <1>5 DEF Next

\* The invariant is inductive.
LEMMA CacheInvariant == Spec => []CacheInv
<1>1. CacheInv /\ [Next]_vars => CacheInv'
  <2>. SUFFICES ASSUME CacheInv, [Next]_vars PROVE CacheInv'
    OBVIOUS
  <2>1. BasicInv'
    BY TypeStep, BoundedStep, PlacesStep DEF CacheInv, BasicInv
  <2>2. ASSUME crossed' = {} PROVE StrictInv'
    <3>1. crossed = {}
      BY <2>2, CrossedGrows
    <3>. QED  BY <2>2, <3>1, MarkedStep, AloneStep, LocalsStep, WholeStep DEF CacheInv, StrictInv
  <2>. QED  BY <2>1, <2>2 DEF CacheInv
<1>. QED  BY <1>1, InitInv, PTL DEF Spec

\* Within the limits a read that finds no operation on its block returns the
\* latest write, whether blkdev_write put it in the cache or past it, or the
\* journal's checkpoint behind it, and whatever part of it a sync has written.
THEOREM ReadsAreCoherent == Spec => []Coherent
<1>1. CacheInv => Coherent
  <2>. SUFFICES ASSUME CacheInv, crossed = {}, NEW b \in Blocks, Quiet(b) PROVE Visible(b) = latest[b]
    BY DEF CacheInv, BasicInv, Coherent
  <2>1. ~At(b, {"mark", "inval"})
    BY DEF At, Quiet, OnBlock, WritePcs, ApplyPcs
  <2>. QED  BY <2>1 DEF CacheInv, StrictInv, AllWhole, Whole, Settled
<1>. QED  BY <1>1, CacheInvariant, PTL

\* Within the limits no step of anybody brings a block on the device back
\* behind what blkdev_sync has promised.
THEOREM SyncsAreDurable == Spec => []SyncDurable
<1>1. CacheInv => SyncDurable
  BY DEF CacheInv, BasicInv, TypeOK, Versions, StrictInv, AllWhole, Whole, SyncDurable
<1>. QED  BY <1>1, CacheInvariant, PTL
=============================================================================
