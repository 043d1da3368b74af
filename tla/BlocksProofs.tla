---------------------------- MODULE BlocksProofs ----------------------------
(***************************************************************************)
(* Theorems about the data blocks, from both sides: about BlockAlloc, the  *)
(* allocator, for every number of owners, every size of the data area and  *)
(* every division of its bitmap into blocks; and about FileBlocks, the     *)
(* files that take the blocks and give them back, for every number of      *)
(* files, blocks, direct entries and entries of a table.                   *)
(***************************************************************************)
EXTENDS BlockAlloc, FileBlocks, FiniteSetTheorems, Iteration, TLAPS

----------------------------------------------------------------------------
(*                          Part 1: BlockAlloc                             *)

USE BlockAllocAssumption

(***************************************************************************)
(* Counting.                                                               *)
(***************************************************************************)

LEMMA BitsFinite ==
  /\ IsFiniteSet(Bits)
  /\ \A S \in SUBSET Bits : IsFiniteSet(S) /\ Cardinality(S) \in 0 .. Total
<1>1. IsFiniteSet(Bits) /\ Cardinality(Bits) = Total
  BY FS_Interval DEF Bits
<1>2. ASSUME NEW S \in SUBSET Bits
      PROVE  IsFiniteSet(S) /\ Cardinality(S) \in 0 .. Total
  <2>1. IsFiniteSet(S) /\ Cardinality(S) <= Total
    BY <1>1, FS_Subset
  <2>2. Cardinality(S) \in Nat
    BY <2>1, FS_CardinalityType
  <2>. QED  BY <2>1, <2>2
<1>. QED  BY <1>1, <1>2

\* Every bit is in one of the blocks of the bitmap.
LEMMA BlockOfBit ==
  ASSUME NEW b \in Bits
  PROVE  \E i \in 0 .. BitmapBlocks - 1 : b \in BitsOf(i)
BY DEF BitsOf

(***************************************************************************)
(* The strengthening.  HeldExactly speaks of the blocks of the moment; to  *)
(* know what a later mount finds, one must follow a sync block by block    *)
(* and know that nothing moves while it runs.                              *)
(***************************************************************************)

Disjoint == \A c, d \in Clients : c # d => held[c] \cap held[d] = {}

SyncState ==
  /\ lock = Nobody => ~closing /\ next = 0
  /\ lock # Nobody =>
       /\ mounted
       /\ \A i \in 0 .. next - 1 : stored \cap BitsOf(i) = bitmap \cap BitsOf(i)

BInv ==
  /\ AllocTypeOK
  /\ FreeCounted
  /\ torn # "loaded" => Disjoint /\ (mounted => bitmap = Owned)
  /\ SurvivesUnmount
  /\ SyncState

LEMMA InitB == AllocInit => BInv
<1>. SUFFICES ASSUME AllocInit PROVE BInv
  OBVIOUS
<1>1. /\ bitmap = {} /\ free_blocks = 0 /\ mounted = FALSE
      /\ lock = Nobody /\ next = 0 /\ closing = FALSE /\ torn = "no"
      /\ stored = Owned
  BY DEF AllocInit, Owned
<1>2. PICK owner \in [Bits -> Clients \cup {Nobody}] :
        held = [c \in Clients |-> {b \in Bits : owner[b] = c}]
  BY DEF AllocInit
<1>3. Disjoint /\ held \in [Clients -> SUBSET Bits]
  BY <1>2 DEF Disjoint
<1>4. stored \subseteq Bits
  BY <1>1, <1>3 DEF Owned
<1>5. AllocTypeOK
  <2>1. 0 \in 0 .. Total /\ 0 \in 0 .. BitmapBlocks
    OBVIOUS
  <2>2. bitmap \subseteq Bits /\ mounted \in BOOLEAN /\ closing \in BOOLEAN
    BY <1>1
  <2>. QED  BY <1>1, <1>3, <1>4, <2>1, <2>2 DEF AllocTypeOK
<1>. QED  BY <1>1, <1>3, <1>5 DEF BInv, FreeCounted, SurvivesUnmount, SyncState

\* Blocks that are free are taken.
LEMMA GrantB ==
  ASSUME BInv, Idle, NEW c \in Clients, NEW S \in SUBSET FreeBits, Grant(c, S)
  PROVE  BInv'
<1>1. /\ bitmap' = bitmap \cup S
      /\ free_blocks' = free_blocks - Cardinality(S)
      /\ held' = [held EXCEPT ![c] = @ \cup S]
      /\ UNCHANGED <<stored, mounted, lock, next, closing, torn>>
  BY DEF Grant, syncVars
<1>2. AllocTypeOK /\ mounted /\ lock = Nobody
  BY DEF BInv, Idle
<1>3. FreeBits \in SUBSET Bits /\ FreeBits' = FreeBits \ S
  BY <1>1 DEF FreeBits
<1>4. free_blocks' = Cardinality(FreeBits')
  <2>1. Cardinality(FreeBits) = Cardinality(FreeBits \ S) + Cardinality(S)
    BY <1>3, BitsFinite, Parts
  <2>2. Cardinality(FreeBits \ S) \in 0 .. Total /\ Cardinality(S) \in 0 .. Total
    BY <1>3, BitsFinite
  <2>3. free_blocks = Cardinality(FreeBits)
    BY <1>2 DEF BInv, FreeCounted
  <2>. DEFINE x == Cardinality(FreeBits)
              y == Cardinality(FreeBits \ S)
              z == Cardinality(S)
  <2>4. free_blocks - z = y
    <3>1. free_blocks = y + z /\ y \in Nat /\ z \in Nat
      BY <2>1, <2>2, <2>3
    <3>. HIDE DEF y, z
    <3>. QED  BY <3>1
  <2>. QED  BY <1>1, <1>3, <2>4
<1>5. held' \in [Clients -> SUBSET Bits] /\ bitmap' \subseteq Bits
  BY <1>1, <1>2, <1>3 DEF AllocTypeOK
<1>6. free_blocks' \in 0 .. Total
  <2>1. FreeBits' \in SUBSET Bits
    BY <1>3
  <2>. QED  BY <1>4, <2>1, BitsFinite
<1>7. AllocTypeOK'
  BY <1>1, <1>2, <1>5, <1>6 DEF AllocTypeOK
<1>8. ASSUME torn # "loaded" PROVE Disjoint' /\ bitmap' = Owned'
  <2>1. Disjoint /\ bitmap = Owned
    BY <1>2, <1>8 DEF BInv
  <2>2. /\ held'[c] = held[c] \cup S
        /\ \A d \in Clients \ {c} : held'[d] = held[d]
    BY <1>1, <1>2 DEF AllocTypeOK
  <2>3. \A d \in Clients : held[d] \cap S = {}
    BY <2>1 DEF Owned, FreeBits
  <2>4. Disjoint'
    BY <2>1, <2>2, <2>3 DEF Disjoint
  <2>5. Owned' = Owned \cup S
    BY <2>2 DEF Owned
  <2>. QED  BY <1>1, <2>1, <2>4, <2>5
<1>. QED
  BY <1>1, <1>2, <1>4, <1>7, <1>8 DEF BInv, FreeCounted, SurvivesUnmount, SyncState

\* Blocks that a client holds are given back.
LEMMA GiveB ==
  ASSUME BInv, Idle, NEW c \in Clients, NEW S \in SUBSET held[c], S \subseteq bitmap, Give(c, S)
  PROVE  BInv'
<1>1. /\ bitmap' = bitmap \ S
      /\ free_blocks' = free_blocks + Cardinality(S)
      /\ held' = [held EXCEPT ![c] = @ \ S]
      /\ UNCHANGED <<stored, mounted, lock, next, closing, torn>>
  BY DEF Give, syncVars
<1>2. AllocTypeOK /\ mounted /\ lock = Nobody
  BY DEF BInv, Idle
<1>3. S \in SUBSET FreeBits' /\ FreeBits' \in SUBSET Bits /\ FreeBits' \ S = FreeBits
  BY <1>1, <1>2 DEF FreeBits, AllocTypeOK
<1>4. free_blocks' = Cardinality(FreeBits')
  <2>1. Cardinality(FreeBits') = Cardinality(FreeBits' \ S) + Cardinality(S)
    BY <1>3, BitsFinite, Parts
  <2>2. free_blocks = Cardinality(FreeBits)
    BY <1>2 DEF BInv, FreeCounted
  <2>. QED  BY <1>1, <1>3, <2>1, <2>2
<1>5. held' \in [Clients -> SUBSET Bits] /\ bitmap' \subseteq Bits
  BY <1>1, <1>2 DEF AllocTypeOK
<1>6. free_blocks' \in 0 .. Total
  BY <1>3, <1>4, BitsFinite
<1>7. AllocTypeOK'
  BY <1>1, <1>2, <1>5, <1>6 DEF AllocTypeOK
<1>8. ASSUME torn # "loaded" PROVE Disjoint' /\ bitmap' = Owned'
  <2>1. Disjoint /\ bitmap = Owned
    BY <1>2, <1>8 DEF BInv
  <2>2. /\ held'[c] = held[c] \ S
        /\ \A d \in Clients \ {c} : held'[d] = held[d]
    BY <1>1, <1>2 DEF AllocTypeOK
  <2>3. \A d \in Clients \ {c} : held[d] \cap S = {}
    BY <2>1 DEF Disjoint
  <2>4. Disjoint'
    BY <2>1, <2>2 DEF Disjoint
  <2>5. Owned' = Owned \ S
    BY <2>2, <2>3 DEF Owned
  <2>. QED  BY <1>1, <2>1, <2>4, <2>5
<1>. QED
  BY <1>1, <1>2, <1>4, <1>7, <1>8 DEF BInv, FreeCounted, SurvivesUnmount, SyncState

\* A sync starts.
LEMMA BeginB ==
  ASSUME BInv, NEW c \in Clients, SyncBegin(c) \/ DestroyBegin(c)
  PROVE  BInv'
<1>1. /\ Idle /\ lock' = c /\ next' = 0 /\ closing' \in BOOLEAN
      /\ UNCHANGED <<bitmap, free_blocks, stored, mounted, held, torn>>
  BY DEF SyncBegin, DestroyBegin, BInv, AllocTypeOK
<1>2. AllocTypeOK'
  BY <1>1 DEF BInv, AllocTypeOK
<1>3. SyncState'
  BY <1>1 DEF SyncState, Idle
<1>. QED
  BY <1>1, <1>2, <1>3 DEF BInv, FreeCounted, FreeBits, SurvivesUnmount, Disjoint, Owned

\* One block of the bitmap is written: those before it stay as they are.
LEMMA BlockB ==
  ASSUME BInv, NEW c \in Clients, SyncBlock(c)
  PROVE  BInv'
<1>1. /\ lock = c /\ next < BitmapBlocks /\ next' = next + 1 /\ lock # Nobody
      /\ stored' = (stored \ BitsOf(next)) \cup (bitmap \cap BitsOf(next))
      /\ UNCHANGED <<bitmap, free_blocks, mounted, lock, closing, held, torn>>
  BY DEF SyncBlock
<1>2. AllocTypeOK /\ mounted /\ next \in 0 .. BitmapBlocks
  BY <1>1 DEF BInv, SyncState, AllocTypeOK
<1>3. \A i \in 0 .. next - 1 : stored' \cap BitsOf(i) = bitmap \cap BitsOf(i)
  <2>. SUFFICES ASSUME NEW i \in 0 .. next - 1
                PROVE  stored' \cap BitsOf(i) = bitmap \cap BitsOf(i)
    OBVIOUS
  <2>1. stored \cap BitsOf(i) = bitmap \cap BitsOf(i)
    BY <1>1 DEF BInv, SyncState
  <2>2. i # next
    BY <1>2
  <2>3. BitsOf(i) \cap BitsOf(next) = {}
    BY <2>2 DEF BitsOf
  <2>. QED  BY <1>1, <2>1, <2>3
<1>4. stored' \cap BitsOf(next) = bitmap \cap BitsOf(next)
  BY <1>1
<1>5. \A i \in 0 .. next' - 1 : stored' \cap BitsOf(i) = bitmap' \cap BitsOf(i)
  <2>1. \A i \in 0 .. next' - 1 : i = next \/ i \in 0 .. next - 1
    BY <1>1, <1>2
  <2>. QED  BY <1>1, <1>3, <1>4, <2>1
<1>6. SyncState'
  BY <1>1, <1>2, <1>5 DEF SyncState, BitsOf
<1>7. AllocTypeOK'
  BY <1>1, <1>2 DEF AllocTypeOK
<1>. QED
  BY <1>1, <1>2, <1>6, <1>7 DEF BInv, FreeCounted, FreeBits, SurvivesUnmount, Disjoint, Owned

\* A sync is over, with every block written or after a failure; the last
\* one leaves nothing in memory.
LEMMA EndB ==
  ASSUME BInv, NEW c \in Clients, SyncEnd(c) \/ SyncFault(c)
  PROVE  BInv'
<1>1. /\ lock = c /\ lock # Nobody /\ lock' = Nobody /\ next' = 0 /\ closing' = FALSE
      /\ closing => mounted' = FALSE /\ bitmap' = {} /\ free_blocks' = 0
      /\ ~closing => UNCHANGED <<mounted, bitmap, free_blocks>>
      /\ UNCHANGED <<stored, held>>
  BY DEF SyncEnd, SyncFault, Release
<1>2. /\ torn' = "loaded" <=> torn = "loaded"
      /\ torn' = "no" => next = BitmapBlocks
      /\ torn' \in {"no", "partial", "loaded"}
  BY DEF SyncEnd, SyncFault, BInv, AllocTypeOK
<1>3. AllocTypeOK /\ mounted /\ closing \in BOOLEAN
  BY <1>1 DEF BInv, SyncState, AllocTypeOK
<1>4. AllocTypeOK'
  <2>1. 0 \in 0 .. Total /\ 0 \in 0 .. BitmapBlocks
    OBVIOUS
  <2>2. free_blocks' \in 0 .. Total /\ bitmap' \subseteq Bits
    BY <1>1, <1>3, <2>1 DEF AllocTypeOK
  <2>3. mounted' \in BOOLEAN /\ closing' \in BOOLEAN
    BY <1>1, <1>3
  <2>. QED  BY <1>1, <1>2, <1>3, <2>1, <2>2, <2>3 DEF AllocTypeOK
<1>5. FreeCounted'
  BY <1>1, <1>3 DEF BInv, FreeCounted, FreeBits
<1>6. torn' # "loaded" => Disjoint' /\ (mounted' => bitmap' = Owned')
  BY <1>1, <1>2, <1>3 DEF BInv, Disjoint, Owned
<1>7. ASSUME torn' = "no", ~mounted' PROVE stored' = Owned'
  <2>1. next = BitmapBlocks /\ torn # "loaded" /\ bitmap = Owned
    BY <1>2, <1>3, <1>7 DEF BInv
  <2>2. \A i \in 0 .. BitmapBlocks - 1 : stored \cap BitsOf(i) = bitmap \cap BitsOf(i)
    BY <1>1, <2>1 DEF BInv, SyncState
  <2>3. \A b \in Bits : b \in stored <=> b \in bitmap
    BY <2>2, BlockOfBit
  <2>4. stored \subseteq Bits /\ bitmap \subseteq Bits
    BY <1>3 DEF AllocTypeOK
  <2>5. stored = bitmap
    BY <2>3, <2>4
  <2>. QED  BY <1>1, <2>1, <2>5 DEF Owned
<1>8. SyncState'
  BY <1>1 DEF SyncState
<1>. QED  BY <1>4, <1>5, <1>6, <1>7, <1>8 DEF BInv, SurvivesUnmount

\* A mount takes what the device has.
LEMMA LoadB ==
  ASSUME BInv, Load
  PROVE  BInv'
<1>1. /\ ~mounted /\ mounted' = TRUE
      /\ bitmap' = stored \cap Bits
      /\ free_blocks' = Cardinality(Bits \ stored)
      /\ torn' = IF torn = "no" THEN torn ELSE "loaded"
      /\ UNCHANGED <<stored, lock, next, closing, held>>
  BY DEF Load
<1>2. AllocTypeOK /\ lock = Nobody
  BY <1>1 DEF BInv, SyncState
<1>3. FreeBits' = Bits \ stored /\ Bits \ stored \in SUBSET Bits
  BY <1>1 DEF FreeBits
<1>4. AllocTypeOK' /\ FreeCounted'
  <2>1. free_blocks' \in 0 .. Total
    BY <1>1, <1>3, BitsFinite
  <2>2. AllocTypeOK'
    BY <1>1, <1>2, <2>1 DEF AllocTypeOK
  <2>. QED  BY <1>1, <1>3, <2>2 DEF FreeCounted
<1>5. ASSUME torn' # "loaded" PROVE Disjoint' /\ bitmap' = Owned'
  <2>1. torn = "no" /\ Disjoint /\ stored = Owned /\ stored \subseteq Bits
    BY <1>1, <1>2, <1>5 DEF BInv, SurvivesUnmount, AllocTypeOK
  <2>. QED  BY <1>1, <2>1 DEF Disjoint, Owned
<1>. QED
  BY <1>1, <1>2, <1>4, <1>5 DEF BInv, SurvivesUnmount, SyncState

LEMMA BInductive == AllocSpec => []BInv
<1>1. BInv /\ [AllocNext]_allocVars => BInv'
  <2>. SUFFICES ASSUME BInv, [AllocNext]_allocVars PROVE BInv'
    OBVIOUS
  <2>1. ASSUME NEW c \in Clients, Alloc(c) PROVE BInv'
    <3>1. PICK b \in FreeBits : Grant(c, {b})
      BY <2>1 DEF Alloc
    <3>. QED  BY <2>1, <3>1, GrantB DEF Alloc
  <2>2. ASSUME NEW c \in Clients, NEW count \in 1 .. Total, AllocMultiple(c, count) PROVE BInv'
    <3>1. PICK s \in RunStarts(count) : Grant(c, Run(s, count))
      BY <2>2 DEF AllocMultiple
    <3>2. Run(s, count) \in SUBSET FreeBits
      BY DEF RunStarts
    <3>. QED  BY <2>2, <3>1, <3>2, GrantB DEF AllocMultiple
  <2>3. ASSUME NEW c \in Clients, NEW b \in Bits, Free(c, b) PROVE BInv'
    BY <2>3, GiveB DEF Free
  <2>4. ASSUME NEW c \in Clients, NEW start \in Bits, NEW count \in 1 .. Total,
               FreeMultiple(c, start, count)
        PROVE  BInv'
    <3>1. Run(start, count) \in SUBSET held[c]
      BY <2>4 DEF FreeMultiple
    <3>. QED  BY <2>4, <3>1, GiveB DEF FreeMultiple
  <2>5. CASE UNCHANGED allocVars
    BY <2>5 DEF allocVars, BInv, AllocTypeOK, FreeCounted, FreeBits, SurvivesUnmount, SyncState, Disjoint,
                Owned, BitsOf
  <2>. QED  BY <2>1, <2>2, <2>3, <2>4, <2>5, BeginB, BlockB, EndB, LoadB DEF AllocNext
<1>. QED  BY InitB, <1>1, PTL DEF AllocSpec

(***************************************************************************)
(* The theorems.                                                           *)
(***************************************************************************)

\* The count and the bits stay in range and the walk of a sync over the bitmap
\* blocks ends with the last, whatever the sizes.
THEOREM TypeCorrect == AllocSpec => []AllocTypeOK
<1>1. BInv => AllocTypeOK
  BY DEF BInv
<1>. QED  BY BInductive, <1>1, PTL

\* The count of free blocks is the number of clear bits, at every size.
THEOREM CountsAgree == AllocSpec => []FreeCounted
<1>1. BInv => FreeCounted
  BY DEF BInv
<1>. QED  BY BInductive, <1>1, PTL

\* No block is given to two files, and none is leaked or reused while a file
\* has it, through any number of unmounts and mounts whose syncs succeed.
THEOREM BlocksNeverShared == AllocSpec => []HeldExactly
<1>1. BInv => HeldExactly
  BY DEF BInv, HeldExactly, Disjoint
<1>. QED  BY BInductive, <1>1, PTL

\* The sync of an unmount leaves the device with the bitmap of the blocks in
\* use, however many blocks of the device the bitmap fills.
THEOREM UnmountKeepsBitmap == AllocSpec => []SurvivesUnmount
<1>1. BInv => SurvivesUnmount
  BY DEF BInv
<1>. QED  BY BInductive, <1>1, PTL

(***************************************************************************)
(* The search of block_alloc_multiple.                                     *)
(***************************************************************************)

Places == [k \in Bits |-> k]

\* What the search finds: the first run there is, if there is one.
LEMMA SearchSeesRuns ==
  ASSUME NEW count \in 1 .. Total
  PROVE  Search(count) \in Cursors /\ Seen(FreeBits, Places, count, Total, Search(count))
<1>. DEFINE Advance(i, p) == CASE p.hit -> p
                            [] ~p.hit /\ i - 1 \in bitmap -> [p EXCEPT !.len = 0]
                            [] ~p.hit /\ i - 1 \notin bitmap ->
                                 [len |-> p.len + 1, start |-> IF p.len = 0 THEN i - 1 ELSE p.start,
                                  hit |-> p.len + 1 >= count]
            Loop(g) == [i \in 0 .. Total |-> IF i = 0 THEN Nothing ELSE Advance(i, g[i - 1])]
            at == CHOOSE g : g = Loop(g)
            look(i, p) == NextCursor(FreeBits, Places, count, i, p)
<1>1. /\ Places \in [0 .. Total - 1 -> Nat] /\ FreeBits \in SUBSET (0 .. Total - 1)
      /\ Total \in Nat /\ count \in Nat
  BY DEF Places, FreeBits, Bits
<1>2. ASSUME NEW i \in 1 .. Total, NEW p \in Cursors
      PROVE  Advance(i, p) = NextCursor(FreeBits, Places, count, i, p)
  <2>. DEFINE l == NextCursor(FreeBits, Places, count, i, p)
  <2>1. /\ i - 1 \in FreeBits <=> i - 1 \notin bitmap
        /\ Places[i - 1] = i - 1
    BY DEF FreeBits, Places, Bits
  <2>2. /\ p.hit => l = p
        /\ ~p.hit /\ i - 1 \in bitmap => l = [p EXCEPT !.len = 0]
        /\ ~p.hit /\ i - 1 \notin bitmap =>
             l = [len |-> p.len + 1, start |-> IF p.len = 0 THEN i - 1 ELSE p.start,
                  hit |-> p.len + 1 >= count]
    BY <2>1, LookCases
  <2>. HIDE DEF l
  <2>3. ASSUME p.hit PROVE Advance(i, p) = l
    BY <2>2, <2>3
  <2>4. ASSUME ~p.hit, i - 1 \in bitmap PROVE Advance(i, p) = l
    BY <2>2, <2>4
  <2>5. ASSUME ~p.hit, i - 1 \notin bitmap PROVE Advance(i, p) = l
    BY <2>2, <2>5
  <2>6. l = Advance(i, p)
    <3>. HIDE DEF Advance
    <3>. QED  BY <2>3, <2>4, <2>5
  <2>. QED  BY <2>6 DEF l
<1>3. Search(count) = at[Total]
  BY DEF Search, Nothing
<1>. HIDE DEF Advance
<1>4. PICK f \in [0 .. Total -> Cursors] :
        f[0] = Nothing /\ \A i \in 1 .. Total : f[i] = NextCursor(FreeBits, Places, count, i, f[i - 1])
  <2>1. HasSearch(Total, FreeBits, Places, count)
    BY <1>1, SearchRuns
  <2>. QED  BY <2>1 DEF HasSearch
<1>5. f = Loop(f)
  <2>1. \A i \in 0 .. Total : f[i] = IF i = 0 THEN Nothing ELSE Advance(i, f[i - 1])
    BY <1>2, <1>4
  <2>. QED  BY <1>4, <2>1
<1>6. at = Loop(at)
  <2>. HIDE DEF Loop
  <2>. QED  BY <1>5
<1>. HIDE DEF at
<1>7. at[0] = Nothing /\ \A i \in 1 .. Total : at[i] = Advance(i, at[i - 1])
  BY <1>6
<1>. DEFINE G == {i \in 0 .. Total : at[i] \in Cursors}
<1>8. 0 \in G
  <2>1. Nothing \in Cursors
    BY DEF Nothing, Cursors
  <2>. QED  BY <1>7, <2>1
<1>9. \A i \in 0 .. Total - 1 : i \in G => i + 1 \in G
  <2>. SUFFICES ASSUME NEW i \in 0 .. Total - 1, at[i] \in Cursors PROVE at[i + 1] \in Cursors
    OBVIOUS
  <2>1. i + 1 \in 1 .. Total /\ i + 1 - 1 = i
    OBVIOUS
  <2>2. at[i + 1] = Advance(i + 1, at[i + 1 - 1])
    BY <1>7, <2>1
  <2>3. at[i + 1] = NextCursor(FreeBits, Places, count, i + 1, at[i])
    BY <1>2, <2>1, <2>2
  <2>4. NextCursor(FreeBits, Places, count, i + 1, at[i]) \in Cursors
    BY <1>1, <2>1, LookType
  <2>. QED  BY <2>3, <2>4
<1>10. \A i \in 0 .. Total : i \in G
  <2>. HIDE DEF G
  <2>. QED  BY <1>8, <1>9, BoundedInduction
<1>11. \A i \in 1 .. Total : at[i] = NextCursor(FreeBits, Places, count, i, at[i - 1])
  BY <1>2, <1>7, <1>10
<1>12. at[Total] \in Cursors /\ Seen(FreeBits, Places, count, Total, at[Total])
  BY <1>1, <1>7, <1>11, SearchSees
<1>. QED  BY <1>3, <1>12

\* The search against its reference, in any state.
LEMMA LowestRun == SearchFindsLowest
<1>. SUFFICES ASSUME NEW count \in 1 .. Total
              PROVE  LET r == Search(count) IN
                       /\ r.hit <=> RunStarts(count) # {}
                       /\ r.hit => r.start \in RunStarts(count) /\ \A s \in RunStarts(count) : r.start <= s
  BY DEF SearchFindsLowest
<1>. DEFINE r == Search(count)
<1>1. r \in Cursors /\ Seen(FreeBits, Places, count, Total, r)
  BY SearchSeesRuns
<1>2. \A s \in 0 .. Total - count : s \in RunStarts(count) <=> RunAt(FreeBits, count, s)
  BY DEF RunStarts, RunAt, Run, Bits
<1>3. \A s \in RunStarts(count) : s \in 0 .. Total - count
  <2>. SUFFICES ASSUME NEW s \in RunStarts(count) PROVE s \in 0 .. Total - count
    OBVIOUS
  <2>1. s \in Bits /\ Run(s, count) \subseteq FreeBits
    BY DEF RunStarts
  <2>2. s + count - 1 \in Run(s, count)
    BY <2>1 DEF Run, Bits
  <2>3. s + count - 1 \in Bits
    BY <2>1, <2>2 DEF FreeBits
  <2>. QED  BY <2>1, <2>3 DEF Bits
<1>. HIDE DEF r
<1>4. ASSUME r.hit
      PROVE  r.start \in RunStarts(count) /\ \A s \in RunStarts(count) : r.start <= s
  <2>1. PICK o \in 0 .. Total - count :
          /\ r.start = Places[o] /\ RunAt(FreeBits, count, o)
          /\ \A q \in 0 .. o - 1 : ~RunAt(FreeBits, count, q)
    BY <1>1, <1>4 DEF Seen
  <2>2. r.start = o
    BY <2>1 DEF Places, Bits
  <2>3. ASSUME NEW s \in RunStarts(count) PROVE o <= s
    <3>1. s \in 0 .. Total - count /\ RunAt(FreeBits, count, s)
      BY <1>2, <1>3
    <3>. QED  BY <2>1, <3>1
  <2>. QED  BY <1>2, <2>1, <2>2, <2>3
<1>5. r.hit \in BOOLEAN /\ (RunStarts(count) # {} => r.hit)
  <2>1. ASSUME ~r.hit PROVE RunStarts(count) = {}
    BY <1>1, <1>2, <1>3, <2>1 DEF Seen
  <2>. QED  BY <1>1, <2>1 DEF Cursors
<1>. QED  BY <1>4, <1>5 DEF r

\* The search finds the lowest run, in every state that is reached.
THEOREM SearchLowest == AllocSpec => []SearchFindsLowest
BY LowestRun, PTL

----------------------------------------------------------------------------
(*                          Part 2: FileBlocks                             *)

HIDE BlockAllocAssumption

(***************************************************************************)
(* What points to a block: an entry of the inode for a table, an entry of  *)
(* the double indirect block for a table below it, or the way to an index. *)
(***************************************************************************)

Slots == ({"table"} \X {"indirect", "double"}) \cup ({"mid"} \X (0 .. Per - 1)) \cup ({"data"} \X (0 .. MaxIndex - 1))

\* entry k of the table b
Entry(d, b, k) == IF b = 0 THEN 0 ELSE d[b][k]

\* what a slot of the inode n holds
Ptr(d, n, x) ==
  IF x[1] = "table" THEN n.table[x[2]]
  ELSE IF x[1] = "mid" THEN Entry(d, n.table["double"], x[2])
  ELSE Mapped(d, n, x[2])

\* all of them, of each inode
Ptrs(d, ns) == [g \in Inodes |-> [x \in Slots |-> Ptr(d, ns[g], x)]]

\* a data slot counts below an index
Live(x, top) == x[1] = "data" => x[2] < top

\* where an operation may come to
Ends == [f \in Inodes |-> NBlocks(MaxOf(ino[f].size, op[f].end))]

Own(p, top) == {p[x] : x \in {y \in Slots : Live(y, top)}} \ {0}

\* Nothing is pointed to twice, nothing that is free; what is not free is pointed to.
Apart(P, tops) ==
  \A f, g \in Inodes, x, y \in Slots :
    /\ Live(x, tops[f]) /\ Live(y, tops[g])
    /\ P[f][x] # 0 /\ P[f][x] = P[g][y]
    => f = g /\ x = y
NoneFree(P, fr, tops) == \A f \in Inodes, x \in Slots : Live(x, tops[f]) /\ P[f][x] # 0 => P[f][x] \notin fr
AllReached(P, fr, tops) == \A b \in Blocks \ fr : \E f \in Inodes, x \in Slots : Live(x, tops[f]) /\ P[f][x] = b
Parted(P, fr, tops) == Apart(P, tops) /\ NoneFree(P, fr, tops) /\ AllReached(P, fr, tops)

\* disk.blocks is what each inode owns
Counts(P, ns, tops) == \A f \in Inodes : ns[f].blocks = Cardinality(Own(P[f], tops[f]))


USE FileBlocksAssumption

(***************************************************************************)
(* Arithmetic of blocks.                                                   *)
(***************************************************************************)

\* The block and the place within it of a position.
LEMMA DivMod ==
  ASSUME NEW x \in Nat
  PROVE  /\ x \div Per \in Nat /\ x % Per \in 0 .. Per - 1
         /\ x = (x \div Per) * Per + (x % Per)
  BY SMT

\* A position that is put together from a block and a place.
LEMMA DivIs ==
  ASSUME NEW i \in Nat, NEW k \in 0 .. Per - 1
  PROVE  (i * Per + k) \div Per = i /\ (i * Per + k) % Per = k
  BY SMT

\* A position lies below n blocks if its block is one of them.
LEMMA DivBelow ==
  ASSUME NEW x \in Nat, NEW n \in Nat
  PROVE  x \div Per < n <=> x < n * Per
  BY SMT

\* NBlocks(n) blocks are those of which something lies below n.
LEMMA NBlocksIs ==
  ASSUME NEW n \in Nat, NEW i \in Nat
  PROVE  NBlocks(n) \in Nat /\ (i < NBlocks(n) <=> i * Per < n)
  BY SMT DEF NBlocks

(***************************************************************************)
(* What inode_bmap looks at.                                               *)
(***************************************************************************)

\* the parts of an index behind the direct ones and the indirect block's
High(i) == (i - Direct - Per) \div Per
Low(i)  == (i - Direct - Per) % Per

InDouble(i) == i - Direct >= Per /\ i - Direct - Per < Per * Per

\* The three ways of inode_bmap, and what lies beyond them.
LEMMA PathIs ==
  ASSUME NEW i \in Nat
  PROVE  /\ i < Direct => Path(i) = << <<"direct", i>> >>
         /\ i >= Direct /\ i - Direct < Per => Path(i) = << <<"root", "indirect">>, <<"data", i - Direct>> >>
         /\ i >= Direct /\ InDouble(i) =>
              Path(i) = << <<"root", "double">>, <<"table", High(i)>>, <<"data", Low(i)>> >>
         /\ i >= MaxIndex => Path(i) = << <<"beyond", i>> >>
<1>. DEFINE j == i - Direct
            k == j - Per
<1>1. i < Direct \/ (i >= Direct /\ j < Per) \/ (i >= Direct /\ InDouble(i)) \/ i >= MaxIndex
  BY DEF InDouble, MaxIndex
<1>2. CASE i < Direct
  <2>1. ~(i >= MaxIndex)
    BY <1>2, SMT DEF MaxIndex
  <2>. QED  BY <1>2, <2>1 DEF Path
<1>3. CASE i >= Direct /\ j < Per
  <2>1. ~(i >= MaxIndex) /\ ~InDouble(i) /\ ~(i < Direct)
    BY <1>3, SMT DEF MaxIndex, InDouble
  <2>. QED  BY <1>3, <2>1 DEF Path
<1>4. CASE i >= Direct /\ InDouble(i)
  <2>1. ~(i >= MaxIndex) /\ ~(j < Per) /\ ~(i < Direct)
    BY <1>4, SMT DEF MaxIndex, InDouble
  <2>2. j >= Per /\ k < Per * Per
    BY <1>4 DEF InDouble
  <2>. QED  BY <1>4, <2>1, <2>2 DEF Path, High, Low
<1>5. CASE i >= MaxIndex
  <2>1. ~(i < Direct) /\ ~(j < Per) /\ ~(k < Per * Per) /\ ~InDouble(i)
    BY <1>5, SMT DEF MaxIndex, InDouble
  <2>. QED  BY <1>5, <2>1 DEF Path
<1>. QED  BY <1>1, <1>2, <1>3, <1>4, <1>5

\* What a step finds, by its kind.
LEMMA LookIs ==
  ASSUME NEW d, NEW n, NEW b, NEW key
  PROVE  /\ Look(d, n, b, "direct", key) = n.direct[key]
         /\ Look(d, n, b, "root", key) = n.table[key]
         /\ Look(d, n, b, "table", key) = Entry(d, b, key)
         /\ Look(d, n, b, "data", key) = Entry(d, b, key)
         /\ Look(d, n, b, "beyond", key) = 0
  BY DEF Look, Entry

\* The steps of a way, one after the other.
Way1(d, n, i) == Look(d, n, 0, Path(i)[1][1], Path(i)[1][2])
Way2(d, n, i) == Look(d, n, Way1(d, n, i), Path(i)[2][1], Path(i)[2][2])
Way3(d, n, i) == Look(d, n, Way2(d, n, i), Path(i)[3][1], Path(i)[3][2])

\* A way of at most three steps has an end.
LEMMA MappedTo ==
  ASSUME NEW d, NEW n, NEW i, Len(Path(i)) \in 1 .. 3
  PROVE  Mapped(d, n, i) = IF Len(Path(i)) = 1 THEN Way1(d, n, i)
                           ELSE IF Len(Path(i)) = 2 THEN Way2(d, n, i) ELSE Way3(d, n, i)
<1>. DEFINE L == Len(Path(i))
            Does(to) == [k \in 0 .. L |-> IF k = 0 THEN 0 ELSE Look(d, n, to[k - 1], Path(i)[k][1], Path(i)[k][2])]
            f == CHOOSE to : to = Does(to)
            a1 == Way1(d, n, i)
            a2 == Way2(d, n, i)
            a3 == Way3(d, n, i)
            g == [k \in 0 .. L |-> IF k = 0 THEN 0 ELSE IF k = 1 THEN a1 ELSE IF k = 2 THEN a2 ELSE a3]
<1>0. L = 1 \/ L = 2 \/ L = 3
  OBVIOUS
<1>1. Mapped(d, n, i) = f[L]
  BY DEF Mapped
<1>2. /\ a1 = Look(d, n, 0, Path(i)[1][1], Path(i)[1][2])
      /\ a2 = Look(d, n, a1, Path(i)[2][1], Path(i)[2][2])
      /\ a3 = Look(d, n, a2, Path(i)[3][1], Path(i)[3][2])
  BY DEF Way1, Way2, Way3
<1>. HIDE DEF a1, a2, a3
<1>3. g = Does(g)
  <2>1. ASSUME NEW k \in 0 .. L PROVE g[k] = IF k = 0 THEN 0 ELSE Look(d, n, g[k - 1], Path(i)[k][1], Path(i)[k][2])
    <3>1. k \in {0, 1, 2, 3}
      <4>. HIDE DEF L
      <4>. QED  BY <1>0, SMT
    <3>2. CASE k = 0
      BY <3>2
    <3>3. CASE k = 1
      <4>1. g[k - 1] = 0 /\ g[k] = a1
        BY <3>3
      <4>. QED  BY <1>2, <3>3, <4>1
    <3>4. CASE k = 2
      <4>1. g[k - 1] = a1 /\ g[k] = a2
        BY <3>4
      <4>. QED  BY <1>2, <3>4, <4>1
    <3>5. CASE k = 3
      <4>1. g[k - 1] = a2 /\ g[k] = a3
        BY <3>5
      <4>. QED  BY <1>2, <3>5, <4>1
    <3>. QED  BY <3>1, <3>2, <3>3, <3>4, <3>5
  <2>2. DOMAIN g = 0 .. L /\ g = [k \in 0 .. L |-> g[k]]
    OBVIOUS
  <2>. HIDE DEF g
  <2>. QED  BY <2>1, <2>2
<1>4. f = Does(f)
  <2>. HIDE DEF Does, g
  <2>. QED  BY <1>3
<1>. HIDE DEF f, g
<1>5. f[0] = 0 /\ \A k \in 1 .. L : f[k] = Look(d, n, f[k - 1], Path(i)[k][1], Path(i)[k][2])
  BY <1>4
<1>6. f[1] = a1
  BY <1>2, <1>5
<1>7. L >= 2 => f[2] = a2
  BY <1>2, <1>5, <1>6
<1>8. L >= 3 => f[3] = a3
  BY <1>2, <1>5, <1>7
<1>9. Mapped(d, n, i) = IF L = 1 THEN a1 ELSE IF L = 2 THEN a2 ELSE a3
  <2>. HIDE DEF L
  <2>. QED  BY <1>0, <1>1, <1>6, <1>7, <1>8
<1>. QED  BY <1>9 DEF a1, a2, a3

\* What each way comes to.
LEMMA MappedIs ==
  ASSUME NEW d, NEW n, NEW i \in Nat
  PROVE  /\ i < Direct => Mapped(d, n, i) = n.direct[i]
         /\ i >= Direct /\ i - Direct < Per => Mapped(d, n, i) = Entry(d, n.table["indirect"], i - Direct)
         /\ i >= Direct /\ InDouble(i) =>
              Mapped(d, n, i) = Entry(d, Entry(d, n.table["double"], High(i)), Low(i))
         /\ i >= MaxIndex => Mapped(d, n, i) = 0
<1>1. CASE i < Direct
  <2>1. Path(i) = << <<"direct", i>> >> /\ ~(i >= MaxIndex) /\ ~(i >= Direct)
    BY <1>1, PathIs DEF MaxIndex
  <2>2. Mapped(d, n, i) = Look(d, n, 0, "direct", i)
    <3>1. Len(Path(i)) = 1 /\ Path(i)[1][1] = "direct" /\ Path(i)[1][2] = i
      BY <2>1
    <3>2. Way1(d, n, i) = Look(d, n, 0, "direct", i)
      BY <3>1 DEF Way1
    <3>. QED  BY <3>1, <3>2, MappedTo
  <2>. QED  BY <2>1, <2>2, LookIs
<1>2. CASE i >= Direct /\ i - Direct < Per
  <2>1. Path(i) = << <<"root", "indirect">>, <<"data", i - Direct>> >> /\ ~(i >= MaxIndex) /\ ~(i < Direct) /\ ~InDouble(i)
    BY <1>2, PathIs DEF MaxIndex, InDouble
  <2>2. Mapped(d, n, i) = Look(d, n, Look(d, n, 0, "root", "indirect"), "data", i - Direct)
    <3>1. Len(Path(i)) = 2 /\ Path(i)[1] = <<"root", "indirect">> /\ Path(i)[2] = <<"data", i - Direct>>
      BY <2>1
    <3>2. Way1(d, n, i) = Look(d, n, 0, "root", "indirect")
      BY <3>1 DEF Way1
    <3>3. Way2(d, n, i) = Look(d, n, Look(d, n, 0, "root", "indirect"), "data", i - Direct)
      BY <3>1, <3>2 DEF Way2
    <3>. QED  BY <3>1, <3>3, MappedTo
  <2>. QED  BY <1>2, <2>1, <2>2, LookIs
<1>3. CASE i >= Direct /\ InDouble(i)
  <2>1. /\ Path(i) = << <<"root", "double">>, <<"table", High(i)>>, <<"data", Low(i)>> >>
        /\ ~(i >= MaxIndex) /\ ~(i < Direct) /\ ~(i - Direct < Per)
    BY <1>3, PathIs DEF MaxIndex, InDouble
  <2>2. Mapped(d, n, i) = Look(d, n, Look(d, n, Look(d, n, 0, "root", "double"), "table", High(i)), "data", Low(i))
    <3>1. /\ Len(Path(i)) = 3 /\ Path(i)[1] = <<"root", "double">>
          /\ Path(i)[2] = <<"table", High(i)>> /\ Path(i)[3] = <<"data", Low(i)>>
      BY <2>1
    <3>2. Way1(d, n, i) = Look(d, n, 0, "root", "double")
      BY <3>1 DEF Way1
    <3>3. Way2(d, n, i) = Look(d, n, Way1(d, n, i), "table", High(i))
      BY <3>1 DEF Way2
    <3>4. Way3(d, n, i) = Look(d, n, Way2(d, n, i), "data", Low(i))
      BY <3>1 DEF Way3
    <3>. QED  BY <3>1, <3>2, <3>3, <3>4, MappedTo
  <2>. QED  BY <1>3, <2>1, <2>2, LookIs
<1>4. CASE i >= MaxIndex
  <2>1. Path(i) = << <<"beyond", i>> >> /\ ~(i < Direct) /\ ~(i - Direct < Per) /\ ~InDouble(i)
    BY <1>4, PathIs, SMT DEF MaxIndex, InDouble
  <2>2. Mapped(d, n, i) = Look(d, n, 0, "beyond", i)
    <3>1. Len(Path(i)) = 1 /\ Path(i)[1][1] = "beyond" /\ Path(i)[1][2] = i
      BY <2>1
    <3>2. Way1(d, n, i) = Look(d, n, 0, "beyond", i)
      BY <3>1 DEF Way1
    <3>. QED  BY <3>1, <3>2, MappedTo
  <2>. QED  BY <2>1, <2>2, LookIs
<1>5. i < Direct \/ (i >= Direct /\ i - Direct < Per) \/ (i >= Direct /\ InDouble(i)) \/ i >= MaxIndex
  BY DEF InDouble, MaxIndex
<1>. QED  BY <1>1, <1>2, <1>3, <1>4, <1>5

(***************************************************************************)
(* inode_bmap with allocation, step by step.                               *)
(***************************************************************************)

\* The states of the steps, one after the other.
Step1(s, i) == Step(s, Path(i)[1][1], Path(i)[1][2])
Step2(s, i) == Step(Step1(s, i), Path(i)[2][1], Path(i)[2][2])
Step3(s, i) == Step(Step2(s, i), Path(i)[3][1], Path(i)[3][2])

\* A way of at most three steps has an end.
LEMMA BmapTo ==
  ASSUME NEW s, NEW i, Len(Path(i)) \in 1 .. 3
  PROVE  Bmap(s, i) = IF Len(Path(i)) = 1 THEN Step1(s, i)
                      ELSE IF Len(Path(i)) = 2 THEN Step2(s, i) ELSE Step3(s, i)
<1>. DEFINE L == Len(Path(i))
            Does(to) == [k \in 0 .. L |-> IF k = 0 THEN s ELSE Step(to[k - 1], Path(i)[k][1], Path(i)[k][2])]
            f == CHOOSE to : to = Does(to)
            a1 == Step1(s, i)
            a2 == Step2(s, i)
            a3 == Step3(s, i)
            g == [k \in 0 .. L |-> IF k = 0 THEN s ELSE IF k = 1 THEN a1 ELSE IF k = 2 THEN a2 ELSE a3]
<1>0. L = 1 \/ L = 2 \/ L = 3
  OBVIOUS
<1>1. Bmap(s, i) = f[L]
  BY DEF Bmap
<1>2. /\ a1 = Step(s, Path(i)[1][1], Path(i)[1][2])
      /\ a2 = Step(a1, Path(i)[2][1], Path(i)[2][2])
      /\ a3 = Step(a2, Path(i)[3][1], Path(i)[3][2])
  BY DEF Step1, Step2, Step3
<1>. HIDE DEF a1, a2, a3
<1>3. g = Does(g)
  <2>1. ASSUME NEW k \in 0 .. L PROVE g[k] = IF k = 0 THEN s ELSE Step(g[k - 1], Path(i)[k][1], Path(i)[k][2])
    <3>1. k \in {0, 1, 2, 3}
      <4>. HIDE DEF L
      <4>. QED  BY <1>0, SMT
    <3>2. CASE k = 0
      BY <3>2
    <3>3. CASE k = 1
      <4>1. g[k - 1] = s /\ g[k] = a1
        BY <3>3
      <4>. QED  BY <1>2, <3>3, <4>1
    <3>4. CASE k = 2
      <4>1. g[k - 1] = a1 /\ g[k] = a2
        BY <3>4
      <4>. QED  BY <1>2, <3>4, <4>1
    <3>5. CASE k = 3
      <4>1. g[k - 1] = a2 /\ g[k] = a3
        BY <3>5
      <4>. QED  BY <1>2, <3>5, <4>1
    <3>. QED  BY <3>1, <3>2, <3>3, <3>4, <3>5
  <2>2. DOMAIN g = 0 .. L /\ g = [k \in 0 .. L |-> g[k]]
    OBVIOUS
  <2>. HIDE DEF g
  <2>. QED  BY <2>1, <2>2
<1>4. f = Does(f)
  <2>. HIDE DEF Does, g
  <2>. QED  BY <1>3
<1>. HIDE DEF f, g
<1>5. f[0] = s /\ \A k \in 1 .. L : f[k] = Step(f[k - 1], Path(i)[k][1], Path(i)[k][2])
  BY <1>4
<1>6. f[1] = a1
  BY <1>2, <1>5
<1>7. L >= 2 => f[2] = a2
  BY <1>2, <1>5, <1>6
<1>8. L >= 3 => f[3] = a3
  BY <1>2, <1>5, <1>7
<1>9. Bmap(s, i) = IF L = 1 THEN a1 ELSE IF L = 2 THEN a2 ELSE a3
  <2>. HIDE DEF L
  <2>. QED  BY <1>0, <1>1, <1>6, <1>7, <1>8
<1>. QED  BY <1>9 DEF a1, a2, a3

\* The way to an index, as steps.
LEMMA BmapIs ==
  ASSUME NEW s, NEW i \in Nat
  PROVE  /\ i < Direct => Bmap(s, i) = Step(s, "direct", i)
         /\ i >= Direct /\ i - Direct < Per =>
              Bmap(s, i) = Step(Step(s, "root", "indirect"), "data", i - Direct)
         /\ i >= Direct /\ InDouble(i) =>
              Bmap(s, i) = Step(Step(Step(s, "root", "double"), "table", High(i)), "data", Low(i))
         /\ i >= MaxIndex => Bmap(s, i) = Step(s, "beyond", i)
<1>1. CASE i < Direct
  <2>1. Path(i) = << <<"direct", i>> >> /\ ~(i >= MaxIndex) /\ ~(i >= Direct)
    BY <1>1, PathIs DEF MaxIndex
  <2>2. Len(Path(i)) = 1 /\ Path(i)[1][1] = "direct" /\ Path(i)[1][2] = i
    BY <2>1
  <2>3. Bmap(s, i) = Step(s, "direct", i)
    BY <2>2, BmapTo DEF Step1
  <2>. QED  BY <2>1, <2>3
<1>2. CASE i >= Direct /\ i - Direct < Per
  <2>1. Path(i) = << <<"root", "indirect">>, <<"data", i - Direct>> >> /\ ~(i >= MaxIndex) /\ ~(i < Direct) /\ ~InDouble(i)
    BY <1>2, PathIs DEF MaxIndex, InDouble
  <2>2. Len(Path(i)) = 2 /\ Path(i)[1] = <<"root", "indirect">> /\ Path(i)[2] = <<"data", i - Direct>>
    BY <2>1
  <2>3. Step1(s, i) = Step(s, "root", "indirect")
    BY <2>2 DEF Step1
  <2>4. Step2(s, i) = Step(Step(s, "root", "indirect"), "data", i - Direct)
    BY <2>2, <2>3 DEF Step2
  <2>5. Bmap(s, i) = Step(Step(s, "root", "indirect"), "data", i - Direct)
    BY <2>2, <2>4, BmapTo
  <2>. QED  BY <2>1, <2>5
<1>3. CASE i >= Direct /\ InDouble(i)
  <2>1. /\ Path(i) = << <<"root", "double">>, <<"table", High(i)>>, <<"data", Low(i)>> >>
        /\ ~(i >= MaxIndex) /\ ~(i < Direct) /\ ~(i - Direct < Per)
    BY <1>3, PathIs DEF MaxIndex, InDouble
  <2>2. /\ Len(Path(i)) = 3 /\ Path(i)[1] = <<"root", "double">>
        /\ Path(i)[2] = <<"table", High(i)>> /\ Path(i)[3] = <<"data", Low(i)>>
    BY <2>1
  <2>3. Step1(s, i) = Step(s, "root", "double")
    BY <2>2 DEF Step1
  <2>4. Step2(s, i) = Step(Step1(s, i), "table", High(i))
    BY <2>2 DEF Step2
  <2>5. Step3(s, i) = Step(Step2(s, i), "data", Low(i))
    BY <2>2 DEF Step3
  <2>6. Bmap(s, i) = Step3(s, i)
    BY <2>2, BmapTo
  <2>. QED  BY <2>1, <2>3, <2>4, <2>5, <2>6
<1>4. CASE i >= MaxIndex
  <2>1. Path(i) = << <<"beyond", i>> >> /\ ~(i < Direct) /\ ~(i - Direct < Per) /\ ~InDouble(i)
    BY <1>4, PathIs, SMT DEF MaxIndex, InDouble
  <2>2. Len(Path(i)) = 1 /\ Path(i)[1][1] = "beyond" /\ Path(i)[1][2] = i
    BY <2>1
  <2>3. Bmap(s, i) = Step(s, "beyond", i)
    BY <2>2, BmapTo DEF Step1
  <2>. QED  BY <2>1, <2>3
<1>5. i < Direct \/ (i >= Direct /\ i - Direct < Per) \/ (i >= Direct /\ InDouble(i)) \/ i >= MaxIndex
  BY DEF InDouble, MaxIndex
<1>. QED  BY <1>1, <1>2, <1>3, <1>4, <1>5

(***************************************************************************)
(* Types.                                                                  *)
(***************************************************************************)

Bodies == [0 .. Per - 1 -> Words]
Nodes  == [size : 0 .. Top, blocks : Int, direct : [0 .. Direct - 1 -> Words],
           table : [{"indirect", "double"} -> Words]]
Ops    == [pos : Nat, from : Nat, end : Nat, val : Words, log : Seq(Blocks \X Bodies), stale : BOOLEAN]
States == [ino : Nodes, dev : [Blocks -> Bodies], free : SUBSET Blocks, blk : Words, ok : BOOLEAN, left : Nat]

\* An index behind the direct ones lies in a table.
LEMMA KeysAre ==
  ASSUME NEW i \in Nat
  PROVE  /\ i >= Direct /\ i - Direct < Per => i - Direct \in 0 .. Per - 1 /\ i < MaxIndex
         /\ i >= Direct /\ InDouble(i) => High(i) \in 0 .. Per - 1 /\ Low(i) \in 0 .. Per - 1 /\ i < MaxIndex
         /\ i < Direct => i < MaxIndex
<1>1. i >= Direct /\ i - Direct < Per => i - Direct \in 0 .. Per - 1 /\ i < MaxIndex
  BY SMT DEF MaxIndex
<1>2. ASSUME i >= Direct, InDouble(i) PROVE High(i) \in 0 .. Per - 1 /\ Low(i) \in 0 .. Per - 1 /\ i < MaxIndex
  <2>1. i - Direct - Per \in Nat /\ i - Direct - Per < Per * Per
    BY <1>2 DEF InDouble
  <2>2. (i - Direct - Per) \div Per < Per
    BY <2>1, DivBelow
  <2>3. (i - Direct - Per) \div Per \in Nat /\ (i - Direct - Per) % Per \in 0 .. Per - 1
    BY <2>1, DivMod
  <2>4. i < MaxIndex
    BY <2>1, SMT DEF MaxIndex
  <2>. QED  BY <2>2, <2>3, <2>4 DEF High, Low
<1>3. i < Direct => i < MaxIndex
  BY SMT DEF MaxIndex
<1>. QED  BY <1>1, <1>2, <1>3

\* The allocator gives the lowest of the free blocks.
LEMMA LowestIs == ASSUME NEW S \in SUBSET Blocks, S # {} PROVE Lowest(S) \in S
<1>1. S \in SUBSET Nat
  OBVIOUS
<1>2. \E n \in S : \A m \in S : n <= m
  BY <1>1, Least
<1>. QED  BY <1>2 DEF Lowest

\* inode_bmap comes to a block or to a hole.
LEMMA MappedType ==
  ASSUME NEW d \in [Blocks -> Bodies], NEW n \in Nodes, NEW i \in Nat
  PROVE  Mapped(d, n, i) \in Words
<1>1. \A b \in Words, k \in 0 .. Per - 1 : Entry(d, b, k) \in Words
  BY DEF Entry, Words, Bodies
<1>2. n.direct \in [0 .. Direct - 1 -> Words] /\ n.table["indirect"] \in Words /\ n.table["double"] \in Words /\ 0 \in Words
  BY DEF Nodes, Words
<1>3. i < Direct \/ (i >= Direct /\ i - Direct < Per) \/ (i >= Direct /\ InDouble(i)) \/ i >= MaxIndex
  BY DEF InDouble, MaxIndex
<1>. QED  BY <1>1, <1>2, <1>3, MappedIs, KeysAre

(***************************************************************************)
(* What one step does: it fails and leaves all as it was, or it finds a    *)
(* block, or it makes one, or it fails half-way, when too few device calls *)
(* are left.                                                               *)
(***************************************************************************)

Same(s, r) == r.ino = s.ino /\ r.dev = s.dev /\ r.free = s.free

Refused(s, r)  == ~r.ok /\ Same(s, r)
Finds(s, r, b) == s.ok /\ r.ok /\ Same(s, r) /\ b # 0 /\ r.blk = b /\ r.left + 1 >= s.left
Makes(s, r, b, n, d, cost) ==
  /\ s.ok /\ r.ok /\ b \in s.free /\ r.free = s.free \ {b} /\ r.blk = b
  /\ r.ino = n /\ r.dev = d /\ r.left + cost >= s.left
Breaks(s, r, cost) == ~r.ok /\ r.free # s.free /\ r.free \subseteq s.free /\ s.left < cost

\* The fields of a state, and what changes them keeps the types.
LEMMA StateIs ==
  ASSUME NEW s \in States
  PROVE  /\ s.ino \in Nodes /\ s.dev \in [Blocks -> Bodies] /\ s.free \in SUBSET Blocks /\ s.blk \in Words
         /\ s.ok \in BOOLEAN /\ s.left \in Nat
  BY DEF States

\* An inode with one more block: in an entry of its own, or in a table.
WithDirect(n, i, b) == [n EXCEPT !.direct[i] = b, !.blocks = @ + 1]
WithTable(n, w, b)  == [n EXCEPT !.table[w] = b, !.blocks = @ + 1]
OneMore(n)          == [n EXCEPT !.blocks = @ + 1]

\* What they change.
LEMMA NodeDirect ==
  ASSUME NEW n \in Nodes, NEW i \in 0 .. Direct - 1, NEW b \in Words, NEW r, r = WithDirect(n, i, b)
  PROVE  /\ r \in Nodes /\ r.size = n.size /\ r.blocks = n.blocks + 1 /\ r.table = n.table
         /\ r.direct = [n.direct EXCEPT ![i] = b]
<1>1. n.size \in 0 .. Top /\ n.blocks + 1 \in Int /\ n.direct \in [0 .. Direct - 1 -> Words] /\ n.table \in [{"indirect", "double"} -> Words]
  BY DEF Nodes
<1>2. r.size = n.size /\ r.blocks = n.blocks + 1 /\ r.table = n.table /\ r.direct = [n.direct EXCEPT ![i] = b]
  BY DEF Nodes, WithDirect
<1>3. r = [size |-> r.size, blocks |-> r.blocks, direct |-> r.direct, table |-> r.table]
  BY DEF Nodes, WithDirect
<1>4. [n.direct EXCEPT ![i] = b] \in [0 .. Direct - 1 -> Words]
  BY <1>1
<1>5. r \in Nodes
  BY <1>1, <1>2, <1>3, <1>4 DEF Nodes
<1>. QED  BY <1>2, <1>5

\* An inode with a new indirect block.
LEMMA NodeTable ==
  ASSUME NEW n \in Nodes, NEW w \in {"indirect", "double"}, NEW b \in Words, NEW r, r = WithTable(n, w, b)
  PROVE  /\ r \in Nodes /\ r.size = n.size /\ r.blocks = n.blocks + 1 /\ r.direct = n.direct
         /\ r.table = [n.table EXCEPT ![w] = b]
<1>1. n.size \in 0 .. Top /\ n.blocks + 1 \in Int /\ n.direct \in [0 .. Direct - 1 -> Words] /\ n.table \in [{"indirect", "double"} -> Words]
  BY DEF Nodes
<1>2. r.size = n.size /\ r.blocks = n.blocks + 1 /\ r.direct = n.direct /\ r.table = [n.table EXCEPT ![w] = b]
  BY DEF Nodes, WithTable
<1>3. r = [size |-> r.size, blocks |-> r.blocks, direct |-> r.direct, table |-> r.table]
  BY DEF Nodes, WithTable
<1>4. [n.table EXCEPT ![w] = b] \in [{"indirect", "double"} -> Words]
  BY <1>1
<1>5. r \in Nodes
  BY <1>1, <1>2, <1>3, <1>4 DEF Nodes
<1>. QED  BY <1>2, <1>5

\* A new direct block is counted; the size stays.
LEMMA MoreDirect ==
  ASSUME NEW n \in Nodes, NEW i, NEW b
  PROVE  WithDirect(n, i, b).blocks = n.blocks + 1 /\ WithDirect(n, i, b).size = n.size
  BY DEF Nodes, WithDirect

\* So is a new indirect block.
LEMMA MoreTable ==
  ASSUME NEW n \in Nodes, NEW w, NEW b
  PROVE  WithTable(n, w, b).blocks = n.blocks + 1 /\ WithTable(n, w, b).size = n.size
  BY DEF Nodes, WithTable

\* A block that an entry of a table names is counted in the inode.
LEMMA NodeCounted ==
  ASSUME NEW n \in Nodes, NEW r, r = OneMore(n)
  PROVE  r \in Nodes /\ r.size = n.size /\ r.blocks = n.blocks + 1 /\ r.direct = n.direct /\ r.table = n.table
<1>1. n.size \in 0 .. Top /\ n.blocks + 1 \in Int /\ n.direct \in [0 .. Direct - 1 -> Words] /\ n.table \in [{"indirect", "double"} -> Words]
  BY DEF Nodes
<1>2. r.size = n.size /\ r.blocks = n.blocks + 1 /\ r.direct = n.direct /\ r.table = n.table
  BY DEF Nodes, OneMore
<1>3. r = [size |-> r.size, blocks |-> r.blocks, direct |-> r.direct, table |-> r.table]
  BY DEF Nodes, OneMore
<1>4. r \in Nodes
  BY <1>1, <1>2, <1>3 DEF Nodes
<1>. QED  BY <1>2, <1>4

\* A block with one entry set.
Put(d, b, c)        == [d EXCEPT ![b] = c]
Entered(d, c, k, b) == Put(d, c, [d[c] EXCEPT ![k] = b])
Cleared(d, b)       == Put(d, b, Zeroes)

\* A block is written, no other.
LEMMA PutIs ==
  ASSUME NEW d \in [Blocks -> Bodies], NEW b \in Blocks, NEW c \in Bodies, NEW r, r = Put(d, b, c)
  PROVE  r \in [Blocks -> Bodies] /\ r[b] = c /\ \A x \in Blocks : x # b => r[x] = d[x]
  BY DEF Put

\* An entry of a table is written, no other.
LEMMA EnteredIs ==
  ASSUME NEW d \in [Blocks -> Bodies], NEW c \in Blocks, NEW k \in 0 .. Per - 1, NEW b \in Words, NEW r, r = Entered(d, c, k, b)
  PROVE  /\ r \in [Blocks -> Bodies] /\ r[c][k] = b
         /\ \A x \in Blocks : x # c => r[x] = d[x]
         /\ \A j \in 0 .. Per - 1 : j # k => r[c][j] = d[c][j]
<1>1. d[c] \in Bodies
  OBVIOUS
<1>2. [d[c] EXCEPT ![k] = b] \in Bodies
  BY <1>1 DEF Bodies
<1>3. r \in [Blocks -> Bodies] /\ r[c] = [d[c] EXCEPT ![k] = b] /\ \A x \in Blocks : x # c => r[x] = d[x]
  <2>. DEFINE v == [d[c] EXCEPT ![k] = b]
  <2>1. v \in Bodies /\ r = Put(d, c, v)
    BY <1>2 DEF Entered
  <2>. HIDE DEF v
  <2>2. r \in [Blocks -> Bodies] /\ r[c] = v /\ \A x \in Blocks : x # c => r[x] = d[x]
    BY <2>1, PutIs
  <2>. QED  BY <2>2 DEF v
<1>. QED  BY <1>1, <1>3 DEF Bodies

\* A block is zeroed, no other.
LEMMA ClearedIs ==
  ASSUME NEW d \in [Blocks -> Bodies], NEW b \in Blocks, NEW r, r = Cleared(d, b)
  PROVE  /\ r \in [Blocks -> Bodies] /\ \A k \in 0 .. Per - 1 : r[b][k] = 0
         /\ \A x \in Blocks : x # b => r[x] = d[x]
<1>1. Zeroes \in Bodies /\ \A k \in 0 .. Per - 1 : Zeroes[k] = 0
  BY DEF Zeroes, Bodies, Words
<1>. HIDE DEF Zeroes
<1>. QED  BY <1>1, PutIs DEF Cleared

\* The inode is replaced.
LEMMA WithNode ==
  ASSUME NEW s \in States, NEW n \in Nodes, NEW r, r = [s EXCEPT !.ino = n]
  PROVE  r \in States /\ r.ino = n /\ r.dev = s.dev /\ r.free = s.free /\ r.blk = s.blk /\ r.ok = s.ok /\ r.left = s.left
  BY DEF States

\* A failure leaves what there is.
LEMMA FailedIs ==
  ASSUME NEW s \in States, NEW r, r = Failed(s)
  PROVE  r \in States /\ ~r.ok /\ Same(s, r) /\ r.left = s.left
  BY DEF States, Failed, Same

\* The allocator gives one block, the lowest that is free.
LEMMA TakeIs ==
  ASSUME NEW s \in States, s.free # {}, NEW r, r = Take(s)
  PROVE  \E b \in s.free :
           /\ b = Lowest(s.free) /\ b \in Blocks /\ b \in Words
           /\ r \in States /\ r.ino = s.ino /\ r.dev = s.dev /\ r.free = s.free \ {b} /\ r.blk = b
           /\ r.ok = s.ok /\ r.left = s.left
<1>1. Lowest(s.free) \in s.free /\ s.free \in SUBSET Blocks
  BY StateIs, LowestIs
<1>2. PICK b \in s.free : b = Lowest(s.free) /\ b \in Blocks /\ b \in Words
  BY <1>1 DEF Words
<1>3. r = [s EXCEPT !.free = @ \ {b}, !.blk = b]
  BY <1>2 DEF Take
<1>4. r \in States /\ r.ino = s.ino /\ r.dev = s.dev /\ r.free = s.free \ {b} /\ r.blk = b /\ r.ok = s.ok /\ r.left = s.left
  BY <1>2, <1>3 DEF States
<1>. QED  BY <1>2, <1>4

\* A write to the device is made, or fails when no call is left.
LEMMA WritingIs ==
  ASSUME NEW s \in States, NEW b \in Blocks, NEW c \in Bodies, NEW r, r = Writing(s, b, c)
  PROVE  /\ r \in States /\ r.ino = s.ino /\ r.free = s.free /\ r.blk = s.blk
         /\ s.left = 0 => ~r.ok /\ r.dev = s.dev /\ r.left = 0
         /\ s.left # 0 => r.ok = s.ok /\ r.dev = Put(s.dev, b, c) /\ r.left + 1 = s.left
<1>1. CASE s.left = 0
  <2>1. r = Failed(s)
    BY <1>1 DEF Writing
  <2>2. r \in States /\ ~r.ok /\ Same(s, r) /\ r.left = s.left
    BY <2>1, FailedIs
  <2>3. r.blk = s.blk
    BY <2>1 DEF Failed, States
  <2>. QED  BY <1>1, <2>2, <2>3 DEF Same
<1>2. CASE s.left # 0
  <2>1. r = [s EXCEPT !.left = @ - 1, !.dev[b] = c]
    BY <1>2 DEF Writing
  <2>2. s.left - 1 \in Nat /\ [s.dev EXCEPT ![b] = c] \in [Blocks -> Bodies]
    BY <1>2, StateIs
  <2>3. /\ r.ino = s.ino /\ r.free = s.free /\ r.blk = s.blk /\ r.ok = s.ok
        /\ r.dev = Put(s.dev, b, c) /\ r.left = s.left - 1
    BY <2>1 DEF States, Put
  <2>4. r \in States
    <3>1. r = [s EXCEPT !.left = s.left - 1, !.dev = [s.dev EXCEPT ![b] = c]]
      BY <2>1
    <3>. QED  BY <2>2, <3>1 DEF States
  <2>5. s.left \in Nat
    BY StateIs
  <2>. QED  BY <1>2, <2>3, <2>4, <2>5
<1>. QED  BY <1>1, <1>2

\* the same, as one fact
Wrote(s, b, c, r) ==
  /\ r \in States /\ r.ino = s.ino /\ r.free = s.free /\ r.blk = s.blk
  /\ s.left = 0 => ~r.ok /\ r.dev = s.dev
  /\ s.left # 0 => r.ok = s.ok /\ r.dev = Put(s.dev, b, c) /\ r.left + 1 = s.left

\* The same as one predicate.
LEMMA Writes ==
  ASSUME NEW s \in States, NEW b \in Blocks, NEW c \in Bodies
  PROVE  Wrote(s, b, c, Writing(s, b, c))
<1>. DEFINE r == Writing(s, b, c)
<1>1. /\ r \in States /\ r.ino = s.ino /\ r.free = s.free /\ r.blk = s.blk
      /\ s.left = 0 => ~r.ok /\ r.dev = s.dev /\ r.left = 0
      /\ s.left # 0 => r.ok = s.ok /\ r.dev = Put(s.dev, b, c) /\ r.left + 1 = s.left
  BY WritingIs
<1>. HIDE DEF r
<1>2. Wrote(s, b, c, r)
  BY <1>1 DEF Wrote
<1>. QED  BY <1>2 DEF r

\* A read that does not fail uses up one call.
LEMMA ReadingIs ==
  ASSUME NEW s \in States, s.left # 0, NEW r, r = Reading(s)
  PROVE  r \in States /\ Same(s, r) /\ r.blk = s.blk /\ r.ok = s.ok /\ r.left + 1 = s.left
<1>1. r = [s EXCEPT !.left = @ - 1]
  BY DEF Reading
<1>2. s.left \in Nat /\ s.left - 1 \in Nat
  BY StateIs
<1>. QED  BY <1>1, <1>2 DEF States, Same

\* A step comes to a block that is there.
LEMMA FoundIs ==
  ASSUME NEW s \in States, NEW b \in Words, NEW r, r = [s EXCEPT !.blk = b]
  PROVE  r \in States /\ Same(s, r) /\ r.blk = b /\ r.ok = s.ok /\ r.left = s.left
  BY DEF States, Same

\* A step after a failure does nothing.
LEMMA StepFailed ==
  ASSUME NEW s \in States, ~s.ok, NEW kind, NEW key
  PROVE  Step(s, kind, key) = s
<1>1. Step(s, kind, key) = Failed(s)
  BY DEF Step
<1>. QED  BY <1>1 DEF Failed, States

\* A step that finds or makes an entry of the inode.
LEMMA DirectStep ==
  ASSUME NEW s \in States, NEW i \in 0 .. Direct - 1, NEW r, r = Step(s, "direct", i)
  PROVE  /\ r \in States
         /\ \/ Refused(s, r)
            \/ Finds(s, r, s.ino.direct[i])
            \/ s.ino.direct[i] = 0 /\ \E b \in s.free :
                 Makes(s, r, b, WithDirect(s.ino, i, b), s.dev, 0)
<1>0. s.left \in Nat /\ s.ok \in BOOLEAN /\ s.ino \in Nodes
  BY StateIs
<1>1. CASE ~s.ok
  BY <1>1, StepFailed DEF Refused, Same
<1>2. CASE s.ok /\ s.ino.direct[i] # 0
  <2>1. r = [s EXCEPT !.blk = s.ino.direct[i]]
    BY <1>2, LookIs DEF Step, Find
  <2>2. s.ino.direct[i] \in Words
    BY <1>0 DEF Nodes
  <2>3. r \in States /\ Same(s, r) /\ r.blk = s.ino.direct[i] /\ r.ok /\ r.left = s.left
    BY <1>2, <2>1, <2>2, FoundIs
  <2>. QED  BY <1>0, <1>2, <2>3 DEF Finds
<1>3. CASE s.ok /\ s.ino.direct[i] = 0 /\ s.free = {}
  <2>1. r = Failed(s)
    BY <1>3, LookIs DEF Step, Find
  <2>. QED  BY <2>1, FailedIs DEF Refused
<1>4. CASE s.ok /\ s.ino.direct[i] = 0 /\ s.free # {}
  <2>. DEFINE q == Take(s)
  <2>1. PICK b \in s.free :
          /\ b = Lowest(s.free) /\ b \in Blocks /\ b \in Words
          /\ q \in States /\ q.ino = s.ino /\ q.dev = s.dev /\ q.free = s.free \ {b} /\ q.blk = b
          /\ q.ok = s.ok /\ q.left = s.left
    BY <1>4, TakeIs
  <2>2. r = NewDirect(s, i)
    BY <1>4, LookIs DEF Step, Find, Make
  <2>. HIDE DEF q
  <2>. DEFINE n == WithDirect(s.ino, i, b)
  <2>3. r = [q EXCEPT !.ino = n]
    BY <2>1, <2>2 DEF NewDirect, WithDirect, q
  <2>4. n \in Nodes
    BY <1>0, <2>1, NodeDirect
  <2>. HIDE DEF n
  <2>w. r \in States /\ r.ino = n /\ r.dev = q.dev /\ r.free = q.free /\ r.blk = q.blk /\ r.ok = q.ok /\ r.left = q.left
    BY <2>1, <2>3, <2>4, WithNode
  <2>5. r \in States /\ r.ino = n /\ r.dev = s.dev /\ r.free = s.free \ {b} /\ r.blk = b /\ r.ok /\ r.left = s.left
    BY <1>4, <2>1, <2>w
  <2>6. Makes(s, r, b, n, s.dev, 0)
    BY <1>0, <1>4, <2>1, <2>5 DEF Makes
  <2>. QED  BY <1>4, <2>5, <2>6 DEF n
<1>. QED  BY <1>0, <1>1, <1>2, <1>3, <1>4

\* A step to an indirect block: refused, found, made and zeroed, or broken off
\* after the allocation.
LEMMA RootStep ==
  ASSUME NEW s \in States, NEW w \in {"indirect", "double"}, NEW r, r = Step(s, "root", w)
  PROVE  /\ r \in States
         /\ \/ Refused(s, r)
            \/ Finds(s, r, s.ino.table[w])
            \/ s.ino.table[w] = 0 /\ \E b \in s.free :
                 Makes(s, r, b, WithTable(s.ino, w, b), Cleared(s.dev, b), 1)
            \/ Breaks(s, r, 1)
<1>0. s.left \in Nat /\ s.ok \in BOOLEAN /\ s.ino \in Nodes
  BY StateIs
<1>1. CASE ~s.ok
  BY <1>1, StepFailed DEF Refused, Same
<1>2. CASE s.ok /\ s.ino.table[w] # 0
  <2>1. r = [s EXCEPT !.blk = s.ino.table[w]]
    BY <1>2, LookIs DEF Step, Find
  <2>2. s.ino.table[w] \in Words
    BY <1>0 DEF Nodes
  <2>3. r \in States /\ Same(s, r) /\ r.blk = s.ino.table[w] /\ r.ok /\ r.left = s.left
    BY <1>2, <2>1, <2>2, FoundIs
  <2>. QED  BY <1>0, <1>2, <2>3 DEF Finds
<1>3. CASE s.ok /\ s.ino.table[w] = 0 /\ s.free = {}
  <2>1. r = Failed(s)
    BY <1>3, LookIs DEF Step, Find
  <2>. QED  BY <2>1, FailedIs DEF Refused
<1>4. CASE s.ok /\ s.ino.table[w] = 0 /\ s.free # {}
  <2>. DEFINE q == Take(s)
  <2>1. PICK b \in s.free :
          /\ b = Lowest(s.free) /\ b \in Blocks /\ b \in Words
          /\ q \in States /\ q.ino = s.ino /\ q.dev = s.dev /\ q.free = s.free \ {b} /\ q.blk = b
          /\ q.ok = s.ok /\ q.left = s.left
    BY <1>4, TakeIs
  <2>2. r = Writing(NewTable(s, w), b, Zeroes)
    BY <1>4, <2>1, LookIs DEF Step, Find, Make, Root
  <2>. HIDE DEF q
  <2>. DEFINE n == WithTable(s.ino, w, b)
              p == NewTable(s, w)
  <2>3. p = [q EXCEPT !.ino = n]
    BY <2>1 DEF NewTable, WithTable, q
  <2>4. n \in Nodes /\ Zeroes \in Bodies
    BY <1>0, <2>1, NodeTable DEF Zeroes, Bodies, Words
  <2>. HIDE DEF n, p
  <2>5. p \in States /\ p.ino = n /\ p.dev = s.dev /\ p.free = s.free \ {b} /\ p.blk = b /\ p.ok = s.ok /\ p.left = s.left
    BY <2>1, <2>3, <2>4, WithNode
  <2>6. r = Writing(p, b, Zeroes)
    BY <2>2 DEF p
  <2>w. /\ r \in States /\ r.ino = p.ino /\ r.free = p.free /\ r.blk = p.blk
        /\ p.left = 0 => ~r.ok
        /\ p.left # 0 => r.ok = p.ok /\ r.dev = Put(p.dev, b, Zeroes) /\ r.left + 1 = p.left
    <3>. DEFINE z == Zeroes
    <3>1. p \in States /\ b \in Blocks /\ z \in Bodies
      BY <2>1, <2>4, <2>5
    <3>2. r = Writing(p, b, z)
      BY <2>6
    <3>. HIDE DEF z
    <3>3. /\ r \in States /\ r.ino = p.ino /\ r.free = p.free /\ r.blk = p.blk
          /\ p.left = 0 => ~r.ok
          /\ p.left # 0 => r.ok = p.ok /\ r.dev = Put(p.dev, b, z) /\ r.left + 1 = p.left
      BY <3>1, <3>2, WritingIs
    <3>. QED  BY <3>3 DEF z
  <2>7. CASE s.left = 0
    <3>1. r \in States /\ ~r.ok /\ r.free = s.free \ {b}
      BY <2>5, <2>7, <2>w
    <3>. QED  BY <2>1, <2>7, <3>1 DEF Breaks
  <2>8. CASE s.left # 0
    <3>1. r \in States /\ r.ok /\ r.dev = Cleared(s.dev, b) /\ r.left + 1 = s.left
          /\ r.ino = n /\ r.free = s.free \ {b} /\ r.blk = b
      <4>1. p.left # 0 /\ p.ok /\ p.dev = s.dev
        BY <1>4, <2>5, <2>8
      <4>2. r.dev = Put(s.dev, b, Zeroes) /\ r.ok /\ r.left + 1 = p.left
        BY <2>w, <4>1
      <4>. QED  BY <2>5, <2>w, <4>2 DEF Cleared
    <3>2. r.left \in Nat
      BY <3>1, StateIs
    <3>3. Makes(s, r, b, n, Cleared(s.dev, b), 1)
      BY <1>0, <1>4, <2>1, <3>1, <3>2 DEF Makes
    <3>. QED  BY <1>4, <3>1, <3>3 DEF n
  <2>. QED  BY <2>7, <2>8
<1>. QED  BY <1>0, <1>1, <1>2, <1>3, <1>4

\* A step into a table: it is read, and what is missing is taken, entered and counted.
LEMMA EnterIs ==
  ASSUME NEW s \in States, s.free # {}, s.blk \in Blocks, s.ok, NEW k \in 0 .. Per - 1, NEW r, r = Counted(Enter(s, k))
  PROVE  /\ r \in States
         /\ \/ Breaks(s, r, 1) /\ s.left = 0
            \/ \E b \in s.free :
                 /\ r.ok /\ r.free = s.free \ {b} /\ r.blk = b /\ b \in Blocks
                 /\ r.ino = OneMore(s.ino) /\ r.dev = Entered(s.dev, s.blk, k, b)
                 /\ r.left + 1 = s.left
<1>0. s.left \in Nat /\ s.ino \in Nodes /\ s.dev \in [Blocks -> Bodies] /\ s.dev[s.blk] \in Bodies
  BY StateIs
<1>. DEFINE q == Take(s)
<1>1. PICK b \in s.free :
        /\ b = Lowest(s.free) /\ b \in Blocks /\ b \in Words
        /\ q \in States /\ q.ino = s.ino /\ q.dev = s.dev /\ q.free = s.free \ {b} /\ q.blk = b
        /\ q.ok = s.ok /\ q.left = s.left
  BY TakeIs
<1>. DEFINE c == [s.dev[s.blk] EXCEPT ![k] = b]
            p == Enter(s, k)
<1>2. p = Writing(q, s.blk, c)
  BY <1>1 DEF Enter
<1>3. c \in Bodies
  BY <1>0, <1>1 DEF Bodies
<1>4. Put(s.dev, s.blk, c) = Entered(s.dev, s.blk, k, b)
  BY DEF Entered
<1>. HIDE DEF q, c, p
<1>5. /\ p \in States /\ p.ino = s.ino /\ p.free = s.free \ {b} /\ p.blk = b
      /\ s.left = 0 => ~p.ok
      /\ s.left # 0 => p.ok /\ p.dev = Put(s.dev, s.blk, c) /\ p.left + 1 = s.left
  <2>1. /\ p \in States /\ p.ino = q.ino /\ p.free = q.free /\ p.blk = q.blk
        /\ q.left = 0 => ~p.ok
        /\ q.left # 0 => p.ok = q.ok /\ p.dev = Put(q.dev, s.blk, c) /\ p.left + 1 = q.left
    <3>1. q \in States /\ s.blk \in Blocks /\ c \in Bodies
      BY <1>1, <1>3
    <3>2. Wrote(q, s.blk, c, p)
      BY <1>2, <3>1, Writes
    <3>. QED  BY <3>2 DEF Wrote
  <2>2. q.ok
    BY <1>1
  <2>. QED  BY <1>1, <2>1, <2>2
<1>6. CASE s.left = 0
  <2>1. r = p
    BY <1>5, <1>6 DEF Counted, p
  <2>. QED  BY <1>1, <1>5, <1>6, <2>1 DEF Breaks
<1>7. CASE s.left # 0
  <2>. DEFINE n == OneMore(s.ino)
  <2>1. r = [p EXCEPT !.ino = n]
    <3>1. n = OneMore(p.ino) /\ p.ok
      BY <1>5, <1>7
    <3>2. r = [p EXCEPT !.ino.blocks = @ + 1]
      BY <3>1 DEF Counted, p
    <3>3. [p EXCEPT !.ino.blocks = @ + 1] = [p EXCEPT !.ino = OneMore(@)]
      BY <1>5 DEF OneMore, States
    <3>. QED  BY <3>1, <3>2, <3>3
  <2>2. n \in Nodes
    BY <1>0, NodeCounted
  <2>. HIDE DEF n
  <2>3. r \in States /\ r.ino = n /\ r.dev = p.dev /\ r.free = p.free /\ r.blk = p.blk /\ r.ok = p.ok /\ r.left = p.left
    BY <1>5, <2>1, <2>2, WithNode
  <2>. QED  BY <1>1, <1>4, <1>5, <1>7, <2>3 DEF n
<1>. QED  BY <1>6, <1>7

\* the entry that a table has
LEMMA DataStep ==
  ASSUME NEW s \in States, s.ok => s.blk \in Blocks, NEW k \in 0 .. Per - 1, NEW r, r = Step(s, "data", k)
  PROVE  /\ r \in States
         /\ \/ Refused(s, r)
            \/ Finds(s, r, s.dev[s.blk][k])
            \/ s.dev[s.blk][k] = 0 /\ \E b \in s.free :
                 Makes(s, r, b, OneMore(s.ino), Entered(s.dev, s.blk, k, b), 2)
            \/ Breaks(s, r, 2)
<1>0. s.left \in Nat /\ s.ok \in BOOLEAN /\ s.ino \in Nodes
  BY StateIs
<1>1. CASE ~s.ok
  BY <1>1, StepFailed DEF Refused, Same
<1>2. CASE s.ok /\ s.left = 0
  <2>1. r = Failed(s)
    BY <1>2 DEF Step
  <2>. QED  BY <2>1, FailedIs DEF Refused
<1>3. CASE s.ok /\ s.left # 0
  <2>. DEFINE q == Reading(s)
  <2>1. q \in States /\ Same(s, q) /\ q.blk = s.blk /\ q.ok /\ q.left + 1 = s.left /\ q.left \in Nat
    BY <1>3, ReadingIs, StateIs
  <2>2. Find(q, "data", k) = s.dev[s.blk][k]
    <3>1. Find(q, "data", k) = Entry(q.dev, q.blk, k)
      BY LookIs DEF Find
    <3>2. s.blk \in Blocks /\ s.blk # 0
      BY <1>3
    <3>. QED  BY <2>1, <3>1, <3>2 DEF Entry, Same
  <2>3. r = IF Find(q, "data", k) # 0 THEN [q EXCEPT !.blk = Find(q, "data", k)]
            ELSE IF q.free = {} THEN Failed(q) ELSE Make(q, "data", k)
    BY <1>3 DEF Step
  <2>. HIDE DEF q
  <2>4. CASE s.dev[s.blk][k] # 0
    <3>1. s.dev[s.blk][k] \in Words
      <4>1. s.dev[s.blk] \in Bodies
        BY <1>3, StateIs
      <4>. QED  BY <4>1 DEF Bodies
    <3>2. r = [q EXCEPT !.blk = s.dev[s.blk][k]]
      BY <2>2, <2>3, <2>4
    <3>. QED  BY <1>0, <1>3, <2>1, <2>4, <3>1, <3>2, FoundIs DEF Finds, Same
  <2>5. CASE s.dev[s.blk][k] = 0 /\ s.free = {}
    <3>1. r = Failed(q)
      BY <2>1, <2>2, <2>3, <2>5 DEF Same
    <3>. QED  BY <2>1, <3>1, FailedIs DEF Refused, Same
  <2>6. CASE s.dev[s.blk][k] = 0 /\ s.free # {}
    <3>1. r = Counted(Enter(q, k))
      <4>1. r = Make(q, "data", k)
        BY <2>1, <2>2, <2>3, <2>6 DEF Same
      <4>. QED  BY <4>1 DEF Make
    <3>2. q.free # {} /\ q.blk \in Blocks
      BY <1>3, <2>1, <2>6 DEF Same
    <3>3. /\ r \in States
          /\ \/ Breaks(q, r, 1) /\ q.left = 0
             \/ \E b \in q.free :
                  /\ r.ok /\ r.free = q.free \ {b} /\ r.blk = b /\ b \in Blocks
                  /\ r.ino = OneMore(q.ino) /\ r.dev = Entered(q.dev, q.blk, k, b)
                  /\ r.left + 1 = q.left
      BY <2>1, <3>1, <3>2, EnterIs
    <3>4. Breaks(q, r, 1) /\ q.left = 0 => Breaks(s, r, 2)
      BY <1>0, <2>1 DEF Breaks, Same
    <3>5. ASSUME NEW b \in q.free, r.ok /\ r.free = q.free \ {b} /\ r.blk = b /\ b \in Blocks
                  /\ r.ino = OneMore(q.ino) /\ r.dev = Entered(q.dev, q.blk, k, b)
                  /\ r.left + 1 = q.left, r \in States
          PROVE  b \in s.free /\ Makes(s, r, b, OneMore(s.ino), Entered(s.dev, s.blk, k, b), 2)
      <4>1. r.left \in Nat
        BY <3>5, StateIs
      <4>. QED  BY <1>0, <1>3, <2>1, <3>5, <4>1 DEF Makes, Same
    <3>. QED  BY <2>6, <3>3, <3>4, <3>5
  <2>. QED  BY <2>4, <2>5, <2>6
<1>. QED  BY <1>0, <1>1, <1>2, <1>3

\* the same, when what is missing is itself a table
LEMMA TableStep ==
  ASSUME NEW s \in States, s.ok => s.blk \in Blocks, NEW k \in 0 .. Per - 1, NEW r, r = Step(s, "table", k)
  PROVE  /\ r \in States
         /\ \/ Refused(s, r)
            \/ Finds(s, r, s.dev[s.blk][k])
            \/ s.dev[s.blk][k] = 0 /\ \E b \in s.free :
                 Makes(s, r, b, OneMore(s.ino), Cleared(Entered(s.dev, s.blk, k, b), b), 3)
            \/ Breaks(s, r, 3)
<1>0. s.left \in Nat /\ s.ok \in BOOLEAN /\ s.ino \in Nodes
  BY StateIs
<1>1. CASE ~s.ok
  BY <1>1, StepFailed DEF Refused, Same
<1>2. CASE s.ok /\ s.left = 0
  <2>1. r = Failed(s)
    BY <1>2 DEF Step
  <2>. QED  BY <2>1, FailedIs DEF Refused
<1>3. CASE s.ok /\ s.left # 0
  <2>. DEFINE q == Reading(s)
  <2>1. q \in States /\ Same(s, q) /\ q.blk = s.blk /\ q.ok /\ q.left + 1 = s.left /\ q.left \in Nat
    BY <1>3, ReadingIs, StateIs
  <2>2. Find(q, "table", k) = s.dev[s.blk][k]
    <3>1. Find(q, "table", k) = Entry(q.dev, q.blk, k)
      BY LookIs DEF Find
    <3>2. s.blk \in Blocks /\ s.blk # 0
      BY <1>3
    <3>. QED  BY <2>1, <3>1, <3>2 DEF Entry, Same
  <2>3. r = IF Find(q, "table", k) # 0 THEN [q EXCEPT !.blk = Find(q, "table", k)]
            ELSE IF q.free = {} THEN Failed(q) ELSE Make(q, "table", k)
    BY <1>3 DEF Step
  <2>. HIDE DEF q
  <2>4. CASE s.dev[s.blk][k] # 0
    <3>1. s.dev[s.blk][k] \in Words
      <4>1. s.dev[s.blk] \in Bodies
        BY <1>3, StateIs
      <4>. QED  BY <4>1 DEF Bodies
    <3>2. r = [q EXCEPT !.blk = s.dev[s.blk][k]]
      BY <2>2, <2>3, <2>4
    <3>. QED  BY <1>0, <1>3, <2>1, <2>4, <3>1, <3>2, FoundIs DEF Finds, Same
  <2>5. CASE s.dev[s.blk][k] = 0 /\ s.free = {}
    <3>1. r = Failed(q)
      BY <2>1, <2>2, <2>3, <2>5 DEF Same
    <3>. QED  BY <2>1, <3>1, FailedIs DEF Refused, Same
  <2>6. CASE s.dev[s.blk][k] = 0 /\ s.free # {}
    <3>. DEFINE p == Counted(Enter(q, k))
    <3>1. r = Zeroed(p)
      <4>1. r = Make(q, "table", k)
        BY <2>1, <2>2, <2>3, <2>6 DEF Same
      <4>. QED  BY <4>1 DEF Make
    <3>2. q.free # {} /\ q.blk \in Blocks
      BY <1>3, <2>1, <2>6 DEF Same
    <3>3. /\ p \in States
          /\ \/ Breaks(q, p, 1) /\ q.left = 0
             \/ \E b \in q.free :
                  /\ p.ok /\ p.free = q.free \ {b} /\ p.blk = b /\ b \in Blocks
                  /\ p.ino = OneMore(q.ino) /\ p.dev = Entered(q.dev, q.blk, k, b)
                  /\ p.left + 1 = q.left
      BY <2>1, <3>2, EnterIs
    <3>. HIDE DEF p
    <3>4. CASE Breaks(q, p, 1) /\ q.left = 0
      <4>1. r = p
        BY <3>1, <3>4 DEF Zeroed, Breaks
      <4>. QED  BY <1>0, <2>1, <3>3, <3>4, <4>1 DEF Breaks, Same
    <3>5. ASSUME NEW b \in q.free, p.ok /\ p.free = q.free \ {b} /\ p.blk = b /\ b \in Blocks
                  /\ p.ino = OneMore(q.ino) /\ p.dev = Entered(q.dev, q.blk, k, b)
                  /\ p.left + 1 = q.left
          PROVE  r \in States /\ (Breaks(s, r, 3)
                   \/ (b \in s.free /\ Makes(s, r, b, OneMore(s.ino),
                                             Cleared(Entered(s.dev, s.blk, k, b), b), 3)))
      <4>1. r = Writing(p, b, Zeroes)
        BY <3>1, <3>5 DEF Zeroed
      <4>2. Zeroes \in Bodies /\ p.left \in Nat
        BY <3>3, StateIs DEF Zeroes, Bodies, Words
      <4>3. /\ r \in States /\ r.ino = p.ino /\ r.free = p.free /\ r.blk = p.blk
            /\ p.left = 0 => ~r.ok
            /\ p.left # 0 => r.ok = p.ok /\ r.dev = Put(p.dev, b, Zeroes) /\ r.left + 1 = p.left
        <5>. HIDE DEF Zeroes
        <5>1. p \in States /\ b \in Blocks /\ Zeroes \in Bodies
          BY <3>3, <3>5, <4>2
        <5>2. Wrote(p, b, Zeroes, r)
          BY <4>1, <5>1, Writes
        <5>. QED  BY <5>2 DEF Wrote
      <4>4. r.left \in Nat
        BY <4>3, StateIs
      <4>5. CASE p.left = 0
        BY <1>0, <2>1, <3>5, <4>2, <4>3, <4>5 DEF Breaks, Same
      <4>6. CASE p.left # 0
        <5>1. r.dev = Cleared(Entered(s.dev, s.blk, k, b), b) /\ r.ok
          BY <2>1, <3>5, <4>3, <4>6 DEF Cleared, Same
        <5>2. r.ino = OneMore(s.ino) /\ r.free = s.free \ {b} /\ r.blk = b /\ b \in s.free
          BY <2>1, <3>5, <4>3 DEF Same
        <5>3. r.left + 3 >= s.left
          <6>1. r.left + 1 = p.left /\ p.left + 1 = q.left /\ q.left + 1 = s.left
            BY <2>1, <3>5, <4>3, <4>6
          <6>. QED  BY <1>0, <2>1, <4>2, <4>4, <6>1
        <5>. QED  BY <1>3, <4>3, <5>1, <5>2, <5>3 DEF Makes
      <4>. QED  BY <4>3, <4>5, <4>6
    <3>. QED  BY <2>6, <3>3, <3>4, <3>5 DEF Same
  <2>. QED  BY <2>4, <2>5, <2>6
<1>. QED  BY <1>0, <1>1, <1>2, <1>3

(***************************************************************************)
(* Slots: each lies in the inode or is an entry of the block that another  *)
(* slot points to.                                                         *)
(***************************************************************************)

InNode(x) == x[1] = "table" \/ (x[1] = "data" /\ x[2] < Direct)
Home(n, x) == IF x[1] = "table" THEN n.table[x[2]] ELSE n.direct[x[2]]
Holder(x) == IF x[1] = "mid" THEN <<"table", "double">>
             ELSE IF x[2] - Direct < Per THEN <<"table", "indirect">> ELSE <<"mid", High(x[2])>>
Key(x)    == IF x[1] = "mid" THEN x[2]
             ELSE IF x[2] - Direct < Per THEN x[2] - Direct ELSE Low(x[2])

\* The three kinds of slots.
LEMMA SlotCases ==
  ASSUME NEW x \in Slots
  PROVE  \/ \E w \in {"indirect", "double"} : x = <<"table", w>>
         \/ \E k \in 0 .. Per - 1 : x = <<"mid", k>>
         \/ \E i \in 0 .. MaxIndex - 1 : x = <<"data", i>>
  BY DEF Slots

\* Each of them is a slot.
LEMMA SlotsAre ==
  /\ \A w \in {"indirect", "double"} : <<"table", w>> \in Slots
  /\ \A k \in 0 .. Per - 1 : <<"mid", k>> \in Slots
  /\ \A i \in 0 .. MaxIndex - 1 : <<"data", i>> \in Slots
  BY DEF Slots

\* An index of a slot is in one of three ranges.
LEMMA IndexCases ==
  ASSUME NEW i \in 0 .. MaxIndex - 1
  PROVE  /\ i \in Nat
         /\ \/ i < Direct
            \/ i >= Direct /\ i - Direct < Per
            \/ i >= Direct /\ ~(i - Direct < Per) /\ InDouble(i)
<1>1. MaxIndex = Direct + Per + Per * Per /\ Per * Per \in Nat
  BY SMT DEF MaxIndex
<1>. QED  BY <1>1 DEF InDouble

\* What holds a slot that the inode does not hold.
LEMMA HolderIs ==
  ASSUME NEW x \in Slots, ~InNode(x)
  PROVE  /\ Holder(x) \in Slots /\ Key(x) \in 0 .. Per - 1 /\ Holder(x) # x
         /\ \/ x[1] = "mid" /\ Holder(x) = <<"table", "double">>
            \/ x[1] = "data" /\ Holder(x) = <<"table", "indirect">>
            \/ x[1] = "data" /\ \E k \in 0 .. Per - 1 : Holder(x) = <<"mid", k>>
<1>1. CASE \E w \in {"indirect", "double"} : x = <<"table", w>>
  BY <1>1 DEF InNode
<1>2. CASE \E k \in 0 .. Per - 1 : x = <<"mid", k>>
  <2>1. PICK k \in 0 .. Per - 1 : x = <<"mid", k>>
    BY <1>2
  <2>2. Holder(x) = <<"table", "double">> /\ Key(x) = k /\ x[1] = "mid"
    BY <2>1 DEF Holder, Key
  <2>3. <<"table", "double">> \in Slots
    BY SlotsAre
  <2>. QED  BY <2>1, <2>2, <2>3
<1>3. CASE \E i \in 0 .. MaxIndex - 1 : x = <<"data", i>>
  <2>1. PICK i \in 0 .. MaxIndex - 1 : x = <<"data", i>>
    BY <1>3
  <2>2. x[1] = "data" /\ x[2] = i /\ i >= Direct
    BY <2>1 DEF InNode
  <2>3. CASE i - Direct < Per
    <3>1. Holder(x) = <<"table", "indirect">> /\ Key(x) = i - Direct
      BY <2>2, <2>3 DEF Holder, Key
    <3>2. <<"table", "indirect">> \in Slots
      BY SlotsAre
    <3>. QED  BY <2>1, <2>2, <2>3, <3>1, <3>2, KeysAre
  <2>4. CASE ~(i - Direct < Per) /\ InDouble(i)
    <3>1. Holder(x) = <<"mid", High(i)>> /\ Key(x) = Low(i)
      BY <2>2, <2>4 DEF Holder, Key
    <3>2. High(i) \in 0 .. Per - 1 /\ Low(i) \in 0 .. Per - 1
      BY <2>2, <2>4, KeysAre, IndexCases
    <3>3. <<"mid", High(i)>> \in Slots
      BY <3>2, SlotsAre
    <3>. QED  BY <2>1, <2>2, <3>1, <3>2, <3>3
  <2>. QED  BY <2>2, <2>3, <2>4, IndexCases
<1>. QED  BY <1>1, <1>2, <1>3, SlotCases

\* No two slots are the same entry of the same block.
LEMMA HolderApart ==
  ASSUME NEW x \in Slots, NEW y \in Slots, ~InNode(x), ~InNode(y), Holder(x) = Holder(y), Key(x) = Key(y)
  PROVE  x = y
<1>1. CASE x[1] = "mid" \/ y[1] = "mid"
  <2>1. x[1] = "mid" /\ y[1] = "mid"
    BY <1>1, HolderIs
  <2>2. x[2] = y[2]
    BY <2>1 DEF Key
  <2>. QED  BY <2>1, <2>2, SlotCases
<1>2. CASE x[1] # "mid" /\ y[1] # "mid"
  <2>1. PICK i \in 0 .. MaxIndex - 1 : x = <<"data", i>>
    BY <1>2, SlotCases DEF InNode
  <2>2. PICK j \in 0 .. MaxIndex - 1 : y = <<"data", j>>
    BY <1>2, SlotCases DEF InNode
  <2>3. i \in Nat /\ j \in Nat /\ i >= Direct /\ j >= Direct /\ x[2] = i /\ y[2] = j /\ x[1] = "data" /\ y[1] = "data"
    BY <2>1, <2>2 DEF InNode
  <2>4. CASE i - Direct < Per
    <3>1. Holder(x) = <<"table", "indirect">> /\ Key(x) = i - Direct
      BY <2>3, <2>4 DEF Holder, Key
    <3>2. j - Direct < Per
      BY <2>3, <3>1 DEF Holder
    <3>3. Key(y) = j - Direct
      BY <2>3, <3>2 DEF Key
    <3>4. i - Direct = j - Direct
      BY <3>1, <3>3
    <3>5. i = j
      BY <2>3, <3>4
    <3>. QED  BY <2>1, <2>2, <3>5
  <2>5. CASE ~(i - Direct < Per)
    <3>1. Holder(x) = <<"mid", High(i)>> /\ Key(x) = Low(i)
      BY <2>3, <2>5 DEF Holder, Key
    <3>2. ~(j - Direct < Per)
      BY <2>3, <3>1 DEF Holder
    <3>3. Holder(y) = <<"mid", High(j)>> /\ Key(y) = Low(j)
      BY <2>3, <3>2 DEF Holder, Key
    <3>4. High(i) = High(j) /\ Low(i) = Low(j)
      <4>. DEFINE hi == High(i)
                  hj == High(j)
      <4>1. <<"mid", hi>> = <<"mid", hj>>
        BY <3>1, <3>3
      <4>. HIDE DEF hi, hj
      <4>2. hi = hj
        BY <4>1
      <4>3. Low(i) = Low(j)
        BY <3>1, <3>3
      <4>. QED  BY <4>2, <4>3 DEF hi, hj
    <3>5. /\ i - Direct - Per = High(i) * Per + Low(i)
          /\ j - Direct - Per = High(j) * Per + Low(j)
      BY <2>3, <2>5, <3>2, DivMod DEF High, Low
    <3>6. i - Direct - Per = j - Direct - Per
      BY <3>4, <3>5
    <3>. QED  BY <2>1, <2>2, <2>3, <3>6
  <2>. QED  BY <2>4, <2>5
<1>. QED  BY <1>1, <1>2

\* Where a pointer is found.
LEMMA PtrIs ==
  ASSUME NEW d, NEW n, NEW x \in Slots
  PROVE  Ptr(d, n, x) = IF InNode(x) THEN Home(n, x) ELSE Entry(d, Ptr(d, n, Holder(x)), Key(x))
<1>1. CASE \E w \in {"indirect", "double"} : x = <<"table", w>>
  BY <1>1 DEF InNode, Ptr, Home
<1>2. CASE \E k \in 0 .. Per - 1 : x = <<"mid", k>>
  <2>1. PICK k \in 0 .. Per - 1 : x = <<"mid", k>>
    BY <1>2
  <2>2. Holder(x) = <<"table", "double">> /\ Key(x) = k /\ x[1] = "mid" /\ x[2] = k /\ ~InNode(x)
    BY <2>1 DEF Holder, Key, InNode
  <2>3. Ptr(d, n, <<"table", "double">>) = n.table["double"]
    BY DEF Ptr
  <2>4. Ptr(d, n, x) = Entry(d, n.table["double"], k)
    BY <2>2 DEF Ptr
  <2>. QED  BY <2>2, <2>3, <2>4
<1>3. CASE \E i \in 0 .. MaxIndex - 1 : x = <<"data", i>>
  <2>1. PICK i \in 0 .. MaxIndex - 1 : x = <<"data", i>>
    BY <1>3
  <2>2. x[1] = "data" /\ x[2] = i /\ i \in Nat
    BY <2>1
  <2>3. Ptr(d, n, x) = Mapped(d, n, i)
    BY <2>2 DEF Ptr
  <2>4. CASE i < Direct
    <3>1. Mapped(d, n, i) = n.direct[i]
      BY <2>2, <2>4, MappedIs
    <3>. QED  BY <2>2, <2>3, <2>4, <3>1 DEF InNode, Home
  <2>5. CASE i >= Direct /\ i - Direct < Per
    <3>1. Mapped(d, n, i) = Entry(d, n.table["indirect"], i - Direct)
      BY <2>2, <2>5, MappedIs
    <3>2. Holder(x) = <<"table", "indirect">> /\ Key(x) = i - Direct /\ ~InNode(x)
      BY <2>2, <2>5 DEF Holder, Key, InNode
    <3>3. Ptr(d, n, <<"table", "indirect">>) = n.table["indirect"]
      BY DEF Ptr
    <3>. QED  BY <2>3, <3>1, <3>2, <3>3
  <2>6. CASE i >= Direct /\ ~(i - Direct < Per) /\ InDouble(i)
    <3>1. Mapped(d, n, i) = Entry(d, Entry(d, n.table["double"], High(i)), Low(i))
      BY <2>2, <2>6, MappedIs
    <3>2. Holder(x) = <<"mid", High(i)>> /\ Key(x) = Low(i) /\ ~InNode(x)
      BY <2>2, <2>6 DEF Holder, Key, InNode
    <3>3. Ptr(d, n, <<"mid", High(i)>>) = Entry(d, n.table["double"], High(i))
      BY DEF Ptr
    <3>. QED  BY <2>3, <3>1, <3>2, <3>3
  <2>. QED  BY <2>4, <2>5, <2>6, IndexCases
<1>. QED  BY <1>1, <1>2, <1>3, SlotCases

\* It is a block number or 0.
LEMMA PtrType ==
  ASSUME NEW d \in [Blocks -> Bodies], NEW n \in Nodes, NEW x \in Slots
  PROVE  Ptr(d, n, x) \in Words
<1>1. \A b \in Words, k \in 0 .. Per - 1 : Entry(d, b, k) \in Words
  BY DEF Entry, Words, Bodies
<1>2. \A w \in {"indirect", "double"} : n.table[w] \in Words
  BY DEF Nodes
<1>3. CASE \E i \in 0 .. MaxIndex - 1 : x = <<"data", i>>
  <2>1. PICK i \in 0 .. MaxIndex - 1 : x = <<"data", i>>
    BY <1>3
  <2>2. i \in Nat /\ Ptr(d, n, x) = Mapped(d, n, i)
    BY <2>1 DEF Ptr
  <2>. QED  BY <2>2, MappedType
<1>4. CASE \E w \in {"indirect", "double"} : x = <<"table", w>>
  BY <1>2, <1>4 DEF Ptr
<1>5. CASE \E k \in 0 .. Per - 1 : x = <<"mid", k>>
  BY <1>1, <1>2, <1>5 DEF Ptr
<1>. QED  BY <1>3, <1>4, <1>5, SlotCases

(***************************************************************************)
(* A slot x of the inode n that held nothing comes to point to the block b *)
(* (d and n before, d2 and n2 after): the entry is written where the slot  *)
(* lies, and a block that becomes a table is zeroed.                       *)
(***************************************************************************)

IsTable(x) == x[1] # "data"

Grows(d, n, d2, n2, x, b) ==
  /\ Ptr(d, n, x) = 0
  /\ \A y \in Slots : InNode(y) => Home(n2, y) = IF y = x THEN b ELSE Home(n, y)
  /\ ~InNode(x) =>
       /\ Ptr(d, n, Holder(x)) # 0
       /\ d2[Ptr(d, n, Holder(x))][Key(x)] = b
       /\ \A k \in 0 .. Per - 1 : k # Key(x) => d2[Ptr(d, n, Holder(x))][k] = d[Ptr(d, n, Holder(x))][k]
  /\ \A e \in Blocks : e # b /\ (InNode(x) \/ e # Ptr(d, n, Holder(x))) => d2[e] = d[e]
  /\ IsTable(x) => \A k \in 0 .. Per - 1 : d2[b][k] = 0

\* No two tables of the inode are one block, and none is b.
TablesApart(d, n, b) ==
  \A y, z \in Slots : IsTable(y) /\ IsTable(z) /\ Ptr(d, n, y) # 0 =>
    Ptr(d, n, y) # b /\ (Ptr(d, n, y) = Ptr(d, n, z) => y = z)

\* Then that slot points to b and every other one to what it did.
LEMMA GrowsPtr ==
  ASSUME NEW d \in [Blocks -> Bodies], NEW n \in Nodes, NEW d2 \in [Blocks -> Bodies], NEW n2 \in Nodes,
         NEW x \in Slots, NEW b \in Blocks, Grows(d, n, d2, n2, x, b), TablesApart(d, n, b), NEW y \in Slots
  PROVE  Ptr(d2, n2, y) = IF y = x THEN b ELSE Ptr(d, n, y)
<1>. DEFINE Right(z) == Ptr(d2, n2, z) = IF z = x THEN b ELSE Ptr(d, n, z)
<1>1. ASSUME NEW z \in Slots, InNode(z) PROVE Right(z)
  <2>1. Ptr(d2, n2, z) = Home(n2, z) /\ Ptr(d, n, z) = Home(n, z)
    BY <1>1, PtrIs
  <2>2. Home(n2, z) = IF z = x THEN b ELSE Home(n, z)
    BY <1>1 DEF Grows
  <2>. QED  BY <2>1, <2>2
<1>2. ASSUME NEW z \in Slots, ~InNode(z), Right(Holder(z)) PROVE Right(z)
  <2>. DEFINE h == Holder(z)
              k == Key(z)
              e == Ptr(d, n, h)
              c == Ptr(d, n, Holder(x))
  <2>1. h \in Slots /\ k \in 0 .. Per - 1 /\ h # z /\ IsTable(h)
    BY <1>2, HolderIs DEF IsTable
  <2>2. Ptr(d2, n2, z) = Entry(d2, Ptr(d2, n2, h), k) /\ Ptr(d, n, z) = Entry(d, e, k)
    BY <1>2, PtrIs
  <2>3. e \in Words /\ b # 0
    BY <2>1, PtrType
  <2>. HIDE DEF h, k, e
  <2>4. CASE h = x
    <3>1. Ptr(d2, n2, h) = b /\ e = 0 /\ z # x
      BY <1>2, <2>1, <2>4 DEF Grows, h, e
    <3>2. d2[b][k] = 0
      BY <2>1, <2>4 DEF Grows
    <3>. QED  BY <2>2, <2>3, <3>1, <3>2 DEF Entry
  <2>5. CASE h # x
    <3>1. Ptr(d2, n2, h) = e
      BY <1>2, <2>5 DEF h, e
    <3>2. CASE e = 0
      <4>1. z # x
        BY <1>2, <3>2 DEF Grows, e, h
      <4>. QED  BY <2>2, <3>1, <3>2, <4>1 DEF Entry
    <3>3. CASE e # 0 /\ ~InNode(x) /\ e = c
      <4>1. Holder(x) \in Slots /\ IsTable(Holder(x))
        BY <3>3, HolderIs DEF IsTable
      <4>2. h = Holder(x)
        BY <2>1, <3>3, <4>1 DEF TablesApart, e
      <4>3. Entry(d2, e, k) = d2[c][k] /\ Entry(d, e, k) = d[c][k]
        BY <3>3 DEF Entry
      <4>4. CASE k = Key(x)
        <5>1. z = x
          BY <1>2, <3>3, <4>2, <4>4, HolderApart DEF h, k
        <5>2. d2[c][k] = b
          BY <3>3, <4>4 DEF Grows
        <5>. QED  BY <2>2, <3>1, <4>3, <5>1, <5>2
      <4>5. CASE k # Key(x)
        <5>1. z # x
          BY <4>5 DEF k
        <5>2. d2[c][k] = d[c][k]
          BY <2>1, <3>3, <4>5 DEF Grows
        <5>. QED  BY <2>2, <3>1, <4>3, <5>1, <5>2
      <4>. QED  BY <4>4, <4>5
    <3>4. CASE e # 0 /\ (InNode(x) \/ e # c)
      <4>1. e \in Blocks /\ e # b
        BY <2>1, <2>3, <3>4 DEF TablesApart, e, Words
      <4>2. d2[e] = d[e]
        BY <3>4, <4>1 DEF Grows
      <4>3. z # x
        BY <1>2, <3>4 DEF h, e
      <4>. QED  BY <2>2, <3>1, <4>2, <4>3 DEF Entry
    <3>. QED  BY <3>2, <3>3, <3>4
  <2>. QED  BY <2>4, <2>5
<1>. HIDE DEF Right
<1>3. ASSUME NEW z \in Slots, IsTable(z) PROVE Right(z)
  <2>1. CASE InNode(z)
    BY <1>1, <2>1
  <2>2. CASE ~InNode(z)
    <3>1. Holder(z) \in Slots /\ InNode(Holder(z))
      BY <1>3, <2>2, HolderIs DEF IsTable, InNode
    <3>. QED  BY <1>1, <1>2, <2>2, <3>1
  <2>. QED  BY <2>1, <2>2
<1>4. Right(y)
  <2>1. CASE InNode(y)
    BY <1>1, <2>1
  <2>2. CASE ~InNode(y)
    <3>1. Holder(y) \in Slots /\ IsTable(Holder(y))
      BY <2>2, HolderIs DEF IsTable
    <3>. QED  BY <1>2, <1>3, <2>2, <3>1
  <2>. QED  BY <2>1, <2>2
<1>. QED  BY <1>4 DEF Right

\* What an inode points to depends on its entries and on its tables only.
LEMMA SamePtr ==
  ASSUME NEW d \in [Blocks -> Bodies], NEW n \in Nodes, NEW d2 \in [Blocks -> Bodies], NEW n2,
         \A t \in Slots : InNode(t) => Home(n2, t) = Home(n, t),
         \A t \in Slots : IsTable(t) /\ Ptr(d, n, t) # 0 => d2[Ptr(d, n, t)] = d[Ptr(d, n, t)],
         NEW y \in Slots
  PROVE  Ptr(d2, n2, y) = Ptr(d, n, y)
<1>. DEFINE Right(z) == Ptr(d2, n2, z) = Ptr(d, n, z)
<1>1. ASSUME NEW z \in Slots, InNode(z) PROVE Right(z)
  BY <1>1, PtrIs
<1>2. ASSUME NEW z \in Slots, ~InNode(z), Right(Holder(z)) PROVE Right(z)
  <2>. DEFINE e == Ptr(d, n, Holder(z))
  <2>1. Holder(z) \in Slots /\ IsTable(Holder(z))
    BY <1>2, HolderIs DEF IsTable
  <2>2. Ptr(d2, n2, z) = Entry(d2, e, Key(z)) /\ Ptr(d, n, z) = Entry(d, e, Key(z))
    BY <1>2, PtrIs
  <2>3. e # 0 => d2[e] = d[e]
    BY <2>1
  <2>. HIDE DEF e
  <2>. QED  BY <2>2, <2>3 DEF Entry
<1>. HIDE DEF Right
<1>3. ASSUME NEW z \in Slots, IsTable(z) PROVE Right(z)
  <2>1. CASE InNode(z)
    BY <1>1, <2>1
  <2>2. CASE ~InNode(z)
    <3>1. Holder(z) \in Slots /\ InNode(Holder(z))
      BY <1>3, <2>2, HolderIs DEF IsTable, InNode
    <3>. QED  BY <1>1, <1>2, <2>2, <3>1
  <2>. QED  BY <2>1, <2>2
<1>4. Right(y)
  <2>1. CASE InNode(y)
    BY <1>1, <2>1
  <2>2. CASE ~InNode(y)
    <3>1. Holder(y) \in Slots /\ IsTable(Holder(y))
      BY <2>2, HolderIs DEF IsTable
    <3>. QED  BY <1>2, <1>3, <2>2, <3>1
  <2>. QED  BY <2>1, <2>2
<1>. QED  BY <1>4 DEF Right

(***************************************************************************)
(* What a step of inode_bmap makes is such a growth.                       *)
(***************************************************************************)

\* A new direct block is one pointer more.
LEMMA DirectGrows ==
  ASSUME NEW d \in [Blocks -> Bodies], NEW n \in Nodes, NEW i \in 0 .. Direct - 1, NEW b \in Blocks, n.direct[i] = 0
  PROVE  <<"data", i>> \in Slots /\ Grows(d, n, d, WithDirect(n, i, b), <<"data", i>>, b)
<1>. DEFINE x == <<"data", i>>
            n2 == WithDirect(n, i, b)
<1>1. x \in Slots /\ InNode(x) /\ ~IsTable(x) /\ i \in Nat
  <2>1. i \in Nat /\ i \in 0 .. MaxIndex - 1
    BY SMT DEF MaxIndex
  <2>. QED  BY <2>1, SlotsAre DEF InNode, IsTable
<1>2. b \in Words
  BY DEF Words
<1>3. n2.table = n.table /\ n2.direct = [n.direct EXCEPT ![i] = b]
  <2>1. n2 = WithDirect(n, i, b)
    OBVIOUS
  <2>. HIDE DEF n2
  <2>. QED  BY <1>2, <2>1, NodeDirect
<1>4. n.direct \in [0 .. Direct - 1 -> Words]
  BY DEF Nodes
<1>5. ASSUME NEW y \in Slots, InNode(y) PROVE Home(n2, y) = IF y = x THEN b ELSE Home(n, y)
  <2>1. CASE \E w \in {"indirect", "double"} : y = <<"table", w>>
    BY <1>3, <2>1 DEF Home
  <2>2. CASE \E j \in 0 .. MaxIndex - 1 : y = <<"data", j>>
    <3>1. PICK j \in 0 .. MaxIndex - 1 : y = <<"data", j>>
      BY <2>2
    <3>2. j \in 0 .. Direct - 1 /\ y[1] = "data" /\ y[2] = j
      BY <1>5, <3>1 DEF InNode
    <3>3. Home(n2, y) = n2.direct[j] /\ Home(n, y) = n.direct[j]
      BY <3>2 DEF Home
    <3>4. n2.direct[j] = IF j = i THEN b ELSE n.direct[j]
      BY <1>3, <1>4, <3>2
    <3>5. y = x <=> j = i
      BY <3>1
    <3>. QED  BY <3>3, <3>4, <3>5
  <2>3. CASE \E k \in 0 .. Per - 1 : y = <<"mid", k>>
    BY <1>5, <2>3 DEF InNode
  <2>. QED  BY <2>1, <2>2, <2>3, SlotCases
<1>6. Ptr(d, n, x) = 0
  <2>1. Ptr(d, n, x) = Home(n, x)
    BY <1>1, PtrIs
  <2>. QED  BY <2>1 DEF Home
<1>. HIDE DEF x, n2
<1>7. Grows(d, n, d, n2, x, b)
  BY <1>1, <1>5, <1>6 DEF Grows
<1>. QED  BY <1>1, <1>7 DEF x, n2

\* A new indirect block, zeroed, is one pointer more.
LEMMA RootGrows ==
  ASSUME NEW d \in [Blocks -> Bodies], NEW n \in Nodes, NEW w \in {"indirect", "double"}, NEW b \in Blocks, n.table[w] = 0
  PROVE  <<"table", w>> \in Slots /\ Grows(d, n, Cleared(d, b), WithTable(n, w, b), <<"table", w>>, b)
<1>. DEFINE x == <<"table", w>>
            n2 == WithTable(n, w, b)
            d2 == Cleared(d, b)
<1>1. x \in Slots /\ InNode(x)
  BY SlotsAre DEF InNode
<1>2. b \in Words
  BY DEF Words
<1>3. n2.direct = n.direct /\ n2.table = [n.table EXCEPT ![w] = b]
  BY <1>2, NodeTable
<1>4. n.table \in [{"indirect", "double"} -> Words]
  BY DEF Nodes
<1>5. ASSUME NEW y \in Slots, InNode(y) PROVE Home(n2, y) = IF y = x THEN b ELSE Home(n, y)
  <2>1. CASE \E v \in {"indirect", "double"} : y = <<"table", v>>
    <3>1. PICK v \in {"indirect", "double"} : y = <<"table", v>>
      BY <2>1
    <3>2. Home(n2, y) = n2.table[v] /\ Home(n, y) = n.table[v]
      BY <3>1 DEF Home
    <3>3. n2.table[v] = IF v = w THEN b ELSE n.table[v]
      BY <1>3, <1>4
    <3>4. y = x <=> v = w
      BY <3>1
    <3>. QED  BY <3>2, <3>3, <3>4
  <2>2. CASE \E j \in 0 .. MaxIndex - 1 : y = <<"data", j>>
    BY <1>3, <2>2 DEF Home
  <2>3. CASE \E k \in 0 .. Per - 1 : y = <<"mid", k>>
    BY <1>5, <2>3 DEF InNode
  <2>. QED  BY <2>1, <2>2, <2>3, SlotCases
<1>6. Ptr(d, n, x) = 0
  BY DEF Ptr
<1>7. (\A k \in 0 .. Per - 1 : d2[b][k] = 0) /\ \A e \in Blocks : e # b => d2[e] = d[e]
  BY ClearedIs
<1>. HIDE DEF x, n2, d2
<1>8. Grows(d, n, d2, n2, x, b)
  BY <1>1, <1>5, <1>6, <1>7 DEF Grows
<1>. QED  BY <1>1, <1>8 DEF x, n2, d2

\* a block entered into a table
LEMMA EntryGrows ==
  ASSUME NEW d \in [Blocks -> Bodies], NEW n \in Nodes, NEW x \in Slots, ~InNode(x), NEW b \in Blocks,
         NEW c \in Blocks, c = Ptr(d, n, Holder(x)), d[c][Key(x)] = 0, b # c
  PROVE  /\ ~IsTable(x) => Grows(d, n, Entered(d, c, Key(x), b), OneMore(n), x, b)
         /\ Grows(d, n, Cleared(Entered(d, c, Key(x), b), b), OneMore(n), x, b)
<1>. DEFINE k == Key(x)
            n2 == OneMore(n)
            d1 == Entered(d, c, k, b)
            d2 == Cleared(d1, b)
<1>1. k \in 0 .. Per - 1 /\ b \in Words /\ c # 0
  BY HolderIs DEF Words
<1>2. n2.direct = n.direct /\ n2.table = n.table
  BY NodeCounted
<1>3. \A y \in Slots : Home(n2, y) = Home(n, y)
  BY <1>2 DEF Home
<1>4. \A y \in Slots : InNode(y) => Home(n2, y) = IF y = x THEN b ELSE Home(n, y)
  BY <1>3
<1>. HIDE DEF k
<1>5. /\ d1 \in [Blocks -> Bodies] /\ d1[c][k] = b
      /\ \A e \in Blocks : e # c => d1[e] = d[e]
      /\ \A j \in 0 .. Per - 1 : j # k => d1[c][j] = d[c][j]
  BY <1>1, EnteredIs
<1>. HIDE DEF d1
<1>6. (\A j \in 0 .. Per - 1 : d2[b][j] = 0) /\ \A e \in Blocks : e # b => d2[e] = d1[e]
  BY <1>5, ClearedIs
<1>7. Ptr(d, n, x) = 0
  <2>1. Ptr(d, n, x) = Entry(d, c, k)
    BY PtrIs DEF k
  <2>2. Entry(d, c, k) = d[c][k]
    BY <1>1 DEF Entry
  <2>. QED  BY <2>1, <2>2 DEF k
<1>. HIDE DEF n2, d2
<1>8. ~IsTable(x) => Grows(d, n, d1, n2, x, b)
  BY <1>1, <1>4, <1>5, <1>7 DEF Grows, k
<1>9. d2[c] = d1[c]
  BY <1>6
<1>10. Grows(d, n, d2, n2, x, b)
  BY <1>1, <1>4, <1>5, <1>6, <1>7, <1>9 DEF Grows, k
<1>. QED  BY <1>8, <1>10 DEF n2, d1, d2, k

(***************************************************************************)
(* Who owns what, as sets.                                                 *)
(***************************************************************************)

\* pointers of all inodes
Pointers == [Inodes -> [Slots -> Words]]

\* What an inode owns is a finite set of blocks.
LEMMA OwnIs ==
  ASSUME NEW p \in [Slots -> Words], NEW top
  PROVE  /\ Own(p, top) \in SUBSET Blocks /\ IsFiniteSet(Own(p, top)) /\ Cardinality(Own(p, top)) \in Nat
         /\ \A b \in Blocks : b \in Own(p, top) <=> \E x \in Slots : Live(x, top) /\ p[x] = b
<1>1. Own(p, top) \in SUBSET Blocks
  BY DEF Own, Words
<1>2. IsFiniteSet(Own(p, top)) /\ Cardinality(Own(p, top)) \in Nat
  BY <1>1, FS_Subset, FS_CardinalityType
<1>3. ASSUME NEW b \in Blocks PROVE b \in Own(p, top) <=> \E x \in Slots : Live(x, top) /\ p[x] = b
  <2>1. b # 0
    OBVIOUS
  <2>. QED  BY <2>1 DEF Own
<1>. QED  BY <1>1, <1>2, <1>3

\* One pointer more.
OnePointer(P, P2, f, x, b) ==
  \A g \in Inodes, y \in Slots : P2[g][y] = IF g = f /\ y = x THEN b ELSE P[g][y]

\* One pointer more to a block that was free: still every block is free or
\* pointed to once.
LEMMA PartedGrows ==
  ASSUME NEW P \in Pointers, NEW P2 \in Pointers, NEW fr \in SUBSET Blocks, NEW tops, NEW f \in Inodes, NEW x \in Slots,
         NEW b \in fr, Live(x, tops[f]), P[f][x] = 0, OnePointer(P, P2, f, x, b), Parted(P, fr, tops)
  PROVE  Parted(P2, fr \ {b}, tops)
<1>0. b \in Blocks /\ b # 0
  OBVIOUS
<1>1. Apart(P2, tops)
  <2>. SUFFICES ASSUME NEW g \in Inodes, NEW h \in Inodes, NEW y \in Slots, NEW z \in Slots,
                       Live(y, tops[g]), Live(z, tops[h]), P2[g][y] # 0, P2[g][y] = P2[h][z]
                PROVE  g = h /\ y = z
    BY DEF Apart
  <2>1. \A e \in Inodes, v \in Slots : Live(v, tops[e]) => P[e][v] # b
    BY <1>0 DEF Parted, NoneFree
  <2>2. P2[g][y] = (IF g = f /\ y = x THEN b ELSE P[g][y]) /\ P2[h][z] = (IF h = f /\ z = x THEN b ELSE P[h][z])
    BY DEF OnePointer
  <2>3. P[g][y] # 0 /\ P[g][y] = P[h][z] => g = h /\ y = z
    BY DEF Parted, Apart
  <2>. QED  BY <2>1, <2>2, <2>3
<1>2. NoneFree(P2, fr \ {b}, tops)
  BY DEF NoneFree, Parted, OnePointer
<1>3. AllReached(P2, fr \ {b}, tops)
  <2>. SUFFICES ASSUME NEW e \in Blocks \ (fr \ {b}) PROVE \E g \in Inodes, y \in Slots : Live(y, tops[g]) /\ P2[g][y] = e
    BY DEF AllReached
  <2>1. CASE e = b
    <3>1. P2[f][x] = b
      BY DEF OnePointer
    <3>. QED  BY <2>1, <3>1
  <2>2. CASE e # b
    <3>1. PICK g \in Inodes, y \in Slots : Live(y, tops[g]) /\ P[g][y] = e
      BY <2>2 DEF Parted, AllReached
    <3>2. e # 0
      OBVIOUS
    <3>3. P2[g][y] = P[g][y]
      BY <3>1, <3>2 DEF OnePointer
    <3>. QED  BY <3>1, <3>3
  <2>. QED  BY <2>1, <2>2
<1>. QED  BY <1>1, <1>2, <1>3 DEF Parted

\* What one pointer more adds to what its inode owns, and to no other.
OwnsMore(P, P2, tops, f) ==
  /\ Cardinality(Own(P2[f], tops[f])) = Cardinality(Own(P[f], tops[f])) + 1
  /\ \A g \in Inodes : g # f => Own(P2[g], tops[g]) = Own(P[g], tops[g])

\* It adds its block.
LEMMA OwnGrows ==
  ASSUME NEW P \in Pointers, NEW P2 \in Pointers, NEW fr \in SUBSET Blocks, NEW tops, NEW f \in Inodes, NEW x \in Slots,
         NEW b \in fr, Live(x, tops[f]), P[f][x] = 0, OnePointer(P, P2, f, x, b), Parted(P, fr, tops)
  PROVE  OwnsMore(P, P2, tops, f)
<1>0. b \in Blocks /\ b # 0
  OBVIOUS
<1>1. ASSUME NEW g \in Inodes
      PROVE  /\ IsFiniteSet(Own(P[g], tops[g])) /\ Own(P[g], tops[g]) \in SUBSET Blocks /\ Own(P2[g], tops[g]) \in SUBSET Blocks
             /\ \A e \in Blocks : e \in Own(P[g], tops[g]) <=> \E y \in Slots : Live(y, tops[g]) /\ P[g][y] = e
             /\ \A e \in Blocks : e \in Own(P2[g], tops[g]) <=> \E y \in Slots : Live(y, tops[g]) /\ P2[g][y] = e
  <2>1. P[g] \in [Slots -> Words] /\ P2[g] \in [Slots -> Words]
    BY DEF Pointers
  <2>. QED  BY <2>1, OwnIs
<1>2. ASSUME NEW g \in Inodes, g # f PROVE Own(P2[g], tops[g]) = Own(P[g], tops[g])
  <2>1. \A y \in Slots : P2[g][y] = P[g][y]
    BY <1>2 DEF OnePointer
  <2>2. \A e \in Blocks : e \in Own(P2[g], tops[g]) <=> e \in Own(P[g], tops[g])
    BY <1>1, <2>1
  <2>3. Own(P[g], tops[g]) \in SUBSET Blocks /\ Own(P2[g], tops[g]) \in SUBSET Blocks
    BY <1>1
  <2>. QED  BY <2>2, <2>3
<1>3. Cardinality(Own(P2[f], tops[f])) = Cardinality(Own(P[f], tops[f])) + 1
  <2>. DEFINE A == Own(P[f], tops[f])
              B == Own(P2[f], tops[f])
  <2>1. /\ A \in SUBSET Blocks /\ IsFiniteSet(A) /\ B \in SUBSET Blocks
        /\ \A e \in Blocks : e \in A <=> \E y \in Slots : Live(y, tops[f]) /\ P[f][y] = e
        /\ \A e \in Blocks : e \in B <=> \E y \in Slots : Live(y, tops[f]) /\ P2[f][y] = e
    BY <1>1
  <2>. HIDE DEF A, B
  <2>2. b \notin A
    BY <1>0, <2>1 DEF Parted, NoneFree
  <2>3. \A y \in Slots : P2[f][y] = IF y = x THEN b ELSE P[f][y]
    BY DEF OnePointer
  <2>4. \A e \in Blocks : e \in B <=> e \in A \cup {b}
    <3>1. \A e \in Blocks : e # 0
      OBVIOUS
    <3>2. \A e \in Blocks, y \in Slots : P[f][y] = e => y # x
      BY <3>1
    <3>. QED  BY <1>0, <2>1, <2>3, <3>2
  <2>5. B = A \cup {b}
    BY <1>0, <2>1, <2>4
  <2>6. Cardinality(B) = Cardinality(A) + 1
    BY <2>1, <2>2, <2>5, FS_AddElement
  <2>. QED  BY <2>6 DEF A, B
<1>. QED  BY <1>2, <1>3 DEF OwnsMore

(***************************************************************************)
(* A state s of inode_bmap for index i of the inode f, when no device call *)
(* fails: the blocks are parted and counted as before, what was pointed to *)
(* still is, and the data of all files is as it was.                       *)
(***************************************************************************)

Typed == dev \in [Blocks -> Bodies] /\ free \in SUBSET Blocks /\ ino \in [Inodes -> Nodes]

Before     == Ptrs(dev, ino)
With(s, f) == [ino EXCEPT ![f] = s.ino]
Now(s, f)  == Ptrs(s.dev, With(s, f))

Good(s, f, i) ==
  /\ Parted(Now(s, f), s.free, Ends)
  /\ Counts(Now(s, f), With(s, f), Ends)
  /\ s.ino.size = ino[f].size
  /\ \A g \in Inodes, y \in Slots : g # f => Now(s, f)[g][y] = Before[g][y]
  /\ \A y \in Slots : ~IsTable(y) /\ y # <<"data", i>> => Now(s, f)[f][y] = Before[f][y]
  /\ \A y \in Slots : Before[f][y] # 0 => Now(s, f)[f][y] = Before[f][y]
  /\ \A g \in Inodes, y \in Slots :
       ~IsTable(y) /\ Live(y, Ends[g]) /\ Before[g][y] # 0 => s.dev[Before[g][y]] = dev[Before[g][y]]

\* The pointers before and in s.
LEMMA BeforeIs ==
  ASSUME Typed
  PROVE  Before \in Pointers /\ \A g \in Inodes, y \in Slots : Before[g][y] = Ptr(dev, ino[g], y)
<1>1. \A g \in Inodes, y \in Slots : Before[g][y] = Ptr(dev, ino[g], y)
  BY DEF Before, Ptrs
<1>2. \A g \in Inodes, y \in Slots : Ptr(dev, ino[g], y) \in Words
  BY PtrType DEF Typed
<1>3. Before \in Pointers
  BY <1>2 DEF Before, Ptrs, Pointers
<1>. QED  BY <1>1, <1>3

\* The pointers in the middle of inode_bmap, of its own inode and of the
\* others.
LEMMA NowIs ==
  ASSUME Typed, NEW f \in Inodes, NEW s \in States
  PROVE  /\ Now(s, f) \in Pointers
         /\ With(s, f) \in [Inodes -> Nodes] /\ With(s, f)[f] = s.ino /\ \A g \in Inodes : g # f => With(s, f)[g] = ino[g]
         /\ \A y \in Slots : Now(s, f)[f][y] = Ptr(s.dev, s.ino, y)
         /\ \A g \in Inodes, y \in Slots : g # f => Now(s, f)[g][y] = Ptr(s.dev, ino[g], y)
<1>1. s.ino \in Nodes /\ s.dev \in [Blocks -> Bodies]
  BY StateIs
<1>2. With(s, f) \in [Inodes -> Nodes] /\ With(s, f)[f] = s.ino /\ \A g \in Inodes : g # f => With(s, f)[g] = ino[g]
  BY <1>1 DEF With, Typed
<1>3. \A g \in Inodes, y \in Slots : Now(s, f)[g][y] = Ptr(s.dev, With(s, f)[g], y)
  BY DEF Now, Ptrs
<1>4. \A g \in Inodes, y \in Slots : Ptr(s.dev, With(s, f)[g], y) \in Words
  BY <1>1, <1>2, PtrType
<1>5. Now(s, f) \in Pointers
  BY <1>4 DEF Now, Ptrs, Pointers
<1>. QED  BY <1>2, <1>3, <1>5

\* Only ino, dev and free matter.
LEMMA GoodSame ==
  ASSUME NEW s, NEW r, NEW f, NEW i, Good(s, f, i), Same(s, r)
  PROVE  Good(r, f, i)
<1>1. With(r, f) = With(s, f) /\ Now(r, f) = Now(s, f)
  BY DEF With, Now, Same
<1>. QED  BY <1>1 DEF Good, Same

\* A growth keeps it.
LEMMA GoodGrows ==
  ASSUME Typed, NEW f \in Inodes, NEW i, NEW s \in States, NEW r \in States, Good(s, f, i),
         NEW x \in Slots, Live(x, Ends[f]), IsTable(x) \/ x = <<"data", i>>, NEW b \in s.free, r.free = s.free \ {b},
         Grows(s.dev, s.ino, r.dev, r.ino, x, b), r.ino.blocks = s.ino.blocks + 1, r.ino.size = s.ino.size
  PROVE  Good(r, f, i) /\ Ptr(r.dev, r.ino, x) = b
<1>. DEFINE P == Now(s, f)
            P2 == Now(r, f)
            T == Ends
<1>1. /\ s.ino \in Nodes /\ r.ino \in Nodes /\ s.dev \in [Blocks -> Bodies] /\ r.dev \in [Blocks -> Bodies]
      /\ s.free \in SUBSET Blocks /\ b \in Blocks /\ b # 0
  BY StateIs
<1>2. /\ P \in Pointers /\ P2 \in Pointers
      /\ \A y \in Slots : P[f][y] = Ptr(s.dev, s.ino, y) /\ P2[f][y] = Ptr(r.dev, r.ino, y)
      /\ \A g \in Inodes, y \in Slots : g # f => P[g][y] = Ptr(s.dev, ino[g], y) /\ P2[g][y] = Ptr(r.dev, ino[g], y)
  BY NowIs
<1>3. /\ With(s, f)[f] = s.ino /\ With(r, f)[f] = r.ino
      /\ \A g \in Inodes : g # f => With(r, f)[g] = With(s, f)[g]
  BY NowIs
<1>4. Parted(P, s.free, T) /\ Counts(P, With(s, f), T)
  BY DEF Good
<1>5. \A t \in Slots : IsTable(t) => \A top : Live(t, top)
  BY DEF IsTable, Live
<1>. HIDE DEF P, P2, T
<1>6. TablesApart(s.dev, s.ino, b)
  <2>. SUFFICES ASSUME NEW y \in Slots, NEW z \in Slots, IsTable(y), IsTable(z), Ptr(s.dev, s.ino, y) # 0
                PROVE  Ptr(s.dev, s.ino, y) # b /\ (Ptr(s.dev, s.ino, y) = Ptr(s.dev, s.ino, z) => y = z)
    BY DEF TablesApart
  <2>1. P[f][y] = Ptr(s.dev, s.ino, y) /\ P[f][z] = Ptr(s.dev, s.ino, z) /\ Live(y, T[f]) /\ Live(z, T[f])
    BY <1>2, <1>5
  <2>2. P[f][y] # b
    BY <1>4, <2>1 DEF Parted, NoneFree
  <2>3. P[f][y] = P[f][z] => y = z
    BY <1>4, <2>1 DEF Parted, Apart
  <2>. QED  BY <2>1, <2>2, <2>3
<1>7. \A y \in Slots : Ptr(r.dev, r.ino, y) = IF y = x THEN b ELSE Ptr(s.dev, s.ino, y)
  BY <1>1, <1>6, GrowsPtr
<1>8. \A e \in Blocks : e # b /\ (InNode(x) \/ e # Ptr(s.dev, s.ino, Holder(x))) => r.dev[e] = s.dev[e]
  BY DEF Grows
<1>9. ~InNode(x) => Holder(x) \in Slots /\ IsTable(Holder(x)) /\ P[f][Holder(x)] # 0
                     /\ P[f][Holder(x)] = Ptr(s.dev, s.ino, Holder(x)) /\ Live(Holder(x), T[f])
  <2>. SUFFICES ASSUME ~InNode(x) PROVE Holder(x) \in Slots /\ IsTable(Holder(x)) /\ P[f][Holder(x)] # 0
                     /\ P[f][Holder(x)] = Ptr(s.dev, s.ino, Holder(x)) /\ Live(Holder(x), T[f])
    OBVIOUS
  <2>1. Holder(x) \in Slots /\ IsTable(Holder(x))
    BY HolderIs DEF IsTable
  <2>2. P[f][Holder(x)] = Ptr(s.dev, s.ino, Holder(x))
    BY <1>2, <2>1
  <2>3. Ptr(s.dev, s.ino, Holder(x)) # 0
    BY DEF Grows
  <2>. QED  BY <1>5, <2>1, <2>2, <2>3
<1>10. ASSUME NEW g \in Inodes, NEW y \in Slots, Live(y, T[g]), P[g][y] # 0, g # f \/ ~IsTable(y)
       PROVE  r.dev[P[g][y]] = s.dev[P[g][y]]
  <2>1. P[g][y] \in Blocks
    BY <1>2, <1>10 DEF Pointers, Words
  <2>2. P[g][y] # b
    BY <1>4, <1>10 DEF Parted, NoneFree
  <2>3. ~InNode(x) => P[g][y] # P[f][Holder(x)]
    <3>. SUFFICES ASSUME ~InNode(x), P[g][y] = P[f][Holder(x)] PROVE FALSE
      OBVIOUS
    <3>1. g = f /\ y = Holder(x)
      BY <1>4, <1>9, <1>10 DEF Parted, Apart
    <3>. QED  BY <1>9, <1>10, <3>1
  <2>. QED  BY <1>8, <1>9, <2>1, <2>2, <2>3
<1>11. ASSUME NEW g \in Inodes, g # f, NEW y \in Slots PROVE P2[g][y] = P[g][y]
  <2>. DEFINE m == ino[g]
  <2>1. ino[g] \in Nodes
    BY DEF Typed
  <2>2. ASSUME NEW t \in Slots, IsTable(t), Ptr(s.dev, m, t) # 0 PROVE r.dev[Ptr(s.dev, m, t)] = s.dev[Ptr(s.dev, m, t)]
    <3>1. P[g][t] = Ptr(s.dev, m, t)
      BY <1>2, <1>11
    <3>. HIDE DEF m
    <3>. QED  BY <1>5, <1>10, <1>11, <2>2, <3>1
  <2>. HIDE DEF m
  <2>3. Ptr(r.dev, m, y) = Ptr(s.dev, m, y)
    <3>1. m \in Nodes /\ \A t \in Slots : InNode(t) => Home(m, t) = Home(m, t)
      BY <2>1 DEF m
    <3>. QED  BY <1>1, <2>2, <3>1, SamePtr
  <2>. QED  BY <1>2, <1>11, <2>3 DEF m
<1>12. OnePointer(P, P2, f, x, b) /\ P[f][x] = 0
  <2>1. Ptr(s.dev, s.ino, x) = 0
    BY DEF Grows
  <2>. QED  BY <1>2, <1>7, <1>11, <2>1 DEF OnePointer
<1>13. Parted(P2, r.free, T)
  <2>1. Live(x, T[f])
    BY DEF T
  <2>2. Parted(P2, s.free \ {b}, T)
    BY <1>1, <1>2, <1>4, <1>12, <2>1, PartedGrows
  <2>. QED  BY <2>2
<1>14. Counts(P2, With(r, f), T)
  <2>1. With(r, f)[f].blocks = With(s, f)[f].blocks + 1 /\ \A g \in Inodes : g # f => With(r, f)[g].blocks = With(s, f)[g].blocks
    BY <1>3
  <2>2. Live(x, T[f])
    BY DEF T
  <2>3. PICK ns, ns2 : ns = With(s, f) /\ ns2 = With(r, f)
    OBVIOUS
  <2>4. /\ Counts(P, ns, T) /\ ns2[f].blocks = ns[f].blocks + 1
        /\ \A g \in Inodes : g # f => ns2[g].blocks = ns[g].blocks
    BY <1>4, <2>1, <2>3
  <2>. HIDE DEF T, P, P2
  <2>5. /\ P \in Pointers /\ P2 \in Pointers /\ s.free \in SUBSET Blocks
        /\ P[f][x] = 0 /\ OnePointer(P, P2, f, x, b) /\ Parted(P, s.free, T)
    BY <1>1, <1>2, <1>4, <1>12
  <2>6. OwnsMore(P, P2, T, f)
    BY <2>2, <2>5, OwnGrows
  <2>7. Counts(P2, ns2, T)
    BY <2>4, <2>6 DEF Counts, OwnsMore
  <2>. QED  BY <2>3, <2>7
<1>15. \A g \in Inodes, y \in Slots : g # f => P2[g][y] = Before[g][y]
  BY <1>11 DEF Good, P
<1>16. \A y \in Slots : ~IsTable(y) /\ y # <<"data", i>> => P2[f][y] = Before[f][y]
  BY <1>12 DEF Good, P, OnePointer
<1>17. \A y \in Slots : Before[f][y] # 0 => P2[f][y] = Before[f][y]
  BY <1>12 DEF Good, P, OnePointer
<1>18. ASSUME NEW g \in Inodes, NEW y \in Slots, ~IsTable(y), Live(y, T[g]), Before[g][y] # 0
       PROVE  r.dev[Before[g][y]] = dev[Before[g][y]]
  <2>1. P[g][y] = Before[g][y]
    BY <1>18 DEF Good, P
  <2>2. r.dev[P[g][y]] = s.dev[P[g][y]]
    BY <1>10, <1>18, <2>1
  <2>3. s.dev[Before[g][y]] = dev[Before[g][y]]
    BY <1>18 DEF Good, T
  <2>. QED  BY <2>1, <2>2, <2>3
<1>19. r.ino.size = ino[f].size
  BY DEF Good
<1>20. Good(r, f, i)
  BY <1>13, <1>14, <1>15, <1>16, <1>17, <1>18, <1>19 DEF Good, P2, T
<1>. QED  BY <1>7, <1>20

(***************************************************************************)
(* Where a step to the slot x comes, if enough device calls are left.      *)
(***************************************************************************)

Came(s, r, f, i, x, cost) ==
  \/ ~r.ok /\ Same(s, r)
  \/ /\ r.ok /\ Good(r, f, i) /\ r.left + cost >= s.left
     /\ r.blk \in Blocks /\ r.blk = Ptr(r.dev, r.ino, x)

\* A step that finds what the slot points to.
LEMMA CameFound ==
  ASSUME NEW f \in Inodes, NEW i, NEW s \in States, NEW r \in States, Good(s, f, i), NEW x \in Slots, NEW cost \in Nat,
         NEW b, b = Ptr(s.dev, s.ino, x), Finds(s, r, b), cost # 0 \/ r.left = s.left
  PROVE  Came(s, r, f, i, x, cost)
<1>1. r.ok /\ Same(s, r) /\ b # 0 /\ r.blk = b /\ r.left + 1 >= s.left
  BY DEF Finds
<1>2. Good(r, f, i)
  BY <1>1, GoodSame
<1>3. r.blk \in Blocks
  BY <1>1, StateIs DEF Words
<1>4. r.blk = Ptr(r.dev, r.ino, x)
  BY <1>1 DEF Same
<1>5. r.left \in Nat /\ s.left \in Nat
  BY StateIs
<1>6. r.left + cost >= s.left
  BY <1>1, <1>5
<1>. QED  BY <1>1, <1>2, <1>3, <1>4, <1>6 DEF Came

\* A step that makes a block for it.
LEMMA CameMade ==
  ASSUME Typed, NEW f \in Inodes, NEW i, NEW s \in States, NEW r \in States, Good(s, f, i), NEW x \in Slots, NEW cost,
         Live(x, Ends[f]), IsTable(x) \/ x = <<"data", i>>, NEW b \in s.free, NEW n, NEW d, Makes(s, r, b, n, d, cost),
         Grows(s.dev, s.ino, d, n, x, b), n.blocks = s.ino.blocks + 1, n.size = s.ino.size
  PROVE  Came(s, r, f, i, x, cost)
<1>1. r.ok /\ r.free = s.free \ {b} /\ r.blk = b /\ r.ino = n /\ r.dev = d /\ r.left + cost >= s.left
  BY DEF Makes
<1>2. Grows(s.dev, s.ino, r.dev, r.ino, x, b) /\ r.ino.blocks = s.ino.blocks + 1 /\ r.ino.size = s.ino.size
  BY <1>1
<1>3. Good(r, f, i) /\ Ptr(r.dev, r.ino, x) = b
  BY <1>1, <1>2, GoodGrows
<1>4. b \in Blocks
  BY StateIs
<1>. QED  BY <1>1, <1>3, <1>4 DEF Came

\* A step to a direct block leaves a sound state.
LEMMA CameDirect ==
  ASSUME Typed, NEW f \in Inodes, NEW i \in 0 .. Direct - 1, NEW x \in Slots, x = <<"data", i>>, i < Ends[f],
         NEW s \in States, Good(s, f, i), NEW r, r = Step(s, "direct", i)
  PROVE  r \in States /\ Came(s, r, f, i, x, 0)
<1>1. /\ r \in States
      /\ \/ Refused(s, r)
         \/ Finds(s, r, s.ino.direct[i])
         \/ s.ino.direct[i] = 0 /\ \E b \in s.free : Makes(s, r, b, WithDirect(s.ino, i, b), s.dev, 0)
  BY DirectStep
<1>2. s.ino \in Nodes /\ s.dev \in [Blocks -> Bodies] /\ s.free \in SUBSET Blocks /\ s.left \in Nat
  BY StateIs
<1>3. i \in Nat /\ i \in 0 .. MaxIndex - 1
  BY SMT DEF MaxIndex
<1>4. x \in Slots /\ InNode(x) /\ Live(x, Ends[f])
  BY <1>3 DEF InNode, Live
<1>5. Ptr(s.dev, s.ino, x) = s.ino.direct[i]
  <2>1. Ptr(s.dev, s.ino, x) = Home(s.ino, x)
    BY <1>4, PtrIs
  <2>. QED  BY <2>1 DEF Home
<1>6. CASE Refused(s, r)
  BY <1>1, <1>6 DEF Refused, Came
<1>7. CASE Finds(s, r, s.ino.direct[i])
  <2>1. r.left = s.left
    <3>1. s.ok /\ s.ino.direct[i] # 0
      BY <1>7 DEF Finds
    <3>2. r = [s EXCEPT !.blk = s.ino.direct[i]]
      BY <3>1, LookIs DEF Step, Find
    <3>. QED  BY <3>2 DEF States
  <2>. DEFINE b == s.ino.direct[i]
  <2>2. b = Ptr(s.dev, s.ino, x) /\ Finds(s, r, b) /\ 0 \in Nat /\ r \in States
    BY <1>1, <1>5, <1>7
  <2>. HIDE DEF b
  <2>. QED  BY <1>4, <2>1, <2>2, CameFound
<1>8. ASSUME NEW b \in s.free, s.ino.direct[i] = 0, Makes(s, r, b, WithDirect(s.ino, i, b), s.dev, 0)
      PROVE  Came(s, r, f, i, x, 0)
  <2>. DEFINE n == WithDirect(s.ino, i, b)
  <2>1. b \in Blocks /\ b \in Words
    BY <1>2 DEF Words
  <2>2. Grows(s.dev, s.ino, s.dev, n, x, b)
    BY <1>2, <1>8, <2>1, DirectGrows
  <2>3. n = WithDirect(s.ino, i, b) /\ Makes(s, r, b, n, s.dev, 0)
    BY <1>8
  <2>. HIDE DEF n
  <2>4. n.blocks = s.ino.blocks + 1 /\ n.size = s.ino.size
    <3>1. s.ino \in Nodes /\ b \in Words
      BY <1>2, <2>1
    <3>2. /\ WithDirect(s.ino, i, b).blocks = s.ino.blocks + 1
          /\ WithDirect(s.ino, i, b).size = s.ino.size
      BY <3>1, MoreDirect
    <3>. QED  BY <2>3, <3>2
  <2>. QED  BY <1>1, <1>4, <2>2, <2>3, <2>4, CameMade
<1>. QED  BY <1>1, <1>6, <1>7, <1>8

\* So does a step to an indirect block.
LEMMA CameRoot ==
  ASSUME Typed, NEW f \in Inodes, NEW i, NEW w \in {"indirect", "double"}, NEW x \in Slots, x = <<"table", w>>,
         NEW s \in States, Good(s, f, i), s.left >= 1, NEW r, r = Step(s, "root", w)
  PROVE  r \in States /\ Came(s, r, f, i, x, 1)
<1>1. /\ r \in States
      /\ \/ Refused(s, r)
         \/ Finds(s, r, s.ino.table[w])
         \/ s.ino.table[w] = 0 /\ \E b \in s.free : Makes(s, r, b, WithTable(s.ino, w, b), Cleared(s.dev, b), 1)
         \/ Breaks(s, r, 1)
  BY RootStep
<1>2. s.ino \in Nodes /\ s.dev \in [Blocks -> Bodies] /\ s.free \in SUBSET Blocks /\ s.left \in Nat
  BY StateIs
<1>3. ~Breaks(s, r, 1)
  BY <1>2 DEF Breaks
<1>4. x \in Slots /\ IsTable(x) /\ Live(x, Ends[f])
  BY DEF IsTable, Live
<1>5. Ptr(s.dev, s.ino, x) = s.ino.table[w]
  BY DEF Ptr
<1>6. CASE Refused(s, r)
  BY <1>1, <1>6 DEF Refused, Came
<1>7. CASE Finds(s, r, s.ino.table[w])
  <2>. DEFINE b == s.ino.table[w]
  <2>1. b = Ptr(s.dev, s.ino, x) /\ Finds(s, r, b) /\ 1 \in Nat /\ 1 # 0 /\ r \in States
    BY <1>1, <1>5, <1>7
  <2>. HIDE DEF b
  <2>. QED  BY <1>4, <2>1, CameFound
<1>8. ASSUME NEW b \in s.free, s.ino.table[w] = 0, Makes(s, r, b, WithTable(s.ino, w, b), Cleared(s.dev, b), 1)
      PROVE  Came(s, r, f, i, x, 1)
  <2>. DEFINE n == WithTable(s.ino, w, b)
              d == Cleared(s.dev, b)
  <2>1. b \in Blocks /\ b \in Words
    BY <1>2 DEF Words
  <2>2. Grows(s.dev, s.ino, d, n, x, b)
    BY <1>2, <1>8, <2>1, RootGrows
  <2>3. n = WithTable(s.ino, w, b) /\ Makes(s, r, b, n, d, 1)
    BY <1>8
  <2>. HIDE DEF n, d
  <2>4. n.blocks = s.ino.blocks + 1 /\ n.size = s.ino.size
    <3>1. s.ino \in Nodes /\ b \in Words
      BY <1>2, <2>1
    <3>2. /\ WithTable(s.ino, w, b).blocks = s.ino.blocks + 1
          /\ WithTable(s.ino, w, b).size = s.ino.size
      BY <3>1, MoreTable
    <3>. QED  BY <2>3, <3>2
  <2>. QED  BY <1>1, <1>4, <2>2, <2>3, <2>4, CameMade
<1>. QED  BY <1>1, <1>3, <1>6, <1>7, <1>8

\* a step into the table that holds x
LEMMA CameTable ==
  ASSUME Typed, NEW f \in Inodes, NEW i, NEW x \in Slots, x[1] = "mid", NEW s \in States, Good(s, f, i), s.left >= 3,
         s.blk \in Blocks, s.blk = Ptr(s.dev, s.ino, Holder(x)), NEW r, r = Step(s, "table", Key(x))
  PROVE  r \in States /\ Came(s, r, f, i, x, 3)
<1>. DEFINE k == Key(x)
            c == s.blk
<1>0. ~InNode(x) /\ IsTable(x) /\ Live(x, Ends[f])
  BY DEF InNode, IsTable, Live
<1>1. k \in 0 .. Per - 1 /\ Holder(x) \in Slots /\ IsTable(Holder(x))
  BY <1>0, HolderIs DEF IsTable
<1>. HIDE DEF k
<1>2. /\ r \in States
      /\ \/ Refused(s, r)
         \/ Finds(s, r, s.dev[c][k])
         \/ s.dev[c][k] = 0 /\ \E b \in s.free : Makes(s, r, b, OneMore(s.ino), Cleared(Entered(s.dev, c, k, b), b), 3)
         \/ Breaks(s, r, 3)
  BY <1>1, TableStep DEF k
<1>3. s.ino \in Nodes /\ s.dev \in [Blocks -> Bodies] /\ s.free \in SUBSET Blocks /\ s.left \in Nat
  BY StateIs
<1>4. ~Breaks(s, r, 3)
  BY <1>3 DEF Breaks
<1>5. Ptr(s.dev, s.ino, x) = s.dev[c][k]
  <2>1. Ptr(s.dev, s.ino, x) = Entry(s.dev, c, k)
    BY <1>0, PtrIs DEF k
  <2>2. c # 0
    OBVIOUS
  <2>. QED  BY <2>1, <2>2 DEF Entry
<1>6. c \notin s.free
  <2>1. Now(s, f)[f][Holder(x)] = c
    BY <1>1, NowIs
  <2>2. Live(Holder(x), Ends[f]) /\ c # 0
    BY <1>1 DEF IsTable, Live
  <2>. QED  BY <1>1, <2>1, <2>2 DEF Good, Parted, NoneFree
<1>. HIDE DEF c
<1>7. CASE Refused(s, r)
  BY <1>2, <1>7 DEF Refused, Came
<1>8. CASE Finds(s, r, s.dev[c][k])
  <2>. DEFINE b == s.dev[c][k]
  <2>1. b = Ptr(s.dev, s.ino, x) /\ Finds(s, r, b) /\ 3 \in Nat /\ 3 # 0
    BY <1>5, <1>8
  <2>. HIDE DEF b
  <2>. QED  BY <1>2, <2>1, CameFound
<1>9. ASSUME NEW b \in s.free, s.dev[c][k] = 0, Makes(s, r, b, OneMore(s.ino), Cleared(Entered(s.dev, c, k, b), b), 3)
      PROVE  Came(s, r, f, i, x, 3)
  <2>. DEFINE n == OneMore(s.ino)
              d == Cleared(Entered(s.dev, c, k, b), b)
  <2>1. b \in Blocks /\ b # c /\ c \in Blocks /\ c = Ptr(s.dev, s.ino, Holder(x))
    BY <1>3, <1>6 DEF c
  <2>2. Grows(s.dev, s.ino, d, n, x, b)
    BY <1>0, <1>3, <1>9, <2>1, EntryGrows DEF k
  <2>3. n = OneMore(s.ino) /\ Makes(s, r, b, n, d, 3)
    BY <1>9
  <2>. HIDE DEF n, d
  <2>4. n.blocks = s.ino.blocks + 1 /\ n.size = s.ino.size
    BY <1>3, <2>3, NodeCounted
  <2>. QED  BY <1>0, <1>2, <2>2, <2>3, <2>4, CameMade
<1>. QED  BY <1>2, <1>4, <1>7, <1>8, <1>9

\* So does a step from a table to a data block.
LEMMA CameData ==
  ASSUME Typed, NEW f \in Inodes, NEW i \in 0 .. MaxIndex - 1, NEW x \in Slots, x = <<"data", i>>, i >= Direct, i < Ends[f],
         NEW s \in States, Good(s, f, i), s.left >= 2,
         s.blk \in Blocks, s.blk = Ptr(s.dev, s.ino, Holder(x)), NEW r, r = Step(s, "data", Key(x))
  PROVE  r \in States /\ Came(s, r, f, i, x, 2)
<1>. DEFINE k == Key(x)
            c == s.blk
<1>0. ~InNode(x) /\ ~IsTable(x) /\ Live(x, Ends[f])
  <2>1. x[1] = "data" /\ x[2] = i /\ i \in Nat
    OBVIOUS
  <2>. QED  BY <2>1 DEF InNode, IsTable, Live
<1>1. k \in 0 .. Per - 1 /\ Holder(x) \in Slots /\ IsTable(Holder(x))
  BY <1>0, HolderIs DEF IsTable
<1>. HIDE DEF k
<1>2. /\ r \in States
      /\ \/ Refused(s, r)
         \/ Finds(s, r, s.dev[c][k])
         \/ s.dev[c][k] = 0 /\ \E b \in s.free : Makes(s, r, b, OneMore(s.ino), Entered(s.dev, c, k, b), 2)
         \/ Breaks(s, r, 2)
  BY <1>1, DataStep DEF k
<1>3. s.ino \in Nodes /\ s.dev \in [Blocks -> Bodies] /\ s.free \in SUBSET Blocks /\ s.left \in Nat
  BY StateIs
<1>4. ~Breaks(s, r, 2)
  BY <1>3 DEF Breaks
<1>5. Ptr(s.dev, s.ino, x) = s.dev[c][k]
  <2>1. Ptr(s.dev, s.ino, x) = Entry(s.dev, c, k)
    BY <1>0, PtrIs DEF k
  <2>2. c # 0
    OBVIOUS
  <2>. QED  BY <2>1, <2>2 DEF Entry
<1>6. c \notin s.free
  <2>1. Now(s, f)[f][Holder(x)] = c
    BY <1>1, NowIs
  <2>2. Live(Holder(x), Ends[f]) /\ c # 0
    BY <1>1 DEF IsTable, Live
  <2>. QED  BY <1>1, <2>1, <2>2 DEF Good, Parted, NoneFree
<1>. HIDE DEF c
<1>7. CASE Refused(s, r)
  BY <1>2, <1>7 DEF Refused, Came
<1>8. CASE Finds(s, r, s.dev[c][k])
  <2>. DEFINE b == s.dev[c][k]
  <2>1. b = Ptr(s.dev, s.ino, x) /\ Finds(s, r, b) /\ 2 \in Nat /\ 2 # 0
    BY <1>5, <1>8
  <2>. HIDE DEF b
  <2>. QED  BY <1>2, <2>1, CameFound
<1>9. ASSUME NEW b \in s.free, s.dev[c][k] = 0, Makes(s, r, b, OneMore(s.ino), Entered(s.dev, c, k, b), 2)
      PROVE  Came(s, r, f, i, x, 2)
  <2>. DEFINE n == OneMore(s.ino)
              d == Entered(s.dev, c, k, b)
  <2>1. b \in Blocks /\ b # c /\ c \in Blocks /\ c = Ptr(s.dev, s.ino, Holder(x))
    BY <1>3, <1>6 DEF c
  <2>2. Grows(s.dev, s.ino, d, n, x, b)
    BY <1>0, <1>3, <1>9, <2>1, EntryGrows DEF k
  <2>3. n = OneMore(s.ino) /\ Makes(s, r, b, n, d, 2)
    BY <1>9
  <2>. HIDE DEF n, d
  <2>4. n.blocks = s.ino.blocks + 1 /\ n.size = s.ino.size
    BY <1>3, <2>3, NodeCounted
  <2>. QED  BY <1>0, <1>2, <2>2, <2>3, <2>4, CameMade
<1>. QED  BY <1>2, <1>4, <1>7, <1>8, <1>9

(***************************************************************************)
(* What inode_bmap comes to, whatever fails.                               *)
(***************************************************************************)

\* Blocks are only taken, and nothing changes unless one is.
Sound(s, r) ==
  /\ r \in States /\ r.free \subseteq s.free
  /\ r.free = s.free => Same(s, r)
  /\ r.ok => s.ok /\ r.blk \in Blocks

\* A step that is refused only stops.
LEMMA RefusedSound == ASSUME NEW s, NEW r \in States, Refused(s, r) PROVE Sound(s, r)
  BY DEF Refused, Sound, Same

\* A step that finds a block changes nothing.
LEMMA FoundSound == ASSUME NEW s, NEW r \in States, NEW b, Finds(s, r, b) PROVE Sound(s, r)
<1>1. r.blk \in Words
  BY StateIs
<1>. QED  BY <1>1 DEF Finds, Sound, Same, Words

\* A step that makes a block takes it from the free ones.
LEMMA MadeSound ==
  ASSUME NEW s \in States, NEW r \in States, NEW b, NEW n, NEW d, NEW cost, Makes(s, r, b, n, d, cost)
  PROVE  Sound(s, r)
<1>1. s.ok /\ r.ok /\ b \in s.free /\ r.free = s.free \ {b} /\ r.blk = b
  BY DEF Makes
<1>2. s.free \in SUBSET Blocks
  BY StateIs
<1>3. r.free # s.free /\ r.free \subseteq s.free /\ r.blk \in Blocks
  BY <1>1, <1>2
<1>. QED  BY <1>1, <1>3 DEF Sound

\* A step that breaks off has only taken.
LEMMA BrokenSound == ASSUME NEW s, NEW r \in States, NEW cost, Breaks(s, r, cost) PROVE Sound(s, r)
  BY DEF Breaks, Sound

\* One of the four outcomes, and so each step.
LEMMA StepSound ==
  ASSUME NEW s \in States
  PROVE  /\ \A i \in 0 .. Direct - 1 : Sound(s, Step(s, "direct", i))
         /\ \A w \in {"indirect", "double"} : Sound(s, Step(s, "root", w))
         /\ (s.ok => s.blk \in Blocks) =>
              \A k \in 0 .. Per - 1 : Sound(s, Step(s, "table", k)) /\ Sound(s, Step(s, "data", k))
<1>1. ASSUME NEW i \in 0 .. Direct - 1 PROVE Sound(s, Step(s, "direct", i))
  <2>. DEFINE r == Step(s, "direct", i)
  <2>1. r \in States /\ (Refused(s, r) \/ (\E b : Finds(s, r, b)) \/ \E b, n, d, cost : Makes(s, r, b, n, d, cost))
    BY DirectStep
  <2>. HIDE DEF r
  <2>2. Sound(s, r)
    BY <2>1, RefusedSound, FoundSound, MadeSound
  <2>. QED  BY <2>2 DEF r
<1>2. ASSUME NEW w \in {"indirect", "double"} PROVE Sound(s, Step(s, "root", w))
  <2>. DEFINE r == Step(s, "root", w)
  <2>1. r \in States /\ (Refused(s, r) \/ (\E b : Finds(s, r, b)) \/ (\E b, n, d, cost : Makes(s, r, b, n, d, cost))
                           \/ \E cost : Breaks(s, r, cost))
    BY RootStep
  <2>. HIDE DEF r
  <2>2. Sound(s, r)
    BY <2>1, RefusedSound, FoundSound, MadeSound, BrokenSound
  <2>. QED  BY <2>2 DEF r
<1>3. ASSUME s.ok => s.blk \in Blocks, NEW k \in 0 .. Per - 1 PROVE Sound(s, Step(s, "table", k))
  <2>. DEFINE r == Step(s, "table", k)
  <2>1. r \in States /\ (Refused(s, r) \/ (\E b : Finds(s, r, b)) \/ (\E b, n, d, cost : Makes(s, r, b, n, d, cost))
                           \/ \E cost : Breaks(s, r, cost))
    BY <1>3, TableStep
  <2>. HIDE DEF r
  <2>2. Sound(s, r)
    BY <2>1, RefusedSound, FoundSound, MadeSound, BrokenSound
  <2>. QED  BY <2>2 DEF r
<1>4. ASSUME s.ok => s.blk \in Blocks, NEW k \in 0 .. Per - 1 PROVE Sound(s, Step(s, "data", k))
  <2>. DEFINE r == Step(s, "data", k)
  <2>1. r \in States /\ (Refused(s, r) \/ (\E b : Finds(s, r, b)) \/ (\E b, n, d, cost : Makes(s, r, b, n, d, cost))
                           \/ \E cost : Breaks(s, r, cost))
    BY <1>4, DataStep
  <2>. HIDE DEF r
  <2>2. Sound(s, r)
    BY <2>1, RefusedSound, FoundSound, MadeSound, BrokenSound
  <2>. QED  BY <2>2 DEF r
<1>. QED  BY <1>1, <1>2, <1>3, <1>4

\* Soundness adds up.
LEMMA SoundTwice ==
  ASSUME NEW s, NEW r, NEW q, Sound(s, r), Sound(r, q)
  PROVE  Sound(s, q)
<1>1. q \in States /\ q.free \subseteq s.free
  BY DEF Sound
<1>2. ASSUME q.free = s.free PROVE Same(s, q)
  <2>1. r.free = s.free /\ q.free = r.free
    BY <1>2 DEF Sound
  <2>. QED  BY <2>1 DEF Sound, Same
<1>3. q.ok => s.ok /\ q.blk \in Blocks
  BY DEF Sound
<1>. QED  BY <1>1, <1>2, <1>3 DEF Sound

\* inode_bmap takes blocks and gives none back, whatever fails.
LEMMA BmapSound ==
  ASSUME NEW s \in States, NEW i \in Nat, NEW r, r = Bmap(s, i)
  PROVE  Sound(s, r) /\ (r.ok => i < MaxIndex)
<1>1. CASE i < Direct
  <2>1. r = Step(s, "direct", i) /\ i \in 0 .. Direct - 1 /\ i < MaxIndex
    BY <1>1, BmapIs, KeysAre
  <2>. QED  BY <2>1, StepSound
<1>2. CASE i >= Direct /\ i - Direct < Per
  <2>. DEFINE q == Step(s, "root", "indirect")
              k == i - Direct
  <2>1. r = Step(q, "data", k) /\ k \in 0 .. Per - 1 /\ i < MaxIndex
    BY <1>2, BmapIs, KeysAre
  <2>2. Sound(s, q)
    BY StepSound
  <2>. HIDE DEF q, k
  <2>3. q \in States /\ (q.ok => q.blk \in Blocks)
    BY <2>2 DEF Sound
  <2>4. Sound(q, r)
    BY <2>1, <2>3, StepSound
  <2>. QED  BY <2>1, <2>2, <2>4, SoundTwice
<1>3. CASE i >= Direct /\ InDouble(i)
  <2>. DEFINE q == Step(s, "root", "double")
              t == Step(q, "table", High(i))
  <2>1. r = Step(t, "data", Low(i)) /\ High(i) \in 0 .. Per - 1 /\ Low(i) \in 0 .. Per - 1 /\ i < MaxIndex
    BY <1>3, BmapIs, KeysAre
  <2>2. Sound(s, q)
    BY StepSound
  <2>. HIDE DEF q
  <2>3. q \in States /\ (q.ok => q.blk \in Blocks)
    BY <2>2 DEF Sound
  <2>4. Sound(q, t)
    BY <2>1, <2>3, StepSound
  <2>. HIDE DEF t
  <2>5. t \in States /\ (t.ok => t.blk \in Blocks)
    BY <2>4 DEF Sound
  <2>6. Sound(t, r)
    BY <2>1, <2>5, StepSound
  <2>7. Sound(s, t)
    BY <2>2, <2>4, SoundTwice
  <2>8. Sound(s, r)
    BY <2>6, <2>7, SoundTwice
  <2>. QED  BY <2>1, <2>8
<1>4. CASE i >= MaxIndex
  <2>1. r = Failed(s)
    BY <1>4, BmapIs DEF Step
  <2>2. r \in States /\ Refused(s, r)
    BY <2>1, FailedIs DEF Refused
  <2>. QED  BY <2>2, RefusedSound DEF Refused
<1>5. i < Direct \/ (i >= Direct /\ i - Direct < Per) \/ (i >= Direct /\ InDouble(i)) \/ i >= MaxIndex
  BY DEF InDouble, MaxIndex
<1>. QED  BY <1>1, <1>2, <1>3, <1>4, <1>5

(***************************************************************************)
(* And when no device call fails.                                          *)
(***************************************************************************)

\* As long as only tables were made, no data slot has changed; -1 is no index.
LEMMA GoodIndex ==
  ASSUME NEW s, NEW f, NEW i, Good(s, f, -1)
  PROVE  Good(s, f, i)
<1>1. \A y \in Slots : y # <<"data", -1>>
  <2>. SUFFICES ASSUME NEW y \in Slots, y = <<"data", -1>> PROVE FALSE
    OBVIOUS
  <2>1. y[1] = "data" /\ y[2] = -1
    OBVIOUS
  <2>2. PICK j \in 0 .. MaxIndex - 1 : y = <<"data", j>>
    BY <2>1, SlotCases
  <2>3. j >= 0 /\ y[2] = j
    BY <2>2
  <2>. QED  BY <2>1, <2>3
<1>. QED  BY <1>1 DEF Good

\* With enough device calls left, inode_bmap keeps every block free or pointed
\* to once, and comes to the block of its index.
LEMMA BmapClean ==
  ASSUME Typed, NEW f \in Inodes, NEW i \in Nat, i < Ends[f], NEW s \in States, Good(s, f, -1), s.ok, s.left >= 8,
         NEW r, r = Bmap(s, i)
  PROVE  /\ r \in States
         /\ \/ ~r.ok /\ Good(r, f, -1)
            \/ /\ r.ok /\ Good(r, f, i) /\ r.left >= 2 /\ i < MaxIndex
               /\ r.blk \in Blocks /\ r.blk = Ptr(r.dev, r.ino, <<"data", i>>)
<1>. DEFINE x == <<"data", i>>
<1>m. MaxIndex \in Nat
  BY SMT DEF MaxIndex
<1>0. r \in States /\ s.left \in Nat /\ r.left \in Nat
  BY BmapSound, StateIs DEF Sound
<1>1. CASE i < Direct
  <2>1. r = Step(s, "direct", i) /\ i \in 0 .. Direct - 1 /\ i < MaxIndex /\ i \in 0 .. MaxIndex - 1
    BY <1>m, <1>1, BmapIs, KeysAre
  <2>2. x \in Slots /\ Good(s, f, i)
    BY <2>1, SlotsAre, GoodIndex
  <2>. HIDE DEF x
  <2>3. x = <<"data", i>>
    BY DEF x
  <2>4. Came(s, r, f, i, x, 0)
    BY <2>1, <2>2, <2>3, CameDirect
  <2>5. CASE ~r.ok /\ Same(s, r)
    BY <1>0, <2>5, GoodSame
  <2>6. CASE r.ok /\ Good(r, f, i) /\ r.left + 0 >= s.left /\ r.blk \in Blocks /\ r.blk = Ptr(r.dev, r.ino, x)
    <3>1. r.left >= 2
      BY <1>0, <2>6
    <3>. QED  BY <1>0, <2>1, <2>3, <2>6, <3>1
  <2>. QED  BY <2>4, <2>5, <2>6 DEF Came
<1>2. CASE i >= Direct /\ i - Direct < Per
  <2>. DEFINE q == Step(s, "root", "indirect")
              t == <<"table", "indirect">>
  <2>1. r = Step(q, "data", i - Direct) /\ i - Direct \in 0 .. Per - 1 /\ i < MaxIndex /\ i \in 0 .. MaxIndex - 1
    BY <1>m, <1>2, BmapIs, KeysAre
  <2>2. x \in Slots /\ t \in Slots
    BY <2>1, SlotsAre
  <2>3. Holder(x) = t /\ Key(x) = i - Direct
    BY <1>2 DEF Holder, Key
  <2>. HIDE DEF x
  <2>4. x = <<"data", i>>
    BY DEF x
  <2>5. q \in States /\ Came(s, q, f, -1, t, 1)
    <3>1. t = <<"table", "indirect">> /\ q = Step(s, "root", "indirect") /\ "indirect" \in {"indirect", "double"} /\ s.left >= 1
      BY <1>0
    <3>. HIDE DEF q, t
    <3>. QED  BY <2>2, <3>1, CameRoot
  <2>. HIDE DEF q, t
  <2>6. q.left \in Nat
    BY <2>5, StateIs
  <2>7. CASE ~q.ok /\ Same(s, q)
    <3>1. r = q
      BY <2>1, <2>5, <2>7, StepFailed
    <3>. QED  BY <1>0, <2>7, <3>1, GoodSame
  <2>8. CASE q.ok /\ Good(q, f, -1) /\ q.left + 1 >= s.left /\ q.blk \in Blocks /\ q.blk = Ptr(q.dev, q.ino, t)
    <3>1. q.left >= 7 /\ Good(q, f, i)
      BY <1>0, <2>6, <2>8, GoodIndex
    <3>2. Came(q, r, f, i, x, 2)
      <4>1. r = Step(q, "data", Key(x)) /\ q.blk = Ptr(q.dev, q.ino, Holder(x)) /\ q.left >= 2
        BY <2>1, <2>3, <2>6, <2>8, <3>1
      <4>. QED  BY <1>2, <2>1, <2>2, <2>4, <2>5, <2>8, <3>1, <4>1, CameData
    <3>3. CASE ~r.ok /\ Same(q, r)
      BY <1>0, <2>8, <3>3, GoodSame
    <3>4. CASE r.ok /\ Good(r, f, i) /\ r.left + 2 >= q.left /\ r.blk \in Blocks /\ r.blk = Ptr(r.dev, r.ino, x)
      <4>1. r.left >= 2
        BY <1>0, <2>6, <3>1, <3>4
      <4>. QED  BY <1>0, <2>1, <2>4, <3>4, <4>1
    <3>. QED  BY <3>2, <3>3, <3>4 DEF Came
  <2>. QED  BY <2>5, <2>7, <2>8 DEF Came
<1>3. CASE i >= Direct /\ InDouble(i)
  <2>. DEFINE q == Step(s, "root", "double")
              v == Step(q, "table", High(i))
              t == <<"table", "double">>
              m == <<"mid", High(i)>>
  <2>1. /\ r = Step(v, "data", Low(i)) /\ High(i) \in 0 .. Per - 1 /\ Low(i) \in 0 .. Per - 1
        /\ i < MaxIndex /\ i \in 0 .. MaxIndex - 1
    BY <1>m, <1>3, BmapIs, KeysAre
  <2>2. x \in Slots /\ t \in Slots /\ m \in Slots
    BY <2>1, SlotsAre
  <2>3. Holder(x) = m /\ Key(x) = Low(i)
    BY <1>3 DEF Holder, Key, InDouble
  <2>4. Holder(m) = t /\ Key(m) = High(i) /\ m[1] = "mid"
    BY DEF Holder, Key
  <2>. HIDE DEF x
  <2>5. x = <<"data", i>>
    BY DEF x
  <2>6. q \in States /\ Came(s, q, f, -1, t, 1)
    <3>1. t = <<"table", "double">> /\ q = Step(s, "root", "double") /\ "double" \in {"indirect", "double"} /\ s.left >= 1
      BY <1>0
    <3>. HIDE DEF q, t
    <3>. QED  BY <2>2, <3>1, CameRoot
  <2>. HIDE DEF q, t, m
  <2>7. q.left \in Nat
    BY <2>6, StateIs
  <2>8. CASE ~q.ok /\ Same(s, q)
    <3>1. v = q
      BY <2>6, <2>8, StepFailed
    <3>2. r = q
      BY <2>1, <2>6, <2>8, <3>1, StepFailed
    <3>. QED  BY <1>0, <2>8, <3>2, GoodSame
  <2>9. CASE q.ok /\ Good(q, f, -1) /\ q.left + 1 >= s.left /\ q.blk \in Blocks /\ q.blk = Ptr(q.dev, q.ino, t)
    <3>1. q.left >= 7
      BY <1>0, <2>7, <2>9
    <3>2. v \in States /\ Came(q, v, f, -1, m, 3)
      <4>1. v = Step(q, "table", Key(m)) /\ q.blk = Ptr(q.dev, q.ino, Holder(m)) /\ q.left >= 3
        BY <2>4, <2>7, <2>9, <3>1
      <4>. HIDE DEF v
      <4>. QED  BY <2>2, <2>4, <2>6, <2>9, <4>1, CameTable
    <3>. HIDE DEF v
    <3>3. v.left \in Nat
      BY <3>2, StateIs
    <3>4. CASE ~v.ok /\ Same(q, v)
      <4>1. r = v
        BY <2>1, <3>2, <3>4, StepFailed
      <4>. QED  BY <1>0, <2>9, <3>4, <4>1, GoodSame
    <3>5. CASE v.ok /\ Good(v, f, -1) /\ v.left + 3 >= q.left /\ v.blk \in Blocks /\ v.blk = Ptr(v.dev, v.ino, m)
      <4>1. v.left >= 4 /\ Good(v, f, i)
        BY <2>7, <3>1, <3>3, <3>5, GoodIndex
      <4>2. Came(v, r, f, i, x, 2)
        <5>1. r = Step(v, "data", Key(x)) /\ v.blk = Ptr(v.dev, v.ino, Holder(x)) /\ v.left >= 2
          BY <2>1, <2>3, <3>3, <3>5, <4>1
        <5>. QED  BY <1>3, <2>1, <2>2, <2>5, <3>2, <3>5, <4>1, <5>1, CameData
      <4>3. CASE ~r.ok /\ Same(v, r)
        BY <1>0, <3>5, <4>3, GoodSame
      <4>4. CASE r.ok /\ Good(r, f, i) /\ r.left + 2 >= v.left /\ r.blk \in Blocks /\ r.blk = Ptr(r.dev, r.ino, x)
        <5>1. r.left >= 2
          BY <1>0, <3>3, <4>1, <4>4
        <5>. QED  BY <1>0, <2>1, <2>5, <4>4, <5>1
      <4>. QED  BY <4>2, <4>3, <4>4 DEF Came
    <3>. QED  BY <3>2, <3>4, <3>5 DEF Came
  <2>. QED  BY <2>6, <2>8, <2>9 DEF Came
<1>4. CASE i >= MaxIndex
  <2>1. r = Failed(s)
    BY <1>4, BmapIs DEF Step
  <2>2. r \in States /\ ~r.ok /\ Same(s, r)
    BY <2>1, FailedIs
  <2>. QED  BY <2>2, GoodSame
<1>5. i < Direct \/ (i >= Direct /\ i - Direct < Per) \/ (i >= Direct /\ InDouble(i)) \/ i >= MaxIndex
  BY DEF InDouble, MaxIndex
<1>. QED  BY <1>1, <1>2, <1>3, <1>4, <1>5

(***************************************************************************)
(* The inductive invariant.  Within the limits: every block is free or has *)
(* one slot that points to it, each inode counts its own, what a truncate  *)
(* cut off lies behind the end, what a file shows is what it was given,    *)
(* and the log of a write under way holds the words that it will show.     *)
(***************************************************************************)

Indices == 0 .. MaxIndex - 1

TypeInv ==
  /\ Typed
  /\ op \in [Inodes -> Ops]
  /\ content \in [Inodes -> [Positions -> Words]]
  /\ residue \in [Inodes -> SUBSET Positions]
  /\ crossed \in SUBSET Limits

\* the block at an index, and the word at a position
Data(f, i) == Before[f][<<"data", i>>]
Word(f, p) == Entry(dev, Data(f, BlockOf(p)), p % Per)

\* How far a write is: at a multiple of Per, but for its two ends.
OpInv(f) ==
  /\ op[f].end = 0 => op[f] = NoOp
  /\ op[f].end # 0 => op[f].from <= op[f].pos /\ op[f].pos <= op[f].end /\ op[f].from < op[f].end
  /\ op[f].pos = op[f].from \/ op[f].pos <= Top
  /\ op[f].pos = op[f].from \/ op[f].pos = op[f].end \/ op[f].pos % Per = 0

\* It has written into block i.
Past(f, i) == op[f].from < op[f].pos /\ op[f].from < (i + 1) * Per /\ i * Per < op[f].pos

Behind(f) ==
  /\ \A p \in residue[f] : p >= ino[f].size /\ p >= op[f].end
  /\ \A i \in Indices : i >= NBlocks(MaxOf(ino[f].size, op[f].pos)) /\ Data(f, i) # 0 => i * Per \in residue[f]

Shown(f) ==
  \A p \in Positions :
    /\ content[f][p] # 0 => BlockOf(p) < Ends[f] /\ Data(f, BlockOf(p)) # 0
    /\ content[f][p] # 0 /\ f \in Files => p < ino[f].size
    /\ BlockOf(p) < Ends[f] /\ p \notin residue[f] =>
         \/ Word(f, p) = content[f][p]
         \/ f \in Files /\ op[f].stale /\ Past(f, BlockOf(p))

\* e is what the write will make of block i
Logs(f, e, i) ==
  /\ Past(f, i) /\ e[1] = Data(f, i) /\ e[1] # 0
  /\ \A k \in 0 .. Per - 1 :
       /\ op[f].from <= i * Per + k /\ i * Per + k < op[f].pos => e[2][k] = op[f].val
       /\ ~(op[f].from <= i * Per + k /\ i * Per + k < op[f].pos) /\ i * Per + k \notin residue[f] =>
            e[2][k] = content[f][i * Per + k]

Logged(f) ==
  /\ f \in Dirs => op[f].log = <<>>
  /\ \A j \in DOMAIN op[f].log : \E i \in Indices : Logs(f, op[f].log[j], i)
  /\ f \in Files => \A i \in Indices : Past(f, i) => \E j \in DOMAIN op[f].log : op[f].log[j][1] = Data(f, i)

CleanInv ==
  /\ Parted(Before, free, Ends) /\ Counts(Before, ino, Ends)
  /\ \A f \in Inodes : Behind(f) /\ Shown(f) /\ Logged(f)

IInv ==
  /\ TypeInv
  /\ \A f \in Inodes : OpInv(f)
  /\ WithinLimits => CleanInv

(***************************************************************************)
(* Facts that the actions share.                                           *)
(***************************************************************************)

\* How far an inode counts.
LEMMA EndIs ==
  ASSUME NEW a \in Nat, NEW b \in Nat
  PROVE  /\ MaxOf(a, b) \in Nat /\ MaxOf(a, b) >= a /\ MaxOf(a, b) >= b
         /\ NBlocks(MaxOf(a, b)) \in Nat
         /\ \A i \in Nat : i < NBlocks(MaxOf(a, b)) <=> i * Per < a \/ i * Per < b
<1>1. MaxOf(a, b) \in Nat /\ MaxOf(a, b) >= a /\ MaxOf(a, b) >= b /\ (MaxOf(a, b) = a \/ MaxOf(a, b) = b)
  BY DEF MaxOf
<1>2. NBlocks(MaxOf(a, b)) \in Nat /\ \A i \in Nat : i < NBlocks(MaxOf(a, b)) <=> i * Per < MaxOf(a, b)
  BY <1>1, NBlocksIs
<1>3. ASSUME NEW i \in Nat PROVE i * Per < MaxOf(a, b) <=> i * Per < a \/ i * Per < b
  <2>. DEFINE x == i * Per
  <2>1. x \in Nat
    BY SMT
  <2>. HIDE DEF x
  <2>2. x < MaxOf(a, b) <=> x < a \/ x < b
    BY <1>1, <2>1
  <2>. QED  BY <2>2 DEF x
<1>. QED  BY <1>1, <1>2, <1>3

\* The fields of an inode and of an operation.
LEMMA Fields ==
  ASSUME TypeInv, NEW f \in Inodes
  PROVE  /\ ino[f] \in Nodes /\ ino[f].size \in 0 .. Top /\ ino[f].size \in Nat /\ ino[f].blocks \in Int
         /\ op[f] \in Ops /\ op[f].pos \in Nat /\ op[f].from \in Nat /\ op[f].end \in Nat /\ op[f].val \in Words
         /\ op[f].log \in Seq(Blocks \X Bodies) /\ op[f].stale \in BOOLEAN
         /\ residue[f] \in SUBSET Positions /\ content[f] \in [Positions -> Words]
         /\ Top \in Nat /\ MaxIndex \in Nat
<1>1. Top \in Nat /\ MaxIndex \in Nat
  BY SMT DEF Top, MaxIndex
<1>2. ino[f] \in Nodes /\ op[f] \in Ops
  BY DEF TypeInv, Typed
<1>3. ino[f].size \in 0 .. Top /\ ino[f].blocks \in Int
  BY <1>2 DEF Nodes
<1>4. ino[f].size \in Nat
  BY <1>1, <1>3
<1>5. op[f].pos \in Nat /\ op[f].from \in Nat /\ op[f].end \in Nat /\ op[f].val \in Words
      /\ op[f].log \in Seq(Blocks \X Bodies) /\ op[f].stale \in BOOLEAN
  BY <1>2 DEF Ops
<1>6. residue[f] \in SUBSET Positions /\ content[f] \in [Positions -> Words]
  BY DEF TypeInv
<1>. QED  BY <1>1, <1>2, <1>3, <1>4, <1>5, <1>6

\* An index lies below Ends if some of it is in the file or in the range that
\* is being written.
LEMMA EndsIs ==
  ASSUME TypeInv, NEW f \in Inodes
  PROVE  /\ Ends[f] \in Nat
         /\ \A i \in Nat : i < Ends[f] <=> i * Per < ino[f].size \/ i * Per < op[f].end
<1>1. Ends[f] = NBlocks(MaxOf(ino[f].size, op[f].end))
  BY DEF Ends
<1>2. ino[f].size \in Nat /\ op[f].end \in Nat
  BY Fields
<1>3. /\ NBlocks(MaxOf(ino[f].size, op[f].end)) \in Nat
      /\ \A i \in Nat : i < NBlocks(MaxOf(ino[f].size, op[f].end)) <=> i * Per < ino[f].size \/ i * Per < op[f].end
  <2>. DEFINE a == ino[f].size
              b == op[f].end
  <2>1. a \in Nat /\ b \in Nat
    BY <1>2
  <2>. HIDE DEF a, b
  <2>2. NBlocks(MaxOf(a, b)) \in Nat /\ \A i \in Nat : i < NBlocks(MaxOf(a, b)) <=> i * Per < a \/ i * Per < b
    BY <2>1, EndIs
  <2>. QED  BY <2>2 DEF a, b
<1>. QED  BY <1>1, <1>3, Zenon

\* Positions and indices.
LEMMA PositionIs ==
  ASSUME NEW p \in Positions
  PROVE  /\ p \in Nat /\ BlockOf(p) \in Indices /\ BlockOf(p) \in Nat /\ p % Per \in 0 .. Per - 1
         /\ p = BlockOf(p) * Per + (p % Per)
<1>1. MaxIndex \in Nat /\ Top \in Nat
  BY SMT DEF Top, MaxIndex
<1>2. p \in Nat /\ p < Top
  BY <1>1 DEF Positions
<1>3. p < MaxIndex * Per
  BY <1>2 DEF Top
<1>4. p \div Per < MaxIndex
  BY <1>1, <1>2, <1>3, DivBelow
<1>5. p \div Per \in Nat
  BY <1>2, DivMod
<1>6. BlockOf(p) = p \div Per
  BY DEF BlockOf
<1>7. p % Per \in 0 .. Per - 1 /\ p = (p \div Per) * Per + (p % Per)
  BY <1>2, DivMod
<1>8. p \div Per \in Indices
  BY <1>1, <1>4, <1>5 DEF Indices
<1>. QED  BY <1>2, <1>5, <1>6, <1>7, <1>8

\* The position of a place in a block.
LEMMA SpotIs ==
  ASSUME NEW i \in Indices, NEW k \in 0 .. Per - 1
  PROVE  i * Per + k \in Positions /\ BlockOf(i * Per + k) = i /\ (i * Per + k) % Per = k /\ i \in Nat /\ i * Per \in Nat
<1>1. MaxIndex \in Nat
  BY SMT DEF MaxIndex
<1>2. i \in Nat /\ i + 1 <= MaxIndex
  BY <1>1 DEF Indices
<1>3. (i + 1) * Per <= MaxIndex * Per /\ (i + 1) * Per = i * Per + Per
  BY <1>1, <1>2, SMT
<1>4. i * Per \in Nat /\ i * Per + k \in Nat /\ i * Per + k < Top
  <2>. DEFINE x == i * Per
              y == MaxIndex * Per
  <2>1. x \in Nat /\ y \in Nat /\ x + Per <= y
    BY <1>1, <1>2, <1>3, SMT
  <2>. HIDE DEF x, y
  <2>2. x + k \in Nat /\ x + k < y
    BY <2>1
  <2>. QED  BY <2>1, <2>2 DEF x, y, Top
<1>5. i * Per + k \in Positions
  <2>. DEFINE x == i * Per + k
  <2>1. x \in Nat /\ x < Top /\ Top \in Nat
    BY <1>1, <1>4, SMT DEF Top
  <2>. HIDE DEF x
  <2>2. x \in Positions
    BY <2>1 DEF Positions
  <2>. QED  BY <2>2 DEF x
<1>. QED  BY <1>2, <1>4, <1>5, DivIs DEF BlockOf

\* The slots of data.
LEMMA DataIs ==
  ASSUME TypeInv, NEW f \in Inodes, NEW i \in Indices
  PROVE  /\ <<"data", i>> \in Slots /\ ~IsTable(<<"data", i>>)
         /\ \A top : Live(<<"data", i>>, top) <=> i < top
         /\ Data(f, i) = Before[f][<<"data", i>>] /\ Data(f, i) \in Words /\ Data(f, i) = Mapped(dev, ino[f], i)
<1>1. <<"data", i>> \in Slots
  BY SlotsAre DEF Indices
<1>2. ~IsTable(<<"data", i>>) /\ \A top : Live(<<"data", i>>, top) <=> i < top
  BY DEF IsTable, Live
<1>3. Before \in Pointers /\ Before[f][<<"data", i>>] = Ptr(dev, ino[f], <<"data", i>>)
  BY <1>1, BeforeIs DEF TypeInv
<1>4. Data(f, i) \in Words
  BY <1>1, <1>3 DEF Data, Pointers
<1>5. Ptr(dev, ino[f], <<"data", i>>) = Mapped(dev, ino[f], i)
  BY DEF Ptr
<1>. QED  BY <1>1, <1>2, <1>3, <1>4, <1>5 DEF Data

\* A slot that is no table is that of an index.
LEMMA NotTable ==
  ASSUME NEW y \in Slots, ~IsTable(y)
  PROVE  \E i \in Indices : y = <<"data", i>>
<1>1. y[1] = "data"
  BY DEF IsTable
<1>. QED  BY <1>1, SlotCases DEF Indices

\* Other ends, as long as what lies between points to nothing.
SameLive(P, t1, t2) == \A g \in Inodes, y \in Slots : P[g][y] # 0 => (Live(y, t1[g]) <=> Live(y, t2[g]))
SameCount(ns, ns2)  == \A g \in Inodes : ns2[g].blocks = ns[g].blocks

\* Moving the end over indices that have no block changes neither the partition
\* nor the counts.
LEMMA TopsSame ==
  ASSUME NEW P \in Pointers, NEW fr, NEW t1, NEW t2, NEW ns, NEW ns2,
         SameLive(P, t1, t2), SameCount(ns, ns2), Parted(P, fr, t1), Counts(P, ns, t1)
  PROVE  Parted(P, fr, t2) /\ Counts(P, ns2, t2)
<1>. USE DEF SameLive, SameCount
<1>1. Apart(P, t2)
  <2>. SUFFICES ASSUME NEW f \in Inodes, NEW g \in Inodes, NEW x \in Slots, NEW y \in Slots,
                       Live(x, t2[f]), Live(y, t2[g]), P[f][x] # 0, P[f][x] = P[g][y]
                PROVE  f = g /\ x = y
    BY DEF Apart
  <2>1. Live(x, t1[f]) /\ Live(y, t1[g])
    OBVIOUS
  <2>. QED  BY <2>1 DEF Parted, Apart
<1>2. NoneFree(P, fr, t2)
  BY DEF Parted, NoneFree
<1>3. AllReached(P, fr, t2)
  <2>. SUFFICES ASSUME NEW b \in Blocks \ fr PROVE \E f \in Inodes, x \in Slots : Live(x, t2[f]) /\ P[f][x] = b
    BY DEF AllReached
  <2>1. PICK f \in Inodes, x \in Slots : Live(x, t1[f]) /\ P[f][x] = b
    BY DEF Parted, AllReached
  <2>2. b # 0
    OBVIOUS
  <2>. QED  BY <2>1, <2>2
<1>4. ASSUME NEW g \in Inodes PROVE Own(P[g], t1[g]) = Own(P[g], t2[g])
  <2>. DEFINE A == Own(P[g], t1[g])
              B == Own(P[g], t2[g])
  <2>1. P[g] \in [Slots -> Words]
    BY DEF Pointers
  <2>2. /\ A \in SUBSET Blocks /\ B \in SUBSET Blocks
        /\ \A b \in Blocks : b \in A <=> \E x \in Slots : Live(x, t1[g]) /\ P[g][x] = b
        /\ \A b \in Blocks : b \in B <=> \E x \in Slots : Live(x, t2[g]) /\ P[g][x] = b
    BY <2>1, OwnIs
  <2>. HIDE DEF A, B
  <2>3. \A b \in Blocks : b \in A <=> b \in B
    <3>1. \A b \in Blocks : b # 0
      OBVIOUS
    <3>. QED  BY <2>2, <3>1
  <2>4. A = B
    BY <2>2, <2>3
  <2>. QED  BY <2>4 DEF A, B
<1>5. Counts(P, ns2, t2)
  BY <1>4 DEF Counts
<1>. QED  BY <1>1, <1>2, <1>3, <1>5 DEF Parted

\* An inode that a step leaves alone keeps its part of the invariant.
LEMMA Others ==
  ASSUME TypeInv, NEW g \in Inodes, Behind(g), Shown(g), Logged(g),
         op'[g] = op[g], residue'[g] = residue[g], content'[g] = content[g], ino'[g].size = ino[g].size,
         \A i \in Indices : Data(g, i)' = Data(g, i),
         \A i \in Indices : i < Ends[g] /\ Data(g, i) # 0 => dev'[Data(g, i)] = dev[Data(g, i)]
  PROVE  Behind(g)' /\ Shown(g)' /\ Logged(g)'
<1>1. Ends'[g] = Ends[g]
  BY DEF Ends
<1>2. \A i : Past(g, i)' <=> Past(g, i)
  BY DEF Past
<1>3. Behind(g)'
  BY DEF Behind
<1>4. Shown(g)'
  <2>. SUFFICES ASSUME NEW p \in Positions
                PROVE  /\ content[g][p] # 0 => BlockOf(p) < Ends[g] /\ Data(g, BlockOf(p))' # 0
                       /\ content[g][p] # 0 /\ g \in Files => p < ino[g].size
                       /\ BlockOf(p) < Ends[g] /\ p \notin residue[g] =>
                            Word(g, p)' = content[g][p] \/ (g \in Files /\ op[g].stale /\ Past(g, BlockOf(p)))
    BY <1>1, <1>2 DEF Shown
  <2>1. BlockOf(p) \in Indices
    BY PositionIs
  <2>2. BlockOf(p) < Ends[g] => Word(g, p)' = Word(g, p)
    BY <2>1 DEF Word, Entry
  <2>. QED  BY <2>1, <2>2 DEF Shown
<1>5. Logged(g)'
  <2>1. ASSUME NEW e, NEW i \in Indices, Logs(g, e, i) PROVE Logs(g, e, i)'
    BY <1>2, <2>1 DEF Logs
  <2>2. \A j \in DOMAIN op[g].log : \E i \in Indices : Logs(g, op[g].log[j], i)'
    BY <2>1 DEF Logged
  <2>. QED  BY <1>2, <2>2 DEF Logged, Logs
<1>. QED  BY <1>3, <1>4, <1>5

(***************************************************************************)
(* The actions that leave the device and the pointers alone.               *)
(***************************************************************************)

\* The limits: none is crossed that was not, and none by a step to a state within.
LEMMA CrossIs ==
  ASSUME NEW L \in SUBSET Limits, crossed \in SUBSET Limits, Cross(L)
  PROVE  crossed' \in SUBSET Limits /\ (WithinLimits' => WithinLimits /\ L = {})
<1>1. crossed' = crossed \cup L
  BY DEF Cross
<1>. QED  BY <1>1 DEF WithinLimits

\* A file that grows over no residue stays within the limits.
LEMMA RegrownIs ==
  ASSUME NEW f, NEW n
  PROVE  /\ Regrown(f, n) \in SUBSET Limits
         /\ Regrown(f, n) = {} => \A p \in residue[f] : p \notin 0 .. n - 1
  BY DEF Regrown, Limits

\* An idle operation.
LEMMA NoOpIs ==
  /\ NoOp \in Ops /\ NoOp.pos = 0 /\ NoOp.from = 0 /\ NoOp.end = 0 /\ NoOp.log = <<>> /\ NoOp.stale = FALSE
<1>1. <<>> \in Seq(Blocks \X Bodies) /\ 0 \in Words
  BY DEF Words
<1>. QED  BY <1>1 DEF NoOp, Ops

\* One inode's operation changes.
LEMMA OneOp ==
  ASSUME op \in [Inodes -> Ops], NEW f \in Inodes, NEW o \in Ops, op' = [op EXCEPT ![f] = o]
  PROVE  op' \in [Inodes -> Ops] /\ op'[f] = o /\ \A g \in Inodes : g # f => op'[g] = op[g]
  OBVIOUS

\* One inode changes.
LEMMA OneIno ==
  ASSUME ino \in [Inodes -> Nodes], NEW f \in Inodes, NEW n \in Nodes, ino' = [ino EXCEPT ![f] = n]
  PROVE  ino' \in [Inodes -> Nodes] /\ ino'[f] = n /\ \A g \in Inodes : g # f => ino'[g] = ino[g]
  OBVIOUS

\* An inode with another size.
Sized(n, z) == [n EXCEPT !.size = z]

\* An inode with another size.
LEMMA SizedIs ==
  ASSUME NEW n \in Nodes, NEW z \in 0 .. Top
  PROVE  /\ Sized(n, z) \in Nodes /\ Sized(n, z).size = z /\ Sized(n, z).blocks = n.blocks
         /\ Sized(n, z).direct = n.direct /\ Sized(n, z).table = n.table
  BY DEF Nodes, Sized

\* The pointers are the same if the entries and the tables are.
LEMMA SameBefore ==
  ASSUME Typed, NEW ns \in [Inodes -> Nodes], \A g \in Inodes : ns[g].direct = ino[g].direct /\ ns[g].table = ino[g].table
  PROVE  Ptrs(dev, ns) = Before
<1>1. ASSUME NEW g \in Inodes, NEW y \in Slots PROVE Ptr(dev, ns[g], y) = Ptr(dev, ino[g], y)
  <2>. DEFINE n == ino[g]
              m == ns[g]
  <2>1. n \in Nodes /\ m.direct = n.direct /\ m.table = n.table /\ dev \in [Blocks -> Bodies]
    BY DEF Typed
  <2>. HIDE DEF n, m
  <2>2. \A t \in Slots : InNode(t) => Home(m, t) = Home(n, t)
    BY <2>1 DEF Home
  <2>3. Ptr(dev, m, y) = Ptr(dev, n, y)
    BY <2>1, <2>2, SamePtr
  <2>. QED  BY <2>3 DEF n, m
<1>. QED  BY <1>1 DEF Ptrs, Before

\* From one inode's part and the frame to all.
LEMMA CleanStep ==
  ASSUME TypeInv, CleanInv, NEW f \in Inodes,
         Parted(Before, free, Ends)', Counts(Before, ino, Ends)', Behind(f)', Shown(f)', Logged(f)',
         \A g \in Inodes : g # f =>
           /\ op'[g] = op[g] /\ residue'[g] = residue[g] /\ content'[g] = content[g] /\ ino'[g].size = ino[g].size
           /\ \A i \in Indices : Data(g, i)' = Data(g, i)
           /\ \A i \in Indices : i < Ends[g] /\ Data(g, i) # 0 => dev'[Data(g, i)] = dev[Data(g, i)]
  PROVE  CleanInv'
<1>1. ASSUME NEW g \in Inodes, g # f PROVE Behind(g)' /\ Shown(g)' /\ Logged(g)'
  <2>1. Behind(g) /\ Shown(g) /\ Logged(g)
    BY DEF CleanInv
  <2>. QED  BY <1>1, <2>1, Others
<1>. QED  BY <1>1 DEF CleanInv

\* Busy is what it says.
LEMMA BusyIs == ASSUME NEW f PROVE Busy(f) <=> op[f].end # 0
  BY DEF Busy

\* What an inode at rest does not count is behind its end.
LEMMA Beyond ==
  ASSUME TypeInv, CleanInv, NEW f \in Inodes, NEW i \in Indices, Data(f, i) # 0, ~(i < Ends[f]), op[f].pos <= op[f].end
  PROVE  i * Per \in residue[f]
<1>1. i \in Nat /\ ino[f].size \in Nat /\ op[f].pos \in Nat /\ op[f].end \in Nat
  BY Fields DEF Indices
<1>2. ~(i * Per < ino[f].size) /\ ~(i * Per < op[f].end)
  BY <1>1, EndsIs
<1>3. ~(i * Per < op[f].pos)
  <2>1. i * Per \in Nat
    BY <1>1, SMT
  <2>. HIDE DEF BlockOf
  <2>. DEFINE x == i * Per
  <2>2. x \in Nat /\ ~(x < op[f].end)
    BY <1>2, <2>1
  <2>. HIDE DEF x
  <2>3. ~(x < op[f].pos)
    BY <1>1, <2>2
  <2>. QED  BY <2>3 DEF x
<1>4. NBlocks(MaxOf(ino[f].size, op[f].pos)) \in Nat /\ ~(i < NBlocks(MaxOf(ino[f].size, op[f].pos)))
  BY <1>1, <1>2, <1>3, EndIs
<1>5. i >= NBlocks(MaxOf(ino[f].size, op[f].pos))
  BY <1>1, <1>4
<1>. QED  BY <1>5 DEF CleanInv, Behind

(***************************************************************************)
(* An idle inode's end moves up: WriteBegin and TruncateUp.                *)
(***************************************************************************)

\* Nothing that it was cut off comes back, so the blocks it gains are holes.
LEMMA EndMoves ==
  ASSUME TypeInv, TypeInv', CleanInv, NEW f \in Inodes, op[f] = NoOp,
         dev' = dev, free' = free, content' = content, residue' = residue, Before' = Before,
         \A g \in Inodes : ino'[g].blocks = ino[g].blocks,
         \A g \in Inodes : g # f => op'[g] = op[g] /\ ino'[g].size = ino[g].size,
         op'[f].pos = op'[f].from, op'[f].log = <<>>, ino'[f].size >= ino[f].size,
         \A p \in residue[f] : p >= ino'[f].size /\ p >= op'[f].end
  PROVE  CleanInv'
<1>1. op[f].end = 0 /\ op[f].pos = 0 /\ op[f].from = 0
  BY NoOpIs
<1>2. ino[f].size \in Nat /\ residue[f] \in SUBSET Positions /\ content[f] \in [Positions -> Words]
  BY Fields
<1>3. ino'[f].size \in Nat /\ op'[f].end \in Nat /\ op'[f].pos \in Nat
  <2>1. ino' \in [Inodes -> Nodes] /\ op' \in [Inodes -> Ops]
    BY DEF TypeInv, Typed
  <2>2. ino'[f] \in Nodes /\ op'[f] \in Ops /\ Top \in Nat
    BY <2>1, Fields
  <2>. QED  BY <2>2 DEF Nodes, Ops
<1>4. (\A g, i : Data(g, i)' = Data(g, i)) /\ (\A g, p : Word(g, p)' = Word(g, p))
  BY DEF Data, Word
<1>5. Ends'[f] = NBlocks(MaxOf(ino'[f].size, op'[f].end)) /\ \A g \in Inodes : g # f => Ends'[g] = Ends[g]
  BY DEF Ends
<1>6. \A i \in Nat : i < Ends'[f] <=> i * Per < ino'[f].size \/ i * Per < op'[f].end
  <2>. DEFINE a == ino'[f].size
              b == op'[f].end
  <2>1. a \in Nat /\ b \in Nat
    BY <1>3
  <2>. HIDE DEF a, b
  <2>2. \A i \in Nat : i < NBlocks(MaxOf(a, b)) <=> i * Per < a \/ i * Per < b
    BY <2>1, EndIs
  <2>. QED  BY <1>5, <2>2, Zenon DEF a, b
<1>7. \A i \in Nat : i < Ends[f] <=> i * Per < ino[f].size \/ i * Per < op[f].end
  BY EndsIs
<1>8. \A i \in Indices : i \in Nat /\ i * Per \in Nat
  <2>1. 0 \in 0 .. Per - 1
    BY SMT
  <2>. QED  BY <2>1, SpotIs
<1>9. ASSUME NEW i \in Indices, i < Ends[f] PROVE i < Ends'[f]
  <2>1. i * Per \in Nat /\ i * Per < ino[f].size
    BY <1>1, <1>7, <1>8, <1>9
  <2>2. i * Per < ino'[f].size
    <3>. DEFINE x == i * Per
    <3>1. x \in Nat /\ x < ino[f].size
      BY <2>1
    <3>. HIDE DEF x
    <3>2. x < ino'[f].size
      BY <1>2, <1>3, <3>1
    <3>. QED  BY <3>2 DEF x
  <2>. QED  BY <1>6, <1>8, <2>2
\* between the old end and the new one there is nothing
<1>10. ASSUME NEW i \in Indices, ~(i < Ends[f]), i < Ends'[f] PROVE Data(f, i) = 0
  <2>. SUFFICES ASSUME Data(f, i) # 0 PROVE FALSE
    OBVIOUS
  <2>1. i * Per \in residue[f]
    BY <1>1, <1>10, Beyond
  <2>2. i * Per < ino'[f].size \/ i * Per < op'[f].end
    BY <1>6, <1>8, <1>10
  <2>. DEFINE x == i * Per
  <2>3. x \in Nat /\ x \in residue[f] /\ (x < ino'[f].size \/ x < op'[f].end)
    BY <1>8, <2>1, <2>2
  <2>. HIDE DEF x
  <2>. QED  BY <1>3, <2>3
<1>11. Parted(Before, free, Ends)' /\ Counts(Before, ino, Ends)'
  <2>1. Before \in Pointers
    BY BeforeIs DEF TypeInv
  <2>2. ASSUME NEW g \in Inodes, NEW y \in Slots, Before[g][y] # 0 PROVE Live(y, Ends[g]) <=> Live(y, Ends'[g])
    <3>1. CASE g # f
      BY <1>5, <3>1
    <3>2. CASE g = f /\ IsTable(y)
      BY <3>2 DEF IsTable, Live
    <3>3. CASE g = f /\ ~IsTable(y)
      <4>1. PICK i \in Indices : y = <<"data", i>>
        BY <3>3, NotTable
      <4>2. Data(f, i) # 0 /\ (Live(y, Ends[f]) <=> i < Ends[f]) /\ (Live(y, Ends'[f]) <=> i < Ends'[f])
        BY <2>2, <3>3, <4>1, DataIs
      <4>. QED  BY <1>9, <1>10, <3>3, <4>2
    <3>. QED  BY <3>1, <3>2, <3>3
  <2>3. Parted(Before, free, Ends) /\ Counts(Before, ino, Ends)
    BY DEF CleanInv
  <2>4. Parted(Before, free, Ends') /\ Counts(Before, ino', Ends')
    <3>0. PICK t, n : t = Ends' /\ n = ino'
      OBVIOUS
    <3>1. SameLive(Before, Ends, t)
      BY <2>2, <3>0 DEF SameLive
    <3>2. SameCount(ino, n)
      BY <3>0 DEF SameCount
    <3>3. Parted(Before, free, t) /\ Counts(Before, n, t)
      BY <2>1, <2>3, <3>1, <3>2, TopsSame
    <3>. QED  BY <3>0, <3>3
  <2>5. Parted(Before', free', Ends') /\ Counts(Before', ino', Ends')
    BY <2>4
  <2>. QED  BY <2>5 DEF Parted, Apart, NoneFree, AllReached, Counts
<1>12. Behind(f)'
  <2>1. ASSUME NEW i \in Indices, i >= NBlocks(MaxOf(ino'[f].size, op'[f].pos)), Data(f, i) # 0 PROVE i * Per \in residue[f]
    <3>. DEFINE x == i * Per
    <3>1. NBlocks(MaxOf(ino'[f].size, op'[f].pos)) \in Nat
          /\ (i < NBlocks(MaxOf(ino'[f].size, op'[f].pos)) <=> x < ino'[f].size \/ x < op'[f].pos)
      BY <1>3, <1>8, EndIs
    <3>2. x \in Nat
      BY <1>8
    <3>. HIDE DEF x
    <3>3. ~(x < ino'[f].size)
      BY <1>8, <2>1, <3>1
    <3>4. ~(x < ino[f].size) /\ ~(x < op[f].end)
      BY <1>1, <1>2, <1>3, <3>2, <3>3
    <3>5. ~(i < Ends[f])
      BY <1>7, <1>8, <3>4 DEF x
    <3>. QED  BY <1>1, <2>1, <3>5, Beyond
  <2>. QED  BY <1>4, <2>1 DEF Behind
<1>13. ASSUME NEW i PROVE ~Past(f, i) /\ ~Past(f, i)'
  BY <1>1, <1>3 DEF Past
<1>14. Shown(f)'
  <2>1. Shown(f)
    BY DEF CleanInv
  <2>. SUFFICES ASSUME NEW p \in Positions
                PROVE  /\ content[f][p] # 0 => BlockOf(p) < Ends'[f] /\ Data(f, BlockOf(p)) # 0
                       /\ content[f][p] # 0 /\ f \in Files => p < ino'[f].size
                       /\ BlockOf(p) < Ends'[f] /\ p \notin residue[f] => Word(f, p) = content[f][p]
    BY <1>4 DEF Shown
  <2>2. BlockOf(p) \in Indices /\ p \in Nat /\ content[f][p] \in Words
    BY <1>2, PositionIs
  <2>3. content[f][p] # 0 => BlockOf(p) < Ends'[f] /\ Data(f, BlockOf(p)) # 0
    BY <1>9, <2>1, <2>2 DEF Shown
  <2>4. content[f][p] # 0 /\ f \in Files => p < ino'[f].size
    <3>1. content[f][p] # 0 /\ f \in Files => p < ino[f].size
      BY <2>1 DEF Shown
    <3>. QED  BY <1>2, <1>3, <2>2, <3>1
  <2>5. ASSUME BlockOf(p) < Ends'[f], p \notin residue[f] PROVE Word(f, p) = content[f][p]
    <3>1. CASE BlockOf(p) < Ends[f]
      BY <1>13, <2>1, <2>5, <3>1 DEF Shown
    <3>2. CASE ~(BlockOf(p) < Ends[f])
      <4>1. content[f][p] = 0
        BY <2>1, <3>2 DEF Shown
      <4>2. Data(f, BlockOf(p)) = 0
        BY <1>10, <2>2, <2>5, <3>2
      <4>. QED  BY <4>1, <4>2 DEF Word, Entry
    <3>. QED  BY <3>1, <3>2
  <2>. QED  BY <2>3, <2>4, <2>5
<1>15. Logged(f)'
  BY <1>13 DEF Logged
<1>. QED  BY <1>4, <1>11, <1>12, <1>14, <1>15, CleanStep

(***************************************************************************)
(* WriteBegin.                                                             *)
(***************************************************************************)

\* A write begins: types and operations.
LEMMA BeginType ==
  ASSUME TypeInv, \A g \in Inodes : OpInv(g), NEW f \in Inodes, NEW q \in Ranges, NEW v \in Vals, WriteBegin(f, q, v)
  PROVE  /\ TypeInv' /\ \A g \in Inodes : OpInv(g)'
         /\ op'[f].pos = q[1] /\ op'[f].from = q[1] /\ op'[f].end = q[1] + q[2] /\ op'[f].log = <<>> /\ op'[f].end > 0
         /\ q[1] \in Nat /\ q[2] \in Nat /\ \A g \in Inodes : g # f => op'[g] = op[g]
<1>. DEFINE o == [pos |-> q[1], from |-> q[1], end |-> q[1] + q[2], val |-> v, log |-> <<>>, stale |-> FALSE]
<1>1. q[1] \in Nat /\ q[2] \in Nat /\ q[2] > 0 /\ v \in Words
  BY DEF Words
<1>2. <<>> \in Seq(Blocks \X Bodies) /\ q[1] + q[2] \in Nat
  BY <1>1
<1>4. o \in Ops /\ o.pos = q[1] /\ o.from = q[1] /\ o.end = q[1] + q[2] /\ o.log = <<>>
  BY <1>1, <1>2 DEF Ops
<1>5. op' = [op EXCEPT ![f] = o] /\ dev' = dev /\ free' = free /\ ino' = ino /\ content' = content /\ residue' = residue
  BY DEF WriteBegin
<1>. HIDE DEF o
<1>6. op' \in [Inodes -> Ops] /\ op'[f] = o /\ \A g \in Inodes : g # f => op'[g] = op[g]
  BY <1>4, <1>5, OneOp DEF TypeInv
<1>7. crossed' \in SUBSET Limits
  BY RegrownIs, CrossIs DEF WriteBegin, TypeInv
<1>8. TypeInv'
  BY <1>5, <1>6, <1>7 DEF TypeInv, Typed
<1>9. OpInv(f)'
  BY <1>1, <1>4, <1>6 DEF OpInv
<1>10. ASSUME NEW g \in Inodes PROVE OpInv(g)'
  <2>1. CASE g = f
    BY <1>9, <2>1
  <2>2. CASE g # f
    BY <1>6, <2>2 DEF OpInv
  <2>. QED  BY <2>1, <2>2
<1>. QED  BY <1>1, <1>4, <1>6, <1>8, <1>10

\* A write begins: the end of the range has no block behind the old one unless
\* a limit is crossed.
LEMMA BeginClean ==
  ASSUME IInv, NEW f \in Inodes, NEW q \in Ranges, NEW v \in Vals, WriteBegin(f, q, v), WithinLimits'
  PROVE  CleanInv'
<1>1. TypeInv /\ (\A g \in Inodes : OpInv(g)) /\ crossed \in SUBSET Limits
  BY DEF IInv, TypeInv
<1>2. /\ op'[f].pos = q[1] /\ op'[f].from = q[1] /\ op'[f].end = q[1] + q[2] /\ op'[f].log = <<>> /\ op'[f].end > 0
      /\ q[1] \in Nat /\ q[2] \in Nat /\ TypeInv' /\ \A g \in Inodes : g # f => op'[g] = op[g]
  BY <1>1, BeginType
<1>3. dev' = dev /\ free' = free /\ ino' = ino /\ content' = content /\ residue' = residue /\ ~Busy(f)
  BY DEF WriteBegin
<1>4. WithinLimits /\ Regrown(f, q[1] + q[2]) = {}
  BY <1>1, RegrownIs, CrossIs DEF WriteBegin
<1>5. CleanInv
  BY <1>4 DEF IInv
<1>6. op[f] = NoOp
  BY <1>1, <1>3, BusyIs DEF OpInv
<1>7. ino[f].size \in Nat /\ residue[f] \in SUBSET Positions
  BY <1>1, Fields
<1>8. \A p \in residue[f] : p >= ino[f].size /\ p >= q[1] + q[2]
  <2>1. ASSUME NEW p \in residue[f] PROVE p >= ino[f].size /\ p >= q[1] + q[2]
    <3>1. p \in Nat /\ p >= ino[f].size
      BY <1>5, <1>7, PositionIs DEF CleanInv, Behind
    <3>2. p \notin 0 .. (q[1] + q[2]) - 1
      BY <1>4, RegrownIs
    <3>. QED  BY <1>2, <3>1, <3>2
  <2>. QED  BY <2>1
<1>9. Before' = Before
  BY <1>3 DEF Before
<1>. QED  BY <1>1, <1>2, <1>3, <1>5, <1>6, <1>7, <1>8, <1>9, EndMoves

(***************************************************************************)
(* TruncateUp.                                                             *)
(***************************************************************************)

\* A truncate to a larger size: types and operations.
LEMMA UpType ==
  ASSUME TypeInv, \A g \in Inodes : OpInv(g), NEW f \in Inodes, NEW n \in Sizes, TruncateUp(f, n)
  PROVE  /\ TypeInv' /\ \A g \in Inodes : OpInv(g)'
         /\ ino'[f] = Sized(ino[f], n) /\ n \in 0 .. Top /\ \A g \in Inodes : g # f => ino'[g] = ino[g]
<1>1. n \in 0 .. Top
  BY DEF Top
<1>2. op' = op /\ dev' = dev /\ free' = free /\ content' = content /\ residue' = residue
  BY DEF TruncateUp
<1>3. ino' = [ino EXCEPT ![f] = Sized(ino[f], n)]
  BY DEF TruncateUp, Sized
<1>4. ino[f] \in Nodes /\ ino \in [Inodes -> Nodes]
  BY DEF TypeInv, Typed
<1>5. Sized(ino[f], n) \in Nodes
  BY <1>1, <1>4, SizedIs
<1>6. ino' \in [Inodes -> Nodes] /\ ino'[f] = Sized(ino[f], n) /\ \A g \in Inodes : g # f => ino'[g] = ino[g]
  BY <1>3, <1>4, <1>5, OneIno
<1>7. crossed' \in SUBSET Limits
  BY RegrownIs, CrossIs DEF TruncateUp, TypeInv
<1>8. TypeInv'
  BY <1>2, <1>6, <1>7 DEF TypeInv, Typed
<1>9. \A g \in Inodes : OpInv(g)'
  BY <1>2 DEF OpInv
<1>. QED  BY <1>1, <1>6, <1>8, <1>9

\* A truncate to a larger size shows only holes, or crosses a limit.
LEMMA UpClean ==
  ASSUME IInv, NEW f \in Inodes, NEW n \in Sizes, TruncateUp(f, n), WithinLimits'
  PROVE  CleanInv'
<1>1. TypeInv /\ (\A g \in Inodes : OpInv(g)) /\ crossed \in SUBSET Limits
  BY DEF IInv, TypeInv
<1>2. TypeInv' /\ ino'[f] = Sized(ino[f], n) /\ n \in 0 .. Top /\ \A g \in Inodes : g # f => ino'[g] = ino[g]
  BY <1>1, UpType
<1>3. op' = op /\ dev' = dev /\ free' = free /\ content' = content /\ residue' = residue /\ ~Busy(f) /\ n >= ino[f].size
  BY DEF TruncateUp
<1>4. WithinLimits /\ Regrown(f, n) = {}
  BY <1>1, RegrownIs, CrossIs DEF TruncateUp
<1>5. CleanInv
  BY <1>4 DEF IInv
<1>6. op[f] = NoOp
  BY <1>1, <1>3, BusyIs DEF OpInv
<1>7. ino[f].size \in Nat /\ residue[f] \in SUBSET Positions /\ ino[f] \in Nodes /\ Top \in Nat
  BY <1>1, Fields
<1>8. /\ ino'[f].size = n /\ ino'[f].blocks = ino[f].blocks /\ ino'[f].direct = ino[f].direct /\ ino'[f].table = ino[f].table
  BY <1>2, <1>7, SizedIs
<1>9. \A p \in residue[f] : p >= n /\ p >= op'[f].end
  <2>1. ASSUME NEW p \in residue[f] PROVE p >= n
    <3>1. p \in Nat
      BY <1>7, PositionIs
    <3>2. p \notin 0 .. n - 1
      BY <1>4, RegrownIs
    <3>. QED  BY <1>2, <1>7, <3>1, <3>2
  <2>2. op'[f].end = 0
    BY <1>3, <1>6, NoOpIs
  <2>3. \A p \in residue[f] : p \in Nat
    BY <1>7, PositionIs
  <2>. QED  BY <2>1, <2>2, <2>3
<1>10. Before' = Before
  <2>1. Typed /\ ino' \in [Inodes -> Nodes] /\ \A g \in Inodes : ino'[g].direct = ino[g].direct /\ ino'[g].table = ino[g].table
    BY <1>1, <1>2, <1>8 DEF TypeInv, Typed
  <2>2. Ptrs(dev, ino') = Before
    BY <2>1, SameBefore
  <2>. QED  BY <1>3, <2>2 DEF Before, Ptrs
<1>11. op'[f].pos = op'[f].from /\ op'[f].log = <<>>
  BY <1>3, <1>6, NoOpIs
<1>12. \A g \in Inodes : ino'[g].blocks = ino[g].blocks
  BY <1>2, <1>8
<1>13. \A g \in Inodes : g # f => op'[g] = op[g] /\ ino'[g].size = ino[g].size
  BY <1>2, <1>3
<1>. QED  BY <1>1, <1>2, <1>3, <1>5, <1>6, <1>8, <1>9, <1>10, <1>11, <1>12, <1>13, EndMoves

(***************************************************************************)
(* The end of a write: WriteEnd and CommitFails.                           *)
(***************************************************************************)

\* The pointers are the same if the entries are and no table is written.
LEMMA PtrsSame ==
  ASSUME Typed, NEW d \in [Blocks -> Bodies], NEW ns \in [Inodes -> Nodes],
         \A g \in Inodes : ns[g].direct = ino[g].direct /\ ns[g].table = ino[g].table,
         \A g \in Inodes, t \in Slots : IsTable(t) /\ Before[g][t] # 0 => d[Before[g][t]] = dev[Before[g][t]]
  PROVE  Ptrs(d, ns) = Before
<1>1. ASSUME NEW g \in Inodes, NEW y \in Slots PROVE Ptr(d, ns[g], y) = Ptr(dev, ino[g], y)
  <2>. DEFINE n == ino[g]
              m == ns[g]
  <2>1. n \in Nodes /\ m.direct = n.direct /\ m.table = n.table /\ dev \in [Blocks -> Bodies]
    BY DEF Typed
  <2>2. \A t \in Slots : IsTable(t) /\ Ptr(dev, n, t) # 0 => d[Ptr(dev, n, t)] = dev[Ptr(dev, n, t)]
    BY BeforeIs
  <2>. HIDE DEF n, m
  <2>3. \A t \in Slots : InNode(t) => Home(m, t) = Home(n, t)
    BY <2>1 DEF Home
  <2>4. Ptr(d, m, y) = Ptr(dev, n, y)
    BY <2>1, <2>2, <2>3, SamePtr
  <2>. QED  BY <2>4 DEF n, m
<1>. QED  BY <1>1 DEF Ptrs, Before

\* The size that a write leaves.
LEMMA GrowIs ==
  ASSUME TypeInv, NEW f \in Inodes, OpInv(f), Busy(f), op[f].pos = op[f].end, Grow(f)
  PROVE  /\ ino' \in [Inodes -> Nodes] /\ \A g \in Inodes : g # f => ino'[g] = ino[g]
         /\ ino'[f].size = MaxOf(ino[f].size, op[f].end) /\ ino'[f].blocks = ino[f].blocks
         /\ ino'[f].direct = ino[f].direct /\ ino'[f].table = ino[f].table
         /\ op[f].end <= Top /\ op[f].from < op[f].pos
<1>. DEFINE z == MaxOf(ino[f].size, op[f].end)
<1>1. /\ ino[f] \in Nodes /\ ino[f].size \in Nat /\ ino[f].size <= Top /\ op[f].end \in Nat /\ op[f].pos \in Nat
      /\ op[f].from \in Nat /\ Top \in Nat
  BY Fields
<1>2. op[f].end # 0 /\ op[f].from < op[f].end /\ op[f].end <= Top
  BY <1>1, BusyIs DEF OpInv
<1>3. z \in 0 .. Top
  BY <1>1, <1>2 DEF MaxOf
<1>4. ino' = [ino EXCEPT ![f] = Sized(ino[f], z)]
  BY DEF Grow, Sized
<1>. HIDE DEF z
<1>5. /\ Sized(ino[f], z) \in Nodes /\ Sized(ino[f], z).size = z /\ Sized(ino[f], z).blocks = ino[f].blocks
      /\ Sized(ino[f], z).direct = ino[f].direct /\ Sized(ino[f], z).table = ino[f].table
  BY <1>1, <1>3, SizedIs
<1>6. ino \in [Inodes -> Nodes]
  BY DEF TypeInv, Typed
<1>7. ino' \in [Inodes -> Nodes] /\ ino'[f] = Sized(ino[f], z) /\ \A g \in Inodes : g # f => ino'[g] = ino[g]
  BY <1>4, <1>5, <1>6, OneIno
<1>. QED  BY <1>2, <1>5, <1>7 DEF z

\* An operation ends.
LEMMA OpEnds ==
  ASSUME TypeInv, \A g \in Inodes : OpInv(g), NEW f \in Inodes, op' = [op EXCEPT ![f] = NoOp]
  PROVE  /\ op' \in [Inodes -> Ops] /\ op'[f] = NoOp /\ \A g \in Inodes : g # f => op'[g] = op[g]
         /\ \A g \in Inodes : OpInv(g)'
         /\ op'[f].pos = 0 /\ op'[f].from = 0 /\ op'[f].end = 0 /\ op'[f].log = <<>> /\ op'[f].stale = FALSE
<1>1. op' \in [Inodes -> Ops] /\ op'[f] = NoOp /\ \A g \in Inodes : g # f => op'[g] = op[g]
  BY NoOpIs, OneOp DEF TypeInv
<1>2. op'[f].pos = 0 /\ op'[f].from = 0 /\ op'[f].end = 0 /\ op'[f].log = <<>> /\ op'[f].stale = FALSE
  BY <1>1, NoOpIs
<1>3. ASSUME NEW g \in Inodes PROVE OpInv(g)'
  <2>1. CASE g = f
    BY <1>1, <1>2, <2>1 DEF OpInv
  <2>2. CASE g # f
    BY <1>1, <2>2 DEF OpInv
  <2>. QED  BY <2>1, <2>2
<1>. QED  BY <1>1, <1>2, <1>3

\* The words of a file after Gives.
LEMMA GivesIs ==
  ASSUME content \in [Inodes -> [Positions -> Words]], NEW f \in Inodes, NEW P, NEW v \in Words, Gives(f, P, v)
  PROVE  /\ content' \in [Inodes -> [Positions -> Words]]
         /\ \A p \in Positions : content'[f][p] = IF p \in P THEN v ELSE content[f][p]
         /\ \A g \in Inodes : g # f => content'[g] = content[g]
<1>. DEFINE c == [p \in Positions |-> IF p \in P THEN v ELSE content[f][p]]
<1>1. c \in [Positions -> Words] /\ \A p \in Positions : c[p] = IF p \in P THEN v ELSE content[f][p]
  OBVIOUS
<1>2. content' = [content EXCEPT ![f] = c]
  BY DEF Gives
<1>. HIDE DEF c
<1>. QED  BY <1>1, <1>2

\* A commit that fails: types, and a limit that is crossed.
LEMMA CommitType ==
  ASSUME TypeInv, \A g \in Inodes : OpInv(g), NEW f \in Inodes, CommitFails(f)
  PROVE  TypeInv' /\ (\A g \in Inodes : OpInv(g)') /\ ~WithinLimits'
<1>1. /\ dev' = dev /\ free' = free /\ content' = content /\ residue' = residue /\ op' = [op EXCEPT ![f] = NoOp]
      /\ Busy(f) /\ op[f].pos = op[f].end /\ Grow(f) /\ Cross({"uncommitted"})
  BY DEF CommitFails
<1>2. ino' \in [Inodes -> Nodes]
  BY <1>1, GrowIs
<1>3. op' \in [Inodes -> Ops] /\ \A g \in Inodes : OpInv(g)'
  BY <1>1, OpEnds
<1>4. {"uncommitted"} \in SUBSET Limits /\ {"uncommitted"} # {}
  BY DEF Limits
<1>5. crossed' \in SUBSET Limits /\ ~WithinLimits'
  BY <1>1, <1>4, CrossIs DEF TypeInv
<1>6. TypeInv'
  BY <1>1, <1>2, <1>3, <1>5 DEF TypeInv, Typed
<1>. QED  BY <1>3, <1>5, <1>6

\* A list of writes leaves a block as it was or as one of them makes it.
LEMMA OverlayIs ==
  ASSUME NEW d \in [Blocks -> Bodies], NEW ws \in Seq(Blocks \X Bodies)
  PROVE  /\ Overlay(d, ws) \in [Blocks -> Bodies]
         /\ \A b \in Blocks :
              \/ (\A j \in DOMAIN ws : ws[j][1] # b) /\ Overlay(d, ws)[b] = d[b]
              \/ \E j \in DOMAIN ws : ws[j][1] = b /\ Overlay(d, ws)[b] = ws[j][2]
<1>. DEFINE Hits(b) == {j \in DOMAIN ws : ws[j][1] = b}
            last(b) == CHOOSE i \in Hits(b) : \A j \in Hits(b) : j <= i
<1>1. \A b \in Blocks : Overlay(d, ws)[b] = IF Hits(b) = {} THEN d[b] ELSE ws[last(b)][2]
  BY DEF Overlay
<1>2. ASSUME NEW b \in Blocks, Hits(b) # {} PROVE last(b) \in Hits(b)
  <2>. DEFINE n == Len(ws)
              P(m) == \E j \in Hits(b) : j = n - m
  <2>1. n \in Nat /\ DOMAIN ws = 1 .. n
    OBVIOUS
  <2>. HIDE DEF n
  <2>2. PICK j \in Hits(b) : TRUE
    BY <1>2
  <2>3. j \in 1 .. n /\ n - j \in Nat
    BY <2>1, <2>2
  <2>4. \E m \in Nat : P(m)
    <3>1. j = n - (n - j)
      BY <2>1, <2>3
    <3>. QED  BY <2>3, <3>1
  <2>5. PICK m \in Nat : P(m) /\ \A l \in 0 .. m - 1 : ~P(l)
    <3>. DEFINE Q == {l \in Nat : P(l)}
    <3>1. Q \in SUBSET Nat /\ Q # {}
      BY <2>4
    <3>. HIDE DEF Q
    <3>2. PICK m \in Q : \A l \in Q : m <= l
      BY <3>1, Least
    <3>3. m \in Nat /\ P(m)
      BY <3>2 DEF Q
    <3>4. ASSUME NEW l \in 0 .. m - 1 PROVE ~P(l)
      <4>1. l \in Nat /\ l < m
        BY <3>3
      <4>. QED  BY <3>2, <3>3, <4>1 DEF Q
    <3>. QED  BY <3>3, <3>4
  <2>6. PICK i \in Hits(b) : i = n - m
    BY <2>5
  <2>7. ASSUME NEW l \in Hits(b) PROVE l <= i
    <3>1. l \in 1 .. n /\ i \in 1 .. n
      BY <2>1
    <3>2. CASE l > i
      <4>1. n - l \in 0 .. m - 1 /\ l = n - (n - l)
        BY <2>1, <2>5, <2>6, <3>1, <3>2
      <4>. QED  BY <2>5, <4>1
    <3>. QED  BY <3>1, <3>2
  <2>. QED  BY <2>7
<1>3. ASSUME NEW b \in Blocks
      PROVE  \/ (\A j \in DOMAIN ws : ws[j][1] # b) /\ Overlay(d, ws)[b] = d[b]
             \/ \E j \in DOMAIN ws : ws[j][1] = b /\ Overlay(d, ws)[b] = ws[j][2]
  BY <1>1, <1>2
<1>4. \A j \in DOMAIN ws : ws[j][2] \in Bodies
  OBVIOUS
<1>5. \A b \in Blocks : Overlay(d, ws)[b] \in Bodies
  BY <1>3, <1>4
<1>6. Overlay(d, ws) = [b \in Blocks |-> Overlay(d, ws)[b]]
  BY DEF Overlay
<1>. QED  BY <1>3, <1>5, <1>6

\* A write ends: types and operations.
LEMMA EndType ==
  ASSUME TypeInv, \A g \in Inodes : OpInv(g), NEW f \in Inodes, WriteEnd(f)
  PROVE  TypeInv' /\ (\A g \in Inodes : OpInv(g)')
<1>1. /\ free' = free /\ residue' = residue /\ crossed' = crossed /\ op' = [op EXCEPT ![f] = NoOp]
      /\ Busy(f) /\ op[f].pos = op[f].end /\ Grow(f) /\ dev' = Overlay(dev, op[f].log)
      /\ Gives(f, op[f].from .. op[f].end - 1, op[f].val) \/ content' = content
  BY DEF WriteEnd
<1>2. ino' \in [Inodes -> Nodes]
  BY <1>1, GrowIs
<1>3. op' \in [Inodes -> Ops] /\ \A g \in Inodes : OpInv(g)'
  BY <1>1, OpEnds
<1>4. dev' \in [Blocks -> Bodies]
  BY <1>1, Fields, OverlayIs DEF TypeInv, Typed
<1>5. content' \in [Inodes -> [Positions -> Words]]
  BY <1>1, Fields, GivesIs DEF TypeInv
<1>6. TypeInv'
  BY <1>1, <1>2, <1>3, <1>4, <1>5 DEF TypeInv, Typed
<1>. QED  BY <1>3, <1>6


\* A write has come to the blocks that it covers, which are counted.
LEMMA PastIs ==
  ASSUME TypeInv, NEW f \in Inodes, OpInv(f)
  PROVE  /\ \A i \in Indices : Past(f, i) => i < Ends[f]
         /\ \A p \in Positions : op[f].from <= p /\ p < op[f].pos => Past(f, BlockOf(p)) /\ p < op[f].end
<1>1. op[f].pos \in Nat /\ op[f].from \in Nat /\ op[f].end \in Nat
  BY Fields
<1>2. ASSUME op[f].from < op[f].pos PROVE op[f].pos <= op[f].end
  <2>1. op[f] = NoOp \/ op[f].pos <= op[f].end
    BY DEF OpInv
  <2>2. op[f] # NoOp
    BY <1>2, NoOpIs
  <2>. QED  BY <2>1, <2>2
<1>3. ASSUME NEW i \in Indices, Past(f, i) PROVE i < Ends[f]
  <2>. DEFINE x == i * Per
  <2>1. op[f].from < op[f].pos /\ x < op[f].pos
    BY <1>3 DEF Past
  <2>2. i \in Nat /\ x \in Nat
    <3>1. 0 \in 0 .. Per - 1
      BY SMT
    <3>. QED  BY <3>1, SpotIs
  <2>. HIDE DEF x
  <2>3. x < op[f].end
    BY <1>1, <1>2, <2>1, <2>2
  <2>. QED  BY <2>2, <2>3, EndsIs DEF x
<1>4. ASSUME NEW p \in Positions, op[f].from <= p, p < op[f].pos PROVE Past(f, BlockOf(p)) /\ p < op[f].end
  <2>. DEFINE i == BlockOf(p)
              x == i * Per
              k == p % Per
  <2>1. i \in Nat /\ p \in Nat /\ k \in 0 .. Per - 1 /\ p = x + k
    BY PositionIs
  <2>2. x \in Nat /\ (i + 1) * Per = x + Per
    <3>. HIDE DEF i
    <3>. QED  BY <2>1, SMT
  <2>. HIDE DEF i, x, k
  <2>3. x <= p /\ p < x + Per
    BY <2>1, <2>2
  <2>4. op[f].from < x + Per /\ x < op[f].pos /\ op[f].from < op[f].pos /\ p < op[f].end
    BY <1>1, <1>2, <1>4, <2>1, <2>2, <2>3
  <2>5. Past(f, i)
    BY <2>2, <2>4 DEF Past, x
  <2>. QED  BY <2>4, <2>5 DEF i
<1>. QED  BY <1>3, <1>4

\* Two indices that count do not share a block, nor does one with a table.
LEMMA DataApart ==
  ASSUME TypeInv, CleanInv, NEW f \in Inodes, NEW g \in Inodes, NEW i \in Indices, i < Ends[f], Data(f, i) # 0
  PROVE  /\ \A j \in Indices : j < Ends[g] /\ Data(g, j) = Data(f, i) => g = f /\ j = i
         /\ \A t \in Slots : IsTable(t) => Before[g][t] # Data(f, i)
         /\ Data(f, i) \notin free
<1>1. Apart(Before, Ends) /\ NoneFree(Before, free, Ends)
  BY DEF CleanInv, Parted
<1>2. <<"data", i>> \in Slots /\ Live(<<"data", i>>, Ends[f]) /\ Data(f, i) = Before[f][<<"data", i>>]
  BY DataIs
<1>3. ASSUME NEW j \in Indices, j < Ends[g], Data(g, j) = Data(f, i) PROVE g = f /\ j = i
  <2>1. <<"data", j>> \in Slots /\ Live(<<"data", j>>, Ends[g]) /\ Data(g, j) = Before[g][<<"data", j>>]
    BY <1>3, DataIs
  <2>2. g = f /\ <<"data", i>> = <<"data", j>>
    BY <1>1, <1>2, <1>3, <2>1 DEF Apart
  <2>. QED  BY <2>2
<1>4. ASSUME NEW t \in Slots, IsTable(t), Before[g][t] = Data(f, i) PROVE FALSE
  <2>1. Live(t, Ends[g])
    BY <1>4 DEF IsTable, Live
  <2>2. t = <<"data", i>>
    BY <1>1, <1>2, <1>4, <2>1 DEF Apart
  <2>. QED  BY <1>4, <2>2 DEF IsTable
<1>5. Data(f, i) \notin free
  BY <1>1, <1>2 DEF NoneFree
<1>. QED  BY <1>3, <1>4, <1>5

\* The write becomes what the file shows.
LEMMA EndClean ==
  ASSUME IInv, NEW f \in Inodes, WriteEnd(f), WithinLimits'
  PROVE  CleanInv'
<1>1. TypeInv /\ (\A g \in Inodes : OpInv(g)) /\ TypeInv'
  BY EndType DEF IInv
<1>2. /\ free' = free /\ residue' = residue /\ crossed' = crossed /\ op' = [op EXCEPT ![f] = NoOp]
      /\ Busy(f) /\ op[f].pos = op[f].end /\ Grow(f) /\ dev' = Overlay(dev, op[f].log)
      /\ f \in Files => Gives(f, op[f].from .. op[f].end - 1, op[f].val)
      /\ f \notin Files => content' = content
  BY DEF WriteEnd
<1>3. CleanInv
  BY <1>2 DEF IInv, WithinLimits
<1>4. Behind(f) /\ Shown(f) /\ Logged(f) /\ Parted(Before, free, Ends) /\ Counts(Before, ino, Ends)
  BY <1>3 DEF CleanInv
<1>5. /\ op'[f].pos = 0 /\ op'[f].from = 0 /\ op'[f].end = 0 /\ op'[f].log = <<>> /\ op'[f].stale = FALSE
      /\ \A g \in Inodes : g # f => op'[g] = op[g]
  BY <1>1, <1>2, OpEnds
<1>6. /\ ino' \in [Inodes -> Nodes] /\ \A g \in Inodes : g # f => ino'[g] = ino[g]
      /\ ino'[f].size = MaxOf(ino[f].size, op[f].end) /\ ino'[f].blocks = ino[f].blocks
      /\ ino'[f].direct = ino[f].direct /\ ino'[f].table = ino[f].table
      /\ op[f].end <= Top /\ op[f].from < op[f].pos
  BY <1>1, <1>2, GrowIs
<1>7. /\ ino[f].size \in Nat /\ op[f].pos \in Nat /\ op[f].from \in Nat /\ op[f].end \in Nat /\ op[f].val \in Words
      /\ op[f].log \in Seq(Blocks \X Bodies) /\ residue[f] \in SUBSET Positions
  BY <1>1, Fields
<1>8. /\ \A g \in Inodes : g # f => content'[g] = content[g]
      /\ \A p \in Positions : content'[f][p] = IF f \in Files /\ op[f].from <= p /\ p < op[f].end THEN op[f].val ELSE content[f][p]
  <2>1. CASE f \in Files
    <3>1. content \in [Inodes -> [Positions -> Words]]
      BY <1>1 DEF TypeInv
    <3>2. /\ \A p \in Positions : content'[f][p] = IF p \in op[f].from .. op[f].end - 1 THEN op[f].val ELSE content[f][p]
          /\ \A g \in Inodes : g # f => content'[g] = content[g]
      BY <1>2, <1>7, <2>1, <3>1, GivesIs
    <3>3. ASSUME NEW p \in Positions PROVE p \in op[f].from .. op[f].end - 1 <=> op[f].from <= p /\ p < op[f].end
      <4>. DEFINE a == op[f].from
                  b == op[f].end
      <4>1. a \in Nat /\ b \in Nat /\ p \in Nat
        BY <1>7, PositionIs
      <4>. HIDE DEF a, b
      <4>2. p \in a .. b - 1 <=> a <= p /\ p < b
        BY <4>1
      <4>. QED  BY <4>2 DEF a, b
    <3>. QED  BY <2>1, <3>2, <3>3
  <2>2. CASE f \notin Files
    BY <1>2, <2>2
  <2>. QED  BY <2>1, <2>2
\* each entry is of a block of f
<1>9. \A j \in DOMAIN op[f].log : \E i \in Indices : i < Ends[f] /\ Logs(f, op[f].log[j], i)
  <2>1. \A i \in Indices : Past(f, i) => i < Ends[f]
    BY <1>1, PastIs
  <2>2. \A j \in DOMAIN op[f].log : \E i \in Indices : Logs(f, op[f].log[j], i)
    BY <1>4 DEF Logged
  <2>. QED  BY <2>1, <2>2 DEF Logs
<1>10. ASSUME NEW b \in Blocks
       PROVE  \/ (\A j \in DOMAIN op[f].log : op[f].log[j][1] # b) /\ dev'[b] = dev[b]
              \/ \E j \in DOMAIN op[f].log : op[f].log[j][1] = b /\ dev'[b] = op[f].log[j][2]
  <2>. DEFINE ws == op[f].log
  <2>1. dev \in [Blocks -> Bodies] /\ ws \in Seq(Blocks \X Bodies) /\ dev' = Overlay(dev, ws)
    BY <1>1, <1>2, <1>7 DEF TypeInv, Typed
  <2>. HIDE DEF ws
  <2>2. \/ (\A j \in DOMAIN ws : ws[j][1] # b) /\ Overlay(dev, ws)[b] = dev[b]
        \/ \E j \in DOMAIN ws : ws[j][1] = b /\ Overlay(dev, ws)[b] = ws[j][2]
    BY <2>1, OverlayIs
  <2>. QED  BY <2>1, <2>2 DEF ws
<1>11. Before' = Before
  <2>1. ASSUME NEW g \in Inodes, NEW t \in Slots, IsTable(t), Before[g][t] # 0 PROVE dev'[Before[g][t]] = dev[Before[g][t]]
    <3>1. Before[g][t] \in Blocks
      BY <1>1, <2>1, BeforeIs DEF TypeInv, Pointers, Words
    <3>2. ASSUME NEW j \in DOMAIN op[f].log PROVE op[f].log[j][1] # Before[g][t]
      <4>1. PICK i \in Indices : i < Ends[f] /\ Logs(f, op[f].log[j], i)
        BY <1>9
      <4>. QED  BY <1>1, <1>3, <2>1, <4>1, DataApart DEF Logs
    <3>. QED  BY <1>10, <3>1, <3>2
  <2>2. \A g \in Inodes : ino'[g].direct = ino[g].direct /\ ino'[g].table = ino[g].table
    BY <1>6
  <2>3. dev' \in [Blocks -> Bodies] /\ Typed
    BY <1>1 DEF TypeInv, Typed
  <2>4. Ptrs(dev', ino') = Before
    BY <1>6, <2>1, <2>2, <2>3, PtrsSame
  <2>. QED  BY <2>4 DEF Before, Ptrs
<1>12. \A g, i : Data(g, i)' = Data(g, i)
  BY <1>11 DEF Data
<1>13. \A g \in Inodes : Ends'[g] = Ends[g]
  <2>1. MaxOf(MaxOf(ino[f].size, op[f].end), 0) = MaxOf(ino[f].size, op[f].end)
    BY <1>7 DEF MaxOf
  <2>2. Ends'[f] = Ends[f]
    BY <1>5, <1>6, <2>1 DEF Ends
  <2>3. \A g \in Inodes : g # f => Ends'[g] = Ends[g]
    BY <1>5, <1>6 DEF Ends
  <2>. QED  BY <2>2, <2>3
<1>14. Parted(Before, free, Ends)' /\ Counts(Before, ino, Ends)'
  <2>0. PICK t, n : t = Ends' /\ n = ino'
    OBVIOUS
  <2>1. SameLive(Before, Ends, t) /\ SameCount(ino, n)
    BY <1>6, <1>13, <2>0 DEF SameLive, SameCount
  <2>2. Before \in Pointers
    BY <1>1, BeforeIs DEF TypeInv
  <2>3. Parted(Before, free, t) /\ Counts(Before, n, t)
    BY <1>4, <2>1, <2>2, TopsSame
  <2>4. Parted(Before', free', Ends') /\ Counts(Before', ino', Ends')
    BY <1>2, <1>11, <2>0, <2>3
  <2>. QED  BY <2>4 DEF Parted, Apart, NoneFree, AllReached, Counts
<1>15. Behind(f)'
  <2>1. \A p \in residue[f] : p >= ino'[f].size /\ p >= op'[f].end
    <3>1. ASSUME NEW p \in residue[f] PROVE p >= MaxOf(ino[f].size, op[f].end) /\ p >= 0
      <4>1. p \in Nat /\ p >= ino[f].size /\ p >= op[f].end
        BY <1>4, <1>7, PositionIs DEF Behind
      <4>. QED  BY <1>7, <4>1 DEF MaxOf
    <3>. QED  BY <1>5, <1>6, <3>1
  <2>2. NBlocks(MaxOf(ino'[f].size, op'[f].pos)) = NBlocks(MaxOf(ino[f].size, op[f].pos))
    <3>1. MaxOf(MaxOf(ino[f].size, op[f].end), 0) = MaxOf(ino[f].size, op[f].pos)
      BY <1>2, <1>7 DEF MaxOf
    <3>. QED  BY <1>5, <1>6, <3>1
  <2>. QED  BY <1>2, <1>4, <1>12, <2>1, <2>2 DEF Behind
<1>16. ASSUME NEW i PROVE ~Past(f, i)'
  BY <1>5 DEF Past
<1>17. Logged(f)'
  BY <1>5, <1>16 DEF Logged
<1>18. Shown(f)'
  <2>. SUFFICES ASSUME NEW p \in Positions
                PROVE  /\ content'[f][p] # 0 => BlockOf(p) < Ends[f] /\ Data(f, BlockOf(p)) # 0
                       /\ content'[f][p] # 0 /\ f \in Files => p < ino'[f].size
                       /\ BlockOf(p) < Ends[f] /\ p \notin residue[f] =>
                            Entry(dev', Data(f, BlockOf(p)), p % Per) = content'[f][p]
    BY <1>2, <1>12, <1>13 DEF Shown, Word
  <2>1. BlockOf(p) \in Indices /\ p \in Nat /\ p % Per \in 0 .. Per - 1 /\ p = BlockOf(p) * Per + (p % Per)
    BY PositionIs
  <2>. DEFINE i == BlockOf(p)
              k == p % Per
              D == Data(f, i)
              In == f \in Files /\ op[f].from <= p /\ p < op[f].end
  <2>2. content'[f][p] = IF In THEN op[f].val ELSE content[f][p]
    BY <1>8
  <2>3. /\ content[f][p] # 0 => i < Ends[f] /\ D # 0
        /\ content[f][p] # 0 /\ f \in Files => p < ino[f].size
        /\ i < Ends[f] /\ p \notin residue[f] =>
              Entry(dev, D, k) = content[f][p] \/ (f \in Files /\ op[f].stale /\ Past(f, i))
    BY <1>4 DEF Shown, Word
  <2>4. In => Past(f, i) /\ f \in Files
    BY <1>1, <1>2, PastIs
  <2>5. Past(f, i) => i < Ends[f]
    BY <1>1, <2>1, PastIs
  \* the block that it has come to is in the log
  <2>6. ASSUME f \in Files, Past(f, i) PROVE \E j \in DOMAIN op[f].log : op[f].log[j][1] = D
    BY <1>4, <2>1, <2>6 DEF Logged
  <2>7. ASSUME NEW j \in DOMAIN op[f].log, op[f].log[j][1] = D PROVE D # 0 /\ (i < Ends[f] => Logs(f, op[f].log[j], i))
    <3>1. PICK l \in Indices : l < Ends[f] /\ Logs(f, op[f].log[j], l)
      BY <1>9
    <3>2. Data(f, l) = D /\ D # 0
      BY <2>7, <3>1 DEF Logs
    <3>3. i < Ends[f] => l = i
      BY <1>1, <1>3, <2>1, <3>1, <3>2, DataApart
    <3>. QED  BY <3>1, <3>2, <3>3
  <2>8. D \in Words
    BY <1>1, <2>1, DataIs
  <2>9. DOMAIN op[f].log # {} => f \in Files
    BY <1>4 DEF Logged, Inodes
  <2>. HIDE DEF i, k, D
  <2>10. content'[f][p] # 0 => i < Ends[f] /\ D # 0
    BY <2>2, <2>3, <2>4, <2>5, <2>6, <2>7
  <2>11. content'[f][p] # 0 /\ f \in Files => p < ino'[f].size
    <3>1. content'[f][p] # 0 /\ f \in Files => p < ino[f].size \/ p < op[f].end
      BY <2>2, <2>3
    <3>. QED  BY <1>6, <1>7, <2>1, <3>1 DEF MaxOf
  <2>12. ASSUME i < Ends[f], p \notin residue[f] PROVE Entry(dev', D, k) = content'[f][p]
    <3>1. CASE D = 0
      <4>1. ~In /\ ~(f \in Files /\ Past(f, i))
        BY <2>4, <2>6, <2>7, <3>1
      <4>2. content[f][p] = 0
        BY <2>3, <3>1
      <4>. QED  BY <2>2, <3>1, <4>1, <4>2 DEF Entry
    <3>2. CASE D # 0 /\ (\A j \in DOMAIN op[f].log : op[f].log[j][1] # D) /\ dev'[D] = dev[D]
      <4>1. ~In /\ ~(f \in Files /\ Past(f, i))
        BY <2>4, <2>6, <3>2
      <4>2. Entry(dev, D, k) = content[f][p]
        BY <2>3, <2>12, <4>1
      <4>. QED  BY <2>2, <3>2, <4>1, <4>2 DEF Entry
    <3>3. CASE D # 0 /\ \E j \in DOMAIN op[f].log : op[f].log[j][1] = D /\ dev'[D] = op[f].log[j][2]
      <4>1. PICK j \in DOMAIN op[f].log : op[f].log[j][1] = D /\ dev'[D] = op[f].log[j][2]
        BY <3>3
      <4>2. Logs(f, op[f].log[j], i) /\ f \in Files
        BY <2>7, <2>9, <2>12, <4>1
      <4>3. Entry(dev', D, k) = op[f].log[j][2][k]
        BY <3>3, <4>1 DEF Entry
      <4>4. In <=> op[f].from <= i * Per + k /\ i * Per + k < op[f].pos
        BY <1>2, <2>1, <4>2 DEF i, k
      <4>5. k \in 0 .. Per - 1 /\ p = i * Per + k
        BY <2>1 DEF i, k
      <4>6. CASE In
        <5>1. op[f].log[j][2][k] = op[f].val
          BY <4>2, <4>4, <4>5, <4>6 DEF Logs
        <5>. QED  BY <2>2, <4>3, <4>6, <5>1
      <4>7. CASE ~In
        <5>1. op[f].log[j][2][k] = content[f][p]
          BY <2>12, <4>2, <4>4, <4>5, <4>7 DEF Logs
        <5>. QED  BY <2>2, <4>3, <4>7, <5>1
      <4>. QED  BY <4>6, <4>7
    <3>4. D # 0 => D \in Blocks
      BY <2>8 DEF Words
    <3>. QED  BY <1>10, <3>1, <3>2, <3>3, <3>4
  <2>. QED  BY <2>10, <2>11, <2>12 DEF i, k, D
<1>19. ASSUME NEW g \in Inodes, g # f, NEW i \in Indices, i < Ends[g], Data(g, i) # 0 PROVE dev'[Data(g, i)] = dev[Data(g, i)]
  <2>1. Data(g, i) \in Blocks
    BY <1>1, <1>19, DataIs DEF Words
  <2>2. ASSUME NEW j \in DOMAIN op[f].log PROVE op[f].log[j][1] # Data(g, i)
    <3>1. PICK l \in Indices : l < Ends[f] /\ Logs(f, op[f].log[j], l)
      BY <1>9
    <3>. QED  BY <1>1, <1>3, <1>19, <3>1, DataApart DEF Logs
  <2>. QED  BY <1>10, <2>1, <2>2
<1>. QED  BY <1>1, <1>2, <1>3, <1>5, <1>6, <1>8, <1>12, <1>14, <1>15, <1>17, <1>18, <1>19, CleanStep

(***************************************************************************)
(* Truncating and freeing.                                                 *)
(***************************************************************************)

\* One inode f stops to point to some of its blocks, which are D.
Drops(P, P2, t1, t2, f) ==
  /\ \A g \in Inodes, y \in Slots : g # f => P2[g][y] = P[g][y] /\ (Live(y, t2[g]) <=> Live(y, t1[g]))
  /\ \A y \in Slots : Live(y, t2[f]) /\ P2[f][y] # 0 => Live(y, t1[f]) /\ P2[f][y] = P[f][y]

Dropped(P, P2, t1, t2, f, D) ==
  \A b \in Blocks : b \in D <=>
    \E y \in Slots : Live(y, t1[f]) /\ P[f][y] = b /\ ~(Live(y, t2[f]) /\ P2[f][y] # 0)

OwnsLess(P, P2, t1, t2, f, D) ==
  /\ Own(P2[f], t2[f]) = Own(P[f], t1[f]) \ D /\ D \subseteq Own(P[f], t1[f])
  /\ \A g \in Inodes : g # f => Own(P2[g], t2[g]) = Own(P[g], t1[g])

\* The blocks that are dropped are free, the rest is as it was.
LEMMA PartedDrops ==
  ASSUME NEW P \in Pointers, NEW P2 \in Pointers, NEW fr \in SUBSET Blocks, NEW t1, NEW t2, NEW f \in Inodes,
         NEW D \in SUBSET Blocks, Drops(P, P2, t1, t2, f), Dropped(P, P2, t1, t2, f, D), Parted(P, fr, t1)
  PROVE  Parted(P2, fr \cup D, t2) /\ OwnsLess(P, P2, t1, t2, f, D)
<1>1. \A g \in Inodes, y \in Slots : Live(y, t2[g]) /\ P2[g][y] # 0 => Live(y, t1[g]) /\ P2[g][y] = P[g][y]
  BY DEF Drops
<1>2. Apart(P, t1) /\ NoneFree(P, fr, t1) /\ AllReached(P, fr, t1)
  BY DEF Parted
<1>3. \A b \in Blocks : b # 0
  OBVIOUS
<1>4. \A g \in Inodes, y \in Slots : P[g][y] \in Words /\ P2[g][y] \in Words
  BY DEF Pointers
<1>5. Apart(P2, t2)
  <2>. SUFFICES ASSUME NEW g \in Inodes, NEW h \in Inodes, NEW y \in Slots, NEW z \in Slots,
                       Live(y, t2[g]), Live(z, t2[h]), P2[g][y] # 0, P2[g][y] = P2[h][z]
                PROVE  g = h /\ y = z
    BY DEF Apart
  <2>1. Live(y, t1[g]) /\ Live(z, t1[h]) /\ P[g][y] # 0 /\ P[g][y] = P[h][z]
    BY <1>1
  <2>. QED  BY <1>2, <2>1 DEF Apart
<1>6. NoneFree(P2, fr \cup D, t2)
  <2>. SUFFICES ASSUME NEW g \in Inodes, NEW y \in Slots, Live(y, t2[g]), P2[g][y] # 0 PROVE P2[g][y] \notin fr \cup D
    BY DEF NoneFree
  <2>1. Live(y, t1[g]) /\ P2[g][y] = P[g][y]
    BY <1>1
  <2>2. P[g][y] \notin fr
    BY <1>2, <2>1 DEF NoneFree
  <2>3. ASSUME P[g][y] \in D PROVE FALSE
    <3>1. P[g][y] \in Blocks
      BY <2>3
    <3>2. PICK z \in Slots : Live(z, t1[f]) /\ P[f][z] = P[g][y] /\ ~(Live(z, t2[f]) /\ P2[f][z] # 0)
      BY <2>3, <3>1 DEF Dropped
    <3>3. g = f /\ y = z
      BY <1>2, <2>1, <3>2 DEF Apart
    <3>. QED  BY <3>2, <3>3
  <2>. QED  BY <2>1, <2>2, <2>3
<1>7. AllReached(P2, fr \cup D, t2)
  <2>. SUFFICES ASSUME NEW b \in Blocks \ (fr \cup D) PROVE \E g \in Inodes, y \in Slots : Live(y, t2[g]) /\ P2[g][y] = b
    BY DEF AllReached
  <2>1. PICK g \in Inodes, y \in Slots : Live(y, t1[g]) /\ P[g][y] = b
    BY <1>2 DEF AllReached
  <2>2. CASE g # f
    BY <2>1, <2>2 DEF Drops
  <2>3. CASE g = f
    <3>1. Live(y, t2[f]) /\ P2[f][y] # 0
      BY <2>1, <2>3 DEF Dropped
    <3>. QED  BY <1>1, <2>1, <2>3, <3>1
  <2>. QED  BY <2>2, <2>3
<1>8. ASSUME NEW g \in Inodes
      PROVE  /\ Own(P[g], t1[g]) \in SUBSET Blocks /\ Own(P2[g], t2[g]) \in SUBSET Blocks
             /\ \A b \in Blocks : b \in Own(P[g], t1[g]) <=> \E x \in Slots : Live(x, t1[g]) /\ P[g][x] = b
             /\ \A b \in Blocks : b \in Own(P2[g], t2[g]) <=> \E x \in Slots : Live(x, t2[g]) /\ P2[g][x] = b
  <2>1. P[g] \in [Slots -> Words] /\ P2[g] \in [Slots -> Words]
    BY DEF Pointers
  <2>. QED  BY <2>1, OwnIs
<1>9. ASSUME NEW g \in Inodes, g # f PROVE Own(P2[g], t2[g]) = Own(P[g], t1[g])
  <2>1. \A b \in Blocks : b \in Own(P[g], t1[g]) <=> b \in Own(P2[g], t2[g])
    BY <1>8, <1>9 DEF Drops
  <2>. QED  BY <1>8, <2>1
<1>10. D \subseteq Own(P[f], t1[f])
  BY <1>8 DEF Dropped
<1>11. Own(P2[f], t2[f]) = Own(P[f], t1[f]) \ D
  <2>1. ASSUME NEW b \in Blocks, b \in Own(P2[f], t2[f]) PROVE b \in Own(P[f], t1[f]) /\ b \notin D
    <3>1. PICK x \in Slots : Live(x, t2[f]) /\ P2[f][x] = b
      BY <1>8, <2>1
    <3>2. Live(x, t1[f]) /\ P[f][x] = b
      BY <1>1, <1>3, <3>1
    <3>3. b \notin D
      BY <1>3, <1>6, <3>1 DEF NoneFree
    <3>. QED  BY <1>8, <3>2, <3>3
  <2>2. ASSUME NEW b \in Blocks, b \in Own(P[f], t1[f]), b \notin D PROVE b \in Own(P2[f], t2[f])
    <3>1. PICK x \in Slots : Live(x, t1[f]) /\ P[f][x] = b
      BY <1>8, <2>2
    <3>2. Live(x, t2[f]) /\ P2[f][x] # 0
      BY <2>2, <3>1 DEF Dropped
    <3>3. P2[f][x] = b
      BY <1>1, <3>1, <3>2
    <3>. QED  BY <1>8, <3>2, <3>3
  <2>. QED  BY <1>8, <2>1, <2>2
<1>. QED  BY <1>5, <1>6, <1>7, <1>9, <1>10, <1>11 DEF Parted, OwnsLess

\* What the loop of a shrinking truncate frees.
Hits(f, n, unread) == {i \in Surplus(f, n) \ unread : At(f, i) # 0}

\* An inode with another size and fewer blocks.
Shrunk(n, z, c) == [n EXCEPT !.size = z, !.blocks = n.blocks - c]

\* An inode that was cut.
LEMMA ShrunkIs ==
  ASSUME NEW n \in Nodes, NEW z \in 0 .. Top, NEW c \in Nat
  PROVE  /\ Shrunk(n, z, c) \in Nodes /\ Shrunk(n, z, c).size = z /\ Shrunk(n, z, c).blocks = n.blocks - c
         /\ Shrunk(n, z, c).direct = n.direct /\ Shrunk(n, z, c).table = n.table
<1>1. PICK m, b : m = [n EXCEPT !.size = z, !.blocks = b] /\ b = n.blocks - c
  OBVIOUS
<1>2. m.size = z /\ m.blocks = b /\ m.direct = n.direct /\ m.table = n.table
  BY <1>1 DEF Nodes
<1>3. m = [size |-> m.size, blocks |-> m.blocks, direct |-> m.direct, table |-> m.table]
  BY <1>1 DEF Nodes
<1>4. b \in Int
  BY <1>1 DEF Nodes
<1>5. [size |-> m.size, blocks |-> m.blocks, direct |-> m.direct, table |-> m.table] \in Nodes
  BY <1>2, <1>4 DEF Nodes
<1>. QED  BY <1>1, <1>2, <1>3, <1>5 DEF Shrunk

\* What a truncate frees are blocks, and finitely many.
LEMMA HitsAre ==
  ASSUME TypeInv, NEW f \in Inodes, NEW n \in Nat, NEW unread
  PROVE  /\ IsFiniteSet(Hits(f, n, unread)) /\ Cardinality(Hits(f, n, unread)) \in Nat
         /\ {At(f, i) : i \in Hits(f, n, unread)} \in SUBSET Blocks
         /\ \A i \in Hits(f, n, unread) : i \in Nat
<1>1. ino[f].size \in Nat
  BY Fields
<1>2. NBlocks(n) \in Nat /\ NBlocks(ino[f].size) \in Nat
  BY <1>1, NBlocksIs, SMT
<1>3. IsFiniteSet(Surplus(f, n)) /\ \A i \in Surplus(f, n) : i \in Nat
  BY <1>2, FS_Interval DEF Surplus
<1>4. Hits(f, n, unread) \subseteq Surplus(f, n)
  BY DEF Hits
<1>5. IsFiniteSet(Hits(f, n, unread)) /\ Cardinality(Hits(f, n, unread)) \in Nat
  BY <1>3, <1>4, FS_Subset, FS_CardinalityType
<1>6. ASSUME NEW i \in Hits(f, n, unread) PROVE At(f, i) \in Blocks /\ i \in Nat
  <2>1. i \in Nat /\ At(f, i) # 0
    BY <1>3, <1>6 DEF Hits
  <2>2. i % Wrap \in Nat
    BY <2>1, SMT
  <2>3. ino[f] \in Nodes /\ dev \in [Blocks -> Bodies]
    BY Fields DEF TypeInv, Typed
  <2>4. At(f, i) \in Words
    BY <2>2, <2>3, MappedType DEF At
  <2>. QED  BY <2>1, <2>4 DEF Words
<1>. QED  BY <1>5, <1>6

\* What the loop of inode_truncate leaves in the inode and the bitmap.
LEMMA ShrinkType ==
  ASSUME TypeInv, NEW f \in Inodes, NEW n \in 0 .. Top, NEW unread, Shrink(f, n, unread)
  PROVE  /\ ino' \in [Inodes -> Nodes] /\ \A g \in Inodes : g # f => ino'[g] = ino[g]
         /\ ino'[f].size = n /\ ino'[f].blocks = ino[f].blocks - Cardinality(Hits(f, n, unread))
         /\ ino'[f].direct = ino[f].direct /\ ino'[f].table = ino[f].table
         /\ free' = free \cup {At(f, i) : i \in Hits(f, n, unread)} /\ free' \in SUBSET Blocks
<1>. DEFINE c == Cardinality(Hits(f, n, unread))
<1>1. n \in Nat /\ ino[f] \in Nodes /\ ino \in [Inodes -> Nodes] /\ free \in SUBSET Blocks
  BY Fields DEF TypeInv, Typed
<1>2. c \in Nat /\ {At(f, i) : i \in Hits(f, n, unread)} \in SUBSET Blocks
  BY <1>1, HitsAre
<1>3. free' = free \cup {At(f, i) : i \in Hits(f, n, unread)} /\ ino' = [ino EXCEPT ![f] = Shrunk(ino[f], n, c)]
  BY DEF Shrink, Hits, Shrunk
<1>. HIDE DEF c
<1>4. /\ Shrunk(ino[f], n, c) \in Nodes /\ Shrunk(ino[f], n, c).size = n /\ Shrunk(ino[f], n, c).blocks = ino[f].blocks - c
      /\ Shrunk(ino[f], n, c).direct = ino[f].direct /\ Shrunk(ino[f], n, c).table = ino[f].table
  BY <1>1, <1>2, ShrunkIs
<1>5. ino' \in [Inodes -> Nodes] /\ ino'[f] = Shrunk(ino[f], n, c) /\ \A g \in Inodes : g # f => ino'[g] = ino[g]
  BY <1>1, <1>3, <1>4, OneIno
<1>. QED  BY <1>1, <1>2, <1>3, <1>4, <1>5 DEF c


\* Within the limits, the loop visits what lies behind the new size.
LEMMA HitsIs ==
  ASSUME TypeInv, NEW f \in Inodes, NEW n \in Nat, NEW unread, Wide(f) = {}, \A i \in unread : At(f, i) = 0
  PROVE  \A i : i \in Hits(f, n, unread) <=>
                  i \in Indices /\ ~(i * Per < n) /\ i * Per < ino[f].size /\ Data(f, i) # 0
<1>1. /\ ino[f].size \in Nat /\ ino[f].size <= Top /\ Top \in Nat /\ MaxIndex \in Nat
  BY Fields
<1>2. NBlocks(n) \in Nat /\ NBlocks(ino[f].size) \in Nat
  BY <1>1, NBlocksIs
<1>3. NBlocks(ino[f].size) <= Wrap
  BY <1>1, <1>2 DEF Wide
<1>4. ASSUME NEW i \in Nat, i < NBlocks(ino[f].size) PROVE At(f, i) = Mapped(dev, ino[f], i)
  <2>1. i < Wrap
    BY <1>2, <1>3, <1>4
  <2>2. i % Wrap = i
    BY <2>1, SMT
  <2>. QED  BY <2>2 DEF At
<1>5. ASSUME NEW i \in Nat PROVE i * Per \in Nat /\ (i * Per < ino[f].size => i \in Indices)
  <2>1. 0 \in 0 .. Per - 1
    BY SMT
  <2>2. i * Per \in Nat /\ (i * Per) \div Per = i
    <3>1. (i * Per + 0) \div Per = i
      BY <2>1, DivIs
    <3>2. i * Per \in Nat
      BY SMT
    <3>3. i * Per + 0 = i * Per
      BY <3>2
    <3>. QED  BY <3>1, <3>2, <3>3
  <2>3. i < MaxIndex <=> i * Per < MaxIndex * Per
    BY <1>1, <2>2, DivBelow
  <2>4. ASSUME i * Per < ino[f].size PROVE i * Per < MaxIndex * Per
    <3>. DEFINE x == i * Per
                y == MaxIndex * Per
    <3>1. x \in Nat /\ y = Top /\ x < ino[f].size
      BY <2>2, <2>4 DEF Top
    <3>. HIDE DEF x, y
    <3>2. x < y
      BY <1>1, <3>1
    <3>. QED  BY <3>2 DEF x, y
  <2>5. i * Per < ino[f].size => i \in Indices
    BY <1>1, <2>3, <2>4 DEF Indices
  <2>. QED  BY <2>2, <2>5
<1>6. ASSUME NEW i \in Hits(f, n, unread)
      PROVE  i \in Indices /\ ~(i * Per < n) /\ i * Per < ino[f].size /\ Data(f, i) # 0
  <2>1. i \in Nat /\ i >= NBlocks(n) /\ i < NBlocks(ino[f].size) /\ At(f, i) # 0
    BY <1>2 DEF Hits, Surplus
  <2>2. ~(i < NBlocks(n))
    BY <1>2, <2>1
  <2>3. ~(i * Per < n) /\ i * Per < ino[f].size
    BY <1>1, <2>1, <2>2, NBlocksIs
  <2>4. i \in Indices /\ Mapped(dev, ino[f], i) # 0
    BY <1>4, <1>5, <2>1, <2>3
  <2>. QED  BY <2>3, <2>4, DataIs
<1>7. ASSUME NEW i \in Indices, ~(i * Per < n), i * Per < ino[f].size, Data(f, i) # 0 PROVE i \in Hits(f, n, unread)
  <2>1. i \in Nat
    BY <1>1 DEF Indices
  <2>2. ~(i < NBlocks(n)) /\ i < NBlocks(ino[f].size)
    BY <1>1, <1>7, <2>1, NBlocksIs
  <2>3. i \in Surplus(f, n)
    BY <1>2, <2>1, <2>2 DEF Surplus
  <2>4. At(f, i) # 0
    BY <1>4, <1>7, <2>1, <2>2, DataIs
  <2>. QED  BY <2>3, <2>4 DEF Hits
<1>. QED  BY <1>6, <1>7

\* And each of them at its own index.
LEMMA HitsAt ==
  ASSUME TypeInv, NEW f \in Inodes, NEW n \in Nat, NEW unread, Wide(f) = {}, \A i \in unread : At(f, i) = 0
  PROVE  \A i \in Hits(f, n, unread) : At(f, i) = Data(f, i)
<1>1. /\ ino[f].size \in Nat /\ ino[f].size <= Top /\ Top \in Nat /\ MaxIndex \in Nat
  BY Fields
<1>2. NBlocks(n) \in Nat /\ NBlocks(ino[f].size) \in Nat
  BY <1>1, NBlocksIs
<1>3. NBlocks(ino[f].size) <= Wrap
  BY <1>1, <1>2 DEF Wide
<1>4. ASSUME NEW i \in Hits(f, n, unread) PROVE At(f, i) = Data(f, i)
  <2>1. i \in Nat /\ i < NBlocks(ino[f].size)
    BY <1>2 DEF Hits, Surplus
  <2>2. i < Wrap
    BY <1>2, <1>3, <2>1
  <2>3. i % Wrap = i
    BY <2>1, <2>2, SMT
  <2>4. i \in Indices
    BY <1>4, HitsIs
  <2>. QED  BY <2>3, <2>4, DataIs DEF At
<1>. QED  BY <1>4

\* As many blocks are dropped as indices are visited.
LEMMA HitsCount ==
  ASSUME TypeInv, CleanInv, NEW f \in Inodes, NEW n \in Nat, NEW unread, Wide(f) = {}, \A i \in unread : At(f, i) = 0
  PROVE  /\ IsFiniteSet({At(f, i) : i \in Hits(f, n, unread)})
         /\ Cardinality({At(f, i) : i \in Hits(f, n, unread)}) = Cardinality(Hits(f, n, unread))
<1>. DEFINE H == Hits(f, n, unread)
            D == {At(f, i) : i \in H}
            m == [i \in H |-> At(f, i)]
<1>1. IsFiniteSet(H)
  BY HitsAre
<1>2. ASSUME NEW i \in H, NEW j \in H, At(f, i) = At(f, j) PROVE i = j
  <2>1. At(f, i) = Data(f, i) /\ At(f, j) = Data(f, j)
    BY HitsAt
  <2>2. /\ i \in Indices /\ i * Per < ino[f].size /\ Data(f, i) # 0
        /\ j \in Indices /\ j * Per < ino[f].size
    BY HitsIs
  <2>3. i \in Nat /\ j \in Nat
    BY HitsAre
  <2>4. i < Ends[f] /\ j < Ends[f]
    BY <2>2, <2>3, EndsIs
  <2>. QED  BY <1>2, <2>1, <2>2, <2>4, DataApart
<1>3. m \in Bijection(H, D)
  <2>. HIDE DEF H
  <2>1. m \in [H -> D] /\ \A d \in D : \E i \in H : m[i] = d
    OBVIOUS
  <2>2. \A i, j \in H : m[i] = m[j] => i = j
    BY <1>2
  <2>. QED  BY <2>1, <2>2 DEF Bijection, Injection, Surjection, IsInjective
<1>4. ExistsBijection(H, D)
  BY <1>3 DEF ExistsBijection
<1>. HIDE DEF H, D
<1>5. IsFiniteSet(D) /\ Cardinality(D) = Cardinality(H)
  BY <1>1, <1>4, FS_Bijection
<1>. QED  BY <1>5 DEF H, D

\* The end of an idle file.
LEMMA IdleEnd ==
  ASSUME TypeInv, NEW f \in Inodes, op[f] = NoOp
  PROVE  Ends[f] \in Nat /\ \A i \in Nat : i < Ends[f] <=> i * Per < ino[f].size
<1>1. op[f].end = 0
  BY NoOpIs
<1>2. Ends[f] \in Nat /\ \A i \in Nat : i < Ends[f] <=> i * Per < ino[f].size \/ i * Per < op[f].end
  BY EndsIs
<1>3. \A i \in Nat : ~(i * Per < 0)
  BY SMT
<1>. QED  BY <1>1, <1>2, <1>3


\* What Forget and the residue become.
LEMMA ForgetIs ==
  ASSUME TypeInv, NEW f \in Inodes, NEW n \in Nat, Forget(f, n)
  PROVE  /\ content' \in [Inodes -> [Positions -> Words]]
         /\ \A p \in Positions : content'[f][p] = IF p < n THEN content[f][p] ELSE 0
         /\ \A g \in Inodes : g # f => content'[g] = content[g]
<1>1. Gives(f, n .. Top - 1, 0) /\ 0 \in Words /\ content \in [Inodes -> [Positions -> Words]]
  BY DEF Forget, Words, TypeInv
<1>2. /\ content' \in [Inodes -> [Positions -> Words]]
      /\ \A p \in Positions : content'[f][p] = IF p \in n .. Top - 1 THEN 0 ELSE content[f][p]
      /\ \A g \in Inodes : g # f => content'[g] = content[g]
  <2>. DEFINE P == n .. Top - 1
              v == 0
  <2>1. Gives(f, P, v) /\ v \in Words
    BY <1>1
  <2>. HIDE DEF P, v
  <2>2. /\ content' \in [Inodes -> [Positions -> Words]]
        /\ \A p \in Positions : content'[f][p] = IF p \in P THEN v ELSE content[f][p]
        /\ \A g \in Inodes : g # f => content'[g] = content[g]
    BY <1>1, <2>1, GivesIs
  <2>. QED  BY <2>2 DEF P, v
<1>3. ASSUME NEW p \in Positions PROVE p \in n .. Top - 1 <=> ~(p < n)
  <2>1. p \in Nat /\ p < Top /\ Top \in Nat
    <3>1. Top \in Nat
      BY SMT DEF Top, MaxIndex
    <3>2. p \in 0 .. Top - 1
      BY DEF Positions
    <3>. HIDE DEF Top
    <3>. QED  BY <3>1, <3>2
  <2>. HIDE DEF Top
  <2>. QED  BY <2>1
<1>. QED  BY <1>2, <1>3

\* The positions that a truncate leaves with their words behind the end.
LEMMA CutOffIs ==
  ASSUME TypeInv, NEW f \in Inodes, NEW n \in Nat
  PROVE  /\ CutOff(f, n) \in SUBSET Positions
         /\ \A p \in Positions : p \in CutOff(f, n) <=> ~(p < n) /\ p < ino[f].size /\ Data(f, BlockOf(p)) # 0
<1>1. ino[f].size \in Nat /\ ino[f].size <= Top /\ Top \in Nat
  BY Fields
<1>. DEFINE z == ino[f].size
<1>2. \A p \in Positions : BlockOf(p) \in Indices /\ Mapped(dev, ino[f], BlockOf(p)) = Data(f, BlockOf(p))
  BY PositionIs, DataIs
<1>3. \A p \in n .. z - 1 : p \in Nat /\ p < Top
  <2>. HIDE DEF z
  <2>1. z \in Nat /\ z <= Top
    BY <1>1 DEF z
  <2>. QED  BY <1>1, <2>1
<1>4. \A p \in n .. z - 1 : p \in Positions
  <2>. HIDE DEF z
  <2>1. ASSUME NEW p \in n .. z - 1 PROVE p \in Positions
    <3>1. p \in Nat /\ p < Top
      BY <1>3
    <3>2. p \in 0 .. Top - 1
      BY <1>1, <3>1
    <3>. QED  BY <3>2 DEF Positions
  <2>. QED  BY <2>1
<1>5. ASSUME NEW p \in Positions PROVE p \in n .. z - 1 <=> ~(p < n) /\ p < z
  <2>1. p \in Nat /\ z \in Nat
    BY <1>1, PositionIs
  <2>. HIDE DEF z
  <2>. QED  BY <2>1
<1>6. CutOff(f, n) = {p \in n .. z - 1 : Mapped(dev, ino[f], BlockOf(p)) # 0}
  BY DEF CutOff
<1>. HIDE DEF z
<1>7. ASSUME NEW p \in Positions PROVE p \in CutOff(f, n) <=> ~(p < n) /\ p < z /\ Data(f, BlockOf(p)) # 0
  BY <1>2, <1>5, <1>6
<1>. QED  BY <1>4, <1>6, <1>7 DEF z

\* A file that shrinks keeps what lies before its new end.
LEMMA ShrinkClean ==
  ASSUME TypeInv, TypeInv', CleanInv, NEW f \in Files, NEW n \in 0 .. Top, n < ino[f].size, op[f] = NoOp,
         NEW unread, Shrink(f, n, unread), Wide(f) = {}, \A i \in unread : At(f, i) = 0,
         residue' = [residue EXCEPT ![f] = @ \cup CutOff(f, n)], Forget(f, n), dev' = dev, op' = op
  PROVE  CleanInv'
<1>1. f \in Inodes /\ n \in Nat
  BY Fields DEF Inodes
<1>2. /\ ino' \in [Inodes -> Nodes] /\ \A g \in Inodes : g # f => ino'[g] = ino[g]
      /\ ino'[f].size = n /\ ino'[f].blocks = ino[f].blocks - Cardinality(Hits(f, n, unread))
      /\ ino'[f].direct = ino[f].direct /\ ino'[f].table = ino[f].table
      /\ free' = free \cup {At(f, i) : i \in Hits(f, n, unread)}
  BY <1>1, ShrinkType
<1>3. /\ ino[f].size \in Nat /\ residue[f] \in SUBSET Positions /\ op[f].pos = 0 /\ op[f].from = 0 /\ op[f].end = 0
      /\ op[f].log = <<>>
  BY <1>1, Fields, NoOpIs
<1>4. Behind(f) /\ Shown(f) /\ Logged(f) /\ Parted(Before, free, Ends) /\ Counts(Before, ino, Ends)
  BY <1>1 DEF CleanInv
<1>5. Before' = Before
  <2>1. Typed /\ ino' \in [Inodes -> Nodes] /\ \A g \in Inodes : ino'[g].direct = ino[g].direct /\ ino'[g].table = ino[g].table
    BY <1>2 DEF TypeInv
  <2>2. Ptrs(dev, ino') = Before
    BY <2>1, SameBefore
  <2>. QED  BY <2>2 DEF Before, Ptrs
<1>6. \A g, i : Data(g, i)' = Data(g, i)
  BY <1>5 DEF Data
<1>7. Ends[f] \in Nat /\ \A i \in Nat : i < Ends[f] <=> i * Per < ino[f].size
  BY <1>1, IdleEnd
<1>8. /\ Ends'[f] \in Nat /\ \A i \in Nat : i < Ends'[f] <=> i * Per < n
      /\ \A g \in Inodes : g # f => Ends'[g] = Ends[g]
  <2>1. Ends'[f] = NBlocks(MaxOf(n, 0))
    BY <1>1, <1>2, <1>3 DEF Ends
  <2>2. NBlocks(MaxOf(n, 0)) \in Nat /\ \A i \in Nat : i < NBlocks(MaxOf(n, 0)) <=> i * Per < n \/ i * Per < 0
    BY <1>1, EndIs
  <2>3. \A i \in Nat : ~(i * Per < 0)
    BY SMT
  <2>4. \A g \in Inodes : g # f => Ends'[g] = Ends[g]
    BY <1>2 DEF Ends
  <2>. QED  BY <2>1, <2>2, <2>3, <2>4
<1>9. \A i \in Indices : i \in Nat /\ i * Per \in Nat
  <2>1. 0 \in 0 .. Per - 1
    BY SMT
  <2>. QED  BY <2>1, SpotIs
<1>10. ASSUME NEW i \in Indices, i < Ends'[f] PROVE i < Ends[f]
  <2>. DEFINE x == i * Per
  <2>1. x \in Nat /\ x < n
    BY <1>8, <1>9, <1>10
  <2>. HIDE DEF x
  <2>2. x < ino[f].size
    BY <1>1, <1>3, <2>1
  <2>. QED  BY <1>7, <1>9, <2>2 DEF x
<1>11. PICK t, m, D : t = Ends' /\ m = ino' /\ D = {At(f, i) : i \in Hits(f, n, unread)}
  OBVIOUS
<1>12. Before \in Pointers /\ D \in SUBSET Blocks /\ IsFiniteSet(D) /\ Cardinality(D) = Cardinality(Hits(f, n, unread))
  BY <1>1, <1>11, BeforeIs, HitsAre, HitsCount DEF TypeInv
<1>13. Drops(Before, Before, Ends, t, f)
  <2>1. ASSUME NEW y \in Slots, Live(y, t[f]) PROVE Live(y, Ends[f])
    <3>1. CASE IsTable(y)
      BY <3>1 DEF IsTable, Live
    <3>2. CASE ~IsTable(y)
      <4>1. PICK i \in Indices : y = <<"data", i>>
        BY <3>2, NotTable
      <4>2. (Live(y, Ends[f]) <=> i < Ends[f]) /\ (Live(y, t[f]) <=> i < Ends'[f])
        BY <1>1, <1>11, <4>1, DataIs
      <4>. QED  BY <1>10, <2>1, <4>2
    <3>. QED  BY <3>1, <3>2
  <2>2. \A g \in Inodes : g # f => t[g] = Ends[g]
    BY <1>8, <1>11
  <2>. QED  BY <2>1, <2>2 DEF Drops
<1>14. Dropped(Before, Before, Ends, t, f, D)
  <2>1. ASSUME NEW b \in Blocks, b \in D
        PROVE  \E y \in Slots : Live(y, Ends[f]) /\ Before[f][y] = b /\ ~(Live(y, t[f]) /\ Before[f][y] # 0)
    <3>1. PICK i \in Hits(f, n, unread) : b = At(f, i)
      BY <1>11, <2>1
    <3>2. At(f, i) = Data(f, i) /\ i \in Indices /\ ~(i * Per < n) /\ i * Per < ino[f].size
      BY <1>1, HitsAt, HitsIs
    <3>3. i < Ends[f] /\ ~(i < Ends'[f])
      BY <1>7, <1>8, <1>9, <3>2
    <3>4. <<"data", i>> \in Slots /\ Live(<<"data", i>>, Ends[f]) /\ ~Live(<<"data", i>>, t[f]) /\ Before[f][<<"data", i>>] = b
      BY <1>1, <1>11, <3>1, <3>2, <3>3, DataIs
    <3>. QED  BY <3>4
  <2>2. ASSUME NEW b \in Blocks, NEW y \in Slots, Live(y, Ends[f]), Before[f][y] = b, ~(Live(y, t[f]) /\ Before[f][y] # 0)
        PROVE  b \in D
    <3>1. b # 0 /\ ~Live(y, t[f])
      BY <2>2
    <3>2. ~IsTable(y)
      BY <3>1 DEF IsTable, Live
    <3>3. PICK i \in Indices : y = <<"data", i>>
      BY <3>2, NotTable
    <3>4. i < Ends[f] /\ ~(i < Ends'[f]) /\ Data(f, i) = b
      BY <1>1, <1>11, <2>2, <3>1, <3>3, DataIs
    <3>5. i \in Hits(f, n, unread)
      BY <1>1, <1>7, <1>8, <1>9, <3>1, <3>4, HitsIs
    <3>6. At(f, i) = b
      BY <1>1, <3>4, <3>5, HitsAt
    <3>. QED  BY <1>11, <3>5, <3>6
  <2>. QED  BY <2>1, <2>2 DEF Dropped
<1>15. /\ Parted(Before, free \cup D, t)
       /\ Own(Before[f], t[f]) = Own(Before[f], Ends[f]) \ D /\ D \subseteq Own(Before[f], Ends[f])
       /\ \A g \in Inodes : g # f => Own(Before[g], t[g]) = Own(Before[g], Ends[g])
  <2>1. free \in SUBSET Blocks
    BY DEF TypeInv, Typed
  <2>2. f \in Inodes /\ D \in SUBSET Blocks /\ Before \in Pointers /\ Parted(Before, free, Ends)
    BY <1>1, <1>4, <1>12
  <2>3. Parted(Before, free \cup D, t) /\ OwnsLess(Before, Before, Ends, t, f, D)
    BY <1>13, <1>14, <2>1, <2>2, PartedDrops
  <2>. QED  BY <2>3 DEF OwnsLess
<1>16. Counts(Before, m, t)
  <2>. SUFFICES ASSUME NEW g \in Inodes PROVE m[g].blocks = Cardinality(Own(Before[g], t[g]))
    BY DEF Counts
  <2>1. CASE g # f
    BY <1>2, <1>4, <1>11, <1>15, <2>1 DEF Counts
  <2>2. CASE g = f
    <3>. DEFINE A == Own(Before[f], Ends[f])
    <3>1. Before[f] \in [Slots -> Words]
      BY <1>1, <1>12 DEF Pointers
    <3>2. IsFiniteSet(A) /\ ino[f].blocks = Cardinality(A) /\ D \subseteq A /\ Own(Before[f], t[f]) = A \ D
      BY <1>1, <1>4, <1>15, <3>1, OwnIs DEF Counts
    <3>. HIDE DEF A
    <3>3. Cardinality(A \ D) = Cardinality(A) - Cardinality(A \cap D)
      BY <3>2, FS_Difference
    <3>4. A \cap D = D
      BY <3>2
    <3>5. m[f].blocks = Cardinality(A) - Cardinality(D)
      BY <1>2, <1>11, <1>12, <3>2
    <3>6. m[f].blocks = Cardinality(A \ D)
      BY <3>3, <3>4, <3>5
    <3>. QED  BY <2>2, <3>2, <3>6
  <2>. QED  BY <2>1, <2>2
<1>17. Parted(Before, free, Ends)' /\ Counts(Before, ino, Ends)'
  <2>1. Parted(Before', free', Ends') /\ Counts(Before', ino', Ends')
    BY <1>2, <1>5, <1>11, <1>15, <1>16
  <2>. QED  BY <2>1 DEF Parted, Apart, NoneFree, AllReached, Counts
<1>18. /\ residue'[f] = residue[f] \cup CutOff(f, n) /\ \A g \in Inodes : g # f => residue'[g] = residue[g]
  BY <1>1 DEF TypeInv
<1>19. /\ CutOff(f, n) \in SUBSET Positions
       /\ \A p \in Positions : p \in CutOff(f, n) <=> ~(p < n) /\ p < ino[f].size /\ Data(f, BlockOf(p)) # 0
  BY <1>1, CutOffIs
<1>20. /\ \A p \in Positions : content'[f][p] = IF p < n THEN content[f][p] ELSE 0
       /\ \A g \in Inodes : g # f => content'[g] = content[g]
  BY <1>1, ForgetIs
<1>21. Behind(f)'
  <2>1. ASSUME NEW p \in residue'[f] PROVE p >= ino'[f].size /\ p >= op'[f].end
    <3>1. p \in Positions /\ p \in Nat
      BY <1>3, <1>18, <1>19, <2>1, PositionIs
    <3>2. p >= n
      <4>1. CASE p \in residue[f]
        BY <1>1, <1>3, <1>4, <3>1, <4>1 DEF Behind
      <4>2. CASE p \in CutOff(f, n)
        BY <1>1, <1>19, <3>1, <4>2
      <4>. QED  BY <1>18, <2>1, <4>1, <4>2
    <3>. QED  BY <1>2, <1>3, <3>1, <3>2
  <2>2. ASSUME NEW i \in Indices, i >= NBlocks(MaxOf(ino'[f].size, op'[f].pos)), Data(f, i) # 0 PROVE i * Per \in residue'[f]
    <3>. DEFINE x == i * Per
    <3>1. x \in Nat /\ x \in Positions /\ BlockOf(x) = i
      <4>1. 0 \in 0 .. Per - 1 /\ x \in Nat
        BY <1>9, SMT
      <4>2. x + 0 = x
        BY <4>1
      <4>3. x + 0 \in Positions /\ BlockOf(x + 0) = i
        BY <4>1, SpotIs
      <4>. HIDE DEF x
      <4>. QED  BY <4>1, <4>2, <4>3
    <3>2. ~(x < n)
      <4>1. NBlocks(MaxOf(n, 0)) \in Nat /\ (i < NBlocks(MaxOf(n, 0)) <=> i * Per < n \/ i * Per < 0)
        BY <1>1, <1>9, EndIs
      <4>2. ~(i < NBlocks(MaxOf(n, 0)))
        BY <1>2, <1>3, <1>9, <2>2, <4>1
      <4>. QED  BY <4>1, <4>2
    <3>3. CASE x < ino[f].size
      BY <1>18, <1>19, <2>2, <3>1, <3>2, <3>3
    <3>4. CASE ~(x < ino[f].size)
      <4>1. ~(i < Ends[f]) /\ op[f].pos <= op[f].end
        <5>1. ~(i < Ends[f])
          BY <1>7, <1>9, <3>4
        <5>. QED  BY <1>3, <5>1
      <4>2. x \in residue[f]
        BY <1>1, <2>2, <4>1, Beyond
      <4>. QED  BY <1>18, <4>2
    <3>. QED  BY <3>3, <3>4
  <2>. QED  BY <1>6, <2>1, <2>2 DEF Behind
<1>22. ASSUME NEW i PROVE ~Past(f, i) /\ ~Past(f, i)'
  BY <1>3 DEF Past
<1>23. Logged(f)'
  BY <1>3, <1>22 DEF Logged
<1>24. Shown(f)'
  <2>. SUFFICES ASSUME NEW p \in Positions
                PROVE  /\ content'[f][p] # 0 => BlockOf(p) < Ends'[f] /\ Data(f, BlockOf(p)) # 0
                       /\ content'[f][p] # 0 => p < n
                       /\ BlockOf(p) < Ends'[f] /\ p \notin residue'[f] => Word(f, p) = content'[f][p]
    BY <1>2, <1>6 DEF Shown, Word
  <2>1. BlockOf(p) \in Indices /\ p \in Nat /\ p % Per \in 0 .. Per - 1 /\ p = BlockOf(p) * Per + (p % Per)
    BY PositionIs
  <2>. DEFINE i == BlockOf(p)
  <2>2. /\ content[f][p] # 0 => i < Ends[f] /\ Data(f, i) # 0
        /\ content[f][p] # 0 => p < ino[f].size
        /\ i < Ends[f] /\ p \notin residue[f] => Word(f, p) = content[f][p]
    BY <1>4, <1>22 DEF Shown
  <2>. HIDE DEF i
  <2>3. i \in Indices
    BY <2>1 DEF i
  <2>4. p < n => i < Ends'[f]
    <3>. DEFINE x == i * Per
                k == p % Per
    <3>1. x \in Nat /\ k \in 0 .. Per - 1 /\ p = x + k
      BY <1>9, <2>1, <2>3 DEF i
    <3>. HIDE DEF x, k
    <3>2. p < n => x < n
      BY <1>1, <2>1, <3>1
    <3>. QED  BY <1>8, <1>9, <2>3, <3>2 DEF x
  <2>5. content'[f][p] # 0 => i < Ends'[f] /\ Data(f, i) # 0
    BY <1>20, <2>2, <2>4
  <2>6. content'[f][p] # 0 => p < n
    BY <1>20
  <2>7. ASSUME i < Ends'[f], p \notin residue'[f] PROVE Word(f, p) = content'[f][p]
    <3>1. i < Ends[f] /\ p \notin residue[f] /\ p \notin CutOff(f, n)
      BY <1>10, <1>18, <2>3, <2>7
    <3>2. Word(f, p) = content[f][p]
      BY <2>2, <3>1
    <3>3. CASE p < n
      BY <1>20, <3>2, <3>3
    <3>4. CASE ~(p < n)
      <4>1. content'[f][p] = 0
        BY <1>20, <3>4
      <4>2. ~(p < ino[f].size) \/ Data(f, i) = 0
        BY <1>19, <3>1, <3>4 DEF i
      <4>3. CASE Data(f, i) = 0
        BY <4>1, <4>3 DEF Word, Entry, i
      <4>4. CASE ~(p < ino[f].size)
        BY <2>2, <3>2, <4>1, <4>4
      <4>. QED  BY <4>2, <4>3, <4>4
    <3>. QED  BY <3>3, <3>4
  <2>. QED  BY <2>5, <2>6, <2>7 DEF i
<1>. QED  BY <1>1, <1>2, <1>6, <1>17, <1>18, <1>20, <1>21, <1>23, <1>24, CleanStep

\* A truncate to a smaller size: types and operations.
LEMMA DownType ==
  ASSUME TypeInv, \A g \in Inodes : OpInv(g), NEW f \in Inodes, NEW n \in Sizes, TruncateDown(f, n)
  PROVE  TypeInv' /\ (\A g \in Inodes : OpInv(g)') /\ n \in 0 .. Top
<1>1. n \in 0 .. Top /\ n \in Nat
  BY Fields DEF Top
<1>2. /\ Shrink(f, n, {}) /\ residue' = [residue EXCEPT ![f] = @ \cup CutOff(f, n)] /\ Forget(f, n) /\ Cross(Wide(f))
      /\ dev' = dev /\ op' = op
  BY DEF TruncateDown
<1>3. ino' \in [Inodes -> Nodes] /\ free' \in SUBSET Blocks
  BY <1>1, <1>2, ShrinkType
<1>4. content' \in [Inodes -> [Positions -> Words]]
  BY <1>1, <1>2, ForgetIs
<1>5. residue' \in [Inodes -> SUBSET Positions]
  BY <1>1, <1>2, CutOffIs DEF TypeInv
<1>6. crossed' \in SUBSET Limits
  <2>1. Wide(f) \in SUBSET Limits
    BY DEF Wide, Limits
  <2>. QED  BY <1>2, <2>1, CrossIs DEF TypeInv
<1>7. TypeInv'
  BY <1>2, <1>3, <1>4, <1>5, <1>6 DEF TypeInv, Typed
<1>. QED  BY <1>1, <1>2, <1>7 DEF OpInv

\* A truncate to a smaller size keeps the invariant; what it cuts off is
\* residue.
LEMMA DownClean ==
  ASSUME IInv, NEW f \in Inodes, NEW n \in Sizes, TruncateDown(f, n), WithinLimits'
  PROVE  CleanInv'
<1>1. TypeInv /\ (\A g \in Inodes : OpInv(g)) /\ crossed \in SUBSET Limits
  BY DEF IInv, TypeInv
<1>2. TypeInv' /\ n \in 0 .. Top
  BY <1>1, DownType
<1>3. /\ Shrink(f, n, {}) /\ residue' = [residue EXCEPT ![f] = @ \cup CutOff(f, n)] /\ Forget(f, n) /\ Cross(Wide(f))
      /\ dev' = dev /\ op' = op /\ f \in Files /\ ~Busy(f) /\ n < ino[f].size
  BY DEF TruncateDown
<1>4. WithinLimits /\ Wide(f) = {}
  <2>1. Wide(f) \in SUBSET Limits
    BY DEF Wide, Limits
  <2>. QED  BY <1>1, <1>3, <2>1, CrossIs
<1>5. op[f] = NoOp
  BY <1>1, <1>3, BusyIs DEF OpInv
<1>6. CleanInv
  BY <1>4 DEF IInv
<1>7. \A i \in {} : At(f, i) = 0
  OBVIOUS
<1>. QED  BY <1>1, <1>2, <1>3, <1>4, <1>5, <1>6, <1>7, ShrinkClean

\* A truncate that cannot read a table: types and operations.
LEMMA UnreadType ==
  ASSUME TypeInv, \A g \in Inodes : OpInv(g), NEW f \in Inodes, NEW n \in Sizes, TruncateUnread(f, n)
  PROVE  TypeInv' /\ (\A g \in Inodes : OpInv(g)') /\ n \in 0 .. Top
<1>1. n \in 0 .. Top /\ n \in Nat
  BY Fields DEF Top
<1>2. PICK i : Shrink(f, n, {i}) /\ Cross(Wide(f) \cup IF At(f, i) = 0 THEN {} ELSE {"faulted"})
  BY DEF TruncateUnread
<1>3. residue' = [residue EXCEPT ![f] = @ \cup CutOff(f, n)] /\ Forget(f, n) /\ dev' = dev /\ op' = op
  BY DEF TruncateUnread
<1>4. ino' \in [Inodes -> Nodes] /\ free' \in SUBSET Blocks
  BY <1>1, <1>2, ShrinkType
<1>5. content' \in [Inodes -> [Positions -> Words]]
  BY <1>1, <1>3, ForgetIs
<1>6. residue' \in [Inodes -> SUBSET Positions]
  BY <1>1, <1>3, CutOffIs DEF TypeInv
<1>7. crossed' \in SUBSET Limits
  <2>1. Wide(f) \cup (IF At(f, i) = 0 THEN {} ELSE {"faulted"}) \in SUBSET Limits
    BY DEF Wide, Limits
  <2>. QED  BY <1>2, <2>1, CrossIs DEF TypeInv
<1>8. TypeInv'
  BY <1>3, <1>4, <1>5, <1>6, <1>7 DEF TypeInv, Typed
<1>. QED  BY <1>1, <1>3, <1>8 DEF OpInv

\* A truncate that cannot read a table loses blocks, or had none to free there.
LEMMA UnreadClean ==
  ASSUME IInv, NEW f \in Inodes, NEW n \in Sizes, TruncateUnread(f, n), WithinLimits'
  PROVE  CleanInv'
<1>1. TypeInv /\ (\A g \in Inodes : OpInv(g)) /\ crossed \in SUBSET Limits
  BY DEF IInv, TypeInv
<1>2. TypeInv' /\ n \in 0 .. Top
  BY <1>1, UnreadType
<1>3. PICK i : Shrink(f, n, {i}) /\ Cross(Wide(f) \cup IF At(f, i) = 0 THEN {} ELSE {"faulted"})
  BY DEF TruncateUnread
<1>4. /\ residue' = [residue EXCEPT ![f] = @ \cup CutOff(f, n)] /\ Forget(f, n)
      /\ dev' = dev /\ op' = op /\ f \in Files /\ ~Busy(f) /\ n < ino[f].size
  BY DEF TruncateUnread
<1>5. WithinLimits /\ Wide(f) = {} /\ At(f, i) = 0
  <2>. DEFINE L == Wide(f) \cup IF At(f, i) = 0 THEN {} ELSE {"faulted"}
  <2>1. L \in SUBSET Limits
    BY DEF Wide, Limits
  <2>2. WithinLimits /\ L = {}
    <3>. HIDE DEF L
    <3>1. Cross(L)
      BY <1>3 DEF L
    <3>. QED  BY <1>1, <2>1, <3>1, CrossIs
  <2>. QED  BY <2>2
<1>6. op[f] = NoOp
  BY <1>1, <1>4, BusyIs DEF OpInv
<1>7. CleanInv
  BY <1>5 DEF IInv
<1>8. PICK u : u = {i}
  OBVIOUS
<1>9. Shrink(f, n, u) /\ \A j \in u : At(f, j) = 0
  BY <1>3, <1>5, <1>8
<1>. QED  BY <1>1, <1>2, <1>4, <1>5, <1>6, <1>7, <1>9, ShrinkClean

\* An inode that is not in use points to nothing.
LEMMA EmptyIs ==
  /\ Empty \in Nodes /\ Empty.size = 0 /\ Empty.blocks = 0
  /\ \A d : \A y \in Slots : Ptr(d, Empty, y) = 0
<1>1. /\ Empty.size = 0 /\ Empty.blocks = 0 /\ Empty.direct = [i \in 0 .. Direct - 1 |-> 0]
      /\ Empty.table = [w \in {"indirect", "double"} |-> 0]
  BY DEF Empty
<1>2. Empty \in Nodes
  <2>1. Top \in Nat /\ 0 \in Words
    BY SMT DEF Top, MaxIndex, Words
  <2>2. 0 \in 0 .. Top
    BY <2>1
  <2>. QED  BY <2>1, <2>2 DEF Empty, Nodes
<1>3. ASSUME NEW d, NEW y \in Slots, InNode(y) PROVE Ptr(d, Empty, y) = 0
  <2>1. Home(Empty, y) = 0
    <3>1. CASE \E w \in {"indirect", "double"} : y = <<"table", w>>
      BY <1>1, <3>1 DEF Home
    <3>2. CASE \E i \in 0 .. MaxIndex - 1 : y = <<"data", i>>
      <4>1. PICK i \in 0 .. MaxIndex - 1 : y = <<"data", i>>
        BY <3>2
      <4>2. i \in 0 .. Direct - 1
        BY <1>3, <4>1, IndexCases DEF InNode
      <4>. QED  BY <1>1, <4>1, <4>2 DEF Home
    <3>3. CASE \E k \in 0 .. Per - 1 : y = <<"mid", k>>
      BY <1>3, <3>3 DEF InNode
    <3>. QED  BY <3>1, <3>2, <3>3, SlotCases
  <2>. QED  BY <1>3, <2>1, PtrIs
<1>4. ASSUME NEW d, NEW y \in Slots, ~InNode(y), Ptr(d, Empty, Holder(y)) = 0 PROVE Ptr(d, Empty, y) = 0
  BY <1>4, PtrIs DEF Entry
<1>5. ASSUME NEW d, NEW y \in Slots PROVE Ptr(d, Empty, y) = 0
  <2>1. \A w \in {"indirect", "double"} : Ptr(d, Empty, <<"table", w>>) = 0
    BY <1>1 DEF Ptr
  <2>2. \A k \in 0 .. Per - 1 : Ptr(d, Empty, <<"mid", k>>) = 0
    BY <1>1 DEF Ptr, Entry
  <2>3. CASE InNode(y)
    BY <1>3, <2>3
  <2>4. CASE ~InNode(y)
    <3>1. Holder(y) = <<"table", "double">> \/ Holder(y) = <<"table", "indirect">> \/ \E k \in 0 .. Per - 1 : Holder(y) = <<"mid", k>>
      BY <2>4, HolderIs
    <3>2. Ptr(d, Empty, Holder(y)) = 0
      BY <2>1, <2>2, <3>1
    <3>. QED  BY <1>4, <2>4, <3>2
  <2>. QED  BY <2>3, <2>4
<1>. QED  BY <1>1, <1>2, <1>5

\* An inode is freed: types and operations.
LEMMA FreeType ==
  ASSUME TypeInv, \A g \in Inodes : OpInv(g), NEW f \in Inodes, FreeInode(f)
  PROVE  TypeInv' /\ (\A g \in Inodes : OpInv(g)')
<1>1. /\ free' = free \cup {At(f, i) : i \in Hits(f, 0, {})} /\ ino' = [ino EXCEPT ![f] = Empty]
      /\ residue' = [residue EXCEPT ![f] = {}] /\ Forget(f, 0) /\ dev' = dev /\ op' = op
      /\ Cross(Wide(f) \cup IF ino[f].table = Empty.table THEN {} ELSE {"tables"})
  BY DEF FreeInode, Hits
<1>2. {At(f, i) : i \in Hits(f, 0, {})} \in SUBSET Blocks
  BY HitsAre
<1>3. ino' \in [Inodes -> Nodes] /\ free' \in SUBSET Blocks
  BY <1>1, <1>2, EmptyIs DEF TypeInv, Typed
<1>4. content' \in [Inodes -> [Positions -> Words]]
  BY <1>1, ForgetIs
<1>5. residue' \in [Inodes -> SUBSET Positions]
  BY <1>1 DEF TypeInv
<1>6. crossed' \in SUBSET Limits
  <2>1. Wide(f) \cup (IF ino[f].table = Empty.table THEN {} ELSE {"tables"}) \in SUBSET Limits
    BY DEF Wide, Limits
  <2>. QED  BY <1>1, <2>1, CrossIs DEF TypeInv
<1>7. TypeInv'
  BY <1>1, <1>3, <1>4, <1>5, <1>6 DEF TypeInv, Typed
<1>. QED  BY <1>1, <1>7 DEF OpInv

\* An inode is freed: its blocks are free and nothing is left to read.
LEMMA FreeClean ==
  ASSUME IInv, NEW f \in Inodes, FreeInode(f), WithinLimits'
  PROVE  CleanInv'
<1>1. TypeInv /\ (\A g \in Inodes : OpInv(g)) /\ crossed \in SUBSET Limits
  BY DEF IInv, TypeInv
<1>2. TypeInv'
  BY <1>1, FreeType
<1>3. /\ free' = free \cup {At(f, i) : i \in Hits(f, 0, {})} /\ ino' = [ino EXCEPT ![f] = Empty]
      /\ residue' = [residue EXCEPT ![f] = {}] /\ Forget(f, 0) /\ dev' = dev /\ op' = op /\ ~Busy(f)
  BY DEF FreeInode, Hits
<1>4. WithinLimits /\ Wide(f) = {} /\ ino[f].table = Empty.table
  <2>. DEFINE L == Wide(f) \cup IF ino[f].table = Empty.table THEN {} ELSE {"tables"}
  <2>1. L \in SUBSET Limits
    BY DEF Wide, Limits
  <2>2. WithinLimits /\ L = {}
    <3>1. Cross(L)
      BY DEF FreeInode
    <3>. HIDE DEF L
    <3>. QED  BY <1>1, <2>1, <3>1, CrossIs
  <2>. QED  BY <2>2
<1>5. op[f] = NoOp
  BY <1>1, <1>3, BusyIs DEF OpInv
<1>6. CleanInv
  BY <1>4 DEF IInv
<1>7. Parted(Before, free, Ends) /\ Counts(Before, ino, Ends)
  BY <1>6 DEF CleanInv
<1>8. op[f].pos = 0 /\ op[f].from = 0 /\ op[f].end = 0 /\ op[f].log = <<>>
  BY <1>5, NoOpIs
<1>9. ino'[f] = Empty /\ residue'[f] = {} /\ \A g \in Inodes : g # f => ino'[g] = ino[g] /\ residue'[g] = residue[g]
  BY <1>1, <1>3 DEF TypeInv, Typed
<1>10. \A p \in Positions : content'[f][p] = 0
  <2>1. \A p \in Positions : content'[f][p] = IF p < 0 THEN content[f][p] ELSE 0
    BY <1>1, <1>3, ForgetIs
  <2>2. \A p \in Positions : ~(p < 0)
    BY PositionIs
  <2>. QED  BY <2>1, <2>2
<1>11. \A g \in Inodes : g # f => content'[g] = content[g]
  BY <1>1, <1>3, ForgetIs
<1>12. /\ \A y \in Slots : Before'[f][y] = 0
       /\ \A g \in Inodes, y \in Slots : g # f => Before'[g][y] = Before[g][y]
  <2>1. \A g \in Inodes, y \in Slots : Before'[g][y] = Ptr(dev, ino'[g], y) /\ Before[g][y] = Ptr(dev, ino[g], y)
    BY <1>3 DEF Before, Ptrs
  <2>2. \A y \in Slots : Before'[f][y] = Ptr(dev, Empty, y)
    BY <1>9, <2>1
  <2>3. \A y \in Slots : Ptr(dev, Empty, y) = 0
    BY EmptyIs
  <2>. QED  BY <1>9, <2>1, <2>2, <2>3
<1>13. /\ Ends[f] \in Nat /\ \A i \in Nat : i < Ends[f] <=> i * Per < ino[f].size
       /\ \A g \in Inodes : g # f => Ends'[g] = Ends[g]
  BY <1>1, <1>3, <1>5, <1>9, IdleEnd DEF Ends
<1>14. PICK t, m, D, P : t = Ends' /\ m = ino' /\ D = {At(f, i) : i \in Hits(f, 0, {})} /\ P = Before'
  OBVIOUS
<1>15. Before \in Pointers /\ P \in Pointers /\ D \in SUBSET Blocks
  <2>1. Before' \in Pointers
    BY <1>2, <1>3, BeforeIs, PtrType DEF TypeInv, Typed, Before, Ptrs, Pointers
  <2>. QED  BY <1>1, <1>14, <2>1, BeforeIs, HitsAre DEF TypeInv
<1>16. \A y \in Slots : IsTable(y) => Before[f][y] = 0
  <2>1. ino[f].table["indirect"] = 0 /\ ino[f].table["double"] = 0
    BY <1>4 DEF Empty
  <2>2. ASSUME NEW y \in Slots, IsTable(y) PROVE Ptr(dev, ino[f], y) = 0
    <3>1. CASE \E w \in {"indirect", "double"} : y = <<"table", w>>
      BY <2>1, <3>1 DEF Ptr
    <3>2. CASE \E k \in 0 .. Per - 1 : y = <<"mid", k>>
      BY <2>1, <3>2 DEF Ptr, Entry
    <3>3. CASE \E i \in 0 .. MaxIndex - 1 : y = <<"data", i>>
      BY <2>2, <3>3 DEF IsTable
    <3>. QED  BY <3>1, <3>2, <3>3, SlotCases
  <2>. QED  BY <1>1, <2>2, BeforeIs DEF TypeInv
<1>17. Drops(Before, P, Ends, t, f)
  BY <1>12, <1>13, <1>14 DEF Drops
<1>18. \A i \in {} : At(f, i) = 0
  OBVIOUS
<1>19. Dropped(Before, P, Ends, t, f, D)
  <2>1. ASSUME NEW b \in Blocks, b \in D PROVE \E y \in Slots : Live(y, Ends[f]) /\ Before[f][y] = b
    <3>1. PICK i \in Hits(f, 0, {}) : b = At(f, i)
      BY <1>14, <2>1
    <3>2. At(f, i) = Data(f, i) /\ i \in Indices /\ i * Per < ino[f].size /\ i \in Nat
      BY <1>1, <1>4, <1>18, HitsAt, HitsIs, HitsAre
    <3>3. <<"data", i>> \in Slots /\ Live(<<"data", i>>, Ends[f]) /\ Before[f][<<"data", i>>] = b
      BY <1>1, <1>13, <3>1, <3>2, DataIs
    <3>. QED  BY <3>3
  <2>2. ASSUME NEW b \in Blocks, NEW y \in Slots, Live(y, Ends[f]), Before[f][y] = b PROVE b \in D
    <3>1. b # 0
      OBVIOUS
    <3>2. PICK i \in Indices : y = <<"data", i>>
      BY <1>16, <2>2, <3>1, NotTable
    <3>3. i < Ends[f] /\ Data(f, i) = b /\ i \in Nat
      BY <1>1, <2>2, <3>2, DataIs, Fields DEF Indices
    <3>4. i * Per < ino[f].size /\ ~(i * Per < 0)
      BY <1>13, <3>3, SMT
    <3>5. i \in Hits(f, 0, {})
      BY <1>1, <1>4, <1>18, <3>1, <3>3, <3>4, HitsIs
    <3>6. At(f, i) = b
      BY <1>1, <1>4, <1>18, <3>3, <3>5, HitsAt
    <3>. QED  BY <1>14, <3>5, <3>6
  <2>3. \A y \in Slots : P[f][y] = 0
    BY <1>12, <1>14
  <2>. QED  BY <2>1, <2>2, <2>3 DEF Dropped
<1>20. Parted(P, free \cup D, t) /\ OwnsLess(Before, P, Ends, t, f, D)
  <2>1. free \in SUBSET Blocks
    BY <1>1 DEF TypeInv, Typed
  <2>. QED  BY <1>7, <1>15, <1>17, <1>19, <2>1, PartedDrops
<1>21. Counts(P, m, t)
  <2>. SUFFICES ASSUME NEW g \in Inodes PROVE m[g].blocks = Cardinality(Own(P[g], t[g]))
    BY DEF Counts
  <2>1. CASE g # f
    BY <1>7, <1>9, <1>14, <1>20, <2>1 DEF Counts, OwnsLess
  <2>2. CASE g = f
    <3>1. Own(P[f], t[f]) = {}
      BY <1>12, <1>14 DEF Own
    <3>2. Cardinality({}) = 0
      BY FS_EmptySet
    <3>. QED  BY <1>9, <1>14, <2>2, <3>1, <3>2, EmptyIs
  <2>. QED  BY <2>1, <2>2
<1>22. Parted(Before, free, Ends)' /\ Counts(Before, ino, Ends)'
  <2>1. Parted(Before', free', Ends') /\ Counts(Before', ino', Ends')
    BY <1>3, <1>14, <1>20, <1>21
  <2>. QED  BY <2>1 DEF Parted, Apart, NoneFree, AllReached, Counts
<1>23. /\ \A i \in Indices : Data(f, i)' = 0
       /\ \A g \in Inodes : g # f => \A i \in Indices : Data(g, i)' = Data(g, i)
  <2>1. \A i \in Indices : <<"data", i>> \in Slots
    BY <1>1, DataIs
  <2>. QED  BY <1>12, <2>1 DEF Data
<1>24. Behind(f)'
  BY <1>9, <1>23 DEF Behind
<1>25. Logged(f)'
  BY <1>3, <1>8 DEF Logged, Past
<1>26. Shown(f)'
  <2>1. Ends'[f] = NBlocks(MaxOf(0, 0))
    BY <1>3, <1>8, <1>9, EmptyIs DEF Ends
  <2>2. \A i \in Nat : ~(i < NBlocks(MaxOf(0, 0)))
    <3>1. \A i \in Nat : i < NBlocks(MaxOf(0, 0)) <=> i * Per < 0 \/ i * Per < 0
      BY EndIs
    <3>2. \A i \in Nat : ~(i * Per < 0)
      BY SMT
    <3>. QED  BY <3>1, <3>2
  <2>3. \A p \in Positions : ~(BlockOf(p) < Ends'[f])
    BY <2>1, <2>2, PositionIs
  <2>. QED  BY <1>10, <2>3 DEF Shown
<1>27. \A g \in Inodes : g # f => /\ op'[g] = op[g] /\ residue'[g] = residue[g] /\ content'[g] = content[g] /\ ino'[g].size = ino[g].size
                                  /\ \A i \in Indices : Data(g, i)' = Data(g, i)
                                  /\ \A i \in Indices : i < Ends[g] /\ Data(g, i) # 0 => dev'[Data(g, i)] = dev[Data(g, i)]
  BY <1>3, <1>9, <1>11, <1>23
<1>. QED  BY <1>1, <1>6, <1>22, <1>24, <1>25, <1>26, <1>27, CleanStep

(***************************************************************************)
(* One iteration of a write.                                               *)
(***************************************************************************)

\* where it starts, and where inode_bmap comes to
From(f, left)  == [ino |-> ino[f], dev |-> dev, free |-> free, blk |-> 0, ok |-> TRUE, left |-> left]
To(f, left)    == Bmap(From(f, left), BlockOf(op[f].pos))
Whole(f)       == Written(f, BlockOf(op[f].pos)) = 0 .. Per - 1
ReadIn(f, m)   == IF m.ok /\ ~Whole(f) THEN Reading(m) ELSE m
Filled(f, r)   == [k \in 0 .. Per - 1 |-> IF k \in Written(f, BlockOf(op[f].pos)) THEN op[f].val
                                          ELSE IF r.ok THEN r.dev[r.blk][k] ELSE 0]
PutOut(f, r)   == IF r.ok /\ f \in Dirs THEN Writing(r, r.blk, Filled(f, r)) ELSE r

\* One iteration of inode_write, taken apart: inode_bmap, the read, the write.
LEMMA IterationIs ==
  ASSUME NEW f, NEW left
  PROVE  /\ Iteration(f, left).after = PutOut(f, ReadIn(f, To(f, left)))
         /\ Iteration(f, left).words = Filled(f, ReadIn(f, To(f, left)))
         /\ Iteration(f, left).stale <=>
              To(f, left).ok /\ Mapped(dev, ino[f], BlockOf(op[f].pos)) = 0 /\ To(f, left).dev[To(f, left).blk] # Zeroes
         /\ Iteration(f, left).kept <=>
              /\ To(f, left).ok /\ Mapped(dev, ino[f], BlockOf(op[f].pos)) = 0
              /\ \E k \in 0 .. Per - 1 \ Written(f, BlockOf(op[f].pos)) : To(f, left).dev[To(f, left).blk][k] # 0
  BY Zenon DEF Iteration, PutOut, ReadIn, Filled, To, From, Whole

\* Reading keeps what there is, or fails.
LEMMA ReadInIs ==
  ASSUME NEW f, NEW m \in States
  PROVE  /\ ReadIn(f, m) \in States /\ Same(m, ReadIn(f, m)) /\ (ReadIn(f, m).ok => m.ok)
         /\ ReadIn(f, m).ok => ReadIn(f, m).blk = m.blk
         /\ m.ok /\ m.left # 0 => ReadIn(f, m).ok /\ ReadIn(f, m).left + 1 >= m.left
<1>1. m.left \in Nat
  BY StateIs
<1>2. CASE ~(m.ok /\ ~Whole(f))
  BY <1>1, <1>2 DEF ReadIn, Same
<1>3. CASE m.ok /\ ~Whole(f) /\ m.left = 0
  <2>1. ReadIn(f, m) = Failed(m)
    BY <1>3 DEF ReadIn, Reading
  <2>. QED  BY <1>3, <2>1, FailedIs
<1>4. CASE m.ok /\ ~Whole(f) /\ m.left # 0
  <2>1. ReadIn(f, m) = Reading(m)
    BY <1>4 DEF ReadIn
  <2>2. Reading(m) \in States /\ Same(m, Reading(m)) /\ Reading(m).blk = m.blk /\ Reading(m).ok = m.ok /\ Reading(m).left + 1 = m.left
    BY <1>4, ReadingIs
  <2>3. Reading(m).left \in Nat
    BY <2>2, StateIs
  <2>. QED  BY <1>1, <1>4, <2>1, <2>2, <2>3
<1>. QED  BY <1>2, <1>3, <1>4

\* The words are words.
LEMMA FilledIs ==
  ASSUME TypeInv, NEW f \in Inodes, NEW r \in States, r.ok => r.blk \in Blocks
  PROVE  /\ Filled(f, r) \in Bodies
         /\ \A k \in 0 .. Per - 1 :
              Filled(f, r)[k] = IF k \in Written(f, BlockOf(op[f].pos)) THEN op[f].val ELSE IF r.ok THEN r.dev[r.blk][k] ELSE 0
<1>1. op[f].val \in Words /\ 0 \in Words
  BY Fields DEF Words
<1>2. r.dev \in [Blocks -> Bodies]
  BY StateIs
<1>3. \A k \in 0 .. Per - 1 : r.ok => r.dev[r.blk][k] \in Words
  BY <1>2 DEF Bodies
<1>. QED  BY <1>1, <1>3 DEF Filled, Bodies

\* What an iteration does, whatever fails: what inode_bmap came to stays; the
\* device is written after it only by a directory, and only if nothing failed.
LEMMA IterationDoes ==
  ASSUME TypeInv, NEW f \in Inodes, NEW left \in Nat,
         NEW m, m = To(f, left), NEW s, s = Iteration(f, left).after, NEW w, w = Iteration(f, left).words
  PROVE  /\ From(f, left) \in States /\ Sound(From(f, left), m) /\ m \in States /\ (m.ok => BlockOf(op[f].pos) < MaxIndex /\ m.blk \in Blocks)
         /\ s \in States /\ s.ino = m.ino /\ s.free = m.free /\ w \in Bodies
         /\ ~s.ok => s.dev = m.dev
         /\ s.ok => /\ m.ok /\ s.blk = m.blk
                    /\ f \in Dirs => s.dev = Put(m.dev, m.blk, w)
                    /\ f \notin Dirs => s.dev = m.dev
                    /\ \A k \in 0 .. Per - 1 : w[k] = IF k \in Written(f, BlockOf(op[f].pos)) THEN op[f].val ELSE m.dev[m.blk][k]
         /\ m.ok /\ m.left >= 2 => s.ok
<1>. DEFINE i == BlockOf(op[f].pos)
            r == ReadIn(f, m)
<1>1. op[f].pos \in Nat
  BY Fields
<1>2. i \in Nat
  BY <1>1, DivMod DEF BlockOf
<1>3. From(f, left) \in States
  BY Fields DEF From, States, TypeInv, Typed, Words
<1>4. Sound(From(f, left), m) /\ (m.ok => i < MaxIndex)
  <2>1. m = Bmap(From(f, left), i)
    BY DEF To
  <2>. HIDE DEF i
  <2>. QED  BY <1>2, <1>3, <2>1, BmapSound
<1>5. m \in States /\ (m.ok => m.blk \in Blocks)
  BY <1>4 DEF Sound
<1>6. /\ r \in States /\ Same(m, r) /\ (r.ok => m.ok) /\ (r.ok => r.blk = m.blk)
      /\ m.ok /\ m.left # 0 => r.ok /\ r.left + 1 >= m.left
  BY <1>5, ReadInIs
<1>7. s = PutOut(f, r) /\ w = Filled(f, r)
  BY IterationIs
<1>. HIDE DEF r
<1>8. r.ok => r.blk \in Blocks
  BY <1>5, <1>6
<1>9. w \in Bodies /\ \A k \in 0 .. Per - 1 : w[k] = IF k \in Written(f, i) THEN op[f].val ELSE IF r.ok THEN r.dev[r.blk][k] ELSE 0
  BY <1>6, <1>7, <1>8, FilledIs
<1>10. m.left \in Nat /\ r.left \in Nat
  BY <1>5, <1>6, StateIs
<1>11. CASE ~(r.ok /\ f \in Dirs)
  <2>1. s = r
    BY <1>7, <1>11 DEF PutOut
  <2>2. m.ok /\ m.left >= 2 => r.ok
    BY <1>6, <1>10
  <2>. QED  BY <1>3, <1>4, <1>5, <1>6, <1>9, <1>11, <2>1, <2>2 DEF Same
<1>12. CASE r.ok /\ f \in Dirs
  <2>1. Wrote(r, r.blk, w, s)
    <3>1. s = Writing(r, r.blk, w)
      BY <1>7, <1>12 DEF PutOut
    <3>. DEFINE b == r.blk
    <3>2. r \in States /\ b \in Blocks /\ w \in Bodies
      BY <1>6, <1>8, <1>9, <1>12
    <3>. HIDE DEF b
    <3>3. Wrote(r, b, w, Writing(r, b, w))
      BY <3>2, Writes
    <3>. QED  BY <3>1, <3>3 DEF b
  <2>2. m.ok /\ m.left >= 2 => r.left # 0
    BY <1>6, <1>10
  <2>3. /\ s \in States /\ s.ino = m.ino /\ s.free = m.free /\ s.blk = m.blk
        /\ (r.left = 0 => ~s.ok /\ s.dev = m.dev) /\ (r.left # 0 => s.ok /\ s.dev = Put(m.dev, m.blk, w))
    BY <1>6, <1>12, <2>1 DEF Wrote, Same
  <2>4. \A k \in 0 .. Per - 1 : w[k] = IF k \in Written(f, i) THEN op[f].val ELSE m.dev[m.blk][k]
    BY <1>6, <1>9, <1>12 DEF Same
  <2>. QED  BY <1>3, <1>4, <1>5, <1>6, <1>9, <1>12, <2>2, <2>3, <2>4
<1>. QED  BY <1>11, <1>12

\* Where an iteration ends.
LEMMA StopIs ==
  ASSUME TypeInv, NEW f \in Inodes, op[f].pos < op[f].end
  PROVE  /\ BlockOf(op[f].pos) \in Nat /\ BlockOf(op[f].pos) * Per \in Nat /\ BlockOf(op[f].pos) * Per <= op[f].pos
         /\ Stop(f) \in Nat /\ op[f].pos < Stop(f) /\ Stop(f) <= op[f].end
         /\ Stop(f) <= BlockOf(op[f].pos) * Per + Per
         /\ Stop(f) = op[f].end \/ Stop(f) = (BlockOf(op[f].pos) + 1) * Per
         /\ op[f].pos % Per = 0 => op[f].pos = BlockOf(op[f].pos) * Per
         /\ BlockOf(op[f].pos) < Ends[f]
<1>. DEFINE i == BlockOf(op[f].pos)
            x == i * Per
            k == op[f].pos % Per
<1>1. op[f].pos \in Nat /\ op[f].end \in Nat
  BY Fields
<1>2. i \in Nat /\ k \in 0 .. Per - 1 /\ op[f].pos = x + k
  BY <1>1, DivMod DEF BlockOf
<1>. HIDE DEF i
<1>3. x \in Nat /\ (i + 1) * Per = x + Per
  BY <1>2, SMT
<1>4. Stop(f) = IF x + Per < op[f].end THEN x + Per ELSE op[f].end
  BY <1>3 DEF Stop, i
<1>. HIDE DEF x, k
<1>5. Stop(f) \in Nat /\ op[f].pos < Stop(f) /\ Stop(f) <= op[f].end /\ Stop(f) <= x + Per /\ (Stop(f) = op[f].end \/ Stop(f) = x + Per)
  BY <1>1, <1>2, <1>3, <1>4
<1>6. x <= op[f].pos /\ (k = 0 => op[f].pos = x) /\ x < op[f].end
  BY <1>1, <1>2, <1>3
<1>7. i < Ends[f]
  BY <1>2, <1>6, EndsIs DEF x
<1>. QED  BY <1>2, <1>3, <1>5, <1>6, <1>7 DEF i, x, k

\* The limits that a failing write crosses.
Crossing(f, left, s, stale) ==
  {l \in {"faulted", "exposed", "beyond"} :
     CASE l = "faulted" -> left # NoFault /\ <<s.free, s.ino>> # <<free, ino[f]>>
       [] l = "exposed" -> (f \in Files /\ op[f].stale) \/ stale
       [] l = "beyond"  -> \E i \in NBlocks(ino[f].size) .. MaxIndex - 1 : Mapped(s.dev, s.ino, i) # 0}

\* When an iteration crosses no limit.
LEMMA CrossingIs ==
  ASSUME NEW f, NEW left, NEW s, NEW stale
  PROVE  /\ Crossing(f, left, s, stale) \in SUBSET Limits
         /\ Crossing(f, left, s, stale) = {} =>
              /\ left = NoFault \/ (s.free = free /\ s.ino = ino[f])
              /\ ~(f \in Files /\ op[f].stale)
              /\ \A i \in NBlocks(ino[f].size) .. MaxIndex - 1 : Mapped(s.dev, s.ino, i) = 0
<1>1. Crossing(f, left, s, stale) \in SUBSET Limits
  BY DEF Crossing, Limits
<1>2. ASSUME Crossing(f, left, s, stale) = {}
      PROVE  /\ left = NoFault \/ (s.free = free /\ s.ino = ino[f])
             /\ ~(f \in Files /\ op[f].stale)
             /\ \A i \in NBlocks(ino[f].size) .. MaxIndex - 1 : Mapped(s.dev, s.ino, i) = 0
  <2>1. \A l \in {"faulted", "exposed", "beyond"} : l \notin Crossing(f, left, s, stale)
    BY <1>2
  <2>2. ~(left # NoFault /\ <<s.free, s.ino>> # <<free, ino[f]>>)
    BY <2>1 DEF Crossing
  <2>3. ~((f \in Files /\ op[f].stale) \/ stale)
    BY <2>1 DEF Crossing
  <2>4. ~(\E i \in NBlocks(ino[f].size) .. MaxIndex - 1 : Mapped(s.dev, s.ino, i) # 0)
    BY <2>1 DEF Crossing
  <2>. QED  BY <2>2, <2>3, <2>4
<1>. QED  BY <1>1, <1>2

\* A failing write, as facts.
LEMMA FailsIs ==
  ASSUME NEW f, WriteFails(f)
  PROVE  /\ op[f].pos < op[f].end /\ op' = [op EXCEPT ![f] = NoOp] /\ content' = content /\ residue' = residue
         /\ \E left \in Nat : \E s, stale :
              /\ s = Iteration(f, left).after /\ ~s.ok /\ Apply(f, s) /\ Cross(Crossing(f, left, s, stale))
<1>1. \A left \in Faulty : left \in Nat
  BY DEF Faulty, NoFault
<1>2. PICK left \in Faulty : \E x \in {Iteration(f, left)} :
         /\ ~x.after.ok /\ Apply(f, x.after) /\ Cross(Crossing(f, left, x.after, x.stale))
  BY Zenon DEF WriteFails, Crossing
<1>3. op[f].pos < op[f].end /\ op' = [op EXCEPT ![f] = NoOp] /\ content' = content /\ residue' = residue
  BY DEF WriteFails
<1>. QED  BY <1>1, <1>2, <1>3

\* A write that fails: types and operations.
LEMMA FailType ==
  ASSUME TypeInv, \A g \in Inodes : OpInv(g), NEW f \in Inodes, WriteFails(f)
  PROVE  TypeInv' /\ (\A g \in Inodes : OpInv(g)')
<1>1. op' = [op EXCEPT ![f] = NoOp] /\ content' = content /\ residue' = residue
  BY FailsIs
<1>a. PICK left \in Nat : \E s, stale :
         s = Iteration(f, left).after /\ ~s.ok /\ Apply(f, s) /\ Cross(Crossing(f, left, s, stale))
  BY FailsIs
<1>2. PICK s, stale : s = Iteration(f, left).after /\ ~s.ok /\ Apply(f, s) /\ Cross(Crossing(f, left, s, stale))
  BY <1>a
<1>3. PICK m, w : m = To(f, left) /\ w = Iteration(f, left).words
  OBVIOUS
<1>4. s \in States
  BY <1>2, <1>3, IterationDoes
<1>5. s.ino \in Nodes /\ s.dev \in [Blocks -> Bodies] /\ s.free \in SUBSET Blocks
  BY <1>4, StateIs
<1>6. Typed'
  BY <1>2, <1>5 DEF Apply, TypeInv, Typed
<1>7. op' \in [Inodes -> Ops] /\ \A g \in Inodes : OpInv(g)'
  BY <1>1, OpEnds
<1>8. crossed' \in SUBSET Limits
  BY <1>2, CrossingIs, CrossIs DEF TypeInv
<1>. QED  BY <1>1, <1>6, <1>7, <1>8 DEF TypeInv

\* The state that inode_bmap starts from is good.
LEMMA FromGood ==
  ASSUME TypeInv, CleanInv, NEW f \in Inodes, NEW left \in Nat
  PROVE  /\ Good(From(f, left), f, -1) /\ From(f, left).ok /\ From(f, left).left = left /\ From(f, left).ino = ino[f]
         /\ From(f, left).dev = dev /\ From(f, left).free = free
<1>. DEFINE s == From(f, left)
<1>1. s.ino = ino[f] /\ s.dev = dev /\ s.free = free /\ s.ok /\ s.left = left
  BY DEF From
<1>. HIDE DEF s
<1>2. With(s, f) = ino
  BY <1>1 DEF With, TypeInv, Typed
<1>3. Now(s, f) = Before
  BY <1>1, <1>2 DEF Now, Before
<1>4. Good(s, f, -1)
  BY <1>1, <1>2, <1>3 DEF Good, CleanInv
<1>. QED  BY <1>1, <1>4 DEF s

\* What a failing iteration leaves, within the limits.
LEMMA FailGood ==
  ASSUME TypeInv, CleanInv, NEW f \in Inodes, NEW left \in Nat, op[f].pos < op[f].end,
         NEW s, s = Iteration(f, left).after, ~s.ok, left = NoFault \/ (s.free = free /\ s.ino = ino[f])
  PROVE  s \in States /\ Good(s, f, -1)
<1>1. PICK m, w : m = To(f, left) /\ w = Iteration(f, left).words
  OBVIOUS
<1>2. /\ From(f, left) \in States /\ Sound(From(f, left), m) /\ m \in States
      /\ s \in States /\ s.ino = m.ino /\ s.free = m.free /\ s.dev = m.dev /\ (m.ok /\ m.left >= 2 => s.ok)
  BY <1>1, IterationDoes
<1>3. /\ Good(From(f, left), f, -1) /\ From(f, left).ok /\ From(f, left).left = left /\ From(f, left).ino = ino[f]
      /\ From(f, left).dev = dev /\ From(f, left).free = free
  BY FromGood
<1>4. CASE s.free = free /\ s.ino = ino[f]
  <2>1. Same(From(f, left), m)
    BY <1>2, <1>3, <1>4 DEF Sound
  <2>2. Same(From(f, left), s)
    BY <1>2, <2>1 DEF Same
  <2>. QED  BY <1>2, <1>3, <2>2, GoodSame
<1>5. CASE left = NoFault
  <2>1. BlockOf(op[f].pos) \in Nat /\ BlockOf(op[f].pos) < Ends[f] /\ Typed
    BY StopIs DEF TypeInv
  <2>2. From(f, left).left >= 8
    BY <1>3, <1>5 DEF NoFault
  <2>3. \/ ~m.ok /\ Good(m, f, -1)
        \/ m.ok /\ m.left >= 2
    <3>. DEFINE i == BlockOf(op[f].pos)
                q == From(f, left)
    <3>1. m = Bmap(q, i) /\ i \in Nat /\ i < Ends[f] /\ q \in States /\ q.ok /\ q.left >= 8 /\ Good(q, f, -1)
      BY <1>1, <1>2, <1>3, <2>1, <2>2 DEF To
    <3>. HIDE DEF i, q
    <3>. QED  BY <2>1, <3>1, BmapClean
  <2>4. Good(m, f, -1)
    BY <1>2, <2>3
  <2>. QED  BY <1>2, <2>4, GoodSame DEF Same
<1>. QED  BY <1>4, <1>5

\* A write that fails within the limits has mapped nothing, but perhaps tables
\* that the next write finds; the file shows what it did.
LEMMA FailClean ==
  ASSUME IInv, NEW f \in Inodes, WriteFails(f), WithinLimits'
  PROVE  CleanInv'
<1>1. TypeInv /\ (\A g \in Inodes : OpInv(g)) /\ crossed \in SUBSET Limits
  BY DEF IInv, TypeInv
<1>2. TypeInv'
  BY <1>1, FailType
<1>3. op[f].pos < op[f].end /\ op' = [op EXCEPT ![f] = NoOp] /\ content' = content /\ residue' = residue
  BY FailsIs
<1>a. PICK left \in Nat : \E s, stale :
         s = Iteration(f, left).after /\ ~s.ok /\ Apply(f, s) /\ Cross(Crossing(f, left, s, stale))
  BY FailsIs
<1>4. PICK s, stale : s = Iteration(f, left).after /\ ~s.ok /\ Apply(f, s) /\ Cross(Crossing(f, left, s, stale))
  BY <1>a
<1>5. WithinLimits /\ Crossing(f, left, s, stale) = {}
  BY <1>1, <1>4, CrossingIs, CrossIs
<1>6. CleanInv
  BY <1>5 DEF IInv
<1>7. /\ left = NoFault \/ (s.free = free /\ s.ino = ino[f])
      /\ ~(f \in Files /\ op[f].stale)
      /\ \A i \in NBlocks(ino[f].size) .. MaxIndex - 1 : Mapped(s.dev, s.ino, i) = 0
  BY <1>5, CrossingIs
<1>8. s \in States /\ Good(s, f, -1)
  BY <1>1, <1>3, <1>4, <1>6, <1>7, FailGood
<1>9. /\ op'[f].pos = 0 /\ op'[f].from = 0 /\ op'[f].end = 0 /\ op'[f].log = <<>>
      /\ \A g \in Inodes : g # f => op'[g] = op[g]
  BY <1>1, <1>3, OpEnds
<1>10. /\ dev' = s.dev /\ free' = s.free /\ ino' = With(s, f) /\ ino'[f] = s.ino /\ \A g \in Inodes : g # f => ino'[g] = ino[g]
  BY <1>1, <1>4, <1>8, NowIs DEF Apply, With, TypeInv
<1>11. Before' = Now(s, f)
  BY <1>10 DEF Before, Now
<1>12. /\ Parted(Now(s, f), s.free, Ends) /\ Counts(Now(s, f), With(s, f), Ends) /\ ino'[f].size = ino[f].size
       /\ \A g \in Inodes, i \in Indices : Data(g, i)' = Data(g, i)
       /\ \A g \in Inodes, i \in Indices : i < Ends[g] /\ Data(g, i) # 0 => dev'[Data(g, i)] = dev[Data(g, i)]
  <2>1. ASSUME NEW g \in Inodes, NEW i \in Indices
        PROVE  Data(g, i)' = Data(g, i) /\ (i < Ends[g] /\ Data(g, i) # 0 => dev'[Data(g, i)] = dev[Data(g, i)])
    <3>1. /\ <<"data", i>> \in Slots /\ ~IsTable(<<"data", i>>) /\ (Live(<<"data", i>>, Ends[g]) <=> i < Ends[g])
          /\ Data(g, i) = Before[g][<<"data", i>>]
      BY <1>1, DataIs
    <3>2. <<"data", i>> # <<"data", -1>>
      BY <1>1, Fields DEF Indices
    <3>3. Now(s, f)[g][<<"data", i>>] = Before[g][<<"data", i>>]
      BY <1>8, <3>1, <3>2 DEF Good
    <3>4. Data(g, i)' = Now(s, f)[g][<<"data", i>>]
      BY <1>11 DEF Data
    <3>5. i < Ends[g] /\ Data(g, i) # 0 => s.dev[Data(g, i)] = dev[Data(g, i)]
      BY <1>8, <3>1 DEF Good
    <3>. QED  BY <1>10, <3>1, <3>3, <3>4, <3>5
  <2>. QED  BY <1>8, <1>10, <2>1 DEF Good
<1>13. ino[f].size \in Nat /\ residue[f] \in SUBSET Positions /\ MaxIndex \in Nat
  BY <1>1, Fields
<1>14. NBlocks(ino[f].size) \in Nat /\ MaxOf(ino[f].size, 0) = ino[f].size
  BY <1>13, NBlocksIs DEF MaxOf
<1>15. /\ Ends'[f] = NBlocks(ino[f].size) /\ \A g \in Inodes : g # f => Ends'[g] = Ends[g]
       /\ \A i \in Nat : i < Ends'[f] => i < Ends[f]
  <2>1. Ends'[f] = NBlocks(ino[f].size)
    BY <1>9, <1>12, <1>14 DEF Ends
  <2>2. \A g \in Inodes : g # f => Ends'[g] = Ends[g]
    BY <1>9, <1>10 DEF Ends
  <2>3. \A i \in Nat : i < Ends'[f] => i < Ends[f]
    BY <1>1, <1>13, <2>1, NBlocksIs, EndsIs
  <2>. QED  BY <2>1, <2>2, <2>3
\* behind the size there is nothing
<1>16. ASSUME NEW i \in Indices, ~(i < Ends'[f]) PROVE Data(f, i) = 0
  <2>1. i \in NBlocks(ino[f].size) .. MaxIndex - 1
    BY <1>13, <1>14, <1>15, <1>16 DEF Indices
  <2>2. Mapped(s.dev, s.ino, i) = 0
    BY <1>7, <2>1
  <2>3. Data(f, i)' = Mapped(s.dev, s.ino, i)
    <3>1. <<"data", i>> \in Slots
      BY <1>1, DataIs
    <3>2. Now(s, f)[f][<<"data", i>>] = Ptr(s.dev, s.ino, <<"data", i>>)
      BY <1>1, <1>8, <3>1, NowIs DEF TypeInv
    <3>. QED  BY <1>11, <3>2 DEF Data, Ptr
  <2>. QED  BY <1>12, <2>2, <2>3
<1>17. PICK t, n, P : t = Ends' /\ n = ino' /\ P = Before'
  OBVIOUS
<1>18. P \in Pointers /\ P = Now(s, f) /\ n = With(s, f)
  BY <1>1, <1>8, <1>10, <1>11, <1>17, NowIs DEF TypeInv
<1>19. SameLive(P, Ends, t)
  <2>. SUFFICES ASSUME NEW g \in Inodes, NEW y \in Slots, P[g][y] # 0 PROVE Live(y, Ends[g]) <=> Live(y, t[g])
    BY DEF SameLive
  <2>1. CASE g # f
    BY <1>15, <1>17, <2>1
  <2>2. CASE g = f /\ IsTable(y)
    BY <2>2 DEF IsTable, Live
  <2>3. CASE g = f /\ ~IsTable(y)
    <3>1. PICK i \in Indices : y = <<"data", i>>
      BY <2>3, NotTable
    <3>2. (Live(y, Ends[f]) <=> i < Ends[f]) /\ (Live(y, t[f]) <=> i < Ends'[f])
      BY <1>1, <1>17, <3>1, DataIs
    <3>3. Data(f, i) # 0
      BY <1>12, <1>17, <2>3, <3>1 DEF Data
    <3>4. i < Ends'[f] /\ i \in Nat
      BY <1>13, <1>16, <3>3 DEF Indices
    <3>. QED  BY <1>15, <2>3, <3>2, <3>4
  <2>. QED  BY <2>1, <2>2, <2>3
<1>20. SameCount(n, n)
  BY DEF SameCount
<1>21. Parted(Before, free, Ends)' /\ Counts(Before, ino, Ends)'
  <2>1. Parted(P, s.free, t) /\ Counts(P, n, t)
    BY <1>12, <1>18, <1>19, <1>20, TopsSame
  <2>2. Parted(Before', free', Ends') /\ Counts(Before', ino', Ends')
    BY <1>10, <1>17, <2>1
  <2>. QED  BY <2>2 DEF Parted, Apart, NoneFree, AllReached, Counts
<1>22. Behind(f) /\ Shown(f)
  BY <1>6 DEF CleanInv
<1>23. Behind(f)'
  <2>1. \A p \in residue[f] : p >= ino'[f].size /\ p >= op'[f].end
    BY <1>9, <1>12, <1>13, <1>22, PositionIs DEF Behind
  <2>2. ASSUME NEW i \in Indices, i >= NBlocks(MaxOf(ino'[f].size, op'[f].pos)) PROVE Data(f, i) = 0
    <3>1. i \in Nat /\ i >= NBlocks(ino[f].size)
      BY <1>9, <1>12, <1>13, <1>14, <2>2 DEF Indices
    <3>2. ~(i < Ends'[f])
      BY <1>14, <1>15, <3>1
    <3>. QED  BY <1>16, <3>2
  <2>. QED  BY <1>3, <1>12, <2>1, <2>2 DEF Behind
<1>24. Logged(f)'
  BY <1>9 DEF Logged, Past
<1>25. Shown(f)'
  <2>. SUFFICES ASSUME NEW p \in Positions
                PROVE  /\ content[f][p] # 0 => BlockOf(p) < Ends'[f] /\ Data(f, BlockOf(p)) # 0
                       /\ content[f][p] # 0 /\ f \in Files => p < ino[f].size
                       /\ BlockOf(p) < Ends'[f] /\ p \notin residue[f] => Entry(dev', Data(f, BlockOf(p)), p % Per) = content[f][p]
    BY <1>3, <1>12, PositionIs DEF Shown, Word
  <2>1. BlockOf(p) \in Indices /\ BlockOf(p) \in Nat
    BY PositionIs
  <2>2. /\ content[f][p] # 0 => BlockOf(p) < Ends[f] /\ Data(f, BlockOf(p)) # 0
        /\ content[f][p] # 0 /\ f \in Files => p < ino[f].size
        /\ BlockOf(p) < Ends[f] /\ p \notin residue[f] => Entry(dev, Data(f, BlockOf(p)), p % Per) = content[f][p]
    BY <1>7, <1>22 DEF Shown, Word
  <2>3. content[f][p] # 0 => BlockOf(p) < Ends'[f]
    BY <1>16, <2>1, <2>2
  <2>4. BlockOf(p) < Ends'[f] => Entry(dev', Data(f, BlockOf(p)), p % Per) = Entry(dev, Data(f, BlockOf(p)), p % Per)
    BY <1>12, <1>15, <2>1 DEF Entry
  <2>. QED  BY <1>15, <2>1, <2>2, <2>3, <2>4
<1>26. \A g \in Inodes : g # f => /\ op'[g] = op[g] /\ residue'[g] = residue[g] /\ content'[g] = content[g] /\ ino'[g].size = ino[g].size
                                  /\ \A i \in Indices : Data(g, i)' = Data(g, i)
                                  /\ \A i \in Indices : i < Ends[g] /\ Data(g, i) # 0 => dev'[Data(g, i)] = dev[Data(g, i)]
  BY <1>3, <1>9, <1>10, <1>12
<1>. QED  BY <1>1, <1>6, <1>21, <1>23, <1>24, <1>25, <1>26, CleanStep

(***************************************************************************)
(* WriteBlock.                                                             *)
(***************************************************************************)

\* The operation after an iteration, and the limits that it crosses.
Moved(f, b, w, st) ==
  [op[f] EXCEPT !.pos = Stop(f), !.stale = op[f].stale \/ st,
                !.log = IF f \in Files THEN Append(op[f].log, <<b, w>>) ELSE op[f].log]
Keeping(kept) == IF kept THEN {"exposed"} ELSE {}

\* The operation after an iteration: where it is.
LEMMA MovedIs ==
  ASSUME TypeInv, NEW f \in Inodes, NEW b \in Blocks, NEW w \in Bodies, NEW st \in BOOLEAN, Stop(f) \in Nat
  PROVE  /\ Moved(f, b, w, st) \in Ops /\ Moved(f, b, w, st).pos = Stop(f) /\ Moved(f, b, w, st).from = op[f].from
         /\ Moved(f, b, w, st).end = op[f].end /\ Moved(f, b, w, st).val = op[f].val
<1>1. op[f] \in Ops /\ op[f].log \in Seq(Blocks \X Bodies) /\ op[f].stale \in BOOLEAN
  BY Fields
<1>2. PICK l, t, z : /\ l = IF f \in Files THEN Append(op[f].log, <<b, w>>) ELSE op[f].log
                     /\ t = (op[f].stale \/ st) /\ z = Stop(f)
  OBVIOUS
<1>3. l \in Seq(Blocks \X Bodies) /\ z \in Nat
  BY <1>1, <1>2
<1>4. t \in BOOLEAN
  BY <1>1, <1>2
<1>5. PICK m, n : m = [n EXCEPT !.pos = z, !.stale = t, !.log = l] /\ n = op[f]
  OBVIOUS
<1>6. m = Moved(f, b, w, st)
  BY <1>2, <1>5 DEF Moved
<1>7. n \in Ops
  BY <1>1, <1>5
<1>8. m.pos = z /\ m.stale = t /\ m.log = l /\ m.from = n.from /\ m.end = n.end /\ m.val = n.val
  BY <1>5, <1>7 DEF Ops
<1>9. m = [pos |-> m.pos, from |-> m.from, end |-> m.end, val |-> m.val, log |-> m.log, stale |-> m.stale]
  BY <1>5, <1>7 DEF Ops
<1>10. n.from \in Nat /\ n.end \in Nat /\ n.val \in Words
  BY <1>7 DEF Ops
<1>11. [pos |-> m.pos, from |-> m.from, end |-> m.end, val |-> m.val, log |-> m.log, stale |-> m.stale] \in Ops
  BY <1>3, <1>4, <1>8, <1>10 DEF Ops
<1>12. m \in Ops
  BY <1>9, <1>11
<1>. QED  BY <1>2, <1>5, <1>6, <1>8, <1>12

\* The operation after an iteration: what it knows.
LEMMA MovedHas ==
  ASSUME TypeInv, NEW f \in Inodes, NEW b \in Blocks, NEW w \in Bodies, NEW st \in BOOLEAN, Stop(f) \in Nat
  PROVE  /\ Moved(f, b, w, st).stale = (op[f].stale \/ st)
         /\ Moved(f, b, w, st).log = IF f \in Files THEN Append(op[f].log, <<b, w>>) ELSE op[f].log
<1>1. op[f] \in Ops /\ op[f].log \in Seq(Blocks \X Bodies) /\ op[f].stale \in BOOLEAN
  BY Fields
<1>2. PICK l, t, z : /\ l = IF f \in Files THEN Append(op[f].log, <<b, w>>) ELSE op[f].log
                     /\ t = (op[f].stale \/ st) /\ z = Stop(f)
  OBVIOUS
<1>3. l \in Seq(Blocks \X Bodies) /\ z \in Nat
  BY <1>1, <1>2
<1>4. t \in BOOLEAN
  BY <1>1, <1>2
<1>5. PICK m, n : m = [n EXCEPT !.pos = z, !.stale = t, !.log = l] /\ n = op[f]
  OBVIOUS
<1>6. m = Moved(f, b, w, st)
  BY <1>2, <1>5 DEF Moved
<1>7. n \in Ops
  BY <1>1, <1>5
<1>8. m.pos = z /\ m.stale = t /\ m.log = l /\ m.from = n.from /\ m.end = n.end /\ m.val = n.val
  BY <1>5, <1>7 DEF Ops
<1>. QED  BY <1>2, <1>6, <1>8

\* An iteration, as facts.
LEMMA BlockIs ==
  ASSUME TypeInv, NEW f \in Inodes, WriteBlock(f)
  PROVE  /\ op[f].pos < op[f].end /\ residue' = residue
         /\ f \in Dirs => Gives(f, op[f].pos .. Stop(f) - 1, op[f].val)
         /\ f \notin Dirs => content' = content
         /\ \E s, w, m, st, kept :
              /\ s = Iteration(f, NoFault).after /\ w = Iteration(f, NoFault).words /\ m = To(f, NoFault) /\ s.ok
              /\ Apply(f, s) /\ op' = [op EXCEPT ![f] = Moved(f, s.blk, w, st)] /\ Cross(Keeping(kept))
              /\ st \in BOOLEAN /\ kept \in BOOLEAN
              /\ st <=> m.ok /\ Mapped(dev, ino[f], BlockOf(op[f].pos)) = 0 /\ m.dev[m.blk] # Zeroes
              /\ kept <=> /\ m.ok /\ Mapped(dev, ino[f], BlockOf(op[f].pos)) = 0
                          /\ \E k \in 0 .. Per - 1 \ Written(f, BlockOf(op[f].pos)) : m.dev[m.blk][k] # 0
<1>1. PICK x \in {Iteration(f, NoFault)} :
        /\ x.after.ok /\ Apply(f, x.after) /\ op' = [op EXCEPT ![f] = Moved(f, x.after.blk, x.words, x.stale)]
        /\ Cross(Keeping(x.kept))
  BY Zenon DEF WriteBlock, Moved, Keeping
<1>2. x = Iteration(f, NoFault)
  OBVIOUS
<1>3. /\ x.stale \in BOOLEAN /\ x.kept \in BOOLEAN
      /\ x.stale <=> To(f, NoFault).ok /\ Mapped(dev, ino[f], BlockOf(op[f].pos)) = 0 /\ To(f, NoFault).dev[To(f, NoFault).blk] # Zeroes
      /\ x.kept <=>
              /\ To(f, NoFault).ok /\ Mapped(dev, ino[f], BlockOf(op[f].pos)) = 0
              /\ \E k \in 0 .. Per - 1 \ Written(f, BlockOf(op[f].pos)) : To(f, NoFault).dev[To(f, NoFault).blk][k] # 0
  BY <1>2, Zenon DEF Iteration, To, From
<1>4. /\ op[f].pos < op[f].end /\ residue' = residue
      /\ f \in Dirs => Gives(f, op[f].pos .. Stop(f) - 1, op[f].val)
      /\ f \notin Dirs => content' = content
  BY DEF WriteBlock
<1>5. \E s, w, m, st, kept :
              /\ s = Iteration(f, NoFault).after /\ w = Iteration(f, NoFault).words /\ m = To(f, NoFault) /\ s.ok
              /\ Apply(f, s) /\ op' = [op EXCEPT ![f] = Moved(f, s.blk, w, st)] /\ Cross(Keeping(kept))
              /\ st \in BOOLEAN /\ kept \in BOOLEAN
              /\ st <=> m.ok /\ Mapped(dev, ino[f], BlockOf(op[f].pos)) = 0 /\ m.dev[m.blk] # Zeroes
              /\ kept <=> /\ m.ok /\ Mapped(dev, ino[f], BlockOf(op[f].pos)) = 0
                          /\ \E k \in 0 .. Per - 1 \ Written(f, BlockOf(op[f].pos)) : m.dev[m.blk][k] # 0
  <2>1. PICK s, w, m, st, kept : s = x.after /\ w = x.words /\ m = To(f, NoFault) /\ st = x.stale /\ kept = x.kept
    OBVIOUS
  <2>2. /\ s = Iteration(f, NoFault).after /\ w = Iteration(f, NoFault).words /\ m = To(f, NoFault) /\ s.ok
        /\ Apply(f, s) /\ op' = [op EXCEPT ![f] = Moved(f, s.blk, w, st)] /\ Cross(Keeping(kept))
    BY <1>1, <1>2, <2>1, Zenon
  <2>3. /\ st \in BOOLEAN /\ kept \in BOOLEAN
        /\ st <=> m.ok /\ Mapped(dev, ino[f], BlockOf(op[f].pos)) = 0 /\ m.dev[m.blk] # Zeroes
        /\ kept <=> /\ m.ok /\ Mapped(dev, ino[f], BlockOf(op[f].pos)) = 0
                    /\ \E k \in 0 .. Per - 1 \ Written(f, BlockOf(op[f].pos)) : m.dev[m.blk][k] # 0
    BY <1>3, <2>1, Zenon
  <2>. DEFINE Made(s1, w1, m1, st1, kept1) ==
              /\ s1 = Iteration(f, NoFault).after /\ w1 = Iteration(f, NoFault).words /\ m1 = To(f, NoFault) /\ s1.ok
              /\ Apply(f, s1) /\ op' = [op EXCEPT ![f] = Moved(f, s1.blk, w1, st1)] /\ Cross(Keeping(kept1))
              /\ st1 \in BOOLEAN /\ kept1 \in BOOLEAN
              /\ st1 <=> m1.ok /\ Mapped(dev, ino[f], BlockOf(op[f].pos)) = 0 /\ m1.dev[m1.blk] # Zeroes
              /\ kept1 <=> /\ m1.ok /\ Mapped(dev, ino[f], BlockOf(op[f].pos)) = 0
                           /\ \E k \in 0 .. Per - 1 \ Written(f, BlockOf(op[f].pos)) : m1.dev[m1.blk][k] # 0
  <2>4. Made(s, w, m, st, kept)
    BY <2>2, <2>3, Zenon
  <2>. HIDE DEF Made
  <2>5. \E s1, w1, m1, st1, kept1 : Made(s1, w1, m1, st1, kept1)
    BY <2>4, Zenon
  <2>. QED  BY <2>5, Zenon DEF Made
<1>. QED  BY <1>4, <1>5, Zenon

\* What an iteration leaves: f's inode, the allocator and the device are those of
\* inode_bmap, but that a directory's block is written.
LEMMA BlockDoes ==
  ASSUME TypeInv, NEW f \in Inodes, op[f].pos < op[f].end,
         NEW s, s = Iteration(f, NoFault).after, NEW w, w = Iteration(f, NoFault).words, NEW m, m = To(f, NoFault), s.ok, Apply(f, s)
  PROVE  /\ m \in States /\ w \in Bodies /\ m.ok /\ s.blk = m.blk /\ m.blk \in Blocks /\ BlockOf(op[f].pos) \in Indices
         /\ ino' = With(m, f) /\ ino' \in [Inodes -> Nodes] /\ free' = m.free /\ free' \in SUBSET Blocks
         /\ f \in Dirs => dev' = Put(m.dev, m.blk, w)
         /\ f \notin Dirs => dev' = m.dev
         /\ dev' \in [Blocks -> Bodies] /\ m.dev \in [Blocks -> Bodies]
         /\ \A k \in 0 .. Per - 1 : w[k] = IF k \in Written(f, BlockOf(op[f].pos)) THEN op[f].val ELSE m.dev[m.blk][k]
<1>1. NoFault \in Nat
  BY DEF NoFault
<1>2. /\ m \in States /\ s \in States /\ s.ino = m.ino /\ s.free = m.free /\ w \in Bodies
      /\ m.ok /\ m.blk \in Blocks /\ s.blk = m.blk /\ BlockOf(op[f].pos) < MaxIndex
      /\ f \in Dirs => s.dev = Put(m.dev, m.blk, w)
      /\ f \notin Dirs => s.dev = m.dev
      /\ \A k \in 0 .. Per - 1 : w[k] = IF k \in Written(f, BlockOf(op[f].pos)) THEN op[f].val ELSE m.dev[m.blk][k]
  BY <1>1, IterationDoes
<1>3. BlockOf(op[f].pos) \in Indices
  <2>1. BlockOf(op[f].pos) \in Nat /\ MaxIndex \in Nat
    BY StopIs, Fields
  <2>. QED  BY <1>2, <2>1 DEF Indices
<1>4. s.dev \in [Blocks -> Bodies] /\ m.dev \in [Blocks -> Bodies] /\ m.free \in SUBSET Blocks /\ m.ino \in Nodes
  BY <1>2, StateIs
<1>5. dev' = s.dev /\ free' = m.free /\ ino' = With(m, f)
  BY <1>2 DEF Apply, With
<1>6. ino' \in [Inodes -> Nodes]
  BY <1>4, <1>5 DEF With, TypeInv, Typed
<1>. QED  BY <1>2, <1>3, <1>4, <1>5, <1>6

\* An iteration of inode_write: types and operations.
LEMMA BlockType ==
  ASSUME TypeInv, \A g \in Inodes : OpInv(g), NEW f \in Inodes, WriteBlock(f)
  PROVE  TypeInv' /\ (\A g \in Inodes : OpInv(g)')
<1>1. /\ op[f].pos < op[f].end /\ residue' = residue
      /\ f \in Dirs => Gives(f, op[f].pos .. Stop(f) - 1, op[f].val)
      /\ f \notin Dirs => content' = content
  BY BlockIs
<1>2. PICK s, w, m, st, kept :
              /\ s = Iteration(f, NoFault).after /\ w = Iteration(f, NoFault).words /\ m = To(f, NoFault) /\ s.ok
              /\ Apply(f, s) /\ op' = [op EXCEPT ![f] = Moved(f, s.blk, w, st)] /\ Cross(Keeping(kept))
              /\ st \in BOOLEAN /\ kept \in BOOLEAN
  BY BlockIs
<1>3. /\ w \in Bodies /\ s.blk = m.blk /\ m.blk \in Blocks /\ BlockOf(op[f].pos) \in Indices
      /\ ino' \in [Inodes -> Nodes] /\ free' \in SUBSET Blocks /\ dev' \in [Blocks -> Bodies]
  BY <1>1, <1>2, BlockDoes
<1>4. /\ BlockOf(op[f].pos) \in Nat /\ BlockOf(op[f].pos) * Per \in Nat
      /\ Stop(f) \in Nat /\ op[f].pos < Stop(f) /\ Stop(f) <= op[f].end
      /\ Stop(f) <= BlockOf(op[f].pos) * Per + Per
      /\ Stop(f) = op[f].end \/ Stop(f) = (BlockOf(op[f].pos) + 1) * Per
  BY <1>1, StopIs
<1>5. /\ Moved(f, m.blk, w, st) \in Ops /\ Moved(f, m.blk, w, st).pos = Stop(f) /\ Moved(f, m.blk, w, st).from = op[f].from
      /\ Moved(f, m.blk, w, st).end = op[f].end
  <2>1. PICK b : b = m.blk
    OBVIOUS
  <2>2. b \in Blocks /\ w \in Bodies /\ st \in BOOLEAN /\ Stop(f) \in Nat
    BY <1>2, <1>3, <1>4, <2>1
  <2>3. /\ Moved(f, b, w, st) \in Ops /\ Moved(f, b, w, st).pos = Stop(f) /\ Moved(f, b, w, st).from = op[f].from
        /\ Moved(f, b, w, st).end = op[f].end
    BY <2>2, MovedIs, ZenonT(60)
  <2>. QED  BY <2>1, <2>3, Zenon
<1>6. /\ op' \in [Inodes -> Ops] /\ op'[f].pos = Stop(f) /\ op'[f].from = op[f].from /\ op'[f].end = op[f].end
      /\ \A g \in Inodes : g # f => op'[g] = op[g]
  <2>1. PICK o : o = Moved(f, m.blk, w, st)
    OBVIOUS
  <2>2. o \in Ops /\ op' = [op EXCEPT ![f] = o] /\ op \in [Inodes -> Ops]
    BY <1>2, <1>3, <1>5, <2>1 DEF TypeInv
  <2>3. op' \in [Inodes -> Ops] /\ op'[f] = o /\ \A g \in Inodes : g # f => op'[g] = op[g]
    BY <2>2, OneOp
  <2>. QED  BY <1>5, <2>1, <2>3
<1>7. content' \in [Inodes -> [Positions -> Words]]
  <2>1. op[f].val \in Words /\ content \in [Inodes -> [Positions -> Words]]
    BY Fields DEF TypeInv
  <2>. QED  BY <1>1, <2>1, GivesIs
<1>8. crossed' \in SUBSET Limits
  <2>1. Keeping(kept) \in SUBSET Limits
    BY DEF Keeping, Limits
  <2>. QED  BY <1>2, <2>1, CrossIs DEF TypeInv
<1>9. TypeInv'
  BY <1>1, <1>3, <1>6, <1>7, <1>8 DEF TypeInv, Typed
<1>10. op[f].pos \in Nat /\ op[f].from \in Nat /\ op[f].end \in Nat /\ Top \in Nat
  BY Fields
<1>11. Stop(f) <= Top
  <2>. DEFINE i == BlockOf(op[f].pos)
              x == i * Per
  <2>1. i \in Nat /\ i < MaxIndex /\ MaxIndex \in Nat /\ x \in Nat /\ Stop(f) <= x + Per
    BY <1>3, <1>4, Fields DEF Indices
  <2>2. x + Per <= Top
    <3>1. (i + 1) * Per <= MaxIndex * Per /\ (i + 1) * Per = x + Per
      <4>. HIDE DEF i
      <4>. QED  BY <2>1, SMT
    <3>. QED  BY <3>1 DEF Top
  <2>. HIDE DEF x, i
  <2>. QED  BY <1>4, <1>10, <2>1, <2>2
<1>12. Stop(f) = op[f].end \/ Stop(f) % Per = 0
  <2>. DEFINE i == BlockOf(op[f].pos)
  <2>1. i \in Nat /\ (Stop(f) = op[f].end \/ Stop(f) = (i + 1) * Per)
    BY <1>4
  <2>. HIDE DEF i
  <2>2. i + 1 \in Nat /\ 0 \in 0 .. Per - 1 /\ (i + 1) * Per + 0 = (i + 1) * Per
    BY <2>1, SMT
  <2>3. ((i + 1) * Per) % Per = 0
    BY <2>2, DivIs
  <2>. QED  BY <2>1, <2>3
<1>13. OpInv(f)'
  <2>1. op[f].end # 0 /\ op[f].from <= op[f].pos
    BY <1>1, <1>10 DEF OpInv
  <2>2. op[f].from < op[f].end /\ op[f].from <= Stop(f)
    <3>. DEFINE a == op[f].from
                c == op[f].pos
                e == op[f].end
                z == Stop(f)
    <3>1. a \in Nat /\ c \in Nat /\ e \in Nat /\ z \in Nat /\ a <= c /\ c < e /\ c < z
      BY <1>1, <1>4, <1>10, <2>1
    <3>. HIDE DEF a, c, e, z
    <3>2. a < e /\ a <= z
      BY <3>1
    <3>. QED  BY <3>2 DEF a, e, z
  <2>3. PICK o : o = op'[f]
    OBVIOUS
  <2>4. /\ o.end # 0 /\ o.from <= o.pos /\ o.pos <= o.end /\ o.from < o.end
        /\ o.pos = Stop(f) /\ o.pos <= Top /\ (o.pos = o.end \/ o.pos % Per = 0)
    BY <1>4, <1>6, <1>11, <1>12, <2>1, <2>2, <2>3
  <2>. QED  BY <2>3, <2>4 DEF OpInv
<1>14. \A g \in Inodes : OpInv(g)'
  BY <1>6, <1>13 DEF OpInv
<1>. QED  BY <1>9, <1>14

\* The positions that an iteration at block i covers, and the blocks that the
\* write has come to before and after it.
LEMMA PastMoves ==
  ASSUME TypeInv, NEW f \in Inodes, OpInv(f), op[f].pos < op[f].end, NEW i \in Indices, i = BlockOf(op[f].pos),
         op'[f].pos = Stop(f), op'[f].from = op[f].from
  PROVE  /\ ~Past(f, i) /\ Past(f, i)' /\ op[f].from <= op[f].pos
         /\ \A l \in Indices : Past(f, l) => Past(f, l)'
         /\ \A l \in Indices : l # i /\ Past(f, l)' => Past(f, l)
         /\ \A p \in Positions : op[f].pos <= p /\ p < Stop(f) => BlockOf(p) = i
         /\ \A k \in 0 .. Per - 1 : ~(op[f].from <= i * Per + k /\ i * Per + k < op[f].pos)
         /\ i * Per < Stop(f)
<1>. DEFINE a == op[f].from
            p == op[f].pos
            z == Stop(f)
            x == i * Per
<1>1. a \in Nat /\ p \in Nat /\ op[f].end \in Nat /\ Per \in Nat /\ Per > 0
  BY Fields
<1>2. /\ i \in Nat /\ x \in Nat /\ x <= p /\ z \in Nat /\ p < z /\ z <= op[f].end /\ z <= x + Per /\ (p % Per = 0 => p = x)
  BY StopIs DEF Indices
<1>3. a <= p /\ (p = a \/ p % Per = 0)
  <2>1. op[f].end # 0
    BY <1>1
  <2>2. a <= p /\ (p = a \/ p = op[f].end \/ p % Per = 0)
    BY <2>1 DEF OpInv
  <2>. QED  BY <2>2, <1>1
<1>4. \A l \in Indices : l \in Nat /\ l * Per \in Nat /\ (l + 1) * Per = l * Per + Per
  <2>1. \A l \in Nat : l * Per \in Nat /\ (l + 1) * Per = l * Per + Per
    BY SMT
  <2>. QED  BY <2>1 DEF Indices
<1>5. \A l \in Indices : (l < i => l * Per + Per <= x) /\ (i < l => x + Per <= l * Per)
  <2>1. ASSUME NEW l \in Nat, NEW j \in Nat, l < j PROVE l * Per + Per <= j * Per
    BY <2>1, SMT
  <2>. QED  BY <1>2, <1>4, <2>1
<1>6. /\ \A l \in Indices : Past(f, l) <=> a < p /\ a < l * Per + Per /\ l * Per < p
      /\ \A l \in Indices : Past(f, l)' <=> a < z /\ a < l * Per + Per /\ l * Per < z
  BY <1>4 DEF Past
<1>7. \A q \in Positions : p <= q /\ q < z => BlockOf(q) = i
  <2>1. ASSUME NEW q \in Positions, p <= q, q < z PROVE BlockOf(q) = i
    <3>1. q \in Nat /\ x <= q /\ q < x + Per
      BY <1>1, <1>2, <2>1, PositionIs
    <3>2. q - x \in 0 .. Per - 1 /\ x + (q - x) = q
      BY <1>1, <1>2, <3>1
    <3>. HIDE DEF p, z
    <3>3. (i * Per + (q - x)) \div Per = i
      <4>1. PICK k \in 0 .. Per - 1 : k = q - x
        BY <3>2
      <4>2. (i * Per + k) \div Per = i
        BY <1>2, DivIs
      <4>. QED  BY <4>1, <4>2
    <3>. QED  BY <3>2, <3>3 DEF BlockOf, x
  <2>. QED  BY <2>1
<1>8. \A l \in Indices : l < i \/ l = i \/ i < l
  BY <1>2, <1>4
<1>. HIDE DEF a, p, z, x
<1>9. ~Past(f, i) /\ Past(f, i)'
  <2>1. i * Per = x
    BY DEF x
  <2>2. ~(a < p /\ a < x + Per /\ x < p)
    BY <1>1, <1>2, <1>3
  <2>3. a < z /\ a < x + Per /\ x < z
    BY <1>1, <1>2, <1>3
  <2>. QED  BY <1>6, <2>1, <2>2, <2>3
<1>10. \A l \in Indices : Past(f, l) => Past(f, l)'
  <2>1. ASSUME NEW l \in Indices, Past(f, l) PROVE Past(f, l)'
    <3>1. a < p /\ a < l * Per + Per /\ l * Per < p
      BY <1>6, <2>1
    <3>. DEFINE y == l * Per
    <3>2. y \in Nat /\ a < p /\ y < p
      BY <1>4, <3>1
    <3>. HIDE DEF y
    <3>3. a < z /\ y < z
      BY <1>1, <1>2, <3>2
    <3>. QED  BY <1>6, <3>1, <3>3 DEF y
  <2>. QED  BY <2>1
<1>11. \A l \in Indices : l # i /\ Past(f, l)' => Past(f, l)
  <2>1. ASSUME NEW l \in Indices, l # i, Past(f, l)' PROVE Past(f, l)
    <3>. DEFINE y == l * Per
    <3>1. a < z /\ a < y + Per /\ y < z /\ y \in Nat
      BY <1>4, <1>6, <2>1
    <3>2. (l < i => y + Per <= x) /\ (i < l => x + Per <= y)
      BY <1>5
    <3>. HIDE DEF y
    <3>3. l < i
      BY <1>1, <1>2, <1>8, <2>1, <3>1, <3>2
    <3>4. a < p /\ y < p
      BY <1>1, <1>2, <3>1, <3>2, <3>3
    <3>. QED  BY <1>6, <3>1, <3>4 DEF y
  <2>. QED  BY <2>1
<1>12. \A k \in 0 .. Per - 1 : ~(a <= x + k /\ x + k < p)
  BY <1>1, <1>2, <1>3
<1>13. x < z
  BY <1>1, <1>2
<1>. QED  BY <1>3, <1>7, <1>9, <1>10, <1>11, <1>12, <1>13 DEF a, p, x, z

\* Pointers do not change when only data is written.
LEMMA PtrsKeep ==
  ASSUME NEW d \in [Blocks -> Bodies], NEW d2 \in [Blocks -> Bodies], NEW ns \in [Inodes -> Nodes],
         \A g \in Inodes, t \in Slots : IsTable(t) /\ Ptr(d, ns[g], t) # 0 => d2[Ptr(d, ns[g], t)] = d[Ptr(d, ns[g], t)]
  PROVE  Ptrs(d2, ns) = Ptrs(d, ns)
<1>1. ASSUME NEW g \in Inodes, NEW y \in Slots PROVE Ptr(d2, ns[g], y) = Ptr(d, ns[g], y)
  <2>1. PICK n \in Nodes : n = ns[g]
    OBVIOUS
  <2>2. \A t \in Slots : IsTable(t) /\ Ptr(d, n, t) # 0 => d2[Ptr(d, n, t)] = d[Ptr(d, n, t)]
    BY <2>1
  <2>3. Ptr(d2, n, y) = Ptr(d, n, y)
    BY <2>2, SamePtr
  <2>. QED  BY <2>1, <2>3
<1>. QED  BY <1>1 DEF Ptrs

\* An iteration that succeeds within the limits: block i of f is b, which held
\* the words e, and w are its new words.
Shape(f, i, b, e, w) ==
  /\ i = BlockOf(op[f].pos) /\ i \in Indices /\ i < Ends[f] /\ b \in Blocks /\ e \in Bodies /\ w \in Bodies
  /\ \A g \in Inodes, j \in Indices : g # f \/ j # i => Data(g, j)' = Data(g, j)
  /\ Data(f, i)' = b /\ (Data(f, i) # 0 => Data(f, i) = b /\ e = dev[b])
  /\ \A g \in Inodes, j \in Indices :
       (g # f \/ j # i) /\ j < Ends[g] /\ Data(g, j) # 0 => dev'[Data(g, j)] = dev[Data(g, j)]
  /\ f \in Dirs => dev'[b] = w
  /\ f \notin Dirs => dev'[b] = e
  /\ \A k \in 0 .. Per - 1 : w[k] = IF op[f].pos <= i * Per + k /\ i * Per + k < Stop(f) THEN op[f].val ELSE e[k]
  /\ \A k \in 0 .. Per - 1 : Data(f, i) = 0 /\ ~(op[f].pos <= i * Per + k /\ i * Per + k < Stop(f)) => e[k] = 0
  /\ Data(f, i) = 0 /\ e # Zeroes => op'[f].stale
\* What it leaves of the rest.
Leaves(f, b, w) ==
  /\ op'[f].pos = Stop(f) /\ op'[f].from = op[f].from /\ op'[f].end = op[f].end /\ op'[f].val = op[f].val
  /\ op[f].stale => op'[f].stale
  /\ op'[f].log = IF f \in Files THEN Append(op[f].log, <<b, w>>) ELSE op[f].log
  /\ \A g \in Inodes : g # f => op'[g] = op[g] /\ content'[g] = content[g]
  /\ \A g \in Inodes : ino'[g].size = ino[g].size
  /\ residue' = residue
  /\ \A p \in Positions :
       content'[f][p] = IF f \in Dirs /\ op[f].pos <= p /\ p < Stop(f) THEN op[f].val ELSE content[f][p]
  /\ Parted(Before, free, Ends)' /\ Counts(Before, ino, Ends)'
  /\ \A g \in Inodes : Ends'[g] = Ends[g]

\* inode_bmap of an iteration, within the limits.
LEMMA BlockGood ==
  ASSUME TypeInv, CleanInv, NEW f \in Inodes, op[f].pos < op[f].end, NEW i \in Indices, i = BlockOf(op[f].pos),
         NEW m \in States, m = To(f, NoFault), m.ok
  PROVE  Good(m, f, i) /\ m.blk \in Blocks /\ m.blk = Now(m, f)[f][<<"data", i>>] /\ i < Ends[f]
<1>1. NoFault \in Nat
  BY DEF NoFault
<1>2. i \in Nat /\ i < Ends[f] /\ Typed
  BY StopIs DEF TypeInv
<1>3. PICK q : q = From(f, NoFault)
  OBVIOUS
<1>4. Good(q, f, -1) /\ q.ok /\ q.left = NoFault
  BY <1>1, <1>3, FromGood
<1>5. q \in States
  BY <1>1, <1>3, IterationDoes
<1>6. q.left >= 8
  BY <1>4 DEF NoFault
<1>7. m = Bmap(q, i)
  BY <1>3 DEF To
<1>8. Good(m, f, i) /\ m.blk \in Blocks /\ m.blk = Ptr(m.dev, m.ino, <<"data", i>>)
  BY <1>2, <1>4, <1>5, <1>6, <1>7, BmapClean
<1>9. <<"data", i>> \in Slots
  BY DataIs
<1>10. Now(m, f)[f][<<"data", i>>] = Ptr(m.dev, m.ino, <<"data", i>>)
  BY <1>2, <1>9, NowIs
<1>. QED  BY <1>2, <1>8, <1>10

\* What such an iteration makes of the pointers: block i of f has one.
LEMMA BlockPtrs ==
  ASSUME TypeInv, CleanInv, NEW f \in Inodes, NEW i \in Indices, i < Ends[f], NEW m \in States, Good(m, f, i),
         NEW b \in Blocks, b = m.blk, b = Now(m, f)[f][<<"data", i>>], NEW w \in Bodies,
         ino' = With(m, f), f \in Dirs => dev' = Put(m.dev, b, w), f \notin Dirs => dev' = m.dev
  PROVE  /\ Before' = Now(m, f)
         /\ \A g \in Inodes, j \in Indices : g # f \/ j # i => Data(g, j)' = Data(g, j)
         /\ Data(f, i)' = b /\ (Data(f, i) # 0 => Data(f, i) = b /\ m.dev[b] = dev[b])
         /\ \A g \in Inodes, j \in Indices :
              (g # f \/ j # i) /\ j < Ends[g] /\ Data(g, j) # 0 => dev'[Data(g, j)] = dev[Data(g, j)]
         /\ f \in Dirs => dev'[b] = w
         /\ f \notin Dirs => dev'[b] = m.dev[b]
<1>1. Typed /\ b # 0 /\ m.dev \in [Blocks -> Bodies]
  BY StateIs DEF TypeInv
<1>2. With(m, f) \in [Inodes -> Nodes] /\ Now(m, f) \in Pointers
  BY <1>1, NowIs
<1>3. Apart(Now(m, f), Ends)
  BY DEF Good, Parted
<1>4. <<"data", i>> \in Slots /\ ~IsTable(<<"data", i>>) /\ Live(<<"data", i>>, Ends[f])
  BY DataIs
<1>5. /\ \A x \in Blocks : x # b => dev'[x] = m.dev[x]
      /\ f \in Dirs => dev'[b] = w
      /\ f \notin Dirs => dev'[b] = m.dev[b]
      /\ dev' \in [Blocks -> Bodies]
  <2>1. PICK d0 : d0 = m.dev
    OBVIOUS
  <2>2. PICK d : d = Put(d0, b, w)
    OBVIOUS
  <2>3. d0 \in [Blocks -> Bodies] /\ d = [d0 EXCEPT ![b] = w]
    BY <1>1, <2>1, <2>2 DEF Put
  <2>4. d \in [Blocks -> Bodies] /\ d[b] = w /\ \A x \in Blocks : x # b => d[x] = d0[x]
    BY <2>3
  <2>. QED  BY <1>1, <2>1, <2>2, <2>4
<1>6. Before' = Now(m, f)
  <2>1. PICK d, ns : d = m.dev /\ ns = With(m, f)
    OBVIOUS
  <2>2. PICK d2 : d2 = dev'
    OBVIOUS
  <2>3. ASSUME NEW g \in Inodes, NEW t \in Slots, IsTable(t), Ptr(d, ns[g], t) # 0
        PROVE  d2[Ptr(d, ns[g], t)] = d[Ptr(d, ns[g], t)]
    <3>1. Now(m, f)[g][t] = Ptr(d, ns[g], t)
      BY <2>1 DEF Now, Ptrs
    <3>2. Live(t, Ends[g]) /\ t # <<"data", i>>
      BY <2>3 DEF IsTable, Live
    <3>3. Now(m, f)[g][t] # b
      BY <1>3, <1>4, <2>3, <3>1, <3>2 DEF Apart
    <3>4. Now(m, f)[g][t] \in Blocks
      BY <1>2, <2>3, <3>1 DEF Pointers, Words
    <3>. QED  BY <1>5, <2>1, <2>2, <3>1, <3>3, <3>4
  <2>4. Ptrs(d2, ns) = Ptrs(d, ns)
    BY <1>1, <1>2, <1>5, <2>1, <2>2, <2>3, PtrsKeep
  <2>5. Before' = Ptrs(dev', ino')
    BY DEF Before, Ptrs
  <2>. QED  BY <2>1, <2>2, <2>4, <2>5 DEF Now
<1>7. \A g, j : Data(g, j)' = Now(m, f)[g][<<"data", j>>]
  BY <1>6 DEF Data
<1>8. ASSUME NEW g \in Inodes, NEW j \in Indices, g # f \/ j # i
      PROVE  /\ Now(m, f)[g][<<"data", j>>] = Data(g, j)
             /\ j < Ends[g] /\ Data(g, j) # 0 => dev'[Data(g, j)] = dev[Data(g, j)]
  <2>1. /\ <<"data", j>> \in Slots /\ ~IsTable(<<"data", j>>) /\ (Live(<<"data", j>>, Ends[g]) <=> j < Ends[g])
        /\ Data(g, j) = Before[g][<<"data", j>>] /\ Data(g, j) \in Words
    BY DataIs
  <2>2. g = f => <<"data", j>> # <<"data", i>>
    BY <1>8
  <2>3. Now(m, f)[g][<<"data", j>>] = Before[g][<<"data", j>>]
    BY <2>1, <2>2 DEF Good
  <2>4. ASSUME j < Ends[g], Data(g, j) # 0 PROVE dev'[Data(g, j)] = dev[Data(g, j)]
    <3>1. m.dev[Data(g, j)] = dev[Data(g, j)]
      BY <2>1, <2>4 DEF Good
    <3>2. Data(g, j) # b
      BY <1>3, <1>4, <1>8, <2>1, <2>2, <2>3, <2>4 DEF Apart
    <3>. QED  BY <1>5, <2>1, <2>4, <3>1, <3>2 DEF Words
  <2>. QED  BY <2>1, <2>3, <2>4
<1>9. Data(f, i) # 0 => Data(f, i) = b /\ m.dev[b] = dev[b]
  <2>1. Data(f, i) = Before[f][<<"data", i>>]
    BY DEF Data
  <2>. QED  BY <1>4, <2>1 DEF Good
<1>. QED  BY <1>5, <1>6, <1>7, <1>8, <1>9

\* An iteration within the limits has that shape.
LEMMA BlockShape ==
  ASSUME IInv, NEW f \in Inodes, WriteBlock(f), WithinLimits'
  PROVE  CleanInv /\ \E i, b, e, w : Shape(f, i, b, e, w) /\ Leaves(f, b, w)
<1>1. TypeInv /\ (\A g \in Inodes : OpInv(g)) /\ crossed \in SUBSET Limits
  BY DEF IInv, TypeInv
<1>2. /\ op[f].pos < op[f].end /\ residue' = residue
      /\ f \in Dirs => Gives(f, op[f].pos .. Stop(f) - 1, op[f].val)
      /\ f \notin Dirs => content' = content
  BY <1>1, BlockIs
<1>3. PICK s, w, m, st, kept :
              /\ s = Iteration(f, NoFault).after /\ w = Iteration(f, NoFault).words /\ m = To(f, NoFault) /\ s.ok
              /\ Apply(f, s) /\ op' = [op EXCEPT ![f] = Moved(f, s.blk, w, st)] /\ Cross(Keeping(kept))
              /\ st \in BOOLEAN /\ kept \in BOOLEAN
              /\ st <=> m.ok /\ Mapped(dev, ino[f], BlockOf(op[f].pos)) = 0 /\ m.dev[m.blk] # Zeroes
              /\ kept <=> /\ m.ok /\ Mapped(dev, ino[f], BlockOf(op[f].pos)) = 0
                          /\ \E k \in 0 .. Per - 1 \ Written(f, BlockOf(op[f].pos)) : m.dev[m.blk][k] # 0
  BY <1>1, BlockIs
<1>4. WithinLimits /\ ~kept
  <2>1. Keeping(kept) \in SUBSET Limits /\ (kept => Keeping(kept) # {})
    BY DEF Keeping, Limits
  <2>2. WithinLimits /\ Keeping(kept) = {}
    BY <1>1, <1>3, <2>1, CrossIs
  <2>. QED  BY <2>1, <2>2
<1>5. CleanInv
  BY <1>4 DEF IInv
<1>6. PICK i, b, e : i = BlockOf(op[f].pos) /\ b = m.blk /\ e = m.dev[b]
  OBVIOUS
<1>a. /\ m \in States /\ w \in Bodies /\ m.ok /\ s.blk = m.blk /\ m.blk \in Blocks /\ BlockOf(op[f].pos) \in Indices
      /\ ino' = With(m, f) /\ free' = m.free
      /\ f \in Dirs => dev' = Put(m.dev, m.blk, w)
      /\ f \notin Dirs => dev' = m.dev
      /\ m.dev \in [Blocks -> Bodies]
      /\ \A k \in 0 .. Per - 1 : w[k] = IF k \in Written(f, BlockOf(op[f].pos)) THEN op[f].val ELSE m.dev[m.blk][k]
  <2>1. s = Iteration(f, NoFault).after /\ w = Iteration(f, NoFault).words /\ m = To(f, NoFault) /\ s.ok /\ Apply(f, s)
    BY <1>3
  <2>. QED  BY <1>1, <1>2, <2>1, BlockDoes
<1>7. /\ i \in Indices /\ b \in Blocks /\ s.blk = b /\ e \in Bodies
      /\ f \in Dirs => dev' = Put(m.dev, b, w)
      /\ \A k \in 0 .. Per - 1 : w[k] = IF k \in Written(f, i) THEN op[f].val ELSE e[k]
  BY <1>6, <1>a
<1>8. Good(m, f, i) /\ b = Now(m, f)[f][<<"data", i>>] /\ i < Ends[f]
  <2>1. m = To(f, NoFault) /\ m \in States /\ m.ok /\ i \in Indices /\ i = BlockOf(op[f].pos) /\ b = m.blk
    BY <1>3, <1>6, <1>7, <1>a
  <2>2. op[f].pos < op[f].end
    BY <1>2
  <2>3. Good(m, f, i) /\ m.blk = Now(m, f)[f][<<"data", i>>] /\ i < Ends[f]
    BY <1>1, <1>5, <2>1, <2>2, BlockGood
  <2>. QED  BY <2>1, <2>3
<1>9. Typed /\ With(m, f)[f] = m.ino /\ (\A g \in Inodes : g # f => With(m, f)[g] = ino[g])
  BY <1>1, <1>a, NowIs DEF TypeInv
<1>10. /\ Before' = Now(m, f)
       /\ \A g \in Inodes, j \in Indices : g # f \/ j # i => Data(g, j)' = Data(g, j)
       /\ Data(f, i)' = b /\ (Data(f, i) # 0 => Data(f, i) = b /\ m.dev[b] = dev[b])
       /\ \A g \in Inodes, j \in Indices :
            (g # f \/ j # i) /\ j < Ends[g] /\ Data(g, j) # 0 => dev'[Data(g, j)] = dev[Data(g, j)]
       /\ f \in Dirs => dev'[b] = w
       /\ f \notin Dirs => dev'[b] = m.dev[b]
  <2>1. m \in States /\ i \in Indices /\ b \in Blocks /\ b = m.blk /\ w \in Bodies /\ ino' = With(m, f)
    BY <1>6, <1>7, <1>a
  <2>2. f \in Dirs => dev' = Put(m.dev, b, w)
    BY <1>7
  <2>3. f \notin Dirs => dev' = m.dev
    BY <1>a
  <2>. QED  BY <1>1, <1>5, <1>8, <2>1, <2>2, <2>3, BlockPtrs
<1>11. op[f].pos \in Nat /\ Stop(f) \in Nat /\ op[f].val \in Words
  BY <1>1, <1>2, StopIs, Fields
<1>12. /\ op'[f].pos = Stop(f) /\ op'[f].from = op[f].from /\ op'[f].end = op[f].end /\ op'[f].val = op[f].val
       /\ op'[f].stale = (op[f].stale \/ st)
       /\ op'[f].log = IF f \in Files THEN Append(op[f].log, <<b, w>>) ELSE op[f].log
       /\ \A g \in Inodes : g # f => op'[g] = op[g]
  <2>1. PICK o : o = Moved(f, b, w, st)
    OBVIOUS
  <2>2. b \in Blocks /\ w \in Bodies /\ st \in BOOLEAN /\ Stop(f) \in Nat
    BY <1>3, <1>7, <1>11, <1>a
  <2>3. o \in Ops /\ o.pos = Stop(f) /\ o.from = op[f].from /\ o.end = op[f].end /\ o.val = op[f].val
    BY <1>1, <2>1, <2>2, MovedIs
  <2>4. o.stale = (op[f].stale \/ st) /\ o.log = IF f \in Files THEN Append(op[f].log, <<b, w>>) ELSE op[f].log
    BY <1>1, <2>1, <2>2, MovedHas
  <2>5. op' = [op EXCEPT ![f] = o] /\ op \in [Inodes -> Ops]
    BY <1>1, <1>3, <1>7, <2>1 DEF TypeInv
  <2>6. op'[f] = o /\ \A g \in Inodes : g # f => op'[g] = op[g]
    BY <2>3, <2>5, OneOp
  <2>. QED  BY <2>3, <2>4, <2>6
<1>13. ASSUME NEW k \in 0 .. Per - 1 PROVE k \in Written(f, i) <=> op[f].pos <= i * Per + k /\ i * Per + k < Stop(f)
  BY DEF Written
<1>14. Data(f, i) = Mapped(dev, ino[f], i)
  BY <1>1, <1>7, DataIs
<1>15. /\ Data(f, i) = 0 /\ e # Zeroes => st
       /\ \A k \in 0 .. Per - 1 : Data(f, i) = 0 /\ k \notin Written(f, i) => e[k] = 0
  <2>1. Mapped(dev, ino[f], i) = 0 /\ e # Zeroes => st
    BY <1>3, <1>6, <1>a
  <2>2. Mapped(dev, ino[f], i) = 0 => \A k \in 0 .. Per - 1 \ Written(f, i) : e[k] = 0
    BY <1>3, <1>4, <1>6, <1>a
  <2>. QED  BY <1>14, <2>1, <2>2
<1>16. Shape(f, i, b, e, w)
  <2>1. \A k \in 0 .. Per - 1 : w[k] = IF op[f].pos <= i * Per + k /\ i * Per + k < Stop(f) THEN op[f].val ELSE e[k]
    BY <1>7, <1>13
  <2>2. \A k \in 0 .. Per - 1 : Data(f, i) = 0 /\ ~(op[f].pos <= i * Per + k /\ i * Per + k < Stop(f)) => e[k] = 0
    BY <1>13, <1>15
  <2>3. Data(f, i) = 0 /\ e # Zeroes => op'[f].stale
    BY <1>12, <1>15
  <2>4. e = m.dev[b] /\ i = BlockOf(op[f].pos) /\ i \in Indices /\ i < Ends[f] /\ b \in Blocks /\ e \in Bodies /\ w \in Bodies
    BY <1>6, <1>7, <1>8, <1>a
  <2>. QED  BY <1>10, <2>1, <2>2, <2>3, <2>4 DEF Shape
<1>17. /\ \A g \in Inodes : g # f => content'[g] = content[g]
       /\ \A p \in Positions :
            content'[f][p] = IF f \in Dirs /\ op[f].pos <= p /\ p < Stop(f) THEN op[f].val ELSE content[f][p]
  <2>1. CASE f \in Dirs
    <3>1. content \in [Inodes -> [Positions -> Words]]
      BY <1>1 DEF TypeInv
    <3>2. /\ \A p \in Positions : content'[f][p] = IF p \in op[f].pos .. Stop(f) - 1 THEN op[f].val ELSE content[f][p]
          /\ \A g \in Inodes : g # f => content'[g] = content[g]
      BY <1>2, <1>11, <2>1, <3>1, GivesIs
    <3>3. ASSUME NEW p \in Positions PROVE p \in op[f].pos .. Stop(f) - 1 <=> op[f].pos <= p /\ p < Stop(f)
      <4>. DEFINE a == op[f].pos
                  z == Stop(f)
      <4>1. a \in Nat /\ z \in Nat /\ p \in Nat
        BY <1>11, PositionIs
      <4>. HIDE DEF a, z
      <4>2. p \in a .. z - 1 <=> a <= p /\ p < z
        BY <4>1
      <4>. QED  BY <4>2 DEF a, z
    <3>. QED  BY <2>1, <3>2, <3>3
  <2>2. CASE f \notin Dirs
    BY <1>2, <2>2
  <2>. QED  BY <2>1, <2>2
<1>18. \A g \in Inodes : ino'[g].size = ino[g].size
  BY <1>8, <1>9, <1>a DEF Good
<1>19. \A g \in Inodes : Ends'[g] = Ends[g]
  BY <1>12, <1>18 DEF Ends
<1>20. Parted(Before, free, Ends)' /\ Counts(Before, ino, Ends)'
  <2>1. PICK t, n, P, fr : t = Ends' /\ n = ino' /\ P = Before' /\ fr = free'
    OBVIOUS
  <2>2. P \in Pointers /\ P = Now(m, f) /\ n = With(m, f) /\ fr = m.free
    BY <1>1, <1>9, <1>10, <1>a, <2>1, NowIs
  <2>3. Parted(P, fr, Ends) /\ Counts(P, n, Ends)
    BY <1>8, <2>2 DEF Good
  <2>4. SameLive(P, Ends, t) /\ SameCount(n, n)
    BY <1>19, <2>1 DEF SameLive, SameCount
  <2>5. Parted(P, fr, t) /\ Counts(P, n, t)
    BY <2>2, <2>3, <2>4, TopsSame
  <2>6. Parted(Before', free', Ends') /\ Counts(Before', ino', Ends')
    BY <2>1, <2>5
  <2>. QED  BY <2>6 DEF Parted, Apart, NoneFree, AllReached, Counts
<1>21. Leaves(f, b, w)
  BY <1>2, <1>12, <1>17, <1>18, <1>19, <1>20 DEF Leaves
<1>. QED  BY <1>5, <1>16, <1>21

\* An iteration: what lies behind the end is still zero or residue.
LEMMA BlockBehind ==
  ASSUME TypeInv, NEW f \in Inodes, OpInv(f), Behind(f), op[f].pos < op[f].end, NEW i, NEW b, NEW e, NEW w,
         Shape(f, i, b, e, w), Leaves(f, b, w)
  PROVE  Behind(f)'
<1>1. /\ i \in Indices /\ i = BlockOf(op[f].pos) /\ i < Ends[f] /\ \A j \in Indices : j # i => Data(f, j)' = Data(f, j)
      /\ op'[f].pos = Stop(f) /\ op'[f].from = op[f].from /\ op'[f].end = op[f].end /\ ino'[f].size = ino[f].size /\ residue' = residue
  BY DEF Shape, Leaves
<1>2. i * Per < Stop(f)
  BY <1>1, PastMoves
<1>3. op[f].pos \in Nat /\ Stop(f) \in Nat /\ op[f].pos < Stop(f) /\ ino[f].size \in Nat /\ MaxIndex \in Nat
  BY StopIs, Fields
<1>4. \A p \in residue[f] : p >= ino'[f].size /\ p >= op'[f].end
  BY <1>1 DEF Behind
<1>5. ASSUME NEW j \in Indices, j >= NBlocks(MaxOf(ino[f].size, Stop(f))), Data(f, j)' # 0 PROVE j * Per \in residue[f]
  <2>1. /\ NBlocks(MaxOf(ino[f].size, Stop(f))) \in Nat
        /\ \A l \in Nat : l < NBlocks(MaxOf(ino[f].size, Stop(f))) <=> l * Per < ino[f].size \/ l * Per < Stop(f)
    BY <1>3, EndIs
  <2>2. /\ NBlocks(MaxOf(ino[f].size, op[f].pos)) \in Nat
        /\ \A l \in Nat : l < NBlocks(MaxOf(ino[f].size, op[f].pos)) <=> l * Per < ino[f].size \/ l * Per < op[f].pos
    BY <1>3, EndIs
  <2>. DEFINE u == NBlocks(MaxOf(ino[f].size, Stop(f)))
              v == NBlocks(MaxOf(ino[f].size, op[f].pos))
              x == j * Per
  <2>3. j \in Nat /\ x \in Nat
    BY SMT DEF Indices
  <2>4. u \in Nat /\ v \in Nat /\ j >= u
    BY <1>5, <2>1, <2>2
  <2>5. (j < u <=> x < ino[f].size \/ x < Stop(f)) /\ (j < v <=> x < ino[f].size \/ x < op[f].pos)
    BY <2>1, <2>2, <2>3
  <2>. HIDE DEF u, v, x
  <2>6. ~(x < ino[f].size) /\ ~(x < Stop(f))
    BY <2>3, <2>4, <2>5
  <2>7. ~(x < op[f].pos)
    BY <1>3, <2>3, <2>6
  <2>8. j >= v
    BY <2>3, <2>4, <2>5, <2>6, <2>7
  <2>9. j # i
    BY <1>2, <2>6 DEF x
  <2>10. Data(f, j) # 0
    BY <1>1, <1>5, <2>9
  <2>. QED  BY <2>8, <2>10 DEF Behind, v, x
<1>. QED  BY <1>1, <1>4, <1>5 DEF Behind

\* An iteration: what is shown is what was written.
LEMMA BlockShown ==
  ASSUME TypeInv, NEW f \in Inodes, OpInv(f), Shown(f), op[f].pos < op[f].end, NEW i, NEW b, NEW e, NEW w,
         Shape(f, i, b, e, w), Leaves(f, b, w)
  PROVE  Shown(f)'
<1>1. /\ i \in Indices /\ i = BlockOf(op[f].pos) /\ i < Ends[f] /\ (\A j \in Indices : j # i => Data(f, j)' = Data(f, j))
      /\ op'[f].pos = Stop(f) /\ op'[f].from = op[f].from /\ ino'[f].size = ino[f].size /\ residue' = residue
      /\ Ends'[f] = Ends[f] /\ b \in Blocks /\ Data(f, i)' = b /\ e \in Bodies /\ (op[f].stale => op'[f].stale)
  BY DEF Shape, Leaves
<1>2. /\ Past(f, i)' /\ \A l \in Indices : Past(f, l) => Past(f, l)'
      /\ \A p \in Positions : op[f].pos <= p /\ p < Stop(f) => BlockOf(p) = i
  BY <1>1, PastMoves
<1>3. ASSUME NEW p \in Positions
      PROVE  /\ content'[f][p] # 0 => BlockOf(p) < Ends[f] /\ Data(f, BlockOf(p))' # 0
             /\ content'[f][p] # 0 /\ f \in Files => p < ino[f].size
             /\ BlockOf(p) < Ends[f] /\ p \notin residue[f] =>
                  \/ Entry(dev', Data(f, BlockOf(p))', p % Per) = content'[f][p]
                  \/ f \in Files /\ op'[f].stale /\ Past(f, BlockOf(p))'
  <2>1. PICK j, k : j = BlockOf(p) /\ k = p % Per
    OBVIOUS
  <2>2. j \in Indices /\ k \in 0 .. Per - 1 /\ p = j * Per + k
    BY <2>1, PositionIs
  <2>. DEFINE In == op[f].pos <= p /\ p < Stop(f)
  <2>3. content'[f][p] = IF f \in Dirs /\ In THEN op[f].val ELSE content[f][p]
    BY DEF Leaves
  <2>4. In => j = i
    BY <1>2, <2>1
  <2>5. /\ content[f][p] # 0 => j < Ends[f] /\ Data(f, j) # 0
        /\ content[f][p] # 0 /\ f \in Files => p < ino[f].size
        /\ j < Ends[f] /\ p \notin residue[f] =>
             \/ Entry(dev, Data(f, j), k) = content[f][p]
             \/ f \in Files /\ op[f].stale /\ Past(f, j)
    BY <2>1 DEF Shown, Word
  <2>6. f \in Files => f \notin Dirs
    OBVIOUS
  <2>7. b # 0
    BY <1>1
  <2>. HIDE DEF In
  <2>8. content'[f][p] # 0 => j < Ends[f] /\ Data(f, j)' # 0
    BY <1>1, <2>2, <2>3, <2>4, <2>5, <2>7
  <2>9. content'[f][p] # 0 /\ f \in Files => p < ino[f].size
    BY <2>3, <2>5, <2>6
  <2>10. ASSUME j < Ends[f], p \notin residue[f]
         PROVE  \/ Entry(dev', Data(f, j)', k) = content'[f][p]
                \/ f \in Files /\ op'[f].stale /\ Past(f, j)'
    <3>1. CASE j # i
      <4>1. content'[f][p] = content[f][p] /\ Data(f, j)' = Data(f, j)
        BY <1>1, <2>2, <2>3, <2>4, <3>1
      <4>2. Data(f, j) # 0 => dev'[Data(f, j)] = dev[Data(f, j)]
        BY <2>2, <2>10, <3>1 DEF Shape
      <4>3. Entry(dev', Data(f, j)', k) = Entry(dev, Data(f, j), k)
        BY <4>1, <4>2 DEF Entry
      <4>4. Past(f, j) => Past(f, j)'
        BY <1>2, <2>2
      <4>. QED  BY <1>1, <2>5, <2>10, <4>1, <4>3, <4>4
    <3>2. CASE j = i /\ f \in Dirs
      <4>1. Entry(dev', Data(f, j)', k) = w[k]
        BY <1>1, <2>7, <3>2 DEF Shape, Entry
      <4>2. w[k] = IF In THEN op[f].val ELSE e[k]
        BY <2>2, <3>2 DEF Shape, In
      <4>3. ASSUME ~In PROVE e[k] = content[f][p]
        <5>1. CASE Data(f, i) = 0
          <6>1. e[k] = 0
            BY <2>2, <3>2, <4>3, <5>1 DEF Shape, In
          <6>2. content[f][p] = 0
            BY <2>5, <3>2, <5>1
          <6>. QED  BY <6>1, <6>2
        <5>2. CASE Data(f, i) # 0
          <6>1. Data(f, i) = b /\ e = dev[b]
            BY <5>2 DEF Shape
          <6>2. Entry(dev, Data(f, j), k) = e[k]
            BY <2>7, <3>2, <6>1 DEF Entry
          <6>. QED  BY <2>5, <2>6, <2>10, <3>2, <6>2
        <5>. QED  BY <5>1, <5>2
      <4>. QED  BY <2>3, <3>2, <4>1, <4>2, <4>3
    <3>3. CASE j = i /\ f \notin Dirs
      <4>1. Entry(dev', Data(f, j)', k) = e[k] /\ content'[f][p] = content[f][p]
        BY <1>1, <2>3, <2>7, <3>3 DEF Shape, Entry
      <4>2. f \in Files
        BY <3>3 DEF Inodes
      <4>3. CASE Data(f, i) = 0
        <5>1. content[f][p] = 0
          BY <2>5, <3>3, <4>3
        <5>2. e # Zeroes => op'[f].stale
          BY <4>3 DEF Shape
        <5>3. e = Zeroes => e[k] = 0
          BY <2>2 DEF Zeroes
        <5>. QED  BY <1>2, <3>3, <4>1, <4>2, <5>1, <5>2, <5>3
      <4>4. CASE Data(f, i) # 0
        <5>1. Data(f, i) = b /\ e = dev[b]
          BY <4>4 DEF Shape
        <5>2. Entry(dev, Data(f, j), k) = e[k]
          BY <2>7, <3>3, <5>1 DEF Entry
        <5>3. e[k] = content[f][p] \/ op[f].stale
          BY <2>5, <2>10, <5>2
        <5>. QED  BY <1>1, <1>2, <3>3, <4>1, <4>2, <5>3
      <4>. QED  BY <4>3, <4>4
    <3>. QED  BY <3>1, <3>2, <3>3
  <2>. QED  BY <2>1, <2>8, <2>9, <2>10
<1>. QED  BY <1>1, <1>3 DEF Shown, Word


\* An entry of the log stays what the write will make of its block, and the new
\* one is what it will make of block i.
LEMMA BlockLogs ==
  ASSUME TypeInv, NEW f \in Files, OpInv(f), Shown(f), op[f].pos < op[f].end, NEW i, NEW b, NEW e, NEW w,
         Shape(f, i, b, e, w), Leaves(f, b, w)
  PROVE  /\ \A x, l : l \in Indices /\ Logs(f, x, l) => Logs(f, x, l)'
         /\ Logs(f, <<b, w>>, i)'
<1>0. f \in Inodes /\ f \notin Dirs
  BY DEF Inodes
<1>1. /\ i \in Indices /\ i = BlockOf(op[f].pos) /\ i < Ends[f] /\ (\A j \in Indices : j # i => Data(f, j)' = Data(f, j))
      /\ op'[f].pos = Stop(f) /\ op'[f].from = op[f].from /\ op'[f].val = op[f].val /\ residue' = residue
      /\ b \in Blocks /\ Data(f, i)' = b /\ e \in Bodies /\ (Data(f, i) # 0 => Data(f, i) = b /\ e = dev[b])
  BY <1>0 DEF Shape, Leaves
<1>2. /\ ~Past(f, i) /\ Past(f, i)' /\ op[f].from <= op[f].pos
      /\ \A l \in Indices : Past(f, l) => Past(f, l)'
      /\ \A p \in Positions : op[f].pos <= p /\ p < Stop(f) => BlockOf(p) = i
      /\ \A k \in 0 .. Per - 1 : ~(op[f].from <= i * Per + k /\ i * Per + k < op[f].pos)
  BY <1>0, <1>1, PastMoves
<1>3. \A p \in Positions : content'[f][p] = content[f][p]
  BY <1>0 DEF Leaves
<1>4. op[f].pos \in Nat /\ op[f].from \in Nat /\ Stop(f) \in Nat /\ op[f].pos < Stop(f)
  BY <1>0, Fields, StopIs
<1>5. \A l \in Indices, k \in 0 .. Per - 1 : l * Per + k \in Positions /\ l * Per + k \in Nat /\ BlockOf(l * Per + k) = l /\ (l * Per + k) % Per = k
  <2>1. ASSUME NEW l \in Indices, NEW k \in 0 .. Per - 1
        PROVE  l * Per + k \in Positions /\ l * Per + k \in Nat /\ BlockOf(l * Per + k) = l /\ (l * Per + k) % Per = k
    <3>1. l * Per + k \in Positions /\ BlockOf(l * Per + k) = l /\ (l * Per + k) % Per = k
      BY SpotIs
    <3>. QED  BY <3>1, PositionIs
  <2>. QED  BY <2>1
<1>6. ASSUME NEW x, NEW l \in Indices, Logs(f, x, l) PROVE Logs(f, x, l)'
  <2>1. Past(f, l) /\ x[1] = Data(f, l) /\ x[1] # 0
    BY <1>6 DEF Logs
  <2>2. l # i
    BY <1>2, <2>1
  <2>3. Past(f, l)' /\ x[1] = Data(f, l)'
    BY <1>1, <1>2, <2>1, <2>2
  <2>4. ASSUME NEW k \in 0 .. Per - 1
        PROVE  /\ op[f].from <= l * Per + k /\ l * Per + k < Stop(f) => x[2][k] = op[f].val
               /\ ~(op[f].from <= l * Per + k /\ l * Per + k < Stop(f)) /\ l * Per + k \notin residue[f] =>
                    x[2][k] = content'[f][l * Per + k]
    <3>. DEFINE q == l * Per + k
    <3>1. q \in Positions /\ q \in Nat /\ BlockOf(q) = l
      BY <1>5
    <3>2. /\ op[f].from <= q /\ q < op[f].pos => x[2][k] = op[f].val
          /\ ~(op[f].from <= q /\ q < op[f].pos) /\ q \notin residue[f] => x[2][k] = content[f][q]
      BY <1>6 DEF Logs
    <3>. HIDE DEF q
    <3>3. ~(op[f].pos <= q /\ q < Stop(f))
      BY <1>2, <2>2, <3>1
    <3>4. op[f].from <= q /\ q < Stop(f) => op[f].from <= q /\ q < op[f].pos
      BY <1>4, <3>1, <3>3
    <3>5. op[f].from <= q /\ q < op[f].pos => op[f].from <= q /\ q < Stop(f)
      BY <1>4, <3>1
    <3>6. content'[f][q] = content[f][q]
      BY <1>3, <3>1
    <3>7. /\ op[f].from <= q /\ q < Stop(f) => x[2][k] = op[f].val
          /\ ~(op[f].from <= q /\ q < Stop(f)) /\ q \notin residue[f] => x[2][k] = content'[f][q]
      BY <3>2, <3>4, <3>5, <3>6
    <3>. QED  BY <3>7 DEF q
  <2>. QED  BY <1>1, <2>1, <2>3, <2>4 DEF Logs
<1>7. Logs(f, <<b, w>>, i)'
  <2>1. ASSUME NEW k \in 0 .. Per - 1
        PROVE  /\ op[f].from <= i * Per + k /\ i * Per + k < Stop(f) => w[k] = op[f].val
               /\ ~(op[f].from <= i * Per + k /\ i * Per + k < Stop(f)) /\ i * Per + k \notin residue[f] =>
                    w[k] = content'[f][i * Per + k]
    <3>. DEFINE q == i * Per + k
    <3>1. q \in Positions /\ q \in Nat /\ BlockOf(q) = i /\ q % Per = k
      BY <1>1, <1>5
    <3>2. w[k] = IF op[f].pos <= q /\ q < Stop(f) THEN op[f].val ELSE e[k]
      BY DEF Shape
    <3>3. ~(op[f].from <= q /\ q < op[f].pos)
      BY <1>2
    <3>4. Data(f, i) = 0 /\ ~(op[f].pos <= q /\ q < Stop(f)) => e[k] = 0
      BY DEF Shape
    <3>. HIDE DEF q
    <3>5. op[f].from <= q /\ q < Stop(f) <=> op[f].pos <= q /\ q < Stop(f)
      BY <1>2, <1>4, <3>1, <3>3
    <3>6. content'[f][q] = content[f][q]
      BY <1>3, <3>1
    <3>7. ASSUME ~(op[f].pos <= q /\ q < Stop(f)), q \notin residue[f] PROVE e[k] = content[f][q]
      <4>1. /\ content[f][q] # 0 => Data(f, i) # 0
            /\ Entry(dev, Data(f, i), k) = content[f][q] \/ Past(f, i)
        BY <1>1, <3>1, <3>7 DEF Shown, Word
      <4>2. Data(f, i) # 0 => Entry(dev, Data(f, i), k) = e[k]
        BY <1>1 DEF Entry
      <4>. QED  BY <1>2, <3>4, <3>7, <4>1, <4>2
    <3>8. /\ op[f].from <= q /\ q < Stop(f) => w[k] = op[f].val
          /\ ~(op[f].from <= q /\ q < Stop(f)) /\ q \notin residue[f] => w[k] = content'[f][q]
      BY <3>2, <3>5, <3>6, <3>7
    <3>. QED  BY <3>8 DEF q
  <2>2. b # 0
    BY <1>1
  <2>3. <<b, w>>[1] = b /\ <<b, w>>[2] = w
    OBVIOUS
  <2>. QED  BY <1>1, <1>2, <2>1, <2>2, <2>3 DEF Logs
<1>. QED  BY <1>6, <1>7

\* An iteration: the log has the blocks of the range as they are on the device.
LEMMA BlockLogged ==
  ASSUME TypeInv, NEW f \in Inodes, OpInv(f), Shown(f), Logged(f), op[f].pos < op[f].end, NEW i, NEW b, NEW e, NEW w,
         Shape(f, i, b, e, w), Leaves(f, b, w)
  PROVE  Logged(f)'
<1>1. CASE f \in Dirs
  <2>1. f \notin Files /\ op'[f].log = op[f].log /\ op[f].log = <<>>
    BY <1>1 DEF Leaves, Logged
  <2>. QED  BY <2>1 DEF Logged
<1>2. CASE f \notin Dirs
  <2>1. f \in Files
    BY <1>2 DEF Inodes
  <2>2. /\ \A x, l : l \in Indices /\ Logs(f, x, l) => Logs(f, x, l)'
        /\ Logs(f, <<b, w>>, i)'
    BY <2>1, BlockLogs
  <2>3. PICK old, new : old = op[f].log /\ new = op'[f].log
    OBVIOUS
  <2>4. old \in Seq(Blocks \X Bodies) /\ new = Append(old, <<b, w>>)
    BY <2>1, <2>3, Fields DEF Leaves
  <2>5. /\ Len(old) \in Nat /\ DOMAIN old = 1 .. Len(old) /\ DOMAIN new = 1 .. Len(old) + 1
        /\ \A j \in 1 .. Len(old) : new[j] = old[j]
        /\ new[Len(old) + 1] = <<b, w>>
    <3>1. PICK x : x = <<b, w>>
      OBVIOUS
    <3>2. x \in Blocks \X Bodies
      BY <3>1 DEF Shape
    <3>. QED  BY <2>4, <3>1, <3>2
  <2>6. /\ i \in Indices /\ (\A j \in Indices : j # i => Data(f, j)' = Data(f, j)) /\ Data(f, i)' = b
        /\ i = BlockOf(op[f].pos) /\ op'[f].pos = Stop(f) /\ op'[f].from = op[f].from
    BY DEF Shape, Leaves
  <2>7. /\ \A j \in DOMAIN old : \E l \in Indices : Logs(f, old[j], l)
        /\ \A l \in Indices : Past(f, l) => \E j \in DOMAIN old : old[j][1] = Data(f, l)
    BY <2>1, <2>3 DEF Logged
  <2>8. ASSUME NEW j \in DOMAIN new PROVE \E l \in Indices : Logs(f, new[j], l)'
    <3>1. CASE j \in 1 .. Len(old)
      <4>1. PICK l \in Indices : Logs(f, old[j], l)
        BY <2>5, <2>7, <3>1
      <4>2. PICK x : x = old[j]
        OBVIOUS
      <4>3. Logs(f, x, l)' /\ new[j] = x
        BY <2>2, <2>5, <3>1, <4>1, <4>2
      <4>. QED  BY <4>3
    <3>2. CASE j = Len(old) + 1
      BY <2>2, <2>5, <2>6, <3>2
    <3>. QED  BY <2>5, <3>1, <3>2
  <2>9. ASSUME NEW l \in Indices, Past(f, l)' PROVE \E j \in DOMAIN new : new[j][1] = Data(f, l)'
    <3>1. CASE l = i
      BY <2>5, <2>6, <3>1
    <3>2. CASE l # i
      <4>1. Past(f, l)
        BY <2>6, <2>9, <3>2, PastMoves
      <4>2. PICK j \in DOMAIN old : old[j][1] = Data(f, l)
        BY <2>7, <4>1
      <4>. QED  BY <2>5, <2>6, <3>2, <4>2
    <3>. QED  BY <3>1, <3>2
  <2>. QED  BY <1>2, <2>3, <2>8, <2>9 DEF Logged
<1>. QED  BY <1>1, <1>2

\* An iteration that keeps within the limits keeps the invariant.
LEMMA BlockClean ==
  ASSUME IInv, NEW f \in Inodes, WriteBlock(f), WithinLimits'
  PROVE  CleanInv'
<1>1. TypeInv /\ (\A g \in Inodes : OpInv(g))
  BY DEF IInv
<1>2. op[f].pos < op[f].end
  BY DEF WriteBlock
<1>3. CleanInv
  BY BlockShape
<1>4. PICK i, b, e, w : Shape(f, i, b, e, w) /\ Leaves(f, b, w)
  BY BlockShape
<1>5. Behind(f) /\ Shown(f) /\ Logged(f)
  BY <1>3 DEF CleanInv
<1>6. Behind(f)' /\ Shown(f)' /\ Logged(f)'
  BY <1>1, <1>2, <1>4, <1>5, BlockBehind, BlockShown, BlockLogged
<1>7. ASSUME NEW g \in Inodes, g # f
      PROVE  /\ op'[g] = op[g] /\ residue'[g] = residue[g] /\ content'[g] = content[g] /\ ino'[g].size = ino[g].size
             /\ \A j \in Indices : Data(g, j)' = Data(g, j)
             /\ \A j \in Indices : j < Ends[g] /\ Data(g, j) # 0 => dev'[Data(g, j)] = dev[Data(g, j)]
  BY <1>4, <1>7 DEF Shape, Leaves
<1>8. Parted(Before, free, Ends)' /\ Counts(Before, ino, Ends)'
  BY <1>4 DEF Leaves
<1>. QED  BY <1>1, <1>3, <1>6, <1>7, <1>8, CleanStep

(***************************************************************************)
(* The invariant.                                                          *)
(***************************************************************************)

\* The invariant holds at first.
LEMMA InitInv == Init => IInv
<1>. SUFFICES ASSUME Init PROVE IInv
  OBVIOUS
<1>1. /\ dev = [b \in Blocks |-> Zeroes] /\ free = Blocks
      /\ ino = [f \in Inodes |-> Empty] /\ op = [f \in Inodes |-> NoOp]
      /\ content = [f \in Inodes |-> [p \in Positions |-> 0]]
      /\ residue = [f \in Inodes |-> {}] /\ crossed = {}
  BY DEF Init
<1>2. Zeroes \in Bodies
  BY DEF Zeroes, Bodies, Words
<1>3. dev \in [Blocks -> Bodies] /\ free \in SUBSET Blocks /\ op \in [Inodes -> Ops] /\ residue \in [Inodes -> SUBSET Positions]
  BY <1>1, <1>2, NoOpIs
<1>4. ino \in [Inodes -> Nodes] /\ \A f \in Inodes : ino[f] = Empty
  BY <1>1, EmptyIs
<1>5. content \in [Inodes -> [Positions -> Words]] /\ \A f \in Inodes, p \in Positions : content[f][p] = 0
  <2>1. [p \in Positions |-> 0] \in [Positions -> Words]
    BY DEF Words
  <2>2. PICK c : c = [p \in Positions |-> 0]
    OBVIOUS
  <2>3. content = [f \in Inodes |-> c] /\ c \in [Positions -> Words] /\ \A p \in Positions : c[p] = 0
    BY <1>1, <2>1, <2>2
  <2>. QED  BY <2>3
<1>6. TypeInv
  BY <1>1, <1>3, <1>4, <1>5 DEF TypeInv, Typed
<1>7. \A f \in Inodes : op[f] = NoOp /\ op[f].pos = 0 /\ op[f].from = 0 /\ op[f].end = 0 /\ op[f].log = <<>>
  BY <1>1, NoOpIs
<1>8. \A f \in Inodes : OpInv(f)
  BY <1>7 DEF OpInv
<1>9. \A g \in Inodes, y \in Slots : Before[g][y] = 0
  BY <1>4, <1>6, BeforeIs, EmptyIs DEF TypeInv
<1>10. \A f \in Inodes, i \in Indices : Data(f, i) = 0
  <2>1. \A i \in Indices : <<"data", i>> \in Slots
    BY SlotsAre DEF Indices
  <2>. QED  BY <1>9, <2>1 DEF Data
<1>11. Parted(Before, free, Ends)
  BY <1>1, <1>9 DEF Parted, Apart, NoneFree, AllReached
<1>12. Counts(Before, ino, Ends)
  <2>1. ASSUME NEW f \in Inodes PROVE Own(Before[f], Ends[f]) = {}
    BY <1>9 DEF Own
  <2>2. \A f \in Inodes : ino[f].blocks = 0
    BY <1>4, EmptyIs
  <2>. QED  BY <2>1, <2>2, FS_EmptySet DEF Counts
<1>13. ASSUME NEW f \in Inodes PROVE Behind(f) /\ Shown(f) /\ Logged(f)
  <2>1. Behind(f)
    BY <1>1, <1>10 DEF Behind
  <2>2. Shown(f)
    <3>1. \A p \in Positions : BlockOf(p) \in Indices
      BY PositionIs
    <3>. QED  BY <1>5, <1>10, <3>1 DEF Shown, Word, Entry
  <2>3. Logged(f)
    BY <1>7 DEF Logged, Past
  <2>. QED  BY <2>1, <2>2, <2>3
<1>. QED  BY <1>6, <1>8, <1>11, <1>12, <1>13 DEF IInv, CleanInv

\* Every step keeps it.
LEMMA StepInv == IInv /\ [Next]_vars => IInv'
<1>. SUFFICES ASSUME IInv, [Next]_vars PROVE IInv'
  OBVIOUS
<1>0. TypeInv /\ (\A g \in Inodes : OpInv(g))
  BY DEF IInv
<1>1. ASSUME NEW f \in Inodes, NEW r \in Ranges, NEW v \in Vals, WriteBegin(f, r, v) PROVE IInv'
  <2>1. TypeInv' /\ \A g \in Inodes : OpInv(g)'
    BY <1>0, <1>1, BeginType
  <2>. QED  BY <1>1, <2>1, BeginClean DEF IInv
<1>2. ASSUME NEW f \in Inodes, WriteBlock(f) PROVE IInv'
  <2>1. TypeInv' /\ \A g \in Inodes : OpInv(g)'
    BY <1>0, <1>2, BlockType
  <2>. QED  BY <1>2, <2>1, BlockClean DEF IInv
<1>3. ASSUME NEW f \in Inodes, WriteFails(f) PROVE IInv'
  <2>1. TypeInv' /\ \A g \in Inodes : OpInv(g)'
    BY <1>0, <1>3, FailType
  <2>. QED  BY <1>3, <2>1, FailClean DEF IInv
<1>4. ASSUME NEW f \in Inodes, WriteEnd(f) PROVE IInv'
  <2>1. TypeInv' /\ \A g \in Inodes : OpInv(g)'
    BY <1>0, <1>4, EndType
  <2>. QED  BY <1>4, <2>1, EndClean DEF IInv
<1>5. ASSUME NEW f \in Inodes, CommitFails(f) PROVE IInv'
  BY <1>0, <1>5, CommitType DEF IInv
<1>6. ASSUME NEW f \in Inodes, NEW n \in Sizes, TruncateUp(f, n) PROVE IInv'
  <2>1. TypeInv' /\ \A g \in Inodes : OpInv(g)'
    BY <1>0, <1>6, UpType
  <2>. QED  BY <1>6, <2>1, UpClean DEF IInv
<1>7. ASSUME NEW f \in Inodes, NEW n \in Sizes, TruncateDown(f, n) PROVE IInv'
  <2>1. TypeInv' /\ \A g \in Inodes : OpInv(g)'
    BY <1>0, <1>7, DownType
  <2>. QED  BY <1>7, <2>1, DownClean DEF IInv
<1>8. ASSUME NEW f \in Inodes, NEW n \in Sizes, TruncateUnread(f, n) PROVE IInv'
  <2>1. TypeInv' /\ \A g \in Inodes : OpInv(g)'
    BY <1>0, <1>8, UnreadType
  <2>. QED  BY <1>8, <2>1, UnreadClean DEF IInv
<1>9. ASSUME NEW f \in Inodes, FreeInode(f) PROVE IInv'
  <2>1. TypeInv' /\ \A g \in Inodes : OpInv(g)'
    BY <1>0, <1>9, FreeType
  <2>. QED  BY <1>9, <2>1, FreeClean DEF IInv
<1>10. CASE UNCHANGED vars
  <2>1. /\ dev' = dev /\ free' = free /\ ino' = ino /\ op' = op /\ content' = content /\ residue' = residue
        /\ crossed' = crossed
    BY <1>10 DEF vars
  <2>2. Before' = Before /\ Ends' = Ends
    BY <2>1 DEF Before, Ptrs, Ends
  <2>3. \A g, i : Data(g, i)' = Data(g, i)
    BY <2>2 DEF Data
  <2>4. \A g, i : Past(g, i)' <=> Past(g, i)
    BY <2>1 DEF Past
  <2>5. TypeInv'
    BY <1>0, <2>1 DEF TypeInv, Typed
  <2>6. \A g \in Inodes : OpInv(g)'
    BY <1>0, <2>1 DEF OpInv
  <2>7. ASSUME CleanInv PROVE CleanInv'
    <3>1. Parted(Before, free, Ends)' /\ Counts(Before, ino, Ends)'
      BY <2>1, <2>2, <2>7 DEF CleanInv, Parted, Apart, NoneFree, AllReached, Counts
    <3>2. ASSUME NEW g \in Inodes PROVE Behind(g)' /\ Shown(g)' /\ Logged(g)'
      <4>1. Behind(g) /\ Shown(g) /\ Logged(g)
        BY <2>7 DEF CleanInv
      <4>2. \A i \in Indices : Data(g, i)' = Data(g, i)
        BY <2>3
      <4>. QED  BY <1>0, <2>1, <4>1, <4>2, Others
    <3>. QED  BY <3>1, <3>2 DEF CleanInv
  <2>. QED  BY <2>1, <2>5, <2>6, <2>7 DEF IInv, WithinLimits
<1>. QED  BY <1>1, <1>2, <1>3, <1>4, <1>5, <1>6, <1>7, <1>8, <1>9, <1>10 DEF Next, Write, Truncate

\* IInv holds in every state.
LEMMA Invariant == Spec => []IInv
<1>. QED  BY InitInv, StepInv, PTL DEF Spec

\* What a file has is what it owns: behind the size and the place that a write
\* has come to, nothing that counts is pointed to.
LEMMA ReachIs ==
  ASSUME TypeInv, CleanInv, NEW f \in Inodes, OpInv(f)
  PROVE  Reach(f) = Own(Before[f], Ends[f])
<1>. DEFINE top == NBlocks(MaxOf(ino[f].size, op[f].pos))
<1>1. /\ ino[f].size \in Nat /\ op[f].pos \in Nat /\ op[f].end \in Nat /\ op[f].pos <= op[f].end /\ MaxIndex \in Nat
      /\ residue[f] \in SUBSET Positions
  <2>1. op[f].pos <= op[f].end
    BY Fields, NoOpIs DEF OpInv
  <2>. QED  BY <2>1, Fields
<1>2. top \in Nat /\ \A i \in Nat : i < top <=> i * Per < ino[f].size \/ i * Per < op[f].pos
  BY <1>1, EndIs
<1>3. Ends[f] \in Nat /\ \A i \in Nat : i < Ends[f] <=> i * Per < ino[f].size \/ i * Per < op[f].end
  BY EndsIs
<1>4. \A i \in Nat : i * Per \in Nat
  BY SMT
<1>5. ASSUME NEW i \in Nat, i < top PROVE i < Ends[f]
  <2>. DEFINE x == i * Per
  <2>1. x \in Nat /\ (x < ino[f].size \/ x < op[f].pos)
    BY <1>2, <1>4, <1>5
  <2>2. x < ino[f].size \/ x < op[f].end => i < Ends[f]
    BY <1>3
  <2>. HIDE DEF x
  <2>. QED  BY <1>1, <2>1, <2>2
<1>6. ASSUME NEW i \in Indices, i < Ends[f], Data(f, i) # 0 PROVE i < top
  <2>1. i \in Nat
    BY DEF Indices
  <2>2. CASE ~(i < top)
    <3>1. i >= top
      BY <1>2, <2>1, <2>2
    <3>2. i * Per \in residue[f]
      BY <1>6, <3>1 DEF CleanInv, Behind
    <3>3. i * Per >= ino[f].size /\ i * Per >= op[f].end
      BY <3>2 DEF CleanInv, Behind
    <3>4. ~(i * Per < ino[f].size) /\ ~(i * Per < op[f].end)
      <4>. DEFINE x == i * Per
      <4>1. x \in Nat /\ x >= ino[f].size /\ x >= op[f].end
        BY <1>4, <2>1, <3>3
      <4>. HIDE DEF x
      <4>2. ~(x < ino[f].size) /\ ~(x < op[f].end)
        BY <1>1, <4>1
      <4>. QED  BY <4>2 DEF x
    <3>. QED  BY <1>3, <1>6, <2>1, <3>4
  <2>. QED  BY <2>2
<1>7. \A y \in Slots : Before[f][y] = Ptr(dev, ino[f], y)
  BY BeforeIs DEF TypeInv
<1>8. ASSUME NEW b, b \in Own(Before[f], Ends[f]) PROVE b \in Reach(f)
  <2>1. PICK y \in Slots : Live(y, Ends[f]) /\ b = Before[f][y] /\ b # 0
    BY <1>8 DEF Own
  <2>2. b = Ptr(dev, ino[f], y)
    BY <1>7, <2>1
  <2>3. CASE \E w \in {"indirect", "double"} : y = <<"table", w>>
    <3>1. PICK w \in {"indirect", "double"} : y = <<"table", w>>
      BY <2>3
    <3>2. b = ino[f].table[w]
      BY <2>2, <3>1 DEF Ptr
    <3>. QED  BY <2>1, <3>2 DEF Reach, Tables
  <2>4. CASE \E k \in 0 .. Per - 1 : y = <<"mid", k>>
    <3>1. PICK k \in 0 .. Per - 1 : y = <<"mid", k>>
      BY <2>4
    <3>2. b = Entry(dev, ino[f].table["double"], k)
      BY <2>2, <3>1 DEF Ptr
    <3>3. ino[f].table["double"] # 0 /\ b = dev[ino[f].table["double"]][k]
      BY <2>1, <3>2 DEF Entry
    <3>. QED  BY <2>1, <3>3 DEF Reach, Tables
  <2>5. CASE \E i \in 0 .. MaxIndex - 1 : y = <<"data", i>>
    <3>1. PICK i \in 0 .. MaxIndex - 1 : y = <<"data", i>>
      BY <2>5
    <3>2. i \in Indices /\ i \in Nat
      BY <1>1 DEF Indices
    <3>3. b = Data(f, i) /\ i < Ends[f] /\ b = Mapped(dev, ino[f], i)
      BY <2>1, <3>1, <3>2, DataIs
    <3>4. i < top
      BY <1>6, <2>1, <3>2, <3>3
    <3>5. i \in 0 .. top - 1
      <4>. HIDE DEF top
      <4>. QED  BY <1>2, <3>2, <3>4
    <3>6. b \in DataBlocks(f)
      BY <2>1, <3>3, <3>5 DEF DataBlocks
    <3>. QED  BY <3>6 DEF Reach
  <2>. QED  BY <2>3, <2>4, <2>5, SlotCases
<1>9. ASSUME NEW b, b \in Reach(f) PROVE b \in Own(Before[f], Ends[f])
  <2>1. ASSUME NEW y \in Slots, Live(y, Ends[f]), b = Ptr(dev, ino[f], y), b # 0 PROVE b \in Own(Before[f], Ends[f])
    BY <1>7, <2>1 DEF Own
  <2>2. CASE b # 0 /\ \E w \in {"indirect", "double"} : b = ino[f].table[w]
    <3>1. PICK w \in {"indirect", "double"} : b = ino[f].table[w]
      BY <2>2
    <3>2. PICK y : y = <<"table", w>>
      OBVIOUS
    <3>3. y \in Slots /\ y[1] = "table" /\ y[2] = w
      BY <3>2, SlotsAre
    <3>. QED  BY <2>1, <2>2, <3>1, <3>3 DEF Ptr, Live
  <2>3. CASE b # 0 /\ ino[f].table["double"] # 0 /\ \E k \in 0 .. Per - 1 : b = dev[ino[f].table["double"]][k]
    <3>1. PICK k \in 0 .. Per - 1 : b = dev[ino[f].table["double"]][k]
      BY <2>3
    <3>2. PICK y : y = <<"mid", k>>
      OBVIOUS
    <3>3. y \in Slots /\ y[1] = "mid" /\ y[2] = k
      BY <3>2, SlotsAre
    <3>. QED  BY <2>1, <2>3, <3>1, <3>3 DEF Ptr, Live, Entry
  <2>4. CASE b # 0 /\ \E i \in 0 .. top - 1 : b = Mapped(dev, ino[f], i)
    <3>1. PICK i \in 0 .. top - 1 : b = Mapped(dev, ino[f], i)
      BY <2>4
    <3>2. i \in Nat /\ i < top
      <4>. HIDE DEF top
      <4>. QED  BY <1>2
    <3>3. i < MaxIndex
      <4>1. i >= MaxIndex => Mapped(dev, ino[f], i) = 0
        BY <3>2, MappedIs
      <4>. QED  BY <1>1, <2>4, <3>1, <3>2, <4>1
    <3>4. i \in Indices
      BY <1>1, <3>2, <3>3 DEF Indices
    <3>5. <<"data", i>> \in Slots /\ Live(<<"data", i>>, Ends[f]) /\ b = Before[f][<<"data", i>>]
      BY <1>5, <3>1, <3>2, <3>4, DataIs
    <3>. QED  BY <2>4, <3>5 DEF Own
  <2>. QED  BY <1>9, <2>2, <2>3, <2>4 DEF Reach, Tables, DataBlocks
<1>. QED  BY <1>8, <1>9

\* It implies the types,
LEMMA TypesOK == IInv => TypeOK
<1>. SUFFICES ASSUME IInv PROVE TypeOK
  OBVIOUS
<1>1. TypeInv /\ \A f \in Inodes : OpInv(f)
  BY DEF IInv
<1>2. dev \in [Blocks -> [0 .. Per - 1 -> Words]] /\ free \subseteq Blocks /\ content \in [Inodes -> [Positions -> Words]] /\ crossed \subseteq Limits
  BY <1>1 DEF TypeInv, Typed, Bodies
<1>3. ASSUME NEW f \in Inodes
      PROVE  /\ ino[f].size \in 0 .. Top /\ ino[f].blocks \in Int
             /\ ino[f].direct \in [0 .. Direct - 1 -> Words]
             /\ ino[f].table \in [{"indirect", "double"} -> Words]
             /\ op[f].pos <= op[f].end /\ op[f].log \in Seq(Blocks \X [0 .. Per - 1 -> Words])
             /\ residue[f] \subseteq Positions
  <2>1. ino[f] \in Nodes /\ op[f].log \in Seq(Blocks \X Bodies) /\ residue[f] \subseteq Positions
    BY <1>1, Fields
  <2>2. op[f].pos <= op[f].end
    BY <1>1, Fields, NoOpIs DEF OpInv
  <2>. QED  BY <2>1, <2>2 DEF Nodes, Bodies
<1>. QED  BY <1>2, <1>3 DEF TypeOK

\* the partition of the blocks,
LEMMA Partitioned == IInv => BlocksPartitioned
<1>. SUFFICES ASSUME IInv, WithinLimits
              PROVE  /\ Blocks \ free = UNION {Reach(f) : f \in Inodes}
                     /\ \A f, g \in Inodes : f # g => Reach(f) \cap Reach(g) = {}
  BY TypesOK DEF BlocksPartitioned
<1>1. TypeInv /\ CleanInv /\ (\A f \in Inodes : OpInv(f)) /\ Before \in Pointers
  BY BeforeIs DEF IInv, TypeInv
<1>2. Apart(Before, Ends) /\ NoneFree(Before, free, Ends) /\ AllReached(Before, free, Ends)
  BY <1>1 DEF CleanInv, Parted
<1>3. ASSUME NEW f \in Inodes
      PROVE  /\ Reach(f) \in SUBSET Blocks
             /\ \A b \in Blocks : b \in Reach(f) <=> \E y \in Slots : Live(y, Ends[f]) /\ Before[f][y] = b
  <2>1. PICK p, t : p = Before[f] /\ t = Ends[f]
    OBVIOUS
  <2>2. p \in [Slots -> Words]
    BY <1>1, <2>1 DEF Pointers
  <2>3. Own(p, t) \in SUBSET Blocks /\ \A b \in Blocks : b \in Own(p, t) <=> \E y \in Slots : Live(y, t) /\ p[y] = b
    BY <2>2, OwnIs
  <2>4. Reach(f) = Own(p, t)
    BY <1>1, <2>1, ReachIs
  <2>. QED  BY <2>1, <2>3, <2>4
<1>4. \A b \in Blocks : b # 0
  OBVIOUS
<1>5. ASSUME NEW b \in Blocks PROVE b \notin free <=> \E f \in Inodes : b \in Reach(f)
  <2>1. b \notin free => \E f \in Inodes : b \in Reach(f)
    BY <1>2, <1>3 DEF AllReached
  <2>2. ASSUME NEW f \in Inodes, b \in Reach(f) PROVE b \notin free
    <3>1. PICK y \in Slots : Live(y, Ends[f]) /\ Before[f][y] = b
      BY <1>3, <2>2
    <3>2. Before[f][y] # 0
      BY <1>4, <3>1
    <3>. QED  BY <1>2, <3>1, <3>2 DEF NoneFree
  <2>. QED  BY <2>1, <2>2
<1>6. Blocks \ free = UNION {Reach(f) : f \in Inodes}
  <2>1. ASSUME NEW b PROVE b \in Blocks \ free <=> \E f \in Inodes : b \in Reach(f)
    BY <1>3, <1>5
  <2>. QED  BY <2>1
<1>7. ASSUME NEW f \in Inodes, NEW g \in Inodes, f # g, NEW b \in Reach(f) \cap Reach(g) PROVE FALSE
  <2>1. b \in Blocks
    BY <1>3, <1>7
  <2>2. PICK x \in Slots : Live(x, Ends[f]) /\ Before[f][x] = b
    BY <1>3, <1>7, <2>1
  <2>3. PICK y \in Slots : Live(y, Ends[g]) /\ Before[g][y] = b
    BY <1>3, <1>7, <2>1
  <2>. QED  BY <1>2, <1>4, <1>7, <2>1, <2>2, <2>3 DEF Apart
<1>. QED  BY <1>6, <1>7

\* the counts,
LEMMA CountsHold == IInv => BlocksCounted
<1>. SUFFICES ASSUME IInv, WithinLimits, NEW f \in Inodes PROVE ino[f].blocks = Cardinality(Reach(f))
  BY DEF BlocksCounted
<1>1. TypeInv /\ CleanInv /\ OpInv(f)
  BY DEF IInv
<1>2. ino[f].blocks = Cardinality(Own(Before[f], Ends[f]))
  BY <1>1 DEF CleanInv, Counts
<1>. QED  BY <1>1, <1>2, ReachIs

\* and the contents.
LEMMA ReadsBack == IInv => ReadsBackWritten
<1>. SUFFICES ASSUME IInv, WithinLimits, NEW f \in Inodes, ~Busy(f), NEW p \in 0 .. ino[f].size - 1
              PROVE  WordAt(ino[f], p) = content[f][p]
  BY DEF ReadsBackWritten
<1>1. TypeInv /\ CleanInv /\ OpInv(f)
  BY DEF IInv
<1>2. op[f] = NoOp /\ op[f].stale = FALSE
  <2>1. op[f].end = 0
    BY BusyIs
  <2>. QED  BY <1>1, <2>1, NoOpIs DEF OpInv
<1>3. ino[f].size \in Nat /\ ino[f].size <= Top /\ Top \in Nat /\ residue[f] \in SUBSET Positions
  BY <1>1, Fields
<1>4. p \in Positions /\ p \in Nat /\ p < ino[f].size
  BY <1>3 DEF Positions
<1>5. p \notin residue[f]
  <2>1. \A q \in residue[f] : q >= ino[f].size
    BY <1>1 DEF CleanInv, Behind
  <2>. QED  BY <1>3, <1>4, <2>1
<1>6. BlockOf(p) \in Indices /\ BlockOf(p) \in Nat /\ BlockOf(p) < Ends[f]
  <2>. DEFINE x == BlockOf(p) * Per
  <2>1. BlockOf(p) \in Indices /\ BlockOf(p) \in Nat /\ p = x + (p % Per) /\ p % Per \in 0 .. Per - 1
    BY <1>4, PositionIs
  <2>2. x \in Nat
    BY <2>1, SMT
  <2>. HIDE DEF x
  <2>3. x < ino[f].size
    BY <1>3, <1>4, <2>1, <2>2
  <2>. QED  BY <1>1, <2>1, <2>3, EndsIs DEF x
<1>7. Word(f, p) = content[f][p]
  BY <1>1, <1>2, <1>4, <1>5, <1>6 DEF CleanInv, Shown
<1>8. WordAt(ino[f], p) = Word(f, p)
  <2>1. Data(f, BlockOf(p)) = Mapped(dev, ino[f], BlockOf(p))
    BY <1>1, <1>6, DataIs
  <2>. QED  BY <2>1 DEF WordAt, Word, Entry
<1>. QED  BY <1>7, <1>8

\* BlocksPartitioned, for every value of the constants: within the limits each
\* block is free or belongs to one file (inode_bmap, inode_truncate, inode_free).
THEOREM BlocksArePartitioned == Spec => []BlocksPartitioned
<1>. QED  BY Invariant, Partitioned, PTL

\* BlocksCounted, for every value of the constants: within the limits disk.blocks
\* is the number of blocks an inode has (inode_bmap counts, inode_truncate takes off).
THEOREM BlocksAreCounted == Spec => []BlocksCounted
<1>. QED  BY Invariant, CountsHold, PTL

\* ReadsBackWritten, for every value of the constants: within the limits inode_read
\* finds what acknowledged calls of inode_write put there, and zero elsewhere.
THEOREM FilesReadBack == Spec => []ReadsBackWritten
<1>. QED  BY Invariant, ReadsBack, PTL
=============================================================================
