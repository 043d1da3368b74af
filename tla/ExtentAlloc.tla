---------------------------- MODULE ExtentAlloc ----------------------------
(***************************************************************************)
(* The extent allocator of rust_core/src/extent/mod.rs: a bitmap behind an *)
(* RwLock, an atomic count of free blocks and a record of statistics.      *)
(* allocate_extent and free_extent hold the write lock, a sync the read    *)
(* lock, so each is one step.  A panic inside allocate_extent poisons the  *)
(* lock: from then on every call panics at lock().unwrap() and the FFI's   *)
(* catch_panic turns that into its default result, 0, which is success.    *)
(* Arguments stay below 2^31 (their u32 sums do not wrap); alloc_count and *)
(* free_count, which nobody tests, are left out.                           *)
(***************************************************************************)
EXTENDS Integers, FiniteSets

CONSTANTS
  Clients,   \* callers of the FFI
  Total,     \* total_blocks
  Word       \* the counters are unsigned and wrap at Word (2^32 in the code)

Bits == 0 .. Total - 1

ASSUME ExtentAssumption == Total \in Nat \ {0} /\ Word \in Nat /\ Word > Total

VARIABLES
  bitmap,       \* the bits set in memory
  free_blocks,  \* the atomic counter
  stats,        \* free_blocks and allocated_blocks of AllocStats
  poisoned,     \* a panic happened under the write lock
  stored,       \* the bits set on the device
  held,         \* ghost: the extents each client was given and has not freed
  spoilt        \* ghost: what broke the bookkeeping: "crossed" (a run crossed the end
                \* of the bitmap), "stolen" (an extent was freed that was not held)

vars == <<bitmap, free_blocks, stats, poisoned, stored, held, spoilt>>

Extents == [start : Bits, length : 1 .. Total]
Words   == 0 .. Word - 1
Stats   == [free : Words, allocated : Words]

----------------------------------------------------------------------------
\* Extent::end is exclusive
Blocks(e)   == {b \in Bits : e.start <= b /\ b < e.start + e.length}
InRange(e)  == e.start + e.length <= Total
FreeBits    == Bits \ bitmap
AllFree(S)  == S \subseteq FreeBits

\* (start_pos + offset) % total, where start_pos = hint % total
Pos(hint, offset) == (hint + offset) % Total

\* slip: an allocated block does not end the run that is being counted
FindOverGaps(hint, min_len) ==
  LET at[i \in 0 .. Total] ==
        IF i = 0 THEN [len |-> 0, start |-> 0, hit |-> FALSE]
        ELSE LET p == at[i - 1]
                 pos == Pos(hint, i - 1) IN
             IF p.hit \/ pos \in bitmap THEN p
             ELSE [len |-> p.len + 1, start |-> IF p.len = 0 THEN pos ELSE p.start,
                   hit |-> p.len + 1 >= min_len]
  IN  at[Total]

\* find_consecutive_free: len is "consecutive".  It returns as soon as the run
\* has min_len blocks, so max_len (which is not less) never shortens it.
Find(hint, min_len) ==
  LET at[i \in 0 .. Total] ==
        IF i = 0 THEN [len |-> 0, start |-> 0, hit |-> FALSE]
        ELSE LET p == at[i - 1]
                 pos == Pos(hint, i - 1) IN
             CASE p.hit -> p
               [] ~p.hit /\ pos \in bitmap -> [p EXCEPT !.len = 0]
               [] ~p.hit /\ pos \notin bitmap ->
                    [len |-> p.len + 1, start |-> IF p.len = 0 THEN pos ELSE p.start,
                     hit |-> p.len + 1 >= min_len]
  IN  at[Total]

\* slip: a region that is still open at the end of the bitmap is not counted
FragmentsClosed ==
  Cardinality({b \in FreeBits : b + 1 \in bitmap})

\* fragmentation_ratio: regions counted where one begins
Fragments ==
  LET at[i \in 0 .. Total] ==
        IF i = 0 THEN [count |-> 0, inside |-> FALSE]
        ELSE LET p == at[i - 1] IN
             IF i - 1 \in bitmap THEN [p EXCEPT !.inside = FALSE]
             ELSE [count |-> p.count + (IF p.inside THEN 0 ELSE 1), inside |-> TRUE]
  IN  at[Total].count

----------------------------------------------------------------------------
\* fetch_sub and fetch_add wrap, and so does -= in the release build
Count(delta) ==
  /\ free_blocks' = (free_blocks + delta) % Word
  /\ stats' = [free |-> (stats.free + delta) % Word, allocated |-> (stats.allocated - delta) % Word]

\* slip: the run may begin anywhere and may reach over allocated blocks
AllocUnchecked(c, hint, min_len) ==
  LET e == [start |-> Pos(hint, 0), length |-> min_len] IN
  /\ ~poisoned /\ InRange(e) /\ e.start \in FreeBits
  /\ bitmap' = bitmap \cup Blocks(e)
  /\ Count(-min_len)
  /\ held' = [held EXCEPT ![c] = @ \cup {e}]
  /\ UNCHANGED <<poisoned, stored, spoilt>>

\* allocate_extent; when no run is found it returns an error and changes nothing
Alloc(c, hint, min_len) ==
  LET r == Find(hint, min_len)
      e == [start |-> r.start, length |-> min_len]
  IN
  /\ ~poisoned /\ r.hit /\ InRange(e)
  /\ bitmap' = bitmap \cup Blocks(e)
  /\ Count(-min_len)
  /\ held' = [held EXCEPT ![c] = @ \cup {e}]
  /\ UNCHANGED <<poisoned, stored, spoilt>>

\* The run that was found crosses the end of the bitmap: the bits up to the
\* end are set, the next index panics under the lock.  The caller is told 0
\* and gets no extent.
AllocPanics(hint, min_len) ==
  LET r == Find(hint, min_len)
      e == [start |-> r.start, length |-> min_len]
  IN
  /\ ~poisoned /\ r.hit /\ ~InRange(e)
  /\ bitmap' = bitmap \cup Blocks(e)
  /\ poisoned' = TRUE
  /\ spoilt' = spoilt \cup {"crossed"}
  /\ UNCHANGED <<free_blocks, stats, stored, held>>

\* slip: the counters take one block back, whatever the length
FreeOne(c, e) ==
  /\ ~poisoned /\ e \in held[c] /\ InRange(e)
  /\ Blocks(e) \subseteq bitmap
  /\ bitmap' = bitmap \ Blocks(e)
  /\ Count(1)
  /\ held' = [held EXCEPT ![c] = @ \ {e}]
  /\ UNCHANGED <<poisoned, stored, spoilt>>

\* free_extent of an extent the client was given
Free(c, e) ==
  /\ ~poisoned /\ e \in held[c] /\ InRange(e)
  /\ Blocks(e) \subseteq bitmap
  /\ bitmap' = bitmap \ Blocks(e)
  /\ Count(e.length)
  /\ held' = [held EXCEPT ![c] = @ \ {e}]
  /\ UNCHANGED <<poisoned, stored, spoilt>>

\* free_extent of any other extent: the loop clears bits until it meets a clear
\* one.  Then it returns the double-free error, and what it cleared stays
\* clear, uncounted; when there is none the extent is freed.
FreeStolen(c, e) ==
  LET clear == Blocks(e) \cap FreeBits
      first == {b \in Blocks(e) : \A z \in clear : b < z}
  IN
  /\ ~poisoned /\ e \notin held[c] /\ InRange(e)
  /\ first # {}
  /\ bitmap' = bitmap \ first
  /\ IF clear = {} THEN Count(e.length) ELSE UNCHANGED <<free_blocks, stats>>
  /\ spoilt' = spoilt \cup {"stolen"}
  /\ UNCHANGED <<poisoned, stored, held>>

\* sync_bitmap_to_disk; once poisoned it writes nothing and the caller sees 0
Sync ==
  /\ ~poisoned
  /\ stored' = bitmap
  /\ UNCHANGED <<bitmap, free_blocks, stats, poisoned, held, spoilt>>

\* the allocator is dropped and made anew with these bits; its clients are gone
Restart(bits) ==
  /\ bitmap' = bits
  /\ free_blocks' = Cardinality(Bits \ bits)
  /\ stats' = [free |-> Cardinality(Bits \ bits), allocated |-> Total - Cardinality(Bits \ bits)]
  /\ poisoned' = FALSE /\ spoilt' = {}
  /\ held' = [c \in Clients |-> {}]
  /\ UNCHANGED stored

\* ExtentAllocator::new: a device that cannot be read gives an empty bitmap
New        == Restart(stored)
NewUnread  == Restart({})

----------------------------------------------------------------------------
\* a device with any bitmap, read by new
Init ==
  /\ stored \in SUBSET Bits
  /\ bitmap = stored
  /\ free_blocks = Cardinality(Bits \ stored)
  /\ stats = [free |-> free_blocks, allocated |-> Total - free_blocks]
  /\ poisoned = FALSE /\ spoilt = {}
  /\ held = [c \in Clients |-> {}]

Next ==
  \/ \E c \in Clients, hint \in Bits, min_len \in 1 .. Total : Alloc(c, hint, min_len)
  \/ \E hint \in Bits, min_len \in 1 .. Total : AllocPanics(hint, min_len)
  \/ \E c \in Clients, e \in Extents : Free(c, e) \/ FreeStolen(c, e)
  \/ Sync \/ New \/ NewUnread

Spec == Init /\ [][Next]_vars

----------------------------------------------------------------------------
TypeOK ==
  /\ bitmap \subseteq Bits /\ stored \subseteq Bits
  /\ free_blocks \in Words /\ stats \in Stats
  /\ poisoned \in BOOLEAN /\ spoilt \subseteq {"crossed", "stolen"}
  /\ held \in [Clients -> SUBSET Extents]

\* The bitmap, the atomic counter and the statistics, which three different
\* locks guard, agree through allocations, frees and restarts, unless a run
\* crossed the end of the bitmap or somebody freed what was not theirs; all
\* three stay within their types.
CountersAgree ==
  /\ TypeOK
  /\ spoilt = {} =>
    /\ free_blocks = Cardinality(FreeBits)
    /\ stats.free = free_blocks
    /\ stats.allocated = Cardinality(bitmap)

\* Extents held at the same time share no block and lie in the bitmap, all of
\* their blocks set, also after a panic; only a free of what was not held
\* breaks that.
ExtentsExclusive ==
  "stolen" \notin spoilt =>
    /\ \A c \in Clients : \A e \in held[c] : InRange(e) /\ Blocks(e) \subseteq bitmap
    /\ \A c, d \in Clients : \A e \in held[c], f \in held[d] :
         <<c, e>> # <<d, f>> => Blocks(e) \cap Blocks(f) = {}

\* The search against its reference: it finds the first run of min_len free
\* blocks at or after hint, around the end of the bitmap, if there is one that
\* does not go past hint again; with hint 0 it finds every run there is.
FindsFirstFit ==
  \A hint \in Bits, min_len \in 1 .. Total :
    LET r == Find(hint, min_len)
        fits == {o \in 0 .. Total - min_len : AllFree({Pos(hint, o + k) : k \in 0 .. min_len - 1})}
    IN
      /\ r.hit <=> fits # {}
      /\ r.hit => \E o \in fits : r.start = Pos(hint, o) /\ \A q \in fits : o <= q
      /\ hint = 0 /\ r.hit => InRange([start |-> r.start, length |-> min_len])

\* The regions that fragmentation_ratio counts are the maximal free runs.
FragmentsCounted ==
  Fragments = Cardinality({b \in FreeBits : b - 1 \notin FreeBits})
=============================================================================
