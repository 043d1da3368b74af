----------------------------- MODULE BlockAlloc -----------------------------
(***************************************************************************)
(* The bitmap allocator of src/block_alloc.c: a bitmap of the data blocks  *)
(* in memory with a count of the free ones, loaded from the block device   *)
(* at mount and written back, one bitmap block after the other, by         *)
(* block_alloc_sync.  Every operation runs under alloc_lock; only a sync   *)
(* makes device calls while it holds it, so the other operations are one   *)
(* step each.  A block is known by its bit (data_start is left out), and   *)
(* the device is what blkdev_write leaves in it.                           *)
(***************************************************************************)
EXTENDS Integers, FiniteSets

CONSTANTS
  Clients,        \* the inodes that own blocks
  Nobody,         \* no holder of alloc_lock
  Total,          \* total_blocks: data blocks the allocator manages
  BitsPerBlock,   \* bits of the bitmap in one block of the device
  BitmapBlocks    \* bitmap_blocks

Bits == 0 .. Total - 1

ASSUME BlockAllocAssumption ==
  /\ Nobody \notin Clients
  /\ Total \in Nat \ {0} /\ BitsPerBlock \in Nat \ {0} /\ BitmapBlocks \in Nat \ {0}
  /\ \A b \in Bits : b \div BitsPerBlock \in 0 .. BitmapBlocks - 1  \* the bitmap has room

VARIABLES
  bitmap,        \* the bits set in memory
  free_blocks,   \* the count beside it
  stored,        \* the bits set on the device
  mounted,
  lock,          \* who is inside block_alloc_sync, or Nobody
  next,          \* the bitmap block it writes next
  closing,       \* the sync is the one of block_alloc_destroy
  held,          \* ghost: the blocks each client was given and has not freed
  torn           \* ghost: "partial" when a failed sync left the device with part of
                 \* a newer bitmap, "loaded" when a mount then took it, else "no"

syncVars == <<stored, lock, next, closing, torn>>
allocVars == <<bitmap, free_blocks, stored, mounted, lock, next, closing, held, torn>>

----------------------------------------------------------------------------
Run(start, count) == start .. start + count - 1
BitsOf(i)         == {b \in Bits : b \div BitsPerBlock = i}
FreeBits          == Bits \ bitmap

\* where a run of count free bits starts
RunStarts(count)  == {s \in Bits : Run(s, count) \subseteq FreeBits}

Idle == mounted /\ lock = Nobody

\* slip: an allocated block does not end the run that is being counted
SearchNoReset(count) ==
  LET at[i \in 0 .. Total] ==
        IF i = 0 THEN [len |-> 0, start |-> 0, hit |-> FALSE]
        ELSE LET p == at[i - 1] IN
             IF p.hit \/ i - 1 \in bitmap THEN p
             ELSE [len |-> p.len + 1, start |-> IF p.len = 0 THEN i - 1 ELSE p.start,
                   hit |-> p.len + 1 >= count]
  IN  at[Total]

\* the loop of block_alloc_multiple: len is "consecutive", hit its return
Search(count) ==
  LET at[i \in 0 .. Total] ==
        IF i = 0 THEN [len |-> 0, start |-> 0, hit |-> FALSE]
        ELSE LET p == at[i - 1] IN
             CASE p.hit -> p
               [] ~p.hit /\ i - 1 \in bitmap -> [p EXCEPT !.len = 0]
               [] ~p.hit /\ i - 1 \notin bitmap ->
                    [len |-> p.len + 1, start |-> IF p.len = 0 THEN i - 1 ELSE p.start,
                     hit |-> p.len + 1 >= count]
  IN  at[Total]

Grant(c, bits) ==
  /\ bitmap' = bitmap \cup bits
  /\ free_blocks' = free_blocks - Cardinality(bits)
  /\ held' = [held EXCEPT ![c] = @ \cup bits]
  /\ UNCHANGED <<mounted, syncVars>>

\* slip: the block that ends the run is counted twice
GiveOneMore(c, bits) ==
  /\ bitmap' = bitmap \ bits
  /\ free_blocks' = free_blocks + Cardinality(bits) + 1
  /\ held' = [held EXCEPT ![c] = @ \ bits]
  /\ UNCHANGED <<mounted, syncVars>>

Give(c, bits) ==
  /\ bitmap' = bitmap \ bits
  /\ free_blocks' = free_blocks + Cardinality(bits)
  /\ held' = [held EXCEPT ![c] = @ \ bits]
  /\ UNCHANGED <<mounted, syncVars>>

\* block_alloc: the lowest free bit
Alloc(c) ==
  /\ Idle /\ free_blocks # 0
  /\ \E b \in FreeBits : (\A other \in FreeBits : b <= other) /\ Grant(c, {b})

\* slip: the run may reach over allocated blocks behind its first
AllocMultipleOverlaps(c, count) ==
  /\ Idle /\ free_blocks >= count
  /\ \E s \in {b \in FreeBits : b + count <= Total} :
       (\A other \in FreeBits : s <= other) /\ Grant(c, Run(s, count))

\* block_alloc_multiple: the lowest run of count free bits
AllocMultiple(c, count) ==
  /\ Idle /\ free_blocks >= count
  /\ \E s \in RunStarts(count) :
       (\A other \in RunStarts(count) : s <= other) /\ Grant(c, Run(s, count))

\* block_free: a client frees what it holds; a bit that is clear is refused
Free(c, b) ==
  /\ Idle /\ b \in held[c]
  /\ b \in bitmap
  /\ Give(c, {b})

\* block_free_multiple: nothing is freed unless all of the range is allocated
FreeMultiple(c, start, count) ==
  /\ Idle /\ start + count <= Total /\ Run(start, count) \subseteq held[c]
  /\ Run(start, count) \subseteq bitmap
  /\ Give(c, Run(start, count))

----------------------------------------------------------------------------
(* block_alloc_sync, block_alloc_destroy, block_alloc_init.                *)

SyncBegin(c) ==
  /\ Idle
  /\ lock' = c /\ next' = 0
  /\ UNCHANGED <<bitmap, free_blocks, stored, mounted, closing, held, torn>>

\* block_alloc_destroy: the file system is unmounted
DestroyBegin(c) == 
  /\ Idle
  /\ lock' = c /\ next' = 0 /\ closing' = TRUE
  /\ UNCHANGED <<bitmap, free_blocks, stored, mounted, held, torn>>

\* slip: the last bitmap block is taken for the end
SyncBlockShort(c) ==
  /\ lock = c /\ next < BitmapBlocks
  /\ stored' = IF next = BitmapBlocks - 1 THEN stored
               ELSE (stored \ BitsOf(next)) \cup (bitmap \cap BitsOf(next))
  /\ next' = next + 1
  /\ UNCHANGED <<bitmap, free_blocks, mounted, lock, closing, held, torn>>

SyncBlock(c) ==
  /\ lock = c /\ next < BitmapBlocks
  /\ stored' = (stored \ BitsOf(next)) \cup (bitmap \cap BitsOf(next))
  /\ next' = next + 1
  /\ UNCHANGED <<bitmap, free_blocks, mounted, lock, closing, held, torn>>

\* the lock is given back; after a destroy the bitmap in memory is gone
Release ==
  /\ lock' = Nobody /\ next' = 0 /\ closing' = FALSE
  /\ IF closing
     THEN mounted' = FALSE /\ bitmap' = {} /\ free_blocks' = 0
     ELSE UNCHANGED <<mounted, bitmap, free_blocks>>

SyncEnd(c) ==
  /\ lock = c /\ next = BitmapBlocks
  /\ Release
  /\ torn' = IF torn = "loaded" THEN torn ELSE "no"
  /\ UNCHANGED <<stored, held>>

\* blkdev_write fails: what was written stays written
SyncFault(c) ==
  /\ lock = c /\ next < BitmapBlocks
  /\ Release
  /\ torn' = IF torn = "loaded" THEN torn ELSE "partial"
  /\ UNCHANGED <<stored, held>>

\* block_alloc_init
Load ==
  /\ ~mounted
  /\ mounted' = TRUE
  /\ bitmap' = stored \cap Bits
  /\ free_blocks' = Cardinality(Bits \ stored)
  /\ torn' = IF torn = "no" THEN torn ELSE "loaded"
  /\ UNCHANGED <<stored, lock, next, closing, held>>

----------------------------------------------------------------------------
\* mkfs: the bitmap on the device has the blocks that are owned
AllocInit ==
  /\ bitmap = {} /\ free_blocks = 0 /\ mounted = FALSE
  /\ lock = Nobody /\ next = 0 /\ closing = FALSE /\ torn = "no"
  /\ \E owner \in [Bits -> Clients \cup {Nobody}] :
       held = [c \in Clients |-> {b \in Bits : owner[b] = c}]
  /\ stored = UNION {held[c] : c \in Clients}

AllocNext ==
  \/ \E c \in Clients :
       \/ Alloc(c)
       \/ \E count \in 1 .. Total : AllocMultiple(c, count)
       \/ \E b \in Bits : Free(c, b)
       \/ \E start \in Bits, count \in 1 .. Total : FreeMultiple(c, start, count)
       \/ SyncBegin(c) \/ DestroyBegin(c) \/ SyncBlock(c) \/ SyncEnd(c) \/ SyncFault(c)
  \/ Load

AllocSpec == AllocInit /\ [][AllocNext]_allocVars

----------------------------------------------------------------------------
Owned == UNION {held[c] : c \in Clients}

AllocTypeOK ==
  /\ bitmap \subseteq Bits /\ stored \subseteq Bits
  /\ free_blocks \in 0 .. Total
  /\ mounted \in BOOLEAN /\ closing \in BOOLEAN
  /\ lock \in Clients \cup {Nobody}
  /\ next \in 0 .. BitmapBlocks
  /\ held \in [Clients -> SUBSET Bits]
  /\ torn \in {"no", "partial", "loaded"}

\* The counter that allocations test and statfs reports is the number of clear
\* bits, whatever runs were taken and given back and however often the bitmap
\* was reloaded (block_alloc:115 relies on it to find a bit).
FreeCounted == mounted => free_blocks = Cardinality(FreeBits)

\* No block is ever given to two files, none that a file owns is free, and none
\* is lost: as long as no mount loaded a bitmap that a failed sync left torn,
\* the blocks set in the bitmap are those held, each by one client.
HeldExactly ==
  /\ mounted /\ torn # "loaded" => bitmap = Owned
  /\ \A c, d \in Clients : c # d /\ torn # "loaded" => held[c] \cap held[d] = {}

\* After an unmount whose sync did not fail, the device has the bitmap that
\* belongs to the blocks in use, all of its blocks of the same moment.
SurvivesUnmount == ~mounted /\ torn = "no" => stored = Owned

\* For every bitmap that arises and every count, the search loop of
\* block_alloc_multiple finds the lowest run of free blocks if there is one.
SearchFindsLowest ==
  \A count \in 1 .. Total :
    LET r == Search(count) IN
      /\ r.hit <=> RunStarts(count) # {}
      /\ r.hit => r.start \in RunStarts(count) /\ \A s \in RunStarts(count) : r.start <= s
=============================================================================
