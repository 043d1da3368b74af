# A verification development for NanoFS (ModernFS)

NanoFS is a FUSE file system. The C part (`src/src`, `src/include`) holds the
block device with its cache, the allocators, inodes, directories and the FUSE
operations. The Rust part (`src/rust_core`) holds a write-ahead journal and an
extent allocator behind a C interface. This directory holds TLA+ modules translated
from that source, the TLC configurations that check them on small instances and
TLAPS proofs about them. Line references below are to the repository (`src/`).

Contents: [the system](#1-the-system) · [modules](#2-modules-and-the-code) ·
[limits](#3-the-limits-of-the-design) · [runs](#4-runs-bounds-and-what-they-show) ·
[fairness](#5-fairness) · [proofs](#6-proofs) · [findings](#7-findings) ·
[not modelled](#8-what-is-left-out) · [plan](#9-plan).

## 1. The system

```
            FUSE threads                     checkpoint thread (30 s timer)
                 |                                     |
   fuse_ops.c --- path.c --- directory.c               |
                 |              |                      |
              inode.c (cache, bmap, read, write)       |
            /    |         \                           |
 block_alloc.c   |       journal (Rust)  <-------------+
            \    |          |                          |
      block_dev.c + buffer_cache.c <-- invalidate   extent allocator (Rust)
                 |          |                          |
                 +----------+--- one disk image -------+
```

| Component | State | Operations | Shared with | What makes it correct |
|---|---|---|---|---|
| Journal `rust_core/src/journal/mod.rs` | ring of blocks on disk, superblock in memory (head, tail), active transactions, two mutexes | begin, write, commit, abort, checkpoint, recover, mount | device file, buffer cache (invalidation callback), all FUSE threads, checkpoint thread | transactions are whole or absent after a crash, acknowledged ones stay, operations end |
| Extent allocator `rust_core/src/extent/mod.rs` | bitmap, atomic free count, statistics, three locks | allocate, free, sync, load, statistics | device file, **the same bitmap blocks** as the block allocator | extents exclusive, counters agree, first fit |
| Block allocator `src/block_alloc.c` | bitmap, free count, one mutex | alloc, alloc_multiple, free, free_multiple, sync, init, destroy | block device | a block has one owner, counts agree, the bitmap survives unmount |
| Buffer cache `src/buffer_cache.c` | hash of buffers with valid/dirty, one mutex and one rwlock per buffer | lookup, insert, mark dirty, sync, invalidate, (evict: never called) | block device, journal checkpoint | reads see the latest write, a sync keeps what it promised |
| Block device `src/block_dev.c` | descriptor, cache | open, close, read, write, sync, invalidate | everything on disk | same, seen from the caller |
| Inode layer `src/inode.c` | inode cache (hash, LRU), inode bitmap, table on disk | alloc, free, get, put, sync, sync_all, bmap, truncate, read, write | block allocator, block device, journal | a block belongs to one file, cached inodes are unique, what was written reads back |
| Directories `src/directory.c` | records in the directory's blocks | lookup, add, remove, iterate, is_empty | inode layer | what was added and not removed is found, once |
| Path resolution `src/path.c` | one static buffer that all threads share | resolve, split | directories (without their lock) | a lookup answers what was true while it ran |
| FUSE operations `src/fuse_ops.c` | file handles (an inode number each) | getattr, readdir, create, mkdir, unlink, rmdir, open, release, read, write, truncate, fsync, chmod, chown, utimens, statfs | everything above | compositions keep names, link counts, blocks and journal consistent |
| Context `src/fs_context.c` | the objects above, checkpoint thread | init (mount), destroy (unmount), sync, statfs | everything above | mount order, unmount loses nothing |
| Superblock `src/superblock.c` | layout on disk | init, read, write, validate | mkfs, context | areas do not overlap |
| mkfs, `src/main_fuse.c`, `tools/*` | none | offline programs, start of the daemon | an image | - |

**How they interact.** A FUSE `write` takes the inode's lock, begins a
transaction, runs `inode_write` (which allocates blocks through `bmap` and hands
each data block to the journal when a transaction is given), syncs the inode to
the table (unlogged), commits and then checkpoints at once. Metadata operations do not use the journal. The checkpoint thread
checkpoints every 30 seconds beside the FUSE threads and also writes the extent
allocator's bitmap. The journal writes the device with its own descriptor, behind
the buffer cache, and repairs that by invalidating the cached block.

**Where it is hard.** Threads inside commit and checkpoint at once; a superblock
that is copied under one lock and written under another; a crash at any
step of a commit, a checkpoint or a recovery; power cuts that reorder writes; a
full ring and a full cache; a device call that fails half-way through a
multi-step operation; two writers of one device with one cache; path lookups
without locks; long sequences of allocations and frees across remounts.
`PROJECT.json` lists each such hazard at its line with the properties that
would catch it.

## 2. Modules and the code

Each model has one action per critical section of the code's locks, or per device
call where one is made without a lock, and one operator per helper. `PROJECT.json`'s
"map" gives the source lines of every definition. A definition whose comment says
"slip" is a plausible mistake: it is not part of the specification, and shows that a property would catch that mistake.

### Journal (`Journal`, `WriteLists`, `AtomicStore`)
`disk` is what a read of the image returns and `media` what a power cut leaves;
an fsync makes them equal, and `WriteBack` lets the kernel write any block early.
`sb` is the in-memory superblock. A thread's `pc` walks through `commit`
(`hdr dat wrHdr wrDat cmt wrCmt sbCopy sbWrite sbSync fsync`) and `checkpoint`
(`scan apply cpHead cpSb cpSbSync`). The two mutexes are the guards `DeviceFree` and
`SuperblockFree`: they name the program counters at which the code holds a lock
across a step; where it takes and gives a lock back within one step the guard
is enough. `Mount`, `RecoverRead`, `RecoverWrite`, `RecoverEnd` are `new` and `recover`; no
other thread runs then. Every `?` of the code is a fault action: nothing is undone.

Abstracted: a checksum is the data it is computed from, so a reader that compared it would
see whether they match (none does); the table of active transactions is the `txn` of each
thread; sequence numbers, which nobody reads, are gone. `abort` and a commit with no writes change nothing but that table.
Unmount is `Crash` at a moment when no thread is busy: it writes nothing of the journal.

`AtomicStore` is the abstract specification: a store that changes by whole
transactions; a crash keeps a running one whole or not at all. `Journal!AtomicDurable`
is its specification under the refinement mapping `stores, txn, mode`.

### Block allocator (`BlockAlloc`)
Every operation runs under `alloc_lock`, so each is one step, except sync, which makes one device
write per bitmap block while it holds the lock (`SyncBegin, SyncBlock, SyncEnd,
SyncFault`). `held` is a ghost: who was given which block. `Search` is the loop of
`block_alloc_multiple`, as a recursive function. `AllocInit, AllocNext, AllocSpec, allocVars` have that prefix because `BlocksProofs` extends this module and `FileBlocks`.

### Extent allocator (`ExtentAlloc`)
One step per call. `Find` is the circular search; `AllocPanics` is the run that crosses the end of
the bitmap, where the bit vector's index panics under the write lock and poisons it; the FFI's
`catch_panic` then turns every later call into its default result. `Free` has
the double-free check that clears bits on its way. The counters wrap at `Word`.

### Buffer cache and block device (`BufferCache`)
`cached`, `valid`, `dirty`, `data` are the buffers, `disk` the device, `lock` the
cache's mutex where a sync holds it across device calls. Program counters follow `blkdev_read` (hit, miss, reload of an invalid
buffer, insert), `blkdev_write` (hit, miss and insert, write past a full cache),
the checkpoint's write-then-invalidate and the sync that visits the dirty buffers and then
calls fsync. Every write has a version, its place in the order of writes. The device is what the kernel
holds; power cuts are the journal's subject.

### Directories (`Directory`)
Positions are in units of 8 bytes, to which records are aligned; the first unit of a record is its header, the others
its name. `Full` is `sizeof(dirent_t)` (263 bytes in the code), the length the code always writes
whatever the name's; `Junk` is what lies behind the buffer on the stack. `AddSplit` and `AddSecond` are the two writes of a split, between which a
lookup without the lock (`LookupBegin`, `LookupBlock`: one step per block read) may look. `AddReuse`, `AddAppend`, `RemoveMerge`, `RemoveFirst` are the other paths. A removed
record's header stays in the block and can be met again by the walk of a half-done split.

### Blocks of files (`FileBlocks`)
The unit is a word, the space of a block number, so that a block can be read as data or as a table, as in
the code. `dev` is what `blkdev_read` returns, `ino` the `disk_inode_t`s, `op` the write under way on each
inode. `Path` is the way of `inode_bmap` to a block (direct, indirect, double indirect); `Mapped` follows
it without allocation, `Bmap` with it: a fold of `Step` over the path in which every
device call may fail and nothing is undone. `WriteBlock` is one iteration of `inode_write`, so writes of different files interleave at the shared
allocator. A regular file's blocks go to a transaction, which `WriteEnd` commits and checkpoints in one step (the inside is
`Journal`'s subject); a directory's are written at once. `TruncateUp`, `TruncateDown`, `FreeInode` are
truncate and the freeing of an inode; the next user of that inode number is the same element of
`Files`, with the cleared inode that `inode_alloc` makes. `Wrap` is the number of blocks that the 32-bit `i * BLOCK_SIZE` of truncate can address.

### Inode cache and inode bitmap (`InodeCache`)
A pool of entries in hash chains (`head, hnext`) and an LRU list, the bitmap in memory and on disk, and the table
whose blocks hold several inodes. The contents of an inode are the number of the operation that stored them. `inode_get` is
`GetHit`, `GetVictim` (with the write of a dirty victim, under `cache_lock`), `Claim`, and then `Load` or `Reload` after the lock
has been dropped; `inode_sync` is `SyncRead, SyncWrite, SyncClear`, called by an operation, by eviction
or by `inode_sync_all`. `inode_alloc` and `inode_free` are the steps that change the bit, store, roll back,
change `free_inodes` and write the bitmap. `Remount` destroys the cache and loads it again.

### Layout and the life of an image (`Mkfs`, `Context`)
`Mkfs` has the 32-bit arithmetic of `superblock_init` and the program that writes the areas in their order. `Context` extends it with
what happens to the image: `Mount*` in the order of `fs_context_init`, requests that write and remove
files, fsync, the checkpoint thread, `Stop, Join, DropRust … Close` in the order of `fs_context_destroy`, and a crash at any step.
It composes the other components in outline: the data bitmap is in the block allocator, in its cached block, on the disk and
in the extent allocator's copy; the inode table is in memory, in its cached block and on the disk; the journal is a set of
logged blocks; `at` is the file offset that journal and extent allocator share by `dup`. An inode is dirty while memory and the cached
table differ. `Sync` is `fs_context_sync`, one action per call it makes, run by fsync, unmount and (its first two calls) the checkpoint thread.
Each call has its failing step: the checkpoint, the bitmap write, a block of `block_alloc_sync` (`SyncBitmapFails`) and the flush end the sync with an error. Only
`inode_sync_all` never does: it drops the result of each `inode_sync` (inode.c:495), so `SyncInodes` may leave any dirty inodes unwritten (`missed`) and the sync goes on, to report
success. `InodeSync`, whose failure `modernfs_write` ignores (fuse_ops.c:463), and the destroys, which ignore theirs, have these failures too.

### Names (`FileSystem`, `Namespace`)
`FileSystem` has the requests on paths: the name is taken through the static buffer of
`path_basename` (`Basename, CopyName`), the walk takes no lock (`Walk, Find`), and create, mkdir, unlink and rmdir
check, change the directory and make or free the inode under the parent's lock (`Make, Add, Check, Unname, Free`), each with
its failing step. `Look` is what getattr, open and readdir do at the end, `Reply` puts the inode number into the handle. The kernel and libfuse
are environment: they keep requests on one path apart (`Apart`) and hide an open file instead of removing it (`IsOpen`).
A directory is a set of entries here; its records are `Directory`'s subject, which allows a walk that meets a half-done split, as `Found` does.
`Namespace` is the abstract specification: every request acts at one moment on the name it was given, and every error tells the truth
about that moment. `FileSystem!ActsOnceAsNamed` is its specification under the mapping that reads the tree off the directories.

## 3. The limits of the design

The code works within limits that it does not enforce. Each model records in a ghost
(`crossed`, `spoilt`, `torn`) the limits a behaviour has gone beyond; the properties speak
of behaviours within them, and the runs cut a behaviour at the step that leaves them. Removing the `CONSTRAINT`
of a cfg and the limit from a property shows how the code fails beyond it.

| Module | Limit | Beyond it |
|---|---|---|
| Journal | `wrap` | the ring hands out slot 0, the superblock's own block and the next mount refuses the journal or reads a window from a header; a header in the last slot has its data read from behind the ring (mod.rs:476) |
| Journal | `commits` | two commits overlap: the older superblock copy lands last, and a restart misses an acknowledged transaction |
| Journal | `mixed` | a checkpoint beside a commit applies the blocks before any commit record follows and frees them: half of an unacknowledged transaction stays, and slots are freed while held |
| Journal | `checkpoints` | two checkpoints of one window; after a fault of one of them, head may go back |
| Journal | `failed` | a commit that fails leaves blocks behind in the ring; the next commit record covers them |
| Journal | `torn` | power fails when the superblock reached the media before the blocks it describes; no fsync orders the two, and no reader compares the checksums on which IMPLEMENTATION.md:775 relies |
| Journal | `unsynced` | recovery replays blocks which the page cache holds and the media does not |
| BufferCache | `overlap` | two operations on one block at once, not both reads; an inode's lock excludes that for file blocks, nothing does for inode-table blocks |
| BufferCache | `revive` | a write hits a buffer that a checkpoint invalidated and leaves it invalid: the next read takes the old block from the device (a data block reused as an indirect block meets this) |
| BufferCache | `syncRace` | a write between a sync's pwrite and its clearing of the dirty mark is never written back |
| ExtentAlloc | `crossed` | a run crosses the end of the bitmap: panic, poisoned lock |
| ExtentAlloc | `stolen` | somebody frees what was not given to them |
| BlockAlloc | `torn` | a failed sync left part of a newer bitmap, and a mount took it |
| Directory | `clobber`, `spill` | a whole `dirent_t` written into a smaller space, or over the end of the block: a short name put where another was removed wipes the record behind it |
| Directory | `skips` | a removed record merged into a record that is not its neighbour |
| Directory | `halfSplit` | the second write of a split failed |
| FileBlocks | `regrown` | a truncated file is written or extended again: its pointers were left, so it uses blocks it does not own and shows old data (finding `fileblocks_regrown`) |
| FileBlocks | `exposed` | a new data block is not zeroed: a partial or failed write shows what its last owner left |
| FileBlocks | `beyond` | a failed write leaves blocks mapped behind the size, which no truncate frees |
| FileBlocks | `tables` | the tables of a removed file stay allocated |
| FileBlocks | `wide` | truncate of a file above 4 GiB: the 32-bit offset comes round and the file's first blocks are freed |
| FileBlocks | `uncommitted` | the commit fails after the inode was changed and synced |
| FileBlocks | `faulted` | a device call of bmap or truncate fails after something was changed |
| InodeCache | `lateLoad` | the load of a claimed entry overwrites what another thread, which loaded it first, stored in it |
| InodeCache | `tableRace` | two inode_syncs on one block of the table: the second write carries the first one's inode as it was |
| InodeCache | `syncRace` | sync_all, which takes no inode's lock, clears the dirty mark of a change made after it copied the inode |
| InodeCache | `dropped` | the write of a dirty victim failed, and the entry was recycled |
| InodeCache | `unhashed` | an entry whose load failed was recycled without being taken out of its chain |
| InodeCache | `unstored`, `unrolled` | the bitmap on disk differs: a write failed, or another thread wrote a bit that was then rolled back |
| InodeCache | `count`, `recount` | `free_inodes` is wrong: two changes at once; a mount takes the number that mkfs wrote |
| Context | `stale` | a crash while the extent allocator's copy, the bitmap of the last mount, is on the disk |
| Context | `torn` | a crash between the writes of bitmap and table by one flush |
| Context | `moved` | a block freed, or a new one synced, between an fsync's looks at inodes and bitmap and its flush |
| Context | `offset` | a journal write between the seek and the write of the bitmap: the bitmap lands elsewhere |
| Context | `unsynced` | a crash, or the end of unmount, while an inode whose `inode_sync` failed inside `inode_sync_all` is not on the disk yet: the failure is dropped (inode.c:495) and SUCCESS returned (inode.c:501), so the check at fs_context.c:329 never fires, an fsync that synced nothing of the inode returns 0, and the bitmap may go to the disk without it |
| Context | `unflushed` | a last write of unmount fails: a bitmap block in `block_alloc_destroy`, or the flush in `blkdev_close`; nobody looks |
| Context | `early`, `failed` | a crash when an inode is on the disk whose data is not committed yet, or never will be |
| Context | `reused` | a crash when a removal is not on the disk and the block has another file's data |
| FileSystem | `nameRace` | the name in the static buffer is another thread's: the request acts on a name it was not given |
| FileSystem | `walk` | a walk reads a directory between the two writes of a split |
| FileSystem | `files` | rmdir of a directory with files but no directories: the files' inodes are lost |
| FileSystem | `hardRemove` | a mount with `hard_remove`: an open file's number is given to another file |
| FileSystem | `unread` | ENOENT because something could not be read |

How ordinary use meets them: with the default options, FUSE serves requests with many threads, so `commits` and `mixed` need only two
writers; `wrap` needs as many writes as the ring has room for; `clobber` needs one short name removed and another added; `regrown` needs a file opened with truncation and written, as a shell's `>` does. `tableRace` and `syncRace` need two files of one table block changed
at once, `nameRace` two requests that create or remove, `files` an `rm -d` of a directory that holds files (most programs empty it first).
`unsynced` needs one failing device call on a block of the inode table.
`stale` needs a crash in the 30 seconds after a checkpoint and before the next sync.

## 4. Runs, bounds and what they show

| Run | Instance | What it shows |
|---|---|---|
| `journal_serial` | 2 threads, ring of 13, transactions of one and two blocks, 3 commits, 2 crashes, 1 fault | within the limits (checkpoints may overlap): `TypeOK`, the windows are well paired, the disk of **every moment** recovers to the acknowledged transactions and a running one whole or not at all (`CrashConsistent`), an empty window means that the home blocks hold everything (`CheckpointExact`), and the log implements `AtomicStore` |
| `journal_power` | 1 thread, ring of 9, 2 commits, 2 power cuts, write-back of any block at any time | the same for the media outside a torn commit; a torn commit takes nothing from acknowledged ones before the first crash |
| `journal_live` | 2 threads, ring of 8 so that it wraps and fills, 2 overlapping commits, 1 crash, 1 fault | overlapping commits share no slot (`SlotsExclusive`); every operation returns |
| `blockalloc` | 2 owners, 4 blocks, a bitmap in 2 device blocks of which the second is not full | counts, ownership, the stored bitmap, the search |
| `extent` | 2 callers, 3 blocks, all bitmaps, hints and lengths | counters, exclusivity, search and fragment count against reference definitions |
| `cache` | 2 threads, 2 blocks, a cache of 1, 3 writes, 1 fault, 1 crash | coherence, durability of syncs, every operation returns |
| `directory` | 2 short names and 1 of full length, 2 blocks, 1 lookup without lock | directory contents, tiling of records, lookups |
| `fileblocks` | a regular file and a directory, 6 blocks, 1 direct index, tables of 2 words, 4 calls, 1 fault | every block is free or has one owner, `disk.blocks` is right, files read back what was written (or zero) |
| `fileblocks_regrown` | 2 files, 3 blocks, 4 calls | the finding of section 7 |
| `inodecache` | 3 threads, a pool of 2 entries, 5 inodes in 2 chains and table blocks of 2, 3 operations, 1 fault, remounts | one entry per inode, exact reference counts, no change lost, the bitmap agrees with the directories, in memory and on disk |
| `context` | 2 FUSE threads, main and checkpoint thread, 2 files, 2 blocks; mkfs of 1 to 400 MB and 16200 to 16384 MB, the image of 2 MB mounted; 3 requests, 1 timeout, 1 crash, 1 fault | every image made is sound, no block that the disk's table names is free, data is in place, fsync and unmount keep what they promise, nobody uses a destroyed object, unmount ends |
| `filesystem` | 3 threads, 2 names, paths of one and two names, 5 inodes, 3 trees to begin with, 3 requests, 1 fault | no inode is lost or has two names, handles keep their file, requests implement `Namespace` |

The type invariant of a module is checked as a part of its main invariant (`CountersAgree`, `Coherent`, `Faithful`, `BlocksPartitioned`,
`OneCopy`, `RefsCovered`, `TreeSound`), that of `Journal` by itself; that of `BlockAlloc` is proved only.

**Why the bounds are enough.** The ring of 13 has room for three
transactions before it comes round (five slots for one of two blocks, three for one of one block), so that a checkpoint, a crash and a
recovery meet windows with none, one, two and three transactions and a part of one; crashes are bounded by two because the
second is the first that can meet a recovery. The ring of 8 wraps with two
commits and is full in the middle of the second. A cache of one buffer
with two blocks has both a hit and a write past the full cache in one behaviour. A bitmap of two device blocks is the
least in which a sync can stop in the middle; three bits are the least with a run
that is interrupted and one that crosses the end. Two directory blocks are
the least in which a lookup's reads are separate moments; a block of 8 units holds
four short records or a short one behind a full one, so that a space is met which fits the name and not the
`dirent_t`. One direct index with tables of two words gives every level of the mapping in seven indices, and four calls are a
write, a truncate, a write by the other owner into the freed blocks, and one more that reads or reuses them. 
A pool of two entries has a hit, an eviction and a full pool with three threads; five inodes
with two chains and two per block give inodes that share a chain, a block, both or neither. The sizes of `context` are those at which the data bitmap
takes one, two, three and four blocks, those too small to format, and the largest, up to the limit of the arguments; the life of an image does not depend on the size, so one is
mounted. Three requests are two that race and one that sees the result; `filesystem` begins with trees in which each operation can succeed
or be refused at once. The one fault of `context` is any failing call but an `inode_sync` inside `inode_sync_all`: those may fail in every sync, and are not counted. Two failing reads in a row (of dir_lookup and of dir_add's own look) would put a name twice into a directory: that is
beyond its one fault. Two threads suffice for the interleavings of two critical sections; the
theorems of section 6 hold for any number. Symmetry is used for owners, callers, threads and names of one size, where no property
is a liveness property (`LookupTruthful` and the refinement `ActsOnceAsNamed` treat them alike).

`CHECK_DEADLOCK FALSE` is given where the system may stop: bounds used up, a mount that the superblock
refuses, a full directory. The runs `cache`, `inodecache` and `filesystem` check deadlock: in the last, only a state
in which all requests have ended may stop (`Finished`), so nobody waits for ever for an inode's lock.

## 5. Fairness

Only threads that are inside an operation are obliged to move: the kernel
schedules them, and a mutex that is free is given to one that waits. Nobody has to call an
operation, and no fault or crash ever has to happen. `Journal` has weak fairness of each thread's
`Commit` and `Checkpoint` steps. In `BufferCache` it is strong: the cache mutex may be
taken again and again by another thread, so a waiting one is enabled infinitely often but not for ever, and glibc's mutex
does not withhold it for ever. `OperationsReturn` in both says that no loop runs for ever
(checkpoint's scan ends only when it meets `tail` exactly, mod.rs:306), that failing calls give locks
back, and that no two threads wait for each other. `Context` has one weak fairness, of the checkpoint thread's steps, its
wake-up by the 30 s timeout included (time passes), and the main thread's steps of unmount together: while one of the two can move, one of them does (two threads that
run; each is finite apart from the other). No fairness makes a request
return or unmount begin. `UnmountEnds` then says that the signal which the thread may miss costs the timeout, and no more.

## 6. Proofs

Checked by TLAPS for every value of the constants that satisfies the named assumption of the module (which every run
evaluates). Each theorem follows from an invariant that is inductive, and TLC checked those invariants on small instances
before they were proved.

**Journal.**
- `JournalProofs!TypeCorrect`, `TypeOK`. Invariant `TypeInv`: `TypeOK` with `Ready`,
  which ties program counters to locals (a thread that writes a block has
  one left to write; one that applies has read one). Without it `txn[t][done[t] + 1]` may not exist.
- `JournalProofs!SlotsNeverShared`, `SlotsExclusive`. Invariant `SlotInv`
  adds that nothing runs while the journal is not mounted, and that unless `mixed` was crossed no commit runs beside a checkpoint (so the step
  that moves `head` frees no held slot). The main lemma, `AllocLive`, says what an
  allocation does to the live window at the wrap. Every other step of a commit only *lets go* of slots
  (`Lets`), which makes most cases one lemma.
- `JournalProofs!WindowsPaired`, `PairedWindows`. Invariant `RingInv`: as long as commits run alone, each of the windows that the disk, the media and memory
  know is a row of pairs of header and data and of commit records (`Ring`), and behind it is what the running commit has written so far.
- `JournalProofs!CrashesAreConsistent`, `CheckpointsAreExact`, `JournalIsAtomic` (the refinement of `AtomicStore`), from
  `JournalInv`. Its parts: the ring is safe, the ghosts are contents (`StoresKnown`), one operation runs at a time unless a
  limit was crossed (`Lone`), recovery's lists are empty outside of recovery (`Emptied`), and `ContentInv`: within the limits there is a store
  `g` that the journal holds at this moment (`Content(g)`): what the windows log (`Shows`, `Logs`), what is home already (`Held`), what a
  replay has still to do (`Replaying`), and how much of it is on the media (`Flushed`). What the readers' recursion over a window computes is proved
  once, for a window that is well paired, with `Iteration` (below). The step simulation of the refinement reads the two stores off the same invariant.
- `JournalProofs!CutsKeepAcknowledged`, `CutKeepsAcknowledged`, from `FreshInv` beside it. A cut that tears the running commit leaves the superblock of that commit on the media without
  all of its blocks, so what recovery finds there depends on what was in the ring before. Until the first crash, that is known: the ring behind what the running commit has reached (`Reach`) is zero on
  disk and media (`Zeroed`), a slot of the media is the disk's or zero, and while a commit syncs its superblock (`Tearing`) the window up to its own blocks is on the media and what follows
  holds headers for its own targets only. `ScanTorn` says what recovery reads of such a window: a zero block ends it, and what it applies beyond the whole transactions goes to the running commit's targets.

**Block and extent allocator.**
- `BlocksProofs!CountsAgree`, `BlocksNeverShared`, `UnmountKeepsBitmap`, from `BInv`: ownership, the count
  as a cardinality, and `SyncState`, which says which bitmap blocks on the device already agree with memory while
  a sync is under way. `TypeCorrect` follows from the same invariant.
- `SpaceProofs!CountersAlwaysAgree`, `ExtentsStayExclusive`: their conjunction with the types they contain is inductive. The counters wrap at
  `Word`, which the assumption puts above `Total`, as the code's 32-bit sizes do; so no wrap is seen.
- `BlocksProofs!SearchLowest`, `SpaceProofs!SearchFindsFirstFit`, `EveryRunCounted`: the search loops return the first fit and the
  scan counts every run. The loops are recursive functions. The library's
  induction theorems take an operator, which the provers cannot instantiate; `Iteration` proves induction for *sets* from well-foundedness: a set of naturals that has 0 and
  with a number its successor has them all (`SetInduction`, `BoundedInduction`), and a function given by its steps exists (`IterationExists`), so that
  the equation of the recursive function may be used.

**Blocks of files** (`FileBlocks`), for any number of files, blocks, direct entries and entries of a table, from any ranges and sizes.
`BlocksProofs!BlocksArePartitioned`, `BlocksAreCounted`, `FilesReadBack`, from `IInv`, which is `TypeInv`, `OpInv` (how far a write is) and, within the limits, `CleanInv`:
- A *slot* is what can point to a block: an entry of the inode for a table, an entry of the double indirect block, or the way to an index. `Parted`: no two slots of any inodes hold the same
  block, none holds a free one, and each block that is not free is in one; slots at indices behind the end (of the file, or of the range that is being written: `Ends`) do not
  count, as a truncate leaves their numbers. `Counts`: `disk.blocks` is the number of blocks in the slots. The property speaks of files between calls only; the invariant must hold after each iteration of a write.
- `Behind`: an index behind the end holds a number only if a truncate cut it off (`residue`), which is why a file that grows over none keeps `Parted`.
- `Shown`: each position shows its word of `content`, but where a regular file's write is under way on a block that was a hole. `Logged`: the transaction of a write holds what it has made of each block
  it passed; the end of the write applies it, and only with `Logged` do the files read back.
- The allocating walk is proved step by step: a step that finds a hole, takes a block and zeroes it if it is a table adds one pointer (`Grows`), whichever the level, and one
  pointer more to a block that was free keeps `Parted` and `Counts` (`PartedGrows`, `OwnGrows`). `Good` says what holds between the steps; `BmapClean` puts them together. The free and the truncate are
  the opposite (`PartedDrops`). Each action has a lemma for its types (`...Type`) and one for the rest (`...Clean`).

The allocator's proofs and these share the module `BlocksProofs`: two views of the same blocks, that of who gives and that of who uses them.

**Directories** (`Directory`), for any names, sizes of names and of blocks, and any number of readers. `SpaceProofs!RecordsTile`, `NamesAreFaithful`, `LookupsAreTruthful`,
from `DirInv`: `Sane` (types, no record begins behind the last block, a lookup may always answer what its name stands for now) and, within the limits, a set `T` of the places of the records for which:
- `Lies`: the records of `T` tile each block of the directory, and each was written, as a whole `dirent_t`, inside its block. In the middle of a
  split the second record counts as written (`Eff`), although its place still shows what was there before (`Half`).
- `Fits` and `Lists`: a live record has room for its name and holds it; the live records are the names that were added and not removed, with their inode numbers.
- `Ahead`: a lookup that may not answer "no such name" has the record of its name in a block it has not yet read.

`T` is said by a quantifier and not read off the blocks, because what a walk meets in the middle of a split is not the tiling. That the walk meets exactly `T` is proved once, for blocks that are tiled
(`QuietBlock`), with `Iteration`. Each operation then has a lemma for the types (`...Sane`) and one which gives the `T` after it (`...Good`): a split adds a place, a merge removes one, an append adds
the first of a block. `ExtentAlloc` and `Directory` share the module `SpaceProofs`: both hand out runs of a row of units.

**Buffer cache.** `BufferCacheProofs!ReadsAreCoherent`, `SyncsAreDurable`. `CacheInv` is `BasicInv`, which always holds (types, locals, who has the mutex), and,
as long as no limit was crossed, `StrictInv`: beside a write or a checkpoint of
a block there is no other operation on it (`Alone`); at each of its steps its buffer and the device hold what that step has left there (`Locals`); and of a block on which no
write is half-way, a valid buffer holds the latest version, and the device does unless the buffer is dirty (`Settled`, `Whole`).

**Inode cache.** `InodeCacheProofs`, for any number of threads, inodes, pool entries and chains:
- `ReferencesExact` from `RefInv`: an entry is in the hands of as many operations as its count says, and a victim (`Alone`) of one. A step is of one of four kinds (`Keeps`,
  `Takes`, `Claims`, `GivesBack`): that every step is of some kind is one lemma, and each kind keeps the invariant by a lemma of its own. The next proofs are laid out likewise.
- `OneEntryPerInode` from `ChainInv`: as long as no recycled entry was left in its chain, there are a set of hashed entries and a rank of each
  (`Shape`): along a chain the rank falls, so that a chain ends and meets exactly the hashed entries of its bucket, and no two of those have one number. That a walk of as many steps as there
  are entries sees the whole chain is the pigeonhole principle. `PushLinked` and `RemoveLinked` say what `Claim` does to the pointers.
- `ChangesAreKept` from `ContentInv`: an inode whose latest contents are not in the table has a valid, dirty entry, and what is loaded is the latest (`Owed`), because
  nobody takes away the entry that a thread uses or writes (`Readies`).
- `InodesAlwaysAccounted` from `BitInv`: how far an alloc or a free is with its bit (`Phase`) says which bits are set besides those of named inodes (`BitSets`),
  by which bits the bitmap on disk lags behind (`Trails`), and by how much `free_inodes` does (`Balanced`: the cardinalities of two sets of threads).

**The life of an image** (`Context`).
- `ContextProofs!ImagesAreWhole`, for every size from 1 to 16384 MB where the run takes those around which the layout changes. `MkfsInv`: the areas that mkfs has written end within the device, and one that
  it refused does not. The layout has all the difficulty (`BitmapHolds`): `superblock_init` sizes the data bitmap from what is left before the journal and the tables are taken off, and once again
  from what that leaves, and the second size may be one block smaller, which makes the data one block larger than the bitmap was sized for. It would outgrow it only if what was left were a multiple
  of 32768 exactly; sizes of 128m + 9 and 128m + 10 MB come near, but there bitmap and inode table take 5m + 2 blocks, which would have to be 254 or 510.
- `ContextProofs!DestroyedNeverUsed`, from `LifeInv`: the place of the main thread says which objects
  there are, a request is under way only while it serves, and the checkpoint thread has work only while it serves or joins. The one step on
  which all rests is `Join`: unmount leaves it only when the thread has exited.
- `RefsAreCovered`, `DataStaysInPlace`, `FsyncsAreKept`, `UnmountsKeepAll`, from `ImageInv`, which follows the inode table and the data bitmap through
  memory, cache and disk. In memory (`MemInv`): a request works on a file of its own (`Held`); a file's block is in use and its own unless its removal has just freed it (`MemOwned`), and has its data
  unless its request has still to commit them (`MemInPlace`). In the cache and on the disk (`DiskInv`): what is not dirty is on the disk and `risk` names what a crash would tear or lose (`Clean`);
  after a sync's look at the inodes, each cached one agrees with memory but for those it missed (`Looked`), so that, if it missed none, the bitmap it copies next covers what it is going to flush (`Copied`), and so the disk is covered at every moment
  at which a crash crosses no limit (`DiskSound`); `Closing` and `AtRest` are unmount's last steps and what is between two mounts. What is promised (`PromiseInv`): nobody is at work on the file, and memory, cache and disk
  agree on it but for an inode that was missed and is owed (`Kept`, `Owed`), for which `risk` holds `unsynced` until a flush follows a sync that missed none.
  Proving `DataInPlace` showed that the limit `reused` was drawn too narrowly: with six requests, which the run does not reach, a file is removed and given its old block again after another
  file has used it, and a crash then finds the old table entry before the new data. `Early` and `Reused` now say what is on the disk at the crash, and a flush before a commit crosses no limit by itself.

**Names** (`FileSystem`, `Namespace`), for any number of threads, inodes, names and requests, from any sound tree.
- `FileSystemProofs!TreeIsSound` from `ImageInv`: the types, what each place of a request says of its locals (`CallInv`), what the kernel has opened (`KernelInv`), and, while no limit was crossed,
  what the directories are (`TreeInv`) and what each request still has to do to them (`PlaceInv`). `TreeInv` has the parts `Shallow` (a directory is the root or in it, as paths have one or two names), `OneName` and `Named` (an
  inode in use has an entry, and one only), `NoneLost` (but the one that a request has made and not yet named, or unnamed and not yet freed), `Counted` (link counts) and `HandsApart` (no two
  requests have the same such inode). Each action has a lemma; those which change nothing of the tree share one (`QuietStep`).
- `HandlesAreKept`: between the open and the release of a file nothing removes or renames it, because the kernel hides an open file.
- `Implements`, the refinement of `Namespace`: every step of a request is a step of `Namespace` at its one moment or a stutter, under the mapping that reads the tree off the directories (`At`). The moment is
  the directory's change, or the last look for a request that changes nothing or is refused. What the walk read stays true until then only because libfuse holds
  a path's locks for the whole request (`Apart`): the proof uses these, and never the inode locks that `create` and `unlink` take.
- What is assumed (`FileSystemAssumption`): paths of one or two names, and that the image mounted is sound.

**Model-checked only.** Liveness (`OperationsReturn`, `UnmountEnds`) and whatever else needs fairness, which TLAPS does not reach.

## 7. Findings

Places where the code and what the repository says of it disagree, each shown by a run
that TLC ends with a counterexample:

1. `fileblocks_regrown`: truncate frees blocks whose numbers it leaves in the inode; the
   next write uses them beside their new owner (inode.c:770 against inode.c:765).

The table of section 3 names the other places where the code goes wrong beyond its limits; the properties are stated up to there.

## 8. What is left out

- Offsets from 2^44 on: `inode_bmap` narrows `offset / BLOCK_SIZE` to 32 bits (inode.c:518), so such an offset means a low block
  of the file. `FileBlocks` has the offsets below, which the indices it is given stay under.
- Statistics, reference counts that decide nothing, logging, `evict_lru_buffer` (no caller).
- The fsync of the block device and power cuts in `BufferCache`: the device there is
  what the kernel holds.
- `path_normalize`, "." and "..", and names over 255 bytes, which `path_basename` cuts: string handling.
- Read-only mounts, which skip recovery and the checkpoint thread; a daemon started without `-f`, whose fork
  after mount leaves the checkpoint thread behind in the parent.
- Images that a failed mkfs left half-written: `Context` mounts those that mkfs reported as made.
- The inode bitmap in `Context` (it is `InodeCache`'s), and statfs, which only reads counters.
- Argument parsing, the offline tools (sequential, mostly reporting) and an unused Rust struct.

## 9. Plan

Done: all components with state that changes, with their composition over the disk (`Context`) and over names (`FileSystem`), and
the proofs of section 6, which cover every safety property that the passing runs check, and the two refinements.

Next, where the repository changes: a limit of section 3 that the code comes to enforce leaves its table, its ghost and the
properties that allow for it. First in that order would be `unsynced` (a result that `inode_sync_all` drops), `wrap` and `regrown`, which are a few lines each.
