---------------------------- MODULE BufferCache ----------------------------
(***************************************************************************)
(* The block cache of src/buffer_cache.c and the block device on top of it *)
(* (src/block_dev.c), with the other writer of the device: the checkpoint  *)
(* of the journal writes home blocks with its own file descriptor and then *)
(* invalidates them here.  One action per critical section of cache_lock   *)
(* or of a buffer's rwlock and one per device call; buffers are never      *)
(* evicted (evict_lru_buffer is unused), so a pointer that a lookup        *)
(* returned stays good.  Every write carries a new version, its place in   *)
(* the order in which writes began.  The device is what the kernel holds:  *)
(* a crash kills the process.  Reference counts and statistics are left    *)
(* out: nothing depends on them.                                           *)
(***************************************************************************)
EXTENDS Integers, FiniteSets

CONSTANTS
  Threads,
  Nobody,      \* no holder of cache_lock
  Blocks,
  NoBlock,     \* what a thread outside every operation works on
  Capacity,    \* max_buffers
  MaxWrites,   \* bound: writes and applied blocks in a behaviour
  MaxFaults,   \* bound: failing device calls
  MaxCrashes   \* bound: crashes

ASSUME CacheAssumption ==
  /\ Nobody \notin Threads /\ NoBlock \notin Blocks
  /\ IsFiniteSet(Blocks) /\ Blocks # {}
  /\ Capacity \in Nat /\ MaxWrites \in Nat /\ MaxFaults \in Nat /\ MaxCrashes \in Nat

VARIABLES
  cached,    \* the blocks that have a buffer
  valid,     \* those whose buffer is valid
  dirty,     \* those whose buffer is dirty
  data,      \* the version in each buffer
  disk,      \* the version of each block on the device
  lock,      \* the thread that holds cache_lock across steps: a sync
  visited,   \* the buffers it has gone past
  pc,        \* where each thread is
  on,        \* the block it works on
  val,       \* the version it writes, or has read
  latest,    \* ghost: the version each block was last given by a write that returned
  owed,      \* ghost: what latest was when the running sync began
  synced,    \* ghost: what the last sync that returned success owes
  crossed,   \* ghost: the limits this behaviour has crossed
  used       \* ghost: what the bounds count

bufferVars == <<cached, valid, dirty, data>>
syncVars   == <<lock, visited, owed, synced>>
threadVars == <<pc, on, val>>
vars == <<cached, valid, dirty, data, disk, lock, visited, pc, on, val,
          latest, owed, synced, crossed, used>>

Versions == 0 .. MaxWrites

ReadPcs  == {"rd", "rdHit", "rdMiss", "reload", "refill", "insert"}
WritePcs == {"wr", "wrHit", "wrMiss", "mark", "direct"}
ApplyPcs == {"apply", "inval"}
SyncPcs  == {"visit", "clear"}
Pcs      == {"idle"} \cup ReadPcs \cup WritePcs \cup ApplyPcs \cup SyncPcs

----------------------------------------------------------------------------
Goto(t, p)   == pc' = [pc EXCEPT ![t] = p]
LockFree     == lock = Nobody
Changing(u)  == pc[u] \in WritePcs \cup ApplyPcs
OnBlock(u, b) == on[u] = b /\ pc[u] \in ReadPcs \cup WritePcs \cup ApplyPcs
Quiet(b)     == \A u \in Threads : ~OnBlock(u, b)

Cross(limits) == crossed' = crossed \cup limits
Use(b, limit) == used[b] < limit /\ used' = [used EXCEPT ![b] = @ + 1]

\* two operations on one block, not both of them reads
Overlap(t, b, p) ==
  IF \E u \in Threads \ {t} : OnBlock(u, b) /\ (Changing(u) \/ p # "rd") THEN {"overlap"} ELSE {}

\* blkdev_read, blkdev_write or a block of a checkpoint is called
Begin(t, b, p) ==
  /\ pc[t] = "idle"
  /\ Goto(t, p)
  /\ on' = [on EXCEPT ![t] = b]
  /\ IF p = "rd" THEN UNCHANGED <<val, used>>
     ELSE Use("writes", MaxWrites) /\ val' = [val EXCEPT ![t] = used["writes"] + 1]
  /\ Cross(Overlap(t, b, p))
  /\ UNCHANGED <<bufferVars, disk, syncVars, latest>>

\* an operation returns, with what it had in its locals gone
Done(t) ==
  /\ Goto(t, "idle")
  /\ on' = [on EXCEPT ![t] = NoBlock]
  /\ val' = [val EXCEPT ![t] = 0]

\* it succeeded: a write is the latest of its block
Return(t) ==
  /\ Done(t)
  /\ latest' = IF Changing(t) THEN [latest EXCEPT ![on[t]] = val[t]] ELSE latest

\* buffer_cache_lookup
Lookup(t, from, hit, miss) ==
  /\ pc[t] = from /\ LockFree
  /\ Goto(t, IF on[t] \in cached THEN hit ELSE miss)
  /\ UNCHANGED <<bufferVars, disk, syncVars, on, val, latest, crossed, used>>

Fill(t) ==
  /\ data' = [data EXCEPT ![on[t]] = val[t]]
  /\ valid' = valid \cup {on[t]}

Room == Cardinality(cached) < Capacity

\* buffer_cache_insert that finds the block or has room for it; a block that
\* is there already is overwritten
Insert(t) ==
  /\ on[t] \in cached \/ Room
  /\ Fill(t)
  /\ cached' = cached \cup {on[t]}
  /\ UNCHANGED dirty

----------------------------------------------------------------------------
(* blkdev_read.                                                            *)

ReadLookup(t) == Lookup(t, "rd", "rdHit", "rdMiss")

ReadValid(t) ==
  /\ pc[t] = "rdHit" /\ on[t] \in valid
  /\ Return(t)
  /\ UNCHANGED <<bufferVars, disk, syncVars, crossed, used>>

ReadInvalid(t) ==
  /\ pc[t] = "rdHit" /\ on[t] \notin valid
  /\ Goto(t, "reload")
  /\ UNCHANGED <<bufferVars, disk, syncVars, on, val, latest, crossed, used>>

\* pread
ReadDevice(t) ==
  /\ pc[t] \in {"reload", "rdMiss"}
  /\ val' = [val EXCEPT ![t] = disk[on[t]]]
  /\ Goto(t, IF pc[t] = "reload" THEN "refill" ELSE "insert")
  /\ UNCHANGED <<bufferVars, disk, syncVars, on, latest, crossed, used>>

Refill(t) ==
  /\ pc[t] = "refill"
  /\ Fill(t)
  /\ Return(t)
  /\ UNCHANGED <<cached, dirty, disk, syncVars, crossed, used>>

\* a full cache keeps no copy
ReadInsert(t) ==
  /\ pc[t] = "insert" /\ LockFree
  /\ \/ Insert(t)
     \/ on[t] \notin cached /\ ~Room /\ UNCHANGED bufferVars
  /\ Return(t)
  /\ UNCHANGED <<disk, syncVars, crossed, used>>

----------------------------------------------------------------------------
(* blkdev_write.                                                           *)

WriteLookup(t) == Lookup(t, "wr", "wrHit", "wrMiss")

\* slip: the buffer is not marked
WriteHitClean(t) ==
  /\ pc[t] = "wrHit"
  /\ data' = [data EXCEPT ![on[t]] = val[t]]
  /\ Return(t)
  /\ Cross((IF on[t] \notin valid THEN {"revive"} ELSE {})
           \cup (IF \E u \in Threads : pc[u] = "clear" /\ on[u] = on[t] THEN {"syncRace"} ELSE {}))
  /\ UNCHANGED <<cached, valid, dirty, disk, syncVars, used>>

\* the buffer is overwritten and marked; it does not become valid again
WriteHit(t) ==
  /\ pc[t] = "wrHit"
  /\ data' = [data EXCEPT ![on[t]] = val[t]]
  /\ dirty' = dirty \cup {on[t]}
  /\ Return(t)
  /\ Cross((IF on[t] \notin valid THEN {"revive"} ELSE {})
           \cup (IF \E u \in Threads : pc[u] = "clear" /\ on[u] = on[t] THEN {"syncRace"} ELSE {}))
  /\ UNCHANGED <<cached, valid, disk, syncVars, used>>

WriteInsert(t) ==
  /\ pc[t] = "wrMiss" /\ LockFree
  /\ \/ Insert(t) /\ Goto(t, "mark")
     \/ on[t] \notin cached /\ ~Room /\ Goto(t, "direct") /\ UNCHANGED bufferVars
  /\ UNCHANGED <<disk, syncVars, on, val, latest, crossed, used>>

\* buffer_head_mark_dirty, outside every lock
WriteMark(t) ==
  /\ pc[t] = "mark"
  /\ dirty' = dirty \cup {on[t]}
  /\ Return(t)
  /\ UNCHANGED <<cached, valid, data, disk, syncVars, crossed, used>>

\* the cache is full: pwrite
WriteDirect(t) ==
  /\ pc[t] = "direct"
  /\ disk' = [disk EXCEPT ![on[t]] = val[t]]
  /\ Return(t)
  /\ UNCHANGED <<bufferVars, syncVars, crossed, used>>

----------------------------------------------------------------------------
(* JournalManager::checkpoint, for one block: the device, then the cache.  *)

ApplyDevice(t) ==
  /\ pc[t] = "apply"
  /\ disk' = [disk EXCEPT ![on[t]] = val[t]]
  /\ Goto(t, "inval")
  /\ UNCHANGED <<bufferVars, syncVars, on, val, latest, crossed, used>>

\* slip: the checkpoint does not invalidate
ApplyForgets(t) ==
  /\ pc[t] = "inval" /\ LockFree
  /\ Return(t)
  /\ UNCHANGED <<bufferVars, disk, syncVars, crossed, used>>

\* buffer_cache_invalidate
ApplyInvalidate(t) ==
  /\ pc[t] = "inval" /\ LockFree
  /\ valid' = valid \ {on[t]} /\ dirty' = dirty \ {on[t]}
  /\ Return(t)
  /\ UNCHANGED <<cached, data, disk, syncVars, crossed, used>>

----------------------------------------------------------------------------
(* blkdev_sync: cache_lock is held from the first buffer to the last.      *)

SyncBegin(t) ==
  /\ pc[t] = "idle" /\ LockFree
  /\ Goto(t, "visit")
  /\ lock' = t /\ visited' = {} /\ owed' = latest
  /\ UNCHANGED <<bufferVars, disk, on, val, latest, synced, crossed, used>>

\* pwrite of a dirty buffer
SyncWrite(t, b) ==
  /\ pc[t] = "visit" /\ b \in (cached \ visited) \cap dirty
  /\ disk' = [disk EXCEPT ![b] = data[b]]
  /\ on' = [on EXCEPT ![t] = b]
  /\ Goto(t, "clear")
  /\ Cross(IF \E u \in Threads : pc[u] \in ApplyPcs /\ on[u] = b THEN {"syncRace"} ELSE {})
  /\ UNCHANGED <<bufferVars, syncVars, val, latest, used>>

\* dirty = false, after the buffer's lock was given back
SyncClear(t) ==
  /\ pc[t] = "clear"
  /\ dirty' = dirty \ {on[t]}
  /\ visited' = visited \cup {on[t]}
  /\ on' = [on EXCEPT ![t] = NoBlock]
  /\ Goto(t, "visit")
  /\ UNCHANGED <<cached, valid, data, disk, lock, owed, synced, val, latest, crossed, used>>

SyncSkip(t, b) ==
  /\ pc[t] = "visit" /\ b \in (cached \ visited) \ dirty
  /\ visited' = visited \cup {b}
  /\ UNCHANGED <<bufferVars, disk, lock, owed, synced, threadVars, latest, crossed, used>>

SyncEnd(t) ==
  /\ pc[t] = "visit" /\ visited = cached
  /\ lock' = Nobody /\ visited' = {}
  /\ synced' = owed /\ owed' = [b \in Blocks |-> 0]
  /\ Done(t)
  /\ UNCHANGED <<bufferVars, disk, latest, crossed, used>>

\* slip: the error return leaves cache_lock locked
SyncFaultLocked(t) ==
  /\ pc[t] = "visit" /\ (cached \ visited) \cap dirty # {}
  /\ Use("faults", MaxFaults)
  /\ Done(t)
  /\ UNCHANGED <<bufferVars, disk, syncVars, latest, crossed>>

\* a pwrite fails, or the fsync after the last buffer does: the sync returns an
\* error and the lock is given back
SyncFault(t) ==
  /\ pc[t] = "visit" /\ (visited = cached \/ (cached \ visited) \cap dirty # {})
  /\ Use("faults", MaxFaults)
  /\ lock' = Nobody /\ visited' = {} /\ owed' = [b \in Blocks |-> 0]
  /\ Done(t)
  /\ UNCHANGED <<bufferVars, disk, synced, latest, crossed>>

\* a device call of a read, of a write or of a checkpoint fails
Fault(t) ==
  /\ pc[t] \in {"reload", "rdMiss", "direct", "apply"}
  /\ Use("faults", MaxFaults)
  /\ Done(t)
  /\ UNCHANGED <<bufferVars, disk, syncVars, latest, crossed>>

\* the process dies and starts again with an empty cache
Crash ==
  /\ Use("crashes", MaxCrashes)
  /\ cached' = {} /\ valid' = {} /\ dirty' = {}
  /\ data' = [b \in Blocks |-> 0]
  /\ lock' = Nobody /\ visited' = {} /\ owed' = [b \in Blocks |-> 0]
  /\ pc' = [t \in Threads |-> "idle"]
  /\ on' = [t \in Threads |-> NoBlock] /\ val' = [t \in Threads |-> 0]
  /\ latest' = disk
  /\ UNCHANGED <<disk, synced, crossed>>

----------------------------------------------------------------------------
Init ==
  /\ cached = {} /\ valid = {} /\ dirty = {}
  /\ data = [b \in Blocks |-> 0] /\ disk = [b \in Blocks |-> 0]
  /\ lock = Nobody /\ visited = {}
  /\ pc = [t \in Threads |-> "idle"]
  /\ on = [t \in Threads |-> NoBlock] /\ val = [t \in Threads |-> 0]
  /\ latest = disk /\ owed = disk /\ synced = disk
  /\ crossed = {}
  /\ used = [b \in {"writes", "faults", "crashes"} |-> 0]

Calls(t) == (\E b \in Blocks, p \in {"rd", "wr", "apply"} : Begin(t, b, p)) \/ SyncBegin(t)

Read(t)  == ReadLookup(t) \/ ReadValid(t) \/ ReadInvalid(t) \/ ReadDevice(t) \/ Refill(t)
            \/ ReadInsert(t)
Write(t) == WriteLookup(t) \/ WriteHit(t) \/ WriteInsert(t) \/ WriteMark(t) \/ WriteDirect(t)
Apply(t) == ApplyDevice(t) \/ ApplyInvalidate(t)
Sync(t)  == (\E b \in Blocks : SyncWrite(t, b) \/ SyncSkip(t, b)) \/ SyncClear(t) \/ SyncEnd(t)
Faults(t) == SyncFault(t) \/ Fault(t)

Next ==
  \/ \E t \in Threads : Calls(t) \/ Read(t) \/ Write(t) \/ Apply(t) \/ Sync(t) \/ Faults(t)
  \/ Crash

Spec == Init /\ [][Next]_vars

\* the scheduler runs every thread that is inside an operation, and a mutex is
\* not withheld for ever from one that waits for it
Fairness == \A t \in Threads : SF_vars(Read(t) \/ Write(t) \/ Apply(t) \/ Sync(t))
FairSpec == Spec /\ Fairness

----------------------------------------------------------------------------
(* Properties.  The code does not enforce the limits under which the cache *)
(* is coherent; "crossed" names those a behaviour has gone beyond:         *)
(*   overlap   two operations on one block, not both reads, ran at once    *)
(*             (an inode's lock excludes it for the blocks of a file, and  *)
(*             nothing does for the shared blocks of the inode table)      *)
(*   revive    a write hit a buffer that a checkpoint had invalidated      *)
(*   syncRace  a write hit a buffer between a sync's pwrite and its        *)
(*             clearing of the dirty mark, or a sync wrote a buffer that a *)
(*             checkpoint was about to invalidate                          *)

Limits == {"overlap", "revive", "syncRace"}

TypeOK ==
  /\ cached \subseteq Blocks /\ valid \subseteq cached /\ dirty \subseteq cached
  /\ Cardinality(cached) <= Capacity
  /\ data \in [Blocks -> Versions] /\ disk \in [Blocks -> Versions]
  /\ lock \in Threads \cup {Nobody} /\ visited \subseteq cached
  /\ pc \in [Threads -> Pcs] /\ on \in [Threads -> Blocks \cup {NoBlock}] /\ val \in [Threads -> Versions]
  /\ latest \in [Blocks -> Versions] /\ owed \in [Blocks -> Versions]
  /\ synced \in [Blocks -> Versions]
  /\ crossed \subseteq Limits

\* what a read that starts now would return
Visible(b) == IF b \in valid THEN data[b] ELSE disk[b]

\* Within the limits, whenever no operation is under way on a block, a read
\* returns its latest write, be it in the cache, past a full cache or on the
\* device behind the cache's back (the checkpoint's), also while a sync runs.
\* The cache never has more than its buffers (TypeOK).
Coherent ==
  /\ TypeOK
  /\ crossed = {} => \A b \in Blocks : Quiet(b) => Visible(b) = latest[b]

\* Within the limits, what a sync that returned success has promised stays on
\* the device: no later sync, checkpoint or crash brings an older version back.
SyncDurable ==
  crossed = {} => \A b \in Blocks : disk[b] >= synced[b]

\* Every operation returns: the failing ones give cache_lock back.
OperationsReturn == \A t \in Threads : pc[t] # "idle" ~> pc[t] = "idle"

=============================================================================
