------------------------------ MODULE Context ------------------------------
(***************************************************************************)
(* The life of an image: mkfs, mount, FUSE requests beside the checkpoint  *)
(* thread, fsync, unmount, crashes and the next mount (fs_context.c).      *)
(*                                                                         *)
(* What the other modules keep is kept here in outline.  The data bitmap   *)
(* is in four places: in the block allocator, in its cached block, on the  *)
(* disk, and in the extent allocator, which reads it at mount and writes   *)
(* its copy past the cache; nothing allocates from that.  The inode table  *)
(* is in the inodes in memory, in its cached block and on the disk; an     *)
(* inode is dirty while memory and cached block differ.  A file has one    *)
(* block at most; its data goes through the log.  A crash kills the        *)
(* process: the disk is what the kernel holds.                             *)
(***************************************************************************)
EXTENDS Mkfs, FiniteSets

CONSTANTS
  Threads,      \* of FUSE
  Main, Timer,  \* the thread of mount and unmount, the checkpoint thread
  Files, NONE,
  Blocks,       \* data blocks that files can have
  Mounted,      \* bound: the sizes of the images that are mounted
  MaxOps,       \* bound: requests in a behaviour
  MaxTimeouts,  \* bound: wakings of the checkpoint thread before unmount
  MaxCrashes    \* bound: crashes

Actors == Threads \cup {Main, Timer}

ASSUME ContextAssumption ==
  /\ Main \notin Threads /\ Timer \notin Threads \cup {Main} /\ NONE \notin Files \cup Blocks
  /\ Blocks \subseteq Nat /\ IsFiniteSet(Blocks) /\ IsFiniteSet(Files)
  /\ Mounted \subseteq Sizes
  /\ MaxOps \in Nat /\ MaxTimeouts \in Nat /\ MaxCrashes \in Nat

VARIABLES
  bits,      \* the allocated blocks: mem, cache, disk, copy
  table,     \* the block of each file: mem, cache, disk
  dirty,     \* the dirty ones of the two cached blocks
  log, home, \* committed data not yet in place; the file whose data a block holds
  at,        \* where the file offset is that journal and extent allocator share
  alive,     \* the objects of the context
  running,   \* checkpoint_running
  expired,   \* the wait of the checkpoint thread ended with ETIMEDOUT
  pc, file,  \* per thread: where it is, the file it works on
  covered,   \* ghost: per thread, the files that its sync owes
  promised,  \* ghost: the block of a file that a sync has covered
  missed,    \* ghost: inodes that a sync passed over, as nobody hears of their failing inode_sync
  risk,      \* ghost: limits that are crossed if a crash comes now
  crossed,   \* ghost: limits left behind
  used       \* what the bounds count

stateVars == <<bits, table, dirty, log, home>>
lifeVars  == <<alive, running, expired>>
ghostVars == <<covered, promised, missed, risk, crossed>>
vars == <<mkfsVars, stateVars, at, lifeVars, pc, file, ghostVars, used>>

\* the limits behind which an image is not followed to its next mount; they
\* and the others are told below
Damage == {"stale", "torn", "moved", "offset", "unsynced", "unflushed"}

Objects == {"device", "balloc", "icache", "journal", "extent"}

Goto(t, p) == pc' = [pc EXCEPT ![t] = p]
Use(b, limit) == used[b] < limit /\ used' = [used EXCEPT ![b] = @ + 1]
Fault == faults < MaxFaults /\ faults' = faults + 1 /\ UNCHANGED <<size, regions, result>>
Cross(limits) == crossed' = crossed \cup limits
Within(limits) == crossed \cap limits = {}
Lowest(S) == CHOOSE b \in S : \A c \in S : b <= c

Up == pc[Main] = "serve"

\* buffer_cache_sync holds the lock of the cache from end to end
CacheFree == \A u \in Actors : pc[u] # "flushing"
\* the locks of the inodes
FileFree(f) == \A u \in Threads : file[u] # f

\* what the log puts in place
Applied == [b \in Blocks |-> IF \E f \in Files : <<b, f>> \in log
                             THEN CHOOSE f \in Files : <<b, f>> \in log ELSE home[b]]

----------------------------------------------------------------------------
(* Mount: fs_context_init.                                                 *)

\* block device, superblock, block allocator, inode cache
MountLoad ==
  /\ pc[Main] = "down" /\ result = "formatted" /\ size \in Mounted /\ Within(Damage)
  /\ bits'  = [bits EXCEPT !["mem"] = bits["disk"], !["cache"] = bits["disk"]]
  /\ table' = [table EXCEPT !["mem"] = table["disk"], !["cache"] = table["disk"]]
  /\ dirty' = {}
  /\ alive' = {"device", "balloc", "icache"}
  /\ Goto(Main, "recover")
  /\ UNCHANGED <<mkfsVars, log, home, at, running, expired, file, ghostVars, used>>

MountRecover ==
  /\ pc[Main] = "recover"
  /\ home' = Applied /\ log' = {}
  /\ alive' = alive \cup {"journal"}
  /\ Goto(Main, "extent")
  /\ UNCHANGED <<mkfsVars, bits, table, dirty, at, running, expired, file, ghostVars, used>>

\* the extent allocator reads the bitmap; the checkpoint thread is created
MountStart ==
  /\ pc[Main] = "extent"
  /\ bits' = [bits EXCEPT !["copy"] = bits["disk"]]
  /\ alive' = alive \cup {"extent"}
  /\ running' = TRUE
  /\ pc' = [pc EXCEPT ![Main] = "serve", ![Timer] = "start"]
  /\ UNCHANGED <<mkfsVars, table, dirty, log, home, at, expired, file, ghostVars, used>>

\* a failing step takes down what was made before it
MountFails ==
  /\ pc[Main] \in {"recover", "extent"} /\ Fault
  /\ alive' = {}
  /\ Goto(Main, "down")
  /\ UNCHANGED <<stateVars, at, running, expired, file, ghostVars, used>>

----------------------------------------------------------------------------
(* FUSE requests.  A request on f ends what a sync promised for it.        *)

Request(t, f) ==
  /\ Up /\ pc[t] = "idle" /\ FileFree(f)
  /\ Use("ops", MaxOps)
  /\ file' = [file EXCEPT ![t] = f]
  /\ promised' = [promised EXCEPT ![f] = NONE]
  /\ covered' = [u \in Actors |-> covered[u] \ {f}]
  /\ UNCHANGED <<mkfsVars, stateVars, at, lifeVars, missed, risk, crossed>>

Return(t) == Goto(t, "idle") /\ file' = [file EXCEPT ![t] = NONE]

\* modernfs_write to a file that has no block yet
WriteBegin(t, f) == table["mem"][f] = NONE /\ Request(t, f) /\ Goto(t, "alloc")

\* block_alloc; ENOSPC when there is none
Alloc(t) ==
  /\ pc[t] = "alloc"
  /\ \E b \in {IF Blocks \subseteq bits["mem"] THEN NONE ELSE Lowest(Blocks \ bits["mem"])} :
       IF b = NONE THEN Return(t) /\ UNCHANGED <<bits, table>>
       ELSE /\ bits'  = [bits EXCEPT !["mem"] = @ \cup {b}]
            /\ table' = [table EXCEPT !["mem"][file[t]] = b]
            /\ Goto(t, "inode") /\ UNCHANGED file
  /\ UNCHANGED <<mkfsVars, dirty, log, home, at, lifeVars, ghostVars, used>>

\* inode_sync: into the cached block of the table, outside of the log; when it
\* fails, the inode stays dirty and the write goes on
InodeSync(t) ==
  /\ pc[t] = "inode" /\ CacheFree
  /\ \/ /\ table' = [table EXCEPT !["cache"][file[t]] = table["mem"][file[t]]]
        /\ dirty' = dirty \cup {"table"} /\ missed' = missed \ {file[t]}
        /\ Cross(IF \E u \in Actors : pc[u] = "flush" THEN {"moved"} ELSE {}) /\ UNCHANGED mkfsVars
     \/ Fault /\ UNCHANGED <<table, dirty, missed, crossed>>
  /\ Goto(t, "commit")
  /\ UNCHANGED <<bits, log, home, at, lifeVars, file, covered, promised, risk, used>>

Commit(t) ==
  /\ pc[t] = "commit"
  /\ log' = {e \in log : e[1] # table["mem"][file[t]]} \cup {<<table["mem"][file[t]], file[t]>>}
  /\ at' = "log"
  /\ Goto(t, "apply")
  /\ UNCHANGED <<mkfsVars, bits, table, dirty, home, lifeVars, file, ghostVars, used>>

\* EIO, with the inode changed and in the cache
CommitFails(t) ==
  /\ pc[t] = "commit" /\ Fault
  /\ Cross({"failed"})
  /\ Return(t)
  /\ UNCHANGED <<stateVars, at, lifeVars, covered, promised, missed, risk, used>>

\* the checkpoint after a write, whose failure is ignored
Apply(t) ==
  /\ pc[t] = "apply"
  /\ \/ home' = Applied /\ log' = {} /\ at' = "log" /\ UNCHANGED mkfsVars
     \/ Fault /\ UNCHANGED <<home, log, at>>
  /\ Return(t)
  /\ UNCHANGED <<bits, table, dirty, lifeVars, ghostVars, used>>

RemoveBegin(t, f) == table["mem"][f] # NONE /\ Request(t, f) /\ Goto(t, "free")

\* unlink: inode_truncate frees the block, then clears the size; nothing is synced
FreeBlock(t) ==
  /\ pc[t] = "free"
  /\ bits' = [bits EXCEPT !["mem"] = @ \ {table["mem"][file[t]]}]
  /\ Cross(IF \E u \in Actors : pc[u] = "bitmap" THEN {"moved"} ELSE {})
  /\ Goto(t, "clear")
  /\ UNCHANGED <<mkfsVars, table, dirty, log, home, at, lifeVars, file, covered, promised, missed, risk, used>>

ClearInode(t) ==
  /\ pc[t] = "clear"
  /\ table' = [table EXCEPT !["mem"][file[t]] = NONE]
  /\ Return(t)
  /\ UNCHANGED <<mkfsVars, bits, dirty, log, home, at, lifeVars, ghostVars, used>>

----------------------------------------------------------------------------
(* fs_context_sync, by fsync and by unmount; its first two calls are also  *)
(* what the checkpoint thread makes.                                       *)

SyncStart(t) ==
  /\ covered' = [covered EXCEPT ![t] = {f \in Files : table["mem"][f] # NONE /\ FileFree(f)}]
  /\ Goto(t, "checkpoint")

FsyncBegin(t) ==
  /\ Up /\ pc[t] = "idle" /\ Use("ops", MaxOps)
  /\ SyncStart(t)
  /\ UNCHANGED <<mkfsVars, stateVars, at, lifeVars, file, promised, missed, risk, crossed>>

\* the sync returns early; unmount goes on
Abandon(t) ==
  /\ Goto(t, CASE t = Main -> "drop" [] t = Timer -> "seek" [] OTHER -> "idle")
  /\ covered' = [covered EXCEPT ![t] = {}]

\* slip: the log is given up with nothing put in place
CheckpointForgets(t) ==
  /\ pc[t] = "checkpoint"
  /\ log' = {} /\ at' = "log"
  /\ Goto(t, "seek")
  /\ UNCHANGED <<mkfsVars, bits, table, dirty, home, lifeVars, file, ghostVars, used>>

Checkpoint(t) ==
  /\ pc[t] = "checkpoint"
  /\ home' = Applied /\ log' = {} /\ at' = "log"
  /\ Goto(t, "seek")
  /\ UNCHANGED <<mkfsVars, bits, table, dirty, lifeVars, file, ghostVars, used>>

CheckpointFails(t) ==
  /\ pc[t] = "checkpoint" /\ Fault
  /\ Abandon(t)
  /\ UNCHANGED <<stateVars, at, lifeVars, file, promised, missed, risk, crossed, used>>

\* sync_bitmap_to_disk, under the extent allocator's own lock on the device
ExtentSeek(t) ==
  /\ pc[t] = "seek" /\ \A u \in Actors : pc[u] # "write"
  /\ at' = "bitmap"
  /\ Goto(t, "write")
  /\ UNCHANGED <<mkfsVars, stateVars, lifeVars, file, ghostVars, used>>

\* the bitmap of the mount goes to the disk, or to where a journal write left the offset
ExtentWrite(t) ==
  /\ pc[t] = "write"
  /\ IF at = "bitmap"
     THEN /\ bits' = [bits EXCEPT !["disk"] = bits["copy"]]
          /\ risk' = risk \cup (IF bits["disk"] # bits["copy"] THEN {"stale"} ELSE {})
          /\ UNCHANGED crossed
     ELSE Cross({"offset"}) /\ UNCHANGED <<bits, risk>>
  /\ at' = "log"
  /\ Goto(t, IF t = Timer THEN "start" ELSE "inodes")
  /\ UNCHANGED <<mkfsVars, table, dirty, log, home, lifeVars, file, covered, promised, missed, used>>

ExtentFails(t) ==
  /\ pc[t] = "write" /\ Fault
  /\ IF t = Timer THEN Goto(t, "start") /\ UNCHANGED covered ELSE Abandon(t)
  /\ UNCHANGED <<stateVars, at, lifeVars, file, promised, missed, risk, crossed, used>>

\* inode_sync_all: it ignores a failing inode_sync, which leaves the inode dirty,
\* and always reports success
SyncInodes(t) ==
  /\ pc[t] \in {"inodes", "icache"} /\ CacheFree
  /\ \E failed \in SUBSET {f \in Files : table["mem"][f] # table["cache"][f]} :
       /\ table' = [table EXCEPT !["cache"] = [f \in Files |-> IF f \in failed THEN @[f] ELSE table["mem"][f]]]
       /\ missed' = failed
       /\ risk' = IF failed = {} THEN risk ELSE risk \cup {"unsynced"}
  /\ dirty' = IF table' = table THEN dirty ELSE dirty \cup {"table"}
  /\ Cross(IF \E u \in Actors : pc[u] \in {"flush", "clear"} THEN {"moved"} ELSE {})
  /\ Goto(t, IF pc[t] = "inodes" THEN "bitmap" ELSE "balloc")
  /\ alive' = IF pc[t] = "icache" THEN alive \ {"icache"} ELSE alive
  /\ UNCHANGED <<mkfsVars, bits, log, home, at, running, expired, file, covered, promised, used>>

\* slip: the cached block of the bitmap is not marked dirty
SyncBitmapClean(t) ==
  /\ pc[t] \in {"bitmap", "balloc"} /\ CacheFree
  /\ bits' = [bits EXCEPT !["cache"] = bits["mem"]]
  /\ Goto(t, IF pc[t] = "bitmap" THEN "flush" ELSE "close")
  /\ alive' = IF pc[t] = "balloc" THEN alive \ {"balloc"} ELSE alive
  /\ UNCHANGED <<mkfsVars, table, dirty, log, home, at, running, expired, file, ghostVars, used>>

\* block_alloc_sync
SyncBitmap(t) ==
  /\ pc[t] \in {"bitmap", "balloc"} /\ CacheFree
  /\ bits' = [bits EXCEPT !["cache"] = bits["mem"]]
  /\ dirty' = dirty \cup {"bitmap"}
  /\ Goto(t, IF pc[t] = "bitmap" THEN "flush" ELSE "close")
  /\ alive' = IF pc[t] = "balloc" THEN alive \ {"balloc"} ELSE alive
  /\ UNCHANGED <<mkfsVars, table, log, home, at, running, expired, file, ghostVars, used>>

\* a failing write of one of the bitmap's blocks, when those before it are
\* written; block_alloc_destroy ignores it
SyncBitmapFails(t) ==
  /\ pc[t] \in {"bitmap", "balloc"} /\ CacheFree /\ Fault
  /\ \E written \in {S \in SUBSET Blocks : \A b \in S : \A c \in Blocks \ S : b < c} :
       /\ bits' = [bits EXCEPT !["cache"] = (@ \ written) \cup (bits["mem"] \cap written)]
       /\ dirty' = IF written = {} THEN dirty ELSE dirty \cup {"bitmap"}
  /\ IF pc[t] = "bitmap" THEN Abandon(t) /\ UNCHANGED <<alive, crossed>>
     ELSE /\ Goto(t, "close") /\ alive' = alive \ {"balloc"} /\ Cross({"unflushed"})
          /\ UNCHANGED covered
  /\ UNCHANGED <<table, log, home, at, running, expired, file, promised, missed, risk, used>>

\* blkdev_sync: the dirty blocks in the order of the LRU list, which is either
FlushBegin(t) ==
  /\ pc[t] = "flush" /\ CacheFree
  /\ Goto(t, "flushing")
  /\ UNCHANGED <<mkfsVars, stateVars, at, lifeVars, file, ghostVars, used>>

Flush(x) ==
  /\ dirty' = dirty \ {x}
  /\ IF x = "bitmap" THEN bits' = [bits EXCEPT !["disk"] = bits["cache"]] /\ UNCHANGED table
     ELSE table' = [table EXCEPT !["disk"] = table["cache"]] /\ UNCHANGED bits
  /\ risk' = (risk \ ({"torn"} \cup IF x = "bitmap" THEN {"stale"}
                                    ELSE IF missed = {} THEN {"unsynced"} ELSE {}))
             \cup (IF dirty = {x} THEN {} ELSE {"torn"})

FlushBlock(t) ==
  /\ pc[t] \in {"flushing", "close"}
  /\ \E x \in dirty : Flush(x)
  /\ UNCHANGED <<mkfsVars, log, home, at, lifeVars, pc, file, covered, promised, missed, crossed, used>>

\* the sync returns success
FlushEnd(t) ==
  /\ pc[t] = "flushing" /\ dirty = {}
  /\ promised' = [f \in Files |-> IF f \in covered[t] THEN table["mem"][f] ELSE promised[f]]
  /\ Abandon(t)
  /\ UNCHANGED <<mkfsVars, stateVars, at, lifeVars, file, missed, risk, crossed, used>>

\* slip: blkdev_sync does not return the failure
FlushFailsUnseen(t) ==
  /\ pc[t] = "flushing" /\ dirty # {} /\ Fault
  /\ promised' = [f \in Files |-> IF f \in covered[t] THEN table["mem"][f] ELSE promised[f]]
  /\ Abandon(t)
  /\ UNCHANGED <<stateVars, at, lifeVars, file, missed, risk, crossed, used>>

FlushFails(t) ==
  /\ pc[t] = "flushing" /\ dirty # {} /\ Fault
  /\ Abandon(t)
  /\ UNCHANGED <<stateVars, at, lifeVars, file, promised, missed, risk, crossed, used>>

----------------------------------------------------------------------------
(* The checkpoint thread.                                                  *)

\* the wait begins without a look at the flag
TimerWait ==
  /\ pc[Timer] = "start"
  /\ Goto(Timer, "wait")
  /\ UNCHANGED <<mkfsVars, stateVars, at, lifeVars, file, ghostVars, used>>

\* 30 s have passed; or a waking without cause
TimerWakes ==
  /\ pc[Timer] = "wait"
  /\ IF running THEN Use("timeouts", MaxTimeouts) ELSE UNCHANGED used
  /\ expired' \in BOOLEAN
  /\ Goto(Timer, "check")
  /\ UNCHANGED <<mkfsVars, stateVars, at, alive, running, file, ghostVars>>

\* slip: the flag is looked at only after a signal
TimerCheckSignalled ==
  /\ pc[Timer] = "check"
  /\ Goto(Timer, IF expired THEN "checkpoint" ELSE IF ~running THEN "exit" ELSE "start")
  /\ expired' = FALSE
  /\ UNCHANGED <<mkfsVars, stateVars, at, alive, running, file, ghostVars, used>>

TimerCheck ==
  /\ pc[Timer] = "check"
  /\ Goto(Timer, IF ~running THEN "exit" ELSE IF expired THEN "checkpoint" ELSE "start")
  /\ expired' = FALSE
  /\ UNCHANGED <<mkfsVars, stateVars, at, alive, running, file, ghostVars, used>>

----------------------------------------------------------------------------
(* Unmount: fs_context_destroy, when no request is left.                   *)

\* the flag and the signal, which is lost on a thread that does not wait
Stop ==
  /\ Up /\ \A t \in Threads : pc[t] = "idle"
  /\ running' = FALSE
  /\ pc' = [pc EXCEPT ![Main] = "join", ![Timer] = IF @ = "wait" THEN "check" ELSE @]
  /\ expired' = IF pc[Timer] = "wait" THEN FALSE ELSE expired
  /\ UNCHANGED <<mkfsVars, stateVars, at, alive, file, ghostVars, used>>

\* slip: the thread is not joined
JoinSkipped ==
  /\ pc[Main] = "join"
  /\ SyncStart(Main)
  /\ UNCHANGED <<mkfsVars, stateVars, at, lifeVars, file, promised, missed, risk, crossed, used>>

Join ==
  /\ pc[Main] = "join" /\ pc[Timer] = "exit"
  /\ SyncStart(Main)
  /\ UNCHANGED <<mkfsVars, stateVars, at, lifeVars, file, promised, missed, risk, crossed, used>>

\* rust_extent_alloc_destroy and rust_journal_destroy write nothing
DropRust ==
  /\ pc[Main] = "drop"
  /\ alive' = alive \ {"extent", "journal"}
  /\ Goto(Main, "icache")
  /\ UNCHANGED <<mkfsVars, stateVars, at, running, expired, file, ghostVars, used>>

\* slip: blkdev_close without its sync
CloseUnsynced ==
  /\ pc[Main] = "close"
  /\ alive' = {} /\ risk' = {} /\ missed' = {}
  /\ pc' = [pc EXCEPT ![Main] = "down", ![Timer] = "none"]
  /\ UNCHANGED <<mkfsVars, stateVars, at, running, expired, file, covered, promised, crossed, used>>

\* blkdev_close, which ignores a failing sync
Close ==
  /\ pc[Main] = "close"
  /\ \/ dirty = {} /\ Cross(IF missed = {} THEN {} ELSE {"unsynced"}) /\ UNCHANGED mkfsVars
     \/ dirty # {} /\ Fault /\ Cross({"unflushed"} \cup risk)
  /\ alive' = {} /\ risk' = {} /\ missed' = {}
  /\ pc' = [pc EXCEPT ![Main] = "down", ![Timer] = "none"]
  /\ UNCHANGED <<stateVars, at, running, expired, file, covered, promised, used>>

\* the table on the disk gives f a block that does not have its data
Misplaced(f) == table["disk"][f] # NONE /\ Applied[table["disk"][f]] # f
\* because f is about to commit them,
Early(f) == /\ table["disk"][f] = table["mem"][f]
            /\ \E u \in Threads : pc[u] \in {"inode", "commit"} /\ file[u] = f
\* or because f has lost, or is losing, the block to another file
Reused(f) == table["disk"][f] = table["mem"][f] => \E u \in Threads : pc[u] = "clear" /\ file[u] = f

\* the process dies
Crash ==
  /\ alive # {} /\ Use("crashes", MaxCrashes)
  /\ Cross(risk \cup (IF \E f \in Files : Misplaced(f) /\ Early(f) THEN {"early"} ELSE {})
                \cup (IF \E f \in Files : Misplaced(f) /\ Reused(f) THEN {"reused"} ELSE {}))
  /\ bits'  = [bits EXCEPT !["mem"] = bits["disk"], !["cache"] = bits["disk"], !["copy"] = {}]
  /\ table' = [table EXCEPT !["mem"] = table["disk"], !["cache"] = table["disk"]]
  /\ dirty' = {} /\ alive' = {} /\ missed' = {} /\ risk' = {} /\ running' = FALSE /\ expired' = FALSE
  /\ pc' = [u \in Actors |-> CASE u = Main -> "down" [] u = Timer -> "none" [] OTHER -> "idle"]
  /\ file' = [u \in Actors |-> NONE] /\ covered' = [u \in Actors |-> {}]
  /\ UNCHANGED <<mkfsVars, log, home, at, promised>>

----------------------------------------------------------------------------
Init ==
  /\ MkfsInit
  /\ bits = [p \in {"mem", "cache", "disk", "copy"} |-> {}]
  /\ table = [p \in {"mem", "cache", "disk"} |-> [f \in Files |-> NONE]]
  /\ dirty = {} /\ log = {} /\ home = [b \in Blocks |-> NONE] /\ at = "log"
  /\ alive = {} /\ running = FALSE /\ expired = FALSE
  /\ pc = [u \in Actors |-> CASE u = Main -> "down" [] u = Timer -> "none" [] OTHER -> "idle"]
  /\ file = [u \in Actors |-> NONE] /\ covered = [u \in Actors |-> {}]
  /\ promised = [f \in Files |-> NONE] /\ missed = {} /\ risk = {} /\ crossed = {}
  /\ used = [b \in {"ops", "timeouts", "crashes"} |-> 0]

Mount == MountLoad \/ MountRecover \/ MountStart \/ MountFails
Write(t) == Alloc(t) \/ InodeSync(t) \/ Commit(t) \/ CommitFails(t) \/ Apply(t)
Remove(t) == FreeBlock(t) \/ ClearInode(t)
Requests(t) == FsyncBegin(t) \/ \E f \in Files : WriteBegin(t, f) \/ RemoveBegin(t, f)
Sync(t) ==
  \/ Checkpoint(t) \/ CheckpointFails(t) \/ ExtentSeek(t) \/ ExtentWrite(t) \/ ExtentFails(t)
  \/ SyncInodes(t) \/ SyncBitmap(t) \/ SyncBitmapFails(t)
  \/ FlushBegin(t) \/ FlushBlock(t) \/ FlushEnd(t) \/ FlushFails(t)
TimerStep == TimerWait \/ TimerWakes \/ TimerCheck
Unmount == Join \/ DropRust \/ Close

Next ==
  \/ (Format /\ UNCHANGED <<stateVars, at, lifeVars, pc, file, ghostVars, used>>)
  \/ Mount \/ Stop \/ Unmount \/ TimerStep \/ Crash
  \/ \E t \in Threads : Requests(t) \/ Write(t) \/ Remove(t)
  \/ \E t \in Actors : Sync(t)

Spec == Init /\ [][Next]_vars

\* threads run, and time passes
Fairness == WF_vars(TimerStep \/ Sync(Timer) \/ Unmount \/ Sync(Main))
FairSpec == Spec /\ Fairness

----------------------------------------------------------------------------
(* Properties.  "crossed" names what the code does not keep itself from:   *)
(*   stale   a crash while the extent allocator's copy, the bitmap of the  *)
(*           mount, is on the disk and the cached block is not yet written *)
(*   torn    a crash between the writes of bitmap and table by one flush   *)
(*   moved   a block freed, or a new one synced, while an fsync is between *)
(*           its looks at the inodes and at the bitmap, and the flush      *)
(*   offset  a journal write between seek and write of the bitmap          *)
(*   early   a crash when an inode is on the disk whose data are not       *)
(*           committed yet                                                 *)
(*   failed  a commit that failed after the inode was changed              *)
(*   reused  a crash when a file's removal is not on the disk, and its     *)
(*           block has another file's data                                 *)
(*   unsynced   a crash, or the end of unmount, when an inode whose        *)
(*           inode_sync failed in inode_sync_all is not on the disk yet;   *)
(*           the sync went on and, if an fsync's, has returned success     *)
(*   unflushed  a failing last write of the bitmap by                      *)
(*           block_alloc_destroy, or a failing flush in blkdev_close       *)

Limits == Damage \cup {"early", "failed", "reused"}
Down   == pc[Main] = "down"

ActorPcs ==
  {"idle", "none", "down", "recover", "extent", "serve", "join", "drop", "icache", "balloc", "close",
   "alloc", "inode", "commit", "apply", "free", "clear", "checkpoint", "seek", "write", "inodes",
   "bitmap", "flush", "flushing", "start", "wait", "check", "exit"}

TypeOK ==
  /\ size \in Sizes /\ regions \in 0 .. 6 /\ result \in {"running", "formatted", "failed"}
  /\ bits \in [{"mem", "cache", "disk", "copy"} -> SUBSET Blocks]
  /\ table \in [{"mem", "cache", "disk"} -> [Files -> Blocks \cup {NONE}]]
  /\ dirty \subseteq {"bitmap", "table"}
  /\ log \subseteq Blocks \X Files /\ home \in [Blocks -> Files \cup {NONE}]
  /\ \A e, g \in log : e[1] = g[1] => e = g
  /\ at \in {"log", "bitmap"} /\ alive \subseteq Objects /\ running \in BOOLEAN /\ expired \in BOOLEAN
  /\ pc \in [Actors -> ActorPcs] /\ file \in [Actors -> Files \cup {NONE}]
  /\ covered \in [Actors -> SUBSET Files] /\ promised \in [Files -> Blocks \cup {NONE}]
  /\ missed \subseteq Files /\ risk \subseteq Limits /\ crossed \subseteq Limits

\* every block that the table gives a file is in use, and of that file alone
Covers(t, b) ==
  \A f \in Files : t[f] # NONE => t[f] \in b /\ \A g \in Files \ {f} : t[g] # t[f]

\* What a mount would load, after crashes and unmounts: no block that a file
\* has is free, and none has two files, although the bitmap is cached, copied
\* and written by two allocators and the table by requests and syncs. The log has
\* one image of a block, and nothing leaves its type (TypeOK).
RefsCovered ==
  /\ TypeOK
  /\ Down /\ Within(Damage) => Covers(table["disk"], bits["disk"])

\* What a mount would load and recover: every file whose block is in the table
\* has its own data in it, although the inode is cached and the data logged.
DataInPlace ==
  Down /\ Within(Damage \cup {"early", "failed", "reused"}) =>
    \A f \in Files : table["disk"][f] # NONE => Applied[table["disk"][f]] = f

\* What an fsync that returned success has covered survives the process: the
\* file is in the table with its block, and the block is in use.
FsyncKeeps ==
  Down /\ Within(Damage) =>
    \A f \in Files : promised[f] # NONE =>
      table["disk"][f] = promised[f] /\ promised[f] \in bits["disk"]

\* Unmount leaves everything on the disk, also when a step of its sync failed,
\* an inode_sync which nobody noticed included: what that leaves undone, the
\* syncs of the destroyed objects do. Table, bitmap, and no data that only the
\* process had.
UnmountKeeps ==
  Down /\ Within({"offset", "unsynced", "unflushed"}) =>
    /\ table["disk"] = table["mem"] /\ bits["disk"] = bits["mem"]
    /\ \A f \in Files : table["mem"][f] # NONE /\ crossed = {} => Applied[table["mem"][f]] = f

\* Nobody uses an object that unmount has destroyed: the checkpoint thread is
\* gone before the journal and the extent allocator go.
NoneUsesDestroyed ==
  /\ \A u \in Actors : pc[u] = "checkpoint" => "journal" \in alive
  /\ \A u \in Actors : pc[u] \in {"seek", "write"} => "extent" \in alive
  /\ \A u \in Threads : pc[u] # "idle" => alive = Objects

\* Unmount ends, also when the signal came before the checkpoint thread waited:
\* the wait then ends by its timeout, and no new checkpoint is begun.
UnmountEnds == pc[Main] = "join" ~> pc[Main] = "down"
=============================================================================
