---------------------------- MODULE ContextProofs ----------------------------
(***************************************************************************)
(* Theorems about Context, for any number of threads, files and blocks.    *)
(*                                                                         *)
(* Nobody uses an object of the context that unmount has destroyed, nor    *)
(* one that mount has not made yet: LifeInv is the life cycle, in which    *)
(* the step of the main thread says which objects there are, requests run  *)
(* only while it serves, and the checkpoint thread only until it is        *)
(* joined.                                                                 *)
(*                                                                         *)
(* What the disk has when nothing is mounted: ImageInv says of every       *)
(* moment what memory, cache and disk have of the inode table and of the   *)
(* data bitmap, in three parts: the requests' (MemInv), that of syncs and  *)
(* flushes (DiskInv), and what syncs have promised (PromiseInv).           *)
(*                                                                         *)
(* What mkfs says of an image: MkfsInv relates the area it is at to the    *)
(* layout, and BitmapHolds is the arithmetic of the two sizes that         *)
(* superblock_init gives the data bitmap, for every size it accepts.       *)
(***************************************************************************)
EXTENDS Context, Iteration

ThreadPcs == {"idle", "alloc", "inode", "commit", "apply", "free", "clear",
              "checkpoint", "seek", "write", "inodes", "bitmap", "flush", "flushing"}
SyncPcs   == {"checkpoint", "seek", "write", "inodes", "bitmap", "flush", "flushing"}
TimerPcs  == {"none", "start", "wait", "check", "checkpoint", "seek", "write", "exit"}
MainPcs   == {"down", "recover", "extent", "serve", "join", "drop", "icache", "balloc", "close"}
             \cup SyncPcs

\* where each of the three kinds of threads can be
Places ==
  /\ pc \in [Actors -> ThreadPcs \cup TimerPcs \cup MainPcs]
  /\ pc[Main] \in MainPcs /\ pc[Timer] \in TimerPcs
  /\ \A t \in Threads : pc[t] \in ThreadPcs

\* what there is while requests are served and while unmount syncs
Whole == pc[Main] \in {"serve", "join", "drop"} \cup SyncPcs => alive = Objects

LifeInv ==
  /\ Places
  /\ Whole
  /\ pc[Main] = "extent" => alive = Objects \ {"extent"}
  /\ pc[Main] = "recover" => alive = Objects \ {"extent", "journal"}
  /\ \A t \in Threads : pc[t] # "idle" => pc[Main] = "serve"
  /\ pc[Timer] \notin {"none", "exit"} => pc[Main] \in {"serve", "join"}

USE ContextAssumption

\* Before the first mount there is no object and nobody who uses one.
LEMMA InitLife == Init => LifeInv
  BY DEF Init, LifeInv, Places, Whole, Actors, ThreadPcs, TimerPcs, MainPcs, SyncPcs

\* A step that takes one request from place to place, and nothing else.
LEMMA RequestMoves ==
  ASSUME LifeInv, NEW t \in Threads, Up, alive' = alive,
         NEW p \in ThreadPcs, pc' = [pc EXCEPT ![t] = p]
  PROVE  LifeInv'
  BY DEF LifeInv, Places, Whole, Up, Actors, ThreadPcs, TimerPcs, MainPcs, SyncPcs

\* Requests, their writes and removals keep the life cycle.
LEMMA RequestLife ==
  ASSUME LifeInv, NEW t \in Threads, Requests(t) \/ Write(t) \/ Remove(t)
  PROVE  LifeInv'
<1>1. Up
  BY DEF LifeInv, Up, Requests, Write, Remove, FsyncBegin, WriteBegin, RemoveBegin, Request, Alloc,
         InodeSync, Commit, CommitFails, Apply, FreeBlock, ClearInode
<1>2. alive' = alive
  BY DEF Requests, Write, Remove, FsyncBegin, WriteBegin, RemoveBegin, Request, Alloc,
         InodeSync, Commit, CommitFails, Apply, FreeBlock, ClearInode, lifeVars
<1>3. \E p \in ThreadPcs : Goto(t, p)
  BY DEF Requests, Write, Remove, FsyncBegin, WriteBegin, RemoveBegin, SyncStart, Alloc, Return,
         InodeSync, Commit, CommitFails, Apply, FreeBlock, ClearInode, ThreadPcs
<1>. QED  BY <1>1, <1>2, <1>3, RequestMoves DEF Goto

\* The sync of a request.
LEMMA FsyncLife ==
  ASSUME LifeInv, NEW t \in Threads, Sync(t)
  PROVE  LifeInv'
<1>1. t # Main /\ t # Timer /\ t \in Actors /\ pc[t] \in ThreadPcs
  BY DEF LifeInv, Places, Actors
<1>2. Up /\ alive' = alive
  BY <1>1 DEF LifeInv, Up, ThreadPcs, Sync, Checkpoint, CheckpointFails, ExtentSeek, ExtentWrite,
     ExtentFails, SyncInodes, SyncBitmap, SyncBitmapFails, FlushBegin, FlushBlock, FlushEnd, FlushFails, lifeVars
<1>3. UNCHANGED pc \/ \E p \in ThreadPcs : Goto(t, p)
  BY <1>1 DEF ThreadPcs, Sync, Checkpoint, CheckpointFails, ExtentSeek, ExtentWrite, ExtentFails,
     SyncInodes, SyncBitmap, SyncBitmapFails, FlushBegin, FlushBlock, FlushEnd, FlushFails, Abandon
<1>4. CASE UNCHANGED pc
  BY <1>2, <1>4 DEF LifeInv, Places, Whole
<1>5. CASE \E p \in ThreadPcs : Goto(t, p)
  BY <1>2, <1>5, RequestMoves DEF Goto
<1>. QED  BY <1>3, <1>4, <1>5

\* The steps of the checkpoint thread, which has work only before the join.
LEMMA TimerLife ==
  ASSUME LifeInv, TimerStep \/ Sync(Timer)
  PROVE  LifeInv'
<1>1. Timer \in Actors /\ Timer # Main /\ Timer \notin Threads /\ pc[Timer] \in TimerPcs
  BY DEF LifeInv, Places, Actors
<1>2. alive' = alive /\ pc[Timer] \notin {"none", "exit"}
  BY <1>1 DEF TimerPcs, TimerStep, TimerWait, TimerWakes, TimerCheck, Sync, Checkpoint,
     CheckpointFails, ExtentSeek, ExtentWrite, ExtentFails, SyncInodes, SyncBitmap, SyncBitmapFails, FlushBegin,
     FlushBlock, FlushEnd, FlushFails, lifeVars
<1>3. \E p \in TimerPcs : Goto(Timer, p)
  BY <1>1 DEF TimerPcs, TimerStep, TimerWait, TimerWakes, TimerCheck, Sync, Checkpoint,
     CheckpointFails, ExtentSeek, ExtentWrite, ExtentFails, SyncInodes, SyncBitmap, SyncBitmapFails, FlushBegin,
     FlushBlock, FlushEnd, FlushFails, Abandon
<1>. QED  BY <1>1, <1>2, <1>3 DEF Goto, LifeInv, Places, Whole

\* The sync of unmount, when nobody else is left.
LEMMA UnmountSyncLife ==
  ASSUME LifeInv, Sync(Main)
  PROVE  LifeInv'
<1>1. Main \in Actors /\ Main # Timer /\ Main \notin Threads /\ pc[Main] \in MainPcs
  BY DEF LifeInv, Places, Actors
<1>2. \/ pc[Main] \in SyncPcs /\ alive' = alive
         /\ (UNCHANGED pc \/ \E p \in SyncPcs \cup {"drop"} : Goto(Main, p))
      \/ pc[Main] \in {"icache", "balloc", "close"}
         /\ (UNCHANGED pc \/ \E p \in {"balloc", "close"} : Goto(Main, p))
  BY <1>1 DEF MainPcs, SyncPcs, Sync, Checkpoint, CheckpointFails, ExtentSeek, ExtentWrite,
     ExtentFails, SyncInodes, SyncBitmap, SyncBitmapFails, FlushBegin, FlushBlock, FlushEnd, FlushFails, Abandon,
     lifeVars
<1>3. \A t \in Threads : pc[t] = "idle"
  BY <1>2 DEF LifeInv, SyncPcs
<1>4. pc[Timer] \in {"none", "exit"}
  BY <1>2 DEF LifeInv, SyncPcs
<1>5. CASE UNCHANGED pc
  BY <1>1, <1>2, <1>3, <1>4, <1>5 DEF LifeInv, Places, Whole, SyncPcs, MainPcs
<1>6. CASE pc[Main] \in SyncPcs /\ alive' = alive /\ \E p \in SyncPcs \cup {"drop"} : Goto(Main, p)
  BY <1>1, <1>3, <1>4, <1>6 DEF Goto, LifeInv, Places, Whole, SyncPcs, MainPcs
<1>7. CASE \E p \in {"balloc", "close"} : Goto(Main, p)
  BY <1>1, <1>3, <1>4, <1>7 DEF Goto, LifeInv, Places, Whole, SyncPcs, MainPcs
<1>. QED  BY <1>2, <1>5, <1>6, <1>7

\* Mount and the steps of unmount: each makes or destroys what its place says.
LEMMA MainLife ==
  ASSUME LifeInv, Mount \/ Stop \/ Unmount \/ Crash
  PROVE  LifeInv'
<1>1. /\ Main \in Actors /\ Timer \in Actors /\ Main # Timer /\ Main \notin Threads
      /\ Timer \notin Threads /\ pc[Main] \in MainPcs /\ pc[Timer] \in TimerPcs
  BY DEF LifeInv, Places, Actors
<1>2. CASE MountLoad \/ MountRecover \/ MountFails
  <2>1. /\ pc[Main] \in {"down", "recover", "extent"}
        /\ \/ Goto(Main, "recover") /\ alive' = Objects \ {"extent", "journal"}
           \/ Goto(Main, "extent") /\ alive' = Objects \ {"extent"}
           \/ Goto(Main, "down")
    BY <1>2 DEF MountLoad, MountRecover, MountFails, LifeInv, Objects
  <2>2. (\A t \in Threads : pc[t] = "idle") /\ pc[Timer] \in {"none", "exit"}
    BY <2>1 DEF LifeInv
  <2>3. CASE Goto(Main, "recover") /\ alive' = Objects \ {"extent", "journal"}
    BY <1>1, <2>2, <2>3 DEF Goto, LifeInv, Places, Whole, SyncPcs, MainPcs
  <2>4. CASE Goto(Main, "extent") /\ alive' = Objects \ {"extent"}
    BY <1>1, <2>2, <2>4 DEF Goto, LifeInv, Places, Whole, SyncPcs, MainPcs
  <2>5. CASE Goto(Main, "down")
    BY <1>1, <2>2, <2>5 DEF Goto, LifeInv, Places, Whole, SyncPcs, MainPcs
  <2>. QED  BY <2>1, <2>3, <2>4, <2>5
<1>3. CASE MountStart
  <2>1. /\ pc[Main] = "extent" /\ alive' = Objects
        /\ pc' = [pc EXCEPT ![Main] = "serve", ![Timer] = "start"]
    BY <1>3 DEF MountStart, LifeInv, Objects
  <2>2. \A u \in Actors : pc'[u] = IF u = Main THEN "serve" ELSE IF u = Timer THEN "start" ELSE pc[u]
    BY <1>1, <2>1 DEF LifeInv, Places
  <2>3. pc' \in [Actors -> ThreadPcs \cup TimerPcs \cup MainPcs]
    BY <2>1 DEF LifeInv, Places, TimerPcs, MainPcs
  <2>. QED  BY <1>1, <2>1, <2>2, <2>3 DEF LifeInv, Places, Whole, Actors, SyncPcs, MainPcs, TimerPcs
<1>4. CASE Stop
  <2>1. pc[Main] = "serve" /\ alive' = Objects /\ \A t \in Threads : pc[t] = "idle"
    BY <1>4 DEF Stop, Up, LifeInv, Whole
  <2>2. \A u \in Actors : pc'[u] = IF u = Main THEN "join"
                                   ELSE IF u = Timer /\ pc[u] = "wait" THEN "check" ELSE pc[u]
    BY <1>1, <1>4 DEF Stop, LifeInv, Places
  <2>3. pc' \in [Actors -> ThreadPcs \cup TimerPcs \cup MainPcs]
    BY <1>1, <1>4 DEF Stop, LifeInv, Places, TimerPcs, MainPcs
  <2>. QED  BY <1>1, <2>1, <2>2, <2>3 DEF LifeInv, Places, Whole, Actors, SyncPcs, MainPcs, TimerPcs
<1>5. CASE Join
  <2>1. /\ pc[Main] = "join" /\ pc[Timer] = "exit" /\ Goto(Main, "checkpoint") /\ alive' = alive
    BY <1>5 DEF Join, SyncStart, lifeVars
  <2>2. \A t \in Threads : pc[t] = "idle"
    BY <2>1 DEF LifeInv
  <2>. QED  BY <1>1, <2>1, <2>2 DEF Goto, LifeInv, Places, Whole, SyncPcs, MainPcs
<1>6. CASE DropRust
  BY <1>1, <1>6 DEF DropRust, Goto, LifeInv, Places, Whole, SyncPcs, MainPcs
<1>7. CASE Close
  <2>1. pc[Main] = "close" /\ \A t \in Threads : pc[t] = "idle"
    BY <1>7 DEF Close, LifeInv
  <2>2. pc' = [pc EXCEPT ![Main] = "down", ![Timer] = "none"]
    BY <1>7 DEF Close
  <2>3. \A u \in Actors : pc'[u] = IF u = Main THEN "down" ELSE IF u = Timer THEN "none" ELSE pc[u]
    BY <1>1, <2>2 DEF LifeInv, Places
  <2>4. pc' \in [Actors -> ThreadPcs \cup TimerPcs \cup MainPcs]
    BY <2>2 DEF LifeInv, Places, TimerPcs, MainPcs
  <2>. QED  BY <1>1, <2>1, <2>3, <2>4 DEF LifeInv, Places, Whole, Actors, SyncPcs, MainPcs, TimerPcs
<1>8. CASE Crash
  <2>1. pc' = [u \in Actors |-> CASE u = Main -> "down" [] u = Timer -> "none" [] OTHER -> "idle"]
    BY <1>8 DEF Crash
  <2>2. pc'[Main] = "down" /\ pc'[Timer] = "none"
    BY <1>1, <2>1
  <2>3. \A t \in Threads : pc'[t] = "idle"
    BY <1>1, <2>1 DEF Actors
  <2>4. pc' \in [Actors -> ThreadPcs \cup TimerPcs \cup MainPcs]
    BY <1>1, <2>1 DEF ThreadPcs, TimerPcs, MainPcs
  <2>. QED  BY <2>2, <2>3, <2>4 DEF LifeInv, Places, Whole, SyncPcs, MainPcs, TimerPcs, ThreadPcs
<1>. QED  BY <1>2, <1>3, <1>4, <1>5, <1>6, <1>7, <1>8 DEF Mount, Unmount

\* The life cycle is an invariant.
LEMMA LifeInductive == Spec => []LifeInv
<1>1. LifeInv /\ [Next]_vars => LifeInv'
  <2>. SUFFICES ASSUME LifeInv, [Next]_vars PROVE LifeInv'
    OBVIOUS
  <2>1. CASE UNCHANGED <<alive, pc>>
    BY <2>1 DEF LifeInv, Places, Whole
  <2>2. CASE UNCHANGED vars \/ (Format /\ UNCHANGED <<stateVars, at, lifeVars, pc, file, ghostVars, used>>)
    BY <2>1, <2>2 DEF vars, lifeVars
  <2>3. CASE \E t \in Threads : Requests(t) \/ Write(t) \/ Remove(t)
    BY <2>3, RequestLife
  <2>4. CASE \E t \in Actors : Sync(t)
    BY <2>4, FsyncLife, TimerLife, UnmountSyncLife DEF Actors
  <2>5. CASE Mount \/ Stop \/ Unmount \/ TimerStep \/ Crash
    BY <2>5, MainLife, TimerLife
  <2>. QED  BY <2>2, <2>3, <2>4, <2>5 DEF Next
<1>. QED  BY InitLife, <1>1, PTL DEF Spec

\* No step of the checkpoint thread, of an fsync or of unmount's own sync uses
\* the journal or the extent allocator before they are made or after they are
\* destroyed, and no request runs while an object is missing; for any number
\* of threads, files and blocks.
THEOREM DestroyedNeverUsed == Spec => []NoneUsesDestroyed
<1>1. LifeInv => NoneUsesDestroyed
  <2>. SUFFICES ASSUME LifeInv PROVE NoneUsesDestroyed
    OBVIOUS
  <2>1. \A u \in Actors : pc[u] \in {"checkpoint", "seek", "write"} => alive = Objects
    BY DEF LifeInv, Places, Whole, Actors, SyncPcs
  <2>2. \A u \in Threads : pc[u] # "idle" => alive = Objects
    BY DEF LifeInv, Whole
  <2>. QED  BY <2>1, <2>2 DEF NoneUsesDestroyed, Objects
<1>. QED  BY LifeInductive, <1>1, PTL

(***************************************************************************)
(* The image: what is where, for every moment of its life.                 *)
(***************************************************************************)

\* the table and the bitmap in memory, in the cache and on the disk
MemTable   == table["mem"]
CacheTable == table["cache"]
DiskTable  == table["disk"]
MemBits    == bits["mem"]
CacheBits  == bits["cache"]
DiskBits   == bits["disk"]

ReqPcs == {"alloc", "inode", "commit", "apply", "free", "clear"}

\* a request works on one file, which no other one works on and which has a
\* block from its allocation on
Held ==
  /\ \A t \in Threads : pc[t] \in ReqPcs <=> file[t] # NONE
  /\ \A t, u \in Threads : file[t] = file[u] /\ file[t] # NONE => t = u
  /\ \A t \in Threads : pc[t] \in ReqPcs => (pc[t] = "alloc" <=> MemTable[file[t]] = NONE)

Clearing(x)  == \E t \in Threads : pc[t] = "clear" /\ file[t] = x
Unsettled(x) == \E t \in Threads : pc[t] \in {"inode", "commit", "clear"} /\ file[t] = x

\* in memory a file's block is in use and its own, until a removal has freed
\* it; an image that cannot be mounted again is left aside
MemOwned ==
  (Down => Within(Damage)) =>
    /\ \A x \in Files : MemTable[x] # NONE => MemTable[x] \in MemBits \/ Clearing(x)
    /\ \A x, y \in Files : x # y /\ MemTable[x] = MemTable[y] /\ MemTable[x] # NONE => Clearing(x) \/ Clearing(y)

\* and it has the file's data, in place or in the log, when no request is
\* about to commit them
MemInPlace ==
  Within(Limits) =>
    \A x \in Files : MemTable[x] # NONE /\ ~Unsettled(x) => Applied[MemTable[x]] = x

\* what is not dirty is on the disk; and what a crash now would tear
Clean ==
  /\ "table" \notin dirty => DiskTable = CacheTable
  /\ "bitmap" \notin dirty /\ "stale" \notin risk /\ Within({"unflushed"}) => DiskBits = CacheBits
  /\ "torn" \in risk => dirty # {}
  /\ missed # {} => "unsynced" \in risk
  /\ risk \subseteq {"stale", "torn", "unsynced"}

\* between unmount or crash and the first request, memory is as the disk
AtRest ==
  /\ pc[Main] \in {"down", "recover", "extent"} => risk = {}
  /\ pc[Main] \in {"down", "recover", "extent"} /\ Within({"unflushed", "unsynced"}) =>
       MemTable = DiskTable /\ MemBits = DiskBits

\* a sync has looked at the inodes: those that are cached have not moved since,
\* but for those that it has passed over
Looked ==
  (\E u \in Actors : pc[u] \in {"bitmap", "balloc"}) /\ Within({"moved"}) =>
    \A x \in Files \ missed : CacheTable[x] # NONE => MemTable[x] = CacheTable[x] /\ ~Clearing(x)
\* it has copied the bitmap as well: both fit, when it passed over no inode
Copied ==
  (\E u \in Actors : pc[u] \in {"flush", "flushing", "close"}) /\ Within({"moved", "unflushed"}) /\ missed = {} =>
    Covers(CacheTable, CacheBits)
\* unmount's last steps, when no request is left
Closing ==
  /\ pc[Main] \in {"balloc", "close"} => \A x \in Files \ missed : CacheTable[x] = MemTable[x]
  /\ pc[Main] = "close" /\ Within({"unflushed"}) =>
       CacheBits = MemBits /\ ("bitmap" \notin dirty => "stale" \notin risk)

\* the disk, unless a crash now would cross a limit
DiskSound == Within(Damage) /\ risk = {} => Covers(DiskTable, DiskBits)

\* what syncs have promised, and what those that run will promise
Kept ==
  Within({"unsynced"}) =>
    \A x \in Files : promised[x] # NONE =>
      /\ FileFree(x) /\ MemTable[x] = promised[x]
      /\ CacheTable[x] = promised[x] \/ x \in missed
      /\ "unsynced" \notin risk => DiskTable[x] = promised[x]
Owed ==
  /\ covered[Timer] = {}
  /\ \A u \in Actors : \A x \in covered[u] :
       /\ pc[u] \in SyncPcs /\ FileFree(x) /\ MemTable[x] # NONE
       /\ pc[u] \in {"bitmap", "flush", "flushing"} => CacheTable[x] = MemTable[x] \/ x \in missed

\* The block that an allocation takes is free.
LEMMA LowestFree ==
  ~(Blocks \subseteq bits["mem"]) => Lowest(Blocks \ bits["mem"]) \in Blocks \ bits["mem"]
<1>. SUFFICES ASSUME ~(Blocks \subseteq bits["mem"]) PROVE Lowest(Blocks \ bits["mem"]) \in Blocks \ bits["mem"]
  OBVIOUS
<1>. DEFINE S == Blocks \ bits["mem"]
<1>1. S \in SUBSET Nat /\ S # {}
  OBVIOUS
<1>2. \E b \in S : \A c \in S : b <= c
  <2>. HIDE DEF S
  <2>. QED  BY <1>1, Least
<1>. QED  BY <1>2 DEF Lowest

\* A request has a file, and the file a block when it has one.
LEMMA FileOf ==
  ASSUME TypeOK, Held, NEW t \in Threads, pc[t] \in ReqPcs
  PROVE  /\ file[t] \in Files
         /\ pc[t] # "alloc" => table["mem"][file[t]] \in Blocks
BY DEF TypeOK, Held, Actors, MemTable

\* What the log has of a block is what the block gets.
LEMMA LogGets ==
  ASSUME TypeOK, NEW b \in Blocks, NEW y \in Files,
         log' = {e \in log : e[1] # b} \cup {<<b, y>>}, home' = home
  PROVE  Applied' = [Applied EXCEPT ![b] = y]
<1>1. ASSUME NEW c \in Blocks, c # b, NEW x \in Files
      PROVE  <<c, x>> \in log' <=> <<c, x>> \in log
  BY <1>1
<1>2. \A x \in Files : <<b, x>> \in log' <=> x = y
  OBVIOUS
<1>3. ASSUME NEW c \in Blocks, c # b
      PROVE  Applied'[c] = Applied[c]
  BY <1>1, <1>3 DEF Applied
<1>4. Applied'[b] = y
  BY <1>2 DEF Applied
<1>5. Applied' = [c \in Blocks |-> Applied'[c]] /\ Applied = [c \in Blocks |-> Applied[c]]
  BY DEF Applied
<1>. QED  BY <1>3, <1>4, <1>5

\* The parts that mount, crash and mkfs replace as a whole.
LEMMA LifeTypes ==
  ASSUME TypeOK, LifeInv',
         \/ Mount \/ Stop \/ Unmount \/ TimerStep \/ Crash
         \/ (Format /\ UNCHANGED <<stateVars, at, lifeVars, pc, file, ghostVars, used>>)
  PROVE  TypeOK'
<1>. USE DEF TypeOK
<1>1. pc' \in [Actors -> ActorPcs]
  BY DEF LifeInv, Places, ActorPcs, ThreadPcs, TimerPcs, MainPcs, SyncPcs
<1>2. CASE Format /\ UNCHANGED <<stateVars, at, lifeVars, pc, file, ghostVars, used>>
  <2>1. size' \in Sizes /\ regions' \in 0 .. 6 /\ result' \in {"running", "formatted", "failed"}
    BY <1>2 DEF Format, FormatRegion, FormatFault, FormatEnd
  <2>. QED  BY <1>2, <2>1 DEF stateVars, lifeVars, ghostVars
<1>3. CASE Mount
  <2>1. Applied \in [Blocks -> Files \cup {NONE}]
    BY DEF Applied
  <2>2. CASE MountLoad
    BY <1>1, <2>2 DEF MountLoad, mkfsVars, ghostVars, Objects
  <2>3. CASE MountRecover
    BY <1>1, <2>1, <2>3 DEF MountRecover, mkfsVars, ghostVars, Objects
  <2>4. CASE MountStart
    BY <1>1, <2>4 DEF MountStart, mkfsVars, ghostVars, Objects
  <2>5. CASE MountFails
    BY <1>1, <2>5 DEF MountFails, Fault, mkfsVars, ghostVars, stateVars, Objects
  <2>. QED  BY <1>3, <2>2, <2>3, <2>4, <2>5 DEF Mount
<1>4. CASE TimerStep \/ Stop
  <2>1. running' \in BOOLEAN /\ expired' \in BOOLEAN
    BY <1>4 DEF TimerStep, TimerWait, TimerWakes, TimerCheck, Stop, lifeVars
  <2>2. UNCHANGED <<mkfsVars, stateVars, at, alive, file, ghostVars>>
    BY <1>4 DEF TimerStep, TimerWait, TimerWakes, TimerCheck, Stop, lifeVars
  <2>. QED  BY <1>1, <2>1, <2>2 DEF mkfsVars, stateVars, ghostVars
<1>5. CASE Join
  BY <1>1, <1>5 DEF Join, SyncStart, mkfsVars, stateVars, lifeVars
<1>6. CASE DropRust
  BY <1>1, <1>6 DEF DropRust, mkfsVars, stateVars, ghostVars
<1>7. CASE Close
  <2>1. crossed' \subseteq Limits /\ risk' = {} /\ missed' = {} /\ alive' = {}
    BY <1>7 DEF Close, Cross, Limits, Damage
  <2>2. UNCHANGED <<size, regions, result, stateVars, at, running, expired, file, covered, promised>>
    BY <1>7 DEF Close, Fault, mkfsVars
  <2>. QED  BY <1>1, <2>1, <2>2 DEF stateVars
<1>8. CASE Crash
  <2>1. crossed' \subseteq Limits
    BY <1>8 DEF Crash, Cross, Limits, Damage
  <2>2. bits' \in [{"mem", "cache", "disk", "copy"} -> SUBSET Blocks]
    BY <1>8 DEF Crash
  <2>3. table' \in [{"mem", "cache", "disk"} -> [Files -> Blocks \cup {NONE}]]
    BY <1>8 DEF Crash
  <2>4. file' \in [Actors -> Files \cup {NONE}] /\ covered' \in [Actors -> SUBSET Files]
    BY <1>8 DEF Crash
  <2>5. /\ dirty' = {} /\ alive' = {} /\ missed' = {} /\ risk' = {} /\ running' = FALSE /\ expired' = FALSE
        /\ UNCHANGED <<mkfsVars, log, home, at, promised>>
    BY <1>8 DEF Crash
  <2>. QED  BY <1>1, <2>1, <2>2, <2>3, <2>4, <2>5 DEF mkfsVars
<1>. QED  BY <1>2, <1>3, <1>4, <1>5, <1>6, <1>7, <1>8 DEF Unmount

\* Requests keep the types; the log has one image of a block.
LEMMA RequestTypes ==
  ASSUME TypeOK, LifeInv', Held, NEW t \in Threads, Requests(t) \/ Write(t) \/ Remove(t)
  PROVE  TypeOK'
<1>. USE DEF TypeOK
<1>1. pc' \in [Actors -> ActorPcs]
  BY DEF LifeInv, Places, ActorPcs, ThreadPcs, TimerPcs, MainPcs, SyncPcs
<1>2. t \in Actors
  BY DEF Actors
<1>3. CASE FsyncBegin(t)
  BY <1>1, <1>3 DEF FsyncBegin, SyncStart, mkfsVars, stateVars, lifeVars
<1>4. CASE \E x \in Files : WriteBegin(t, x) \/ RemoveBegin(t, x)
  <2>1. PICK x \in Files : Request(t, x)
    BY <1>4 DEF WriteBegin, RemoveBegin
  <2>2. covered' \in [Actors -> SUBSET Files] /\ promised' \in [Files -> Blocks \cup {NONE}]
    BY <2>1 DEF Request
  <2>. QED  BY <1>1, <2>1, <2>2 DEF Request, mkfsVars, stateVars, lifeVars
<1>5. CASE Alloc(t)
  <2>1. PICK b \in {IF Blocks \subseteq bits["mem"] THEN NONE ELSE Lowest(Blocks \ bits["mem"])} :
          IF b = NONE THEN Return(t) /\ UNCHANGED <<bits, table>>
          ELSE /\ bits'  = [bits EXCEPT !["mem"] = @ \cup {b}]
               /\ table' = [table EXCEPT !["mem"][file[t]] = b]
               /\ Goto(t, "inode") /\ UNCHANGED file
    BY <1>5 DEF Alloc
  <2>2. b \in Blocks \cup {NONE}
    BY LowestFree
  <2>3. /\ bits' \in [{"mem", "cache", "disk", "copy"} -> SUBSET Blocks]
        /\ table' \in [{"mem", "cache", "disk"} -> [Files -> Blocks \cup {NONE}]]
        /\ file' \in [Actors -> Files \cup {NONE}]
    BY <1>2, <2>1, <2>2 DEF Return
  <2>. QED  BY <1>1, <1>5, <2>3 DEF Alloc, mkfsVars, lifeVars, ghostVars
<1>6. CASE InodeSync(t)
  <2>1. crossed' \subseteq Limits /\ dirty' \subseteq {"bitmap", "table"} /\ missed' \subseteq Files
        /\ UNCHANGED <<size, regions, result>>
    BY <1>6 DEF InodeSync, Fault, mkfsVars, Cross, Limits, Damage
  <2>2. table' \in [{"mem", "cache", "disk"} -> [Files -> Blocks \cup {NONE}]]
    BY <1>6, <1>2, FileOf DEF InodeSync, ReqPcs
  <2>. QED  BY <1>1, <1>6, <2>1, <2>2 DEF InodeSync, lifeVars
<1>7. CASE Commit(t)
  <2>. DEFINE b == table["mem"][file[t]]
  <2>1. file[t] \in Files /\ b \in Blocks
    BY <1>7, FileOf DEF Commit, ReqPcs
  <2>2. log' = {e \in log : e[1] # b} \cup {<<b, file[t]>>}
    BY <1>7 DEF Commit
  <2>. HIDE DEF b
  <2>3. log' \subseteq Blocks \X Files /\ \A e, z \in log' : e[1] = z[1] => e = z
    BY <2>1, <2>2
  <2>. QED  BY <1>1, <1>7, <2>3 DEF Commit, mkfsVars, lifeVars, ghostVars
<1>8. CASE CommitFails(t)
  BY <1>1, <1>2, <1>8 DEF CommitFails, Fault, Return, Cross, Limits, Damage, stateVars, lifeVars
<1>9. CASE Apply(t)
  <2>1. Applied \in [Blocks -> Files \cup {NONE}]
    BY DEF Applied
  <2>2. home' \in [Blocks -> Files \cup {NONE}] /\ log' \subseteq log /\ at' \in {"log", "bitmap"}
    BY <1>9, <2>1 DEF Apply
  <2>3. UNCHANGED <<size, regions, result>>
    BY <1>9 DEF Apply, Fault, mkfsVars
  <2>. QED  BY <1>1, <1>2, <1>9, <2>2, <2>3 DEF Apply, Return, lifeVars, ghostVars
<1>10. CASE FreeBlock(t)
  <2>1. crossed' \subseteq Limits
    BY <1>10 DEF FreeBlock, Cross, Limits, Damage
  <2>. QED  BY <1>1, <1>10, <2>1 DEF FreeBlock, mkfsVars, lifeVars
<1>11. CASE ClearInode(t)
  <2>1. table' \in [{"mem", "cache", "disk"} -> [Files -> Blocks \cup {NONE}]]
    BY <1>11 DEF ClearInode
  <2>. QED  BY <1>1, <1>2, <1>11, <2>1 DEF ClearInode, Return, mkfsVars, lifeVars, ghostVars
<1>. QED  BY <1>3, <1>4, <1>5, <1>6, <1>7, <1>8, <1>9, <1>10, <1>11 DEF Requests, Write, Remove

\* So does every step of a sync.
LEMMA SyncTypes ==
  ASSUME TypeOK, LifeInv', NEW t \in Actors, Sync(t)
  PROVE  TypeOK'
<1>. USE DEF TypeOK
<1>1. pc' \in [Actors -> ActorPcs]
  BY DEF LifeInv, Places, ActorPcs, ThreadPcs, TimerPcs, MainPcs, SyncPcs
<1>2. CASE Checkpoint(t)
  <2>1. Applied \in [Blocks -> Files \cup {NONE}]
    BY DEF Applied
  <2>. QED  BY <1>1, <1>2, <2>1 DEF Checkpoint, mkfsVars, lifeVars, ghostVars
<1>3. CASE CheckpointFails(t) \/ ExtentFails(t) \/ FlushFails(t)
  <2>1. /\ covered' \in [Actors -> SUBSET Files]
        /\ UNCHANGED <<size, regions, result, stateVars, at, lifeVars, file, promised, missed, risk, crossed>>
    BY <1>3 DEF CheckpointFails, ExtentFails, FlushFails, Fault, Abandon
  <2>. QED  BY <1>1, <2>1 DEF stateVars, lifeVars
<1>4. CASE ExtentSeek(t) \/ FlushBegin(t)
  BY <1>1, <1>4 DEF ExtentSeek, FlushBegin, mkfsVars, stateVars, lifeVars, ghostVars
<1>5. CASE ExtentWrite(t)
  <2>1. bits' \in [{"mem", "cache", "disk", "copy"} -> SUBSET Blocks]
    BY <1>5 DEF ExtentWrite
  <2>2. risk' \subseteq Limits /\ crossed' \subseteq Limits
    BY <1>5 DEF ExtentWrite, Cross, Limits, Damage
  <2>. QED  BY <1>1, <1>5, <2>1, <2>2 DEF ExtentWrite, mkfsVars, lifeVars
<1>6. CASE SyncInodes(t)
  <2>1. crossed' \subseteq Limits /\ dirty' \subseteq {"bitmap", "table"} /\ alive' \subseteq alive
    BY <1>6 DEF SyncInodes, Cross, Limits, Damage
  <2>2. PICK failed \in SUBSET Files :
          /\ table' = [table EXCEPT !["cache"] = [f \in Files |-> IF f \in failed THEN @[f] ELSE table["mem"][f]]]
          /\ missed' = failed
          /\ risk' = IF failed = {} THEN risk ELSE risk \cup {"unsynced"}
    BY <1>6 DEF SyncInodes
  <2>3. missed' \subseteq Files /\ risk' \subseteq Limits
    BY <2>2 DEF Limits, Damage
  <2>4. table' \in [{"mem", "cache", "disk"} -> [Files -> Blocks \cup {NONE}]]
    BY <2>2
  <2>. QED  BY <1>1, <1>6, <2>1, <2>3, <2>4 DEF SyncInodes, mkfsVars
<1>7. CASE SyncBitmap(t)
  <2>1. dirty' \subseteq {"bitmap", "table"} /\ alive' \subseteq alive
    BY <1>7 DEF SyncBitmap
  <2>. QED  BY <1>1, <1>7, <2>1 DEF SyncBitmap, mkfsVars, ghostVars
<1>8. CASE FlushBlock(t)
  <2>1. PICK x \in dirty : Flush(x)
    BY <1>8 DEF FlushBlock
  <2>2. risk' \subseteq Limits /\ dirty' \subseteq dirty
    BY <2>1 DEF Flush, Limits, Damage
  <2>3. /\ bits' \in [{"mem", "cache", "disk", "copy"} -> SUBSET Blocks]
        /\ table' \in [{"mem", "cache", "disk"} -> [Files -> Blocks \cup {NONE}]]
    BY <2>1 DEF Flush
  <2>. QED  BY <1>1, <1>8, <2>2, <2>3 DEF FlushBlock, mkfsVars, lifeVars
<1>9. CASE FlushEnd(t)
  BY <1>1, <1>9 DEF FlushEnd, Abandon, mkfsVars, stateVars, lifeVars
<1>10. CASE SyncBitmapFails(t)
  <2>1. bits' \in [{"mem", "cache", "disk", "copy"} -> SUBSET Blocks] /\ dirty' \subseteq {"bitmap", "table"}
    BY <1>10 DEF SyncBitmapFails
  <2>2. covered' \in [Actors -> SUBSET Files] /\ alive' \subseteq alive /\ crossed' \subseteq Limits
    BY <1>10 DEF SyncBitmapFails, Abandon, Cross, Limits, Damage
  <2>. QED  BY <1>1, <1>10, <2>1, <2>2 DEF SyncBitmapFails, Fault
<1>. QED  BY <1>2, <1>3, <1>4, <1>5, <1>6, <1>7, <1>8, <1>9, <1>10 DEF Sync

(***************************************************************************)
(* Memory: requests, each on its file.                                     *)
(***************************************************************************)

MemInv == Held /\ MemOwned /\ MemInPlace

\* A step that no request makes leaves memory alone.
MemRests ==
  /\ MemTable' = MemTable /\ MemBits' = MemBits /\ Applied' = Applied /\ file' = file
  /\ \A t \in Threads : \A p \in ReqPcs : pc'[t] = p <=> pc[t] = p
  /\ Down => Down' \/ Within(Damage)
  /\ crossed \subseteq crossed'

\* Then all stays as it was.
LEMMA MemStays ==
  ASSUME MemInv, MemRests
  PROVE  MemInv'
<1>1. Held'
  BY DEF MemInv, MemRests, Held
<1>2. \A x \in Files : (Clearing(x)' <=> Clearing(x)) /\ (Unsettled(x)' <=> Unsettled(x))
  BY DEF MemRests, Clearing, Unsettled, ReqPcs
<1>3. (Down' => Within(Damage)') => (Down => Within(Damage))
  BY DEF MemRests, Within
<1>4. MemOwned'
  BY <1>2, <1>3 DEF MemInv, MemRests, MemOwned
<1>5. Within(Limits)' => Within(Limits)
  BY DEF MemRests, Within
<1>6. MemInPlace'
  BY <1>2, <1>5 DEF MemInv, MemRests, MemInPlace
<1>. QED  BY <1>1, <1>4, <1>6 DEF MemInv

\* A step of a request on y, which begins, goes on with it or returns.
Works(t, y) ==
  /\ \A u \in Threads \ {t} : pc'[u] = pc[u] /\ file'[u] = file[u] /\ file[u] # y
  /\ pc[t] \in ReqPcs => file[t] = y
  /\ \/ pc'[t] \in ReqPcs /\ file'[t] = y
     \/ pc'[t] \notin ReqPcs /\ file'[t] = NONE
  /\ pc'[t] \in ReqPcs => (pc'[t] = "alloc" <=> MemTable'[y] = NONE)
  /\ \A x \in Files \ {y} : MemTable'[x] = MemTable[x]
  /\ ~Down /\ ~Down'

\* The other files are as they were, and y is with t.
LEMMA WorksOn ==
  ASSUME TypeOK, Held, NEW t \in Threads, NEW y \in Files, Works(t, y)
  PROVE  /\ Held'
         /\ \A x \in Files \ {y} : (Clearing(x)' <=> Clearing(x)) /\ (Unsettled(x)' <=> Unsettled(x))
         /\ Clearing(y) <=> pc[t] = "clear"
         /\ Clearing(y)' <=> pc'[t] = "clear"
         /\ Unsettled(y) <=> pc[t] \in {"inode", "commit", "clear"}
         /\ Unsettled(y)' <=> pc'[t] \in {"inode", "commit", "clear"}
<1>1. y # NONE
  OBVIOUS
<1>2. Held'
  <2>1. \A u \in Threads : pc'[u] \in ReqPcs <=> file'[u] # NONE
    BY <1>1 DEF Held, Works
  <2>2. \A u, v \in Threads : file'[u] = file'[v] /\ file'[u] # NONE => u = v
    BY <1>1 DEF Held, Works
  <2>3. \A u \in Threads : pc'[u] \in ReqPcs => (pc'[u] = "alloc" <=> MemTable'[file'[u]] = NONE)
    <3>1. \A u \in Threads : pc'[u] \in ReqPcs => file'[u] \in Files
      BY DEF Works, Held, TypeOK, Actors
    <3>. QED  BY <3>1 DEF Held, Works
  <2>. QED  BY <2>1, <2>2, <2>3 DEF Held
<1>3. ASSUME NEW x \in Files \ {y}
      PROVE  (Clearing(x)' <=> Clearing(x)) /\ (Unsettled(x)' <=> Unsettled(x))
  BY DEF Works, Clearing, Unsettled, ReqPcs
<1>4. /\ Clearing(y) <=> pc[t] = "clear"
      /\ Unsettled(y) <=> pc[t] \in {"inode", "commit", "clear"}
  BY DEF Works, Clearing, Unsettled, ReqPcs
<1>5. /\ Clearing(y)' <=> pc'[t] = "clear"
      /\ Unsettled(y)' <=> pc'[t] \in {"inode", "commit", "clear"}
  <2>1. \A u \in Threads : file'[u] = y => u = t
    BY DEF Works
  <2>2. pc'[t] \in {"inode", "commit", "clear"} => file'[t] = y
    BY DEF Works, ReqPcs
  <2>. QED  BY <2>1, <2>2 DEF Clearing, Unsettled
<1>. QED  BY <1>2, <1>3, <1>4, <1>5

\* It begins or returns, or goes from the commit to its application: nothing
\* changes but what a failing commit spoils.
LEMMA PassesMem ==
  ASSUME TypeOK, MemInv, NEW t \in Threads, NEW y \in Files, Works(t, y),
         MemTable' = MemTable, MemBits' = MemBits, Applied' = Applied, crossed \subseteq crossed',
         pc[t] # "clear", pc'[t] # "clear",
         \/ pc[t] \notin {"inode", "commit"}
         \/ pc'[t] \in {"inode", "commit"}
         \/ "failed" \in crossed'
  PROVE  MemInv'
<1>. USE DEF MemInv
<1>1. MemOwned'
  BY WorksOn DEF MemOwned, Works
<1>2. MemInPlace'
  BY WorksOn DEF MemInPlace, Within, Limits
<1>. QED  BY <1>1, <1>2, WorksOn

\* A block that was free becomes y's.
LEMMA AllocMem ==
  ASSUME TypeOK, MemInv, NEW t \in Threads, NEW y \in Files, Works(t, y),
         pc[t] = "alloc", pc'[t] = "inode",
         NEW b \in Blocks, b \notin MemBits, MemTable'[y] = b, MemBits' = MemBits \cup {b},
         Applied' = Applied, crossed' = crossed
  PROVE  MemInv'
<1>. USE DEF MemInv
<1>1. b # NONE
  OBVIOUS
<1>2. \A x \in Files : MemTable[x] = b => Clearing(x)
  BY <1>1 DEF MemOwned, Works
<1>3. MemOwned'
  BY <1>1, <1>2, WorksOn DEF MemOwned, Works
<1>4. MemInPlace'
  BY WorksOn DEF MemInPlace, Within, Works
<1>. QED  BY <1>3, <1>4, WorksOn

\* y's data are committed: they are what its block gets.
LEMMA CommitMem ==
  ASSUME TypeOK, MemInv, NEW t \in Threads, NEW y \in Files, Works(t, y),
         pc[t] = "commit", pc'[t] = "apply", MemTable' = MemTable, MemBits' = MemBits, crossed' = crossed,
         Applied' = [Applied EXCEPT ![MemTable[y]] = y]
  PROVE  MemInv'
<1>. USE DEF MemInv
<1>1. MemOwned'
  BY WorksOn DEF MemOwned, Works
<1>2. MemTable[y] \in Blocks
  BY FileOf DEF Works, ReqPcs, MemTable
<1>3. Applied'[MemTable[y]] = y /\ \A b \in Blocks \ {MemTable[y]} : Applied'[b] = Applied[b]
  BY <1>2 DEF Applied
<1>4. \A x \in Files \ {y} : MemTable[x] = MemTable[y] => Clearing(x)
  BY <1>2, WorksOn DEF MemOwned, Works
<1>5. \A x \in Files : Clearing(x) => Unsettled(x)
  BY DEF Clearing, Unsettled
<1>6. MemTable \in [Files -> Blocks \cup {NONE}]
  BY DEF TypeOK, MemTable
<1>7. MemInPlace'
  BY <1>3, <1>4, <1>5, <1>6, WorksOn DEF MemInPlace, Within
<1>. QED  BY <1>1, <1>7, WorksOn

\* A removal frees y's block,
LEMMA FreeMem ==
  ASSUME TypeOK, MemInv, NEW t \in Threads, NEW y \in Files, Works(t, y),
         pc[t] = "free", pc'[t] = "clear", MemTable' = MemTable, MemBits' = MemBits \ {MemTable[y]},
         Applied' = Applied, crossed \subseteq crossed'
  PROVE  MemInv'
<1>. USE DEF MemInv
<1>1. MemTable[y] # NONE
  BY FileOf DEF Works, ReqPcs, MemTable
<1>2. \A x \in Files \ {y} : MemTable[x] = MemTable[y] => Clearing(x)
  BY <1>1, WorksOn DEF MemOwned, Works
<1>3. MemOwned'
  BY <1>2, WorksOn DEF MemOwned, Works
<1>4. MemInPlace'
  BY WorksOn DEF MemInPlace, Within
<1>. QED  BY <1>3, <1>4, WorksOn

\* and takes it from y.
LEMMA ClearMem ==
  ASSUME TypeOK, MemInv, NEW t \in Threads, NEW y \in Files, Works(t, y),
         pc[t] = "clear", pc'[t] = "idle", MemTable'[y] = NONE, MemBits' = MemBits,
         Applied' = Applied, crossed' = crossed
  PROVE  MemInv'
<1>. USE DEF MemInv
<1>1. MemOwned'
  BY WorksOn DEF MemOwned, Works
<1>2. MemInPlace'
  BY WorksOn DEF MemInPlace, Within, Works
<1>. QED  BY <1>1, <1>2, WorksOn

\* A request in one of its steps works on its file.
LEMMA StepWorks ==
  ASSUME TypeOK, LifeInv, Held, NEW t \in Threads, Up, pc[t] \in ReqPcs,
         NEW p \in ThreadPcs, pc' = [pc EXCEPT ![t] = p],
         \/ p \in ReqPcs \ {"alloc"} /\ file' = file /\ MemTable'[file[t]] # NONE
         \/ p \notin ReqPcs /\ file' = [file EXCEPT ![t] = NONE],
         \A x \in Files \ {file[t]} : MemTable'[x] = MemTable[x]
  PROVE  file[t] \in Files /\ Works(t, file[t]) /\ pc'[t] = p
<1>1. t \in Actors /\ t # Main /\ Main \in Actors /\ file[t] \in Files
  BY FileOf DEF Actors
<1>2. pc'[t] = p /\ \A u \in Threads \ {t} : pc'[u] = pc[u] /\ file'[u] = file[u]
  BY <1>1 DEF TypeOK, Actors
<1>3. \A u \in Threads \ {t} : file[u] # file[t]
  BY <1>1 DEF Held
<1>4. ~Down /\ ~Down'
  BY <1>1 DEF Down, Up, TypeOK
<1>5. p \in ReqPcs \/ file'[t] = NONE
  BY <1>1 DEF TypeOK
<1>6. p \in ReqPcs => file'[t] = file[t]
  OBVIOUS
<1>. QED  BY <1>1, <1>2, <1>3, <1>4, <1>5, <1>6 DEF Works

\* Requests keep memory sound.
LEMMA RequestMem ==
  ASSUME TypeOK, LifeInv, MemInv, NEW t \in Threads, Requests(t) \/ Write(t) \/ Remove(t)
  PROVE  MemInv'
<1>. DEFINE y == file[t]
<1>1. t \in Actors /\ t # Main /\ Main \in Actors /\ Held
  BY DEF Actors, MemInv
<1>2. Up
  BY DEF LifeInv, Up, Requests, Write, Remove, FsyncBegin, WriteBegin, RemoveBegin, Request, Alloc,
         InodeSync, Commit, CommitFails, Apply, FreeBlock, ClearInode
<1>3. CASE FsyncBegin(t)
  <2>1. pc[t] = "idle" /\ pc' = [pc EXCEPT ![t] = "checkpoint"]
    BY <1>3 DEF FsyncBegin, SyncStart, Goto
  <2>2. UNCHANGED <<bits, table, log, home, file, crossed>>
    BY <1>3 DEF FsyncBegin, stateVars
  <2>3. \A u \in Threads : \A p \in ReqPcs : pc'[u] = p <=> pc[u] = p
    BY <1>1, <2>1 DEF ReqPcs, TypeOK, Actors
  <2>4. Down => Down'
    BY <1>2 DEF Up, Down
  <2>. QED  BY <2>2, <2>3, <2>4, MemStays DEF MemRests, MemTable, MemBits, Applied
<1>4. CASE \E x \in Files : WriteBegin(t, x) \/ RemoveBegin(t, x)
  <2>1. PICK x \in Files : Request(t, x) /\ \/ Goto(t, "alloc") /\ MemTable[x] = NONE
                                            \/ Goto(t, "free") /\ MemTable[x] # NONE
    BY <1>4 DEF WriteBegin, RemoveBegin, MemTable
  <2>2. PICK p \in {"alloc", "free"} : pc' = [pc EXCEPT ![t] = p] /\ (p = "alloc" <=> MemTable[x] = NONE)
    BY <2>1 DEF Goto
  <2>3. /\ pc[t] = "idle" /\ FileFree(x) /\ file' = [file EXCEPT ![t] = x]
        /\ UNCHANGED <<bits, table, log, home, crossed>>
    BY <2>1 DEF Request, stateVars
  <2>4. pc'[t] = p /\ file'[t] = x /\ \A u \in Threads \ {t} : pc'[u] = pc[u] /\ file'[u] = file[u]
    BY <1>1, <2>2, <2>3 DEF TypeOK, Actors
  <2>5. ~Down /\ ~Down'
    BY <1>1, <1>2, <2>2 DEF Down, Up, TypeOK
  <2>6. Works(t, x)
    BY <2>2, <2>3, <2>4, <2>5 DEF Works, FileFree, ReqPcs, MemTable
  <2>. QED  BY <2>2, <2>3, <2>4, <2>6, PassesMem DEF MemTable, MemBits, Applied
<1>5. CASE Alloc(t)
  <2>1. PICK b \in {IF Blocks \subseteq bits["mem"] THEN NONE ELSE Lowest(Blocks \ bits["mem"])} :
          IF b = NONE THEN Return(t) /\ UNCHANGED <<bits, table>>
          ELSE /\ bits'  = [bits EXCEPT !["mem"] = @ \cup {b}]
               /\ table' = [table EXCEPT !["mem"][file[t]] = b]
               /\ Goto(t, "inode") /\ UNCHANGED file
    BY <1>5 DEF Alloc
  <2>2. pc[t] = "alloc" /\ UNCHANGED <<log, home, crossed>>
    BY <1>5 DEF Alloc, ghostVars
  <2>3. CASE b = NONE
    <3>1. Works(t, y) /\ pc'[t] = "idle" /\ y \in Files
      BY <1>1, <1>2, <2>1, <2>2, <2>3, StepWorks DEF Return, Goto, ReqPcs, ThreadPcs, MemTable
    <3>. QED  BY <2>1, <2>2, <2>3, <3>1, PassesMem DEF MemTable, MemBits, Applied
  <2>4. CASE b # NONE
    <3>1. b \in Blocks /\ b \notin MemBits
      BY <2>1, <2>4, LowestFree DEF MemBits
    <3>2. y \in Files
      BY <1>1, <2>2, FileOf DEF ReqPcs
    <3>3. MemTable' = [MemTable EXCEPT ![y] = b] /\ MemBits' = MemBits \cup {b}
      BY <2>1, <2>4 DEF TypeOK, MemTable, MemBits
    <3>4. MemTable'[y] = b /\ \A x \in Files \ {y} : MemTable'[x] = MemTable[x]
      BY <3>2, <3>3 DEF TypeOK, MemTable
    <3>5. Works(t, y) /\ pc'[t] = "inode"
      BY <1>1, <1>2, <2>1, <2>2, <2>4, <3>1, <3>4, StepWorks DEF Goto, ReqPcs, ThreadPcs
    <3>. QED  BY <2>2, <3>1, <3>2, <3>3, <3>4, <3>5, AllocMem DEF Applied
  <2>. QED  BY <2>3, <2>4
<1>6. CASE InodeSync(t)
  <2>1. /\ pc[t] = "inode" /\ pc' = [pc EXCEPT ![t] = "commit"]
        /\ UNCHANGED <<bits, log, home, file>> /\ crossed \subseteq crossed'
    BY <1>6 DEF InodeSync, Goto, Cross
  <2>2. MemTable' = MemTable
    BY <1>6 DEF InodeSync, TypeOK, MemTable
  <2>3. y \in Files /\ MemTable[y] # NONE
    BY <1>1, <2>1, FileOf DEF ReqPcs, MemTable
  <2>4. Works(t, y) /\ pc'[t] = "commit"
    BY <1>1, <1>2, <2>1, <2>2, <2>3, StepWorks DEF ReqPcs, ThreadPcs
  <2>. QED  BY <2>1, <2>2, <2>3, <2>4, PassesMem DEF MemBits, Applied
<1>7. CASE Commit(t)
  <2>1. /\ pc[t] = "commit" /\ pc' = [pc EXCEPT ![t] = "apply"]
        /\ log' = {e \in log : e[1] # MemTable[y]} \cup {<<MemTable[y], y>>}
        /\ UNCHANGED <<bits, table, home, file, crossed>>
    BY <1>7 DEF Commit, Goto, ghostVars, MemTable
  <2>2. y \in Files /\ MemTable[y] \in Blocks
    BY <1>1, <2>1, FileOf DEF ReqPcs, MemTable
  <2>3. Works(t, y) /\ pc'[t] = "apply"
    BY <1>1, <1>2, <2>1, <2>2, StepWorks DEF ReqPcs, ThreadPcs, MemTable
  <2>4. Applied' = [Applied EXCEPT ![MemTable[y]] = y]
    BY <2>1, <2>2, LogGets
  <2>. QED  BY <2>1, <2>2, <2>3, <2>4, CommitMem DEF MemBits, MemTable
<1>8. CASE CommitFails(t)
  <2>1. /\ pc[t] = "commit" /\ pc' = [pc EXCEPT ![t] = "idle"] /\ file' = [file EXCEPT ![t] = NONE]
        /\ UNCHANGED <<bits, table, log, home>> /\ crossed' = crossed \cup {"failed"}
    BY <1>8 DEF CommitFails, Return, Goto, Cross, stateVars
  <2>2. Works(t, y) /\ pc'[t] = "idle" /\ y \in Files
    BY <1>1, <1>2, <2>1, StepWorks DEF ReqPcs, ThreadPcs, MemTable
  <2>. QED  BY <2>1, <2>2, PassesMem DEF MemTable, MemBits, Applied
<1>9. CASE Apply(t)
  <2>1. /\ pc[t] = "apply" /\ pc' = [pc EXCEPT ![t] = "idle"] /\ file' = [file EXCEPT ![t] = NONE]
        /\ UNCHANGED <<bits, table, crossed>>
        /\ \/ home' = Applied /\ log' = {}
           \/ UNCHANGED <<home, log>>
    BY <1>9 DEF Apply, Return, Goto, ghostVars
  <2>2. Works(t, y) /\ pc'[t] = "idle" /\ y \in Files
    BY <1>1, <1>2, <2>1, StepWorks DEF ReqPcs, ThreadPcs, MemTable
  <2>3. Applied' = Applied
    BY <2>1 DEF Applied
  <2>. QED  BY <2>1, <2>2, <2>3, PassesMem DEF MemTable, MemBits
<1>10. CASE FreeBlock(t)
  <2>1. /\ pc[t] = "free" /\ pc' = [pc EXCEPT ![t] = "clear"]
        /\ UNCHANGED <<table, log, home, file>> /\ crossed \subseteq crossed'
    BY <1>10 DEF FreeBlock, Goto, Cross
  <2>2. MemBits' = MemBits \ {MemTable[y]}
    BY <1>10 DEF FreeBlock, TypeOK, MemBits, MemTable
  <2>3. y \in Files /\ MemTable[y] # NONE
    BY <1>1, <2>1, FileOf DEF ReqPcs, MemTable
  <2>4. Works(t, y) /\ pc'[t] = "clear"
    BY <1>1, <1>2, <2>1, <2>3, StepWorks DEF ReqPcs, ThreadPcs, MemTable
  <2>. QED  BY <2>1, <2>2, <2>3, <2>4, FreeMem DEF MemTable, Applied
<1>11. CASE ClearInode(t)
  <2>1. /\ pc[t] = "clear" /\ pc' = [pc EXCEPT ![t] = "idle"] /\ file' = [file EXCEPT ![t] = NONE]
        /\ UNCHANGED <<bits, log, home, crossed>>
    BY <1>11 DEF ClearInode, Return, Goto, ghostVars
  <2>2. y \in Files
    BY <1>1, <2>1, FileOf DEF ReqPcs
  <2>3. MemTable' = [MemTable EXCEPT ![y] = NONE]
    BY <1>11 DEF ClearInode, TypeOK, MemTable
  <2>4. MemTable'[y] = NONE /\ \A x \in Files \ {y} : MemTable'[x] = MemTable[x]
    BY <2>2, <2>3 DEF TypeOK, MemTable
  <2>5. Works(t, y) /\ pc'[t] = "idle"
    BY <1>1, <1>2, <2>1, <2>4, StepWorks DEF ReqPcs, ThreadPcs
  <2>. QED  BY <2>1, <2>2, <2>4, <2>5, ClearMem DEF MemBits, Applied
<1>. QED  BY <1>3, <1>4, <1>5, <1>6, <1>7, <1>8, <1>9, <1>10, <1>11 DEF Requests, Write, Remove

\* No step of a sync or of the checkpoint thread changes memory, nor does what
\* is applied change by its application.
LEMMA SyncMem ==
  ASSUME TypeOK, LifeInv, MemInv, NEW t \in Actors, Sync(t)
  PROVE  MemInv'
<1>1. Main \in Actors
  BY DEF Actors
<1>2. UNCHANGED file /\ crossed \subseteq crossed'
  BY DEF Sync, Checkpoint, CheckpointFails, ExtentSeek, ExtentWrite, ExtentFails, SyncInodes, SyncBitmap,
     SyncBitmapFails,
         FlushBegin, FlushBlock, FlushEnd, FlushFails, ghostVars, Cross
<1>3. MemTable' = MemTable /\ MemBits' = MemBits
  BY DEF TypeOK, MemTable, MemBits, stateVars, Sync, Checkpoint, CheckpointFails, ExtentSeek, ExtentWrite,
         ExtentFails, SyncInodes, SyncBitmap, SyncBitmapFails, FlushBegin, FlushBlock, Flush, FlushEnd, FlushFails
<1>4. Applied' = Applied
  BY DEF Applied, stateVars, Sync, Checkpoint, CheckpointFails, ExtentSeek, ExtentWrite,
         ExtentFails, SyncInodes, SyncBitmap, SyncBitmapFails, FlushBegin, FlushBlock, FlushEnd, FlushFails
<1>5. pc[t] \notin ReqPcs \cup {"down"}
  BY DEF ReqPcs, Sync, Checkpoint, CheckpointFails, ExtentSeek, ExtentWrite,
         ExtentFails, SyncInodes, SyncBitmap, SyncBitmapFails, FlushBegin, FlushBlock, FlushEnd, FlushFails
<1>6. UNCHANGED pc \/ \E p \in ActorPcs \ ReqPcs : pc' = [pc EXCEPT ![t] = p]
  BY DEF ActorPcs, ReqPcs, Sync, Checkpoint, CheckpointFails, ExtentSeek, ExtentWrite, Goto, Abandon,
         ExtentFails, SyncInodes, SyncBitmap, SyncBitmapFails, FlushBegin, FlushBlock, FlushEnd, FlushFails
<1>7. (\A u \in Threads : \A p \in ReqPcs : pc'[u] = p <=> pc[u] = p) /\ (Down => Down')
  BY <1>1, <1>5, <1>6 DEF ReqPcs, TypeOK, Actors, Down
<1>. QED  BY <1>2, <1>3, <1>4, <1>7, MemStays DEF MemRests

\* The checkpoint thread's own steps, and mkfs's.
LEMMA OtherMem ==
  ASSUME TypeOK, LifeInv, MemInv,
         \/ TimerStep \/ Stop \/ Join \/ DropRust \/ Close \/ MountRecover \/ MountStart \/ MountFails
         \/ (Format /\ UNCHANGED <<stateVars, at, lifeVars, pc, file, ghostVars, used>>)
  PROVE  MemInv'
<1>1. Main \in Actors /\ Timer \in Actors /\ Main \notin Threads /\ Timer \notin Threads
  BY DEF Actors
<1>2. UNCHANGED file /\ crossed \subseteq crossed'
  BY DEF TimerStep, TimerWait, TimerWakes, TimerCheck, Stop, Join, DropRust, Close, MountRecover, MountStart,
         MountFails, ghostVars, Cross
<1>3. MemTable' = MemTable /\ MemBits' = MemBits
  BY DEF TypeOK, MemTable, MemBits, stateVars, TimerStep, TimerWait, TimerWakes, TimerCheck, Stop, Join,
         DropRust, Close, MountRecover, MountStart, MountFails
<1>4. Applied' = Applied
  BY DEF Applied, stateVars, TimerStep, TimerWait, TimerWakes, TimerCheck, Stop, Join,
         DropRust, Close, MountRecover, MountStart, MountFails
<1>5. \A u \in Threads : pc'[u] = pc[u]
  BY <1>1 DEF TypeOK, Actors, Goto, SyncStart, TimerStep, TimerWait, TimerWakes, TimerCheck, Stop, Join,
     DropRust, Close, MountRecover, MountStart, MountFails
<1>6. Down => Down'
  BY <1>1 DEF Down, Up, TypeOK, Goto, SyncStart, TimerStep, TimerWait, TimerWakes, TimerCheck, Stop, Join,
     DropRust, Close, MountRecover, MountStart, MountFails
<1>. QED  BY <1>2, <1>3, <1>4, <1>5, <1>6, MemStays DEF MemRests

\* Mount finds on the disk what memory had, and loads it.
LEMMA LoadMem ==
  ASSUME TypeOK, LifeInv, MemInv, AtRest, MountLoad
  PROVE  MemInv'
<1>1. Main \in Actors /\ Main \notin Threads
  BY DEF Actors
<1>2. UNCHANGED <<file, crossed, log, home>> /\ Within(Damage) /\ pc[Main] = "down"
      /\ pc' = [pc EXCEPT ![Main] = "recover"]
  BY DEF MountLoad, ghostVars, Goto
<1>3. MemTable' = DiskTable /\ MemBits' = DiskBits
  BY DEF MountLoad, TypeOK, MemTable, MemBits, DiskTable, DiskBits
<1>4. MemTable = DiskTable /\ MemBits = DiskBits
  BY <1>2 DEF AtRest, Within, Damage
<1>5. \A u \in Threads : pc'[u] = pc[u]
  BY <1>1, <1>2 DEF TypeOK, Actors
<1>. QED  BY <1>2, <1>3, <1>4, <1>5, MemStays DEF MemRests, Applied

\* A crash leaves what the disk has.
LEMMA CrashMem ==
  ASSUME TypeOK, LifeInv, LifeInv', MemInv, DiskSound, Clean, Crash
  PROVE  MemInv'
<1>1. MemTable' = DiskTable /\ MemBits' = DiskBits
  BY DEF Crash, TypeOK, MemTable, MemBits, DiskTable, DiskBits
<1>2. \A u \in Threads : pc'[u] = "idle" /\ file'[u] = NONE
  BY DEF Crash, Actors
<1>3. Held'
  BY <1>2 DEF Held, ReqPcs
<1>4. crossed \subseteq crossed' /\ risk \subseteq crossed'
  BY DEF Crash, Cross
<1>5. Within(Damage)' => Covers(DiskTable, DiskBits)
  BY <1>4 DEF DiskSound, Clean, Within, Damage
<1>6. pc'[Main] = "down"
  BY DEF Crash, Actors
<1>7. MemOwned'
  BY <1>1, <1>5, <1>6 DEF MemOwned, Covers, Down
<1>8. ASSUME Within(Limits)', NEW x \in Files, DiskTable[x] # NONE
      PROVE  Applied[DiskTable[x]] = x
  <2>1. \A z \in Files : ~(Misplaced(z) /\ Early(z)) /\ ~(Misplaced(z) /\ Reused(z))
    BY <1>8 DEF Crash, Cross, Within, Limits
  <2>. SUFFICES ASSUME Misplaced(x) PROVE FALSE
    BY <1>8 DEF Misplaced, DiskTable
  <2>2. DiskTable[x] = MemTable[x] /\ ~Unsettled(x)
    BY <2>1 DEF Early, Reused, Unsettled, DiskTable, MemTable
  <2>. QED  BY <1>4, <1>8, <2>2 DEF MemInv, MemInPlace, Within, Misplaced, DiskTable
<1>9. Applied' = Applied
  BY DEF Crash, Applied
<1>10. MemInPlace'
  BY <1>1, <1>8, <1>9 DEF MemInPlace
<1>. QED  BY <1>3, <1>7, <1>10 DEF MemInv

(***************************************************************************)
(* The cache and the disk: syncs, flushes and crashes.                     *)
(***************************************************************************)

DiskInv == Clean /\ AtRest /\ Looked /\ Copied /\ Closing /\ DiskSound

Resting == {"down", "recover", "extent"}
Looking == {"bitmap", "balloc"}
Copying == {"flush", "flushing", "close"}

\* Who can be where.
LEMMA WhoIsWhere ==
  ASSUME LifeInv
  PROVE  /\ Main \in Actors /\ Timer \in Actors /\ Threads \subseteq Actors
         /\ \A u \in Actors \ {Main} : pc[u] \notin {"icache", "balloc", "close"}
         /\ pc[Timer] \notin {"inodes", "bitmap", "flush", "flushing"}
         /\ pc[Main] \notin {"serve", "join"} =>
              \A u \in Actors \ {Main} : pc[u] \notin ReqPcs \cup SyncPcs
         /\ \A u \in Actors \ {Main} : pc[u] \in SyncPcs => pc[Main] \in {"serve", "join"}
BY DEF LifeInv, Places, Actors, ThreadPcs, TimerPcs, SyncPcs, ReqPcs

\* A step that leaves cache and disk alone.
DiskRests ==
  /\ UNCHANGED <<CacheTable, DiskTable, CacheBits, DiskBits, dirty, missed, risk>>
  /\ crossed \subseteq crossed'
  /\ \A u \in Actors : /\ pc'[u] \in Looking => pc[u] \in Looking
                       /\ pc'[u] \in Copying => pc[u] \in Copying
  /\ \A p \in {"balloc", "close"} : pc'[Main] = p => pc[Main] = p
  /\ pc'[Main] \in Resting => pc[Main] \in Resting

\* And memory as well.
LEMMA DiskStays ==
  ASSUME DiskInv, DiskRests, MemTable' = MemTable, MemBits' = MemBits, \A x \in Files : Clearing(x)' => Clearing(x)
  PROVE  DiskInv'
<1>. USE DEF DiskInv, DiskRests
<1>1. Clean'
  BY DEF Clean, Within
<1>2. AtRest'
  BY DEF AtRest, Within, Resting
<1>3. Looked'
  BY DEF Looked, Within, Looking
<1>4. Copied'
  BY DEF Copied, Within, Copying, Covers
<1>5. Closing'
  BY DEF Closing, Within
<1>6. DiskSound'
  BY DEF DiskSound, Within, Covers
<1>. QED  BY <1>1, <1>2, <1>3, <1>4, <1>5, <1>6

\* What a request does in memory moves no inode that is cached, or crosses the
\* limit while a sync is looking.
LEMMA DiskBeside ==
  ASSUME DiskInv, DiskRests, pc'[Main] = "serve",
         \/ "moved" \in crossed'
         \/ \A u \in Actors : pc[u] \notin Looking
         \/ \A x \in Files : CacheTable[x] # NONE /\ MemTable[x] = CacheTable[x] /\ ~Clearing(x) =>
                               MemTable'[x] = CacheTable[x] /\ ~Clearing(x)'
  PROVE  DiskInv'
<1>. USE DEF DiskInv, DiskRests
<1>1. Clean'
  BY DEF Clean, Within
<1>2. AtRest'
  BY DEF AtRest
<1>3. Looked'
  BY DEF Looked, Within, Looking
<1>4. Copied'
  BY DEF Copied, Within, Copying, Covers
<1>5. Closing'
  BY DEF Closing, Within
<1>6. DiskSound'
  BY DEF DiskSound, Within, Covers
<1>. QED  BY <1>1, <1>2, <1>3, <1>4, <1>5, <1>6

\* Requests: only inode_sync writes to the cache, and it leaves alone what a flush
\* is about to write.
LEMMA RequestDisk ==
  ASSUME TypeOK, LifeInv, MemInv, DiskInv, NEW t \in Threads, Requests(t) \/ Write(t) \/ Remove(t)
  PROVE  DiskInv'
<1>. DEFINE y == file[t]
<1>1. t \in Actors /\ t # Main /\ Main \in Actors /\ Held
  BY DEF Actors, MemInv
<1>2. pc[Main] = "serve"
  BY DEF LifeInv, Up, Requests, Write, Remove, FsyncBegin, WriteBegin, RemoveBegin, Request, Alloc,
         InodeSync, Commit, CommitFails, Apply, FreeBlock, ClearInode
<1>3. PICK p \in ThreadPcs \ {"bitmap", "flush", "flushing"} : pc' = [pc EXCEPT ![t] = p]
  BY DEF Goto, Requests, Write, Remove, FsyncBegin, WriteBegin, RemoveBegin, SyncStart, Alloc, Return,
         InodeSync, Commit, CommitFails, Apply, FreeBlock, ClearInode, ThreadPcs
<1>4. /\ pc'[Main] = "serve" /\ pc'[t] = p
      /\ \A u \in Actors : /\ pc'[u] \in Looking => pc[u] \in Looking
                           /\ pc'[u] \in Copying => pc[u] \in Copying
  BY <1>1, <1>2, <1>3 DEF TypeOK, Looking, Copying, ThreadPcs
<1>5. /\ ~InodeSync(t) => UNCHANGED <<CacheTable, DiskTable, CacheBits, DiskBits, dirty, missed, risk>>
      /\ crossed \subseteq crossed'
  BY DEF TypeOK, CacheTable, DiskTable, CacheBits, DiskBits, stateVars, ghostVars, Cross, Return, Requests, Write,
         Remove, FsyncBegin, WriteBegin, RemoveBegin, Request, Alloc, InodeSync, Commit, CommitFails, Apply,
         FreeBlock, ClearInode
<1>6. ~InodeSync(t) => DiskRests
  BY <1>2, <1>4, <1>5 DEF DiskRests, Resting
<1>7. ASSUME NEW x \in Files, pc'[t] # "clear" PROVE Clearing(x)' => Clearing(x)
  <2>1. \A u \in Threads \ {t} : pc'[u] = pc[u] /\ file'[u] = file[u]
    BY <1>1, <1>3 DEF TypeOK, Actors, Requests, Write, Remove, FsyncBegin, WriteBegin, RemoveBegin, Request, Alloc,
         Return, InodeSync, Commit, CommitFails, Apply, FreeBlock, ClearInode
  <2>. QED  BY <1>7, <2>1 DEF Clearing
<1>8. CASE MemTable' = MemTable /\ ~InodeSync(t) /\ ~FreeBlock(t)
  <2>1. pc'[t] # "clear"
    BY <1>1, <1>8 DEF TypeOK, Goto, Requests, Write, Remove, FsyncBegin, WriteBegin, RemoveBegin, SyncStart, Alloc,
         Return, Commit, CommitFails, Apply, ClearInode
  <2>. QED  BY <1>4, <1>6, <1>7, <1>8, <2>1, DiskBeside
<1>9. CASE Alloc(t) \/ ClearInode(t)
  <2>1. pc'[t] # "clear"
    BY <1>1, <1>9 DEF TypeOK, Goto, Alloc, Return, ClearInode
  <2>2. y \in Files /\ ((pc[t] = "alloc" /\ MemTable[y] = NONE) \/ Clearing(y))
    BY <1>1, <1>9, FileOf DEF Alloc, ClearInode, Held, ReqPcs, Clearing
  <2>3. \A x \in Files \ {y} : MemTable'[x] = MemTable[x]
    BY <1>9, <2>2 DEF Alloc, ClearInode, TypeOK, MemTable
  <2>4. ~InodeSync(t)
    BY <1>9 DEF Alloc, ClearInode, InodeSync
  <2>. QED  BY <1>4, <1>6, <1>7, <2>1, <2>2, <2>3, <2>4, DiskBeside
<1>10. CASE FreeBlock(t)
  <2>1. "moved" \in crossed' \/ \A u \in Actors : pc[u] \notin Looking
    BY <1>2, <1>10, WhoIsWhere DEF FreeBlock, Cross, Looking
  <2>2. ~InodeSync(t)
    BY <1>10 DEF FreeBlock, InodeSync
  <2>. QED  BY <1>4, <1>6, <2>1, <2>2, DiskBeside
<1>11. CASE InodeSync(t)
  <2>1. /\ pc[t] = "inode" /\ p = "commit" /\ CacheFree
        /\ UNCHANGED <<bits, risk, file>>
    BY <1>1, <1>4, <1>11 DEF InodeSync, Goto, TypeOK
  <2>2. y \in Files /\ \A x \in Files : Clearing(x)' => Clearing(x)
    BY <1>1, <1>4, <1>7, <2>1, FileOf DEF ReqPcs
  <2>3. CASE UNCHANGED <<table, dirty, missed, crossed>>
    <3>1. DiskRests
      BY <1>2, <1>4, <2>1, <2>3 DEF DiskRests, Resting, CacheTable, DiskTable, CacheBits, DiskBits
    <3>. QED  BY <1>4, <2>2, <2>3, <3>1, DiskBeside DEF MemTable
  <2>4. CASE ~UNCHANGED <<table, dirty, missed, crossed>>
    <3>1. /\ dirty' = dirty \cup {"table"} /\ missed' = missed \ {y}
          /\ "moved" \in crossed' \/ \A u \in Actors : pc[u] # "flush"
      BY <1>11, <2>4 DEF InodeSync, Cross
    <3>2. CacheTable' = [CacheTable EXCEPT ![y] = MemTable[y]] /\ DiskTable' = DiskTable /\ MemTable' = MemTable
      BY <1>11, <2>2, <2>4 DEF InodeSync, TypeOK, CacheTable, MemTable, DiskTable
    <3>3. ~Clearing(y)
      BY <1>1, <2>1 DEF Clearing, Held, ReqPcs
    <3>4. Looked'
      BY <1>4, <1>5, <2>2, <3>1, <3>2, <3>3 DEF DiskInv, Looked, Looking, Within, TypeOK, CacheTable
    <3>5. Copied'
      BY <1>2, <1>4, <2>1, <3>1, WhoIsWhere DEF Copied, Copying, CacheFree, Within
    <3>6. Clean' /\ DiskSound'
      BY <1>5, <2>1, <3>1, <3>2 DEF DiskInv, Clean, DiskSound, Within, DiskBits, CacheBits
    <3>7. AtRest' /\ Closing'
      BY <1>4 DEF AtRest, Closing
    <3>. QED  BY <3>4, <3>5, <3>6, <3>7 DEF DiskInv
  <2>. QED  BY <2>3, <2>4
<1>12. MemTable' = MemTable \/ Alloc(t) \/ ClearInode(t)
  BY DEF MemTable, TypeOK, stateVars, Requests, Write, Remove, FsyncBegin, WriteBegin, RemoveBegin, Request,
         InodeSync, Commit, CommitFails, Apply, FreeBlock
<1>. QED  BY <1>8, <1>9, <1>10, <1>11, <1>12

\* Syncs: what they have looked at and copied fits when it is flushed.
LEMMA SyncDisk ==
  ASSUME TypeOK, LifeInv, MemInv, DiskInv, NEW t \in Actors, Sync(t)
  PROVE  DiskInv'
<1>1. Main \in Actors /\ Threads \subseteq Actors
  BY DEF Actors
<1>2. pc[t] \in SyncPcs \cup {"icache", "balloc", "close"}
  BY DEF SyncPcs, Sync, Checkpoint, CheckpointFails, ExtentSeek, ExtentWrite, ExtentFails, SyncInodes,
         SyncBitmap, SyncBitmapFails, FlushBegin, FlushBlock, FlushEnd, FlushFails
<1>3. pc[Main] \notin Resting
  BY <1>2, WhoIsWhere DEF Resting, SyncPcs
<1>4. UNCHANGED pc \/ \E p \in ActorPcs \ (ReqPcs \cup Resting) : pc' = [pc EXCEPT ![t] = p]
  BY DEF ActorPcs, ReqPcs, Resting, Sync, Checkpoint, CheckpointFails, ExtentSeek, ExtentWrite, Goto, Abandon,
         ExtentFails, SyncInodes, SyncBitmap, SyncBitmapFails, FlushBegin, FlushBlock, FlushEnd, FlushFails
<1>5. MemTable' = MemTable /\ MemBits' = MemBits /\ file' = file /\ crossed \subseteq crossed'
  BY DEF TypeOK, MemTable, MemBits, stateVars, Sync, Checkpoint, CheckpointFails, ExtentSeek, ExtentWrite,
         ExtentFails, SyncInodes, SyncBitmap, SyncBitmapFails, FlushBegin, FlushBlock, Flush, FlushEnd, FlushFails,
         Cross, ghostVars
<1>6. /\ \A u \in Actors \ {t} : pc'[u] = pc[u]
      /\ pc'[t] = pc[t] \/ pc'[t] \notin ReqPcs \cup Resting
      /\ pc[t] \notin ReqPcs
  BY <1>2, <1>4 DEF TypeOK, ReqPcs, SyncPcs
<1>7. \A x \in Files : Clearing(x)' => Clearing(x)
  BY <1>1, <1>5, <1>6 DEF Clearing, ReqPcs
<1>8. AtRest'
  BY <1>1, <1>3, <1>6 DEF AtRest, Resting
<1>9. CASE UNCHANGED <<bits, table, dirty, missed, risk>>
           /\ (pc'[t] \in Copying => pc[t] \in Copying) /\ pc'[t] \notin {"bitmap", "balloc", "close"}
  <2>1. DiskRests
    BY <1>1, <1>3, <1>5, <1>6, <1>9 DEF DiskRests, Looking, Copying, Resting, CacheTable, DiskTable, CacheBits,
       DiskBits
  <2>. QED  BY <1>5, <1>7, <2>1, DiskStays
<1>10. CASE Checkpoint(t) \/ CheckpointFails(t) \/ ExtentSeek(t) \/ ExtentFails(t) \/ FlushBegin(t)
            \/ FlushEnd(t) \/ FlushFails(t)
  <2>1. UNCHANGED <<bits, table, dirty, missed, risk>>
    BY <1>10 DEF Checkpoint, CheckpointFails, ExtentSeek, ExtentFails, FlushBegin, FlushEnd, FlushFails, stateVars,
       ghostVars
  <2>2. (pc'[t] \in Copying => pc[t] \in Copying) /\ pc'[t] \notin {"bitmap", "balloc", "close"}
    BY <1>1, <1>10 DEF Checkpoint, CheckpointFails, ExtentSeek, ExtentFails, FlushBegin, FlushEnd, FlushFails,
       Abandon, Goto, Copying, TypeOK
  <2>. QED  BY <1>9, <2>1, <2>2
<1>11. CASE ExtentWrite(t)
  <2>1. pc[t] = "write" /\ pc'[t] \in {"start", "inodes"}
    BY <1>1, <1>11 DEF ExtentWrite, Goto, TypeOK
  <2>2. CASE at # "bitmap" \/ bits["disk"] = bits["copy"]
    <3>1. UNCHANGED <<bits, table, dirty, missed, risk>>
      <4>1. CASE at # "bitmap"
        BY <1>11, <4>1 DEF ExtentWrite
      <4>2. CASE at = "bitmap" /\ bits["disk"] = bits["copy"]
        <5>1. /\ bits' = [bits EXCEPT !["disk"] = bits["disk"]] /\ risk' = risk \cup {}
              /\ UNCHANGED <<table, dirty, missed>>
          BY <1>11, <4>2 DEF ExtentWrite
        <5>. QED  BY <5>1 DEF TypeOK
      <4>. QED  BY <2>2, <4>1, <4>2
    <3>. QED  BY <1>9, <2>1, <3>1 DEF Copying
  <2>3. CASE at = "bitmap" /\ bits["disk"] # bits["copy"]
    <3>1. /\ CacheBits' = CacheBits /\ "stale" \in risk' /\ risk' \subseteq risk \cup {"stale"} /\ risk \subseteq risk'
          /\ UNCHANGED <<table, dirty, missed>>
      BY <1>11, <2>3 DEF ExtentWrite, TypeOK, CacheBits
    <3>2. Clean' /\ DiskSound'
      BY <1>5, <3>1 DEF DiskInv, Clean, DiskSound, Within, CacheTable, DiskTable
    <3>3. pc[Main] \notin {"balloc", "close"} /\ pc'[Main] \notin {"balloc", "close"}
      BY <1>6, <2>1, WhoIsWhere DEF SyncPcs
    <3>4. Closing'
      BY <3>3 DEF Closing
    <3>5. Looked' /\ Copied'
      BY <1>5, <1>6, <1>7, <2>1, <3>1 DEF DiskInv, Looked, Copied, Within, CacheTable, Covers
    <3>. QED  BY <1>8, <3>2, <3>4, <3>5 DEF DiskInv
  <2>. QED  BY <2>2, <2>3
<1>12. CASE SyncInodes(t)
  <2>1. /\ DiskTable' = DiskTable /\ UNCHANGED bits /\ dirty \subseteq dirty'
        /\ (dirty' = dirty \/ dirty' = dirty \cup {"table"})
        /\ "moved" \in crossed' \/ \A u \in Actors : pc[u] \notin {"flush", "clear"}
        /\ pc[t] \in {"inodes", "icache"} /\ CacheFree /\ pc'[t] \in Looking
    BY <1>1, <1>12 DEF SyncInodes, TypeOK, DiskTable, Cross, Goto, Looking
  <2>2. /\ \A x \in Files \ missed' : CacheTable'[x] = MemTable[x]
        /\ risk' = IF missed' = {} THEN risk ELSE risk \cup {"unsynced"}
    BY <1>12 DEF SyncInodes, TypeOK, CacheTable, MemTable
  <2>3. CacheTable' = CacheTable \/ "table" \in dirty'
    BY <1>12 DEF SyncInodes, CacheTable
  <2>4. t # Main => pc[Main] \in {"serve", "join"}
    BY <2>1, WhoIsWhere DEF SyncPcs
  <2>5. Clean' /\ DiskSound'
    BY <1>5, <2>1, <2>2, <2>3 DEF DiskInv, Clean, DiskSound, Within, CacheBits, DiskBits
  <2>6. Looked'
    <3>1. "moved" \notin crossed' => \A x \in Files : ~Clearing(x)
      BY <1>1, <2>1 DEF Clearing
    <3>. QED  BY <1>5, <1>7, <2>2, <3>1 DEF Looked, Within
  <2>7. Copied'
    <3>1. "moved" \notin crossed' => \A u \in Actors : pc'[u] \notin Copying
      BY <1>6, <2>1, <2>4, WhoIsWhere DEF CacheFree, Copying, Looking
    <3>. QED  BY <3>1 DEF Copied, Copying, Within
  <2>8. Closing'
    BY <1>1, <1>5, <1>6, <2>1, <2>2, <2>4 DEF Closing, Looking
  <2>. QED  BY <1>8, <2>5, <2>6, <2>7, <2>8 DEF DiskInv
<1>13. pc[t] \in Looking /\ "moved" \notin crossed /\ missed = {} => Covers(CacheTable, MemBits)
  <2>. SUFFICES ASSUME pc[t] \in Looking, "moved" \notin crossed, missed = {} PROVE Covers(CacheTable, MemBits)
    OBVIOUS
  <2>1. \A x \in Files : CacheTable[x] # NONE => MemTable[x] = CacheTable[x] /\ ~Clearing(x)
    BY DEF DiskInv, Looked, Looking, Within
  <2>2. ~Down
    BY <1>3 DEF Down, Resting
  <2>. QED  BY <2>1, <2>2 DEF MemInv, MemOwned, Covers
<1>14. CASE SyncBitmap(t)
  <2>1. /\ CacheBits' = MemBits /\ DiskBits' = DiskBits /\ UNCHANGED <<table, missed, risk, crossed>>
        /\ dirty' = dirty \cup {"bitmap"} /\ pc[t] \in Looking /\ pc'[t] \in {"flush", "close"}
    BY <1>1, <1>14 DEF SyncBitmap, TypeOK, CacheBits, DiskBits, MemBits, Goto, Looking, ghostVars
  <2>2. "moved" \notin crossed /\ missed = {} => Covers(CacheTable, MemBits)
    BY <1>13, <2>1
  <2>3. Clean' /\ DiskSound'
    BY <2>1 DEF DiskInv, Clean, DiskSound, Within, CacheTable, DiskTable
  <2>4. Looked'
    BY <1>5, <1>6, <1>7, <2>1 DEF DiskInv, Looked, Within, CacheTable
  <2>5. Copied'
    BY <2>1, <2>2 DEF Copied, Covers, CacheTable, Within
  <2>7. t # Main => pc[Main] \in {"serve", "join"}
    BY <2>1, WhoIsWhere DEF SyncPcs, Looking
  <2>8. Closing'
    <3>1. pc'[Main] = "balloc" => pc[Main] = "balloc"
      BY <1>1, <1>6, <2>1
    <3>2. pc'[Main] = "close" => t = Main /\ pc[Main] = "balloc"
      BY <1>1, <1>6, <1>14, <2>1, <2>7 DEF SyncBitmap, Goto, TypeOK
    <3>3. CacheTable' = CacheTable
      BY <2>1 DEF CacheTable
    <3>. QED  BY <1>5, <2>1, <3>1, <3>2, <3>3 DEF DiskInv, Closing
  <2>. QED  BY <1>8, <2>3, <2>4, <2>5, <2>8 DEF DiskInv
<1>15. CASE SyncBitmapFails(t)
  <2>1. PICK written \in SUBSET Blocks : CacheBits' = (CacheBits \ written) \cup (MemBits \cap written)
                                       /\ (written # {} => "bitmap" \in dirty')
    BY <1>15 DEF SyncBitmapFails, TypeOK, CacheBits, MemBits
  <2>2. /\ DiskBits' = DiskBits /\ UNCHANGED <<table, missed, risk>> /\ dirty \subseteq dirty'
        /\ dirty' \subseteq dirty \cup {"bitmap"} /\ pc[t] \in Looking
    BY <1>15 DEF SyncBitmapFails, TypeOK, DiskBits, Looking
  <2>3. CASE pc[t] = "bitmap"
    <3>1. pc'[t] \in {"drop", "idle", "seek"} /\ crossed' = crossed
      BY <1>1, <1>15, <2>3 DEF SyncBitmapFails, Abandon, Goto, TypeOK
    <3>2. Clean' /\ DiskSound'
      BY <2>1, <2>2, <3>1 DEF DiskInv, Clean, DiskSound, Within, CacheTable, DiskTable
    <3>3. Looked'
      BY <1>5, <1>6, <1>7, <2>2, <3>1 DEF DiskInv, Looked, Within, CacheTable
    <3>4. Copied'
      <4>. SUFFICES ASSUME Within({"moved", "unflushed"})', missed' = {}, NEW u \in Actors, pc'[u] \in Copying
                    PROVE  Covers(CacheTable, CacheBits)'
        BY DEF Copied, Copying
      <4>1. Covers(CacheTable, MemBits) /\ Covers(CacheTable, CacheBits)
        BY <1>6, <1>13, <2>2, <3>1 DEF DiskInv, Copied, Copying, Within
      <4>2. CacheTable' = CacheTable
        BY <2>2 DEF CacheTable
      <4>3. Covers(CacheTable, (CacheBits \ written) \cup (MemBits \cap written))
        BY <4>1 DEF Covers
      <4>. QED  BY <2>1, <4>2, <4>3 DEF Covers
    <3>5. Closing'
      BY <1>1, <1>6, <2>3, <3>1, WhoIsWhere DEF Closing, SyncPcs
    <3>. QED  BY <1>8, <3>2, <3>3, <3>4, <3>5 DEF DiskInv
  <2>4. CASE pc[t] = "balloc"
    <3>1. t = Main /\ pc'[t] = "close" /\ crossed' = crossed \cup {"unflushed"}
      BY <1>1, <1>15, <2>4, WhoIsWhere DEF SyncBitmapFails, Cross, Goto, TypeOK
    <3>2. Clean' /\ DiskSound' /\ Copied'
      BY <2>1, <2>2, <3>1 DEF DiskInv, Clean, DiskSound, Copied, Within, CacheTable, DiskTable, Damage
    <3>3. Looked'
      BY <1>5, <1>6, <1>7, <2>2, <3>1 DEF DiskInv, Looked, Within, CacheTable
    <3>4. Closing'
      BY <1>5, <2>2, <2>4, <3>1 DEF DiskInv, Closing, Within, CacheTable
    <3>. QED  BY <1>8, <3>2, <3>3, <3>4 DEF DiskInv
  <2>. QED  BY <2>2, <2>3, <2>4 DEF Looking
<1>16. CASE FlushBlock(t)
  <2>1. PICK x \in dirty : Flush(x)
    BY <1>16 DEF FlushBlock
  <2>2. /\ UNCHANGED <<pc, missed, crossed>> /\ dirty' = dirty \ {x} /\ x \in {"bitmap", "table"} /\ pc[t] \in Copying
        /\ CacheTable' = CacheTable /\ CacheBits' = CacheBits
        /\ x = "bitmap" => DiskBits' = CacheBits /\ DiskTable' = DiskTable /\ "stale" \notin risk'
        /\ x = "table" => DiskTable' = CacheTable /\ DiskBits' = DiskBits /\ ("stale" \in risk => "stale" \in risk')
        /\ missed # {} /\ "unsynced" \in risk => "unsynced" \in risk'
        /\ risk' \subseteq risk \cup {"torn"}
        /\ "torn" \in risk' <=> dirty # {x}
    BY <1>16, <2>1 DEF FlushBlock, Flush, TypeOK, CacheTable, CacheBits, DiskTable, DiskBits, Copying
  <2>3. Clean'
    BY <2>2 DEF DiskInv, Clean, Within
  <2>4. Within(Damage)' /\ risk' = {} => Covers(DiskTable', DiskBits')
    <3>. SUFFICES ASSUME Within(Damage)', risk' = {} PROVE Covers(DiskTable', DiskBits')
      OBVIOUS
    <3>1. dirty = {x} /\ Within({"moved", "unflushed"}) /\ Within({"unflushed"}) /\ missed = {}
      BY <2>2 DEF DiskInv, Clean, Within, Damage
    <3>2. Covers(CacheTable, CacheBits)
      BY <2>2, <3>1 DEF DiskInv, Copied, Copying
    <3>3. DiskTable' = CacheTable /\ DiskBits' = CacheBits
      BY <2>2, <3>1 DEF DiskInv, Clean
    <3>. QED  BY <3>2, <3>3
  <2>5. DiskSound'
    BY <2>4 DEF DiskSound, Covers, DiskTable, DiskBits
  <2>6. Looked' /\ Copied'
    BY <1>5, <1>7, <2>2 DEF DiskInv, Looked, Copied, Within, Covers
  <2>7. Closing'
    BY <1>5, <2>2 DEF DiskInv, Closing, Within
  <2>. QED  BY <1>8, <2>3, <2>5, <2>6, <2>7 DEF DiskInv
<1>. QED  BY <1>10, <1>11, <1>12, <1>14, <1>15, <1>16 DEF Sync

\* Mount, unmount and the checkpoint thread.
LEMMA OtherDisk ==
  ASSUME TypeOK, LifeInv, DiskInv,
         \/ TimerStep \/ Stop \/ Join \/ DropRust \/ MountRecover \/ MountStart \/ MountFails
         \/ (Format /\ UNCHANGED <<stateVars, at, lifeVars, pc, file, ghostVars, used>>)
  PROVE  DiskInv'
<1>1. Main \in Actors /\ Timer \in Actors /\ Main \notin Threads /\ Timer \notin Threads /\ Main # Timer
  BY DEF Actors
<1>2. crossed \subseteq crossed' /\ UNCHANGED <<file, dirty, missed, risk>>
  BY DEF TimerStep, TimerWait, TimerWakes, TimerCheck, Stop, Join, DropRust, MountRecover, MountStart,
         MountFails, ghostVars, stateVars, Cross
<1>3. UNCHANGED <<MemTable, MemBits, CacheTable, CacheBits, DiskTable, DiskBits>>
  BY DEF TypeOK, MemTable, MemBits, CacheTable, CacheBits, DiskTable, DiskBits, stateVars, TimerStep, TimerWait,
         TimerWakes, TimerCheck, Stop, Join, DropRust, MountRecover, MountStart, MountFails
<1>4. \A u \in Actors : pc'[u] = pc[u] \/ pc'[u] \notin Looking \cup Copying
  <2>1. CASE Stop
    BY <1>1, <2>1 DEF Looking, Copying, TypeOK, Stop
  <2>2. CASE MountStart
    BY <1>1, <2>2 DEF Looking, Copying, TypeOK, MountStart
  <2>3. CASE ~Stop /\ ~MountStart
    BY <1>1, <2>3 DEF Looking, Copying, TypeOK, Goto, SyncStart, TimerStep, TimerWait, TimerWakes, TimerCheck, Join,
       DropRust, MountRecover, MountFails
  <2>. QED  BY <2>1, <2>2, <2>3
<1>5. pc'[Main] \in Resting => pc[Main] \in Resting
  <2>1. CASE TimerStep
    BY <1>1, <2>1 DEF TypeOK, Goto, TimerStep, TimerWait, TimerWakes, TimerCheck
  <2>2. CASE Stop \/ Join \/ DropRust
    BY <1>1, <2>2 DEF Resting, TypeOK, Goto, SyncStart, Stop, Join, DropRust
  <2>3. CASE ~TimerStep /\ ~Stop /\ ~Join /\ ~DropRust
    BY <2>3 DEF Resting, MountRecover, MountStart, MountFails
  <2>. QED  BY <2>1, <2>2, <2>3
<1>6. \A u \in Threads : pc'[u] = pc[u]
  BY <1>1 DEF TypeOK, Actors, Goto, SyncStart, TimerStep, TimerWait, TimerWakes, TimerCheck, Stop, Join,
     DropRust, MountRecover, MountStart, MountFails
<1>7. DiskRests
  BY <1>1, <1>2, <1>3, <1>4, <1>5 DEF DiskRests, Looking, Copying
<1>. QED  BY <1>2, <1>3, <1>6, <1>7, DiskStays DEF Clearing

\* Mount loads what the disk has, unmount has written what memory had, and a
\* crash leaves what the disk has.
LEMMA EndsDisk ==
  ASSUME TypeOK, LifeInv, LifeInv', DiskInv, MountLoad \/ Close \/ Crash
  PROVE  DiskInv'
<1>1. Main \in Actors /\ Timer \in Actors
  BY DEF Actors
<1>2. pc'[Main] \in Resting
  BY <1>1 DEF MountLoad, Close, Crash, Goto, Resting, TypeOK
<1>3. \A u \in Actors : pc'[u] \notin Looking \cup Copying
  BY <1>2 DEF LifeInv, Places, Actors, Looking, Copying, Resting, ThreadPcs, TimerPcs, MainPcs, SyncPcs
<1>4. Looked' /\ Copied' /\ Closing'
  BY <1>1, <1>3 DEF Looked, Copied, Closing, Looking, Copying
<1>5. CASE MountLoad
  <2>1. /\ DiskTable' = DiskTable /\ CacheTable' = DiskTable /\ MemTable' = DiskTable
        /\ DiskBits' = DiskBits /\ CacheBits' = DiskBits /\ MemBits' = DiskBits
        /\ dirty' = {} /\ UNCHANGED <<missed, risk, crossed>> /\ pc[Main] = "down"
    BY <1>5 DEF MountLoad, TypeOK, MemTable, MemBits, CacheTable, CacheBits, DiskTable, DiskBits, ghostVars
  <2>2. risk = {} /\ missed = {}
    BY <2>1 DEF DiskInv, AtRest, Clean
  <2>3. Clean' /\ AtRest' /\ DiskSound'
    BY <2>1, <2>2 DEF DiskInv, Clean, AtRest, DiskSound, Within
  <2>. QED  BY <1>4, <2>3 DEF DiskInv
<1>6. CASE Close
  <2>1. /\ UNCHANGED <<bits, table, dirty>> /\ risk' = {} /\ missed' = {} /\ pc[Main] = "close"
        /\ \/ dirty = {} /\ crossed' = crossed \cup IF missed = {} THEN {} ELSE {"unsynced"}
           \/ crossed' = crossed \cup ({"unflushed"} \cup risk)
    BY <1>6 DEF Close, Cross, stateVars
  <2>2. CASE dirty = {} /\ crossed' = crossed \cup IF missed = {} THEN {} ELSE {"unsynced"}
    <3>1. DiskTable = CacheTable /\ \A x \in Files \ missed : CacheTable[x] = MemTable[x]
      BY <2>1, <2>2 DEF DiskInv, Clean, Closing
    <3>2. Within({"unflushed"}) => DiskBits = CacheBits /\ DiskBits = MemBits
      BY <2>1, <2>2 DEF DiskInv, Clean, Closing
    <3>3. "unsynced" \notin crossed' => missed = {} /\ DiskTable = MemTable
      <4>. SUFFICES ASSUME "unsynced" \notin crossed' PROVE missed = {} /\ DiskTable = MemTable
        OBVIOUS
      <4>1. missed = {}
        BY <2>2
      <4>2. CacheTable = MemTable
        BY <3>1, <4>1 DEF TypeOK, CacheTable, MemTable
      <4>. QED  BY <3>1, <4>1, <4>2
    <3>4. Clean'
      BY <2>1, <2>2, <3>1, <3>2 DEF Clean, Within, CacheTable, CacheBits, DiskTable, DiskBits
    <3>5. AtRest'
      BY <2>1, <2>2, <3>2, <3>3 DEF AtRest, Within, MemTable, MemBits, DiskTable, DiskBits
    <3>6. Within(Damage)' => Covers(DiskTable, DiskBits)
      <4>. SUFFICES ASSUME Within(Damage)' PROVE Covers(DiskTable, DiskBits)
        OBVIOUS
      <4>1. Within({"moved", "unflushed"}) /\ Within({"unflushed"}) /\ missed = {}
        BY <2>2, <3>3 DEF Within, Damage
      <4>2. Covers(CacheTable, CacheBits)
        BY <1>1, <2>1, <4>1 DEF DiskInv, Copied
      <4>. QED  BY <3>1, <3>2, <4>1, <4>2
    <3>7. DiskSound'
      BY <2>1, <3>6 DEF DiskSound, DiskTable, DiskBits, Covers
    <3>. QED  BY <1>4, <3>4, <3>5, <3>7 DEF DiskInv
  <2>3. CASE "unflushed" \in crossed'
    <3>1. Clean' /\ AtRest' /\ DiskSound'
      BY <2>1, <2>3 DEF DiskInv, Clean, AtRest, DiskSound, Within, Damage, CacheTable, DiskTable
    <3>. QED  BY <1>4, <3>1 DEF DiskInv
  <2>. QED  BY <2>1, <2>2, <2>3
<1>7. CASE Crash
  <2>1. /\ DiskTable' = DiskTable /\ CacheTable' = DiskTable /\ MemTable' = DiskTable
        /\ DiskBits' = DiskBits /\ CacheBits' = DiskBits /\ MemBits' = DiskBits
        /\ dirty' = {} /\ missed' = {} /\ risk' = {} /\ crossed \subseteq crossed' /\ risk \subseteq crossed'
    BY <1>7 DEF Crash, Cross, TypeOK, MemTable, MemBits, CacheTable, CacheBits, DiskTable, DiskBits
  <2>2. Clean' /\ AtRest'
    BY <2>1 DEF Clean, AtRest
  <2>3. Within(Damage)' => Within(Damage) /\ risk = {}
    BY <2>1 DEF DiskInv, Clean, Within, Damage
  <2>4. DiskSound'
    BY <2>1, <2>3 DEF DiskInv, DiskSound
  <2>. QED  BY <1>4, <2>2, <2>4 DEF DiskInv
<1>. QED  BY <1>5, <1>6, <1>7

(***************************************************************************)
(* Promises: what a sync has covered, and what it will.                    *)
(***************************************************************************)

PromiseInv == Kept /\ Owed

\* A step that leaves x to its block, in memory, in the cache and on the disk,
\* where only what no sync has passed over comes to the disk.
Spares(x) ==
  /\ FileFree(x) => FileFree(x)'
  /\ MemTable'[x] = MemTable[x]
  /\ \/ CacheTable'[x] = MemTable[x]
     \/ CacheTable'[x] = CacheTable[x] /\ (x \in missed => x \in missed')
  /\ "unsynced" \notin risk' =>
       \/ "unsynced" \notin risk /\ DiskTable'[x] = DiskTable[x]
       \/ missed = {} /\ DiskTable'[x] = CacheTable[x]

\* Promises given and owed last as long as the files are spared.
LEMMA PromisesLast ==
  ASSUME TypeOK, TypeOK', PromiseInv, covered'[Timer] = {}, crossed \subseteq crossed',
         Within({"unsynced"})' =>
           \A x \in Files : promised'[x] # NONE => promised'[x] = promised[x] /\ Spares(x),
         \A u \in Actors : \A x \in covered'[u] :
           /\ x \in covered[u] /\ Spares(x) /\ pc'[u] \in SyncPcs
           /\ pc'[u] \in {"bitmap", "flush", "flushing"} =>
                pc[u] \in {"bitmap", "flush", "flushing"} \/ CacheTable'[x] = MemTable[x] \/ x \in missed'
  PROVE  PromiseInv'
<1>1. Kept'
  <2>. SUFFICES ASSUME Within({"unsynced"})', NEW x \in Files, promised'[x] # NONE
                PROVE  /\ FileFree(x)' /\ MemTable'[x] = promised'[x]
                       /\ CacheTable'[x] = promised'[x] \/ x \in missed'
                       /\ "unsynced" \notin risk' => DiskTable'[x] = promised'[x]
    BY DEF Kept
  <2>1. promised'[x] = promised[x] /\ Spares(x) /\ Within({"unsynced"})
    BY DEF Within
  <2>2. /\ FileFree(x) /\ MemTable[x] = promised[x]
        /\ CacheTable[x] = promised[x] \/ x \in missed
        /\ "unsynced" \notin risk => DiskTable[x] = promised[x]
    BY <2>1 DEF PromiseInv, Kept
  <2>. QED  BY <2>1, <2>2 DEF Spares
<1>2. Owed'
  <2>. SUFFICES ASSUME NEW u \in Actors, NEW x \in covered'[u]
                PROVE  /\ pc'[u] \in SyncPcs /\ FileFree(x)' /\ MemTable'[x] # NONE
                       /\ pc'[u] \in {"bitmap", "flush", "flushing"} => CacheTable'[x] = MemTable'[x] \/ x \in missed'
    BY DEF Owed
  <2>. QED  BY DEF PromiseInv, Owed, Spares
<1>. QED  BY <1>1, <1>2 DEF PromiseInv

\* A request ends what was promised for its file, and has no other.
LEMMA RequestPromises ==
  ASSUME TypeOK, TypeOK', LifeInv, MemInv, PromiseInv, NEW t \in Threads, Requests(t) \/ Write(t) \/ Remove(t)
  PROVE  PromiseInv'
<1>1. t \in Actors /\ Timer \in Actors /\ t # Timer /\ Held
  BY DEF Actors, MemInv
<1>2. CASE FsyncBegin(t)
  <2>1. /\ UNCHANGED <<table, file, promised, missed, risk, crossed>> /\ pc[t] = "idle"
        /\ pc' = [pc EXCEPT ![t] = "checkpoint"]
        /\ covered' = [covered EXCEPT ![t] = {x \in Files : MemTable[x] # NONE /\ FileFree(x)}]
    BY <1>2 DEF FsyncBegin, SyncStart, Goto, stateVars, MemTable
  <2>2. Kept'
    BY <2>1 DEF PromiseInv, Kept, MemTable, CacheTable, DiskTable, FileFree, Within
  <2>3. \A u \in Actors \ {t} : covered'[u] = covered[u] /\ pc'[u] = pc[u]
    BY <1>1, <2>1 DEF TypeOK
  <2>4. \A x \in covered'[t] : MemTable[x] # NONE /\ FileFree(x)
    BY <1>1, <2>1 DEF TypeOK
  <2>5. pc'[t] = "checkpoint"
    BY <1>1, <2>1 DEF TypeOK
  <2>6. MemTable' = MemTable /\ CacheTable' = CacheTable /\ \A x \in Files : FileFree(x)' <=> FileFree(x)
    BY <2>1 DEF MemTable, CacheTable, FileFree
  <2>7. \A u \in Actors : covered'[u] \subseteq Files
    BY DEF TypeOK
  <2>8. Owed'
    BY <1>1, <2>1, <2>3, <2>4, <2>5, <2>6, <2>7 DEF PromiseInv, Owed, SyncPcs
  <2>. QED  BY <2>2, <2>8 DEF PromiseInv
<1>3. CASE \E x \in Files : WriteBegin(t, x) \/ RemoveBegin(t, x)
  <2>1. PICK y \in Files : Request(t, y) /\ \E p \in {"alloc", "free"} : Goto(t, p)
    BY <1>3 DEF WriteBegin, RemoveBegin
  <2>2. /\ pc[t] = "idle" /\ file' = [file EXCEPT ![t] = y] /\ UNCHANGED <<table, missed, risk, crossed>>
        /\ promised' = [promised EXCEPT ![y] = NONE] /\ covered' = [u \in Actors |-> covered[u] \ {y}]
    BY <2>1 DEF Request, stateVars
  <2>3. \A x \in Files \ {y} : FileFree(x) => FileFree(x)'
    BY <1>1, <2>2 DEF FileFree, TypeOK, Actors
  <2>4. \A x \in Files \ {y} : Spares(x)
    BY <2>2, <2>3 DEF Spares, MemTable, CacheTable, DiskTable
  <2>5. \A u \in Actors \ {t} : pc'[u] = pc[u]
    BY <1>1, <2>1 DEF Goto, TypeOK
  <2>6. \A u \in Actors : \A x \in covered'[u] :
          /\ x \in covered[u] /\ x \in Files \ {y} /\ u # t
    BY <2>2 DEF TypeOK, PromiseInv, Owed, SyncPcs
  <2>7. covered'[Timer] = {}
    BY <1>1, <2>2 DEF PromiseInv, Owed
  <2>8. \A x \in Files : promised'[x] # NONE => promised'[x] = promised[x] /\ x # y
    BY <2>2 DEF TypeOK
  <2>9. \A u \in Actors : \A x \in covered'[u] : pc'[u] \in SyncPcs /\ pc'[u] = pc[u]
    BY <2>5, <2>6 DEF PromiseInv, Owed
  <2>. QED  BY <2>2, <2>4, <2>6, <2>7, <2>8, <2>9, PromisesLast
<1>4. CASE Write(t) \/ Remove(t)
  <2>. DEFINE y == file[t]
  <2>1. pc[t] \in ReqPcs /\ UNCHANGED <<promised, covered>>
    BY <1>4 DEF ReqPcs, Write, Remove, Alloc, InodeSync, Commit, CommitFails, Apply, FreeBlock, ClearInode, ghostVars
  <2>2. \E p \in ThreadPcs : pc' = [pc EXCEPT ![t] = p]
    BY <1>4 DEF Write, Remove, Alloc, InodeSync, Commit, CommitFails, Apply, FreeBlock, ClearInode, Return, Goto,
       ThreadPcs
  <2>3. file' = file \/ file' = [file EXCEPT ![t] = NONE]
    BY <1>4 DEF Write, Remove, Alloc, InodeSync, Commit, CommitFails, Apply, FreeBlock, ClearInode, Return
  <2>4. y \in Files /\ ~FileFree(y)
    BY <1>1, <2>1, FileOf DEF FileFree
  <2>5. \A x \in Files : FileFree(x) => FileFree(x)'
    <3>1. \A u \in Threads : file'[u] = file[u] \/ file'[u] = NONE
      BY <1>1, <2>3 DEF TypeOK, Actors
    <3>. QED  BY <3>1 DEF FileFree
  <2>6. \A x \in Files \ {y} : /\ MemTable'[x] = MemTable[x] /\ CacheTable'[x] = CacheTable[x]
                              /\ DiskTable'[x] = DiskTable[x]
    BY <1>4, <2>4 DEF TypeOK, MemTable, CacheTable, DiskTable, stateVars, Write, Remove, Alloc, InodeSync, Commit,
       CommitFails, Apply, FreeBlock, ClearInode
  <2>7. missed \ {y} \subseteq missed' /\ risk' = risk /\ crossed \subseteq crossed'
    BY <1>4 DEF Write, Remove, Alloc, InodeSync, Commit, CommitFails, Apply, FreeBlock, ClearInode, ghostVars, Cross
  <2>8. \A x \in Files \ {y} : Spares(x)
    BY <2>5, <2>6, <2>7 DEF Spares
  <2>9. \A u \in Actors : \A x \in covered[u] : x \in Files \ {y} /\ u # t
    BY <2>1, <2>4 DEF PromiseInv, Owed, TypeOK, ReqPcs, SyncPcs
  <2>10. \A u \in Actors \ {t} : pc'[u] = pc[u]
    BY <1>1, <2>2 DEF TypeOK
  <2>11. Within({"unsynced"})' => \A x \in Files : promised[x] # NONE => x # y
    BY <2>4, <2>7 DEF PromiseInv, Kept, Within
  <2>12. \A u \in Actors : \A x \in covered'[u] : x \in covered[u] /\ pc'[u] \in SyncPcs /\ pc'[u] = pc[u]
    BY <2>1, <2>9, <2>10 DEF PromiseInv, Owed
  <2>13. covered'[Timer] = {}
    BY <2>1 DEF PromiseInv, Owed
  <2>. QED  BY <2>1, <2>7, <2>9, <2>11, <2>12, <2>13, <2>8, PromisesLast
<1>. QED  BY <1>2, <1>3, <1>4 DEF Requests

\* A sync promises only what it has brought to the disk.
LEMMA SyncPromises ==
  ASSUME TypeOK, TypeOK', LifeInv, PromiseInv, Clean, NEW t \in Actors, Sync(t)
  PROVE  PromiseInv'
<1>1. Timer \in Actors /\ covered[Timer] = {}
  BY DEF Actors, PromiseInv, Owed
<1>2. \A x \in Files : Spares(x)
  <2>. SUFFICES ASSUME NEW x \in Files PROVE Spares(x)
    OBVIOUS
  <2>1. FileFree(x) => FileFree(x)'
    BY DEF FileFree, Sync, Checkpoint, CheckpointFails, ExtentSeek, ExtentWrite, ExtentFails, SyncInodes, SyncBitmap,
           SyncBitmapFails, FlushBegin, FlushBlock, FlushEnd, FlushFails
  <2>2. CASE SyncInodes(t)
    BY <2>1, <2>2 DEF SyncInodes, Spares, TypeOK, MemTable, CacheTable, DiskTable
  <2>3. CASE FlushBlock(t)
    <3>1. PICK k \in dirty : Flush(k)
      BY <2>3 DEF FlushBlock
    <3>2. missed' = missed /\ k \in {"bitmap", "table"}
      BY <2>3 DEF FlushBlock, TypeOK
    <3>. QED  BY <2>1, <3>1, <3>2 DEF Flush, Clean, Spares, TypeOK, MemTable, CacheTable, DiskTable
  <2>4. CASE ~SyncInodes(t) /\ ~FlushBlock(t)
    <3>1. UNCHANGED <<table, missed>> /\ ("unsynced" \in risk => "unsynced" \in risk')
      BY <2>4 DEF stateVars, ghostVars, Sync, Checkpoint, CheckpointFails, ExtentSeek, ExtentWrite, ExtentFails,
         SyncBitmap, SyncBitmapFails, FlushBegin, FlushEnd, FlushFails
    <3>. QED  BY <2>1, <3>1 DEF Spares, MemTable, CacheTable, DiskTable
  <2>. QED  BY <2>2, <2>3, <2>4
<1>3. crossed \subseteq crossed'
  BY DEF ghostVars, Cross, Sync, Checkpoint, CheckpointFails, ExtentSeek, ExtentWrite, ExtentFails, SyncInodes,
         SyncBitmap, SyncBitmapFails, FlushBegin, FlushBlock, FlushEnd, FlushFails
<1>4. \/ covered' = covered
      \/ covered' = [covered EXCEPT ![t] = {}]
  BY DEF Sync, Checkpoint, CheckpointFails, ExtentSeek, ExtentWrite, ExtentFails, SyncInodes, SyncBitmap,
     SyncBitmapFails,
         FlushBegin, FlushBlock, FlushEnd, FlushFails, Abandon, ghostVars
<1>5. UNCHANGED pc \/ \E p \in ActorPcs : pc' = [pc EXCEPT ![t] = p]
  BY DEF ActorPcs, Sync, Checkpoint, CheckpointFails, ExtentSeek, ExtentWrite, Goto, Abandon,
         ExtentFails, SyncInodes, SyncBitmap, SyncBitmapFails, FlushBegin, FlushBlock, FlushEnd, FlushFails
<1>6. \A u \in Actors \ {t} : pc'[u] = pc[u] /\ covered'[u] = covered[u]
  BY <1>4, <1>5 DEF TypeOK
<1>7. covered'[Timer] = {}
  BY <1>1, <1>4 DEF TypeOK
<1>8. ASSUME NEW x \in covered'[t]
      PROVE  /\ x \in covered[t] /\ pc'[t] \in SyncPcs
             /\ pc'[t] \in {"bitmap", "flush", "flushing"} =>
                  pc[t] \in {"bitmap", "flush", "flushing"} \/ CacheTable'[x] = MemTable[x] \/ x \in missed'
  <2>1. covered'[t] = covered[t] /\ t # Timer /\ x \in covered[t] /\ pc[t] \in SyncPcs
    BY <1>1, <1>4, <1>8 DEF TypeOK, PromiseInv, Owed
  <2>2. ~(CheckpointFails(t) \/ ExtentFails(t) \/ SyncBitmapFails(t) \/ FlushEnd(t) \/ FlushFails(t))
    BY <1>8, <2>1 DEF CheckpointFails, ExtentFails, SyncBitmapFails, FlushEnd, FlushFails, Abandon, TypeOK, SyncPcs
  <2>3. CASE Checkpoint(t) \/ ExtentSeek(t) \/ ExtentWrite(t) \/ SyncBitmap(t) \/ FlushBegin(t) \/ FlushBlock(t)
    BY <2>1, <2>3 DEF Checkpoint, ExtentSeek, ExtentWrite, SyncBitmap, SyncBitmapFails, FlushBegin, FlushBlock,
       Goto, TypeOK, SyncPcs
  <2>4. CASE SyncInodes(t)
    <3>1. x \in Files /\ pc'[t] = "bitmap"
      BY <2>1, <2>4 DEF SyncInodes, Goto, TypeOK, SyncPcs
    <3>2. CacheTable'[x] = MemTable[x] \/ x \in missed'
      BY <2>4, <3>1 DEF SyncInodes, TypeOK, CacheTable, MemTable
    <3>. QED  BY <2>1, <3>1, <3>2 DEF SyncPcs
  <2>. QED  BY <2>2, <2>3, <2>4 DEF Sync
<1>9. \A u \in Actors : \A x \in covered'[u] :
         /\ x \in covered[u] /\ x \in Files /\ pc'[u] \in SyncPcs
         /\ pc'[u] \in {"bitmap", "flush", "flushing"} =>
              pc[u] \in {"bitmap", "flush", "flushing"} \/ CacheTable'[x] = MemTable[x] \/ x \in missed'
  BY <1>6, <1>8 DEF TypeOK, PromiseInv, Owed
<1>10. CASE promised' = promised
  BY <1>2, <1>7, <1>9, <1>10, <1>3, PromisesLast
<1>11. CASE FlushEnd(t)
  <2>1. /\ pc[t] = "flushing" /\ dirty = {} /\ UNCHANGED <<table, file, missed, risk, crossed>>
        /\ promised' = [x \in Files |-> IF x \in covered[t] THEN MemTable[x] ELSE promised[x]]
    BY <1>11 DEF FlushEnd, stateVars, MemTable
  <2>2. \A x \in covered[t] : /\ FileFree(x) /\ DiskTable[x] = CacheTable[x]
                              /\ CacheTable[x] = MemTable[x] \/ (x \in missed /\ "unsynced" \in risk)
    BY <2>1 DEF PromiseInv, Owed, Clean
  <2>3. /\ MemTable' = MemTable /\ CacheTable' = CacheTable /\ DiskTable' = DiskTable
        /\ \A x \in Files : FileFree(x)' <=> FileFree(x)
    BY <2>1 DEF MemTable, CacheTable, DiskTable, FileFree
  <2>4. Kept'
    <3>. SUFFICES ASSUME Within({"unsynced"}), NEW x \in Files, promised'[x] # NONE
                  PROVE  /\ FileFree(x) /\ MemTable[x] = promised'[x]
                         /\ CacheTable[x] = promised'[x] \/ x \in missed
                         /\ "unsynced" \notin risk => DiskTable[x] = promised'[x]
      BY <2>1, <2>3 DEF Kept, Within
    <3>1. promised'[x] = IF x \in covered[t] THEN MemTable[x] ELSE promised[x]
      BY <2>1
    <3>. QED  BY <2>2, <3>1 DEF PromiseInv, Kept
  <2>5. Owed'
    <3>. SUFFICES ASSUME NEW u \in Actors, NEW x \in covered'[u]
                  PROVE  /\ pc'[u] \in SyncPcs /\ FileFree(x)' /\ MemTable'[x] # NONE
                         /\ pc'[u] \in {"bitmap", "flush", "flushing"} =>
                              CacheTable'[x] = MemTable'[x] \/ x \in missed'
      BY <1>7 DEF Owed
    <3>. QED  BY <1>9, <2>1, <2>3 DEF PromiseInv, Owed
  <2>. QED  BY <2>4, <2>5 DEF PromiseInv
<1>12. promised' = promised \/ FlushEnd(t)
  BY DEF Sync, Checkpoint, CheckpointFails, ExtentSeek, ExtentWrite, ExtentFails, SyncInodes, SyncBitmap,
     SyncBitmapFails,
         FlushBegin, FlushBlock, FlushFails, ghostVars
<1>. QED  BY <1>10, <1>11, <1>12

\* Mount and unmount; the last sync begins when no request is left.
LEMMA OtherPromises ==
  ASSUME TypeOK, TypeOK', LifeInv, PromiseInv, Clean,
         \/ TimerStep \/ Stop \/ Join \/ DropRust \/ Close \/ MountRecover \/ MountStart \/ MountFails
         \/ (Format /\ UNCHANGED <<stateVars, at, lifeVars, pc, file, ghostVars, used>>)
  PROVE  PromiseInv'
<1>1. /\ Main \in Actors /\ Timer \in Actors /\ Main \notin Threads /\ Timer \notin Threads /\ Main # Timer
      /\ Actors = Threads \cup {Main, Timer}
  BY DEF Actors
<1>2. UNCHANGED <<table, file, promised>>
  BY DEF stateVars, ghostVars, TimerStep, TimerWait, TimerWakes, TimerCheck, Stop, Join, DropRust, Close,
         MountRecover, MountStart, MountFails
<1>3. \A u \in Threads : pc'[u] = pc[u]
  BY <1>1 DEF TypeOK, Actors, Goto, SyncStart, TimerStep, TimerWait, TimerWakes, TimerCheck, Stop, Join,
     DropRust, Close, MountRecover, MountStart, MountFails
<1>4. crossed \subseteq crossed' /\ (~Close => UNCHANGED <<missed, risk, crossed>>)
  BY DEF ghostVars, Cross, TimerStep, TimerWait, TimerWakes, TimerCheck, Stop, Join, DropRust, Close, MountRecover,
         MountStart, MountFails
<1>5. CASE ~Join
  <2>1. covered' = covered
    BY <1>5 DEF ghostVars, TimerStep, TimerWait, TimerWakes, TimerCheck, Stop, DropRust, Close,
         MountRecover, MountStart, MountFails
  <2>2. pc'[Main] = pc[Main] \/ pc[Main] \notin SyncPcs
    BY <1>1, <1>5 DEF Up, SyncPcs, TypeOK, Goto, TimerStep, TimerWait, TimerWakes, TimerCheck, Stop, DropRust, Close,
         MountRecover, MountStart, MountFails
  <2>3. \A u \in Actors : \A x \in covered'[u] :
          x \in covered[u] /\ x \in Files /\ pc'[u] \in SyncPcs /\ pc'[u] = pc[u]
    BY <1>1, <1>3, <2>1, <2>2 DEF PromiseInv, Owed, TypeOK
  <2>4. covered'[Timer] = {}
    BY <2>1 DEF PromiseInv, Owed
  <2>5. CASE ~Close
    <3>1. \A x \in Files : Spares(x)
      BY <1>2, <1>4, <2>5 DEF Spares, FileFree, MemTable, CacheTable, DiskTable
    <3>. QED  BY <1>2, <1>4, <2>3, <2>4, <3>1, PromisesLast
  <2>6. CASE Close
    <3>1. \A u \in Actors : covered'[u] = {}
      BY <2>1, <2>6, WhoIsWhere DEF Close, PromiseInv, Owed, SyncPcs
    <3>2. /\ \/ dirty = {} /\ (missed # {} => "unsynced" \in crossed')
             \/ risk \subseteq crossed'
          /\ risk' = {}
      BY <2>6 DEF Close, Cross
    <3>3. Within({"unsynced"})' => missed = {} /\ ("unsynced" \notin risk \/ DiskTable = CacheTable)
      BY <3>2 DEF Clean, Within
    <3>4. Within({"unsynced"})' => \A x \in Files : Spares(x)
      BY <1>2, <3>3 DEF Spares, FileFree, MemTable, CacheTable, DiskTable
    <3>. QED  BY <1>2, <1>4, <2>4, <3>1, <3>4, PromisesLast
  <2>. QED  BY <2>5, <2>6
<1>6. CASE Join
  <2>1. /\ pc' = [pc EXCEPT ![Main] = "checkpoint"]
        /\ covered' = [covered EXCEPT ![Main] = {x \in Files : MemTable[x] # NONE /\ FileFree(x)}]
    BY <1>6 DEF Join, SyncStart, Goto, MemTable
  <2>2. /\ MemTable' = MemTable /\ CacheTable' = CacheTable /\ DiskTable' = DiskTable
        /\ \A x \in Files : FileFree(x)' <=> FileFree(x)
    BY <1>2 DEF MemTable, CacheTable, DiskTable, FileFree
  <2>3. UNCHANGED <<missed, risk, crossed>>
    BY <1>6 DEF Join
  <2>4. Kept'
    BY <1>2, <2>2, <2>3 DEF PromiseInv, Kept, Within
  <2>5. /\ \A u \in Actors \ {Main} : covered'[u] = covered[u] /\ pc'[u] = pc[u]
        /\ pc'[Main] = "checkpoint" /\ \A x \in covered'[Main] : MemTable[x] # NONE /\ FileFree(x)
        /\ \A u \in Actors : covered'[u] \subseteq Files
    BY <1>1, <2>1 DEF TypeOK
  <2>6. Owed'
    BY <1>1, <2>2, <2>5, <2>3 DEF PromiseInv, Owed, SyncPcs
  <2>. QED  BY <2>4, <2>6 DEF PromiseInv
<1>. QED  BY <1>5, <1>6

\* A mount or a crash leaves what the disk has, which is what was promised.
LEMMA EndsPromises ==
  ASSUME TypeOK, LifeInv, PromiseInv, AtRest, MountLoad \/ Crash
  PROVE  PromiseInv'
<1>1. Main \in Actors /\ Timer \in Actors
  BY DEF Actors
<1>2. MemTable' = DiskTable /\ CacheTable' = DiskTable /\ DiskTable' = DiskTable /\ UNCHANGED promised
  BY DEF MountLoad, Crash, TypeOK, MemTable, CacheTable, DiskTable, ghostVars
<1>3. \A u \in Actors : covered'[u] = {}
  <2>1. CASE Crash
    BY <2>1 DEF Crash
  <2>2. CASE MountLoad
    <3>1. pc[Main] = "down" /\ covered' = covered
      BY <2>2 DEF MountLoad, ghostVars
    <3>2. \A u \in Actors : pc[u] \notin SyncPcs
      BY <3>1, WhoIsWhere DEF SyncPcs
    <3>. QED  BY <3>1, <3>2 DEF PromiseInv, Owed
  <2>. QED  BY <2>1, <2>2
<1>4. \A x \in Files : FileFree(x) => FileFree(x)'
  BY DEF MountLoad, Crash, FileFree, Actors
<1>5. crossed \subseteq crossed' /\ (Within({"unsynced"})' => "unsynced" \notin risk)
  <2>1. CASE Crash
    BY <2>1 DEF Crash, Cross, Within
  <2>2. CASE MountLoad
    BY <2>2 DEF MountLoad, ghostVars, AtRest
  <2>. QED  BY <2>1, <2>2
<1>6. Kept'
  <2>. SUFFICES ASSUME Within({"unsynced"})', NEW x \in Files, promised[x] # NONE
                PROVE  FileFree(x)' /\ DiskTable[x] = promised[x]
    BY <1>2 DEF Kept
  <2>. QED  BY <1>4, <1>5 DEF PromiseInv, Kept, Within
<1>7. Owed'
  BY <1>1, <1>3 DEF Owed
<1>. QED  BY <1>6, <1>7 DEF PromiseInv

(***************************************************************************)
(* The theorems.                                                           *)
(***************************************************************************)

ImageInv == TypeOK /\ MemInv /\ DiskInv /\ PromiseInv

\* The image of mkfs is empty.
LEMMA InitImage == Init => ImageInv
<1>. SUFFICES ASSUME Init PROVE ImageInv
  OBVIOUS
<1>1. /\ pc = [u \in Actors |-> CASE u = Main -> "down" [] u = Timer -> "none" [] OTHER -> "idle"]
      /\ Main \in Actors /\ Timer \in Actors /\ Threads \subseteq Actors
  BY DEF Init, Actors
<1>2. \A t \in Threads : pc[t] = "idle"
  BY <1>1
<1>3. pc[Main] = "down" /\ \A u \in Actors : pc[u] \in {"down", "none", "idle"}
  BY <1>1
<1>4. TypeOK
  <2>1. pc \in [Actors -> ActorPcs]
    BY <1>1 DEF ActorPcs
  <2>2. size \in Sizes /\ regions \in 0 .. 6 /\ result \in {"running", "formatted", "failed"}
    BY DEF Init, MkfsInit
  <2>3. /\ bits \in [{"mem", "cache", "disk", "copy"} -> SUBSET Blocks]
        /\ table \in [{"mem", "cache", "disk"} -> [Files -> Blocks \cup {NONE}]]
        /\ dirty = {} /\ log = {} /\ home \in [Blocks -> Files \cup {NONE}] /\ at = "log"
        /\ alive = {} /\ running = FALSE /\ expired = FALSE
        /\ file \in [Actors -> Files \cup {NONE}] /\ covered \in [Actors -> SUBSET Files]
        /\ promised \in [Files -> Blocks \cup {NONE}] /\ missed = {} /\ risk = {} /\ crossed = {}
    BY DEF Init
  <2>. QED  BY <2>1, <2>2, <2>3 DEF TypeOK
<1>5. MemTable = [x \in Files |-> NONE] /\ CacheTable = MemTable /\ DiskTable = MemTable
  BY DEF Init, MemTable, CacheTable, DiskTable
<1>6. MemBits = {} /\ CacheBits = {} /\ DiskBits = {}
  BY DEF Init, MemBits, CacheBits, DiskBits
<1>7. /\ dirty = {} /\ missed = {} /\ risk = {} /\ crossed = {} /\ promised = [x \in Files |-> NONE]
      /\ file = [u \in Actors |-> NONE] /\ covered = [u \in Actors |-> {}]
  BY DEF Init
<1>8. MemInv
  BY <1>1, <1>2, <1>5, <1>7 DEF MemInv, Held, MemOwned, MemInPlace, ReqPcs
<1>9. DiskInv
  BY <1>3, <1>5, <1>6, <1>7 DEF DiskInv, Clean, AtRest, Looked, Copied, Closing, DiskSound, Covers
<1>10. PromiseInv
  BY <1>1, <1>7 DEF PromiseInv, Kept, Owed
<1>. QED  BY <1>4, <1>8, <1>9, <1>10 DEF ImageInv

\* Every step keeps it.
LEMMA StepImage ==
  ASSUME LifeInv, LifeInv', ImageInv, [Next]_vars
  PROVE  ImageInv'
<1>. USE DEF ImageInv
<1>1. TypeOK /\ Held /\ Clean /\ AtRest /\ DiskSound
  BY DEF MemInv, DiskInv
<1>2. CASE UNCHANGED vars
  <2>1. UNCHANGED <<size, regions, result, bits, table, dirty, log, home, at, alive, running, expired, pc, file,
                    covered, promised, missed, risk, crossed>>
    BY <1>2 DEF vars, mkfsVars, stateVars, lifeVars, ghostVars
  <2>2. TypeOK'
    BY <2>1 DEF TypeOK
  <2>3. MemRests
    BY <2>1 DEF MemRests, MemTable, MemBits, Applied, Down
  <2>4. DiskInv'
    BY <2>1 DEF DiskInv, Clean, AtRest, Looked, Copied, Closing, DiskSound, Covers, MemTable, MemBits, CacheTable,
       CacheBits, DiskTable, DiskBits, Within, Clearing
  <2>5. PromiseInv'
    BY <2>1 DEF PromiseInv, Kept, Owed, MemTable, CacheTable, DiskTable, FileFree, Within
  <2>. QED  BY <2>2, <2>3, <2>4, <2>5, MemStays
<1>3. CASE \E t \in Threads : Requests(t) \/ Write(t) \/ Remove(t)
  <2>1. PICK t \in Threads : Requests(t) \/ Write(t) \/ Remove(t)
    BY <1>3
  <2>2. TypeOK'
    BY <1>1, <2>1, RequestTypes
  <2>3. MemInv' /\ DiskInv'
    BY <2>1, RequestMem, RequestDisk
  <2>4. PromiseInv'
    BY <2>1, <2>2, RequestPromises
  <2>. QED  BY <2>2, <2>3, <2>4
<1>4. CASE \E t \in Actors : Sync(t)
  <2>1. PICK t \in Actors : Sync(t)
    BY <1>4
  <2>2. TypeOK'
    BY <2>1, SyncTypes
  <2>3. MemInv' /\ DiskInv'
    BY <2>1, SyncMem, SyncDisk
  <2>4. PromiseInv'
    BY <1>1, <2>1, <2>2, SyncPromises
  <2>. QED  BY <2>2, <2>3, <2>4
<1>5. CASE \/ Mount \/ Stop \/ Unmount \/ TimerStep \/ Crash
           \/ (Format /\ UNCHANGED <<stateVars, at, lifeVars, pc, file, ghostVars, used>>)
  <2>1. TypeOK'
    BY <1>5, LifeTypes
  <2>2. MemInv'
    BY <1>1, <1>5, OtherMem, LoadMem, CrashMem DEF Mount, Unmount
  <2>3. DiskInv'
    BY <1>5, OtherDisk, EndsDisk DEF Mount, Unmount
  <2>4. PromiseInv'
    BY <1>1, <1>5, <2>1, OtherPromises, EndsPromises DEF Mount, Unmount
  <2>. QED  BY <2>1, <2>2, <2>3, <2>4
<1>. QED  BY <1>2, <1>3, <1>4, <1>5 DEF Next

\* It is an invariant.
LEMMA ImageInductive == Spec => [](LifeInv /\ ImageInv)
<1>1. LifeInv /\ LifeInv' /\ ImageInv /\ [Next]_vars => ImageInv'
  BY StepImage
<1>. QED  BY InitImage, LifeInductive, <1>1, PTL DEF Spec

\* Whatever crashes and unmounts leave for the next mount, within the limits:
\* no block of a file is free, and none has two files (block allocator, its
\* cached block and the extent allocator's copy against inode_sync and
\* inode_sync_all); for any number of threads, files, blocks, requests and crashes.
\* A sync may fail at any of its steps, its bitmap half written, and a write's
\* inode_sync may fail. An inode_sync that inode_sync_all saw fail and reported as
\* done may be made up for by a later sync; a crash before that crosses the limit
\* "unsynced", as the bitmap of that sync may have come to the disk.
THEOREM RefsAreCovered == Spec => []RefsCovered
<1>1. LifeInv /\ ImageInv => RefsCovered
  BY DEF ImageInv, DiskInv, AtRest, DiskSound, RefsCovered, Down, DiskTable, DiskBits
<1>. QED  BY ImageInductive, <1>1, PTL

\* Whatever they leave, a file whose block is in the table has its own data in
\* it once the journal has been replayed, although the inode is written past
\* the log that its data go through.
THEOREM DataStaysInPlace == Spec => []DataInPlace
<1>1. LifeInv /\ ImageInv => DataInPlace
  <2>. SUFFICES ASSUME LifeInv, ImageInv, Down, Within(Limits), NEW x \in Files, DiskTable[x] # NONE
                PROVE  Applied[DiskTable[x]] = x
    BY DEF DataInPlace, DiskTable, Limits
  <2>1. DiskTable = MemTable
    BY DEF ImageInv, DiskInv, AtRest, Down, Within, Limits, Damage
  <2>2. ~Unsettled(x)
    BY DEF LifeInv, Down, Unsettled
  <2>. QED  BY <2>1, <2>2 DEF ImageInv, MemInv, MemInPlace
<1>. QED  BY ImageInductive, <1>1, PTL

\* What fs_context_sync covered before it returned success to an fsync is on
\* the disk after any crash within the limits, with its block in use; whatever
\* other syncs ran beside it and before it, and wherever those failed. A success
\* that inode_sync_all reported with an inode left out is kept only when a later
\* sync or inode_sync comes before the crash ("unsynced").
THEOREM FsyncsAreKept == Spec => []FsyncKeeps
<1>1. LifeInv /\ ImageInv => FsyncKeeps
  <2>. SUFFICES ASSUME LifeInv, ImageInv, Down, Within(Damage), NEW x \in Files, promised[x] # NONE
                PROVE  DiskTable[x] = promised[x] /\ promised[x] \in DiskBits
    BY DEF FsyncKeeps, DiskTable, DiskBits
  <2>1. DiskTable[x] = promised[x]
    BY DEF ImageInv, DiskInv, AtRest, PromiseInv, Kept, Down, Within, Damage
  <2>2. Covers(DiskTable, DiskBits)
    BY DEF ImageInv, DiskInv, AtRest, DiskSound, Down
  <2>. QED  BY <2>1, <2>2 DEF Covers
<1>. QED  BY ImageInductive, <1>1, PTL

\* Unmount leaves on the disk what memory had, when its own sync failed at the
\* checkpoint, the extent allocator, an inode, a block of the bitmap or the flush,
\* as inode_cache_destroy, block_alloc_destroy and blkdev_close do once more what
\* is left. Failures of these three, which nobody hears of, are behind the limits
\* "unsynced" and "unflushed".
THEOREM UnmountsKeepAll == Spec => []UnmountKeeps
<1>1. LifeInv /\ ImageInv => UnmountKeeps
  <2>. SUFFICES ASSUME LifeInv, ImageInv, Down, Within({"offset", "unsynced", "unflushed"})
                PROVE  /\ DiskTable = MemTable /\ DiskBits = MemBits
                       /\ \A x \in Files : MemTable[x] # NONE /\ crossed = {} => Applied[MemTable[x]] = x
    BY DEF UnmountKeeps, DiskTable, DiskBits, MemTable, MemBits
  <2>1. DiskTable = MemTable /\ DiskBits = MemBits
    BY DEF ImageInv, DiskInv, AtRest, Down, Within
  <2>2. \A x \in Files : ~Unsettled(x)
    BY DEF LifeInv, Down, Unsettled
  <2>3. crossed = {} => Within(Limits)
    BY DEF Within
  <2>. QED  BY <2>1, <2>2, <2>3 DEF ImageInv, MemInv, MemInPlace
<1>. QED  BY ImageInductive, <1>1, PTL

(***************************************************************************)
(* The layout of an image.                                                 *)
(***************************************************************************)

\* Remainders of what is smaller.
LEMMA Remains == ASSUME NEW m \in Nat, NEW x \in 0 .. m - 1 PROVE x % m = x
  BY SMT

\* A number of four bytes that is not negative is divided as such.
LEMMA Divided ==
  ASSUME NEW x \in Nat, x <= 16777216, NEW d \in {8, 32, 256, 32768}
  PROVE  Quotient(x, d) = x \div d
<1>. DEFINE m == 4 * (1073741824 \div d)
<1>1. m \in Nat /\ x \div d \in Nat /\ x \div d < m
  <2>1. CASE d = 8
    <3>1. m = 536870912 /\ x \div d \in Nat /\ x \div d <= 2097152
      BY <2>1, SMT
    <3>. HIDE DEF m
    <3>. QED  BY <3>1, SMT
  <2>2. CASE d = 32
    <3>1. m = 134217728 /\ x \div d \in Nat /\ x \div d <= 524288
      BY <2>2, SMT
    <3>. HIDE DEF m
    <3>. QED  BY <3>1, SMT
  <2>3. CASE d = 256
    <3>1. m = 16777216 /\ x \div d \in Nat /\ x \div d <= 65536
      BY <2>3, SMT
    <3>. HIDE DEF m
    <3>. QED  BY <3>1, SMT
  <2>4. CASE d = 32768
    <3>1. m = 131072 /\ x \div d \in Nat /\ x \div d <= 512
      BY <2>4, SMT
    <3>. HIDE DEF m
    <3>. QED  BY <3>1, SMT
  <2>. QED  BY <2>1, <2>2, <2>3, <2>4
<1>2. (x \div d) % m = x \div d
  <2>. DEFINE y == x \div d
  <2>1. y \in 0 .. m - 1
    BY <1>1
  <2>. HIDE DEF y, m
  <2>2. y % m = y
    BY <1>1, <2>1, Remains
  <2>. QED  BY <2>2 DEF y
<1>. QED  BY <1>2 DEF Quotient

\* Whatever is divided, the result is not negative.
LEMMA DividedNat ==
  ASSUME NEW x \in Int
  PROVE  Quotient(x, 32768) \in Nat
<1>1. 4 * (1073741824 \div 32768) = 131072
  BY SMT
<1>2. x \div 32768 \in Int
  BY SMT
<1>. QED  BY <1>1, <1>2, SMT DEF Quotient

\* What superblock_init computes, s being the size in MB: the inodes, the blocks
\* of the journal, the inode table and the data bitmap, and what is left for
\* data.  left is what was there for them at first.
Sizing(s, inodes, j, t, bm, data) ==
  /\ inodes \in Int /\ 256 <= inodes /\ inodes <= 16384 /\ inodes <= 32 * t
  /\ 256 <= j /\ j <= 2048 /\ 8 <= t /\ t <= 512 /\ bm >= 0
  /\ data = 256 * s - (2 + j + bm + t)
  /\ data > 0 => data <= bm * 32768

\* The sizes on the way to that, in which the data bitmap had b blocks at first.
Sized(s, j, t, b, left, m) ==
  /\ s \in 1 .. 16384 /\ j \in Int /\ t \in Int /\ b \in Int /\ m \in Int /\ left \in Int
  /\ IF s < 64 THEN (s < 8 /\ j = 256) \/ (s >= 8 /\ j = 32 * s) ELSE j = 2048
  /\ IF s < 258 THEN t = 8 ELSE t = (s + 30) \div 32
  /\ b = (256 * s + 32765) \div 32768
  /\ left = 256 * s - (2 + j + b + t) /\ left >= 0
  /\ m = (left + 32767) \div 32768

Fits(s, j, t, m) == 256 * s - (2 + j + m + t) <= m * 32768

\* The data bitmap has a bit for every data block, though the second of its two
\* sizes was taken from the first.
LEMMA BitmapHolds ==
  ASSUME NEW s, NEW j, NEW t, NEW b, NEW m, NEW left, Sized(s, j, t, b, left, m)
  PROVE  Fits(s, j, t, m)
<1>0. /\ s \in 1 .. 16384 /\ j \in Int /\ t \in Int /\ b \in Int /\ m \in Int /\ left \in Int
      /\ IF s < 64 THEN (s < 8 /\ j = 256) \/ (s >= 8 /\ j = 32 * s) ELSE j = 2048
      /\ IF s < 258 THEN t = 8 ELSE t = (s + 30) \div 32
      /\ b = (256 * s + 32765) \div 32768
      /\ left = 256 * s - (2 + j + b + t) /\ left >= 0
      /\ m = (left + 32767) \div 32768
  BY DEF Sized
<1>. USE <1>0 DEF Fits
<1>1. left <= 32768 * m /\ left > 32768 * (m - 1)
  OBVIOUS
<1>2. b \in 1 .. 128 /\ 256 * s - 2 <= 32768 * b /\ 256 * s - 2 > 32768 * (b - 1)
  OBVIOUS
<1>3. t \in 8 .. 512 /\ j \in 256 .. 2048
  <2>1. t >= 8 /\ t <= 512
    <3>1. s >= 258 => (s + 30) \div 32 >= 8 /\ (s + 30) \div 32 <= 512
      BY SMT
    <3>. QED  BY <3>1
  <2>2. j >= 256 /\ j <= 2048
    OBVIOUS
  <2>. QED  BY <2>1, <2>2
<1>4. m = b \/ m = b - 1
  BY <1>1, <1>2, <1>3
<1>5. CASE m = b
  BY <1>1, <1>5
<1>6. CASE m = b - 1
  <2>. SUFFICES ASSUME left = 32768 * m PROVE FALSE
    BY <1>1, <1>6
  <2>1. CASE s < 64
    <3>1. b = 1
      BY <1>2, <2>1
    <3>2. t = 8 /\ (j = 256 \/ j = 32 * s)
      BY <2>1
    <3>3. 256 * s - (11 + j) = 0
      BY <1>6, <3>1, <3>2
    <3>4. CASE j = 256
      BY ONLY <1>0, <3>3, <3>4, SMT
    <3>5. CASE j = 32 * s
      BY ONLY <1>0, <3>3, <3>5, SMT
    <3>. QED  BY <3>2, <3>4, <3>5
  <2>2. CASE s >= 64 /\ s < 258
    BY <1>2, <1>3, <1>6, <2>2
  <2>3. CASE s >= 258
    <3>1. j = 2048 /\ t = (s + 30) \div 32
      BY <2>3
    <3>2. 256 * s - (2050 + b + t) = 32768 * (b - 1)
      BY <1>6, <3>1
    <3>. DEFINE q == s - 8 - 128 * (b - 1)
    <3>3. q \in Int /\ b + t + 2 = 256 * q
      BY <1>2, <1>3, <3>2
    <3>4. s = 128 * (b - 1) + 8 + q
      BY <1>2
    <3>. HIDE DEF q
    <3>5. q = 1 \/ q = 2
      BY <1>2, <1>3, <3>3
    <3>6. t = 4 * (b - 1) + 1
      <4>. DEFINE c == b - 1
      <4>. HIDE DEF q
      <4>0. c \in Int /\ s = 128 * c + 8 + q
        <5>1. b \in Int
          OBVIOUS
        <5>. QED  BY ONLY <5>1, <3>4, SMT
      <4>. HIDE DEF c
      <4>1. c \in Int /\ s + 30 = 32 * (4 * c + 1) + (6 + q)
        BY ONLY <3>3, <4>0, SMT
      <4>2. (s + 30) \div 32 = 4 * c + 1
        BY ONLY <3>5, <4>1, SMT
      <4>. QED  BY <3>1, <4>2 DEF c
    <3>. QED  BY <1>2, <3>3, <3>5, <3>6
  <2>. QED  BY <2>1, <2>2, <2>3
<1>. QED  BY <1>4, <1>5, <1>6

\* a layout by its sizes
LayoutOf(inodes, j, one, bm, t, data) ==
  [inodes |-> inodes, data |-> data,
   areas |-> << <<"superblock", 1>>, <<"journal", j>>, <<"inode_bitmap", one>>,
                <<"data_bitmap", bm>>, <<"inode_table", t>>, <<"root", 1>> >>]

\* What the record says of each area.
LEMMA AreaIs ==
  ASSUME NEW inodes, NEW j, NEW one, NEW bm, NEW t, NEW data, NEW L, L = LayoutOf(inodes, j, one, bm, t, data)
  PROVE  /\ L.inodes = inodes /\ L.data = data
         /\ L.areas[1][2] = 1 /\ L.areas[2][2] = j /\ L.areas[3][2] = one
         /\ L.areas[4][2] = bm /\ L.areas[5][2] = t /\ L.areas[6][2] = 1
<1>1. L.inodes = inodes /\ L.data = data
  BY DEF LayoutOf
<1>. DEFINE a == << <<"superblock", 1>>, <<"journal", j>>, <<"inode_bitmap", one>>,
                    <<"data_bitmap", bm>>, <<"inode_table", t>>, <<"root", 1>> >>
<1>2. L.areas = a
  BY DEF LayoutOf
<1>3. /\ a[1] = <<"superblock", 1>> /\ a[2] = <<"journal", j>> /\ a[3] = <<"inode_bitmap", one>>
      /\ a[4] = <<"data_bitmap", bm>> /\ a[5] = <<"inode_table", t>> /\ a[6] = <<"root", 1>>
  OBVIOUS
<1>. HIDE DEF a
<1>4. /\ a[1][2] = 1 /\ a[2][2] = j /\ a[3][2] = one /\ a[4][2] = bm /\ a[5][2] = t /\ a[6][2] = 1
  BY <1>3
<1>. QED  BY <1>1, <1>2, <1>4

\* The layout of the image, by its size.
LEMMA LayoutIs ==
  ASSUME size \in Sizes
  PROVE  \E inodes, j, t, bm, data \in Int :
           /\ Sizing(size, inodes, j, t, bm, data)
           /\ Layout(TotalBlocks) = LayoutOf(inodes, j, 1, bm, t, data)
<1>. DEFINE s == size
            total == TotalBlocks
<1>0. s \in Int /\ 1 <= s /\ s <= 16384 /\ total = s * 256
  <2>1. Sizes \subseteq 1 .. 16384
    BY MkfsAssumption
  <2>2. size \in 1 .. 16384
    BY <2>1
  <2>. QED  BY <2>2 DEF TotalBlocks
<1>. HIDE DEF s, total
<1>. USE <1>0
<1>. DEFINE inodes == TotalInodes(total)
            j == JournalBlocks(total)
            t == TableBlocks(total)
            b == BitmapBlocks(total - 1 - 1)
            left == DataBlocks(total, b)
            m == DataBits(total)
            data == DataBlocks(total, m)
<1>1. inodes = IF s < 258 THEN 256 ELSE s - 1
  <2>. DEFINE x == total - 100
  <2>1. x \in Nat /\ x <= 16777216
    BY SMT
  <2>2. x \div 256 = s - 1
    BY SMT
  <2>. HIDE DEF x
  <2>3. Quotient(x, 256) = s - 1
    BY <2>1, <2>2, Divided, SMT
  <2>4. inodes = Clamp(256, Quotient(x, 256), 16384)
    BY SMT DEF TotalInodes, x
  <2>. QED  BY <2>3, <2>4, SMT DEF Clamp
<1>2. InodeBits(total) = 1
  <2>. HIDE DEF inodes
  <2>. DEFINE x == inodes + 32767
  <2>1. x \in Nat /\ x <= 16777216
    BY <1>1, SMT
  <2>2. x \div 32768 = 1
    BY <1>1, SMT
  <2>. HIDE DEF x
  <2>3. Quotient(x, 32768) = 1
    BY <2>1, <2>2, Divided, SMT
  <2>. QED  BY <2>3, SMT DEF InodeBits, BitmapBlocks, BitsPerBlock, x, inodes
<1>3. t = IF s < 258 THEN 8 ELSE (s + 30) \div 32
  <2>. HIDE DEF inodes
  <2>. DEFINE x == inodes + 31
  <2>1. x \in Nat /\ x <= 16777216
    BY <1>1, SMT
  <2>2. x \div 32 = IF s < 258 THEN 8 ELSE (s + 30) \div 32
    BY <1>1, SMT
  <2>. HIDE DEF x
  <2>3. Quotient(x, 32) = x \div 32
    BY <2>1, Divided, SMT
  <2>. QED  BY <2>2, <2>3, SMT DEF TableBlocks, x, inodes
<1>4. j = IF s < 8 THEN 256 ELSE IF s < 64 THEN 32 * s ELSE 2048
  <2>1. total \in Nat /\ total <= 16777216 /\ total \div 8 = 32 * s
    BY SMT
  <2>2. Quotient(total, 8) = 32 * s
    BY <2>1, Divided, SMT
  <2>. QED  BY <2>2, SMT DEF JournalBlocks, Clamp
<1>5. b = (256 * s + 32765) \div 32768 /\ b \in Int /\ b >= 1 /\ b <= 128
  <2>. DEFINE x == 256 * s + 32765
  <2>0. x \in Nat /\ x >= 33021 /\ x <= 4227069
    BY SMT
  <2>2. total - 1 - 1 + 32767 = x
    BY SMT
  <2>. HIDE DEF x
  <2>1. x \div 32768 >= 1 /\ x \div 32768 <= 128 /\ x \div 32768 \in Int
    BY <2>0, SMT
  <2>3. Quotient(x, 32768) = x \div 32768
    BY <2>0, Divided, SMT
  <2>. QED  BY <2>1, <2>2, <2>3, SMT DEF BitmapBlocks, BitsPerBlock, x
<1>6. left = total - (1 + j + 1 + b + t) /\ data = total - (1 + j + 1 + m + t) /\ m = BitmapBlocks(left)
  BY <1>2, SMT DEF DataBlocks, DataBits
<1>. HIDE DEF inodes, j, t, b, m, left, data
<1>7. j \in Int /\ 256 <= j /\ j <= 2048 /\ t \in Int /\ 8 <= t /\ t <= 512
  <2>1. s >= 258 => (s + 30) \div 32 >= 8 /\ (s + 30) \div 32 <= 512
    BY SMT
  <2>2. j >= 256 /\ j <= 2048 /\ j \in Int
    BY <1>4, SMT
  <2>3. t >= 8 /\ t <= 512 /\ t \in Int
    BY <1>3, <2>1, SMT
  <2>. QED  BY <2>2, <2>3, SMT
<1>8. left \in Int /\ left = 256 * s - (2 + j + b + t)
  BY <1>5, <1>6, <1>7, SMT
<1>9. m \in Nat /\ (left >= 0 => m = (left + 32767) \div 32768)
  <2>. DEFINE x == left + 32767
  <2>1. x \in Int /\ (left >= 0 => x \in Nat /\ x <= 16777216)
    BY <1>5, <1>7, <1>8, SMT
  <2>2. m = Quotient(x, 32768)
    BY <1>6, SMT DEF BitmapBlocks, BitsPerBlock
  <2>. HIDE DEF x
  <2>3. Quotient(x, 32768) \in Nat
    BY <2>1, DividedNat, SMT
  <2>4. left >= 0 => Quotient(x, 32768) = x \div 32768
    BY <2>1, Divided, SMT
  <2>. QED  BY <2>2, <2>3, <2>4, SMT DEF x
<1>10. data \in Int /\ data = 256 * s - (2 + j + m + t)
  BY <1>6, <1>7, <1>9, SMT
<1>11. data > 0 => data <= m * 32768
  <2>1. CASE left >= 0
    <3>1. IF s < 64 THEN (s < 8 /\ j = 256) \/ (s >= 8 /\ j = 32 * s) ELSE j = 2048
      BY <1>4, SMT
    <3>2. j \in Int /\ t \in Int /\ b \in Int /\ m \in Int /\ left \in Int
      BY <1>5, <1>7, <1>8, <1>9
    <3>3. 256 * s - (2 + j + m + t) <= m * 32768
      <4>1. Sized(s, j, t, b, left, m)
        BY <2>1, <3>1, <3>2, <1>3, <1>5, <1>8, <1>9, SMT DEF Sized
      <4>2. Fits(s, j, t, m)
        BY <4>1, BitmapHolds
      <4>. QED  BY <4>2 DEF Fits
    <3>. QED  BY <1>10, <3>3, SMT
  <2>2. CASE left < 0
    BY <2>2, <1>5, <1>7, <1>8, <1>9, <1>10, SMT
  <2>. QED  BY <1>8, <2>1, <2>2
<1>12. inodes \in Int /\ inodes >= 256 /\ inodes <= 16384 /\ inodes <= 32 * t
  BY <1>1, <1>3, SMT
<1>13. Sizing(s, inodes, j, t, m, data)
  BY <1>7, <1>9, <1>10, <1>11, <1>12, SMT DEF Sizing
<1>14. Layout(total) = LayoutOf(inodes, j, InodeBits(total), m, t, data)
  BY DEF Layout, LayoutOf, inodes, data, j, m, t
<1>15. Layout(total) = LayoutOf(inodes, j, 1, m, t, data)
  BY <1>2, <1>14
<1>16. inodes \in Int /\ j \in Int /\ t \in Int /\ m \in Int /\ data \in Int
  BY <1>7, <1>9, <1>10, <1>12
<1>. QED  BY <1>13, <1>15, <1>16 DEF s, total

\* Where the areas start that follow each other.
LEMMA StartIs ==
  ASSUME NEW areas, \A k \in 1 .. 6 : areas[k][2] \in Int
  PROVE  /\ Start(areas, 1) = 0
         /\ \A k \in 1 .. 6 : Start(areas, k + 1) = Start(areas, k) + areas[k][2]
         /\ \A k \in 1 .. 7 : Start(areas, k) \in Int
<1>. DEFINE Loop(g) == [k \in 0 .. 6 |-> IF k = 0 THEN 0 ELSE g[k - 1] + areas[k][2]]
            to == CHOOSE g : g = Loop(g)
            step == [x \in (1 .. 6) \X Int |-> x[2] + areas[x[1]][2]]
<1>1. \A n : Start(areas, n) = to[n - 1]
  BY DEF Start
<1>2. PICK f : Iterates(f, 6, Int, 0, step)
  <2>. DEFINE n == 6
  <2>1. step \in [(1 .. n) \X Int -> Int] /\ n \in Nat /\ 0 \in Int
    OBVIOUS
  <2>. HIDE DEF step, n
  <2>2. \E f : Iterates(f, n, Int, 0, step)
    BY <2>1, IterationExists
  <2>. QED  BY <2>2 DEF n
<1>3. f \in [0 .. 6 -> Int] /\ f[0] = 0
  BY <1>2 DEF Iterates
<1>4. \A k \in 1 .. 6 : f[k] = f[k - 1] + areas[k][2]
  <2>. SUFFICES ASSUME NEW k \in 1 .. 6 PROVE f[k] = f[k - 1] + areas[k][2]
    OBVIOUS
  <2>1. f[k - 1] \in Int /\ <<k, f[k - 1]>> \in (1 .. 6) \X Int
    BY <1>3
  <2>2. f[k] = step[<<k, f[k - 1]>>]
    <3>. HIDE DEF step
    <3>. QED  BY <1>2 DEF Iterates
  <2>. QED  BY <2>1, <2>2
<1>5. f = Loop(f)
  <2>1. \A k \in 0 .. 6 : f[k] = IF k = 0 THEN 0 ELSE f[k - 1] + areas[k][2]
    BY <1>3, <1>4
  <2>. QED  BY <1>3, <2>1
<1>6. to = Loop(to)
  <2>. HIDE DEF Loop
  <2>. QED  BY <1>5
<1>. HIDE DEF to
<1>7. to[0] = 0 /\ \A k \in 1 .. 6 : to[k] = to[k - 1] + areas[k][2]
  BY <1>6
<1>8. \A k \in 0 .. 6 : to[k] \in Int
  <2>1. to[0] \in Int /\ to[1] \in Int /\ to[2] \in Int /\ to[3] \in Int
    BY <1>7
  <2>2. to[4] \in Int /\ to[5] \in Int /\ to[6] \in Int
    BY <1>7, <2>1
  <2>. QED  BY <2>1, <2>2
<1>. QED  BY <1>1, <1>7, <1>8

(***************************************************************************)
(* The program that writes it.                                             *)
(***************************************************************************)

\* what of an image the sizes say
Areas == Layout(TotalBlocks).areas

\* what mkfs has written is within the device, and what it refused is not
MkfsInv ==
  /\ size \in Sizes /\ regions \in 0 .. 6 /\ faults \in Nat
  /\ result \in {"running", "formatted", "failed"}
  /\ result # "failed" /\ regions > 0 => Start(Areas, regions + 1) <= TotalBlocks
  /\ result = "formatted" => regions = 6
  /\ result = "failed" /\ faults = 0 => regions < 6 /\ Start(Areas, regions + 2) > TotalBlocks

\* Nothing else touches what mkfs knows.
LEMMA OtherSteps ==
  ASSUME [Next]_vars
  PROVE  \/ FormatRegion \/ FormatFault \/ FormatEnd
         \/ (UNCHANGED <<size, regions, result>> /\ (faults' = faults \/ faults' = faults + 1))
<1>. DEFINE Goal == UNCHANGED <<size, regions, result>> /\ (faults' = faults \/ faults' = faults + 1)
<1>1. CASE UNCHANGED vars
  BY <1>1 DEF vars, mkfsVars
<1>2. CASE Mount \/ Stop \/ Unmount \/ TimerStep \/ Crash
  BY <1>2 DEF Mount, MountLoad, MountRecover, MountStart, MountFails, Stop, Unmount, Join, DropRust, Close,
              TimerStep, TimerWait, TimerWakes, TimerCheck, Crash, Fault, mkfsVars
<1>3. ASSUME NEW t \in Threads, Requests(t) \/ Write(t) \/ Remove(t) PROVE Goal
  BY <1>3 DEF Requests, FsyncBegin, WriteBegin, RemoveBegin, Request, Write, Alloc, InodeSync, Commit, CommitFails,
              Apply, Remove, FreeBlock, ClearInode, SyncStart, Fault, mkfsVars
<1>4. ASSUME NEW t \in Actors, Sync(t) PROVE Goal
  BY <1>4 DEF Sync, Checkpoint, CheckpointFails, ExtentSeek, ExtentWrite, ExtentFails, SyncInodes, SyncBitmap,
     SyncBitmapFails,
              FlushBegin, FlushBlock, FlushEnd, FlushFails, Fault, mkfsVars
<1>. QED  BY <1>1, <1>2, <1>3, <1>4 DEF Next, Format

\* The layout of an image, and where its areas start.
LEMMA Layouts ==
  ASSUME size \in Sizes
  PROVE  \E inodes, j, t, bm, data \in Int :
           /\ Sizing(size, inodes, j, t, bm, data)
           /\ Layout(TotalBlocks) = LayoutOf(inodes, j, 1, bm, t, data)
           /\ Start(Areas, 2) = 1 /\ Start(Areas, 3) = 1 + j /\ Start(Areas, 4) = 2 + j
           /\ Start(Areas, 5) = 2 + j + bm /\ Start(Areas, 6) = 2 + j + bm + t
           /\ Start(Areas, 7) = 3 + j + bm + t
<1>1. PICK inodes, j, t, bm, data \in Int :
        /\ Sizing(size, inodes, j, t, bm, data)
        /\ Layout(TotalBlocks) = LayoutOf(inodes, j, 1, bm, t, data)
  BY LayoutIs
<1>4. /\ Areas[1][2] = 1 /\ Areas[2][2] = j /\ Areas[3][2] = 1
      /\ Areas[4][2] = bm /\ Areas[5][2] = t /\ Areas[6][2] = 1
  BY <1>1, AreaIs DEF Areas
<1>5. \A k \in 1 .. 6 : Areas[k][2] \in Int
  BY <1>4
<1>6. /\ Start(Areas, 1) = 0
      /\ \A k \in 1 .. 6 : Start(Areas, k + 1) = Start(Areas, k) + Areas[k][2]
  BY <1>5, StartIs
<1>7. /\ Start(Areas, 2) = 1 /\ Start(Areas, 3) = 1 + j /\ Start(Areas, 4) = 2 + j
      /\ Start(Areas, 5) = 2 + j + bm /\ Start(Areas, 6) = 2 + j + bm + t
      /\ Start(Areas, 7) = 3 + j + bm + t
  <2>1. Start(Areas, 1 + 1) = 1 /\ Start(Areas, 2 + 1) = 1 + j /\ Start(Areas, 3 + 1) = 2 + j
    BY <1>4, <1>6
  <2>2. Start(Areas, 4 + 1) = 2 + j + bm /\ Start(Areas, 5 + 1) = 2 + j + bm + t
    BY <1>4, <1>6, <2>1
  <2>3. Start(Areas, 6 + 1) = 3 + j + bm + t
    BY <1>4, <1>6, <2>2
  <2>. QED  BY <2>1, <2>2, <2>3
<1>. WITNESS inodes \in Int, j \in Int, t \in Int, bm \in Int, data \in Int
<1>. QED  BY <1>1, <1>7

\* A step keeps it.
LEMMA MkfsStep ==
  ASSUME MkfsInv, [Next]_vars
  PROVE  MkfsInv'
<1>1. CASE FormatRegion
  <2>1. UNCHANGED <<size, faults>> /\ result = "running" /\ regions < 6
    BY <1>1 DEF FormatRegion
  <2>2. Areas' = Areas /\ TotalBlocks' = TotalBlocks
    BY <2>1 DEF Areas, TotalBlocks
  <2>3. IF Start(Areas, regions + 2) <= TotalBlocks THEN regions' = regions + 1 /\ UNCHANGED result
        ELSE result' = "failed" /\ UNCHANGED regions
    BY <1>1 DEF FormatRegion, Areas
  <2>. DEFINE s == Start(Areas, regions + 2)
  <2>4. CASE s <= TotalBlocks
    <3>1. regions' = regions + 1 /\ result' = "running"
      BY <2>1, <2>3, <2>4
    <3>2. (regions + 1) + 1 = regions + 2
      BY DEF MkfsInv
    <3>3. Start(Areas', regions' + 1) = s
      BY <2>2, <3>1, <3>2
    <3>. HIDE DEF s
    <3>. QED  BY <2>1, <2>2, <2>4, <3>1, <3>3 DEF MkfsInv
  <2>5. CASE ~(s <= TotalBlocks)
    <3>1. regions' = regions /\ result' = "failed"
      BY <2>1, <2>3, <2>5
    <3>2. s \in Int /\ TotalBlocks \in Int
      <4>1. size \in Sizes /\ size \in Int
        BY MkfsAssumption DEF MkfsInv
      <4>2. \A k \in {2, 3, 4, 5, 6, 7} : Start(Areas, k) \in Int
        BY <4>1, Layouts
      <4>3. regions + 2 \in {2, 3, 4, 5, 6, 7}
        BY <2>1 DEF MkfsInv
      <4>. QED  BY <4>1, <4>2, <4>3 DEF TotalBlocks
    <3>. HIDE DEF s
    <3>3. s > TotalBlocks
      BY <2>5, <3>2
    <3>4. Start(Areas', regions' + 2) = s
      BY <2>2, <3>1 DEF s
    <3>. QED  BY <2>1, <2>2, <3>1, <3>3, <3>4 DEF MkfsInv
  <2>. QED  BY <2>4, <2>5
<1>2. CASE FormatFault
  BY <1>2 DEF FormatFault, MkfsInv
<1>3. CASE FormatEnd
  BY <1>3 DEF FormatEnd, MkfsInv, Areas, TotalBlocks
<1>4. CASE UNCHANGED <<size, regions, result>> /\ (faults' = faults \/ faults' = faults + 1)
  BY <1>4 DEF MkfsInv, Areas, TotalBlocks
<1>. QED  BY <1>1, <1>2, <1>3, <1>4, OtherSteps

\* What mkfs reports is what the layout says.
LEMMA FormatsWholeNow ==
  ASSUME MkfsInv
  PROVE  FormatsWhole
<1>1. size \in Sizes /\ size \in Int /\ TotalBlocks = 256 * size
  BY MkfsAssumption DEF MkfsInv, TotalBlocks
<1>2. PICK inodes, j, t, bm, data \in Int :
        /\ Sizing(size, inodes, j, t, bm, data)
        /\ Layout(TotalBlocks) = LayoutOf(inodes, j, 1, bm, t, data)
        /\ Start(Areas, 2) = 1 /\ Start(Areas, 3) = 1 + j /\ Start(Areas, 4) = 2 + j
        /\ Start(Areas, 5) = 2 + j + bm /\ Start(Areas, 6) = 2 + j + bm + t
        /\ Start(Areas, 7) = 3 + j + bm + t
  BY <1>1, Layouts
<1>3. /\ inodes >= 256 /\ inodes <= 16384 /\ inodes <= 32 * t
      /\ j >= 256 /\ j <= 2048 /\ t >= 8 /\ t <= 512 /\ bm >= 0
      /\ data = 256 * size - (2 + j + bm + t)
      /\ data > 0 => data <= bm * 32768
  BY <1>2 DEF Sizing
<1>. DEFINE L == Layout(TotalBlocks)
<1>4. /\ L.inodes = inodes /\ L.data = data
      /\ L.areas[3][2] = 1 /\ L.areas[4][2] = bm /\ L.areas[5][2] = t
  BY <1>2, AreaIs
<1>6. L.areas = Areas
  BY DEF Areas
<1>. HIDE DEF L
<1>7. ASSUME result = "formatted"
      PROVE  /\ Start(L.areas, 6) + L.data = TotalBlocks
             /\ 1 <= L.data /\ L.data <= L.areas[4][2] * BitsPerBlock
             /\ L.inodes <= L.areas[3][2] * BitsPerBlock /\ L.inodes <= L.areas[5][2] * 32
  <2>1. Start(Areas, 7) <= TotalBlocks
    BY <1>7 DEF MkfsInv
  <2>2. data > 0 /\ Start(Areas, 6) + data = TotalBlocks
    BY <1>1, <1>2, <1>3, <2>1
  <2>. QED  BY <1>3, <1>4, <1>6, <2>2 DEF BitsPerBlock
<1>8. ASSUME result = "failed", faults = 0
      PROVE  TotalBlocks < Start(L.areas, 7)
  <2>1. regions \in 0 .. 5 /\ Start(Areas, regions + 2) > TotalBlocks
    BY <1>8 DEF MkfsInv
  <2>2. \A k \in {2, 3, 4, 5, 6, 7} : Start(Areas, k) <= Start(Areas, 7) /\ Start(Areas, k) \in Int
    BY <1>2, <1>3
  <2>3. regions + 2 \in {2, 3, 4, 5, 6, 7} /\ TotalBlocks \in Int
    BY <1>1, <2>1
  <2>. DEFINE s == Start(Areas, regions + 2)
              e == Start(Areas, 7)
  <2>4. s <= e /\ s \in Int /\ e \in Int /\ s > TotalBlocks
    BY <2>1, <2>2, <2>3
  <2>. HIDE DEF s, e
  <2>5. TotalBlocks < e
    BY <2>3, <2>4
  <2>. QED  BY <1>6, <2>5 DEF e
<1>. QED  BY <1>7, <1>8 DEF FormatsWhole, L

\* Every image that mkfs reports as made is sound, and it refuses a size only for
\* want of room (superblock_init and mkfs.c): of every size, not only of those
\* around which the layout changes.
THEOREM ImagesAreWhole == Spec => []FormatsWhole
<1>1. Init => MkfsInv
  BY DEF Init, MkfsInit, MkfsInv
<1>2. MkfsInv /\ [Next]_vars => MkfsInv'
  BY MkfsStep
<1>. QED  BY <1>1, <1>2, FormatsWholeNow, PTL DEF Spec

=============================================================================
