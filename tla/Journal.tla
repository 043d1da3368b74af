------------------------------ MODULE Journal ------------------------------
(***************************************************************************)
(* The write-ahead log of rust_core/src/journal/mod.rs: a ring of N blocks *)
(* at the front of which lives the journal superblock, a commit that       *)
(* writes header, data and commit blocks and then the superblock, a        *)
(* checkpoint that copies logged data to its home block, and the recovery  *)
(* that a mount runs.  One action per critical section; the mutexes        *)
(* "superblock" and "device" are the guards SuperblockFree, DeviceFree.    *)
(*                                                                         *)
(* The device is disk (what reads return: page cache over media) and media *)
(* (what a power cut leaves).  A killed process keeps disk.  A write of a  *)
(* block is atomic.  Abstracted: checksums are the data they are computed  *)
(* from, the fields nobody reads (sequence, txn_id, num_blocks) and the    *)
(* table of active transactions are left out.                              *)
(***************************************************************************)
EXTENDS Integers, Sequences, WriteLists

CONSTANTS
  Threads,        \* threads of the FUSE daemon that may call the journal
  N,              \* journal_blocks: size of the ring, its block 0 included
  Homes,          \* block numbers that transactions write (outside the ring)
  Vals,           \* contents a transaction may log
  Zero,           \* content of a block nobody wrote (mkfs zeroes the disk)
  AfterRing,      \* content of the block that follows the ring on disk
  Workload,       \* the lists of <<block, content>> a transaction may carry
  PowerLoss,      \* TRUE: the machine may lose power; FALSE: only the process dies
  MaxCommits,     \* bound: commits begun in a behaviour
  MaxCrashes,     \* bound: crashes in a behaviour
  MaxFaults,      \* bound: failing device calls in a behaviour
  MaxOpen         \* bound: data blocks a recovery collects that never ends

Slots == 0 .. N - 1
Addrs == Slots \cup Homes

ASSUME JournalAssumption ==
  /\ N \in Nat /\ N >= 3
  /\ Homes \cap 0 .. N = {}
  /\ Workload \subseteq Seq(Homes \X Vals) /\ <<>> \notin Workload
  /\ PowerLoss \in BOOLEAN
  /\ MaxCommits \in Nat /\ MaxCrashes \in Nat /\ MaxFaults \in Nat
  /\ MaxOpen \in Nat

----------------------------------------------------------------------------
(* Block contents, told apart by the magic in their first word.            *)

Data(v)      == [kind |-> "data", val |-> v]
Header(b, v) == [kind |-> "jdat", target |-> b, checksum |-> v]
CommitRecord == [kind |-> "jcmt"]
JournalSb(w) == [kind |-> "jsb", head |-> w.head, tail |-> w.tail]

Contents == Vals \cup {Zero, AfterRing}
Windows  == [head : Slots, tail : Slots]
Blocks   == [kind : {"data"}, val : Contents]
            \cup [kind : {"jdat"}, target : Homes, checksum : Contents]
            \cup {CommitRecord}
            \cup [kind : {"jsb"}, head : Slots, tail : Slots]

VARIABLES
  disk,     \* block contents as read() returns them
  media,    \* block contents that survive a power cut
  sb,       \* the in-memory superblock: head and tail of the live window
  mode,     \* "up", "down" (not mounted) or "recover" (mount is replaying)
  current,  \* recover(): the slot it looks at next
  open,     \* recover(): current_txn_blocks, data seen since the last commit record
  replay,   \* recover(): what it has still to write of a committed transaction
  pc,       \* where each thread is
  txn,      \* the writes of the transaction a thread commits
  done,     \* how many of them are journalled
  hslot,    \* the header (or commit) slot a thread holds
  dslot,    \* the data slot a thread holds
  win,      \* a thread's copy of the superblock; in a checkpoint, head is "current"
  got,      \* the <<target, data>> a checkpoint has read and not yet applied
  stores,   \* ghost: the home contents that a restart may show; one when mounted
  crossed,  \* ghost: the limits of the design this behaviour has crossed
  used      \* ghost: what the bounds count

diskVars   == <<disk, media>>
mountVars  == <<mode, current, open, replay>>
commitVars == <<txn, done, hslot, dslot>>
ghosts     == <<stores, crossed, used>>
vars == <<disk, media, sb, mode, current, open, replay, pc, txn, done, hslot, dslot, win, got,
          stores, crossed, used>>

CommitPcs     == {"hdr", "dat", "wrHdr", "wrDat", "cmt", "wrCmt",
                  "sbCopy", "sbWrite", "sbSync", "fsync"}
CheckpointPcs == {"scan", "apply", "cpHead", "cpSb", "cpSbSync"}
Budgets == {"commits", "crashes", "faults"}
Limits == {"wrap", "commits", "checkpoints", "mixed", "failed", "torn", "unsynced"}

----------------------------------------------------------------------------
(* Helpers.                                                                *)

\* slip: no wrap-around
SuccNoWrap(s) == s + 1

\* (s + 1) % journal_blocks, for s in the ring
Succ(s) == IF s + 1 = N THEN 0 ELSE s + 1

Put(f, a, c) == [f EXCEPT ![a] = c]

\* read_journal_block: the data is read from the next block of the device,
\* not from the next block of the ring
DataAfter(d, s) == IF s + 1 = N THEN Data(AfterRing) ELSE d[s + 1]

HomeOf(d) == [h \in Homes |-> d[h]]

\* what recover() collects from the window w of the image d: k blocks looked
\* at, the data blocks since the last commit record in open, and in out what
\* it replays.  Twice round the ring is as far as it ever gets without having
\* read a block twice.
Scan(d, w) ==
  LET at[k \in 0 .. 2 * N] ==
        IF k = 0 THEN [current |-> w.head, open |-> <<>>, out |-> <<>>, unknown |-> FALSE]
        ELSE LET p == at[k - 1] IN
             IF p.unknown \/ p.current = w.tail THEN p
             ELSE CASE d[p.current].kind = "jdat" ->
                         [p EXCEPT !.current = Succ(Succ(p.current)),
                                   !.open = Append(@, <<d[p.current].target,
                                                        DataAfter(d, p.current)>>)]
                    [] d[p.current].kind = "jcmt" ->
                         [p EXCEPT !.current = Succ(p.current),
                                   !.out = @ \o p.open, !.open = <<>>]
                    [] OTHER -> [p EXCEPT !.unknown = TRUE]
  IN  at[2 * N]

\* the window a mount reads from block 0 (JournalManager::new)
DiskWindow(d) ==
  IF d[0].head = 0 /\ d[0].tail = 0 THEN [head |-> 1, tail |-> 1]
  ELSE [head |-> d[0].head, tail |-> d[0].tail]

Mountable(d) == d[0].kind = "jsb"

\* the home blocks a mount of the image d would end with
Recovered(d) ==
  IF Mountable(d) THEN Overlay(HomeOf(d), Scan(d, DiskWindow(d)).out) ELSE HomeOf(d)

\* the slots of a window
Live(w) == {s \in Slots : IF w.head <= w.tail THEN w.head <= s /\ s < w.tail
                                              ELSE w.head <= s \/ s < w.tail}

\* the writes of t's transaction as block contents
AsData(ws) == [i \in DOMAIN ws |-> <<ws[i][1], Data(ws[i][2])>>]
Logged(t)  == AsData(txn[t])

Committing(t)    == pc[t] \in CommitPcs
Checkpointing(t) == pc[t] \in CheckpointPcs
Busy(t)          == pc[t] # "idle"

\* sync holds the device between its write and its fsync, write_journal_data
\* between header and data; the end of checkpoint holds both locks
DeviceFree(t)     == \A u \in Threads \ {t} : pc[u] \notin {"wrDat", "sbSync", "cpSbSync"}
SuperblockFree(t) == \A u \in Threads \ {t} : pc[u] \notin {"cpSb", "cpSbSync"}

Cross(limits) == crossed' = crossed \cup limits
Goto(t, p)    == pc' = [pc EXCEPT ![t] = p]
Advance(t, s) == win' = [win EXCEPT ![t] = [head |-> s, tail |-> win[t].tail]]
Use(b, limit) == used[b] < limit /\ used' = [used EXCEPT ![b] = @ + 1]

\* one block written to the page cache; an fsync of the device file
Write(a, c) == disk' = Put(disk, a, c) /\ UNCHANGED media
SyncAll     == media' = disk /\ UNCHANGED disk

\* the stack of t unwinds: its locals are gone
Return(t) ==
  /\ Goto(t, "idle")
  /\ txn' = [txn EXCEPT ![t] = <<>>]
  /\ done' = [done EXCEPT ![t] = 0]
  /\ hslot' = [hslot EXCEPT ![t] = 0]
  /\ dslot' = [dslot EXCEPT ![t] = 0]
  /\ win' = [win EXCEPT ![t] = [head |-> 0, tail |-> 0]]
  /\ got' = [got EXCEPT ![t] = <<>>]

----------------------------------------------------------------------------
(* commit().  Begin, the FFI writes and the start of commit are one step:  *)
(* they touch only the transaction.  A commit with no writes returns at    *)
(* once and changes nothing, so the workload has none.                     *)

CommitBegin(t, ws) ==
  /\ mode = "up" /\ ~Busy(t)
  /\ Use("commits", MaxCommits)
  /\ Goto(t, "hdr")
  /\ txn' = [txn EXCEPT ![t] = ws]
  /\ Cross({l \in {"commits", "mixed"} : \E u \in Threads \ {t} :
              IF l = "commits" THEN Committing(u) ELSE Checkpointing(u)})
  /\ UNCHANGED <<diskVars, sb, mountVars, done, hslot, dslot, win, got, stores>>

\* slip: the ring is never full
NeverFull == FALSE

\* allocate_journal_block: the slot at tail, or "Journal is full"
Full      == Succ(sb.tail) = sb.head
AllocSlot == sb' = [head |-> sb.head, tail |-> Succ(sb.tail)]
AllocCross(t) == IF Succ(sb.tail) = 0 THEN {"wrap"} ELSE {}

\* the ? after a failed allocation: what was written so far stays in the ring
CommitFull(t) ==
  /\ pc[t] \in {"hdr", "dat", "cmt"} /\ SuperblockFree(t) /\ Full
  /\ Return(t)
  /\ Cross(IF pc[t] = "hdr" /\ done[t] = 0 THEN {} ELSE {"failed"})
  /\ UNCHANGED <<diskVars, sb, mountVars, stores, used>>

AllocHeader(t) ==
  /\ pc[t] = "hdr" /\ SuperblockFree(t) /\ ~Full
  /\ AllocSlot /\ hslot' = [hslot EXCEPT ![t] = sb.tail]
  /\ Cross(AllocCross(t))
  /\ Goto(t, "dat")
  /\ UNCHANGED <<diskVars, mountVars, txn, done, dslot, win, got, stores, used>>

AllocData(t) ==
  /\ pc[t] = "dat" /\ SuperblockFree(t) /\ ~Full
  /\ AllocSlot /\ dslot' = [dslot EXCEPT ![t] = sb.tail]
  /\ Cross(AllocCross(t))
  /\ Goto(t, "wrHdr")
  /\ UNCHANGED <<diskVars, mountVars, txn, done, hslot, win, got, stores, used>>

\* slip: the header describes the block before the one its data comes from
WriteHeaderOffByOne(t) ==
  /\ pc[t] = "wrHdr" /\ DeviceFree(t)
  /\ LET w == txn[t][IF done[t] = 0 THEN 1 ELSE done[t]] IN Write(hslot[t], Header(w[1], w[2]))
  /\ Goto(t, "wrDat")
  /\ UNCHANGED <<sb, mountVars, commitVars, win, got, ghosts>>

WriteHeader(t) ==
  /\ pc[t] = "wrHdr" /\ DeviceFree(t)
  /\ LET w == txn[t][done[t] + 1] IN Write(hslot[t], Header(w[1], w[2]))
  /\ Goto(t, "wrDat")
  /\ UNCHANGED <<sb, mountVars, commitVars, win, got, ghosts>>

WriteData(t) ==
  /\ pc[t] = "wrDat"
  /\ Write(dslot[t], Data(txn[t][done[t] + 1][2]))
  /\ done' = [done EXCEPT ![t] = @ + 1]
  /\ Goto(t, IF done[t] + 1 = Len(txn[t]) THEN "cmt" ELSE "hdr")
  /\ UNCHANGED <<sb, mountVars, txn, hslot, dslot, win, got, ghosts>>

AllocCommit(t) ==
  /\ pc[t] = "cmt" /\ SuperblockFree(t) /\ ~Full
  /\ AllocSlot /\ hslot' = [hslot EXCEPT ![t] = sb.tail]
  /\ Cross(AllocCross(t))
  /\ Goto(t, "wrCmt")
  /\ UNCHANGED <<diskVars, mountVars, txn, done, dslot, win, got, stores, used>>

\* slip: the commit record is not written
WriteNoCommitRecord(t) ==
  /\ pc[t] = "wrCmt" /\ DeviceFree(t)
  /\ Goto(t, "sbCopy")
  /\ UNCHANGED <<diskVars, sb, mountVars, commitVars, win, got, ghosts>>

WriteCommitRecord(t) ==
  /\ pc[t] = "wrCmt" /\ DeviceFree(t)
  /\ Write(hslot[t], CommitRecord)
  /\ Goto(t, "sbCopy")
  /\ UNCHANGED <<sb, mountVars, commitVars, win, got, ghosts>>

\* sync_superblock_to_disk: copy under the superblock lock, drop it, then
\* write and fsync under the device lock
SyncCopy(t) ==
  /\ pc[t] = "sbCopy" /\ SuperblockFree(t)
  /\ win' = [win EXCEPT ![t] = sb]
  /\ Goto(t, "sbWrite")
  /\ UNCHANGED <<diskVars, sb, mountVars, commitVars, got, ghosts>>

SyncWrite(t) ==
  /\ pc[t] = "sbWrite" /\ DeviceFree(t)
  /\ Write(0, JournalSb(win[t]))
  /\ Goto(t, "sbSync")
  /\ UNCHANGED <<sb, mountVars, commitVars, win, got, ghosts>>

SyncFlush(t) ==
  /\ pc[t] = "sbSync"
  /\ SyncAll
  /\ Goto(t, "fsync")
  /\ UNCHANGED <<sb, mountVars, commitVars, win, got, ghosts>>

\* the last fsync and the Ok(()) that acknowledges the transaction
CommitEnd(t) ==
  /\ pc[t] = "fsync" /\ DeviceFree(t)
  /\ SyncAll
  /\ stores' = {Overlay(f, Logged(t)) : f \in stores}
  /\ Return(t)
  /\ UNCHANGED <<sb, mountVars, crossed, used>>

\* a device call of commit fails: the ? returns, nothing is undone
CommitFault(t) ==
  /\ pc[t] \in {"wrHdr", "wrDat", "wrCmt", "sbWrite", "sbSync", "fsync"} /\ DeviceFree(t)
  /\ Use("faults", MaxFaults)
  /\ Return(t)
  /\ Cross({"failed"})
  /\ UNCHANGED <<diskVars, sb, mountVars, stores>>

----------------------------------------------------------------------------
(* checkpoint().                                                           *)

\* snapshot of head and tail; with head = tail it returns at once
CheckpointBegin(t) ==
  /\ mode = "up" /\ ~Busy(t) /\ SuperblockFree(t)
  /\ sb.head # sb.tail
  /\ win' = [win EXCEPT ![t] = sb]
  /\ Goto(t, "scan")
  /\ Cross({l \in {"mixed", "checkpoints"} : \E u \in Threads \ {t} :
              IF l = "mixed" THEN Committing(u) ELSE Checkpointing(u)})
  /\ UNCHANGED <<diskVars, sb, mountVars, commitVars, got, stores, used>>

\* slip: a commit record is stepped over as if it had a data block
CheckpointReadOver(t) ==
  LET c == win[t].head IN
  /\ pc[t] = "scan" /\ c # win[t].tail /\ DeviceFree(t)
  /\ \/ /\ disk[c].kind = "jdat"
        /\ got' = [got EXCEPT ![t] = <<disk[c].target, DataAfter(disk, c)>>]
        /\ Goto(t, "apply")
        /\ UNCHANGED win
     \/ /\ disk[c].kind # "jdat"
        /\ Advance(t, Succ(Succ(c)))
        /\ UNCHANGED <<got, pc>>
  /\ UNCHANGED <<diskVars, sb, mountVars, commitVars, ghosts>>

\* read_journal_block(current): a data block is applied next, a commit record
\* and an unknown block are stepped over
CheckpointRead(t) ==
  LET c == win[t].head IN
  /\ pc[t] = "scan" /\ c # win[t].tail /\ DeviceFree(t)
  /\ \/ /\ disk[c].kind = "jdat"
        /\ got' = [got EXCEPT ![t] = <<disk[c].target, DataAfter(disk, c)>>]
        /\ Goto(t, "apply")
        /\ UNCHANGED win
     \/ /\ disk[c].kind # "jdat"
        /\ Advance(t, Succ(c))
        /\ UNCHANGED <<got, pc>>
  /\ UNCHANGED <<diskVars, sb, mountVars, commitVars, ghosts>>

\* slip: one data block ends the scan
CheckpointApplySkips(t) ==
  /\ pc[t] = "apply" /\ DeviceFree(t)
  /\ Write(got[t][1], got[t][2])
  /\ got' = [got EXCEPT ![t] = <<>>]
  /\ Advance(t, win[t].tail)
  /\ Goto(t, "scan")
  /\ UNCHANGED <<sb, mountVars, commitVars, ghosts>>

CheckpointApply(t) ==
  /\ pc[t] = "apply" /\ DeviceFree(t)
  /\ Write(got[t][1], got[t][2])
  /\ got' = [got EXCEPT ![t] = <<>>]
  /\ Advance(t, Succ(Succ(win[t].head)))
  /\ Goto(t, "scan")
  /\ UNCHANGED <<sb, mountVars, commitVars, ghosts>>

\* slip: the applied blocks are not flushed before head moves
CheckpointScannedNoSync(t) ==
  /\ pc[t] = "scan" /\ win[t].head = win[t].tail /\ DeviceFree(t)
  /\ Goto(t, "cpHead")
  /\ UNCHANGED <<diskVars, sb, mountVars, commitVars, win, got, ghosts>>

CheckpointScanned(t) ==
  /\ pc[t] = "scan" /\ win[t].head = win[t].tail /\ DeviceFree(t)
  /\ SyncAll
  /\ Goto(t, "cpHead")
  /\ UNCHANGED <<sb, mountVars, commitVars, win, got, ghosts>>

\* from here to the end the superblock lock is held
CheckpointHead(t) ==
  /\ pc[t] = "cpHead" /\ SuperblockFree(t)
  /\ sb' = [head |-> win[t].tail, tail |-> sb.tail]
  /\ Goto(t, "cpSb")
  /\ UNCHANGED <<diskVars, mountVars, commitVars, win, got, ghosts>>

CheckpointSbWrite(t) ==
  /\ pc[t] = "cpSb" /\ DeviceFree(t)
  /\ Write(0, JournalSb(sb))
  /\ Goto(t, "cpSbSync")
  /\ UNCHANGED <<sb, mountVars, commitVars, win, got, ghosts>>

CheckpointEnd(t) ==
  /\ pc[t] = "cpSbSync"
  /\ SyncAll
  /\ Return(t)
  /\ UNCHANGED <<sb, mountVars, ghosts>>

\* a device call of checkpoint fails; a head already moved in memory stays
CheckpointFault(t) ==
  /\ pc[t] \in {"scan", "apply", "cpSb", "cpSbSync"} /\ DeviceFree(t)
  /\ Use("faults", MaxFaults)
  /\ Return(t)
  /\ UNCHANGED <<diskVars, sb, mountVars, stores, crossed>>

----------------------------------------------------------------------------
(* Mount: JournalManager::new, then recover() with the superblock locked   *)
(* throughout; no other thread runs yet.  recover() replays every          *)
(* transaction whose commit record it reaches and leaves head and tail.    *)

Unmounted ==
  /\ mode' = "down" /\ sb' = [head |-> 0, tail |-> 0]
  /\ current' = 0 /\ open' = <<>> /\ replay' = <<>>

Mounted ==
  /\ mode' = "up" /\ stores' = {HomeOf(disk)}
  /\ current' = 0 /\ open' = <<>> /\ replay' = <<>>

\* with head = tail, recover() returns at once
Mount ==
  /\ mode = "down" /\ Mountable(disk)
  /\ LET w == DiskWindow(disk) IN
       /\ sb' = w
       /\ IF w.head = w.tail THEN Mounted
          ELSE mode' = "recover" /\ current' = w.head /\ UNCHANGED <<open, replay, stores>>
       /\ Cross(IF PowerLoss /\ \E s \in Live(w) \cup {0} : media[s] # disk[s]
                THEN {"unsynced"} ELSE {})
  /\ UNCHANGED <<diskVars, pc, commitVars, win, got, used>>

RecoverRead ==
  /\ mode = "recover" /\ replay = <<>> /\ current # sb.tail
  /\ \/ /\ disk[current].kind = "jdat" /\ Len(open) < MaxOpen
        /\ open' = Append(open, <<disk[current].target, DataAfter(disk, current)>>)
        /\ current' = Succ(Succ(current))
        /\ UNCHANGED replay
     \/ /\ disk[current].kind = "jcmt"
        /\ replay' = open /\ open' = <<>>
        /\ current' = Succ(current)
     \/ /\ disk[current].kind \notin {"jdat", "jcmt"}    \* unknown magic: break
        /\ current' = sb.tail
        /\ UNCHANGED <<open, replay>>
  /\ UNCHANGED <<diskVars, sb, mode, pc, commitVars, win, got, ghosts>>

RecoverWrite ==
  /\ mode = "recover" /\ replay # <<>>
  /\ Write(replay[1][1], replay[1][2])
  /\ replay' = Tail(replay)
  /\ UNCHANGED <<sb, mode, current, open, pc, commitVars, win, got, ghosts>>

\* slip: the last block is not replayed
RecoverEndEarly ==
  /\ mode = "recover" /\ current = sb.tail /\ Len(replay) <= 1
  /\ SyncAll /\ Mounted
  /\ UNCHANGED <<sb, pc, commitVars, win, got, crossed, used>>

\* what is still open is discarded
RecoverEnd ==
  /\ mode = "recover" /\ current = sb.tail /\ replay = <<>>
  /\ SyncAll /\ Mounted
  /\ UNCHANGED <<sb, pc, commitVars, win, got, crossed, used>>

\* recover() fails, and with it the mount
RecoverFault ==
  /\ mode = "recover" /\ Use("faults", MaxFaults)
  /\ Unmounted
  /\ UNCHANGED <<diskVars, pc, commitVars, win, got, stores, crossed>>

----------------------------------------------------------------------------
(* The environment: the process dies, the page cache is written back, the  *)
(* power fails.                                                            *)

\* What a restart may rebuild: every acknowledged commit, and a commit that is
\* still running either whole or not at all.
Promised ==
  stores \cup {Overlay(f, Logged(t)) : f \in stores, t \in {u \in Threads : Committing(u)}}

\* all memory is gone
Die ==
  /\ mode # "down" /\ Use("crashes", MaxCrashes)
  /\ Unmounted
  /\ pc' = [t \in Threads |-> "idle"]
  /\ txn' = [t \in Threads |-> <<>>]
  /\ done' = [t \in Threads |-> 0]
  /\ hslot' = [t \in Threads |-> 0]
  /\ dslot' = [t \in Threads |-> 0]
  /\ win' = [t \in Threads |-> [head |-> 0, tail |-> 0]]
  /\ got' = [t \in Threads |-> <<>>]
  /\ stores' = Promised

Crash == Die /\ UNCHANGED <<diskVars, crossed>>

WriteBack(a) ==
  /\ PowerLoss /\ media[a] # disk[a]
  /\ media' = Put(media, a, disk[a])
  /\ UNCHANGED <<disk, sb, mountVars, pc, commitVars, win, got, ghosts>>

\* the superblock on the media describes blocks that never got there
Torn == Mountable(media) /\ \E s \in Live(DiskWindow(media)) : media[s] # disk[s]

PowerCut ==
  /\ PowerLoss
  /\ disk' = media /\ UNCHANGED media
  /\ Cross(IF Torn THEN {"torn"} ELSE {})
  /\ Die

----------------------------------------------------------------------------
Init ==
  /\ \E w \in {[head |-> 1, tail |-> 1], [head |-> 0, tail |-> 0]} :  \* mkfs; old format
       disk = [a \in Addrs |-> IF a = 0 THEN JournalSb(w) ELSE Data(Zero)]
  /\ media = disk
  /\ sb = [head |-> 0, tail |-> 0]
  /\ mode = "down" /\ current = 0 /\ open = <<>> /\ replay = <<>>
  /\ pc = [t \in Threads |-> "idle"]
  /\ txn = [t \in Threads |-> <<>>]
  /\ done = [t \in Threads |-> 0]
  /\ hslot = [t \in Threads |-> 0]
  /\ dslot = [t \in Threads |-> 0]
  /\ win = [t \in Threads |-> [head |-> 0, tail |-> 0]]
  /\ got = [t \in Threads |-> <<>>]
  /\ stores = {[h \in Homes |-> Data(Zero)]}
  /\ crossed = {}
  /\ used = [b \in Budgets |-> 0]

Commit(t) ==
  \/ CommitFull(t) \/ AllocHeader(t) \/ AllocData(t) \/ WriteHeader(t) \/ WriteData(t)
  \/ AllocCommit(t) \/ WriteCommitRecord(t)
  \/ SyncCopy(t) \/ SyncWrite(t) \/ SyncFlush(t) \/ CommitEnd(t)

Checkpoint(t) ==
  \/ CheckpointRead(t) \/ CheckpointApply(t) \/ CheckpointScanned(t)
  \/ CheckpointHead(t) \/ CheckpointSbWrite(t) \/ CheckpointEnd(t)

Calls(t) == (\E ws \in Workload : CommitBegin(t, ws)) \/ CheckpointBegin(t)

Faults(t) == CommitFault(t) \/ CheckpointFault(t)

Environment ==
  \/ Crash \/ PowerCut
  \/ \E a \in Addrs : WriteBack(a)

Next ==
  \/ \E t \in Threads : Calls(t) \/ Commit(t) \/ Checkpoint(t) \/ Faults(t)
  \/ Mount \/ RecoverRead \/ RecoverWrite \/ RecoverEnd \/ RecoverFault
  \/ Environment

Spec == Init /\ [][Next]_vars

\* the scheduler runs every thread that is inside an operation; nobody is
\* obliged to call one
Fairness == \A t \in Threads : WF_vars(Commit(t)) /\ WF_vars(Checkpoint(t))
FairSpec == Spec /\ Fairness

----------------------------------------------------------------------------
(* Properties.  The design works within limits that the code does not      *)
(* enforce; "crossed" names those a behaviour has gone beyond:             *)
(*   wrap        the ring came round to its block 0, the superblock's own  *)
(*   commits     two commits overlapped                                    *)
(*   checkpoints two checkpoints overlapped                                *)
(*   mixed       a checkpoint overlapped a commit                          *)
(*   failed      a commit failed after it had taken blocks of the ring     *)
(*   torn        power failed with the superblock on the media ahead of    *)
(*               the blocks it describes                                   *)
(*   unsynced    recovery replayed blocks of the ring that are not yet on  *)
(*               the media                                                 *)

\* Types of the state: disk and media hold whole blocks, every index is in the ring.
TypeOK ==
  /\ disk \in [Addrs -> Blocks] /\ media \in [Addrs -> Blocks]
  /\ sb \in Windows
  /\ mode \in {"up", "down", "recover"}
  /\ current \in Slots
  /\ open \in Seq(Homes \X Blocks) /\ replay \in Seq(Homes \X Blocks)
  /\ pc \in [Threads -> {"idle"} \cup CommitPcs \cup CheckpointPcs]
  /\ txn \in [Threads -> Workload \cup {<<>>}]
  /\ done \in [Threads -> Nat]
  /\ hslot \in [Threads -> Slots] /\ dslot \in [Threads -> Slots]
  /\ win \in [Threads -> Windows]
  /\ got \in [Threads -> (Homes \X Blocks) \cup {<<>>}]
  /\ crossed \subseteq Limits
  /\ used \in [Budgets -> Nat]

WithinLimits == crossed = {}
OnlyCheckpointsOverlap == crossed \subseteq {"checkpoints"}

\* A window is well paired when its blocks are commit records and pairs of a
\* header and the data it was written for: each header has the data its
\* checksum was computed from in the next slot, inside the window, and no data
\* slot is reached but through its header.
WellPaired(d, lo, hi) ==
  \A s \in lo .. hi - 1 :
    \/ d[s].kind = "jcmt"
    \/ d[s].kind = "jdat" /\ s + 1 < hi /\ d[s + 1] = Data(d[s].checksum)
    \/ d[s].kind = "data" /\ s > lo /\ d[s - 1].kind = "jdat"

\* Checkpoints may overlap; within the other limits, the window of the superblock on disk is well paired at
\* every moment, and so is the window in memory when no commit is under way:
\* neither recovery nor checkpoint takes a data block for a header, applies
\* data to another block's home, or steps over the end of its window (none of
\* the code's readers verifies a checksum; here each would match).
PairedWindows ==
  OnlyCheckpointsOverlap =>
    /\ WellPaired(disk, DiskWindow(disk).head, DiskWindow(disk).tail)
    /\ (mode # "down" /\ \A t \in Threads : ~Committing(t)) =>
         WellPaired(disk, sb.head, sb.tail)

\* Within the limits, the disk at every moment, a replay cut short included,
\* recovers to what was promised; and after a power cut so does the media,
\* unless the cut tears the running commit.
CrashConsistent ==
  WithinLimits =>
    /\ Recovered(disk) \in Promised
    /\ PowerLoss /\ ~Torn => Recovered(media) \in Promised

\* Whatever a power cut leaves of the running commit, torn or not, it takes
\* nothing from acknowledged ones: the blocks the running commit does not write
\* recover to their acknowledged contents.
CutKeepsOthers ==
  PowerLoss /\ mode = "up" =>
    \A h \in Homes :
      (\A t \in Threads : h \notin Targets(txn[t])) =>
        \E f \in stores : Recovered(media)[h] = f[h]

\* Within the limits, that holds until the first crash: from then on the ring
\* may hold, behind its tail, blocks of a transaction that died.
CutKeepsAcknowledged == WithinLimits /\ used["crashes"] = 0 => CutKeepsOthers

\* Within the limits, whenever no operation runs and the window is empty (the
\* state in which write() leaves the file system after its checkpoint), the
\* home blocks, which is where reads look, hold every acknowledged write.
\* Checkpoints may even have overlapped, as long as none of them failed.
CheckpointExact ==
  /\ WithinLimits \/ (OnlyCheckpointsOverlap /\ used["faults"] = 0)
  /\ mode = "up" /\ sb.head = sb.tail /\ \A t \in Threads : ~Busy(t)
  => stores = {HomeOf(disk)}

\* As long as no checkpoint overlapped a commit, commits that run at the same
\* time never hold the same slot of the ring, and hold only slots of the live
\* window, which no checkpoint frees under them.
HeldSlots(t) ==
  (IF pc[t] \in {"dat", "wrHdr", "wrDat", "wrCmt"} THEN {hslot[t]} ELSE {})
    \cup (IF pc[t] \in {"wrHdr", "wrDat"} THEN {dslot[t]} ELSE {})

SlotsExclusive ==
  "mixed" \notin crossed =>
    \A t \in Threads :
      /\ HeldSlots(t) \subseteq Live(sb)
      /\ pc[t] \in {"wrHdr", "wrDat"} => hslot[t] # dslot[t]
      /\ \A u \in Threads \ {t} : HeldSlots(t) \cap HeldSlots(u) = {}

\* Checkpoints may overlap; within the other limits, every commit and every
\* checkpoint that starts returns (or dies with the process): no cursor steps
\* over the end of its window, no two threads wait for each other's lock.
OperationsReturn ==
  \A t \in Threads : Busy(t) ~> (~Busy(t) \/ ~OnlyCheckpointsOverlap)

----------------------------------------------------------------------------
(* The journal implements a store that changes atomically, within limits.  *)

Abstract == INSTANCE AtomicStore
  WITH Transactions <- {AsData(ws) : ws \in Workload},
       pending <- [t \in Threads |-> Logged(t)],
       up      <- mode = "up",
       outside <- crossed # {}

AtomicDurable == Abstract!Spec
=============================================================================
