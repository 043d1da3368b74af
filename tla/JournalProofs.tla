---------------------------- MODULE JournalProofs ----------------------------
(***************************************************************************)
(* Theorems about Journal, for every number of threads, every size of the  *)
(* ring, every set of home blocks, every workload and any number of        *)
(* crashes: the types, the slots that commits own (SlotsNeverShared), the  *)
(* windows of the ring (WindowsPaired), and what the journal keeps through *)
(* crashes, power cuts and replays (CrashConsistent, CheckpointExact and   *)
(* the refinement of AtomicStore), and through a cut that tears the commit *)
(* in flight (CutKeepsAcknowledged).                                       *)
(*                                                                         *)
(* For the last, the invariant JournalInv names the contents g that the    *)
(* journal holds at a moment: what its windows log (Shows, Logs), what is  *)
(* home already (Held), what a replay has still to do (Replaying), and how *)
(* much of it is on the media (Flushed).                                   *)
(***************************************************************************)
EXTENDS Journal, Iteration

USE JournalAssumption

(***************************************************************************)
(* Lemmas about contents and windows.                                      *)
(***************************************************************************)

\* The ring has a block 0 and a block 1, and the next of a slot is a slot.
LEMMA SlotFacts ==
  /\ 0 \in Slots /\ 1 \in Slots
  /\ \A s \in Slots : Succ(s) \in Slots
BY DEF Slots, Succ

\* What the write functions write are blocks.
LEMMA BlockFacts ==
  /\ \A v \in Contents : Data(v) \in Blocks
  /\ \A b \in Homes, v \in Contents : Header(b, v) \in Blocks
  /\ CommitRecord \in Blocks
  /\ \A w \in Windows : JournalSb(w) \in Blocks
  /\ Vals \subseteq Contents /\ Zero \in Contents /\ AfterRing \in Contents
BY DEF Blocks, Contents, Data, Header, CommitRecord, JournalSb, Windows

\* A block with a header's magic has a target, one with a superblock's has a window.
LEMMA BlockFields ==
  \A c \in Blocks :
    /\ c.kind = "jdat" => c.target \in Homes
    /\ c.kind = "jsb" => c.head \in Slots /\ c.tail \in Slots
BY DEF Blocks, CommitRecord

\* The window a mount takes from a superblock block is a window of the ring.
LEMMA DiskWindowType ==
  ASSUME NEW d \in [Addrs -> Blocks], Mountable(d)
  PROVE  DiskWindow(d) \in Windows
<1>1. 0 \in Addrs
  BY SlotFacts DEF Addrs
<1>2. d[0].head \in Slots /\ d[0].tail \in Slots
  BY <1>1, BlockFields DEF Mountable
<1>. QED  BY <1>2, SlotFacts DEF DiskWindow, Windows

\* The data read behind a header is a block, at the end of the ring too.
LEMMA DataAfterType ==
  ASSUME NEW d \in [Addrs -> Blocks], NEW s \in Slots
  PROVE  DataAfter(d, s) \in Blocks
<1>1. CASE s + 1 = N
  BY <1>1, BlockFacts DEF DataAfter
<1>2. CASE s + 1 # N
  <2>1. s + 1 \in Addrs
    BY <1>2 DEF Addrs, Slots
  <2>. QED  BY <1>2, <2>1 DEF DataAfter
<1>. QED  BY <1>1, <1>2

\* Writing a block keeps a device image typed.
LEMMA PutType ==
  ASSUME NEW d \in [Addrs -> Blocks], NEW x \in Addrs, NEW c \in Blocks
  PROVE  Put(d, x, c) \in [Addrs -> Blocks]
BY DEF Put

(***************************************************************************)
(* Type correctness.  What a thread needs to type its next write: its      *)
(* transaction still has a block to journal, its checkpoint has read one.  *)
(***************************************************************************)

Ready ==
  \A t \in Threads :
    /\ pc[t] = "idle" => done[t] = 0
    /\ pc[t] \in {"hdr", "dat", "wrHdr", "wrDat"} => done[t] < Len(txn[t])
    /\ pc[t] = "apply" => got[t] # <<>>

TypeInv == TypeOK /\ Ready

\* The write a transaction does next is a home block and its contents.
LEMMA TxnType ==
  ASSUME TypeInv, NEW t \in Threads, done[t] < Len(txn[t])
  PROVE  /\ txn[t][done[t] + 1][1] \in Homes
         /\ txn[t][done[t] + 1][2] \in Contents
<1>1. txn[t] \in Workload \cup {<<>>} /\ done[t] \in Nat
  BY DEF TypeInv, TypeOK
<1>2. txn[t] \in Seq(Homes \X Vals)
  BY <1>1
<1>3. done[t] + 1 \in 1 .. Len(txn[t])
  BY <1>1, <1>2
<1>4. txn[t][done[t] + 1] \in Homes \X Vals
  BY <1>2, <1>3
<1>. QED  BY <1>4, BlockFacts

\* A pair is not the empty sequence.
LEMMA PairNotEmpty == \A x, y : <<x, y>> # <<>>
OBVIOUS

\* The empty list is a list of writes.
LEMMA EmptySeq == <<>> \in Seq(Homes \X Blocks) /\ <<>> \in Seq(Homes \X Vals)
OBVIOUS

\* What a thread commits is a list of writes.
LEMMA TxnSeq ==
  ASSUME TypeOK, NEW t \in Threads
  PROVE  txn[t] \in Seq(Homes \X Vals) /\ done[t] \in Nat
<1>1. txn[t] \in Workload \cup {<<>>} /\ done[t] \in Nat
  BY DEF TypeOK
<1>3. \A ws \in Workload : ws \in Seq(Homes \X Vals)
  OBVIOUS
<1>. QED  BY <1>1, <1>3, EmptySeq

\* A formatted ring is typed.
LEMMA InitType == Init => TypeInv
<1>. SUFFICES ASSUME Init PROVE TypeInv
  OBVIOUS
<1>. DEFINE w1 == [head |-> 1, tail |-> 1]
            w0 == [head |-> 0, tail |-> 0]
<1>1. w1 \in Windows /\ w0 \in Windows
  BY SlotFacts DEF Windows
<1>2. disk \in [Addrs -> Blocks]
  BY <1>1, BlockFacts DEF Init
<1>3. TypeOK
  BY <1>1, <1>2, SlotFacts DEF Init, TypeOK
<1>4. Ready
  BY DEF Init, Ready
<1>. QED  BY <1>3, <1>4 DEF TypeInv

\* The return of an operation leaves every local typed.
LEMMA ReturnType ==
  ASSUME TypeInv, NEW t \in Threads, Return(t)
  PROVE  /\ pc' \in [Threads -> {"idle"} \cup CommitPcs \cup CheckpointPcs]
         /\ txn' \in [Threads -> Workload \cup {<<>>}]
         /\ done' \in [Threads -> Nat]
         /\ hslot' \in [Threads -> Slots] /\ dslot' \in [Threads -> Slots]
         /\ win' \in [Threads -> Windows]
         /\ got' \in [Threads -> (Homes \X Blocks) \cup {<<>>}]
         /\ Ready'
<1>1. [head |-> 0, tail |-> 0] \in Windows
  BY SlotFacts DEF Windows
<1>2. Ready'
  BY DEF TypeInv, TypeOK, Ready, Return, Goto
<1>. QED  BY <1>1, <1>2, SlotFacts DEF TypeInv, TypeOK, Return, Goto

\* Every step of a commit, its failures included, keeps the types.
LEMMA CommitType ==
  ASSUME TypeInv, NEW t \in Threads,
         (\E ws \in Workload : CommitBegin(t, ws)) \/ Commit(t) \/ CommitFault(t)
  PROVE  TypeInv'
<1>. USE DEF TypeInv, CommitPcs, CheckpointPcs, Limits, Budgets, Use
<1>. sb.tail \in Slots /\ Succ(sb.tail) \in Slots /\ sb.head \in Slots
  BY SlotFacts DEF TypeOK, Windows
<1>. [head |-> sb.head, tail |-> Succ(sb.tail)] \in Windows
  BY DEF Windows
<1>1. ASSUME NEW ws \in Workload, CommitBegin(t, ws) PROVE TypeInv'
  <2>1. ws # <<>> /\ ws \in Seq(Homes \X Vals)
    OBVIOUS
  <2>2. Len(ws) > 0
    BY <2>1
  <2>3. TypeOK'
    BY <1>1 DEF TypeOK, CommitBegin, Goto, Cross, diskVars, mountVars
  <2>4. Ready'
    BY <1>1, <2>2 DEF TypeOK, CommitBegin, Ready, Goto, Busy
  <2>. QED  BY <2>3, <2>4
<1>2. CASE CommitFull(t)
  BY <1>2, ReturnType DEF CommitFull, Cross, TypeOK, diskVars, mountVars
<1>3. CASE AllocHeader(t)
  <2>1. TypeOK'
    BY <1>3 DEF AllocHeader, AllocSlot, AllocCross, Cross, Goto, TypeOK, diskVars, mountVars
  <2>2. Ready'
    BY <1>3 DEF AllocHeader, Goto, TypeOK, Ready
  <2>. QED  BY <2>1, <2>2
<1>4. CASE AllocData(t)
  <2>1. TypeOK'
    BY <1>4 DEF AllocData, AllocSlot, AllocCross, Cross, Goto, TypeOK, diskVars, mountVars
  <2>2. Ready'
    BY <1>4 DEF AllocData, Goto, TypeOK, Ready
  <2>. QED  BY <2>1, <2>2
<1>5. CASE WriteHeader(t)
  <2>1. done[t] < Len(txn[t])
    BY <1>5 DEF WriteHeader, Ready
  <2>2. Header(txn[t][done[t] + 1][1], txn[t][done[t] + 1][2]) \in Blocks
    BY <2>1, TxnType, BlockFacts
  <2>3. disk' \in [Addrs -> Blocks]
    BY <1>5, <2>2, PutType DEF WriteHeader, Write, TypeOK, Addrs
  <2>4. TypeOK'
    BY <1>5, <2>3 DEF WriteHeader, Write, Goto, TypeOK, mountVars, commitVars, ghosts
  <2>5. Ready'
    BY <1>5 DEF WriteHeader, Goto, TypeOK, Ready, commitVars
  <2>. QED  BY <2>4, <2>5
<1>6. CASE WriteData(t)
  <2>1. done[t] < Len(txn[t])
    BY <1>6 DEF WriteData, Ready
  <2>2. Data(txn[t][done[t] + 1][2]) \in Blocks
    BY <2>1, TxnType, BlockFacts
  <2>3. disk' \in [Addrs -> Blocks]
    BY <1>6, <2>2, PutType DEF WriteData, Write, TypeOK, Addrs
  <2>5. txn[t] \in Seq(Homes \X Vals) /\ done[t] \in Nat
    BY TxnSeq
  <2>8. done' \in [Threads -> Nat]
    <3>1. done' = [done EXCEPT ![t] = done[t] + 1]
      BY <1>6 DEF WriteData
    <3>2. done \in [Threads -> Nat]
      BY DEF TypeOK
    <3>3. done[t] + 1 \in Nat
      BY <2>5
    <3>. QED  BY <3>1, <3>2, <3>3
  <2>9. pc' \in [Threads -> {"idle"} \cup CommitPcs \cup CheckpointPcs]
    BY <1>6 DEF WriteData, Goto, TypeOK
  <2>10. UNCHANGED <<media, sb, mode, current, open, replay, txn, hslot, dslot, win, got, crossed, used>>
    BY <1>6 DEF WriteData, Write, mountVars, ghosts
  <2>4. TypeOK'
    BY <2>3, <2>8, <2>9, <2>10 DEF TypeOK
  <2>6. done[t] + 1 = Len(txn[t]) \/ done[t] + 1 < Len(txn[t])
    BY <2>1, <2>5
  <2>7. Ready'
    BY <1>6, <2>6 DEF WriteData, Goto, TypeOK, Ready
  <2>. QED  BY <2>4, <2>7
<1>7. CASE AllocCommit(t)
  <2>1. TypeOK'
    BY <1>7 DEF AllocCommit, AllocSlot, AllocCross, Cross, Goto, TypeOK, diskVars, mountVars
  <2>2. Ready'
    BY <1>7 DEF AllocCommit, Goto, TypeOK, Ready
  <2>. QED  BY <2>1, <2>2
<1>8. CASE WriteCommitRecord(t)
  <2>1. disk' \in [Addrs -> Blocks]
    BY <1>8, BlockFacts, PutType DEF WriteCommitRecord, Write, TypeOK, Addrs
  <2>2. TypeOK'
    BY <1>8, <2>1 DEF WriteCommitRecord, Write, Goto, TypeOK, mountVars, commitVars, ghosts
  <2>3. Ready'
    BY <1>8 DEF WriteCommitRecord, Goto, TypeOK, Ready, commitVars
  <2>. QED  BY <2>2, <2>3
<1>9. CASE SyncCopy(t)
  <2>1. TypeOK'
    BY <1>9 DEF SyncCopy, Goto, TypeOK, diskVars, mountVars, commitVars, ghosts
  <2>2. Ready'
    BY <1>9 DEF SyncCopy, Goto, TypeOK, Ready, commitVars
  <2>. QED  BY <2>1, <2>2
<1>10. CASE SyncWrite(t)
  <2>1. disk' \in [Addrs -> Blocks]
    BY <1>10, BlockFacts, PutType, SlotFacts DEF SyncWrite, Write, TypeOK, Addrs
  <2>2. TypeOK'
    BY <1>10, <2>1 DEF SyncWrite, Write, Goto, TypeOK, mountVars, commitVars, ghosts
  <2>3. Ready'
    BY <1>10 DEF SyncWrite, Goto, TypeOK, Ready, commitVars
  <2>. QED  BY <2>2, <2>3
<1>11. CASE SyncFlush(t)
  <2>1. TypeOK'
    BY <1>11 DEF SyncFlush, SyncAll, Goto, TypeOK, mountVars, commitVars, ghosts
  <2>2. Ready'
    BY <1>11 DEF SyncFlush, Goto, TypeOK, Ready, commitVars
  <2>. QED  BY <2>1, <2>2
<1>12. CASE CommitEnd(t)
  BY <1>12, ReturnType DEF CommitEnd, SyncAll, TypeOK, mountVars
<1>13. CASE CommitFault(t)
  <2>1. Return(t) /\ UNCHANGED <<diskVars, sb, mountVars, stores>>
    BY <1>13 DEF CommitFault
  <2>2. used' \in [Budgets -> Nat]
    BY <1>13 DEF CommitFault, TypeOK
  <2>3. crossed' \subseteq Limits
    BY <1>13 DEF CommitFault, Cross, TypeOK
  <2>. QED
    BY <2>1, <2>2, <2>3, ReturnType DEF TypeOK, diskVars, mountVars
<1>. HIDE DEF TypeInv, CommitPcs, CheckpointPcs, Limits, Budgets, Use
<1>14. CASE Commit(t)
  BY ONLY <1>2, <1>3, <1>4, <1>5, <1>6, <1>7, <1>8, <1>9, <1>10, <1>11, <1>12, <1>14 DEF Commit
<1>. QED  BY <1>1, <1>13, <1>14

\* Every step of a checkpoint, its failures included, keeps the types.
LEMMA CheckpointType ==
  ASSUME TypeInv, NEW t \in Threads,
         CheckpointBegin(t) \/ Checkpoint(t) \/ CheckpointFault(t)
  PROVE  TypeInv'
<1>. USE DEF TypeInv, CommitPcs, CheckpointPcs, Limits, Budgets, Use
<1>. win[t].head \in Slots /\ win[t].tail \in Slots /\ win[t] \in Windows
  BY DEF TypeOK, Windows
<1>1. CASE CheckpointBegin(t)
  <2>1. TypeOK'
    BY <1>1 DEF CheckpointBegin, Cross, Goto, TypeOK, diskVars, mountVars, commitVars
  <2>2. Ready'
    BY <1>1 DEF CheckpointBegin, Goto, TypeOK, Ready, commitVars
  <2>. QED  BY <2>1, <2>2
<1>2. CASE CheckpointRead(t)
  <2>. DEFINE c == win[t].head
  <2>1. disk[c] \in Blocks /\ DataAfter(disk, c) \in Blocks
    BY DataAfterType DEF TypeOK, Addrs
  <2>2. CASE disk[c].kind = "jdat"
    <3>1. <<disk[c].target, DataAfter(disk, c)>> \in Homes \X Blocks
      BY <2>1, <2>2, BlockFields
    <3>2. got' = [got EXCEPT ![t] = <<disk[c].target, DataAfter(disk, c)>>] /\ win' = win
          /\ pc' = [pc EXCEPT ![t] = "apply"]
          /\ UNCHANGED <<diskVars, sb, mountVars, commitVars, ghosts>>
      BY <1>2, <2>2 DEF CheckpointRead, Goto
    <3>3. TypeOK'
      BY <3>1, <3>2 DEF TypeOK, diskVars, mountVars, commitVars, ghosts
    <3>4. Ready'
      BY <3>2, PairNotEmpty DEF TypeOK, Ready, commitVars
    <3>. QED  BY <3>3, <3>4
  <2>3. CASE disk[c].kind # "jdat"
    <3>1. [head |-> Succ(c), tail |-> win[t].tail] \in Windows
      BY SlotFacts DEF Windows
    <3>3. win' \in [Threads -> Windows]
      BY <1>2, <2>3, <3>1 DEF CheckpointRead, Advance, TypeOK
    <3>4. TypeOK'
      BY <1>2, <2>3, <3>3 DEF CheckpointRead, TypeOK, diskVars, mountVars, commitVars, ghosts
    <3>5. Ready'
      BY <1>2, <2>3 DEF CheckpointRead, TypeOK, Ready, commitVars
    <3>. QED  BY <3>4, <3>5
  <2>. QED  BY <2>2, <2>3
<1>3. CASE CheckpointApply(t)
  <2>1. got[t] \in Homes \X Blocks
    BY <1>3 DEF CheckpointApply, TypeOK, Ready
  <2>2. disk' \in [Addrs -> Blocks]
    BY <1>3, <2>1, PutType DEF CheckpointApply, Write, TypeOK, Addrs
  <2>3. [head |-> Succ(Succ(win[t].head)), tail |-> win[t].tail] \in Windows
    BY SlotFacts DEF Windows
  <2>5. win' \in [Threads -> Windows]
    BY <1>3, <2>3 DEF CheckpointApply, Advance, TypeOK
  <2>6. TypeOK'
    BY <1>3, <2>2, <2>5 DEF CheckpointApply, Write, Goto, TypeOK, mountVars, commitVars, ghosts
  <2>7. Ready'
    BY <1>3 DEF CheckpointApply, Goto, TypeOK, Ready, commitVars
  <2>. QED  BY <2>6, <2>7
<1>4. CASE CheckpointScanned(t)
  <2>1. TypeOK'
    BY <1>4 DEF CheckpointScanned, SyncAll, Goto, TypeOK, mountVars, commitVars, ghosts
  <2>2. Ready'
    BY <1>4 DEF CheckpointScanned, Goto, TypeOK, Ready, commitVars
  <2>. QED  BY <2>1, <2>2
<1>5. CASE CheckpointHead(t)
  <2>1. TypeOK'
    BY <1>5 DEF CheckpointHead, Goto, TypeOK, Windows, diskVars, mountVars, commitVars, ghosts
  <2>2. Ready'
    BY <1>5 DEF CheckpointHead, Goto, TypeOK, Ready, commitVars
  <2>. QED  BY <2>1, <2>2
<1>6. CASE CheckpointSbWrite(t)
  <2>1. disk' \in [Addrs -> Blocks]
    BY <1>6, BlockFacts, PutType, SlotFacts DEF CheckpointSbWrite, Write, TypeOK, Addrs
  <2>2. TypeOK'
    BY <1>6, <2>1 DEF CheckpointSbWrite, Write, Goto, TypeOK, mountVars, commitVars, ghosts
  <2>3. Ready'
    BY <1>6 DEF CheckpointSbWrite, Goto, TypeOK, Ready, commitVars
  <2>. QED  BY <2>2, <2>3
<1>7. CASE CheckpointEnd(t)
  BY <1>7, ReturnType DEF CheckpointEnd, SyncAll, TypeOK, mountVars, ghosts
<1>8. CASE CheckpointFault(t)
  BY <1>8, ReturnType DEF CheckpointFault, TypeOK, diskVars, mountVars
<1>. QED
  BY <1>1, <1>2, <1>3, <1>4, <1>5, <1>6, <1>7, <1>8 DEF Checkpoint

\* Every step of a mount keeps the types.
LEMMA MountType ==
  ASSUME TypeInv, Mount \/ RecoverRead \/ RecoverWrite \/ RecoverEnd \/ RecoverFault
  PROVE  TypeInv'
<1>. USE DEF TypeInv, Limits, Budgets, Use
<1>. [head |-> 0, tail |-> 0] \in Windows
  BY SlotFacts DEF Windows
<1>1. CASE Mount
  <2>1. DiskWindow(disk) \in Windows
    BY <1>1, DiskWindowType DEF Mount, TypeOK
  <2>. DEFINE w == DiskWindow(disk)
  <2>2. /\ sb' = w
        /\ mode' \in {"up", "recover"}
        /\ current' \in {0, w.head} /\ open' \in {<<>>, open} /\ replay' \in {<<>>, replay}
        /\ crossed' \subseteq Limits
        /\ UNCHANGED <<diskVars, pc, commitVars, win, got, used>>
    BY <1>1 DEF Mount, Mounted, Cross, TypeOK
  <2>3. current' \in Slots
    BY <2>1, <2>2, SlotFacts DEF Windows
  <2>4. open' \in Seq(Homes \X Blocks) /\ replay' \in Seq(Homes \X Blocks)
    BY <2>2, EmptySeq DEF TypeOK
  <2>5. TypeOK'
    BY <2>1, <2>2, <2>3, <2>4 DEF TypeOK, diskVars, commitVars
  <2>6. Ready'
    BY <1>1 DEF Mount, Ready, commitVars
  <2>. QED  BY <2>5, <2>6
<1>2. CASE RecoverRead
  <2>1. disk[current] \in Blocks /\ DataAfter(disk, current) \in Blocks
    BY DataAfterType DEF TypeOK, Addrs
  <2>2. disk[current].kind = "jdat" => <<disk[current].target, DataAfter(disk, current)>> \in Homes \X Blocks
    BY <2>1, BlockFields
  <2>3. current' \in Slots
    BY <1>2, SlotFacts DEF RecoverRead, TypeOK, Windows
  <2>. DEFINE x == <<disk[current].target, DataAfter(disk, current)>>
  <2>4. open' \in Seq(Homes \X Blocks) /\ replay' \in Seq(Homes \X Blocks)
    <3>1. open \in Seq(Homes \X Blocks) /\ replay \in Seq(Homes \X Blocks)
      BY DEF TypeOK
    <3>2. x \in Homes \X Blocks => Append(open, x) \in Seq(Homes \X Blocks)
      BY <3>1
    <3>3. \/ open' = Append(open, x) /\ replay' = replay /\ disk[current].kind = "jdat"
          \/ open' = <<>> /\ replay' = open
          \/ open' = open /\ replay' = replay
      BY <1>2 DEF RecoverRead
    <3>. QED  BY <2>2, <3>1, <3>2, <3>3, EmptySeq
  <2>5. TypeOK'
    BY <1>2, <2>3, <2>4 DEF RecoverRead, TypeOK, diskVars, commitVars, ghosts
  <2>6. Ready'
    BY <1>2 DEF RecoverRead, Ready, commitVars
  <2>. QED  BY <2>5, <2>6
<1>3. CASE RecoverWrite
  <2>1. replay \in Seq(Homes \X Blocks) /\ replay # <<>>
    BY <1>3 DEF RecoverWrite, TypeOK
  <2>2. replay[1] \in Homes \X Blocks /\ Tail(replay) \in Seq(Homes \X Blocks)
    BY <2>1
  <2>3. disk' \in [Addrs -> Blocks]
    BY <1>3, <2>2, PutType DEF RecoverWrite, Write, TypeOK, Addrs
  <2>4. TypeOK'
    BY <1>3, <2>2, <2>3 DEF RecoverWrite, Write, TypeOK, commitVars, ghosts
  <2>5. Ready'
    BY <1>3 DEF RecoverWrite, Ready, commitVars
  <2>. QED  BY <2>4, <2>5
<1>4. CASE RecoverEnd
  <2>1. TypeOK'
    BY <1>4, SlotFacts DEF RecoverEnd, SyncAll, Mounted, TypeOK, commitVars
  <2>2. Ready'
    BY <1>4 DEF RecoverEnd, Ready, commitVars
  <2>. QED  BY <2>1, <2>2
<1>5. CASE RecoverFault
  <2>1. TypeOK'
    BY <1>5, SlotFacts DEF RecoverFault, Unmounted, TypeOK, diskVars, commitVars
  <2>2. Ready'
    BY <1>5 DEF RecoverFault, Ready, commitVars
  <2>. QED  BY <2>1, <2>2
<1>. QED
  BY <1>1, <1>2, <1>3, <1>4, <1>5

\* So do crashes, power cuts and the write-back of the page cache.
LEMMA EnvironmentType ==
  ASSUME TypeInv, Environment
  PROVE  TypeInv'
<1>. USE DEF TypeInv, Limits, Budgets, Use
<1>. [head |-> 0, tail |-> 0] \in Windows
  BY SlotFacts DEF Windows
<1>1. CASE Crash
  <2>1. TypeOK'
    BY <1>1, SlotFacts DEF Crash, Die, Unmounted, TypeOK, diskVars
  <2>2. Ready'
    BY <1>1 DEF Crash, Die, Ready
  <2>. QED  BY <2>1, <2>2
<1>2. CASE PowerCut
  <2>1. TypeOK'
    BY <1>2, SlotFacts DEF PowerCut, Cross, Die, Unmounted, TypeOK
  <2>2. Ready'
    BY <1>2 DEF PowerCut, Die, Ready
  <2>. QED  BY <2>1, <2>2
<1>3. ASSUME NEW x \in Addrs, WriteBack(x) PROVE TypeInv'
  <2>1. media' \in [Addrs -> Blocks]
    BY <1>3, PutType DEF WriteBack, TypeOK
  <2>2. TypeOK'
    BY <1>3, <2>1 DEF WriteBack, TypeOK, mountVars, commitVars, ghosts
  <2>3. Ready'
    BY <1>3 DEF WriteBack, Ready, commitVars
  <2>. QED  BY <2>2, <2>3
<1>. QED
  BY <1>1, <1>2, <1>3 DEF Environment

\* Nothing changes, and nothing changes type.
LEMMA StutterType == TypeInv /\ UNCHANGED vars => TypeInv'
BY DEF TypeInv, TypeOK, Ready, vars

\* The type invariant is inductive.
LEMMA TypeInductive == Spec => []TypeInv
<1>1. TypeInv /\ [Next]_vars => TypeInv'
  BY CommitType, CheckpointType, MountType, EnvironmentType, StutterType
  DEF Next, Calls, Faults
<1>. QED  BY InitType, <1>1, PTL DEF Spec

\* Whatever the threads do and wherever a crash falls, the state keeps its
\* types: no index leaves the ring, no write leaves anything but a whole block.
THEOREM TypeCorrect == Spec => []TypeOK
<1>1. TypeInv => TypeOK
  BY DEF TypeInv
<1>. QED  BY TypeInductive, <1>1, PTL

(***************************************************************************)
(* The strengthening.  SlotsExclusive alone is not preserved by a          *)
(* checkpoint that moves head: one must know that no commit is under way   *)
(* then, and that nothing is while the journal is not mounted.             *)
(***************************************************************************)

Apart ==
  \A t \in Threads : Committing(t) => \A u \in Threads \ {t} : ~Checkpointing(u)

Quiet == mode # "up" => \A t \in Threads : pc[t] = "idle"

SlotsOwned ==
  \A t \in Threads :
    /\ HeldSlots(t) \subseteq Live(sb)
    /\ pc[t] \in {"wrHdr", "wrDat"} => hslot[t] # dslot[t]
    /\ \A u \in Threads \ {t} : HeldSlots(t) \cap HeldSlots(u) = {}

SlotInv == TypeOK /\ Quiet /\ ("mixed" \notin crossed => Apart /\ SlotsOwned)

\* An allocation that is not refused takes a slot that was free and makes it live.
LEMMA AllocLive ==
  ASSUME sb \in Windows, ~Full, AllocSlot
  PROVE  sb.tail \notin Live(sb) /\ Live(sb') = Live(sb) \cup {sb.tail}
<1>1. sb' = [head |-> sb.head, tail |-> Succ(sb.tail)] /\ Succ(sb.tail) # sb.head
  BY DEF AllocSlot, Full
<1>2. sb.head \in 0 .. N - 1 /\ sb.tail \in 0 .. N - 1 /\ N \in Nat
  BY DEF Windows, Slots
<1>3. sb'.head = sb.head /\ sb'.tail = Succ(sb.tail)
  BY <1>1
<1>4. sb.tail \notin Live(sb)
  BY <1>2 DEF Live
<1>5. CASE sb.tail + 1 = N
  <2>1. sb'.tail = 0 /\ sb.head > 0
    BY <1>1, <1>2, <1>3, <1>5 DEF Succ
  <2>2. \A s \in Slots : s \in Live(sb') <=> s >= sb.head
    BY <1>2, <1>3, <2>1 DEF Live, Slots
  <2>3. \A s \in Slots : s \in Live(sb) <=> (s >= sb.head /\ s < sb.tail)
    BY <1>2, <1>5 DEF Live, Slots
  <2>4. \A s \in Slots : s < sb.tail \/ s = sb.tail
    BY <1>2, <1>5 DEF Slots
  <2>5. sb.tail >= sb.head /\ sb.tail \in Slots
    BY <1>2, <1>5 DEF Slots
  <2>. QED  BY <1>4, <2>2, <2>3, <2>4, <2>5 DEF Live
<1>6. CASE sb.tail + 1 # N
  <2>1. sb'.tail = sb.tail + 1 /\ sb.head # sb.tail + 1 /\ sb.tail \in Slots
    BY <1>1, <1>2, <1>3, <1>6 DEF Succ, Slots
  <2>2. \A s \in Slots : s \in Live(sb') <=> (s \in Live(sb) \/ s = sb.tail)
    BY <1>2, <1>3, <2>1 DEF Live, Slots
  <2>. QED  BY <1>4, <2>1, <2>2 DEF Live
<1>. QED  BY <1>4, <1>5, <1>6

(***************************************************************************)
(* Steps that take no slot: every thread holds what it held or less, and   *)
(* the live window stays.                                                  *)
(***************************************************************************)

Lets ==
  /\ sb' = sb
  /\ \A t \in Threads :
       /\ HeldSlots(t)' \subseteq HeldSlots(t)
       /\ pc'[t] \in {"wrHdr", "wrDat"} =>
            /\ pc[t] \in {"wrHdr", "wrDat"}
            /\ hslot'[t] = hslot[t] /\ dslot'[t] = dslot[t]

\* A step that gives no slot away and moves no window keeps the slots owned.
LEMMA LetsOwned ==
  ASSUME SlotsOwned, Lets
  PROVE  SlotsOwned'
BY DEF SlotsOwned, Lets

\* Steps of a commit other than its allocations.
LEMMA CommitLets ==
  ASSUME TypeOK, NEW t \in Threads,
         \/ CommitFull(t) \/ WriteHeader(t) \/ WriteData(t) \/ WriteCommitRecord(t)
         \/ SyncCopy(t) \/ SyncWrite(t) \/ SyncFlush(t) \/ CommitEnd(t) \/ CommitFault(t)
  PROVE  /\ Lets
         /\ \A u \in Threads : Committing(u)' => Committing(u)
         /\ \A u \in Threads : Checkpointing(u)' => Checkpointing(u)
         /\ mode' = mode /\ crossed \subseteq crossed'
         /\ \A u \in Threads : pc[u] = "idle" => pc'[u] = "idle"
<1>. USE DEF TypeOK, Lets, HeldSlots, Committing, Checkpointing, CommitPcs, CheckpointPcs, Goto
<1>1. CASE CommitFull(t)
  BY <1>1 DEF CommitFull, Return, Cross, mountVars
<1>2. CASE WriteHeader(t)
  BY <1>2 DEF WriteHeader, mountVars, commitVars, ghosts
<1>3. CASE WriteData(t)
  <2>1. pc' = [pc EXCEPT ![t] = "cmt"] \/ pc' = [pc EXCEPT ![t] = "hdr"]
    BY <1>3 DEF WriteData
  <2>. QED  BY <1>3, <2>1 DEF WriteData, mountVars, ghosts
<1>4. CASE WriteCommitRecord(t)
  BY <1>4 DEF WriteCommitRecord, mountVars, commitVars, ghosts
<1>5. CASE SyncCopy(t)
  BY <1>5 DEF SyncCopy, mountVars, commitVars, ghosts
<1>6. CASE SyncWrite(t)
  BY <1>6 DEF SyncWrite, mountVars, commitVars, ghosts
<1>7. CASE SyncFlush(t)
  BY <1>7 DEF SyncFlush, mountVars, commitVars, ghosts
<1>8. CASE CommitEnd(t)
  BY <1>8 DEF CommitEnd, Return, mountVars
<1>9. CASE CommitFault(t)
  BY <1>9 DEF CommitFault, Return, Cross, mountVars
<1>. QED  BY <1>1, <1>2, <1>3, <1>4, <1>5, <1>6, <1>7, <1>8, <1>9

\* Steps of a checkpoint other than its start and the move of head.
LEMMA CheckpointLets ==
  ASSUME TypeOK, NEW t \in Threads,
         \/ CheckpointRead(t) \/ CheckpointApply(t) \/ CheckpointScanned(t)
         \/ CheckpointSbWrite(t) \/ CheckpointEnd(t) \/ CheckpointFault(t)
  PROVE  /\ Lets
         /\ \A u \in Threads : Committing(u)' => Committing(u)
         /\ \A u \in Threads : Checkpointing(u)' => Checkpointing(u)
         /\ mode' = mode /\ crossed \subseteq crossed'
         /\ \A u \in Threads : pc[u] = "idle" => pc'[u] = "idle"
<1>. USE DEF TypeOK, Lets, HeldSlots, Committing, Checkpointing, CommitPcs, CheckpointPcs, Goto
<1>1. CASE CheckpointRead(t)
  <2>1. pc' = [pc EXCEPT ![t] = "apply"] \/ pc' = pc
    BY <1>1 DEF CheckpointRead
  <2>. QED  BY <1>1, <2>1 DEF CheckpointRead, mountVars, commitVars, ghosts
<1>2. CASE CheckpointApply(t)
  BY <1>2 DEF CheckpointApply, mountVars, commitVars, ghosts
<1>3. CASE CheckpointScanned(t)
  BY <1>3 DEF CheckpointScanned, mountVars, commitVars, ghosts
<1>4. CASE CheckpointSbWrite(t)
  BY <1>4 DEF CheckpointSbWrite, mountVars, commitVars, ghosts
<1>5. CASE CheckpointEnd(t)
  BY <1>5 DEF CheckpointEnd, Return, mountVars, ghosts
<1>6. CASE CheckpointFault(t)
  BY <1>6 DEF CheckpointFault, Return, mountVars
<1>. QED  BY <1>1, <1>2, <1>3, <1>4, <1>5, <1>6

\* Such a step preserves the invariant.
LEMMA LetsSlotInv ==
  ASSUME SlotInv, Lets,
         \A u \in Threads : Committing(u)' => Committing(u),
         \A u \in Threads : Checkpointing(u)' => Checkpointing(u),
         mode' = mode, crossed \subseteq crossed',
         \A u \in Threads : pc[u] = "idle" => pc'[u] = "idle"
  PROVE  Quiet' /\ ("mixed" \notin crossed' => Apart' /\ SlotsOwned')
BY LetsOwned DEF SlotInv, Quiet, Apart

(***************************************************************************)
(* Allocations: the slot taken was free, so nobody holds it, and the live  *)
(* window grows by it.                                                     *)
(***************************************************************************)

\* journal_alloc_block gives a thread the ring's next slot, which nobody has.
LEMMA AllocSlotInv ==
  ASSUME SlotInv, NEW t \in Threads, AllocHeader(t) \/ AllocData(t) \/ AllocCommit(t)
  PROVE  Quiet' /\ ("mixed" \notin crossed' => Apart' /\ SlotsOwned')
<1>1. /\ ~Full /\ AllocSlot /\ sb \in Windows
      /\ mode' = mode
      /\ ("mixed" \notin crossed' => "mixed" \notin crossed)
  BY DEF AllocHeader, AllocData, AllocCommit, mountVars, SlotInv, TypeOK, Cross
<1>2. \A u \in Threads \ {t} :
         pc'[u] = pc[u] /\ hslot'[u] = hslot[u] /\ dslot'[u] = dslot[u]
  BY DEF AllocHeader, AllocData, AllocCommit, SlotInv, TypeOK, Goto
<1>3. Committing(t) /\ Committing(t)' /\ ~Checkpointing(t)'
  BY DEF AllocHeader, AllocData, AllocCommit, SlotInv, TypeOK, Goto, Committing, Checkpointing,
         CommitPcs, CheckpointPcs
<1>4. Quiet'
  BY <1>1, <1>2, <1>3 DEF SlotInv, Quiet, Committing, CommitPcs
<1>5. ASSUME "mixed" \notin crossed' PROVE Apart' /\ SlotsOwned'
  <2>1. Apart /\ SlotsOwned
    BY <1>1, <1>5 DEF SlotInv
  <2>2. Apart'
    BY <1>2, <1>3, <2>1 DEF Apart, Committing, Checkpointing
  <2>3. sb.tail \notin Live(sb) /\ Live(sb') = Live(sb) \cup {sb.tail}
    BY <1>1, AllocLive
  <2>4. \A u \in Threads \ {t} :
           HeldSlots(u)' = HeldSlots(u) /\ HeldSlots(u) \subseteq Live(sb)
    BY <1>2, <2>1 DEF SlotsOwned, HeldSlots
  <2>5. /\ HeldSlots(t)' \subseteq HeldSlots(t) \cup {sb.tail}
        /\ pc'[t] \in {"wrHdr", "wrDat"} => hslot'[t] \in HeldSlots(t) /\ dslot'[t] = sb.tail
    BY DEF AllocHeader, AllocData, AllocCommit, SlotInv, TypeOK, Goto, HeldSlots
  <2>6. HeldSlots(t) \subseteq Live(sb)
        /\ \A u \in Threads \ {t} : HeldSlots(t) \cap HeldSlots(u) = {}
    BY <2>1 DEF SlotsOwned
  <2>7. pc'[t] \in {"wrHdr", "wrDat"} => hslot'[t] # dslot'[t]
    BY <2>3, <2>5, <2>6
  <2>8. Live(sb)' = Live(sb) \cup {sb.tail}
    BY <2>3 DEF Live
  <2>9. \A u \in Threads \ {t} : HeldSlots(t)' \cap HeldSlots(u)' = {}
    BY <2>3, <2>4, <2>5, <2>6
  <2>10. \A u \in Threads \ {t} : \A r \in Threads \ {u} : HeldSlots(u)' \cap HeldSlots(r)' = {}
    BY <2>4, <2>9, <2>1 DEF SlotsOwned
  <2>11. \A u \in Threads \ {t} :
           pc'[u] \in {"wrHdr", "wrDat"} => hslot'[u] # dslot'[u]
    BY <1>2, <2>1 DEF SlotsOwned
  <2>12. \A u \in Threads : HeldSlots(u)' \subseteq Live(sb)'
    BY <2>4, <2>5, <2>6, <2>8
  <2>13. SlotsOwned'
    BY <2>7, <2>9, <2>10, <2>11, <2>12 DEF SlotsOwned
  <2>. QED  BY <2>2, <2>13
<1>. QED  BY <1>4, <1>5

\* A commit or a checkpoint that starts beside one of the other sort crosses
\* the limit "mixed"; it holds no slot yet.
LEMMA BeginSlotInv ==
  ASSUME SlotInv, NEW t \in Threads, Calls(t)
  PROVE  Quiet' /\ ("mixed" \notin crossed' => Apart' /\ SlotsOwned')
<1>1. /\ mode = "up" /\ mode' = mode /\ sb' = sb /\ hslot' = hslot /\ dslot' = dslot
      /\ pc' = [pc EXCEPT ![t] = "hdr"] \/ pc' = [pc EXCEPT ![t] = "scan"]
      /\ pc[t] = "idle" /\ pc \in [Threads -> {"idle"} \cup CommitPcs \cup CheckpointPcs]
      /\ "mixed" \notin crossed' => "mixed" \notin crossed
  BY DEF Calls, CommitBegin, CheckpointBegin, mountVars, commitVars, Goto, Busy, SlotInv, TypeOK, Cross
<1>2. Quiet'
  BY <1>1 DEF Quiet
<1>3. ASSUME "mixed" \notin crossed' PROVE Apart' /\ SlotsOwned'
  <2>1. Apart /\ SlotsOwned
    BY <1>1, <1>3 DEF SlotInv
  <2>2. \/ pc' = [pc EXCEPT ![t] = "hdr"] /\ \A u \in Threads \ {t} : ~Checkpointing(u)
        \/ pc' = [pc EXCEPT ![t] = "scan"] /\ \A u \in Threads \ {t} : ~Committing(u)
    BY <1>3 DEF Calls, CommitBegin, CheckpointBegin, Cross, Goto
  <2>3. Apart'
    BY <1>1, <2>1, <2>2 DEF Apart, Committing, Checkpointing, CommitPcs, CheckpointPcs
  <2>4. Lets
    BY <1>1 DEF Lets, HeldSlots
  <2>. QED  BY <2>1, <2>3, <2>4, LetsOwned
<1>. QED  BY <1>2, <1>3

\* A checkpoint that moves head runs beside no commit.
LEMMA HeadSlotInv ==
  ASSUME SlotInv, NEW t \in Threads, CheckpointHead(t)
  PROVE  Quiet' /\ ("mixed" \notin crossed' => Apart' /\ SlotsOwned')
<1>1. /\ mode' = mode /\ crossed' = crossed
      /\ pc[t] = "cpHead" /\ pc' = [pc EXCEPT ![t] = "cpSb"]
      /\ pc \in [Threads -> {"idle"} \cup CommitPcs \cup CheckpointPcs]
  BY DEF CheckpointHead, mountVars, ghosts, Goto, SlotInv, TypeOK
<1>2. Quiet'
  BY <1>1 DEF SlotInv, Quiet
<1>3. ASSUME "mixed" \notin crossed' PROVE Apart' /\ SlotsOwned'
  <2>1. \A u \in Threads : ~Committing(u)
    BY <1>1, <1>3 DEF SlotInv, Apart, Committing, Checkpointing, CommitPcs, CheckpointPcs
  <2>2. \A u \in Threads : ~Committing(u)'
    BY <1>1, <2>1 DEF Committing, CommitPcs
  <2>3. Apart'
    BY <2>2 DEF Apart
  <2>4. SlotsOwned'
    BY <2>2 DEF SlotsOwned, HeldSlots, Committing, CommitPcs
  <2>. QED  BY <2>3, <2>4
<1>. QED  BY <1>2, <1>3

\* Mounts, crashes, power cuts and write-back: no thread is inside an
\* operation afterwards, or nothing the invariant speaks of changes.
LEMMA RestSlotInv ==
  ASSUME SlotInv,
         \/ Mount \/ RecoverRead \/ RecoverWrite \/ RecoverEnd \/ RecoverFault
         \/ Environment
         \/ UNCHANGED vars
  PROVE  Quiet' /\ ("mixed" \notin crossed' => Apart' /\ SlotsOwned')
<1>1. ASSUME \A t \in Threads : pc'[t] = "idle"
      PROVE  Quiet' /\ ("mixed" \notin crossed' => Apart' /\ SlotsOwned')
  BY <1>1 DEF Quiet, Apart, SlotsOwned, HeldSlots, Committing, CommitPcs
<1>2. CASE mode # "up" /\ pc' = pc
  BY <1>1, <1>2 DEF SlotInv, Quiet
<1>3. CASE Crash \/ PowerCut
  BY <1>1, <1>3 DEF Crash, PowerCut, Die
<1>4. CASE UNCHANGED <<sb, mode, pc, hslot, dslot, crossed>>
  BY <1>4 DEF SlotInv, Quiet, Apart, SlotsOwned, HeldSlots, Committing, Checkpointing, Live
<1>5. CASE Mount \/ RecoverRead \/ RecoverWrite \/ RecoverEnd \/ RecoverFault
  BY <1>2, <1>5 DEF Mount, RecoverRead, RecoverWrite, RecoverEnd, RecoverFault
<1>6. CASE \E x \in Addrs : WriteBack(x)
  BY <1>4, <1>6 DEF WriteBack, mountVars, commitVars, ghosts
<1>7. CASE UNCHANGED vars
  BY <1>4, <1>7 DEF vars
<1>. QED  BY <1>3, <1>5, <1>6, <1>7 DEF Environment

\* The invariant on slots is inductive.
LEMMA SlotInductive == Spec => []SlotInv
<1>1. Init => SlotInv
  <2>. SUFFICES ASSUME Init PROVE SlotInv
    OBVIOUS
  <2>1. TypeOK
    BY InitType DEF TypeInv
  <2>2. \A t \in Threads : pc[t] = "idle"
    BY DEF Init
  <2>. QED
    BY <2>1, <2>2 DEF SlotInv, Quiet, Apart, SlotsOwned, HeldSlots, Committing, CommitPcs
<1>2. SlotInv /\ TypeOK' /\ [Next]_vars => SlotInv'
  <2>. SUFFICES ASSUME SlotInv, TypeOK', [Next]_vars
                PROVE  Quiet' /\ ("mixed" \notin crossed' => Apart' /\ SlotsOwned')
    BY DEF SlotInv
  <2>1. ASSUME NEW t \in Threads, Commit(t) \/ Checkpoint(t) \/ Faults(t) \/ Calls(t)
        PROVE  Quiet' /\ ("mixed" \notin crossed' => Apart' /\ SlotsOwned')
    <3>1. TypeOK
      BY DEF SlotInv
    <3>2. CASE AllocHeader(t) \/ AllocData(t) \/ AllocCommit(t)
      BY <3>2, AllocSlotInv
    <3>3. CASE CheckpointHead(t)
      BY <3>3, HeadSlotInv
    <3>4. CASE Calls(t)
      BY <3>4, BeginSlotInv
    <3>5. CASE \/ CommitFull(t) \/ WriteHeader(t) \/ WriteData(t) \/ WriteCommitRecord(t)
               \/ SyncCopy(t) \/ SyncWrite(t) \/ SyncFlush(t) \/ CommitEnd(t) \/ CommitFault(t)
      BY <3>1, <3>5, CommitLets, LetsSlotInv
    <3>6. CASE \/ CheckpointRead(t) \/ CheckpointApply(t) \/ CheckpointScanned(t)
               \/ CheckpointSbWrite(t) \/ CheckpointEnd(t) \/ CheckpointFault(t)
      BY <3>1, <3>6, CheckpointLets, LetsSlotInv
    <3>. QED
      BY <2>1, <3>2, <3>3, <3>4, <3>5, <3>6 DEF Commit, Checkpoint, Faults
  <2>. QED  BY <2>1, RestSlotInv DEF Next
<1>. QED  BY <1>1, <1>2, TypeCorrect, PTL DEF Spec

\* However many commits run at once and however often the ring comes round,
\* no two hold the same slot and none holds a slot outside the live window,
\* as long as no checkpoint overlaps them.
THEOREM SlotsNeverShared == Spec => []SlotsExclusive
<1>1. SlotInv => SlotsExclusive
  BY DEF SlotInv, SlotsOwned, SlotsExclusive
<1>. QED  BY SlotInductive, <1>1, PTL

(***************************************************************************)
(* Windows of the ring on a device image.                                  *)
(***************************************************************************)

\* A well paired window begins with a commit record or with a pair.
LEMMA PairStep ==
  ASSUME NEW d, NEW lo \in Int, NEW hi \in Int, lo < hi, WellPaired(d, lo, hi)
  PROVE  \/ d[lo].kind = "jcmt" /\ WellPaired(d, lo + 1, hi)
         \/ /\ d[lo].kind = "jdat" /\ lo + 1 < hi /\ d[lo + 1] = Data(d[lo].checksum)
            /\ WellPaired(d, lo + 2, hi)
<1>1. lo \in lo .. hi - 1
  OBVIOUS
<1>2. CASE d[lo].kind = "jcmt"
  <2>1. \A s \in lo + 1 .. hi - 1 : d[s].kind = "data" /\ d[s - 1].kind = "jdat" => s > lo + 1
    BY <1>2
  <2>2. \A s \in lo + 1 .. hi - 1 : s \in lo .. hi - 1
    OBVIOUS
  <2>. QED  BY <1>2, <2>1, <2>2 DEF WellPaired
<1>3. CASE d[lo].kind # "jcmt"
  <2>1. d[lo].kind = "jdat" /\ lo + 1 < hi /\ d[lo + 1] = Data(d[lo].checksum)
    BY <1>1, <1>3 DEF WellPaired
  <2>2. d[lo + 1].kind = "data"
    BY <2>1 DEF Data
  <2>3. \A s \in lo + 2 .. hi - 1 : d[s - 1].kind = "jdat" => s > lo + 2
    <3>1. (lo + 2) - 1 = lo + 1
      OBVIOUS
    <3>. QED  BY <2>2, <3>1
  <2>4. \A s \in lo + 2 .. hi - 1 : s \in lo .. hi - 1
    OBVIOUS
  <2>. QED  BY <2>1, <2>3, <2>4 DEF WellPaired
<1>. QED  BY <1>2, <1>3

\* Two well paired windows, one after the other, make one.
LEMMA PairJoin ==
  ASSUME NEW d, NEW lo \in Int, NEW mid \in Int, NEW hi \in Int, lo <= mid, mid <= hi,
         WellPaired(d, lo, mid), WellPaired(d, mid, hi)
  PROVE  WellPaired(d, lo, hi)
<1>1. \A s \in lo .. hi - 1 : s \in lo .. mid - 1 \/ s \in mid .. hi - 1
  OBVIOUS
<1>. QED  BY <1>1 DEF WellPaired

\* Whether a window is well paired depends on its slots alone.
LEMMA PairFrame ==
  ASSUME NEW d, NEW e, NEW lo \in Int, NEW hi \in Int,
         WellPaired(d, lo, hi), \A s \in lo .. hi - 1 : e[s] = d[s]
  PROVE  WellPaired(e, lo, hi)
<1>1. \A s \in lo .. hi - 1 : (s + 1 < hi => s + 1 \in lo .. hi - 1) /\ (s > lo => s - 1 \in lo .. hi - 1)
  OBVIOUS
<1>. QED  BY <1>1 DEF WellPaired

\* A header and its data.
LEMMA PairOne ==
  ASSUME NEW d, NEW lo \in Int, NEW b, NEW v, d[lo] = Header(b, v), d[lo + 1] = Data(v)
  PROVE  WellPaired(d, lo, lo + 2)
<1>1. \A s \in lo .. lo + 2 - 1 : s = lo \/ (s = lo + 1 /\ s > lo /\ s - 1 = lo)
  OBVIOUS
<1>2. d[lo].kind = "jdat" /\ d[lo + 1] = Data(d[lo].checksum) /\ d[lo + 1].kind = "data"
  BY DEF Header, Data
<1>3. lo + 1 < lo + 2
  OBVIOUS
<1>. QED  BY <1>1, <1>2, <1>3 DEF WellPaired

(***************************************************************************)
(* The ring, as long as only checkpoints overlap.                          *)
(***************************************************************************)

dw == DiskWindow(disk)
mw == DiskWindow(media)

\* A window that recovery can replay: in the ring without its block 0, well
\* paired, and with a commit record at its end.
Ring(d, lo, hi) ==
  /\ lo \in 1 .. N - 1 /\ hi \in lo .. N - 1
  /\ WellPaired(d, lo, hi)
  /\ lo < hi => d[hi - 1].kind = "jcmt"

\* A stretch of the ring that is not written stays what it is.
LEMMA RingFrame ==
  ASSUME NEW d, NEW e, NEW lo, NEW hi, Ring(d, lo, hi), \A s \in lo .. hi - 1 : e[s] = d[s]
  PROVE  Ring(e, lo, hi)
<1>1. lo \in Int /\ hi \in Int /\ N \in Int
  BY DEF Ring
<1>2. WellPaired(e, lo, hi)
  BY <1>1, PairFrame DEF Ring
<1>3. lo < hi => hi - 1 \in lo .. hi - 1
  BY <1>1
<1>. QED  BY <1>1, <1>2, <1>3 DEF Ring

\* The window of an image is what its block 0 says.
LEMMA WindowFrame ==
  ASSUME NEW d, NEW e, e[0] = d[0]
  PROVE  DiskWindow(e) = DiskWindow(d) /\ (Mountable(e) <=> Mountable(d))
BY DEF DiskWindow, Mountable

\* A mount reads back the window a superblock block was written with.
LEMMA WindowOf ==
  ASSUME NEW d, NEW w \in Windows, w.head # 0, d[0] = JournalSb(w)
  PROVE  DiskWindow(d) = w /\ Mountable(d)
<1>1. w = [head |-> w.head, tail |-> w.tail]
  BY DEF Windows
<1>. QED  BY <1>1 DEF DiskWindow, Mountable, JournalSb

Synced(t) == pc[t] \in {"sbSync", "fsync"}
Scanning(t) == pc[t] \in {"scan", "apply"}

\* A commit runs beside no other operation.
Alone == \A t \in Threads : Committing(t) => \A u \in Threads \ {t} : pc[u] = "idle"

\* What a running commit has written behind the window of the superblock on
\* disk, which is where its blocks are until it writes the superblock.
Journalled(t) ==
  LET n == dw.tail
      k == done[t]
      ws == txn[t] IN
  /\ Synced(t) => sb = dw
  /\ ~Synced(t) =>
     /\ \A i \in 1 .. k : disk[n + 2 * i - 2] = Header(ws[i][1], ws[i][2]) /\ disk[n + 2 * i - 1] = Data(ws[i][2])
     /\ pc[t] = "hdr" => sb.tail = n + 2 * k
     /\ pc[t] = "dat" => sb.tail = n + 2 * k + 1 /\ hslot[t] = n + 2 * k
     /\ pc[t] \in {"wrHdr", "wrDat"} => sb.tail = n + 2 * k + 2 /\ hslot[t] = n + 2 * k /\ dslot[t] = n + 2 * k + 1
     /\ pc[t] = "wrDat" => disk[n + 2 * k] = Header(ws[k + 1][1], ws[k + 1][2])
     /\ pc[t] = "cmt" => sb.tail = n + 2 * k
     /\ pc[t] \in {"wrCmt", "sbCopy", "sbWrite"} => sb.tail = n + 2 * k + 1
     /\ pc[t] = "wrCmt" => hslot[t] = n + 2 * k
     /\ pc[t] \in {"sbCopy", "sbWrite"} => disk[n + 2 * k].kind = "jcmt"
     /\ pc[t] \in {"cmt", "wrCmt", "sbCopy", "sbWrite"} => k = Len(ws)
     /\ pc[t] = "sbWrite" => win[t] = sb

\* What a running checkpoint has still to look at.
Ahead(t) ==
  /\ Checkpointing(t) => win[t].tail = sb.tail
  /\ Scanning(t) => win[t].head \in 1 .. win[t].tail /\ WellPaired(disk, win[t].head, win[t].tail)
  /\ pc[t] = "apply" => /\ win[t].head < win[t].tail /\ disk[win[t].head].kind = "jdat"
                        /\ got[t] = <<disk[win[t].head].target, disk[win[t].head + 1]>>
  /\ pc[t] \in {"cpSb", "cpSbSync"} => sb.head = sb.tail

DiskRing == Mountable(disk) /\ Ring(disk, dw.head, dw.tail)

\* The media is behind, but what its window holds is still on the disk.
MediaRing ==
  /\ Mountable(media) /\ Ring(disk, mw.head, mw.tail)
  /\ mw.tail <= dw.tail /\ mw.head <= dw.head

MemoryRing ==
  /\ mode # "down" =>
       /\ sb.head \in dw.head .. dw.tail /\ WellPaired(disk, sb.head, dw.tail)
       /\ sb.tail \in dw.tail .. N - 1
  /\ mode = "recover" => sb = dw
  /\ mode = "up" /\ (\A t \in Threads : ~Committing(t)) => sb.tail = dw.tail

RingInv ==
  /\ DiskRing /\ MediaRing /\ MemoryRing
  /\ Alone
  /\ \A t \in Threads : (Committing(t) => Journalled(t)) /\ Ahead(t)

(***************************************************************************)
(* Commits.                                                                *)
(***************************************************************************)

\* An idle thread commits nothing and runs no checkpoint.
LEMMA IdleFree ==
  ASSUME NEW t \in Threads, pc'[t] = "idle"
  PROVE  ~Committing(t)' /\ Ahead(t)'
BY DEF Committing, CommitPcs, Ahead, Checkpointing, CheckpointPcs, Scanning

\* After a step of a commit of t alone, the rest of the invariant is about t.
LEMMA AloneRing ==
  ASSUME NEW t \in Threads, \A u \in Threads \ {t} : pc'[u] = "idle",
         pc'[t] \in CommitPcs \/ pc'[t] = "idle",
         DiskRing', MediaRing', MemoryRing', Committing(t)' => Journalled(t)'
  PROVE  RingInv'
<1>1. Ahead(t)'
  BY DEF Ahead, Checkpointing, CheckpointPcs, CommitPcs, Scanning
<1>2. Alone'
  BY IdleFree DEF Alone
<1>. QED  BY <1>1, <1>2, IdleFree DEF RingInv

\* journal_commit takes the lock and writes nothing.
LEMMA CommitBeginRing ==
  ASSUME TypeInv, Quiet, RingInv, OnlyCheckpointsOverlap', NEW t \in Threads, NEW ws \in Workload, CommitBegin(t, ws)
  PROVE  RingInv'
<1>1. /\ mode = "up" /\ pc[t] = "idle" /\ pc' = [pc EXCEPT ![t] = "hdr"] /\ txn' = [txn EXCEPT ![t] = ws]
      /\ UNCHANGED <<disk, media, sb, mode, done, hslot, dslot, win, got>>
  BY DEF CommitBegin, Goto, Busy, diskVars, mountVars
<1>2. \A u \in Threads \ {t} : ~Committing(u) /\ ~Checkpointing(u)
  <2>1. "commits" \notin crossed' /\ "mixed" \notin crossed'
    BY DEF OnlyCheckpointsOverlap
  <2>. QED  BY <2>1 DEF CommitBegin, Cross
<1>3. pc \in [Threads -> {"idle"} \cup CommitPcs \cup CheckpointPcs]
  BY DEF TypeInv, TypeOK
<1>4. \A u \in Threads \ {t} : pc[u] = "idle"
  BY <1>2, <1>3 DEF Committing, Checkpointing
<1>5. (\A u \in Threads \ {t} : pc'[u] = "idle") /\ pc'[t] = "hdr"
  BY <1>1, <1>3, <1>4
<1>6. ~Committing(t)
  BY <1>1 DEF Committing, CommitPcs
<1>7. sb.tail = dw.tail
  BY <1>1, <1>2, <1>6 DEF RingInv, MemoryRing
<1>8. done[t] = 0 /\ ws # <<>>
  BY <1>1 DEF TypeInv, Ready
<1>9. DiskRing' /\ MediaRing' /\ MemoryRing'
  BY <1>1, <1>2, <1>5, <1>6 DEF RingInv, DiskRing, MediaRing, MemoryRing, dw, mw, Committing, CommitPcs
<1>10. Journalled(t)'
  <2>1. dw.tail \in Nat
    BY DEF RingInv, DiskRing, Ring
  <2>. QED  BY <1>1, <1>5, <1>7, <1>8, <2>1 DEF Journalled, Synced, dw
<1>11. pc'[t] \in CommitPcs
  BY <1>5 DEF CommitPcs
<1>. QED  BY <1>5, <1>9, <1>10, <1>11, AloneRing

\* A commit that runs is the only operation.
LEMMA CommitRuns ==
  ASSUME TypeInv, Quiet, RingInv, NEW t \in Threads, Committing(t)
  PROVE  /\ mode = "up" /\ Journalled(t)
         /\ \A u \in Threads \ {t} : pc[u] = "idle"
         /\ dw.head \in 1 .. N - 1 /\ dw.tail \in dw.head .. N - 1
         /\ sb \in Windows /\ sb.tail \in dw.tail .. N - 1
         /\ done[t] \in Nat
         /\ pc \in [Threads -> {"idle"} \cup CommitPcs \cup CheckpointPcs]
<1>1. mode = "up"
  BY DEF Quiet, Committing, CommitPcs
<1>2. TypeOK
  BY DEF TypeInv
<1>. QED  BY <1>1, <1>2, TxnSeq DEF RingInv, Alone, DiskRing, Ring, MemoryRing, TypeOK

\* Its steps before the last touch no slot of the window on disk.
LEMMA BehindRing ==
  ASSUME RingInv, mode = "up", mode' = mode, media' = media,
         \A s \in 0 .. dw.tail - 1 : disk'[s] = disk[s],
         sb'.head = sb.head, sb'.tail \in dw.tail .. N - 1,
         NEW t \in Threads, pc'[t] \in CommitPcs
  PROVE  DiskRing' /\ MediaRing' /\ MemoryRing' /\ dw' = dw
<1>. DEFINE lo == dw.head
            hi == dw.tail
            e == disk'
<1>1. /\ lo \in 1 .. N - 1 /\ hi \in lo .. N - 1 /\ mw.head \in 1 .. N - 1 /\ mw.tail \in mw.head .. hi
      /\ sb.head \in lo .. hi
  BY DEF RingInv, DiskRing, MediaRing, MemoryRing, Ring
<1>2. disk'[0] = disk[0]
  BY <1>1
<1>3. dw' = dw /\ mw' = mw /\ Mountable(disk') /\ Mountable(media')
  BY <1>2, WindowFrame DEF RingInv, DiskRing, MediaRing, dw, mw
<1>4. Ring(e, lo, hi)
  <2>. HIDE DEF e
  <2>. QED  BY <1>1, RingFrame DEF RingInv, DiskRing, e
<1>5. Ring(e, mw.head, mw.tail)
  <2>. HIDE DEF e
  <2>. QED  BY <1>1, RingFrame DEF RingInv, MediaRing, e
<1>6. WellPaired(e, sb.head, hi)
  <2>. HIDE DEF e
  <2>. QED  BY <1>1, PairFrame DEF RingInv, MemoryRing, e
<1>7. DiskRing'
  BY <1>3, <1>4 DEF DiskRing
<1>8. MediaRing'
  BY <1>3, <1>5 DEF MediaRing, RingInv
<1>9. MemoryRing'
  <2>1. sb'.head \in dw'.head .. dw'.tail /\ WellPaired(disk', sb'.head, dw'.tail)
        /\ sb'.tail \in dw'.tail .. N - 1
    BY <1>1, <1>3, <1>6
  <2>2. Committing(t)'
    BY DEF Committing
  <2>. QED  BY <2>1, <2>2 DEF MemoryRing
<1>. QED  BY <1>3, <1>7, <1>8, <1>9

\* Within the limits an allocation does not wrap.
LEMMA AllocNoWrap ==
  ASSUME TypeInv, OnlyCheckpointsOverlap', NEW t \in Threads, AllocSlot, Cross(AllocCross(t))
  PROVE  sb'.head = sb.head /\ sb'.tail = sb.tail + 1 /\ sb'.tail \in 1 .. N - 1
<1>1. sb.tail \in Slots
  BY DEF TypeInv, TypeOK, Windows
<1>2. Succ(sb.tail) # 0
  BY DEF Cross, AllocCross, OnlyCheckpointsOverlap
<1>. QED  BY <1>1, <1>2 DEF AllocSlot, Succ, Slots

\* A slot taken at the tail is behind every window.
LEMMA AllocRing ==
  ASSUME TypeInv, Quiet, RingInv, OnlyCheckpointsOverlap', NEW t \in Threads,
         AllocHeader(t) \/ AllocData(t) \/ AllocCommit(t)
  PROVE  RingInv'
<1>1. Committing(t) /\ AllocSlot /\ Cross(AllocCross(t))
  BY DEF AllocHeader, AllocData, AllocCommit, Committing, CommitPcs
<1>2. /\ mode = "up" /\ Journalled(t)
      /\ \A u \in Threads \ {t} : pc[u] = "idle"
      /\ dw.head \in 1 .. N - 1 /\ dw.tail \in dw.head .. N - 1
      /\ sb.tail \in dw.tail .. N - 1 /\ done[t] \in Nat
      /\ pc \in [Threads -> {"idle"} \cup CommitPcs \cup CheckpointPcs]
  BY <1>1, CommitRuns
<1>3. sb'.head = sb.head /\ sb'.tail = sb.tail + 1 /\ sb'.tail \in 1 .. N - 1
  BY <1>1, AllocNoWrap
<1>4. /\ UNCHANGED <<disk, media, mode, txn, done>>
      /\ \A u \in Threads \ {t} : pc'[u] = pc[u]
      /\ pc'[t] \in CommitPcs
  BY <1>2 DEF AllocHeader, AllocData, AllocCommit, Goto, diskVars, mountVars, CommitPcs
<1>5. DiskRing' /\ MediaRing' /\ MemoryRing' /\ dw' = dw
  BY <1>2, <1>3, <1>4, BehindRing
<1>6. hslot \in [Threads -> Slots] /\ dslot \in [Threads -> Slots]
  BY DEF TypeInv, TypeOK
<1>7. Journalled(t)'
  <2>1. CASE AllocHeader(t)
    BY <2>1, <1>2, <1>3, <1>4, <1>5, <1>6 DEF AllocHeader, Goto, Journalled, Synced
  <2>2. CASE AllocData(t)
    BY <2>2, <1>2, <1>3, <1>4, <1>5, <1>6 DEF AllocData, Goto, Journalled, Synced
  <2>3. CASE AllocCommit(t)
    BY <2>3, <1>2, <1>3, <1>4, <1>5, <1>6 DEF AllocCommit, Goto, Journalled, Synced
  <2>. QED  BY <2>1, <2>2, <2>3
<1>. QED  BY <1>2, <1>4, <1>5, <1>7, AloneRing

\* The writes of a commit go behind the window on disk.
LEMMA WriteRing ==
  ASSUME TypeInv, Quiet, RingInv, OnlyCheckpointsOverlap', NEW t \in Threads,
         WriteHeader(t) \/ WriteData(t) \/ WriteCommitRecord(t)
  PROVE  RingInv'
<1>1. Committing(t)
  BY DEF WriteHeader, WriteData, WriteCommitRecord, Committing, CommitPcs
<1>2. /\ mode = "up" /\ Journalled(t)
      /\ \A u \in Threads \ {t} : pc[u] = "idle"
      /\ dw.head \in 1 .. N - 1 /\ dw.tail \in dw.head .. N - 1
      /\ sb.tail \in dw.tail .. N - 1 /\ done[t] \in Nat
      /\ pc \in [Threads -> {"idle"} \cup CommitPcs \cup CheckpointPcs]
  BY <1>1, CommitRuns
<1>3. /\ UNCHANGED <<media, sb, mode, txn, hslot, dslot, win>>
      /\ \A u \in Threads \ {t} : pc'[u] = pc[u]
      /\ pc'[t] \in CommitPcs
  BY <1>2 DEF WriteHeader, WriteData, WriteCommitRecord, Goto, Write, mountVars, commitVars, CommitPcs
<1>. DEFINE hi == dw.tail
            k == done[t]
            ws == txn[t]
            n == hi + 2 * k
<1>4. /\ \A i \in 1 .. k : disk[hi + 2 * i - 2] = Header(ws[i][1], ws[i][2]) /\ disk[hi + 2 * i - 1] = Data(ws[i][2])
      /\ pc[t] \in {"wrHdr", "wrDat"} => sb.tail = n + 2 /\ hslot[t] = n /\ dslot[t] = n + 1
      /\ pc[t] = "wrDat" => disk[n] = Header(ws[k + 1][1], ws[k + 1][2])
      /\ pc[t] = "wrCmt" => sb.tail = n + 1 /\ hslot[t] = n /\ k = Len(ws)
  BY <1>2 DEF WriteHeader, WriteData, WriteCommitRecord, Journalled, Synced
<1>5. hi \in 1 .. N - 1 /\ k \in Nat /\ n \in Nat /\ n >= hi
  BY <1>2
<1>6. ASSUME NEW x \in hi .. N - 1, NEW c, disk' = Put(disk, x, c)
      PROVE  /\ disk'[x] = c /\ \A s \in Slots : s # x => disk'[s] = disk[s]
             /\ DiskRing' /\ MediaRing' /\ MemoryRing' /\ dw' = dw
  <2>1. disk \in [Addrs -> Blocks] /\ x \in Addrs /\ Slots \subseteq Addrs
    BY <1>5, <1>6 DEF TypeInv, TypeOK, Addrs, Slots
  <2>2. disk'[x] = c /\ \A s \in Slots : s # x => disk'[s] = disk[s]
    BY <1>6, <2>1 DEF Put
  <2>3. \A s \in 0 .. hi - 1 : s \in Slots /\ s # x
    BY <1>5 DEF Slots
  <2>4. sb'.head = sb.head /\ sb'.tail \in hi .. N - 1
    BY <1>2, <1>3
  <2>5. \A s \in 0 .. dw.tail - 1 : disk'[s] = disk[s]
    BY <2>2, <2>3
  <2>. QED  BY <1>2, <1>3, <2>2, <2>4, <2>5, BehindRing
<1>. HIDE DEF hi, k, ws, n
<1>7. CASE WriteHeader(t)
  <2>1. disk' = Put(disk, n, Header(ws[k + 1][1], ws[k + 1][2])) /\ n \in hi .. N - 1 /\ sb.tail = n + 2
        /\ pc' = [pc EXCEPT ![t] = "wrDat"] /\ done' = done /\ pc[t] = "wrHdr"
    BY <1>2, <1>4, <1>5, <1>7 DEF WriteHeader, Write, Goto, commitVars, hi, k, ws
  <2>2. disk'[n] = Header(ws[k + 1][1], ws[k + 1][2]) /\ \A s \in Slots : s # n => disk'[s] = disk[s]
    BY <2>1, <1>6
  <2>3. DiskRing' /\ MediaRing' /\ MemoryRing' /\ dw' = dw
    BY <2>1, <1>6
  <2>4. ASSUME NEW i \in 1 .. k
        PROVE  disk'[hi + 2 * i - 2] = disk[hi + 2 * i - 2] /\ disk'[hi + 2 * i - 1] = disk[hi + 2 * i - 1]
    <3>1. hi + 2 * i - 2 \in 0 .. n - 1 /\ hi + 2 * i - 1 \in 0 .. n - 1
      BY <1>5 DEF n
    <3>2. \A s \in 0 .. n - 1 : s \in Slots /\ s # n
      BY <1>5, <2>1 DEF Slots
    <3>. QED  BY <3>1, <3>2, <2>2
  <2>5. pc'[t] = "wrDat"
    BY <1>2, <2>1
  <2>6. Journalled(t)'
    BY <1>3, <1>4, <2>1, <2>2, <2>3, <2>4, <2>5 DEF Journalled, Synced, hi, k, ws, n
  <2>. QED  BY <1>2, <1>3, <2>3, <2>6, AloneRing
<1>8. CASE WriteData(t)
  <2>1. disk' = Put(disk, n + 1, Data(ws[k + 1][2])) /\ n + 1 \in hi .. N - 1 /\ sb.tail = n + 2
        /\ done' = [done EXCEPT ![t] = k + 1] /\ pc[t] = "wrDat"
        /\ pc' = [pc EXCEPT ![t] = IF k + 1 = Len(ws) THEN "cmt" ELSE "hdr"]
    BY <1>2, <1>4, <1>5, <1>8 DEF WriteData, Write, Goto, hi, k, ws
  <2>2. disk'[n + 1] = Data(ws[k + 1][2]) /\ \A s \in Slots : s # n + 1 => disk'[s] = disk[s]
    BY <2>1, <1>6
  <2>3. DiskRing' /\ MediaRing' /\ MemoryRing' /\ dw' = dw
    BY <2>1, <1>6
  <2>4. ASSUME NEW i \in 1 .. k
        PROVE  disk'[hi + 2 * i - 2] = disk[hi + 2 * i - 2] /\ disk'[hi + 2 * i - 1] = disk[hi + 2 * i - 1]
    <3>1. hi + 2 * i - 2 \in 0 .. n - 1 /\ hi + 2 * i - 1 \in 0 .. n - 1
      BY <1>5 DEF n
    <3>2. \A s \in 0 .. n - 1 : s \in Slots /\ s # n + 1
      BY <1>5, <2>1 DEF Slots
    <3>. QED  BY <3>1, <3>2, <2>2
  <2>5. disk'[n] = disk[n]
    BY <1>5, <2>1, <2>2 DEF Slots
  <2>6. \A i \in 1 .. k + 1 : disk'[hi + 2 * i - 2] = Header(ws[i][1], ws[i][2]) /\ disk'[hi + 2 * i - 1] = Data(ws[i][2])
    <3>1. \A i \in 1 .. k + 1 : i \in 1 .. k \/ i = k + 1
      BY <1>5
    <3>2. hi + 2 * (k + 1) - 2 = n /\ hi + 2 * (k + 1) - 1 = n + 1
      BY <1>5 DEF n
    <3>. QED  BY <1>4, <2>1, <2>2, <2>4, <2>5, <3>1, <3>2
  <2>7. pc'[t] = (IF k + 1 = Len(ws) THEN "cmt" ELSE "hdr") /\ done'[t] = k + 1
    BY <1>2, <2>1 DEF TypeInv, TypeOK
  <2>8. sb.tail = hi + 2 * (k + 1)
    BY <1>5, <2>1 DEF n
  <2>9. Journalled(t)'
    <3>1. dw'.tail = hi /\ txn'[t] = ws /\ sb' = sb
      BY <1>3, <2>3 DEF hi, ws
    <3>. QED  BY <2>6, <2>7, <2>8, <3>1 DEF Journalled, Synced
  <2>. QED  BY <1>2, <1>3, <2>3, <2>9, AloneRing
<1>9. CASE WriteCommitRecord(t)
  <2>1. disk' = Put(disk, n, CommitRecord) /\ n \in hi .. N - 1 /\ sb.tail = n + 1
        /\ pc' = [pc EXCEPT ![t] = "sbCopy"] /\ done' = done /\ pc[t] = "wrCmt" /\ k = Len(ws)
    BY <1>2, <1>4, <1>5, <1>9 DEF WriteCommitRecord, Write, Goto, commitVars, hi, k, ws
  <2>2. disk'[n] = CommitRecord /\ \A s \in Slots : s # n => disk'[s] = disk[s]
    BY <2>1, <1>6
  <2>3. DiskRing' /\ MediaRing' /\ MemoryRing' /\ dw' = dw
    BY <2>1, <1>6
  <2>4. ASSUME NEW i \in 1 .. k
        PROVE  disk'[hi + 2 * i - 2] = disk[hi + 2 * i - 2] /\ disk'[hi + 2 * i - 1] = disk[hi + 2 * i - 1]
    <3>1. hi + 2 * i - 2 \in 0 .. n - 1 /\ hi + 2 * i - 1 \in 0 .. n - 1
      BY <1>5 DEF n
    <3>2. \A s \in 0 .. n - 1 : s \in Slots /\ s # n
      BY <1>5, <2>1 DEF Slots
    <3>. QED  BY <3>1, <3>2, <2>2
  <2>5. pc'[t] = "sbCopy"
    BY <1>2, <2>1
  <2>6. disk'[n].kind = "jcmt"
    BY <2>2 DEF CommitRecord
  <2>7. Journalled(t)'
    BY <1>3, <1>4, <2>1, <2>3, <2>4, <2>5, <2>6 DEF Journalled, Synced, hi, k, ws, n
  <2>. QED  BY <1>2, <1>3, <2>3, <2>7, AloneRing
<1>. QED  BY <1>7, <1>8, <1>9

\* Pairs written one after the other are a well paired window.
LEMMA PairList ==
  ASSUME NEW d, NEW lo \in Int, NEW k \in Nat, NEW ws,
         \A i \in 1 .. k : d[lo + 2 * i - 2] = Header(ws[i][1], ws[i][2]) /\ d[lo + 2 * i - 1] = Data(ws[i][2])
  PROVE  WellPaired(d, lo, lo + 2 * k)
<1>1. ASSUME NEW s \in lo .. lo + 2 * k - 1
      PROVE  \/ d[s].kind = "jdat" /\ s + 1 < lo + 2 * k /\ d[s + 1] = Data(d[s].checksum)
             \/ d[s].kind = "data" /\ s > lo /\ d[s - 1].kind = "jdat"
  <2>1. PICK j \in Nat : s - lo = 2 * j \/ s - lo = 2 * j + 1
    <3>1. s - lo \in Nat
      OBVIOUS
    <3>2. \A m \in Nat : m \div 2 \in Nat /\ (m = 2 * (m \div 2) \/ m = 2 * (m \div 2) + 1)
      OBVIOUS
    <3>. QED  BY <3>1, <3>2
  <2>. DEFINE i == j + 1
  <2>2. i \in 1 .. k
    BY <2>1
  <2>3. d[lo + 2 * i - 2] = Header(ws[i][1], ws[i][2]) /\ d[lo + 2 * i - 1] = Data(ws[i][2])
    BY <2>2
  <2>4. CASE s - lo = 2 * j
    <3>1. s = lo + 2 * i - 2 /\ s + 1 = lo + 2 * i - 1 /\ s + 1 < lo + 2 * k
      BY <2>2, <2>4
    <3>. QED  BY <2>3, <3>1 DEF Header, Data
  <2>5. CASE s - lo = 2 * j + 1
    <3>1. j \in Nat /\ s \in Int /\ s = lo + 2 * j + 1
      BY <2>1, <2>5
    <3>2. s = lo + 2 * i - 1 /\ s - 1 = lo + 2 * i - 2 /\ s > lo
      BY <3>1
    <3>. QED  BY <2>3, <3>2 DEF Header, Data
  <2>. QED  BY <2>1, <2>4, <2>5
<1>. QED  BY <1>1 DEF WellPaired

\* Steps that write no slot: a block outside the ring may change, and the media
\* may get the superblock of the disk.
LEMMA StillRing ==
  ASSUME RingInv, \A s \in Slots : disk'[s] = disk[s], media'[0] = media[0] \/ media'[0] = disk[0]
  PROVE  DiskRing' /\ MediaRing' /\ dw' = dw
<1>. DEFINE e == disk'
<1>1. /\ dw.head \in 1 .. N - 1 /\ dw.tail \in dw.head .. N - 1
      /\ mw.head \in 1 .. N - 1 /\ mw.tail \in mw.head .. dw.tail /\ mw.head <= dw.head
      /\ mw.tail \in mw.head .. N - 1
      /\ 0 \in Slots
  BY DEF RingInv, DiskRing, MediaRing, Ring, Slots
<1>2. dw' = dw /\ Mountable(disk')
  BY <1>1, WindowFrame DEF RingInv, DiskRing, dw
<1>3. \A lo, hi \in 1 .. N - 1 : Ring(disk, lo, hi) => Ring(e, lo, hi)
  <2>. SUFFICES ASSUME NEW lo \in 1 .. N - 1, NEW hi \in 1 .. N - 1, Ring(disk, lo, hi) PROVE Ring(e, lo, hi)
    OBVIOUS
  <2>1. \A s \in lo .. hi - 1 : e[s] = disk[s]
    BY DEF Slots
  <2>. HIDE DEF e
  <2>. QED  BY <2>1, RingFrame
<1>4. DiskRing'
  BY <1>1, <1>2, <1>3 DEF RingInv, DiskRing
<1>5. MediaRing'
  <2>1. CASE media'[0] = media[0]
    <3>1. mw' = mw /\ Mountable(media')
      BY <2>1, WindowFrame DEF RingInv, MediaRing, mw
    <3>. QED  BY <1>1, <1>2, <1>3, <3>1 DEF RingInv, MediaRing
  <2>2. CASE media'[0] = disk[0]
    <3>1. mw' = dw /\ Mountable(media')
      BY <2>2, WindowFrame DEF RingInv, DiskRing, mw, dw
    <3>. QED  BY <1>1, <1>2, <1>4, <3>1 DEF MediaRing, DiskRing
  <2>. QED  BY <2>1, <2>2
<1>. QED  BY <1>2, <1>4, <1>5

\* What is in memory, when such a step leaves it.
LEMMA StillMemory ==
  ASSUME RingInv, \A s \in Slots : disk'[s] = disk[s], sb' = sb, mode' = mode, dw' = dw,
         mode = "up" /\ (\A t \in Threads : ~Committing(t)') => sb.tail = dw.tail
  PROVE  MemoryRing'
<1>. DEFINE e == disk'
<1>1. ASSUME mode # "down" PROVE WellPaired(e, sb.head, dw.tail)
  <2>1. sb.head \in dw.head .. dw.tail /\ dw.head \in 1 .. N - 1 /\ dw.tail \in dw.head .. N - 1
    BY <1>1 DEF RingInv, MemoryRing, DiskRing, Ring
  <2>2. \A s \in sb.head .. dw.tail - 1 : e[s] = disk[s]
    BY <2>1 DEF Slots
  <2>. HIDE DEF e
  <2>. QED  BY <1>1, <2>1, <2>2, PairFrame DEF RingInv, MemoryRing
<1>. QED  BY <1>1 DEF RingInv, MemoryRing

\* A commit's superblock shows the window its flush ends.
LEMMA SyncRing ==
  ASSUME TypeInv, Quiet, RingInv, OnlyCheckpointsOverlap', NEW t \in Threads,
         SyncCopy(t) \/ SyncWrite(t) \/ SyncFlush(t) \/ CommitEnd(t) \/ CommitFull(t) \/ CommitFault(t)
  PROVE  RingInv'
<1>1. Committing(t)
  BY DEF SyncCopy, SyncWrite, SyncFlush, CommitEnd, CommitFull, CommitFault, Committing, CommitPcs
<1>2. /\ mode = "up" /\ Journalled(t)
      /\ \A u \in Threads \ {t} : pc[u] = "idle"
      /\ dw.head \in 1 .. N - 1 /\ dw.tail \in dw.head .. N - 1
      /\ sb \in Windows /\ sb.tail \in dw.tail .. N - 1 /\ done[t] \in Nat
      /\ pc \in [Threads -> {"idle"} \cup CommitPcs \cup CheckpointPcs]
  BY <1>1, CommitRuns
<1>3. /\ sb' = sb /\ mode' = mode
      /\ \A u \in Threads \ {t} : pc'[u] = pc[u]
      /\ pc'[t] \in CommitPcs \/ pc'[t] = "idle"
  BY <1>2 DEF SyncCopy, SyncWrite, SyncFlush, CommitEnd, CommitFull, CommitFault, Goto, Return, mountVars, CommitPcs
<1>4. CASE SyncCopy(t)
  <2>1. /\ disk' = disk /\ media' = media /\ txn' = txn /\ done' = done /\ pc[t] = "sbCopy"
        /\ pc'[t] = "sbWrite" /\ win'[t] = sb
    <3>1. win \in [Threads -> Windows]
      BY DEF TypeInv, TypeOK
    <3>. QED  BY <1>2, <1>4, <3>1 DEF SyncCopy, Goto, diskVars, commitVars
  <2>2. DiskRing' /\ MediaRing' /\ dw' = dw
    BY <2>1, StillRing
  <2>3. Committing(t)'
    BY <2>1 DEF Committing, CommitPcs
  <2>4. MemoryRing'
    BY <1>3, <2>1, <2>2, <2>3, StillMemory
  <2>5. Journalled(t)'
    BY <1>2, <1>3, <2>1, <2>2 DEF Journalled, Synced
  <2>. QED  BY <1>2, <1>3, <2>2, <2>4, <2>5, AloneRing
<1>5. CASE SyncWrite(t)
  <2>. DEFINE hi == dw.tail
              e == disk'
  <2>1. /\ disk' = Put(disk, 0, JournalSb(win[t])) /\ media' = media /\ pc[t] = "sbWrite" /\ pc'[t] = "sbSync"
        /\ win[t] = sb /\ sb.tail = hi + 2 * done[t] + 1 /\ disk[hi + 2 * done[t]].kind = "jcmt"
        /\ \A i \in 1 .. done[t] : /\ disk[hi + 2 * i - 2] = Header(txn[t][i][1], txn[t][i][2])
                                   /\ disk[hi + 2 * i - 1] = Data(txn[t][i][2])
    BY <1>2, <1>5 DEF SyncWrite, Write, Goto, Journalled, Synced
  <2>2. disk'[0] = JournalSb(sb) /\ \A s \in Slots : s # 0 => disk'[s] = disk[s]
    BY <2>1, SlotFacts DEF Put, TypeInv, TypeOK, Addrs
  <2>3. sb.head \in dw.head .. hi /\ WellPaired(disk, sb.head, hi)
    BY <1>2 DEF RingInv, MemoryRing
  <2>4. dw' = sb /\ Mountable(disk')
    BY <1>2, <2>2, <2>3, WindowOf DEF dw
  <2>5. WellPaired(disk, hi, hi + 2 * done[t])
    <3>. DEFINE k == done[t]
                ws == txn[t]
    <3>1. \A i \in 1 .. k : disk[hi + 2 * i - 2] = Header(ws[i][1], ws[i][2]) /\ disk[hi + 2 * i - 1] = Data(ws[i][2])
      BY <2>1
    <3>2. hi \in Int /\ k \in Nat
      BY <1>2
    <3>. HIDE DEF k, ws, hi
    <3>3. WellPaired(disk, hi, hi + 2 * k)
      BY <3>1, <3>2, PairList
    <3>. QED  BY <3>3 DEF k
  <2>6. WellPaired(disk, hi + 2 * done[t], sb.tail)
    <3>1. \A s \in hi + 2 * done[t] .. sb.tail - 1 : s = hi + 2 * done[t]
      BY <1>2, <2>1
    <3>. QED  BY <2>1, <3>1 DEF WellPaired
  <2>7. WellPaired(disk, sb.head, sb.tail)
    <3>1. WellPaired(disk, hi, sb.tail)
      BY <1>2, <2>1, <2>5, <2>6, PairJoin
    <3>2. hi <= sb.tail /\ sb.head <= hi /\ sb.head \in Int /\ hi \in Int /\ sb.tail \in Int
      BY <1>2, <2>3
    <3>. HIDE DEF hi
    <3>. QED  BY <2>3, <3>1, <3>2, PairJoin
  <2>8. sb.head \in 1 .. N - 1 /\ sb.tail \in sb.head .. N - 1 /\ sb.tail - 1 = hi + 2 * done[t]
    BY <1>2, <2>1, <2>3, SMTT(30)
  <2>9. Ring(e, sb.head, sb.tail)
    <3>1. Ring(disk, sb.head, sb.tail)
      BY <2>1, <2>7, <2>8 DEF Ring
    <3>2. \A s \in sb.head .. sb.tail - 1 : e[s] = disk[s]
      BY <2>2, <2>8 DEF Slots
    <3>. HIDE DEF e
    <3>. QED  BY <3>1, <3>2, RingFrame
  <2>10. DiskRing'
    BY <2>4, <2>9 DEF DiskRing
  <2>11. MediaRing'
    <3>1. Ring(disk, mw.head, mw.tail) /\ mw.tail <= hi /\ mw.head <= dw.head /\ Mountable(media)
      BY DEF RingInv, MediaRing
    <3>2. mw.head \in 1 .. N - 1 /\ mw.tail \in mw.head .. N - 1
      BY <3>1 DEF Ring
    <3>3. \A s \in mw.head .. mw.tail - 1 : e[s] = disk[s]
      BY <2>2, <3>2 DEF Slots
    <3>4. Ring(e, mw.head, mw.tail)
      <4>. HIDE DEF e
      <4>. QED  BY <3>1, <3>3, RingFrame
    <3>5. mw' = mw
      BY <2>1 DEF mw
    <3>. QED  BY <1>2, <2>1, <2>3, <2>4, <3>1, <3>2, <3>4, <3>5, SMTT(30) DEF MediaRing
  <2>12. WellPaired(e, sb.head, sb.tail)
    BY <2>9 DEF Ring
  <2>13. Committing(t)'
    BY <2>1 DEF Committing, CommitPcs
  <2>14. MemoryRing'
    BY <1>2, <1>3, <2>4, <2>8, <2>12, <2>13 DEF MemoryRing
  <2>15. Journalled(t)'
    BY <1>3, <2>1, <2>4 DEF Journalled, Synced
  <2>. QED  BY <1>2, <1>3, <2>10, <2>11, <2>14, <2>15, AloneRing
<1>6. CASE SyncFlush(t)
  <2>1. disk' = disk /\ media' = disk /\ pc[t] = "sbSync" /\ pc'[t] = "fsync"
    BY <1>2, <1>6 DEF SyncFlush, SyncAll, Goto
  <2>2. DiskRing' /\ MediaRing' /\ dw' = dw
    BY <2>1, StillRing
  <2>3. Committing(t)'
    BY <2>1 DEF Committing, CommitPcs
  <2>4. MemoryRing'
    BY <1>3, <2>1, <2>2, <2>3, StillMemory
  <2>5. Journalled(t)'
    BY <1>2, <1>3, <2>1, <2>2 DEF Journalled, Synced
  <2>. QED  BY <1>2, <1>3, <2>2, <2>4, <2>5, AloneRing
<1>7. CASE CommitEnd(t)
  <2>1. disk' = disk /\ media' = disk /\ pc[t] = "fsync" /\ pc'[t] = "idle"
    BY <1>2, <1>7 DEF CommitEnd, SyncAll, Return, Goto
  <2>2. DiskRing' /\ MediaRing' /\ dw' = dw
    BY <2>1, StillRing
  <2>3. sb = dw
    BY <1>2, <2>1 DEF Journalled, Synced
  <2>4. MemoryRing'
    BY <1>3, <2>1, <2>2, <2>3, StillMemory
  <2>5. ~Committing(t)'
    BY <2>1 DEF Committing, CommitPcs
  <2>. QED  BY <1>2, <1>3, <2>2, <2>4, <2>5, AloneRing
<1>8. CASE CommitFull(t)
  <2>1. disk' = disk /\ media' = media /\ pc'[t] = "idle" /\ pc[t] = "hdr" /\ done[t] = 0
    BY <1>2, <1>8 DEF CommitFull, Return, Goto, diskVars, Cross, OnlyCheckpointsOverlap
  <2>2. DiskRing' /\ MediaRing' /\ dw' = dw
    BY <2>1, StillRing
  <2>3. sb.tail = dw.tail
    BY <1>2, <2>1 DEF Journalled, Synced
  <2>4. MemoryRing'
    BY <1>3, <2>1, <2>2, <2>3, StillMemory
  <2>5. ~Committing(t)'
    BY <2>1 DEF Committing, CommitPcs
  <2>. QED  BY <1>2, <1>3, <2>2, <2>4, <2>5, AloneRing
<1>9. CASE CommitFault(t)
  BY <1>9 DEF CommitFault, Cross, OnlyCheckpointsOverlap
<1>. QED  BY <1>4, <1>5, <1>6, <1>7, <1>8, <1>9

(***************************************************************************)
(* Checkpoints.                                                            *)
(***************************************************************************)

\* While a checkpoint runs, no commit does.
LEMMA CheckpointRuns ==
  ASSUME TypeInv, Quiet, RingInv, NEW t \in Threads, Checkpointing(t)
  PROVE  /\ mode = "up" /\ Ahead(t) /\ win[t].tail = sb.tail
         /\ \A u \in Threads : ~Committing(u)
         /\ dw.head \in 1 .. N - 1 /\ dw.tail \in dw.head .. N - 1
         /\ sb \in Windows /\ sb.tail = dw.tail /\ sb.head \in dw.head .. dw.tail
         /\ win \in [Threads -> Windows]
         /\ pc \in [Threads -> {"idle"} \cup CommitPcs \cup CheckpointPcs]
<1>1. pc[t] # "idle" /\ ~Committing(t)
  BY DEF Checkpointing, CheckpointPcs, Committing, CommitPcs
<1>2. mode = "up"
  BY <1>1 DEF Quiet
<1>3. TypeOK
  BY DEF TypeInv
<1>4. \A u \in Threads : ~Committing(u)
  BY <1>1 DEF RingInv, Alone
<1>. QED  BY <1>2, <1>3, <1>4 DEF RingInv, Ahead, DiskRing, Ring, MemoryRing, TypeOK

\* A thread that does not move keeps what it has still to look at.
LEMMA AheadStays ==
  ASSUME TypeInv, NEW u \in Threads, Ahead(u), pc'[u] = pc[u], win'[u] = win[u], got'[u] = got[u],
         \A s \in 1 .. N - 1 : disk'[s] = disk[s], sb'.tail = sb.tail,
         pc[u] \in {"cpSb", "cpSbSync"} => sb'.head = sb.head
  PROVE  Ahead(u)'
<1>. DEFINE e == disk'
            w == win[u]
<1>1. w.tail \in 0 .. N - 1
  BY DEF TypeInv, TypeOK, Windows, Slots
<1>2. ASSUME Scanning(u) PROVE WellPaired(e, w.head, w.tail)
  <2>1. w.head \in 1 .. w.tail /\ WellPaired(disk, w.head, w.tail)
    BY <1>2 DEF Ahead
  <2>2. \A s \in w.head .. w.tail - 1 : e[s] = disk[s]
    BY <1>1, <2>1
  <2>. HIDE DEF e, w
  <2>3. w.head \in Int /\ w.tail \in Int
    BY <1>1, <2>1
  <2>. QED  BY <2>1, <2>2, <2>3, PairFrame
<1>3. ASSUME pc[u] = "apply"
      PROVE  /\ w.head < w.tail /\ e[w.head].kind = "jdat" /\ got[u] = <<e[w.head].target, e[w.head + 1]>>
  <2>1. /\ w.head \in 1 .. w.tail /\ WellPaired(disk, w.head, w.tail) /\ w.head < w.tail
        /\ disk[w.head].kind = "jdat"
        /\ got[u] = <<disk[w.head].target, disk[w.head + 1]>>
    BY <1>3 DEF Ahead, Scanning
  <2>2. w.head + 1 < w.tail
    <3>. HIDE DEF w
    <3>1. w.head \in Int /\ w.tail \in Int
      BY <1>1, <2>1
    <3>. QED  BY <2>1, <3>1, PairStep
  <2>3. e[w.head] = disk[w.head] /\ e[w.head + 1] = disk[w.head + 1]
    BY <1>1, <2>1, <2>2
  <2>. QED  BY <2>1, <2>3
<1>. QED  BY <1>2, <1>3 DEF Ahead, Checkpointing, Scanning

\* With no commit or checkpoint on its way the windows are all there is to see.
LEMMA NoCommitRing ==
  ASSUME DiskRing', MediaRing', MemoryRing', \A u \in Threads : ~Committing(u)' /\ Ahead(u)'
  PROVE  RingInv'
BY DEF RingInv, Alone

\* A checkpoint copies the window it starts from.
LEMMA CheckpointBeginRing ==
  ASSUME TypeInv, Quiet, RingInv, OnlyCheckpointsOverlap', NEW t \in Threads, CheckpointBegin(t)
  PROVE  RingInv'
<1>1. /\ mode = "up" /\ pc[t] = "idle" /\ pc' = [pc EXCEPT ![t] = "scan"] /\ win' = [win EXCEPT ![t] = sb]
      /\ UNCHANGED <<disk, media, sb, mode, got>>
  BY DEF CheckpointBegin, Goto, Busy, diskVars, mountVars
<1>2. \A u \in Threads : ~Committing(u)
  <2>1. "mixed" \notin crossed'
    BY DEF OnlyCheckpointsOverlap
  <2>2. ~Committing(t)
    BY <1>1 DEF Committing, CommitPcs
  <2>. QED  BY <2>1, <2>2 DEF CheckpointBegin, Cross
<1>3. pc \in [Threads -> {"idle"} \cup CommitPcs \cup CheckpointPcs] /\ win \in [Threads -> Windows] /\ sb \in Windows
  BY DEF TypeInv, TypeOK
<1>4. /\ pc'[t] = "scan" /\ win'[t] = sb
      /\ \A u \in Threads \ {t} : pc'[u] = pc[u] /\ win'[u] = win[u]
  BY <1>1, <1>3
<1>5. \A u \in Threads : ~Committing(u)'
  BY <1>2, <1>4 DEF Committing, CommitPcs
<1>6. DiskRing' /\ MediaRing' /\ dw' = dw
  BY <1>1, StillRing
<1>7. sb.tail = dw.tail
  BY <1>1, <1>2 DEF RingInv, MemoryRing
<1>8. MemoryRing'
  BY <1>1, <1>6, <1>7, StillMemory
<1>9. \A u \in Threads \ {t} : Ahead(u)'
  BY <1>1, <1>4, AheadStays DEF RingInv
<1>10. Ahead(t)'
  <2>1. sb.head \in 1 .. sb.tail /\ WellPaired(disk, sb.head, sb.tail)
    BY <1>1, <1>7 DEF RingInv, MemoryRing, DiskRing, Ring
  <2>. QED  BY <1>1, <1>4, <2>1 DEF Ahead, Scanning
<1>. QED  BY <1>5, <1>6, <1>8, <1>9, <1>10, NoCommitRing

\* A checkpoint moves the head over whole records, never past the disk's.
LEMMA CheckpointRing ==
  ASSUME TypeInv, Quiet, RingInv, OnlyCheckpointsOverlap', NEW t \in Threads,
         Checkpoint(t) \/ CheckpointFault(t)
  PROVE  RingInv'
<1>1. Checkpointing(t)
  BY DEF Checkpoint, CheckpointRead, CheckpointApply, CheckpointScanned, CheckpointHead, CheckpointSbWrite,
         CheckpointEnd, CheckpointFault, Checkpointing, CheckpointPcs
<1>2. /\ mode = "up" /\ Ahead(t) /\ win[t].tail = sb.tail
      /\ \A u \in Threads : ~Committing(u)
      /\ dw.head \in 1 .. N - 1 /\ dw.tail \in dw.head .. N - 1
      /\ sb \in Windows /\ sb.tail = dw.tail /\ sb.head \in dw.head .. dw.tail
      /\ win \in [Threads -> Windows]
      /\ pc \in [Threads -> {"idle"} \cup CommitPcs \cup CheckpointPcs]
  BY <1>1, CheckpointRuns
<1>3. /\ mode' = mode
      /\ pc' \in [Threads -> {"idle"} \cup CommitPcs \cup CheckpointPcs]
      /\ pc'[t] \notin CommitPcs
      /\ \A u \in Threads \ {t} : pc'[u] = pc[u] /\ win'[u] = win[u] /\ got'[u] = got[u]
  <2>1. got \in [Threads -> (Homes \X Blocks) \cup {<<>>}]
    BY DEF TypeInv, TypeOK
  <2>. USE <1>2, <2>1 DEF mountVars, CommitPcs, CheckpointPcs, Goto, Return, Advance
  <2>2. CASE CheckpointRead(t)
    <3>1. pc' = pc \/ pc' = [pc EXCEPT ![t] = "apply"]
      BY <2>2 DEF CheckpointRead
    <3>2. pc[t] = "scan"
      BY <2>2 DEF CheckpointRead
    <3>. QED  BY <2>2, <3>1, <3>2 DEF CheckpointRead
  <2>3. CASE CheckpointApply(t)
    BY <2>3 DEF CheckpointApply
  <2>4. CASE CheckpointScanned(t)
    BY <2>4 DEF CheckpointScanned
  <2>5. CASE CheckpointHead(t)
    BY <2>5 DEF CheckpointHead
  <2>6. CASE CheckpointSbWrite(t)
    BY <2>6 DEF CheckpointSbWrite
  <2>7. CASE CheckpointEnd(t)
    BY <2>7 DEF CheckpointEnd
  <2>8. CASE CheckpointFault(t)
    BY <2>8 DEF CheckpointFault
  <2>. QED  BY <2>2, <2>3, <2>4, <2>5, <2>6, <2>7, <2>8 DEF Checkpoint
<1>4. \A u \in Threads : ~Committing(u)'
  BY <1>2, <1>3 DEF Committing
<1>5. ASSUME \A s \in Slots : disk'[s] = disk[s], media' = media \/ media' = disk, sb' = sb, Ahead(t)'
      PROVE  RingInv'
  <2>1. DiskRing' /\ MediaRing' /\ dw' = dw
    BY <1>5, StillRing
  <2>2. MemoryRing'
    BY <1>2, <1>3, <1>5, <2>1, StillMemory
  <2>3. \A s \in 1 .. N - 1 : disk'[s] = disk[s]
    BY <1>5 DEF Slots
  <2>4. \A u \in Threads \ {t} : Ahead(u)'
    BY <1>3, <1>5, <2>3, AheadStays DEF RingInv
  <2>. QED  BY <1>4, <1>5, <2>1, <2>2, <2>4, NoCommitRing
<1>. DEFINE c == win[t].head
            top == win[t].tail
<1>6. top \in 0 .. N - 1
  BY <1>2
<1>7. ASSUME Scanning(t), c # top
      PROVE  /\ c \in 1 .. top /\ c < top
             /\ \/ disk[c].kind = "jcmt" /\ WellPaired(disk, c + 1, top)
                \/ disk[c].kind = "jdat" /\ c + 1 < top /\ WellPaired(disk, c + 2, top)
  <2>1. c \in 1 .. top /\ WellPaired(disk, c, top)
    BY <1>2, <1>7 DEF Ahead
  <2>2. c \in Int /\ top \in Int /\ c < top
    BY <1>6, <1>7, <2>1
  <2>. HIDE DEF c, top
  <2>. QED  BY <2>1, <2>2, PairStep
<1>8. CASE CheckpointRead(t)
  <2>1. Scanning(t) /\ c # top /\ disk' = disk /\ media' = media /\ sb' = sb
    BY <1>8 DEF CheckpointRead, Scanning, diskVars
  <2>2. CASE disk[c].kind = "jdat"
    <3>1. c \in 1 .. top /\ c + 1 < top /\ DataAfter(disk, c) = disk[c + 1]
      BY <1>6, <1>7, <2>1, <2>2 DEF DataAfter
    <3>2. got'[t] = <<disk[c].target, disk[c + 1]>> /\ win'[t] = win[t] /\ pc'[t] = "apply"
      BY <1>2, <1>8, <2>2, <3>1 DEF CheckpointRead, Goto, TypeInv, TypeOK
    <3>3. Ahead(t)'
      BY <1>2, <2>1, <2>2, <3>1, <3>2 DEF Ahead, Scanning
    <3>. QED  BY <1>5, <2>1, <3>3
  <2>3. CASE disk[c].kind # "jdat"
    <3>1. c \in 1 .. top /\ c + 1 <= top /\ WellPaired(disk, c + 1, top) /\ Succ(c) = c + 1
      BY <1>6, <1>7, <2>1, <2>3 DEF Succ
    <3>2. win'[t] = [head |-> c + 1, tail |-> top] /\ pc'[t] = "scan"
      BY <1>2, <1>8, <2>3, <3>1 DEF CheckpointRead, Advance
    <3>3. Ahead(t)'
      BY <1>2, <2>1, <2>3, <3>1, <3>2 DEF Ahead, Scanning
    <3>. QED  BY <1>5, <2>1, <3>3
  <2>. QED  BY <2>2, <2>3
<1>9. CASE CheckpointApply(t)
  <2>1. pc[t] = "apply" /\ Scanning(t) /\ c < top /\ disk[c].kind = "jdat"
    BY <1>2, <1>9 DEF CheckpointApply, Scanning, Ahead
  <2>2. c \in 1 .. top /\ c + 2 <= top /\ WellPaired(disk, c + 2, top) /\ Succ(Succ(c)) = c + 2
    BY <1>6, <1>7, <2>1 DEF Succ
  <2>3. /\ disk' = Put(disk, got[t][1], got[t][2]) /\ media' = media /\ sb' = sb
        /\ win'[t] = [head |-> c + 2, tail |-> top] /\ pc'[t] = "scan"
    BY <1>2, <1>9, <2>2 DEF CheckpointApply, Write, Goto, Advance
  <2>4. got[t][1] \in Homes
    BY <2>1 DEF TypeInv, TypeOK, Ready
  <2>5. \A s \in Slots : disk'[s] = disk[s]
    BY <2>3, <2>4 DEF Put, Slots, TypeInv, TypeOK, Addrs
  <2>6. WellPaired(disk', c + 2, top)
    <3>. DEFINE e == disk'
    <3>1. \A s \in c + 2 .. top - 1 : e[s] = disk[s]
      BY <1>6, <2>2, <2>5 DEF Slots
    <3>2. c + 2 \in Int /\ top \in Int
      BY <1>6, <2>2
    <3>. HIDE DEF e, c, top
    <3>3. WellPaired(e, c + 2, top)
      BY <2>2, <3>1, <3>2, PairFrame
    <3>. QED  BY <3>3 DEF e
  <2>7. Ahead(t)'
    BY <1>2, <1>6, <2>2, <2>3, <2>6 DEF Ahead, Scanning
  <2>. QED  BY <1>5, <2>3, <2>5, <2>7
<1>10. CASE CheckpointScanned(t)
  <2>1. disk' = disk /\ media' = disk /\ sb' = sb /\ win' = win /\ pc'[t] = "cpHead"
    BY <1>2, <1>10 DEF CheckpointScanned, SyncAll, Goto
  <2>2. Ahead(t)'
    BY <1>2, <2>1 DEF Ahead, Scanning
  <2>. QED  BY <1>5, <2>1, <2>2
<1>11. CASE CheckpointHead(t)
  <2>1. /\ disk' = disk /\ media' = media /\ win' = win /\ pc'[t] = "cpSb"
        /\ sb' = [head |-> sb.tail, tail |-> sb.tail]
        /\ \A u \in Threads \ {t} : pc[u] \notin {"cpSb", "cpSbSync"}
    BY <1>2, <1>11 DEF CheckpointHead, Goto, diskVars, SuperblockFree
  <2>2. DiskRing' /\ MediaRing' /\ dw' = dw
    BY <2>1, StillRing
  <2>3. MemoryRing'
    <3>1. WellPaired(disk, dw.tail, dw.tail)
      BY <1>2 DEF WellPaired
    <3>. QED  BY <1>2, <1>3, <2>1, <2>2, <3>1 DEF MemoryRing
  <2>4. \A u \in Threads \ {t} : Ahead(u)'
    BY <1>3, <2>1, AheadStays DEF RingInv
  <2>5. Ahead(t)'
    BY <1>2, <2>1 DEF Ahead, Scanning
  <2>. QED  BY <1>4, <2>2, <2>3, <2>4, <2>5, NoCommitRing
<1>12. CASE CheckpointSbWrite(t)
  <2>. DEFINE e == disk'
  <2>1. /\ disk' = Put(disk, 0, JournalSb(sb)) /\ media' = media /\ sb' = sb /\ win' = win
        /\ pc[t] = "cpSb" /\ pc'[t] = "cpSbSync" /\ sb.head = sb.tail
    BY <1>2, <1>12 DEF CheckpointSbWrite, Write, Goto, Ahead
  <2>2. disk'[0] = JournalSb(sb) /\ \A s \in Slots : s # 0 => disk'[s] = disk[s]
    BY <2>1, SlotFacts DEF Put, TypeInv, TypeOK, Addrs
  <2>3. dw' = sb /\ Mountable(disk')
    BY <1>2, <2>2, WindowOf DEF dw
  <2>4. DiskRing'
    <3>1. Ring(e, sb.head, sb.tail)
      BY <1>2, <2>1 DEF Ring, WellPaired
    <3>. QED  BY <2>3, <3>1 DEF DiskRing
  <2>5. MediaRing'
    <3>1. Ring(disk, mw.head, mw.tail) /\ mw.tail <= dw.tail /\ mw.head <= dw.head /\ Mountable(media)
      BY DEF RingInv, MediaRing
    <3>2. mw.head \in 1 .. N - 1 /\ mw.tail \in mw.head .. N - 1
      BY <3>1 DEF Ring
    <3>3. \A s \in mw.head .. mw.tail - 1 : e[s] = disk[s]
      BY <2>2, <3>2 DEF Slots
    <3>4. Ring(e, mw.head, mw.tail)
      <4>. HIDE DEF e
      <4>. QED  BY <3>1, <3>3, RingFrame
    <3>5. mw' = mw
      BY <2>1 DEF mw
    <3>. QED  BY <1>2, <2>1, <2>3, <3>1, <3>2, <3>4, <3>5 DEF MediaRing
  <2>6. MemoryRing'
    <3>1. WellPaired(e, sb.head, sb.tail)
      BY <1>2, <2>1 DEF WellPaired
    <3>. QED  BY <1>2, <1>3, <2>1, <2>3, <3>1 DEF MemoryRing
  <2>7. \A s \in 1 .. N - 1 : disk'[s] = disk[s]
    BY <2>2 DEF Slots
  <2>8. \A u \in Threads \ {t} : Ahead(u)'
    BY <1>3, <2>1, <2>7, AheadStays DEF RingInv
  <2>9. Ahead(t)'
    BY <1>2, <2>1 DEF Ahead, Scanning
  <2>. QED  BY <1>4, <2>4, <2>5, <2>6, <2>8, <2>9, NoCommitRing
<1>13. CASE CheckpointEnd(t) \/ CheckpointFault(t)
  <2>1. disk' = disk /\ (media' = disk \/ media' = media) /\ sb' = sb /\ pc'[t] = "idle"
    BY <1>2, <1>13 DEF CheckpointEnd, CheckpointFault, SyncAll, Return, Goto, diskVars
  <2>2. Ahead(t)'
    BY <2>1, IdleFree
  <2>. QED  BY <1>5, <2>1, <2>2
<1>. QED
  BY <1>8, <1>9, <1>10, <1>11, <1>12, <1>13 DEF Checkpoint

(***************************************************************************)
(* Mounts, crashes, write-back.                                            *)
(***************************************************************************)

\* The same with every thread idle.
LEMMA IdleRing ==
  ASSUME \A u \in Threads : pc'[u] = "idle", DiskRing', MediaRing', MemoryRing'
  PROVE  RingInv'
BY IdleFree, NoCommitRing

\* A mount takes the window of the disk, and a replay empties it.
LEMMA MountRing ==
  ASSUME TypeInv, Quiet, RingInv, Mount \/ RecoverRead \/ RecoverWrite \/ RecoverEnd \/ RecoverFault
  PROVE  RingInv'
<1>1. mode # "up" /\ pc' = pc
  BY DEF Mount, RecoverRead, RecoverWrite, RecoverEnd, RecoverFault
<1>2. \A u \in Threads : pc'[u] = "idle"
  BY <1>1 DEF Quiet
<1>3. media' = media \/ media' = disk
  BY DEF Mount, RecoverRead, RecoverWrite, RecoverEnd, RecoverFault, SyncAll, Write, diskVars
<1>4. \A s \in Slots : disk'[s] = disk[s]
  <2>1. CASE RecoverWrite
    <3>1. replay[1] \in Homes \X Blocks
      BY <2>1 DEF RecoverWrite, TypeInv, TypeOK
    <3>2. replay[1][1] \in Homes
      BY <3>1
    <3>. QED  BY <2>1, <3>2 DEF RecoverWrite, Write, Put, TypeInv, TypeOK, Addrs, Slots
  <2>2. CASE ~RecoverWrite
    <3>1. disk' = disk
      BY <2>2 DEF Mount, RecoverRead, RecoverEnd, RecoverFault, SyncAll, diskVars
    <3>. QED  BY <3>1
  <2>. QED  BY <2>1, <2>2
<1>5. DiskRing' /\ MediaRing' /\ dw' = dw
  BY <1>3, <1>4, StillRing
<1>6. /\ dw.head \in 1 .. N - 1 /\ dw.tail \in dw.head .. N - 1
      /\ WellPaired(disk, dw.head, dw.tail)
  BY DEF RingInv, DiskRing, Ring
<1>7. MemoryRing'
  <2>1. CASE Mount
    <3>1. sb' = dw /\ disk' = disk
      BY <2>1 DEF Mount, dw, diskVars
    <3>. QED  BY <1>5, <1>6, <3>1 DEF MemoryRing
  <2>2. CASE RecoverRead \/ RecoverWrite
    <3>1. mode = "recover" /\ mode' = mode /\ sb' = sb
      BY <2>2 DEF RecoverRead, RecoverWrite
    <3>. QED  BY <1>4, <1>5, <3>1, StillMemory
  <2>3. CASE RecoverEnd
    <3>1. mode' = "up" /\ sb' = sb /\ sb = dw /\ disk' = disk
      BY <2>3 DEF RecoverEnd, Mounted, SyncAll, RingInv, MemoryRing
    <3>. QED  BY <1>5, <1>6, <3>1 DEF MemoryRing
  <2>4. CASE RecoverFault
    BY <2>4 DEF RecoverFault, Unmounted, MemoryRing
  <2>. QED  BY <2>1, <2>2, <2>3, <2>4
<1>. QED  BY <1>2, <1>5, <1>7, IdleRing

\* A crash leaves the disk, a power cut what it had of it.
LEMMA EnvironmentRing ==
  ASSUME TypeInv, Quiet, RingInv, OnlyCheckpointsOverlap', Environment
  PROVE  RingInv'
<1>1. CASE Crash
  <2>1. disk' = disk /\ media' = media /\ mode' = "down" /\ \A u \in Threads : pc'[u] = "idle"
    BY <1>1 DEF Crash, Die, Unmounted, diskVars
  <2>2. DiskRing' /\ MediaRing'
    BY <2>1, StillRing
  <2>. QED  BY <2>1, <2>2, IdleRing DEF MemoryRing
<1>2. CASE PowerCut
  <2>1. disk' = media /\ media' = media /\ mode' = "down" /\ \A u \in Threads : pc'[u] = "idle"
    BY <1>2 DEF PowerCut, Die, Unmounted
  <2>2. ~Torn
    BY <1>2 DEF PowerCut, Cross, OnlyCheckpointsOverlap
  <2>3. Mountable(media) /\ Ring(disk, mw.head, mw.tail)
    BY DEF RingInv, MediaRing
  <2>4. mw.head \in 1 .. N - 1 /\ mw.tail \in mw.head .. N - 1
    BY <2>3 DEF Ring
  <2>5. \A s \in mw.head .. mw.tail - 1 : media[s] = disk[s]
    BY <2>2, <2>3, <2>4 DEF Torn, Live, mw, Slots
  <2>6. Ring(media, mw.head, mw.tail)
    BY <2>3, <2>5, RingFrame
  <2>7. dw' = mw /\ mw' = mw
    BY <2>1 DEF dw, mw
  <2>8. DiskRing' /\ MediaRing'
    BY <2>1, <2>3, <2>4, <2>6, <2>7 DEF DiskRing, MediaRing
  <2>. QED  BY <2>1, <2>8, IdleRing DEF MemoryRing
<1>3. ASSUME NEW a \in Addrs, WriteBack(a) PROVE RingInv'
  <2>1. /\ UNCHANGED <<disk, sb, mode, pc, txn, done, hslot, dslot, win, got>>
        /\ media'[0] = media[0] \/ media'[0] = disk[0]
    BY <1>3, SlotFacts DEF WriteBack, Put, mountVars, commitVars, TypeInv, TypeOK, Addrs
  <2>2. DiskRing' /\ MediaRing' /\ dw' = dw
    BY <2>1, StillRing
  <2>3. MemoryRing'
    BY <2>1, <2>2 DEF RingInv, MemoryRing, Committing
  <2>4. Alone'
    BY <2>1 DEF RingInv, Alone, Committing
  <2>5. ASSUME NEW t \in Threads PROVE (Committing(t)' => Journalled(t)') /\ Ahead(t)'
    <3>1. (Committing(t) => Journalled(t)) /\ Ahead(t)
      BY DEF RingInv
    <3>. QED  BY <2>1, <2>2, <3>1 DEF Committing, Journalled, Synced, Ahead, Checkpointing, Scanning
  <2>. QED  BY <2>2, <2>3, <2>4, <2>5 DEF RingInv
<1>. QED  BY <1>1, <1>2, <1>3 DEF Environment

\* Nothing changes, and the windows do not.
LEMMA StutterRing ==
  ASSUME RingInv, UNCHANGED vars
  PROVE  RingInv'
<1>1. dw' = dw /\ mw' = mw
  BY DEF vars, dw, mw
<1>. QED
  BY <1>1 DEF vars, RingInv, DiskRing, MediaRing, MemoryRing, Alone, Committing, Journalled, Synced, Ahead,
              Checkpointing, Scanning

\* A formatted ring has one empty window.
LEMMA InitRing == Init => RingInv
<1>. SUFFICES ASSUME Init PROVE RingInv
  OBVIOUS
<1>1. PICK w \in {[head |-> 1, tail |-> 1], [head |-> 0, tail |-> 0]} :
        disk = [a \in Addrs |-> IF a = 0 THEN JournalSb(w) ELSE Data(Zero)]
  BY DEF Init
<1>2. disk[0] = JournalSb(w) /\ media = disk
  BY <1>1, SlotFacts DEF Addrs, Init
<1>3. dw.head = 1 /\ dw.tail = 1 /\ mw = dw /\ Mountable(disk) /\ Mountable(media)
  BY <1>2 DEF dw, mw, DiskWindow, Mountable, JournalSb
<1>4. Ring(disk, 1, 1)
  BY DEF Ring, WellPaired
<1>5. DiskRing /\ MediaRing
  BY <1>2, <1>3, <1>4 DEF DiskRing, MediaRing
<1>6. MemoryRing
  BY DEF MemoryRing, Init
<1>7. \A t \in Threads : pc[t] = "idle"
  BY DEF Init
<1>. QED
  BY <1>5, <1>6, <1>7 DEF RingInv, Alone, Committing, CommitPcs, Ahead, Checkpointing, CheckpointPcs, Scanning

\* The limits once crossed stay crossed.
LEMMA CrossedGrows ==
  ASSUME [Next]_vars
  PROVE  crossed \subseteq crossed'
<1>1. ASSUME NEW t \in Threads, Calls(t) \/ Commit(t) \/ Checkpoint(t) \/ Faults(t)
      PROVE  crossed \subseteq crossed'
  <2>. USE DEF Cross, ghosts
  <2>1. CASE Calls(t)
    BY <2>1 DEF Calls, CommitBegin, CheckpointBegin
  <2>2. CASE Commit(t)
    BY <2>2 DEF Commit, CommitFull, AllocHeader, AllocData, WriteHeader, WriteData, AllocCommit, WriteCommitRecord,
                SyncCopy, SyncWrite, SyncFlush, CommitEnd
  <2>3. CASE Checkpoint(t)
    BY <2>3 DEF Checkpoint, CheckpointRead, CheckpointApply, CheckpointScanned, CheckpointHead, CheckpointSbWrite,
                CheckpointEnd
  <2>4. CASE Faults(t)
    BY <2>4 DEF Faults, CommitFault, CheckpointFault
  <2>. QED  BY <1>1, <2>1, <2>2, <2>3, <2>4
<1>2. CASE Mount \/ RecoverRead \/ RecoverWrite \/ RecoverEnd \/ RecoverFault
  BY <1>2 DEF Mount, RecoverRead, RecoverWrite, RecoverEnd, RecoverFault, Cross, ghosts
<1>3. CASE Environment
  BY <1>3 DEF Environment, Crash, PowerCut, WriteBack, Cross, ghosts
<1>4. CASE UNCHANGED vars
  BY <1>4 DEF vars
<1>. QED  BY <1>1, <1>2, <1>3, <1>4 DEF Next

RingSafe == TypeInv /\ Quiet /\ (OnlyCheckpointsOverlap => RingInv)

\* The invariant on windows is inductive.
LEMMA RingInductive == Spec => []RingSafe
<1>1. Init => (OnlyCheckpointsOverlap => RingInv)
  BY InitRing
<1>2. RingSafe /\ [Next]_vars => (OnlyCheckpointsOverlap => RingInv)'
  <2>. SUFFICES ASSUME RingSafe, [Next]_vars, OnlyCheckpointsOverlap' PROVE RingInv'
    BY DEF OnlyCheckpointsOverlap
  <2>1. TypeInv /\ Quiet /\ RingInv
    BY CrossedGrows DEF RingSafe, OnlyCheckpointsOverlap
  <2>2. ASSUME NEW t \in Threads, Calls(t) \/ Commit(t) \/ Checkpoint(t) \/ Faults(t)
        PROVE  RingInv'
    BY <2>1, <2>2, CommitBeginRing, AllocRing, WriteRing, SyncRing, CheckpointBeginRing, CheckpointRing
    DEF Calls, Commit, Faults
  <2>. QED
    BY <2>1, <2>2, MountRing, EnvironmentRing, StutterRing DEF Next
<1>3. SlotInv => Quiet
  BY DEF SlotInv
<1>. QED  BY <1>1, <1>2, <1>3, TypeInductive, SlotInductive, PTL DEF Spec, RingSafe

\* However often a process dies or the power fails, and whatever fails in
\* between: as long as only checkpoints overlap, recovery and checkpoints find
\* every header followed by the data it describes, and never stand on a data block.
THEOREM WindowsPaired == Spec => []PairedWindows
<1>1. RingSafe => PairedWindows
  <2>. SUFFICES ASSUME RingSafe, OnlyCheckpointsOverlap
                PROVE  /\ WellPaired(disk, dw.head, dw.tail)
                       /\ (mode # "down" /\ \A t \in Threads : ~Committing(t)) => WellPaired(disk, sb.head, sb.tail)
    BY DEF PairedWindows, dw
  <2>1. RingInv
    BY DEF RingSafe
  <2>2. WellPaired(disk, dw.head, dw.tail)
    BY <2>1 DEF RingInv, DiskRing, Ring
  <2>3. ASSUME mode # "down", \A t \in Threads : ~Committing(t)
        PROVE  WellPaired(disk, sb.head, sb.tail)
    <3>1. mode \in {"up", "recover"} /\ WellPaired(disk, sb.head, dw.tail)
      BY <2>1, <2>3 DEF RingInv, MemoryRing, RingSafe, TypeInv, TypeOK
    <3>. QED  BY <2>1, <2>3, <3>1 DEF RingInv, MemoryRing
  <2>. QED  BY <2>2, <2>3
<1>. QED  BY RingInductive, <1>1, PTL

(***************************************************************************)
(* Lists of writes.                                                        *)
(***************************************************************************)

\* i is the last of the n writes of ws that goes to h
LastWrite(ws, n, h, i) ==
  i \in 1 .. n /\ ws[i][1] = h /\ \A j \in i + 1 .. n : ws[j][1] # h

\* A list that writes h has a last write of h.
LEMMA LastWriteExists ==
  ASSUME NEW ws, NEW n \in Nat, NEW h, NEW k \in 1 .. n, ws[k][1] = h
  PROVE  \E i \in 1 .. n : LastWrite(ws, n, h, i)
<1>. DEFINE S == {m \in 0 .. n : m < n /\ ws[n - m][1] = h}
<1>1. S \in SUBSET Nat /\ n - k \in S
  <2>1. n - k \in 0 .. n /\ n - (n - k) = k /\ n - k < n
    OBVIOUS
  <2>. QED  BY <2>1
<1>2. PICK m \in S : \A j \in S : m <= j
  <2>. HIDE DEF S
  <2>. QED  BY <1>1, Least
<1>3. n - m \in 1 .. n /\ ws[n - m][1] = h
  OBVIOUS
<1>4. ASSUME NEW j \in n - m + 1 .. n, ws[j][1] = h PROVE FALSE
  <2>1. n - j \in 0 .. n /\ n - (n - j) = j /\ n - j < m
    OBVIOUS
  <2>2. n - j \in S
    BY <1>4, <2>1
  <2>. QED  BY <1>2, <2>1, <2>2
<1>. QED  BY <1>3, <1>4 DEF LastWrite

\* The last write decides what h holds; without one it keeps what it had.
LEMMA OverlayHit ==
  ASSUME NEW f, NEW ws, NEW n \in Nat, DOMAIN ws = 1 .. n, NEW h \in DOMAIN f,
         NEW i \in 1 .. n, LastWrite(ws, n, h, i)
  PROVE  Overlay(f, ws)[h] = ws[i][2]
<1>. DEFINE hits == {j \in DOMAIN ws : ws[j][1] = h}
<1>1. i \in hits /\ \A j \in hits : j <= i
  BY DEF LastWrite
<1>2. \A m \in hits : (\A j \in hits : j <= m) => m = i
  BY <1>1
<1>3. (CHOOSE m \in hits : \A j \in hits : j <= m) = i
  <2>. HIDE DEF hits
  <2>. QED  BY <1>1, <1>2
<1>4. hits # {}
  BY <1>1
<1>. QED  BY <1>3, <1>4 DEF Overlay

\* A home that no write goes to keeps its contents.
LEMMA OverlayMiss ==
  ASSUME NEW f, NEW ws, NEW n \in Nat, DOMAIN ws = 1 .. n, NEW h \in DOMAIN f,
         \A i \in 1 .. n : ws[i][1] # h
  PROVE  Overlay(f, ws)[h] = f[h]
<1>1. {j \in DOMAIN ws : ws[j][1] = h} = {}
  OBVIOUS
<1>. QED  BY <1>1 DEF Overlay

\* Writes of blocks leave blocks.
LEMMA OverlayType ==
  ASSUME NEW Hs, NEW B, NEW f \in [Hs -> B], NEW ws, NEW n \in Nat, DOMAIN ws = 1 .. n,
         \A i \in 1 .. n : ws[i][2] \in B
  PROVE  Overlay(f, ws) \in [Hs -> B]
<1>1. ASSUME NEW h \in Hs PROVE Overlay(f, ws)[h] \in B
  <2>1. CASE \A i \in 1 .. n : ws[i][1] # h
    BY <2>1, OverlayMiss
  <2>2. CASE \E i \in 1 .. n : ws[i][1] = h
    <3>1. PICK i \in 1 .. n : LastWrite(ws, n, h, i)
      BY <2>2, LastWriteExists
    <3>. QED  BY <3>1, OverlayHit
  <2>. QED  BY <2>1, <2>2
<1>2. Overlay(f, ws) = [b \in Hs |-> Overlay(f, ws)[b]]
  BY DEF Overlay
<1>. QED  BY <1>1, <1>2

\* No writes change nothing.
LEMMA OverlayNone ==
  ASSUME NEW Hs, NEW B, NEW f \in [Hs -> B], NEW ws, DOMAIN ws = {}
  PROVE  Overlay(f, ws) = f
<1>1. \A h : {j \in DOMAIN ws : ws[j][1] = h} = {}
  OBVIOUS
<1>2. Overlay(f, ws) = [b \in Hs |-> f[b]]
  BY <1>1 DEF Overlay
<1>. QED  BY <1>2

\* One more write at the end.
LEMMA OverlayAppend ==
  ASSUME NEW f, NEW ws, NEW vs, NEW n \in Nat, DOMAIN ws = 1 .. n, DOMAIN vs = 1 .. n + 1,
         \A i \in 1 .. n : vs[i] = ws[i], NEW h \in DOMAIN f
  PROVE  Overlay(f, vs)[h] = IF h = vs[n + 1][1] THEN vs[n + 1][2] ELSE Overlay(f, ws)[h]
<1>1. n + 1 \in Nat /\ n + 1 \in 1 .. n + 1
  BY ONLY n \in Nat
<1>2. CASE h = vs[n + 1][1]
  <2>1. LastWrite(vs, n + 1, h, n + 1)
    BY <1>1, <1>2 DEF LastWrite
  <2>2. Overlay(f, vs)[h] = vs[n + 1][2]
    BY <1>1, <2>1, OverlayHit
  <2>. QED  BY <1>2, <2>2
<1>3. CASE h # vs[n + 1][1] /\ \E i \in 1 .. n : ws[i][1] = h
  <2>1. PICK i \in 1 .. n : LastWrite(ws, n, h, i)
    BY <1>3, LastWriteExists
  <2>2. LastWrite(vs, n + 1, h, i)
    <3>1. \A j \in i + 1 .. n + 1 : j \in i + 1 .. n \/ j = n + 1
      OBVIOUS
    <3>. QED  BY <1>3, <2>1, <3>1 DEF LastWrite
  <2>3. Overlay(f, vs)[h] = vs[i][2]
    BY <1>1, <2>2, OverlayHit
  <2>4. Overlay(f, ws)[h] = ws[i][2]
    BY ONLY n \in Nat, DOMAIN ws = 1 .. n, h \in DOMAIN f, <2>1, OverlayHit
  <2>. QED  BY <1>3, <2>3, <2>4
<1>4. CASE h # vs[n + 1][1] /\ \A i \in 1 .. n : ws[i][1] # h
  <2>1. \A i \in 1 .. n + 1 : vs[i][1] # h
    <3>1. \A i \in 1 .. n + 1 : i \in 1 .. n \/ i = n + 1
      OBVIOUS
    <3>. QED  BY <1>4, <3>1
  <2>2. Overlay(f, vs)[h] = f[h] /\ Overlay(f, ws)[h] = f[h]
    BY <1>1, <1>4, <2>1, OverlayMiss
  <2>. QED  BY <1>4, <2>2
<1>. QED  BY <1>2, <1>3, <1>4

\* The first write done, the others are left.
LEMMA OverlayTail ==
  ASSUME NEW f, NEW g, NEW ws, NEW vs, NEW m \in Nat, DOMAIN ws = 1 .. m + 1, DOMAIN vs = 1 .. m,
         \A i \in 1 .. m : vs[i] = ws[i + 1], DOMAIN g = DOMAIN f, NEW h \in DOMAIN f,
         \A x \in DOMAIN f : g[x] = IF x = ws[1][1] THEN ws[1][2] ELSE f[x]
  PROVE  Overlay(g, vs)[h] = Overlay(f, ws)[h]
<1>. DEFINE n == m + 1
<1>1. /\ m \in Nat /\ n = m + 1 /\ DOMAIN ws = 1 .. n /\ DOMAIN vs = 1 .. m
      /\ \A i \in 1 .. m : vs[i] = ws[i + 1]
      /\ h \in DOMAIN f /\ h \in DOMAIN g /\ n \in Nat
  OBVIOUS
<1>. HIDE DEF n
<1>2. CASE \E i \in 1 .. n : ws[i][1] = h
  <2>1. PICK i \in 1 .. n : LastWrite(ws, n, h, i)
    BY <1>1, <1>2, LastWriteExists
  <2>2. Overlay(f, ws)[h] = ws[i][2]
    BY <1>1, <2>1, OverlayHit
  <2>3. CASE i = 1
    <3>1. \A j \in 1 .. m : vs[j][1] # h
      <4>1. \A j \in 1 .. m : j + 1 \in i + 1 .. n
        BY <1>1, <2>3
      <4>2. \A j \in i + 1 .. n : ws[j][1] # h
        BY <2>1 DEF LastWrite
      <4>3. \A j \in 1 .. m : ws[j + 1][1] # h /\ vs[j] = ws[j + 1]
        BY <1>1, <4>1, <4>2
      <4>. QED  BY ONLY <4>3
    <3>2. Overlay(g, vs)[h] = g[h]
      BY <1>1, <3>1, OverlayMiss
    <3>3. g[h] = ws[1][2]
      <4>1. ws[1][1] = h
        BY <2>1, <2>3 DEF LastWrite
      <4>. QED  BY <4>1
    <3>. QED  BY <2>2, <2>3, <3>2, <3>3
  <2>4. CASE i # 1
    <3>1. i - 1 \in 1 .. m /\ vs[i - 1] = ws[i]
      <4>1. i - 1 \in 1 .. m /\ (i - 1) + 1 = i
        BY <1>1, <2>1, <2>4
      <4>. QED  BY <1>1, <4>1
    <3>2. \A j \in i .. m : vs[j][1] # h
      <4>1. \A j \in i .. m : j + 1 \in i + 1 .. n /\ j \in 1 .. m
        BY <1>1
      <4>2. \A j \in i + 1 .. n : ws[j][1] # h
        BY <2>1 DEF LastWrite
      <4>. HIDE DEF n
      <4>. QED  BY <1>1, <4>1, <4>2
    <3>3. LastWrite(vs, m, h, i - 1)
      BY <2>1, <3>1, <3>2 DEF LastWrite
    <3>4. Overlay(g, vs)[h] = vs[i - 1][2]
      BY <1>1, <3>1, <3>3, OverlayHit
    <3>. QED  BY <2>2, <3>1, <3>4
  <2>. QED  BY <2>3, <2>4
<1>3. CASE \A i \in 1 .. n : ws[i][1] # h
  <2>1. Overlay(f, ws)[h] = f[h]
    BY <1>1, <1>3, OverlayMiss
  <2>2. \A j \in 1 .. m : vs[j][1] # h
    <3>1. \A j \in 1 .. m : j + 1 \in 1 .. n
      BY <1>1
    <3>. QED  BY <1>1, <1>3, <3>1
  <2>3. Overlay(g, vs)[h] = g[h]
    BY <1>1, <2>2, OverlayMiss
  <2>4. g[h] = f[h]
    <3>1. 1 \in 1 .. n
      BY <1>1
    <3>2. ws[1][1] # h
      BY <1>3, <3>1
    <3>. QED  BY <3>2
  <2>. QED  BY <2>1, <2>3, <2>4
<1>. QED  BY <1>2, <1>3

(***************************************************************************)
(* What a window says of a block.                                          *)
(***************************************************************************)

\* Slot s holds a header for h; the slots of the window hold none; the last
\* header for h in the window is followed by c.
Targeted(d, s, h) == d[s].kind = "jdat" /\ d[s].target = h
Clear(d, h, lo, hi) == \A s \in lo .. hi - 1 : ~Targeted(d, s, h)
LastIn(d, h, lo, hi, c) ==
  \E s \in lo .. hi - 2 : Targeted(d, s, h) /\ d[s + 1] = c /\ Clear(d, h, s + 1, hi)

\* For the blocks it speaks of, the window says what g has; and with the blocks
\* it does not speak of, the image would recover to g.
Logs(d, g, lo, hi) == \A h \in Homes : Clear(d, h, lo, hi) \/ LastIn(d, h, lo, hi, g[h])
Shows(d, g, lo, hi) ==
  Logs(d, g, lo, hi) /\ \A h \in Homes : Clear(d, h, lo, hi) => d[h] = g[h]

\* The window says one thing.
LEMMA LastUnique ==
  ASSUME NEW d, NEW h, NEW lo \in Int, NEW hi \in Int, NEW c, NEW e,
         LastIn(d, h, lo, hi, c), LastIn(d, h, lo, hi, e)
  PROVE  c = e
<1>1. PICK s \in lo .. hi - 2 : Targeted(d, s, h) /\ d[s + 1] = c /\ Clear(d, h, s + 1, hi)
  BY DEF LastIn
<1>2. PICK r \in lo .. hi - 2 : Targeted(d, r, h) /\ d[r + 1] = e /\ Clear(d, h, r + 1, hi)
  BY DEF LastIn
<1>3. s = r
  <2>1. ~ (s < r) /\ ~ (r < s)
    BY <1>1, <1>2 DEF Clear
  <2>. QED  BY <2>1
<1>. QED  BY <1>1, <1>2, <1>3

\* A stretch with a last copy of h is not clear of h.
LEMMA LastNotClear ==
  ASSUME NEW d, NEW h, NEW lo \in Int, NEW hi \in Int, NEW c, LastIn(d, h, lo, hi, c)
  PROVE  ~Clear(d, h, lo, hi)
BY DEF LastIn, Clear

\* It says something of each block it has a header for.
LEMMA LastExists ==
  ASSUME NEW d, NEW h, NEW lo \in Int, NEW hi \in Int, WellPaired(d, lo, hi), ~Clear(d, h, lo, hi)
  PROVE  \E s \in lo .. hi - 2 : LastIn(d, h, lo, hi, d[s + 1])
<1>. DEFINE S == {m \in 0 .. hi - lo : m >= 1 /\ Targeted(d, hi - m, h)}
<1>1. PICK r \in lo .. hi - 1 : Targeted(d, r, h)
  BY DEF Clear
<1>2. S \in SUBSET Nat /\ S # {}
  <2>1. hi - r \in 0 .. hi - lo /\ hi - r >= 1 /\ hi - (hi - r) = r
    OBVIOUS
  <2>2. hi - r \in S
    BY <1>1, <2>1 DEF S
  <2>3. S # {}
    <3>. HIDE DEF S
    <3>. QED  BY <2>2
  <2>4. \A x \in S : x \in Nat
    BY DEF S
  <2>. HIDE DEF S
  <2>. QED  BY <2>3, <2>4
<1>. HIDE DEF S
<1>3. PICK m \in S : \A j \in S : m <= j
  BY <1>2, Least
<1>. DEFINE s == hi - m
<1>4. s \in lo .. hi - 1 /\ Targeted(d, s, h) /\ m \in Nat
  BY DEF S
<1>5. Clear(d, h, s + 1, hi)
  <2>. SUFFICES ASSUME NEW q \in s + 1 .. hi - 1, Targeted(d, q, h) PROVE FALSE
    BY DEF Clear
  <2>1. hi - q \in 0 .. hi - lo /\ hi - q >= 1 /\ hi - (hi - q) = q /\ hi - q < m
    BY <1>4
  <2>2. hi - q \in S
    BY <2>1 DEF S
  <2>. QED  BY <1>3, <1>4, <2>1, <2>2
<1>6. s + 1 < hi
  <2>1. d[s].kind = "jdat"
    BY <1>4 DEF Targeted
  <2>. QED  BY <1>4, <2>1 DEF WellPaired
<1>7. s \in lo .. hi - 2
  BY <1>4, <1>6
<1>. HIDE DEF s
<1>. QED  BY <1>4, <1>5, <1>7 DEF LastIn

\* Parts of a window.
LEMMA ClearParts ==
  ASSUME NEW d, NEW h, NEW lo \in Int, NEW mid \in Int, NEW hi \in Int, lo <= mid, mid <= hi
  PROVE  Clear(d, h, lo, hi) <=> (Clear(d, h, lo, mid) /\ Clear(d, h, mid, hi))
<1>1. \A s \in lo .. hi - 1 : s \in lo .. mid - 1 \/ s \in mid .. hi - 1
  OBVIOUS
<1>2. (\A s \in lo .. mid - 1 : s \in lo .. hi - 1) /\ (\A s \in mid .. hi - 1 : s \in lo .. hi - 1)
  OBVIOUS
<1>. QED  BY <1>1, <1>2 DEF Clear

\* The last copy in a stretch is that of its later part, if that part has one.
LEMMA LastParts ==
  ASSUME NEW d, NEW h, NEW c, NEW lo \in Int, NEW mid \in Int, NEW hi \in Int, lo <= mid, mid <= hi
  PROVE  /\ LastIn(d, h, mid, hi, c) => LastIn(d, h, lo, hi, c)
         /\ LastIn(d, h, lo, mid, c) /\ Clear(d, h, mid, hi) => LastIn(d, h, lo, hi, c)
         /\ LastIn(d, h, lo, hi, c) => Clear(d, h, mid, hi) \/ LastIn(d, h, mid, hi, c)
<1>1. LastIn(d, h, mid, hi, c) => LastIn(d, h, lo, hi, c)
  BY DEF LastIn
<1>2. ASSUME LastIn(d, h, lo, mid, c), Clear(d, h, mid, hi) PROVE LastIn(d, h, lo, hi, c)
  <2>1. PICK s \in lo .. mid - 2 : Targeted(d, s, h) /\ d[s + 1] = c /\ Clear(d, h, s + 1, mid)
    BY <1>2 DEF LastIn
  <2>2. Clear(d, h, s + 1, hi)
    BY <1>2, <2>1 DEF Clear
  <2>. QED  BY <2>1, <2>2 DEF LastIn
<1>3. ASSUME LastIn(d, h, lo, hi, c) PROVE Clear(d, h, mid, hi) \/ LastIn(d, h, mid, hi, c)
  <2>1. PICK s \in lo .. hi - 2 : Targeted(d, s, h) /\ d[s + 1] = c /\ Clear(d, h, s + 1, hi)
    BY <1>3 DEF LastIn
  <2>2. CASE s < mid
    BY <2>1, <2>2 DEF Clear
  <2>3. CASE s >= mid
    BY <2>1, <2>3 DEF LastIn
  <2>. QED  BY <2>2, <2>3
<1>. QED  BY <1>1, <1>2, <1>3

\* A later part of a window logs what the window logs.
LEMMA LogsSuffix ==
  ASSUME NEW d, NEW g, NEW lo \in Int, NEW mid \in Int, NEW hi \in Int, lo <= mid, mid <= hi, Logs(d, g, lo, hi)
  PROVE  Logs(d, g, mid, hi)
BY ClearParts, LastParts DEF Logs

\* All this depends on the slots of the window alone.
LEMMA SaysFrame ==
  ASSUME NEW d, NEW e, NEW lo \in Int, NEW hi \in Int, \A s \in lo .. hi - 1 : e[s] = d[s]
  PROVE  /\ \A h : Clear(e, h, lo, hi) <=> Clear(d, h, lo, hi)
         /\ \A h, c : LastIn(e, h, lo, hi, c) <=> LastIn(d, h, lo, hi, c)
         /\ \A g : Logs(e, g, lo, hi) <=> Logs(d, g, lo, hi)
<1>1. \A h : Clear(e, h, lo, hi) <=> Clear(d, h, lo, hi)
  BY DEF Clear, Targeted
<1>2. ASSUME NEW h, NEW c, NEW s \in lo .. hi - 2
      PROVE  /\ Targeted(e, s, h) <=> Targeted(d, s, h)
             /\ e[s + 1] = d[s + 1]
             /\ Clear(e, h, s + 1, hi) <=> Clear(d, h, s + 1, hi)
  <2>1. s \in lo .. hi - 1 /\ s + 1 \in lo .. hi - 1 /\ \A r \in s + 1 .. hi - 1 : r \in lo .. hi - 1
    OBVIOUS
  <2>. QED  BY <2>1 DEF Clear, Targeted
<1>3. \A h, c : LastIn(e, h, lo, hi, c) <=> LastIn(d, h, lo, hi, c)
  BY <1>2 DEF LastIn
<1>. QED  BY <1>1, <1>3 DEF Logs

\* Every image shows something through a well paired window, and only that.
LEMMA ShowsExists ==
  ASSUME NEW d \in [Addrs -> Blocks], NEW lo \in Slots, NEW hi \in Slots, WellPaired(d, lo, hi)
  PROVE  \E g \in [Homes -> Blocks] : Shows(d, g, lo, hi)
<1>1. ASSUME NEW h \in Homes
      PROVE  \E c \in Blocks : (Clear(d, h, lo, hi) /\ c = d[h]) \/ LastIn(d, h, lo, hi, c)
  <2>1. lo \in Int /\ hi \in Int /\ h \in Addrs
    BY DEF Slots, Addrs
  <2>2. CASE Clear(d, h, lo, hi)
    BY <2>1, <2>2
  <2>3. CASE ~Clear(d, h, lo, hi)
    <3>1. PICK s \in lo .. hi - 2 : LastIn(d, h, lo, hi, d[s + 1])
      BY <2>1, <2>3, LastExists
    <3>2. s + 1 \in Addrs
      BY DEF Slots, Addrs
    <3>. QED  BY <3>1, <3>2
  <2>. QED  BY <2>2, <2>3
<1>. DEFINE g == [h \in Homes |-> CHOOSE c \in Blocks : (Clear(d, h, lo, hi) /\ c = d[h]) \/ LastIn(d, h, lo, hi, c)]
<1>2. g \in [Homes -> Blocks] /\ \A h \in Homes : (Clear(d, h, lo, hi) /\ g[h] = d[h]) \/ LastIn(d, h, lo, hi, g[h])
  BY <1>1
<1>3. \A h \in Homes : \A c : LastIn(d, h, lo, hi, c) => ~Clear(d, h, lo, hi)
  BY LastNotClear DEF Slots
<1>. HIDE DEF g
<1>. QED  BY <1>2, <1>3 DEF Shows, Logs

\* A stretch shows one contents.
LEMMA ShowsUnique ==
  ASSUME NEW d, NEW lo \in Int, NEW hi \in Int, NEW f \in [Homes -> Blocks], NEW g \in [Homes -> Blocks],
         Shows(d, f, lo, hi), Shows(d, g, lo, hi)
  PROVE  f = g
<1>1. ASSUME NEW h \in Homes PROVE f[h] = g[h]
  <2>1. CASE Clear(d, h, lo, hi)
    BY <2>1 DEF Shows
  <2>2. CASE ~Clear(d, h, lo, hi)
    <3>1. LastIn(d, h, lo, hi, f[h]) /\ LastIn(d, h, lo, hi, g[h])
      BY <2>2 DEF Shows, Logs
    <3>. QED  BY <3>1, LastUnique
  <2>. QED  BY <2>1, <2>2
<1>. QED  BY <1>1

\* An empty window shows the home blocks.
LEMMA ShowsEmpty ==
  ASSUME NEW d, NEW g, NEW lo \in Int, Shows(d, g, lo, lo)
  PROVE  \A h \in Homes : d[h] = g[h]
BY DEF Shows, Clear

(***************************************************************************)
(* What recovery reads from a window.                                      *)
(***************************************************************************)

\* A commit record says nothing; a pair says what its data block holds.
LEMMA ItemSays ==
  ASSUME NEW d, NEW c \in Int, NEW h
  PROVE  /\ d[c].kind # "jdat" => Clear(d, h, c, c + 1)
         /\ d[c].kind = "jdat" /\ d[c + 1].kind # "jdat" =>
              /\ h # d[c].target => Clear(d, h, c, c + 2)
              /\ h = d[c].target => LastIn(d, h, c, c + 2, d[c + 1])
<1>1. ASSUME d[c].kind # "jdat" PROVE Clear(d, h, c, c + 1)
  <2>1. \A s \in c .. c + 1 - 1 : s = c
    OBVIOUS
  <2>. QED  BY <1>1, <2>1 DEF Clear, Targeted
<1>2. ASSUME d[c].kind = "jdat", d[c + 1].kind # "jdat"
      PROVE  /\ h # d[c].target => Clear(d, h, c, c + 2)
             /\ h = d[c].target => LastIn(d, h, c, c + 2, d[c + 1])
  <2>1. (\A s \in c .. c + 2 - 1 : s = c \/ s = c + 1) /\ c \in c .. c + 2 - 2
        /\ \A s \in c + 1 .. c + 2 - 1 : s = c + 1
    OBVIOUS
  <2>2. h # d[c].target => Clear(d, h, c, c + 2)
    BY <1>2, <2>1 DEF Clear, Targeted
  <2>3. ASSUME h = d[c].target PROVE LastIn(d, h, c, c + 2, d[c + 1])
    <3>1. Targeted(d, c, h) /\ Clear(d, h, c + 1, c + 2)
      BY <1>2, <2>1, <2>3 DEF Clear, Targeted
    <3>. QED  BY <2>1, <3>1 DEF LastIn
  <2>. QED  BY <2>2, <2>3
<1>. QED  BY <1>1, <1>2

Writes == Seq(Homes \X Blocks)
Readings == [current : Slots, open : Writes, out : Writes, unknown : BOOLEAN]

\* One turn of the loop of recover().
ReadOne(d, top, p) ==
  IF p.unknown \/ p.current = top THEN p
  ELSE IF d[p.current].kind = "jdat"
  THEN [current |-> Succ(Succ(p.current)),
        open |-> Append(p.open, <<d[p.current].target, DataAfter(d, p.current)>>),
        out |-> p.out, unknown |-> p.unknown]
  ELSE IF d[p.current].kind = "jcmt"
  THEN [current |-> Succ(p.current), open |-> <<>>, out |-> p.out \o p.open, unknown |-> p.unknown]
  ELSE [current |-> p.current, open |-> p.open, out |-> p.out, unknown |-> TRUE]

\* Lists of writes are closed under the ways recovery builds them.
LEMMA WritesGrow ==
  /\ <<>> \in Writes
  /\ \A v, r \in Writes : v \o r \in Writes
  /\ \A v \in Writes, x \in Homes \X Blocks : Append(v, x) \in Writes
BY DEF Writes

\* Reading a block gives a reading.
LEMMA ReadOneType ==
  ASSUME NEW d \in [Addrs -> Blocks], NEW top, NEW p \in Readings
  PROVE  ReadOne(d, top, p) \in Readings
<1>1. /\ p.current \in Slots /\ p.open \in Writes /\ p.out \in Writes /\ p.unknown \in BOOLEAN
      /\ p.current \in Addrs /\ d[p.current] \in Blocks
  BY DEF Readings, Addrs
<1>2. Succ(p.current) \in Slots /\ Succ(Succ(p.current)) \in Slots
  BY <1>1, SlotFacts
<1>3. p.out \o p.open \in Writes /\ <<>> \in Writes
  BY <1>1, WritesGrow
<1>4. ASSUME d[p.current].kind = "jdat"
      PROVE  Append(p.open, <<d[p.current].target, DataAfter(d, p.current)>>) \in Writes
  <2>. DEFINE x == <<d[p.current].target, DataAfter(d, p.current)>>
  <2>1. x \in Homes \X Blocks
    BY <1>1, <1>4, BlockFields, DataAfterType
  <2>. HIDE DEF x
  <2>2. Append(p.open, x) \in Writes
    BY <1>1, <2>1, WritesGrow
  <2>. QED  BY <2>2 DEF x
<1>. QED  BY <1>1, <1>2, <1>3, <1>4 DEF ReadOne, Readings

\* As Scan has it.
Turn(d, top, p) ==
  IF p.unknown \/ p.current = top THEN p
  ELSE CASE d[p.current].kind = "jdat" ->
              [p EXCEPT !.current = Succ(Succ(p.current)),
                        !.open = Append(@, <<d[p.current].target, DataAfter(d, p.current)>>)]
         [] d[p.current].kind = "jcmt" ->
              [p EXCEPT !.current = Succ(p.current), !.out = @ \o p.open, !.open = <<>>]
         [] OTHER -> [p EXCEPT !.unknown = TRUE]

\* The reading of one block, case by case, is the model's.
LEMMA ReadOneIs ==
  ASSUME NEW d \in [Addrs -> Blocks], NEW top, NEW p \in Readings
  PROVE  ReadOne(d, top, p) = Turn(d, top, p)
<1>0. ASSUME NEW q \in Readings, NEW x
      PROVE  /\ [q EXCEPT !.current = x] = [current |-> x, open |-> q.open, out |-> q.out, unknown |-> q.unknown]
             /\ [q EXCEPT !.open = x] = [current |-> q.current, open |-> x, out |-> q.out, unknown |-> q.unknown]
             /\ [q EXCEPT !.out = x] = [current |-> q.current, open |-> q.open, out |-> x, unknown |-> q.unknown]
  BY DEF Readings
<1>1. ASSUME NEW x \in Slots, NEW y \in Writes
      PROVE  [p EXCEPT !.current = x, !.open = y] = [current |-> x, open |-> y, out |-> p.out, unknown |-> p.unknown]
  <2>. DEFINE q == [p EXCEPT !.current = x]
  <2>1. [p EXCEPT !.current = x, !.open = y] = [q EXCEPT !.open = y]
    OBVIOUS
  <2>2. q = [current |-> x, open |-> p.open, out |-> p.out, unknown |-> p.unknown]
    BY <1>0
  <2>3. q \in Readings
    BY <2>2 DEF Readings
  <2>. HIDE DEF q
  <2>. QED  BY <1>0, <2>1, <2>2, <2>3
<1>2. ASSUME NEW x \in Slots, NEW y \in Writes, NEW z \in Writes
      PROVE  [p EXCEPT !.current = x, !.out = y, !.open = z]
               = [current |-> x, open |-> z, out |-> y, unknown |-> p.unknown]
  <2>. DEFINE q == [p EXCEPT !.current = x]
              r == [q EXCEPT !.out = y]
  <2>1. [p EXCEPT !.current = x, !.out = y, !.open = z] = [r EXCEPT !.open = z]
    OBVIOUS
  <2>2. q = [current |-> x, open |-> p.open, out |-> p.out, unknown |-> p.unknown]
    BY <1>0
  <2>3. q \in Readings
    BY <2>2 DEF Readings
  <2>. HIDE DEF q
  <2>4. r = [current |-> x, open |-> p.open, out |-> y, unknown |-> p.unknown]
    BY <1>0, <2>2, <2>3
  <2>5. r \in Readings
    BY <2>4 DEF Readings
  <2>. HIDE DEF r
  <2>. QED  BY <1>0, <2>1, <2>4, <2>5
<1>3. \A x \in BOOLEAN : [p EXCEPT !.unknown = x] = [current |-> p.current, open |-> p.open, out |-> p.out, unknown |-> x]
  BY DEF Readings
<1>4. CASE p.unknown \/ p.current = top
  BY <1>4 DEF ReadOne, Turn
<1>5. CASE ~(p.unknown \/ p.current = top) /\ d[p.current].kind = "jdat"
  <2>. DEFINE x == Append(p.open, <<d[p.current].target, DataAfter(d, p.current)>>)
  <2>1. ReadOne(d, top, p) = [current |-> Succ(Succ(p.current)), open |-> x, out |-> p.out, unknown |-> p.unknown]
    BY <1>5 DEF ReadOne
  <2>2. ReadOne(d, top, p) \in Readings
    BY ReadOneType
  <2>. HIDE DEF x
  <2>3. Succ(Succ(p.current)) \in Slots /\ x \in Writes
    BY <2>1, <2>2 DEF Readings
  <2>4. [p EXCEPT !.current = Succ(Succ(p.current)), !.open = x] = ReadOne(d, top, p)
    BY <1>1, <2>1, <2>3
  <2>. QED  BY <1>5, <2>4 DEF x, Turn
<1>6. CASE ~(p.unknown \/ p.current = top) /\ d[p.current].kind = "jcmt"
  <2>1. Succ(p.current) \in Slots /\ p.out \o p.open \in Writes /\ <<>> \in Writes
    BY SlotFacts, WritesGrow DEF Readings
  <2>. QED  BY <1>2, <1>6, <2>1 DEF ReadOne, Turn
<1>7. CASE ~(p.unknown \/ p.current = top) /\ d[p.current].kind # "jdat" /\ d[p.current].kind # "jcmt"
  BY <1>3, <1>7 DEF ReadOne, Turn
<1>. QED  BY <1>4, <1>5, <1>6, <1>7

\* So Scan iterates it.
LEMMA ScanIterates ==
  ASSUME NEW d \in [Addrs -> Blocks], NEW w \in Windows
  PROVE  \E at \in [0 .. 2 * N -> Readings] :
           /\ Scan(d, w) = at[2 * N]
           /\ at[0] = [current |-> w.head, open |-> <<>>, out |-> <<>>, unknown |-> FALSE]
           /\ \A k \in 1 .. 2 * N : at[k] = ReadOne(d, w.tail, at[k - 1])
<1>. DEFINE M == 2 * N
            Step(p) == Turn(d, w.tail, p)
            First == [current |-> w.head, open |-> <<>>, out |-> <<>>, unknown |-> FALSE]
            Loop(g) == [k \in 0 .. M |-> IF k = 0 THEN First ELSE Step(g[k - 1])]
            at == CHOOSE g : g = Loop(g)
            step == [x \in (1 .. M) \X Readings |-> ReadOne(d, w.tail, x[2])]
<1>1. Scan(d, w) = at[M]
  BY DEF Scan, Turn
<1>2. ASSUME NEW p \in Readings PROVE Step(p) = ReadOne(d, w.tail, p)
  BY ReadOneIs
<1>3. First \in Readings
  BY DEF Readings, Windows, Writes
<1>4. M \in Nat
  OBVIOUS
<1>. HIDE DEF M, Step, First
<1>5. PICK f : Iterates(f, M, Readings, First, step)
  <2>1. step \in [(1 .. M) \X Readings -> Readings]
    BY ReadOneType
  <2>. HIDE DEF step
  <2>. QED  BY <1>3, <1>4, <2>1, IterationExists
<1>6. f \in [0 .. M -> Readings] /\ f[0] = First /\ \A k \in 1 .. M : f[k] = ReadOne(d, w.tail, f[k - 1])
  <2>1. f \in [0 .. M -> Readings] /\ f[0] = First /\ \A k \in 1 .. M : f[k] = step[<<k, f[k - 1]>>]
    BY <1>5 DEF Iterates
  <2>2. ASSUME NEW k \in 1 .. M PROVE f[k - 1] \in Readings
    BY <1>4, <2>1
  <2>. QED  BY <2>1, <2>2
<1>7. f = Loop(f)
  <2>1. ASSUME NEW k \in 0 .. M PROVE f[k] = IF k = 0 THEN First ELSE Step(f[k - 1])
    <3>1. CASE k = 0
      BY <1>6, <3>1
    <3>2. CASE k # 0
      <4>1. k \in 1 .. M /\ k - 1 \in 0 .. M
        BY <1>4, <3>2
      <4>. QED  BY <1>2, <1>6, <3>2, <4>1
    <3>. QED  BY <3>1, <3>2
  <2>. QED  BY <1>6, <2>1
<1>8. at = Loop(at)
  <2>. HIDE DEF Loop
  <2>. QED  BY <1>7
<1>. HIDE DEF at
<1>9. at[0] = First /\ \A k \in 1 .. M : at[k] = Step(at[k - 1])
  BY <1>4, <1>8
<1>10. DOMAIN at = 0 .. M /\ at = [k \in 0 .. M |-> at[k]]
  BY <1>8
<1>. DEFINE G == {k \in 0 .. M : at[k] \in Readings}
<1>11. 0 \in G
  BY <1>3, <1>4, <1>9
<1>12. \A k \in 0 .. M - 1 : k \in G => k + 1 \in G
  <2>. SUFFICES ASSUME NEW k \in 0 .. M - 1, at[k] \in Readings PROVE at[k + 1] \in Readings /\ k + 1 \in 0 .. M
    OBVIOUS
  <2>1. k + 1 \in 1 .. M /\ k + 1 - 1 = k /\ k + 1 \in 0 .. M
    BY <1>4
  <2>2. at[k + 1] = Step(at[k])
    BY <1>9, <2>1
  <2>3. at[k + 1] = ReadOne(d, w.tail, at[k])
    BY <1>2, <2>2
  <2>. QED  BY <2>1, <2>3, ReadOneType
<1>13. \A k \in 0 .. M : k \in G
  <2>. HIDE DEF G
  <2>. QED  BY <1>4, <1>11, <1>12, BoundedInduction
<1>14. at \in [0 .. M -> Readings]
  BY <1>10, <1>13
<1>15. \A k \in 1 .. M : at[k] = ReadOne(d, w.tail, at[k - 1])
  <2>. SUFFICES ASSUME NEW k \in 1 .. M PROVE at[k] = ReadOne(d, w.tail, at[k - 1])
    OBVIOUS
  <2>1. k - 1 \in 0 .. M
    BY <1>4
  <2>. QED  BY <1>2, <1>9, <1>14, <2>1
<1>. QED  BY <1>1, <1>9, <1>14, <1>15 DEF M, First

\* A window that grows by a record that is no header shows what it showed.
LEMMA ShowsRecord ==
  ASSUME NEW d, NEW g, NEW lo \in Int, NEW c \in Int, lo <= c, Shows(d, g, lo, c), d[c].kind # "jdat"
  PROVE  Shows(d, g, lo, c + 1)
<1>1. c <= c + 1 /\ c + 1 \in Int
  OBVIOUS
<1>2. \A h \in Homes : Clear(d, h, c, c + 1)
  BY ItemSays
<1>3. \A h \in Homes : Clear(d, h, lo, c + 1) <=> Clear(d, h, lo, c)
  BY <1>1, <1>2, ClearParts
<1>4. \A h \in Homes : LastIn(d, h, lo, c, g[h]) => LastIn(d, h, lo, c + 1, g[h])
  BY <1>1, <1>2, LastParts
<1>. QED  BY <1>3, <1>4 DEF Shows, Logs

\* One that grows by a pair shows the pair's data for the pair's block.
LEMMA ShowsPair ==
  ASSUME NEW d, NEW g, NEW e, NEW lo \in Int, NEW c \in Int, lo <= c, Shows(d, g, lo, c),
         d[c].kind = "jdat", d[c + 1].kind # "jdat",
         \A h \in Homes : e[h] = IF h = d[c].target THEN d[c + 1] ELSE g[h]
  PROVE  Shows(d, e, lo, c + 2)
<1>1. c <= c + 2 /\ c + 2 \in Int
  OBVIOUS
<1>2. ASSUME NEW h \in Homes, h = d[c].target
      PROVE  LastIn(d, h, lo, c + 2, e[h]) /\ ~Clear(d, h, lo, c + 2)
  <2>1. LastIn(d, h, c, c + 2, e[h])
    BY <1>2, ItemSays
  <2>2. LastIn(d, h, lo, c + 2, e[h])
    BY <1>1, <2>1, LastParts
  <2>. QED  BY <1>1, <2>2, LastNotClear
<1>3. ASSUME NEW h \in Homes, h # d[c].target
      PROVE  /\ Clear(d, h, lo, c + 2) <=> Clear(d, h, lo, c)
             /\ LastIn(d, h, lo, c, g[h]) => LastIn(d, h, lo, c + 2, e[h])
             /\ e[h] = g[h]
  <2>1. Clear(d, h, c, c + 2)
    BY <1>3, ItemSays
  <2>2. e[h] = g[h]
    BY <1>3
  <2>. QED  BY <1>1, <2>1, <2>2, ClearParts, LastParts
<1>. QED  BY <1>2, <1>3 DEF Shows, Logs

\* What has been read after k turns.
Reads(d, lo, hi, p, k) ==
  /\ ~p.unknown
  /\ p.current \in lo .. hi /\ WellPaired(d, p.current, hi)
  /\ p.current >= lo + k \/ p.current = hi
  /\ p.open # <<>> => p.current > lo /\ d[p.current - 1].kind = "data"
  /\ Shows(d, Overlay(HomeOf(d), p.out \o p.open), lo, p.current)

\* Appending to the later of two lists.
LEMMA JoinWrites ==
  ASSUME NEW v \in Writes, NEW r \in Writes, NEW x \in Homes \X Blocks
  PROVE  v \o Append(r, x) = Append(v \o r, x) /\ v \o <<>> = v
BY DEF Writes

\* The home blocks of a device are contents.
LEMMA HomeType ==
  ASSUME NEW d \in [Addrs -> Blocks]
  PROVE  HomeOf(d) \in [Homes -> Blocks] /\ \A h \in Homes : HomeOf(d)[h] = d[h]
BY DEF HomeOf, Addrs

\* No write changes nothing.
LEMMA OverlayEmpty ==
  ASSUME NEW f \in [Homes -> Blocks]
  PROVE  Overlay(f, <<>>) = f
<1>1. DOMAIN <<>> = {}
  OBVIOUS
<1>. QED  BY <1>1, OverlayNone

\* The last write decides its home, the ones before it the others.
LEMMA OverlayMore ==
  ASSUME NEW f \in [Homes -> Blocks], NEW ws \in Writes, NEW x \in Homes, NEW c \in Blocks, NEW h \in Homes
  PROVE  Overlay(f, Append(ws, <<x, c>>))[h] = IF h = x THEN c ELSE Overlay(f, ws)[h]
<1>. DEFINE n == Len(ws)
            vs == Append(ws, <<x, c>>)
<1>1. n \in Nat /\ DOMAIN ws = 1 .. n /\ DOMAIN vs = 1 .. n + 1 /\ \A i \in 1 .. n : vs[i] = ws[i]
  BY DEF Writes
<1>2. vs[n + 1] = <<x, c>> /\ h \in DOMAIN f
  BY DEF Writes
<1>. HIDE DEF n, vs
<1>3. Overlay(f, vs)[h] = IF h = vs[n + 1][1] THEN vs[n + 1][2] ELSE Overlay(f, ws)[h]
  BY <1>1, <1>2, OverlayAppend
<1>4. vs[n + 1][1] = x /\ vs[n + 1][2] = c
  BY <1>2
<1>. QED  BY ONLY <1>3, <1>4 DEF vs

\* Contents with a list of writes on top are contents.
LEMMA OverlayWrites ==
  ASSUME NEW f \in [Homes -> Blocks], NEW ws \in Writes
  PROVE  Overlay(f, ws) \in [Homes -> Blocks]
<1>1. Len(ws) \in Nat /\ DOMAIN ws = 1 .. Len(ws) /\ \A i \in 1 .. Len(ws) : ws[i][2] \in Blocks
  BY DEF Writes
<1>. QED  BY <1>1, OverlayType

\* Reading one block more keeps the invariant of the reader.
LEMMA ReadsOne ==
  ASSUME NEW d \in [Addrs -> Blocks], NEW lo, NEW hi, Ring(d, lo, hi), NEW k \in Nat,
         NEW p \in Readings, Reads(d, lo, hi, p, k)
  PROVE  Reads(d, lo, hi, ReadOne(d, hi, p), k + 1)
<1>. DEFINE c == p.current
            q == ReadOne(d, hi, p)
            g == Overlay(HomeOf(d), p.out \o p.open)
<1>1. lo \in Int /\ hi \in Int /\ lo \in 1 .. N - 1 /\ hi \in lo .. N - 1 /\ c \in lo .. hi /\ c \in Int /\ N \in Nat
  BY DEF Ring, Reads
<1>2. p.open \in Writes /\ p.out \in Writes /\ p.unknown = FALSE
  BY DEF Readings, Reads
<1>3. CASE c = hi
  <2>1. q = p
    BY <1>3 DEF ReadOne
  <2>. QED  BY <1>3, <2>1 DEF Reads
<1>4. CASE c # hi
  <2>1. c < hi /\ c >= lo + k /\ WellPaired(d, c, hi) /\ Shows(d, g, lo, c)
    BY <1>1, <1>4 DEF Reads
  <2>2. CASE d[c].kind = "jcmt" /\ WellPaired(d, c + 1, hi)
    <3>1. Succ(c) = c + 1
      BY <1>1, <2>1 DEF Succ
    <3>2. q = [current |-> c + 1, open |-> <<>>, out |-> p.out \o p.open, unknown |-> FALSE]
      BY <1>2, <1>4, <2>2, <3>1 DEF ReadOne
    <3>3. Shows(d, g, lo, c + 1)
      BY <1>1, <2>1, <2>2, ShowsRecord
    <3>4. q.out \o q.open = p.out \o p.open
      <4>1. p.out \o p.open \in Writes
        BY <1>2, WritesGrow
      <4>2. \A v \in Writes : v \o <<>> = v
        BY DEF Writes
      <4>. HIDE DEF q
      <4>3. q.out = p.out \o p.open /\ q.open = <<>>
        BY <3>2
      <4>. QED  BY <4>1, <4>2, <4>3
    <3>5. q.current = c + 1 /\ ~q.unknown /\ q.open = <<>>
      BY <3>2
    <3>. HIDE DEF q, c
    <3>6. c + 1 \in lo .. hi /\ c + 1 >= lo + (k + 1)
      BY <1>1, <2>1
    <3>7. Shows(d, Overlay(HomeOf(d), q.out \o q.open), lo, q.current)
      BY <3>3, <3>4, <3>5
    <3>8. WellPaired(d, q.current, hi) /\ q.current \in lo .. hi /\ q.current >= lo + (k + 1)
      BY <2>2, <3>5, <3>6
    <3>9. Reads(d, lo, hi, q, k + 1)
      BY <3>5, <3>7, <3>8 DEF Reads
    <3>. QED  BY <3>9 DEF q
  <2>3. CASE d[c].kind = "jdat" /\ c + 1 < hi /\ d[c + 1] = Data(d[c].checksum) /\ WellPaired(d, c + 2, hi)
    <3>. DEFINE x == <<d[c].target, d[c + 1]>>
    <3>1. Succ(Succ(c)) = c + 2 /\ DataAfter(d, c) = d[c + 1]
      BY <1>1, <2>3 DEF Succ, DataAfter
    <3>2. q = [current |-> c + 2, open |-> Append(p.open, x), out |-> p.out, unknown |-> FALSE]
      BY <1>2, <1>4, <2>3, <3>1 DEF ReadOne
    <3>3. d[c + 1].kind = "data" /\ d[c + 1].kind # "jdat"
      BY <2>3 DEF Data
    <3>4. x \in Homes \X Blocks
      <4>1. c \in Addrs /\ c + 1 \in Addrs
        BY <1>1, <2>3 DEF Addrs, Slots
      <4>2. d[c].target \in Homes /\ d[c + 1] \in Blocks
        <5>. HIDE DEF c
        <5>. QED  BY <2>3, <4>1, BlockFields
      <4>. QED  BY <4>2
    <3>5. q.out \o q.open = Append(p.out \o p.open, x)
      <4>. HIDE DEF x, q
      <4>. QED  BY <1>2, <3>2, <3>4, JoinWrites
    <3>6. q.current = c + 2 /\ ~q.unknown
      BY <3>2
    <3>7. p.out \o p.open \in Writes
      BY <1>2, WritesGrow
    <3>8. \A h \in Homes : Overlay(HomeOf(d), q.out \o q.open)[h] = IF h = d[c].target THEN d[c + 1] ELSE g[h]
      <4>1. \A h \in Homes : Overlay(HomeOf(d), Append(p.out \o p.open, <<d[c].target, d[c + 1]>>))[h]
                               = IF h = d[c].target THEN d[c + 1] ELSE g[h]
        <5>. DEFINE v == p.out \o p.open
                    f == HomeOf(d)
                    z == d[c].target
                    e == d[c + 1]
        <5>1. f \in [Homes -> Blocks] /\ z \in Homes /\ e \in Blocks
          BY <3>4, HomeType
        <5>2. v \in Writes
          BY <3>7
        <5>. HIDE DEF v, f, z, e
        <5>3. ASSUME NEW h \in Homes
              PROVE  Overlay(f, Append(v, <<z, e>>))[h] = IF h = z THEN e ELSE Overlay(f, v)[h]
          BY <5>1, <5>2, OverlayMore
        <5>. QED  BY <5>3 DEF v, f, z, e
      <4>. QED  BY <3>5, <4>1
    <3>9. Shows(d, Overlay(HomeOf(d), q.out \o q.open), lo, c + 2)
      <4>. HIDE DEF q, g, c
      <4>1. lo <= c
        BY <1>1
      <4>. QED  BY <1>1, <2>1, <2>3, <3>3, <3>8, <4>1, ShowsPair
    <3>10. c + 2 \in lo .. hi /\ c + 2 >= lo + (k + 1) /\ c + 2 > lo /\ c + 2 - 1 = c + 1
      BY <1>1, <2>1, <2>3
    <3>. HIDE DEF q, c
    <3>11. Shows(d, Overlay(HomeOf(d), q.out \o q.open), lo, q.current)
      BY <3>6, <3>9
    <3>12. /\ WellPaired(d, q.current, hi) /\ q.current \in lo .. hi /\ q.current >= lo + (k + 1)
           /\ q.current > lo /\ d[q.current - 1].kind = "data"
      <4>1. q.current = c + 2
        BY <3>6
      <4>2. WellPaired(d, c + 2, hi) /\ d[c + 1].kind = "data"
        BY <2>3, <3>3
      <4>3. q.current - 1 = c + 1
        BY <1>1, <4>1
      <4>. QED  BY <3>10, <4>1, <4>2, <4>3
    <3>13. Reads(d, lo, hi, q, k + 1)
      BY <3>6, <3>11, <3>12 DEF Reads
    <3>. QED  BY <3>13 DEF q
  <2>. QED  BY <1>1, <2>1, <2>2, <2>3, PairStep
<1>. QED  BY <1>3, <1>4

\* Recovery of a window that shows f ends with f.
LEMMA ScanShows ==
  ASSUME NEW d \in [Addrs -> Blocks], NEW w \in Windows, Ring(d, w.head, w.tail),
         NEW f \in [Homes -> Blocks], Shows(d, f, w.head, w.tail)
  PROVE  Overlay(HomeOf(d), Scan(d, w).out) = f
<1>. DEFINE lo == w.head
            hi == w.tail
            M == 2 * N
<1>1. PICK at \in [0 .. M -> Readings] :
           /\ Scan(d, w) = at[M]
           /\ at[0] = [current |-> lo, open |-> <<>>, out |-> <<>>, unknown |-> FALSE]
           /\ \A k \in 1 .. M : at[k] = ReadOne(d, hi, at[k - 1])
  BY ScanIterates
<1>2. lo \in Int /\ hi \in Int /\ lo \in 1 .. N - 1 /\ hi \in lo .. N - 1 /\ M \in Nat /\ N \in Nat
  BY DEF Ring
<1>3. HomeOf(d) \in [Homes -> Blocks]
  BY HomeType
<1>. DEFINE G == {k \in 0 .. M : Reads(d, lo, hi, at[k], k)}
<1>4. 0 \in G
  <2>1. Overlay(HomeOf(d), <<>> \o <<>>) = HomeOf(d)
    <3>1. <<>> \o <<>> = <<>>
      OBVIOUS
    <3>. QED  BY <1>3, <3>1, OverlayEmpty
  <2>2. Shows(d, HomeOf(d), lo, lo)
    BY <1>2, HomeType DEF Shows, Logs, Clear
  <2>3. at[0].current = lo /\ at[0].open = <<>> /\ at[0].out = <<>> /\ at[0].unknown = FALSE
    BY <1>1
  <2>4. WellPaired(d, lo, hi) /\ lo \in lo .. hi /\ lo >= lo + 0 /\ 0 \in 0 .. M
    BY <1>2 DEF Ring
  <2>. QED  BY <2>1, <2>2, <2>3, <2>4 DEF Reads
<1>5. \A k \in 0 .. M - 1 : k \in G => k + 1 \in G
  <2>. SUFFICES ASSUME NEW k \in 0 .. M - 1, Reads(d, lo, hi, at[k], k)
                PROVE  k + 1 \in 0 .. M /\ Reads(d, lo, hi, at[k + 1], k + 1)
    OBVIOUS
  <2>1. k + 1 \in 1 .. M /\ k + 1 - 1 = k /\ k + 1 \in 0 .. M /\ k \in 0 .. M /\ k \in Nat
    BY <1>2
  <2>2. at[k + 1] = ReadOne(d, hi, at[k]) /\ at[k] \in Readings
    BY <1>1, <2>1
  <2>3. Reads(d, lo, hi, ReadOne(d, hi, at[k]), k + 1)
    BY <2>1, <2>2, ReadsOne
  <2>. QED  BY <2>1, <2>2, <2>3
<1>6. \A k \in 0 .. M : k \in G
  <2>. HIDE DEF G
  <2>. QED  BY <1>2, <1>4, <1>5, BoundedInduction
<1>. DEFINE p == at[M]
<1>7. Reads(d, lo, hi, p, M) /\ p \in Readings
  BY <1>1, <1>2, <1>6
<1>. HIDE DEF p, M, lo, hi
<1>8. p.current = hi
  BY <1>2, <1>7 DEF Reads, M
<1>9. p.open = <<>>
  <2>. SUFFICES ASSUME p.open # <<>> PROVE FALSE
    OBVIOUS
  <2>1. hi > lo /\ d[hi - 1].kind = "data"
    BY <1>7, <1>8, <1>2 DEF Reads
  <2>. QED  BY <2>1, <1>2 DEF Ring, lo, hi
<1>10. p.out \o p.open = p.out /\ p.out \in Writes
  BY <1>7, <1>9 DEF Readings, Writes
<1>11. Shows(d, Overlay(HomeOf(d), p.out), lo, hi)
  BY <1>7, <1>8, <1>10 DEF Reads
<1>12. Overlay(HomeOf(d), p.out) \in [Homes -> Blocks]
  BY <1>3, <1>10, OverlayWrites
<1>13. Overlay(HomeOf(d), p.out) = f
  BY <1>2, <1>11, <1>12, ShowsUnique DEF lo, hi
<1>. QED  BY <1>1, <1>13 DEF p

(***************************************************************************)
(* What the stores are, and who is alone.                                  *)
(***************************************************************************)

\* There is always something a restart may show, and the threads that commit
\* are those that carry a transaction.
StoresKnown ==
  /\ stores # {} /\ \A f \in stores : f \in [Homes -> Blocks]
  /\ \A t \in Threads : Committing(t) <=> txn[t] # <<>>

\* What a thread logs is the list it commits, as blocks.
LEMMA LoggedType ==
  ASSUME TypeInv, NEW t \in Threads
  PROVE  /\ Logged(t) \in Writes
         /\ DOMAIN Logged(t) = 1 .. Len(txn[t]) /\ Len(txn[t]) \in Nat
         /\ \A i \in 1 .. Len(txn[t]) :
              /\ Logged(t)[i] = <<txn[t][i][1], Data(txn[t][i][2])>>
              /\ txn[t][i][1] \in Homes
<1>. DEFINE ws == txn[t]
            n == Len(ws)
            vs == [i \in 1 .. n |-> <<ws[i][1], Data(ws[i][2])>>]
<1>1. ws \in Seq(Homes \X Vals)
  BY TxnSeq DEF TypeInv
<1>2. n \in Nat /\ DOMAIN ws = 1 .. n /\ \A i \in 1 .. n : ws[i] \in Homes \X Vals
  BY <1>1
<1>. HIDE DEF ws, n
<1>3. ASSUME NEW i \in 1 .. n
      PROVE  <<ws[i][1], Data(ws[i][2])>> \in Homes \X Blocks /\ ws[i][1] \in Homes
  <2>1. ws[i][1] \in Homes /\ ws[i][2] \in Vals
    BY <1>2
  <2>2. Data(ws[i][2]) \in Blocks
    BY <2>1, BlockFacts DEF Contents
  <2>. QED  BY <2>1, <2>2
<1>4. Logged(t) = vs
  BY <1>2 DEF Logged, AsData, ws
<1>5. vs \in Seq(Homes \X Blocks)
  BY <1>2, <1>3
<1>6. vs \in Writes
  BY <1>5 DEF Writes
<1>. QED  BY <1>2, <1>3, <1>4, <1>6 DEF ws, n

\* What is promised are contents of the home blocks.
LEMMA PromisedType ==
  ASSUME TypeInv, StoresKnown
  PROVE  \A f \in Promised : f \in [Homes -> Blocks]
BY LoggedType, OverlayWrites DEF Promised, StoresKnown

\* A formatted disk is known.
LEMMA StoresInit == Init => StoresKnown
<1>1. Data(Zero) \in Blocks
  BY BlockFacts DEF Contents
<1>. QED  BY <1>1 DEF Init, StoresKnown, Committing, CommitPcs

\* What callers may count on stays known.
LEMMA StoresNext ==
  ASSUME TypeInv, TypeInv', StoresKnown, [Next]_vars
  PROVE  StoresKnown'
<1>. USE DEF StoresKnown
<1>1. pc \in [Threads -> {"idle"} \cup CommitPcs \cup CheckpointPcs] /\ txn \in [Threads -> Workload \cup {<<>>}]
      /\ disk \in [Addrs -> Blocks]
  BY DEF TypeInv, TypeOK
<1>2. ASSUME NEW t \in Threads, Return(t), stores' = stores PROVE StoresKnown'
  BY <1>1, <1>2 DEF Return, Goto, Committing, CommitPcs
<1>3. ASSUME stores' = stores, txn' = txn, pc' = pc PROVE StoresKnown'
  BY <1>3 DEF Committing
<1>4. ASSUME stores' = stores, txn' = txn, NEW t \in Threads, NEW p, p \in CommitPcs <=> pc[t] \in CommitPcs,
             pc' = [pc EXCEPT ![t] = p]
      PROVE  StoresKnown'
  BY <1>1, <1>4 DEF Committing
<1>5. ASSUME NEW t \in Threads, NEW ws \in Workload, CommitBegin(t, ws) PROVE StoresKnown'
  <2>1. <<>> \notin Workload
    BY JournalAssumption
  <2>. QED  BY <1>1, <1>5, <2>1 DEF CommitBegin, Goto, Committing, CommitPcs
<1>6. ASSUME NEW t \in Threads, CommitEnd(t) PROVE StoresKnown'
  <2>1. \A f \in stores : Overlay(f, Logged(t)) \in [Homes -> Blocks]
    BY LoggedType, OverlayWrites
  <2>2. \A u \in Threads : Committing(u)' <=> txn'[u] # <<>>
    BY <1>1, <1>6 DEF CommitEnd, Return, Goto, Committing, CommitPcs
  <2>3. stores' = {Overlay(f, Logged(t)) : f \in stores}
    BY <1>6 DEF CommitEnd
  <2>. QED  BY <2>1, <2>2, <2>3
<1>7. ASSUME Mounted, pc' = pc, txn' = txn PROVE StoresKnown'
  BY <1>1, <1>7, HomeType DEF Mounted, Committing
<1>8. ASSUME Die PROVE StoresKnown'
  <2>1. stores' = Promised /\ \A u \in Threads : txn'[u] = <<>> /\ ~Committing(u)'
    BY <1>8 DEF Die, Committing, CommitPcs
  <2>2. Promised # {}
    BY DEF Promised
  <2>. QED  BY <2>1, <2>2, PromisedType
<1>9. ASSUME NEW t \in Threads, Commit(t) PROVE StoresKnown'
  <2>1. CASE CommitFull(t)
    BY <1>2, <2>1 DEF CommitFull
  <2>2. CASE AllocHeader(t)
    BY <1>4, <2>2 DEF AllocHeader, Goto, CommitPcs
  <2>3. CASE AllocData(t)
    BY <1>4, <2>3 DEF AllocData, Goto, CommitPcs
  <2>4. CASE WriteHeader(t)
    BY <1>4, <2>4 DEF WriteHeader, Goto, CommitPcs, commitVars, ghosts
  <2>5. CASE WriteData(t)
    <3>. DEFINE p == IF done[t] + 1 = Len(txn[t]) THEN "cmt" ELSE "hdr"
    <3>1. p \in CommitPcs /\ pc[t] \in CommitPcs /\ pc' = [pc EXCEPT ![t] = p] /\ stores' = stores /\ txn' = txn
      BY <2>5 DEF WriteData, Goto, ghosts, CommitPcs
    <3>. HIDE DEF p
    <3>. QED  BY <1>4, <3>1
  <2>6. CASE AllocCommit(t)
    BY <1>4, <2>6 DEF AllocCommit, Goto, CommitPcs
  <2>7. CASE WriteCommitRecord(t)
    BY <1>4, <2>7 DEF WriteCommitRecord, Goto, CommitPcs, commitVars, ghosts
  <2>8. CASE SyncCopy(t)
    BY <1>4, <2>8 DEF SyncCopy, Goto, CommitPcs, commitVars, ghosts
  <2>9. CASE SyncWrite(t)
    BY <1>4, <2>9 DEF SyncWrite, Goto, CommitPcs, commitVars, ghosts
  <2>10. CASE SyncFlush(t)
    BY <1>4, <2>10 DEF SyncFlush, Goto, CommitPcs, commitVars, ghosts
  <2>. QED  BY <1>6, <1>9, <2>1, <2>2, <2>3, <2>4, <2>5, <2>6, <2>7, <2>8, <2>9, <2>10 DEF Commit
<1>10. ASSUME NEW t \in Threads, Checkpoint(t) PROVE StoresKnown'
  <2>1. CASE CheckpointRead(t)
    BY <1>3, <1>4, <2>1 DEF CheckpointRead, Goto, CommitPcs, commitVars, ghosts
  <2>2. CASE CheckpointApply(t)
    BY <1>4, <2>2 DEF CheckpointApply, Goto, CommitPcs, commitVars, ghosts
  <2>3. CASE CheckpointScanned(t)
    BY <1>4, <2>3 DEF CheckpointScanned, Goto, CommitPcs, commitVars, ghosts
  <2>4. CASE CheckpointHead(t)
    BY <1>4, <2>4 DEF CheckpointHead, Goto, CommitPcs, commitVars, ghosts
  <2>5. CASE CheckpointSbWrite(t)
    BY <1>4, <2>5 DEF CheckpointSbWrite, Goto, CommitPcs, commitVars, ghosts
  <2>6. CASE CheckpointEnd(t)
    BY <1>2, <2>6 DEF CheckpointEnd, ghosts
  <2>. QED  BY <1>10, <2>1, <2>2, <2>3, <2>4, <2>5, <2>6 DEF Checkpoint
<1>11. ASSUME NEW t \in Threads, CheckpointBegin(t) PROVE StoresKnown'
  BY <1>4, <1>11 DEF CheckpointBegin, Goto, commitVars, CommitPcs, Busy
<1>12. ASSUME NEW t \in Threads, Faults(t) PROVE StoresKnown'
  BY <1>2, <1>12 DEF Faults, CommitFault, CheckpointFault
<1>13. CASE Mount
  <2>1. CASE Mounted
    BY <1>7, <1>13, <2>1 DEF Mount, commitVars
  <2>2. CASE ~Mounted
    BY <1>3, <1>13, <2>2 DEF Mount, commitVars
  <2>. QED  BY <2>1, <2>2
<1>14. CASE RecoverRead \/ RecoverWrite
  BY <1>3, <1>14 DEF RecoverRead, RecoverWrite, commitVars, ghosts
<1>15. CASE RecoverEnd
  BY <1>7, <1>15 DEF RecoverEnd, commitVars
<1>16. CASE RecoverFault
  BY <1>3, <1>16 DEF RecoverFault, commitVars
<1>17. CASE Environment
  BY <1>3, <1>8, <1>17 DEF Environment, Crash, PowerCut, WriteBack, commitVars, ghosts
<1>18. CASE UNCHANGED vars
  BY <1>3, <1>18 DEF vars
<1>. QED  BY <1>5, <1>9, <1>10, <1>11, <1>12, <1>13, <1>14, <1>15, <1>16, <1>17, <1>18 DEF Next, Calls

\* Within the limits one operation runs at a time, and a checkpoint is past the
\* head it started from.
Single ==
  /\ \A t, u \in Threads : Busy(t) /\ Busy(u) => t = u
  /\ \A t \in Threads : Scanning(t) => sb.head <= win[t].head

Lone == crossed = {} => Single

\* Recovery's lists are empty unless it runs.
Emptied == mode # "recover" => open = <<>> /\ replay = <<>>

\* No step outside recovery fills its lists.
LEMMA EmptiedNext ==
  ASSUME Emptied, [Next]_vars
  PROVE  Emptied'
<1>. USE DEF Emptied
<1>1. ASSUME UNCHANGED mountVars PROVE Emptied'
  BY <1>1 DEF mountVars
<1>2. ASSUME NEW t \in Threads, Calls(t) \/ Commit(t) \/ Checkpoint(t) \/ Faults(t) PROVE Emptied'
  BY <1>1, <1>2 DEF Calls, CommitBegin, CheckpointBegin, Commit, CommitFull, AllocHeader, AllocData, WriteHeader, WriteData,
     AllocCommit, WriteCommitRecord, SyncCopy, SyncWrite, SyncFlush, CommitEnd, Checkpoint, CheckpointRead,
     CheckpointApply, CheckpointScanned, CheckpointHead, CheckpointSbWrite, CheckpointEnd, Faults, CommitFault,
     CheckpointFault
<1>3. CASE Mount \/ RecoverRead \/ RecoverWrite \/ RecoverEnd \/ RecoverFault
  BY <1>3 DEF Mount, RecoverRead, RecoverWrite, RecoverEnd, RecoverFault, Mounted, Unmounted
<1>4. CASE Environment
  BY <1>1, <1>4 DEF Environment, Crash, PowerCut, Die, Unmounted, WriteBack
<1>5. CASE UNCHANGED vars
  BY <1>1, <1>5 DEF vars, mountVars
<1>. QED  BY <1>2, <1>3, <1>4, <1>5 DEF Next

\* Nobody commits at first.
LEMMA LoneInit == Init => Lone /\ Emptied
BY DEF Init, Lone, Single, Busy, Scanning, Emptied

\* With no race the commit lock keeps commits and checkpoints apart.
LEMMA LoneNext ==
  ASSUME TypeInv, TypeInv', Quiet, RingInv, RingInv', Lone, [Next]_vars
  PROVE  Lone'
<1>. SUFFICES ASSUME crossed' = {} PROVE Single'
  BY DEF Lone
<1>1. crossed = {} /\ Single
  BY CrossedGrows DEF Lone
<1>2. /\ pc \in [Threads -> {"idle"} \cup CommitPcs \cup CheckpointPcs] /\ win \in [Threads -> Windows]
      /\ sb \in Windows
  BY DEF TypeInv, TypeOK
<1>3. ASSUME \A u \in Threads : pc'[u] # "idle" => pc[u] # "idle",
             \A u \in Threads : pc'[u] \in {"scan", "apply"} => sb'.head <= win'[u].head
      PROVE  Single'
  BY <1>1, <1>3 DEF Single, Busy, Scanning
<1>4. ASSUME NEW t \in Threads, Commit(t) \/ CommitFault(t) PROVE Single'
  <2>1. pc[t] \in CommitPcs /\ (pc'[t] \in CommitPcs \/ pc'[t] = "idle") /\ \A u \in Threads \ {t} : pc'[u] = pc[u]
    BY <1>2, <1>4 DEF Commit, CommitFull, AllocHeader, AllocData, WriteHeader, WriteData, AllocCommit, WriteCommitRecord,
         SyncCopy, SyncWrite, SyncFlush, CommitEnd, CommitFault, Goto, Return, CommitPcs
  <2>2. \A u \in Threads \ {t} : pc[u] = "idle"
    BY <1>1, <2>1 DEF Single, Busy, CommitPcs
  <2>. QED  BY <1>3, <2>1, <2>2 DEF CommitPcs
<1>5. ASSUME NEW t \in Threads, NEW ws \in Workload, CommitBegin(t, ws) PROVE Single'
  <2>1. crossed' = crossed \cup {l \in {"commits", "mixed"} : \E u \in Threads \ {t} :
              IF l = "commits" THEN Committing(u) ELSE Checkpointing(u)}
        /\ "commits" \notin crossed' /\ "mixed" \notin crossed'
    BY <1>5 DEF CommitBegin, Cross
  <2>2. \A u \in Threads \ {t} : ~Committing(u) /\ ~Checkpointing(u)
    BY <2>1
  <2>3. \A u \in Threads \ {t} : pc[u] = "idle"
    BY <1>2, <2>2 DEF Committing, Checkpointing
  <2>4. pc' = [pc EXCEPT ![t] = "hdr"]
    BY <1>5 DEF CommitBegin, Goto
  <2>. QED  BY <1>2, <2>3, <2>4 DEF Single, Busy, Scanning
<1>6. ASSUME NEW t \in Threads, CheckpointBegin(t) PROVE Single'
  <2>1. crossed' = crossed \cup {l \in {"mixed", "checkpoints"} : \E u \in Threads \ {t} :
              IF l = "mixed" THEN Committing(u) ELSE Checkpointing(u)}
    BY <1>6 DEF CheckpointBegin, Cross
  <2>2. \A u \in Threads \ {t} : ~Committing(u) /\ ~Checkpointing(u)
    BY <2>1
  <2>3. \A u \in Threads \ {t} : pc[u] = "idle"
    BY <1>2, <2>2 DEF Committing, Checkpointing
  <2>4. pc' = [pc EXCEPT ![t] = "scan"] /\ win' = [win EXCEPT ![t] = sb] /\ sb' = sb
    BY <1>6 DEF CheckpointBegin, Goto
  <2>5. sb.head <= sb.head
    BY <1>2 DEF Windows, Slots
  <2>. QED  BY <1>2, <2>3, <2>4, <2>5 DEF Single, Busy, Scanning
<1>7. ASSUME NEW t \in Threads, Checkpoint(t) \/ CheckpointFault(t) PROVE Single'
  <2>1. pc[t] \in CheckpointPcs /\ \A u \in Threads \ {t} : pc'[u] = pc[u]
    BY <1>2, <1>7 DEF Checkpoint, CheckpointRead, CheckpointApply, CheckpointScanned, CheckpointHead,
         CheckpointSbWrite, CheckpointEnd, CheckpointFault, Goto, Return, CheckpointPcs
  <2>2. \A u \in Threads \ {t} : pc[u] = "idle" /\ pc'[u] = "idle"
    BY <1>1, <2>1 DEF Single, Busy, CheckpointPcs
  <2>3. ASSUME pc'[t] \in {"scan", "apply"} PROVE sb'.head <= win'[t].head
    <3>. DEFINE c == win[t].head
    <3>1. c \in Slots /\ sb.head \in Slots /\ N \in Nat
      BY <1>2 DEF Windows
    <3>2. win'[t].head >= 1
      BY <2>3 DEF RingInv, Ahead, Scanning
    <3>3. CASE CheckpointRead(t)
      <4>1. pc[t] = "scan" /\ sb' = sb /\ (win' = win \/ win' = [win EXCEPT ![t] = [head |-> Succ(c), tail |-> win[t].tail]])
        BY <3>3 DEF CheckpointRead, Advance
      <4>2. sb.head <= c /\ (win'[t].head = c \/ win'[t].head = Succ(c))
        BY <1>1, <1>2, <4>1 DEF Single, Scanning
      <4>. HIDE DEF c
      <4>. QED  BY <3>1, <3>2, <4>1, <4>2 DEF Succ, Slots
    <3>4. CASE CheckpointApply(t)
      <4>1. pc[t] = "apply" /\ sb' = sb /\ win' = [win EXCEPT ![t] = [head |-> Succ(Succ(c)), tail |-> win[t].tail]]
        BY <3>4 DEF CheckpointApply, Advance
      <4>2. sb.head <= c /\ win'[t].head = Succ(Succ(c)) /\ c < win[t].tail /\ win[t].tail \in Slots
        BY <1>1, <1>2, <4>1 DEF Single, Scanning, RingInv, Ahead, Windows
      <4>. HIDE DEF c
      <4>3. Succ(c) = c + 1
        BY <3>1, <4>2 DEF Succ, Slots
      <4>4. Succ(c + 1) = c + 2
        BY <3>1, <3>2, <4>2, <4>3 DEF Succ, Slots
      <4>. QED  BY <3>1, <4>1, <4>2, <4>3, <4>4 DEF Slots
    <3>5. CASE ~CheckpointRead(t) /\ ~CheckpointApply(t)
      BY <1>2, <1>7, <2>3, <3>5 DEF Checkpoint, CheckpointScanned, CheckpointHead, CheckpointSbWrite, CheckpointEnd,
           CheckpointFault, Goto, Return
    <3>. QED  BY <3>3, <3>4, <3>5
  <2>. QED  BY <1>3, <2>1, <2>2, <2>3 DEF CheckpointPcs
<1>8. ASSUME \A u \in Threads : pc'[u] = "idle" PROVE Single'
  BY <1>8 DEF Single, Busy, Scanning
<1>9. CASE Mount \/ RecoverRead \/ RecoverWrite \/ RecoverEnd \/ RecoverFault
  <2>1. mode # "up" /\ pc' = pc
    BY <1>9 DEF Mount, RecoverRead, RecoverWrite, RecoverEnd, RecoverFault
  <2>. QED  BY <1>8, <2>1 DEF Quiet
<1>10. CASE Environment
  <2>1. CASE Die
    BY <1>8, <2>1 DEF Die
  <2>2. ASSUME NEW a \in Addrs, WriteBack(a) PROVE Single'
    BY <1>1, <2>2 DEF WriteBack, Single, Busy, Scanning
  <2>. QED  BY <1>10, <2>1, <2>2 DEF Environment, Crash, PowerCut
<1>11. CASE UNCHANGED vars
  BY <1>1, <1>11 DEF vars, Single, Busy, Scanning
<1>. QED  BY <1>4, <1>5, <1>6, <1>7, <1>9, <1>10, <1>11 DEF Next, Calls, Faults

(***************************************************************************)
(* The contents g that the journal holds.                                  *)
(***************************************************************************)

\* The store f, with the commit whose superblock is on disk but which has not
\* yet returned.
Current(f, g) ==
  /\ (\A t \in Threads : ~Synced(t)) => g = f
  /\ \A t \in Threads : Synced(t) => g = Overlay(f, Logged(t))

\* The window still has a write of h that is to be applied: by the checkpoint
\* that runs or, when none does, by the next one.
Pending(h) ==
  IF \E t \in Threads : Checkpointing(t)
  THEN \E t \in Threads : Scanning(t) /\ ~Clear(disk, h, win[t].head, win[t].tail)
  ELSE ~Clear(disk, h, sb.head, dw.tail)

\* Mounted, the windows log g and every home block has g's content or is about
\* to get it.
Held(g) ==
  /\ Logs(disk, g, dw.head, dw.tail)
  /\ \A t \in Threads : Scanning(t) => Logs(disk, g, win[t].head, win[t].tail)
  /\ \A h \in Homes : disk[h] = g[h] \/ Pending(h)

\* Replaying, recovery has still to write what differs from g.
Todo == IF replay = <<>> THEN open ELSE replay
Replaying(g) ==
  /\ current \in dw.head .. dw.tail /\ WellPaired(disk, current, dw.tail)
  /\ \A h \in Homes : Overlay(HomeOf(disk), Todo)[h] = g[h] \/ ~Clear(disk, h, current, dw.tail)
  /\ \A h \in Targets(Todo) : ~Clear(disk, h, dw.head, dw.tail)
  /\ open # <<>> => replay = <<>> /\ current > dw.head /\ disk[current - 1].kind = "data"

Kept(g) ==
  /\ mode = "up" => Held(g) /\ \E f \in stores : stores = {f} /\ Current(f, g)
  /\ mode # "up" => Shows(disk, g, dw.head, dw.tail)
  /\ mode = "recover" => Replaying(g)
  /\ crossed = {} /\ mode # "up" => g \in stores

Ground == TypeInv /\ Quiet /\ RingInv /\ StoresKnown /\ Lone /\ Emptied

\* Where a checkpoint that scans is.
LEMMA ScanPlace ==
  ASSUME Ground, NEW t \in Threads, Scanning(t)
  PROVE  /\ mode = "up" /\ sb.tail = dw.tail /\ win[t].tail = dw.tail
         /\ win[t].head \in 1 .. dw.tail /\ WellPaired(disk, win[t].head, dw.tail)
         /\ sb.head \in dw.head .. dw.tail
         /\ crossed = {} => sb.head <= win[t].head
<1>1. Checkpointing(t)
  BY DEF Scanning, Checkpointing, CheckpointPcs
<1>2. mode = "up" /\ Ahead(t) /\ win[t].tail = sb.tail /\ sb.tail = dw.tail /\ sb.head \in dw.head .. dw.tail
  BY <1>1, CheckpointRuns DEF Ground
<1>. QED  BY <1>2 DEF Ahead, Ground, Lone, Single

\* Where the windows of disk, media and memory are.
LEMMA Places ==
  ASSUME Ground
  PROVE  /\ dw.head \in 1 .. N - 1 /\ dw.tail \in dw.head .. N - 1 /\ WellPaired(disk, dw.head, dw.tail)
         /\ dw.head < dw.tail => disk[dw.tail - 1].kind = "jcmt"
         /\ mw.head \in 1 .. N - 1 /\ mw.tail \in mw.head .. dw.tail /\ mw.head <= dw.head
         /\ WellPaired(disk, mw.head, mw.tail)
         /\ mode # "down" => sb.head \in dw.head .. dw.tail
BY DEF Ground, RingInv, DiskRing, MediaRing, MemoryRing, Ring

\* The slots of the ring but its first decide what its windows say.
LEMMA RingSays ==
  ASSUME \A s \in 1 .. N - 1 : disk'[s] = disk[s], NEW lo \in 1 .. N - 1, NEW hi \in 0 .. N - 1
  PROVE  /\ \A h : Clear(disk', h, lo, hi) <=> Clear(disk, h, lo, hi)
         /\ \A g : Logs(disk', g, lo, hi) <=> Logs(disk, g, lo, hi)
         /\ WellPaired(disk, lo, hi) => WellPaired(disk', lo, hi)
<1>. DEFINE e == disk'
<1>1. \A s \in lo .. hi - 1 : e[s] = disk[s]
  OBVIOUS
<1>2. lo \in Int /\ hi \in Int
  OBVIOUS
<1>. HIDE DEF e
<1>3. /\ \A h : Clear(e, h, lo, hi) <=> Clear(disk, h, lo, hi)
      /\ \A g : Logs(e, g, lo, hi) <=> Logs(disk, g, lo, hi)
      /\ WellPaired(disk, lo, hi) => WellPaired(e, lo, hi)
  BY <1>1, <1>2, SaysFrame, PairFrame
<1>. QED  BY <1>3 DEF e

Ebb == IF mode = "up" THEN sb.head ELSE dw.head

\* Within the limits, a block that the live window does not speak of is home.
LEMMA Settled ==
  ASSUME Ground, crossed = {}, NEW g, Kept(g), NEW h \in Homes, Clear(disk, h, Ebb, dw.tail)
  PROVE  disk[h] = g[h]
<1>1. CASE mode # "up"
  BY <1>1 DEF Ebb, Kept, Shows
<1>2. CASE mode = "up"
  <2>1. Clear(disk, h, sb.head, dw.tail) /\ (disk[h] = g[h] \/ Pending(h))
    BY <1>2 DEF Ebb, Kept, Held
  <2>2. ASSUME NEW t \in Threads, Scanning(t) PROVE Clear(disk, h, win[t].head, win[t].tail)
    <3>1. /\ win[t].tail = dw.tail /\ win[t].head \in 1 .. dw.tail /\ sb.head <= win[t].head
          /\ sb.head \in dw.head .. dw.tail
      BY <2>2, ScanPlace
    <3>2. dw.head \in 1 .. N - 1 /\ dw.tail \in dw.head .. N - 1
      BY Places
    <3>3. /\ sb.head \in Int /\ win[t].head \in Int /\ dw.tail \in Int
          /\ sb.head <= win[t].head /\ win[t].head <= dw.tail
      BY <3>1, <3>2
    <3>. QED  BY ONLY <2>1, <3>1, <3>3, ClearParts
  <2>. QED  BY <2>1, <2>2 DEF Pending
<1>. QED  BY <1>1, <1>2

\* So the disk shows g at every moment.
LEMMA ShowsNow ==
  ASSUME Ground, crossed = {}, NEW g, Kept(g)
  PROVE  Shows(disk, g, dw.head, dw.tail)
<1>1. CASE mode # "up"
  BY <1>1 DEF Kept
<1>2. CASE mode = "up"
  <2>1. Logs(disk, g, dw.head, dw.tail)
    BY <1>2 DEF Kept, Held
  <2>2. ASSUME NEW h \in Homes, Clear(disk, h, dw.head, dw.tail) PROVE disk[h] = g[h]
    <3>1. sb.head \in dw.head .. dw.tail /\ dw.head \in 1 .. N - 1 /\ dw.tail \in dw.head .. N - 1
      BY <1>2, Places
    <3>2. /\ dw.head \in Int /\ sb.head \in Int /\ dw.tail \in Int
          /\ dw.head <= sb.head /\ sb.head <= dw.tail
      BY <3>1
    <3>3. Clear(disk, h, sb.head, dw.tail)
      BY ONLY <2>2, <3>2, ClearParts
    <3>. QED  BY <1>2, <3>3, Settled DEF Ebb
  <2>. QED  BY <2>1, <2>2 DEF Shows
<1>. QED  BY <1>1, <1>2

\* A mounted journal without a commit that is on disk but has not returned.
LEMMA UpKept ==
  ASSUME NEW g, Kept(g), mode = "up", mode' = "up", stores' = stores, \A t \in Threads : ~Synced(t) /\ ~Synced(t)', Held(g)'
  PROVE  Kept(g)'
<1>1. PICK f \in stores : stores = {f} /\ Current(f, g)
  BY DEF Kept
<1>2. g = f
  BY <1>1 DEF Current
<1>3. Current(f, g)'
  BY <1>2 DEF Current
<1>. QED  BY <1>1, <1>3 DEF Kept

\* A step of a commit that writes behind the window on disk, or nothing.
LEMMA BehindKept ==
  ASSUME Ground, NEW g, Kept(g), mode = "up", mode' = "up", stores' = stores, sb'.head = sb.head,
         \A t \in Threads : ~Synced(t) /\ ~Synced(t)' /\ ~Checkpointing(t) /\ ~Checkpointing(t)',
         \A s \in 0 .. dw.tail - 1 : disk'[s] = disk[s], \A h \in Homes : disk'[h] = disk[h]
  PROVE  Kept(g)' /\ dw' = dw
<1>. DEFINE e == disk'
            lo == dw.head
            hi == dw.tail
            mid == sb.head
<1>1. lo \in 1 .. N - 1 /\ hi \in lo .. N - 1 /\ mid \in lo .. hi
  BY Places
<1>2. dw' = dw
  <2>1. disk'[0] = disk[0]
    BY <1>1
  <2>. QED  BY <2>1, WindowFrame DEF dw
<1>3. Logs(disk, g, lo, hi) /\ \A h \in Homes : disk[h] = g[h] \/ ~Clear(disk, h, mid, hi)
  BY DEF Kept, Held, Pending
<1>4. Logs(e, g, lo, hi) /\ \A h \in Homes : Clear(e, h, mid, hi) <=> Clear(disk, h, mid, hi)
  <2>1. \A s \in lo .. hi - 1 : e[s] = disk[s]
    BY <1>1
  <2>2. \A s \in mid .. hi - 1 : e[s] = disk[s]
    BY <1>1
  <2>3. lo \in Int /\ hi \in Int /\ mid \in Int
    BY <1>1
  <2>. HIDE DEF e, lo, hi, mid
  <2>. QED  BY ONLY <1>3, <2>1, <2>2, <2>3, SaysFrame
<1>5. \A t \in Threads : ~Scanning(t)'
  BY DEF Checkpointing, Scanning, CheckpointPcs
<1>6. Held(g)'
  <2>1. \A h \in Homes : disk'[h] = g[h] \/ ~Clear(disk', h, sb'.head, dw'.tail)
    BY <1>2, <1>3, <1>4
  <2>2. Logs(disk', g, dw'.head, dw'.tail)
    BY <1>2, <1>4
  <2>. QED  BY <1>5, <2>1, <2>2 DEF Held, Pending
<1>. QED  BY <1>2, <1>6, UpKept

\* Who runs beside a commit: nobody.
LEMMA CommitAlone ==
  ASSUME Ground, NEW t \in Threads, Committing(t)
  PROVE  /\ mode = "up" /\ Journalled(t) /\ \A u \in Threads \ {t} : pc[u] = "idle"
         /\ \A u \in Threads : ~Checkpointing(u)
         /\ \A u \in Threads \ {t} : ~Synced(u)
         /\ pc \in [Threads -> {"idle"} \cup CommitPcs \cup CheckpointPcs]
<1>1. /\ mode = "up" /\ Journalled(t) /\ \A u \in Threads \ {t} : pc[u] = "idle"
      /\ pc \in [Threads -> {"idle"} \cup CommitPcs \cup CheckpointPcs]
  BY CommitRuns DEF Ground
<1>. QED  BY <1>1 DEF Checkpointing, CheckpointPcs, Committing, CommitPcs, Synced

\* The blocks a commit writes lie behind the window on disk.
LEMMA CommitBehind ==
  ASSUME Ground, NEW t \in Threads,
         \/ \E ws \in Workload : CommitBegin(t, ws)
         \/ CommitFull(t) \/ AllocHeader(t) \/ AllocData(t) \/ WriteHeader(t) \/ WriteData(t)
         \/ AllocCommit(t) \/ WriteCommitRecord(t) \/ SyncCopy(t)
  PROVE  /\ mode = "up" /\ mode' = "up" /\ stores' = stores /\ sb'.head = sb.head /\ media' = media
         /\ ~Synced(t) /\ pc'[t] \in (CommitPcs \ {"sbSync", "fsync"}) \cup {"idle"}
         /\ \A u \in Threads \ {t} : pc'[u] = pc[u]
         /\ \A s \in 0 .. dw.tail - 1 : disk'[s] = disk[s]
         /\ \A h \in Homes : disk'[h] = disk[h]
<1>1. pc \in [Threads -> {"idle"} \cup CommitPcs \cup CheckpointPcs] /\ disk \in [Addrs -> Blocks]
  BY DEF Ground, TypeInv, TypeOK
<1>2. mode' = mode /\ stores' = stores /\ sb'.head = sb.head /\ media' = media
  <2>1. mode' = mode /\ stores' = stores /\ media' = media
    BY DEF CommitBegin, CommitFull, AllocHeader, AllocData, AllocCommit, WriteHeader, WriteData, WriteCommitRecord,
       SyncCopy, Write, diskVars, mountVars, ghosts
  <2>2. sb' = sb \/ AllocSlot
    BY DEF CommitBegin, CommitFull, AllocHeader, AllocData, AllocCommit, WriteHeader, WriteData, WriteCommitRecord,
       SyncCopy
  <2>. QED  BY <2>1, <2>2 DEF AllocSlot
<1>3. /\ pc[t] = "idle" \/ pc[t] \in CommitPcs \ {"sbSync", "fsync"}
      /\ pc'[t] \in (CommitPcs \ {"sbSync", "fsync"}) \cup {"idle"}
      /\ \A u \in Threads \ {t} : pc'[u] = pc[u]
  BY <1>1 DEF CommitBegin, CommitFull, AllocHeader, AllocData, AllocCommit, WriteHeader, WriteData, WriteCommitRecord,
     SyncCopy, Goto, Return, CommitPcs, Busy
<1>4. mode = "up"
  BY DEF CommitBegin, CommitFull, AllocHeader, AllocData, AllocCommit, WriteHeader, WriteData, WriteCommitRecord,
     SyncCopy, Ground, Quiet
<1>5. CASE disk' = disk
  BY <1>2, <1>3, <1>4, <1>5 DEF Synced, CommitPcs
<1>6. CASE WriteHeader(t) \/ WriteData(t) \/ WriteCommitRecord(t)
  <2>1. Committing(t)
    BY <1>6 DEF WriteHeader, WriteData, WriteCommitRecord, Committing, CommitPcs
  <2>2. Journalled(t) /\ dw.tail \in Nat /\ done[t] \in Nat
    BY <2>1, CommitRuns DEF Ground
  <2>. DEFINE n == dw.tail
              k == done[t]
  <2>3. /\ pc[t] \in {"wrHdr", "wrDat"} => hslot[t] = n + 2 * k /\ dslot[t] = n + 2 * k + 1
        /\ pc[t] = "wrCmt" => hslot[t] = n + 2 * k
    BY <1>6, <2>2 DEF WriteHeader, WriteData, WriteCommitRecord, Journalled, Synced
  <2>4. /\ pc[t] \in {"wrHdr", "wrDat"} => hslot[t] >= n /\ dslot[t] >= n
        /\ pc[t] = "wrCmt" => hslot[t] >= n
    BY <2>2, <2>3
  <2>5. hslot[t] \in Slots /\ dslot[t] \in Slots
    BY DEF Ground, TypeInv, TypeOK
  <2>. HIDE DEF n, k
  <2>0. \E x \in Slots : \E c : x >= n /\ disk' = Put(disk, x, c)
    BY <1>6, <2>4, <2>5 DEF WriteHeader, WriteData, WriteCommitRecord, Write
  <2>6. PICK x \in Slots : \E c : x >= n /\ disk' = Put(disk, x, c)
    BY <2>0
  <2>7. PICK c : x >= n /\ disk' = Put(disk, x, c)
    BY <2>6
  <2>8. \A y \in Addrs : y # x => disk'[y] = disk[y]
    BY <1>1, <2>7 DEF Put
  <2>9. (\A s \in 0 .. n - 1 : s # x /\ s \in Addrs) /\ \A h \in Homes : h # x /\ h \in Addrs
    <3>1. n \in Nat /\ n <= N - 1 /\ x \in Nat /\ x <= N - 1
      BY <2>2, Places DEF n, Slots
    <3>2. \A h \in Homes : h # x
      BY <3>1
    <3>. QED  BY <2>7, <3>1, <3>2 DEF Addrs, Slots
  <2>. QED  BY <1>2, <1>3, <1>4, <1>6, <2>8, <2>9 DEF Synced, CommitPcs, n, WriteHeader, WriteData, WriteCommitRecord
<1>7. disk' = disk \/ WriteHeader(t) \/ WriteData(t) \/ WriteCommitRecord(t)
  BY DEF CommitBegin, CommitFull, AllocHeader, AllocData, AllocCommit, SyncCopy, diskVars
<1>. QED  BY <1>5, <1>6, <1>7

\* Until the superblock is written, a commit changes nothing that a mount would see.
LEMMA CommitKept ==
  ASSUME Ground, Ground', NEW g, Kept(g), NEW t \in Threads,
         \/ \E ws \in Workload : CommitBegin(t, ws)
         \/ CommitFull(t) \/ AllocHeader(t) \/ AllocData(t) \/ WriteHeader(t) \/ WriteData(t)
         \/ AllocCommit(t) \/ WriteCommitRecord(t) \/ SyncCopy(t)
  PROVE  Kept(g)' /\ dw' = dw /\ \A u \in Threads : ~Synced(u) /\ ~Synced(u)' /\ ~Checkpointing(u) /\ ~Checkpointing(u)'
<1>1. /\ mode = "up" /\ mode' = "up" /\ stores' = stores /\ sb'.head = sb.head
      /\ ~Synced(t) /\ pc'[t] \in (CommitPcs \ {"sbSync", "fsync"}) \cup {"idle"}
      /\ \A u \in Threads \ {t} : pc'[u] = pc[u]
      /\ \A s \in 0 .. dw.tail - 1 : disk'[s] = disk[s]
      /\ \A h \in Homes : disk'[h] = disk[h]
  BY CommitBehind
<1>2. Committing(t) \/ Committing(t)'
  BY <1>1 DEF CommitBegin, CommitFull, AllocHeader, AllocData, AllocCommit, WriteHeader, WriteData, WriteCommitRecord,
     SyncCopy, Committing, CommitPcs, Goto, Ground, TypeInv, TypeOK
<1>3. \A u \in Threads \ {t} : pc[u] = "idle" /\ pc'[u] = "idle"
  BY <1>1, <1>2 DEF Ground, RingInv, Alone
<1>4. pc[t] \in CommitPcs \/ pc[t] = "idle"
  BY DEF CommitBegin, CommitFull, AllocHeader, AllocData, AllocCommit, WriteHeader, WriteData, WriteCommitRecord,
     SyncCopy, CommitPcs, Busy
<1>5. \A u \in Threads : ~Synced(u) /\ ~Synced(u)' /\ ~Checkpointing(u) /\ ~Checkpointing(u)'
  BY <1>1, <1>3, <1>4 DEF Synced, Checkpointing, CommitPcs, CheckpointPcs
<1>. QED  BY <1>1, <1>5, BehindKept

\* What a commit has journalled, once its record is written.
LEMMA JournalledSays ==
  ASSUME NEW d, NEW lo \in Int, NEW n \in Nat, NEW ws, NEW h,
         \A i \in 1 .. n : d[lo + 2 * i - 2] = Header(ws[i][1], ws[i][2]) /\ d[lo + 2 * i - 1] = Data(ws[i][2]),
         d[lo + 2 * n].kind = "jcmt"
  PROVE  /\ (\A i \in 1 .. n : ws[i][1] # h) => Clear(d, h, lo, lo + 2 * n + 1)
         /\ \A i \in 1 .. n : LastWrite(ws, n, h, i) => LastIn(d, h, lo, lo + 2 * n + 1, Data(ws[i][2]))
<1>. DEFINE hi == lo + 2 * n + 1
<1>1. ASSUME NEW s \in lo .. hi - 1, Targeted(d, s, h)
      PROVE  \E i \in 1 .. n : s = lo + 2 * i - 2 /\ ws[i][1] = h
  <2>1. s # lo + 2 * n
    BY <1>1 DEF Targeted
  <2>2. PICK j \in Nat : s - lo = 2 * j \/ s - lo = 2 * j + 1
    <3>1. s - lo \in Nat
      OBVIOUS
    <3>2. \A m \in Nat : m \div 2 \in Nat /\ (m = 2 * (m \div 2) \/ m = 2 * (m \div 2) + 1)
      OBVIOUS
    <3>. QED  BY <3>1, <3>2
  <2>3. s < lo + 2 * n
    BY <2>1
  <2>. DEFINE i == j + 1
  <2>4. i \in 1 .. n /\ (s = lo + 2 * i - 2 \/ s = lo + 2 * i - 1)
    BY <2>2, <2>3
  <2>. HIDE DEF i
  <2>9. d[lo + 2 * i - 2] = Header(ws[i][1], ws[i][2]) /\ d[lo + 2 * i - 1] = Data(ws[i][2])
    BY <2>4
  <2>5. d[lo + 2 * i - 1].kind # "jdat"
    BY <2>9 DEF Data
  <2>6. s = lo + 2 * i - 2
    BY <1>1, <2>4, <2>5 DEF Targeted
  <2>7. d[s].target = ws[i][1]
    BY <2>6, <2>9 DEF Header
  <2>. QED  BY <1>1, <2>4, <2>6, <2>7 DEF Targeted
<1>2. (\A i \in 1 .. n : ws[i][1] # h) => Clear(d, h, lo, hi)
  BY <1>1 DEF Clear
<1>3. ASSUME NEW i \in 1 .. n, LastWrite(ws, n, h, i) PROVE LastIn(d, h, lo, hi, Data(ws[i][2]))
  <2>. DEFINE s == lo + 2 * i - 2
  <2>1. s \in lo .. hi - 2 /\ s + 1 = lo + 2 * i - 1 /\ s \in Int
    OBVIOUS
  <2>2. Targeted(d, s, h) /\ d[s + 1] = Data(ws[i][2])
    <3>1. d[s] = Header(ws[i][1], ws[i][2]) /\ d[s + 1] = Data(ws[i][2])
      BY <2>1
    <3>. HIDE DEF s
    <3>. QED  BY <1>3, <3>1 DEF Targeted, Header, LastWrite
  <2>3. ASSUME NEW r \in s + 1 .. hi - 1, Targeted(d, r, h) PROVE FALSE
    <3>1. r \in lo .. hi - 1
      BY <2>1
    <3>2. PICK j \in 1 .. n : r = lo + 2 * j - 2 /\ ws[j][1] = h
      BY <1>1, <2>3, <3>1
    <3>3. j \in i + 1 .. n
      BY <2>1, <3>2
    <3>. QED  BY <1>3, <3>2, <3>3 DEF LastWrite
  <2>. HIDE DEF s, hi
  <2>. QED  BY <2>1, <2>2, <2>3 DEF LastIn, Clear
<1>. QED  BY <1>2, <1>3

\* The superblock that a commit writes adds its blocks to the window.
LEMMA SyncWriteKept ==
  ASSUME Ground, Ground', NEW g \in [Homes -> Blocks], Kept(g), NEW t \in Threads, SyncWrite(t),
         NEW e, e = Overlay(g, Logged(t))
  PROVE  /\ e \in [Homes -> Blocks] /\ Kept(e)'
         /\ dw' = sb /\ \A u \in Threads \ {t} : pc'[u] = pc[u] /\ pc[u] = "idle"
         /\ \A s \in 1 .. N - 1 : disk'[s] = disk[s]
         /\ \A h \in Homes : disk'[h] = disk[h]
         /\ \A h \in Homes : Clear(disk', h, sb.head, sb.tail) =>
              e[h] = g[h] /\ Clear(disk, h, sb.head, dw.tail)
<1>. DEFINE n == dw.tail
            k == done[t]
            ws == txn[t]
            L == Logged(t)
            lo == sb.head
            hi == sb.tail
<1>1. /\ pc[t] = "sbWrite" /\ disk' = Put(disk, 0, JournalSb(win[t])) /\ media' = media
      /\ pc' = [pc EXCEPT ![t] = "sbSync"] /\ mode' = mode /\ sb' = sb /\ txn' = txn /\ stores' = stores
  BY DEF SyncWrite, Write, Goto, mountVars, commitVars, ghosts
<1>2. Committing(t)
  BY <1>1 DEF Committing, CommitPcs
<1>3. /\ mode = "up" /\ Journalled(t) /\ \A u \in Threads \ {t} : pc[u] = "idle"
      /\ \A u \in Threads : ~Checkpointing(u)
      /\ pc \in [Threads -> {"idle"} \cup CommitPcs \cup CheckpointPcs]
  BY <1>2, CommitAlone
<1>4. /\ win[t] = sb /\ hi = n + 2 * k + 1 /\ k = Len(ws) /\ disk[n + 2 * k].kind = "jcmt"
      /\ \A i \in 1 .. k : disk[n + 2 * i - 2] = Header(ws[i][1], ws[i][2]) /\ disk[n + 2 * i - 1] = Data(ws[i][2])
  BY <1>1, <1>3 DEF Journalled, Synced
<1>5. /\ dw.head \in 1 .. N - 1 /\ n \in dw.head .. N - 1 /\ lo \in dw.head .. n
      /\ sb \in Windows /\ disk \in [Addrs -> Blocks]
  BY <1>3, Places DEF Ground, TypeInv, TypeOK
<1>6. L \in Writes /\ DOMAIN L = 1 .. k /\ k \in Nat
      /\ \A i \in 1 .. k : L[i] = <<ws[i][1], Data(ws[i][2])>>
  BY <1>4, LoggedType DEF Ground
<1>7. lo \in Int /\ n \in Int /\ hi \in Int /\ dw.head \in Int /\ dw.head <= lo /\ lo <= n /\ n <= hi /\ hi \in 1 .. N - 1
  BY <1>4, <1>5, <1>6 DEF Windows, Slots
<1>8. e \in [Homes -> Blocks] /\ e = Overlay(g, L)
  BY <1>6, OverlayWrites
<1>9. Logs(disk, g, dw.head, n) /\ \A h \in Homes : disk[h] = g[h] \/ ~Clear(disk, h, lo, n)
  BY <1>3 DEF Kept, Held, Pending
<1>. HIDE DEF n, k, ws, L, lo, hi
<1>10. Logs(disk, g, lo, n)
  BY ONLY <1>7, <1>9, LogsSuffix
<1>11. ASSUME NEW h \in Homes
       PROVE  /\ Clear(disk, h, lo, hi) \/ LastIn(disk, h, lo, hi, e[h])
              /\ disk[h] = e[h] \/ ~Clear(disk, h, lo, hi)
              /\ Clear(disk, h, lo, hi) => e[h] = g[h] /\ Clear(disk, h, lo, n)
  <2>0. h \in DOMAIN g
    OBVIOUS
  <2>1. CASE \E i \in 1 .. k : ws[i][1] = h
    <3>1. PICK i \in 1 .. k : LastWrite(ws, k, h, i)
      BY <1>6, <2>1, LastWriteExists
    <3>2. LastIn(disk, h, n, hi, Data(ws[i][2]))
      BY ONLY <1>4, <1>6, <1>7, <3>1, JournalledSays
    <3>3. LastWrite(L, k, h, i)
      <4>1. \A j \in i + 1 .. k : j \in 1 .. k
        BY <1>6
      <4>. QED  BY <1>6, <3>1, <4>1 DEF LastWrite
    <3>4. e[h] = L[i][2]
      BY <1>6, <1>8, <2>0, <3>3, OverlayHit
    <3>5. LastIn(disk, h, n, hi, e[h])
      BY <1>6, <3>2, <3>4
    <3>6. LastIn(disk, h, lo, hi, e[h])
      BY ONLY <1>7, <3>5, LastParts
    <3>7. ~Clear(disk, h, lo, hi)
      BY ONLY <1>7, <3>6, LastNotClear
    <3>. QED  BY <3>6, <3>7
  <2>2. CASE \A i \in 1 .. k : ws[i][1] # h
    <3>1. Clear(disk, h, n, hi)
      BY ONLY <1>4, <1>6, <1>7, <2>2, JournalledSays
    <3>2. \A i \in 1 .. k : L[i][1] # h
      BY <1>6, <2>2
    <3>3. e[h] = g[h]
      BY <1>6, <1>8, <2>0, <3>2, OverlayMiss
    <3>4. Clear(disk, h, lo, hi) <=> Clear(disk, h, lo, n)
      BY ONLY <1>7, <3>1, ClearParts
    <3>5. LastIn(disk, h, lo, n, g[h]) => LastIn(disk, h, lo, hi, g[h])
      BY ONLY <1>7, <3>1, LastParts
    <3>6. Clear(disk, h, lo, n) \/ LastIn(disk, h, lo, n, g[h])
      BY <1>10 DEF Logs
    <3>. QED  BY <1>9, <3>3, <3>4, <3>5, <3>6
  <2>. QED  BY <2>1, <2>2
<1>12. disk'[0] = JournalSb(sb) /\ (\A s \in 1 .. N - 1 : disk'[s] = disk[s]) /\ \A h \in Homes : disk'[h] = disk[h]
  <2>1. 0 \in Addrs /\ \A y \in Addrs : y # 0 => disk'[y] = disk[y]
    BY <1>1, <1>5 DEF Put, Addrs, Slots
  <2>2. \A s \in 1 .. N - 1 : s \in Addrs /\ s # 0
    BY DEF Addrs, Slots
  <2>3. \A h \in Homes : h \in Addrs /\ h # 0
    BY DEF Addrs
  <2>4. disk'[0] = JournalSb(sb)
    BY <1>1, <1>4, <1>5, <2>1 DEF Put
  <2>. QED  BY <2>1, <2>2, <2>3, <2>4
<1>13. dw' = sb
  <2>1. sb.head # 0
    BY <1>5 DEF lo
  <2>. QED  BY <1>5, <1>12, <2>1, WindowOf DEF dw
<1>14. lo \in 1 .. N - 1 /\ hi \in 0 .. N - 1
  BY <1>5, <1>7
<1>15. /\ \A h \in Homes : Clear(disk', h, lo, hi) <=> Clear(disk, h, lo, hi)
       /\ Logs(disk', e, lo, hi) <=> Logs(disk, e, lo, hi)
  BY <1>12, <1>14, RingSays
<1>16. Logs(disk', e, lo, hi) /\ \A h \in Homes : disk'[h] = e[h] \/ ~Clear(disk', h, lo, hi)
  BY <1>11, <1>12, <1>15 DEF Logs
<1>17. \A u \in Threads : ~Checkpointing(u)' /\ ~Scanning(u)' /\ (Synced(u)' => u = t) /\ ~Synced(u)
  BY <1>1, <1>3 DEF Checkpointing, Scanning, CheckpointPcs, Synced
<1>18. Held(e)'
  <2>1. /\ Logs(disk', e, dw'.head, dw'.tail)
        /\ \A h \in Homes : disk'[h] = e[h] \/ ~Clear(disk', h, sb'.head, dw'.tail)
    BY <1>1, <1>13, <1>16 DEF lo, hi
  <2>. QED  BY <1>17, <2>1 DEF Held, Pending
<1>19. PICK f \in stores : stores = {f} /\ Current(f, g)
  BY <1>3 DEF Kept
<1>20. g = f
  BY <1>17, <1>19 DEF Current
<1>21. Logged(t)' = L /\ Synced(t)'
  BY <1>1, <1>3 DEF Logged, L, Synced
<1>22. Current(f, e)'
  BY <1>8, <1>17, <1>20, <1>21 DEF Current
<1>23. Kept(e)'
  BY <1>1, <1>3, <1>18, <1>19, <1>22 DEF Kept
<1>24. \A u \in Threads \ {t} : pc'[u] = pc[u] /\ pc[u] = "idle"
  BY <1>1, <1>3
<1>25. \A h \in Homes : Clear(disk', h, lo, hi) => e[h] = g[h] /\ Clear(disk, h, lo, n)
  BY <1>11, <1>15
<1>. QED  BY <1>8, <1>12, <1>13, <1>23, <1>24, <1>25 DEF lo, hi, n

\* The flushes that end a commit change nothing on the disk.
LEMMA SyncEndKept ==
  ASSUME Ground, Ground', NEW g \in [Homes -> Blocks], Kept(g), NEW t \in Threads, SyncFlush(t) \/ CommitEnd(t)
  PROVE  /\ Kept(g)' /\ dw' = dw /\ disk' = disk /\ media' = disk /\ sb' = sb /\ mode' = "up" /\ mode = "up"
         /\ \A u \in Threads : ~Checkpointing(u)' /\ ~Checkpointing(u)
<1>1. Committing(t) /\ Synced(t)
  BY DEF SyncFlush, CommitEnd, Committing, CommitPcs, Synced
<1>2. /\ mode = "up" /\ \A u \in Threads \ {t} : pc[u] = "idle"
      /\ \A u \in Threads : ~Checkpointing(u)
      /\ pc \in [Threads -> {"idle"} \cup CommitPcs \cup CheckpointPcs]
  BY <1>1, CommitAlone
<1>3. disk' = disk /\ media' = disk /\ sb' = sb /\ mode' = mode /\ \A u \in Threads \ {t} : pc'[u] = "idle"
  BY <1>2 DEF SyncFlush, CommitEnd, SyncAll, Goto, Return, mountVars, commitVars
<1>4. pc'[t] \in {"fsync", "idle"}
  BY <1>2 DEF SyncFlush, CommitEnd, Goto, Return
<1>5. dw' = dw
  BY <1>3 DEF dw
<1>6. \A u \in Threads : ~Checkpointing(u)' /\ ~Scanning(u)'
  BY <1>3, <1>4 DEF Checkpointing, Scanning, CheckpointPcs
<1>7. Held(g)'
  <2>1. Logs(disk, g, dw.head, dw.tail) /\ \A h \in Homes : disk[h] = g[h] \/ ~Clear(disk, h, sb.head, dw.tail)
    BY <1>2 DEF Kept, Held, Pending
  <2>2. Logs(disk', g, dw'.head, dw'.tail) /\ \A h \in Homes : disk'[h] = g[h] \/ ~Clear(disk', h, sb'.head, dw'.tail)
    BY <1>3, <1>5, <2>1
  <2>. QED  BY <1>6, <2>2 DEF Held, Pending
<1>8. PICK f \in stores : stores = {f} /\ Current(f, g)
  BY <1>2 DEF Kept
<1>9. g = Overlay(f, Logged(t))
  BY <1>1, <1>8 DEF Current
<1>10. CASE SyncFlush(t)
  <2>1. txn' = txn /\ stores' = stores /\ pc'[t] = "fsync"
    BY <1>2, <1>10 DEF SyncFlush, Goto, commitVars, ghosts
  <2>2. Logged(t)' = Logged(t) /\ \A u \in Threads : Synced(u)' => u = t
    BY <1>3, <2>1 DEF Logged, Synced
  <2>3. Synced(t)'
    BY <2>1 DEF Synced
  <2>4. Current(f, g)'
    BY <1>9, <2>2, <2>3 DEF Current
  <2>. QED  BY <1>2, <1>3, <1>5, <1>6, <1>7, <1>8, <2>1, <2>4 DEF Kept
<1>11. CASE CommitEnd(t)
  <2>1. stores' = {Overlay(f, Logged(t)) : x \in {f}} /\ pc'[t] = "idle"
    BY <1>2, <1>8, <1>11 DEF CommitEnd, Return, Goto
  <2>2. stores' = {g} /\ \A u \in Threads : ~Synced(u)'
    BY <1>3, <1>9, <2>1 DEF Synced
  <2>3. Current(g, g)'
    BY <2>2 DEF Current
  <2>. QED  BY <1>2, <1>3, <1>5, <1>6, <1>7, <2>2, <2>3 DEF Kept
<1>. QED  BY <1>10, <1>11

\* Who runs beside a checkpoint: checkpoints.
LEMMA CheckpointBeside ==
  ASSUME Ground, NEW t \in Threads, CheckpointBegin(t) \/ Checkpoint(t) \/ CheckpointFault(t), Ground'
  PROVE  /\ mode = "up" /\ mode' = "up" /\ stores' = stores
         /\ \A u \in Threads : ~Synced(u) /\ ~Synced(u)'
         /\ \A u \in Threads \ {t} : pc'[u] = pc[u] /\ win'[u] = win[u]
         /\ pc[t] \in CheckpointPcs \cup {"idle"} /\ pc'[t] \in CheckpointPcs \cup {"idle"}
         /\ dw.tail = sb.tail
<1>1. /\ pc \in [Threads -> {"idle"} \cup CommitPcs \cup CheckpointPcs] /\ win \in [Threads -> Windows]
  BY DEF Ground, TypeInv, TypeOK
<1>2. /\ mode' = mode /\ stores' = stores
      /\ \A u \in Threads \ {t} : pc'[u] = pc[u] /\ win'[u] = win[u]
      /\ pc[t] \in CheckpointPcs \cup {"idle"} /\ pc'[t] \in CheckpointPcs \cup {"idle"}
  BY <1>1 DEF CheckpointBegin, Checkpoint, CheckpointRead, CheckpointApply, CheckpointScanned, CheckpointHead,
     CheckpointSbWrite, CheckpointEnd, CheckpointFault, Goto, Return, Advance, mountVars, ghosts, CheckpointPcs, Busy
<1>3. mode = "up"
  BY DEF CheckpointBegin, Checkpoint, CheckpointRead, CheckpointApply, CheckpointScanned, CheckpointHead,
     CheckpointSbWrite, CheckpointEnd, CheckpointFault, Ground, Quiet
<1>4. pc[t] \in CheckpointPcs \/ pc'[t] \in CheckpointPcs
  BY <1>1 DEF CheckpointBegin, Checkpoint, CheckpointRead, CheckpointApply, CheckpointScanned, CheckpointHead,
     CheckpointSbWrite, CheckpointEnd, CheckpointFault, Goto, CheckpointPcs
<1>5. \A u \in Threads \ {t} : pc[u] \notin CommitPcs
  <2>. SUFFICES ASSUME NEW u \in Threads \ {t}, pc[u] \in CommitPcs PROVE FALSE
    OBVIOUS
  <2>1. Committing(u) /\ Committing(u)'
    BY <1>2 DEF Committing
  <2>2. pc[t] = "idle" /\ pc'[t] = "idle"
    BY <2>1 DEF Ground, RingInv, Alone
  <2>. QED  BY <1>4, <2>2 DEF CheckpointPcs
<1>6. \A u \in Threads : ~Committing(u) /\ ~Synced(u) /\ ~Synced(u)'
  BY <1>1, <1>2, <1>5 DEF Committing, CommitPcs, CheckpointPcs, Synced
<1>. QED  BY <1>2, <1>3, <1>6 DEF Ground, RingInv, MemoryRing

\* A checkpoint that scans and does not move.
LEMMA OtherScan ==
  ASSUME Ground, NEW u \in Threads, Scanning(u), pc'[u] = pc[u], win'[u] = win[u],
         \A s \in 1 .. N - 1 : disk'[s] = disk[s]
  PROVE  /\ Scanning(u)'
         /\ \A h : Clear(disk', h, win'[u].head, win'[u].tail) <=> Clear(disk, h, win[u].head, win[u].tail)
         /\ \A g : Logs(disk', g, win'[u].head, win'[u].tail) <=> Logs(disk, g, win[u].head, win[u].tail)
<1>. DEFINE lo == win[u].head
            hi == win[u].tail
<1>1. /\ lo \in 1 .. hi /\ hi = dw.tail /\ dw.tail \in 1 .. N - 1
  BY ScanPlace, Places
<1>2. lo \in 1 .. N - 1 /\ hi \in 0 .. N - 1
  BY <1>1
<1>. HIDE DEF lo, hi
<1>3. /\ \A h : Clear(disk', h, lo, hi) <=> Clear(disk, h, lo, hi)
      /\ \A g : Logs(disk', g, lo, hi) <=> Logs(disk, g, lo, hi)
  BY <1>2, RingSays
<1>4. Scanning(u)' /\ win'[u].head = lo /\ win'[u].tail = hi
  BY DEF Scanning, lo, hi
<1>. QED  BY <1>3, <1>4 DEF lo, hi

\* A step of the checkpoint t: what it has to show of its own window.
LEMMA CheckHeld ==
  ASSUME Ground, NEW g, Held(g), NEW t \in Threads, Checkpointing(t)',
         \A s \in 1 .. N - 1 : disk'[s] = disk[s],
         \A u \in Threads \ {t} : pc'[u] = pc[u] /\ win'[u] = win[u],
         Logs(disk', g, dw'.head, dw'.tail),
         Scanning(t)' => Logs(disk', g, win'[t].head, win'[t].tail),
         \A h \in Homes : \/ disk'[h] = g[h]
                          \/ Scanning(t)' /\ ~Clear(disk', h, win'[t].head, win'[t].tail)
                          \/ \E u \in Threads \ {t} : Scanning(u) /\ ~Clear(disk, h, win[u].head, win[u].tail)
  PROVE  Held(g)'
<1>1. ASSUME NEW u \in Threads, Scanning(u)' PROVE Logs(disk', g, win'[u].head, win'[u].tail)
  <2>1. CASE u = t
    BY <1>1, <2>1
  <2>2. CASE u # t
    <3>1. pc'[u] = pc[u] /\ win'[u] = win[u] /\ Scanning(u)
      BY <1>1, <2>2 DEF Scanning
    <3>2. Logs(disk, g, win[u].head, win[u].tail)
      BY <3>1 DEF Held
    <3>. QED  BY <3>1, <3>2, OtherScan
  <2>. QED  BY <2>1, <2>2
<1>2. ASSUME NEW h \in Homes PROVE disk'[h] = g[h] \/ Pending(h)'
  <2>1. CASE \E u \in Threads \ {t} : Scanning(u) /\ ~Clear(disk, h, win[u].head, win[u].tail)
    <3>1. PICK u \in Threads \ {t} : Scanning(u) /\ ~Clear(disk, h, win[u].head, win[u].tail)
      BY <2>1
    <3>2. Scanning(u)' /\ ~Clear(disk', h, win'[u].head, win'[u].tail)
      BY <3>1, OtherScan
    <3>. QED  BY <3>2 DEF Pending
  <2>2. CASE Scanning(t)' /\ ~Clear(disk', h, win'[t].head, win'[t].tail)
    BY <2>2 DEF Pending
  <2>. QED  BY <2>1, <2>2
<1>. QED  BY <1>1, <1>2 DEF Held

\* A checkpoint starts from the window that shows the contents.
LEMMA CheckpointBeginKept ==
  ASSUME Ground, Ground', NEW g, Kept(g), NEW t \in Threads, CheckpointBegin(t)
  PROVE  Kept(g)' /\ dw' = dw
<1>1. /\ mode = "up" /\ mode' = "up" /\ stores' = stores
      /\ \A u \in Threads : ~Synced(u) /\ ~Synced(u)'
      /\ \A u \in Threads \ {t} : pc'[u] = pc[u] /\ win'[u] = win[u]
      /\ dw.tail = sb.tail
  BY CheckpointBeside
<1>2. /\ disk' = disk /\ sb' = sb /\ pc[t] = "idle" /\ pc'[t] = "scan" /\ win'[t] = sb
  BY DEF CheckpointBegin, Goto, Busy, diskVars, Ground, TypeInv, TypeOK
<1>3. dw' = dw /\ Held(g) /\ Scanning(t)' /\ Checkpointing(t)' /\ ~Checkpointing(t) /\ ~Scanning(t)
  BY <1>1, <1>2 DEF dw, Kept, Scanning, Checkpointing, CheckpointPcs
<1>. DEFINE lo == dw.head
            mid == sb.head
            hi == dw.tail
<1>4. lo \in Int /\ mid \in Int /\ hi \in Int /\ lo <= mid /\ mid <= hi
  BY <1>1, Places
<1>5. Logs(disk, g, lo, hi)
  BY <1>3 DEF Held
<1>. HIDE DEF lo, mid, hi
<1>6. Logs(disk, g, mid, hi)
  BY ONLY <1>4, <1>5, LogsSuffix
<1>7. /\ Logs(disk', g, dw'.head, dw'.tail)
      /\ Logs(disk', g, win'[t].head, win'[t].tail)
  BY <1>1, <1>2, <1>3, <1>5, <1>6 DEF lo, mid, hi
<1>8. ASSUME NEW h \in Homes
      PROVE  \/ disk'[h] = g[h]
             \/ Scanning(t)' /\ ~Clear(disk', h, win'[t].head, win'[t].tail)
             \/ \E u \in Threads \ {t} : Scanning(u) /\ ~Clear(disk, h, win[u].head, win[u].tail)
  <2>1. disk[h] = g[h] \/ Pending(h)
    BY <1>3 DEF Held
  <2>. QED  BY <1>1, <1>2, <1>3, <2>1 DEF Pending
<1>9. Held(g)'
  BY <1>1, <1>2, <1>3, <1>7, <1>8, CheckHeld
<1>. QED  BY <1>1, <1>3, <1>9, UpKept

\* What a checkpoint looks at next.
LEMMA CheckpointItem ==
  ASSUME Ground, NEW t \in Threads, Scanning(t), win[t].head # win[t].tail
  PROVE  LET c == win[t].head
             top == win[t].tail IN
         /\ c \in 1 .. N - 1 /\ top \in 1 .. N - 1 /\ c < top
         /\ \/ disk[c].kind = "jcmt" /\ Succ(c) = c + 1
            \/ /\ disk[c].kind = "jdat" /\ c + 1 < top /\ disk[c + 1].kind # "jdat" /\ Succ(Succ(c)) = c + 2
               /\ DataAfter(disk, c) = disk[c + 1]
<1>. DEFINE c == win[t].head
            top == win[t].tail
<1>1. top = dw.tail /\ c \in 1 .. dw.tail /\ WellPaired(disk, c, dw.tail) /\ dw.tail \in 1 .. N - 1
  BY ScanPlace, Places
<1>2. c \in Int /\ top \in Int /\ c < top /\ WellPaired(disk, c, top) /\ c \in 1 .. N - 1 /\ top \in 1 .. N - 1
  BY <1>1
<1>. HIDE DEF c, top
<1>3. \/ disk[c].kind = "jcmt"
      \/ disk[c].kind = "jdat" /\ c + 1 < top /\ disk[c + 1] = Data(disk[c].checksum)
  BY ONLY <1>2, PairStep
<1>4. Succ(c) = c + 1
  BY <1>2 DEF Succ
<1>5. c + 1 < top => Succ(c + 1) = c + 2 /\ DataAfter(disk, c) = disk[c + 1]
  BY <1>2 DEF Succ, DataAfter
<1>6. disk[c + 1] = Data(disk[c].checksum) => disk[c + 1].kind # "jdat"
  BY DEF Data
<1>. QED  BY <1>2, <1>3, <1>4, <1>5, <1>6 DEF c, top

\* A checkpoint that reads and copies changes only homes that its window still logs.
LEMMA CheckpointScanKept ==
  ASSUME Ground, Ground', NEW g, Kept(g), NEW t \in Threads, CheckpointRead(t) \/ CheckpointApply(t)
  PROVE  /\ Kept(g)' /\ dw' = dw /\ sb' = sb /\ media' = media
         /\ \A s \in 0 .. N - 1 : disk'[s] = disk[s]
         /\ \A h \in Homes : disk'[h] = disk[h] \/ ~Clear(disk, h, win[t].head, dw.tail)
         /\ Scanning(t) /\ Scanning(t)'
<1>1. Checkpoint(t)
  BY DEF Checkpoint
<1>2. /\ mode = "up" /\ mode' = "up" /\ stores' = stores
      /\ \A u \in Threads : ~Synced(u) /\ ~Synced(u)'
      /\ \A u \in Threads \ {t} : pc'[u] = pc[u] /\ win'[u] = win[u]
      /\ dw.tail = sb.tail
  BY <1>1, CheckpointBeside
<1>3. /\ pc[t] \in {"scan", "apply"} /\ pc'[t] \in {"scan", "apply"} /\ sb' = sb /\ media' = media
  BY DEF CheckpointRead, CheckpointApply, Goto, Write, diskVars, Ground, TypeInv, TypeOK
<1>4. Scanning(t) /\ Scanning(t)' /\ Checkpointing(t) /\ Checkpointing(t)' /\ Held(g)
  BY <1>2, <1>3 DEF Scanning, Checkpointing, CheckpointPcs, Kept
<1>. DEFINE c == win[t].head
            top == win[t].tail
            next == win'[t].head
<1>5. c # top
  <2>1. CASE CheckpointRead(t)
    BY <2>1 DEF CheckpointRead
  <2>2. CASE CheckpointApply(t)
    <3>1. pc[t] = "apply"
      BY <2>2 DEF CheckpointApply
    <3>2. Ahead(t)
      BY DEF Ground, RingInv
    <3>3. c < top /\ c \in 1 .. top /\ top = dw.tail /\ dw.tail \in 1 .. N - 1
      BY <1>4, <3>1, <3>2, ScanPlace, Places DEF Ahead
    <3>. QED  BY <3>3
  <2>. QED  BY <2>1, <2>2
<1>6. /\ c \in 1 .. N - 1 /\ top \in 1 .. N - 1 /\ c < top
      /\ \/ disk[c].kind = "jcmt" /\ Succ(c) = c + 1
         \/ /\ disk[c].kind = "jdat" /\ c + 1 < top /\ disk[c + 1].kind # "jdat" /\ Succ(Succ(c)) = c + 2
            /\ DataAfter(disk, c) = disk[c + 1]
  BY <1>4, <1>5, CheckpointItem
<1>7. \A h \in Homes : Clear(disk, h, c, top) \/ LastIn(disk, h, c, top, g[h])
  BY <1>4 DEF Held, Logs
<1>8. top = dw.tail
  BY <1>4, ScanPlace
<1>9. win \in [Threads -> Windows] /\ disk \in [Addrs -> Blocks] /\ got[t] \in (Homes \X Blocks) \cup {<<>>}
  BY DEF Ground, TypeInv, TypeOK
\* the part of the window behind the item says no more than the window
<1>10. ASSUME NEW n \in Int, c <= n, n <= top, next = n, win'[t].tail = top,
              \A s \in 0 .. N - 1 : disk'[s] = disk[s],
              \A h \in Homes : \/ disk'[h] = disk[h] /\ Clear(disk, h, c, n)
                               \/ disk'[h] = disk[h] /\ n = c
                               \/ LastIn(disk, h, c, n, disk'[h])
       PROVE  /\ Kept(g)' /\ dw' = dw
              /\ \A h \in Homes : disk'[h] = disk[h] \/ ~Clear(disk, h, c, top)
  <2>1. dw' = dw
    <3>1. disk'[0] = disk[0]
      BY <1>10
    <3>. QED  BY <3>1, WindowFrame DEF dw
  <2>2. \A s \in 1 .. N - 1 : disk'[s] = disk[s]
    BY <1>10
  <2>3. c \in Int /\ top \in Int /\ n \in 1 .. N - 1 /\ top \in 0 .. N - 1
    BY <1>6, <1>10
  <2>. HIDE DEF c, top, next
  <2>4. \A h \in Homes : Clear(disk, h, n, top) \/ LastIn(disk, h, n, top, g[h])
    <3>1. Logs(disk, g, c, top)
      BY <1>7 DEF Logs
    <3>2. Logs(disk, g, n, top)
      BY ONLY <1>10, <2>3, <3>1, n \in Int, LogsSuffix
    <3>. QED  BY <3>2 DEF Logs
  <2>5. Logs(disk', g, n, top) /\ \A h \in Homes : Clear(disk', h, n, top) <=> Clear(disk, h, n, top)
    <3>1. Logs(disk, g, n, top)
      BY <2>4 DEF Logs
    <3>. QED  BY <2>2, <2>3, <3>1, RingSays
  <2>6. Logs(disk', g, dw'.head, dw'.tail)
    <3>1. Logs(disk, g, dw.head, dw.tail) /\ dw.head \in 1 .. N - 1 /\ dw.tail \in 0 .. N - 1
      BY <1>4, Places DEF Held
    <3>. QED  BY <2>1, <2>2, <3>1, RingSays
  <2>7. ASSUME NEW h \in Homes
        PROVE  \/ disk'[h] = g[h]
               \/ ~Clear(disk', h, n, top)
               \/ \E u \in Threads \ {t} : Scanning(u) /\ ~Clear(disk, h, win[u].head, win[u].tail)
    <3>. SUFFICES ASSUME Clear(disk, h, n, top), disk'[h] # g[h]
                  PROVE  \E u \in Threads \ {t} : Scanning(u) /\ ~Clear(disk, h, win[u].head, win[u].tail)
      BY <2>5
    <3>1. ~LastIn(disk, h, c, n, disk'[h])
      <4>. SUFFICES ASSUME LastIn(disk, h, c, n, disk'[h]) PROVE FALSE
        OBVIOUS
      <4>1. LastIn(disk, h, c, top, disk'[h])
        BY ONLY <1>10, <2>3, Clear(disk, h, n, top), LastIn(disk, h, c, n, disk'[h]), n \in Int, LastParts
      <4>2. ~Clear(disk, h, c, top)
        BY ONLY <2>3, <4>1, LastNotClear
      <4>3. LastIn(disk, h, c, top, g[h])
        BY <1>7, <4>2
      <4>. QED  BY ONLY <2>3, <4>1, <4>3, disk'[h] # g[h], LastUnique
    <3>2. disk'[h] = disk[h] /\ (Clear(disk, h, c, n) \/ n = c)
      BY <1>10, <3>1
    <3>3. Clear(disk, h, c, top)
      <4>1. CASE n = c
        BY <4>1
      <4>2. CASE Clear(disk, h, c, n)
        BY ONLY <1>10, <2>3, <4>2, Clear(disk, h, n, top), n \in Int, ClearParts
      <4>. QED  BY <3>2, <4>1, <4>2
    <3>4. Pending(h)
      BY <1>4, <3>2 DEF Held
    <3>. QED  BY <1>4, <3>3, <3>4 DEF Pending, c, top
  <2>8. Held(g)'
    <3>1. /\ Logs(disk', g, win'[t].head, win'[t].tail)
          /\ \A h \in Homes : \/ disk'[h] = g[h]
                              \/ Scanning(t)' /\ ~Clear(disk', h, win'[t].head, win'[t].tail)
                              \/ \E u \in Threads \ {t} : Scanning(u) /\ ~Clear(disk, h, win[u].head, win[u].tail)
      BY <1>4, <1>10, <2>5, <2>7 DEF next
    <3>. QED  BY <1>2, <1>4, <2>2, <2>6, <3>1, CheckHeld
  <2>9. \A h \in Homes : disk'[h] = disk[h] \/ ~Clear(disk, h, c, top)
    <3>. SUFFICES ASSUME NEW h \in Homes, LastIn(disk, h, c, n, disk'[h]) PROVE ~Clear(disk, h, c, top)
      BY <1>10
    <3>1. ~Clear(disk, h, c, n)
      BY ONLY <2>3, n \in Int, LastIn(disk, h, c, n, disk'[h]), LastNotClear
    <3>. QED  BY ONLY <1>10, <2>3, <3>1, n \in Int, ClearParts
  <2>. QED  BY <1>2, <2>1, <2>8, <2>9, UpKept
<1>11. CASE CheckpointRead(t)
  <2>1. disk' = disk /\ (win'[t] = win[t] \/ (disk[c].kind # "jdat" /\ win'[t] = [head |-> Succ(c), tail |-> top]))
    BY <1>9, <1>11 DEF CheckpointRead, Advance, diskVars
  <2>2. CASE win'[t] = win[t]
    <3>1. c \in Int /\ c <= top
      BY <1>6
    <3>2. /\ Kept(g)' /\ dw' = dw
          /\ \A h \in Homes : disk'[h] = disk[h] \/ ~Clear(disk, h, c, top)
      BY <1>10, <2>1, <2>2, <3>1
    <3>. QED  BY <1>3, <1>4, <1>8, <2>1, <3>2
  <2>3. CASE disk[c].kind # "jdat" /\ win'[t] = [head |-> Succ(c), tail |-> top]
    <3>1. c + 1 \in Int /\ c <= c + 1 /\ c + 1 <= top /\ next = c + 1 /\ win'[t].tail = top /\ c \in Int
      BY <1>6, <2>3
    <3>2. \A h \in Homes : Clear(disk, h, c, c + 1)
      <4>. HIDE DEF c
      <4>. QED  BY <2>3, <3>1, ItemSays
    <3>3. /\ Kept(g)' /\ dw' = dw
          /\ \A h \in Homes : disk'[h] = disk[h] \/ ~Clear(disk, h, c, top)
      BY <1>10, <2>1, <3>1, <3>2
    <3>. QED  BY <1>3, <1>4, <1>8, <2>1, <3>3
  <2>. QED  BY <2>1, <2>2, <2>3
<1>12. CASE CheckpointApply(t)
  <2>1. pc[t] = "apply" /\ disk' = Put(disk, got[t][1], got[t][2]) /\ win'[t] = [head |-> Succ(Succ(c)), tail |-> top]
    BY <1>9, <1>12 DEF CheckpointApply, Advance, Write
  <2>2. disk[c].kind = "jdat" /\ got[t] = <<disk[c].target, disk[c + 1]>> /\ got[t] # <<>>
    BY <2>1 DEF Ground, RingInv, Ahead, TypeInv, Ready
  <2>. DEFINE b == disk[c].target
  <2>3. b \in Homes /\ disk' = Put(disk, b, disk[c + 1])
    BY <1>9, <2>1, <2>2
  <2>4. disk'[b] = disk[c + 1] /\ \A y \in Addrs : y # b => disk'[y] = disk[y]
    BY <1>9, <2>3 DEF Put, Addrs
  <2>5. \A s \in 0 .. N - 1 : disk'[s] = disk[s]
    <3>1. \A s \in 0 .. N - 1 : s \in Addrs /\ s # b
      BY <2>3 DEF Addrs, Slots
    <3>. QED  BY <2>4, <3>1
  <2>6. c \in Int /\ c + 2 \in Int /\ c <= c + 2 /\ c + 2 <= top /\ next = c + 2 /\ win'[t].tail = top
    BY <1>6, <2>1, <2>2
  <2>7. disk[c + 1].kind # "jdat"
    BY <1>6, <2>2
  <2>8. \A h \in Homes : (h # b => Clear(disk, h, c, c + 2)) /\ (h = b => LastIn(disk, h, c, c + 2, disk[c + 1]))
    <3>. HIDE DEF c
    <3>. QED  BY <2>2, <2>6, <2>7, ItemSays
  <2>9. \A h \in Homes : \/ disk'[h] = disk[h] /\ Clear(disk, h, c, c + 2)
                         \/ LastIn(disk, h, c, c + 2, disk'[h])
    <3>1. \A h \in Homes : h \in Addrs
      BY DEF Addrs
    <3>. HIDE DEF b, c
    <3>. QED  BY <2>4, <2>8, <3>1
  <2>10. /\ Kept(g)' /\ dw' = dw
         /\ \A h \in Homes : disk'[h] = disk[h] \/ ~Clear(disk, h, c, top)
    <3>. HIDE DEF c, top, next, b
    <3>. QED  BY <1>10, <2>5, <2>6, <2>9
  <2>. QED  BY <1>3, <1>4, <1>8, <2>5, <2>10
<1>. QED  BY <1>11, <1>12

\* The end of the scan, and the head moved in memory.
LEMMA CheckpointPastKept ==
  ASSUME Ground, Ground', NEW g, Kept(g), NEW t \in Threads, CheckpointScanned(t) \/ CheckpointHead(t)
  PROVE  /\ Kept(g)' /\ dw' = dw /\ disk' = disk /\ mode = "up" /\ mode' = "up"
         /\ Checkpointing(t)' /\ ~Scanning(t)'
         /\ CheckpointScanned(t) => sb' = sb /\ media' = disk /\ Scanning(t) /\ win[t].head = win[t].tail
         /\ CheckpointHead(t) => sb'.head = dw.tail /\ media' = media /\ ~Scanning(t) /\ Checkpointing(t)
<1>1. Checkpoint(t)
  BY DEF Checkpoint
<1>2. /\ mode = "up" /\ mode' = "up" /\ stores' = stores
      /\ \A u \in Threads : ~Synced(u) /\ ~Synced(u)'
      /\ \A u \in Threads \ {t} : pc'[u] = pc[u] /\ win'[u] = win[u]
      /\ dw.tail = sb.tail
  BY <1>1, CheckpointBeside
<1>3. disk' = disk /\ pc'[t] \in {"cpHead", "cpSb"}
  BY DEF CheckpointScanned, CheckpointHead, SyncAll, Goto, diskVars, Ground, TypeInv, TypeOK
<1>4. Checkpointing(t)' /\ ~Scanning(t)' /\ Checkpointing(t) /\ Held(g) /\ dw' = dw
  BY <1>2, <1>3 DEF Checkpointing, CheckpointPcs, Scanning, CheckpointScanned, CheckpointHead, Kept, dw
<1>5. Scanning(t) => win[t].head = win[t].tail
  BY DEF Scanning, CheckpointScanned, CheckpointHead
<1>6. Scanning(t) => \A h : Clear(disk, h, win[t].head, win[t].tail)
  <2>. SUFFICES ASSUME Scanning(t), NEW h PROVE Clear(disk, h, win[t].head, win[t].tail)
    OBVIOUS
  <2>1. win[t].head = win[t].tail /\ win[t].head \in Int
    BY <1>5, ScanPlace
  <2>. QED  BY <2>1 DEF Clear
<1>7. \A h \in Homes : \/ disk[h] = g[h]
                       \/ \E u \in Threads \ {t} : Scanning(u) /\ ~Clear(disk, h, win[u].head, win[u].tail)
  BY <1>4, <1>6 DEF Held, Pending
<1>8. Logs(disk', g, dw'.head, dw'.tail)
  BY <1>3, <1>4 DEF Held
<1>9. Held(g)'
  <2>1. \A h \in Homes : \/ disk'[h] = g[h]
                         \/ Scanning(t)' /\ ~Clear(disk', h, win'[t].head, win'[t].tail)
                         \/ \E u \in Threads \ {t} : Scanning(u) /\ ~Clear(disk, h, win[u].head, win[u].tail)
    BY <1>3, <1>7
  <2>. QED  BY <1>2, <1>3, <1>4, <1>8, <2>1, CheckHeld
<1>10. Kept(g)'
  BY <1>2, <1>9, UpKept
<1>11. CheckpointScanned(t) => sb' = sb /\ media' = disk /\ Scanning(t) /\ win[t].head = win[t].tail
  BY DEF CheckpointScanned, SyncAll, Scanning
<1>12. CheckpointHead(t) => sb'.head = dw.tail /\ media' = media /\ ~Scanning(t) /\ Checkpointing(t)
  <2>1. win[t].tail = sb.tail
    BY <1>4 DEF Ground, RingInv, Ahead
  <2>. QED  BY <1>2, <1>4, <2>1 DEF CheckpointHead, diskVars, Scanning
<1>. QED  BY <1>2, <1>3, <1>4, <1>10, <1>11, <1>12

\* The superblock of a checkpoint empties the window on disk.
LEMMA CheckpointSbKept ==
  ASSUME Ground, Ground', NEW g, Kept(g), NEW t \in Threads, CheckpointSbWrite(t)
  PROVE  /\ Kept(g)' /\ dw'.head = dw.tail /\ dw'.tail = dw.tail /\ sb' = sb /\ sb.head = dw.tail /\ media' = media
         /\ mode = "up" /\ mode' = "up"
         /\ \A s \in 1 .. N - 1 : disk'[s] = disk[s]
         /\ \A h \in Homes : disk'[h] = disk[h]
         /\ ~Scanning(t) /\ ~Scanning(t)' /\ Checkpointing(t) /\ Checkpointing(t)'
<1>1. Checkpoint(t)
  BY DEF Checkpoint
<1>2. /\ mode = "up" /\ mode' = "up" /\ stores' = stores
      /\ \A u \in Threads : ~Synced(u) /\ ~Synced(u)'
      /\ \A u \in Threads \ {t} : pc'[u] = pc[u] /\ win'[u] = win[u]
      /\ dw.tail = sb.tail
  BY <1>1, CheckpointBeside
<1>3. disk' = Put(disk, 0, JournalSb(sb)) /\ media' = media /\ sb' = sb /\ pc[t] = "cpSb" /\ pc'[t] = "cpSbSync"
  BY DEF CheckpointSbWrite, Write, Goto, Ground, TypeInv, TypeOK
<1>4. ~Scanning(t) /\ ~Scanning(t)' /\ Checkpointing(t) /\ Checkpointing(t)' /\ Held(g)
  BY <1>2, <1>3 DEF Scanning, Checkpointing, CheckpointPcs, Kept
<1>5. sb.head = sb.tail
  BY <1>3 DEF Ground, RingInv, Ahead
<1>6. disk'[0] = JournalSb(sb) /\ (\A s \in 1 .. N - 1 : disk'[s] = disk[s]) /\ \A h \in Homes : disk'[h] = disk[h]
  <2>1. disk \in [Addrs -> Blocks] /\ 0 \in Addrs
    BY DEF Ground, TypeInv, TypeOK, Addrs, Slots
  <2>2. disk'[0] = JournalSb(sb) /\ \A y \in Addrs : y # 0 => disk'[y] = disk[y]
    BY <1>3, <2>1 DEF Put
  <2>3. \A s \in 1 .. N - 1 : s \in Addrs /\ s # 0
    BY DEF Addrs, Slots
  <2>4. \A h \in Homes : h \in Addrs /\ h # 0
    BY DEF Addrs
  <2>. QED  BY <2>2, <2>3, <2>4
<1>7. dw' = sb
  <2>1. sb.head # 0 /\ sb \in Windows
    BY <1>2, Places DEF Ground, TypeInv, TypeOK
  <2>. QED  BY <1>6, <2>1, WindowOf DEF dw
<1>8. sb.head \in Int
  BY <1>2, Places
<1>9. \A h : Clear(disk', h, dw'.head, dw'.tail)
  BY <1>5, <1>7, <1>8 DEF Clear
<1>10. Logs(disk', g, dw'.head, dw'.tail)
  BY <1>9 DEF Logs
<1>11. \A h \in Homes : disk[h] = g[h] \/ \E u \in Threads \ {t} : Scanning(u) /\ ~Clear(disk, h, win[u].head, win[u].tail)
  BY <1>4 DEF Held, Pending
<1>12. Held(g)'
  <2>1. \A h \in Homes : \/ disk'[h] = g[h]
                         \/ Scanning(t)' /\ ~Clear(disk', h, win'[t].head, win'[t].tail)
                         \/ \E u \in Threads \ {t} : Scanning(u) /\ ~Clear(disk, h, win[u].head, win[u].tail)
    BY <1>6, <1>11
  <2>. QED  BY <1>2, <1>4, <1>6, <1>10, <2>1, CheckHeld
<1>13. Kept(g)'
  BY <1>2, <1>12, UpKept
<1>. QED  BY <1>2, <1>3, <1>4, <1>5, <1>6, <1>7, <1>13

\* A checkpoint returns, done or failed.
LEMMA CheckpointDoneKept ==
  ASSUME Ground, Ground', NEW g, Kept(g), NEW t \in Threads, CheckpointEnd(t) \/ (CheckpointFault(t) /\ crossed = {})
  PROVE  /\ Kept(g)' /\ dw' = dw /\ disk' = disk /\ sb' = sb /\ mode = "up" /\ mode' = "up"
         /\ CheckpointEnd(t) => media' = disk
         /\ CheckpointFault(t) => media' = media
         /\ Checkpointing(t) /\ ~Scanning(t)'
<1>1. Checkpoint(t) \/ CheckpointFault(t)
  BY DEF Checkpoint
<1>2. /\ mode = "up" /\ mode' = "up" /\ stores' = stores
      /\ \A u \in Threads : ~Synced(u) /\ ~Synced(u)'
      /\ \A u \in Threads \ {t} : pc'[u] = pc[u] /\ win'[u] = win[u]
      /\ dw.tail = sb.tail
  BY <1>1, CheckpointBeside
<1>3. /\ disk' = disk /\ sb' = sb /\ pc'[t] = "idle" /\ pc[t] \in CheckpointPcs
      /\ CheckpointEnd(t) => media' = disk /\ pc[t] = "cpSbSync"
      /\ CheckpointFault(t) => media' = media
  BY DEF CheckpointEnd, CheckpointFault, Return, Goto, SyncAll, diskVars, CheckpointPcs, Ground, TypeInv, TypeOK
<1>4. Checkpointing(t) /\ ~Scanning(t)' /\ ~Checkpointing(t)' /\ Held(g) /\ dw' = dw
  BY <1>2, <1>3 DEF Checkpointing, CheckpointPcs, Scanning, Kept, dw
<1>5. \A u \in Threads \ {t} : /\ Scanning(u)' <=> Scanning(u)
                              /\ Checkpointing(u)' <=> Checkpointing(u)
  BY <1>2 DEF Scanning, Checkpointing
<1>6. ASSUME NEW h \in Homes PROVE disk'[h] = g[h] \/ Pending(h)'
  <2>1. disk[h] = g[h] \/ \E u \in Threads : Scanning(u) /\ ~Clear(disk, h, win[u].head, win[u].tail)
    BY <1>4 DEF Held, Pending
  <2>2. CASE disk[h] = g[h]
    BY <1>3, <2>2
  <2>3. ASSUME NEW u \in Threads \ {t}, Scanning(u), ~Clear(disk, h, win[u].head, win[u].tail) PROVE Pending(h)'
    <3>1. Checkpointing(u)' /\ Scanning(u)' /\ ~Clear(disk', h, win'[u].head, win'[u].tail)
      BY <1>2, <1>3, <1>5, <2>3 DEF Scanning, Checkpointing, CheckpointPcs
    <3>. QED  BY <3>1 DEF Pending
  <2>4. ASSUME Scanning(t), ~Clear(disk, h, win[t].head, win[t].tail) PROVE Pending(h)'
    <3>1. CheckpointFault(t) /\ crossed = {}
      BY <1>3, <2>4 DEF Scanning
    <3>2. \A u \in Threads : ~Checkpointing(u)'
      BY <1>2, <1>3, <1>4, <1>5, <3>1 DEF Ground, Lone, Single, Busy, Checkpointing, CheckpointPcs
    <3>3. /\ win[t].tail = dw.tail /\ win[t].head \in 1 .. dw.tail /\ sb.head <= win[t].head
          /\ sb.head \in dw.head .. dw.tail
      BY <2>4, <3>1, ScanPlace
    <3>4. dw.head \in 1 .. N - 1 /\ dw.tail \in 1 .. N - 1
      BY Places
    <3>5. sb.head \in Int /\ win[t].head \in Int /\ dw.tail \in Int /\ sb.head <= win[t].head /\ win[t].head <= dw.tail
      BY <3>3, <3>4
    <3>6. ~Clear(disk, h, win[t].head, dw.tail)
      BY <2>4, <3>3
    <3>7. ~Clear(disk, h, sb.head, dw.tail)
      BY ONLY <3>5, <3>6, ClearParts
    <3>. QED  BY <1>3, <1>4, <3>2, <3>7 DEF Pending
  <2>. QED  BY <2>1, <2>2, <2>3, <2>4
<1>7. ASSUME NEW u \in Threads, Scanning(u)' PROVE Logs(disk', g, win'[u].head, win'[u].tail)
  <2>1. u # t
    BY <1>4, <1>7
  <2>2. Scanning(u) /\ win'[u] = win[u]
    BY <1>2, <1>7, <2>1 DEF Scanning
  <2>. QED  BY <1>3, <1>4, <2>2 DEF Held
<1>8. Logs(disk', g, dw'.head, dw'.tail)
  BY <1>3, <1>4 DEF Held
<1>9. Held(g)'
  BY <1>6, <1>7, <1>8 DEF Held
<1>10. Kept(g)'
  BY <1>2, <1>9, UpKept
<1>. QED  BY <1>2, <1>3, <1>4, <1>10

\* Mounted with the home blocks as they are.
LEMMA MountedKept ==
  ASSUME Ground, NEW g \in [Homes -> Blocks], \A h \in Homes : disk'[h] = g[h], mode' = "up", stores' = {g},
         \A t \in Threads : pc'[t] = "idle", Logs(disk', g, dw'.head, dw'.tail)
  PROVE  Kept(g)'
<1>1. \A t \in Threads : ~Scanning(t)' /\ ~Synced(t)'
  BY DEF Scanning, Synced
<1>2. Held(g)'
  BY <1>1 DEF Held
<1>3. Current(g, g)'
  BY <1>1 DEF Current
<1>. QED  BY <1>2, <1>3 DEF Kept

\* An empty list has nothing to do.
LEMMA NoTodo ==
  ASSUME NEW f \in [Homes -> Blocks]
  PROVE  Overlay(f, <<>>) = f /\ Targets(<<>>) = {}
BY OverlayEmpty DEF Targets

\* Mount only reads; it is up at once when the window is empty.
LEMMA MountKept ==
  ASSUME Ground, Ground', NEW g \in [Homes -> Blocks], Kept(g), Mount
  PROVE  /\ Kept(g)' /\ dw' = dw /\ disk' = disk /\ media' = media /\ sb' = dw /\ mode = "down"
         /\ mode' = "up" => dw.head = dw.tail
<1>1. /\ mode = "down" /\ disk' = disk /\ media' = media /\ pc' = pc /\ sb' = dw /\ crossed \subseteq crossed'
      /\ IF dw.head = dw.tail THEN Mounted
         ELSE mode' = "recover" /\ current' = dw.head /\ UNCHANGED <<open, replay, stores>>
  BY DEF Mount, diskVars, dw, Cross
<1>2. dw' = dw
  BY <1>1 DEF dw
<1>3. Shows(disk, g, dw.head, dw.tail) /\ (crossed = {} => g \in stores)
  BY <1>1 DEF Kept
<1>4. dw.head \in Int /\ dw.tail \in Int /\ dw.head \in 1 .. N - 1 /\ dw.tail \in dw.head .. N - 1
      /\ WellPaired(disk, dw.head, dw.tail)
  BY Places
<1>5. disk \in [Addrs -> Blocks]
  BY DEF Ground, TypeInv, TypeOK
<1>6. CASE dw.head = dw.tail
  <2>1. \A h \in Homes : disk[h] = g[h]
    BY <1>3, <1>4, <1>6, ShowsEmpty
  <2>2. HomeOf(disk) = g
    BY <1>5, <2>1, HomeType
  <2>3. mode' = "up" /\ stores' = {g}
    BY <1>1, <1>6, <2>2 DEF Mounted
  <2>4. Logs(disk', g, dw'.head, dw'.tail)
    BY <1>1, <1>2, <1>3 DEF Shows
  <2>5. \A t \in Threads : pc'[t] = "idle"
    BY <1>1 DEF Ground, Quiet
  <2>. QED  BY <1>1, <1>2, <1>6, <2>1, <2>3, <2>4, <2>5, MountedKept
<1>7. CASE dw.head # dw.tail
  <2>1. mode' = "recover" /\ current' = dw.head /\ open' = open /\ replay' = replay /\ stores' = stores
    BY <1>1, <1>7
  <2>2. open = <<>> /\ replay = <<>>
    BY <1>1 DEF Ground, Emptied
  <2>3. Todo' = <<>>
    BY <2>1, <2>2 DEF Todo
  <2>4. HomeOf(disk) \in [Homes -> Blocks] /\ \A h \in Homes : HomeOf(disk)[h] = disk[h]
    BY <1>5, HomeType
  <2>5. \A h \in Homes : Overlay(HomeOf(disk), <<>>)[h] = g[h] \/ ~Clear(disk, h, dw.head, dw.tail)
    BY <1>3, <2>4, NoTodo DEF Shows
  <2>6. \A h \in Targets(<<>>) : ~Clear(disk, h, dw.head, dw.tail)
    BY <2>4, NoTodo
  <2>7. current' \in dw.head .. dw.tail /\ WellPaired(disk, current', dw.tail)
    BY <1>4, <2>1
  <2>8. Replaying(g)'
    BY <1>1, <1>2, <2>1, <2>2, <2>3, <2>5, <2>6, <2>7 DEF Replaying
  <2>9. Shows(disk', g, dw'.head, dw'.tail) /\ (crossed' = {} => g \in stores')
    BY <1>1, <1>2, <1>3, <2>1
  <2>. QED  BY <1>1, <1>2, <1>7, <2>1, <2>8, <2>9 DEF Kept
<1>. QED  BY <1>6, <1>7

\* Recovery reads a pair or a commit record; nothing else is in its window.
LEMMA RecoverReadKept ==
  ASSUME Ground, Ground', NEW g \in [Homes -> Blocks], Kept(g), RecoverRead
  PROVE  Kept(g)' /\ dw' = dw /\ disk' = disk /\ media' = media /\ mode = "recover" /\ mode' = "recover"
<1>1. /\ mode = "recover" /\ mode' = "recover" /\ disk' = disk /\ media' = media /\ replay = <<>>
      /\ stores' = stores /\ crossed' = crossed /\ sb = dw
  BY DEF RecoverRead, diskVars, ghosts, Ground, RingInv, MemoryRing
<1>2. dw' = dw
  BY <1>1 DEF dw
<1>3. Shows(disk, g, dw.head, dw.tail) /\ (crossed = {} => g \in stores) /\ Replaying(g)
  BY <1>1 DEF Kept
<1>. DEFINE c == current
            lo == dw.head
            hi == dw.tail
<1>4. lo \in Int /\ hi \in Int /\ lo \in 1 .. N - 1 /\ hi \in lo .. N - 1 /\ N \in Nat
  BY Places
<1>5. c \in lo .. hi /\ c # hi /\ WellPaired(disk, c, hi) /\ c \in Int /\ c < hi
  BY <1>1, <1>3, <1>4 DEF RecoverRead, Replaying
<1>6. disk \in [Addrs -> Blocks] /\ HomeOf(disk) \in [Homes -> Blocks] /\ open \in Writes
  BY HomeType DEF Ground, TypeInv, TypeOK, Writes
<1>7. Todo = open
  BY <1>1 DEF Todo
<1>8. ASSUME Replaying(g)' PROVE Kept(g)'
  BY <1>1, <1>2, <1>3, <1>8 DEF Kept
<1>9. \/ disk[c].kind = "jcmt" /\ WellPaired(disk, c + 1, hi)
      \/ /\ disk[c].kind = "jdat" /\ c + 1 < hi /\ disk[c + 1] = Data(disk[c].checksum)
         /\ WellPaired(disk, c + 2, hi)
  <2>. HIDE DEF c, lo, hi
  <2>. QED  BY <1>4, <1>5, PairStep
<1>10. CASE disk[c].kind = "jcmt" /\ WellPaired(disk, c + 1, hi)
  <2>1. replay' = open /\ open' = <<>> /\ current' = Succ(c)
    BY <1>10 DEF RecoverRead
  <2>2. Succ(c) = c + 1
    BY <1>4, <1>5 DEF Succ
  <2>3. Todo' = open
    BY <2>1 DEF Todo
  <2>4. \A h \in Homes : Clear(disk, h, c, hi) <=> Clear(disk, h, c + 1, hi)
    <3>1. c + 1 \in Int /\ c <= c + 1 /\ c + 1 <= hi
      BY <1>4, <1>5
    <3>2. \A h \in Homes : Clear(disk, h, c, c + 1)
      <4>1. disk[c].kind # "jdat"
        BY <1>10
      <4>. QED  BY <1>5, <4>1, ItemSays
    <3>. HIDE DEF c, hi
    <3>. QED  BY <1>4, <1>5, <3>1, <3>2, ClearParts
  <2>5. \A h \in Homes : Overlay(HomeOf(disk), open)[h] = g[h] \/ ~Clear(disk, h, c + 1, hi)
    BY <1>3, <1>7, <2>4 DEF Replaying
  <2>6. \A h \in Targets(open) : ~Clear(disk, h, lo, hi)
    BY <1>3, <1>7 DEF Replaying
  <2>7. current' = c + 1 /\ c + 1 \in lo .. hi
    BY <1>4, <1>5, <2>1, <2>2
  <2>8. Replaying(g)'
    BY <1>1, <1>2, <1>10, <2>1, <2>3, <2>5, <2>6, <2>7 DEF Replaying
  <2>. QED  BY <1>1, <1>2, <1>8, <2>8
<1>11. CASE /\ disk[c].kind = "jdat" /\ c + 1 < hi /\ disk[c + 1] = Data(disk[c].checksum)
            /\ WellPaired(disk, c + 2, hi)
  <2>. DEFINE x == disk[c].target
              b == disk[c + 1]
  <2>1. DataAfter(disk, c) = b /\ Succ(Succ(c)) = c + 2
    BY <1>4, <1>5, <1>11 DEF DataAfter, Succ
  <2>2. replay' = <<>> /\ open' = Append(open, <<x, b>>) /\ current' = c + 2
    BY <1>1, <1>11, <2>1 DEF RecoverRead
  <2>3. b.kind = "data" /\ b.kind # "jdat"
    BY <1>11 DEF Data
  <2>4. x \in Homes /\ b \in Blocks
    <3>1. c \in Addrs /\ c + 1 \in Addrs
      BY <1>4, <1>5, <1>11 DEF Addrs, Slots
    <3>. HIDE DEF c
    <3>. QED  BY <1>6, <1>11, <3>1, BlockFields
  <2>5. Todo' = Append(open, <<x, b>>)
    BY <2>2 DEF Todo
  <2>6. c + 2 \in Int /\ c <= c + 2 /\ c + 2 <= hi /\ c + 2 \in lo .. hi /\ c + 2 > lo /\ c + 2 - 1 = c + 1
    BY <1>4, <1>5, <1>11
  <2>7. \A h \in Homes : h # x => (Clear(disk, h, c, hi) <=> Clear(disk, h, c + 2, hi))
    <3>1. \A h \in Homes : h # x => Clear(disk, h, c, c + 2)
      BY <1>5, <1>11, <2>3, ItemSays
    <3>. HIDE DEF c, hi, x
    <3>. QED  BY <1>4, <1>5, <2>6, <3>1, ClearParts
  <2>8. LastIn(disk, x, c, c + 2, b) /\ ~Clear(disk, x, lo, hi)
    <3>1. LastIn(disk, x, c, c + 2, b)
      BY <1>5, <1>11, <2>3, ItemSays
    <3>2. Targeted(disk, c, x) /\ c \in lo .. hi - 1
      BY <1>4, <1>5, <1>11 DEF Targeted
    <3>. QED  BY <3>1, <3>2 DEF Clear
  <2>9. ASSUME Clear(disk, x, c + 2, hi) PROVE b = g[x]
    <3>1. LastIn(disk, x, c, hi, b)
      <4>. HIDE DEF c, hi, x, b
      <4>. QED  BY <1>4, <1>5, <2>6, <2>8, <2>9, LastParts
    <3>2. LastIn(disk, x, lo, hi, b)
      <4>1. lo <= c /\ c <= hi
        BY <1>4, <1>5
      <4>. HIDE DEF c, hi, x, b, lo
      <4>. QED  BY <1>4, <1>5, <3>1, <4>1, LastParts
    <3>3. LastIn(disk, x, lo, hi, g[x])
      BY <1>3, <2>4, <2>8 DEF Shows, Logs
    <3>. HIDE DEF c, hi, x, b, lo
    <3>. QED  BY <1>4, <3>2, <3>3, LastUnique
  <2>10. ASSUME NEW h \in Homes
         PROVE  Overlay(HomeOf(disk), Append(open, <<x, b>>))[h] = g[h] \/ ~Clear(disk, h, c + 2, hi)
    <3>1. Overlay(HomeOf(disk), Append(open, <<x, b>>))[h] = IF h = x THEN b ELSE Overlay(HomeOf(disk), open)[h]
      <4>. HIDE DEF x, b
      <4>. QED  BY <1>6, <2>4, OverlayMore
    <3>2. CASE h = x
      BY <2>9, <3>1, <3>2
    <3>3. CASE h # x
      <4>1. Overlay(HomeOf(disk), open)[h] = g[h] \/ ~Clear(disk, h, c, hi)
        BY <1>3, <1>7 DEF Replaying
      <4>. QED  BY <2>7, <3>1, <3>3, <4>1
    <3>. QED  BY <3>2, <3>3
  <2>11. \A h \in Targets(Append(open, <<x, b>>)) : ~Clear(disk, h, lo, hi)
    <3>. SUFFICES ASSUME NEW h \in Targets(Append(open, <<x, b>>)) PROVE ~Clear(disk, h, lo, hi)
      OBVIOUS
    <3>1. h = x \/ h \in Targets(open)
      <4>. HIDE DEF x, b
      <4>1. DOMAIN Append(open, <<x, b>>) = 1 .. Len(open) + 1 /\ DOMAIN open = 1 .. Len(open) /\ Len(open) \in Nat
        BY <1>6 DEF Writes
      <4>2. PICK i \in 1 .. Len(open) + 1 : h = Append(open, <<x, b>>)[i][1]
        BY <4>1 DEF Targets
      <4>3. CASE i = Len(open) + 1
        BY <1>6, <4>2, <4>3 DEF Writes
      <4>4. CASE i # Len(open) + 1
        <5>1. i \in 1 .. Len(open) /\ Append(open, <<x, b>>)[i] = open[i]
          BY <1>6, <4>1, <4>2, <4>4 DEF Writes
        <5>. QED  BY <4>1, <4>2, <5>1 DEF Targets
      <4>. QED  BY <4>3, <4>4
    <3>2. CASE h = x
      BY <2>8, <3>2
    <3>3. CASE h \in Targets(open)
      BY <1>3, <1>7, <3>3 DEF Replaying
    <3>. QED  BY <3>1, <3>2, <3>3
  <2>12. disk[current' - 1].kind = "data" /\ current' > lo
    <3>1. current' - 1 = c + 1 /\ current' > lo
      BY <1>4, <1>5, <2>2, <2>6
    <3>. QED  BY <2>3, <3>1
  <2>. HIDE DEF x, b
  <2>13. Replaying(g)'
    BY <1>1, <1>2, <1>11, <2>2, <2>5, <2>6, <2>10, <2>11, <2>12 DEF Replaying
  <2>. QED  BY <1>1, <1>2, <1>8, <2>13
<1>. QED  BY <1>9, <1>10, <1>11

\* The home block that recovery writes is one the window speaks of.
LEMMA RecoverWriteKept ==
  ASSUME Ground, Ground', NEW g \in [Homes -> Blocks], Kept(g), RecoverWrite
  PROVE  /\ Kept(g)' /\ dw' = dw /\ media' = media /\ mode = "recover" /\ mode' = "recover"
         /\ \A s \in Slots : disk'[s] = disk[s]
         /\ \A h \in Homes : disk'[h] = disk[h] \/ ~Clear(disk, h, dw.head, dw.tail)
<1>. DEFINE x == replay[1][1]
            b == replay[1][2]
            e == disk'
            lo == dw.head
            hi == dw.tail
<1>1. /\ mode = "recover" /\ mode' = "recover" /\ media' = media /\ replay # <<>> /\ disk' = Put(disk, x, b)
      /\ stores' = stores /\ crossed' = crossed /\ current' = current /\ open' = open /\ replay' = Tail(replay)
  BY DEF RecoverWrite, Write, ghosts
<1>2. Shows(disk, g, lo, hi) /\ (crossed = {} => g \in stores) /\ Replaying(g)
  BY <1>1 DEF Kept
<1>3. replay \in Seq(Homes \X Blocks) /\ disk \in [Addrs -> Blocks]
  BY DEF Ground, TypeInv, TypeOK
<1>4. x \in Homes /\ b \in Blocks /\ 1 \in DOMAIN replay
  <2>1. 1 \in DOMAIN replay /\ replay[1] \in Homes \X Blocks
    BY <1>1, <1>3
  <2>. QED  BY <2>1
<1>5. open = <<>> /\ Todo = replay
  BY <1>1, <1>2 DEF Replaying, Todo
<1>6. Todo' = Tail(replay)
  BY <1>1, <1>5 DEF Todo
<1>7. x \notin Slots /\ \A y \in Addrs : e[y] = IF y = x THEN b ELSE disk[y]
  <2>1. x \notin Slots
    BY <1>4 DEF Slots
  <2>. QED  BY <1>1, <1>3, <2>1 DEF Put
<1>8. \A s \in Slots : e[s] = disk[s]
  BY <1>7 DEF Addrs
<1>9. lo \in 1 .. N - 1 /\ hi \in lo .. N - 1 /\ lo \in Int /\ hi \in Int /\ N \in Nat
  BY Places
<1>10. dw' = dw
  <2>1. disk'[0] = disk[0]
    BY <1>8 DEF Slots
  <2>. QED  BY <2>1, WindowFrame DEF dw
<1>11. ~Clear(disk, x, lo, hi) /\ \A h \in Targets(Tail(replay)) : ~Clear(disk, h, lo, hi)
  <2>1. \A h \in Targets(replay) : ~Clear(disk, h, lo, hi)
    BY <1>2, <1>5 DEF Replaying
  <2>2. x \in Targets(replay)
    BY <1>4 DEF Targets
  <2>3. \A h \in Targets(Tail(replay)) : h \in Targets(replay)
    <3>1. /\ Len(replay) \in Nat /\ DOMAIN replay = 1 .. Len(replay) /\ DOMAIN Tail(replay) = 1 .. Len(replay) - 1
          /\ \A i \in 1 .. Len(replay) - 1 : Tail(replay)[i] = replay[i + 1]
      BY <1>1, <1>3
    <3>2. \A i \in 1 .. Len(replay) - 1 : i + 1 \in 1 .. Len(replay)
      BY <3>1
    <3>. QED  BY <3>1, <3>2 DEF Targets
  <2>. QED  BY <2>1, <2>2, <2>3
<1>12. /\ \A h : Clear(e, h, lo, hi) <=> Clear(disk, h, lo, hi)
       /\ \A f : Logs(e, f, lo, hi) <=> Logs(disk, f, lo, hi)
       /\ \A h : Clear(e, h, current, hi) <=> Clear(disk, h, current, hi)
       /\ WellPaired(e, current, hi)
  <2>1. current \in lo .. hi /\ current \in Int /\ WellPaired(disk, current, hi)
    BY <1>2, <1>9 DEF Replaying
  <2>2. (\A s \in lo .. hi - 1 : e[s] = disk[s]) /\ (\A s \in current .. hi - 1 : e[s] = disk[s])
    BY <1>8, <1>9, <2>1 DEF Slots
  <2>. HIDE DEF e, lo, hi
  <2>3. WellPaired(e, current, hi)
    BY ONLY <1>9, <2>1, <2>2, PairFrame
  <2>. QED  BY ONLY <1>9, <2>1, <2>2, <2>3, SaysFrame
<1>13. \A h \in Homes : disk'[h] = disk[h] \/ ~Clear(disk, h, lo, hi)
  BY <1>7, <1>11 DEF Addrs
<1>14. Shows(disk', g, dw'.head, dw'.tail)
  <2>1. \A h \in Homes : Clear(disk, h, lo, hi) => e[h] = g[h]
    BY <1>2, <1>13 DEF Shows
  <2>. QED  BY <1>2, <1>10, <1>12, <2>1 DEF Shows
<1>15. \A h \in Homes : Overlay(HomeOf(disk'), Tail(replay))[h] = Overlay(HomeOf(disk), replay)[h]
  <2>1. e \in [Addrs -> Blocks]
    BY DEF Ground, TypeInv, TypeOK
  <2>. HIDE DEF e, b
  <2>2. /\ HomeOf(e) \in [Homes -> Blocks] /\ HomeOf(disk) \in [Homes -> Blocks]
        /\ \A h \in Homes : HomeOf(e)[h] = e[h] /\ HomeOf(disk)[h] = disk[h]
    BY <1>3, <2>1, HomeType
  <2>3. \A h \in Homes : HomeOf(e)[h] = IF h = replay[1][1] THEN replay[1][2] ELSE HomeOf(disk)[h]
    BY <1>7, <2>2 DEF Addrs, b
  <2>4. /\ DOMAIN HomeOf(e) = Homes /\ DOMAIN HomeOf(disk) = Homes
        /\ DOMAIN replay = 1 .. Len(replay) - 1 + 1 /\ DOMAIN Tail(replay) = 1 .. Len(replay) - 1
        /\ \A i \in 1 .. Len(replay) - 1 : Tail(replay)[i] = replay[i + 1]
        /\ Len(replay) - 1 \in Nat
    BY <1>1, <1>3, <2>2
  <2>. DEFINE f == HomeOf(disk)
              k == HomeOf(e)
              ws == replay
              vs == Tail(replay)
              m == Len(replay) - 1
  <2>5. /\ DOMAIN k = DOMAIN f /\ DOMAIN f = Homes /\ DOMAIN ws = 1 .. m + 1 /\ DOMAIN vs = 1 .. m /\ m \in Nat
        /\ \A i \in 1 .. m : vs[i] = ws[i + 1]
        /\ \A h \in DOMAIN f : k[h] = IF h = ws[1][1] THEN ws[1][2] ELSE f[h]
    BY <2>3, <2>4
  <2>. HIDE DEF f, k, ws, vs, m
  <2>6. \A h \in Homes : Overlay(k, vs)[h] = Overlay(f, ws)[h]
    BY ONLY <2>5, OverlayTail
  <2>. QED  BY <2>6 DEF e, f, k, ws, vs
<1>16. \A h \in Homes : Overlay(HomeOf(disk'), Tail(replay))[h] = g[h] \/ ~Clear(disk', h, current, hi)
  BY <1>2, <1>5, <1>12, <1>15 DEF Replaying
<1>17. Replaying(g)'
  <2>1. \A h \in Targets(Tail(replay)) : ~Clear(disk', h, lo, hi)
    BY <1>11, <1>12
  <2>2. current \in lo .. hi
    BY <1>2 DEF Replaying
  <2>. QED  BY <1>1, <1>5, <1>6, <1>10, <1>12, <1>16, <2>1, <2>2 DEF Replaying
<1>. QED  BY <1>1, <1>2, <1>8, <1>10, <1>13, <1>14, <1>17 DEF Kept

\* Recovery has written everything: the home blocks are what the window showed.
LEMMA RecoverEndKept ==
  ASSUME Ground, Ground', NEW g \in [Homes -> Blocks], Kept(g), RecoverEnd
  PROVE  /\ Kept(g)' /\ dw' = dw /\ disk' = disk /\ media' = disk /\ mode = "recover" /\ mode' = "up" /\ sb' = dw
         /\ HomeOf(disk) = g
<1>1. /\ mode = "recover" /\ mode' = "up" /\ disk' = disk /\ media' = disk /\ replay = <<>> /\ current = sb.tail
      /\ stores' = {HomeOf(disk)} /\ pc' = pc /\ sb' = sb /\ sb = dw
  BY DEF RecoverEnd, Mounted, SyncAll, Ground, RingInv, MemoryRing
<1>2. dw' = dw
  BY <1>1 DEF dw
<1>3. Shows(disk, g, dw.head, dw.tail) /\ Replaying(g)
  BY <1>1 DEF Kept
<1>4. dw.head \in 1 .. N - 1 /\ dw.tail \in dw.head .. N - 1 /\ (dw.head < dw.tail => disk[dw.tail - 1].kind = "jcmt")
  BY Places
<1>5. open = <<>>
  BY <1>1, <1>3, <1>4 DEF Replaying
<1>6. HomeOf(disk) \in [Homes -> Blocks] /\ \A h \in Homes : HomeOf(disk)[h] = disk[h]
  BY HomeType DEF Ground, TypeInv, TypeOK
<1>7. \A h \in Homes : disk[h] = g[h]
  <2>1. Todo = <<>>
    BY <1>1, <1>5 DEF Todo
  <2>2. \A h \in Homes : Clear(disk, h, current, dw.tail)
    BY <1>1, <1>4 DEF Clear
  <2>. QED  BY <1>3, <1>6, <2>1, <2>2, NoTodo DEF Replaying
<1>8. HomeOf(disk) = g
  BY <1>6, <1>7
<1>9. Logs(disk', g, dw'.head, dw'.tail)
  BY <1>1, <1>2, <1>3 DEF Shows
<1>10. \A t \in Threads : pc'[t] = "idle"
  BY <1>1 DEF Ground, Quiet
<1>11. stores' = {g} /\ \A h \in Homes : disk'[h] = g[h]
  BY <1>1, <1>7, <1>8
<1>12. Kept(g)'
  BY <1>1, <1>9, <1>10, <1>11, MountedKept
<1>. QED  BY <1>1, <1>2, <1>8, <1>12

\* A replay that fails leaves what it wrote, and the window with it.
LEMMA RecoverFaultKept ==
  ASSUME NEW g \in [Homes -> Blocks], Kept(g), RecoverFault
  PROVE  Kept(g)' /\ dw' = dw /\ disk' = disk /\ media' = media /\ mode = "recover" /\ mode' = "down"
<1>1. /\ mode = "recover" /\ mode' = "down" /\ disk' = disk /\ media' = media /\ stores' = stores /\ crossed' = crossed
  BY DEF RecoverFault, Unmounted, diskVars
<1>2. dw' = dw
  BY <1>1 DEF dw
<1>. QED  BY <1>1, <1>2 DEF Kept

(***************************************************************************)
(* What of g the media hold, within the limits.                            *)
(***************************************************************************)

OnMedia(lo, hi) == \A s \in lo .. hi - 1 : media[s] = disk[s]

Flushed(g) ==
  /\ \A h \in Homes : Clear(disk, h, Ebb, dw.tail) => media[h] = g[h]
  /\ (\E t \in Threads : Checkpointing(t) /\ ~Scanning(t)) => \A h \in Homes : media[h] = g[h]
  /\ mode = "recover" => media[0] = disk[0]
  /\ mode = "up" /\ (\A t \in Threads : pc[t] # "sbSync") => mw.tail = dw.tail /\ OnMedia(mw.head, mw.tail)
  /\ mw # dw => /\ OnMedia(mw.head, mw.tail)
                /\ \E f \in stores : Shows(disk, f, mw.head, mw.tail) /\ Shows(media, f, mw.head, mw.tail)

\* The checkpoint that runs, past its scan, has brought everything home.
LEMMA BroughtHome ==
  ASSUME Ground, crossed = {}, NEW g, Kept(g), NEW t \in Threads, Checkpointing(t), ~Scanning(t)
  PROVE  \A h \in Homes : disk[h] = g[h]
<1>1. mode = "up"
  BY CheckpointRuns DEF Ground
<1>2. \A u \in Threads : Scanning(u) => u = t
  BY DEF Ground, Lone, Single, Busy, Scanning, Checkpointing, CheckpointPcs
<1>. QED  BY <1>1, <1>2 DEF Kept, Held, Pending

\* Where the media window is.
LEMMA MediaPlace ==
  ASSUME Ground
  PROVE  /\ mw.head \in Int /\ mw.tail \in Int /\ dw.head \in Int /\ dw.tail \in Int /\ Ebb \in Int
         /\ mw.head \in 1 .. N - 1 /\ mw.tail \in mw.head .. dw.tail /\ mw.head <= dw.head
         /\ dw.head <= Ebb /\ Ebb <= dw.tail /\ 1 <= dw.head /\ dw.tail < N /\ N \in Nat
BY Places DEF Ebb

\* After a flush the media have all that the disk has.
LEMMA SyncedFlushed ==
  \A g : Ground /\ crossed = {} /\ Kept(g) /\ media = disk /\ mode = "up" => Flushed(g)
<1>. SUFFICES ASSUME NEW g, Ground, crossed = {}, Kept(g), media = disk, mode = "up" PROVE Flushed(g)
  OBVIOUS
<1>1. \A h \in Homes : Clear(disk, h, Ebb, dw.tail) => media[h] = g[h]
  BY Settled
<1>2. (\E t \in Threads : Checkpointing(t) /\ ~Scanning(t)) => \A h \in Homes : media[h] = g[h]
  BY BroughtHome
<1>3. mw = dw
  BY DEF mw, dw
<1>. QED  BY <1>1, <1>2, <1>3 DEF Flushed, OnMedia

\* The same of the state after a step.
LEMMA SyncedFlushedNext ==
  (\A g : Ground /\ crossed = {} /\ Kept(g) /\ media = disk /\ mode = "up" => Flushed(g))'
BY SyncedFlushed, PTL

\* What the disk shows through its window the media show, if the window's
\* blocks are there.
LEMMA MediaShows ==
  ASSUME Ground, crossed = {}, NEW g, Kept(g), Flushed(g), OnMedia(dw.head, dw.tail)
  PROVE  Shows(media, g, dw.head, dw.tail)
<1>. DEFINE lo == dw.head
            hi == dw.tail
<1>1. Shows(disk, g, lo, hi)
  BY ShowsNow
<1>2. /\ \A h : Clear(media, h, lo, hi) <=> Clear(disk, h, lo, hi)
      /\ \A f : Logs(media, f, lo, hi) <=> Logs(disk, f, lo, hi)
  <2>1. lo \in Int /\ hi \in Int /\ \A s \in lo .. hi - 1 : media[s] = disk[s]
    BY MediaPlace DEF OnMedia
  <2>. HIDE DEF lo, hi
  <2>. QED  BY ONLY <2>1, SaysFrame
<1>3. ASSUME NEW h \in Homes, Clear(disk, h, lo, hi) PROVE media[h] = g[h]
  <2>1. Clear(disk, h, Ebb, hi)
    <3>1. lo \in Int /\ Ebb \in Int /\ hi \in Int /\ lo <= Ebb /\ Ebb <= hi
      BY MediaPlace
    <3>. HIDE DEF lo, hi
    <3>. QED  BY ONLY <3>1, <1>3, ClearParts
  <2>. QED  BY <2>1 DEF Flushed
<1>. QED  BY <1>1, <1>2, <1>3 DEF Shows

\* While no commit has its superblock on disk, the window on the media shows
\* the store, there and on the disk.
LEMMA MediaHolds ==
  ASSUME Ground, crossed = {}, NEW g, Kept(g), Flushed(g), mode = "up", \A t \in Threads : ~Synced(t)
  PROVE  /\ OnMedia(mw.head, mw.tail) /\ mw.tail = dw.tail
         /\ \E f \in stores : Shows(disk, f, mw.head, mw.tail) /\ Shows(media, f, mw.head, mw.tail)
<1>1. OnMedia(mw.head, mw.tail) /\ mw.tail = dw.tail
  BY DEF Flushed, Synced
<1>2. CASE mw # dw
  BY <1>1, <1>2 DEF Flushed
<1>3. CASE mw = dw
  <2>1. g \in stores
    BY DEF Kept, Current
  <2>. QED  BY <1>1, <1>3, <2>1, ShowsNow, MediaShows
<1>. QED  BY <1>2, <1>3

\* A step that leaves the media, the windows and what the live window says as
\* they are, and writes no home block that the media window does not speak of.
LEMMA StillFlushed ==
  ASSUME Ground, NEW g, Flushed(g), media' = media, dw' = dw, Ebb' = Ebb, stores' = stores,
         mode' = "up" => mode = "up", mode' = "recover" => mode = "recover",
         \A s \in 0 .. dw.tail - 1 : disk'[s] = disk[s],
         \A h \in Homes : mw = dw \/ disk'[h] = disk[h] \/ ~Clear(disk, h, mw.head, mw.tail),
         (\E t \in Threads : Checkpointing(t)' /\ ~Scanning(t)') => \E t \in Threads : Checkpointing(t) /\ ~Scanning(t),
         (\A t \in Threads : pc'[t] # "sbSync") /\ mode' = "up" => \A t \in Threads : pc[t] # "sbSync"
  PROVE  Flushed(g)'
<1>. DEFINE e == disk'
            lo == mw.head
            hi == mw.tail
            eb == Ebb
            top == dw.tail
<1>1. /\ lo \in Int /\ hi \in Int /\ eb \in Int /\ top \in Int
      /\ 1 <= lo /\ hi <= top /\ 1 <= eb
  BY MediaPlace
<1>2. mw' = mw
  BY DEF mw
<1>3. /\ \A s \in lo .. hi - 1 : e[s] = disk[s]
      /\ \A s \in eb .. top - 1 : e[s] = disk[s]
  <2>1. \A s \in 0 .. top - 1 : e[s] = disk[s]
    OBVIOUS
  <2>. HIDE DEF e, lo, hi, eb, top
  <2>. QED  BY <1>1, <2>1
<1>4. /\ \A h : Clear(e, h, lo, hi) <=> Clear(disk, h, lo, hi)
      /\ \A f : Logs(e, f, lo, hi) <=> Logs(disk, f, lo, hi)
      /\ \A h : Clear(e, h, eb, top) <=> Clear(disk, h, eb, top)
  <2>. HIDE DEF e, lo, hi, eb, top
  <2>. QED  BY ONLY <1>1, <1>3, SaysFrame
<1>5. \A h \in Homes : Clear(disk', h, Ebb', dw'.tail) => media'[h] = g[h]
  BY <1>4 DEF Flushed
<1>6. (\E t \in Threads : Checkpointing(t)' /\ ~Scanning(t)') => \A h \in Homes : media'[h] = g[h]
  BY DEF Flushed
<1>7. mode' = "recover" => media'[0] = disk'[0]
  <2>1. disk'[0] = disk[0]
    BY <1>1, Places
  <2>. QED  BY <2>1 DEF Flushed
<1>8. OnMedia(lo, hi) => \A s \in lo .. hi - 1 : media'[s] = disk'[s]
  BY <1>3 DEF OnMedia
<1>9. mode' = "up" /\ (\A t \in Threads : pc'[t] # "sbSync") =>
        mw'.tail = dw'.tail /\ \A s \in mw'.head .. mw'.tail - 1 : media'[s] = disk'[s]
  BY <1>2, <1>8 DEF Flushed
<1>10. ASSUME mw' # dw'
       PROVE  /\ \A s \in mw'.head .. mw'.tail - 1 : media'[s] = disk'[s]
              /\ \E f \in stores' : Shows(disk', f, mw'.head, mw'.tail) /\ Shows(media', f, mw'.head, mw'.tail)
  <2>1. OnMedia(lo, hi) /\ \E f \in stores : Shows(disk, f, lo, hi) /\ Shows(media, f, lo, hi)
    BY <1>2, <1>10 DEF Flushed
  <2>2. PICK f \in stores : Shows(disk, f, lo, hi) /\ Shows(media, f, lo, hi)
    BY <2>1
  <2>3. \A h \in Homes : disk'[h] = disk[h] \/ ~Clear(disk, h, lo, hi)
    BY <1>2, <1>10
  <2>4. Shows(disk', f, lo, hi)
    BY <1>4, <2>2, <2>3 DEF Shows
  <2>. QED  BY <1>2, <1>8, <2>1, <2>2, <2>4
<1>. QED  BY <1>5, <1>6, <1>7, <1>9, <1>10 DEF Flushed, OnMedia

\* The steps of a commit before its superblock.
LEMMA CommitFlushed ==
  ASSUME Ground, Ground', crossed' = {}, NEW g, Kept(g), Flushed(g), NEW t \in Threads,
         \/ \E ws \in Workload : CommitBegin(t, ws)
         \/ CommitFull(t) \/ AllocHeader(t) \/ AllocData(t) \/ WriteHeader(t) \/ WriteData(t)
         \/ AllocCommit(t) \/ WriteCommitRecord(t) \/ SyncCopy(t)
  PROVE  Flushed(g)'
<1>1. /\ mode = "up" /\ mode' = "up" /\ stores' = stores /\ sb'.head = sb.head /\ media' = media
      /\ \A s \in 0 .. dw.tail - 1 : disk'[s] = disk[s]
      /\ \A h \in Homes : disk'[h] = disk[h]
  BY CommitBehind
<1>2. dw' = dw /\ \A u \in Threads : ~Synced(u) /\ ~Synced(u)' /\ ~Checkpointing(u) /\ ~Checkpointing(u)'
  BY CommitKept
<1>3. Ebb' = Ebb /\ \A u \in Threads : pc[u] # "sbSync"
  BY <1>1, <1>2 DEF Ebb, Synced
<1>. QED  BY <1>1, <1>2, <1>3, StillFlushed

\* Recovery's steps leave the media as they are.
LEMMA RecoverFlushed ==
  ASSUME Ground, Ground', NEW g \in [Homes -> Blocks], Kept(g), Flushed(g),
         RecoverRead \/ RecoverWrite \/ RecoverFault
  PROVE  Flushed(g)'
<1>1. /\ dw' = dw /\ media' = media /\ mode = "recover" /\ (mode' = "recover" \/ mode' = "down")
      /\ \A s \in Slots : disk'[s] = disk[s]
  BY RecoverReadKept, RecoverWriteKept, RecoverFaultKept
<1>2. mw = dw
  <2>1. media[0] = disk[0]
    BY <1>1 DEF Flushed
  <2>. QED  BY <2>1, WindowFrame DEF mw, dw
<1>3. stores' = stores /\ pc' = pc
  BY DEF RecoverRead, RecoverWrite, RecoverFault, ghosts
<1>4. Ebb' = Ebb
  BY <1>1 DEF Ebb
<1>5. \A s \in 0 .. dw.tail - 1 : disk'[s] = disk[s]
  BY <1>1, MediaPlace DEF Slots
<1>6. \A u \in Threads : ~Checkpointing(u)'
  BY <1>1, <1>3 DEF Ground, Quiet, Checkpointing, CheckpointPcs
<1>. QED  BY <1>1, <1>2, <1>3, <1>4, <1>5, <1>6, StillFlushed

\* A checkpoint writes home only what the media window speaks of.
LEMMA CheckpointFlushed ==
  ASSUME Ground, Ground', crossed = {}, crossed' = {}, NEW g, Kept(g), Flushed(g), NEW t \in Threads,
         CheckpointBegin(t) \/ CheckpointRead(t) \/ CheckpointApply(t) \/ CheckpointHead(t) \/ CheckpointFault(t)
  PROVE  Flushed(g)'
<1>1. CheckpointBegin(t) \/ Checkpoint(t) \/ CheckpointFault(t)
  BY DEF Checkpoint
<1>2. /\ mode = "up" /\ mode' = "up" /\ stores' = stores
      /\ \A u \in Threads : ~Synced(u) /\ ~Synced(u)'
      /\ \A u \in Threads \ {t} : pc'[u] = pc[u] /\ win'[u] = win[u]
  BY <1>1, CheckpointBeside
<1>3. \A u \in Threads : pc[u] # "sbSync"
  BY <1>2 DEF Synced
<1>4. \A u \in Threads \ {t} : (pc[u] = "idle" /\ pc'[u] = "idle") \/ CheckpointBegin(t)
  <2>1. CheckpointBegin(t) \/ Busy(t)
    BY DEF CheckpointRead, CheckpointApply, CheckpointHead, CheckpointFault, Busy
  <2>. QED  BY <1>2, <2>1 DEF Ground, Lone, Single, Busy
<1>5. CASE CheckpointRead(t) \/ CheckpointApply(t)
  <2>1. /\ dw' = dw /\ sb' = sb /\ media' = media
        /\ \A s \in 0 .. N - 1 : disk'[s] = disk[s]
        /\ \A h \in Homes : disk'[h] = disk[h] \/ ~Clear(disk, h, win[t].head, dw.tail)
        /\ Scanning(t) /\ Scanning(t)'
    BY <1>5, CheckpointScanKept
  <2>2. \A s \in 0 .. dw.tail - 1 : disk'[s] = disk[s]
    BY <2>1, MediaPlace
  <2>3. mw.tail = dw.tail
    BY <1>2, <1>3 DEF Flushed
  <2>4. \A h \in Homes : ~Clear(disk, h, win[t].head, dw.tail) => ~Clear(disk, h, mw.head, mw.tail)
    <3>. DEFINE lo == mw.head
                mid == win[t].head
                hi == dw.tail
    <3>1. lo \in Int /\ mid \in Int /\ hi \in Int /\ lo <= mid /\ mid <= hi
      <4>1. sb.head <= win[t].head /\ win[t].head \in 1 .. dw.tail /\ sb.head \in dw.head .. dw.tail
        BY <2>1, ScanPlace
      <4>. QED  BY <4>1, MediaPlace
    <3>. HIDE DEF lo, mid, hi
    <3>2. \A h \in Homes : ~Clear(disk, h, mid, hi) => ~Clear(disk, h, lo, hi)
      BY ONLY <3>1, ClearParts
    <3>. QED  BY <2>3, <3>2 DEF lo, mid, hi
  <2>5. Ebb' = Ebb
    BY <1>2, <2>1 DEF Ebb
  <2>6. \A u \in Threads : Checkpointing(u)' => Scanning(u)'
    BY <1>4, <1>5, <2>1 DEF Checkpointing, CheckpointPcs, CheckpointRead, CheckpointApply, CheckpointBegin, Busy
  <2>. QED  BY <1>2, <1>3, <2>1, <2>2, <2>4, <2>5, <2>6, StillFlushed
<1>6. CASE CheckpointBegin(t)
  <2>1. dw' = dw /\ disk' = disk /\ media' = media /\ sb' = sb /\ pc'[t] = "scan"
    BY <1>6, CheckpointBeginKept DEF CheckpointBegin, diskVars, Goto, Ground, TypeInv, TypeOK
  <2>2. Ebb' = Ebb
    BY <1>2, <2>1 DEF Ebb
  <2>3. \A u \in Threads \ {t} : (Checkpointing(u)' <=> Checkpointing(u)) /\ (Scanning(u)' <=> Scanning(u))
    BY <1>2 DEF Checkpointing, Scanning
  <2>4. Scanning(t)'
    BY <2>1 DEF Scanning
  <2>. QED  BY <1>2, <1>3, <2>1, <2>2, <2>3, <2>4, StillFlushed
<1>7. CASE CheckpointHead(t)
  <2>1. /\ dw' = dw /\ disk' = disk /\ sb'.head = dw.tail /\ media' = media
        /\ ~Scanning(t) /\ Checkpointing(t)
    BY <1>7, CheckpointPastKept
  <2>2. \A h \in Homes : media[h] = g[h]
    BY <2>1 DEF Flushed
  <2>3. mw' = mw
    BY <2>1 DEF mw
  <2>. QED  BY <1>2, <1>3, <2>1, <2>2, <2>3 DEF Flushed, OnMedia
<1>8. CASE CheckpointFault(t)
  <2>1. dw' = dw /\ disk' = disk /\ sb' = sb /\ media' = media /\ pc'[t] = "idle"
    BY <1>8, CheckpointDoneKept DEF CheckpointFault, Return, Goto, Ground, TypeInv, TypeOK
  <2>2. Ebb' = Ebb
    BY <1>2, <2>1 DEF Ebb
  <2>3. \A u \in Threads \ {t} : (Checkpointing(u)' <=> Checkpointing(u)) /\ (Scanning(u)' <=> Scanning(u))
    BY <1>2 DEF Checkpointing, Scanning
  <2>4. ~Checkpointing(t)'
    BY <2>1 DEF Checkpointing, CheckpointPcs
  <2>. QED  BY <1>2, <1>3, <2>1, <2>2, <2>3, <2>4, StillFlushed
<1>. QED  BY <1>5, <1>6, <1>7, <1>8

\* What the media window shows stands when block 0 of the disk is written.
LEMMA MediaHoldsStill ==
  ASSUME Ground, crossed = {}, NEW g, Kept(g), Flushed(g), mode = "up", \A t \in Threads : ~Synced(t),
         media' = media, stores' = stores,
         \A s \in 1 .. N - 1 : disk'[s] = disk[s], \A h \in Homes : disk'[h] = disk[h]
  PROVE  /\ mw' = mw /\ mw.tail = dw.tail /\ \A s \in mw.head .. mw.tail - 1 : media'[s] = disk'[s]
         /\ \E f \in stores' : Shows(disk', f, mw.head, mw.tail) /\ Shows(media', f, mw.head, mw.tail)
<1>. DEFINE lo == mw.head
            hi == mw.tail
<1>1. lo \in Int /\ hi \in Int /\ lo \in 1 .. N - 1 /\ hi \in lo .. N - 1
  BY MediaPlace
<1>2. OnMedia(lo, hi) /\ hi = dw.tail /\ \E f \in stores : Shows(disk, f, lo, hi) /\ Shows(media, f, lo, hi)
  BY MediaHolds
<1>3. PICK f \in stores : Shows(disk, f, lo, hi) /\ Shows(media, f, lo, hi)
  BY <1>2
<1>4. mw' = mw
  BY DEF mw
<1>5. Shows(disk', f, lo, hi)
  <2>1. /\ \A h : Clear(disk', h, lo, hi) <=> Clear(disk, h, lo, hi)
        /\ Logs(disk', f, lo, hi) <=> Logs(disk, f, lo, hi)
    <3>. HIDE DEF lo, hi
    <3>1. /\ \A h : Clear(disk', h, lo, hi) <=> Clear(disk, h, lo, hi)
          /\ \A k : Logs(disk', k, lo, hi) <=> Logs(disk, k, lo, hi)
      BY <1>1, RingSays
    <3>. QED  BY <3>1
  <2>. QED  BY <1>3, <2>1 DEF Shows
<1>6. \A s \in lo .. hi - 1 : media'[s] = disk'[s]
  BY <1>1, <1>2 DEF OnMedia
<1>. QED  BY <1>2, <1>3, <1>4, <1>5, <1>6

\* The superblock is written to the disk.
LEMMA SbFlushed ==
  ASSUME Ground, Ground', crossed = {}, crossed' = {}, NEW g \in [Homes -> Blocks], Kept(g), Flushed(g), NEW t \in Threads
  PROVE  /\ SyncWrite(t) => \A e : e = Overlay(g, Logged(t)) => Flushed(e)'
         /\ CheckpointSbWrite(t) => Flushed(g)'
<1>1. ASSUME SyncWrite(t), NEW e, e = Overlay(g, Logged(t)) PROVE Flushed(e)'
  <2>1. /\ dw' = sb /\ \A u \in Threads \ {t} : pc'[u] = pc[u] /\ pc[u] = "idle"
        /\ \A s \in 1 .. N - 1 : disk'[s] = disk[s]
        /\ \A h \in Homes : disk'[h] = disk[h]
        /\ \A h \in Homes : Clear(disk', h, sb.head, sb.tail) => e[h] = g[h] /\ Clear(disk, h, sb.head, dw.tail)
    BY <1>1, SyncWriteKept
  <2>2. /\ pc[t] = "sbWrite" /\ pc'[t] = "sbSync" /\ media' = media /\ stores' = stores /\ sb' = sb /\ mode' = mode
    BY <1>1 DEF SyncWrite, Goto, Write, mountVars, ghosts, Ground, TypeInv, TypeOK
  <2>3. mode = "up"
    BY <1>1, CommitAlone, <2>2 DEF Committing, CommitPcs
  <2>4. \A u \in Threads : ~Synced(u)
    BY <2>1, <2>2 DEF Synced
  <2>5. /\ mw' = mw /\ mw.tail = dw.tail /\ \A s \in mw.head .. mw.tail - 1 : media'[s] = disk'[s]
        /\ \E f \in stores' : Shows(disk', f, mw.head, mw.tail) /\ Shows(media', f, mw.head, mw.tail)
    BY <2>1, <2>2, <2>3, <2>4, MediaHoldsStill
  <2>6. \A h \in Homes : Clear(disk', h, Ebb', dw'.tail) => media'[h] = e[h]
    BY <2>1, <2>2, <2>3 DEF Flushed, Ebb
  <2>7. \A u \in Threads : ~Checkpointing(u)'
    BY <2>1, <2>2 DEF Checkpointing, CheckpointPcs
  <2>. QED  BY <2>2, <2>3, <2>5, <2>6, <2>7 DEF Flushed, OnMedia
<1>2. ASSUME CheckpointSbWrite(t) PROVE Flushed(g)'
  <2>1. /\ dw'.head = dw.tail /\ dw'.tail = dw.tail /\ sb' = sb /\ media' = media
        /\ mode = "up" /\ mode' = "up"
        /\ \A s \in 1 .. N - 1 : disk'[s] = disk[s]
        /\ \A h \in Homes : disk'[h] = disk[h]
        /\ ~Scanning(t) /\ ~Scanning(t)' /\ Checkpointing(t) /\ Checkpointing(t)'
    BY <1>2, CheckpointSbKept
  <2>2. stores' = stores /\ \A u \in Threads : ~Synced(u) /\ ~Synced(u)'
    BY <1>2, CheckpointBeside DEF Checkpoint
  <2>3. /\ mw' = mw /\ mw.tail = dw.tail /\ \A s \in mw.head .. mw.tail - 1 : media'[s] = disk'[s]
        /\ \E f \in stores' : Shows(disk', f, mw.head, mw.tail) /\ Shows(media', f, mw.head, mw.tail)
    BY <2>1, <2>2, MediaHoldsStill
  <2>4. \A h \in Homes : media'[h] = g[h]
    BY <2>1 DEF Flushed
  <2>. QED  BY <2>1, <2>3, <2>4 DEF Flushed, OnMedia
<1>. QED  BY <1>1, <1>2

\* The mount that starts from blocks of the media.
LEMMA MountFlushed ==
  ASSUME Ground, Ground', PowerLoss, crossed' = {}, NEW g \in [Homes -> Blocks], Kept(g), Flushed(g), Mount
  PROVE  Flushed(g)'
<1>0. dw' = dw /\ (mode' = "up" => dw.head = dw.tail)
  BY MountKept
<1>1. /\ dw' = dw /\ disk' = disk /\ media' = media /\ sb' = dw /\ mode = "down"
      /\ mode' = "up" => dw.head = dw.tail
  BY <1>0, MountKept
<1>2. media[0] = disk[0] /\ pc' = pc
  <2>1. "unsynced" \notin crossed' /\ pc' = pc
    BY DEF Mount
  <2>. QED  BY <2>1 DEF Mount, Cross
<1>3. mw' = dw'
  BY <1>1, <1>2, WindowFrame DEF mw, dw
<1>4. Ebb' = Ebb
  BY <1>1 DEF Ebb
<1>5. \A u \in Threads : ~Checkpointing(u)'
  BY <1>1, <1>2 DEF Ground, Quiet, Checkpointing, CheckpointPcs
<1>6. dw.head \in Int
  BY MediaPlace
<1>7. mode' = "up" => \A s \in dw.head .. dw.tail - 1 : media'[s] = disk'[s]
  BY <1>1, <1>6
<1>. QED  BY <1>1, <1>2, <1>3, <1>4, <1>5, <1>7 DEF Flushed, OnMedia

\* Nothing that g is about has changed.
LEMMA StillKept ==
  ASSUME NEW g, Kept(g), disk' = disk, mode' = mode, UNCHANGED <<sb, current, open, replay, pc, txn, win, stores, crossed>>
  PROVE  Kept(g)' /\ dw' = dw
<1>1. dw' = dw
  BY DEF dw
<1>2. \A t \in Threads : /\ Synced(t)' <=> Synced(t)
                         /\ Scanning(t)' <=> Scanning(t)
                         /\ Checkpointing(t)' <=> Checkpointing(t)
                         /\ Logged(t)' = Logged(t)
  BY DEF Synced, Scanning, Checkpointing, Logged
<1>3. Held(g)' <=> Held(g)
  BY <1>1, <1>2 DEF Held, Pending
<1>4. Replaying(g)' <=> Replaying(g)
  BY <1>1 DEF Replaying, Todo
<1>5. \A f : Current(f, g)' <=> Current(f, g)
  BY <1>2 DEF Current
<1>. QED  BY <1>1, <1>3, <1>4, <1>5 DEF Kept

\* A block reaches the media.
LEMMA WriteBackFlushed ==
  ASSUME Ground, crossed = {}, NEW g \in [Homes -> Blocks], Kept(g), Flushed(g), NEW r \in Addrs, WriteBack(r)
  PROVE  Flushed(g)'
<1>. DEFINE m == media'
            lo == mw.head
            hi == mw.tail
<1>1. /\ disk' = disk /\ media' = Put(media, r, disk[r]) /\ sb' = sb /\ mode' = mode /\ pc' = pc /\ stores' = stores
  BY DEF WriteBack, mountVars, ghosts
<1>2. \A y \in Addrs : m[y] = IF y = r THEN disk[r] ELSE media[y]
  BY <1>1 DEF Put, Ground, TypeInv, TypeOK
<1>3. dw' = dw /\ Ebb' = Ebb /\ \A t \in Threads : (Checkpointing(t)' <=> Checkpointing(t)) /\ (Scanning(t)' <=> Scanning(t))
  BY <1>1 DEF dw, Ebb, Checkpointing, Scanning
<1>4. \A h \in Homes : h \in Addrs /\ h # 0 /\ h \notin Slots
  BY DEF Addrs, Slots
<1>5. \A h \in Homes : Clear(disk, h, Ebb, dw.tail) => m[h] = g[h]
  BY <1>2, <1>4, Settled DEF Flushed
<1>6. (\E t \in Threads : Checkpointing(t) /\ ~Scanning(t)) => \A h \in Homes : m[h] = g[h]
  BY <1>2, <1>4, BroughtHome DEF Flushed
<1>7. /\ lo \in Int /\ hi \in Int /\ lo \in 1 .. N - 1 /\ hi \in lo .. dw.tail /\ dw.tail < N /\ dw.head \in Int
      /\ lo <= dw.head /\ dw.tail \in Int
  BY MediaPlace
<1>8. \A s \in lo .. dw.tail - 1 : m[s] = media[s] \/ m[s] = disk[s]
  BY <1>2, <1>7 DEF Addrs, Slots
<1>9. CASE r = 0
  <2>1. m[0] = disk[0]
    BY <1>2, <1>9
  <2>2. mw' = dw'
    BY <1>3, <2>1, WindowFrame DEF mw, dw
  <2>3. ASSUME mode = "up", \A t \in Threads : pc[t] # "sbSync"
        PROVE  \A s \in dw.head .. dw.tail - 1 : m[s] = disk[s]
    <3>1. mw.tail = dw.tail /\ \A s \in lo .. dw.tail - 1 : media[s] = disk[s]
      BY <2>3 DEF Flushed, OnMedia
    <3>. QED  BY <1>7, <1>8, <3>1
  <2>. QED  BY <1>1, <1>3, <1>5, <1>6, <2>1, <2>2, <2>3 DEF Flushed, OnMedia
<1>10. CASE r # 0
  <2>1. m[0] = media[0]
    BY <1>2, <1>7, <1>10 DEF Addrs, Slots
  <2>2. mw' = mw
    BY <2>1, WindowFrame DEF mw
  <2>3. OnMedia(lo, hi) => \A s \in lo .. hi - 1 : m[s] = disk[s]
    BY <1>7, <1>8 DEF OnMedia
  <2>4. ASSUME mw # dw
        PROVE  /\ \A s \in lo .. hi - 1 : m[s] = disk[s]
               /\ \E f \in stores : Shows(disk, f, lo, hi) /\ Shows(m, f, lo, hi)
    <3>1. OnMedia(lo, hi) /\ \E f \in stores : Shows(disk, f, lo, hi) /\ Shows(media, f, lo, hi)
      BY <2>4 DEF Flushed
    <3>2. PICK f \in stores : Shows(disk, f, lo, hi) /\ Shows(media, f, lo, hi)
      BY <3>1
    <3>3. (\A s \in lo .. hi - 1 : m[s] = disk[s]) /\ \A s \in lo .. hi - 1 : media[s] = disk[s]
      BY <2>3, <3>1 DEF OnMedia
    <3>4. /\ \A h : Clear(m, h, lo, hi) <=> Clear(disk, h, lo, hi)
          /\ \A k : Logs(m, k, lo, hi) <=> Logs(disk, k, lo, hi)
          /\ \A h : Clear(media, h, lo, hi) <=> Clear(disk, h, lo, hi)
      <4>. HIDE DEF m, lo, hi
      <4>. QED  BY ONLY <1>7, <3>3, SaysFrame
    <3>5. \A h \in Homes : Clear(m, h, lo, hi) => m[h] = f[h]
      BY <1>2, <1>4, <3>2, <3>4 DEF Shows
    <3>. QED  BY <3>2, <3>3, <3>4, <3>5 DEF Shows
  <2>5. mode = "recover" => m[0] = disk[0]
    BY <2>1 DEF Flushed
  <2>6. mode = "up" /\ (\A t \in Threads : pc[t] # "sbSync") => hi = dw.tail /\ \A s \in lo .. hi - 1 : m[s] = disk[s]
    BY <2>3 DEF Flushed
  <2>. QED  BY <1>1, <1>3, <1>5, <1>6, <2>2, <2>4, <2>5, <2>6 DEF Flushed, OnMedia
<1>. QED  BY <1>9, <1>10

\* What the disk holds was promised.
LEMMA HeldPromised ==
  ASSUME Ground, crossed = {}, NEW g, Kept(g)
  PROVE  g \in Promised /\ stores \subseteq Promised
<1>1. CASE mode # "up"
  BY <1>1 DEF Kept, Promised
<1>2. CASE mode = "up" /\ \A t \in Threads : ~Synced(t)
  BY <1>2 DEF Kept, Current, Promised
<1>3. ASSUME mode = "up", NEW t \in Threads, Synced(t) PROVE g \in Promised
  <2>1. PICK f \in stores : Current(f, g)
    BY <1>3 DEF Kept
  <2>2. g = Overlay(f, Logged(t)) /\ Committing(t)
    BY <1>3, <2>1 DEF Current, Synced, Committing, CommitPcs
  <2>. QED  BY <2>1, <2>2 DEF Promised
<1>. QED  BY <1>1, <1>2, <1>3 DEF Promised

\* Outside the limits a restart finds some contents.
LEMMA Reborn ==
  ASSUME Ground', crossed' # {}, mode' = "down"
  PROVE  \E g \in [Homes -> Blocks] : Kept(g)'
<1>. DEFINE e == disk'
            lo == dw'.head
            hi == dw'.tail
<1>1. e \in [Addrs -> Blocks]
  BY DEF Ground, TypeInv, TypeOK
<1>2. WellPaired(e, lo, hi) /\ lo \in Slots /\ hi \in Slots
  BY DEF Ground, RingInv, DiskRing, Ring, Slots
<1>. HIDE DEF e, lo, hi
<1>3. PICK g \in [Homes -> Blocks] : Shows(e, g, lo, hi)
  BY <1>1, <1>2, ShowsExists
<1>4. Shows(disk', g, dw'.head, dw'.tail)
  BY <1>3 DEF e, lo, hi
<1>. QED  BY <1>4 DEF Kept

\* A crash of the program keeps the contents: the device has its window still.
LEMMA CrashKept ==
  ASSUME Ground, Ground', crossed' = {}, NEW g \in [Homes -> Blocks], Kept(g), Crash
  PROVE  Kept(g)' /\ (Flushed(g) => Flushed(g)')
<1>1. /\ disk' = disk /\ media' = media /\ mode' = "down" /\ stores' = Promised /\ crossed = {}
      /\ \A u \in Threads : pc'[u] = "idle"
  BY DEF Crash, Die, Unmounted, diskVars
<1>2. dw' = dw /\ mw' = mw
  BY <1>1 DEF dw, mw
<1>3. Shows(disk, g, dw.head, dw.tail) /\ g \in Promised /\ stores \subseteq Promised
  BY <1>1, ShowsNow, HeldPromised
<1>4. Kept(g)'
  BY <1>1, <1>2, <1>3 DEF Kept
<1>5. ASSUME Flushed(g) PROVE Flushed(g)'
  <2>1. \A h \in Homes : Clear(disk, h, dw.head, dw.tail) => Clear(disk, h, Ebb, dw.tail)
    <3>. DEFINE lo == dw.head
                eb == Ebb
                hi == dw.tail
    <3>1. lo \in Int /\ eb \in Int /\ hi \in Int /\ lo <= eb /\ eb <= hi
      BY MediaPlace
    <3>. HIDE DEF lo, eb, hi
    <3>2. \A h \in Homes : Clear(disk, h, lo, hi) => Clear(disk, h, eb, hi)
      BY ONLY <3>1, ClearParts
    <3>. QED  BY <3>2 DEF lo, eb, hi
  <2>2. Ebb' = dw.head
    BY <1>1, <1>2 DEF Ebb
  <2>3. \A u \in Threads : ~Checkpointing(u)'
    BY <1>1 DEF Checkpointing, CheckpointPcs
  <2>4. \A h \in Homes : Clear(disk', h, Ebb', dw'.tail) => media'[h] = g[h]
    BY <1>1, <1>2, <1>5, <2>1, <2>2 DEF Flushed
  <2>5. mw' # dw' => /\ \A s \in mw'.head .. mw'.tail - 1 : media'[s] = disk'[s]
                     /\ \E f \in stores' : Shows(disk', f, mw'.head, mw'.tail) /\ Shows(media', f, mw'.head, mw'.tail)
    BY <1>1, <1>2, <1>3, <1>5 DEF Flushed, OnMedia
  <2>. QED  BY <1>1, <2>3, <2>4, <2>5 DEF Flushed, OnMedia
<1>. QED  BY <1>4, <1>5

\* A power cut that tears nothing leaves promised contents.
LEMMA CutShows ==
  ASSUME Ground, crossed = {}, NEW g \in [Homes -> Blocks], Kept(g), Flushed(g), ~Torn
  PROVE  \E f \in Promised : Shows(media, f, mw.head, mw.tail)
<1>1. g \in Promised /\ stores \subseteq Promised
  BY HeldPromised
<1>2. CASE mw = dw
  <2>1. Mountable(media) /\ \A s \in Live(mw) : media[s] = disk[s]
    BY DEF Torn, Ground, RingInv, MediaRing, mw
  <2>2. \A s \in mw.head .. mw.tail - 1 : s \in Live(mw)
    BY MediaPlace DEF Live, Slots
  <2>3. OnMedia(dw.head, dw.tail)
    BY <1>2, <2>1, <2>2 DEF OnMedia
  <2>. QED  BY <1>1, <1>2, <2>3, MediaShows
<1>3. CASE mw # dw
  BY <1>1, <1>3 DEF Flushed
<1>. QED  BY <1>2, <1>3

\* After a power cut the media shows contents that were promised.
LEMMA PowerCutKept ==
  ASSUME Ground, Ground', crossed' = {}, crossed = {}, NEW g \in [Homes -> Blocks], Kept(g), Flushed(g), PowerCut
  PROVE  \E f \in [Homes -> Blocks] : Kept(f)' /\ Flushed(f)'
<1>1. /\ disk' = media /\ media' = media /\ mode' = "down" /\ stores' = Promised
      /\ \A u \in Threads : pc'[u] = "idle"
  BY DEF PowerCut, Die, Unmounted
<1>2. ~Torn
  <2>1. "torn" \notin crossed'
    OBVIOUS
  <2>. QED  BY <2>1 DEF PowerCut, Cross
<1>3. PICK f \in Promised : Shows(media, f, mw.head, mw.tail)
  BY <1>2, CutShows
<1>4. f \in [Homes -> Blocks]
  BY PromisedType DEF Ground
<1>5. dw' = mw /\ mw' = mw
  BY <1>1 DEF dw, mw
<1>6. Kept(f)'
  BY <1>1, <1>3, <1>5 DEF Kept
<1>7. \A u \in Threads : ~Checkpointing(u)'
  BY <1>1 DEF Checkpointing, CheckpointPcs
<1>8. Flushed(f)'
  <2>1. Ebb' = mw.head
    BY <1>1, <1>5 DEF Ebb
  <2>2. \A h \in Homes : Clear(disk', h, Ebb', dw'.tail) => media'[h] = f[h]
    BY <1>1, <1>3, <1>5, <2>1 DEF Shows
  <2>. QED  BY <1>1, <1>5, <1>7, <2>2 DEF Flushed
<1>. QED  BY <1>4, <1>6, <1>8

(***************************************************************************)
(* The invariant.                                                          *)
(***************************************************************************)

Orderly == crossed = {} \/ (OnlyCheckpointsOverlap /\ used["faults"] = 0)

Content(g) == Kept(g) /\ (crossed = {} /\ PowerLoss => Flushed(g))
ContentInv == Orderly => \E g \in [Homes -> Blocks] : Content(g)

\* Faults are counted and not forgotten.
LEMMA FaultsCounted ==
  ASSUME TypeInv, [Next]_vars
  PROVE  /\ used'["faults"] = 0 => used["faults"] = 0
         /\ (\E t \in Threads : CheckpointFault(t)) => used'["faults"] # 0
<1>1. used \in [Budgets -> Nat]
  BY DEF TypeInv, TypeOK
<1>2. ASSUME NEW b \in Budgets, used' = [used EXCEPT ![b] = @ + 1]
      PROVE  /\ used'["faults"] = 0 => used["faults"] = 0
             /\ b = "faults" => used'["faults"] # 0
  <2>1. "faults" \in Budgets
    BY DEF Budgets
  <2>2. used'["faults"] = IF b = "faults" THEN used["faults"] + 1 ELSE used["faults"]
    BY <1>1, <1>2, <2>1
  <2>. QED  BY <1>1, <2>1, <2>2
<1>3. \A t \in Threads : CheckpointFault(t) => used' = [used EXCEPT !["faults"] = @ + 1]
  BY DEF CheckpointFault, Use
<1>4. used' = used \/ \E b \in Budgets : used' = [used EXCEPT ![b] = @ + 1]
  <2>1. ASSUME NEW t \in Threads, Calls(t) \/ Commit(t) \/ Checkpoint(t) \/ Faults(t)
        PROVE  used' = used \/ \E b \in Budgets : used' = [used EXCEPT ![b] = @ + 1]
    BY <2>1 DEF Calls, CommitBegin, CheckpointBegin, Commit, CommitFull, AllocHeader, AllocData, WriteHeader, WriteData,
       AllocCommit, WriteCommitRecord, SyncCopy, SyncWrite, SyncFlush, CommitEnd, Checkpoint, CheckpointRead,
       CheckpointApply, CheckpointScanned, CheckpointHead, CheckpointSbWrite, CheckpointEnd, Faults, CommitFault,
       CheckpointFault, Use, Budgets, ghosts
  <2>2. ASSUME Mount \/ RecoverRead \/ RecoverWrite \/ RecoverEnd \/ RecoverFault \/ Environment
        PROVE  used' = used \/ \E b \in Budgets : used' = [used EXCEPT ![b] = @ + 1]
    BY <2>2 DEF Mount, RecoverRead, RecoverWrite, RecoverEnd, RecoverFault, Environment, Crash, PowerCut, WriteBack,
       Die, Use, Budgets, ghosts
  <2>. QED  BY <2>1, <2>2 DEF Next, vars
<1>5. "faults" \in Budgets
  BY DEF Budgets
<1>. QED  BY <1>2, <1>3, <1>4, <1>5

\* The ways a step leaves the orderly runs are never taken back.
LEMMA OrderlyBack ==
  ASSUME TypeInv, [Next]_vars, Orderly'
  PROVE  Orderly
BY CrossedGrows, FaultsCounted DEF Orderly, OnlyCheckpointsOverlap

\* A thread's step.
LEMMA ThreadContent ==
  ASSUME Ground, Ground', crossed \subseteq crossed', NEW t \in Threads, Calls(t) \/ Commit(t) \/ Checkpoint(t),
         NEW g \in [Homes -> Blocks], Content(g)
  PROVE  \E f \in [Homes -> Blocks] : Content(f)'
<1>1. Kept(g) /\ (crossed' = {} /\ PowerLoss => Flushed(g) /\ crossed = {})
  BY DEF Content
<1>2. CASE \/ \E ws \in Workload : CommitBegin(t, ws)
           \/ CommitFull(t) \/ AllocHeader(t) \/ AllocData(t) \/ WriteHeader(t) \/ WriteData(t)
           \/ AllocCommit(t) \/ WriteCommitRecord(t) \/ SyncCopy(t)
  <2>1. Kept(g)'
    BY <1>1, <1>2, CommitKept
  <2>2. crossed' = {} /\ PowerLoss => Flushed(g)'
    BY <1>1, <1>2, CommitFlushed
  <2>. QED  BY <2>1, <2>2 DEF Content
<1>3. CASE SyncWrite(t)
  <2>2. PICK f : f = Overlay(g, Logged(t))
    OBVIOUS
  <2>3. f \in [Homes -> Blocks] /\ Kept(f)'
    BY <1>1, <1>3, <2>2, SyncWriteKept
  <2>4. crossed' = {} /\ PowerLoss => Flushed(f)'
    BY <1>1, <1>3, <2>2, SbFlushed
  <2>. QED  BY <2>3, <2>4 DEF Content
<1>4. CASE SyncFlush(t) \/ CommitEnd(t)
  <2>1. Kept(g)' /\ media' = disk' /\ mode' = "up"
    BY <1>1, <1>4, SyncEndKept
  <2>2. crossed' = {} => Flushed(g)'
    BY <2>1, SyncedFlushedNext
  <2>. QED  BY <2>1, <2>2 DEF Content
<1>5. CASE CheckpointBegin(t)
  BY <1>1, <1>5, CheckpointBeginKept, CheckpointFlushed DEF Content
<1>6. CASE CheckpointRead(t) \/ CheckpointApply(t)
  BY <1>1, <1>6, CheckpointScanKept, CheckpointFlushed DEF Content
<1>7. CASE CheckpointHead(t)
  BY <1>1, <1>7, CheckpointPastKept, CheckpointFlushed DEF Content
<1>8. CASE CheckpointScanned(t)
  <2>1. Kept(g)' /\ media' = disk' /\ mode' = "up"
    BY <1>1, <1>8, CheckpointPastKept
  <2>2. crossed' = {} => Flushed(g)'
    BY <2>1, SyncedFlushedNext
  <2>. QED  BY <2>1, <2>2 DEF Content
<1>9. CASE CheckpointSbWrite(t)
  BY <1>1, <1>9, CheckpointSbKept, SbFlushed DEF Content
<1>10. CASE CheckpointEnd(t)
  <2>1. Kept(g)' /\ media' = disk' /\ mode' = "up"
    BY <1>1, <1>10, CheckpointDoneKept
  <2>2. crossed' = {} => Flushed(g)'
    BY <2>1, SyncedFlushedNext
  <2>. QED  BY <2>1, <2>2 DEF Content
<1>. QED  BY <1>2, <1>3, <1>4, <1>5, <1>6, <1>7, <1>8, <1>9, <1>10 DEF Calls, Commit, Checkpoint

\* A failing device call: of a checkpoint, within the limits.
LEMMA FaultContent ==
  ASSUME Ground, Ground', [Next]_vars, Orderly', NEW t \in Threads, Faults(t), NEW g \in [Homes -> Blocks], Content(g)
  PROVE  Content(g)'
<1>1. CheckpointFault(t)
  <2>1. CommitFault(t) => "failed" \in crossed'
    BY DEF CommitFault, Cross
  <2>2. "failed" \notin crossed'
    BY DEF Orderly, OnlyCheckpointsOverlap
  <2>. QED  BY <2>1, <2>2 DEF Faults
<1>2. crossed' = crossed /\ crossed = {}
  <2>1. used'["faults"] # 0
    BY <1>1, FaultsCounted DEF Ground
  <2>. QED  BY <1>1, <2>1 DEF Orderly, CheckpointFault
<1>. QED  BY <1>1, <1>2, CheckpointDoneKept, CheckpointFlushed DEF Content

\* A step of a mount.
LEMMA MountContent ==
  ASSUME Ground, Ground', crossed \subseteq crossed', Mount \/ RecoverRead \/ RecoverWrite \/ RecoverEnd \/ RecoverFault,
         NEW g \in [Homes -> Blocks], Content(g)
  PROVE  Content(g)'
<1>1. Kept(g) /\ (crossed' = {} /\ PowerLoss => Flushed(g) /\ crossed = {})
  BY DEF Content
<1>2. CASE Mount
  BY <1>1, <1>2, MountKept, MountFlushed DEF Content
<1>3. CASE RecoverRead \/ RecoverWrite \/ RecoverFault
  BY <1>1, <1>3, RecoverReadKept, RecoverWriteKept, RecoverFaultKept, RecoverFlushed DEF Content
<1>4. CASE RecoverEnd
  <2>1. Kept(g)' /\ media' = disk' /\ mode' = "up"
    BY <1>1, <1>4, RecoverEndKept
  <2>2. crossed' = {} => Flushed(g)'
    BY <2>1, SyncedFlushedNext
  <2>. QED  BY <2>1, <2>2 DEF Content
<1>. QED  BY <1>2, <1>3, <1>4

\* Death, power cuts and write-back.
LEMMA EnvironmentContent ==
  ASSUME Ground, Ground', crossed \subseteq crossed', Environment, NEW g \in [Homes -> Blocks], Content(g)
  PROVE  \E f \in [Homes -> Blocks] : Content(f)'
<1>1. Kept(g) /\ (crossed' = {} /\ PowerLoss => Flushed(g)) /\ (crossed' = {} => crossed = {})
  BY DEF Content
<1>2. CASE (Crash \/ PowerCut) /\ crossed' # {}
  <2>1. mode' = "down"
    BY <1>2 DEF Crash, PowerCut, Die, Unmounted
  <2>. QED  BY <1>2, <2>1, Reborn DEF Content
<1>3. CASE Crash /\ crossed' = {}
  BY <1>1, <1>3, CrashKept DEF Content
<1>4. CASE PowerCut /\ crossed' = {}
  <2>1. PowerLoss
    BY <1>4 DEF PowerCut
  <2>. QED  BY <1>1, <1>4, <2>1, PowerCutKept DEF Content
<1>5. ASSUME NEW r \in Addrs, WriteBack(r) PROVE Content(g)'
  <2>1. Kept(g)' /\ crossed' = crossed
    BY <1>1, <1>5, StillKept DEF WriteBack, mountVars, commitVars, ghosts
  <2>2. crossed' = {} /\ PowerLoss => Flushed(g)'
    BY <1>1, <1>5, WriteBackFlushed
  <2>. QED  BY <2>1, <2>2 DEF Content
<1>. QED  BY <1>2, <1>3, <1>4, <1>5 DEF Environment

\* Nothing changes, and the contents do not.
LEMMA StutterContent ==
  ASSUME UNCHANGED vars, NEW g, Content(g)
  PROVE  Content(g)'
<1>1. Kept(g)' /\ crossed' = crossed /\ dw' = dw
  BY StillKept DEF vars, Content
<1>2. Flushed(g) => Flushed(g)'
  <2>1. mw' = mw /\ dw' = dw /\ Ebb' = Ebb
    BY DEF mw, dw, Ebb, vars
  <2>2. \A t \in Threads : (Checkpointing(t)' <=> Checkpointing(t)) /\ (Scanning(t)' <=> Scanning(t))
    BY DEF Checkpointing, Scanning, vars
  <2>. QED  BY <2>1, <2>2 DEF Flushed, OnMedia, vars
<1>. QED  BY <1>1, <1>2 DEF Content

\* Every step keeps the contents, or leaves the orderly runs.
LEMMA ContentNext ==
  ASSUME Ground, Ground', ContentInv, [Next]_vars
  PROVE  ContentInv'
<1>. SUFFICES ASSUME Orderly' PROVE \E f \in [Homes -> Blocks] : Content(f)'
  BY DEF ContentInv
<1>1. Orderly
  BY OrderlyBack DEF Ground
<1>2. PICK g \in [Homes -> Blocks] : Content(g)
  BY <1>1 DEF ContentInv
<1>3. crossed \subseteq crossed'
  BY CrossedGrows
<1>4. ASSUME NEW t \in Threads, Calls(t) \/ Commit(t) \/ Checkpoint(t) \/ Faults(t)
      PROVE  \E f \in [Homes -> Blocks] : Content(f)'
  BY <1>2, <1>3, <1>4, ThreadContent, FaultContent
<1>. QED  BY <1>2, <1>3, <1>4, MountContent, EnvironmentContent, StutterContent DEF Next

\* The new disk is all zero.
LEMMA ContentInit == Init => ContentInv
<1>. SUFFICES ASSUME Init PROVE ContentInv
  OBVIOUS
<1>. DEFINE g == [h \in Homes |-> Data(Zero)]
<1>1. Data(Zero) \in Blocks
  BY BlockFacts DEF Contents
<1>2. g \in [Homes -> Blocks]
  BY <1>1
<1>3. /\ \A h \in Homes : disk[h] = g[h]
      /\ media = disk /\ mode = "down" /\ stores = {g} /\ \A t \in Threads : pc[t] = "idle"
  <2>1. \A h \in Homes : h \in Addrs /\ h # 0
    BY DEF Addrs
  <2>. QED  BY <2>1 DEF Init
<1>4. dw = mw /\ dw.head = 1 /\ dw.tail = 1
  <2>1. disk[0] \in {JournalSb([head |-> 1, tail |-> 1]), JournalSb([head |-> 0, tail |-> 0])}
    <3>1. 0 \in Addrs
      BY DEF Addrs, Slots
    <3>. QED  BY <3>1 DEF Init
  <2>2. disk[0].head \in {0, 1} /\ disk[0].tail = disk[0].head
    BY <2>1 DEF JournalSb
  <2>. QED  BY <1>3, <2>2 DEF dw, mw, DiskWindow
<1>. HIDE DEF g
<1>5. Shows(disk, g, dw.head, dw.tail)
  BY <1>3, <1>4 DEF Shows, Logs, Clear
<1>6. Kept(g)
  BY <1>3, <1>5 DEF Kept
<1>7. Flushed(g)
  <2>1. \A t \in Threads : ~Checkpointing(t)
    BY <1>3 DEF Checkpointing, CheckpointPcs
  <2>. QED  BY <1>3, <1>4, <2>1 DEF Flushed
<1>. QED  BY <1>2, <1>6, <1>7 DEF ContentInv, Content

JournalInv == RingSafe /\ StoresKnown /\ Lone /\ Emptied /\ ContentInv

\* The whole invariant is inductive.
LEMMA JournalInductive == Spec => []JournalInv
<1>1. Init => StoresKnown /\ Lone /\ Emptied /\ ContentInv
  BY StoresInit, LoneInit, ContentInit
<1>2. RingSafe /\ RingSafe' /\ JournalInv /\ [Next]_vars => (StoresKnown /\ Lone /\ Emptied /\ ContentInv)'
  <2>. SUFFICES ASSUME RingSafe, RingSafe', JournalInv, [Next]_vars PROVE (StoresKnown /\ Lone /\ Emptied /\ ContentInv)'
    OBVIOUS
  <2>1. TypeInv /\ TypeInv' /\ Quiet /\ Quiet' /\ crossed \subseteq crossed'
    BY CrossedGrows DEF RingSafe
  <2>2. StoresKnown' /\ Emptied'
    BY <2>1, StoresNext, EmptiedNext DEF JournalInv
  <2>3. CASE OnlyCheckpointsOverlap'
    <3>1. RingInv /\ RingInv'
      BY <2>1, <2>3 DEF RingSafe, OnlyCheckpointsOverlap
    <3>2. Lone'
      BY <2>1, <3>1, LoneNext DEF JournalInv
    <3>3. Ground /\ Ground'
      BY <2>1, <2>2, <3>1, <3>2 DEF Ground, JournalInv
    <3>. QED  BY <2>2, <3>2, <3>3, ContentNext DEF JournalInv
  <2>4. CASE ~OnlyCheckpointsOverlap'
    BY <2>2, <2>4 DEF OnlyCheckpointsOverlap, Lone, ContentInv, Orderly
  <2>. QED  BY <2>3, <2>4
<1>. QED  BY <1>1, <1>2, RingInductive, PTL DEF Spec, JournalInv

(***************************************************************************)
(* What follows.                                                           *)
(***************************************************************************)

\* The window read from a typed device is a window.
LEMMA WindowTypes ==
  ASSUME TypeInv
  PROVE  \A d \in [Addrs -> Blocks] : Mountable(d) => DiskWindow(d) \in Windows
<1>. SUFFICES ASSUME NEW d \in [Addrs -> Blocks], Mountable(d) PROVE DiskWindow(d) \in Windows
  OBVIOUS
<1>1. d[0] \in Blocks /\ d[0].kind = "jsb"
  BY DEF Mountable, Addrs, Slots
<1>2. d[0].head \in Slots /\ d[0].tail \in Slots
  BY <1>1 DEF Blocks, CommitRecord
<1>. QED  BY <1>2 DEF DiskWindow, Windows, Slots

\* The invariant gives crash consistency.
LEMMA CrashConsistentNow ==
  ASSUME JournalInv
  PROVE  CrashConsistent
<1>. SUFFICES ASSUME crossed = {}
              PROVE  /\ Recovered(disk) \in Promised
                     /\ PowerLoss /\ ~Torn => Recovered(media) \in Promised
  BY DEF CrashConsistent, WithinLimits
<1>1. Ground
  BY DEF JournalInv, RingSafe, OnlyCheckpointsOverlap, Ground
<1>2. PICK g \in [Homes -> Blocks] : Kept(g) /\ (PowerLoss => Flushed(g))
  BY DEF JournalInv, ContentInv, Orderly, Content
<1>3. disk \in [Addrs -> Blocks] /\ media \in [Addrs -> Blocks] /\ Mountable(disk) /\ Mountable(media)
  BY <1>1 DEF Ground, TypeInv, TypeOK, RingInv, DiskRing, MediaRing
<1>4. dw \in Windows /\ mw \in Windows /\ Ring(disk, dw.head, dw.tail)
  BY <1>1, <1>3, WindowTypes DEF dw, mw, Ground, RingInv, DiskRing
<1>5. Recovered(disk) = g
  <2>1. Shows(disk, g, dw.head, dw.tail)
    BY <1>1, <1>2, ShowsNow
  <2>2. Overlay(HomeOf(disk), Scan(disk, dw).out) = g
    BY <1>2, <1>3, <1>4, <2>1, ScanShows
  <2>. QED  BY <1>3, <2>2 DEF Recovered, dw
<1>6. Recovered(disk) \in Promised
  BY <1>1, <1>2, <1>5, HeldPromised
<1>7. ASSUME PowerLoss, ~Torn PROVE Recovered(media) \in Promised
  <2>1. PICK f \in Promised : Shows(media, f, mw.head, mw.tail)
    BY <1>1, <1>2, <1>7, CutShows
  <2>2. f \in [Homes -> Blocks]
    BY <1>1, PromisedType DEF Ground
  <2>3. Ring(media, mw.head, mw.tail)
    <3>1. \A s \in Live(mw) : media[s] = disk[s]
      BY <1>3, <1>7 DEF Torn, mw
    <3>2. \A s \in mw.head .. mw.tail - 1 : s \in Live(mw)
      BY <1>1, MediaPlace DEF Live, Slots
    <3>3. Ring(disk, mw.head, mw.tail)
      BY <1>1 DEF Ground, RingInv, MediaRing
    <3>. QED  BY <3>1, <3>2, <3>3, RingFrame
  <2>4. Overlay(HomeOf(media), Scan(media, mw).out) = f
    BY <1>3, <1>4, <2>1, <2>2, <2>3, ScanShows
  <2>. QED  BY <1>3, <2>1, <2>4 DEF Recovered, mw
<1>. QED  BY <1>6, <1>7

\* Within the limits, and for every ring, every workload and any number of
\* threads, crashes and power cuts: a mount of the disk as it is at any moment
\* ends with contents that were promised, a mount cut short included; and so
\* does a mount of what a power cut leaves that does not tear the running commit.
THEOREM CrashesAreConsistent == Spec => []CrashConsistent
BY JournalInductive, CrashConsistentNow, PTL

\* The invariant gives the exactness of checkpoints.
LEMMA CheckpointExactNow ==
  ASSUME JournalInv
  PROVE  CheckpointExact
<1>. SUFFICES ASSUME Orderly, mode = "up", sb.head = sb.tail, \A t \in Threads : ~Busy(t)
              PROVE  stores = {HomeOf(disk)}
  BY DEF CheckpointExact, WithinLimits, Orderly
<1>1. Ground
  BY DEF JournalInv, RingSafe, OnlyCheckpointsOverlap, Ground, Orderly
<1>2. PICK g \in [Homes -> Blocks] : Kept(g)
  BY DEF JournalInv, ContentInv, Content
<1>3. \A t \in Threads : ~Synced(t) /\ ~Checkpointing(t) /\ ~Committing(t)
  BY DEF Busy, Synced, Checkpointing, CheckpointPcs, Committing, CommitPcs
<1>4. stores = {g} /\ Held(g)
  BY <1>2, <1>3 DEF Kept, Current
<1>5. sb.tail = dw.tail /\ dw.tail \in Int
  BY <1>1, <1>3, Places DEF Ground, RingInv, MemoryRing
<1>6. \A h \in Homes : Clear(disk, h, sb.head, dw.tail)
  BY <1>5 DEF Clear
<1>7. \A h \in Homes : disk[h] = g[h]
  BY <1>3, <1>4, <1>6 DEF Held, Pending
<1>8. HomeOf(disk) = g
  <2>1. HomeOf(disk) \in [Homes -> Blocks] /\ \A h \in Homes : HomeOf(disk)[h] = disk[h]
    BY <1>1, HomeType DEF Ground, TypeInv, TypeOK
  <2>. QED  BY <1>7, <2>1
<1>. QED  BY <1>4, <1>8

\* Within the limits, or when only checkpoints overlapped and none failed, a
\* journal at rest with an empty window has every acknowledged write at home.
THEOREM CheckpointsAreExact == Spec => []CheckpointExact
BY JournalInductive, CheckpointExactNow, PTL

(***************************************************************************)
(* Until the first crash.                                                  *)
(***************************************************************************)

\* Nobody has written the ring from lo on since it was made.
Zeroed(lo) == \A s \in lo .. N - 1 : disk[s] = Data(Zero) /\ media[s] = Data(Zero)

\* How far a running commit has written.
Reach(t) ==
  IF Synced(t) THEN dw.tail
  ELSE dw.tail + 2 * done[t] + (IF pc[t] \in {"wrDat", "sbCopy", "sbWrite"} THEN 1 ELSE 0)

\* The window of the disk, up to the commit that is writing its superblock, is
\* on the media; the rest of it are headers for what that commit writes.
Tearing(t) ==
  \E m \in dw.head .. dw.tail :
    /\ OnMedia(dw.head, m) /\ (dw.head < m => disk[m - 1].kind = "jcmt")
    /\ \A s \in m .. dw.tail - 1 : disk[s].kind = "jdat" => disk[s].target \in Targets(txn[t])

Young == crossed = {} /\ used["crashes"] = 0 /\ PowerLoss

Fresh ==
  /\ mode # "recover" /\ (mode = "down" => dw.head = dw.tail)
  /\ (\A t \in Threads : ~Committing(t)) => Zeroed(dw.tail)
  /\ \A t \in Threads : Committing(t) => Zeroed(Reach(t))
  /\ \A s \in 1 .. N - 1 : media[s] = disk[s] \/ media[s] = Data(Zero)
  /\ \A t \in Threads : pc[t] = "sbSync" => Tearing(t)

FreshInv == Young => Fresh

\* The bounds' counters never fall.
LEMMA UsedGrows ==
  ASSUME TypeInv, [Next]_vars
  PROVE  /\ \A b \in Budgets : used[b] <= used'[b]
         /\ Crash \/ PowerCut => used'["crashes"] # 0
<1>1. used \in [Budgets -> Nat] /\ "crashes" \in Budgets
  BY DEF TypeInv, TypeOK, Budgets
<1>2. ASSUME NEW b \in Budgets, used' = [used EXCEPT ![b] = @ + 1]
      PROVE  (\A c \in Budgets : used[c] <= used'[c]) /\ used'[b] # 0
  BY <1>1, <1>2
<1>3. Crash \/ PowerCut => used' = [used EXCEPT !["crashes"] = @ + 1]
  BY DEF Crash, PowerCut, Die, Use
<1>4. used' = used \/ \E b \in Budgets : used' = [used EXCEPT ![b] = @ + 1]
  <2>1. ASSUME NEW t \in Threads, Calls(t) \/ Commit(t) \/ Checkpoint(t) \/ Faults(t)
        PROVE  used' = used \/ \E b \in Budgets : used' = [used EXCEPT ![b] = @ + 1]
    BY <2>1 DEF Calls, CommitBegin, CheckpointBegin, Commit, CommitFull, AllocHeader, AllocData, WriteHeader, WriteData,
       AllocCommit, WriteCommitRecord, SyncCopy, SyncWrite, SyncFlush, CommitEnd, Checkpoint, CheckpointRead,
       CheckpointApply, CheckpointScanned, CheckpointHead, CheckpointSbWrite, CheckpointEnd, Faults, CommitFault,
       CheckpointFault, Use, Budgets, ghosts
  <2>2. ASSUME Mount \/ RecoverRead \/ RecoverWrite \/ RecoverEnd \/ RecoverFault \/ Environment
        PROVE  used' = used \/ \E b \in Budgets : used' = [used EXCEPT ![b] = @ + 1]
    BY <2>2 DEF Mount, RecoverRead, RecoverWrite, RecoverEnd, RecoverFault, Environment, Crash, PowerCut, WriteBack,
       Die, Use, Budgets, ghosts
  <2>. QED  BY <2>1, <2>2 DEF Next, vars
<1>5. \A b \in Budgets : used[b] <= used'[b]
  <2>1. used' = used => \A b \in Budgets : used[b] <= used'[b]
    BY <1>1
  <2>. QED  BY <1>2, <1>4, <2>1
<1>. QED  BY <1>1, <1>2, <1>3, <1>5

\* A step that writes no slot of the ring but its first and brings nothing to
\* the media that the disk has not.
LEMMA FreshFrame ==
  ASSUME Fresh, NEW x \in Int, x >= 1, Zeroed(x), mode' = "up",
         \A s \in 1 .. N - 1 : disk'[s] = disk[s] /\ (media'[s] = media[s] \/ media'[s] = disk[s]),
         dw'.tail \in Int, (\A t \in Threads : ~Committing(t)') => dw'.tail >= x,
         \A t \in Threads : Committing(t)' => Reach(t)' \in Int /\ Reach(t)' >= x,
         \A t \in Threads : pc'[t] = "sbSync" => Tearing(t)'
  PROVE  Fresh'
<1>1. \A s \in x .. N - 1 : disk'[s] = Data(Zero) /\ media'[s] = Data(Zero)
  BY DEF Zeroed
<1>2. \A y \in Int : y >= x => Zeroed(y)'
  BY <1>1 DEF Zeroed
<1>3. \A s \in 1 .. N - 1 : media'[s] = disk'[s] \/ media'[s] = Data(Zero)
  BY DEF Fresh
<1>4. \A t \in Threads : Committing(t)' => Zeroed(Reach(t))'
  BY <1>2
<1>5. (\A t \in Threads : ~Committing(t)') => Zeroed(dw.tail)'
  BY <1>2
<1>. QED  BY <1>3, <1>4, <1>5 DEF Fresh

\* Where a running commit is.
LEMMA ReachPlace ==
  ASSUME Ground, NEW t \in Threads, Committing(t)
  PROVE  /\ mode = "up" /\ Journalled(t) /\ done[t] \in Nat
         /\ dw.head \in 1 .. N - 1 /\ dw.tail \in dw.head .. N - 1 /\ dw.tail \in Int
         /\ sb.tail \in dw.tail .. N - 1 /\ sb.head \in dw.head .. dw.tail
         /\ Reach(t) \in Int /\ Reach(t) >= dw.tail
         /\ \A u \in Threads \ {t} : pc[u] = "idle"
         /\ \A u \in Threads \ {t} : ~Committing(u)
         /\ pc \in [Threads -> {"idle"} \cup CommitPcs \cup CheckpointPcs]
<1>1. /\ mode = "up" /\ Journalled(t) /\ done[t] \in Nat
      /\ dw.head \in 1 .. N - 1 /\ dw.tail \in dw.head .. N - 1
      /\ sb.tail \in dw.tail .. N - 1
      /\ \A u \in Threads \ {t} : pc[u] = "idle"
      /\ pc \in [Threads -> {"idle"} \cup CommitPcs \cup CheckpointPcs]
  BY CommitRuns DEF Ground
<1>2. sb.head \in dw.head .. dw.tail
  BY <1>1, Places
<1>3. Reach(t) \in Int /\ Reach(t) >= dw.tail
  BY <1>1 DEF Reach
<1>. QED  BY <1>1, <1>2, <1>3 DEF Committing, CommitPcs

\* The steps of a commit that write nothing, or a flush.
LEMMA FreshCommit ==
  ASSUME Ground, Ground', Fresh, crossed' = {}, NEW t \in Threads,
         CommitFull(t) \/ AllocHeader(t) \/ AllocData(t) \/ AllocCommit(t) \/ SyncCopy(t) \/ SyncFlush(t) \/ CommitEnd(t)
  PROVE  Fresh'
<1>1. Committing(t)
  BY DEF CommitFull, AllocHeader, AllocData, AllocCommit, SyncCopy, SyncFlush, CommitEnd, Committing, CommitPcs
<1>2. /\ mode = "up" /\ done[t] \in Nat
      /\ dw.tail \in Int /\ dw.tail >= 1
      /\ Reach(t) \in Int /\ Reach(t) >= dw.tail
      /\ \A u \in Threads \ {t} : pc[u] = "idle"
      /\ pc \in [Threads -> {"idle"} \cup CommitPcs \cup CheckpointPcs]
  BY <1>1, ReachPlace
<1>3. done \in [Threads -> Nat]
  BY DEF Ground, TypeInv, TypeOK
<1>4. disk' = disk /\ mode' = mode /\ (media' = media \/ media' = disk) /\ \A u \in Threads \ {t} : pc'[u] = pc[u]
  BY <1>2 DEF CommitFull, AllocHeader, AllocData, AllocCommit, SyncCopy, SyncFlush, CommitEnd, Return, Goto,
     SyncAll, diskVars, mountVars
<1>5. dw' = dw
  BY <1>4 DEF dw
<1>6. Zeroed(Reach(t))
  BY <1>1 DEF Fresh
<1>7. CASE CommitFull(t)
  <2>1. pc[t] = "hdr" /\ done[t] = 0
    BY <1>7 DEF CommitFull, Cross
  <2>2. Reach(t) = dw.tail
    BY <1>2, <2>1 DEF Reach, Synced
  <2>3. \A u \in Threads : pc'[u] = "idle"
    BY <1>2, <1>4, <1>7 DEF CommitFull, Return, Goto
  <2>4. \A u \in Threads : ~Committing(u)' /\ pc'[u] # "sbSync"
    BY <2>3 DEF Committing, CommitPcs
  <2>. QED  BY <1>2, <1>4, <1>5, <1>6, <2>2, <2>4, FreshFrame
<1>8. CASE CommitEnd(t)
  <2>1. Reach(t) = dw.tail
    BY <1>8 DEF CommitEnd, Reach, Synced
  <2>2. \A u \in Threads : pc'[u] = "idle"
    BY <1>2, <1>4, <1>8 DEF CommitEnd, Return, Goto
  <2>3. \A u \in Threads : ~Committing(u)' /\ pc'[u] # "sbSync"
    BY <2>2 DEF Committing, CommitPcs
  <2>. QED  BY <1>2, <1>4, <1>5, <1>6, <2>1, <2>3, FreshFrame
<1>9. CASE AllocHeader(t) \/ AllocData(t) \/ AllocCommit(t) \/ SyncCopy(t) \/ SyncFlush(t)
  <2>1. done' = done /\ pc'[t] \in CommitPcs /\ pc'[t] # "sbSync"
    BY <1>2, <1>9 DEF AllocHeader, AllocData, AllocCommit, SyncCopy, SyncFlush, Goto, commitVars, CommitPcs
  <2>2. Reach(t)' = Reach(t)
    BY <1>2, <1>5, <1>9, <2>1 DEF AllocHeader, AllocData, AllocCommit, SyncCopy, SyncFlush, Goto, Reach, Synced
  <2>3. \A u \in Threads \ {t} : ~Committing(u)'
    BY <1>2, <1>4 DEF Committing, CommitPcs
  <2>4. Committing(t)' /\ \A u \in Threads : pc'[u] # "sbSync"
    BY <1>2, <1>4, <2>1 DEF Committing
  <2>. QED  BY <1>2, <1>4, <1>5, <1>6, <2>2, <2>3, <2>4, FreshFrame
<1>. QED  BY <1>7, <1>8, <1>9

\* The steps that write the ring write the next slot.
LEMMA FreshWrite ==
  ASSUME Ground, Ground', Fresh, NEW t \in Threads, WriteHeader(t) \/ WriteData(t) \/ WriteCommitRecord(t)
  PROVE  Fresh'
<1>. DEFINE x == Reach(t)
<1>1. Committing(t) /\ ~Synced(t)
  BY DEF WriteHeader, WriteData, WriteCommitRecord, Committing, CommitPcs, Synced
<1>2. /\ mode = "up" /\ done[t] \in Nat /\ Journalled(t)
      /\ dw.tail \in Int /\ dw.tail >= 1
      /\ x \in Int /\ x >= dw.tail
      /\ \A u \in Threads \ {t} : pc[u] = "idle"
      /\ pc \in [Threads -> {"idle"} \cup CommitPcs \cup CheckpointPcs]
  BY <1>1, ReachPlace
<1>3. done \in [Threads -> Nat] /\ disk \in [Addrs -> Blocks]
  BY DEF Ground, TypeInv, TypeOK
<1>4. mode' = mode /\ media' = media /\ (\A u \in Threads \ {t} : pc'[u] = pc[u]) /\ pc'[t] \in CommitPcs \ {"sbSync", "fsync"}
  BY <1>2 DEF WriteHeader, WriteData, WriteCommitRecord, Write, Goto, mountVars, CommitPcs
<1>5. \A s \in 0 .. N - 1 : s # x => disk'[s] = disk[s]
  <2>1. \A s \in 0 .. N - 1 : s \in Addrs
    BY DEF Addrs, Slots
  <2>2. CASE WriteHeader(t)
    <3>1. hslot[t] = x
      BY <1>1, <1>2, <2>2 DEF WriteHeader, Journalled, Reach
    <3>. QED  BY <1>3, <2>1, <2>2, <3>1 DEF WriteHeader, Write, Put
  <2>3. CASE WriteData(t)
    <3>1. dslot[t] = x
      BY <1>1, <1>2, <2>3 DEF WriteData, Journalled, Reach
    <3>. QED  BY <1>3, <2>1, <2>3, <3>1 DEF WriteData, Write, Put
  <2>4. CASE WriteCommitRecord(t)
    <3>1. hslot[t] = x
      BY <1>1, <1>2, <2>4 DEF WriteCommitRecord, Journalled, Reach
    <3>. QED  BY <1>3, <2>1, <2>4, <3>1 DEF WriteCommitRecord, Write, Put
  <2>. QED  BY <2>2, <2>3, <2>4
<1>6. dw' = dw
  <2>1. disk'[0] = disk[0]
    BY <1>2, <1>5
  <2>. QED  BY <2>1, WindowFrame DEF dw
<1>7. Reach(t)' = x + 1
  <2>1. ~Synced(t)'
    BY <1>4 DEF Synced
  <2>2. CASE WriteHeader(t)
    BY <1>1, <1>2, <1>6, <2>1, <2>2 DEF WriteHeader, Goto, commitVars, Reach
  <2>3. CASE WriteData(t)
    BY <1>1, <1>2, <1>3, <1>6, <2>1, <2>3 DEF WriteData, Goto, Reach
  <2>4. CASE WriteCommitRecord(t)
    BY <1>1, <1>2, <1>6, <2>1, <2>4 DEF WriteCommitRecord, Goto, commitVars, Reach
  <2>. QED  BY <2>2, <2>3, <2>4
<1>8. Zeroed(x)
  BY <1>1 DEF Fresh
<1>. HIDE DEF x
<1>9. \A s \in x + 1 .. N - 1 : disk'[s] = Data(Zero) /\ media'[s] = Data(Zero)
  BY <1>2, <1>4, <1>5, <1>8 DEF Zeroed
<1>10. Zeroed(Reach(t))'
  BY <1>7, <1>9 DEF Zeroed
<1>11. \A s \in 1 .. N - 1 : media'[s] = disk'[s] \/ media'[s] = Data(Zero)
  <2>. TAKE s \in 1 .. N - 1
  <2>1. CASE s = x
    BY <1>2, <1>4, <1>8, <2>1 DEF Zeroed
  <2>2. CASE s # x
    BY <1>4, <1>5, <2>2 DEF Fresh
  <2>. QED  BY <2>1, <2>2
<1>12. \A u \in Threads \ {t} : ~Committing(u)' /\ pc'[u] # "sbSync"
  BY <1>2, <1>4 DEF Committing, CommitPcs
<1>13. Committing(t)' /\ pc'[t] # "sbSync"
  BY <1>4 DEF Committing
<1>. QED  BY <1>2, <1>4, <1>10, <1>11, <1>12, <1>13 DEF Fresh

\* The superblock of a commit: what precedes it was on the media.
LEMMA FreshSync ==
  ASSUME Ground, Ground', Fresh, crossed = {}, crossed' = {}, NEW g \in [Homes -> Blocks], Kept(g), Flushed(g),
         NEW t \in Threads, SyncWrite(t)
  PROVE  Fresh'
<1>. DEFINE n == dw.tail
            k == done[t]
            ws == txn[t]
<1>1. pc[t] = "sbWrite" /\ Committing(t) /\ ~Synced(t)
  BY DEF SyncWrite, Committing, CommitPcs, Synced
<1>2. /\ mode = "up" /\ k \in Nat /\ Journalled(t)
      /\ dw.head \in 1 .. N - 1 /\ n \in dw.head .. N - 1 /\ n \in Int
      /\ sb.head \in dw.head .. n
      /\ \A u \in Threads \ {t} : pc[u] = "idle"
      /\ pc \in [Threads -> {"idle"} \cup CommitPcs \cup CheckpointPcs]
  BY <1>1, ReachPlace
<1>3. /\ mode' = mode /\ media' = media /\ txn' = txn
      /\ (\A u \in Threads \ {t} : pc'[u] = pc[u]) /\ pc'[t] = "sbSync"
  BY <1>2 DEF SyncWrite, Write, Goto, mountVars, commitVars
<1>4. dw' = sb /\ \A s \in 1 .. N - 1 : disk'[s] = disk[s]
  <2>1. PICK e : e = Overlay(g, Logged(t))
    OBVIOUS
  <2>. QED  BY <2>1, SyncWriteKept
<1>5. sb.tail = n + 2 * k + 1 /\ k = Len(ws) /\ disk[n + 2 * k].kind = "jcmt"
      /\ \A i \in 1 .. k : disk[n + 2 * i - 2] = Header(ws[i][1], ws[i][2]) /\ disk[n + 2 * i - 1] = Data(ws[i][2])
  BY <1>1, <1>2 DEF Journalled
<1>6. Reach(t) = sb.tail
  BY <1>1, <1>5 DEF Reach
<1>7. Zeroed(Reach(t)) /\ Reach(t) \in Int /\ Reach(t) >= 1
  BY <1>1, <1>2, <1>5, <1>6 DEF Fresh
<1>8. \A u \in Threads \ {t} : ~Committing(u)' /\ pc'[u] # "sbSync"
  BY <1>2, <1>3 DEF Committing, CommitPcs
<1>9. Committing(t)' /\ Reach(t)' = sb.tail
  BY <1>3, <1>4 DEF Committing, CommitPcs, Reach, Synced
<1>10. Tearing(t)'
  <2>1. mw.tail = n /\ OnMedia(mw.head, n) /\ mw.head <= dw.head /\ mw.head \in Int
    <3>1. \A u \in Threads : pc[u] # "sbSync"
      BY <1>1, <1>2
    <3>. QED  BY <1>2, <3>1, MediaPlace DEF Flushed
  <2>2. n \in dw'.head .. dw'.tail
    BY <1>2, <1>4, <1>5
  <2>3. \A s \in dw'.head .. n - 1 : media'[s] = disk'[s]
    BY <1>2, <1>3, <1>4, <2>1 DEF OnMedia
  <2>4. dw'.head < n => disk'[n - 1].kind = "jcmt"
    <3>. SUFFICES ASSUME sb.head < n PROVE disk'[n - 1].kind = "jcmt"
      BY <1>4
    <3>1. dw.head < n /\ n - 1 \in 1 .. N - 1
      BY <1>2
    <3>2. disk[n - 1].kind = "jcmt"
      BY <3>1, Places
    <3>. QED  BY <1>4, <3>1, <3>2
  <2>5. ASSUME NEW s \in n .. sb.tail - 1, disk'[s].kind = "jdat" PROVE disk'[s].target \in Targets(txn'[t])
    <3>1. sb.tail \in 1 .. N - 1 /\ s \in 1 .. N - 1
      <4>1. sb.tail \in n .. N - 1
        BY <1>1, ReachPlace
      <4>. QED  BY <1>2, <4>1
    <3>2. disk[s].kind = "jdat"
      BY <1>4, <2>5, <3>1
    <3>3. s # n + 2 * k
      BY <1>5, <3>2
    <3>4. PICK i \in 1 .. k : s = n + 2 * i - 2 \/ s = n + 2 * i - 1
      <4>1. s - n \in 0 .. 2 * k - 1
        BY <1>2, <1>5, <3>1, <3>3, SMTT(30)
      <4>2. \E j \in 0 .. k - 1 : s - n = 2 * j \/ s - n = 2 * j + 1
        <5>. DEFINE r == s - n
        <5>1. r \in Nat /\ r < 2 * k
          BY <1>2, <4>1
        <5>2. r \div 2 \in 0 .. k - 1 /\ (r = 2 * (r \div 2) \/ r = 2 * (r \div 2) + 1)
          <6>. HIDE DEF r
          <6>. QED  BY <1>2, <5>1
        <5>. QED  BY <5>2
      <4>3. PICK j \in 0 .. k - 1 : s - n = 2 * j \/ s - n = 2 * j + 1
        BY <4>2
      <4>4. j + 1 \in 1 .. k /\ (s = n + 2 * (j + 1) - 2 \/ s = n + 2 * (j + 1) - 1)
        BY <1>2, <3>1, <4>3
      <4>. QED  BY <4>4
    <3>5. disk[s] = Header(ws[i][1], ws[i][2])
      <4>1. disk[n + 2 * i - 2] = Header(ws[i][1], ws[i][2]) /\ disk[n + 2 * i - 1] = Data(ws[i][2])
        BY <1>5
      <4>2. disk[n + 2 * i - 1].kind = "data"
        BY <4>1 DEF Data
      <4>. QED  BY <3>2, <3>4, <4>1, <4>2
    <3>6. disk'[s].target = ws[i][1]
      BY <1>4, <3>1, <3>5 DEF Header
    <3>7. i \in DOMAIN ws
      BY <1>5, LoggedType, TxnSeq DEF Ground, TypeInv
    <3>8. Targets(ws) = {ws[j][1] : j \in DOMAIN ws}
      BY DEF Targets
    <3>. QED  BY <1>3, <3>6, <3>7, <3>8
  <2>6. \A s \in n .. dw'.tail - 1 : disk'[s].kind = "jdat" => disk'[s].target \in Targets(txn'[t])
    BY <1>4, <2>5
  <2>7. PICK m : m = n
    OBVIOUS
  <2>. HIDE DEF n
  <2>8. OnMedia(dw.head, m)'
    BY <2>3, <2>7 DEF OnMedia
  <2>. QED  BY <2>2, <2>4, <2>6, <2>7, <2>8 DEF Tearing
<1>11. \A s \in 1 .. N - 1 : disk'[s] = disk[s] /\ (media'[s] = media[s] \/ media'[s] = disk[s])
  BY <1>3, <1>4
<1>12. sb.tail \in Int
  BY <1>6, <1>7
<1>. QED  BY <1>2, <1>3, <1>4, <1>6, <1>7, <1>8, <1>9, <1>10, <1>11, <1>12, FreshFrame

\* The start of a commit.
LEMMA FreshBegin ==
  ASSUME Ground, Ground', Fresh, crossed' = {}, NEW t \in Threads, NEW ws \in Workload, CommitBegin(t, ws)
  PROVE  Fresh'
<1>1. /\ mode = "up" /\ mode' = mode /\ disk' = disk /\ media' = media /\ done' = done /\ pc[t] = "idle"
      /\ pc' = [pc EXCEPT ![t] = "hdr"]
  BY DEF CommitBegin, Busy, Goto, diskVars, mountVars
<1>2. pc \in [Threads -> {"idle"} \cup CommitPcs \cup CheckpointPcs] /\ done[t] = 0
  BY <1>1 DEF Ground, TypeInv, TypeOK, Ready
<1>3. pc'[t] = "hdr" /\ \A u \in Threads \ {t} : pc'[u] = pc[u]
  BY <1>1, <1>2
<1>4. \A u \in Threads \ {t} : pc[u] = "idle"
  BY <1>3 DEF Ground, Lone, Single, Busy
<1>5. \A u \in Threads : ~Committing(u)
  BY <1>1, <1>4 DEF Committing, CommitPcs
<1>6. Zeroed(dw.tail) /\ dw.tail \in Int /\ dw.tail >= 1
  BY <1>5, Places DEF Fresh
<1>7. dw' = dw
  BY <1>1 DEF dw
<1>8. Reach(t)' = dw.tail
  BY <1>1, <1>2, <1>3, <1>6, <1>7 DEF Reach, Synced
<1>9. \A u \in Threads \ {t} : ~Committing(u)' /\ pc'[u] # "sbSync"
  BY <1>3, <1>4 DEF Committing, CommitPcs
<1>. QED  BY <1>1, <1>3, <1>6, <1>7, <1>8, <1>9, FreshFrame

\* The steps of a checkpoint.
LEMMA FreshCheckpoint ==
  ASSUME Ground, Ground', Fresh, crossed = {}, crossed' = {}, NEW g \in [Homes -> Blocks], Kept(g), NEW t \in Threads,
         CheckpointBegin(t) \/ Checkpoint(t) \/ CheckpointFault(t)
  PROVE  Fresh'
<1>1. /\ mode = "up" /\ mode' = "up"
      /\ \A u \in Threads \ {t} : pc'[u] = pc[u]
      /\ pc[t] \in CheckpointPcs \cup {"idle"} /\ pc'[t] \in CheckpointPcs \cup {"idle"}
  BY CheckpointBeside
<1>2. \A u \in Threads \ {t} : pc[u] \notin CommitPcs
  <2>1. Busy(t) \/ Busy(t)'
    BY DEF CheckpointBegin, Checkpoint, CheckpointRead, CheckpointApply, CheckpointScanned, CheckpointHead,
       CheckpointSbWrite, CheckpointEnd, CheckpointFault, Busy, Goto, Ground, TypeInv, TypeOK
  <2>2. \A u \in Threads \ {t} : pc[u] = "idle"
    BY <1>1, <2>1 DEF Ground, Lone, Single, Busy
  <2>. QED  BY <2>2 DEF CommitPcs
<1>3. \A u \in Threads : ~Committing(u) /\ ~Committing(u)' /\ pc'[u] # "sbSync"
  BY <1>1, <1>2 DEF Committing, CommitPcs, CheckpointPcs
<1>4. Zeroed(dw.tail) /\ dw.tail \in Int /\ dw.tail >= 1
  BY <1>3, Places DEF Fresh
<1>5. /\ dw'.tail = dw.tail
      /\ \A s \in 1 .. N - 1 : disk'[s] = disk[s] /\ (media'[s] = media[s] \/ media'[s] = disk[s])
  <2>1. CASE CheckpointRead(t) \/ CheckpointApply(t)
    <3>1. dw' = dw /\ media' = media /\ \A s \in 0 .. N - 1 : disk'[s] = disk[s]
      BY <2>1, CheckpointScanKept
    <3>. QED  BY <3>1
  <2>2. CASE CheckpointSbWrite(t)
    <3>1. dw'.tail = dw.tail /\ media' = media /\ \A s \in 1 .. N - 1 : disk'[s] = disk[s]
      BY <2>2, CheckpointSbKept
    <3>. QED  BY <3>1
  <2>3. CASE CheckpointBegin(t) \/ CheckpointScanned(t) \/ CheckpointHead(t) \/ CheckpointEnd(t) \/ CheckpointFault(t)
    <3>1. disk' = disk /\ (media' = media \/ media' = disk)
      BY <2>3 DEF CheckpointBegin, CheckpointScanned, CheckpointHead, CheckpointEnd, CheckpointFault, SyncAll, diskVars
    <3>2. dw' = dw
      BY <3>1 DEF dw
    <3>. QED  BY <3>1, <3>2
  <2>. QED  BY <2>1, <2>2, <2>3 DEF Checkpoint
<1>. QED  BY <1>1, <1>3, <1>4, <1>5, FreshFrame

\* The only mount before a crash finds an empty window.
LEMMA FreshMount ==
  ASSUME Ground, Ground', Fresh, Mount
  PROVE  Fresh'
<1>1. /\ mode = "down" /\ disk' = disk /\ media' = media /\ pc' = pc
      /\ LET w == DiskWindow(disk) IN w.head = w.tail => Mounted
  BY DEF Mount, diskVars
<1>2. mode' = "up"
  BY <1>1 DEF Fresh, Mounted, dw
<1>3. \A u \in Threads : ~Committing(u) /\ ~Committing(u)' /\ pc'[u] # "sbSync"
  BY <1>1 DEF Ground, Quiet, Committing, CommitPcs
<1>4. Zeroed(dw.tail) /\ dw.tail \in Int /\ dw.tail >= 1
  BY <1>3, Places DEF Fresh
<1>5. dw' = dw
  BY <1>1 DEF dw
<1>. QED  BY <1>1, <1>2, <1>3, <1>4, <1>5, FreshFrame

\* A block of the ring or a home block reaches the media.
LEMMA FreshWriteBack ==
  ASSUME Ground, Fresh, NEW r \in Addrs, WriteBack(r)
  PROVE  Fresh'
<1>1. /\ disk' = disk /\ media' = Put(media, r, disk[r]) /\ mode' = mode /\ pc' = pc /\ done' = done /\ txn' = txn
  BY DEF WriteBack, mountVars, commitVars
<1>2. \A y \in Addrs : media'[y] = IF y = r THEN disk[r] ELSE media[y]
  BY <1>1 DEF Put, Ground, TypeInv, TypeOK
<1>3. dw' = dw
  BY <1>1 DEF dw
<1>4. \A s \in 0 .. N - 1 : media'[s] = media[s] \/ media'[s] = disk[s]
  BY <1>2 DEF Addrs, Slots
<1>5. \A u \in Threads : (Committing(u)' <=> Committing(u)) /\ Reach(u)' = Reach(u)
  BY <1>1, <1>3 DEF Committing, Reach, Synced
<1>6. \A lo \in Int : lo >= 0 /\ Zeroed(lo) => Zeroed(lo)'
  BY <1>1, <1>4 DEF Zeroed
<1>7. (\A t \in Threads : ~Committing(t)) => Zeroed(dw.tail)'
  BY <1>3, <1>6, MediaPlace DEF Fresh
<1>8. ASSUME NEW t \in Threads, Committing(t) PROVE Zeroed(Reach(t))'
  <2>1. Reach(t) \in Int /\ Reach(t) >= 0
    BY <1>8, ReachPlace
  <2>2. \A s \in Reach(t) .. N - 1 : disk'[s] = Data(Zero) /\ media'[s] = Data(Zero)
    BY <1>1, <1>4, <1>8, <2>1 DEF Fresh, Zeroed
  <2>. QED  BY <1>5, <2>2 DEF Zeroed
<1>9. \A s \in 1 .. N - 1 : media'[s] = disk'[s] \/ media'[s] = Data(Zero)
  BY <1>1, <1>4 DEF Fresh
<1>10. ASSUME NEW t \in Threads, pc[t] = "sbSync" PROVE Tearing(t)'
  <2>1. PICK m \in dw.head .. dw.tail :
          /\ OnMedia(dw.head, m) /\ (dw.head < m => disk[m - 1].kind = "jcmt")
          /\ \A s \in m .. dw.tail - 1 : disk[s].kind = "jdat" => disk[s].target \in Targets(txn[t])
    BY <1>10 DEF Fresh, Tearing
  <2>2. \A s \in dw.head .. m - 1 : media'[s] = disk[s]
    BY <1>4, <2>1, MediaPlace DEF OnMedia
  <2>3. OnMedia(dw.head, m)'
    BY <1>1, <1>3, <2>2 DEF OnMedia
  <2>. QED  BY <1>1, <1>3, <2>1, <2>3 DEF Tearing
<1>. QED  BY <1>1, <1>3, <1>5, <1>7, <1>8, <1>9, <1>10 DEF Fresh

\* Every step before a crash keeps it.
LEMMA FreshNext ==
  ASSUME Ground, Ground', ContentInv, FreshInv, [Next]_vars
  PROVE  FreshInv'
<1>. SUFFICES ASSUME Young' PROVE Fresh'
  BY DEF FreshInv
<1>1. crossed = {} /\ crossed' = {} /\ PowerLoss
  BY CrossedGrows DEF Young
<1>2. used["crashes"] = 0 /\ ~Crash /\ ~PowerCut
  <2>1. used \in [Budgets -> Nat] /\ "crashes" \in Budgets
    BY DEF Ground, TypeInv, TypeOK, Budgets
  <2>2. used["crashes"] <= used'["crashes"] /\ used'["crashes"] = 0
    BY <2>1, UsedGrows DEF Ground, Young
  <2>. QED  BY <2>1, <2>2, UsedGrows DEF Ground
<1>3. Fresh
  BY <1>1, <1>2 DEF FreshInv, Young
<1>4. PICK g \in [Homes -> Blocks] : Kept(g) /\ Flushed(g)
  BY <1>1 DEF ContentInv, Orderly, Content
<1>5. ASSUME NEW t \in Threads, Calls(t) \/ Commit(t) \/ Checkpoint(t) \/ Faults(t) PROVE Fresh'
  <2>1. ~CommitFault(t)
    BY <1>1 DEF CommitFault, Cross
  <2>. QED  BY <1>1, <1>3, <1>4, <1>5, <2>1, FreshCommit, FreshWrite, FreshSync, FreshBegin, FreshCheckpoint
            DEF Calls, Commit, Faults
<1>6. CASE Mount
  BY <1>3, <1>6, FreshMount
<1>7. ~RecoverRead /\ ~RecoverWrite /\ ~RecoverEnd /\ ~RecoverFault
  BY <1>3 DEF Fresh, RecoverRead, RecoverWrite, RecoverEnd, RecoverFault
<1>8. CASE \E r \in Addrs : WriteBack(r)
  BY <1>3, <1>8, FreshWriteBack
<1>9. CASE UNCHANGED vars
  <2>1. dw' = dw
    BY <1>9 DEF vars, dw
  <2>2. \A t \in Threads : (Committing(t)' <=> Committing(t)) /\ Reach(t)' = Reach(t) /\ (Tearing(t) => Tearing(t)')
    BY <1>9, <2>1 DEF vars, Committing, Reach, Synced, Tearing, OnMedia
  <2>. QED  BY <1>3, <1>9, <2>1, <2>2 DEF vars, Fresh, Zeroed
<1>. QED  BY <1>2, <1>5, <1>6, <1>7, <1>8, <1>9 DEF Next, Environment

\* A new ring is zero.
LEMMA FreshInit == Init => FreshInv
<1>. SUFFICES ASSUME Init PROVE Fresh
  BY DEF FreshInv
<1>1. media = disk /\ mode = "down" /\ \A t \in Threads : pc[t] = "idle"
  BY DEF Init
<1>2. \A t \in Threads : ~Committing(t) /\ pc[t] # "sbSync"
  BY <1>1 DEF Committing, CommitPcs
<1>3. \A s \in 1 .. N - 1 : disk[s] = Data(Zero)
  <2>1. \A s \in 1 .. N - 1 : s \in Addrs /\ s # 0
    BY DEF Addrs, Slots
  <2>. QED  BY <2>1 DEF Init
<1>4. dw.head = 1 /\ dw.tail = 1
  <2>1. disk[0] \in {JournalSb([head |-> 1, tail |-> 1]), JournalSb([head |-> 0, tail |-> 0])}
    <3>1. 0 \in Addrs
      BY DEF Addrs, Slots
    <3>. QED  BY <3>1 DEF Init
  <2>2. disk[0].head \in {0, 1} /\ disk[0].tail = disk[0].head
    BY <2>1 DEF JournalSb
  <2>. QED  BY <2>2 DEF dw, DiskWindow
<1>. QED  BY <1>1, <1>2, <1>3, <1>4 DEF Fresh, Zeroed

(***************************************************************************)
(* What recovery makes of a torn commit.                                   *)
(***************************************************************************)

\* Writes that do not go to a home block leave it as it is.
LEMMA OverlayBeyond ==
  ASSUME NEW f \in [Homes -> Blocks], NEW ws \in Writes, NEW vs \in Writes, NEW h \in Homes,
         \A i \in 1 .. Len(vs) : vs[i][1] # h
  PROVE  Overlay(f, ws \o vs)[h] = Overlay(f, ws)[h]
<1>. DEFINE n == Len(ws)
            k == Len(vs)
            all == ws \o vs
<1>1. /\ n \in Nat /\ k \in Nat /\ DOMAIN ws = 1 .. n /\ DOMAIN all = 1 .. n + k
      /\ \A i \in 1 .. n : all[i] = ws[i]
      /\ \A i \in n + 1 .. n + k : all[i] = vs[i - n] /\ i - n \in 1 .. k
  BY DEF Writes
<1>2. h \in DOMAIN f /\ n + k \in Nat
  BY <1>1
<1>3. \A i \in n + 1 .. n + k : all[i][1] # h
  BY <1>1
<1>. HIDE DEF n, k, all
<1>4. CASE \A i \in 1 .. n : ws[i][1] # h
  <2>1. \A i \in 1 .. n + k : all[i][1] # h
    <3>1. \A i \in 1 .. n + k : i \in 1 .. n \/ i \in n + 1 .. n + k
      BY <1>1
    <3>. QED  BY <1>1, <1>3, <1>4, <3>1
  <2>2. Overlay(f, all)[h] = f[h] /\ Overlay(f, ws)[h] = f[h]
    BY <1>1, <1>2, <1>4, <2>1, OverlayMiss
  <2>. QED  BY <2>2 DEF all
<1>5. CASE \E i \in 1 .. n : ws[i][1] = h
  <2>1. PICK i \in 1 .. n : LastWrite(ws, n, h, i)
    BY <1>1, <1>5, LastWriteExists
  <2>2. LastWrite(all, n + k, h, i) /\ i \in 1 .. n + k
    <3>1. \A j \in i + 1 .. n + k : (j \in i + 1 .. n /\ j \in 1 .. n) \/ j \in n + 1 .. n + k
      BY <1>1
    <3>2. i \in 1 .. n + k
      BY <1>1
    <3>. QED  BY <1>1, <1>3, <2>1, <3>1, <3>2 DEF LastWrite
  <2>3. Overlay(f, all)[h] = all[i][2]
    BY ONLY <1>1, <1>2, <2>2, OverlayHit
  <2>4. Overlay(f, ws)[h] = ws[i][2]
    BY ONLY <1>1, <1>2, <2>1, OverlayHit
  <2>. QED  BY <1>1, <2>3, <2>4 DEF all
<1>. QED  BY <1>4, <1>5

\* Recovery has read the window up to m, in which all is sound; what it has read since writes only T.
Past(d, f, T, m, hi, p) ==
  /\ p.unknown \/ p.current \in m .. hi
  /\ \A h \in Homes \ T : Overlay(HomeOf(d), p.out)[h] = f[h]
  /\ \A i \in 1 .. Len(p.open) : p.open[i][1] \in T

\* One more turn beyond m.
LEMMA PastOne ==
  ASSUME NEW d \in [Addrs -> Blocks], NEW f, NEW T, NEW hi \in 1 .. N - 1, NEW m \in 1 .. hi,
         \A s \in m .. hi - 1 : d[s].kind = "jdat" => d[s].target \in T /\ s + 2 <= hi,
         NEW p \in Readings, Past(d, f, T, m, hi, p)
  PROVE  Past(d, f, T, m, hi, ReadOne(d, hi, p))
<1>. DEFINE c == p.current
            q == ReadOne(d, hi, p)
<1>1. CASE p.unknown \/ c = hi
  BY <1>1 DEF ReadOne
<1>2. CASE ~p.unknown /\ c # hi
  <2>1. c \in m .. hi - 1 /\ c \in Int /\ c + 1 < N /\ Succ(c) = c + 1 /\ c + 1 \in m .. hi
    BY <1>2 DEF Past, Succ
  <2>2. p.open \in Writes /\ p.out \in Writes /\ HomeOf(d) \in [Homes -> Blocks]
    BY HomeType DEF Readings
  <2>3. CASE d[c].kind = "jdat"
    <3>1. /\ q.current = Succ(Succ(c)) /\ q.out = p.out
          /\ q.open = Append(p.open, <<d[c].target, DataAfter(d, c)>>)
      BY <1>2, <2>3 DEF ReadOne
    <3>2. d[c].target \in T /\ c + 2 <= hi
      BY <2>1, <2>3
    <3>3. Succ(Succ(c)) \in m .. hi
      BY <2>1, <3>2 DEF Succ
    <3>4. \A i \in 1 .. Len(q.open) : q.open[i][1] \in T
      <4>1. /\ Len(q.open) = Len(p.open) + 1 /\ Len(p.open) \in Nat
            /\ \A i \in 1 .. Len(p.open) : q.open[i] = p.open[i]
            /\ q.open[Len(p.open) + 1] = <<d[c].target, DataAfter(d, c)>>
        BY <2>2, <3>1 DEF Writes
      <4>. QED  BY <3>2, <4>1, SMTT(30) DEF Past
    <3>. QED  BY <3>1, <3>3, <3>4 DEF Past
  <2>4. CASE d[c].kind = "jcmt"
    <3>1. q.current = Succ(c) /\ q.out = p.out \o p.open /\ q.open = <<>>
      BY <1>2, <2>4 DEF ReadOne
    <3>2. ASSUME NEW h \in Homes \ T PROVE Overlay(HomeOf(d), p.out \o p.open)[h] = f[h]
      <4>1. \A i \in 1 .. Len(p.open) : p.open[i][1] # h
        BY DEF Past
      <4>. QED  BY <2>2, <4>1, OverlayBeyond DEF Past
    <3>3. \A i \in 1 .. Len(q.open) : q.open[i][1] \in T
      BY <3>1
    <3>. QED  BY <2>1, <3>1, <3>2, <3>3 DEF Past
  <2>5. CASE d[c].kind \notin {"jdat", "jcmt"}
    <3>1. q.unknown = TRUE /\ q.out = p.out /\ q.open = p.open
      BY <1>2, <2>5 DEF ReadOne
    <3>. QED  BY <3>1 DEF Past
  <2>. QED  BY <2>3, <2>4, <2>5
<1>. QED  BY <1>1, <1>2

\* At m recovery has what the sound part shows.
LEMMA PastStart ==
  ASSUME NEW d \in [Addrs -> Blocks], NEW f, NEW T, NEW hi \in 1 .. N - 1, NEW m \in 1 .. hi, NEW lo, Ring(d, lo, m),
         NEW p \in Readings, NEW k, Reads(d, lo, m, p, k), p.current = m,
         \A h \in Homes \ T : IF Clear(d, h, lo, m) THEN d[h] = f[h] ELSE LastIn(d, h, lo, m, f[h])
  PROVE  Past(d, f, T, m, hi, p)
<1>1. lo \in Int /\ m \in Int
  BY DEF Ring
<1>2. p.open = <<>>
  <2>. SUFFICES ASSUME p.open # <<>> PROVE FALSE
    OBVIOUS
  <2>1. m > lo /\ d[m - 1].kind = "data"
    BY DEF Reads
  <2>. QED  BY <1>1, <2>1 DEF Ring
<1>3. p.out \o p.open = p.out
  BY <1>2 DEF Readings, Writes
<1>4. PICK e : e = Overlay(HomeOf(d), p.out)
  OBVIOUS
<1>5. Shows(d, e, lo, m)
  BY <1>3, <1>4 DEF Reads
<1>6. ASSUME NEW h \in Homes \ T PROVE e[h] = f[h]
  <2>1. CASE Clear(d, h, lo, m)
    BY <1>5, <2>1 DEF Shows
  <2>2. CASE ~Clear(d, h, lo, m)
    <3>1. LastIn(d, h, lo, m, e[h]) /\ LastIn(d, h, lo, m, f[h])
      BY <1>5, <2>2 DEF Shows, Logs
    <3>. QED  BY <1>1, <3>1, LastUnique
  <2>. QED  BY <2>1, <2>2
<1>7. m \in m .. hi /\ \A i \in 1 .. Len(p.open) : p.open[i][1] \in T
  BY <1>2
<1>. QED  BY <1>4, <1>6, <1>7 DEF Past

\* Of a window that is sound up to m and then has headers for T alone, recovery
\* replays what the sound part shows, for every home block but those of T.
LEMMA ScanTorn ==
  ASSUME NEW d \in [Addrs -> Blocks], NEW w \in Windows, NEW f, NEW T, w.tail \in 1 .. N - 1, NEW m \in 1 .. w.tail,
         Ring(d, w.head, m),
         \A s \in m .. w.tail - 1 : d[s].kind = "jdat" => d[s].target \in T /\ s + 2 <= w.tail,
         \A h \in Homes \ T : IF Clear(d, h, w.head, m) THEN d[h] = f[h] ELSE LastIn(d, h, w.head, m, f[h])
  PROVE  \A h \in Homes \ T : Overlay(HomeOf(d), Scan(d, w).out)[h] = f[h]
<1>. DEFINE lo == w.head
            hi == w.tail
            M == 2 * N
<1>1. PICK at \in [0 .. M -> Readings] :
           /\ Scan(d, w) = at[M]
           /\ at[0] = [current |-> lo, open |-> <<>>, out |-> <<>>, unknown |-> FALSE]
           /\ \A k \in 1 .. M : at[k] = ReadOne(d, hi, at[k - 1])
  BY ScanIterates
<1>2. lo \in Int /\ hi \in Int /\ m \in Int /\ lo \in 1 .. N - 1 /\ m \in lo .. N - 1 /\ m <= hi /\ M \in Nat /\ N \in Nat
  BY DEF Ring
<1>3. HomeOf(d) \in [Homes -> Blocks]
  BY HomeType
<1>. DEFINE G == {k \in 0 .. M : Reads(d, lo, m, at[k], k) \/ Past(d, f, T, m, hi, at[k])}
<1>4. 0 \in G
  <2>1. Overlay(HomeOf(d), <<>> \o <<>>) = HomeOf(d)
    <3>1. <<>> \o <<>> = <<>>
      OBVIOUS
    <3>. QED  BY <1>3, <3>1, OverlayEmpty
  <2>2. Shows(d, HomeOf(d), lo, lo)
    BY <1>2, HomeType DEF Shows, Logs, Clear
  <2>3. at[0].current = lo /\ at[0].open = <<>> /\ at[0].out = <<>> /\ at[0].unknown = FALSE
    BY <1>1
  <2>4. WellPaired(d, lo, m) /\ lo \in lo .. m /\ lo >= lo + 0 /\ 0 \in 0 .. M
    BY <1>2 DEF Ring
  <2>5. Reads(d, lo, m, at[0], 0)
    BY <2>1, <2>2, <2>3, <2>4 DEF Reads
  <2>. QED  BY <2>4, <2>5
<1>5. \A k \in 0 .. M - 1 : k \in G => k + 1 \in G
  <2>. SUFFICES ASSUME NEW k \in 0 .. M - 1, Reads(d, lo, m, at[k], k) \/ Past(d, f, T, m, hi, at[k])
                PROVE  k + 1 \in 0 .. M /\ (Reads(d, lo, m, at[k + 1], k + 1) \/ Past(d, f, T, m, hi, at[k + 1]))
    OBVIOUS
  <2>1. k + 1 \in 1 .. M /\ k + 1 - 1 = k /\ k + 1 \in 0 .. M /\ k \in 0 .. M /\ k \in Nat
    BY <1>2
  <2>2. at[k + 1] = ReadOne(d, hi, at[k]) /\ at[k] \in Readings
    BY <1>1, <2>1
  <2>3. CASE Reads(d, lo, m, at[k], k) /\ at[k].current # m
    <3>1. Reads(d, lo, m, ReadOne(d, m, at[k]), k + 1)
      BY <2>1, <2>2, <2>3, ReadsOne
    <3>2. at[k].current # hi
      BY <1>2, <2>3 DEF Reads
    <3>3. ReadOne(d, m, at[k]) = ReadOne(d, hi, at[k])
      BY <2>3, <3>2 DEF ReadOne
    <3>. QED  BY <2>1, <2>2, <3>1, <3>3
  <2>4. CASE Past(d, f, T, m, hi, at[k])
    BY <2>1, <2>2, <2>4, PastOne
  <2>5. CASE Reads(d, lo, m, at[k], k) /\ at[k].current = m
    <3>1. Past(d, f, T, m, hi, at[k])
      BY <2>2, <2>5, PastStart
    <3>. QED  BY <2>4, <3>1
  <2>. QED  BY <2>3, <2>4, <2>5
<1>6. \A k \in 0 .. M : k \in G
  <2>. HIDE DEF G
  <2>. QED  BY <1>2, <1>4, <1>5, BoundedInduction
<1>7. (Reads(d, lo, m, at[M], M) \/ Past(d, f, T, m, hi, at[M])) /\ at[M] \in Readings
  BY <1>1, <1>2, <1>6
<1>8. Past(d, f, T, m, hi, at[M])
  <2>. SUFFICES ASSUME Reads(d, lo, m, at[M], M) PROVE Past(d, f, T, m, hi, at[M])
    BY <1>7
  <2>1. at[M].current = m
    BY <1>2 DEF Reads
  <2>. QED  BY <1>7, <2>1, PastStart
<1>. QED  BY <1>1, <1>8 DEF Past

\* What a running commit does not write has the contents it had.
LEMMA OthersKept ==
  ASSUME Ground, NEW f \in stores, NEW g, Current(f, g), NEW h \in Homes, \A t \in Threads : h \notin Targets(txn[t])
  PROVE  g[h] = f[h]
<1>1. CASE \A t \in Threads : ~Synced(t)
  BY <1>1 DEF Current
<1>2. ASSUME NEW t \in Threads, Synced(t) PROVE g[h] = f[h]
  <2>1. g = Overlay(f, Logged(t)) /\ f \in [Homes -> Blocks]
    BY <1>2 DEF Current, Ground, StoresKnown
  <2>2. /\ DOMAIN Logged(t) = 1 .. Len(txn[t]) /\ Len(txn[t]) \in Nat
        /\ \A i \in 1 .. Len(txn[t]) : Logged(t)[i][1] = txn[t][i][1]
    BY LoggedType DEF Ground
  <2>3. DOMAIN txn[t] = 1 .. Len(txn[t])
    BY TxnSeq DEF Ground, TypeInv
  <2>4. \A i \in 1 .. Len(txn[t]) : Logged(t)[i][1] # h
    BY <2>2, <2>3 DEF Targets
  <2>. QED  BY <2>1, <2>2, <2>4, OverlayMiss
<1>. QED  BY <1>1, <1>2

\* A torn commit leaves the blocks it does not write.
LEMMA TornKeeps ==
  ASSUME Ground, crossed = {}, Fresh, NEW g \in [Homes -> Blocks], Kept(g), Flushed(g), mode = "up", mw = dw,
         NEW t \in Threads, pc[t] = "sbSync", NEW h \in Homes, h \notin Targets(txn[t])
  PROVE  Recovered(media)[h] = g[h]
<1>. DEFINE lo == dw.head
            hi == dw.tail
            T == Targets(txn[t])
<1>1. PICK m \in lo .. hi :
        /\ OnMedia(lo, m) /\ (lo < m => disk[m - 1].kind = "jcmt")
        /\ \A s \in m .. hi - 1 : disk[s].kind = "jdat" => disk[s].target \in T
  BY DEF Fresh, Tearing
<1>2. /\ lo \in Int /\ hi \in Int /\ m \in Int /\ N \in Int /\ lo \in 1 .. N - 1 /\ hi \in lo .. N - 1
      /\ lo <= m /\ m <= hi /\ lo <= Ebb /\ Ebb <= hi /\ Ebb \in Int
      /\ hi \in 1 .. N - 1 /\ m \in 1 .. hi
      /\ WellPaired(disk, lo, hi)
  BY <1>1, MediaPlace, Places
<1>3. media \in [Addrs -> Blocks] /\ Mountable(media) /\ dw \in Windows
  <2>1. media \in [Addrs -> Blocks] /\ Mountable(media)
    BY DEF Ground, TypeInv, TypeOK, RingInv, MediaRing
  <2>. QED  BY <2>1, WindowTypes DEF mw, Ground
<1>4. Shows(disk, g, lo, hi)
  BY ShowsNow
<1>5. \A s \in m .. hi - 1 : media[s] = disk[s] \/ media[s].kind = "data"
  <2>1. \A s \in m .. hi - 1 : media[s] = disk[s] \/ media[s] = Data(Zero)
    BY <1>2 DEF Fresh
  <2>. QED  BY <2>1 DEF Data
<1>6. \A s \in lo .. m - 1 : media[s] = disk[s]
  BY <1>1 DEF OnMedia
<1>7. \A k \in Homes : Clear(disk, k, lo, hi) => media[k] = g[k]
  <2>. SUFFICES ASSUME NEW k \in Homes, Clear(disk, k, lo, hi) PROVE media[k] = g[k]
    OBVIOUS
  <2>1. Clear(disk, k, Ebb, hi)
    <3>1. PICK eb : eb = Ebb
      OBVIOUS
    <3>2. Clear(disk, k, eb, hi)
      BY <1>2, <3>1, ClearParts
    <3>. QED  BY <3>1, <3>2
  <2>. QED  BY <2>1 DEF Flushed
<1>. HIDE DEF lo, hi, T
<1>8. \A s \in m .. hi - 1 : media[s].kind = "jdat" => media[s].target \in T /\ s + 2 <= hi
  <2>. SUFFICES ASSUME NEW s \in m .. hi - 1, media[s].kind = "jdat" PROVE media[s].target \in T /\ s + 2 <= hi
    OBVIOUS
  <2>1. media[s] = disk[s]
    BY <1>5
  <2>2. s \in lo .. hi - 1 /\ s \in Int
    BY <1>2
  <2>3. s + 1 < hi
    BY <1>2, <2>1, <2>2 DEF WellPaired
  <2>. QED  BY <1>1, <1>2, <2>1, <2>2, <2>3
<1>9. Ring(media, lo, m)
  <2>1. WellPaired(disk, lo, m)
    <3>. SUFFICES ASSUME NEW s \in lo .. m - 1
                  PROVE  \/ disk[s].kind = "jcmt"
                         \/ disk[s].kind = "jdat" /\ s + 1 < m /\ disk[s + 1] = Data(disk[s].checksum)
                         \/ disk[s].kind = "data" /\ s > lo /\ disk[s - 1].kind = "jdat"
      BY DEF WellPaired
    <3>1. s \in lo .. hi - 1 /\ s \in Int
      BY <1>2
    <3>2. disk[s].kind = "jdat" => s # m - 1
      BY <1>1, <1>2
    <3>. QED  BY <1>2, <3>1, <3>2 DEF WellPaired
  <2>2. Ring(disk, lo, m)
    BY <1>1, <1>2, <2>1 DEF Ring
  <2>. QED  BY <1>6, <2>2, RingFrame
<1>10. \A k \in Homes \ T : IF Clear(media, k, lo, m) THEN media[k] = g[k] ELSE LastIn(media, k, lo, m, g[k])
  <2>. SUFFICES ASSUME NEW k \in Homes \ T
                PROVE  IF Clear(media, k, lo, m) THEN media[k] = g[k] ELSE LastIn(media, k, lo, m, g[k])
    OBVIOUS
  <2>1. /\ Clear(media, k, lo, m) <=> Clear(disk, k, lo, m)
        /\ LastIn(media, k, lo, m, g[k]) <=> LastIn(disk, k, lo, m, g[k])
    BY <1>2, <1>6, SaysFrame
  <2>2. Clear(disk, k, m, hi)
    BY <1>1 DEF Clear, Targeted
  <2>3. CASE Clear(disk, k, lo, m)
    <3>1. Clear(disk, k, lo, hi)
      BY <1>2, <2>2, <2>3 DEF Clear
    <3>. QED  BY <1>7, <2>1, <2>3, <3>1
  <2>4. CASE ~Clear(disk, k, lo, m)
    <3>1. ~Clear(disk, k, lo, hi)
      BY <1>2, <2>4, ClearParts
    <3>2. LastIn(disk, k, lo, hi, g[k])
      BY <1>4, <3>1 DEF Shows, Logs
    <3>3. PICK s \in lo .. hi - 2 : Targeted(disk, s, k) /\ disk[s + 1] = g[k] /\ Clear(disk, k, s + 1, hi)
      BY <3>2 DEF LastIn
    <3>4. s \in lo .. m - 2
      <4>1. ~ (s >= m)
        BY <1>2, <2>2, <3>3 DEF Clear
      <4>2. s # m - 1
        BY <1>1, <1>2, <3>3 DEF Targeted
      <4>. QED  BY <1>2, <4>1, <4>2
    <3>5. Clear(disk, k, s + 1, m)
      BY <1>2, <3>3 DEF Clear
    <3>6. LastIn(disk, k, lo, m, g[k])
      BY <3>3, <3>4, <3>5 DEF LastIn
    <3>. QED  BY <2>1, <2>4, <3>6
  <2>. QED  BY <2>3, <2>4
<1>11. \A k \in Homes \ T : Overlay(HomeOf(media), Scan(media, dw).out)[k] = g[k]
  <2>1. Ring(media, dw.head, m) /\ dw.tail \in 1 .. N - 1 /\ m \in 1 .. dw.tail
    BY <1>2, <1>9 DEF lo, hi
  <2>2. \A s \in m .. dw.tail - 1 : media[s].kind = "jdat" => media[s].target \in T /\ s + 2 <= dw.tail
    BY <1>8 DEF hi
  <2>3. \A k \in Homes \ T : IF Clear(media, k, dw.head, m) THEN media[k] = g[k] ELSE LastIn(media, k, dw.head, m, g[k])
    BY <1>10 DEF lo
  <2>. QED  BY <1>3, <2>1, <2>2, <2>3, ScanTorn
<1>12. Recovered(media) = Overlay(HomeOf(media), Scan(media, dw).out)
  BY <1>3 DEF Recovered, mw
<1>13. h \in Homes \ T
  BY DEF T
<1>. QED  BY <1>11, <1>12, <1>13

\* The invariants give what a power cut keeps.
LEMMA CutKeepsNow ==
  ASSUME JournalInv, FreshInv
  PROVE  CutKeepsAcknowledged
<1>. SUFFICES ASSUME crossed = {}, used["crashes"] = 0, PowerLoss, mode = "up", NEW h \in Homes,
                     \A t \in Threads : h \notin Targets(txn[t])
              PROVE  \E f \in stores : Recovered(media)[h] = f[h]
  BY DEF CutKeepsAcknowledged, CutKeepsOthers, WithinLimits
<1>1. Ground
  BY DEF JournalInv, RingSafe, OnlyCheckpointsOverlap, Ground
<1>2. PICK g \in [Homes -> Blocks] : Kept(g) /\ Flushed(g)
  BY DEF JournalInv, ContentInv, Orderly, Content
<1>3. Fresh
  BY DEF FreshInv, Young
<1>4. PICK f \in stores : Current(f, g)
  BY <1>2 DEF Kept
<1>5. g[h] = f[h]
  BY <1>1, <1>4, OthersKept
<1>6. media \in [Addrs -> Blocks] /\ Mountable(media) /\ mw \in Windows /\ Ring(disk, mw.head, mw.tail)
  <2>1. media \in [Addrs -> Blocks] /\ Mountable(media) /\ Ring(disk, mw.head, mw.tail)
    BY <1>1 DEF Ground, TypeInv, TypeOK, RingInv, MediaRing
  <2>. QED  BY <1>1, <2>1, WindowTypes DEF mw, Ground
<1>7. ASSUME NEW e \in [Homes -> Blocks], OnMedia(mw.head, mw.tail), Shows(media, e, mw.head, mw.tail)
      PROVE  Recovered(media) = e
  <2>1. Ring(media, mw.head, mw.tail)
    BY <1>6, <1>7, RingFrame DEF OnMedia
  <2>2. Overlay(HomeOf(media), Scan(media, mw).out) = e
    BY <1>6, <1>7, <2>1, ScanShows
  <2>. QED  BY <1>6, <2>2 DEF Recovered, mw
<1>8. CASE mw # dw
  <2>1. PICK e \in stores : Shows(media, e, mw.head, mw.tail)
    BY <1>2, <1>8 DEF Flushed
  <2>2. OnMedia(mw.head, mw.tail) /\ e \in [Homes -> Blocks]
    BY <1>1, <1>2, <1>8 DEF Flushed, Ground, StoresKnown
  <2>. QED  BY <1>7, <2>1, <2>2
<1>9. CASE mw = dw /\ \A t \in Threads : pc[t] # "sbSync"
  <2>1. OnMedia(mw.head, mw.tail)
    BY <1>2, <1>9 DEF Flushed
  <2>2. Shows(media, g, mw.head, mw.tail)
    BY <1>1, <1>2, <1>9, <2>1, MediaShows
  <2>. QED  BY <1>4, <1>5, <1>7, <2>1, <2>2
<1>10. ASSUME mw = dw, NEW t \in Threads, pc[t] = "sbSync" PROVE Recovered(media)[h] = g[h]
  BY <1>1, <1>2, <1>3, <1>10, TornKeeps
<1>. QED  BY <1>4, <1>5, <1>8, <1>9, <1>10

\* Until the first crash the ring behind its window is zero.
LEMMA FreshInductive == Spec => []FreshInv
<1>1. JournalInv /\ JournalInv' /\ FreshInv /\ [Next]_vars => FreshInv'
  <2>. SUFFICES ASSUME JournalInv, JournalInv', FreshInv, [Next]_vars PROVE FreshInv'
    OBVIOUS
  <2>1. CASE crossed' # {}
    BY <2>1 DEF FreshInv, Young
  <2>2. CASE crossed' = {}
    <3>1. crossed = {}
      BY <2>2, CrossedGrows
    <3>2. Ground /\ Ground'
      BY <2>2, <3>1 DEF JournalInv, RingSafe, OnlyCheckpointsOverlap, Ground
    <3>. QED  BY <3>2, FreshNext DEF JournalInv
  <2>. QED  BY <2>1, <2>2
<1>. QED  BY <1>1, JournalInductive, FreshInit, PTL DEF Spec

\* Whatever a power cut leaves of the running commit, torn or not, it takes
\* nothing from acknowledged ones, within the limits and until the first crash:
\* for every ring and workload and any number of threads.
THEOREM CutsKeepAcknowledged == Spec => []CutKeepsAcknowledged
BY JournalInductive, FreshInductive, CutKeepsNow, PTL

(***************************************************************************)
(* The refinement.                                                         *)
(***************************************************************************)

pending == [t \in Threads |-> Logged(t)]

\* A list of writes and the blocks' contents it logs are empty together.
LEMMA DataEmpty ==
  ASSUME NEW ws \in Workload \cup {<<>>}
  PROVE  AsData(ws) = <<>> <=> ws = <<>>
<1>1. CASE ws = <<>>
  BY <1>1 DEF AsData
<1>2. CASE ws # <<>>
  <2>1. ws \in Seq(Homes \X Vals)
    BY <1>2
  <2>2. 1 \in DOMAIN ws /\ DOMAIN ws = DOMAIN AsData(ws)
    BY <1>2, <2>1 DEF AsData
  <2>3. DOMAIN <<>> = {}
    OBVIOUS
  <2>. QED  BY <1>2, <2>2, <2>3
<1>. QED  BY <1>1, <1>2

\* Who has a transaction pending: the threads that commit.
LEMMA PendingIs ==
  ASSUME TypeInv, StoresKnown
  PROVE  /\ pending \in [Threads -> Writes]
         /\ \A t \in Threads : pending[t] = Logged(t) /\ (pending[t] = <<>> <=> ~Committing(t))
<1>1. \A t \in Threads : txn[t] \in Workload \cup {<<>>}
  BY DEF TypeInv, TypeOK
<1>2. \A t \in Threads : Logged(t) = <<>> <=> ~Committing(t)
  BY <1>1, DataEmpty DEF Logged, StoresKnown
<1>. QED  BY <1>2, LoggedType DEF pending

\* A step that changes no transaction.
LEMMA PendingStill ==
  ASSUME \A t \in Threads : txn'[t] = txn[t]
  PROVE  pending' = pending
<1>1. \A t \in Threads : Logged(t)' = Logged(t)
  BY DEF Logged
<1>. QED  BY <1>1 DEF pending

\* A thread returns: its transaction is gone.
LEMMA PendingReturn ==
  ASSUME TypeInv, StoresKnown, NEW t \in Threads, Return(t)
  PROVE  pending' = [pending EXCEPT ![t] = <<>>]
<1>1. \A u \in Threads : txn'[u] = IF u = t THEN <<>> ELSE txn[u]
  BY DEF Return, TypeInv, TypeOK
<1>2. \A u \in Threads : Logged(u)' = IF u = t THEN <<>> ELSE Logged(u)
  <2>1. AsData(<<>>) = <<>>
    BY DataEmpty
  <2>. QED  BY <1>1, <2>1 DEF Logged
<1>. QED  BY <1>2 DEF pending

\* Nothing is pending when nobody commits.
LEMMA PendingIdle ==
  ASSUME \A t \in Threads : txn'[t] = <<>>
  PROVE  pending' = [t \in Threads |-> <<>>]
<1>1. AsData(<<>>) = <<>>
  BY DataEmpty
<1>2. \A t \in Threads : Logged(t)' = <<>>
  BY <1>1 DEF Logged
<1>. QED  BY <1>2 DEF pending

AtomicStep ==
  \/ \E t \in Threads : \/ mode = "up" /\ pending[t] = <<>> /\ mode' = "up" /\ stores' = stores
                           /\ \E ws \in Workload : pending' = [pending EXCEPT ![t] = AsData(ws)]
                        \/ pending[t] # <<>> /\ (mode' = "up" <=> mode = "up")
                           /\ pending' = [pending EXCEPT ![t] = <<>>]
                           /\ (stores' = stores \/ stores' = {Overlay(f, pending[t]) : f \in stores})
  \/ /\ mode' # "up" /\ pending' = [t \in Threads |-> <<>>]
     /\ stores' = stores \cup UNION {{Overlay(f, pending[t]) : f \in stores} : t \in Threads}
  \/ mode # "up" /\ mode' = "up" /\ pending' = pending /\ \E f \in stores : stores' = {f}
  \/ UNCHANGED <<stores, pending>> /\ (mode' = "up" <=> mode = "up")

\* What a restart may rebuild is what the abstract store may hold after a crash.
LEMMA PromisedIs ==
  ASSUME TypeInv, StoresKnown
  PROVE  Promised = stores \cup UNION {{Overlay(f, pending[t]) : f \in stores} : t \in Threads}
<1>1. \A t \in Threads : pending[t] = Logged(t) /\ (~Committing(t) => Logged(t) = <<>>)
  BY PendingIs
<1>2. \A t \in Threads : ~Committing(t) => {Overlay(f, pending[t]) : f \in stores} = stores
  <2>1. \A f \in stores : Overlay(f, <<>>) = f
    BY OverlayEmpty DEF StoresKnown
  <2>. QED  BY <1>1, <2>1
<1>. QED  BY <1>1, <1>2 DEF Promised

\* Within the limits each step of the journal is one of the abstract store, or none.
LEMMA ThreadAtomic ==
  ASSUME TypeInv, TypeInv', StoresKnown, StoresKnown', crossed' = {}, NEW t \in Threads,
         Calls(t) \/ Commit(t) \/ Checkpoint(t) \/ Faults(t)
  PROVE  AtomicStep
<1>1. /\ pending \in [Threads -> Writes]
      /\ \A u \in Threads : pending[u] = Logged(u) /\ (pending[u] = <<>> <=> ~Committing(u))
  BY PendingIs
<1>2. mode' = mode
  BY DEF Calls, CommitBegin, CheckpointBegin, Commit, CommitFull, AllocHeader, AllocData, WriteHeader, WriteData,
     AllocCommit, WriteCommitRecord, SyncCopy, SyncWrite, SyncFlush, CommitEnd, Checkpoint, CheckpointRead,
     CheckpointApply, CheckpointScanned, CheckpointHead, CheckpointSbWrite, CheckpointEnd, Faults, CommitFault,
     CheckpointFault, mountVars
<1>3. ASSUME stores' = stores, txn' = txn PROVE AtomicStep
  BY <1>2, <1>3, PendingStill DEF AtomicStep
<1>4. ASSUME NEW ws \in Workload, CommitBegin(t, ws) PROVE AtomicStep
  <2>1. /\ mode = "up" /\ ~Committing(t) /\ stores' = stores
        /\ \A u \in Threads : txn'[u] = IF u = t THEN ws ELSE txn[u]
    BY <1>4 DEF CommitBegin, Committing, CommitPcs, Busy, TypeInv, TypeOK
  <2>2. \A u \in Threads : Logged(u)' = IF u = t THEN AsData(ws) ELSE Logged(u)
    BY <2>1 DEF Logged
  <2>3. pending' = [pending EXCEPT ![t] = AsData(ws)]
    BY <2>2 DEF pending
  <2>. QED  BY <1>1, <1>2, <2>1, <2>3 DEF AtomicStep
<1>5. CASE CommitFull(t) \/ CommitEnd(t)
  <2>1. Return(t) /\ Committing(t) /\ (stores' = stores \/ stores' = {Overlay(f, Logged(t)) : f \in stores})
    BY <1>5 DEF CommitFull, CommitEnd, Committing, CommitPcs
  <2>. QED  BY <1>1, <1>2, <2>1, PendingReturn DEF AtomicStep
<1>6. CASE CheckpointEnd(t) \/ CheckpointFault(t)
  <2>1. Return(t) /\ ~Committing(t) /\ stores' = stores
    BY <1>6 DEF CheckpointEnd, CheckpointFault, Committing, CommitPcs, ghosts
  <2>2. \A u \in Threads : txn'[u] = txn[u]
    BY <2>1 DEF Return, StoresKnown, TypeInv, TypeOK
  <2>. QED  BY <1>2, <2>1, <2>2, PendingStill DEF AtomicStep
<1>7. ~CommitFault(t)
  BY DEF CommitFault, Cross
<1>8. CASE \/ CheckpointBegin(t) \/ AllocHeader(t) \/ AllocData(t) \/ WriteHeader(t) \/ WriteData(t)
           \/ AllocCommit(t) \/ WriteCommitRecord(t) \/ SyncCopy(t) \/ SyncWrite(t) \/ SyncFlush(t)
           \/ CheckpointRead(t) \/ CheckpointApply(t) \/ CheckpointScanned(t) \/ CheckpointHead(t)
           \/ CheckpointSbWrite(t)
  BY <1>3, <1>8 DEF CheckpointBegin, AllocHeader, AllocData, WriteHeader, WriteData,
     AllocCommit, WriteCommitRecord, SyncCopy, SyncWrite, SyncFlush, CheckpointRead,
     CheckpointApply, CheckpointScanned, CheckpointHead, CheckpointSbWrite, commitVars, ghosts
<1>. QED  BY <1>4, <1>5, <1>6, <1>7, <1>8 DEF Calls, Commit, Checkpoint, Faults

\* The steps of a mount do not show in the abstract store.
LEMMA RestartAtomic ==
  ASSUME Ground, Ground', ContentInv, crossed = {}, crossed' = {},
         Mount \/ RecoverRead \/ RecoverWrite \/ RecoverEnd \/ RecoverFault
  PROVE  AtomicStep
<1>1. PICK g \in [Homes -> Blocks] : Kept(g)
  BY DEF ContentInv, Orderly, Content
<1>2. mode # "up" /\ g \in stores /\ txn' = txn
  BY <1>1 DEF Mount, RecoverRead, RecoverWrite, RecoverEnd, RecoverFault, Kept, commitVars
<1>3. pending' = pending
  BY <1>2, PendingStill
<1>4. ASSUME Kept(g)', mode' = "up", \A t \in Threads : pc'[t] = "idle" PROVE AtomicStep
  <2>1. \A t \in Threads : ~Synced(t)'
    BY <1>4 DEF Synced
  <2>2. stores' = {g}
    BY <1>4, <2>1 DEF Kept, Current
  <2>. QED  BY <1>2, <1>3, <1>4, <2>2 DEF AtomicStep
<1>5. ASSUME mode' # "up", stores' = stores PROVE AtomicStep
  BY <1>2, <1>3, <1>5 DEF AtomicStep
<1>6. \A t \in Threads : pc[t] = "idle"
  BY <1>2 DEF Ground, Quiet
<1>7. CASE Mount
  <2>1. pc' = pc /\ (mode' = "up" \/ stores' = stores)
    BY <1>7 DEF Mount, Mounted
  <2>. QED  BY <1>1, <1>4, <1>5, <1>6, <1>7, <2>1, MountKept
<1>8. CASE RecoverRead \/ RecoverWrite \/ RecoverFault
  BY <1>5, <1>8 DEF RecoverRead, RecoverWrite, RecoverFault, Unmounted, ghosts
<1>9. CASE RecoverEnd
  <2>1. pc' = pc
    BY <1>9 DEF RecoverEnd
  <2>. QED  BY <1>1, <1>4, <1>6, <1>9, <2>1, RecoverEndKept
<1>. QED  BY <1>7, <1>8, <1>9

\* A step of the journal is a step of the abstract store, or none.
LEMMA StepAtomic ==
  ASSUME JournalInv, JournalInv', [Next]_vars, crossed' = {}
  PROVE  AtomicStep
<1>1. crossed = {}
  BY CrossedGrows
<1>2. Ground /\ Ground'
  BY <1>1 DEF JournalInv, RingSafe, OnlyCheckpointsOverlap, Ground
<1>3. TypeInv /\ TypeInv' /\ StoresKnown /\ StoresKnown' /\ ContentInv
  BY <1>2 DEF Ground, JournalInv
<1>4. ASSUME NEW t \in Threads, Calls(t) \/ Commit(t) \/ Checkpoint(t) \/ Faults(t) PROVE AtomicStep
  BY <1>3, <1>4, ThreadAtomic
<1>5. CASE Mount \/ RecoverRead \/ RecoverWrite \/ RecoverEnd \/ RecoverFault
  BY <1>1, <1>2, <1>3, <1>5, RestartAtomic
<1>6. CASE Crash \/ PowerCut
  <2>1. mode' = "down" /\ stores' = Promised /\ \A t \in Threads : txn'[t] = <<>>
    BY <1>6 DEF Crash, PowerCut, Die, Unmounted
  <2>. QED  BY <1>3, <2>1, PromisedIs, PendingIdle DEF AtomicStep
<1>7. ASSUME UNCHANGED <<stores, txn, mode>> PROVE AtomicStep
  BY <1>7, PendingStill DEF AtomicStep
<1>8. ASSUME NEW r \in Addrs, WriteBack(r) PROVE AtomicStep
  BY <1>7, <1>8 DEF WriteBack, mountVars, commitVars, ghosts
<1>. QED  BY <1>4, <1>5, <1>6, <1>7, <1>8 DEF Next, Environment, vars

\* Whatever the workload, the threads, and the crashes: as long as the limits are
\* kept, the journal is a store that changes by whole transactions.
THEOREM JournalIsAtomic == Spec => AtomicDurable
<1>. USE DEF Abstract!Idle
<1>1. Init => Abstract!Init
  <2>. SUFFICES ASSUME Init PROVE Abstract!Init
    OBVIOUS
  <2>1. \A t \in Threads : Logged(t) = <<>>
    <3>1. AsData(<<>>) = <<>>
      BY DataEmpty
    <3>. QED  BY <3>1 DEF Init, Logged
  <2>2. [t \in Threads |-> Logged(t)] = [t \in Threads |-> <<>>]
    BY <2>1
  <2>. QED  BY <2>2 DEF Init, Abstract!Init
<1>2. JournalInv /\ JournalInv' /\ [Next]_vars => [Abstract!Next]_(Abstract!vars)
  <2>. SUFFICES ASSUME JournalInv, JournalInv', [Next]_vars PROVE [Abstract!Next]_(Abstract!vars)
    OBVIOUS
  <2>1. CASE crossed' # {}
    BY <2>1 DEF Abstract!Next, Abstract!Outside
  <2>2. CASE crossed' = {}
    <3>1. AtomicStep /\ crossed = {}
      BY <2>2, StepAtomic, CrossedGrows
    <3>2. (crossed' # {}) = (crossed # {})
      BY <2>2, <3>1
    <3>0. \A t \in Threads : Abstract!After(t) = {Overlay(f, pending[t]) : f \in stores}
      <4>1. \A f, ws : Abstract!Overlay(f, ws) = Overlay(f, ws)
        BY DEF Abstract!Overlay, Overlay
      <4>. QED  BY <4>1 DEF Abstract!After, pending
    <3>3. ASSUME NEW t \in Threads, mode = "up", pending[t] = <<>>, mode' = "up", stores' = stores,
                 NEW ws \in Workload, pending' = [pending EXCEPT ![t] = AsData(ws)]
          PROVE  Abstract!Submit(t)
      <4>1. AsData(ws) \in {AsData(v) : v \in Workload}
        BY <3>3
      <4>. QED  BY <3>2, <3>3, <4>1 DEF Abstract!Submit, pending
    <3>4. ASSUME NEW t \in Threads, pending[t] # <<>>, mode' = "up" <=> mode = "up",
                 pending' = [pending EXCEPT ![t] = <<>>],
                 stores' = stores \/ stores' = {Overlay(f, pending[t]) : f \in stores}
          PROVE  Abstract!Acknowledge(t) \/ Abstract!Refuse(t)
      <4>1. (mode' = "up") = (mode = "up")
        BY <3>4
      <4>. QED  BY <3>0, <3>2, <3>4, <4>1 DEF Abstract!Acknowledge, Abstract!Refuse, pending
    <3>5. ASSUME mode' # "up", pending' = [t \in Threads |-> <<>>],
                 stores' = stores \cup UNION {{Overlay(f, pending[t]) : f \in stores} : t \in Threads}
          PROVE  Abstract!Crash
      BY <3>0, <3>2, <3>5 DEF Abstract!Crash, pending
    <3>6. ASSUME mode # "up", mode' = "up", pending' = pending, \E f \in stores : stores' = {f}
          PROVE  Abstract!Restart
      BY <3>2, <3>6 DEF Abstract!Restart, pending
    <3>7. ASSUME stores' = stores, pending' = pending, mode' = "up" <=> mode = "up"
          PROVE  UNCHANGED Abstract!vars
      <4>1. (mode' = "up") = (mode = "up")
        BY <3>7
      <4>. QED  BY <3>2, <3>7, <4>1 DEF Abstract!vars, pending
    <3>. QED  BY <3>1, <3>3, <3>4, <3>5, <3>6, <3>7 DEF AtomicStep, Abstract!Next
  <2>. QED  BY <2>1, <2>2
<1>. QED  BY <1>1, <1>2, JournalInductive, PTL DEF Spec, AtomicDurable, Abstract!Spec
=============================================================================
