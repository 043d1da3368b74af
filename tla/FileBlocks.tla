----------------------------- MODULE FileBlocks -----------------------------
(***************************************************************************)
(* The blocks of files (src/inode.c: inode_bmap, truncate, read, write,    *)
(* free) over the block allocator: direct blocks, an indirect block and a  *)
(* double indirect one.  Every operation holds its inode's lock; writes of *)
(* different files interleave block by block at the shared allocator.      *)
(*                                                                         *)
(* The unit is a word, the space of one block number: a block has Per of   *)
(* them, and what a user writes may, read as a table, be a block number.   *)
(* dev is what blkdev_read returns.  The FUSE write of a regular file      *)
(* hands its blocks to a transaction and commits and checkpoints it under  *)
(* the lock, here one step (module Journal has the inside); a directory's  *)
(* blocks are written at once.                                             *)
(***************************************************************************)
EXTENDS Integers, Sequences, FiniteSets, WriteLists

CONSTANTS
  Files,        \* the regular files
  Dirs,         \* the directories: written without a transaction, never truncated
  Blocks,       \* block numbers of the data area
  Direct,       \* INODE_DIRECT_BLOCKS
  Per,          \* INDIRECT_BLOCKS_PER_BLOCK
  Wrap,         \* the blocks that a 32-bit byte offset can address
  Ranges,       \* the <<offset, size>> that writes are called with
  Sizes,        \* the sizes that truncate is called with
  Vals,         \* the words that are written
  MaxCalls,     \* bound: writes, truncates and frees in a behaviour
  MaxFaults     \* bound: failing device calls

Inodes == Files \cup Dirs
Words  == Blocks \cup {0}
MaxIndex == Direct + Per + Per * Per

ASSUME FileBlocksAssumption ==
  /\ Files \cap Dirs = {}
  /\ Blocks \subseteq Nat \ {0} /\ IsFiniteSet(Blocks) /\ Vals \subseteq Blocks
  /\ Direct \in Nat \ {0} /\ Per \in Nat \ {0} /\ Wrap \in Nat \ {0}
  /\ Ranges \subseteq Nat \X (Nat \ {0}) /\ Sizes \subseteq 0 .. MaxIndex * Per
  /\ MaxCalls \in Nat /\ MaxFaults \in Nat

VARIABLES
  dev,      \* the words of each block
  free,     \* the blocks that are clear in the allocator's bitmap
  ino,      \* disk_inode_t of each inode; one that is not in use is empty
  op,       \* the write that is under way on each inode
  content,  \* ghost: the words that acknowledged writes gave each file
  residue,  \* ghost: positions that a truncate cut off from a mapped block
  crossed,  \* ghost: the limits this behaviour has crossed
  used      \* ghost: what the bounds count

vars == <<dev, free, ino, op, content, residue, crossed, used>>

Top       == MaxIndex * Per
Positions == 0 .. Top - 1
Zeroes    == [k \in 0 .. Per - 1 |-> 0]
Empty     == [size |-> 0, blocks |-> 0, direct |-> [i \in 0 .. Direct - 1 |-> 0],
              table |-> [w \in {"indirect", "double"} |-> 0]]
NoOp      == [pos |-> 0, from |-> 0, end |-> 0, val |-> 0, log |-> <<>>, stale |-> FALSE]
Limits    == {"regrown", "exposed", "beyond", "tables", "wide", "uncommitted", "faulted"}

BlockOf(p)  == p \div Per
NBlocks(n)  == (n + Per - 1) \div Per
Span(i)     == i * Per .. i * Per + Per - 1
MaxOf(a, b) == IF a > b THEN a ELSE b
Busy(f)     == op[f].end # 0

Cross(limits) == crossed' = crossed \cup limits
Use(b, limit) == used[b] < limit /\ used' = [used EXCEPT ![b] = @ + 1]

----------------------------------------------------------------------------
(* inode_bmap: the way to block i of a file is a list of steps, each to an *)
(* entry of what the step before it came to.  Without allocation, 0 is a   *)
(* hole.  The code narrows offset / BLOCK_SIZE to 32 bits; i is the index  *)
(* as long as that loses nothing, for offsets below 2^44.                  *)

Path(i) ==
  LET j == i - Direct
      k == j - Per IN
  CASE i < Direct -> << <<"direct", i>> >>
    [] i >= Direct /\ j < Per -> << <<"root", "indirect">>, <<"data", j>> >>
    [] i >= Direct /\ j >= Per /\ k < Per * Per ->
         << <<"root", "double">>, <<"table", k \div Per>>, <<"data", k % Per>> >>
    [] OTHER -> << <<"beyond", i>> >>

\* what a step finds, b being the block that the step before it came to
Look(d, n, b, kind, key) ==
  CASE kind = "direct" -> n.direct[key]
    [] kind = "root"   -> n.table[key]
    [] kind \in {"table", "data"} -> IF b = 0 THEN 0 ELSE d[b][key]
    [] kind = "beyond" -> 0

Mapped(d, n, i) ==
  LET to[k \in 0 .. Len(Path(i))] ==
        IF k = 0 THEN 0 ELSE Look(d, n, to[k - 1], Path(i)[k][1], Path(i)[k][2])
  IN  to[Len(Path(i))]

\* the word that a read of the inode n finds at p
WordAt(n, p) == LET b == Mapped(dev, n, BlockOf(p)) IN IF b = 0 THEN 0 ELSE dev[b][p % Per]

----------------------------------------------------------------------------
(* inode_bmap with allocation: each step transforms                        *)
(*   s = [ino, dev, free, blk, ok, left].                                  *)
(* blk is the block it has come to; the device call that finds left = 0    *)
(* fails, and nothing that was done before it is undone.                   *)

Failed(s) == [s EXCEPT !.ok = FALSE]

Reading(s)       == IF s.left = 0 THEN Failed(s) ELSE [s EXCEPT !.left = @ - 1]
Writing(s, b, c) == IF s.left = 0 THEN Failed(s) ELSE [s EXCEPT !.left = @ - 1, !.dev[b] = c]

\* block_alloc: the lowest free block
Lowest(S) == CHOOSE b \in S : \A c \in S : b <= c
Take(s)   == [s EXCEPT !.free = @ \ {Lowest(@)}, !.blk = Lowest(s.free)]

\* an entry of the inode: a missing block is taken; no space is an error
NewDirect(s, i) == [Take(s) EXCEPT !.ino.direct[i] = Lowest(s.free), !.ino.blocks = @ + 1]
NewTable(s, w)  == [Take(s) EXCEPT !.ino.table[w] = Lowest(s.free), !.ino.blocks = @ + 1]

\* slip: a new table keeps what its block held
RootUnzeroed(s, w) == NewTable(s, w)

\* a new table of the inode is zeroed
Root(s, w) == Writing(NewTable(s, w), Lowest(s.free), Zeroes)

\* entry k of the table s.blk, which is read: a missing block is taken and
\* entered, and then counted, and zeroed if it is a table itself
Enter(s, k)   == Writing(Take(s), s.blk, [s.dev[s.blk] EXCEPT ![k] = Lowest(s.free)])
Counted(s)    == IF s.ok THEN [s EXCEPT !.ino.blocks = @ + 1] ELSE s
Zeroed(s)     == IF s.ok THEN Writing(s, s.blk, Zeroes) ELSE s

Find(s, kind, key) == Look(s.dev, s.ino, s.blk, kind, key)

\* what a step makes when it finds a hole
Make(s, kind, key) ==
  CASE kind = "direct" -> NewDirect(s, key)
    [] kind = "root"   -> Root(s, key)
    [] kind = "table"  -> Zeroed(Counted(Enter(s, key)))
    [] kind = "data"   -> Counted(Enter(s, key))

Step(s, kind, key) ==
  IF ~s.ok \/ kind = "beyond" \/ (kind \in {"table", "data"} /\ s.left = 0) THEN Failed(s)
  ELSE LET r == IF kind \in {"table", "data"} THEN Reading(s) ELSE s IN
       IF Find(r, kind, key) # 0 THEN [r EXCEPT !.blk = Find(r, kind, key)]
       ELSE IF r.free = {} THEN Failed(r)
       ELSE Make(r, kind, key)

Bmap(s, i) ==
  LET to[k \in 0 .. Len(Path(i))] ==
        IF k = 0 THEN s ELSE Step(to[k - 1], Path(i)[k][1], Path(i)[k][2])
  IN  to[Len(Path(i))]

----------------------------------------------------------------------------
(* inode_write, in modernfs_write or by a directory.                       *)

\* an operation that makes n the size takes positions back that a truncate cut off
Regrown(f, n) == IF residue[f] \cap 0 .. n - 1 # {} THEN {"regrown"} ELSE {}

WriteBegin(f, r, v) ==
  /\ ~Busy(f)
  /\ Use("calls", MaxCalls)
  /\ op' = [op EXCEPT ![f] = [pos |-> r[1], from |-> r[1], end |-> r[1] + r[2], val |-> v,
                              log |-> <<>>, stale |-> FALSE]]
  /\ Cross(Regrown(f, r[1] + r[2]))
  /\ UNCHANGED <<dev, free, ino, content, residue>>

\* at most eight device calls serve one block; with NoFault none of them fails
NoFault == 8
Faulty  == {NoFault} \cup (IF used["faults"] < MaxFaults THEN 0 .. NoFault - 1 ELSE {})

\* where the iteration at op[f].pos ends
Stop(f) == LET e == (BlockOf(op[f].pos) + 1) * Per IN IF e < op[f].end THEN e ELSE op[f].end

Written(f, i) == {k \in 0 .. Per - 1 : op[f].pos <= i * Per + k /\ i * Per + k < Stop(f)}

\* one iteration: map the block, read it unless all of it is written, fill in
\* the new words, and write it at once if there is no transaction
Iteration(f, left) ==
  LET i == BlockOf(op[f].pos)
      m == Bmap([ino |-> ino[f], dev |-> dev, free |-> free, blk |-> 0, ok |-> TRUE,
                 left |-> left], i)
      r == IF m.ok /\ Written(f, i) # 0 .. Per - 1 THEN Reading(m) ELSE m
      words == [k \in 0 .. Per - 1 |-> IF k \in Written(f, i) THEN op[f].val
                                      ELSE IF r.ok THEN r.dev[r.blk][k] ELSE 0]
  IN  [after |-> IF r.ok /\ f \in Dirs THEN Writing(r, r.blk, words) ELSE r,
       words |-> words,
       \* a block was mapped that is not zero
       stale |-> m.ok /\ Mapped(dev, ino[f], i) = 0 /\ m.dev[m.blk] # Zeroes,
       \* and some of what it held is kept
       kept  |-> m.ok /\ Mapped(dev, ino[f], i) = 0
                   /\ \E k \in 0 .. Per - 1 \ Written(f, i) : m.dev[m.blk][k] # 0]

Apply(f, s) == dev' = s.dev /\ free' = s.free /\ ino' = [ino EXCEPT ![f] = s.ino]

\* ghost: the words of the file at the positions P are now v
Gives(f, P, v) ==
  content' = [content EXCEPT ![f] = [p \in Positions |-> IF p \in P THEN v ELSE content[f][p]]]

WriteBlock(f) ==
  /\ op[f].pos < op[f].end
  /\ \E x \in {Iteration(f, NoFault)} :
       /\ x.after.ok /\ Apply(f, x.after)
       /\ op' = [op EXCEPT ![f] = [@ EXCEPT
                   !.pos = Stop(f), !.stale = op[f].stale \/ x.stale,
                   !.log = IF f \in Files THEN Append(op[f].log, <<x.after.blk, x.words>>)
                           ELSE op[f].log]]
       /\ Cross(IF x.kept THEN {"exposed"} ELSE {})
  /\ IF f \in Dirs THEN Gives(f, op[f].pos .. Stop(f) - 1, op[f].val) ELSE UNCHANGED content
  /\ UNCHANGED <<residue, used>>

\* no space, an offset past the last index, or a failing device call: the
\* transaction is dropped; what was mapped stays, size stays
WriteFails(f) ==
  /\ op[f].pos < op[f].end
  /\ \E left \in Faulty : \E x \in {Iteration(f, left)} :
       LET s == x.after IN
         /\ ~s.ok /\ Apply(f, s)
         /\ used' = IF left = NoFault THEN used ELSE [used EXCEPT !["faults"] = @ + 1]
         /\ Cross({l \in {"faulted", "exposed", "beyond"} :
              CASE l = "faulted" -> left # NoFault /\ <<s.free, s.ino>> # <<free, ino[f]>>
                [] l = "exposed" -> (f \in Files /\ op[f].stale) \/ x.stale
                [] l = "beyond"  -> \E i \in NBlocks(ino[f].size) .. MaxIndex - 1 :
                                      Mapped(s.dev, s.ino, i) # 0})
  /\ op' = [op EXCEPT ![f] = NoOp]
  /\ UNCHANGED <<content, residue>>

Grow(f) == ino' = [ino EXCEPT ![f] = [@ EXCEPT !.size = MaxOf(ino[f].size, op[f].end)]]

\* the loop is done: size, inode_sync, commit and checkpoint
WriteEnd(f) ==
  /\ Busy(f) /\ op[f].pos = op[f].end
  /\ Grow(f)
  /\ dev' = Overlay(dev, op[f].log)
  /\ IF f \in Files THEN Gives(f, op[f].from .. op[f].end - 1, op[f].val) ELSE UNCHANGED content
  /\ op' = [op EXCEPT ![f] = NoOp]
  /\ UNCHANGED <<free, residue, crossed, used>>

\* the commit fails (the journal is full, or a device call fails) after the
\* inode was changed and synced
CommitFails(f) ==
  /\ Busy(f) /\ op[f].pos = op[f].end /\ f \in Files
  /\ Use("faults", MaxFaults)
  /\ Grow(f)
  /\ op' = [op EXCEPT ![f] = NoOp]
  /\ Cross({"uncommitted"})
  /\ UNCHANGED <<dev, free, content, residue>>

----------------------------------------------------------------------------
(* inode_truncate and inode_free.                                          *)

\* slip: the last block that is kept is freed too
SurplusOneMore(f, n) == {i \in 0 .. NBlocks(ino[f].size) - 1 : i >= NBlocks(n) - 1}

\* the indices that the loop of a shrinking truncate visits
Surplus(f, n) == NBlocks(n) .. NBlocks(ino[f].size) - 1

\* i * BLOCK_SIZE is a 32-bit product
At(f, i) == Mapped(dev, ino[f], i % Wrap)

\* slip: holes are counted as freed
ShrinkCountsHoles(f, n, unread) ==
  LET hit == {i \in Surplus(f, n) \ unread : At(f, i) # 0} IN
  /\ free' = free \cup {At(f, i) : i \in hit}
  /\ ino' = [ino EXCEPT ![f] = [@ EXCEPT !.size = n, !.blocks = @ - Cardinality(Surplus(f, n))]]

\* blocks that are free already are refused, but counted; the pointers stay.
\* The table of an index in unread cannot be read, and its block is passed over.
Shrink(f, n, unread) ==
  LET hit == {i \in Surplus(f, n) \ unread : At(f, i) # 0} IN
  /\ free' = free \cup {At(f, i) : i \in hit}
  /\ ino' = [ino EXCEPT ![f] = [@ EXCEPT !.size = n, !.blocks = ino[f].blocks - Cardinality(hit)]]

\* ghost: positions behind n whose block stays mapped
CutOff(f, n) == {p \in n .. ino[f].size - 1 : Mapped(dev, ino[f], BlockOf(p)) # 0}

Wide(f) == IF NBlocks(ino[f].size) > Wrap THEN {"wide"} ELSE {}

\* a larger size is only noted; holes read as zero
TruncateUp(f, n) ==
  /\ f \in Files /\ ~Busy(f) /\ n >= ino[f].size
  /\ Use("calls", MaxCalls)
  /\ ino' = [ino EXCEPT ![f] = [@ EXCEPT !.size = n]]
  /\ Cross(Regrown(f, n))
  /\ UNCHANGED <<dev, free, op, content, residue>>

Forget(f, n) == Gives(f, n .. Top - 1, 0)

TruncateDown(f, n) ==
  /\ f \in Files /\ ~Busy(f) /\ n < ino[f].size
  /\ Use("calls", MaxCalls)
  /\ Shrink(f, n, {})
  /\ residue' = [residue EXCEPT ![f] = @ \cup CutOff(f, n)]
  /\ Forget(f, n)
  /\ Cross(Wide(f))
  /\ UNCHANGED <<dev, op>>

TruncateUnread(f, n) ==
  /\ f \in Files /\ ~Busy(f) /\ n < ino[f].size
  /\ Use("faults", MaxFaults)
  /\ \E i \in {j \in Surplus(f, n) : j >= Direct} :
       /\ Shrink(f, n, {i})
       /\ Cross(Wide(f) \cup IF At(f, i) = 0 THEN {} ELSE {"faulted"})
  /\ residue' = [residue EXCEPT ![f] = @ \cup CutOff(f, n)]
  /\ Forget(f, n)
  /\ UNCHANGED <<dev, op>>

\* unlink or rmdir: truncate to 0 frees what the tables point to and not the
\* tables; the next inode_alloc clears the inode
FreeInode(f) ==
  /\ ~Busy(f) /\ ino[f] # Empty
  /\ Use("calls", MaxCalls)
  /\ free' = free \cup {At(f, i) : i \in {i \in Surplus(f, 0) : At(f, i) # 0}}
  /\ ino' = [ino EXCEPT ![f] = Empty]
  /\ residue' = [residue EXCEPT ![f] = {}]
  /\ Forget(f, 0)
  /\ Cross(Wide(f) \cup IF ino[f].table = Empty.table THEN {} ELSE {"tables"})
  /\ UNCHANGED <<dev, op>>

----------------------------------------------------------------------------
Init ==
  /\ dev = [b \in Blocks |-> Zeroes] /\ free = Blocks
  /\ ino = [f \in Inodes |-> Empty] /\ op = [f \in Inodes |-> NoOp]
  /\ content = [f \in Inodes |-> [p \in Positions |-> 0]]
  /\ residue = [f \in Inodes |-> {}]
  /\ crossed = {}
  /\ used = [b \in {"calls", "faults"} |-> 0]

Write(f) ==
  \/ \E r \in Ranges, v \in Vals : WriteBegin(f, r, v)
  \/ WriteBlock(f) \/ WriteFails(f) \/ WriteEnd(f) \/ CommitFails(f)

Truncate(f) == \E n \in Sizes : TruncateUp(f, n) \/ TruncateDown(f, n) \/ TruncateUnread(f, n)

Next == \E f \in Inodes : Write(f) \/ Truncate(f) \/ FreeInode(f)

Spec == Init /\ [][Next]_vars

----------------------------------------------------------------------------
(* Properties.  "crossed" names what the code does not keep itself from:   *)
(*   regrown      a file was extended or written again over positions that *)
(*                a truncate had cut off; its pointers were left           *)
(*   exposed      a new data block, which is not zeroed, became readable   *)
(*                with what its last owner left in it                      *)
(*   beyond       a failed write left blocks mapped behind the size, where *)
(*                no truncate finds them                                   *)
(*   tables       a file with tables was freed; they stay allocated        *)
(*   wide         the index of a truncate passed 32 bits                   *)
(*   uncommitted  a commit failed after the inode was changed              *)
(*   faulted      a device call of bmap or truncate failed half-way        *)

WithinLimits == crossed = {}

TypeOK ==
  /\ dev \in [Blocks -> [0 .. Per - 1 -> Words]] /\ free \subseteq Blocks
  /\ \A f \in Inodes :
       /\ ino[f].size \in 0 .. Top /\ ino[f].blocks \in Int
       /\ ino[f].direct \in [0 .. Direct - 1 -> Words]
       /\ ino[f].table \in [{"indirect", "double"} -> Words]
       /\ op[f].pos <= op[f].end /\ op[f].log \in Seq(Blocks \X [0 .. Per - 1 -> Words])
       /\ residue[f] \subseteq Positions
  /\ content \in [Inodes -> [Positions -> Words]]
  /\ crossed \subseteq Limits

\* the blocks that a file has: its tables, and what they and the inode map up
\* to its size, or to where a write has come
Tables(n) ==
  ({n.table[w] : w \in {"indirect", "double"}}
     \cup IF n.table["double"] = 0 THEN {} ELSE {dev[n.table["double"]][k] : k \in 0 .. Per - 1})
  \ {0}

DataBlocks(f) ==
  {Mapped(dev, ino[f], i) : i \in 0 .. NBlocks(MaxOf(ino[f].size, op[f].pos)) - 1} \ {0}

Reach(f) == Tables(ino[f]) \cup DataBlocks(f)

\* Within the limits, every block is either free or belongs to one file, as one
\* of its tables or its data: none is shared, none is lost, none is used that
\* the allocator would give away again. Sizes and words stay within their types.
BlocksPartitioned ==
  /\ TypeOK
  /\ WithinLimits =>
    /\ Blocks \ free = UNION {Reach(f) : f \in Inodes}
    /\ \A f, g \in Inodes : f # g => Reach(f) \cap Reach(g) = {}

\* Within the limits, disk.blocks of every inode is the number of different
\* blocks it has, through tables made on the way, holes, truncates and failed
\* writes.
BlocksCounted ==
  WithinLimits => \A f \in Inodes : ino[f].blocks = Cardinality(Reach(f))

\* Within the limits, a file reads back what acknowledged writes put into it,
\* zero where none did, whatever is written, truncated and freed elsewhere.
ReadsBackWritten ==
  WithinLimits =>
    \A f \in Inodes : ~Busy(f) =>
      \A p \in 0 .. ino[f].size - 1 : WordAt(ino[f], p) = content[f][p]

\* Without the limit "regrown": no two files have a block in common.  The code
\* does not keep it.
NoSharing ==
  crossed \subseteq {"regrown"} =>
    \A f, g \in Inodes : f # g => Reach(f) \cap Reach(g) = {}
=============================================================================
