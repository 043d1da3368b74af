----------------------------- MODULE Directory -----------------------------
(***************************************************************************)
(* The contents of one directory (src/directory.c): blocks in which        *)
(* records follow each other, each with the distance to the next.  The     *)
(* callers of dir_add and dir_remove hold the directory's lock;            *)
(* path_resolve looks names up without it, block by block, and so sees the *)
(* moment between the two writes of a split.                               *)
(*                                                                         *)
(* Positions are in units of 8 bytes, to which records are aligned: one    *)
(* unit is a record's header, those after it are the text of its name.     *)
(* Every record is written as the whole dirent_t, Full units, whatever the *)
(* length of its name; the units after the name are zero.                  *)
(***************************************************************************)
EXTENDS Integers, FiniteSets

CONSTANTS
  Names,
  NoName,      \* what a thread outside every lookup looks for
  Size,        \* dirent_size of a name's record: header and text
  Inums,       \* inode numbers, 0 not among them
  Full,        \* sizeof(dirent_t)
  Block,       \* BLOCK_SIZE
  Readers,     \* threads that resolve a path
  MaxBlocks    \* bound: no block is appended after this many

ASSUME DirectoryAssumption ==
  /\ NoName \notin Names
  /\ Full \in Nat \ {0} /\ Block \in Nat /\ Full <= Block /\ MaxBlocks \in Nat \ {0}
  /\ Size \in [Names -> 2 .. Full]
  /\ Inums \subseteq Nat \ {0}

VARIABLES
  cells,    \* the units of the directory file
  size,     \* disk.size of the directory
  pending,  \* dir_add between its two writes: the record that is to be written
  reader,   \* what each path_resolve is doing, and its last answer
  listed,   \* ghost: the inode number that each name was given, 0 when removed
  crossed   \* ghost: the limits of the design this behaviour has crossed

dirVars == <<cells, size, pending, reader, listed, crossed>>

Top    == MaxBlocks * Block + Full
Where  == 0 .. Top - 1
Spans  == 0 .. MaxBlocks - 1
Limits == {"clobber", "spill", "skips", "halfSplit"}

Zero         == [kind |-> "zero"]
Text(n)      == [kind |-> "text", name |-> n]
Junk         == [kind |-> "junk"]     \* what lies behind block_buf on the stack
Rec(n, i, l) == [kind |-> "rec", name |-> n, inum |-> i, rec_len |-> l]
Records      == [kind : {"rec"}, name : Names, inum : Inums \cup {0}, rec_len : 1 .. Block]
Cells        == {Zero, Junk} \cup {Text(n) : n \in Names} \cup Records

None    == [at |-> 0, rec |-> Zero]
Answers == Inums \cup {0}

Lookups == [name : Names \cup {NoName}, blk : -1 .. MaxBlocks + 1, may : SUBSET Answers,
            raced : BOOLEAN, answer : Answers]

----------------------------------------------------------------------------
(* Walking a block.                                                        *)

\* how much of the block that begins at o an inode_read returns
Got(o) == IF size >= o + Block THEN Block ELSE size - o

\* the walk of the block at o passes records, up to the end of what was read, a
\* length of zero or one that leaves the block; next is where it ends
Walk(o) ==
  LET good(p) == p < o + Got(o) /\ cells[p].kind = "rec" /\ cells[p].rec_len <= o + Block - p
      at[k \in 0 .. Block] ==
        IF k = 0 THEN [next |-> o, seen |-> {}]
        ELSE LET w == at[k - 1] IN
             IF good(w.next)
             THEN [next |-> w.next + cells[w.next].rec_len, seen |-> w.seen \cup {w.next}]
             ELSE w
  IN  at[Block]

Live(p)     == cells[p].inum # 0
Named(p, n) == /\ Live(p) /\ Size[cells[p].name] = Size[n]
               /\ \A q \in p + 1 .. p + Size[n] - 1 : cells[q] = Text(n)
First(S)    == {s \in S : \A z \in S : s <= z}

\* the record of n in the block at o, if the walk meets one
Hits(o, n) == First({p \in Walk(o).seen : Named(p, n)})

DirBlocks == {o \in {k * Block : k \in 0 .. MaxBlocks} : o < size}
Passed == UNION {Walk(o).seen : o \in DirBlocks}

\* dir_lookup, all blocks at one moment
Found(n)  == First({p \in Passed : Named(p, n)})
Lookup(n) == IF Found(n) = {} THEN 0 ELSE cells[CHOOSE p \in Found(n) : TRUE].inum

----------------------------------------------------------------------------
(* Writing a record.                                                       *)

\* what inode_write puts at p .. p + Full - 1 for a new dirent_t r
Image(f, p, r) ==
  [q \in Where |->
     IF q < p \/ q >= p + Full THEN f[q]
     ELSE IF q = p THEN r
     ELSE IF q < p + Size[r.name] THEN Text(r.name) ELSE Zero]

\* the same for a record that is written back from the block it was read in:
\* what follows it is as it was, and unknown behind the end of the block
Rewritten(f, p, l) ==
  [q \in Where |->
     IF q = p THEN [f[p] EXCEPT !.rec_len = l]
     ELSE IF q > p /\ q < p + Full /\ q \div Block # p \div Block THEN Junk
     ELSE f[q]]

Grown(p) == IF p + Full > size THEN p + Full ELSE size
Spills(p) == IF (p % Block) + Full > Block THEN {"spill"} ELSE {}
Cross(limits) == crossed' = crossed \cup limits

\* a directory is read while it changes: what the running lookups may answer
Notice(ls) ==
  reader' = [r \in Readers |->
               IF reader[r].blk < 0 THEN reader[r]
               ELSE [reader[r] EXCEPT !.may = @ \cup {ls[reader[r].name]}]]

List(n, i) ==
  /\ listed' = [listed EXCEPT ![n] = i]
  /\ Notice(listed')

----------------------------------------------------------------------------
(* dir_add.                                                                *)

Actual(p) == Size[cells[p].name]
Space(p)  == IF Live(p) THEN cells[p].rec_len - Actual(p) ELSE cells[p].rec_len

\* the first record with enough space behind or in it
Room(n) == First({p \in Passed : Space(p) >= Size[n]})

\* slip: the space behind the new record is forgotten
SplitForgets(p, n, i) ==
  [at |-> p + Actual(p), rec |-> Rec(n, i, Size[n])]

\* the record that goes behind the live one at p
SplitOff(p, n, i) ==
  [at |-> p + Actual(p), rec |-> Rec(n, i, cells[p].rec_len - Actual(p))]

\* a split: first the live record is written back with its length cut
AddSplit(n, i) ==
  /\ pending = None /\ Lookup(n) = 0
  /\ \E p \in Room(n) :
       /\ Live(p)
       /\ cells' = Rewritten(cells, p, Actual(p)) /\ size' = Grown(p)
       /\ pending' = SplitOff(p, n, i)
       /\ Cross(Spills(p))
  /\ UNCHANGED <<reader, listed>>

\* a record that does not fill its dirent_t reaches over what follows its space
Clobbers(p, r) ==
  IF r.rec_len < Full /\ (p % Block) + r.rec_len < Block THEN {"clobber"} ELSE {}

PutRecord(p, r) ==
  /\ cells' = Image(cells, p, r) /\ size' = Grown(p)
  /\ Cross(Clobbers(p, r) \cup Spills(p))
  /\ List(r.name, r.inum)

\* then the new one is written
AddSecond ==
  /\ pending # None
  /\ PutRecord(pending.at, pending.rec)
  /\ pending' = None

\* the second write fails: dir_add returns the error, the first stays
AddFault ==
  /\ pending # None
  /\ pending' = None
  /\ Cross({"halfSplit"})
  /\ UNCHANGED <<cells, size, reader, listed>>

\* the space of a removed record
AddReuse(n, i) ==
  /\ pending = None /\ Lookup(n) = 0
  /\ \E p \in Room(n) : ~Live(p) /\ PutRecord(p, Rec(n, i, Space(p)))
  /\ UNCHANGED pending

\* no space: at the end of the file, with the length of a whole block
AddAppend(n, i) ==
  /\ pending = None /\ Lookup(n) = 0 /\ Room(n) = {}
  /\ size <= (MaxBlocks - 1) * Block
  /\ PutRecord(size, Rec(n, i, Block))
  /\ UNCHANGED pending

----------------------------------------------------------------------------
(* dir_remove.                                                             *)

\* the last live record that the walk passes before p, in p's block
Prev(p) ==
  LET before == {q \in Walk((p \div Block) * Block).seen : q < p /\ Live(q)} IN
  {q \in before : \A z \in before : z <= q}

\* slip: the record before keeps its length
MergeForgets(q, p) == cells[q].rec_len

Merged(q, p) == cells[q].rec_len + cells[p].rec_len

\* merged into the record before it, which is written back
RemoveMerge(n) ==
  /\ pending = None
  /\ \E p \in Found(n) : \E q \in Prev(p) :
       /\ cells' = Rewritten(cells, q, Merged(q, p)) /\ size' = Grown(q)
       /\ Cross(Spills(q) \cup (IF q + cells[q].rec_len = p THEN {} ELSE {"skips"}))
  /\ List(n, 0)
  /\ UNCHANGED pending

\* the first of its block: its inode number is cleared
RemoveFirst(n) ==
  /\ pending = None
  /\ \E p \in Found(n) :
       /\ Prev(p) = {}
       /\ cells' = [Rewritten(cells, p, cells[p].rec_len) EXCEPT ![p].inum = 0]
       /\ size' = Grown(p)
       /\ Cross(Spills(p))
  /\ List(n, 0)
  /\ UNCHANGED pending

----------------------------------------------------------------------------
(* dir_lookup from path_resolve, without the lock.                         *)

\* outside every lookup only the last answer is kept
Idle(i) == [name |-> NoName, blk |-> -1, may |-> {}, raced |-> FALSE, answer |-> i]

LookupBegin(r, n) ==
  /\ reader[r].blk < 0
  /\ reader' = [reader EXCEPT ![r] = [name |-> n, blk |-> 0, may |-> {listed[n]},
                                      raced |-> FALSE, answer |-> 0]]
  /\ UNCHANGED <<cells, size, pending, listed, crossed>>

\* does r read a block between the two writes of a split
MidSplit(r) == pending # None /\ pending.at \div Block = reader[r].blk

\* slip: only the first block is looked at
LookupOneBlock(r) ==
  LET hits == IF size > 0 THEN Hits(0, reader[r].name) ELSE {} IN
  /\ reader[r].blk >= 0
  /\ \/ hits = {} /\ reader' = [reader EXCEPT ![r] = Idle(0)]
     \/ \E p \in hits : reader' = [reader EXCEPT ![r] = Idle(cells[p].inum)]
  /\ UNCHANGED <<cells, size, pending, listed, crossed>>

\* one block: it is copied as it is now and then searched
LookupBlock(r) ==
  LET o == reader[r].blk * Block
      hits == IF o < size THEN Hits(o, reader[r].name) ELSE {}
  IN
  /\ reader[r].blk >= 0
  /\ \/ o >= size /\ reader' = [reader EXCEPT ![r] = Idle(0)]
     \/ o < size /\ hits = {}
        /\ reader' = [reader EXCEPT ![r].blk = @ + 1, ![r].raced = @ \/ MidSplit(r)]
     \/ \E p \in hits : reader' = [reader EXCEPT ![r] = Idle(cells[p].inum)]
  /\ UNCHANGED <<cells, size, pending, listed, crossed>>

----------------------------------------------------------------------------
DirInit ==
  /\ cells = [q \in Where |-> Zero] /\ size = 0
  /\ pending = None
  /\ listed = [n \in Names |-> 0]
  /\ reader = [r \in Readers |-> Idle(0)]
  /\ crossed = {}

Add    == (\E n \in Names, i \in Inums : AddSplit(n, i) \/ AddReuse(n, i) \/ AddAppend(n, i))
          \/ AddSecond \/ AddFault
Remove == \E n \in Names : RemoveMerge(n) \/ RemoveFirst(n)
Resolve(r) == (\E n \in Names : LookupBegin(r, n)) \/ LookupBlock(r)

DirNext == Add \/ Remove \/ \E r \in Readers : Resolve(r)

DirSpec == DirInit /\ [][DirNext]_dirVars

----------------------------------------------------------------------------
(* Properties.  "crossed" names what the code does not keep itself from:   *)
(*   clobber    a new record was put into a space smaller than its         *)
(*              dirent_t, whose zeroes overwrote the record behind it      *)
(*   spill      a dirent_t was written over the end of its block           *)
(*   skips      a record was merged into one that is not its neighbour     *)
(*   halfSplit  the second write of a split failed                         *)

WithinLimits == crossed = {}

DirTypeOK ==
  /\ cells \in [Where -> Cells]
  /\ size \in 0 .. Top
  /\ pending = None \/ pending \in [at : Where, rec : Records]
  /\ listed \in [Names -> Answers]
  /\ reader \in [Readers -> Lookups]
  /\ crossed \subseteq Limits

\* how often dir_iterate reports n
Reported(n) == {p \in Passed : Named(p, n)}

\* Within the limits, when no dir_add is half-way, every name that was added and
\* not removed is found, with its inode number, and reported exactly once by
\* readdir, and no removed name is; no lookup leaves the directory's blocks (DirTypeOK).
Faithful ==
  /\ DirTypeOK
  /\ WithinLimits /\ pending = None =>
    \A n \in Names :
      /\ Lookup(n) = listed[n]
      /\ Cardinality(Reported(n)) = IF listed[n] = 0 THEN 0 ELSE 1

\* Within the limits, when no dir_add is half-way, the records of every block
\* lie one behind the other from its start to its end: no space is lost for
\* later adds, and none belongs to two records.
Tiled ==
  WithinLimits /\ pending = None => \A o \in DirBlocks : Walk(o).next = o + Block

\* Within the limits, a lookup without the lock answers what was true at some
\* moment while it ran, however adds and removes fall between the blocks it
\* reads, unless it reads a block between the two writes of a split.
LookupTruthful ==
  [][WithinLimits =>
       \A r \in Readers :
         reader[r].blk >= 0 /\ reader'[r].blk < 0 /\ ~reader[r].raced /\ ~MidSplit(r)
         => reader'[r].answer \in reader[r].may]_dirVars

=============================================================================
