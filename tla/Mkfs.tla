-------------------------------- MODULE Mkfs --------------------------------
(***************************************************************************)
(* The layout of an image (superblock_init) and the program that writes it *)
(* (mkfs.c).  Block numbers are uint32_t: a difference below zero stands   *)
(* for itself modulo 2^32, and Quotient divides it as the code does.       *)
(***************************************************************************)
EXTENDS Integers

CONSTANTS
  Sizes,      \* the sizes in MB given to mkfs
  MaxFaults   \* bound: failing device calls in a behaviour

ASSUME MkfsAssumption == Sizes \subseteq 1 .. 16384 /\ MaxFaults \in Nat

VARIABLES
  size,     \* argv[2]
  regions,  \* the regions written so far
  result,   \* of mkfs: "running", "formatted", "failed"
  faults    \* what the bound counts

mkfsVars == <<size, regions, result, faults>>

\* a uint32_t divided by d, a power of 2
Quotient(x, d) == (x \div d) % (4 * (1073741824 \div d))

BitsPerBlock == 32768
TotalBlocks  == size * 256
Clamp(lo, x, hi) == IF x < lo THEN lo ELSE IF x > hi THEN hi ELSE x

TotalInodes(total)   == Clamp(256, Quotient(total - 100, 256), 16384)
BitmapBlocks(n)      == Quotient(n + 32767, BitsPerBlock)
TableBlocks(total)   == Quotient(TotalInodes(total) + 31, 32)
JournalBlocks(total) == Clamp(256, Quotient(total, 8), 2048)
InodeBits(total)     == BitmapBlocks(TotalInodes(total))

\* data_blocks, when the data bitmap takes so many blocks
DataBlocks(total, n) ==
  total - (1 + JournalBlocks(total) + InodeBits(total) + n + TableBlocks(total))

\* slip: the second size is not rounded up
DataBitsDown(total) ==
  Quotient(DataBlocks(total, BitmapBlocks(total - 1 - InodeBits(total))), BitsPerBlock)

\* the data bitmap is sized twice
DataBits(total) == BitmapBlocks(DataBlocks(total, BitmapBlocks(total - 1 - InodeBits(total))))

\* the fields of the superblock
Layout(total) ==
  [inodes |-> TotalInodes(total), data |-> DataBlocks(total, DataBits(total)),
   areas  |-> << <<"superblock", 1>>, <<"journal", JournalBlocks(total)>>,
                 <<"inode_bitmap", InodeBits(total)>>, <<"data_bitmap", DataBits(total)>>,
                 <<"inode_table", TableBlocks(total)>>, <<"root", 1>> >>]

\* where an area starts: behind those before it
Start(areas, n) ==
  LET to[k \in 0 .. 6] == IF k = 0 THEN 0 ELSE to[k - 1] + areas[k][2]
  IN  to[n - 1]

----------------------------------------------------------------------------
\* the next area is written; blkdev_write refuses a block behind the device
FormatRegion ==
  /\ result = "running" /\ regions < 6
  /\ \E areas \in {Layout(TotalBlocks).areas} :
       IF Start(areas, regions + 2) <= TotalBlocks
       THEN regions' = regions + 1 /\ UNCHANGED result
       ELSE result' = "failed" /\ UNCHANGED regions
  /\ UNCHANGED <<size, faults>>

FormatFault ==
  /\ result = "running" /\ regions < 6
  /\ faults < MaxFaults /\ faults' = faults + 1
  /\ result' = "failed"
  /\ UNCHANGED <<size, regions>>

\* sync and close, whose results are ignored
FormatEnd ==
  /\ result = "running" /\ regions = 6
  /\ result' = "formatted"
  /\ UNCHANGED <<size, regions, faults>>

MkfsInit == size \in Sizes /\ regions = 0 /\ result = "running" /\ faults = 0

Format == FormatRegion \/ FormatFault \/ FormatEnd

----------------------------------------------------------------------------
\* An image that mkfs reports as made is sound, whatever its size: its areas
\* and the data fill the device exactly, without wrapping below zero; the two
\* bitmaps and the table have room for every block and inode; and mkfs refuses
\* a size only where the metadata does not fit, or where a device call fails.
FormatsWhole ==
  LET L == Layout(TotalBlocks)
      Room(n) == L.areas[n][2]
  IN  /\ result = "formatted" =>
           /\ Start(L.areas, 6) + L.data = TotalBlocks
           /\ 1 <= L.data /\ L.data <= Room(4) * BitsPerBlock
           /\ L.inodes <= Room(3) * BitsPerBlock /\ L.inodes <= Room(5) * 32
      /\ result = "failed" /\ faults = 0 => TotalBlocks < Start(L.areas, 7)
=============================================================================
