---------------------------- MODULE SpaceProofs ----------------------------
(***************************************************************************)
(* Theorems about space that is handed out in pieces.  ExtentAlloc, for    *)
(* every size of the bitmap: what its two loops compute, by induction over *)
(* the bits, and that no sequence of calls breaks the counters or gives a  *)
(* block away twice.  Directory, for any names, sizes of records and       *)
(* blocks, and any number of readers: that its records tile its blocks,    *)
(* and that readers find what is there.                                    *)
(***************************************************************************)
EXTENDS ExtentAlloc, Directory, FiniteSetTheorems, Iteration, TLAPS

USE ExtentAssumption

(***************************************************************************)
(* Positions.                                                              *)
(***************************************************************************)

\* The offsets that a search looks at go once round the bitmap.
LEMMA PosValue ==
  ASSUME NEW hint \in Bits, NEW o \in 0 .. Total - 1
  PROVE  /\ Pos(hint, o) \in Bits
         /\ Pos(hint, o) = IF hint + o < Total THEN hint + o ELSE hint + o - Total
<1>1. (hint + o) % Total = IF hint + o < Total THEN hint + o ELSE hint + o - Total
  BY DEF Bits
<1>. QED  BY <1>1 DEF Pos, Bits

(***************************************************************************)
(* find_consecutive_free.                                                  *)
(***************************************************************************)

\* the offsets from hint at which the bitmap is clear, and where they are
Open(hint)  == {k \in 0 .. Total - 1 : Pos(hint, k) \notin bitmap}
Posns(hint) == [k \in 0 .. Total - 1 |-> Pos(hint, k)]

\* What the search finds: the first run there is, if there is one.
LEMMA FindSees ==
  ASSUME NEW hint \in Bits, NEW min_len \in 1 .. Total
  PROVE  /\ Find(hint, min_len) \in Cursors
         /\ Seen(Open(hint), Posns(hint), min_len, Total, Find(hint, min_len))
<1>. DEFINE Step(i, p) == CASE p.hit -> p
                            [] ~p.hit /\ Pos(hint, i - 1) \in bitmap -> [p EXCEPT !.len = 0]
                            [] ~p.hit /\ Pos(hint, i - 1) \notin bitmap ->
                                 [len |-> p.len + 1, start |-> IF p.len = 0 THEN Pos(hint, i - 1) ELSE p.start,
                                  hit |-> p.len + 1 >= min_len]
            Loop(g) == [i \in 0 .. Total |-> IF i = 0 THEN Nothing ELSE Step(i, g[i - 1])]
            at == CHOOSE g : g = Loop(g)
            open == Open(hint)
            pos == Posns(hint)
<1>1. /\ pos \in [0 .. Total - 1 -> Nat] /\ open \in SUBSET (0 .. Total - 1)
      /\ Total \in Nat /\ min_len \in Nat
  BY PosValue DEF Posns, Open, Bits
<1>2. ASSUME NEW i \in 1 .. Total, NEW p \in Cursors
      PROVE  Step(i, p) = NextCursor(open, pos, min_len, i, p)
  <2>1. i \in Nat /\ i - 1 \in 0 .. Total - 1 /\ min_len \in Nat
    OBVIOUS
  <2>2. /\ i - 1 \in open <=> Pos(hint, i - 1) \notin bitmap
        /\ pos[i - 1] = Pos(hint, i - 1)
    BY <2>1 DEF Open, Posns
  <2>. DEFINE l == NextCursor(open, pos, min_len, i, p)
  <2>3. /\ p.hit => l = p
        /\ ~p.hit /\ Pos(hint, i - 1) \in bitmap => l = [p EXCEPT !.len = 0]
        /\ ~p.hit /\ Pos(hint, i - 1) \notin bitmap =>
             l = [len |-> p.len + 1, start |-> IF p.len = 0 THEN Pos(hint, i - 1) ELSE p.start,
                  hit |-> p.len + 1 >= min_len]
    <3>. HIDE DEF open, pos
    <3>. QED  BY <2>2, LookCases
  <2>. HIDE DEF l
  <2>4. ASSUME p.hit PROVE Step(i, p) = l
    BY <2>3, <2>4
  <2>5. ASSUME ~p.hit, Pos(hint, i - 1) \in bitmap PROVE Step(i, p) = l
    BY <2>3, <2>5
  <2>6. ASSUME ~p.hit, Pos(hint, i - 1) \notin bitmap PROVE Step(i, p) = l
    BY <2>3, <2>6
  <2>7. l = Step(i, p)
    <3>. HIDE DEF Step
    <3>. QED  BY <2>4, <2>5, <2>6
  <2>. QED  BY <2>7 DEF l
<1>3. Find(hint, min_len) = at[Total]
  BY DEF Find, Nothing
<1>. HIDE DEF Step, open, pos
<1>4. PICK f \in [0 .. Total -> Cursors] :
        f[0] = Nothing /\ \A i \in 1 .. Total : f[i] = NextCursor(open, pos, min_len, i, f[i - 1])
  <2>1. HasSearch(Total, open, pos, min_len)
    BY <1>1, SearchRuns
  <2>. QED  BY <2>1 DEF HasSearch
<1>5. f = Loop(f)
  <2>1. \A i \in 0 .. Total : f[i] = IF i = 0 THEN Nothing ELSE Step(i, f[i - 1])
    BY <1>2, <1>4
  <2>. QED  BY <1>4, <2>1
<1>6. at = Loop(at)
  <2>. HIDE DEF Loop
  <2>. QED  BY <1>5
<1>. HIDE DEF at
<1>7. at[0] = Nothing /\ \A i \in 1 .. Total : at[i] = Step(i, at[i - 1])
  BY <1>6
<1>. DEFINE G == {i \in 0 .. Total : at[i] \in Cursors}
<1>8. 0 \in G
  <2>1. Nothing \in Cursors
    BY DEF Nothing, Cursors
  <2>. QED  BY <1>7, <2>1
<1>9. \A i \in 0 .. Total - 1 : i \in G => i + 1 \in G
  <2>. SUFFICES ASSUME NEW i \in 0 .. Total - 1, at[i] \in Cursors PROVE at[i + 1] \in Cursors
    OBVIOUS
  <2>1. i + 1 \in 1 .. Total /\ i + 1 - 1 = i
    OBVIOUS
  <2>2. at[i + 1] = Step(i + 1, at[i + 1 - 1])
    BY <1>7, <2>1
  <2>3. at[i + 1] = NextCursor(open, pos, min_len, i + 1, at[i])
    BY <1>2, <2>1, <2>2
  <2>4. NextCursor(open, pos, min_len, i + 1, at[i]) \in Cursors
    BY <1>1, <2>1, LookType
  <2>. QED  BY <2>3, <2>4
<1>10. \A i \in 0 .. Total : i \in G
  <2>. HIDE DEF G
  <2>. QED  BY <1>8, <1>9, BoundedInduction
<1>11. \A i \in 1 .. Total : at[i] = NextCursor(open, pos, min_len, i, at[i - 1])
  BY <1>2, <1>7, <1>10
<1>12. at[Total] \in Cursors /\ Seen(open, pos, min_len, Total, at[Total])
  BY <1>1, <1>7, <1>11, SearchSees
<1>. QED  BY <1>3, <1>12 DEF open, pos

\* What find_consecutive_free returns when it finds a run lies in the clear bits.
LEMMA HitIsFree ==
  ASSUME NEW hint \in Bits, NEW min_len \in 1 .. Total, Find(hint, min_len).hit
  PROVE  /\ Find(hint, min_len).start \in Bits
         /\ Blocks([start |-> Find(hint, min_len).start, length |-> min_len]) \subseteq FreeBits
<1>. DEFINE s == Find(hint, min_len).start
<1>1. PICK o \in 0 .. Total - min_len : s = Posns(hint)[o] /\ RunAt(Open(hint), min_len, o)
  BY FindSees DEF Seen
<1>2. s \in Bits
  BY <1>1, PosValue DEF Posns
<1>3. s = Pos(hint, o) /\ RunAt(Open(hint), min_len, o)
  BY <1>1, PosValue DEF Posns
<1>. HIDE DEF s
<1>4. ASSUME NEW b \in Bits, s <= b, b < s + min_len
      PROVE  b \notin bitmap
  <2>1. PICK k \in 0 .. min_len - 1 : b = s + k
    BY <1>2, <1>4 DEF Bits
  <2>2. o + k \in 0 .. Total - 1 /\ o \in 0 .. Total - 1 /\ o + k \in o .. o + min_len - 1
    OBVIOUS
  <2>3. s = IF hint + o < Total THEN hint + o ELSE hint + o - Total
    BY <1>3, <2>2, PosValue
  <2>4. Pos(hint, o + k) = IF hint + (o + k) < Total THEN hint + (o + k) ELSE hint + (o + k) - Total
    BY <2>2, PosValue
  <2>5. Pos(hint, o + k) = b
    BY <1>2, <2>1, <2>3, <2>4, <1>4 DEF Bits
  <2>6. Pos(hint, o + k) \notin bitmap
    BY <1>3, <2>2 DEF RunAt, Open
  <2>. QED  BY <2>5, <2>6
<1>. QED  BY <1>2, <1>4 DEF s, Blocks, FreeBits

\* The search against its reference, in any state.
LEMMA FirstFit == FindsFirstFit
<1>. SUFFICES ASSUME NEW hint \in Bits, NEW min_len \in 1 .. Total
              PROVE  LET r == Find(hint, min_len)
                         fits == {o \in 0 .. Total - min_len :
                                    AllFree({Pos(hint, o + k) : k \in 0 .. min_len - 1})}
                     IN
                       /\ r.hit <=> fits # {}
                       /\ r.hit => \E o \in fits : r.start = Pos(hint, o) /\ \A q \in fits : o <= q
                       /\ hint = 0 /\ r.hit => InRange([start |-> r.start, length |-> min_len])
  BY DEF FindsFirstFit
<1>. DEFINE r == Find(hint, min_len)
            fits == {o \in 0 .. Total - min_len :
                       AllFree({Pos(hint, o + k) : k \in 0 .. min_len - 1})}
<1>1. r \in Cursors /\ Seen(Open(hint), Posns(hint), min_len, Total, r)
  BY FindSees
<1>2. ASSUME NEW o \in 0 .. Total - min_len
      PROVE  o \in fits <=> RunAt(Open(hint), min_len, o)
  <2>1. ASSUME NEW k \in 0 .. min_len - 1
        PROVE  Pos(hint, o + k) \in FreeBits <=> o + k \in Open(hint)
    <3>1. o + k \in 0 .. Total - 1
      OBVIOUS
    <3>. QED  BY <3>1, PosValue DEF FreeBits, Open
  <2>2. o \in fits => RunAt(Open(hint), min_len, o)
    <3>. SUFFICES ASSUME o \in fits, NEW k \in o .. o + min_len - 1 PROVE k \in Open(hint)
      BY DEF RunAt
    <3>1. k - o \in 0 .. min_len - 1 /\ o + (k - o) = k
      OBVIOUS
    <3>2. Pos(hint, o + (k - o)) \in FreeBits
      BY <3>1 DEF AllFree
    <3>. QED  BY <2>1, <3>1, <3>2
  <2>3. RunAt(Open(hint), min_len, o) => o \in fits
    <3>. SUFFICES ASSUME RunAt(Open(hint), min_len, o), NEW k \in 0 .. min_len - 1
                  PROVE  Pos(hint, o + k) \in FreeBits
      BY DEF AllFree
    <3>1. o + k \in o .. o + min_len - 1
      OBVIOUS
    <3>. QED  BY <2>1, <3>1 DEF RunAt
  <2>. QED  BY <2>2, <2>3
<1>3. fits \subseteq 0 .. Total - min_len
  OBVIOUS
<1>. HIDE DEF r, fits
<1>4. ASSUME r.hit
      PROVE  \E o \in fits : r.start = Pos(hint, o) /\ \A q \in fits : o <= q
  <2>1. PICK o \in 0 .. Total - min_len :
          /\ r.start = Posns(hint)[o] /\ RunAt(Open(hint), min_len, o)
          /\ \A q \in 0 .. o - 1 : ~RunAt(Open(hint), min_len, q)
    BY <1>1, <1>4 DEF Seen
  <2>2. r.start = Pos(hint, o)
    BY <2>1 DEF Posns
  <2>3. ASSUME NEW q \in fits
        PROVE  o <= q
    <3>1. q \in 0 .. Total - min_len /\ RunAt(Open(hint), min_len, q)
      BY <1>2, <1>3
    <3>. QED  BY <2>1, <3>1
  <2>. QED  BY <1>2, <2>1, <2>2, <2>3
<1>5. r.hit \in BOOLEAN /\ (fits # {} => r.hit)
  <2>1. ASSUME ~r.hit PROVE fits = {}
    BY <1>1, <1>2, <1>3, <2>1 DEF Seen
  <2>. QED  BY <1>1, <2>1 DEF Cursors
<1>6. ASSUME hint = 0, r.hit
      PROVE  InRange([start |-> r.start, length |-> min_len])
  <2>1. PICK o \in 0 .. Total - min_len : r.start = Pos(hint, o)
    BY <1>3, <1>4, <1>6
  <2>2. r.start = o
    BY <1>6, <2>1, PosValue
  <2>. QED  BY <2>2 DEF InRange
<1>. QED  BY <1>4, <1>5, <1>6 DEF r, fits

\* The search finds the first run, in every state that is reached.
THEOREM SearchFindsFirstFit == Spec => []FindsFirstFit
BY FirstFit, PTL

(***************************************************************************)
(* Counting.                                                               *)
(***************************************************************************)

\* Sets of bits are finite and not larger than the bitmap.
LEMMA BitsFinite ==
  /\ IsFiniteSet(Bits) /\ Cardinality(Bits) = Total
  /\ \A S \in SUBSET Bits : IsFiniteSet(S) /\ Cardinality(S) \in 0 .. Total
<1>1. IsFiniteSet(Bits) /\ Cardinality(Bits) = Total
  BY FS_Interval DEF Bits
<1>2. ASSUME NEW S \in SUBSET Bits
      PROVE  IsFiniteSet(S) /\ Cardinality(S) \in 0 .. Total
  <2>1. IsFiniteSet(S) /\ Cardinality(S) <= Total
    BY <1>1, FS_Subset
  <2>2. Cardinality(S) \in Nat
    BY <2>1, FS_CardinalityType
  <2>. QED  BY <2>1, <2>2
<1>. QED  BY <1>1, <1>2

\* Clear and set bits add up.
LEMMA Halves ==
  ASSUME NEW S \in SUBSET Bits
  PROVE  Cardinality(Bits \ S) = Total - Cardinality(S)
BY BitsFinite, Parts

\* An extent in range has as many blocks as it is long.
LEMMA ExtentSize ==
  ASSUME NEW e \in Extents, InRange(e)
  PROVE  Cardinality(Blocks(e)) = e.length /\ Blocks(e) \in SUBSET Bits /\ e.start \in Blocks(e)
<1>1. e.start \in Bits /\ e.length \in 1 .. Total /\ e.start + e.length <= Total
  BY DEF Extents, InRange
<1>2. Blocks(e) = e.start .. e.start + e.length - 1
  BY <1>1 DEF Blocks, Bits
<1>3. Cardinality(e.start .. e.start + e.length - 1) = e.length
  <2>. DEFINE a == e.start
              b == e.start + e.length - 1
  <2>1. a \in Int /\ b \in Int /\ ~(a > b) /\ b - a + 1 = e.length
    BY <1>1 DEF Bits
  <2>. HIDE DEF a, b
  <2>2. Cardinality(a .. b) = b - a + 1
    BY <2>1, FS_Interval
  <2>. QED  BY <2>1, <2>2 DEF a, b
<1>4. e.start \in Blocks(e)
  BY <1>1, <1>2 DEF Bits
<1>. QED  BY <1>2, <1>3, <1>4 DEF Blocks

\* A counter that does not leave its range does not wrap, and one that does stays a word.
LEMMA Wraps ==
  /\ \A n \in Words : n % Word = n
  /\ \A n \in Int : n % Word \in Words
BY DEF Words

(***************************************************************************)
(* The invariant.  Nothing need be added: while nothing was stolen, what   *)
(* is held is set, so what the search finds clear is nobody's, and while   *)
(* no run crossed the end either, the counters move with the bits.         *)
(***************************************************************************)

ExtentInv == CountersAgree /\ ExtentsExclusive

\* The first start counts the bits that are clear on the device.
LEMMA InitE == Init => ExtentInv
<1>. SUFFICES ASSUME Init PROVE ExtentInv
  OBVIOUS
<1>1. bitmap \in SUBSET Bits /\ stored = bitmap /\ held = [c \in Clients |-> {}]
  BY DEF Init
<1>2. Cardinality(Bits \ bitmap) = Total - Cardinality(bitmap) /\ Cardinality(bitmap) \in 0 .. Total
  BY <1>1, BitsFinite, Halves
<1>3. /\ free_blocks = Cardinality(Bits \ bitmap)
      /\ stats = [free |-> free_blocks, allocated |-> Total - free_blocks]
      /\ poisoned = FALSE /\ spoilt = {}
  BY DEF Init
<1>. DEFINE n == Cardinality(bitmap)
            m == Cardinality(Bits \ bitmap)
<1>4. n \in 0 .. Total /\ m = Total - n /\ free_blocks = m
  BY <1>2, <1>3
<1>5. m \in Words /\ Total - m \in Words /\ Total - m = n
  <2>. HIDE DEF n, m
  <2>. QED  BY <1>4 DEF Words
<1>6. stats \in Stats /\ stats.free = free_blocks /\ stats.allocated = n
  BY <1>3, <1>4, <1>5 DEF Stats
<1>7. TypeOK
  BY <1>1, <1>3, <1>4, <1>5, <1>6 DEF TypeOK
<1>8. CountersAgree
  BY <1>3, <1>4, <1>6, <1>7 DEF CountersAgree, FreeBits
<1>. QED  BY <1>1, <1>8 DEF ExtentInv, ExtentsExclusive

\* A restart counts anew.
LEMMA RestartE ==
  ASSUME ExtentInv, NEW bits \in SUBSET Bits, Restart(bits)
  PROVE  ExtentInv'
<1>1. /\ bitmap' = bits /\ stored' = stored /\ held' = [c \in Clients |-> {}]
      /\ free_blocks' = Cardinality(Bits \ bits)
      /\ stats' = [free |-> Cardinality(Bits \ bits), allocated |-> Total - Cardinality(Bits \ bits)]
      /\ poisoned' = FALSE /\ spoilt' = {}
  BY DEF Restart
<1>. DEFINE n == Cardinality(bits)
            m == Cardinality(Bits \ bits)
<1>2. n \in 0 .. Total /\ m = Total - n
  BY BitsFinite, Halves
<1>3. m \in Words /\ Total - m \in Words /\ Total - m = n
  <2>. HIDE DEF n, m
  <2>. QED  BY <1>2 DEF Words
<1>4. stats' \in Stats /\ stats'.free = m /\ stats'.allocated = n
  BY <1>1, <1>3 DEF Stats
<1>5. TypeOK'
  BY <1>1, <1>3, <1>4 DEF TypeOK, ExtentInv, CountersAgree
<1>6. CountersAgree'
  BY <1>1, <1>4, <1>5 DEF CountersAgree, FreeBits
<1>. QED  BY <1>1, <1>6 DEF ExtentInv, ExtentsExclusive

\* Counters and bits when the blocks of an extent in range are taken or given back.
LEMMA CountE ==
  ASSUME TypeOK, NEW delta \in Int, Count(delta)
  PROVE  /\ free_blocks' \in Words /\ stats' \in Stats
         /\ free_blocks + delta \in Words => free_blocks' = free_blocks + delta
         /\ stats.free + delta \in Words => stats'.free = stats.free + delta
         /\ stats.allocated - delta \in Words => stats'.allocated = stats.allocated - delta
<1>1. free_blocks \in Words /\ stats.free \in Words /\ stats.allocated \in Words
  BY DEF TypeOK, Stats
<1>2. free_blocks + delta \in Int /\ stats.free + delta \in Int /\ stats.allocated - delta \in Int
  BY <1>1 DEF Words
<1>. QED  BY <1>1, <1>2, Wraps DEF Count, Stats

\* What is allocated was clear, so nobody held it.
LEMMA AllocE ==
  ASSUME ExtentInv, NEW c \in Clients, NEW hint \in Bits, NEW min_len \in 1 .. Total,
         Alloc(c, hint, min_len)
  PROVE  ExtentInv'
<1>. DEFINE e == [start |-> Find(hint, min_len).start, length |-> min_len]
<1>1. /\ Find(hint, min_len).hit /\ InRange(e)
      /\ bitmap' = bitmap \cup Blocks(e) /\ Count(-min_len)
      /\ held' = [held EXCEPT ![c] = @ \cup {e}]
      /\ UNCHANGED <<poisoned, stored, spoilt>>
  BY DEF Alloc
<1>2. e \in Extents /\ e.length = min_len /\ Blocks(e) \subseteq FreeBits
  BY <1>1, HitIsFree DEF Extents
<1>. HIDE DEF e
<1>3. Cardinality(Blocks(e)) = min_len /\ Blocks(e) \in SUBSET Bits
  BY <1>1, <1>2, ExtentSize
<1>4. TypeOK /\ bitmap \in SUBSET Bits /\ FreeBits \in SUBSET Bits
  BY DEF ExtentInv, CountersAgree, TypeOK, FreeBits
<1>5. held' \in [Clients -> SUBSET Extents]
  BY <1>1, <1>2, <1>4 DEF TypeOK
<1>6. FreeBits' = FreeBits \ Blocks(e) /\ bitmap' \in SUBSET Bits
  BY <1>1, <1>3, <1>4 DEF FreeBits
<1>7. TypeOK'
  BY <1>1, <1>4, <1>5, <1>6, CountE DEF TypeOK
<1>8. ASSUME spoilt' = {}
      PROVE  /\ free_blocks' = Cardinality(FreeBits')
             /\ stats'.free = free_blocks'
             /\ stats'.allocated = Cardinality(bitmap')
  <2>. DEFINE n == Cardinality(bitmap)
              m == Cardinality(FreeBits)
              n2 == Cardinality(bitmap')
              m2 == Cardinality(FreeBits')
  <2>1. free_blocks = m /\ stats.free = m /\ stats.allocated = n
    BY <1>1, <1>8 DEF ExtentInv, CountersAgree
  <2>2. m = m2 + min_len /\ m2 \in 0 .. Total
    <3>1. Cardinality(FreeBits) = Cardinality(FreeBits \ Blocks(e)) + Cardinality(Blocks(e))
      BY <1>2, <1>4, BitsFinite, Parts
    <3>. QED  BY <1>3, <1>4, <1>6, <3>1, BitsFinite
  <2>3. n = Total - m /\ n2 = Total - m2
    <3>1. FreeBits = Bits \ bitmap /\ FreeBits' = Bits \ bitmap'
      BY DEF FreeBits
    <3>2. n \in 0 .. Total /\ n2 \in 0 .. Total
      BY <1>4, <1>6, BitsFinite
    <3>3. m = Total - n /\ m2 = Total - n2
      BY <1>4, <1>6, <3>1, Halves
    <3>. HIDE DEF n, m, n2, m2
    <3>. QED  BY <3>2, <3>3
  <2>4. m \in 0 .. Total
    BY <1>4, BitsFinite
  <2>. HIDE DEF n, m, n2, m2
  <2>5. m + (-min_len) = m2 /\ n - (-min_len) = n2 /\ m2 \in Words /\ n2 \in Words
    BY <2>2, <2>3, <2>4 DEF Words
  <2>6. free_blocks' = m2 /\ stats'.free = m2 /\ stats'.allocated = n2
    BY <1>1, <1>4, <2>1, <2>5, CountE
  <2>. QED  BY <2>6 DEF m2, n2
<1>9. ExtentsExclusive'
  <2>. SUFFICES ASSUME "stolen" \notin spoilt' PROVE
          /\ \A d \in Clients : \A f \in held'[d] : InRange(f) /\ Blocks(f) \subseteq bitmap'
          /\ \A d, g \in Clients : \A f \in held'[d], h \in held'[g] :
               <<d, f>> # <<g, h>> => Blocks(f) \cap Blocks(h) = {}
    BY DEF ExtentsExclusive
  <2>1. /\ \A d \in Clients : \A f \in held[d] : InRange(f) /\ Blocks(f) \subseteq bitmap
        /\ \A d, g \in Clients : \A f \in held[d], h \in held[g] :
             <<d, f>> # <<g, h>> => Blocks(f) \cap Blocks(h) = {}
    BY <1>1 DEF ExtentInv, ExtentsExclusive
  <2>2. \A d \in Clients : \A f \in held'[d] : f \in held[d] \/ (d = c /\ f = e)
    BY <1>1, <1>4 DEF TypeOK
  <2>3. \A d \in Clients : \A f \in held[d] : Blocks(f) \cap Blocks(e) = {}
    BY <1>2, <2>1 DEF FreeBits
  <2>. QED  BY <1>1, <2>1, <2>2, <2>3
<1>. QED  BY <1>7, <1>8, <1>9 DEF ExtentInv, CountersAgree

\* A run that crosses the end sets bits nobody holds, uncounted.
LEMMA PanicsE ==
  ASSUME ExtentInv, NEW hint \in Bits, NEW min_len \in 1 .. Total, AllocPanics(hint, min_len)
  PROVE  ExtentInv'
<1>. DEFINE S == Blocks([start |-> Find(hint, min_len).start, length |-> min_len])
<1>1. /\ bitmap' = bitmap \cup S /\ poisoned' = TRUE /\ spoilt' = spoilt \cup {"crossed"}
      /\ UNCHANGED <<free_blocks, stats, stored, held>>
  BY DEF AllocPanics
<1>2. S \subseteq Bits
  BY DEF Blocks
<1>. HIDE DEF S
<1>3. TypeOK'
  BY <1>1, <1>2 DEF TypeOK, ExtentInv, CountersAgree
<1>. QED  BY <1>1, <1>3 DEF ExtentInv, CountersAgree, ExtentsExclusive, Blocks, InRange

\* What is given back was held, so all of it was set.
LEMMA FreeE ==
  ASSUME ExtentInv, NEW c \in Clients, NEW e \in Extents, Free(c, e)
  PROVE  ExtentInv'
<1>1. /\ e \in held[c] /\ InRange(e) /\ Blocks(e) \subseteq bitmap
      /\ bitmap' = bitmap \ Blocks(e) /\ Count(e.length)
      /\ held' = [held EXCEPT ![c] = @ \ {e}]
      /\ UNCHANGED <<poisoned, stored, spoilt>>
  BY DEF Free
<1>2. Cardinality(Blocks(e)) = e.length /\ Blocks(e) \in SUBSET Bits /\ e.length \in 1 .. Total
  BY <1>1, ExtentSize DEF Extents
<1>3. TypeOK /\ bitmap \in SUBSET Bits /\ FreeBits \in SUBSET Bits
  BY DEF ExtentInv, CountersAgree, TypeOK, FreeBits
<1>4. held' \in [Clients -> SUBSET Extents] /\ bitmap' \in SUBSET Bits
  BY <1>1, <1>3 DEF TypeOK
<1>5. TypeOK'
  BY <1>1, <1>2, <1>3, <1>4, CountE DEF TypeOK
<1>6. ASSUME spoilt' = {}
      PROVE  /\ free_blocks' = Cardinality(FreeBits')
             /\ stats'.free = free_blocks'
             /\ stats'.allocated = Cardinality(bitmap')
  <2>. DEFINE n == Cardinality(bitmap)
              m == Cardinality(FreeBits)
              n2 == Cardinality(bitmap')
              m2 == Cardinality(FreeBits')
  <2>1. free_blocks = m /\ stats.free = m /\ stats.allocated = n
    BY <1>1, <1>6 DEF ExtentInv, CountersAgree
  <2>2. n = n2 + e.length
    BY <1>1, <1>2, <1>3, BitsFinite, Parts
  <2>3. m = Total - n /\ m2 = Total - n2
    BY <1>3, <1>4, Halves DEF FreeBits
  <2>4. n \in 0 .. Total /\ n2 \in 0 .. Total
    BY <1>3, <1>4, BitsFinite
  <2>. HIDE DEF n, m, n2, m2
  <2>5. m + e.length = m2 /\ n - e.length = n2 /\ m2 \in Words /\ n2 \in Words
    BY <1>2, <2>2, <2>3, <2>4 DEF Words
  <2>6. free_blocks' = m2 /\ stats'.free = m2 /\ stats'.allocated = n2
    BY <1>1, <1>2, <1>3, <2>1, <2>5, CountE
  <2>. QED  BY <2>6 DEF m2, n2
<1>7. ExtentsExclusive'
  <2>. SUFFICES ASSUME "stolen" \notin spoilt' PROVE
          /\ \A d \in Clients : \A f \in held'[d] : InRange(f) /\ Blocks(f) \subseteq bitmap'
          /\ \A d, g \in Clients : \A f \in held'[d], h \in held'[g] :
               <<d, f>> # <<g, h>> => Blocks(f) \cap Blocks(h) = {}
    BY DEF ExtentsExclusive
  <2>1. /\ \A d \in Clients : \A f \in held[d] : InRange(f) /\ Blocks(f) \subseteq bitmap
        /\ \A d, g \in Clients : \A f \in held[d], h \in held[g] :
             <<d, f>> # <<g, h>> => Blocks(f) \cap Blocks(h) = {}
    BY <1>1 DEF ExtentInv, ExtentsExclusive
  <2>2. \A d \in Clients : \A f \in held'[d] : f \in held[d] /\ <<d, f>> # <<c, e>>
    BY <1>1, <1>3 DEF TypeOK
  <2>. QED  BY <1>1, <2>1, <2>2
<1>. QED  BY <1>5, <1>6, <1>7 DEF ExtentInv, CountersAgree

\* What is freed without being held is neither counted on nor exclusive any more.
LEMMA StolenE ==
  ASSUME ExtentInv, NEW c \in Clients, NEW e \in Extents, FreeStolen(c, e)
  PROVE  ExtentInv'
<1>1. /\ bitmap' \subseteq bitmap /\ spoilt' = spoilt \cup {"stolen"}
      /\ Count(e.length) \/ UNCHANGED <<free_blocks, stats>>
      /\ UNCHANGED <<poisoned, stored, held>>
  BY DEF FreeStolen
<1>2. e.length \in Int /\ TypeOK
  BY DEF Extents, ExtentInv, CountersAgree
<1>3. free_blocks' \in Words /\ stats' \in Stats
  BY <1>1, <1>2, CountE DEF TypeOK
<1>4. TypeOK'
  BY <1>1, <1>2, <1>3 DEF TypeOK
<1>. QED  BY <1>1, <1>4 DEF ExtentInv, CountersAgree, ExtentsExclusive

\* Every step keeps the invariant.
LEMMA StepE == ExtentInv /\ [Next]_vars => ExtentInv'
<1>. SUFFICES ASSUME ExtentInv, [Next]_vars PROVE ExtentInv'
  OBVIOUS
<1>1. ASSUME Sync PROVE ExtentInv'
  BY <1>1 DEF Sync, ExtentInv, CountersAgree, ExtentsExclusive, TypeOK, FreeBits, Blocks, InRange
<1>2. ASSUME New PROVE ExtentInv'
  BY <1>2, RestartE DEF New, ExtentInv, CountersAgree, TypeOK
<1>3. ASSUME NewUnread PROVE ExtentInv'
  BY <1>3, RestartE DEF NewUnread
<1>4. ASSUME UNCHANGED vars PROVE ExtentInv'
  BY <1>4 DEF vars, ExtentInv, CountersAgree, ExtentsExclusive, TypeOK, FreeBits, Blocks, InRange
<1>. QED  BY <1>1, <1>2, <1>3, <1>4, AllocE, PanicsE, FreeE, StolenE DEF Next

\* The invariant holds in every state that is reached.
LEMMA ExtentInvariant == Spec => []ExtentInv
BY InitE, StepE, PTL DEF Spec

\* The bitmap and the three counters agree.
THEOREM CountersAlwaysAgree == Spec => []CountersAgree
<1>1. ExtentInv => CountersAgree
  BY DEF ExtentInv
<1>. QED  BY <1>1, ExtentInvariant, PTL

\* No block is in two extents that are held.
THEOREM ExtentsStayExclusive == Spec => []ExtentsExclusive
<1>1. ExtentInv => ExtentsExclusive
  BY DEF ExtentInv
<1>. QED  BY <1>1, ExtentInvariant, PTL

(***************************************************************************)
(* fragmentation_ratio.                                                    *)
(***************************************************************************)

Regions == [count : Nat, inside : BOOLEAN]

\* the body of the loop that counts
Region(i, p) ==
  IF i - 1 \in bitmap THEN [count |-> p.count, inside |-> FALSE]
  ELSE [count |-> p.count + (IF p.inside THEN 0 ELSE 1), inside |-> TRUE]

\* The count is what the loop computes.
LEMMA FragmentsLoop ==
  \E at \in [0 .. Total -> Regions] :
    /\ at[0] = [count |-> 0, inside |-> FALSE]
    /\ \A i \in 1 .. Total : at[i] = Region(i, at[i - 1])
    /\ Fragments = at[Total].count
<1>. DEFINE Outside == [count |-> 0, inside |-> FALSE]
            Step(i, p) == IF i - 1 \in bitmap THEN [p EXCEPT !.inside = FALSE]
                          ELSE [count |-> p.count + (IF p.inside THEN 0 ELSE 1), inside |-> TRUE]
            Loop(g) == [i \in 0 .. Total |-> IF i = 0 THEN Outside ELSE Step(i, g[i - 1])]
            at == CHOOSE g : g = Loop(g)
            step == [x \in (1 .. Total) \X Regions |-> Region(x[1], x[2])]
<1>1. ASSUME NEW i \in 1 .. Total, NEW p \in Regions
      PROVE  Step(i, p) = Region(i, p) /\ Region(i, p) \in Regions
  <2>0. p.count \in Nat /\ p.inside \in BOOLEAN /\ p = [count |-> p.count, inside |-> p.inside]
    BY DEF Regions
  <2>1. [p EXCEPT !.inside = FALSE] = [count |-> p.count, inside |-> FALSE]
    <3>1. \A x \in BOOLEAN : [p EXCEPT !.inside = x] = [count |-> p.count, inside |-> x]
      BY DEF Regions
    <3>. QED  BY <3>1
  <2>2. Step(i, p) = Region(i, p)
    BY <2>1 DEF Region
  <2>3. p.count + (IF p.inside THEN 0 ELSE 1) \in Nat
    BY <2>0
  <2>4. Region(i, p) \in Regions
    <3>. DEFINE n == p.count + (IF p.inside THEN 0 ELSE 1)
    <3>1. n \in Nat /\ Region(i, p) = IF i - 1 \in bitmap THEN [count |-> p.count, inside |-> FALSE]
                                      ELSE [count |-> n, inside |-> TRUE]
      BY <2>3 DEF Region
    <3>. HIDE DEF n
    <3>. QED  BY <2>0, <3>1 DEF Regions
  <2>. QED  BY <2>2, <2>4
<1>2. Fragments = at[Total].count
  BY DEF Fragments
<1>3. Outside \in Regions
  BY DEF Regions
<1>4. PICK f : Iterates(f, Total, Regions, Outside, step)
  <2>1. step \in [(1 .. Total) \X Regions -> Regions]
    BY <1>1
  <2>. HIDE DEF step, Outside
  <2>. QED  BY <1>3, <2>1, IterationExists
<1>5. f \in [0 .. Total -> Regions] /\ f[0] = Outside
  BY <1>4 DEF Iterates
<1>6. \A i \in 1 .. Total : f[i] = Region(i, f[i - 1]) /\ f[i - 1] \in Regions
  <2>. SUFFICES ASSUME NEW i \in 1 .. Total
                PROVE  f[i] = Region(i, f[i - 1]) /\ f[i - 1] \in Regions
    OBVIOUS
  <2>1. i - 1 \in 0 .. Total /\ f[i - 1] \in Regions
    BY <1>5
  <2>2. <<i, f[i - 1]>> \in (1 .. Total) \X Regions
    BY <2>1
  <2>3. f[i] = step[<<i, f[i - 1]>>]
    <3>. HIDE DEF step
    <3>. QED  BY <1>4 DEF Iterates
  <2>. QED  BY <2>1, <2>2, <2>3
<1>. HIDE DEF Step, Outside
<1>7. f = Loop(f)
  <2>1. \A i \in 0 .. Total : f[i] = IF i = 0 THEN Outside ELSE Step(i, f[i - 1])
    BY <1>1, <1>5, <1>6
  <2>. QED  BY <1>5, <2>1
<1>8. at = Loop(at)
  <2>. HIDE DEF Loop
  <2>. QED  BY <1>7
<1>. HIDE DEF at
<1>9. \A i \in 0 .. Total : at[i] = IF i = 0 THEN Outside ELSE Step(i, at[i - 1])
  BY <1>8
<1>. DEFINE G == {i \in 0 .. Total : at[i] \in Regions}
<1>10. 0 \in G
  BY <1>3, <1>9
<1>11. \A i \in 0 .. Total - 1 : i \in G => i + 1 \in G
  BY <1>1, <1>9
<1>12. \A i \in 0 .. Total : i \in G
  <2>. HIDE DEF G
  <2>. QED  BY <1>10, <1>11, BoundedInduction
<1>13. at \in [0 .. Total -> Regions] /\ at[0] = Outside /\ \A i \in 1 .. Total : at[i] = Region(i, at[i - 1])
  BY <1>1, <1>8, <1>9, <1>12
<1>. QED  BY <1>2, <1>13 DEF Outside

\* The clear bits below i that begin a run of clear bits.
Begins(i) == {b \in FreeBits : b < i /\ b - 1 \notin FreeBits}

\* What the loop knows after i bits.
Counted(i, p) ==
  /\ p.count = Cardinality(Begins(i))
  /\ p.inside => i - 1 \in FreeBits
  /\ ~p.inside => i - 1 \notin FreeBits

\* One more bit.
LEMMA RegionCounts ==
  ASSUME NEW i \in 1 .. Total, NEW p \in Regions, Counted(i - 1, p)
  PROVE  Counted(i, Region(i, p))
<1>. DEFINE r == Region(i, p)
<1>1. p.count \in Nat /\ p.inside \in BOOLEAN
  BY DEF Regions
<1>2. i - 1 \in FreeBits <=> i - 1 \notin bitmap
  BY DEF FreeBits, Bits
<1>3. Begins(i - 1) \in SUBSET Bits /\ i - 1 \notin Begins(i - 1)
  BY DEF Begins, FreeBits
<1>4. IsFiniteSet(Begins(i - 1))
  BY <1>3, BitsFinite
<1>5. ASSUME NEW b \in FreeBits
      PROVE  b < i <=> b < i - 1 \/ b = i - 1
  BY DEF FreeBits, Bits
<1>6. p.count = Cardinality(Begins(i - 1))
  BY DEF Counted
<1>7. p.inside <=> i - 2 \in FreeBits
  BY <1>1 DEF Counted
<1>8. CASE i - 1 \in bitmap
  <2>1. Begins(i) = Begins(i - 1)
    BY <1>2, <1>5, <1>8 DEF Begins
  <2>2. r.count = p.count /\ r.inside = FALSE
    BY <1>8 DEF Region
  <2>. QED  BY <1>2, <1>6, <1>8, <2>1, <2>2 DEF Counted
<1>9. CASE i - 1 \notin bitmap /\ p.inside
  <2>1. Begins(i) = Begins(i - 1)
    BY <1>5, <1>7, <1>9 DEF Begins
  <2>2. r.count = p.count /\ r.inside = TRUE
    BY <1>1, <1>9 DEF Region
  <2>. QED  BY <1>2, <1>6, <1>9, <2>1, <2>2 DEF Counted
<1>10. CASE i - 1 \notin bitmap /\ ~p.inside
  <2>1. Begins(i) = Begins(i - 1) \cup {i - 1}
    <3>1. \A b \in FreeBits : b \in Begins(i) <=> (b < i - 1 /\ b - 1 \notin FreeBits) \/ b = i - 1
      BY <1>5, <1>7, <1>10 DEF Begins
    <3>. QED  BY <1>2, <1>10, <3>1 DEF Begins
  <2>2. r.count = p.count + 1 /\ r.inside = TRUE
    BY <1>1, <1>10 DEF Region
  <2>3. Cardinality(Begins(i)) = Cardinality(Begins(i - 1)) + 1
    BY <1>3, <1>4, <2>1, FS_AddElement
  <2>. QED  BY <1>2, <1>6, <1>10, <2>2, <2>3 DEF Counted
<1>. QED  BY <1>1, <1>8, <1>9, <1>10

\* The count against its reference, in any state.
LEMMA RunsCounted == FragmentsCounted
<1>1. PICK at \in [0 .. Total -> Regions] :
        /\ at[0] = [count |-> 0, inside |-> FALSE]
        /\ \A i \in 1 .. Total : at[i] = Region(i, at[i - 1])
        /\ Fragments = at[Total].count
  BY FragmentsLoop
<1>. DEFINE G == {i \in 0 .. Total : Counted(i, at[i])}
<1>2. 0 \in G
  <2>1. Begins(0) = {} /\ 0 - 1 \notin FreeBits
    BY DEF Begins, FreeBits, Bits
  <2>2. Cardinality(Begins(0)) = 0
    BY <2>1, FS_EmptySet
  <2>3. at[0].count = 0 /\ at[0].inside = FALSE
    BY <1>1
  <2>4. Counted(0, at[0])
    BY <2>1, <2>2, <2>3 DEF Counted
  <2>. QED  BY <2>4
<1>3. \A i \in 0 .. Total - 1 : i \in G => i + 1 \in G
  <2>. SUFFICES ASSUME NEW i \in 0 .. Total - 1, i \in G PROVE i + 1 \in G
    OBVIOUS
  <2>1. i + 1 \in 1 .. Total /\ (i + 1) - 1 = i /\ i \in 0 .. Total /\ i + 1 \in 0 .. Total
    OBVIOUS
  <2>2. at[i] \in Regions /\ at[i + 1] = Region(i + 1, at[i])
    BY <1>1, <2>1
  <2>3. Counted((i + 1) - 1, at[i])
    BY <2>1
  <2>4. Counted(i + 1, Region(i + 1, at[i]))
    BY <2>1, <2>2, <2>3, RegionCounts
  <2>. QED  BY <2>1, <2>2, <2>4
<1>4. Total \in G
  <2>. HIDE DEF G
  <2>1. \A i \in 0 .. Total : i \in G
    BY <1>2, <1>3, BoundedInduction
  <2>. QED  BY <2>1
<1>5. Fragments = Cardinality(Begins(Total))
  BY <1>1, <1>4 DEF Counted
<1>6. Begins(Total) = {b \in FreeBits : b - 1 \notin FreeBits}
  BY DEF Begins, FreeBits, Bits
<1>. QED  BY <1>5, <1>6 DEF FragmentsCounted

\* The regions that are counted are the maximal clear runs, in every state that is reached.
THEOREM EveryRunCounted == Spec => []FragmentsCounted
BY RunsCounted, PTL

HIDE ExtentAssumption
USE DirectoryAssumption

(***************************************************************************)
(* The numbers, and the cells.                                             *)
(***************************************************************************)

\* The start of the block that p lies in.
Base(p) == (p \div Block) * Block

\* What the assumption says of the sizes.
LEMMA SizesAre ==
  /\ Block \in Nat /\ Block > 0 /\ Full \in Nat /\ Full > 0 /\ Full <= Block
  /\ \A n \in Names : Size[n] \in Nat /\ 2 <= Size[n] /\ Size[n] <= Full
  /\ MaxBlocks * Block \in Nat /\ Top = MaxBlocks * Block + Full /\ Top \in Nat
  /\ (MaxBlocks - 1) * Block + Block = MaxBlocks * Block /\ (MaxBlocks - 1) * Block \in Nat
<1>1. Block \in Nat /\ Block > 0 /\ Full \in Nat /\ Full > 0 /\ Full <= Block
  OBVIOUS
<1>2. \A n \in Names : Size[n] \in Nat /\ 2 <= Size[n] /\ Size[n] <= Full
  OBVIOUS
<1>3. MaxBlocks * Block \in Nat /\ (MaxBlocks - 1) * Block + Block = MaxBlocks * Block /\ (MaxBlocks - 1) * Block \in Nat
  BY <1>1, SMT
<1>. QED  BY <1>1, <1>2, <1>3 DEF Top

\* A position lies in one block.
LEMMA BaseIs ==
  ASSUME NEW p \in Nat
  PROVE  /\ p \div Block \in Nat /\ Base(p) \in Nat /\ Base(p) <= p /\ p < Base(p) + Block
         /\ p % Block = p - Base(p)
<1>1. Block \in Nat /\ Block > 0
  BY SizesAre
<1>. HIDE DirectoryAssumption
<1>2. p \div Block \in Nat /\ p % Block \in 0 .. Block - 1 /\ p = (p \div Block) * Block + (p % Block)
  BY <1>1, SMT
<1>. DEFINE x == (p \div Block) * Block
<1>3. x \in Nat
  BY <1>1, <1>2, SMT
<1>. HIDE DEF x
<1>4. x \in Nat /\ x <= p /\ p < x + Block /\ p % Block = p - x
  BY <1>1, <1>2, <1>3 DEF x
<1>. QED  BY <1>2, <1>4 DEF x, Base

\* The block k and what lies in it.
LEMMA BaseOf ==
  ASSUME NEW k \in Nat, NEW p \in Nat, k * Block <= p, p < k * Block + Block
  PROVE  p \div Block = k /\ Base(p) = k * Block
<1>1. Block \in Nat /\ Block > 0
  BY SizesAre
<1>. HIDE DirectoryAssumption
<1>2. k * Block \in Nat
  BY <1>1, SMT
<1>3. PICK j \in 0 .. Block - 1 : p = k * Block + j
  <2>. DEFINE x == k * Block
  <2>1. x \in Nat /\ x <= p /\ p < x + Block
    BY <1>2
  <2>. HIDE DEF x
  <2>2. p - x \in 0 .. Block - 1 /\ p = x + (p - x)
    BY <1>1, <2>1
  <2>. QED  BY <2>2 DEF x
<1>4. (k * Block + j) \div Block = k
  BY <1>1, SMT
<1>. QED  BY <1>3, <1>4 DEF Base

\* Two blocks are the same or do not overlap.
LEMMA BlocksApart ==
  ASSUME NEW j \in Nat, NEW k \in Nat
  PROVE  /\ j * Block \in Nat /\ (j + 1) * Block = j * Block + Block
         /\ j = k \/ j * Block + Block <= k * Block \/ k * Block + Block <= j * Block
         /\ j < k => j * Block + Block <= k * Block
<1>1. Block \in Nat /\ Block > 0
  BY SizesAre
<1>. HIDE DirectoryAssumption
<1>2. j * Block \in Nat /\ (j + 1) * Block = j * Block + Block /\ (k + 1) * Block = k * Block + Block /\ k * Block \in Nat
  BY <1>1, SMT
<1>3. j + 1 <= k => (j + 1) * Block <= k * Block
  BY <1>1, SMT
<1>4. k + 1 <= j => (k + 1) * Block <= j * Block
  BY <1>1, SMT
<1>5. j < k => j * Block + Block <= k * Block
  BY <1>2, <1>3
<1>6. k < j => k * Block + Block <= j * Block
  BY <1>2, <1>4
<1>. QED  BY <1>2, <1>5, <1>6

\* What a lookup answers is a number.
LEMMA AnswersAre == \A i \in Answers : i \in Nat
<1>1. Inums \subseteq Nat /\ 0 \in Nat
  OBVIOUS
<1>. HIDE DirectoryAssumption
<1>. QED  BY <1>1 DEF Answers

\* A cell with a header is a record.
LEMMA CellIs ==
  ASSUME NEW x \in Cells
  PROVE  /\ x.kind = "rec" <=> x \in Records
         /\ x \in Records => /\ x.name \in Names /\ x.inum \in Answers /\ x.inum \in Nat
                             /\ x.rec_len \in Nat /\ 1 <= x.rec_len /\ x.rec_len <= Block
<1>1. x \in Records => x.kind = "rec"
  BY DEF Records
<1>2. x.kind = "rec" => x \in Records
  BY DEF Cells, Zero, Junk, Text
<1>3. x \in Records => /\ x.name \in Names /\ x.inum \in Answers /\ x.inum \in Nat
                       /\ x.rec_len \in Nat /\ 1 <= x.rec_len /\ x.rec_len <= Block
  <2>. SUFFICES ASSUME x \in Records
                PROVE  /\ x.name \in Names /\ x.inum \in Answers /\ x.inum \in Nat
                       /\ x.rec_len \in Nat /\ 1 <= x.rec_len /\ x.rec_len <= Block
    OBVIOUS
  <2>1. x.name \in Names /\ x.inum \in Answers /\ x.rec_len \in 1 .. Block
    BY DEF Records, Answers
  <2>2. x.inum \in Nat
    BY <2>1, AnswersAre
  <2>3. \A l \in 1 .. Block : l \in Nat /\ 1 <= l /\ l <= Block
    BY SizesAre
  <2>. QED  BY <2>1, <2>2, <2>3
<1>. QED  BY <1>1, <1>2, <1>3

(***************************************************************************)
(* The walk of a block.                                                    *)
(***************************************************************************)

Walks == [next : Nat, seen : SUBSET Nat]

\* does the walk of the block at o go on at p
Passes(o, p) == p < o + Got(o) /\ cells[p].kind = "rec" /\ cells[p].rec_len <= o + Block - p

Onward(o, w) ==
  IF Passes(o, w.next)
  THEN [next |-> w.next + cells[w.next].rec_len, seen |-> w.seen \cup {w.next}]
  ELSE w

Walked == cells \in [Where -> Cells] /\ size \in 0 .. Top

\* What it passes is a record.
LEMMA PassesIs ==
  ASSUME Walked, NEW o \in Nat, NEW p \in Nat, Passes(o, p)
  PROVE  /\ p \in Where /\ p < size /\ p < o + Block /\ cells[p] \in Records /\ cells[p].rec_len \in Nat
         /\ cells[p].rec_len > 0 /\ p + cells[p].rec_len <= o + Block
<1>1. p < o + Got(o) /\ cells[p].kind = "rec" /\ cells[p].rec_len <= o + Block - p
  BY DEF Passes
<1>2. size \in Nat /\ size <= Top /\ Block \in Nat /\ Top \in Nat
  BY SizesAre DEF Walked
<1>3. p < size /\ p < o + Block
  BY <1>1, <1>2 DEF Got
<1>4. p \in Where
  BY <1>2, <1>3 DEF Where
<1>5. cells[p] \in Cells
  BY <1>4 DEF Walked
<1>6. cells[p] \in Records /\ cells[p].rec_len \in Nat /\ 1 <= cells[p].rec_len
  BY <1>1, <1>5, CellIs
<1>. QED  BY <1>1, <1>2, <1>3, <1>4, <1>6

\* The walk is the iteration of its step.
LEMMA WalkRuns ==
  ASSUME Walked, NEW o \in Nat
  PROVE  \E f \in [0 .. Block -> Walks] :
           /\ f[0] = [next |-> o, seen |-> {}]
           /\ \A k \in 1 .. Block : f[k] = Onward(o, f[k - 1])
           /\ Walk(o) = f[Block]
<1>. DEFINE base == [next |-> o, seen |-> {}]
            Loop(g) == [k \in 0 .. Block |-> IF k = 0 THEN base ELSE Onward(o, g[k - 1])]
            at == CHOOSE g : g = Loop(g)
            step == [x \in (1 .. Block) \X Walks |-> Onward(o, x[2])]
<1>0. Block \in Nat
  BY SizesAre
<1>1. base \in Walks
  BY DEF Walks
<1>2. ASSUME NEW w \in Walks PROVE Onward(o, w) \in Walks
  <2>1. w.next \in Nat /\ w.seen \in SUBSET Nat
    BY DEF Walks
  <2>2. CASE Passes(o, w.next)
    <3>0. PICK p \in Nat : p = w.next
      BY <2>1
    <3>1. w.next + cells[w.next].rec_len \in Nat
      <4>1. Passes(o, p)
        BY <2>2, <3>0
      <4>2. cells[p].rec_len \in Nat
        BY <4>1, PassesIs
      <4>. QED  BY <3>0, <4>2
    <3>. QED  BY <2>1, <2>2, <3>1 DEF Onward, Walks
  <2>3. CASE ~Passes(o, w.next)
    BY <2>3 DEF Onward
  <2>. QED  BY <2>2, <2>3
<1>3. step \in [(1 .. Block) \X Walks -> Walks]
  BY <1>2
<1>. HIDE DEF base, step
<1>4. PICK f : Iterates(f, Block, Walks, base, step)
  BY <1>0, <1>1, <1>3, IterationExists
<1>5. f \in [0 .. Block -> Walks] /\ f[0] = base
  BY <1>4 DEF Iterates
<1>6. ASSUME NEW k \in 1 .. Block PROVE f[k] = Onward(o, f[k - 1])
  <2>1. f[k] = step[<<k, f[k - 1]>>]
    BY <1>4 DEF Iterates
  <2>2. k - 1 \in 0 .. Block
    BY <1>0
  <2>3. f[k - 1] \in Walks
    BY <1>5, <2>2
  <2>. QED  BY <2>1, <2>3 DEF step
<1>7. f = Loop(f)
  <2>1. \A k \in 0 .. Block : f[k] = IF k = 0 THEN base ELSE Onward(o, f[k - 1])
    BY <1>0, <1>5, <1>6
  <2>. QED  BY <1>5, <2>1
<1>8. at = Loop(at)
  <2>. HIDE DEF Loop
  <2>. QED  BY <1>7
<1>9. Walk(o) = at[Block]
  BY DEF Walk, Onward, Passes, base
<1>. HIDE DEF at
<1>10. at \in [0 .. Block -> Walks] /\ at[0] = base /\ \A k \in 1 .. Block : at[k] = Onward(o, at[k - 1])
  <2>1. at[0] = base /\ \A k \in 1 .. Block : at[k] = Onward(o, at[k - 1])
    BY <1>0, <1>8
  <2>. DEFINE G == {k \in 0 .. Block : at[k] \in Walks}
  <2>2. 0 \in G
    BY <1>0, <1>1, <2>1
  <2>3. \A k \in 0 .. Block - 1 : k \in G => k + 1 \in G
    <3>. SUFFICES ASSUME NEW k \in 0 .. Block - 1, at[k] \in Walks PROVE at[k + 1] \in Walks
      BY <1>0
    <3>1. k + 1 \in 1 .. Block /\ k + 1 - 1 = k
      BY <1>0
    <3>2. at[k + 1] = Onward(o, at[k])
      BY <2>1, <3>1
    <3>. QED  BY <1>2, <3>2
  <2>4. \A k \in 0 .. Block : k \in G
    <3>. HIDE DEF G
    <3>. QED  BY <1>0, <2>2, <2>3, BoundedInduction
  <2>5. at = [k \in 0 .. Block |-> at[k]]
    BY <1>8
  <2>. QED  BY <2>1, <2>4, <2>5
<1>. QED  BY <1>9, <1>10 DEF base

\* What any walk passes: records of its block, one behind the other.
Ordered(o, w) ==
  /\ o <= w.next /\ w.next \in Nat /\ w.next <= o + Block
  /\ \A p \in w.seen : /\ p \in Nat /\ o <= p /\ Passes(o, p) /\ p + cells[p].rec_len <= w.next
  /\ \A p, q \in w.seen : p < q => p + cells[p].rec_len <= q

\* Going on keeps this.
LEMMA OnwardOrdered ==
  ASSUME Walked, NEW o \in Nat, NEW w \in Walks, Ordered(o, w)
  PROVE  Ordered(o, Onward(o, w))
<1>1. CASE ~Passes(o, w.next)
  BY <1>1 DEF Onward
<1>2. CASE Passes(o, w.next)
  <2>. DEFINE m == w.next
              l == cells[m].rec_len
  <2>1. m \in Nat /\ o <= m /\ l \in Nat /\ l > 0 /\ m + l <= o + Block
    BY <1>2, PassesIs DEF Ordered
  <2>2. PICK v : v = Onward(o, w)
    OBVIOUS
  <2>3. v.next = m + l /\ v.seen = w.seen \cup {m}
    BY <1>2, <2>2 DEF Onward
  <2>. HIDE DEF m, l
  <2>4. Block \in Nat
    BY SizesAre
  <2>5. o <= v.next /\ v.next \in Nat /\ v.next <= o + Block
    BY <2>1, <2>3, <2>4
  <2>6. ASSUME NEW p \in v.seen
        PROVE  p \in Nat /\ o <= p /\ Passes(o, p) /\ p + cells[p].rec_len <= v.next
    <3>1. CASE p = m
      BY <1>2, <2>1, <2>3, <3>1 DEF m, l
    <3>2. CASE p # m
      <4>1. p \in w.seen
        BY <2>3, <2>6, <3>2
      <4>2. p \in Nat /\ o <= p /\ Passes(o, p) /\ p + cells[p].rec_len <= m
        BY <4>1 DEF Ordered, m
      <4>3. cells[p].rec_len \in Nat
        BY <4>2, PassesIs
      <4>. QED  BY <2>1, <2>3, <4>2, <4>3
    <3>. QED  BY <3>1, <3>2
  <2>7. ASSUME NEW p \in v.seen, NEW q \in v.seen, p < q PROVE p + cells[p].rec_len <= q
    <3>1. p # m
      <4>. SUFFICES ASSUME p = m PROVE FALSE
        OBVIOUS
      <4>1. q \in w.seen
        BY <2>1, <2>3, <2>7
      <4>2. q \in Nat /\ Passes(o, q) /\ q + cells[q].rec_len <= m
        BY <4>1 DEF Ordered, m
      <4>3. cells[q].rec_len \in Nat
        BY <4>2, PassesIs
      <4>. QED  BY <2>1, <2>7, <4>2, <4>3
    <3>2. p \in w.seen
      BY <2>3, <3>1
    <3>3. CASE q = m
      BY <3>2, <3>3 DEF Ordered, m
    <3>4. CASE q # m
      <4>1. q \in w.seen
        BY <2>3, <3>4
      <4>. QED  BY <2>7, <3>2, <4>1 DEF Ordered
    <3>. QED  BY <3>3, <3>4
  <2>. QED  BY <2>2, <2>5, <2>6, <2>7 DEF Ordered
<1>. QED  BY <1>1, <1>2

\* Every walk is so.
LEMMA WalkOrdered ==
  ASSUME Walked, NEW o \in Nat
  PROVE  Walk(o) \in Walks /\ Ordered(o, Walk(o))
<1>1. PICK f \in [0 .. Block -> Walks] :
        /\ f[0] = [next |-> o, seen |-> {}]
        /\ \A k \in 1 .. Block : f[k] = Onward(o, f[k - 1])
        /\ Walk(o) = f[Block]
  BY WalkRuns
<1>2. Block \in Nat
  BY SizesAre
<1>. DEFINE G == {k \in 0 .. Block : Ordered(o, f[k])}
<1>3. 0 \in G
  BY <1>1, <1>2 DEF Ordered
<1>4. \A k \in 0 .. Block - 1 : k \in G => k + 1 \in G
  <2>. SUFFICES ASSUME NEW k \in 0 .. Block - 1, Ordered(o, f[k]) PROVE Ordered(o, f[k + 1])
    BY <1>2
  <2>1. k + 1 \in 1 .. Block /\ k + 1 - 1 = k /\ k \in 0 .. Block
    BY <1>2
  <2>2. f[k + 1] = Onward(o, f[k]) /\ f[k] \in Walks
    BY <1>1, <2>1
  <2>. QED  BY <2>2, OnwardOrdered
<1>5. \A k \in 0 .. Block : k \in G
  <2>. HIDE DEF G
  <2>. QED  BY <1>2, <1>3, <1>4, BoundedInduction
<1>6. Block \in 0 .. Block
  BY <1>2
<1>. QED  BY <1>1, <1>5, <1>6

\* In a block that is tiled by the records at T ...
Tiles(T, o) ==
  /\ o \in T
  /\ \A p \in T : p \in Nat
  /\ \A p \in T : o <= p /\ p < o + Block =>
       /\ Passes(o, p)
       /\ p + cells[p].rec_len \in T \/ p + cells[p].rec_len = o + Block
       /\ \A q \in T : p < q => p + cells[p].rec_len <= q

Along(T, o, w) ==
  /\ w.next = o + Block \/ w.next \in T
  /\ o <= w.next /\ w.next <= o + Block
  /\ w.seen = {p \in T : o <= p /\ p < w.next}
  /\ w.next = o \/ \E z \in w.seen : z + cells[z].rec_len = w.next

\* ... the walk goes from one to the next ...
LEMMA OnwardAlong ==
  ASSUME Walked, NEW o \in Nat, NEW T, Tiles(T, o), NEW w \in Walks, Along(T, o, w)
  PROVE  /\ Along(T, o, Onward(o, w))
         /\ Onward(o, w).next > w.next \/ w.next = o + Block
<1>. DEFINE m == w.next
<1>0. m \in Nat /\ Block \in Nat /\ w.seen = {p \in T : o <= p /\ p < m} /\ o <= m /\ m <= o + Block
  BY SizesAre DEF Walks, Along
<1>1. CASE m = o + Block
  <2>1. ~Passes(o, m)
    <3>. SUFFICES ASSUME Passes(o, m) PROVE FALSE
      OBVIOUS
    <3>. QED  BY <1>0, <1>1, PassesIs
  <2>. QED  BY <1>1, <2>1 DEF Onward
<1>2. CASE m # o + Block
  <2>1. m \in T /\ m < o + Block
    BY <1>0, <1>2 DEF Along
  <2>. DEFINE l == cells[m].rec_len
  <2>2. /\ Passes(o, m) /\ (m + l \in T \/ m + l = o + Block)
        /\ \A q \in T : m < q => m + l <= q
    BY <1>0, <2>1 DEF Tiles
  <2>3. l \in Nat /\ l > 0 /\ m + l <= o + Block
    BY <1>0, <2>2, PassesIs
  <2>4. PICK v : v = Onward(o, w)
    OBVIOUS
  <2>5. v.next = m + l /\ v.seen = w.seen \cup {m}
    BY <2>2, <2>4 DEF Onward
  <2>6. m \in v.seen /\ m + cells[m].rec_len = v.next
    BY <2>5
  <2>. HIDE DEF l, m
  <2>7. \A p \in T : p \in Nat
    BY DEF Tiles
  <2>8. v.seen = {p \in T : o <= p /\ p < v.next}
    <3>1. ASSUME NEW p \in T, o <= p, p < m + l, p # m PROVE p < m
      BY <1>0, <2>2, <2>3, <2>7, <3>1
    <3>2. ASSUME NEW p \in T, p < m PROVE p < m + l
      BY <1>0, <2>3, <2>7, <3>2
    <3>3. o <= m /\ m < m + l
      BY <1>0, <2>3
    <3>. QED  BY <1>0, <2>1, <2>5, <3>1, <3>2, <3>3
  <2>9. /\ v.next = o + Block \/ v.next \in T
        /\ o <= v.next /\ v.next <= o + Block /\ v.next > m
    BY <1>0, <2>2, <2>3, <2>5
  <2>10. \E z \in v.seen : z + cells[z].rec_len = v.next
    BY <2>6
  <2>. QED  BY <2>4, <2>8, <2>9, <2>10 DEF Along, m
<1>. QED  BY <1>1, <1>2

\* ... and comes to its end.
LEMMA WalkTiles ==
  ASSUME Walked, NEW o \in Nat, NEW T, Tiles(T, o)
  PROVE  /\ Walk(o).next = o + Block
         /\ Walk(o).seen = {p \in T : o <= p /\ p < o + Block}
         /\ \E z \in Walk(o).seen : z + cells[z].rec_len = o + Block
<1>1. PICK f \in [0 .. Block -> Walks] :
        /\ f[0] = [next |-> o, seen |-> {}]
        /\ \A k \in 1 .. Block : f[k] = Onward(o, f[k - 1])
        /\ Walk(o) = f[Block]
  BY WalkRuns
<1>2. Block \in Nat /\ Block > 0
  BY SizesAre
<1>. DEFINE G == {k \in 0 .. Block : Along(T, o, f[k]) /\ (f[k].next >= o + k \/ f[k].next = o + Block)}
<1>3. 0 \in G
  <2>1. f[0].next = o /\ f[0].seen = {} /\ o \in T
    BY <1>1 DEF Tiles
  <2>2. {p \in T : o <= p /\ p < o} = {}
    <3>1. \A p \in T : p \in Nat
      BY DEF Tiles
    <3>2. \A p \in T : ~(o <= p /\ p < o)
      BY <3>1
    <3>. QED  BY <3>2
  <2>3. Along(T, o, f[0])
    BY <1>2, <2>1, <2>2 DEF Along
  <2>. QED  BY <1>2, <2>1, <2>3
<1>4. \A k \in 0 .. Block - 1 : k \in G => k + 1 \in G
  <2>. SUFFICES ASSUME NEW k \in 0 .. Block - 1, Along(T, o, f[k]), f[k].next >= o + k \/ f[k].next = o + Block
                PROVE  Along(T, o, f[k + 1]) /\ (f[k + 1].next >= o + (k + 1) \/ f[k + 1].next = o + Block)
    BY <1>2
  <2>1. k + 1 \in 1 .. Block /\ k + 1 - 1 = k /\ k \in 0 .. Block /\ k + 1 \in 0 .. Block
    BY <1>2
  <2>2. f[k + 1] = Onward(o, f[k]) /\ f[k] \in Walks /\ f[k + 1] \in Walks
    BY <1>1, <2>1
  <2>3. Along(T, o, f[k + 1]) /\ (f[k + 1].next > f[k].next \/ f[k].next = o + Block)
    BY <2>2, OnwardAlong
  <2>4. f[k].next \in Nat /\ f[k + 1].next \in Nat /\ f[k + 1].next <= o + Block
    BY <2>2, <2>3 DEF Walks, Along
  <2>5. f[k + 1].next >= f[k].next
    <3>1. CASE Passes(o, f[k].next)
      <4>1. f[k + 1].next = f[k].next + cells[f[k].next].rec_len
        BY <2>2, <3>1 DEF Onward
      <4>2. cells[f[k].next].rec_len \in Nat
        BY <2>4, <3>1, PassesIs
      <4>. QED  BY <2>4, <4>1, <4>2
    <3>2. CASE ~Passes(o, f[k].next)
      BY <2>2, <2>4, <3>2 DEF Onward
    <3>. QED  BY <3>1, <3>2
  <2>6. CASE f[k].next = o + Block
    BY <1>2, <2>3, <2>4, <2>5, <2>6
  <2>7. CASE f[k].next # o + Block
    BY <2>3, <2>4, <2>7
  <2>. QED  BY <2>6, <2>7
<1>5. \A k \in 0 .. Block : k \in G
  <2>. HIDE DEF G
  <2>. QED  BY <1>2, <1>3, <1>4, BoundedInduction
<1>6. Along(T, o, Walk(o)) /\ Walk(o).next = o + Block
  <2>1. Block \in 0 .. Block
    BY <1>2
  <2>2. Along(T, o, f[Block]) /\ (f[Block].next >= o + Block \/ f[Block].next = o + Block) /\ f[Block] \in Walks
    BY <1>1, <1>5, <2>1
  <2>3. f[Block].next \in Nat /\ f[Block].next <= o + Block
    BY <2>2 DEF Walks, Along
  <2>. DEFINE z == f[Block].next
  <2>4. z \in Nat /\ z <= o + Block /\ (z >= o + Block \/ z = o + Block)
    BY <2>2, <2>3
  <2>. HIDE DEF z
  <2>5. z = o + Block
    BY <1>2, <2>4
  <2>. QED  BY <1>1, <2>2, <2>5 DEF z
<1>7. Walk(o).next # o
  BY <1>2, <1>6
<1>. QED  BY <1>6, <1>7 DEF Along

(***************************************************************************)
(* The invariant.  T is the set of the places of the records.              *)
(***************************************************************************)

\* A record that is to be written, and the record at p as it will be.
Half   == IF pending = None THEN {} ELSE {pending.at}
Eff(p) == IF p \in Half THEN pending.rec ELSE cells[p]
End(p) == p + Eff(p).rec_len
Done(T) == T \ Half

\* The records tile the directory's blocks, and each that has been written was
\* written inside its block.
Lies(T) ==
  /\ \A p \in T : /\ p \in Nat /\ Eff(p) \in Records /\ Base(p) < size
                  /\ End(p) <= Base(p) + Block
                  /\ End(p) \in T \/ End(p) = Base(p) + Block
  /\ \A p, q \in T : p < q => End(p) <= q
  /\ DirBlocks \subseteq T /\ Half \subseteq T /\ Half \cap DirBlocks = {}
  /\ \A p \in Done(T) : p + Full <= size /\ p + Full <= Base(p) + Block

\* A live record has room for its name, and holds it.
Holds(p) ==
  /\ Size[cells[p].name] <= cells[p].rec_len
  /\ \A q \in p + 1 .. p + Size[cells[p].name] - 1 : cells[q] = Text(cells[p].name)

Fits(T) ==
  /\ \A p \in Done(T) : Live(p) => Holds(p)
  /\ pending # None =>
       /\ Size[pending.rec.name] <= pending.rec.rec_len /\ pending.rec.inum # 0
       /\ listed[pending.rec.name] = 0

\* The live records are the names that were added and not removed.
Lists(T) ==
  /\ \A p, q \in Done(T) : Live(p) /\ Live(q) /\ cells[p].name = cells[q].name => p = q
  /\ \A p \in Done(T) : Live(p) => listed[cells[p].name] = cells[p].inum
  /\ \A n \in Names : listed[n] # 0 => \E p \in Done(T) : Live(p) /\ cells[p].name = n

\* A lookup that may not answer that there is no such name has its record ahead.
Before(T, r) == \E p \in Done(T) : Live(p) /\ cells[p].name = reader[r].name /\ reader[r].blk * Block <= p
Ahead(T) ==
  \A r \in Readers : reader[r].blk >= 0 /\ ~reader[r].raced /\ 0 \notin reader[r].may => Before(T, r)

Good(T) == Lies(T) /\ Fits(T) /\ Lists(T) /\ Ahead(T)

\* What a running lookup may answer includes what its name stands for now.
Asks ==
  \A r \in Readers : reader[r].blk >= 0 => reader[r].name \in Names /\ listed[reader[r].name] \in reader[r].may

\* No record begins behind the last block.
Places ==
  /\ \A q \in Where : cells[q].kind = "rec" => q < MaxBlocks * Block
  /\ pending # None => pending.at < MaxBlocks * Block

Sane == DirTypeOK /\ Asks /\ Places
DirInv == Sane /\ (WithinLimits => \E T : Good(T))

(***************************************************************************)
(* What the invariant says of the walks.                                   *)
(***************************************************************************)

\* A set of numbers has a first one.
LEMMA FirstIs ==
  ASSUME NEW S \in SUBSET Nat
  PROVE  /\ First(S) \subseteq S
         /\ \A x, y \in First(S) : x = y
         /\ S # {} => First(S) # {}
         /\ First(S) = {} => S = {}
<1>1. First(S) \subseteq S
  BY DEF First
<1>2. \A x, y \in First(S) : x = y
  <2>. SUFFICES ASSUME NEW x \in First(S), NEW y \in First(S) PROVE x = y
    OBVIOUS
  <2>1. x \in Nat /\ y \in Nat /\ x <= y /\ y <= x
    BY DEF First
  <2>. QED  BY <2>1
<1>3. ASSUME S # {} PROVE First(S) # {}
  <2>1. PICK s \in S : TRUE
    BY <1>3
  <2>. DEFINE G == {k \in 0 .. s : \E x \in S : x <= k}
              NoFirst == \A x \in S : \E z \in S : z < x
  <2>2. SUFFICES ASSUME NoFirst PROVE FALSE
    <3>. SUFFICES ASSUME First(S) = {} PROVE NoFirst
      OBVIOUS
    <3>. SUFFICES ASSUME NEW x \in S PROVE \E z \in S : z < x
      OBVIOUS
    <3>1. PICK z \in S : ~(x <= z)
      BY DEF First
    <3>. QED  BY <3>1
  <2>. DEFINE H == {k \in 0 .. s : \A x \in S : x > k}
  <2>3. 0 \in H
    <3>. SUFFICES ASSUME NEW x \in S PROVE x > 0
      BY <2>1
    <3>1. PICK z \in S : z < x
      BY <2>2
    <3>. QED  BY <3>1
  <2>4. \A k \in 0 .. s - 1 : k \in H => k + 1 \in H
    <3>. SUFFICES ASSUME NEW k \in 0 .. s - 1, \A x \in S : x > k, NEW x \in S PROVE x > k + 1
      BY <2>1
    <3>1. PICK z \in S : z < x
      BY <2>2
    <3>2. z > k
      OBVIOUS
    <3>. QED  BY <3>1, <3>2
  <2>5. \A k \in 0 .. s : k \in H
    <3>. HIDE DEF H
    <3>. QED  BY <2>1, <2>3, <2>4, BoundedInduction
  <2>6. s \in H
    BY <2>1, <2>5
  <2>. QED  BY <2>1, <2>6
<1>. QED  BY <1>1, <1>2, <1>3

\* The blocks of the directory.
LEMMA DirBlockIs ==
  ASSUME NEW o \in DirBlocks
  PROVE  /\ o \in Nat /\ o < size /\ Base(o) = o
         /\ \E k \in 0 .. MaxBlocks : o = k * Block
<1>1. PICK k \in 0 .. MaxBlocks : o = k * Block
  BY DEF DirBlocks
<1>2. k \in Nat
  OBVIOUS
<1>3. k * Block \in Nat /\ Block > 0 /\ Block \in Nat
  BY <1>2, BlocksApart, SizesAre
<1>4. k * Block <= o /\ o < k * Block + Block
  BY <1>1, <1>3
<1>5. Base(o) = k * Block
  BY <1>1, <1>2, <1>3, <1>4, BaseOf
<1>. QED  BY <1>1, <1>3, <1>5 DEF DirBlocks

\* A position inside the directory lies in one of them.
LEMMA BaseInDir ==
  ASSUME size \in 0 .. Top, NEW p \in Nat, Base(p) < size
  PROVE  Base(p) \in DirBlocks
<1>. DEFINE k == p \div Block
<1>1. k \in Nat /\ Base(p) = k * Block
  BY BaseIs DEF Base
<1>. HIDE DEF k
<1>2. Block \in Nat /\ Full <= Block /\ Full \in Nat /\ Top = MaxBlocks * Block + Full /\ MaxBlocks \in Nat /\ MaxBlocks * Block \in Nat
  BY SizesAre
<1>3. k <= MaxBlocks
  <2>. SUFFICES ASSUME MaxBlocks < k PROVE FALSE
    BY <1>1, <1>2
  <2>1. MaxBlocks * Block + Block <= k * Block /\ k * Block \in Nat
    BY <1>1, <1>2, BlocksApart
  <2>. QED  BY <1>1, <1>2, <2>1
<1>. QED  BY <1>1, <1>2, <1>3 DEF DirBlocks

\* p lies in the block that begins at o.
LEMMA InBlock ==
  ASSUME NEW p \in Nat, NEW o \in DirBlocks, o <= p, p < o + Block
  PROVE  Base(p) = o
<1>1. PICK k \in 0 .. MaxBlocks : o = k * Block
  BY DirBlockIs
<1>2. k \in Nat
  OBVIOUS
<1>. QED  BY <1>1, <1>2, BaseOf

\* A walk that meets no record which is still to be written meets all those of
\* its block.
LEMMA QuietBlock ==
  ASSUME DirTypeOK, NEW T, Good(T), NEW o \in DirBlocks, \A p \in Half : ~(o <= p /\ p < o + Block)
  PROVE  /\ Walk(o).next = o + Block
         /\ Walk(o).seen = {p \in T : o <= p /\ p < o + Block}
         /\ Walk(o).seen \subseteq Done(T)
         /\ \E z \in Walk(o).seen : z + cells[z].rec_len = o + Block
<1>1. o \in Nat /\ o < size /\ size \in Nat /\ Block \in Nat /\ Block > 0 /\ Walked /\ Full \in Nat /\ Full > 0
  BY DirBlockIs, SizesAre DEF DirTypeOK, Walked
<1>2. Lies(T)
  BY DEF Good
<1>3. ASSUME NEW p \in T, o <= p, p < o + Block
      PROVE  /\ Passes(o, p)
             /\ p + cells[p].rec_len \in T \/ p + cells[p].rec_len = o + Block
             /\ \A q \in T : p < q => p + cells[p].rec_len <= q
  <2>1. p \notin Half /\ p \in Done(T) /\ p \in Nat
    BY <1>2, <1>3 DEF Done, Lies
  <2>2. Base(p) = o
    BY <1>3, <2>1, InBlock
  <2>3. Eff(p) = cells[p] /\ End(p) = p + cells[p].rec_len
    BY <2>1 DEF Eff, End
  <2>4. cells[p] \in Records /\ p + cells[p].rec_len <= o + Block /\ p + Full <= size
    BY <1>2, <2>1, <2>2, <2>3 DEF Lies
  <2>5. cells[p].kind = "rec" /\ cells[p].rec_len \in Nat
    BY <2>4 DEF Records
  <2>6. Passes(o, p)
    BY <1>1, <1>3, <2>1, <2>4, <2>5 DEF Passes, Got
  <2>. QED  BY <1>2, <2>2, <2>3, <2>6 DEF Lies
<1>4. o \in T /\ \A p \in T : p \in Nat
  BY <1>2 DEF Lies
<1>5. Tiles(T, o)
  BY <1>3, <1>4 DEF Tiles
<1>6. /\ Walk(o).next = o + Block
      /\ Walk(o).seen = {p \in T : o <= p /\ p < o + Block}
      /\ \E z \in Walk(o).seen : z + cells[z].rec_len = o + Block
  BY <1>1, <1>5, WalkTiles
<1>7. Walk(o).seen \subseteq Done(T)
  BY <1>6 DEF Done
<1>. QED  BY <1>6, <1>7

\* When no dir_add is half-way, the walks meet all records.
LEMMA QuietPassed ==
  ASSUME DirTypeOK, NEW T, Good(T), pending = None
  PROVE  Passed = T /\ Done(T) = T
<1>1. Half = {} /\ Done(T) = T
  BY DEF Half, Done
<1>2. ASSUME NEW o \in DirBlocks PROVE Walk(o).seen = {p \in T : o <= p /\ p < o + Block}
  BY <1>1, QuietBlock
<1>3. ASSUME NEW p \in T PROVE p \in Passed
  <2>1. p \in Nat /\ Base(p) < size
    BY DEF Good, Lies
  <2>2. Base(p) \in DirBlocks /\ Base(p) <= p /\ p < Base(p) + Block
    BY <2>1, BaseInDir, BaseIs DEF DirTypeOK
  <2>3. p \in Walk(Base(p)).seen
    BY <1>2, <2>2
  <2>. QED  BY <2>2, <2>3 DEF Passed
<1>4. ASSUME NEW p \in Passed PROVE p \in T
  <2>1. PICK o \in DirBlocks : p \in Walk(o).seen
    BY DEF Passed
  <2>. QED  BY <1>2, <2>1
<1>. QED  BY <1>1, <1>3, <1>4

\* A record that has been written is in the cells.
LEMMA DoneIs ==
  ASSUME DirTypeOK, NEW T, Good(T), NEW p \in Done(T)
  PROVE  /\ p \in Nat /\ cells[p] \in Records /\ cells[p].name \in Names /\ cells[p].inum \in Answers
         /\ cells[p].rec_len \in Nat /\ 1 <= cells[p].rec_len /\ cells[p].rec_len <= Block
         /\ Eff(p) = cells[p] /\ End(p) = p + cells[p].rec_len /\ p \in T /\ p \notin Half
<1>1. p \in T /\ p \notin Half /\ Eff(p) = cells[p] /\ End(p) = p + cells[p].rec_len
  BY DEF Done, Eff, End
<1>2. p \in Nat /\ cells[p] \in Records
  BY <1>1 DEF Good, Lies
<1>3. /\ cells[p].name \in Names /\ cells[p].inum \in Answers
      /\ cells[p].rec_len \in Nat /\ 1 <= cells[p].rec_len /\ cells[p].rec_len <= Block
  <2>1. cells[p] \in Cells
    BY <1>2 DEF Cells
  <2>. QED  BY <1>2, <2>1, CellIs
<1>. QED  BY <1>1, <1>2, <1>3

\* It is named n if it is live and n is its name.
LEMMA NamedIs ==
  ASSUME DirTypeOK, NEW T, Good(T), NEW p \in Done(T), NEW n \in Names
  PROVE  Named(p, n) <=> Live(p) /\ cells[p].name = n
<1>. DEFINE m == cells[p].name
<1>1. p \in Nat /\ m \in Names /\ Size[m] \in Nat /\ Size[m] >= 2 /\ Size[n] \in Nat /\ Size[n] >= 2
  BY DoneIs, SizesAre
<1>2. Live(p) => \A q \in p + 1 .. p + Size[m] - 1 : cells[q] = Text(m)
  BY DEF Good, Fits, Holds
<1>3. Live(p) /\ m = n => Named(p, n)
  BY <1>2 DEF Named
<1>4. ASSUME Named(p, n) PROVE Live(p) /\ m = n
  <2>1. Live(p) /\ Size[m] = Size[n] /\ \A q \in p + 1 .. p + Size[n] - 1 : cells[q] = Text(n)
    BY <1>4 DEF Named
  <2>. HIDE DEF m
  <2>2. p + 1 \in p + 1 .. p + Size[m] - 1 /\ p + 1 \in p + 1 .. p + Size[n] - 1
    BY <1>1
  <2>3. Text(m) = Text(n)
    BY <1>2, <2>1, <2>2
  <2>. QED  BY <2>1, <2>3 DEF Text
<1>. QED  BY <1>3, <1>4

\* Then a lookup finds what is listed, and each name at one place.
LEMMA QuietLookup ==
  ASSUME DirTypeOK, NEW T, Good(T), pending = None, NEW n \in Names
  PROVE  /\ Lookup(n) = listed[n]
         /\ Found(n) = {p \in T : Live(p) /\ cells[p].name = n}
         /\ Reported(n) = Found(n)
         /\ \A x, y \in Found(n) : x = y
         /\ Found(n) = {} <=> listed[n] = 0
         /\ \A p \in Found(n) : listed[n] = cells[p].inum
<1>. DEFINE S == {p \in T : Live(p) /\ cells[p].name = n}
<1>1. Passed = T /\ Done(T) = T
  BY QuietPassed
<1>2. {p \in Passed : Named(p, n)} = S
  BY <1>1, NamedIs
<1>3. \A x, y \in S : x = y
  BY <1>1 DEF Good, Lists
<1>4. \A x \in S : x \in Nat /\ listed[n] = cells[x].inum /\ cells[x].inum # 0
  BY <1>1 DEF Good, Lists, Lies, Live
<1>5. listed[n] # 0 => S # {}
  BY <1>1 DEF Good, Lists
<1>. HIDE DEF S
<1>6. Found(n) = S
  <2>1. S \in SUBSET Nat
    BY <1>4
  <2>2. \A x \in S : \A z \in S : x <= z
    <3>. SUFFICES ASSUME NEW x \in S, NEW z \in S PROVE x <= z
      OBVIOUS
    <3>1. x = z /\ x \in Nat
      BY <1>3, <2>1
    <3>. QED  BY <3>1
  <2>3. First(S) = S
    BY <2>2 DEF First
  <2>. QED  BY <1>2, <2>3 DEF Found
<1>7. Reported(n) = S
  BY <1>2 DEF Reported
<1>8. Lookup(n) = listed[n]
  BY <1>4, <1>5, <1>6 DEF Lookup
<1>9. S = {} <=> listed[n] = 0
  BY <1>4, <1>5
<1>. QED  BY <1>3, <1>4, <1>6, <1>7, <1>8, <1>9 DEF S

(***************************************************************************)
(* Types, and what holds across the limits too.                            *)
(***************************************************************************)

\* What a walk passes lies before the end of the last block.
LEMMA PassedIs ==
  ASSUME Sane, NEW o \in DirBlocks, NEW p \in Walk(o).seen
  PROVE  /\ p \in Nat /\ p \in Where /\ p < MaxBlocks * Block /\ Base(p) = o
         /\ o <= p /\ p < o + Block /\ o + Block <= MaxBlocks * Block
         /\ cells[p] \in Records /\ cells[p].name \in Names /\ cells[p].inum \in Answers
         /\ cells[p].rec_len \in Nat /\ 1 <= cells[p].rec_len /\ p + cells[p].rec_len <= o + Block
<1>1. Walked /\ o \in Nat
  BY DirBlockIs DEF Sane, DirTypeOK, Walked
<1>2. p \in Nat /\ o <= p /\ Passes(o, p)
  BY <1>1, WalkOrdered DEF Ordered
<1>3. /\ p \in Where /\ p < o + Block /\ cells[p] \in Records /\ cells[p].rec_len \in Nat
      /\ cells[p].rec_len > 0 /\ p + cells[p].rec_len <= o + Block
  BY <1>1, <1>2, PassesIs
<1>4. Base(p) = o
  BY <1>2, <1>3, InBlock
<1>5. cells[p].name \in Names /\ cells[p].inum \in Answers /\ 1 <= cells[p].rec_len /\ cells[p].kind = "rec"
  BY <1>3, CellIs DEF Cells
<1>6. p < MaxBlocks * Block
  BY <1>3, <1>5 DEF Sane, Places
<1>7. o + Block <= MaxBlocks * Block
  <2>1. PICK k \in 0 .. MaxBlocks : o = k * Block
    BY DirBlockIs
  <2>2. k \in Nat /\ MaxBlocks \in Nat
    OBVIOUS
  <2>3. k = MaxBlocks \/ k < MaxBlocks
    BY <2>2
  <2>4. k # MaxBlocks
    <3>. SUFFICES ASSUME k = MaxBlocks PROVE FALSE
      OBVIOUS
    <3>1. o = MaxBlocks * Block
      BY <2>1
    <3>. QED  BY <1>1, <1>2, <1>6, <3>1
  <2>. QED  BY <2>1, <2>2, <2>3, <2>4, BlocksApart
<1>. QED  BY <1>2, <1>3, <1>4, <1>5, <1>6, <1>7

\* Writing moves the end of the directory inside what is modelled.
LEMMA GrownIs ==
  ASSUME size \in 0 .. Top, NEW p \in Nat, p <= MaxBlocks * Block
  PROVE  /\ p \in Where /\ Grown(p) \in 0 .. Top /\ size <= Grown(p) /\ p + Full <= Grown(p)
         /\ p + Full <= Top
         /\ p + Full <= size => Grown(p) = size
<1>1. Full \in Nat /\ Full > 0 /\ MaxBlocks * Block \in Nat /\ Top = MaxBlocks * Block + Full
  BY SizesAre
<1>. QED  BY <1>1 DEF Grown, Where

\* What the two kinds of write leave in the cells.
LEMMA ImageIs ==
  ASSUME cells \in [Where -> Cells], NEW p \in Nat, NEW r \in Records
  PROVE  /\ Image(cells, p, r) \in [Where -> Cells]
         /\ \A q \in Where : Image(cells, p, r)[q].kind = "rec" => q = p \/ cells[q].kind = "rec"
<1>1. ASSUME NEW q \in Where
      PROVE  /\ Image(cells, p, r)[q] \in Cells
             /\ Image(cells, p, r)[q].kind = "rec" => q = p \/ cells[q].kind = "rec"
  <2>. DEFINE x == Image(cells, p, r)[q]
  <2>1. r.name \in Names
    BY DEF Records
  <2>2. \/ x = cells[q] \/ (x = r /\ q = p) \/ x = Text(r.name) \/ x = Zero
    BY DEF Image
  <2>3. cells[q] \in Cells /\ r \in Cells /\ Text(r.name) \in Cells /\ Zero \in Cells
    BY <2>1 DEF Cells
  <2>4. Text(r.name).kind # "rec" /\ Zero.kind # "rec"
    BY DEF Text, Zero
  <2>. HIDE DEF x
  <2>5. x \in Cells /\ (x.kind = "rec" => q = p \/ cells[q].kind = "rec")
    BY <2>2, <2>3, <2>4
  <2>. QED  BY <2>5 DEF x
<1>2. Image(cells, p, r) = [q \in Where |-> Image(cells, p, r)[q]]
  BY DEF Image
<1>. QED  BY <1>1, <1>2

\* The record that is written back is as it was, with another length.
LEMMA RewrittenIs ==
  ASSUME cells \in [Where -> Cells], NEW p \in Where, cells[p] \in Records, NEW l \in 1 .. Block
  PROVE  /\ Rewritten(cells, p, l) \in [Where -> Cells]
         /\ Rewritten(cells, p, l)[p] = [cells[p] EXCEPT !.rec_len = l]
         /\ Rewritten(cells, p, l)[p] \in Records
         /\ \A q \in Where : Rewritten(cells, p, l)[q].kind = "rec" => q = p \/ cells[q].kind = "rec"
<1>1. [cells[p] EXCEPT !.rec_len = l] \in Records
  BY DEF Records
<1>2. ASSUME NEW q \in Where
      PROVE  /\ Rewritten(cells, p, l)[q] \in Cells
             /\ Rewritten(cells, p, l)[q].kind = "rec" => q = p \/ cells[q].kind = "rec"
  <2>. DEFINE x == Rewritten(cells, p, l)[q]
              y == [cells[p] EXCEPT !.rec_len = l]
  <2>1. x = cells[q] \/ (x = y /\ q = p) \/ x = Junk
    BY DEF Rewritten
  <2>2. cells[q] \in Cells /\ y \in Cells /\ Junk \in Cells /\ Junk.kind # "rec"
    BY <1>1 DEF Cells, Junk
  <2>. HIDE DEF x, y
  <2>3. x \in Cells /\ (x.kind = "rec" => q = p \/ cells[q].kind = "rec")
    BY <2>1, <2>2
  <2>. QED  BY <2>3 DEF x
<1>3. Rewritten(cells, p, l) = [q \in Where |-> Rewritten(cells, p, l)[q]]
  BY DEF Rewritten
<1>4. Rewritten(cells, p, l)[p] = [cells[p] EXCEPT !.rec_len = l]
  BY DEF Rewritten
<1>. QED  BY <1>1, <1>2, <1>3, <1>4

\* Running lookups take notice of a change; nothing else of them changes.
LEMMA ListIs ==
  ASSUME Sane, NEW n \in Names, NEW i \in Answers, List(n, i)
  PROVE  /\ listed' \in [Names -> Answers] /\ listed'[n] = i
         /\ \A m \in Names : m # n => listed'[m] = listed[m]
         /\ reader' \in [Readers -> Lookups] /\ Asks'
         /\ \A r \in Readers : /\ reader'[r].blk = reader[r].blk /\ reader'[r].name = reader[r].name
                               /\ reader'[r].raced = reader[r].raced
                               /\ reader[r].may \subseteq reader'[r].may
<1>1. listed' \in [Names -> Answers] /\ listed'[n] = i /\ \A m \in Names : m # n => listed'[m] = listed[m]
  BY DEF Sane, DirTypeOK, List
<1>. DEFINE N(r) == IF reader[r].blk < 0 THEN reader[r]
                    ELSE [reader[r] EXCEPT !.may = @ \cup {listed'[reader[r].name]}]
<1>2. reader' = [r \in Readers |-> N(r)]
  BY DEF List, Notice
<1>3. ASSUME NEW r \in Readers
      PROVE  /\ N(r) \in Lookups
             /\ N(r).blk = reader[r].blk /\ N(r).name = reader[r].name /\ N(r).raced = reader[r].raced
             /\ reader[r].may \subseteq N(r).may
             /\ N(r).blk >= 0 => N(r).name \in Names /\ listed'[N(r).name] \in N(r).may
  <2>1. reader[r] \in Lookups
    BY DEF Sane, DirTypeOK
  <2>2. reader[r].blk \in Int
    <3>1. reader[r].blk \in -1 .. MaxBlocks + 1
      BY <2>1 DEF Lookups
    <3>. QED  BY <3>1
  <2>3. CASE reader[r].blk < 0
    <3>1. N(r) = reader[r]
      BY <2>3
    <3>. HIDE DEF N
    <3>2. ~(reader[r].blk >= 0)
      BY <2>2, <2>3
    <3>. QED  BY <2>1, <3>1, <3>2
  <2>4. CASE ~(reader[r].blk < 0)
    <3>1. reader[r].name \in Names /\ listed'[reader[r].name] \in Answers
      BY <1>1, <2>2, <2>4 DEF Sane, Asks
    <3>2. PICK v : v = reader[r].may \cup {listed'[reader[r].name]}
      OBVIOUS
    <3>3. v \in SUBSET Answers /\ reader[r].may \subseteq v /\ listed'[reader[r].name] \in v
      BY <2>1, <3>1, <3>2 DEF Lookups
    <3>4. N(r) = [reader[r] EXCEPT !.may = v]
      BY <2>4, <3>2
    <3>. HIDE DEF N
    <3>5. /\ N(r) \in Lookups /\ N(r).blk = reader[r].blk /\ N(r).name = reader[r].name
          /\ N(r).raced = reader[r].raced /\ N(r).may = v
      BY <2>1, <3>3, <3>4 DEF Lookups
    <3>. QED  BY <3>1, <3>3, <3>5
  <2>. QED  BY <2>3, <2>4
<1>. HIDE DEF N
<1>4. reader' \in [Readers -> Lookups]
  BY <1>2, <1>3
<1>5. \A r \in Readers : reader'[r] = N(r)
  BY <1>2
<1>6. Asks'
  BY <1>3, <1>5 DEF Asks
<1>. QED  BY <1>1, <1>3, <1>4, <1>5, <1>6

\* A new record is put where one may begin.
LEMMA PutSane ==
  ASSUME Sane, NEW p \in Nat, p < MaxBlocks * Block, NEW r \in Records, PutRecord(p, r), pending' = None
  PROVE  Sane'
<1>1. r.name \in Names /\ r.inum \in Answers
  BY DEF Records, Answers
<1>2. List(r.name, r.inum) /\ cells' = Image(cells, p, r) /\ size' = Grown(p)
  BY DEF PutRecord
<1>3. listed' \in [Names -> Answers] /\ reader' \in [Readers -> Lookups] /\ Asks'
  BY <1>1, <1>2, ListIs
<1>4. cells \in [Where -> Cells] /\ size \in 0 .. Top /\ crossed \subseteq Limits
  BY DEF Sane, DirTypeOK
<1>5. cells' \in [Where -> Cells] /\ \A q \in Where : cells'[q].kind = "rec" => q = p \/ cells[q].kind = "rec"
  BY <1>2, <1>4, ImageIs
<1>6. size' \in 0 .. Top
  BY <1>2, <1>4, GrownIs, SizesAre
<1>7. crossed' \subseteq Limits
  BY <1>4 DEF PutRecord, Cross, Clobbers, Spills, Limits
<1>8. Places'
  BY <1>5 DEF Sane, Places
<1>. QED  BY <1>3, <1>5, <1>6, <1>7, <1>8 DEF Sane, DirTypeOK

\* A record that the walk passes is written back.
LEMMA RewriteSane ==
  ASSUME Sane, NEW p \in Where, cells[p] \in Records, p < MaxBlocks * Block, NEW l \in 1 .. Block,
         cells' = Rewritten(cells, p, l) \/ cells' = [Rewritten(cells, p, l) EXCEPT ![p].inum = 0],
         size' = Grown(p)
  PROVE  /\ cells' \in [Where -> Cells] /\ size' \in 0 .. Top
         /\ \A q \in Where : cells'[q].kind = "rec" => q < MaxBlocks * Block
<1>1. cells \in [Where -> Cells] /\ size \in 0 .. Top /\ p \in Nat
  BY SizesAre DEF Sane, DirTypeOK, Where
<1>2. size' \in 0 .. Top
  BY <1>1, GrownIs, SizesAre
<1>3. PICK c : c = Rewritten(cells, p, l)
  OBVIOUS
<1>4. /\ c \in [Where -> Cells] /\ c[p] \in Records
      /\ \A q \in Where : c[q].kind = "rec" => q = p \/ cells[q].kind = "rec"
  <2>. DEFINE d == Rewritten(cells, p, l)
  <2>1. /\ d \in [Where -> Cells] /\ d[p] \in Records
        /\ \A q \in Where : d[q].kind = "rec" => q = p \/ cells[q].kind = "rec"
    BY <1>1, RewrittenIs
  <2>2. c = d
    BY <1>3
  <2>. HIDE DEF d
  <2>. QED  BY <2>1, <2>2
<1>5. [c[p] EXCEPT !.inum = 0] \in Records
  BY <1>4 DEF Records
<1>6. cells' = c \/ cells' = [c EXCEPT ![p] = [c[p] EXCEPT !.inum = 0]]
  BY <1>3
<1>7. [c EXCEPT ![p] = [c[p] EXCEPT !.inum = 0]] \in [Where -> Cells]
  BY <1>4, <1>5 DEF Cells
<1>8. cells' \in [Where -> Cells] /\ \A q \in Where : q # p => cells'[q] = c[q]
  BY <1>4, <1>6, <1>7
<1>9. \A q \in Where : cells'[q].kind = "rec" => q < MaxBlocks * Block
  BY <1>4, <1>8 DEF Sane, Places
<1>. QED  BY <1>2, <1>8, <1>9

\* What dir_add finds room in was passed by the walk of
\* its block.
LEMMA RoomPassed ==
  ASSUME Sane, NEW n \in Names, NEW p \in Room(n)
  PROVE  (\E o \in DirBlocks : p \in Walk(o).seen) /\ p \in Passed /\ Space(p) >= Size[n]
<1>1. p \in Passed /\ Space(p) >= Size[n]
  BY DEF Room, First
<1>. QED  BY <1>1 DEF Passed

\* The same of what dir_remove finds.
LEMMA FoundPassed ==
  ASSUME Sane, NEW n \in Names, NEW p \in Found(n)
  PROVE  (\E o \in DirBlocks : p \in Walk(o).seen) /\ p \in Passed /\ Named(p, n)
<1>1. p \in Passed /\ Named(p, n)
  BY DEF Found, First
<1>. QED  BY <1>1 DEF Passed

\* The record that takes over what is removed lies before it in the same block.
LEMMA PrevIs ==
  ASSUME Sane, NEW o \in DirBlocks, NEW p \in Walk(o).seen, NEW q \in Prev(p)
  PROVE  /\ q \in Walk(o).seen /\ q < p /\ Live(q)
         /\ Merged(q, p) \in 1 .. Block /\ cells[q].rec_len <= Merged(q, p) /\ q + cells[q].rec_len <= p
<1>1. Base(p) = o
  BY PassedIs
<1>2. q \in Walk(o).seen /\ q < p /\ Live(q)
  BY <1>1 DEF Prev, Base
<1>3. Walked /\ o \in Nat /\ Block \in Nat
  BY DirBlockIs, SizesAre DEF Sane, DirTypeOK, Walked
<1>4. q + cells[q].rec_len <= p
  BY <1>2, <1>3, WalkOrdered DEF Ordered
<1>5. /\ q \in Nat /\ o <= q /\ cells[q].rec_len \in Nat /\ 1 <= cells[q].rec_len
      /\ p \in Nat /\ cells[p].rec_len \in Nat /\ 1 <= cells[p].rec_len /\ p + cells[p].rec_len <= o + Block
  BY <1>2, PassedIs
<1>6. Merged(q, p) \in 1 .. Block /\ cells[q].rec_len <= Merged(q, p)
  BY <1>3, <1>4, <1>5 DEF Merged
<1>. QED  BY <1>2, <1>4, <1>6

\* Each step of dir_add and dir_remove keeps the types: first, the split ...
LEMMA AddSplitSane ==
  ASSUME Sane, NEW n \in Names, NEW i \in Inums, AddSplit(n, i)
  PROVE  Sane'
<1>1. PICK p \in Room(n) :
        /\ Live(p)
        /\ cells' = Rewritten(cells, p, Actual(p)) /\ size' = Grown(p)
        /\ pending' = SplitOff(p, n, i)
        /\ Cross(Spills(p))
  BY DEF AddSplit
<1>2. PICK o \in DirBlocks : p \in Walk(o).seen
  BY RoomPassed
<1>3. /\ p \in Nat /\ p \in Where /\ p < MaxBlocks * Block
      /\ p < o + Block /\ o <= p /\ o + Block <= MaxBlocks * Block
      /\ cells[p] \in Records /\ cells[p].name \in Names
      /\ cells[p].rec_len \in Nat /\ p + cells[p].rec_len <= o + Block
  BY <1>2, PassedIs
<1>4. /\ Actual(p) \in Nat /\ 2 <= Actual(p) /\ Actual(p) <= Block
      /\ cells[p].rec_len - Actual(p) \in 1 .. Block
  <2>1. Space(p) >= Size[n]
    BY RoomPassed
  <2>2. cells[p].rec_len - Actual(p) >= Size[n]
    BY <1>1, <2>1 DEF Space
  <2>3. /\ Size[n] \in Nat /\ 2 <= Size[n] /\ Actual(p) \in Nat /\ 2 <= Actual(p) /\ Actual(p) <= Full
        /\ Full \in Nat /\ Full <= Block /\ Block \in Nat
    BY <1>3, SizesAre DEF Actual
  <2>4. o \in Nat
    BY DirBlockIs
  <2>. QED  BY <1>3, <2>2, <2>3, <2>4
<1>5. /\ cells' \in [Where -> Cells] /\ size' \in 0 .. Top
      /\ \A q \in Where : cells'[q].kind = "rec" => q < MaxBlocks * Block
  <2>1. Actual(p) \in 1 .. Block
    BY <1>4
  <2>. QED  BY <1>1, <1>3, <2>1, RewriteSane
<1>6. pending' \in [at : Where, rec : Records] /\ pending'.at < MaxBlocks * Block
  <2>1. o \in Nat /\ Block \in Nat /\ MaxBlocks * Block \in Nat /\ Full \in Nat
    BY DirBlockIs, SizesAre
  <2>2. p + Actual(p) < MaxBlocks * Block /\ p + Actual(p) \in Nat
    BY <1>3, <1>4, <2>1
  <2>3. p + Actual(p) \in Where
    BY <2>1, <2>2, SizesAre DEF Where
  <2>4. Rec(n, i, cells[p].rec_len - Actual(p)) \in Records
    BY <1>4 DEF Rec, Records
  <2>5. pending'.at = p + Actual(p) /\ pending'.rec = Rec(n, i, cells[p].rec_len - Actual(p))
    BY <1>1 DEF SplitOff
  <2>. QED  BY <1>1, <2>2, <2>3, <2>4, <2>5 DEF SplitOff
<1>7. crossed' \subseteq Limits
  BY <1>1 DEF Sane, DirTypeOK, Cross, Spills, Limits
<1>8. reader' = reader /\ listed' = listed
  BY DEF AddSplit
<1>. QED  BY <1>5, <1>6, <1>7, <1>8 DEF Sane, DirTypeOK, Asks, Places

\* The record that a split has still to write.
LEMMA PendingIs ==
  ASSUME Sane, pending # None
  PROVE  pending.at \in Nat /\ pending.at < MaxBlocks * Block /\ pending.rec \in Records
BY DEF Sane, DirTypeOK, Places, Where

\* ... its second write ...
LEMMA AddSecondSane ==
  ASSUME Sane, AddSecond
  PROVE  Sane'
BY PendingIs, PutSane DEF AddSecond

\* ... that one failing ...
LEMMA AddFaultSane ==
  ASSUME Sane, AddFault
  PROVE  Sane'
<1>1. crossed' \subseteq Limits
  BY DEF AddFault, Cross, Sane, DirTypeOK, Limits
<1>2. UNCHANGED <<cells, size, reader, listed>> /\ pending' = None
  BY DEF AddFault
<1>. QED  BY <1>1, <1>2 DEF Sane, DirTypeOK, Asks, Places

\* ... a removed record used again ...
LEMMA AddReuseSane ==
  ASSUME Sane, NEW n \in Names, NEW i \in Inums, AddReuse(n, i)
  PROVE  Sane'
<1>1. PICK p \in Room(n) : ~Live(p) /\ PutRecord(p, Rec(n, i, Space(p)))
  BY DEF AddReuse
<1>2. PICK o \in DirBlocks : p \in Walk(o).seen
  BY RoomPassed
<1>3. p \in Nat /\ p < MaxBlocks * Block /\ cells[p] \in Records
  BY <1>2, PassedIs
<1>4. Rec(n, i, Space(p)) \in Records
  BY <1>1, <1>3 DEF Rec, Records, Space
<1>5. pending' = None
  BY DEF AddReuse
<1>. QED  BY <1>1, <1>3, <1>4, <1>5, PutSane

\* ... a new block ...
LEMMA AddAppendSane ==
  ASSUME Sane, NEW n \in Names, NEW i \in Inums, AddAppend(n, i)
  PROVE  Sane'
<1>1. size \in Nat /\ size < MaxBlocks * Block
  <2>1. size \in Nat
    BY SizesAre DEF Sane, DirTypeOK
  <2>2. size <= (MaxBlocks - 1) * Block
    BY DEF AddAppend
  <2>. QED  BY <2>1, <2>2, SizesAre
<1>2. Rec(n, i, Block) \in Records
  BY SizesAre DEF Rec, Records
<1>3. PutRecord(size, Rec(n, i, Block)) /\ pending' = None
  BY DEF AddAppend
<1>. QED  BY <1>1, <1>2, <1>3, PutSane

\* ... a removal into the record before ...
LEMMA RemoveMergeSane ==
  ASSUME Sane, NEW n \in Names, RemoveMerge(n)
  PROVE  Sane'
<1>0. PICK p \in Found(n) : \E q \in Prev(p) :
        /\ cells' = Rewritten(cells, q, Merged(q, p)) /\ size' = Grown(q)
        /\ Cross(Spills(q) \cup (IF q + cells[q].rec_len = p THEN {} ELSE {"skips"}))
  BY DEF RemoveMerge
<1>1. PICK q \in Prev(p) :
        /\ cells' = Rewritten(cells, q, Merged(q, p)) /\ size' = Grown(q)
        /\ Cross(Spills(q) \cup (IF q + cells[q].rec_len = p THEN {} ELSE {"skips"}))
  BY <1>0
<1>2. PICK o \in DirBlocks : p \in Walk(o).seen
  BY FoundPassed
<1>3. q \in Walk(o).seen /\ Merged(q, p) \in 1 .. Block
  BY <1>2, PrevIs
<1>4. q \in Where /\ cells[q] \in Records /\ q < MaxBlocks * Block
  BY <1>3, PassedIs
<1>5. /\ cells' \in [Where -> Cells] /\ size' \in 0 .. Top
      /\ \A z \in Where : cells'[z].kind = "rec" => z < MaxBlocks * Block
  BY <1>1, <1>3, <1>4, RewriteSane
<1>6. crossed' \subseteq Limits
  BY <1>1 DEF Sane, DirTypeOK, Cross, Spills, Limits
<1>7. List(n, 0) /\ pending' = pending /\ pending = None
  BY DEF RemoveMerge
<1>8. listed' \in [Names -> Answers] /\ reader' \in [Readers -> Lookups] /\ Asks'
  <2>1. 0 \in Answers
    BY DEF Answers
  <2>. QED  BY <1>7, <2>1, ListIs
<1>. QED  BY <1>5, <1>6, <1>7, <1>8 DEF Sane, DirTypeOK, Places

\* ... and one at the start of a block.
LEMMA RemoveFirstSane ==
  ASSUME Sane, NEW n \in Names, RemoveFirst(n)
  PROVE  Sane'
<1>1. PICK p \in Found(n) :
        /\ cells' = [Rewritten(cells, p, cells[p].rec_len) EXCEPT ![p].inum = 0]
        /\ size' = Grown(p)
        /\ Cross(Spills(p))
  BY DEF RemoveFirst
<1>2. PICK o \in DirBlocks : p \in Walk(o).seen
  BY FoundPassed
<1>3. p \in Where /\ cells[p] \in Records /\ p < MaxBlocks * Block /\ cells[p].rec_len \in 1 .. Block
  BY <1>2, PassedIs DEF Records
<1>5. /\ cells' \in [Where -> Cells] /\ size' \in 0 .. Top
      /\ \A z \in Where : cells'[z].kind = "rec" => z < MaxBlocks * Block
  BY <1>1, <1>3, RewriteSane
<1>6. crossed' \subseteq Limits
  BY <1>1 DEF Sane, DirTypeOK, Cross, Spills, Limits
<1>7. List(n, 0) /\ pending' = pending /\ pending = None
  BY DEF RemoveFirst
<1>8. listed' \in [Names -> Answers] /\ reader' \in [Readers -> Lookups] /\ Asks'
  <2>1. 0 \in Answers
    BY DEF Answers
  <2>. QED  BY <1>7, <2>1, ListIs
<1>. QED  BY <1>5, <1>6, <1>7, <1>8 DEF Sane, DirTypeOK, Places

\* Lookups change themselves only.
LEMMA LookupBeginSane ==
  ASSUME Sane, NEW r \in Readers, NEW n \in Names, LookupBegin(r, n)
  PROVE  Sane'
<1>1. PICK v : v = [name |-> n, blk |-> 0, may |-> {listed[n]}, raced |-> FALSE, answer |-> 0]
  OBVIOUS
<1>2. reader' = [reader EXCEPT ![r] = v]
  BY <1>1 DEF LookupBegin
<1>3. v \in Lookups /\ v.name = n /\ v.may = {listed[n]}
  <2>1. listed[n] \in Answers /\ 0 \in Answers /\ 0 \in -1 .. MaxBlocks + 1
    BY DEF Sane, DirTypeOK, Answers
  <2>. QED  BY <1>1, <2>1 DEF Lookups
<1>4. UNCHANGED <<cells, size, pending, listed, crossed>>
  BY DEF LookupBegin
<1>5. reader \in [Readers -> Lookups] /\ reader' \in [Readers -> Lookups]
  BY <1>2, <1>3 DEF Sane, DirTypeOK
<1>6. reader'[r] = v /\ \A s \in Readers : s # r => reader'[s] = reader[s]
  BY <1>2, <1>5
<1>7. Asks'
  BY <1>3, <1>4, <1>6 DEF Sane, Asks
<1>. QED  BY <1>4, <1>5, <1>7 DEF Sane, DirTypeOK, Places

\* The answer that a block gives.
LEMMA HitsIs ==
  ASSUME Sane, NEW o \in DirBlocks, NEW n, NEW p \in Hits(o, n)
  PROVE  p \in Walk(o).seen /\ Named(p, n) /\ cells[p].inum \in Answers
<1>1. p \in Walk(o).seen /\ Named(p, n)
  BY DEF Hits, First
<1>. QED  BY <1>1, PassedIs

\* A block that is read is one of the directory's.
LEMMA ReadBlockIs ==
  ASSUME Sane, NEW r \in Readers, reader[r].blk >= 0, reader[r].blk * Block < size
  PROVE  reader[r].blk * Block \in DirBlocks /\ reader[r].blk \in 0 .. MaxBlocks
<1>. DEFINE k == reader[r].blk
<1>1. k \in -1 .. MaxBlocks + 1
  BY DEF Sane, DirTypeOK, Lookups
<1>2. k \in Nat
  BY <1>1
<1>. HIDE DEF k
<1>3. k * Block < size /\ size \in 0 .. Top
  BY DEF k, Sane, DirTypeOK
<1>4. k <= MaxBlocks
  <2>. SUFFICES ASSUME MaxBlocks < k PROVE FALSE
    BY <1>2
  <2>1. MaxBlocks * Block + Block <= k * Block /\ k * Block \in Nat /\ MaxBlocks * Block \in Nat
    BY <1>2, BlocksApart
  <2>. QED  BY <1>2, <1>3, <2>1, SizesAre
<1>5. k \in 0 .. MaxBlocks
  BY <1>2, <1>4
<1>. QED  BY <1>3, <1>5 DEF DirBlocks, k

\* A lookup ends, or goes to the next block.
LEMMA LookupBlockIs ==
  ASSUME Sane, NEW r \in Readers, LookupBlock(r)
  PROVE  /\ reader[r].blk >= 0 /\ UNCHANGED <<cells, size, pending, listed, crossed>>
         /\ \A s \in Readers : s # r => reader'[s] = reader[s]
         /\ reader' \in [Readers -> Lookups]
         /\ \/ reader[r].blk * Block >= size /\ reader'[r] = Idle(0)
            \/ /\ reader[r].blk * Block < size /\ Hits(reader[r].blk * Block, reader[r].name) = {}
               /\ reader'[r].blk = reader[r].blk + 1 /\ reader'[r].raced = (reader[r].raced \/ MidSplit(r))
               /\ reader'[r].may = reader[r].may /\ reader'[r].name = reader[r].name
            \/ /\ reader[r].blk * Block < size
               /\ \E p \in Hits(reader[r].blk * Block, reader[r].name) : reader'[r] = Idle(cells[p].inum)
<1>. DEFINE o == reader[r].blk * Block
            n == reader[r].name
            k == reader[r].blk + 1
            race == reader[r].raced \/ MidSplit(r)
<1>1. reader[r].blk >= 0 /\ UNCHANGED <<cells, size, pending, listed, crossed>>
  BY DEF LookupBlock
<1>2. \/ o >= size /\ reader' = [reader EXCEPT ![r] = Idle(0)]
      \/ o < size /\ Hits(o, n) = {}
         /\ reader' = [reader EXCEPT ![r].blk = @ + 1, ![r].raced = @ \/ MidSplit(r)]
      \/ o < size /\ \E p \in Hits(o, n) : reader' = [reader EXCEPT ![r] = Idle(cells[p].inum)]
  BY DEF LookupBlock
<1>3. reader \in [Readers -> Lookups] /\ reader[r] \in Lookups
  BY DEF Sane, DirTypeOK
<1>4. ASSUME NEW i \in Answers PROVE Idle(i) \in Lookups
  <2>1. -1 \in -1 .. MaxBlocks + 1
    OBVIOUS
  <2>. QED  BY <2>1 DEF Idle, Lookups
<1>5. ASSUME NEW v \in Lookups, reader' = [reader EXCEPT ![r] = v]
      PROVE  /\ reader' \in [Readers -> Lookups] /\ reader'[r] = v
             /\ \A s \in Readers : s # r => reader'[s] = reader[s]
  BY <1>3, <1>5
<1>6. CASE o >= size /\ reader' = [reader EXCEPT ![r] = Idle(0)]
  <2>1. Idle(0) \in Lookups
    BY <1>4 DEF Answers
  <2>. QED  BY <1>1, <1>5, <1>6, <2>1
<1>7. CASE o < size /\ Hits(o, n) = {}
           /\ reader' = [reader EXCEPT ![r].blk = @ + 1, ![r].raced = @ \/ MidSplit(r)]
  <2>1. reader[r].blk \in 0 .. MaxBlocks
    BY <1>1, <1>7, ReadBlockIs
  <2>2. k \in -1 .. MaxBlocks + 1
    BY <2>1
  <2>3. race \in BOOLEAN
    BY DEF MidSplit
  <2>4. PICK v : v = [reader[r] EXCEPT !.blk = k, !.raced = race]
    OBVIOUS
  <2>5. reader' = [reader EXCEPT ![r] = v]
    BY <1>7, <2>4
  <2>. HIDE DEF k, race
  <2>6. v \in Lookups /\ v.blk = k /\ v.raced = race /\ v.may = reader[r].may /\ v.name = reader[r].name
    BY <1>3, <2>2, <2>3, <2>4 DEF Lookups
  <2>. QED  BY <1>1, <1>5, <1>7, <2>5, <2>6 DEF k, race
<1>8. CASE o < size /\ \E p \in Hits(o, n) : reader' = [reader EXCEPT ![r] = Idle(cells[p].inum)]
  <2>1. PICK p \in Hits(o, n) : reader' = [reader EXCEPT ![r] = Idle(cells[p].inum)]
    BY <1>8
  <2>2. o \in DirBlocks
    BY <1>1, <1>8, ReadBlockIs
  <2>3. cells[p].inum \in Answers
    BY <2>1, <2>2, HitsIs
  <2>4. PICK v : v = Idle(cells[p].inum)
    OBVIOUS
  <2>5. v \in Lookups
    BY <1>4, <2>3, <2>4
  <2>6. reader' \in [Readers -> Lookups] /\ reader'[r] = v /\ \A s \in Readers : s # r => reader'[s] = reader[s]
    BY <1>5, <2>1, <2>4, <2>5
  <2>. QED  BY <1>1, <1>8, <2>1, <2>4, <2>6
<1>. QED  BY <1>2, <1>6, <1>7, <1>8

\* Reading a block does.
LEMMA LookupBlockSane ==
  ASSUME Sane, NEW r \in Readers, LookupBlock(r)
  PROVE  Sane'
<1>1. /\ UNCHANGED <<cells, size, pending, listed, crossed>>
      /\ \A s \in Readers : s # r => reader'[s] = reader[s]
      /\ reader' \in [Readers -> Lookups]
  BY LookupBlockIs
<1>2. reader'[r].blk >= 0 => /\ reader[r].blk >= 0
                             /\ reader'[r].may = reader[r].may /\ reader'[r].name = reader[r].name
  <2>1. \A i : ~(Idle(i).blk >= 0)
    BY DEF Idle
  <2>. QED  BY <2>1, LookupBlockIs
<1>3. Asks'
  BY <1>1, <1>2 DEF Sane, Asks
<1>. QED  BY <1>1, <1>3 DEF Sane, DirTypeOK, Places

\* Every step keeps this.
LEMMA SaneStep ==
  ASSUME Sane, [DirNext]_dirVars
  PROVE  Sane'
<1>1. CASE UNCHANGED dirVars
  BY <1>1 DEF dirVars, Sane, DirTypeOK, Asks, Places
<1>2. CASE DirNext
  <2>1. CASE Add
    BY <2>1, AddSplitSane, AddReuseSane, AddAppendSane, AddSecondSane, AddFaultSane DEF Add
  <2>2. CASE Remove
    BY <2>2, RemoveMergeSane, RemoveFirstSane DEF Remove
  <2>3. CASE \E r \in Readers : Resolve(r)
    BY <2>3, LookupBeginSane, LookupBlockSane DEF Resolve
  <2>. QED  BY <1>2, <2>1, <2>2, <2>3 DEF DirNext
<1>. QED  BY <1>1, <1>2

(***************************************************************************)
(* What the writes do to the records.                                      *)
(***************************************************************************)

\* A record lies in one block of the directory.
LEMMA LiesIs ==
  ASSUME Sane, NEW T, Lies(T), NEW p \in T
  PROVE  /\ p \in Nat /\ Base(p) \in Nat /\ Base(p) <= p /\ p < Base(p) + Block
         /\ Base(p) \in DirBlocks /\ Base(p) < size /\ size \in Nat
         /\ Eff(p) \in Records /\ Eff(p).name \in Names /\ Eff(p).rec_len \in Nat /\ 1 <= Eff(p).rec_len
         /\ End(p) = p + Eff(p).rec_len /\ p < End(p) /\ End(p) <= Base(p) + Block
         /\ End(p) \in T \/ End(p) = Base(p) + Block
         /\ \A q \in T : p < q => End(p) <= q
         /\ p \in Where
<1>1. /\ p \in Nat /\ Eff(p) \in Records /\ Base(p) < size /\ End(p) <= Base(p) + Block
      /\ End(p) \in T \/ End(p) = Base(p) + Block
      /\ \A q \in T : p < q => End(p) <= q
  BY DEF Lies
<1>2. Base(p) \in Nat /\ Base(p) <= p /\ p < Base(p) + Block
  BY <1>1, BaseIs
<1>3. size \in Nat /\ size \in 0 .. Top
  BY SizesAre DEF Sane, DirTypeOK
<1>4. Base(p) \in DirBlocks
  BY <1>1, <1>3, BaseInDir
<1>5. Eff(p).name \in Names /\ Eff(p).rec_len \in Nat /\ 1 <= Eff(p).rec_len /\ End(p) = p + Eff(p).rec_len
  BY <1>1, CellIs DEF Cells, End, Records
<1>6. p < End(p)
  BY <1>1, <1>5
<1>7. p \in Where
  <2>1. p \in Half \/ p \in Done(T)
    BY DEF Done
  <2>2. CASE p \in Half
    <3>1. pending # None /\ p = pending.at
      BY <2>2 DEF Half
    <3>2. pending.at \in Where
      BY <3>1 DEF Sane, DirTypeOK
    <3>. QED  BY <3>1, <3>2
  <2>3. CASE p \in Done(T)
    <3>1. p + Full <= size
      BY <2>3 DEF Lies
    <3>. QED  BY <1>1, <1>3, <3>1, SizesAre DEF Where
  <2>. QED  BY <2>1, <2>2, <2>3
<1>. QED  BY <1>1, <1>2, <1>3, <1>4, <1>5, <1>6, <1>7

\* The units of a record and of its name lie in front of or behind any other record.
LEMMA SpanApart ==
  ASSUME Sane, NEW T, Good(T), NEW q \in Done(T), Live(q), NEW p \in T, p # q,
         NEW x \in q .. q + Size[cells[q].name] - 1
  PROVE  x \in Where /\ (x < p \/ x >= End(p)) /\ x # p /\ x < size
<1>. DEFINE m == cells[q].name
<1>1. /\ q \in Nat /\ q \in T /\ m \in Names /\ cells[q].rec_len \in Nat /\ End(q) = q + cells[q].rec_len
  <2>1. DirTypeOK
    BY DEF Sane
  <2>. QED  BY <2>1, DoneIs
<1>2. Size[m] <= cells[q].rec_len /\ Size[m] \in Nat /\ Size[m] <= Full /\ Full \in Nat
  BY <1>1, SizesAre DEF Good, Fits, Holds
<1>3. x \in Nat /\ q <= x /\ x < q + Size[m]
  BY <1>1, <1>2
<1>4. p \in Nat /\ p < End(p) /\ End(p) \in Nat /\ (p < q => End(p) <= q) /\ (q < p => End(q) <= p)
  BY <1>1, LiesIs DEF Good
<1>5. q + Full <= size /\ size \in 0 .. Top /\ Top \in Nat
  BY SizesAre DEF Good, Lies, Sane, DirTypeOK
<1>. HIDE DEF m
<1>6. x < p \/ x >= End(p)
  BY <1>1, <1>2, <1>3, <1>4
<1>7. x # p
  BY <1>3, <1>4, <1>6
<1>8. x < size /\ size <= Top
  BY <1>1, <1>2, <1>3, <1>5
<1>9. x \in Where
  BY <1>3, <1>5, <1>8 DEF Where
<1>. QED  BY <1>6, <1>7, <1>8, <1>9

\* A record that is written inside its block brings no new block.
LEMMA SameBlocks ==
  ASSUME Sane, NEW p \in Nat, Base(p) < size, p + Full <= Base(p) + Block, size' = Grown(p)
  PROVE  /\ DirBlocks' = DirBlocks /\ size \in Nat /\ size' \in Nat /\ size <= size' /\ p + Full <= size'
<1>1. size \in Nat /\ Full \in Nat /\ Block \in Nat /\ Block > 0
  BY SizesAre DEF Sane, DirTypeOK
<1>2. size' \in Nat /\ size <= size' /\ p + Full <= size' /\ (size' = size \/ size' = p + Full)
  BY <1>1 DEF Grown
<1>. DEFINE j == p \div Block
<1>3. j \in Nat /\ Base(p) = j * Block
  BY BaseIs DEF Base
<1>. HIDE DEF j
<1>4. ASSUME NEW k \in 0 .. MaxBlocks PROVE k * Block < size <=> k * Block < size'
  <2>1. /\ k \in Nat /\ k * Block \in Nat /\ j * Block \in Nat
        /\ j = k \/ j * Block + Block <= k * Block \/ k * Block + Block <= j * Block
    BY <1>3, BlocksApart
  <2>2. CASE j = k
    BY <1>1, <1>2, <1>3, <2>1, <2>2
  <2>3. CASE j * Block + Block <= k * Block
    BY <1>1, <1>2, <1>3, <2>1, <2>3
  <2>4. CASE k * Block + Block <= j * Block
    BY <1>1, <1>2, <1>3, <2>1, <2>4
  <2>. QED  BY <2>1, <2>2, <2>3, <2>4
<1>5. DirBlocks' = DirBlocks
  BY <1>4 DEF DirBlocks
<1>. QED  BY <1>1, <1>2, <1>5

\* A dirent_t that does not spill stays in its block.
LEMMA NoSpill ==
  ASSUME NEW p \in Nat, Spills(p) = {}
  PROVE  p + Full <= Base(p) + Block
<1>1. p % Block = p - Base(p) /\ Base(p) \in Nat
  BY BaseIs
<1>2. (p % Block) + Full <= Block
  <2>1. ~((p % Block) + Full > Block)
    BY DEF Spills
  <2>2. p % Block \in Int /\ Full \in Nat /\ Block \in Nat
    BY <1>1, SizesAre
  <2>. QED  BY <2>1, <2>2
<1>. QED  BY <1>1, <1>2, SizesAre

\* A record that is written back inside its block changes nothing else.
LEMMA RewrittenQuiet ==
  ASSUME NEW p \in Where, p + Full <= Base(p) + Block, NEW l
  PROVE  \A q \in Where : q # p => Rewritten(cells, p, l)[q] = cells[q]
<1>1. p \in Nat /\ Full \in Nat /\ Block \in Nat
  BY SizesAre DEF Where
<1>2. SUFFICES ASSUME NEW q \in Where, q # p
               PROVE  ~(q > p /\ q < p + Full /\ q \div Block # p \div Block)
  BY DEF Rewritten
<1>3. SUFFICES ASSUME q > p, q < p + Full PROVE q \div Block = p \div Block
  OBVIOUS
<1>. DEFINE k == p \div Block
<1>4. k \in Nat /\ k * Block <= p /\ Base(p) = k * Block /\ Base(p) \in Nat
  BY <1>1, BaseIs DEF Base
<1>. HIDE DEF k
<1>5. q \in Nat /\ k * Block <= q /\ q < k * Block + Block
  BY <1>1, <1>3, <1>4, SizesAre DEF Where
<1>6. q \div Block = k
  BY <1>4, <1>5, BaseOf
<1>. QED  BY <1>6 DEF k

\* A lookup keeps a record ahead when those of other names stay.
LEMMA AheadKept ==
  ASSUME Sane, NEW T, Ahead(T), NEW U, NEW n \in Names, NEW i \in Answers, List(n, i),
         \A q \in Done(T) : Live(q) /\ (cells[q].name # n \/ i # 0)
           => q \in Done(U)' /\ Live(q)' /\ cells'[q].name = cells[q].name
  PROVE  Ahead(U)'
<1>1. SUFFICES ASSUME NEW r \in Readers, reader'[r].blk >= 0, ~reader'[r].raced, 0 \notin reader'[r].may
               PROVE  Before(U, r)'
  BY DEF Ahead
<1>2. /\ listed'[n] = i /\ Asks' /\ reader'[r].blk = reader[r].blk /\ reader'[r].name = reader[r].name
      /\ reader'[r].raced = reader[r].raced /\ reader[r].may \subseteq reader'[r].may
  BY ListIs
<1>3. Before(T, r)
  <2>1. reader[r].blk >= 0 /\ ~reader[r].raced /\ 0 \notin reader[r].may
    BY <1>1, <1>2
  <2>. QED  BY <2>1 DEF Ahead
<1>4. PICK q \in Done(T) : Live(q) /\ cells[q].name = reader[r].name /\ reader[r].blk * Block <= q
  BY <1>3 DEF Before
<1>5. reader[r].name # n \/ i # 0
  BY <1>1, <1>2 DEF Asks
<1>6. q \in Done(U)' /\ Live(q)' /\ cells'[q].name = cells[q].name
  BY <1>4, <1>5
<1>. QED  BY <1>2, <1>4, <1>6 DEF Before

\* A record that is put where there is space for its whole dirent_t reaches over
\* nothing else.
LEMMA PutFits ==
  ASSUME Sane, NEW p \in Nat, NEW r \in Records, PutRecord(p, r), crossed' = {}, p + r.rec_len <= Base(p) + Block
  PROVE  p + Full <= Base(p) + Block /\ Full <= r.rec_len
<1>1. Clobbers(p, r) = {} /\ Spills(p) = {}
  BY DEF PutRecord, Cross
<1>2. p + Full <= Base(p) + Block
  BY <1>1, NoSpill
<1>3. ~(r.rec_len < Full /\ (p % Block) + r.rec_len < Block)
  BY <1>1 DEF Clobbers
<1>4. p % Block = p - Base(p) /\ Base(p) \in Nat
  BY BaseIs
<1>5. r.rec_len \in Nat /\ Full \in Nat /\ Block \in Nat
  BY SizesAre, CellIs DEF Records
<1>. QED  BY <1>2, <1>3, <1>4, <1>5

\* What Image leaves at the places of other records, and at its own.
LEMMA ImageAt ==
  ASSUME NEW p \in Nat, NEW r \in Records, p + Full <= Top, NEW q \in Where
  PROVE  /\ q < p \/ q >= p + Full => Image(cells, p, r)[q] = cells[q]
         /\ q = p => Image(cells, p, r)[q] = r
         /\ p < q /\ q < p + Size[r.name] => Image(cells, p, r)[q] = Text(r.name)
<1>1. r.name \in Names /\ Size[r.name] \in Nat /\ Size[r.name] <= Full /\ Full \in Nat /\ Full > 0 /\ q \in Nat
  BY SizesAre DEF Records, Where
<1>2. q < p \/ q >= p + Full => Image(cells, p, r)[q] = cells[q]
  BY DEF Image
<1>3. q = p => Image(cells, p, r)[q] = r
  <2>. SUFFICES ASSUME q = p PROVE Image(cells, p, r)[q] = r
    OBVIOUS
  <2>1. ~(q < p \/ q >= p + Full)
    BY <1>1
  <2>. QED  BY <2>1 DEF Image
<1>4. p < q /\ q < p + Size[r.name] => Image(cells, p, r)[q] = Text(r.name)
  <2>. SUFFICES ASSUME p < q, q < p + Size[r.name] PROVE Image(cells, p, r)[q] = Text(r.name)
    OBVIOUS
  <2>1. ~(q < p \/ q >= p + Full) /\ q # p
    BY <1>1
  <2>. QED  BY <2>1 DEF Image
<1>. QED  BY <1>2, <1>3, <1>4

(***************************************************************************)
(* The steps of dir_add.                                                   *)
(***************************************************************************)

\* A record put in the place of one that is free, or still to be written, with
\* the length that this had.
LEMMA PutGood ==
  ASSUME Sane, NEW T, Good(T), NEW p \in T, NEW r \in Records,
         Half \subseteq {p}, p \in Half \/ ~Live(p), r.rec_len = Eff(p).rec_len,
         Size[r.name] <= r.rec_len, r.inum # 0, listed[r.name] = 0,
         PutRecord(p, r), pending' = None, crossed' = {}
  PROVE  Good(T)'
<1>1. DirTypeOK /\ Lies(T) /\ Fits(T) /\ Lists(T) /\ Ahead(T)
  BY DEF Sane, Good
<1>2. /\ p \in Nat /\ p \in Where /\ Base(p) \in Nat /\ Base(p) < size /\ End(p) = p + r.rec_len
      /\ End(p) <= Base(p) + Block
      /\ r.name \in Names /\ r.rec_len \in Nat /\ Size[r.name] \in Nat /\ Size[r.name] <= Full
      /\ Full \in Nat /\ r.inum \in Answers
  BY <1>1, LiesIs, SizesAre DEF Records, Answers
<1>3. p + Full <= Base(p) + Block /\ Full <= r.rec_len
  BY <1>2, PutFits
<1>4. /\ List(r.name, r.inum) /\ cells' = Image(cells, p, r) /\ size' = Grown(p)
  BY DEF PutRecord
<1>5. DirBlocks' = DirBlocks /\ size \in Nat /\ size' \in Nat /\ size <= size' /\ p + Full <= size'
  BY <1>2, <1>3, <1>4, SameBlocks
<1>6. listed'[r.name] = r.inum /\ \A m \in Names : m # r.name => listed'[m] = listed[m]
  BY <1>2, <1>4, ListIs
<1>7. p + Full <= Top
  <2>1. p < MaxBlocks * Block
    <3>1. CASE p \in Half
      BY <3>1 DEF Half, Sane, Places
    <3>2. CASE p \notin Half
      <4>1. cells[p] \in Records
        BY <1>1, <3>2 DEF Lies, Eff
      <4>. QED  BY <1>2, <4>1 DEF Records, Sane, Places
    <3>. QED  BY <3>1, <3>2
  <2>. QED  BY <1>2, <2>1, SizesAre
<1>8. \A q \in Where : q < p \/ q >= End(p) => cells'[q] = cells[q]
  <2>. SUFFICES ASSUME NEW q \in Where, q < p \/ q >= End(p) PROVE cells'[q] = cells[q]
    OBVIOUS
  <2>1. q \in Nat
    BY SizesAre DEF Where
  <2>2. q < p \/ q >= p + Full
    BY <1>2, <1>3, <2>1
  <2>3. p \in Nat
    BY <1>2
  <2>4. Image(cells, p, r)[q] = cells[q]
    BY <1>7, <2>2, <2>3, ImageAt
  <2>. QED  BY <1>4, <2>4
<1>9. cells'[p] = r
  BY <1>2, <1>4, <1>7, ImageAt
<1>10. Half' = {} /\ Done(T)' = T /\ \A q \in T : Eff(q)' = cells'[q]
  BY DEF Half, Done, Eff
<1>11. ASSUME NEW q \in T, q # p
       PROVE  q \in Done(T) /\ cells'[q] = cells[q] /\ Eff(q)' = Eff(q) /\ End(q)' = End(q)
  <2>1. q \notin Half /\ q \in Done(T)
    BY <1>11 DEF Done
  <2>2. q \in Where /\ (q < p \/ q >= End(p))
    BY <1>1, <1>2, <1>11, LiesIs
  <2>3. cells'[q] = cells[q] /\ Eff(q) = cells[q]
    BY <1>8, <2>1, <2>2 DEF Eff
  <2>. QED  BY <1>10, <2>1, <2>3 DEF End
<1>12. Eff(p)' = r /\ End(p)' = End(p)
  BY <1>2, <1>9, <1>10 DEF End
<1>13. \A q \in T : Eff(q)' \in Records /\ End(q)' = End(q) /\ q \in Nat
  <2>1. \A q \in T : Eff(q) \in Records /\ q \in Nat
    BY <1>1 DEF Lies
  <2>. QED  BY <1>11, <1>12, <2>1
<1>14. Lies(T)'
  <2>1. ASSUME NEW q \in T
        PROVE  /\ q \in Nat /\ Eff(q)' \in Records /\ Base(q) < size'
               /\ End(q)' <= Base(q) + Block
               /\ End(q)' \in T \/ End(q)' = Base(q) + Block
    <3>1. Base(q) < size /\ Base(q) \in Nat /\ End(q) <= Base(q) + Block /\ (End(q) \in T \/ End(q) = Base(q) + Block)
      BY <1>1, LiesIs
    <3>. QED  BY <1>5, <1>13, <3>1
  <2>2. \A q, z \in T : q < z => End(q)' <= z
    BY <1>1, <1>13 DEF Lies
  <2>3. DirBlocks' \subseteq T /\ Half' \subseteq T /\ Half' \cap DirBlocks' = {}
    BY <1>1, <1>5, <1>10 DEF Lies
  <2>4. ASSUME NEW q \in T PROVE q + Full <= size' /\ q + Full <= Base(q) + Block
    <3>1. CASE q = p
      BY <1>3, <1>5, <3>1
    <3>2. CASE q # p
      <4>1. q \in Nat /\ q + Full <= size /\ q + Full <= Base(q) + Block
        BY <1>1, <1>11, <3>2 DEF Lies
      <4>. QED  BY <1>2, <1>5, <4>1
    <3>. QED  BY <3>1, <3>2
  <2>. QED  BY <1>10, <2>1, <2>2, <2>3, <2>4 DEF Lies, Base
<1>15. Fits(T)'
  <2>1. Holds(p)'
    <3>1. ASSUME NEW q \in p + 1 .. p + Size[r.name] - 1 PROVE cells'[q] = Text(r.name)
      <4>1. q \in Where /\ p < q /\ q < p + Size[r.name]
        BY <1>2, <1>7, SizesAre DEF Where
      <4>. QED  BY <1>2, <1>4, <1>7, <4>1, ImageAt
    <3>. QED  BY <1>9, <3>1 DEF Holds
  <2>2. ASSUME NEW q \in T, q # p, Live(q)' PROVE Holds(q)'
    <3>1. q \in Done(T) /\ cells'[q] = cells[q] /\ Live(q) /\ q \in Nat
      BY <1>11, <1>13, <2>2 DEF Live
    <3>2. Holds(q)
      BY <1>1, <3>1 DEF Fits
    <3>3. \A x \in q + 1 .. q + Size[cells[q].name] - 1 : cells'[x] = cells[x]
      <4>. SUFFICES ASSUME NEW x \in q + 1 .. q + Size[cells[q].name] - 1 PROVE cells'[x] = cells[x]
        OBVIOUS
      <4>1. Size[cells[q].name] \in Nat
        BY <1>1, <3>1, DoneIs, SizesAre
      <4>2. x \in q .. q + Size[cells[q].name] - 1
        BY <3>1, <4>1
      <4>3. x \in Where /\ (x < p \/ x >= End(p))
        BY <2>2, <3>1, <4>2, SpanApart
      <4>. QED  BY <1>8, <4>3
    <3>. QED  BY <3>1, <3>2, <3>3 DEF Holds
  <2>3. \A q \in T : Live(q)' => Holds(q)'
    BY <2>1, <2>2
  <2>. QED  BY <1>10, <2>3 DEF Fits
<1>16. ASSUME NEW q \in Done(T), Live(q) PROVE q # p /\ cells[q].name # r.name /\ Live(q)' /\ cells'[q] = cells[q] /\ q \in T
  <2>1. q \in T /\ q # p
    <3>1. q \in T /\ q \notin Half
      BY DEF Done
    <3>. QED  BY <1>16, <3>1
  <2>2. cells[q].inum # 0 /\ listed[cells[q].name] = cells[q].inum
    BY <1>1, <1>16 DEF Lists, Live
  <2>3. cells'[q] = cells[q]
    BY <1>11, <2>1
  <2>. QED  BY <1>16, <2>1, <2>2, <2>3 DEF Live
<1>17. Lists(T)'
  <2>1. ASSUME NEW q \in T, Live(q)', q # p
        PROVE  /\ q \in Done(T) /\ Live(q) /\ cells'[q] = cells[q] /\ cells[q].name # r.name
               /\ listed'[cells[q].name] = cells[q].inum
    <3>1. q \in Done(T) /\ cells'[q] = cells[q] /\ Live(q)
      BY <1>11, <2>1 DEF Live
    <3>2. cells[q].name # r.name /\ cells[q].name \in Names
      BY <1>1, <1>16, <3>1, DoneIs
    <3>3. listed[cells[q].name] = cells[q].inum
      BY <1>1, <3>1 DEF Lists
    <3>. QED  BY <1>6, <3>1, <3>2, <3>3
  <2>2. \A q, z \in T : Live(q)' /\ Live(z)' /\ cells'[q].name = cells'[z].name => q = z
    <3>. SUFFICES ASSUME NEW q \in T, NEW z \in T, Live(q)', Live(z)', cells'[q].name = cells'[z].name PROVE q = z
      OBVIOUS
    <3>1. CASE q # p /\ z # p
      BY <1>1, <2>1, <3>1 DEF Lists
    <3>2. CASE q = p /\ z # p
      BY <1>9, <2>1, <3>2
    <3>3. CASE q # p /\ z = p
      BY <1>9, <2>1, <3>3
    <3>. QED  BY <3>1, <3>2, <3>3
  <2>3. \A q \in T : Live(q)' => listed'[cells'[q].name] = cells'[q].inum
    BY <1>6, <1>9, <2>1
  <2>4. ASSUME NEW n \in Names, listed'[n] # 0 PROVE \E q \in T : Live(q)' /\ cells'[q].name = n
    <3>1. CASE n = r.name
      <4>1. Live(p)' /\ cells'[p].name = n
        BY <1>9, <3>1 DEF Live
      <4>. QED  BY <4>1
    <3>2. CASE n # r.name
      <4>1. listed[n] # 0
        BY <1>6, <2>4, <3>2
      <4>2. PICK q \in Done(T) : Live(q) /\ cells[q].name = n
        BY <1>1, <4>1 DEF Lists
      <4>. QED  BY <1>16, <4>2
    <3>. QED  BY <3>1, <3>2
  <2>. QED  BY <1>10, <2>2, <2>3, <2>4 DEF Lists
<1>18. Ahead(T)'
  <2>1. \A q \in Done(T) : Live(q) => q \in Done(T)' /\ Live(q)' /\ cells'[q].name = cells[q].name
    BY <1>10, <1>16
  <2>2. r.inum \in Answers /\ r.name \in Names
    BY <1>2
  <2>. QED  BY <1>1, <1>4, <2>1, <2>2, AheadKept
<1>. QED  BY <1>14, <1>15, <1>17, <1>18 DEF Good

\* The second write of a split.
LEMMA AddSecondGood ==
  ASSUME Sane, NEW T, Good(T), AddSecond, crossed' = {}
  PROVE  Good(T)'
<1>1. /\ pending # None /\ pending' = None /\ PutRecord(pending.at, pending.rec)
      /\ Size[pending.rec.name] <= pending.rec.rec_len /\ pending.rec.inum # 0
      /\ listed[pending.rec.name] = 0
  BY DEF AddSecond, Good, Fits
<1>2. PICK p, r : p = pending.at /\ r = pending.rec
  OBVIOUS
<1>3. Half = {p} /\ p \in T /\ Eff(p) = r /\ r \in Records
  BY <1>1, <1>2, PendingIs DEF Half, Eff, Good, Lies
<1>. QED  BY <1>1, <1>2, <1>3, PutGood

\* The use of a free record.
LEMMA AddReuseGood ==
  ASSUME Sane, NEW T, Good(T), NEW n \in Names, NEW i \in Inums, AddReuse(n, i), crossed' = {}
  PROVE  Good(T)'
<1>1. pending = None /\ Lookup(n) = 0 /\ pending' = None /\ DirTypeOK
  BY DEF AddReuse, Sane
<1>2. PICK p \in Room(n) : ~Live(p) /\ PutRecord(p, Rec(n, i, Space(p)))
  BY DEF AddReuse
<1>3. p \in T /\ p \in Done(T) /\ Half = {}
  BY <1>1, <1>2, RoomPassed, QuietPassed DEF Half
<1>4. Eff(p) = cells[p] /\ cells[p] \in Records /\ Space(p) = Eff(p).rec_len /\ Space(p) \in 1 .. Block
  BY <1>1, <1>2, <1>3, DoneIs DEF Space, Records
<1>5. PICK r : r = Rec(n, i, Space(p))
  OBVIOUS
<1>6. r \in Records /\ r.rec_len = Space(p) /\ r.name = n /\ r.inum = i
  BY <1>4, <1>5 DEF Rec, Records
<1>7. Size[n] <= Space(p)
  <2>1. Space(p) >= Size[n]
    BY <1>2, RoomPassed
  <2>2. Space(p) \in Int /\ Size[n] \in Int
    BY <1>4, SizesAre
  <2>. QED  BY <2>1, <2>2
<1>8. i # 0 /\ listed[n] = 0
  BY <1>1, QuietLookup
<1>9. PutRecord(p, r)
  BY <1>2, <1>5
<1>10. Half \subseteq {p} /\ (p \in Half \/ ~Live(p)) /\ r.rec_len = Eff(p).rec_len /\ Size[r.name] <= r.rec_len
       /\ r.inum # 0 /\ listed[r.name] = 0
  BY <1>2, <1>3, <1>4, <1>6, <1>7, <1>8
<1>. QED  BY <1>1, <1>3, <1>6, <1>9, <1>10, PutGood

\* What is written back keeps the names of the records.
LEMMA KeptHolds ==
  ASSUME Sane, NEW T, Good(T), NEW p \in Done(T), \A q \in Where : q # p => cells'[q] = cells[q],
         NEW q \in Done(T), Live(q), cells'[q].name = cells[q].name, Size[cells[q].name] <= cells'[q].rec_len
  PROVE  Holds(q)'
<1>1. Holds(q)
  BY DEF Good, Fits
<1>2. q \in Nat /\ p \in T /\ q \in T /\ cells[q].name \in Names
  BY DoneIs DEF Sane
<1>3. ASSUME NEW x \in q + 1 .. q + Size[cells[q].name] - 1 PROVE cells'[x] = cells[x]
  <2>1. Size[cells[q].name] \in Nat
    BY <1>2, SizesAre
  <2>2. x \in q .. q + Size[cells[q].name] - 1 /\ x # q /\ x \in Nat
    BY <1>2, <2>1
  <2>3. CASE p # q
    <3>1. x \in Where /\ x # p
      BY <1>2, <2>2, <2>3, SpanApart
    <3>. QED  BY <3>1
  <2>4. CASE p = q
    <3>1. x < q + Size[cells[q].name] /\ Size[cells[q].name] <= Full /\ Full \in Nat
      BY <1>2, <2>1, SizesAre
    <3>2. q + Full <= size /\ size \in 0 .. Top /\ Top \in Nat
      BY SizesAre DEF Good, Lies, Sane, DirTypeOK
    <3>3. x \in Where
      BY <1>2, <2>1, <2>2, <3>1, <3>2 DEF Where
    <3>. QED  BY <2>2, <2>4, <3>3
  <2>. QED  BY <2>3, <2>4
<1>. QED  BY <1>1, <1>3 DEF Holds

\* What is written back inside its block moves nothing.
LEMMA KeptSize ==
  ASSUME Sane, NEW T, Good(T), NEW p \in Done(T), size' = Grown(p)
  PROVE  /\ size' = size /\ DirBlocks' = DirBlocks /\ p \in Where /\ p + Full <= Base(p) + Block
         /\ \A l : \A q \in Where : q # p => Rewritten(cells, p, l)[q] = cells[q]
         /\ \A l : Rewritten(cells, p, l)[p] = [cells[p] EXCEPT !.rec_len = l]
<1>1. p \in Nat /\ p \in T /\ p \in Where
  <2>1. p \in T
    BY DEF Done
  <2>. QED  BY <2>1, LiesIs DEF Good
<1>2. p + Full <= size /\ p + Full <= Base(p) + Block
  BY DEF Good, Lies
<1>3. size' = size
  <2>1. size \in Nat /\ Full \in Nat
    BY SizesAre DEF Sane, DirTypeOK
  <2>. QED  BY <1>1, <1>2, <2>1 DEF Grown
<1>4. DirBlocks' = DirBlocks
  BY <1>3 DEF DirBlocks
<1>5. \A l : \A q \in Where : q # p => Rewritten(cells, p, l)[q] = cells[q]
  BY <1>1, <1>2, RewrittenQuiet
<1>6. \A l : Rewritten(cells, p, l)[p] = [cells[p] EXCEPT !.rec_len = l]
  BY <1>1 DEF Rewritten
<1>. QED  BY <1>1, <1>2, <1>3, <1>4, <1>5, <1>6

\* The first write of a split: the record that is still to be written tiles the
\* rest of the space.
LEMMA AddSplitGood ==
  ASSUME Sane, NEW T, Good(T), NEW n \in Names, NEW i \in Inums, AddSplit(n, i), crossed' = {}
  PROVE  \E U : Good(U)'
<1>1. PICK p \in Room(n) :
        /\ Live(p)
        /\ cells' = Rewritten(cells, p, Actual(p)) /\ size' = Grown(p)
        /\ pending' = SplitOff(p, n, i)
        /\ Cross(Spills(p))
  BY DEF AddSplit
<1>2. pending = None /\ Lookup(n) = 0 /\ reader' = reader /\ listed' = listed /\ DirTypeOK
  BY DEF AddSplit, Sane
<1>3. p \in T /\ Done(T) = T /\ Half = {} /\ p \in Done(T)
  BY <1>1, <1>2, RoomPassed, QuietPassed DEF Half
<1>4. Lies(T) /\ Fits(T) /\ Lists(T) /\ Ahead(T)
  BY DEF Good
<1>5. PICK a, l, t : a = Actual(p) /\ l = cells[p].rec_len /\ t = p + a
  OBVIOUS
<1>6. /\ p \in Nat /\ cells[p] \in Records /\ l \in Nat /\ End(p) = p + l /\ cells[p].name \in Names
      /\ a = Size[cells[p].name] /\ a \in Nat /\ 2 <= a /\ a <= Block
      /\ Block \in Nat /\ Size[n] \in Nat /\ 2 <= Size[n] /\ Size[n] <= l - a /\ l <= Block
  <2>1. Space(p) >= Size[n]
    BY <1>1, RoomPassed
  <2>2. l - a >= Size[n]
    BY <1>1, <1>5, <2>1 DEF Space
  <2>3. /\ p \in Nat /\ cells[p] \in Records /\ l \in Nat /\ End(p) = p + l /\ cells[p].name \in Names /\ l <= Block
    BY <1>2, <1>3, <1>5, DoneIs
  <2>4. a = Size[cells[p].name]
    BY <1>5 DEF Actual
  <2>5. a \in Nat /\ 2 <= a /\ a <= Block /\ Block \in Nat /\ Size[n] \in Nat /\ 2 <= Size[n]
    BY <2>3, <2>4, SizesAre
  <2>. QED  BY <2>2, <2>3, <2>4, <2>5
<1>7. /\ size' = size /\ DirBlocks' = DirBlocks /\ p \in Where
      /\ \A q \in Where : q # p => cells'[q] = cells[q]
      /\ cells'[p] = [cells[p] EXCEPT !.rec_len = a]
  BY <1>1, <1>3, <1>5, KeptSize
<1>8. cells'[p] \in Records /\ cells'[p].name = cells[p].name /\ cells'[p].inum = cells[p].inum /\ cells'[p].rec_len = a
  <2>1. a \in 1 .. Block
    BY <1>6
  <2>. QED  BY <1>6, <1>7, <2>1 DEF Records
<1>9. \A q \in T : q # p => cells'[q] = cells[q]
  BY <1>4, <1>7, LiesIs
<1>10. PICK R : R = Rec(n, i, l - a)
  OBVIOUS
<1>11. R \in Records /\ R.name = n /\ R.inum = i /\ R.rec_len = l - a
  <2>1. l - a \in 1 .. Block
    BY <1>6
  <2>. QED  BY <1>10, <2>1 DEF Rec, Records
<1>12. pending'.at = t /\ pending'.rec = R /\ pending' # None
  <2>1. pending' = [at |-> t, rec |-> R]
    BY <1>1, <1>5, <1>10 DEF SplitOff
  <2>2. R # Zero
    BY <1>10 DEF Rec, Zero
  <2>. QED  BY <2>1, <2>2 DEF None
<1>13. t \in Nat /\ p < t /\ t < End(p) /\ t + (l - a) = End(p) /\ End(p) \in Nat
  BY <1>5, <1>6
<1>14. t \notin T
  <2>1. \A q \in T : p < q => End(p) <= q
    BY <1>3, <1>4, LiesIs
  <2>. QED  BY <1>6, <1>13, <2>1
<1>15. PICK U : U = T \cup {t}
  OBVIOUS
<1>16. Half' = {t} /\ Done(U)' = T
  BY <1>12, <1>14, <1>15 DEF Half, Done
<1>17. /\ \A q \in T : q # p => Eff(q)' = Eff(q) /\ End(q)' = End(q) /\ Eff(q) = cells[q]
       /\ Eff(p)' = cells'[p] /\ End(p)' = t
       /\ Eff(t)' = R /\ End(t)' = End(p)
  <2>1. ASSUME NEW q \in T, q # p PROVE Eff(q)' = Eff(q) /\ End(q)' = End(q) /\ Eff(q) = cells[q]
    <3>1. Eff(q) = cells[q] /\ Eff(q)' = cells'[q]
      BY <1>3, <1>14, <1>16, <2>1 DEF Eff
    <3>. QED  BY <1>9, <2>1, <3>1 DEF End
  <2>2. Eff(p)' = cells'[p]
    BY <1>3, <1>14, <1>16 DEF Eff
  <2>3. Eff(t)' = R
    BY <1>12, <1>16 DEF Eff
  <2>. QED  BY <1>5, <1>8, <1>11, <1>13, <2>1, <2>2, <2>3 DEF End
<1>18. Base(t) = Base(p) /\ Base(p) \in Nat /\ End(p) <= Base(p) + Block /\ Base(p) < size /\ Base(p) \in DirBlocks
  <2>1. Base(p) \in Nat /\ End(p) <= Base(p) + Block /\ Base(p) < size /\ Base(p) \in DirBlocks /\ Base(p) <= p
    BY <1>3, <1>4, LiesIs
  <2>2. Base(p) <= t /\ t < Base(p) + Block
    BY <1>6, <1>13, <2>1
  <2>3. Base(t) = Base(p)
    BY <1>13, <2>1, <2>2, InBlock
  <2>. QED  BY <2>1, <2>3
<1>19. Lies(U)'
  <2>1. ASSUME NEW q \in U
        PROVE  /\ q \in Nat /\ Eff(q)' \in Records /\ Base(q) < size'
               /\ End(q)' <= Base(q) + Block
               /\ End(q)' \in U \/ End(q)' = Base(q) + Block
    <3>1. CASE q = t
      <4>1. End(p) \in T \/ End(p) = Base(p) + Block
        BY <1>3, <1>4, LiesIs
      <4>. QED  BY <1>7, <1>11, <1>13, <1>15, <1>17, <1>18, <3>1, <4>1
    <3>2. CASE q = p
      <4>1. t <= Base(p) + Block /\ t \in U
        BY <1>6, <1>13, <1>15, <1>18
      <4>. QED  BY <1>6, <1>7, <1>8, <1>17, <1>18, <3>2, <4>1
    <3>3. CASE q # p /\ q # t
      <4>1. q \in T
        BY <1>15, <2>1, <3>3
      <4>2. /\ q \in Nat /\ Eff(q) \in Records /\ Base(q) < size
            /\ End(q) <= Base(q) + Block
            /\ End(q) \in T \/ End(q) = Base(q) + Block
        BY <1>4, <4>1 DEF Lies
      <4>. QED  BY <1>7, <1>15, <1>17, <3>3, <4>1, <4>2
    <3>. QED  BY <3>1, <3>2, <3>3
  <2>2. ASSUME NEW q \in U, NEW z \in U, q < z PROVE End(q)' <= z
    <3>1. /\ \A x \in T : x \in Nat /\ End(x) \in Nat
          /\ \A x, y \in T : x < y => End(x) <= y
          /\ \A x \in T : x < End(x)
      BY <1>4, LiesIs
    <3>2. CASE q = t
      <4>1. z \in T /\ p < z
        BY <1>6, <1>13, <1>15, <2>2, <3>1, <3>2
      <4>. QED  BY <1>3, <1>17, <3>1, <3>2, <4>1
    <3>3. CASE q # t /\ z = t
      <4>1. q \in T
        BY <1>15, <2>2, <3>3
      <4>2. ~(p < q)
        BY <1>3, <1>13, <2>2, <3>1, <3>3, <4>1
      <4>3. CASE q = p
        BY <1>13, <1>17, <3>3, <4>3
      <4>4. CASE q # p
        <5>1. End(q) <= p
          BY <1>3, <1>6, <3>1, <4>1, <4>2, <4>4
        <5>2. End(q) <= t
          BY <1>6, <1>13, <3>1, <4>1, <5>1
        <5>. QED  BY <1>17, <3>3, <4>1, <4>4, <5>2
      <4>. QED  BY <4>3, <4>4
    <3>4. CASE q # t /\ z # t
      <4>1. q \in T /\ z \in T
        BY <1>15, <2>2, <3>4
      <4>2. CASE q = p
        <5>1. End(p) <= z /\ z \in Nat
          BY <2>2, <3>1, <4>1, <4>2
        <5>2. t <= z
          BY <1>13, <5>1
        <5>. QED  BY <1>17, <4>2, <5>2
      <4>3. CASE q # p
        BY <1>17, <2>2, <3>1, <4>1, <4>3
      <4>. QED  BY <4>2, <4>3
    <3>. QED  BY <3>2, <3>3, <3>4
  <2>3. DirBlocks' \subseteq U /\ Half' \subseteq U /\ Half' \cap DirBlocks' = {}
    BY <1>4, <1>7, <1>14, <1>15, <1>16 DEF Lies
  <2>4. \A q \in Done(U)' : q + Full <= size' /\ q + Full <= Base(q) + Block
    BY <1>3, <1>4, <1>7, <1>16 DEF Lies
  <2>. QED  BY <2>1, <2>2, <2>3, <2>4 DEF Lies, Base
<1>20. \A q \in T : (Live(q)' <=> Live(q)) /\ cells'[q].name = cells[q].name /\ cells'[q].inum = cells[q].inum
  BY <1>8, <1>9 DEF Live
<1>21. Fits(U)'
  <2>1. ASSUME NEW q \in T, Live(q) PROVE Holds(q)'
    <3>1. Size[cells[q].name] <= cells'[q].rec_len
      <4>1. CASE q = p
        BY <1>6, <1>8, <4>1
      <4>2. CASE q # p
        BY <1>3, <1>4, <1>9, <2>1, <4>2 DEF Fits, Holds
      <4>. QED  BY <4>1, <4>2
    <3>. QED  BY <1>3, <1>7, <1>20, <2>1, <3>1, KeptHolds
  <2>2. Size[R.name] <= R.rec_len /\ R.inum # 0 /\ listed'[R.name] = 0
    <3>1. i # 0
      OBVIOUS
    <3>2. listed[n] = 0
      BY <1>2, QuietLookup
    <3>. QED  BY <1>2, <1>6, <1>11, <3>1, <3>2
  <2>. QED  BY <1>12, <1>16, <1>20, <2>1, <2>2 DEF Fits
<1>22. Lists(U)'
  BY <1>2, <1>3, <1>4, <1>16, <1>20 DEF Lists
<1>23. Ahead(U)'
  <2>1. SUFFICES ASSUME NEW r \in Readers, reader[r].blk >= 0, ~reader[r].raced, 0 \notin reader[r].may
                 PROVE  Before(U, r)'
    BY <1>2 DEF Ahead
  <2>2. Before(T, r)
    BY <1>4, <2>1 DEF Ahead
  <2>. QED  BY <1>2, <1>3, <1>16, <1>20, <2>2 DEF Before
<1>24. Good(U)'
  BY <1>19, <1>21, <1>22, <1>23 DEF Good
<1>. QED  BY <1>24

\* When no record has space left, the directory ends at the end of a block.
LEMMA AppendAt ==
  ASSUME Sane, NEW T, Good(T), NEW n \in Names, pending = None, Room(n) = {},
         size <= (MaxBlocks - 1) * Block, Spills(size) = {}
  PROVE  size \in Nat /\ Base(size) = size /\ \E k \in 0 .. MaxBlocks : size = k * Block
<1>1. size \in Nat /\ DirTypeOK /\ Full \in Nat /\ Full > 0 /\ Block \in Nat /\ Block > 0
  BY SizesAre DEF Sane, DirTypeOK
<1>. DEFINE k == size \div Block
<1>2. k \in Nat /\ Base(size) = k * Block /\ Base(size) \in Nat /\ Base(size) <= size
  BY <1>1, BaseIs DEF Base
<1>. HIDE DEF k
<1>3. k <= MaxBlocks
  <2>. SUFFICES ASSUME MaxBlocks < k PROVE FALSE
    BY <1>2, SizesAre
  <2>1. MaxBlocks * Block + Block <= k * Block /\ MaxBlocks * Block \in Nat
    BY <1>2, BlocksApart
  <2>2. (MaxBlocks - 1) * Block + Block = MaxBlocks * Block /\ (MaxBlocks - 1) * Block \in Nat
    BY SizesAre
  <2>. QED  BY <1>1, <1>2, <2>1, <2>2
<1>4. Base(size) = size
  <2>. SUFFICES ASSUME Base(size) # size PROVE FALSE
    OBVIOUS
  <2>1. PICK o : o = Base(size)
    OBVIOUS
  <2>2. o \in DirBlocks /\ o < size
    BY <1>1, <1>2, <1>3, <2>1 DEF DirBlocks
  <2>3. size + Full <= o + Block
    BY <1>1, <2>1, NoSpill
  <2>4. Half = {}
    BY DEF Half
  <2>5. PICK z \in Walk(o).seen : z + cells[z].rec_len = o + Block
    BY <1>1, <2>2, <2>4, QuietBlock
  <2>6. z \in Done(T) /\ z \in Passed
    <3>1. Walk(o).seen \subseteq Done(T)
      BY <1>1, <2>2, <2>4, QuietBlock
    <3>. QED  BY <2>2, <3>1 DEF Passed
  <2>7. /\ z \in Nat /\ z + Full <= size /\ cells[z].rec_len \in Nat /\ cells[z].name \in Names
    BY <1>1, <2>6, DoneIs DEF Good, Lies
  <2>8. cells[z].rec_len >= Full + Full
    <3>1. o \in Nat
      BY <1>2, <2>1
    <3>. QED  BY <1>1, <2>3, <2>5, <2>7, <3>1
  <2>9. Space(z) >= Size[n] /\ Size[n] \in Nat
    <3>1. Size[n] \in Nat /\ Size[n] <= Full /\ Actual(z) \in Nat /\ Actual(z) <= Full
      BY <2>7, SizesAre DEF Actual
    <3>2. cells[z].rec_len - Actual(z) >= Size[n] /\ cells[z].rec_len >= Size[n]
      BY <1>1, <2>7, <2>8, <3>1
    <3>. QED  BY <3>1, <3>2 DEF Space
  <2>. DEFINE S == {p \in Passed : Space(p) >= Size[n]}
  <2>10. z \in S /\ S \in SUBSET Nat
    <3>1. Passed = T
      BY <1>1, QuietPassed
    <3>2. \A x \in T : x \in Nat
      BY DEF Good, Lies
    <3>. QED  BY <2>6, <2>9, <3>1, <3>2
  <2>. HIDE DEF S
  <2>11. First(S) = {}
    BY DEF Room, S
  <2>. QED  BY <2>10, <2>11, FirstIs
<1>5. size = k * Block
  BY <1>2, <1>4
<1>. QED  BY <1>1, <1>2, <1>3, <1>4, <1>5

\* A new block brings one record, of its whole length.
LEMMA AddAppendGood ==
  ASSUME Sane, NEW T, Good(T), NEW n \in Names, NEW i \in Inums, AddAppend(n, i), crossed' = {}
  PROVE  \E U : Good(U)'
<1>1. /\ pending = None /\ pending' = None /\ Lookup(n) = 0 /\ Room(n) = {} /\ size <= (MaxBlocks - 1) * Block
      /\ PutRecord(size, Rec(n, i, Block)) /\ DirTypeOK
  BY DEF AddAppend, Sane
<1>2. Half = {} /\ Done(T) = T /\ Half' = {} /\ \A U : Done(U)' = U
  BY <1>1 DEF Half, Done
<1>3. Lies(T) /\ Fits(T) /\ Lists(T) /\ Ahead(T)
  BY DEF Good
<1>4. PICK s, R : s = size /\ R = Rec(n, i, Block)
  OBVIOUS
<1>5. /\ cells' = Image(cells, s, R) /\ size' = Grown(s) /\ List(n, i) /\ Spills(s) = {}
  <2>1. R.name = n /\ R.inum = i
    BY <1>4 DEF Rec
  <2>2. Cross(Clobbers(s, R) \cup Spills(s))
    BY <1>1, <1>4 DEF PutRecord
  <2>3. crossed' = crossed \cup (Clobbers(s, R) \cup Spills(s))
    BY <2>2 DEF Cross
  <2>4. Spills(s) = {}
    BY <2>3
  <2>. QED  BY <1>1, <1>4, <2>1, <2>4 DEF PutRecord
<1>6. R \in Records /\ R.name = n /\ R.inum = i /\ R.rec_len = Block
  <2>1. Block \in 1 .. Block
    BY SizesAre
  <2>. QED  BY <1>4, <2>1 DEF Rec, Records
<1>7. s \in Nat /\ Base(s) = s /\ \E k \in 0 .. MaxBlocks : s = k * Block
  BY <1>1, <1>4, <1>5, AppendAt
<1>8. PICK k \in 0 .. MaxBlocks : s = k * Block
  BY <1>7
<1>9. Full \in Nat /\ Full > 0 /\ Full <= Block /\ Block \in Nat /\ Top \in Nat /\ Size[n] \in Nat /\ Size[n] <= Full /\ k \in Nat /\ 2 <= Size[n]
  BY SizesAre
<1>10. size' = s + Full /\ s + Full <= Top /\ s \in Where
  <2>1. size' = s + Full
    BY <1>4, <1>5, <1>7, <1>9 DEF Grown
  <2>2. s <= (MaxBlocks - 1) * Block /\ (MaxBlocks - 1) * Block \in Nat /\ MaxBlocks * Block \in Nat
        /\ (MaxBlocks - 1) * Block + Block = MaxBlocks * Block /\ Top = MaxBlocks * Block + Full
    BY <1>1, <1>4, SizesAre
  <2>3. s + Full <= Top
    BY <1>7, <1>9, <2>2
  <2>. QED  BY <1>7, <1>9, <2>1, <2>3 DEF Where
<1>11. ASSUME NEW q \in T
       PROVE  /\ q \in Nat /\ q < s /\ End(q) <= s /\ q + Full <= s /\ Base(q) + Block <= s /\ Base(q) \in Nat
              /\ q \in Where /\ Eff(q) = cells[q]
  <2>1. /\ q \in Nat /\ Base(q) < s /\ Base(q) \in DirBlocks /\ End(q) <= Base(q) + Block /\ q < Base(q) + Block
        /\ Base(q) \in Nat /\ q \in Where /\ End(q) = q + Eff(q).rec_len /\ Eff(q).rec_len \in Nat
    BY <1>3, <1>4, LiesIs
  <2>2. q + Full <= s /\ Eff(q) = cells[q]
    BY <1>2, <1>3, <1>4 DEF Lies, Eff
  <2>3. PICK j \in 0 .. MaxBlocks : Base(q) = j * Block
    BY <2>1, DirBlockIs
  <2>4. j \in Nat
    OBVIOUS
  <2>5. Base(q) + Block <= s
    <3>1. j = k \/ j * Block + Block <= k * Block \/ k * Block + Block <= j * Block
      BY <1>9, <2>4, BlocksApart
    <3>. QED  BY <1>7, <1>8, <1>9, <2>1, <2>3, <3>1
  <2>6. q < s /\ End(q) <= s
    BY <1>7, <1>9, <2>1, <2>5
  <2>. QED  BY <2>1, <2>2, <2>5, <2>6
<1>12. \A q \in Where : q < s => cells'[q] = cells[q]
  <2>. SUFFICES ASSUME NEW q \in Where, q < s PROVE cells'[q] = cells[q]
    OBVIOUS
  <2>1. Image(cells, s, R)[q] = cells[q]
    BY <1>6, <1>7, <1>10, ImageAt
  <2>. QED  BY <1>5, <2>1
<1>13. cells'[s] = R /\ \A q \in s + 1 .. s + Size[n] - 1 : cells'[q] = Text(n)
  <2>1. Image(cells, s, R)[s] = R
    BY <1>6, <1>7, <1>10, ImageAt
  <2>2. ASSUME NEW q \in s + 1 .. s + Size[n] - 1 PROVE Image(cells, s, R)[q] = Text(n)
    <3>1. q \in Where /\ s < q /\ q < s + Size[R.name]
      BY <1>6, <1>7, <1>9, <1>10 DEF Where
    <3>. QED  BY <1>6, <1>7, <1>10, <3>1, ImageAt
  <2>. QED  BY <1>5, <2>1, <2>2
<1>14. PICK U : U = T \cup {s}
  OBVIOUS
<1>15. /\ \A q \in T : cells'[q] = cells[q] /\ Eff(q)' = Eff(q) /\ End(q)' = End(q)
       /\ Eff(s)' = R /\ End(s)' = s + Block /\ s \notin T
  <2>1. \A q \in T : cells'[q] = cells[q]
    BY <1>11, <1>12
  <2>2. \A q \in T : Eff(q)' = Eff(q)
    BY <1>2, <1>11, <2>1 DEF Eff
  <2>3. Eff(s)' = R
    BY <1>2, <1>13 DEF Eff
  <2>4. s \notin T
    BY <1>7, <1>11
  <2>. QED  BY <1>6, <2>1, <2>2, <2>3, <2>4 DEF End
<1>16. DirBlocks' = DirBlocks \cup {s}
  <2>1. ASSUME NEW j \in 0 .. MaxBlocks PROVE j * Block < size' <=> j * Block < size \/ j * Block = s
    <3>1. /\ j \in Nat /\ j * Block \in Nat
          /\ j = k \/ j * Block + Block <= k * Block \/ k * Block + Block <= j * Block
      BY <1>9, BlocksApart
    <3>2. PICK x : x = j * Block
      OBVIOUS
    <3>3. x \in Nat /\ (x = s \/ x + Block <= s \/ s + Block <= x)
      BY <1>8, <3>1, <3>2
    <3>4. x < s + Full <=> x < s \/ x = s
      BY <1>7, <1>9, <3>3
    <3>. QED  BY <1>4, <1>10, <3>2, <3>4
  <2>. QED  BY <1>8, <2>1 DEF DirBlocks
<1>17. Lies(U)'
  <2>1. ASSUME NEW q \in U
        PROVE  /\ q \in Nat /\ Eff(q)' \in Records /\ Base(q) < size'
               /\ End(q)' <= Base(q) + Block
               /\ End(q)' \in U \/ End(q)' = Base(q) + Block
               /\ q + Full <= size' /\ q + Full <= Base(q) + Block
    <3>1. CASE q = s
      BY <1>6, <1>7, <1>9, <1>10, <1>15, <3>1
    <3>2. CASE q # s
      <4>1. q \in T
        BY <1>14, <2>1, <3>2
      <4>2. /\ q \in Nat /\ Eff(q) \in Records /\ Base(q) < size
            /\ End(q) <= Base(q) + Block
            /\ End(q) \in T \/ End(q) = Base(q) + Block
            /\ q + Full <= size /\ q + Full <= Base(q) + Block /\ Base(q) \in Nat
        BY <1>2, <1>3, <1>11, <4>1 DEF Lies
      <4>. QED  BY <1>4, <1>7, <1>9, <1>10, <1>14, <1>15, <4>1, <4>2
    <3>. QED  BY <3>1, <3>2
  <2>2. ASSUME NEW q \in U, NEW z \in U, q < z PROVE End(q)' <= z
    <3>1. q \in T
      <4>. SUFFICES ASSUME q = s PROVE FALSE
        BY <1>14
      <4>1. z = s \/ z < s
        BY <1>11, <1>14
      <4>. QED  BY <1>7, <1>11, <1>14, <2>2, <4>1
    <3>2. CASE z = s
      BY <1>11, <1>15, <3>1, <3>2
    <3>3. CASE z # s
      BY <1>3, <1>14, <1>15, <2>2, <3>1, <3>3 DEF Lies
    <3>. QED  BY <3>2, <3>3
  <2>3. DirBlocks' \subseteq U /\ Half' \subseteq U /\ Half' \cap DirBlocks' = {}
    BY <1>2, <1>3, <1>14, <1>16 DEF Lies
  <2>4. Done(U)' = U
    BY <1>2
  <2>. QED  BY <2>1, <2>2, <2>3, <2>4 DEF Lies, Base
<1>18. listed'[n] = i /\ (\A m \in Names : m # n => listed'[m] = listed[m]) /\ i # 0 /\ listed[n] = 0 /\ i \in Answers
  <2>1. i \in Answers /\ i # 0
    BY DEF Answers
  <2>2. listed[n] = 0
    BY <1>1, QuietLookup
  <2>. QED  BY <1>5, <2>1, <2>2, ListIs
<1>19. \A q \in T : (Live(q)' <=> Live(q)) /\ cells'[q] = cells[q] /\ cells[q].name \in Names
  <2>1. \A q \in T : cells[q].name \in Names
    BY <1>1, <1>2, DoneIs
  <2>. QED  BY <1>15, <2>1 DEF Live
<1>20. \A q \in T : Live(q) => cells[q].name # n /\ listed[cells[q].name] = cells[q].inum
  BY <1>2, <1>3, <1>18 DEF Lists, Live
<1>21. Fits(U)'
  <2>1. ASSUME NEW q \in T, Live(q) PROVE Holds(q)'
    <3>1. Holds(q)
      BY <1>2, <1>3, <2>1 DEF Fits
    <3>2. ASSUME NEW x \in q + 1 .. q + Size[cells[q].name] - 1 PROVE cells'[x] = cells[x]
      <4>1. Size[cells[q].name] \in Nat /\ q \in Nat /\ Size[cells[q].name] <= Full /\ q + Full <= s
        BY <1>11, <1>19, <2>1, SizesAre
      <4>2. x \in Nat /\ x < s
        BY <1>7, <1>9, <4>1
      <4>3. x \in Where
        BY <1>7, <1>9, <1>10, <4>2 DEF Where
      <4>. QED  BY <1>12, <4>2, <4>3
    <3>. QED  BY <1>15, <2>1, <3>1, <3>2 DEF Holds
  <2>2. Holds(s)'
    BY <1>6, <1>9, <1>13 DEF Holds
  <2>3. \A q \in U : Live(q)' => Holds(q)'
    BY <1>14, <1>19, <2>1, <2>2
  <2>. QED  BY <1>1, <1>2, <2>3 DEF Fits
<1>22. Lists(U)'
  <2>1. Live(s)' /\ cells'[s].name = n /\ cells'[s].inum = i
    BY <1>6, <1>13, <1>18 DEF Live
  <2>2. \A q, z \in U : Live(q)' /\ Live(z)' /\ cells'[q].name = cells'[z].name => q = z
    <3>. SUFFICES ASSUME NEW q \in U, NEW z \in U, Live(q)', Live(z)', cells'[q].name = cells'[z].name PROVE q = z
      OBVIOUS
    <3>1. CASE q \in T /\ z \in T
      BY <1>2, <1>3, <1>19, <3>1 DEF Lists
    <3>2. CASE q = s /\ z \in T
      BY <1>19, <1>20, <2>1, <3>2
    <3>3. CASE q \in T /\ z = s
      BY <1>19, <1>20, <2>1, <3>3
    <3>. QED  BY <1>14, <3>1, <3>2, <3>3
  <2>3. \A q \in U : Live(q)' => listed'[cells'[q].name] = cells'[q].inum
    BY <1>14, <1>18, <1>19, <1>20, <2>1
  <2>4. ASSUME NEW m \in Names, listed'[m] # 0 PROVE \E q \in U : Live(q)' /\ cells'[q].name = m
    <3>1. CASE m = n
      BY <1>14, <2>1, <3>1
    <3>2. CASE m # n
      <4>1. PICK q \in T : Live(q) /\ cells[q].name = m
        BY <1>2, <1>3, <1>18, <2>4, <3>2 DEF Lists
      <4>. QED  BY <1>14, <1>19, <4>1
    <3>. QED  BY <3>1, <3>2
  <2>5. Done(U)' = U
    BY <1>2
  <2>. QED  BY <2>2, <2>3, <2>4, <2>5 DEF Lists
<1>23. Ahead(U)'
  <2>1. \A q \in Done(T) : Live(q) => q \in Done(U)' /\ Live(q)' /\ cells'[q].name = cells[q].name
    BY <1>2, <1>14, <1>19
  <2>. QED  BY <1>3, <1>5, <1>18, <2>1, AheadKept
<1>24. Good(U)'
  BY <1>17, <1>21, <1>22, <1>23 DEF Good
<1>. QED  BY <1>24

(***************************************************************************)
(* The steps of dir_remove.                                                *)
(***************************************************************************)

\* After a removal, what was listed still is, under the other names.
LEMMA Unlisted ==
  ASSUME Sane, NEW T, Lists(T), Ahead(T), NEW U, NEW n \in Names, NEW p \in Done(T), Live(p), cells[p].name = n,
         List(n, 0), Done(U)' \subseteq Done(T),
         \A q \in Done(U)' : Live(q)' => Live(q) /\ q # p /\ cells'[q].name = cells[q].name /\ cells'[q].inum = cells[q].inum,
         \A q \in Done(T) : q # p /\ Live(q) => q \in Done(U)' /\ Live(q)' /\ cells'[q].name = cells[q].name,
         \A q \in Done(T) : cells[q].name \in Names
  PROVE  Lists(U)' /\ Ahead(U)'
<1>1. listed'[n] = 0 /\ \A m \in Names : m # n => listed'[m] = listed[m]
  <2>1. 0 \in Answers
    BY DEF Answers
  <2>. QED  BY <2>1, ListIs
<1>2. /\ \A q, z \in Done(T) : Live(q) /\ Live(z) /\ cells[q].name = cells[z].name => q = z
      /\ \A q \in Done(T) : Live(q) => listed[cells[q].name] = cells[q].inum
      /\ \A m \in Names : listed[m] # 0 => \E q \in Done(T) : Live(q) /\ cells[q].name = m
  BY DEF Lists
<1>3. ASSUME NEW q \in Done(U)', Live(q)'
      PROVE  /\ q \in Done(T) /\ Live(q) /\ cells[q].name # n /\ cells'[q].name = cells[q].name
             /\ cells'[q].inum = cells[q].inum /\ listed'[cells[q].name] = cells[q].inum
  <2>1. q \in Done(T) /\ Live(q) /\ q # p /\ cells'[q].name = cells[q].name /\ cells'[q].inum = cells[q].inum
    BY <1>3
  <2>2. cells[q].name # n
    BY <1>2, <2>1
  <2>. QED  BY <1>1, <1>2, <2>1, <2>2
<1>4. \A q, z \in Done(U)' : Live(q)' /\ Live(z)' /\ cells'[q].name = cells'[z].name => q = z
  BY <1>2, <1>3
<1>5. \A q \in Done(U)' : Live(q)' => listed'[cells'[q].name] = cells'[q].inum
  BY <1>3
<1>6. ASSUME NEW m \in Names, listed'[m] # 0 PROVE \E q \in Done(U)' : Live(q)' /\ cells'[q].name = m
  <2>1. m # n /\ listed[m] # 0
    BY <1>1, <1>6
  <2>2. PICK q \in Done(T) : Live(q) /\ cells[q].name = m
    BY <1>2, <2>1
  <2>3. q # p
    BY <2>1, <2>2
  <2>. QED  BY <2>2, <2>3
<1>7. Lists(U)'
  BY <1>4, <1>5, <1>6 DEF Lists
<1>8. Ahead(U)'
  <2>1. \A q \in Done(T) : Live(q) /\ (cells[q].name # n \/ 0 # 0)
          => q \in Done(U)' /\ Live(q)' /\ cells'[q].name = cells[q].name
    OBVIOUS
  <2>2. 0 \in Answers
    BY DEF Answers
  <2>. QED  BY <2>1, <2>2, AheadKept
<1>. QED  BY <1>7, <1>8

\* A removed record becomes part of the one before it.
LEMMA RemoveMergeGood ==
  ASSUME Sane, NEW T, Good(T), NEW n \in Names, RemoveMerge(n), crossed' = {}
  PROVE  \E U : Good(U)'
<1>0. PICK p \in Found(n) : \E q \in Prev(p) :
        /\ cells' = Rewritten(cells, q, Merged(q, p)) /\ size' = Grown(q)
        /\ Cross(Spills(q) \cup (IF q + cells[q].rec_len = p THEN {} ELSE {"skips"}))
  BY DEF RemoveMerge
<1>1. PICK q \in Prev(p) :
        /\ cells' = Rewritten(cells, q, Merged(q, p)) /\ size' = Grown(q)
        /\ Cross(Spills(q) \cup (IF q + cells[q].rec_len = p THEN {} ELSE {"skips"}))
  BY <1>0
<1>2. pending = None /\ pending' = None /\ List(n, 0) /\ DirTypeOK
  BY DEF RemoveMerge, Sane
<1>3. Half = {} /\ Done(T) = T /\ Half' = {} /\ \A U : Done(U)' = U
  BY <1>2 DEF Half, Done
<1>4. Lies(T) /\ Fits(T) /\ Lists(T) /\ Ahead(T)
  BY DEF Good
<1>5. PICK o \in DirBlocks : p \in Walk(o).seen
  BY FoundPassed
<1>6. q \in Walk(o).seen /\ q < p /\ Live(q) /\ Merged(q, p) \in 1 .. Block /\ cells[q].rec_len <= Merged(q, p)
  BY <1>5, PrevIs
<1>7. p \in T /\ q \in T
  <2>1. p \in Passed /\ q \in Passed
    BY <1>5, <1>6 DEF Passed
  <2>. QED  BY <1>2, <2>1, QuietPassed
<1>8. Live(p) /\ cells[p].name = n
  BY <1>2, QuietLookup
<1>9. PICK m, l, k : m = Merged(q, p) /\ l = cells[q].rec_len /\ k = cells[p].rec_len
  OBVIOUS
<1>10. q + l = p /\ m = l + k /\ m \in 1 .. Block /\ m \in Nat /\ l <= m
  <2>1. crossed' = crossed \cup (Spills(q) \cup (IF q + cells[q].rec_len = p THEN {} ELSE {"skips"}))
    BY <1>1 DEF Cross
  <2>2. q + cells[q].rec_len = p
    BY <2>1
  <2>. QED  BY <1>6, <1>9, <2>2 DEF Merged
<1>11. /\ p \in Nat /\ q \in Nat /\ l \in Nat /\ k \in Nat /\ cells[q] \in Records /\ End(p) = p + k /\ End(q) = q + l
       /\ 1 <= k /\ 1 <= l
  BY <1>2, <1>3, <1>7, <1>9, DoneIs
<1>12. /\ size' = size /\ DirBlocks' = DirBlocks
       /\ \A x \in Where : x # q => cells'[x] = cells[x]
       /\ cells'[q] = [cells[q] EXCEPT !.rec_len = m]
  BY <1>1, <1>3, <1>7, <1>9, KeptSize
<1>13. cells'[q] \in Records /\ cells'[q].name = cells[q].name /\ cells'[q].inum = cells[q].inum /\ cells'[q].rec_len = m
  BY <1>10, <1>11, <1>12 DEF Records
<1>14. \A x \in T : x # q => cells'[x] = cells[x]
  BY <1>4, <1>12, LiesIs
<1>15. PICK U : U = T \ {p}
  OBVIOUS
<1>16. /\ \A x \in T : /\ x \in Nat /\ End(x) \in Nat /\ x < End(x) /\ Base(x) \in Nat
                       /\ End(x) \in T \/ End(x) = Base(x) + Block
       /\ \A x, y \in T : x < y => End(x) <= y
  BY <1>4, LiesIs
<1>17. /\ \A x \in T : x # q => Eff(x)' = Eff(x) /\ End(x)' = End(x) /\ Eff(x) = cells[x]
       /\ Eff(q)' = cells'[q] /\ End(q)' = End(p)
  <2>1. ASSUME NEW x \in T, x # q PROVE Eff(x)' = Eff(x) /\ End(x)' = End(x) /\ Eff(x) = cells[x]
    <3>1. Eff(x) = cells[x] /\ Eff(x)' = cells'[x]
      BY <1>3 DEF Eff
    <3>. QED  BY <1>14, <2>1, <3>1 DEF End
  <2>2. Eff(q)' = cells'[q]
    BY <1>3 DEF Eff
  <2>3. End(q)' = q + m
    BY <1>13, <2>2 DEF End
  <2>. QED  BY <1>10, <1>11, <2>1, <2>2, <2>3
<1>18. Base(q) = Base(p) /\ p \notin DirBlocks
  <2>1. Base(q) = o /\ Base(p) = o /\ o <= q /\ o \in Nat
    <3>1. Base(q) = o /\ o <= q
      BY <1>6, PassedIs
    <3>2. Base(p) = o
      BY <1>5, PassedIs
    <3>3. o \in Nat
      BY DirBlockIs
    <3>. QED  BY <3>1, <3>2, <3>3
  <2>2. p # o
    BY <1>6, <1>11, <2>1
  <2>. QED  BY <2>1, <2>2, DirBlockIs
<1>19. Lies(U)'
  <2>1. ASSUME NEW x \in U
        PROVE  /\ x \in Nat /\ Eff(x)' \in Records /\ Base(x) < size'
               /\ End(x)' <= Base(x) + Block
               /\ End(x)' \in U \/ End(x)' = Base(x) + Block
    <3>0. x \in T /\ x # p
      BY <1>15
    <3>1. CASE x = q
      <4>1. End(p) <= Base(p) + Block /\ Base(q) < size /\ (End(p) \in T \/ End(p) = Base(p) + Block)
        BY <1>4, <1>7 DEF Lies
      <4>2. End(p) # p
        BY <1>7, <1>16
      <4>. QED  BY <1>11, <1>12, <1>13, <1>15, <1>17, <1>18, <3>1, <4>1, <4>2
    <3>2. CASE x # q
      <4>1. /\ x \in Nat /\ Eff(x) \in Records /\ Base(x) < size
            /\ End(x) <= Base(x) + Block
            /\ End(x) \in T \/ End(x) = Base(x) + Block
        BY <1>4, <3>0 DEF Lies
      <4>2. End(x) # p
        <5>. SUFFICES ASSUME End(x) = p PROVE FALSE
          OBVIOUS
        <5>1. CASE x < q
          BY <1>6, <1>7, <1>11, <1>16, <3>0, <5>1
        <5>2. CASE q < x
          BY <1>7, <1>10, <1>11, <1>16, <3>0, <5>2
        <5>. QED  BY <1>11, <3>2, <4>1, <5>1, <5>2
      <4>. QED  BY <1>12, <1>15, <1>17, <3>0, <3>2, <4>1, <4>2
    <3>. QED  BY <3>1, <3>2
  <2>2. ASSUME NEW x \in U, NEW z \in U, x < z PROVE End(x)' <= z
    <3>0. x \in T /\ z \in T /\ z # p /\ x # p
      BY <1>15
    <3>1. CASE x = q
      <4>1. End(q) <= z
        BY <1>7, <1>16, <2>2, <3>0, <3>1
      <4>2. p < z
        BY <1>10, <1>11, <1>16, <3>0, <4>1
      <4>3. End(p) <= z
        BY <1>7, <1>16, <3>0, <4>2
      <4>. QED  BY <1>17, <3>1, <4>3
    <3>2. CASE x # q
      BY <1>16, <1>17, <2>2, <3>0, <3>2
    <3>. QED  BY <3>1, <3>2
  <2>3. DirBlocks' \subseteq U /\ Half' \subseteq U /\ Half' \cap DirBlocks' = {}
    BY <1>3, <1>4, <1>12, <1>15, <1>18 DEF Lies
  <2>4. \A x \in Done(U)' : x + Full <= size' /\ x + Full <= Base(x) + Block
    BY <1>3, <1>4, <1>12, <1>15 DEF Lies
  <2>. QED  BY <2>1, <2>2, <2>3, <2>4 DEF Lies, Base
<1>20. \A x \in T : (Live(x)' <=> Live(x)) /\ cells'[x].name = cells[x].name /\ cells'[x].inum = cells[x].inum
  BY <1>13, <1>14 DEF Live
<1>21. Fits(U)'
  <2>1. ASSUME NEW x \in T, Live(x) PROVE Holds(x)'
    <3>1. Holds(x) /\ cells[x].name \in Names /\ cells[x].rec_len \in Nat
      BY <1>2, <1>3, <1>4, <2>1, DoneIs DEF Fits
    <3>2. Size[cells[x].name] \in Nat
      BY <3>1, SizesAre
    <3>3. Size[cells[x].name] <= cells'[x].rec_len
      <4>1. CASE x = q
        BY <1>9, <1>10, <1>11, <1>13, <3>1, <3>2, <4>1 DEF Holds
      <4>2. CASE x # q
        BY <1>14, <2>1, <3>1, <4>2 DEF Holds
      <4>. QED  BY <4>1, <4>2
    <3>. QED  BY <1>3, <1>7, <1>12, <1>20, <2>1, <3>3, KeptHolds
  <2>2. \A x \in U : Live(x)' => Holds(x)'
    BY <1>15, <1>20, <2>1
  <2>. QED  BY <1>2, <1>3, <2>2 DEF Fits
<1>22. Lists(U)' /\ Ahead(U)'
  <2>1. Done(U)' \subseteq Done(T)
    BY <1>3, <1>15
  <2>2. \A x \in Done(U)' : Live(x)' => Live(x) /\ x # p /\ cells'[x].name = cells[x].name /\ cells'[x].inum = cells[x].inum
    BY <1>3, <1>15, <1>20
  <2>3. \A x \in Done(T) : x # p /\ Live(x) => x \in Done(U)' /\ Live(x)' /\ cells'[x].name = cells[x].name
    BY <1>3, <1>15, <1>20
  <2>4. \A x \in Done(T) : cells[x].name \in Names
    BY <1>2, DoneIs
  <2>. QED  BY <1>2, <1>3, <1>4, <1>7, <1>8, <2>1, <2>2, <2>3, <2>4, Unlisted
<1>23. Good(U)'
  BY <1>19, <1>21, <1>22 DEF Good
<1>. QED  BY <1>23

\* The first record of a block keeps its place and its length.
LEMMA RemoveFirstGood ==
  ASSUME Sane, NEW T, Good(T), NEW n \in Names, RemoveFirst(n), crossed' = {}
  PROVE  Good(T)'
<1>1. PICK p \in Found(n) :
        /\ cells' = [Rewritten(cells, p, cells[p].rec_len) EXCEPT ![p].inum = 0]
        /\ size' = Grown(p)
  BY DEF RemoveFirst
<1>2. pending = None /\ pending' = None /\ List(n, 0) /\ DirTypeOK
  BY DEF RemoveFirst, Sane
<1>3. Half = {} /\ Done(T) = T /\ Half' = {} /\ Done(T)' = T
  BY <1>2 DEF Half, Done
<1>4. Lies(T) /\ Fits(T) /\ Lists(T) /\ Ahead(T)
  BY DEF Good
<1>5. p \in T /\ Live(p) /\ cells[p].name = n
  BY <1>2, QuietLookup
<1>6. p \in Nat /\ cells[p] \in Records
  BY <1>2, <1>3, <1>5, DoneIs
<1>7. PICK c : c = Rewritten(cells, p, cells[p].rec_len)
  OBVIOUS
<1>8. /\ size' = size /\ DirBlocks' = DirBlocks /\ p \in Where
      /\ \A x \in Where : x # p => c[x] = cells[x]
      /\ c[p] = [cells[p] EXCEPT !.rec_len = cells[p].rec_len]
  BY <1>1, <1>3, <1>5, <1>7, KeptSize
<1>9. c = [x \in Where |-> c[x]]
  BY <1>7 DEF Rewritten
<1>10. c[p] = cells[p]
  BY <1>6, <1>8 DEF Records
<1>11. cells' = [c EXCEPT ![p].inum = 0]
  BY <1>1, <1>7
<1>12. (\A x \in Where : x # p => cells'[x] = cells[x]) /\ cells'[p] = [cells[p] EXCEPT !.inum = 0]
  <2>1. \A x \in Where : cells'[x] = IF x = p THEN [c[p] EXCEPT !.inum = 0] ELSE c[x]
    BY <1>9, <1>11
  <2>. QED  BY <1>8, <1>10, <2>1
<1>13. /\ cells'[p] \in Records /\ cells'[p].name = cells[p].name /\ cells'[p].inum = 0
       /\ cells'[p].rec_len = cells[p].rec_len
  BY <1>6, <1>12 DEF Records
<1>14. \A x \in T : x # p => cells'[x] = cells[x]
  BY <1>4, <1>12, LiesIs
<1>15. \A x \in T : Eff(x)' \in Records /\ End(x)' = End(x)
  <2>. SUFFICES ASSUME NEW x \in T PROVE Eff(x)' \in Records /\ End(x)' = End(x)
    OBVIOUS
  <2>1. Eff(x) = cells[x] /\ Eff(x)' = cells'[x] /\ Eff(x) \in Records
    BY <1>3, <1>4 DEF Eff, Lies
  <2>. QED  BY <1>13, <1>14, <2>1 DEF End
<1>16. Lies(T)'
  <2>1. \A x \in T : /\ x \in Nat /\ Eff(x)' \in Records /\ Base(x) < size'
                     /\ End(x)' <= Base(x) + Block
                     /\ End(x)' \in T \/ End(x)' = Base(x) + Block
    BY <1>4, <1>8, <1>15 DEF Lies
  <2>2. \A x, z \in T : x < z => End(x)' <= z
    BY <1>4, <1>15 DEF Lies
  <2>3. DirBlocks' \subseteq T /\ Half' \subseteq T /\ Half' \cap DirBlocks' = {}
    BY <1>3, <1>4, <1>8 DEF Lies
  <2>4. \A x \in Done(T)' : x + Full <= size' /\ x + Full <= Base(x) + Block
    BY <1>3, <1>4, <1>8 DEF Lies
  <2>. QED  BY <2>1, <2>2, <2>3, <2>4 DEF Lies, Base
<1>17. ~Live(p)' /\ \A x \in T : x # p => (Live(x)' <=> Live(x)) /\ cells'[x] = cells[x]
  BY <1>13, <1>14 DEF Live
<1>18. Fits(T)'
  <2>1. ASSUME NEW x \in T, Live(x)' PROVE Holds(x)'
    <3>1. x # p /\ Live(x) /\ cells'[x] = cells[x]
      BY <1>17, <2>1
    <3>2. Size[cells[x].name] <= cells'[x].rec_len
      BY <1>3, <1>4, <3>1 DEF Fits, Holds
    <3>. QED  BY <1>3, <1>5, <1>12, <3>1, <3>2, KeptHolds
  <2>. QED  BY <1>2, <1>3, <2>1 DEF Fits
<1>19. Lists(T)' /\ Ahead(T)'
  <2>1. Done(T)' \subseteq Done(T)
    BY <1>3
  <2>2. \A x \in Done(T)' : Live(x)' => Live(x) /\ x # p /\ cells'[x].name = cells[x].name /\ cells'[x].inum = cells[x].inum
    BY <1>3, <1>17
  <2>3. \A x \in Done(T) : x # p /\ Live(x) => x \in Done(T)' /\ Live(x)' /\ cells'[x].name = cells[x].name
    BY <1>3, <1>17
  <2>4. \A x \in Done(T) : cells[x].name \in Names
    BY <1>2, DoneIs
  <2>. QED  BY <1>2, <1>3, <1>4, <1>5, <2>1, <2>2, <2>3, <2>4, Unlisted
<1>. QED  BY <1>16, <1>18, <1>19 DEF Good

(***************************************************************************)
(* The steps of the lookups.                                               *)
(***************************************************************************)

\* A lookup that reads a block not between the two writes of a split finds the
\* record of its name if this lies there.
LEMMA HitsRecord ==
  ASSUME Sane, NEW T, Good(T), NEW r \in Readers, reader[r].blk >= 0, ~MidSplit(r),
         reader[r].blk * Block < size
  PROVE  LET o == reader[r].blk * Block IN
         /\ \A p \in Hits(o, reader[r].name) : p \in Done(T) /\ Live(p) /\ cells[p].name = reader[r].name
         /\ \A p \in Done(T) : Live(p) /\ cells[p].name = reader[r].name /\ o <= p /\ p < o + Block
              => Hits(o, reader[r].name) # {}
<1>1. DirTypeOK
  BY DEF Sane
<1>2. PICK k, o, n : k = reader[r].blk /\ o = k * Block /\ n = reader[r].name
  OBVIOUS
<1>3. o \in DirBlocks /\ k \in Nat /\ n \in Names /\ o \in Nat
  <2>1. reader[r].blk * Block \in DirBlocks /\ reader[r].blk \in 0 .. MaxBlocks
    BY ReadBlockIs
  <2>2. n \in Names
    BY <1>2 DEF Sane, Asks
  <2>3. o \in DirBlocks /\ k \in Nat
    BY <1>2, <2>1
  <2>. QED  BY <2>2, <2>3, DirBlockIs
<1>4. \A p \in Half : ~(o <= p /\ p < o + Block)
  <2>. SUFFICES ASSUME NEW p \in Half, o <= p, p < o + Block PROVE FALSE
    OBVIOUS
  <2>1. pending # None /\ p = pending.at
    BY DEF Half
  <2>2. p \in Nat
    BY <2>1, PendingIs
  <2>3. p \div Block = k
    BY <1>2, <1>3, <2>2, BaseOf
  <2>. QED  BY <1>2, <2>1, <2>3 DEF MidSplit
<1>5. Walk(o).seen = {p \in T : o <= p /\ p < o + Block} /\ Walk(o).seen \subseteq Done(T)
  BY <1>1, <1>3, <1>4, QuietBlock
<1>6. \A p \in Walk(o).seen : Named(p, n) <=> Live(p) /\ cells[p].name = n
  BY <1>1, <1>3, <1>5, NamedIs
<1>. DEFINE S == {p \in Walk(o).seen : Named(p, n)}
<1>7. \A p \in Hits(o, n) : p \in S
  BY DEF Hits, First
<1>8. \A p \in Hits(o, n) : p \in Done(T) /\ Live(p) /\ cells[p].name = n
  BY <1>5, <1>6, <1>7
<1>9. \A p \in Done(T) : Live(p) /\ cells[p].name = n /\ o <= p /\ p < o + Block => Hits(o, n) # {}
  <2>. SUFFICES ASSUME NEW p \in Done(T), Live(p), cells[p].name = n, o <= p, p < o + Block PROVE Hits(o, n) # {}
    OBVIOUS
  <2>1. p \in S
    BY <1>5, <1>6 DEF Done
  <2>2. S \in SUBSET Nat
    <3>1. \A x \in T : x \in Nat
      BY DEF Good, Lies
    <3>. QED  BY <1>5, <3>1
  <2>3. Hits(o, n) = First(S)
    BY DEF Hits
  <2>. HIDE DEF S
  <2>. QED  BY <2>1, <2>2, <2>3, FirstIs
<1>. QED  BY <1>2, <1>8, <1>9

\* What only lookups read stays good.
LEMMA StillGood ==
  ASSUME NEW T, Good(T), UNCHANGED <<cells, size, pending, listed>>
  PROVE  Lies(T)' /\ Fits(T)' /\ Lists(T)' /\ Done(T)' = Done(T)
<1>1. Lies(T) /\ Fits(T) /\ Lists(T)
  BY DEF Good
<1>2. Half' = Half /\ DirBlocks' = DirBlocks
  BY DEF Half, DirBlocks
<1>3. ASSUME NEW p PROVE Eff(p)' = Eff(p) /\ End(p)' = End(p)
  BY <1>2 DEF Eff, End
<1>4. ASSUME NEW p PROVE Live(p)' = Live(p) /\ Holds(p)' = Holds(p)
  BY DEF Live, Holds
<1>5. Done(T)' = Done(T)
  BY <1>2 DEF Done
<1>6. Lies(T)'
  BY <1>1, <1>2, <1>3, <1>5 DEF Lies
<1>7. Fits(T)'
  BY <1>1, <1>4, <1>5 DEF Fits
<1>8. Lists(T)'
  BY <1>1, <1>5 DEF Lists, Live
<1>. QED  BY <1>5, <1>6, <1>7, <1>8

\* A lookup that begins has everything ahead.
LEMMA LookupBeginGood ==
  ASSUME Sane, NEW T, Good(T), NEW r \in Readers, NEW n \in Names, LookupBegin(r, n)
  PROVE  Good(T)'
<1>1. PICK v : v = [name |-> n, blk |-> 0, may |-> {listed[n]}, raced |-> FALSE, answer |-> 0]
  OBVIOUS
<1>2. UNCHANGED <<cells, size, pending, listed, crossed>> /\ reader' = [reader EXCEPT ![r] = v]
  BY <1>1 DEF LookupBegin
<1>3. reader'[r] = v /\ \A s \in Readers : s # r => reader'[s] = reader[s]
  BY <1>2 DEF Sane, DirTypeOK
<1>4. Lies(T)' /\ Fits(T)' /\ Lists(T)' /\ Done(T)' = Done(T)
  BY <1>2, StillGood
<1>5. ASSUME NEW s \in Readers, reader'[s].blk >= 0, ~reader'[s].raced, 0 \notin reader'[s].may
      PROVE  Before(T, s)'
  <2>1. CASE s # r
    <3>1. Before(T, s)
      BY <1>3, <1>5, <2>1 DEF Good, Ahead
    <3>. QED  BY <1>2, <1>3, <1>4, <2>1, <3>1 DEF Before, Live
  <2>2. CASE s = r
    <3>1. reader'[s].name = n /\ reader'[s].blk = 0 /\ listed[n] # 0
      BY <1>1, <1>3, <1>5, <2>2
    <3>2. PICK p \in Done(T) : Live(p) /\ cells[p].name = n
      BY <3>1 DEF Good, Lists
    <3>3. p \in Nat /\ 0 * Block = 0
      BY DoneIs, SizesAre DEF Sane
    <3>4. 0 * Block <= p
      BY <3>3
    <3>. QED  BY <1>2, <1>4, <3>1, <3>2, <3>4 DEF Before, Live
  <2>. QED  BY <2>1, <2>2
<1>6. Ahead(T)'
  BY <1>5 DEF Ahead
<1>. QED  BY <1>4, <1>6 DEF Good

\* One that goes on has left no record of its name behind.
LEMMA LookupBlockGood ==
  ASSUME Sane, NEW T, Good(T), NEW r \in Readers, LookupBlock(r)
  PROVE  Good(T)'
<1>1. /\ reader[r].blk >= 0 /\ UNCHANGED <<cells, size, pending, listed, crossed>>
      /\ \A s \in Readers : s # r => reader'[s] = reader[s]
  BY LookupBlockIs
<1>2. Lies(T)' /\ Fits(T)' /\ Lists(T)' /\ Done(T)' = Done(T)
  BY <1>1, StillGood
<1>3. ASSUME NEW s \in Readers, reader'[s].blk >= 0, ~reader'[s].raced, 0 \notin reader'[s].may
      PROVE  Before(T, s)'
  <2>1. CASE s # r
    <3>1. Before(T, s)
      BY <1>1, <1>3, <2>1 DEF Good, Ahead
    <3>. QED  BY <1>1, <1>2, <2>1, <3>1 DEF Before, Live
  <2>2. CASE s = r
    <3>1. \A i : ~(Idle(i).blk >= 0)
      BY DEF Idle
    <3>2. /\ reader[r].blk * Block < size /\ Hits(reader[r].blk * Block, reader[r].name) = {}
          /\ reader'[r].blk = reader[r].blk + 1 /\ reader'[r].raced = (reader[r].raced \/ MidSplit(r))
          /\ reader'[r].may = reader[r].may /\ reader'[r].name = reader[r].name
      BY <1>3, <2>2, <3>1, LookupBlockIs
    <3>3. ~reader[r].raced /\ ~MidSplit(r) /\ 0 \notin reader[r].may
      BY <1>3, <2>2, <3>2
    <3>4. Before(T, r)
      BY <1>1, <3>3 DEF Good, Ahead
    <3>5. PICK p \in Done(T) : Live(p) /\ cells[p].name = reader[r].name /\ reader[r].blk * Block <= p
      BY <3>4 DEF Before
    <3>6. ~(p < reader[r].blk * Block + Block)
      <4>. SUFFICES ASSUME p < reader[r].blk * Block + Block PROVE FALSE
        OBVIOUS
      <4>1. Hits(reader[r].blk * Block, reader[r].name) # {}
        BY <1>1, <3>2, <3>3, <3>5, HitsRecord
      <4>. QED  BY <3>2, <4>1
    <3>7. (reader[r].blk + 1) * Block <= p
      <4>1. reader[r].blk \in 0 .. MaxBlocks
        BY <1>1, <3>2, ReadBlockIs
      <4>2. PICK k : k = reader[r].blk
        OBVIOUS
      <4>3. k \in Nat
        BY <4>1, <4>2
      <4>4. k * Block \in Nat /\ (k + 1) * Block = k * Block + Block
        BY <4>3, BlocksApart
      <4>5. ~(p < k * Block + Block) /\ p \in Nat /\ Block \in Nat
        BY <3>6, <4>2, DoneIs, SizesAre DEF Sane
      <4>6. (k + 1) * Block <= p
        BY <4>4, <4>5
      <4>. QED  BY <4>2, <4>6
    <3>. QED  BY <1>1, <1>2, <2>2, <3>2, <3>5, <3>7 DEF Before, Live
  <2>. QED  BY <2>1, <2>2
<1>4. Ahead(T)'
  BY <1>3 DEF Ahead
<1>. QED  BY <1>2, <1>4 DEF Good

(***************************************************************************)
(* The theorems.                                                           *)
(***************************************************************************)

\* An empty directory has no records.
LEMMA DirInvInit ==
  ASSUME DirInit
  PROVE  DirInv
<1>1. /\ cells = [q \in Where |-> Zero] /\ size = 0 /\ pending = None /\ listed = [n \in Names |-> 0]
      /\ reader = [r \in Readers |-> Idle(0)] /\ crossed = {}
  BY DEF DirInit
<1>2. Idle(0) \in Lookups /\ Idle(0).blk < 0
  <2>1. -1 \in -1 .. MaxBlocks + 1
    OBVIOUS
  <2>. QED  BY <2>1 DEF Idle, Lookups, Answers
<1>3. DirTypeOK
  <2>1. cells \in [Where -> Cells]
    BY <1>1 DEF Cells
  <2>2. size \in 0 .. Top
    BY <1>1, SizesAre
  <2>3. listed \in [Names -> Answers]
    BY <1>1 DEF Answers
  <2>4. reader \in [Readers -> Lookups]
    BY <1>1, <1>2
  <2>. QED  BY <1>1, <2>1, <2>2, <2>3, <2>4 DEF DirTypeOK
<1>4. \A r \in Readers : reader[r].blk = -1
  BY <1>1 DEF Idle
<1>5. \A r \in Readers : ~(reader[r].blk >= 0)
  BY <1>4
<1>6. Asks
  BY <1>5 DEF Asks
<1>7. Places
  BY <1>1 DEF Places, Zero
<1>8. DirBlocks = {}
  <2>1. ASSUME NEW k \in 0 .. MaxBlocks PROVE ~(k * Block < size)
    <3>1. k * Block \in Nat
      BY BlocksApart
    <3>. QED  BY <1>1, <3>1
  <2>. QED  BY <2>1 DEF DirBlocks
<1>9. Half = {} /\ Done({}) = {}
  BY <1>1 DEF Half, Done
<1>10. Lies({})
  BY <1>8, <1>9 DEF Lies
<1>11. Fits({})
  BY <1>1, <1>9 DEF Fits
<1>12. Lists({})
  BY <1>1, <1>9 DEF Lists
<1>13. Ahead({})
  BY <1>5 DEF Ahead
<1>14. Good({})
  BY <1>10, <1>11, <1>12, <1>13 DEF Good
<1>. QED  BY <1>3, <1>6, <1>7, <1>14 DEF DirInv, Sane

\* Within the limits, every step leaves the records so.
LEMMA GoodStep ==
  ASSUME Sane, NEW T, Good(T), DirNext, crossed' = {}
  PROVE  \E U : Good(U)'
<1>1. ASSUME Good(T)' PROVE \E U : Good(U)'
  BY <1>1
<1>2. CASE \E n \in Names, i \in Inums : AddSplit(n, i) \/ AddReuse(n, i) \/ AddAppend(n, i)
  <2>1. PICK n \in Names, i \in Inums : AddSplit(n, i) \/ AddReuse(n, i) \/ AddAppend(n, i)
    BY <1>2
  <2>2. CASE AddSplit(n, i)
    BY <2>2, AddSplitGood
  <2>3. CASE AddReuse(n, i)
    BY <1>1, <2>3, AddReuseGood
  <2>4. CASE AddAppend(n, i)
    BY <2>4, AddAppendGood
  <2>. QED  BY <2>1, <2>2, <2>3, <2>4
<1>3. CASE AddSecond
  BY <1>1, <1>3, AddSecondGood
<1>4. CASE AddFault
  BY <1>4 DEF AddFault, Cross
<1>5. CASE \E n \in Names : RemoveMerge(n) \/ RemoveFirst(n)
  <2>1. PICK n \in Names : RemoveMerge(n) \/ RemoveFirst(n)
    BY <1>5
  <2>2. CASE RemoveMerge(n)
    BY <2>2, RemoveMergeGood
  <2>3. CASE RemoveFirst(n)
    BY <1>1, <2>3, RemoveFirstGood
  <2>. QED  BY <2>1, <2>2, <2>3
<1>6. CASE \E r \in Readers : Resolve(r)
  BY <1>1, <1>6, LookupBeginGood, LookupBlockGood DEF Resolve
<1>. QED  BY <1>2, <1>3, <1>4, <1>5, <1>6 DEF DirNext, Add, Remove

\* A limit that has been crossed stays so.
LEMMA CrossedStays ==
  ASSUME [DirNext]_dirVars, crossed' = {}
  PROVE  crossed = {}
BY DEF DirNext, dirVars, Add, Remove, Resolve, AddSplit, AddReuse, AddAppend, AddSecond, AddFault, RemoveMerge,
       RemoveFirst, LookupBegin, LookupBlock, PutRecord, Cross

\* The invariant.
LEMMA DirInvStep ==
  ASSUME DirInv, [DirNext]_dirVars
  PROVE  DirInv'
<1>1. Sane /\ Sane'
  BY SaneStep DEF DirInv
<1>2. ASSUME crossed' = {} PROVE \E T : Good(T)'
  <2>1. crossed = {}
    BY <1>2, CrossedStays
  <2>2. PICK T : Good(T)
    BY <2>1 DEF DirInv, WithinLimits
  <2>3. CASE DirNext
    BY <1>1, <1>2, <2>2, <2>3, GoodStep
  <2>4. CASE UNCHANGED dirVars
    <3>1. UNCHANGED <<cells, size, pending, listed>> /\ reader' = reader
      BY <2>4 DEF dirVars
    <3>2. Lies(T)' /\ Fits(T)' /\ Lists(T)' /\ Done(T)' = Done(T)
      BY <2>2, <3>1, StillGood
    <3>3. \A r \in Readers : Before(T, r) => Before(T, r)'
      BY <3>1, <3>2 DEF Before, Live
    <3>4. Ahead(T)'
      BY <2>2, <3>1, <3>3 DEF Good, Ahead
    <3>5. Good(T)'
      BY <3>2, <3>4 DEF Good
    <3>. QED  BY <3>5
  <2>. QED  BY <2>3, <2>4
<1>. QED  BY <1>1, <1>2 DEF DirInv, WithinLimits

\* It holds throughout.
LEMMA DirInvariant == DirSpec => []DirInv
<1>1. DirInit => DirInv
  BY DirInvInit
<1>2. DirInv /\ [DirNext]_dirVars => DirInv'
  BY DirInvStep
<1>. QED  BY <1>1, <1>2, PTL DEF DirSpec

\* dir_add and dir_remove keep the records of every block one behind the other
\* from its start to its end, whatever the sizes of names and blocks: splitting,
\* reusing and merging (src/directory.c) lose no space and give none to two.
THEOREM RecordsTile == DirSpec => []Tiled
<1>1. DirInv => Tiled
  <2>. SUFFICES ASSUME DirInv, WithinLimits, pending = None, NEW o \in DirBlocks
                PROVE  Walk(o).next = o + Block
    BY DEF Tiled
  <2>1. PICK T : Good(T)
    BY DEF DirInv
  <2>2. Half = {} /\ DirTypeOK
    BY DEF Half, DirInv, Sane
  <2>. QED  BY <2>1, <2>2, QuietBlock
<1>. QED  BY <1>1, DirInvariant, PTL

\* Every name that was added and not removed is found with its inode number, and
\* listed exactly once; no removed name is (dir_lookup and dir_iterate of
\* src/directory.c), for any names and any length of the directory's life.
THEOREM NamesAreFaithful == DirSpec => []Faithful
<1>1. DirInv => Faithful
  <2>. SUFFICES ASSUME DirInv PROVE Faithful
    OBVIOUS
  <2>1. DirTypeOK
    BY DEF DirInv, Sane
  <2>2. ASSUME WithinLimits, pending = None, NEW n \in Names
        PROVE  /\ Lookup(n) = listed[n]
               /\ Cardinality(Reported(n)) = IF listed[n] = 0 THEN 0 ELSE 1
    <3>1. PICK T : Good(T)
      BY <2>2 DEF DirInv
    <3>2. /\ Lookup(n) = listed[n] /\ Reported(n) = Found(n)
          /\ \A x, y \in Found(n) : x = y
          /\ Found(n) = {} <=> listed[n] = 0
      BY <2>1, <2>2, <3>1, QuietLookup
    <3>3. CASE listed[n] = 0
      BY <3>2, <3>3, FS_EmptySet
    <3>4. CASE listed[n] # 0
      <4>1. PICK x \in Found(n) : TRUE
        BY <3>2, <3>4
      <4>2. Found(n) = {x}
        BY <3>2, <4>1
      <4>. QED  BY <3>2, <3>4, <4>2, FS_Singleton
    <3>. QED  BY <3>2, <3>3, <3>4
  <2>. QED  BY <2>1, <2>2 DEF Faithful
<1>. QED  BY <1>1, DirInvariant, PTL

\* A lookup that ends answers what its name stood for at a moment while it ran,
\* or read a block between the two writes of a split.
LEMMA LookupAnswers ==
  ASSUME DirInv, [DirNext]_dirVars, WithinLimits, NEW r \in Readers,
         reader[r].blk >= 0, reader'[r].blk < 0, ~reader[r].raced, ~MidSplit(r)
  PROVE  reader'[r].answer \in reader[r].may
<1>1. Sane
  BY DEF DirInv
<1>2. PICK T : Good(T)
  BY DEF DirInv
<1>3. reader[r].blk \in Int
  <2>1. reader[r] \in Lookups
    BY <1>1 DEF Sane, DirTypeOK
  <2>2. reader[r].blk \in -1 .. MaxBlocks + 1
    BY <2>1 DEF Lookups
  <2>. QED  BY <2>2
<1>4. ~(reader'[r].blk = reader[r].blk)
  BY <1>3
<1>5. ~(\E n \in Names, i \in Answers : List(n, i))
  BY <1>1, <1>4, ListIs
<1>6. LookupBlock(r)
  <2>1. DirNext
    BY <1>4 DEF dirVars
  <2>2. ~Add
    <3>. SUFFICES ASSUME Add PROVE FALSE
      OBVIOUS
    <3>1. CASE \E n \in Names, i \in Inums : AddSplit(n, i)
      BY <1>4, <3>1 DEF AddSplit
    <3>2. CASE \E n \in Names, i \in Inums : AddReuse(n, i) \/ AddAppend(n, i)
      <4>1. PICK n \in Names, i \in Inums : AddReuse(n, i) \/ AddAppend(n, i)
        BY <3>2
      <4>2. \E l, p : PutRecord(p, Rec(n, i, l))
        BY <4>1 DEF AddReuse, AddAppend
      <4>3. List(n, i)
        BY <4>2 DEF PutRecord, Rec
      <4>. QED  BY <1>5, <4>3 DEF Answers
    <3>3. CASE AddSecond
      <4>1. List(pending.rec.name, pending.rec.inum) /\ pending # None
        BY <3>3 DEF AddSecond, PutRecord
      <4>2. pending.rec \in Records
        BY <1>1, <4>1, PendingIs
      <4>3. pending.rec.name \in Names /\ pending.rec.inum \in Answers
        BY <4>2 DEF Records, Answers
      <4>. QED  BY <1>5, <4>1, <4>3
    <3>4. CASE AddFault
      BY <1>4, <3>4 DEF AddFault
    <3>. QED  BY <3>1, <3>2, <3>3, <3>4 DEF Add
  <2>3. ~Remove
    BY <1>5 DEF Remove, RemoveMerge, RemoveFirst, Answers
  <2>4. PICK s \in Readers : Resolve(s)
    BY <2>1, <2>2, <2>3 DEF DirNext
  <2>5. ~(\E n \in Names : LookupBegin(s, n))
    <3>. SUFFICES ASSUME NEW n \in Names, LookupBegin(s, n) PROVE FALSE
      OBVIOUS
    <3>1. reader[s].blk < 0
      BY DEF LookupBegin
    <3>2. s # r
      BY <1>3, <3>1
    <3>3. reader'[r] = reader[r]
      BY <1>1, <3>2 DEF LookupBegin, Sane, DirTypeOK
    <3>. QED  BY <1>4, <3>3
  <2>6. LookupBlock(s)
    BY <2>4, <2>5 DEF Resolve
  <2>7. s = r
    BY <1>1, <1>4, <2>6, LookupBlockIs
  <2>. QED  BY <2>6, <2>7
<1>7. reader[r].name \in Names /\ listed[reader[r].name] \in reader[r].may
  BY <1>1 DEF Sane, Asks
<1>8. CASE reader[r].blk * Block >= size /\ reader'[r] = Idle(0)
  <2>1. reader'[r].answer = 0
    BY <1>8 DEF Idle
  <2>2. 0 \in reader[r].may
    <3>. SUFFICES ASSUME 0 \notin reader[r].may PROVE FALSE
      OBVIOUS
    <3>1. PICK p \in Done(T) : reader[r].blk * Block <= p
      BY <1>2 DEF Good, Ahead, Before
    <3>2. p \in Nat /\ p + Full <= size /\ size \in Nat /\ Full \in Nat /\ Full > 0
      BY <1>1, <1>2, DoneIs, SizesAre DEF Sane, DirTypeOK, Good, Lies
    <3>3. PICK x : x = reader[r].blk * Block
      OBVIOUS
    <3>4. x \in Int
      <4>1. Block \in Int
        BY SizesAre
      <4>. QED  BY <1>3, <3>3, <4>1
    <3>5. x <= p /\ x >= size
      BY <1>8, <3>1, <3>3
    <3>. QED  BY <3>2, <3>4, <3>5
  <2>. QED  BY <2>1, <2>2
<1>9. CASE reader'[r].blk = reader[r].blk + 1
  BY <1>3, <1>9
<1>10. CASE /\ reader[r].blk * Block < size
            /\ \E p \in Hits(reader[r].blk * Block, reader[r].name) : reader'[r] = Idle(cells[p].inum)
  <2>1. PICK p \in Hits(reader[r].blk * Block, reader[r].name) : reader'[r] = Idle(cells[p].inum)
    BY <1>10
  <2>2. p \in Done(T) /\ Live(p) /\ cells[p].name = reader[r].name
    BY <1>1, <1>2, <1>10, <2>1, HitsRecord
  <2>3. listed[cells[p].name] = cells[p].inum
    BY <1>2, <2>2 DEF Good, Lists
  <2>4. reader'[r].answer = cells[p].inum
    BY <2>1 DEF Idle
  <2>. QED  BY <1>7, <2>2, <2>3, <2>4
<1>. QED  BY <1>1, <1>6, <1>8, <1>9, <1>10, LookupBlockIs

\* Path resolution takes no lock on the directory it looks in (path_resolve of
\* src/path.c, dir_lookup of src/directory.c): its answer was nevertheless true
\* at some moment while it ran, whatever was added and removed between the blocks
\* it read, outside the moment between the two writes of a split.
THEOREM LookupsAreTruthful == DirSpec => LookupTruthful
<1>1. DirInv /\ [DirNext]_dirVars =>
        [WithinLimits =>
           \A r \in Readers :
             reader[r].blk >= 0 /\ reader'[r].blk < 0 /\ ~reader[r].raced /\ ~MidSplit(r)
             => reader'[r].answer \in reader[r].may]_dirVars
  BY LookupAnswers
<1>. QED  BY <1>1, DirInvariant, PTL DEF DirSpec, LookupTruthful
====
