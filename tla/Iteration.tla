----------------------------- MODULE Iteration -----------------------------
(***************************************************************************)
(* Induction over the naturals for sets, and what it gives: a function     *)
(* that iterates a step exists, so that a recursive function is one.  Then *)
(* the loops that more than one module has.                                *)
(***************************************************************************)
EXTENDS Integers, FiniteSetTheorems, WellFoundedInduction, TLAPS

\* A set of naturals that is not empty has a least element.
LEMMA Least ==
  ASSUME NEW S \in SUBSET Nat, S # {}
  PROVE  \E n \in S : \A m \in S : n <= m
<1>. DEFINE R == {ss \in Nat \X Nat : ss[1] < ss[2]}
<1>1. IsWellFoundedOn(R, Nat)
  BY NatLessThanWellFounded DEF OpToRel
<1>2. \E x \in S : \A y \in S : ~ (<<y, x>> \in R)
  <2>. HIDE DEF R
  <2>. QED  BY <1>1, WFMin
<1>3. \A x, y \in S : ~ (<<y, x>> \in R) => x <= y
  OBVIOUS
<1>. QED  BY <1>2, <1>3

\* Induction: a set with 0 and with the successor of each of its numbers has all.
LEMMA SetInduction ==
  ASSUME NEW S, 0 \in S, \A n \in Nat : n \in S => n + 1 \in S
  PROVE  \A n \in Nat : n \in S
<1>. DEFINE Missing == {n \in Nat : n \notin S}
<1>1. ASSUME Missing # {} PROVE FALSE
  <2>1. PICK n \in Missing : \A m \in Missing : n <= m
    <3>. HIDE DEF Missing
    <3>1. Missing \in SUBSET Nat
      BY DEF Missing
    <3>. QED  BY <1>1, <3>1, Least
  <2>2. n # 0 /\ n - 1 \in Nat /\ n - 1 \in S
    BY <2>1
  <2>. QED  BY <2>1, <2>2
<1>. QED  BY <1>1

\* The same up to a bound.
LEMMA BoundedInduction ==
  ASSUME NEW N \in Nat, NEW S, 0 \in S, \A n \in 0 .. N - 1 : n \in S => n + 1 \in S
  PROVE  \A n \in 0 .. N : n \in S
<1>. DEFINE U == {n \in Nat : n <= N => n \in S}
<1>1. 0 \in U /\ \A n \in Nat : n \in U => n + 1 \in U
  OBVIOUS
<1>2. \A n \in Nat : n \in U
  <2>. HIDE DEF U
  <2>. QED  BY <1>1, SetInduction
<1>. QED  BY <1>2

\* Iterating a step N times.
Iterates(f, n, T, base, step) ==
  /\ f \in [0 .. n -> T]
  /\ f[0] = base
  /\ \A i \in 1 .. n : f[i] = step[<<i, f[i - 1]>>]

\* A step can be iterated.
LEMMA IterationExists ==
  ASSUME NEW N \in Nat, NEW T, NEW base \in T, NEW step \in [(1 .. N) \X T -> T]
  PROVE  \E f : Iterates(f, N, T, base, step)
<1>. DEFINE S == {n \in 0 .. N : \E f : Iterates(f, n, T, base, step)}
<1>1. 0 \in S
  <2>1. Iterates([i \in 0 .. 0 |-> base], 0, T, base, step)
    BY DEF Iterates
  <2>. QED  BY <2>1
<1>2. ASSUME NEW n \in 0 .. N - 1, n \in S PROVE n + 1 \in S
  <2>1. PICK f : Iterates(f, n, T, base, step)
    BY <1>2
  <2>. DEFINE x == step[<<n + 1, f[n]>>]
              g == [i \in 0 .. n + 1 |-> IF i = n + 1 THEN x ELSE f[i]]
  <2>2. x \in T
    BY <2>1 DEF Iterates
  <2>3. g \in [0 .. n + 1 -> T] /\ g[0] = base
    BY <2>1, <2>2 DEF Iterates
  <2>4. ASSUME NEW i \in 1 .. n + 1 PROVE g[i] = step[<<i, g[i - 1]>>]
    <3>1. g[i - 1] = f[i - 1]
      OBVIOUS
    <3>2. CASE i = n + 1
      <4>1. g[i] = x /\ i - 1 = n
        BY <3>2
      <4>. QED  BY <3>1, <3>2, <4>1
    <3>3. CASE i # n + 1
      BY <2>1, <3>1, <3>3 DEF Iterates
    <3>. QED  BY <3>2, <3>3
  <2>5. Iterates(g, n + 1, T, base, step)
    <3>. HIDE DEF g
    <3>. QED  BY <2>3, <2>4 DEF Iterates
  <2>. QED  BY <2>5
<1>3. N \in S
  <2>. HIDE DEF S
  <2>. QED  BY <1>1, <1>2, BoundedInduction
<1>. QED  BY <1>3

\* What is taken from a finite set and what remains add up.
LEMMA Parts ==
  ASSUME NEW S, IsFiniteSet(S), NEW T \in SUBSET S
  PROVE  Cardinality(S) = Cardinality(S \ T) + Cardinality(T)
<1>1. IsFiniteSet(S \ T) /\ IsFiniteSet(T)
  BY FS_Subset
<1>2. (S \ T) \cap T = {} /\ (S \ T) \cup T = S
  OBVIOUS
<1>. DEFINE a == Cardinality(S \ T)
            b == Cardinality(T)
            both == Cardinality((S \ T) \cap T)
            all == Cardinality((S \ T) \cup T)
<1>3. all = a + b - both
  BY <1>1, FS_Union
<1>4. both = 0
  BY <1>2, FS_EmptySet
<1>5. a \in Nat /\ b \in Nat
  BY <1>1, FS_CardinalityType
<1>6. all = a + b
  <2>. HIDE DEF a, b, both, all
  <2>. QED  BY <1>3, <1>4, <1>5
<1>. QED  BY <1>2, <1>6

(***************************************************************************)
(* A search for a run, as both allocators write it: a cursor goes over     *)
(* the offsets, counts the open ones since the last that is not, and       *)
(* stops as soon as there are count of them.  pos[o] is what offset o      *)
(* stands for.                                                             *)
(***************************************************************************)

Cursors == [len : Nat, start : Nat, hit : BOOLEAN]
Nothing == [len |-> 0, start |-> 0, hit |-> FALSE]

\* the body of the loop
NextCursor(open, pos, count, i, p) ==
  IF p.hit THEN p
  ELSE IF i - 1 \notin open THEN [len |-> 0, start |-> p.start, hit |-> FALSE]
  ELSE [len |-> p.len + 1, start |-> IF p.len = 0 THEN pos[i - 1] ELSE p.start,
        hit |-> p.len + 1 >= count]

\* It gives a cursor.
LEMMA LookType ==
  ASSUME NEW N \in Nat, NEW open \in SUBSET (0 .. N - 1), NEW pos \in [0 .. N - 1 -> Nat], NEW count \in Nat,
         NEW i \in 1 .. N, NEW p \in Cursors
  PROVE  NextCursor(open, pos, count, i, p) \in Cursors
<1>1. p.len \in Nat /\ p.start \in Nat /\ p.hit \in BOOLEAN /\ pos[i - 1] \in Nat
  BY DEF Cursors
<1>2. CASE p.hit
  BY <1>2 DEF NextCursor
<1>3. CASE ~p.hit
  BY <1>1, <1>3 DEF NextCursor, Cursors
<1>. QED  BY <1>2, <1>3

\* The body in the form in which the allocators have it.
LEMMA LookCases ==
  ASSUME NEW open, NEW pos, NEW count, NEW i, NEW p \in Cursors
  PROVE  /\ p.hit => NextCursor(open, pos, count, i, p) = p
         /\ ~p.hit /\ i - 1 \notin open => NextCursor(open, pos, count, i, p) = [p EXCEPT !.len = 0]
         /\ ~p.hit /\ i - 1 \in open =>
              NextCursor(open, pos, count, i, p) =
                [len |-> p.len + 1, start |-> IF p.len = 0 THEN pos[i - 1] ELSE p.start,
                 hit |-> p.len + 1 >= count]
<1>1. /\ p.len \in Nat /\ p.start \in Nat /\ p.hit \in BOOLEAN
      /\ p = [len |-> p.len, start |-> p.start, hit |-> p.hit]
  BY DEF Cursors
<1>2. CASE p.hit
  BY <1>2 DEF NextCursor
<1>3. CASE ~p.hit /\ i - 1 \notin open
  <2>1. [p EXCEPT !.len = 0] = [len |-> 0, start |-> p.start, hit |-> p.hit]
    BY <1>1
  <2>2. p.hit = FALSE
    BY <1>1, <1>3
  <2>. QED  BY <1>3, <2>1, <2>2 DEF NextCursor
<1>4. CASE ~p.hit /\ i - 1 \in open
  BY <1>4 DEF NextCursor
<1>. QED  BY <1>1, <1>2, <1>3, <1>4

\* There is a function that the loop computes.
HasSearch(N, open, pos, count) ==
  \E at \in [0 .. N -> Cursors] :
    at[0] = Nothing /\ \A i \in 1 .. N : at[i] = NextCursor(open, pos, count, i, at[i - 1])

LEMMA SearchRuns ==
  ASSUME NEW N \in Nat, NEW open \in SUBSET (0 .. N - 1), NEW pos \in [0 .. N - 1 -> Nat], NEW count \in Nat
  PROVE  HasSearch(N, open, pos, count)
<1>. DEFINE step == [x \in (1 .. N) \X Cursors |-> NextCursor(open, pos, count, x[1], x[2])]
<1>1. PICK f : Iterates(f, N, Cursors, Nothing, step)
  <2>1. step \in [(1 .. N) \X Cursors -> Cursors]
    BY LookType
  <2>2. Nothing \in Cursors
    BY DEF Nothing, Cursors
  <2>. HIDE DEF step
  <2>. QED  BY <2>1, <2>2, IterationExists
<1>2. f \in [0 .. N -> Cursors] /\ f[0] = Nothing
  BY <1>1 DEF Iterates
<1>3. ASSUME NEW i \in 1 .. N PROVE f[i] = NextCursor(open, pos, count, i, f[i - 1])
  <2>1. i - 1 \in 0 .. N /\ f[i - 1] \in Cursors
    BY <1>2
  <2>2. <<i, f[i - 1]>> \in (1 .. N) \X Cursors
    BY <2>1
  <2>3. f[i] = step[<<i, f[i - 1]>>]
    <3>. HIDE DEF step
    <3>. QED  BY <1>1 DEF Iterates
  <2>. QED  BY <2>1, <2>2, <2>3
<1>. QED  BY <1>2, <1>3 DEF HasSearch

\* count open offsets begin at o
RunAt(open, count, o) == \A k \in o .. o + count - 1 : k \in open

\* What the cursor knows after i blocks: the run that ends here, maximal to the
\* left and still too short, and that no run was passed; or the first run.
Seen(open, pos, count, i, p) ==
  /\ ~p.hit =>
    /\ p.len < count /\ p.len <= i
    /\ \A k \in i - p.len .. i - 1 : k \in open
    /\ p.len < i => i - p.len - 1 \notin open
    /\ p.len > 0 => p.start = pos[i - p.len]
    /\ \A o \in 0 .. i - count : ~RunAt(open, count, o)
  /\ p.hit =>
    \E o \in 0 .. i - count :
      /\ p.start = pos[o] /\ RunAt(open, count, o)
      /\ \A q \in 0 .. o - 1 : ~RunAt(open, count, q)

\* One more block.
LEMMA LookSees ==
  ASSUME NEW N \in Nat, NEW open, NEW pos, NEW count \in 1 .. N, NEW i \in 1 .. N, NEW p \in Cursors,
         Seen(open, pos, count, i - 1, p)
  PROVE  Seen(open, pos, count, i, NextCursor(open, pos, count, i, p))
<1>. DEFINE r == NextCursor(open, pos, count, i, p)
<1>1. p.len \in Nat /\ p.hit \in BOOLEAN
  BY DEF Cursors
<1>2. CASE p.hit
  <2>1. PICK o \in 0 .. i - 1 - count :
          /\ p.start = pos[o] /\ RunAt(open, count, o)
          /\ \A q \in 0 .. o - 1 : ~RunAt(open, count, q)
    BY <1>2 DEF Seen
  <2>2. r = p /\ o \in 0 .. i - count
    BY <1>2 DEF NextCursor
  <2>. QED  BY <1>2, <2>1, <2>2 DEF Seen
<1>3. CASE ~p.hit
  <2>1. /\ p.len < count /\ p.len <= i - 1
        /\ \A k \in i - 1 - p.len .. i - 2 : k \in open
        /\ p.len < i - 1 => i - p.len - 2 \notin open
        /\ p.len > 0 => p.start = pos[i - 1 - p.len]
        /\ \A o \in 0 .. i - 1 - count : ~RunAt(open, count, o)
    BY <1>1, <1>3 DEF Seen
  <2>2. CASE i - 1 \notin open
    <3>1. r.hit = FALSE /\ r.len = 0
      BY <1>3, <2>2 DEF NextCursor
    <3>2. \A o \in 0 .. i - count : ~RunAt(open, count, o)
      <4>. SUFFICES ASSUME NEW o \in 0 .. i - count, RunAt(open, count, o) PROVE FALSE
        OBVIOUS
      <4>1. o = i - count
        BY <2>1
      <4>. QED  BY <2>2, <4>1 DEF RunAt
    <3>. QED  BY <2>2, <3>1, <3>2 DEF Seen
  <2>3. CASE i - 1 \in open
    <3>. SUFFICES Seen(open, pos, count, i, r)
      OBVIOUS
    <3>1. /\ r.len = p.len + 1
          /\ r.hit <=> p.len + 1 >= count
          /\ r.start = IF p.len = 0 THEN pos[i - 1] ELSE p.start
      BY <1>3, <2>3 DEF NextCursor
    <3>. HIDE DEF r
    <3>2. /\ r.start = pos[i - r.len]
          /\ \A k \in i - r.len .. i - 1 : k \in open
      <4>1. i - r.len = i - 1 - p.len
        BY <1>1, <3>1
      <4>2. p.len = 0 => i - r.len = i - 1
        BY <3>1
      <4>3. \A k \in i - r.len .. i - 1 : k = i - 1 \/ k \in i - 1 - p.len .. i - 2
        BY <1>1, <4>1
      <4>4. p.len = 0 \/ p.len > 0
        BY <1>1
      <4>. QED  BY <2>1, <2>3, <3>1, <4>1, <4>2, <4>3, <4>4
    <3>3. CASE r.hit
      <4>1. r.len = count
        BY <1>1, <2>1, <3>1, <3>3
      <4>2. i - count \in 0 .. i - count /\ r.start = pos[i - count]
        BY <1>1, <2>1, <3>1, <3>2, <4>1
      <4>3. RunAt(open, count, i - count)
        BY <3>2, <4>1 DEF RunAt
      <4>4. \A q \in 0 .. i - count - 1 : ~RunAt(open, count, q)
        BY <2>1
      <4>. QED  BY <3>3, <4>2, <4>3, <4>4 DEF Seen
    <3>4. CASE ~r.hit
      <4>1. r.len < count /\ r.len <= i /\ r.len > 0
        BY <1>1, <2>1, <3>1, <3>4
      <4>2. r.len < i => i - r.len - 1 \notin open
        <5>1. r.len < i => i - r.len - 1 = i - p.len - 2 /\ p.len < i - 1
          BY <1>1, <3>1
        <5>. QED  BY <2>1, <5>1
      <4>3. \A o \in 0 .. i - count : ~RunAt(open, count, o)
        <5>. SUFFICES ASSUME NEW o \in 0 .. i - count, RunAt(open, count, o) PROVE FALSE
          OBVIOUS
        <5>1. o = i - count
          BY <2>1
        <5>2. r.len < i /\ i - r.len - 1 \in o .. o + count - 1
          BY <1>1, <2>1, <3>1, <4>1, <5>1
        <5>. QED  BY <4>2, <5>2 DEF RunAt
      <4>. QED  BY <3>2, <3>4, <4>1, <4>2, <4>3 DEF Seen
    <3>. QED  BY <3>1, <3>3, <3>4
  <2>. QED  BY <2>2, <2>3
<1>. QED  BY <1>1, <1>2, <1>3

\* What the search finds: the first run there is, if there is one.
LEMMA SearchSees ==
  ASSUME NEW N \in Nat, NEW open \in SUBSET (0 .. N - 1), NEW pos \in [0 .. N - 1 -> Nat], NEW count \in 1 .. N, NEW at,
         at[0] = Nothing, \A i \in 1 .. N : at[i] = NextCursor(open, pos, count, i, at[i - 1])
  PROVE  at[N] \in Cursors /\ Seen(open, pos, count, N, at[N])
<1>. DEFINE G == {i \in 0 .. N : at[i] \in Cursors /\ Seen(open, pos, count, i, at[i])}
<1>1. 0 \in G
  <2>1. Nothing \in Cursors
    BY DEF Nothing, Cursors
  <2>2. Seen(open, pos, count, 0, Nothing)
    BY DEF Nothing, Seen
  <2>. QED  BY <2>1, <2>2
<1>2. \A i \in 0 .. N - 1 : i \in G => i + 1 \in G
  <2>. SUFFICES ASSUME NEW i \in 0 .. N - 1, i \in G PROVE i + 1 \in G
    OBVIOUS
  <2>1. i + 1 \in 1 .. N /\ (i + 1) - 1 = i /\ i \in 0 .. N
    OBVIOUS
  <2>2. at[i] \in Cursors /\ at[i + 1] = NextCursor(open, pos, count, i + 1, at[i])
    BY <2>1
  <2>3. Seen(open, pos, count, (i + 1) - 1, at[i])
    BY <2>1
  <2>4. Seen(open, pos, count, i + 1, NextCursor(open, pos, count, i + 1, at[i]))
    BY <2>1, <2>2, <2>3, LookSees
  <2>5. NextCursor(open, pos, count, i + 1, at[i]) \in Cursors
    <3>. HIDE DEF G
    <3>. DEFINE p == at[i]
                j == i + 1
    <3>1. j \in 1 .. N /\ p \in Cursors /\ count \in Nat
      BY <2>1, <2>2
    <3>. HIDE DEF p, j
    <3>2. NextCursor(open, pos, count, j, p) \in Cursors
      BY <3>1, LookType
    <3>. QED  BY <3>2 DEF p, j
  <2>. QED  BY <2>1, <2>2, <2>4, <2>5
<1>3. \A i \in 0 .. N : i \in G
  <2>. HIDE DEF G
  <2>. QED  BY <1>1, <1>2, BoundedInduction
<1>. QED  BY <1>3
=============================================================================
