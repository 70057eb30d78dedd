------------------------- MODULE HLSDownloadProofs -------------------------
(***************************************************************************)
(* Proofs about one download.  Segments are numbers, so that what is       *)
(* listed, merged and written is always a run of consecutive ones; the     *)
(* invariant says from where to where.                                     *)
(***************************************************************************)
EXTENDS HLSDownload, SequenceTheorems, FiniteSetTheorems, NaturalsInduction, WellFoundedInduction, TLAPS

-----------------------------------------------------------------------------
(* Division *)

\* Quotient and remainder.
LEMMA Division ==
  ASSUME NEW a \in Nat, NEW d \in Nat \ {0}
  PROVE  /\ a \div d \in Nat /\ a % d \in 0..(d - 1)
         /\ a = d * (a \div d) + (a % d)
  OBVIOUS

\* A larger factor gives a larger product.
LEMMA Products ==
  ASSUME NEW d \in Nat, NEW p \in Nat, NEW q \in Nat, p < q
  PROVE  d * p + d <= d * q
<1>1. PICK k \in Nat : q = p + 1 + k
  <2>1. q - p - 1 \in Nat /\ q = p + 1 + (q - p - 1)
    OBVIOUS
  <2> QED
    BY <2>1
<1>2. d * q = d * p + d + d * k /\ d * k \in Nat /\ d * p \in Nat
  BY <1>1
<1> QED
  BY <1>2

\* The quotient grows with the number, by one at most where the number grows by one.
LEMMA Quotients ==
  ASSUME NEW a \in Nat, NEW b \in Nat, NEW d \in Nat \ {0}, a <= b
  PROVE  /\ a \div d <= b \div d /\ b \div d <= b
         /\ (a + 1) \div d <= (a \div d) + 1
<1>1. PICK p \in Nat, r \in 0..(d - 1) : p = a \div d /\ a = d * p + r
  BY Division
<1>2. PICK q \in Nat, s \in 0..(d - 1) : q = b \div d /\ b = d * q + s
  BY Division
<1>3. PICK n \in Nat, t \in 0..(d - 1) : n = (a + 1) \div d /\ a + 1 = d * n + t
  BY Division
<1>4. d * p \in Nat /\ d * q \in Nat /\ d * n \in Nat /\ d * (p + 1) = d * p + d
  OBVIOUS
<1>5. ~(q < p)
  <2>1. q < p => d * q + d <= d * p
    BY Products
  <2> QED
    BY <1>1, <1>2, <1>4, <2>1
<1>6. ~(p + 1 < n)
  <2>1. p + 1 \in Nat /\ (p + 1 < n => d * (p + 1) + d <= d * n)
    BY Products
  <2> QED
    BY <1>1, <1>3, <1>4, <2>1
<1>7. q <= d * q
  <2>1. PICK e \in Nat : d = 1 + e
    <3>1. d - 1 \in Nat /\ d = 1 + (d - 1)
      OBVIOUS
    <3> QED
      BY <3>1
  <2>2. d * q = q + e * q /\ e * q \in Nat
    BY <2>1
  <2> QED
    BY <2>2
<1> QED
  BY <1>1, <1>2, <1>3, <1>4, <1>5, <1>6, <1>7

-----------------------------------------------------------------------------
(* Runs of segments *)

\* n segments from segment a on.
Run(a, n) == [i \in 1..n |-> a + i - 1]

\* A run is a sequence of the segments it says.
LEMMA RunType ==
  ASSUME NEW a \in Nat, NEW n \in Nat
  PROVE  /\ Run(a, n) \in Seq(Nat) /\ Len(Run(a, n)) = n
         /\ DOMAIN Run(a, n) = 1..n
         /\ \A i \in 1..n : Run(a, n)[i] = a + i - 1
<1>1. Run(a, n) \in [1..n -> Nat]
  BY DEF Run
<1> QED
  BY <1>1 DEF Run

\* The first segments of a run with the next one after them.
LEMMA RunAppend ==
  ASSUME NEW a \in Nat, NEW n \in Nat
  PROVE  Append(Run(a, n), a + n) = Run(a, n + 1)
<1> DEFINE s == Run(a, n)
           t == Run(a, n + 1)
<1>1. s \in Seq(Nat) /\ Len(s) = n /\ \A i \in 1..n : s[i] = a + i - 1
  BY RunType
<1>2. t \in Seq(Nat) /\ Len(t) = n + 1 /\ \A i \in 1..(n + 1) : t[i] = a + i - 1
  BY RunType
<1> HIDE DEF s, t
<1>3. /\ Append(s, a + n) \in Seq(Nat) /\ Len(Append(s, a + n)) = n + 1
      /\ (\A i \in 1..n : Append(s, a + n)[i] = s[i]) /\ Append(s, a + n)[n + 1] = a + n
  BY <1>1, AppendProperties
<1>4. \A i \in 1..(n + 1) : Append(s, a + n)[i] = t[i]
  BY <1>1, <1>2, <1>3
<1>5. Append(s, a + n) = t
  BY <1>2, <1>3, <1>4, SeqEqual
<1> QED
  BY <1>5 DEF s, t

\* What a run holds.
LEMMA RunContains ==
  ASSUME NEW a \in Nat, NEW n \in Nat, NEW x \in Nat
  PROVE  Contains(Run(a, n), x) <=> a <= x /\ x < a + n
<1>1. Len(Run(a, n)) = n /\ \A i \in 1..n : Run(a, n)[i] = a + i - 1
  BY RunType
<1>2. ASSUME a <= x, x < a + n PROVE Contains(Run(a, n), x)
  <2>1. x - a + 1 \in 1..n /\ Run(a, n)[x - a + 1] = x
    BY <1>1, <1>2
  <2> QED
    BY <1>1, <2>1 DEF Contains
<1> QED
  BY <1>1, <1>2 DEF Contains

-----------------------------------------------------------------------------
(* Merging *)

\* The equation of the function Merged computes.
Merges(f, base, found) ==
    f = [n \in 0..Len(found) |->
            IF n = 0 THEN base
            ELSE IF Contains(f[n - 1], found[n]) THEN f[n - 1]
            ELSE Append(f[n - 1], found[n])]

\* The same, value by value.
Values(f, base, found) ==
    /\ f = [n \in 0..Len(found) |-> f[n]] /\ f[0] = base
    /\ \A n \in 1..Len(found) :
         f[n] = IF Contains(f[n - 1], found[n]) THEN f[n - 1] ELSE Append(f[n - 1], found[n])

\* The equation says what the values are.
LEMMA MergesValues ==
  ASSUME NEW base, NEW found \in Seq(Nat), NEW f, Merges(f, base, found)
  PROVE  Values(f, base, found)
<1> DEFINE Step(n) == IF n = 0 THEN base
                      ELSE IF Contains(f[n - 1], found[n]) THEN f[n - 1]
                      ELSE Append(f[n - 1], found[n])
<1>1. f = [n \in 0..Len(found) |-> Step(n)]
  BY DEF Merges
<1>2. Step(0) = base /\ \A n \in 1..Len(found) :
         Step(n) = IF Contains(f[n - 1], found[n]) THEN f[n - 1] ELSE Append(f[n - 1], found[n])
  OBVIOUS
<1> HIDE DEF Step
<1>3. f = [n \in 0..Len(found) |-> f[n]] /\ \A n \in 0..Len(found) : f[n] = Step(n)
  BY <1>1
<1>4. 0 \in 0..Len(found) /\ \A n \in 1..Len(found) : n \in 0..Len(found)
  OBVIOUS
<1> QED
  BY <1>2, <1>3, <1>4 DEF Values

\* The equation has one solution at most.
LEMMA MergesOnce ==
  ASSUME NEW base, NEW found \in Seq(Nat), NEW f, NEW g, Merges(f, base, found), Merges(g, base, found)
  PROVE  f = g
<1> DEFINE Differ == {n \in Nat : n \in 0..Len(found) /\ f[n] # g[n]}
<1>v. Values(f, base, found) /\ Values(g, base, found)
  BY MergesValues
<1>0. /\ Len(found) \in Nat
      /\ f = [n \in 0..Len(found) |-> f[n]] /\ g = [n \in 0..Len(found) |-> g[n]]
      /\ f[0] = base /\ g[0] = base
  BY <1>v DEF Values
<1>1. \A n \in 1..Len(found) :
         f[n] = IF Contains(f[n - 1], found[n]) THEN f[n - 1] ELSE Append(f[n - 1], found[n])
  BY <1>v DEF Values
<1>2. \A n \in 1..Len(found) :
         g[n] = IF Contains(g[n - 1], found[n]) THEN g[n - 1] ELSE Append(g[n - 1], found[n])
  BY <1>v DEF Values
<1>3. Differ = {}
  <2> SUFFICES ASSUME Differ # {} PROVE FALSE
    OBVIOUS
  <2> HIDE DEF Differ
  <2>1. Differ \subseteq Nat
    BY DEF Differ
  <2>2. PICK n \in Differ : \A m \in Differ : ~(<<m, n>> \in OpToRel(<, Nat))
    BY <2>1, NatLessThanWellFounded, WFMin
  <2>3. n \in 1..Len(found) /\ f[n] # g[n]
    BY <1>0 DEF Differ
  <2>4. f[n - 1] = g[n - 1]
    <3>1. n - 1 \in Nat /\ n - 1 < n /\ n \in Nat /\ n - 1 \in 0..Len(found)
      BY <1>0, <2>3
    <3>2. n - 1 \notin Differ
      BY <2>2, <3>1 DEF OpToRel
    <3> QED
      BY <3>1, <3>2 DEF Differ
  <2> QED
    BY <1>1, <1>2, <2>3, <2>4
<1>4. \A n \in 0..Len(found) : f[n] = g[n]
  BY <1>0, <1>3
<1> HIDE DEF Differ
<1>5. [n \in 0..Len(found) |-> f[n]] = [n \in 0..Len(found) |-> g[n]]
  BY <1>4
<1> QED
  BY <1>0, <1>5, Zenon

\* A run merged into one that it touches or overlaps makes one run of both.
LEMMA MergedRuns ==
  ASSUME NEW a \in Nat, NEW k \in Nat, NEW b \in Nat, NEW j \in Nat,
         a <= b, b <= a + k, a + k <= b + j, segmentURLs = Run(a, k)
  PROVE  Merged(Run(b, j)) = Run(a, b + j - a)
<1> DEFINE found == Run(b, j)
           size(n) == IF k < b + n - a THEN b + n - a ELSE k
           g == [n \in 0..Len(found) |-> Run(a, size(n))]
<1>0. found \in Seq(Nat) /\ Len(found) = j /\ \A i \in 1..j : found[i] = b + i - 1
  BY RunType
<1>1. Merges(g, segmentURLs, found)
  <2> HIDE DEF found
  <2>1. ASSUME NEW n \in 1..j
        PROVE  Run(a, size(n)) =
                 IF Contains(Run(a, size(n - 1)), found[n]) THEN Run(a, size(n - 1))
                 ELSE Append(Run(a, size(n - 1)), found[n])
    <3>1. size(n - 1) \in Nat /\ n - 1 \in Nat /\ found[n] = b + n - 1 /\ b + n - 1 \in Nat
      BY <1>0
    <3>2. Contains(Run(a, size(n - 1)), b + n - 1) <=> b + n - 1 < a + size(n - 1)
      <4>1. PICK x \in Nat : x = size(n - 1)
        BY <3>1
      <4>2. Contains(Run(a, x), b + n - 1) <=> a <= b + n - 1 /\ b + n - 1 < a + x
        BY <3>1, RunContains
      <4> QED
        BY <4>1, <4>2
    <3>3. CASE b + n - 1 < a + size(n - 1)
      <4>1. size(n) = size(n - 1)
        BY <3>3
      <4> QED
        BY <3>1, <3>2, <3>3, <4>1
    <3>4. CASE ~(b + n - 1 < a + size(n - 1))
      <4>1. b + n - 1 = a + size(n - 1) /\ size(n) = size(n - 1) + 1
        BY <3>4
      <4>2. PICK x \in Nat : x = size(n - 1)
        BY <3>1
      <4>3. Append(Run(a, x), a + x) = Run(a, x + 1)
        BY RunAppend
      <4> QED
        BY <3>1, <3>2, <3>4, <4>1, <4>2, <4>3
    <3> QED
      BY <3>3, <3>4
  <2>2. Run(a, size(0)) = segmentURLs
    OBVIOUS
  <2>3. \A n \in 0..j : g[n] = Run(a, size(n))
    BY <1>0
  <2>4. g = [n \in 0..Len(found) |-> Run(a, size(n))]
    OBVIOUS
  <2> HIDE DEF g, size
  <2>5. \A n \in 0..j : Run(a, size(n)) =
           IF n = 0 THEN segmentURLs
           ELSE IF Contains(g[n - 1], found[n]) THEN g[n - 1]
           ELSE Append(g[n - 1], found[n])
    <3>1. \A n \in 1..j : n - 1 \in 0..j
      OBVIOUS
    <3> QED
      BY <2>1, <2>2, <2>3, <3>1
  <2> QED
    BY <1>0, <2>4, <2>5 DEF Merges
<1>2. Merged(found) = (CHOOSE f : Merges(f, segmentURLs, found))[Len(found)]
  BY DEF Merged, Merges
<1> HIDE DEF g, found
<1>3. (CHOOSE f : Merges(f, segmentURLs, found)) = g
  <2>1. Merges(CHOOSE f : Merges(f, segmentURLs, found), segmentURLs, found)
    BY <1>1
  <2> QED
    BY <1>0, <1>1, <2>1, MergesOnce
<1>4. g[j] = Run(a, b + j - a)
  BY <1>0 DEF g
<1> QED
  BY <1>0, <1>2, <1>3, <1>4 DEF found

-----------------------------------------------------------------------------
(* Chunks *)

\* The segments between two times are a run, whose last one is not beyond the end.
LEMMA SegmentsRun ==
  ASSUME NEW from \in Nat, NEW to \in Nat, from < to
  PROVE  /\ SegmentsOf(from, to) = Run(from \div SegmentLength, (to - 1) \div SegmentLength - from \div SegmentLength + 1)
         /\ from \div SegmentLength \in Nat /\ (to - 1) \div SegmentLength \in Nat
         /\ from \div SegmentLength <= (to - 1) \div SegmentLength
         /\ (to - 1) \div SegmentLength <= to
<1>0. SegmentLength \in Nat \ {0} /\ to - 1 \in Nat /\ from <= to - 1
  BY ConstantsAssumption
<1>1. from \div SegmentLength <= (to - 1) \div SegmentLength /\ (to - 1) \div SegmentLength <= to - 1
  BY <1>0, Quotients
<1>2. from \div SegmentLength \in Nat /\ (to - 1) \div SegmentLength \in Nat
  BY <1>0, Division
<1>3. SegmentsOf(from, to) = Run(from \div SegmentLength, (to - 1) \div SegmentLength - from \div SegmentLength + 1)
  BY DEF SegmentsOf, Run
<1> QED
  BY <1>0, <1>1, <1>2, <1>3

\* What is listed between two times are segments up to the end, and at least one.
LEMMA SegmentsType ==
  ASSUME NEW from \in Nat, NEW to \in Nat, from < to
  PROVE  SegmentsOf(from, to) \in Seq(0..to) /\ SegmentsOf(from, to) # <<>>
<1>1. PICK a \in Nat, b \in Nat : a <= b /\ b <= to /\ SegmentsOf(from, to) = Run(a, b - a + 1)
  BY SegmentsRun
<1>2. PICK n \in Nat : n = b - a + 1
  BY <1>1
<1>3. Run(a, n) \in [1..n -> 0..to]
  BY <1>1, <1>2 DEF Run
<1>4. Len(Run(a, n)) = n /\ n # 0
  BY <1>1, <1>2, RunType
<1> QED
  BY <1>1, <1>2, <1>3, <1>4

\* With what was merged up to the time of a chunk, its segments make all up to the chunk's end.
LEMMA MergedChunk ==
  ASSUME NEW s \in Nat, NEW h \in Nat, NEW e \in Nat, s <= h, h < e,
         segmentURLs = IF h = s THEN <<>> ELSE SegmentsOf(s, h)
  PROVE  Merged(SegmentsOf(h, e)) = SegmentsOf(s, e)
<1>0. SegmentLength \in Nat \ {0}
  BY ConstantsAssumption
<1>p. PICK a \in Nat, b \in Nat, c \in Nat :
        a = s \div SegmentLength /\ b = h \div SegmentLength /\ c = (e - 1) \div SegmentLength
  <2>1. e - 1 \in Nat
    OBVIOUS
  <2> QED
    BY <1>0, <2>1, Division
<1>1. /\ a = s \div SegmentLength /\ b = h \div SegmentLength /\ c = (e - 1) \div SegmentLength
      /\ SegmentsOf(h, e) = Run(b, c - b + 1) /\ b <= c
      /\ SegmentsOf(s, e) = Run(a, c - a + 1)
  <2>1. SegmentsOf(h, e) = Run(b, c - b + 1) /\ b <= c
    BY <1>p, SegmentsRun
  <2>2. s < e
    OBVIOUS
  <2>3. SegmentsOf(s, e) = Run(a, c - a + 1)
    BY <1>p, <2>2, SegmentsRun
  <2> QED
    BY <1>p, <2>1, <2>3
<1>2. a <= b
  BY <1>0, <1>1, Quotients
<1>3. PICK k \in Nat : segmentURLs = Run(a, k) /\ b <= a + k /\ a + k <= c + 1
  <2>1. CASE h = s
    <3>1. Run(a, 0) = <<>>
      BY DEF Run
    <3>2. segmentURLs = Run(a, 0)
      BY <2>1, <3>1
    <3>3. b <= a + 0 /\ a + 0 <= c + 1 /\ 0 \in Nat
      BY <1>1, <1>2, <2>1
    <3> QED
      BY <3>2, <3>3
  <2>2. CASE h # s
    <3>1. PICK d \in Nat : /\ d = (h - 1) \div SegmentLength /\ a <= d
                           /\ segmentURLs = Run(a, d - a + 1)
      BY <1>1, <2>2, SegmentsRun
    <3>k. PICK k \in Nat : k = d - a + 1
      BY <3>1
    <3>2. b <= d + 1
      <4>1. h - 1 \in Nat /\ (h - 1) + 1 = h
        BY <2>2
      <4>2. ((h - 1) + 1) \div SegmentLength <= ((h - 1) \div SegmentLength) + 1
        BY <1>0, <4>1, Quotients
      <4> QED
        BY <1>1, <3>1, <4>1, <4>2
    <3>3. d <= c
      <4>1. h - 1 \in Nat /\ e - 1 \in Nat /\ h - 1 <= e - 1
        BY <2>2
      <4> QED
        BY <1>0, <1>1, <3>1, <4>1, Quotients
    <3>4. b <= a + k /\ a + k <= c + 1
      BY <3>k, <3>2, <3>3
    <3>5. segmentURLs = Run(a, k)
      BY <3>1, <3>k
    <3> QED
      BY <3>4, <3>5
  <2> QED
    BY <2>1, <2>2
<1>4. PICK j \in Nat : j = c - b + 1
  BY <1>1
<1>5. Merged(Run(b, j)) = Run(a, b + j - a)
  <2>1. a + k <= b + j
    BY <1>3, <1>4
  <2> QED
    BY <1>2, <1>3, <2>1, MergedRuns
<1>6. b + j - a = c - a + 1
  BY <1>4
<1> QED
  BY <1>1, <1>4, <1>5, <1>6

\* Times of chunks that cover what is left of a programme up to its end f, without a gap.
Covers(c, f) ==
    /\ c \in Seq(Nat) /\ c # <<>>
    /\ \A i \in 1..Len(c) :
         /\ c[i] < f
         /\ i < Len(c) => c[i + 1] = c[i] + ChunkLength
         /\ i = Len(c) => f <= c[i] + ChunkLength

\* The loop over the chunks covers the programme from its start on.
LEMMA SeeksCover ==
  ASSUME NEW f \in Nat, NEW b \in Nat, f = Instant(end), b = Instant(start), b < f
  PROVE  Covers(Seeks, f) /\ Head(Seeks) = b
<1>0. ChunkLength \in Nat \ {0}
  BY ConstantsAssumption
<1>1. PICK n \in Nat, r \in 0..(ChunkLength - 1) :
        n = (f - b + ChunkLength - 1) \div ChunkLength /\ f - b + ChunkLength - 1 = ChunkLength * n + r
  <2>1. PICK x \in Nat : x = f - b + ChunkLength - 1
    BY <1>0
  <2>2. x \div ChunkLength \in Nat /\ x % ChunkLength \in 0..(ChunkLength - 1)
        /\ x = ChunkLength * (x \div ChunkLength) + (x % ChunkLength)
    BY <1>0, Division
  <2> QED
    BY <2>1, <2>2
<1>2. Seeks = [i \in 1..n |-> b + (i - 1) * ChunkLength]
  BY <1>1 DEF Seeks
<1>3. ChunkLength * n \in Nat /\ f - b <= ChunkLength * n /\ ChunkLength * n < f - b + ChunkLength
  BY <1>0, <1>1
<1>4. n # 0
  <2>1. ChunkLength * 0 = 0
    BY <1>0
  <2> QED
    BY <1>3, <2>1
<1>5. ASSUME NEW i \in 1..n
      PROVE  /\ (i - 1) * ChunkLength \in Nat /\ (i - 1) * ChunkLength < f - b
             /\ b + (i - 1) * ChunkLength \in Nat
             /\ (i + 1 - 1) * ChunkLength = (i - 1) * ChunkLength + ChunkLength
             /\ i = n => f - b <= (i - 1) * ChunkLength + ChunkLength
  <2>1. PICK m \in Nat : i = m + 1 /\ m < n
    <3>1. i - 1 \in Nat /\ i = (i - 1) + 1 /\ i - 1 < n
      OBVIOUS
    <3> QED
      BY <3>1
  <2>2. ChunkLength * m + ChunkLength <= ChunkLength * n
    BY <1>0, <2>1, Products
  <2>3. /\ (i - 1) * ChunkLength = ChunkLength * m /\ ChunkLength * m \in Nat
        /\ (i + 1 - 1) * ChunkLength = ChunkLength * m + ChunkLength
        /\ i = n => ChunkLength * n = ChunkLength * m + ChunkLength
    BY <1>0, <2>1
  <2> QED
    BY <1>0, <1>3, <2>2, <2>3
<1>6. Seeks \in Seq(Nat) /\ Len(Seeks) = n
  <2>0. \A i \in 1..n : b + (i - 1) * ChunkLength \in Nat
    BY <1>5
  <2>1. Seeks \in [1..n -> Nat]
    BY <1>2, <2>0
  <2> QED
    BY <2>1
<1>7. \A i \in 1..n : Seeks[i] = b + (i - 1) * ChunkLength
  BY <1>2
<1>8. Seeks # <<>> /\ Head(Seeks) = b
  <2>1. 1 \in 1..n /\ (1 - 1) * ChunkLength = 0
    BY <1>0, <1>4
  <2>2. Seeks # <<>>
    BY <1>4, <1>6
  <2> QED
    BY <1>6, <1>7, <2>1, <2>2
<1>9. ASSUME NEW i \in 1..n
      PROVE  /\ Seeks[i] < f
             /\ i < n => Seeks[i + 1] = Seeks[i] + ChunkLength
             /\ i = n => f <= Seeks[i] + ChunkLength
  <2>1. i < n => i + 1 \in 1..n
    OBVIOUS
  <2> QED
    BY <1>0, <1>5, <1>7, <2>1
<1> QED
  BY <1>6, <1>8, <1>9 DEF Covers

\* One chunk less: the next one begins where it ended, or the end is reached.
LEMMA CoversTail ==
  ASSUME NEW f \in Nat, NEW c, Covers(c, f)
  PROVE  /\ Head(c) \in Nat /\ Head(c) < f /\ Tail(c) \in Seq(Nat)
         /\ Tail(c) # <<>> => /\ Covers(Tail(c), f)
                              /\ Head(Tail(c)) = Head(c) + ChunkLength /\ Head(c) + ChunkLength < f
         /\ Tail(c) = <<>> => f <= Head(c) + ChunkLength
<1>0. ChunkLength \in Nat \ {0}
  BY ConstantsAssumption
<1>1. PICK n \in Nat \ {0} :
        /\ Len(c) = n /\ c \in Seq(Nat) /\ Head(c) = c[1] /\ Tail(c) \in Seq(Nat)
        /\ Len(Tail(c)) = n - 1 /\ \A i \in 1..(n - 1) : Tail(c)[i] = c[i + 1]
  BY HeadTailProperties, EmptySeq DEF Covers
<1>2. \A i \in 1..n : c[i] \in Nat
  BY <1>1, ElementOfSeq
<1>3. \A i \in 1..n :
         /\ c[i] < f
         /\ i < n => c[i + 1] = c[i] + ChunkLength
         /\ i = n => f <= c[i] + ChunkLength
  BY <1>1 DEF Covers
<1>4. Tail(c) = <<>> <=> n = 1
  BY <1>1, EmptySeq
<1>5. ASSUME n # 1
      PROVE  /\ Covers(Tail(c), f) /\ Head(Tail(c)) = Head(c) + ChunkLength
             /\ Head(c) + ChunkLength < f
  <2>1. 1 \in 1..n /\ 2 \in 1..n /\ 1 < n /\ 1 \in 1..(n - 1) /\ 1 + 1 = 2
    BY <1>5
  <2>2. c[2] = c[1] + ChunkLength /\ c[2] < f
    BY <1>3, <2>1
  <2>3. Head(Tail(c)) = c[2]
    BY <1>1, <1>4, <1>5, <2>1
  <2>4. ASSUME NEW i \in 1..(n - 1)
        PROVE  /\ Tail(c)[i] < f
               /\ i < n - 1 => Tail(c)[i + 1] = Tail(c)[i] + ChunkLength
               /\ i = n - 1 => f <= Tail(c)[i] + ChunkLength
    <3>1. i + 1 \in 1..n /\ (i < n - 1 => i + 1 \in 1..(n - 1) /\ i + 1 < n) /\ (i = n - 1 => i + 1 = n)
      OBVIOUS
    <3> QED
      BY <1>1, <1>3, <3>1
  <2> QED
    BY <1>1, <1>4, <1>5, <2>2, <2>3, <2>4 DEF Covers
<1>6. Head(c) \in Nat /\ Head(c) < f /\ (n = 1 => f <= Head(c) + ChunkLength)
  <2>1. 1 \in 1..n
    OBVIOUS
  <2> QED
    BY <1>1, <1>2, <1>3, <2>1
<1> QED
  BY <1>1, <1>4, <1>5, <1>6

-----------------------------------------------------------------------------
(* The invariant *)

\* Concatenations may be grouped at will.
Grouped(S, f, p, q, r, a) ==
    /\ f \o p \in Seq(S) /\ r \o a \in Seq(S)
    /\ ((f \o p) \o q) \o (r \o a) = (f \o ((p \o q) \o r)) \o a

\* The two groupings of a playlist's parts.
LEMMA Regroup ==
  ASSUME NEW S, NEW f \in Seq(S), NEW p \in Seq(S), NEW q \in Seq(S), NEW r \in Seq(S), NEW a \in Seq(S)
  PROVE  Grouped(S, f, p, q, r, a)
<1> DEFINE Cat(s, t) == s \o t
<1>1. ASSUME NEW s \in Seq(S), NEW t \in Seq(S) PROVE Cat(s, t) \in Seq(S)
  BY ConcatProperties
<1>2. ASSUME NEW s \in Seq(S), NEW t \in Seq(S), NEW u \in Seq(S)
      PROVE  Cat(Cat(s, t), u) = Cat(s, Cat(t, u))
  OBVIOUS
<1> HIDE DEF Cat
<1>3. Cat(Cat(Cat(f, p), q), Cat(r, a)) = Cat(f, Cat(p, Cat(q, Cat(r, a))))
  BY <1>1, <1>2
<1>4. Cat(Cat(f, Cat(Cat(p, q), r)), a) = Cat(f, Cat(p, Cat(q, Cat(r, a))))
  BY <1>1, <1>2
<1>5. Cat(f, p) \in Seq(S) /\ Cat(r, a) \in Seq(S)
  BY <1>1
<1> QED
  BY <1>3, <1>4, <1>5, Zenon DEF Grouped, Cat

\* A playlist cut in three keeps what it holds together with its parents.
Split(S, f, h, a, i, j) ==
    /\ f \o SubSeq(h, 1, i) \in Seq(S) /\ SubSeq(h, i + 1, j) \in Seq(S)
    /\ SubSeq(h, j + 1, Len(h)) \o a \in Seq(S)
    /\ (f \o SubSeq(h, 1, i)) \o SubSeq(h, i + 1, j) \o (SubSeq(h, j + 1, Len(h)) \o a) = f \o h \o a

\* What a nested playlist is cut into is still what the chunk lists.
LEMMA WalkSplit ==
  ASSUME NEW S, NEW f \in Seq(S), NEW h \in Seq(S), NEW a \in Seq(S),
         NEW i \in 0..Len(h), NEW j \in 0..Len(h), i <= j
  PROVE  Split(S, f, h, a, i, j)
<1>0. PICK n \in Nat : n = Len(h)
  OBVIOUS
<1>1. PICK p \in Seq(S), q \in Seq(S), r \in Seq(S) :
        p = SubSeq(h, 1, i) /\ q = SubSeq(h, i + 1, j) /\ r = SubSeq(h, j + 1, Len(h))
  <2>1. \A k \in 1..n : h[k] \in S
    BY <1>0, ElementOfSeq
  <2>2. \A k \in 1..i : k \in 1..n
    BY <1>0
  <2>3. \A k \in (i + 1)..j : k \in 1..n
    BY <1>0
  <2>4. \A k \in (j + 1)..Len(h) : k \in 1..n
    BY <1>0
  <2>5. SubSeq(h, 1, i) \in Seq(S)
    BY <2>1, <2>2, SubSeqProperties
  <2>6. SubSeq(h, i + 1, j) \in Seq(S)
    BY <2>1, <2>3, SubSeqProperties
  <2>7. SubSeq(h, j + 1, Len(h)) \in Seq(S)
    BY <1>0, <2>1, <2>4, SubSeqProperties
  <2> QED
    BY <2>5, <2>6, <2>7
<1>2. p \o q = SubSeq(h, 1, j)
  <2>1. 1 \in 1..(Len(h) + 1) /\ i \in (1 - 1)..Len(h) /\ j \in i..Len(h)
    BY <1>0
  <2> QED
    BY <1>1, <2>1, ConcatAdjacentSubSeq
<1>3. (p \o q) \o r = h
  <2>1. 1 \in 1..(Len(h) + 1) /\ j \in (1 - 1)..Len(h) /\ Len(h) \in j..Len(h)
    BY <1>0
  <2>2. SubSeq(h, 1, j) \o r = SubSeq(h, 1, Len(h))
    BY <1>1, <2>1, ConcatAdjacentSubSeq
  <2> QED
    BY <1>2, <2>2, SubSeqFull
<1> HIDE <1>1
<1>4. Grouped(S, f, p, q, r, a)
  BY Regroup
<1>5. f \o p \in Seq(S) /\ r \o a \in Seq(S) /\ (f \o p) \o q \o (r \o a) = f \o h \o a
  BY <1>3, <1>4 DEF Grouped
<1> QED
  BY <1>1, <1>5 DEF Split

\* Times are numbers.
LEMMA InstantType == ASSUME NEW t \in Timestamps PROVE Instant(t) \in Nat
<1>1. PICK a \in Nat, b \in Nat : t[1] = a /\ t[2] = b
  BY ConstantsAssumption
<1>2. DayLength \in Nat \ {0} /\ b \div DayLength \in Nat /\ b % DayLength \in 0..(DayLength - 1)
  BY Division, ConstantsAssumption
<1>3. normalizeRadikoTimestamp(t) = <<a + b \div DayLength, b % DayLength>>
  BY <1>1 DEF normalizeRadikoTimestamp
<1>4. PICK x \in Nat, y \in Nat : normalizeRadikoTimestamp(t) = <<x, y>>
  BY <1>2, <1>3
<1>5. DayLength * x \in Nat
  BY <1>2
<1> QED
  BY <1>4, <1>5 DEF Instant

\* The programme's playlists have been read from b up to the first chunk of c, and no further: merged
\* ends where the chunk begins whose playlist lists found.
ReadUpTo(b, f, c, found, merged) ==
    /\ Covers(c, f) /\ b <= Head(c)
    /\ found = SegmentsOf(Head(c), IF Head(c) + ChunkLength < f THEN Head(c) + ChunkLength ELSE f)
    /\ merged = IF Head(c) = b THEN <<>> ELSE SegmentsOf(b, Head(c))

\* All of the programme has been read.
ReadAll(b, f, merged) == b < f /\ merged = SegmentsOf(b, f)

\* What has been merged, chunk by chunk, and from the last chunk on.
Listing ==
    /\ pc = "playlists" =>
         ReadUpTo(Instant(start), Instant(end), chunks, walk.found \o walk.here \o walk.after, segmentURLs)
    /\ pc = "build" => segmentURLs = <<>>
    /\ pc \in {"segments", "create", "write", "verify", "ok"} =>
         ReadAll(Instant(start), Instant(end), segmentURLs)

\* The file is written from the first segment to the last.
Filed ==
    /\ pc \in {"build", "playlists", "segments", "create"} => file = NoFile
    /\ pc = "write" => /\ file \in Seq(Segment) /\ Len(file) < Len(segmentURLs)
                       /\ \A i \in 1..Len(file) : file[i] = segmentURLs[i]
    /\ pc \in {"verify", "ok"} => file = segmentURLs

\* Goroutines run only while the segments are waited for, and retry only after attempts that are left.
Fetching ==
    /\ pc \in {"build", "playlists"} => fetch = <<>>
    /\ pc \notin {"build", "playlists", "segments"} => \A i \in DOMAIN fetch : fetch[i].pc = "done"
    /\ \A i \in DOMAIN fetch : fetch[i].pc = "backoff" => fetch[i].attempt < MaxAttempts

\* The goroutines that hold a permit.
Holding == {i \in DOMAIN fetch : fetch[i].pc \in {"fetching", "backoff"}}

\* A permit is either free or with one goroutine.
Permitted == IsFiniteSet(Holding) /\ Cardinality(Holding) + permits = MaxParallel

Sound == TypeOK /\ Listing /\ Filed /\ Fetching /\ Permitted

\* What the invariant says of fetch, permits and err, and of the rest.
FetchRow == [pc : {"waiting", "fetching", "backoff", "done"}, attempt : 0..MaxAttempts, data : {"none", "audio", "empty"}]

GroupTyped == fetch \in [DOMAIN fetch -> FetchRow] /\ permits \in 0..MaxParallel /\ err \in Errors

RestTyped ==
    /\ {start, end} \subseteq Timestamps
    /\ pc \in Steps
    /\ chunks \in Seq(Nat)
    /\ walk \in [depth : 0..(MaxDepth + 1), found : Seq(Segment), here : Seq(Segment), after : Seq(Segment)]
    /\ segmentURLs \in Seq(Segment)
    /\ cancelled \in BOOLEAN
    /\ file = NoFile \/ file \in Seq(Segment)

\* The two parts make the type invariant.
LEMMA Parts == TypeOK <=> GroupTyped /\ RestTyped
  BY DEF TypeOK, GroupTyped, RestTyped, FetchRow

-----------------------------------------------------------------------------
(* The goroutines *)

\* What a step of a goroutine does: it takes a permit, gives one back, or does neither.
Moves(i, row) ==
    \/ /\ fetch[i].pc = "waiting" /\ row.pc = "fetching"
       /\ permits > 0 /\ permits' = permits - 1
    \/ /\ fetch[i].pc = "waiting" /\ row.pc = "done"
       /\ UNCHANGED permits
    \/ /\ fetch[i].pc \in {"fetching", "backoff"} /\ row.pc \in {"fetching", "backoff"}
       /\ UNCHANGED permits
    \/ /\ fetch[i].pc \in {"fetching", "backoff"} /\ row.pc = "done"
       /\ permits' = permits + 1

\* The end of a goroutine, with a permit or without.
LEMMA EndRow ==
  ASSUME GroupTyped, NEW i \in DOMAIN fetch, NEW e \in Errors, NEW data \in {"none", "audio", "empty"}, End(i, e, data)
  PROVE  /\ err' \in Errors
         /\ \E row \in FetchRow : fetch' = [fetch EXCEPT ![i] = row] /\ row.pc = "done"
<1>1. fetch[i] \in FetchRow /\ [fetch[i] EXCEPT !.pc = "done", !.data = data] \in FetchRow
  BY DEF GroupTyped, FetchRow
<1>2. [fetch[i] EXCEPT !.pc = "done", !.data = data].pc = "done"
  BY <1>1 DEF FetchRow
<1>3. fetch' = [fetch EXCEPT ![i] = [fetch[i] EXCEPT !.pc = "done", !.data = data]]
  BY DEF End, GroupTyped
<1>4. err' \in Errors
  BY DEF End, GroupTyped
<1> QED
  BY <1>1, <1>2, <1>3, <1>4

\* An attempt that begins.
LEMMA AttemptRow ==
  ASSUME NEW row \in FetchRow, NEW x \in 0..MaxAttempts
  PROVE  /\ [row EXCEPT !.pc = "fetching", !.attempt = x] \in FetchRow
         /\ [row EXCEPT !.pc = "fetching", !.attempt = x].pc = "fetching"
<1>1. \A A : \A y \in A : \A z \in [pc : {"waiting", "fetching", "backoff", "done"}, attempt : A,
                                  data : {"none", "audio", "empty"}] :
        /\ [z EXCEPT !.pc = "fetching", !.attempt = y] \in
              [pc : {"waiting", "fetching", "backoff", "done"}, attempt : A, data : {"none", "audio", "empty"}]
        /\ [z EXCEPT !.pc = "fetching", !.attempt = y].pc = "fetching"
  OBVIOUS
<1> QED
  BY <1>1 DEF FetchRow

\* Every step of a goroutine is such a move and touches nothing else.
LEMMA FetchMoves ==
  ASSUME GroupTyped, Fetching, NEW i \in DOMAIN fetch, RunFetch(i)
  PROVE  /\ UNCHANGED <<input, pc, listing, cancelled, file>>
         /\ err' \in Errors
         /\ \E row \in FetchRow :
              /\ fetch' = [fetch EXCEPT ![i] = row]
              /\ row.pc = "backoff" => row.attempt < MaxAttempts
              /\ Moves(i, row)
<1>0. /\ fetch[i] \in FetchRow /\ fetch \in [DOMAIN fetch -> FetchRow] /\ permits \in 0..MaxParallel
      /\ MaxAttempts \in Nat \ {0} /\ MaxParallel \in Nat \ {0} /\ err \in Errors
      /\ {"none", "temporary", "permanent", "cancelled"} = Errors
  BY ConstantsAssumption DEF GroupTyped, Errors
<1>1. CASE Acquire(i)
  <2>1. [fetch[i] EXCEPT !.pc = "fetching", !.attempt = 1] \in FetchRow
        /\ [fetch[i] EXCEPT !.pc = "fetching", !.attempt = 1].pc = "fetching"
    <3>1. 1 \in 0..MaxAttempts
      BY <1>0
    <3> QED
      BY <1>0, <3>1, AttemptRow
  <2>2. fetch' = [fetch EXCEPT ![i] = [fetch[i] EXCEPT !.pc = "fetching", !.attempt = 1]]
    BY <1>0, <1>1 DEF Acquire
  <2> QED
    BY <1>0, <1>1, <2>1, <2>2 DEF Acquire, Moves
<1>2. CASE AcquireCancelled(i)
  BY <1>0, <1>2, EndRow DEF AcquireCancelled, Moves
<1>3. CASE FetchSucceeds(i)
  BY <1>0, <1>3, EndRow DEF FetchSucceeds, EndAndRelease, Moves
<1>4. CASE FetchFailsTemporarily(i)
  <2>1. CASE fetch[i].attempt < MaxAttempts
    <3>1. [fetch[i] EXCEPT !.pc = "backoff"] \in FetchRow
          /\ [fetch[i] EXCEPT !.pc = "backoff"].pc = "backoff"
          /\ [fetch[i] EXCEPT !.pc = "backoff"].attempt = fetch[i].attempt
      BY <1>0 DEF FetchRow
    <3>2. fetch' = [fetch EXCEPT ![i] = [fetch[i] EXCEPT !.pc = "backoff"]]
          /\ fetch[i].pc = "fetching" /\ UNCHANGED <<permits, err>> /\ UNCHANGED <<input, pc, listing, cancelled, file>>
      BY <1>0, <1>4, <2>1 DEF FetchFailsTemporarily
    <3> QED
      BY <1>0, <2>1, <3>1, <3>2 DEF Moves
  <2>2. CASE ~(fetch[i].attempt < MaxAttempts)
    BY <1>0, <1>4, <2>2, EndRow DEF FetchFailsTemporarily, EndAndRelease, Moves
  <2> QED
    BY <2>1, <2>2
<1>5. CASE FetchFailsForGood(i)
  BY <1>0, <1>5, EndRow DEF FetchFailsForGood, EndAndRelease, Moves
<1>6. CASE FetchCancelled(i)
  BY <1>0, <1>6, EndRow DEF FetchCancelled, EndAndRelease, Moves
<1>7. CASE RetryFetch(i)
  <2>1. fetch[i].attempt < MaxAttempts /\ fetch[i].pc = "backoff"
    BY <1>7 DEF RetryFetch, Fetching
  <2>2. [fetch[i] EXCEPT !.pc = "fetching", !.attempt = @ + 1] \in FetchRow
        /\ [fetch[i] EXCEPT !.pc = "fetching", !.attempt = @ + 1].pc = "fetching"
    <3>1. fetch[i].attempt + 1 \in 0..MaxAttempts
      BY <1>0, <2>1 DEF FetchRow
    <3> QED
      BY <1>0, <3>1, AttemptRow
  <2>3. fetch' = [fetch EXCEPT ![i] = [fetch[i] EXCEPT !.pc = "fetching", !.attempt = @ + 1]]
    BY <1>0, <1>7 DEF RetryFetch
  <2> QED
    BY <1>0, <1>7, <2>1, <2>2, <2>3 DEF RetryFetch, Moves
<1> QED
  BY <1>1, <1>2, <1>3, <1>4, <1>5, <1>6, <1>7 DEF RunFetch

\* A goroutine keeps the count of the permits, and what it leaves alone.
LEMMA FetchStep ==
  ASSUME Sound, NEW i \in DOMAIN fetch, RunFetch(i)
  PROVE  Sound'
<1>0. GroupTyped /\ RestTyped /\ MaxParallel \in Nat \ {0}
  BY Parts, ConstantsAssumption DEF Sound
<1>1. UNCHANGED <<input, pc, listing, cancelled, file>> /\ err' \in Errors
  BY <1>0, FetchMoves DEF Sound
<1>2. PICK row \in FetchRow :
        /\ fetch' = [fetch EXCEPT ![i] = row]
        /\ row.pc = "backoff" => row.attempt < MaxAttempts
        /\ Moves(i, row)
  BY <1>0, FetchMoves DEF Sound
<1>3. /\ DOMAIN fetch' = DOMAIN fetch /\ fetch'[i] = row /\ fetch' \in [DOMAIN fetch' -> FetchRow]
      /\ \A k \in DOMAIN fetch : k # i => fetch'[k] = fetch[k]
  BY <1>0, <1>2 DEF GroupTyped
<1>4. pc = "segments"
  <2>1. fetch[i].pc # "done" /\ fetch # <<>>
    BY <1>2 DEF Moves
  <2> QED
    BY <2>1 DEF Sound, Fetching
<1>5. Fetching'
  BY <1>1, <1>2, <1>3, <1>4 DEF Sound, Fetching
<1>6. Permitted' /\ permits' \in 0..MaxParallel
  <2>0. IsFiniteSet(Holding) /\ Cardinality(Holding) + permits = MaxParallel
        /\ Cardinality(Holding) \in Nat /\ permits \in 0..MaxParallel
    BY <1>0, FS_CardinalityType DEF Sound, Permitted, GroupTyped
  <2>1. CASE fetch[i].pc = "waiting" /\ row.pc = "fetching" /\ permits > 0 /\ permits' = permits - 1
    <3>1. i \notin Holding /\ Holding' = Holding \cup {i}
      BY <1>3, <2>1 DEF Holding
    <3>2. IsFiniteSet(Holding') /\ Cardinality(Holding') = Cardinality(Holding) + 1
      BY <2>0, <3>1, FS_AddElement
    <3> QED
      BY <2>0, <2>1, <3>2 DEF Permitted
  <2>2. CASE (i \in Holding <=> row.pc \in {"fetching", "backoff"}) /\ UNCHANGED permits
    <3>1. Holding' = Holding
      BY <1>3, <2>2 DEF Holding
    <3> QED
      BY <2>0, <2>2, <3>1 DEF Permitted
  <2>3. CASE fetch[i].pc \in {"fetching", "backoff"} /\ row.pc = "done" /\ permits' = permits + 1
    <3>1. i \in Holding /\ Holding' = Holding \ {i}
      BY <1>3, <2>3 DEF Holding
    <3>2. IsFiniteSet(Holding') /\ Cardinality(Holding') = Cardinality(Holding) - 1 /\ Cardinality(Holding') \in Nat
      BY <2>0, <3>1, FS_RemoveElement, FS_CardinalityType
    <3> QED
      BY <1>0, <2>0, <2>3, <3>2 DEF Permitted
  <2> QED
    BY <1>2, <2>1, <2>2, <2>3 DEF Moves, Holding
<1>7. GroupTyped' /\ RestTyped'
  BY <1>0, <1>1, <1>3, <1>6 DEF GroupTyped, RestTyped, input, listing, Segment
<1>8. Listing' /\ Filed'
  BY <1>1 DEF Sound, Listing, Filed, input, listing, Instant, normalizeRadikoTimestamp, Segment
<1>9. TypeOK'
  <2>1. (TypeOK <=> GroupTyped /\ RestTyped)'
    BY Parts, PTL
  <2> QED
    BY <1>7, <2>1
<1> QED
  BY <1>5, <1>6, <1>8, <1>9 DEF Sound

-----------------------------------------------------------------------------
(* The calling goroutine *)

\* A step that leaves the goroutines alone keeps what is said of them alone.
LEMMA GroupKept ==
  ASSUME GroupTyped, Permitted, UNCHANGED group
  PROVE  GroupTyped' /\ Permitted'
  BY DEF GroupTyped, Permitted, Holding, group

\* What a chunk lists: segments of the programme up to the end of the chunk or of the programme.
LEMMA ListedType ==
  ASSUME RestTyped, NEW h \in Nat, h < Instant(end)
  PROVE  /\ Listed(h) \in Seq(Segment) /\ Listed(h) # <<>>
         /\ \E e \in Nat : /\ h < e /\ e <= Instant(end) /\ Listed(h) = SegmentsOf(h, e)
                           /\ h + ChunkLength < Instant(end) => e = h + ChunkLength
                           /\ Instant(end) <= h + ChunkLength => e = Instant(end)
<1>0. ChunkLength \in Nat \ {0} /\ Instant(end) \in Nat
  BY ConstantsAssumption, InstantType DEF RestTyped
<1>1. PICK e \in Nat : e = IF h + ChunkLength < Instant(end) THEN h + ChunkLength ELSE Instant(end)
  BY <1>0
<1>2. h < e /\ e <= Instant(end) /\ Listed(h) = SegmentsOf(h, e)
  BY <1>0, <1>1 DEF Listed
<1>3. Listed(h) \in Seq(0..e) /\ Listed(h) # <<>> /\ 0..e \subseteq Segment
  BY <1>0, <1>2, SegmentsType DEF Segment
<1>4. Listed(h) \in Seq(Segment)
  BY <1>3, SeqMonotonic
<1> QED
  BY <1>0, <1>1, <1>2, <1>3, <1>4

\* The playlist of a chunk, before it is read.
LEMMA FreshWalk ==
  ASSUME NEW S, NEW l \in Seq(S)
  PROVE  /\ [NoWalk EXCEPT !.here = l] = [depth |-> 0, found |-> <<>>, here |-> l, after |-> <<>>]
         /\ <<>> \in Seq(S) /\ <<>> \o l \o <<>> = l
<1>1. [NoWalk EXCEPT !.here = l] = [depth |-> 0, found |-> <<>>, here |-> l, after |-> <<>>]
  BY DEF NoWalk
<1>2. <<>> \in Seq(S) /\ <<>> \o l = l /\ l \o <<>> = l
  BY ConcatEmptySeq, EmptySeq
<1> QED
  BY <1>1, <1>2

\* The chunks are set out.
LEMMA BuildStep ==
  ASSUME Sound, buildTimefreePlaylistURLs
  PROVE  RestTyped' /\ Listing' /\ Filed' /\ Fetching' /\ UNCHANGED group
<1>0. RestTyped /\ Instant(start) \in Nat /\ Instant(end) \in Nat /\ MaxDepth \in Nat
  BY Parts, InstantType, ConstantsAssumption DEF Sound, RestTyped
<1>1. UNCHANGED <<input, group, cancelled, file>> /\ pc = "build"
  BY DEF buildTimefreePlaylistURLs
<1>2. segmentURLs = <<>> /\ fetch = <<>> /\ file = NoFile
  BY <1>1 DEF Sound, Listing, Fetching, Filed
<1>3. CASE /\ Instant(start) < Instant(end) /\ chunks' = Seeks /\ pc' = "playlists"
           /\ walk' = [NoWalk EXCEPT !.here = Listed(Head(Seeks))] /\ UNCHANGED segmentURLs
  <2>1. Covers(Seeks, Instant(end)) /\ Head(Seeks) = Instant(start) /\ Seeks \in Seq(Nat)
    BY <1>0, <1>3, SeeksCover DEF Covers
  <2>2. Listed(Head(Seeks)) \in Seq(Segment)
    BY <1>0, <1>3, <2>1, ListedType
  <2>3. /\ walk' = [depth |-> 0, found |-> <<>>, here |-> Listed(Head(Seeks)), after |-> <<>>]
        /\ <<>> \in Seq(Segment) /\ <<>> \o Listed(Head(Seeks)) \o <<>> = Listed(Head(Seeks))
    BY <1>3, <2>2, FreshWalk
  <2>4. walk' \in [depth : 0..(MaxDepth + 1), found : Seq(Segment), here : Seq(Segment), after : Seq(Segment)]
    BY <1>0, <2>2, <2>3
  <2>5. /\ walk'.found \o walk'.here \o walk'.after = Listed(Head(Seeks))
    BY <2>3
  <2>6. RestTyped'
    BY <1>0, <1>1, <1>3, <2>1, <2>4 DEF RestTyped, input, Steps, Segment
  <2>7. Listing'
    <3>1. PICK b \in Nat, f \in Nat, c \in Seq(Nat), l \in Seq(Segment) :
            b = Instant(start) /\ f = Instant(end) /\ c = Seeks /\ l = Listed(Head(Seeks))
      BY <1>0, <2>1, <2>2
    <3>2. ReadUpTo(b, f, c, l, <<>>)
      BY <1>0, <2>1, <3>1 DEF ReadUpTo, Listed
    <3>3. /\ Instant(start)' = b /\ Instant(end)' = f /\ chunks' = c /\ segmentURLs' = <<>>
          /\ (walk.found \o walk.here \o walk.after)' = l
      BY <1>1, <1>2, <1>3, <2>5, <3>1 DEF input
    <3>4. ReadUpTo(Instant(start), Instant(end), chunks, walk.found \o walk.here \o walk.after, segmentURLs)'
      BY <3>2, <3>3
    <3> QED
      BY <1>3, <3>4 DEF Listing
  <2> QED
    BY <1>1, <1>2, <1>3, <2>6, <2>7 DEF Filed, Fetching, group
<1>4. CASE ReturnError
  BY <1>0, <1>1, <1>2, <1>4 DEF ReturnError, RestTyped, Listing, Filed, Fetching, input, group, Steps, Segment
<1> QED
  BY <1>0, <1>1, <1>3, <1>4 DEF buildTimefreePlaylistURLs

\* A playlist within a playlist.
LEMMA NestedStep ==
  ASSUME Sound, fetchNestedPlaylist
  PROVE  RestTyped' /\ Listing' /\ Filed' /\ Fetching' /\ UNCHANGED group
<1>0. RestTyped /\ MaxDepth \in Nat
  BY Parts, ConstantsAssumption DEF Sound
<1>1. UNCHANGED <<input, pc, chunks, segmentURLs, group, cancelled, file>> /\ pc = "playlists" /\ walk.depth <= MaxDepth
  BY DEF fetchNestedPlaylist
<1>2. PICK i \in 0..Len(walk.here), j \in 0..Len(walk.here) :
        /\ i <= j
        /\ walk' = [depth |-> walk.depth + 1,
                    found |-> walk.found \o SubSeq(walk.here, 1, i),
                    here |-> SubSeq(walk.here, i + 1, j),
                    after |-> SubSeq(walk.here, j + 1, Len(walk.here)) \o walk.after]
  BY DEF fetchNestedPlaylist
<1>3. walk.found \in Seq(Segment) /\ walk.here \in Seq(Segment) /\ walk.after \in Seq(Segment)
      /\ walk.depth + 1 \in 0..(MaxDepth + 1)
  BY <1>0, <1>1 DEF RestTyped
<1>4. /\ walk'.found \in Seq(Segment) /\ walk'.here \in Seq(Segment) /\ walk'.after \in Seq(Segment)
      /\ walk'.found \o walk'.here \o walk'.after = walk.found \o walk.here \o walk.after
  <2>1. Split(Segment, walk.found, walk.here, walk.after, i, j)
    BY <1>2, <1>3, WalkSplit
  <2> QED
    BY <1>2, <2>1 DEF Split
<1>5. walk' \in [depth : 0..(MaxDepth + 1), found : Seq(Segment), here : Seq(Segment), after : Seq(Segment)]
  BY <1>2, <1>3, <1>4
<1>6. RestTyped'
  BY <1>0, <1>1, <1>5 DEF RestTyped, input, Segment
<1>7. Listing'
  <2>1. ReadUpTo(Instant(start), Instant(end), chunks, walk.found \o walk.here \o walk.after, segmentURLs)
    BY <1>1 DEF Sound, Listing
  <2>2. /\ Instant(start)' = Instant(start) /\ Instant(end)' = Instant(end)
        /\ (walk.found \o walk.here \o walk.after)' = walk.found \o walk.here \o walk.after
    BY <1>1, <1>4 DEF input
  <2>3. ReadUpTo(Instant(start), Instant(end), chunks, walk.found \o walk.here \o walk.after, segmentURLs)'
    BY <1>1, <2>1, <2>2
  <2> QED
    BY <1>1, <2>3 DEF Listing
<1> QED
  BY <1>1, <1>6, <1>7 DEF Sound, Filed, Fetching, group

\* A chunk is read, or the last one.
LEMMA SegmentsStep ==
  ASSUME Sound, fetchSegmentURLs
  PROVE  RestTyped' /\ Listing' /\ Filed' /\ Fetching' /\ GroupTyped' /\ Permitted'
<1>0. RestTyped /\ GroupTyped /\ Instant(start) \in Nat /\ Instant(end) \in Nat /\ MaxDepth \in Nat
  BY Parts, InstantType, ConstantsAssumption DEF Sound, RestTyped
<1>1. /\ UNCHANGED <<input, permits, err, cancelled, file>> /\ pc = "playlists"
      /\ segmentURLs' = Merged(walk.found \o walk.here \o walk.after)
      /\ chunks' = Tail(chunks)
  BY DEF fetchSegmentURLs
<1>r. ReadUpTo(Instant(start), Instant(end), chunks, walk.found \o walk.here \o walk.after, segmentURLs)
  BY <1>1 DEF Sound, Listing
<1>2. PICK h \in Nat : h = Head(chunks) /\ h < Instant(end) /\ Instant(start) <= h
  BY <1>0, <1>r, CoversTail DEF ReadUpTo
<1>3. /\ Tail(chunks) \in Seq(Nat)
      /\ Tail(chunks) # <<>> => /\ Covers(Tail(chunks), Instant(end))
                                /\ Head(Tail(chunks)) = h + ChunkLength /\ h + ChunkLength < Instant(end)
      /\ Tail(chunks) = <<>> => Instant(end) <= h + ChunkLength
  BY <1>0, <1>r, <1>2, CoversTail DEF ReadUpTo
<1>4. PICK e \in Nat : /\ h < e /\ e <= Instant(end) /\ Listed(h) = SegmentsOf(h, e)
                       /\ h + ChunkLength < Instant(end) => e = h + ChunkLength
                       /\ Instant(end) <= h + ChunkLength => e = Instant(end)
  BY <1>0, <1>2, ListedType
<1>5. segmentURLs' = SegmentsOf(Instant(start), e)
  <2>1. walk.found \o walk.here \o walk.after = SegmentsOf(h, e)
    BY <1>r, <1>2, <1>4 DEF ReadUpTo, Listed
  <2>2. segmentURLs = IF h = Instant(start) THEN <<>> ELSE SegmentsOf(Instant(start), h)
    BY <1>r, <1>2 DEF ReadUpTo
  <2> QED
    BY <1>0, <1>1, <1>2, <1>4, <2>1, <2>2, MergedChunk
<1>6. segmentURLs' \in Seq(Segment) /\ segmentURLs' # <<>>
  <2>1. Instant(start) < e
    BY <1>0, <1>2, <1>4
  <2>2. SegmentsOf(Instant(start), e) \in Seq(0..e) /\ SegmentsOf(Instant(start), e) # <<>> /\ 0..e \subseteq Segment
    BY <1>0, <1>4, <2>1, SegmentsType DEF Segment
  <2> QED
    BY <1>5, <2>2, SeqMonotonic
<1>7. fetch = <<>> /\ file = NoFile
  BY <1>1 DEF Sound, Fetching, Filed
<1>8. CASE /\ Tail(chunks) # <<>> /\ walk' = [NoWalk EXCEPT !.here = Listed(Head(Tail(chunks)))]
           /\ UNCHANGED <<pc, fetch>>
  <2>1. PICK g \in Nat : g = Head(Tail(chunks)) /\ g = h + ChunkLength /\ g < Instant(end) /\ Instant(start) < g /\ e = g
    <3>1. ChunkLength \in Nat \ {0}
      BY ConstantsAssumption
    <3>2. PICK g \in Nat : g = h + ChunkLength
      BY <3>1
    <3>3. g = Head(Tail(chunks)) /\ g < Instant(end) /\ e = g
      BY <1>3, <1>4, <1>8, <3>2
    <3>4. Instant(start) < g
      BY <1>0, <1>2, <3>1, <3>2
    <3> QED
      BY <3>2, <3>3, <3>4
  <2>2. Listed(g) \in Seq(Segment)
    BY <1>0, <2>1, ListedType
  <2>3. /\ walk' = [depth |-> 0, found |-> <<>>, here |-> Listed(g), after |-> <<>>]
        /\ <<>> \in Seq(Segment) /\ <<>> \o Listed(g) \o <<>> = Listed(g)
    BY <1>8, <2>1, <2>2, FreshWalk
  <2>4. walk' \in [depth : 0..(MaxDepth + 1), found : Seq(Segment), here : Seq(Segment), after : Seq(Segment)]
    BY <1>0, <2>2, <2>3
  <2>5. walk'.found \o walk'.here \o walk'.after = Listed(g)
    BY <2>3
  <2>6. RestTyped'
    BY <1>0, <1>1, <1>3, <1>6, <1>8, <2>4 DEF RestTyped, input, Segment
  <2>7. Listing'
    <3>1. PICK b \in Nat, f \in Nat, c \in Seq(Nat), l \in Seq(Segment) :
            b = Instant(start) /\ f = Instant(end) /\ c = Tail(chunks) /\ l = Listed(g)
      BY <1>0, <1>3, <2>2
    <3>2. ReadUpTo(b, f, c, l, SegmentsOf(b, g))
      BY <1>3, <1>8, <2>1, <3>1 DEF ReadUpTo, Listed
    <3>3. /\ Instant(start)' = b /\ Instant(end)' = f /\ chunks' = c /\ segmentURLs' = SegmentsOf(b, g)
          /\ (walk.found \o walk.here \o walk.after)' = l
      BY <1>1, <1>5, <2>1, <2>5, <3>1 DEF input
    <3>4. ReadUpTo(Instant(start), Instant(end), chunks, walk.found \o walk.here \o walk.after, segmentURLs)'
      BY <3>2, <3>3
    <3> QED
      BY <1>1, <1>8, <3>4 DEF Listing
  <2> QED
    BY <1>0, <1>1, <1>7, <1>8, <2>6, <2>7 DEF Sound, Filed, Fetching, GroupTyped, Permitted, Holding
<1>9. CASE /\ Tail(chunks) = <<>> /\ walk' = NoWalk /\ pc' = "segments"
           /\ fetch' = [i \in DOMAIN segmentURLs' |-> NoFetch]
  <2>1. e = Instant(end) /\ Instant(start) < Instant(end)
    BY <1>0, <1>2, <1>3, <1>4, <1>9
  <2>2. NoFetch \in FetchRow /\ NoFetch.pc = "waiting"
    BY ConstantsAssumption DEF NoFetch, FetchRow
  <2>3. GroupTyped' /\ \A i \in DOMAIN fetch' : fetch'[i].pc = "waiting"
    BY <1>0, <1>1, <1>9, <2>2 DEF GroupTyped
  <2>4. Holding' = {} /\ Holding = {}
    BY <1>7, <2>3 DEF Holding
  <2>5. walk' \in [depth : 0..(MaxDepth + 1), found : Seq(Segment), here : Seq(Segment), after : Seq(Segment)]
    <3>1. <<>> \in Seq(Segment)
      BY EmptySeq
    <3> QED
      BY <1>0, <1>9, <3>1 DEF NoWalk
  <2>6. RestTyped'
    BY <1>0, <1>1, <1>3, <1>6, <1>9, <2>5 DEF RestTyped, input, Steps, Segment
  <2>7. Listing'
    <3>1. PICK b \in Nat, f \in Nat : b = Instant(start) /\ f = Instant(end)
      BY <1>0
    <3>2. ReadAll(b, f, SegmentsOf(b, f))
      BY <2>1, <3>1 DEF ReadAll
    <3>3. Instant(start)' = b /\ Instant(end)' = f /\ segmentURLs' = SegmentsOf(b, f)
      BY <1>1, <1>5, <2>1, <3>1 DEF input
    <3>4. ReadAll(Instant(start), Instant(end), segmentURLs)'
      BY <3>2, <3>3
    <3> QED
      BY <1>9, <3>4 DEF Listing
  <2> QED
    BY <1>1, <1>7, <1>9, <2>3, <2>4, <2>6, <2>7 DEF Sound, Filed, Fetching, Permitted
<1> QED
  BY <1>1, <1>8, <1>9 DEF fetchSegmentURLs

\* Waiting, writing, failing: what touches neither what is listed nor the goroutines.
LEMMA LaterSteps ==
  ASSUME Sound,
         \/ WaitSegments \/ FailFile \/ CreateFile \/ WriteSegment
         \/ verifyDownloadedFile \/ FailPlaylist \/ CancelContext
  PROVE  RestTyped' /\ Listing' /\ Filed' /\ Fetching' /\ UNCHANGED group
<1>0. RestTyped /\ GroupTyped
  BY Parts DEF Sound
<1>1. /\ UNCHANGED <<input, listing, group>> /\ start' = start /\ end' = end
      /\ Instant(start)' = Instant(start) /\ Instant(end)' = Instant(end) /\ Segment' = Segment
      /\ segmentURLs' = segmentURLs /\ fetch' = fetch /\ chunks' = chunks /\ walk' = walk
  BY DEF WaitSegments, FailFile, CreateFile, WriteSegment, verifyDownloadedFile, FailPlaylist, CancelContext,
         ReturnError, input, listing, group, Segment
<1>l. ASSUME pc' # "build", pc' = "playlists" => pc = "playlists",
             pc' \in {"segments", "create", "write", "verify", "ok"} =>
               pc \in {"segments", "create", "write", "verify", "ok"}
      PROVE  Listing'
  <2>1. ASSUME pc' = "playlists"
        PROVE  ReadUpTo(Instant(start), Instant(end), chunks, walk.found \o walk.here \o walk.after, segmentURLs)'
    <3>1. ReadUpTo(Instant(start), Instant(end), chunks, walk.found \o walk.here \o walk.after, segmentURLs)
      BY <1>l, <2>1 DEF Sound, Listing
    <3> QED
      BY <1>1, <3>1
  <2>2. ASSUME pc' \in {"segments", "create", "write", "verify", "ok"}
        PROVE  ReadAll(Instant(start), Instant(end), segmentURLs)'
    <3>1. ReadAll(Instant(start), Instant(end), segmentURLs)
      BY <1>l, <2>2 DEF Sound, Listing
    <3> QED
      BY <1>1, <3>1
  <2> QED
    BY <1>l, <2>1, <2>2 DEF Listing
<1>t. ASSUME pc' \in Steps, cancelled' \in BOOLEAN, (file = NoFile \/ file \in Seq(Segment))'
      PROVE  RestTyped'
  BY <1>0, <1>1, <1>t DEF RestTyped
<1>f. (file = NoFile \/ file \in Seq(Segment)) /\ pc \in Steps /\ cancelled \in BOOLEAN
  BY <1>0 DEF RestTyped
<1>2. CASE WaitSegments
  <2>1. pc = "segments" /\ pc' \in {"create", "error"} /\ UNCHANGED <<cancelled, file>>
        /\ \A i \in DOMAIN fetch : fetch[i].pc = "done"
    BY <1>2 DEF WaitSegments
  <2>2. Listing' /\ RestTyped'
    BY <1>1, <1>f, <1>l, <1>t, <2>1 DEF Steps
  <2> QED
    BY <1>1, <2>1, <2>2 DEF Sound, Filed, Fetching
<1>3. CASE FailFile
  <2>1. pc \in {"create", "write", "verify"} /\ pc' = "error" /\ UNCHANGED <<cancelled, file>>
    BY <1>3 DEF FailFile
  <2>2. Listing' /\ RestTyped'
    BY <1>1, <1>f, <1>l, <1>t, <2>1 DEF Steps
  <2> QED
    BY <1>1, <2>1, <2>2 DEF Sound, Filed, Fetching
<1>4. CASE CreateFile
  <2>1. pc = "create" /\ pc' = "write" /\ file' = <<>> /\ UNCHANGED cancelled
    BY <1>4 DEF CreateFile
  <2>2. file' \in Seq(Segment') /\ Len(file') = 0
    BY <1>1, <2>1, EmptySeq
  <2>3. Listing' /\ RestTyped'
    BY <1>1, <1>f, <1>l, <1>t, <2>1, <2>2 DEF Steps
  <2>4. Len(segmentURLs) \in Nat \ {0}
    <3>1. PICK b \in Nat, f \in Nat : ReadAll(b, f, segmentURLs)
      BY <1>0, <2>1, InstantType DEF Sound, Listing, RestTyped
    <3>2. segmentURLs \in Seq(0..f) /\ segmentURLs # <<>>
      BY <3>1, SegmentsType DEF ReadAll
    <3> QED
      BY <3>2, EmptySeq
  <2> QED
    BY <1>1, <2>1, <2>2, <2>3, <2>4 DEF Sound, Filed, Fetching
<1>5. CASE WriteSegment
  <2>1. /\ pc = "write" /\ file' = Append(file, segmentURLs[Len(file) + 1]) /\ UNCHANGED cancelled
        /\ pc' = IF Len(file') = Len(segmentURLs) THEN "verify" ELSE "write"
    BY <1>5 DEF WriteSegment
  <2>2. PICK n \in Nat, m \in Nat :
          /\ n = Len(file) /\ m = Len(segmentURLs) /\ n < m /\ file \in Seq(Segment) /\ segmentURLs \in Seq(Segment)
          /\ \A i \in 1..n : file[i] = segmentURLs[i]
    BY <1>0, <2>1 DEF Sound, Filed, RestTyped
  <2>3. n + 1 \in 1..m /\ segmentURLs[n + 1] \in Segment
    BY <2>2, ElementOfSeq
  <2>4. /\ file' \in Seq(Segment) /\ Len(file') = n + 1
        /\ \A i \in 1..n : file'[i] = file[i]
        /\ file'[n + 1] = segmentURLs[n + 1]
    BY <2>1, <2>2, <2>3, AppendProperties
  <2>5. \A i \in 1..(n + 1) : file'[i] = segmentURLs[i]
    BY <2>2, <2>4
  <2>6. n + 1 = m => file' = segmentURLs
    BY <2>2, <2>4, <2>5, SeqEqual
  <2>7. Listing' /\ RestTyped'
    BY <1>1, <1>f, <1>l, <1>t, <2>1, <2>4 DEF Steps
  <2>8. Filed'
    <3>1. pc' = "verify" => file' = segmentURLs'
      BY <1>1, <2>1, <2>2, <2>4, <2>6
    <3>2. pc' = "write" => /\ file' \in Seq(Segment') /\ Len(file') < Len(segmentURLs')
                           /\ \A i \in 1..Len(file') : file'[i] = segmentURLs'[i]
      BY <1>1, <2>1, <2>2, <2>4, <2>5
    <3> QED
      BY <2>1, <3>1, <3>2 DEF Filed
  <2>9. Fetching'
    BY <1>1, <2>1 DEF Sound, Fetching
  <2> QED
    BY <1>1, <2>7, <2>8, <2>9
<1>6. CASE verifyDownloadedFile
  <2>1. pc = "verify" /\ pc' \in {"ok", "error"} /\ UNCHANGED <<cancelled, file>>
    BY <1>6 DEF verifyDownloadedFile
  <2>2. Listing' /\ RestTyped'
    BY <1>1, <1>f, <1>l, <1>t, <2>1 DEF Steps
  <2> QED
    BY <1>1, <2>1, <2>2 DEF Sound, Filed, Fetching
<1>7. CASE FailPlaylist
  <2>1. pc = "playlists" /\ pc' = "error" /\ UNCHANGED <<cancelled, file>>
    BY <1>7 DEF FailPlaylist, ReturnError
  <2>2. Listing' /\ RestTyped'
    BY <1>1, <1>f, <1>l, <1>t, <2>1 DEF Steps
  <2> QED
    BY <1>1, <2>1, <2>2 DEF Sound, Filed, Fetching
<1>8. CASE CancelContext
  <2>1. cancelled' = TRUE /\ UNCHANGED <<pc, file>>
    BY <1>8 DEF CancelContext
  <2>2. RestTyped'
    BY <1>1, <1>f, <1>t, <2>1
  <2>3. Listing'
    <3>1. CASE pc # "build"
      BY <1>l, <2>1, <3>1
    <3>2. CASE pc = "build"
      BY <1>1, <2>1, <3>2 DEF Sound, Listing
    <3> QED
      BY <3>1, <3>2
  <2> QED
    BY <1>1, <2>1, <2>2, <2>3 DEF Sound, Filed, Fetching
<1> QED
  BY <1>2, <1>3, <1>4, <1>5, <1>6, <1>7, <1>8

-----------------------------------------------------------------------------
(* The theorems *)

\* Every download begins soundly.
LEMMA SoundInit == Init => Sound
<1> SUFFICES ASSUME Init PROVE Sound
  OBVIOUS
<1>1. MaxParallel \in Nat \ {0} /\ MaxDepth \in Nat /\ MaxAttempts \in Nat
  BY ConstantsAssumption
<1>2. <<>> \in Seq(Nat) /\ <<>> \in Seq(Segment)
  BY EmptySeq
<1>3. RestTyped
  <2>1. NoWalk \in [depth : 0..(MaxDepth + 1), found : Seq(Segment), here : Seq(Segment), after : Seq(Segment)]
    <3>1. 0 \in 0..(MaxDepth + 1)
      BY <1>1
    <3> QED
      BY <1>2, <3>1 DEF NoWalk
  <2>2. {start, end} \subseteq Timestamps /\ pc \in Steps /\ cancelled \in BOOLEAN /\ file = NoFile
    BY DEF Init, Steps
  <2>3. chunks \in Seq(Nat) /\ segmentURLs \in Seq(Segment)
    BY <1>2 DEF Init
  <2>4. walk = NoWalk
    BY DEF Init
  <2> QED
    BY <2>1, <2>2, <2>3, <2>4 DEF RestTyped
<1>4. DOMAIN fetch = {}
  BY DEF Init
<1>5. GroupTyped /\ Fetching
  BY <1>1, <1>4 DEF Init, GroupTyped, Fetching, Errors
<1>6. Permitted
  <2>1. Holding = {}
    BY <1>4 DEF Holding
  <2> QED
    BY <1>1, <2>1, FS_EmptySet DEF Init, Permitted
<1> QED
  BY <1>3, <1>5, <1>6, Parts DEF Init, Sound, Listing, Filed

\* Every step keeps the download sound.
LEMMA SoundStep == Sound /\ [Next]_vars => Sound'
<1> SUFFICES ASSUME Sound, [Next]_vars PROVE Sound'
  OBVIOUS
<1>0. GroupTyped /\ RestTyped /\ Permitted
  BY Parts DEF Sound
<1>p. (TypeOK <=> GroupTyped /\ RestTyped)'
  BY Parts, PTL
<1>1. ASSUME NEW i \in DOMAIN fetch, RunFetch(i) PROVE Sound'
  BY <1>1, FetchStep
<1>2. ASSUME RestTyped', Listing', Filed', Fetching', UNCHANGED group PROVE Sound'
  <2>1. GroupTyped' /\ Permitted'
    BY <1>0, <1>2, GroupKept
  <2> QED
    BY <1>2, <1>p, <2>1 DEF Sound
<1>3. CASE buildTimefreePlaylistURLs
  BY <1>2, <1>3, BuildStep
<1>4. CASE fetchNestedPlaylist
  BY <1>2, <1>4, NestedStep
<1>5. CASE fetchSegmentURLs
  <2>1. RestTyped' /\ Listing' /\ Filed' /\ Fetching' /\ GroupTyped' /\ Permitted'
    BY <1>5, SegmentsStep
  <2> QED
    BY <1>p, <2>1 DEF Sound
<1>6. CASE \/ WaitSegments \/ FailFile \/ CreateFile \/ WriteSegment
           \/ verifyDownloadedFile \/ FailPlaylist \/ CancelContext
  BY <1>2, <1>6, LaterSteps
<1>7. CASE UNCHANGED vars
  <2>1. UNCHANGED group /\ UNCHANGED <<input, pc, listing, cancelled, file>>
    BY <1>7 DEF vars, group, input, listing
  <2>2. RestTyped' /\ Fetching' /\ Filed'
    BY <1>0, <1>7 DEF vars, RestTyped, Fetching, Filed, Segment, Sound
  <2>3. Listing'
    BY <1>7 DEF vars, Sound, Listing, Instant, normalizeRadikoTimestamp
  <2> QED
    BY <1>2, <2>1, <2>2, <2>3
<1> QED
  BY <1>1, <1>3, <1>4, <1>5, <1>6, <1>7 DEF Next, RunCall

\* The invariant holds throughout.
LEMMA SoundAlways == Spec => []Sound
  BY SoundInit, SoundStep, PTL DEF Spec

\* What a download keeps has its type: in particular no chunk lists a segment past the end of the
\* programme, no fetch makes more attempts than segmentRetryAttempts, and the semaphore never holds
\* more permits than RECORDING_MAX_PARALLEL.
THEOREM DownloadTypeCorrect == Spec => []TypeOK
<1>1. Sound => TypeOK
  BY DEF Sound
<1> QED
  BY <1>1, SoundAlways, PTL

\* After g.Wait every goroutine has ended and given its permit back, whatever failed or was
\* cancelled while they ran.
THEOREM AllFetchesEnded == Spec => []NothingLeftRunning
<1>1. Sound => NothingLeftRunning
  <2> SUFFICES ASSUME Sound, pc \notin {"build", "playlists", "segments"}
               PROVE  permits = MaxParallel /\ \A i \in DOMAIN fetch : fetch[i].pc = "done"
    BY DEF NothingLeftRunning
  <2>1. \A i \in DOMAIN fetch : fetch[i].pc = "done"
    BY DEF Sound, Fetching
  <2>2. Holding = {}
    BY <2>1 DEF Holding
  <2>3. Cardinality({}) = 0 /\ GroupTyped
    BY FS_EmptySet, Parts DEF Sound
  <2> QED
    BY <2>1, <2>2, <2>3 DEF Sound, Permitted, GroupTyped
<1> QED
  BY <1>1, SoundAlways, PTL

-----------------------------------------------------------------------------
(* What the recorders assume *)

\* What the recorders see of a download.
Whole == SegmentsOf(Instant(start), Instant(end))
Result == IF Returned THEN pc ELSE "running"
Output == IF file = NoFile THEN "none" ELSE IF file = Whole THEN "whole" ELSE "partial"

Promised == [Abstract!Next]_<<Result, Output>>

\* From the last chunk on the segments listed are those of the programme, at least one; a file that
\* was begun is never taken for none.
LEMMA WholeFacts ==
  ASSUME RestTyped, Listing, pc \in {"segments", "create", "write", "verify", "ok"}
  PROVE  /\ segmentURLs = Whole /\ Whole \in Seq(Segment) /\ Whole # <<>>
         /\ \A s \in Seq(Segment) : s # NoFile
<1>1. Instant(start) \in Nat /\ Instant(end) \in Nat
  BY InstantType DEF RestTyped
<1>2. Instant(start) < Instant(end) /\ segmentURLs = Whole
  BY DEF Listing, ReadAll, Whole
<1>3. Whole \in Seq(Segment) /\ Whole # <<>>
  BY <1>1, <1>2, SegmentsType DEF Whole, Segment
<1>4. ASSUME NEW s \in Seq(Segment) PROVE s # NoFile
  <2>1. Len(NoFile) = 1 /\ NoFile[1] = -1 /\ -1 \notin Segment
    BY <1>1 DEF NoFile, Segment
  <2>2. ASSUME Len(s) = 1 PROVE s[1] \in Segment
    BY <2>2, ElementOfSeq
  <2> QED
    BY <2>1, <2>2
<1> QED
  BY <1>2, <1>3, <1>4

\* A step that leaves the file alone shows nothing but the end of the call.
LEMMA Unseen ==
  ASSUME UNCHANGED <<input, file>>,
         \/ pc' = pc
         \/ pc \notin {"ok", "error"} /\ pc' \notin {"ok", "error"}
         \/ pc \notin {"ok", "error"} /\ pc' = "error"
  PROVE  Promised
<1>1. Output' = Output
  <2>1. Whole' = Whole
    BY DEF Whole, Instant, normalizeRadikoTimestamp, SegmentsOf, input
  <2> QED
    BY <2>1 DEF Output
<1>2. CASE Result' = Result
  BY <1>1, <1>2 DEF Promised
<1>3. CASE Result = "running" /\ Result' = "error"
  <2>1. Abstract!Fail
    BY <1>1, <1>3 DEF Abstract!Fail, Result, Output, Whole
  <2> QED
    BY <2>1 DEF Promised, Abstract!Next
<1> QED
  BY <1>2, <1>3 DEF Result, Returned

\* Every step of the download is one the recorders expect, or is hidden from them.
LEMMA PromisedStep == Sound /\ Sound' /\ [Next]_vars => Promised
<1> SUFFICES ASSUME Sound, Sound', [Next]_vars PROVE Promised
  OBVIOUS
<1>0. RestTyped /\ Listing /\ Filed
  BY Parts DEF Sound
<1>1. CASE UNCHANGED vars
  BY <1>1, Unseen DEF vars, input
<1>2. ASSUME NEW i \in DOMAIN fetch, RunFetch(i) PROVE Promised
  <2>1. UNCHANGED <<input, pc, listing, cancelled, file>>
    BY <1>2, FetchMoves, Parts DEF Sound
  <2> QED
    BY <2>1, Unseen
<1>3. CASE \/ buildTimefreePlaylistURLs \/ fetchNestedPlaylist \/ fetchSegmentURLs
           \/ FailPlaylist \/ WaitSegments \/ FailFile \/ CancelContext
  <2>1. /\ UNCHANGED <<input, file>>
        /\ \/ pc' = pc
           \/ pc \notin {"ok", "error"} /\ pc' \notin {"ok", "error"}
           \/ pc \notin {"ok", "error"} /\ pc' = "error"
    BY <1>3 DEF buildTimefreePlaylistURLs, fetchNestedPlaylist, fetchSegmentURLs, FailPlaylist,
                WaitSegments, FailFile, CancelContext, ReturnError
  <2> QED
    BY <2>1, Unseen
<1>w. ASSUME UNCHANGED input PROVE Whole' = Whole
  BY <1>w DEF Whole, Instant, normalizeRadikoTimestamp, SegmentsOf, input
<1>4. CASE CreateFile
  <2>1. pc = "create" /\ pc' = "write" /\ file' = <<>> /\ file = NoFile /\ UNCHANGED input
    BY <1>0, <1>4 DEF CreateFile, Filed
  <2>2. Whole # <<>> /\ <<>> # NoFile /\ Whole' = Whole
    BY <1>0, <1>w, <2>1, WholeFacts, EmptySeq
  <2>3. Result = "running" /\ Result' = "running" /\ Output = "none" /\ Output' = "partial"
    BY <2>1, <2>2 DEF Result, Returned, Output
  <2>4. Abstract!Create
    BY <2>3 DEF Abstract!Create, Result, Output, Whole
  <2> QED
    BY <2>4 DEF Promised, Abstract!Next
<1>5. CASE WriteSegment
  <2>1. /\ pc = "write" /\ UNCHANGED <<input, segmentURLs>> /\ file \in Seq(Segment) /\ Len(file) < Len(segmentURLs)
        /\ file' = Append(file, segmentURLs[Len(file) + 1])
        /\ pc' = IF Len(file') = Len(segmentURLs) THEN "verify" ELSE "write"
    BY <1>0, <1>5 DEF WriteSegment, Filed, listing
  <2>2. segmentURLs = Whole /\ Whole' = Whole /\ \A s \in Seq(Segment) : s # NoFile
    BY <1>0, <1>w, <2>1, WholeFacts
  <2>3. file # NoFile /\ file # Whole
    BY <2>1, <2>2
  <2>4. Segment' = Segment
    BY <2>1 DEF Segment, Instant, normalizeRadikoTimestamp, input
  <2>5. CASE Len(file') = Len(segmentURLs)
    <3>1. file' = segmentURLs' /\ pc' = "verify" /\ Whole \in Seq(Segment)
      BY <1>0, <2>1, <2>5, WholeFacts DEF Sound, Filed
    <3>2. Result = "running" /\ Result' = "running" /\ Output = "partial" /\ Output' = "whole"
      BY <2>1, <2>2, <2>3, <3>1 DEF Result, Returned, Output
    <3>3. Abstract!Join
      BY <3>2 DEF Abstract!Join, Result, Output, Whole
    <3> QED
      BY <3>3 DEF Promised, Abstract!Next
  <2>6. CASE Len(file') # Len(segmentURLs)
    <3>1. pc' = "write" /\ file' \in Seq(Segment) /\ Len(file') < Len(segmentURLs)
      BY <2>1, <2>4, <2>6 DEF Sound, Filed
    <3>2. file' # NoFile /\ file' # Whole
      BY <2>2, <3>1
    <3>3. Result' = Result /\ Output' = Output
      BY <2>1, <2>2, <2>3, <3>1, <3>2 DEF Result, Returned, Output
    <3> QED
      BY <3>3 DEF Promised
  <2> QED
    BY <2>5, <2>6
<1>6. CASE verifyDownloadedFile
  <2>1. pc = "verify" /\ pc' \in {"ok", "error"} /\ UNCHANGED <<input, file>> /\ file = segmentURLs
    BY <1>0, <1>6 DEF verifyDownloadedFile, Filed
  <2>2. CASE pc' = "ok"
    <3>1. file = Whole /\ Whole' = Whole /\ file # NoFile
      BY <1>0, <1>w, <2>1, WholeFacts
    <3>2. Result = "running" /\ Result' = "ok" /\ Output = "whole" /\ Output' = Output
      BY <2>1, <2>2, <3>1 DEF Result, Returned, Output
    <3>3. Abstract!Succeed
      BY <3>2 DEF Abstract!Succeed, Result, Output, Whole
    <3> QED
      BY <3>3 DEF Promised, Abstract!Next
  <2>3. CASE pc' = "error"
    BY <2>1, <2>3, Unseen
  <2> QED
    BY <2>1, <2>2, <2>3
<1> QED
  BY <1>1, <1>2, <1>3, <1>4, <1>5, <1>6 DEF Next, RunCall

\* A download does to its file only what the recorders assume: nothing, a partial file, the whole
\* programme, from its first segment to its last and each once, and success only then.
THEOREM DownloadImplemented == Spec => ImplementsDownload
<1>1. Init => Abstract!Init
  BY DEF Init, Abstract!Init, Returned
<1>2. Promised <=> [Abstract!Next]_<<IF Returned THEN pc ELSE "running",
                                     IF file = NoFile THEN "none"
                                     ELSE IF file = SegmentsOf(Instant(start), Instant(end)) THEN "whole"
                                     ELSE "partial">>
  BY DEF Promised, Result, Output, Whole
<1> QED
  BY <1>1, <1>2, SoundInit, SoundStep, PromisedStep, PTL DEF Spec, ImplementsDownload, Abstract!Spec

=============================================================================
