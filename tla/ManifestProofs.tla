--------------------------- MODULE ManifestProofs ---------------------------
(***************************************************************************)
(* Proofs about ManifestFile, for every size of the file, every chunk size *)
(* and every sequence of recorded chunks: merging keeps exactly the        *)
(* recorded bytes, what is missing is exactly what was never verified, a   *)
(* resumed file completes, and the two copies of the arithmetic agree.     *)
(***************************************************************************)
EXTENDS ManifestFile, ListFacts, FiniteSetTheorems, TLAPS

\* A range of bytes that is not empty.
Span == [offset : Nat, length : Nat \ {0}]

End(r) == r.offset + r.length

\* Spans in the order of their offsets, and spans with a gap between neighbours.
Rising(seq) ==
  /\ seq \in Seq(Span)
  /\ \A i, j \in 1 .. Len(seq) : i < j => seq[i].offset < seq[j].offset

Gapped(seq) ==
  /\ seq \in Seq(Span)
  /\ \A i, j \in 1 .. Len(seq) : i < j => End(seq[i]) < seq[j].offset

\* The rows of one file, at most one for an offset.
Table(rs) ==
  /\ rs \subseteq Span /\ IsFiniteSet(rs)
  /\ \A r, s \in rs : r.offset = s.offset => r = s

-----------------------------------------------------------------------------
\* A span has a beginning and an end after it, and the bytes between.
LEMMA SpanFacts ==
  ASSUME NEW r \in Span
  PROVE  /\ r.offset \in Nat /\ r.length \in Nat /\ r.length > 0
         /\ End(r) \in Nat /\ r.offset < End(r)
         /\ \A b : b \in BytesOf(r) <=> b \in Nat /\ r.offset <= b /\ b < End(r)
BY DEF Span, End, BytesOf

\* The bytes of a set of spans.
LEMMA InBytes ==
  ASSUME NEW rs, NEW b
  PROVE  b \in Bytes(rs) <=> \E r \in rs : b \in BytesOf(r)
BY DEF Bytes

\* The query, or a sort, returns the ranges, each of them once, in the order of their offsets.
LEMMA InOrderRises ==
  ASSUME NEW rs, Table(rs)
  PROVE  Rising(InOrder(rs)) /\ Range(InOrder(rs)) = rs
<1> DEFINE n == Cardinality(rs)
           Lower(r) == {s \in rs : ByOffset(s, r)}
           rank == [r \in rs |-> Cardinality(Lower(r))]
           seq == [k \in 1 .. n |-> CHOOSE r \in rs : Cardinality(Lower(r)) = k - 1]
           sorted == InOrder(rs)
<1>1. IsFiniteSet(rs) /\ n \in Nat /\ \A r \in rs : r \in Span /\ r.offset \in Nat
  BY FS_CardinalityType, SpanFacts DEF Table
<1>2. ASSUME NEW r \in rs PROVE IsFiniteSet(Lower(r)) /\ rank[r] \in 0 .. n - 1
  <2>1. Lower(r) \in SUBSET (rs \ {r})
    BY <1>1 DEF ByOffset
  <2>2. IsFiniteSet(rs \ {r}) /\ Cardinality(rs \ {r}) = n - 1
    BY <1>1, FS_RemoveElement
  <2>3. IsFiniteSet(Lower(r)) /\ Cardinality(Lower(r)) <= n - 1
    BY <2>1, <2>2, FS_Subset
  <2>4. Cardinality(Lower(r)) \in Nat
    BY <2>3, FS_CardinalityType
  <2>5. Cardinality(Lower(r)) \in 0 .. n - 1
    BY <1>1, <2>3, <2>4
  <2> QED BY <2>3, <2>5, Zenon
<1>3. ASSUME NEW r \in rs, NEW s \in rs, r.offset < s.offset PROVE rank[r] < rank[s]
  <2>1. Lower(r) \in SUBSET Lower(s) /\ Lower(s) # Lower(r)
    <3>1. \A q \in rs : q.offset < r.offset => q.offset < s.offset
      BY <1>1, <1>3
    <3>2. r \in Lower(s) /\ r \notin Lower(r)
      BY <1>1, <1>3 DEF ByOffset
    <3> QED BY <3>1, <3>2, Zenon DEF ByOffset
  <2>2. PICK a, b : a = Cardinality(Lower(r)) /\ b = Cardinality(Lower(s))
    BY Zenon
  <2>3. a <= b /\ a # b
    BY <1>2, <2>1, <2>2, FS_Subset, Zenon
  <2>4. a \in Nat /\ b \in Nat
    BY <1>2, <2>2, FS_CardinalityType, Zenon
  <2>5. a < b
    BY <2>3, <2>4
  <2> QED BY <2>2, <2>5, Zenon
<1> HIDE DEF rank, n
<1>0. \A r \in rs : rank[r] \in 0 .. n - 1
  BY <1>2, Zenon
<1>4. \A r, s \in rs : /\ rank[r] = rank[s] => r = s
                       /\ rank[r] < rank[s] => r.offset < s.offset
  <2>1. ASSUME NEW r \in rs, NEW s \in rs
        PROVE  (rank[r] = rank[s] => r = s) /\ (rank[r] < rank[s] => r.offset < s.offset)
    <3>1. rank[r] \in Int /\ rank[s] \in Int
      BY <1>1, <1>0
    <3>2. CASE r.offset = s.offset
      BY <3>1, <3>2 DEF Table
    <3>3. CASE r.offset < s.offset
      BY <1>3, <3>1, <3>3
    <3>4. CASE s.offset < r.offset
      BY <1>3, <3>1, <3>4
    <3> QED BY <1>1, <3>2, <3>3, <3>4
  <2> QED BY <2>1, Zenon
<1>5. \A k \in 0 .. n - 1 : \E r \in rs : rank[r] = k
  <2>1. rank \in Injection(rs, 0 .. n - 1)
    <3>1. rank \in [rs -> 0 .. n - 1]
      BY <1>0, Zenon DEF rank
    <3> QED BY <1>4, <3>1, Zenon DEF Injection, IsInjective
  <2>2. IsFiniteSet(0 .. n - 1) /\ Cardinality(0 .. n - 1) = n
    BY <1>1, FS_Interval
  <2>3. rank \in Surjection(rs, 0 .. n - 1)
    BY <1>1, <2>1, <2>2, FS_Injection, Zenon DEF n
  <2> QED BY <2>3 DEF Surjection
<1>6. ASSUME NEW k \in 1 .. n PROVE seq[k] \in rs /\ rank[seq[k]] = k - 1
  <2>1. k - 1 \in 0 .. n - 1
    BY <1>1
  <2>2. PICK r \in rs : Cardinality(Lower(r)) = k - 1
    BY <1>5, <2>1, Zenon DEF rank
  <2>3. seq[k] \in rs /\ Cardinality(Lower(seq[k])) = k - 1
    BY <2>2, Zenon
  <2> QED BY <2>3, Zenon DEF rank
<1>7. seq \in [1 .. n -> rs]
  BY <1>6, Zenon
<1> HIDE DEF seq
<1>8. \A i, j \in 1 .. n : i < j => ByOffset(seq[i], seq[j])
  <2>1. ASSUME NEW i \in 1 .. n, NEW j \in 1 .. n, i < j PROVE rank[seq[i]] < rank[seq[j]]
    BY <1>1, <1>6, <2>1
  <2> QED BY <1>4, <1>6, <2>1, Zenon DEF ByOffset
<1>9. sorted \in [1 .. n -> rs] /\ \A i, j \in 1 .. n : i < j => ByOffset(sorted[i], sorted[j])
  <2>1. sorted = CHOOSE q \in [1 .. n -> rs] : \A i, j \in DOMAIN q : i < j => ByOffset(q[i], q[j])
    BY Zenon DEF InOrder, n
  <2>2. \E q \in [1 .. n -> rs] : \A i, j \in DOMAIN q : i < j => ByOffset(q[i], q[j])
    BY <1>8, <1>7, Zenon
  <2> QED BY <2>1, <2>2, Zenon
<1> HIDE DEF sorted
<1>10. sorted \in Seq(Span) /\ Len(sorted) = n /\ DOMAIN sorted = 1 .. n
  <2>1. sorted \in [1 .. n -> Span]
    BY <1>1, <1>9, Zenon
  <2> QED BY <1>1, <2>1
<1>11. Rising(sorted)
  BY <1>9, <1>10, Zenon DEF Rising, ByOffset
<1>12. sorted \in Surjection(1 .. n, rs)
  <2>1. ASSUME NEW i \in 1 .. n, NEW j \in 1 .. n, sorted[i] = sorted[j] PROVE i = j
    <3>1. sorted[i].offset \in Nat /\ ~ sorted[i].offset < sorted[j].offset /\ ~ sorted[j].offset < sorted[i].offset
      BY <1>1, <1>9, <2>1
    <3>2. ~ i < j /\ ~ j < i
      BY <1>9, <3>1, Zenon DEF ByOffset
    <3> QED BY <1>1, <3>2
  <2>2. sorted \in Injection(1 .. n, rs)
    BY <1>9, <2>1, Zenon DEF Injection, IsInjective
  <2>3. Cardinality(1 .. n) = n
    BY <1>1, FS_Interval
  <2> QED BY <1>1, <2>2, <2>3, FS_Injection, Zenon DEF n
<1>13. Range(sorted) = rs
  <2>1. \A r \in rs : \E k \in DOMAIN sorted : sorted[k] = r
    BY <1>10, <1>12, Zenon DEF Surjection
  <2>2. \A k \in DOMAIN sorted : sorted[k] \in rs
    BY <1>9, <1>10, Zenon
  <2> QED BY <2>1, <2>2 DEF Range
<1> QED BY <1>11, <1>13, Zenon DEF sorted

-----------------------------------------------------------------------------
(* The merge *)

\* The bytes of a list of spans.
LEMMA InListBytes ==
  ASSUME NEW seq \in Seq(Span), NEW b
  PROVE  b \in Bytes(Range(seq))
           <=> b \in Nat /\ \E i \in 1 .. Len(seq) : seq[i].offset <= b /\ b < End(seq[i])
<1>1. DOMAIN seq = 1 .. Len(seq) /\ \A i \in 1 .. Len(seq) : seq[i] \in Span
  OBVIOUS
<1>2. \A r \in Range(seq) : \E i \in 1 .. Len(seq) : r = seq[i]
  BY <1>1, Zenon DEF Range
<1>3. \A i \in 1 .. Len(seq) : seq[i] \in Range(seq)
  BY <1>1, Zenon DEF Range
<1>4. \A i \in 1 .. Len(seq) :
        b \in BytesOf(seq[i]) <=> b \in Nat /\ seq[i].offset <= b /\ b < End(seq[i])
  BY <1>1, SpanFacts, Zenon
<1>5. b \in Bytes(Range(seq)) <=> \E r \in Range(seq) : b \in BytesOf(r)
  BY InBytes, Zenon
<1>6. (\E r \in Range(seq) : b \in BytesOf(r)) <=> \E i \in 1 .. Len(seq) : b \in BytesOf(seq[i])
  BY <1>2, <1>3, Zenon
<1> QED BY <1>4, <1>5, <1>6, Zenon

\* One turn of the loop appends the range, or lengthens the last one that was merged.
LEMMA MergeOne ==
  ASSUME NEW x \in Seq(Span), NEW r \in Span
  PROVE  LET n == Len(x)
             y == MergeInto(x, r)
         IN  /\ y \in Seq(Span)
             /\ n = 0 => y = <<r>>
             /\ n > 0 /\ End(x[n]) < r.offset => y = Append(x, r)
             /\ n > 0 /\ r.offset <= End(x[n])
                  => /\ Len(y) = n
                     /\ \A i \in 1 .. n - 1 : y[i] = x[i]
                     /\ y[n].offset = x[n].offset
                     /\ End(y[n]) >= End(x[n]) /\ End(y[n]) >= End(r)
                     /\ End(y[n]) = End(x[n]) \/ End(y[n]) = End(r)
<1> DEFINE n == Len(x)
           y == MergeInto(x, r)
<1>1. CASE n = 0
  <2>1. x = <<>> /\ y = <<r>>
    BY <1>1 DEF MergeInto
  <2>2. <<r>> \in Seq(Span) /\ ~ n > 0
    BY <1>1
  <2> QED BY <2>1, <2>2, Zenon
<1>2. CASE n > 0
  <2>1. n \in Nat /\ x # <<>> /\ n \in 1 .. n /\ x[n] \in Span
    BY <1>2
  <2>2. PICK o, l, a, c : o = x[n].offset /\ l = x[n].length /\ a = r.offset /\ c = r.length
    BY Zenon
  <2>3. o \in Nat /\ l \in Nat /\ l > 0 /\ a \in Nat /\ c \in Nat /\ c > 0
    BY <2>1, <2>2, SpanFacts
  <2>4. End(x[n]) = o + l /\ End(r) = a + c
    BY <2>2, Zenon DEF End
  <2>5. PICK new : new = GreaterOf(a + c, o + l) - o
    BY Zenon
  <2>6. new \in Nat \ {0} /\ o + new >= o + l /\ o + new >= a + c /\ (o + new = o + l \/ o + new = a + c)
    BY <2>3, <2>5 DEF GreaterOf
  <2>7. y = IF a <= o + l THEN [x EXCEPT ![n].length = new] ELSE Append(x, r)
    BY <2>1, <2>2, <2>5, Zenon DEF MergeInto
  <2>8. CASE a <= o + l
    <3>1. y = [x EXCEPT ![n] = [x[n] EXCEPT !.length = new]]
      BY <2>7, <2>8
    <3>2. PICK z : z = [x[n] EXCEPT !.length = new]
      BY Zenon
    <3>3. z \in Span /\ z.offset = o /\ z.length = new
      BY <2>1, <2>2, <2>6, <3>2, SMTT(40) DEF Span
    <3>4. y \in Seq(Span) /\ Len(y) = n /\ y[n] = z /\ \A i \in 1 .. n - 1 : y[i] = x[i]
      BY <2>1, <3>1, <3>2, <3>3
    <3>5. End(y[n]) = o + new /\ y[n].offset = x[n].offset
      BY <2>2, <3>3, <3>4, Zenon DEF End
    <3>6. n # 0 /\ ~ o + l < a
      BY <1>2, <2>3, <2>8
    <3>7. ~ End(x[n]) < r.offset
      BY <2>2, <2>4, <3>6, Zenon
    <3>8. /\ End(y[n]) >= End(x[n]) /\ End(y[n]) >= End(r)
          /\ End(y[n]) = End(x[n]) \/ End(y[n]) = End(r)
      BY <2>4, <2>6, <3>5, Zenon
    <3> QED BY <3>4, <3>5, <3>6, <3>7, <3>8, Zenon
  <2>9. CASE ~ a <= o + l
    <3>1. y = Append(x, r)
      BY <2>7, <2>9, Zenon
    <3>2. n # 0 /\ ~ a <= o + l /\ Append(x, r) \in Seq(Span)
      BY <1>2, <2>9
    <3>3. ~ r.offset <= End(x[n])
      BY <2>2, <2>4, <3>2, Zenon
    <3> QED BY <3>1, <3>2, <3>3, Zenon
  <2> QED BY <2>8, <2>9, Zenon
<1>3. n \in Nat
  OBVIOUS
<1> QED BY <1>1, <1>2, <1>3

\* A gap stays between neighbours, and the bytes of the range are added, when the range
\* does not begin before the last one that was merged.
LEMMA MergeKeeps ==
  ASSUME NEW x, Gapped(x), NEW r \in Span, Len(x) > 0 => x[Len(x)].offset <= r.offset
  PROVE  LET y == MergeInto(x, r)
         IN  /\ Gapped(y)
             /\ Len(y) > 0 /\ y[Len(y)].offset <= r.offset
             /\ \A b : b \in Bytes(Range(y)) <=> b \in Bytes(Range(x)) \/ b \in BytesOf(r)
<1> DEFINE n == Len(x)
           y == MergeInto(x, r)
           In(b, s) == s.offset <= b /\ b < End(s)
<1>1. /\ x \in Seq(Span) /\ n \in Nat
      /\ \A i, j \in 1 .. n : i < j => End(x[i]) < x[j].offset
      /\ \A i \in 1 .. n : x[i] \in Span /\ x[i].offset \in Nat /\ End(x[i]) \in Nat /\ x[i].offset < End(x[i])
  BY SpanFacts DEF Gapped
<1>2. r.offset \in Nat /\ End(r) \in Nat /\ r.offset < End(r)
  BY SpanFacts
<1>3. /\ y \in Seq(Span)
      /\ n = 0 => y = <<r>>
      /\ n > 0 /\ End(x[n]) < r.offset => y = Append(x, r)
      /\ n > 0 /\ r.offset <= End(x[n])
           => /\ Len(y) = n
              /\ \A i \in 1 .. n - 1 : y[i] = x[i]
              /\ y[n].offset = x[n].offset
              /\ End(y[n]) >= End(x[n]) /\ End(y[n]) >= End(r)
              /\ End(y[n]) = End(x[n]) \/ End(y[n]) = End(r)
  BY <1>1, MergeOne, Zenon
<1> HIDE DEF y
<1>4. /\ Len(y) > 0 /\ y[Len(y)].offset <= r.offset
      /\ \A i, j \in 1 .. Len(y) : i < j => End(y[i]) < y[j].offset
      /\ \A b \in Nat : (\E i \in 1 .. Len(y) : In(b, y[i])) <=> (\E i \in 1 .. n : In(b, x[i])) \/ In(b, r)
  <2>1. CASE n = 0
    <3>1. Len(y) = 1 /\ y[1] = r /\ 1 .. 1 = {1} /\ 1 .. n = {}
      BY <1>3, <2>1
    <3>2. Len(y) > 0 /\ y[Len(y)].offset <= r.offset
      BY <1>2, <3>1
    <3>3. \A i, j \in {1} : ~ i < j
      OBVIOUS
    <3> QED BY <3>1, <3>2, <3>3, Zenon
  <2>2. CASE n > 0 /\ End(x[n]) < r.offset
    <3>1. Len(y) = n + 1 /\ y[n + 1] = r /\ \A i \in 1 .. n : y[i] = x[i]
      BY <1>1, <1>3, <2>2, SMTT(40)
    <3>2. \A i \in 1 .. n : End(x[i]) < r.offset
      BY <1>1, <1>2, <2>2
    <3>3. \A i \in 1 .. n + 1 : i = n + 1 \/ i \in 1 .. n
      BY <1>1
    <3>4. n + 1 \in 1 .. n + 1 /\ \A i \in 1 .. n : i \in 1 .. n + 1
      BY <1>1
    <3>5. ASSUME NEW i \in 1 .. n + 1, NEW j \in 1 .. n + 1, i < j PROVE End(y[i]) < y[j].offset
      <4>1. i \in 1 .. n
        BY <1>1, <3>5
      <4> QED BY <1>1, <3>1, <3>2, <3>5, <3>3, <4>1, Zenon
    <3>6. Len(y) > 0 /\ y[Len(y)].offset <= r.offset
      BY <1>1, <1>2, <3>1
    <3>7. ASSUME NEW b \in Nat
          PROVE  (\E i \in 1 .. n + 1 : In(b, y[i])) <=> (\E i \in 1 .. n : In(b, x[i])) \/ In(b, r)
      <4> HIDE DEF In
      <4> QED BY <3>1, <3>3, <3>4, Zenon
    <3> QED BY <3>1, <3>5, <3>6, <3>7, Zenon
  <2>3. CASE n > 0 /\ r.offset <= End(x[n])
    <3>1. /\ Len(y) = n
          /\ \A i \in 1 .. n - 1 : y[i] = x[i]
          /\ y[n].offset = x[n].offset
          /\ End(y[n]) >= End(x[n]) /\ End(y[n]) >= End(r)
          /\ End(y[n]) = End(x[n]) \/ End(y[n]) = End(r)
      BY <1>3, <2>3, Zenon
    <3>2. n \in 1 .. n /\ x[n].offset <= r.offset
      BY <1>1, <2>3
    <3>3. Len(y) > 0 /\ y[Len(y)].offset <= r.offset
      BY <2>3, <3>1, <3>2
    <3>4. ASSUME NEW i \in 1 .. n, NEW j \in 1 .. n, i < j PROVE End(y[i]) < y[j].offset
      <4>1. i \in 1 .. n - 1 /\ y[i] = x[i] /\ End(x[i]) < x[j].offset
        BY <1>1, <3>1, <3>4
      <4>2. j \in 1 .. n - 1 \/ j = n
        BY <1>1
      <4>3. y[j].offset = x[j].offset
        BY <3>1, <4>2, Zenon
      <4> QED BY <4>1, <4>3, Zenon
    <3>5. ASSUME NEW b \in Nat PROVE In(b, y[n]) <=> In(b, x[n]) \/ In(b, r)
      <4>1. PICK p, q, a, c, e : /\ p = x[n].offset /\ q = End(x[n]) /\ a = r.offset
                                 /\ c = End(r) /\ e = End(y[n])
        BY Zenon
      <4>2. p \in Nat /\ q \in Nat /\ a \in Nat /\ c \in Nat /\ p < q /\ a < c /\ p <= a /\ a <= q
        BY <1>1, <1>2, <2>3, <3>2, <4>1
      <4>3. e >= q /\ e >= c /\ (e = q \/ e = c)
        BY <3>1, <4>1, Zenon
      <4>4. (p <= b /\ b < e) <=> (p <= b /\ b < q) \/ (a <= b /\ b < c)
        BY <4>2, <4>3
      <4> QED BY <3>1, <4>1, <4>4, Zenon
    <3>6. ASSUME NEW b \in Nat
          PROVE  (\E i \in 1 .. n : In(b, y[i])) <=> (\E i \in 1 .. n : In(b, x[i])) \/ In(b, r)
      <4>1. \A i \in 1 .. n : i = n \/ y[i] = x[i]
        BY <1>1, <3>1
      <4> HIDE DEF In
      <4> QED BY <3>2, <3>5, <4>1, Zenon
    <3> QED BY <3>1, <3>3, <3>4, <3>6, Zenon
  <2> QED BY <1>1, <1>2, <2>1, <2>2, <2>3
<1>5. Gapped(y)
  BY <1>3, <1>4, Zenon DEF Gapped
<1>6. ASSUME NEW b PROVE b \in Bytes(Range(y)) <=> b \in Bytes(Range(x)) \/ b \in BytesOf(r)
  BY <1>1, <1>3, <1>4, InListBytes, SpanFacts, Zenon
<1> QED BY <1>4, <1>5, <1>6, Zenon DEF y

\* MergeUpTo(seq)[k]: the first k ranges, merged.
MergeUpTo(seq) ==
  CHOOSE f : f = [k \in 0 .. Len(seq) |-> IF k = 0 THEN <<>> ELSE MergeInto(f[k - 1], seq[k])]

\* MergeAll is the last of these.
LEMMA MergeDef ==
  ASSUME NEW seq \in Seq(Span)
  PROVE  MergeAll(seq) = MergeUpTo(seq)[Len(seq)]
BY DEF MergeAll, MergeUpTo

\* The loop of MergeAll has a solution, and MergeUpTo is one.
LEMMA MergeStep ==
  ASSUME NEW seq \in Seq(Span)
  PROVE  LET f == MergeUpTo(seq)
         IN  f[0] = <<>> /\ \A k \in 1 .. Len(seq) : f[k] = MergeInto(f[k - 1], seq[k])
<1> DEFINE N == Len(seq)
           L == Seq(Span)
           step == [p \in (1 .. N) \X L |-> MergeInto(p[2], seq[p[1]])]
           Rec(f) == [k \in 0 .. N |-> IF k = 0 THEN <<>> ELSE MergeInto(f[k - 1], seq[k])]
<1>1. N \in Nat /\ <<>> \in L /\ \A k \in 1 .. N : seq[k] \in Span
  OBVIOUS
<1>2. \A k \in 1 .. N, x \in L : MergeInto(x, seq[k]) \in L
  BY <1>1, MergeOne, Zenon
<1>3. step \in StepOn(N, L)
  <2>1. ASSUME NEW p \in (1 .. N) \X L PROVE MergeInto(p[2], seq[p[1]]) \in L
    BY <1>2
  <2> QED BY <2>1, Zenon DEF StepOn
<1>4. \A k \in 1 .. N, x \in L : step[<<k, x>>] = MergeInto(x, seq[k])
  OBVIOUS
<1>5. 0 \in 0 .. N /\ \A k \in 1 .. N : k \in 0 .. N /\ k - 1 \in 0 .. N /\ k # 0
  BY <1>1
<1>6. \A k \in 0 .. N : k # 0 => k \in 1 .. N
  BY <1>1
<1> HIDE DEF step, N, L
<1>7. PICK f \in [0 .. N -> L] : f[0] = <<>> /\ \A k \in 1 .. N : f[k] = step[<<k, f[k - 1]>>]
  <2> DEFINE a == <<>>
  <2>1. a \in L
    BY <1>1
  <2> HIDE DEF a
  <2>2. PICK f : Iterates(N, L, a, step, f)
    BY <1>1, <1>3, <2>1, Recursion, Zenon
  <2> QED
    BY <2>2, Zenon DEF a, Iterates
<1>8. f = Rec(f)
  <2>1. ASSUME NEW k \in 0 .. N PROVE f[k] = Rec(f)[k]
    BY <1>4, <1>5, <1>6, <1>7, Zenon
  <2> QED
    BY <2>1, Zenon
<1> DEFINE g == MergeUpTo(seq)
<1>9. g = Rec(g)
  <2>1. \E h : h = Rec(h)
    BY <1>8, Zenon
  <2>2. g = CHOOSE h : h = Rec(h)
    BY Zenon DEF MergeUpTo, N
  <2> QED
    BY <2>1, <2>2, Zenon
<1> HIDE DEF g
<1>10. g[0] = <<>> /\ \A k \in 1 .. N : g[k] = MergeInto(g[k - 1], seq[k])
  BY <1>5, <1>9, Zenon
<1> QED
  BY <1>10, Zenon DEF g, N

\* Merging a list that is in order leaves a gap between neighbours and keeps the bytes.
LEMMA MergeSound ==
  ASSUME NEW seq, Rising(seq)
  PROVE  /\ Gapped(MergeAll(seq))
         /\ Bytes(Range(MergeAll(seq))) = Bytes(Range(seq))
<1> DEFINE f == MergeUpTo(seq)
           N == Len(seq)
           Of(k) == {b \in Nat : \E i \in 1 .. k : b \in BytesOf(seq[i])}
           P == {k \in 0 .. N : /\ Gapped(f[k])
                                /\ Len(f[k]) > 0 => k > 0 /\ f[k][Len(f[k])].offset <= seq[k].offset
                                /\ \A b : b \in Bytes(Range(f[k])) <=> b \in Of(k)}
<1>1. /\ seq \in Seq(Span) /\ N \in Nat
      /\ \A k \in 1 .. N : seq[k] \in Span /\ seq[k].offset \in Nat
      /\ \A i, j \in 1 .. N : i < j => seq[i].offset < seq[j].offset
  BY SpanFacts DEF Rising
<1>2. f[0] = <<>> /\ \A k \in 1 .. N : f[k] = MergeInto(f[k - 1], seq[k])
  BY <1>1, MergeStep, Zenon
<1> HIDE DEF f, N
<1>3. 0 \in P
  <2>1. 0 \in 0 .. N /\ Gapped(<<>>) /\ ~ Len(<<>>) > 0
    BY <1>1 DEF Gapped
  <2>2. Bytes(Range(<<>>)) = {} /\ 1 .. 0 = {}
    BY DEF Bytes, Range
  <2> QED BY <1>2, <2>1, <2>2, Zenon
<1>4. ASSUME NEW k \in 1 .. N, k - 1 \in P PROVE k \in P
  <2>1. PICK x, y, r : x = f[k - 1] /\ y = f[k] /\ r = seq[k]
    BY Zenon
  <2>2. y = MergeInto(x, r) /\ r \in Span /\ r.offset \in Nat
    BY <1>1, <1>2, <2>1, Zenon
  <2>3. /\ Gapped(x)
        /\ Len(x) > 0 => k - 1 > 0 /\ x[Len(x)].offset <= seq[k - 1].offset
        /\ \A b : b \in Bytes(Range(x)) <=> b \in Of(k - 1)
    BY <1>4, <2>1, Zenon
  <2>4. Len(x) > 0 => x[Len(x)].offset <= r.offset
    <3>1. SUFFICES ASSUME Len(x) > 0 PROVE x[Len(x)].offset <= r.offset
      OBVIOUS
    <3>2. k - 1 \in 1 .. N /\ k - 1 < k /\ Len(x) \in 1 .. Len(x)
      BY <1>1, <2>3, <3>1 DEF Gapped
    <3>3. seq[k - 1].offset < r.offset /\ seq[k - 1].offset \in Nat
      BY <1>1, <2>1, <3>2, Zenon
    <3>4. x[Len(x)] \in Span
      BY <2>3, <3>2 DEF Gapped
    <3>5. x[Len(x)].offset \in Nat
      BY <3>4, SpanFacts, Zenon
    <3> QED BY <2>2, <2>3, <3>1, <3>3, <3>5
  <2>5. /\ Gapped(y) /\ Len(y) > 0 /\ y[Len(y)].offset <= r.offset
        /\ \A b : b \in Bytes(Range(y)) <=> b \in Bytes(Range(x)) \/ b \in BytesOf(r)
    BY <2>2, <2>3, <2>4, MergeKeeps, Zenon
  <2>6. k \in 0 .. N /\ k > 0
    BY <1>1
  <2>7. ASSUME NEW b PROVE b \in Of(k) <=> b \in Of(k - 1) \/ b \in BytesOf(r)
    <3>1. /\ \A i \in 1 .. k : i = k \/ i \in 1 .. k - 1
          /\ \A i \in 1 .. k - 1 : i \in 1 .. k
          /\ k \in 1 .. k
      BY <1>1
    <3>2. b \in BytesOf(r) => b \in Nat
      BY <2>2, SpanFacts, Zenon
    <3> QED BY <2>1, <3>1, <3>2, Zenon
  <2>8. \A b : b \in Bytes(Range(y)) <=> b \in Of(k)
    BY <2>3, <2>5, <2>7, Zenon
  <2> QED BY <2>1, <2>5, <2>6, <2>8, Zenon
<1> HIDE DEF P
<1>5. N \in P
  BY <1>1, <1>3, <1>4, KeptInduction, Zenon DEF N
<1>6. Gapped(f[N]) /\ \A b : b \in Bytes(Range(f[N])) <=> b \in Of(N)
  BY <1>5, Zenon DEF P
<1>7. ASSUME NEW b PROVE b \in Bytes(Range(seq)) <=> b \in Of(N)
  <2>1. \A i \in 1 .. N : b \in BytesOf(seq[i]) <=> b \in Nat /\ seq[i].offset <= b /\ b < End(seq[i])
    BY <1>1, SpanFacts, Zenon
  <2>2. b \in Bytes(Range(seq)) <=> b \in Nat /\ \E i \in 1 .. N : seq[i].offset <= b /\ b < End(seq[i])
    BY <1>1, InListBytes, Zenon DEF N
  <2> QED BY <2>1, <2>2, Zenon
<1>8. \A b : b \in Bytes(Range(f[N])) <=> b \in Bytes(Range(seq))
  BY <1>6, <1>7, Zenon
<1>9. Bytes(Range(f[N])) = Bytes(Range(seq))
  BY <1>8
<1> QED BY <1>1, <1>6, <1>9, MergeDef, Zenon DEF f, N

\* A list with gaps is in order.
LEMMA GappedRises ==
  ASSUME NEW seq, Gapped(seq)
  PROVE  Rising(seq)
<1>1. seq \in Seq(Span) /\ \A i \in 1 .. Len(seq) : seq[i] \in Span
  BY DEF Gapped
<1>2. \A i \in 1 .. Len(seq) : seq[i].offset \in Nat /\ End(seq[i]) \in Nat /\ seq[i].offset < End(seq[i])
  BY <1>1, SpanFacts, Zenon
<1>3. ASSUME NEW i \in 1 .. Len(seq), NEW j \in 1 .. Len(seq), i < j PROVE seq[i].offset < seq[j].offset
  <2>1. End(seq[i]) < seq[j].offset
    BY <1>3, Zenon DEF Gapped
  <2> QED BY <1>2, <2>1
<1> QED BY <1>1, <1>3, Zenon DEF Rising

\* The ranges of a list that is in order are a table.
LEMMA RangeIsTable ==
  ASSUME NEW seq, Rising(seq)
  PROVE  Table(Range(seq))
<1> DEFINE n == Len(seq)
<1>1. /\ seq \in Seq(Span) /\ n \in Nat /\ DOMAIN seq = 1 .. n
      /\ \A i \in 1 .. n : seq[i] \in Span
      /\ \A i, j \in 1 .. n : i < j => seq[i].offset < seq[j].offset
  BY DEF Rising
<1>2. \A i \in 1 .. n : seq[i].offset \in Nat
  BY <1>1, SpanFacts, Zenon
<1> HIDE DEF n
<1>3. \A r \in Range(seq) : \E i \in 1 .. n : r = seq[i]
  BY <1>1, Zenon DEF Range
<1>4. IsFiniteSet(Range(seq))
  <2>1. seq \in Surjection(1 .. n, Range(seq))
    <3>1. seq \in [1 .. n -> Range(seq)]
      BY <1>1 DEF Range
    <3> QED BY <1>3, <3>1, Zenon DEF Surjection
  <2>2. IsFiniteSet(1 .. n)
    BY <1>1, FS_Interval
  <2> QED BY <2>1, <2>2, FS_Surjection, Zenon
<1>5. ASSUME NEW i \in 1 .. n, NEW j \in 1 .. n, seq[i].offset = seq[j].offset PROVE i = j
  BY <1>1, <1>2, <1>5
<1>6. ASSUME NEW r \in Range(seq), NEW s \in Range(seq), r.offset = s.offset PROVE r = s
  <2>1. PICK i \in 1 .. n : r = seq[i]
    BY <1>3, Zenon
  <2>2. PICK j \in 1 .. n : s = seq[j]
    BY <1>3, Zenon
  <2> QED BY <1>5, <1>6, <2>1, <2>2, Zenon
<1>7. Range(seq) \subseteq Span
  BY <1>1, <1>3, Zenon
<1> QED BY <1>4, <1>6, <1>7, Zenon DEF Table

\* Either copy of the merge keeps the bytes and leaves gaps: the sort returns the ranges,
\* and the filter nothing less, since none is empty.
LEMMA Merged ==
  ASSUME NEW seq, Rising(seq)
  PROVE  /\ Gapped(merge_ranges(seq))
         /\ Bytes(Range(merge_ranges(seq))) = Bytes(Range(seq))
         /\ chunk_merge_ranges(seq) = merge_ranges(seq)
<1>1. PICK t : t = sort_by_offset(seq)
  BY Zenon
<1>2. Rising(t) /\ Range(t) = Range(seq)
  BY <1>1, RangeIsTable, InOrderRises, Zenon DEF sort_by_offset
<1>3. t \in Seq(Span) /\ \A k \in 1 .. Len(t) : t[k] \in Span
  BY <1>2 DEF Rising
<1>4. Kept(t, Span) = t
  BY <1>3, KeptAll, Zenon
<1>5. merge_ranges(seq) = MergeAll(t) /\ chunk_merge_ranges(seq) = MergeAll(t)
  BY <1>1, <1>4, Zenon DEF merge_ranges, chunk_merge_ranges, Span
<1> QED BY <1>2, <1>5, MergeSound, Zenon

\* The bytes of the verified ranges are those of the rows.
LEMMA VerifiedRanges ==
  ASSUME NEW rs, Table(rs)
  PROVE  Gapped(verified_ranges(rs)) /\ Bytes(Range(verified_ranges(rs))) = Bytes(rs)
BY InOrderRises, Merged, Zenon DEF verified_ranges

-----------------------------------------------------------------------------
(* Coverage *)

\* With gaps between the ranges, a chunk is in one of them as soon as all of its bytes
\* are in some of them.
LEMMA CoveredByOne ==
  ASSUME NEW m, Gapped(m), NEW c \in Span
  PROVE  range_fully_covered(c, m) <=> BytesOf(c) \subseteq Bytes(Range(m))
<1> DEFINE n == Len(m)
<1>1. /\ m \in Seq(Span) /\ n \in Nat
      /\ \A i, j \in 1 .. n : i < j => End(m[i]) < m[j].offset
      /\ \A i \in 1 .. n : m[i].offset \in Nat /\ End(m[i]) \in Nat /\ m[i].offset < End(m[i])
  BY SpanFacts DEF Gapped
<1>2. c.offset \in Nat /\ End(c) \in Nat /\ c.offset < End(c)
  BY SpanFacts
<1>3. range_fully_covered(c, m) <=> \E i \in 1 .. n : m[i].offset <= c.offset /\ End(m[i]) >= End(c)
  <2>1. /\ \A v \in Range(m) : \E i \in 1 .. n : v = m[i]
        /\ \A i \in 1 .. n : m[i] \in Range(m)
    BY <1>1 DEF Range
  <2> QED BY <2>1, Zenon DEF range_fully_covered, End
<1>4. \A b : b \in Bytes(Range(m)) <=> b \in Nat /\ \E i \in 1 .. n : m[i].offset <= b /\ b < End(m[i])
  BY <1>1, InListBytes, Zenon
<1>5. \A b : b \in BytesOf(c) <=> b \in Nat /\ c.offset <= b /\ b < End(c)
  BY SpanFacts, Zenon
<1> HIDE DEF n
<1>6. ASSUME range_fully_covered(c, m) PROVE BytesOf(c) \subseteq Bytes(Range(m))
  <2>1. PICK i \in 1 .. n : m[i].offset <= c.offset /\ End(m[i]) >= End(c)
    BY <1>3, <1>6, Zenon
  <2>2. \A b \in Nat : c.offset <= b /\ b < End(c) => m[i].offset <= b /\ b < End(m[i])
    BY <1>1, <1>2, <2>1
  <2> QED BY <1>4, <1>5, <2>2, Zenon
<1>7. ASSUME BytesOf(c) \subseteq Bytes(Range(m)) PROVE range_fully_covered(c, m)
  <2>1. c.offset \in BytesOf(c)
    BY <1>2, <1>5
  <2>2. PICK i \in 1 .. n : m[i].offset <= c.offset /\ c.offset < End(m[i])
    BY <1>4, <1>7, <2>1, Zenon
  <2>3. SUFFICES ASSUME End(m[i]) < End(c) PROVE FALSE
    BY <1>1, <1>2, <1>3, <2>2
  <2>4. End(m[i]) \in BytesOf(c)
    BY <1>1, <1>2, <1>5, <2>2, <2>3
  <2>5. PICK j \in 1 .. n : m[j].offset <= End(m[i]) /\ End(m[i]) < End(m[j])
    BY <1>4, <1>7, <2>4, Zenon
  <2>6. CASE j = i
    BY <1>1, <2>5, <2>6
  <2>7. CASE i < j
    BY <1>1, <2>5, <2>7
  <2>8. CASE j < i
    <3>1. End(m[j]) < m[i].offset
      BY <1>1, <2>8
    <3> QED BY <1>1, <2>5, <3>1
  <2> QED BY <1>1, <2>6, <2>7, <2>8
<1> QED BY <1>6, <1>7, Zenon

\* The ranges are one range from the beginning to the end of the file exactly when every
\* byte of the file is in one of them.
LEMMA WholeFile ==
  ASSUME NEW m, Gapped(m), NEW sz \in Nat \ {0}, Bytes(Range(m)) \subseteq 0 .. sz - 1
  PROVE  (m = <<[offset |-> 0, length |-> sz]>>) <=> 0 .. sz - 1 \subseteq Bytes(Range(m))
<1> DEFINE n == Len(m)
           c == [offset |-> 0, length |-> sz]
<1>1. /\ m \in Seq(Span) /\ n \in Nat
      /\ \A i, j \in 1 .. n : i < j => End(m[i]) < m[j].offset
      /\ \A i \in 1 .. n : /\ m[i] \in Span /\ m[i].offset \in Nat /\ End(m[i]) \in Nat
                           /\ m[i].offset < End(m[i])
  BY SpanFacts DEF Gapped
<1>2. c \in Span /\ c.offset = 0 /\ End(c) = sz /\ BytesOf(c) = 0 .. sz - 1
  BY DEF Span, End, BytesOf
<1>3. \A b : b \in Bytes(Range(m)) <=> b \in Nat /\ \E i \in 1 .. n : m[i].offset <= b /\ b < End(m[i])
  BY <1>1, InListBytes, Zenon
<1>4. \A i \in 1 .. n : m[i] \in Range(m)
  BY <1>1 DEF Range
<1> HIDE DEF c, n
<1>5. ASSUME m = <<c>> PROVE 0 .. sz - 1 \subseteq Bytes(Range(m))
  <2>1. n = 1 /\ m[1] = c
    BY <1>5 DEF n
  <2>2. c \in Range(m)
    BY <1>4, <2>1
  <2> QED BY <1>2, <2>2, InBytes, Zenon
<1>6. ASSUME 0 .. sz - 1 \subseteq Bytes(Range(m)) PROVE m = <<c>>
  <2>1. range_fully_covered(c, m)
    BY <1>2, <1>6, CoveredByOne, Zenon
  <2>2. PICK i \in 1 .. n : m[i].offset <= c.offset /\ End(m[i]) >= End(c)
    <3>1. \A v \in Range(m) : \E i \in 1 .. n : v = m[i]
      BY <1>1 DEF Range, n
    <3> QED BY <2>1, <3>1, Zenon DEF range_fully_covered, End
  <2>3. ASSUME NEW j \in 1 .. n PROVE End(m[j]) <= sz
    <3>1. PICK e : e = End(m[j]) - 1
      BY Zenon
    <3>2. e \in Nat /\ m[j].offset <= e /\ e < End(m[j])
      BY <1>1, <3>1
    <3>3. e \in 0 .. sz - 1
      BY <1>3, <3>2, Zenon
    <3> QED BY <1>1, <3>1, <3>3
  <2>4. m[i].offset = 0 /\ End(m[i]) = sz
    BY <1>1, <1>2, <2>2, <2>3
  <2>5. ASSUME NEW j \in 1 .. n PROVE j = i
    <3>1. CASE i < j
      <4>1. sz < m[j].offset
        BY <1>1, <2>4, <3>1
      <4> QED BY <1>1, <2>3, <4>1
    <3>2. CASE j < i
      <4>1. End(m[j]) < 0
        BY <1>1, <2>4, <3>2
      <4> QED BY <1>1, <4>1
    <3> QED BY <1>1, <3>1, <3>2
  <2>6. n = 1 /\ i = 1
    <3>1. 1 \in 1 .. n /\ n \in 1 .. n
      BY <1>1
    <3> QED BY <2>5, <3>1
  <2>7. m[1] = c
    <3>1. m[1] \in Span /\ m[1].offset = 0 /\ m[1].offset + m[1].length = sz
      BY <1>1, <2>4, <2>6 DEF End
    <3>2. m[1].length = sz
      BY <3>1 DEF Span
    <3> QED BY <3>1, <3>2 DEF Span, c
  <2> QED BY <1>1, <2>6, <2>7 DEF n
<1> QED BY <1>5, <1>6, Zenon DEF c

-----------------------------------------------------------------------------
(* The plan *)

\* Integer division rounds down.
LEMMA Division ==
  ASSUME NEW a \in Nat, NEW c \in Nat \ {0}
  PROVE  /\ a \div c \in Nat
         /\ (a \div c) * c <= a /\ a < (a \div c) * c + c
OBVIOUS

\* Multiples of c are at least c apart.
LEMMA Multiples ==
  ASSUME NEW c \in Nat, NEW i \in Nat, NEW j \in Nat
  PROVE  /\ i * c \in Nat
         /\ (i + 1) * c = i * c + c
         /\ i < j => i * c + c <= j * c
OBVIOUS

\* The plan: as many chunks as frames are expected, one after the other and in order, that
\* hold the bytes of the file and no others.
LEMMA PlanFacts ==
  ASSUME NEW sz \in Nat, NEW cs \in Nat \ {0}
  PROVE  LET plan == plan_chunks(sz, cs)
         IN  /\ Rising(plan)
             /\ Len(plan) = expected_chunk_count(sz, cs)
             /\ \A i \in 1 .. Len(plan) : End(plan[i]) <= sz
             /\ \A i \in 1 .. Len(plan) - 1 : End(plan[i]) = plan[i + 1].offset
             /\ Bytes(Range(plan)) = 0 .. sz - 1
<1> DEFINE plan == plan_chunks(sz, cs)
           N == (sz + cs - 1) \div cs
           At(k) == (k - 1) * cs
<1>1. N \in Nat /\ N * cs <= sz + cs - 1 /\ sz + cs - 1 < N * cs + cs
  BY Division
<1>2. plan = [k \in 1 .. N |-> [offset |-> At(k), length |-> LesserOf(cs, sz - At(k))]]
  BY DEF plan_chunks
<1> HIDE DEF N, plan
<1>3. \A k \in 1 .. N : plan[k].offset = At(k) /\ plan[k].length = LesserOf(cs, sz - At(k))
  BY <1>2
<1>4. ASSUME NEW k \in 1 .. N PROVE At(k) \in Nat /\ At(k) < sz /\ (k < N => At(k) + cs < sz)
  <2>1. PICK p, q : p = k - 1 /\ q = N - 1
    BY Zenon
  <2>2. p \in Nat /\ q \in Nat /\ p <= q /\ N = q + 1 /\ (k < N => p < q)
    BY <1>1, <2>1
  <2>3. N * cs = q * cs + cs /\ p * cs \in Nat /\ q * cs \in Nat /\ (p < q => p * cs + cs <= q * cs)
    BY <2>2, Multiples
  <2>4. PICK x, y, z : x = p * cs /\ y = q * cs /\ z = N * cs
    BY Zenon
  <2>5. x \in Nat /\ y \in Nat /\ z = y + cs /\ (p < q => x + cs <= y) /\ (p = q => x = y)
    BY <2>3, <2>4, Zenon
  <2>6. x < sz /\ (k < N => x + cs < sz)
    <3>1. z <= sz + cs - 1
      BY <1>1, <2>4, Zenon
    <3> QED BY <2>2, <2>5, <3>1
  <2>7. At(k) = x
    BY <2>1, <2>4, Zenon
  <2> QED BY <2>5, <2>6, <2>7, Zenon
<1>5. ASSUME NEW i \in 1 .. N, NEW j \in 1 .. N, i < j PROVE At(i) + cs <= At(j)
  <2>1. PICK p, q : p = i - 1 /\ q = j - 1
    BY Zenon
  <2>2. p \in Nat /\ q \in Nat /\ p < q
    BY <1>1, <1>5, <2>1
  <2>3. p * cs + cs <= q * cs
    BY <2>2, Multiples
  <2> QED BY <2>1, <2>3, Zenon
<1>6. ASSUME NEW k \in 1 .. N - 1 PROVE At(k + 1) = At(k) + cs
  <2>1. PICK p : p = k - 1
    BY Zenon
  <2>2. p \in Nat /\ k + 1 - 1 = p + 1
    BY <1>1, <2>1
  <2>3. (p + 1) * cs = p * cs + cs
    BY <2>2, Multiples
  <2>4. At(k) = p * cs /\ At(k + 1) = (p + 1) * cs
    BY <2>1, <2>2
  <2> QED BY <2>3, <2>4
<1>7. sz <= N * cs
  <2>1. PICK z : z = N * cs
    BY Zenon
  <2>2. z \in Nat /\ sz + cs - 1 < z + cs
    BY <1>1, <2>1, Multiples
  <2>3. sz <= z
    BY <2>2
  <2> QED BY <2>1, <2>3, Zenon
<1>8. ASSUME NEW b \in 0 .. sz - 1 PROVE \E k \in 1 .. N : At(k) <= b /\ b < At(k) + cs
  <2>1. PICK d, x, y : d = b \div cs /\ x = d * cs /\ y = N * cs
    BY Zenon
  <2>2. d \in Nat /\ x <= b /\ b < x + cs
    <3>1. b \in Nat
      OBVIOUS
    <3>2. b \div cs \in Nat /\ (b \div cs) * cs <= b /\ b < (b \div cs) * cs + cs
      BY <3>1, Division, Zenon
    <3> QED BY <2>1, <3>2, Zenon
  <2>3. sz <= y /\ x \in Nat /\ y \in Nat
    BY <1>1, <1>7, <2>1, <2>2, Multiples
  <2>4. d < N
    <3>1. SUFFICES ASSUME N <= d PROVE FALSE
      BY <1>1, <2>2
    <3>2. y <= x
      BY <1>1, <2>1, <2>2, <2>3, <3>1, Multiples
    <3> QED BY <2>2, <2>3, <3>2
  <2>5. PICK k : k = d + 1
    BY Zenon
  <2>6. k \in 1 .. N /\ k - 1 = d
    BY <1>1, <2>2, <2>4, <2>5
  <2>7. At(k) = x
    BY <2>1, <2>6, Zenon
  <2> QED BY <2>2, <2>6, <2>7, Zenon
<1> HIDE DEF At
<1>9. ASSUME NEW k \in 1 .. N
      PROVE  /\ plan[k] \in Span /\ End(plan[k]) <= sz
             /\ End(plan[k]) = IF cs <= sz - At(k) THEN At(k) + cs ELSE sz
  <2>1. PICK a, l : a = At(k) /\ l = LesserOf(cs, sz - a)
    BY Zenon
  <2>2. a \in Nat /\ a < sz
    BY <1>4, <2>1, Zenon
  <2>3. l \in Nat \ {0} /\ a + l <= sz /\ a + l = IF cs <= sz - a THEN a + cs ELSE sz
    BY <2>1, <2>2 DEF LesserOf
  <2>4. plan[k] = [offset |-> a, length |-> l]
    BY <1>2, <2>1, Zenon
  <2>5. plan[k] \in Span /\ End(plan[k]) = a + l
    BY <2>2, <2>3, <2>4 DEF Span, End
  <2> QED BY <2>1, <2>3, <2>5, Zenon
<1>10. plan \in Seq(Span) /\ Len(plan) = N
  <2>1. plan \in [1 .. N -> Span]
    BY <1>2, <1>9, Zenon
  <2>2. DOMAIN plan = 1 .. N
    BY <1>2, Zenon
  <2> QED BY <1>1, <2>1, <2>2
<1>11. Rising(plan)
  <2>1. ASSUME NEW i \in 1 .. N, NEW j \in 1 .. N, i < j PROVE plan[i].offset < plan[j].offset
    <3>1. At(i) + cs <= At(j) /\ At(i) \in Nat /\ At(j) \in Nat
      BY <1>4, <1>5, <2>1, Zenon
    <3>2. At(i) < At(j)
      BY <3>1
    <3> QED BY <1>3, <3>2, Zenon
  <2> QED BY <1>10, <2>1, Zenon DEF Rising
<1>12. ASSUME NEW i \in 1 .. N - 1 PROVE End(plan[i]) = plan[i + 1].offset
  <2>1. i \in 1 .. N /\ i + 1 \in 1 .. N /\ i < N
    BY <1>1
  <2>2. PICK a : a = At(i)
    BY Zenon
  <2>3. a \in Nat /\ a + cs < sz /\ At(i + 1) = a + cs
    BY <1>4, <1>6, <2>1, <2>2, Zenon
  <2>4. cs <= sz - a
    BY <2>3
  <2>5. End(plan[i]) = a + cs
    BY <1>9, <2>1, <2>2, <2>4, Zenon
  <2> QED BY <1>3, <2>1, <2>3, <2>5, Zenon
<1>13. ASSUME NEW b PROVE b \in Bytes(Range(plan)) <=> b \in 0 .. sz - 1
  <2>1. b \in Bytes(Range(plan)) <=> b \in Nat /\ \E i \in 1 .. N : plan[i].offset <= b /\ b < End(plan[i])
    BY <1>10, InListBytes, Zenon
  <2>2. ASSUME b \in Nat, NEW i \in 1 .. N, plan[i].offset <= b, b < End(plan[i])
        PROVE  b \in 0 .. sz - 1
    <3>1. End(plan[i]) <= sz /\ End(plan[i]) \in Nat
      BY <1>9, SpanFacts, Zenon
    <3> QED BY <2>2, <3>1
  <2>3. ASSUME b \in 0 .. sz - 1
        PROVE  b \in Nat /\ \E i \in 1 .. N : plan[i].offset <= b /\ b < End(plan[i])
    <3>1. PICK k \in 1 .. N : At(k) <= b /\ b < At(k) + cs
      BY <1>8, <2>3, Zenon
    <3>2. plan[k].offset = At(k) /\ End(plan[k]) = IF cs <= sz - At(k) THEN At(k) + cs ELSE sz
      BY <1>3, <1>9, Zenon
    <3>3. b \in Nat /\ b < sz
      BY <2>3
    <3> QED BY <3>1, <3>2, <3>3, Zenon
  <2> QED BY <2>1, <2>2, <2>3, Zenon
<1>14. Bytes(Range(plan)) = 0 .. sz - 1
  BY <1>13, Zenon
<1>15. N = expected_chunk_count(sz, cs)
  <2>1. CASE sz = 0
    <3>1. \A k \in 1 .. N : FALSE
      BY <1>4, <2>1
    <3>2. N = 0
      BY <1>1, <3>1
    <3> QED BY <2>1, <3>2, Zenon DEF expected_chunk_count
  <2>2. CASE sz # 0
    BY <2>2, Zenon DEF expected_chunk_count, N
  <2> QED BY <2>1, <2>2, Zenon
<1>16. /\ \A i \in 1 .. Len(plan) : End(plan[i]) <= sz
       /\ \A i \in 1 .. Len(plan) - 1 : End(plan[i]) = plan[i + 1].offset
  BY <1>9, <1>10, <1>12, Zenon
<1> QED BY <1>10, <1>11, <1>14, <1>15, <1>16, Zenon DEF plan

-----------------------------------------------------------------------------
(* The rows *)

\* The rows of a file of sz bytes.
RowsOf(sz, rs) == Table(rs) /\ \A r \in rs : End(r) <= sz

\* The inductive invariant: record_verified_chunk stores one row for an offset, inside the file.
ManifestInv == size \in 0 .. MaxSize /\ RowsOf(size, rows)

\* What INSERT OR REPLACE leaves.
LEMMA Replaced ==
  ASSUME NEW sz \in Nat, NEW rs, RowsOf(sz, rs), NEW c \in Span, End(c) <= sz
  PROVE  /\ RowsOf(sz, Replace(rs, c)) /\ c \in Replace(rs, c)
         /\ \A r \in rs : r \in Replace(rs, c) \/ r.offset = c.offset
<1> DEFINE kept == {r \in rs : r.offset # c.offset}
<1>1. Replace(rs, c) = kept \cup {c}
  BY Zenon DEF Replace
<1>2. IsFiniteSet(kept)
  BY FS_Subset, Zenon DEF RowsOf, Table
<1>3. IsFiniteSet(kept \cup {c})
  BY <1>2, FS_AddElement, Zenon
<1>4. /\ kept \cup {c} \subseteq Span
      /\ \A r, s \in kept \cup {c} : r.offset = s.offset => r = s
      /\ \A r \in kept \cup {c} : End(r) <= sz
  BY Zenon DEF RowsOf, Table
<1> QED BY <1>1, <1>3, <1>4, Zenon DEF RowsOf, Table

\* The bytes of the rows are bytes of the file.
LEMMA RowsInside ==
  ASSUME NEW sz \in Nat, NEW rs, RowsOf(sz, rs)
  PROVE  Bytes(rs) \subseteq 0 .. sz - 1
<1>1. SUFFICES ASSUME NEW b \in Bytes(rs) PROVE b \in 0 .. sz - 1
  BY Zenon
<1>2. PICK r \in rs : b \in BytesOf(r)
  BY <1>1, InBytes, Zenon
<1>3. r \in Span /\ End(r) <= sz
  BY Zenon DEF RowsOf, Table
<1>4. b \in Nat /\ b < End(r) /\ End(r) \in Nat
  BY <1>2, <1>3, SpanFacts, Zenon
<1> QED BY <1>3, <1>4

\* ranges_cover says that the file is done exactly when each of its bytes is in a row.
LEMMA CoverMeans ==
  ASSUME NEW sz \in Nat, NEW rs, RowsOf(sz, rs)
  PROVE  ranges_cover(sz, verified_ranges(rs)) <=> 0 .. sz - 1 \subseteq Bytes(rs)
<1>1. PICK v, m : v = verified_ranges(rs) /\ m = merge_ranges(v)
  BY Zenon
<1>2. Gapped(v) /\ Bytes(Range(v)) = Bytes(rs)
  BY <1>1, VerifiedRanges, Zenon DEF RowsOf
<1>3. Gapped(m) /\ Bytes(Range(m)) = Bytes(rs)
  BY <1>1, <1>2, GappedRises, Merged, Zenon
<1>4. ranges_cover(sz, v) <=> sz = 0 \/ m = <<[offset |-> 0, length |-> sz]>>
  BY <1>1, Zenon DEF ranges_cover
<1>5. CASE sz = 0
  <2>1. 0 .. sz - 1 = {}
    BY <1>5
  <2> QED BY <1>1, <1>4, <1>5, <2>1, Zenon
<1>6. CASE sz # 0
  <2>1. (m = <<[offset |-> 0, length |-> sz]>>) <=> 0 .. sz - 1 \subseteq Bytes(Range(m))
    <3>1. sz \in Nat \ {0} /\ Bytes(Range(m)) \subseteq 0 .. sz - 1
      BY <1>3, <1>6, RowsInside, Zenon
    <3> QED BY <1>3, <3>1, WholeFile, Zenon
  <2> QED BY <1>1, <1>3, <1>4, <1>6, <2>1, Zenon
<1> QED BY <1>5, <1>6, Zenon

\* What missing_ranges asks for: the chunks of the plan that have an unverified byte.
LEMMA MissingMeans ==
  ASSUME NEW sz \in Nat, NEW cs \in Nat \ {0}, NEW rs, RowsOf(sz, rs)
  PROVE  LET plan == plan_chunks(sz, cs)
             ms   == missing_ranges_for(sz, cs, verified_ranges(rs))
         IN  /\ ms \in Seq(Span)
             /\ \A c : c \in Range(ms) <=> c \in Range(plan) /\ ~ BytesOf(c) \subseteq Bytes(rs)
<1>1. PICK v, m, plan : v = verified_ranges(rs) /\ m = merge_ranges(v) /\ plan = plan_chunks(sz, cs)
  BY Zenon
<1>2. Gapped(v) /\ Bytes(Range(v)) = Bytes(rs)
  BY <1>1, VerifiedRanges, Zenon DEF RowsOf
<1>3. Gapped(m) /\ Bytes(Range(m)) = Bytes(rs)
  BY <1>1, <1>2, GappedRises, Merged, Zenon
<1>4. plan \in Seq(Span)
  BY <1>1, PlanFacts, Zenon DEF Rising
<1> DEFINE S == {c \in Range(plan) : ~ range_fully_covered(c, m)}
           ms == Kept(plan, S)
<1>5. missing_ranges_for(sz, cs, v) = ms
  BY <1>1, Zenon DEF missing_ranges_for, Uncovered
<1>6. ms \in Seq(Span)
  BY <1>4, KeptType, Zenon
<1>7. Range(ms) = Range(plan) \cap S
  <2> HIDE DEF S
  <2>1. PICK u : u = Kept(plan, S)
    BY Zenon
  <2>2. {u[i] : i \in DOMAIN u} = {plan[i] : i \in DOMAIN plan} \cap S
    BY <1>4, <2>1, KeptRange
  <2> QED BY <2>1, <2>2, Zenon DEF Range
<1>8. \A c \in Range(plan) : c \in Span
  BY <1>4 DEF Range
<1>9. \A c \in Range(plan) : range_fully_covered(c, m) <=> BytesOf(c) \subseteq Bytes(rs)
  BY <1>3, <1>8, CoveredByOne, Zenon
<1> HIDE DEF ms
<1>10. \A c : c \in Range(ms) <=> c \in Range(plan) /\ ~ BytesOf(c) \subseteq Bytes(rs)
  BY <1>7, <1>9, Zenon
<1> QED BY <1>1, <1>5, <1>6, <1>10, Zenon

\* No row has been recorded at first.
LEMMA ManifestInvInit == Init => ManifestInv
<1> SUFFICES ASSUME Init PROVE ManifestInv
  OBVIOUS
<1>1. IsFiniteSet({})
  BY FS_EmptySet
<1> QED BY <1>1, Zenon DEF Init, ManifestInv, RowsOf, Table

\* A row that is recorded is inside the file.
LEMMA ManifestInvStep == ManifestInv /\ [Next]_vars => ManifestInv'
<1> SUFFICES ASSUME ManifestInv, [Next]_vars PROVE ManifestInv'
  OBVIOUS
<1>1. CASE UNCHANGED vars
  BY <1>1, Zenon DEF vars, ManifestInv
<1>2. CASE Next
  <2>1. PICK offset, length \in 0 .. U64Max : record_verified_chunk(offset, length)
    BY <1>2, Zenon DEF Next
  <2>2. PICK c : c = [offset |-> offset, length |-> length]
    BY Zenon
  <2>3. size' = size /\ size \in Nat
    BY <2>1, SizeAssumption, U64MaxAssumption DEF record_verified_chunk, ManifestInv
  <2>4. CASE length # 0 /\ ~ Overflows(offset, length) /\ offset + length <= size
    <3>1. rows' = Replace(rows, c)
      BY <2>1, <2>2, <2>4, Zenon DEF record_verified_chunk
    <3>2. c \in Span /\ End(c) <= size
      BY <2>2, <2>4, U64MaxAssumption DEF Span, End
    <3>3. RowsOf(size, Replace(rows, c))
      BY <2>3, <3>2, Replaced, Zenon DEF ManifestInv
    <3> QED BY <2>3, <3>1, <3>3, Zenon DEF ManifestInv
  <2>5. CASE ~ (length # 0 /\ ~ Overflows(offset, length) /\ offset + length <= size)
    <3>1. rows' = rows
      BY <2>1, <2>5, Zenon DEF record_verified_chunk
    <3> QED BY <2>3, <3>1, Zenon DEF ManifestInv
  <2> QED BY <2>4, <2>5, Zenon
<1> QED BY <1>1, <1>2, Zenon

\* The rows of the file stay what ManifestInv says.
LEMMA ManifestInvAlways == Spec => []ManifestInv
BY ManifestInvInit, ManifestInvStep, PTL DEF Spec

-----------------------------------------------------------------------------
(* The theorems *)

\* merge_ranges keeps exactly the recorded bytes, inside the file, and leaves gaps.
THEOREM MergeKeepsTheBytes == Spec => []MergeExact
<1>1. ManifestInv => MergeExact
  <2> SUFFICES ASSUME ManifestInv PROVE MergeExact
    OBVIOUS
  <2>1. size \in Nat /\ RowsOf(size, rows)
    BY SizeAssumption DEF ManifestInv
  <2>2. Bytes(rows) \subseteq FileBytes
    BY <2>1, RowsInside, Zenon DEF FileBytes
  <2>3. PICK m : m = verified_ranges(rows)
    BY Zenon
  <2>4. Gapped(m) /\ Bytes(Range(m)) = Bytes(rows)
    BY <2>1, <2>3, VerifiedRanges, Zenon DEF RowsOf
  <2>5. ASSUME NEW i \in 1 .. Len(m) - 1 PROVE m[i].offset + m[i].length < m[i + 1].offset
    <3>1. i \in 1 .. Len(m) /\ i + 1 \in 1 .. Len(m) /\ i < i + 1
      BY <2>4 DEF Gapped
    <3> QED BY <2>4, <3>1, Zenon DEF Gapped, End
  <2> QED BY <2>2, <2>3, <2>4, <2>5, Zenon DEF MergeExact
<1> QED BY <1>1, ManifestInvAlways, PTL

\* What missing_ranges asks for, with what was verified, is the file.
LEMMA MissingCompletes ==
  ASSUME NEW sz \in Nat, NEW cs \in Nat \ {0}, NEW rs, RowsOf(sz, rs)
  PROVE  LET ms == Range(missing_ranges_for(sz, cs, verified_ranges(rs)))
         IN  /\ \A c \in ms : /\ c \in Span /\ End(c) <= sz
                              /\ BytesOf(c) \subseteq 0 .. sz - 1
                              /\ ~ BytesOf(c) \subseteq Bytes(rs)
             /\ \A c, d \in ms : c.offset = d.offset => c = d
             /\ (0 .. sz - 1) \ Bytes(rs) \subseteq Bytes(ms)
<1>1. PICK ms, plan : /\ ms = Range(missing_ranges_for(sz, cs, verified_ranges(rs)))
                      /\ plan = plan_chunks(sz, cs)
  BY Zenon
<1>2. \A c : c \in ms <=> c \in Range(plan) /\ ~ BytesOf(c) \subseteq Bytes(rs)
  BY <1>1, MissingMeans, Zenon
<1>3. /\ Rising(plan) /\ Bytes(Range(plan)) = 0 .. sz - 1
      /\ \A i \in 1 .. Len(plan) : End(plan[i]) <= sz
  BY <1>1, PlanFacts, Zenon
<1>4. \A c \in Range(plan) : \E i \in 1 .. Len(plan) : c = plan[i] /\ c \in Span
  BY <1>3 DEF Rising, Range
<1>5. \A c \in Range(plan) : c \in Span /\ End(c) <= sz
  BY <1>3, <1>4, Zenon
<1>6. \A c \in Range(plan) : BytesOf(c) \subseteq 0 .. sz - 1
  BY <1>3, InBytes, Zenon
<1>7. ASSUME NEW c \in Range(plan), NEW d \in Range(plan), c.offset = d.offset PROVE c = d
  <2>1. PICK i \in 1 .. Len(plan) : c = plan[i]
    BY <1>4, Zenon
  <2>2. PICK j \in 1 .. Len(plan) : d = plan[j]
    BY <1>4, Zenon
  <2>3. c.offset \in Nat /\ d.offset \in Nat
    BY <1>5, SpanFacts, Zenon
  <2>4. i < j => c.offset < d.offset
    BY <1>3, <2>1, <2>2, Zenon DEF Rising
  <2>5. j < i => d.offset < c.offset
    BY <1>3, <2>1, <2>2, Zenon DEF Rising
  <2>6. i = j
    BY <1>7, <2>3, <2>4, <2>5
  <2> QED BY <2>1, <2>2, <2>6, Zenon
<1>8. ASSUME NEW b \in 0 .. sz - 1, b \notin Bytes(rs) PROVE b \in Bytes(ms)
  <2>1. PICK c \in Range(plan) : b \in BytesOf(c)
    BY <1>3, InBytes, Zenon
  <2>2. c \in ms
    BY <1>2, <1>8, <2>1, Zenon
  <2> QED BY <2>1, <2>2, InBytes, Zenon
<1>9. /\ \A c \in ms : /\ c \in Span /\ End(c) <= sz
                       /\ BytesOf(c) \subseteq 0 .. sz - 1
                       /\ ~ BytesOf(c) \subseteq Bytes(rs)
      /\ \A c, d \in ms : c.offset = d.offset => c = d
      /\ (0 .. sz - 1) \ Bytes(rs) \subseteq Bytes(ms)
  BY <1>2, <1>5, <1>6, <1>7, <1>8, Zenon
<1> QED BY <1>1, <1>9, Zenon

\* missing_ranges asks for exactly the chunks that have an unverified byte, and for
\* nothing exactly when ranges_cover says that the file is done.
THEOREM MissingIsWhatWasNotVerified == Spec => []MissingExact
<1>1. ManifestInv => MissingExact
  <2> SUFFICES ASSUME ManifestInv, NEW cs \in ChunkSizes
               PROVE  LET missing == Range(missing_ranges(rows, cs))
                      IN  /\ \A m \in missing : BytesOf(m) \subseteq FileBytes /\ ~ BytesOf(m) \subseteq Bytes(rows)
                          /\ FileBytes \ Bytes(rows) \subseteq Bytes(missing)
                          /\ (missing = {}) <=> ranges_cover(size, verified_ranges(rows))
    BY Zenon DEF MissingExact
  <2>1. size \in Nat /\ RowsOf(size, rows) /\ cs \in Nat \ {0}
    BY SizeAssumption DEF ManifestInv
  <2>2. PICK ms : ms = Range(missing_ranges(rows, cs))
    BY Zenon
  <2>3. /\ \A c \in ms : BytesOf(c) \subseteq FileBytes /\ ~ BytesOf(c) \subseteq Bytes(rows)
        /\ FileBytes \ Bytes(rows) \subseteq Bytes(ms)
    BY <2>1, <2>2, MissingCompletes, Zenon DEF FileBytes, missing_ranges
  <2>4. ranges_cover(size, verified_ranges(rows)) <=> FileBytes \subseteq Bytes(rows)
    BY <2>1, CoverMeans, Zenon DEF FileBytes
  <2>5. ASSUME ms = {} PROVE FileBytes \subseteq Bytes(rows)
    <3>1. Bytes({}) = {}
      BY DEF Bytes
    <3> QED BY <2>3, <2>5, <3>1, Zenon
  <2>6. ASSUME FileBytes \subseteq Bytes(rows) PROVE ms = {}
    BY <2>3, <2>6, Zenon
  <2> QED BY <2>2, <2>3, <2>4, <2>5, <2>6, Zenon
<1> QED BY <1>1, ManifestInvAlways, PTL

\* The row that a missing chunk replaces is shorter than the chunk.
LEMMA ReplacesLess ==
  ASSUME NEW rs, rs \subseteq Span, NEW c \in Span, ~ BytesOf(c) \subseteq Bytes(rs),
         NEW r \in rs, r.offset = c.offset
  PROVE  BytesOf(r) \subseteq BytesOf(c)
<1>1. PICK o, e, d : o = c.offset /\ e = End(r) /\ d = End(c)
  BY Zenon
<1>2. o \in Nat /\ e \in Nat /\ d \in Nat
  BY <1>1, SpanFacts, Zenon
<1>3. \A b : /\ b \in BytesOf(r) <=> b \in Nat /\ o <= b /\ b < e
             /\ b \in BytesOf(c) <=> b \in Nat /\ o <= b /\ b < d
  BY <1>1, SpanFacts, Zenon
<1>4. CASE e <= d
  <2>1. \A b \in Nat : b < e => b < d
    BY <1>2, <1>4
  <2> QED BY <1>3, <2>1, Zenon
<1>5. CASE d < e
  <2>1. \A b \in Nat : b < d => b < e
    BY <1>2, <1>5
  <2>2. BytesOf(c) \subseteq BytesOf(r)
    BY <1>3, <2>1, Zenon
  <2>3. BytesOf(c) \subseteq Bytes(rs)
    BY <2>2, InBytes, Zenon
  <2> QED BY <2>3, Zenon
<1> QED BY <1>2, <1>4, <1>5

\* AfterUpTo(rs, ms)[k]: the rows once the first k ranges of ms are recorded.
AfterUpTo(rs, ms) ==
  CHOOSE f : f = [k \in 0 .. Len(ms) |-> IF k = 0 THEN rs ELSE Replace(f[k - 1], ms[k])]

\* Recording one range after the other has a result, and AfterUpTo is it.
LEMMA AfterStep ==
  ASSUME NEW rs, rs \subseteq Span, NEW ms \in Seq(Span)
  PROVE  LET f == AfterUpTo(rs, ms)
         IN  f[0] = rs /\ \A k \in 1 .. Len(ms) : f[k] = Replace(f[k - 1], ms[k])
<1> DEFINE N == Len(ms)
           L == SUBSET Span
           step == [p \in (1 .. N) \X L |-> Replace(p[2], ms[p[1]])]
           Rec(f) == [k \in 0 .. N |-> IF k = 0 THEN rs ELSE Replace(f[k - 1], ms[k])]
<1>1. N \in Nat /\ rs \in L /\ \A k \in 1 .. N : ms[k] \in Span
  OBVIOUS
<1>2. \A k \in 1 .. N, x \in L : Replace(x, ms[k]) \in L
  BY <1>1, Zenon DEF Replace
<1>3. step \in StepOn(N, L)
  <2>1. ASSUME NEW p \in (1 .. N) \X L PROVE Replace(p[2], ms[p[1]]) \in L
    BY <1>2, ZenonT(40)
  <2> QED BY <2>1, Zenon DEF StepOn
<1>4. \A k \in 1 .. N, x \in L : step[<<k, x>>] = Replace(x, ms[k])
  OBVIOUS
<1>5. 0 \in 0 .. N /\ \A k \in 1 .. N : k \in 0 .. N /\ k - 1 \in 0 .. N /\ k # 0
  BY <1>1
<1>6. \A k \in 0 .. N : k # 0 => k \in 1 .. N
  BY <1>1
<1> HIDE DEF step, N, L
<1>7. PICK f \in [0 .. N -> L] : f[0] = rs /\ \A k \in 1 .. N : f[k] = step[<<k, f[k - 1]>>]
  <2>1. PICK f : Iterates(N, L, rs, step, f)
    BY <1>1, <1>3, Recursion, Zenon
  <2> QED
    BY <2>1, Zenon DEF Iterates
<1>8. f = Rec(f)
  <2>1. ASSUME NEW k \in 0 .. N PROVE f[k] = Rec(f)[k]
    BY <1>4, <1>5, <1>6, <1>7, Zenon
  <2> QED
    BY <2>1, Zenon
<1> DEFINE g == AfterUpTo(rs, ms)
<1>9. g = Rec(g)
  <2>1. \E h : h = Rec(h)
    BY <1>8, Zenon
  <2>2. g = CHOOSE h : h = Rec(h)
    BY Zenon DEF AfterUpTo, N
  <2> QED
    BY <2>1, <2>2, Zenon
<1> HIDE DEF g
<1>10. g[0] = rs /\ \A k \in 1 .. N : g[k] = Replace(g[k - 1], ms[k])
  BY <1>5, <1>9, Zenon
<1> QED
  BY <1>10, Zenon DEF g, N

\* Once every range of ms is recorded, the rows hold each of them, and what they replaced
\* began where one of them begins.
LEMMA AfterAll ==
  ASSUME NEW sz \in Nat, NEW rs, RowsOf(sz, rs), NEW ms \in Seq(Span),
         \A c \in Range(ms) : End(c) <= sz,
         \A c, d \in Range(ms) : c.offset = d.offset => c = d
  PROVE  LET as == AfterUpTo(rs, ms)[Len(ms)]
         IN  /\ RowsOf(sz, as) /\ Range(ms) \subseteq as
             /\ \A r \in rs : r \in as \/ \E c \in Range(ms) : c.offset = r.offset
<1> DEFINE f == AfterUpTo(rs, ms)
           N == Len(ms)
           P == {k \in 0 .. N : /\ RowsOf(sz, f[k])
                                /\ \A i \in 1 .. k : ms[i] \in f[k]
                                /\ \A r \in rs : r \in f[k] \/ \E c \in Range(ms) : c.offset = r.offset}
<1>1. N \in Nat /\ \A k \in 1 .. N : ms[k] \in Span /\ ms[k] \in Range(ms)
  BY DEF Range
<1>2. f[0] = rs /\ \A k \in 1 .. N : f[k] = Replace(f[k - 1], ms[k])
  <2>1. rs \subseteq Span
    BY Zenon DEF RowsOf, Table
  <2>2. AfterUpTo(rs, ms)[0] = rs /\ \A k \in 1 .. Len(ms) : AfterUpTo(rs, ms)[k] = Replace(AfterUpTo(rs, ms)[k - 1], ms[k])
    BY <2>1, AfterStep, ZenonT(40)
  <2> QED BY <2>2, Zenon
<1> HIDE DEF f, N
<1>3. 0 \in P
  <2>1. 0 \in 0 .. N /\ 1 .. 0 = {}
    BY <1>1
  <2> QED BY <1>2, <2>1, Zenon
<1>4. ASSUME NEW k \in 1 .. N, k - 1 \in P PROVE k \in P
  <2>1. PICK x, y, c : x = f[k - 1] /\ y = f[k] /\ c = ms[k]
    BY Zenon
  <2>2. y = Replace(x, c) /\ c \in Span /\ c \in Range(ms) /\ End(c) <= sz
    BY <1>1, <1>2, <2>1, Zenon
  <2>3. /\ RowsOf(sz, x)
        /\ \A i \in 1 .. k - 1 : ms[i] \in x
        /\ \A r \in rs : r \in x \/ \E d \in Range(ms) : d.offset = r.offset
    BY <1>4, <2>1, Zenon
  <2>4. RowsOf(sz, y) /\ c \in y /\ \A r \in x : r \in y \/ r.offset = c.offset
    BY <2>2, <2>3, Replaced, Zenon
  <2>5. k \in 0 .. N /\ \A i \in 1 .. k : i = k \/ (i \in 1 .. k - 1 /\ i \in 1 .. N)
    BY <1>1
  <2>6. ASSUME NEW i \in 1 .. k PROVE ms[i] \in y
    BY <1>1, <2>1, <2>2, <2>3, <2>4, <2>5, Zenon
  <2>7. \A r \in rs : r \in y \/ \E d \in Range(ms) : d.offset = r.offset
    BY <2>2, <2>3, <2>4, Zenon
  <2> QED BY <2>1, <2>4, <2>5, <2>6, <2>7, Zenon
<1> HIDE DEF P
<1>5. N \in P
  BY <1>3, <1>4, KeptInduction, Zenon DEF N
<1>6. /\ RowsOf(sz, f[N])
      /\ \A i \in 1 .. N : ms[i] \in f[N]
      /\ \A r \in rs : r \in f[N] \/ \E c \in Range(ms) : c.offset = r.offset
  BY <1>5, Zenon DEF P
<1>7. \A c \in Range(ms) : \E i \in 1 .. N : c = ms[i]
  BY DEF Range, N
<1>8. Range(ms) \subseteq f[N]
  <2>1. ASSUME NEW c \in Range(ms) PROVE c \in f[N]
    <3>1. PICK i \in 1 .. N : c = ms[i]
      BY <1>7, Zenon
    <3> QED BY <1>6, <3>1, Zenon
  <2> QED BY <2>1, Zenon
<1> QED BY <1>6, <1>8, Zenon DEF f, N

\* A resumed sender completes the file, and nothing verified is forgotten on the way.
THEOREM ResumedFileCompletes == Spec => []ResumeCompletes
<1>1. ManifestInv => ResumeCompletes
  <2> SUFFICES ASSUME ManifestInv, NEW cs \in ChunkSizes
               PROVE  LET missing == missing_ranges(rows, cs)
                      IN  /\ \A m \in Range(missing) : Bytes(rows) \subseteq Bytes(Replace(rows, m))
                          /\ ranges_cover(size, verified_ranges(AfterUpTo(rows, missing)[Len(missing)]))
    BY Zenon DEF ResumeCompletes, AfterUpTo
  <2>1. size \in Nat /\ RowsOf(size, rows) /\ rows \subseteq Span /\ cs \in Nat \ {0}
    BY SizeAssumption DEF ManifestInv, RowsOf, Table
  <2>2. PICK ms : ms = missing_ranges(rows, cs)
    BY Zenon
  <2>3. ms \in Seq(Span)
    BY <2>1, <2>2, MissingMeans, Zenon DEF missing_ranges
  <2>4. /\ \A c \in Range(ms) : c \in Span /\ End(c) <= size /\ ~ BytesOf(c) \subseteq Bytes(rows)
        /\ \A c, d \in Range(ms) : c.offset = d.offset => c = d
        /\ (0 .. size - 1) \ Bytes(rows) \subseteq Bytes(Range(ms))
    BY <2>1, <2>2, MissingCompletes, Zenon DEF missing_ranges
  <2>5. \A c \in Range(ms), r \in rows : r.offset = c.offset => BytesOf(r) \subseteq BytesOf(c)
    BY <2>1, <2>4, ReplacesLess, Zenon
  <2>6. ASSUME NEW c \in Range(ms) PROVE Bytes(rows) \subseteq Bytes(Replace(rows, c))
    <3>1. SUFFICES ASSUME NEW b \in Bytes(rows) PROVE b \in Bytes(Replace(rows, c))
      BY Zenon
    <3>2. PICK r \in rows : b \in BytesOf(r)
      BY <3>1, InBytes, Zenon
    <3>3. c \in Replace(rows, c) /\ (r \in Replace(rows, c) \/ r.offset = c.offset)
      BY <2>1, <2>4, Replaced, Zenon
    <3> QED BY <2>5, <3>2, <3>3, InBytes, Zenon
  <2>7. PICK as : as = AfterUpTo(rows, ms)[Len(ms)]
    BY Zenon
  <2>8. /\ RowsOf(size, as) /\ Range(ms) \subseteq as
        /\ \A r \in rows : r \in as \/ \E c \in Range(ms) : c.offset = r.offset
    BY <2>1, <2>3, <2>4, <2>7, AfterAll, Zenon
  <2>9. ASSUME NEW b \in 0 .. size - 1 PROVE b \in Bytes(as)
    <3>1. CASE b \in Bytes(rows)
      <4>1. PICK r \in rows : b \in BytesOf(r)
        BY <3>1, InBytes, Zenon
      <4> QED BY <2>5, <2>8, <4>1, InBytes, Zenon
    <3>2. CASE b \notin Bytes(rows)
      <4>1. PICK c \in Range(ms) : b \in BytesOf(c)
        BY <2>4, <3>2, InBytes, Zenon
      <4> QED BY <2>8, <4>1, InBytes, Zenon
    <3> QED BY <3>1, <3>2, Zenon
  <2>10. ranges_cover(size, verified_ranges(as))
    BY <2>1, <2>8, <2>9, CoverMeans, Zenon
  <2> QED BY <2>2, <2>6, <2>7, <2>10, Zenon
<1> QED BY <1>1, ManifestInvAlways, PTL

\* A frame that was written, and is within the reader's limit, is read as what was written.
LEMMA FrameRoundTrip ==
  ASSUME NEW chunk \in TransferChunk, write_chunk_frame(chunk) # Err,
         write_chunk_frame(chunk).frame_len <= MaxFrame
  PROVE  read_chunk_frame(write_chunk_frame(chunk)) = chunk
<1>1. PICK n, frame : n = LenOfFrame(chunk.id_len, chunk.bytes_len) /\ frame = write_chunk_frame(chunk)
  BY Zenon
<1>2. /\ frame = [frame_len |-> n, chunk |-> chunk]
      /\ chunk.id_len # 0 /\ chunk.digest_matches
  BY <1>1, Zenon DEF write_chunk_frame
<1>3. frame.frame_len = n /\ frame.chunk = chunk
  BY <1>2
<1>4. chunk.id_len \in Nat /\ chunk.bytes_len \in Nat
  BY DEF TransferChunk
<1>5. /\ n \in Nat /\ ~ n < LenOfFrame(0, 0) /\ ~ chunk.id_len > n
      /\ ~ n > MaxFrame
  BY <1>1, <1>3, <1>4, FrameAssumption DEF LenOfFrame
<1> QED BY <1>1, <1>2, <1>3, <1>5, Zenon DEF read_chunk_frame

\* The two copies of the chunk arithmetic agree, and so do the two ends of the stream.
THEOREM TheCopiesAgree == Spec => []CopiesAgree
<1>1. ManifestInv => CopiesAgree
  <2> SUFFICES ASSUME ManifestInv PROVE CopiesAgree
    OBVIOUS
  <2>1. size \in Nat /\ size <= U64Max /\ RowsOf(size, rows) /\ rows \subseteq Span
    BY SizeAssumption, U64MaxAssumption DEF ManifestInv, RowsOf, Table
  <2>2. PICK ranges : ranges = InOrder(rows)
    BY Zenon
  <2>3. Rising(ranges) /\ Range(ranges) = rows
    BY <2>1, <2>2, InOrderRises, Zenon DEF RowsOf
  <2>4. chunk_merge_ranges(ranges) = merge_ranges(ranges)
    BY <2>3, Merged, Zenon
  <2>5. validate_verified_ranges(size, ranges)
    <3>1. ASSUME NEW r \in rows
          PROVE  r.length > 0 /\ ~ Overflows(r.offset, r.length) /\ r.offset + r.length <= size
      <4>1. End(r) <= size /\ r.length > 0 /\ End(r) \in Nat /\ End(r) = r.offset + r.length
        BY <2>1, SpanFacts, Zenon DEF RowsOf, End
      <4> QED BY <2>1, <4>1, U64MaxAssumption DEF Overflows
    <3> QED BY <2>3, <3>1, Zenon DEF validate_verified_ranges
  <2>6. ranges_cover_file(size, ranges) = ranges_cover(size, ranges)
    BY <2>4, <2>5, Zenon DEF ranges_cover_file, ranges_cover
  <2>7. ASSUME NEW cs \in ChunkSizes
        PROVE  LET plan == plan_chunks(size, cs)
               IN  /\ plan_missing_chunks(size, cs, ranges) = missing_ranges_for(size, cs, ranges)
                   /\ Len(plan) = expected_chunk_count(size, cs)
                   /\ Bytes(Range(plan)) = FileBytes
                   /\ \A i \in 1 .. Len(plan) - 1 : plan[i].offset + plan[i].length = plan[i + 1].offset
                   /\ \A i \in 1 .. Len(plan), id_len \in IdLengths :
                        LET chunk == Framed(id_len, plan[i])
                            frame == write_chunk_frame(chunk)
                        IN  frame # Err /\ frame.frame_len <= MaxFrame => read_chunk_frame(frame) = chunk
    <3>1. cs \in Nat \ {0} /\ cs # 0
      BY SizeAssumption
    <3>2. plan_missing_chunks(size, cs, ranges) = missing_ranges_for(size, cs, ranges)
      BY <2>4, <2>5, <3>1, Zenon DEF plan_missing_chunks, missing_ranges_for
    <3>3. PICK plan : plan = plan_chunks(size, cs)
      BY Zenon
    <3>4. /\ Rising(plan) /\ Len(plan) = expected_chunk_count(size, cs)
          /\ \A i \in 1 .. Len(plan) - 1 : plan[i].offset + plan[i].length = plan[i + 1].offset
          /\ Bytes(Range(plan)) = FileBytes
      BY <2>1, <3>1, <3>3, PlanFacts, Zenon DEF End, FileBytes
    <3>5. \A i \in 1 .. Len(plan) : plan[i] \in Span
      BY <3>4 DEF Rising
    <3>6. ASSUME NEW i \in 1 .. Len(plan), NEW id_len \in IdLengths
          PROVE  Framed(id_len, plan[i]) \in TransferChunk
      <4>1. plan[i].offset \in Nat /\ plan[i].length \in Nat /\ id_len \in Nat
        BY <3>5, SpanFacts, SizeAssumption
      <4> QED BY <4>1 DEF Framed, TransferChunk
    <3> QED BY <3>2, <3>3, <3>4, <3>6, FrameRoundTrip, Zenon
  <2> QED BY <2>2, <2>6, <2>7, Zenon DEF CopiesAgree
<1> QED BY <1>1, ManifestInvAlways, PTL
=============================================================================
