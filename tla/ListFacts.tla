----------------------------- MODULE ListFacts -----------------------------
(***************************************************************************)
(* Induction over the naturals with the property given as a set, existence *)
(* of functions defined by iteration, and what the filter of a list keeps. *)
(***************************************************************************)
EXTENDS Lists, WellFoundedInduction, TLAPS

\* A set of naturals that is not empty has a least element.
LEMMA Least ==
  ASSUME NEW T, T \subseteq Nat, T # {}
  PROVE  \E x \in T : \A y \in T : x <= y
<1> DEFINE R == OpToRel(<, Nat)
<1>1. IsWellFoundedOn(R, Nat)
  BY NatLessThanWellFounded, ZenonT(40)
<1>2. \A x, y \in Nat : x < y => <<x, y>> \in R
  BY DEF OpToRel
<1> HIDE DEF R
<1>3. PICK x \in T : \A y \in T : ~(<<y, x>> \in R)
  BY <1>1, WFMin, ZenonT(40)
<1>4. ASSUME NEW y \in T PROVE x <= y
  <2>1. ~ (y < x)
    BY <1>2, <1>3, ZenonT(40)
  <2> QED
    BY <2>1
<1> QED
  BY <1>4

\* A set that holds 0 and the successor of each of its naturals holds them all.
LEMMA SetInduction ==
  ASSUME NEW S, 0 \in S, \A n \in Nat : n \in S => n + 1 \in S
  PROVE  Nat \subseteq S
<1> DEFINE T == {n \in Nat : n \notin S}
<1>1. SUFFICES ASSUME T # {} PROVE FALSE
  OBVIOUS
<1>2. PICK x \in T : \A y \in T : x <= y
  BY <1>1, Least, ZenonT(40)
<1>3. x # 0 /\ x - 1 \in Nat
  OBVIOUS
<1>4. x - 1 \in S
  BY <1>2, <1>3
<1> QED
  BY <1>3, <1>4

\* The same up to N.
LEMMA RangeInduction ==
  ASSUME NEW N \in Nat, NEW S, 0 \in S, \A n \in 0 .. N - 1 : n \in S => n + 1 \in S
  PROVE  0 .. N \subseteq S
<1> DEFINE T == {n \in Nat : n <= N => n \in S}
<1>1. 0 \in T /\ \A n \in Nat : n \in T => n + 1 \in T
  OBVIOUS
<1> HIDE DEF T
<1>2. Nat \subseteq T
  BY <1>1, SetInduction
<1> QED
  BY <1>2 DEF T

-----------------------------------------------------------------------------
(* Iteration *)

StepOn(n, S) == [(1 .. n) \X S -> S]

Iterates(n, S, a, step, f) ==
  /\ f \in [0 .. n -> S]
  /\ f[0] = a
  /\ \A k \in 1 .. n : f[k] = step[<<k, f[k - 1]>>]

\* A step can be iterated N times.
LEMMA Recursion ==
  ASSUME NEW N \in Nat, NEW S, NEW a \in S, NEW step \in StepOn(N, S)
  PROVE  \E f : Iterates(N, S, a, step, f)
<1> DEFINE T == {n \in 0 .. N : \E f : Iterates(n, S, a, step, f)}
<1>1. 0 \in T
  <2> DEFINE g == [k \in 0 .. 0 |-> a]
  <2>1. Iterates(0, S, a, step, g)
    BY DEF Iterates
  <2>2. 0 \in 0 .. N
    OBVIOUS
  <2> QED
    BY <2>1, <2>2, Zenon
<1>2. ASSUME NEW n \in 0 .. N - 1, n \in T PROVE n + 1 \in T
  <2>1. PICK f : Iterates(n, S, a, step, f)
    BY <1>2, Zenon
  <2> DEFINE g == [k \in 0 .. n + 1 |-> IF k = n + 1 THEN step[<<n + 1, f[n]>>] ELSE f[k]]
  <2>2. g \in [0 .. n + 1 -> S]
    <3>1. <<n + 1, f[n]>> \in (1 .. N) \X S /\ \A k \in 0 .. n : f[k] \in S
      BY <2>1 DEF Iterates
    <3> QED
      BY <3>1 DEF StepOn
  <2>3. g[0] = a
    BY <2>1 DEF Iterates
  <2>4. ASSUME NEW k \in 1 .. n + 1 PROVE g[k] = step[<<k, g[k - 1]>>]
    <3>1. CASE k = n + 1
      <4>1. k \in 0 .. n + 1 /\ k - 1 \in 0 .. n + 1 /\ k - 1 # n + 1 /\ k - 1 = n
        BY <3>1
      <4>2. g[k] = step[<<n + 1, f[n]>>] /\ g[k - 1] = f[k - 1]
        BY <3>1, <4>1, Zenon
      <4> QED
        BY <3>1, <4>1, <4>2, Zenon
    <3>2. CASE k \in 1 .. n
      BY <2>1, <3>2 DEF Iterates
    <3> QED
      BY <3>1, <3>2
  <2>5. n + 1 \in 0 .. N
    OBVIOUS
  <2> HIDE DEF g
  <2> QED
    BY <2>2, <2>3, <2>4, <2>5, Zenon DEF Iterates
<1> HIDE DEF T
<1>3. 0 .. N \subseteq T
  BY <1>1, <1>2, RangeInduction, Zenon
<1>4. N \in 0 .. N
  OBVIOUS
<1> QED
  BY <1>3, <1>4, Zenon DEF T

-----------------------------------------------------------------------------
(* The filter *)

\* KeptUpTo(seq, S)[k]: what is kept of the first k elements.
KeptUpTo(seq, S) ==
  CHOOSE f : f = [k \in 0 .. Len(seq) |->
                    IF k = 0 THEN <<>>
                    ELSE IF seq[k] \in S THEN Append(f[k - 1], seq[k]) ELSE f[k - 1]]

\* Kept is the last of these.
LEMMA KeptDef ==
  ASSUME NEW T, NEW seq \in Seq(T), NEW S
  PROVE  Kept(seq, S) = KeptUpTo(seq, S)[Len(seq)]
BY DEF Kept, KeptUpTo

\* The recursion of Kept has a solution, and KeptUpTo is one.
LEMMA KeptStep ==
  ASSUME NEW T, NEW seq \in Seq(T), NEW S
  PROVE  LET f == KeptUpTo(seq, S)
         IN  /\ f \in [0 .. Len(seq) -> Seq(T)]
             /\ f[0] = <<>>
             /\ \A k \in 1 .. Len(seq) :
                  f[k] = IF seq[k] \in S THEN Append(f[k - 1], seq[k]) ELSE f[k - 1]
<1> DEFINE N == Len(seq)
           L == Seq(T)
           step == [p \in (1 .. N) \X L |->
                      IF seq[p[1]] \in S THEN Append(p[2], seq[p[1]]) ELSE p[2]]
           Rec(f) == [k \in 0 .. N |->
                    IF k = 0 THEN <<>>
                    ELSE IF seq[k] \in S THEN Append(f[k - 1], seq[k]) ELSE f[k - 1]]
<1>1. N \in Nat /\ <<>> \in L /\ step \in StepOn(N, L)
  BY DEF StepOn
<1>2. \A k \in 1 .. N, x \in L : step[<<k, x>>] = IF seq[k] \in S THEN Append(x, seq[k]) ELSE x
  OBVIOUS
<1>3. \A k \in 1 .. N, x \in L : Append(x, seq[k]) \in L
  OBVIOUS
<1>4. 0 \in 0 .. N /\ \A k \in 1 .. N : k \in 0 .. N /\ k - 1 \in 0 .. N /\ k # 0
  BY <1>1
<1>5. \A k \in 0 .. N : k # 0 => k \in 1 .. N
  BY <1>1
<1>6. \A k \in 0 .. N - 1 : k + 1 \in 1 .. N /\ k + 1 - 1 = k
  BY <1>1
<1> HIDE DEF step, N, L
<1>7. PICK f \in [0 .. N -> L] : f[0] = <<>> /\ \A k \in 1 .. N : f[k] = step[<<k, f[k - 1]>>]
  <2> DEFINE a == <<>>
  <2>1. a \in L
    BY <1>1
  <2> HIDE DEF a
  <2>2. PICK f : Iterates(N, L, a, step, f)
    BY <1>1, <2>1, Recursion, Zenon
  <2> QED
    BY <2>2, Zenon DEF a, Iterates
<1>8. f = Rec(f)
  <2>1. ASSUME NEW k \in 0 .. N PROVE f[k] = Rec(f)[k]
    BY <1>2, <1>4, <1>5, <1>7, Zenon
  <2> QED
    BY <2>1, Zenon
<1> DEFINE g == KeptUpTo(seq, S)
<1>9. g = Rec(g)
  <2>1. \E h : h = Rec(h)
    BY <1>8, Zenon
  <2>2. g = CHOOSE h : h = Rec(h)
    BY Zenon DEF KeptUpTo, N
  <2> QED
    BY <2>1, <2>2, Zenon
<1> HIDE DEF g
<1>10. /\ g[0] = <<>>
       /\ \A k \in 1 .. N : g[k] = IF seq[k] \in S THEN Append(g[k - 1], seq[k]) ELSE g[k - 1]
  BY <1>4, <1>9, Zenon
<1>11. \A k \in 0 .. N : g[k] \in L
  <2> DEFINE P == {k \in 0 .. N : g[k] \in L}
  <2>1. 0 \in P
    BY <1>1, <1>4, <1>10, Zenon
  <2>2. ASSUME NEW n \in 0 .. N - 1, n \in P PROVE n + 1 \in P
    <3>1. PICK m \in 1 .. N : m = n + 1 /\ m \in 0 .. N /\ m - 1 = n
      BY <1>1
    <3>2. g[m] = IF seq[m] \in S THEN Append(g[n], seq[m]) ELSE g[n]
      BY <1>10, <3>1, Zenon
    <3> QED
      BY <1>3, <2>2, <3>1, <3>2, Zenon
  <2> HIDE DEF P
  <2>3. 0 .. N \subseteq P
    BY <1>1, <2>1, <2>2, RangeInduction, Zenon
  <2> QED
    BY <2>3, Zenon DEF P
<1>12. g \in [0 .. N -> L]
  <2>1. g = [k \in 0 .. N |-> g[k]]
    BY <1>9, Zenon
  <2> QED
    BY <1>11, <2>1, Zenon
<1> QED
  BY <1>10, <1>12, Zenon DEF g, N, L


\* A property that holds of what is kept of no element, and is passed on from one
\* element to the next, holds in the end (P is the set of k it holds for).
LEMMA KeptInduction ==
  ASSUME NEW T, NEW seq \in Seq(T), NEW P, 0 \in P, \A k \in 1 .. Len(seq) : k - 1 \in P => k \in P
  PROVE  Len(seq) \in P
<1>1. Len(seq) \in Nat
  OBVIOUS
<1>2. ASSUME NEW n \in 0 .. Len(seq) - 1, n \in P PROVE n + 1 \in P
  BY <1>1, <1>2
<1>3. 0 .. Len(seq) \subseteq P
  BY <1>1, <1>2, RangeInduction, Zenon
<1> QED
  BY <1>1, <1>3

\* What is kept of a list is a list of the same kind.
LEMMA KeptType ==
  ASSUME NEW T, NEW seq \in Seq(T), NEW S
  PROVE  Kept(seq, S) \in Seq(T)
<1>1. KeptUpTo(seq, S) \in [0 .. Len(seq) -> Seq(T)]
  BY KeptStep, Zenon
<1>2. Len(seq) \in 0 .. Len(seq)
  OBVIOUS
<1> QED
  BY <1>1, <1>2, KeptDef, Zenon

\* A filter that every element passes changes nothing.
LEMMA KeptAll ==
  ASSUME NEW T, NEW seq \in Seq(T), NEW S, \A k \in 1 .. Len(seq) : seq[k] \in S
  PROVE  Kept(seq, S) = seq
<1> DEFINE f == KeptUpTo(seq, S)
           N == Len(seq)
           P == {k \in 0 .. N : Len(f[k]) = k /\ \A i \in 1 .. k : f[k][i] = seq[i]}
<1>1. /\ f \in [0 .. N -> Seq(T)] /\ f[0] = <<>>
      /\ \A k \in 1 .. N : f[k] = Append(f[k - 1], seq[k])
  BY KeptStep, Zenon
<1>2. N \in Nat /\ \A k \in 1 .. N : seq[k] \in T
  OBVIOUS
<1> HIDE DEF f, N
<1>3. 0 \in P
  BY <1>1, <1>2
<1>4. ASSUME NEW k \in 1 .. N, k - 1 \in P PROVE k \in P
  <2>1. f[k - 1] \in Seq(T) /\ Len(f[k - 1]) = k - 1 /\ \A i \in 1 .. k - 1 : f[k - 1][i] = seq[i]
    BY <1>1, <1>2, <1>4
  <2>2. f[k] = Append(f[k - 1], seq[k]) /\ seq[k] \in T
    BY <1>1, <1>2, ZenonT(40)
  <2>3. Len(f[k]) = k /\ \A i \in 1 .. k : f[k][i] = seq[i]
    BY <1>2, <2>1, <2>2
  <2> QED
    BY <1>2, <2>3
<1>5. N \in P
  BY <1>3, <1>4, KeptInduction, Zenon DEF N
<1>6. f[N] \in Seq(T) /\ Len(f[N]) = N /\ \A i \in 1 .. N : f[N][i] = seq[i]
  BY <1>1, <1>2, <1>5
<1>7. f[N] = seq
  BY <1>6 DEF N
<1> QED
  BY <1>7, KeptDef, Zenon DEF f, N

\* The elements that are kept.
LEMMA KeptRange ==
  ASSUME NEW T, NEW seq \in Seq(T), NEW S
  PROVE  {Kept(seq, S)[i] : i \in DOMAIN Kept(seq, S)} = {seq[i] : i \in DOMAIN seq} \cap S
<1> DEFINE f == KeptUpTo(seq, S)
           N == Len(seq)
           Els(s) == {s[i] : i \in 1 .. Len(s)}
           P == {k \in 0 .. N : Els(f[k]) = {seq[i] : i \in 1 .. k} \cap S}
<1>1. /\ f \in [0 .. N -> Seq(T)] /\ f[0] = <<>>
      /\ \A k \in 1 .. N : f[k] = IF seq[k] \in S THEN Append(f[k - 1], seq[k]) ELSE f[k - 1]
  BY KeptStep
<1>2. N \in Nat /\ \A k \in 1 .. N : seq[k] \in T
  OBVIOUS
<1> HIDE DEF f, N
<1>3. 0 \in P
  BY <1>1, <1>2
<1>4. ASSUME NEW k \in 1 .. N, k - 1 \in P PROVE k \in P
  <2>1. f[k - 1] \in Seq(T) /\ Els(f[k - 1]) = {seq[i] : i \in 1 .. k - 1} \cap S
    BY <1>1, <1>2, <1>4, ZenonT(40)
  <2>2. {seq[i] : i \in 1 .. k} = {seq[i] : i \in 1 .. k - 1} \cup {seq[k]}
    BY <1>2
  <2>3. k \in 0 .. N
    BY <1>2
  <2>4. CASE seq[k] \in S
    <3>1. f[k] = Append(f[k - 1], seq[k]) /\ seq[k] \in T
      BY <1>1, <1>2, <2>4, ZenonT(40)
    <3>2. Els(Append(f[k - 1], seq[k])) = Els(f[k - 1]) \cup {seq[k]}
      <4>1. PICK q \in Seq(T) : q = f[k - 1]
        BY <2>1, Zenon
      <4>2. PICK e \in T : e = seq[k]
        BY <3>1, Zenon
      <4>3. Els(Append(q, e)) = Els(q) \cup {e}
        <5>1. /\ Len(q) \in Nat /\ Len(Append(q, e)) = Len(q) + 1
              /\ \A i \in 1 .. Len(q) : Append(q, e)[i] = q[i]
              /\ Append(q, e)[Len(q) + 1] = e
          OBVIOUS
        <5>2. 1 .. Len(q) + 1 = (1 .. Len(q)) \cup {Len(q) + 1}
          BY <5>1
        <5>3. ASSUME NEW x PROVE x \in Els(Append(q, e)) <=> x \in Els(q) \cup {e}
          <6>1. x \in Els(Append(q, e)) <=> \E i \in (1 .. Len(q)) \cup {Len(q) + 1} : x = Append(q, e)[i]
            BY <5>1, <5>2, Zenon
          <6>2. x \in Els(q) <=> \E i \in 1 .. Len(q) : x = q[i]
            BY Zenon
          <6> QED
            BY <5>1, <6>1, <6>2, ZenonT(40)
        <5> QED
          BY <5>3, Zenon
      <4> HIDE DEF Els
      <4> QED
        BY <4>1, <4>2, <4>3, Zenon
    <3>3. Els(f[k]) = Els(f[k - 1]) \cup {seq[k]}
      BY <3>1, <3>2, Zenon
    <3> HIDE DEF Els
    <3> QED
      BY <2>1, <2>2, <2>4, <2>3, <3>3
  <2>5. CASE seq[k] \notin S
    <3>1. f[k] = f[k - 1]
      BY <1>1, <2>5, Zenon
    <3>2. Els(f[k]) = Els(f[k - 1])
      BY <3>1, Zenon
    <3> HIDE DEF Els
    <3> QED
      BY <2>1, <2>2, <2>5, <2>3, <3>2
  <2> QED
    BY <2>4, <2>5, Zenon
<1>5. N \in P
  BY <1>3, <1>4, KeptInduction, Zenon DEF N
<1>6. f[N] \in Seq(T) /\ Els(f[N]) = {seq[i] : i \in 1 .. N} \cap S
  BY <1>1, <1>2, <1>5
<1>7. Kept(seq, S) = f[N]
  BY KeptDef, Zenon DEF f, N
<1>8. DOMAIN f[N] = 1 .. Len(f[N]) /\ DOMAIN seq = 1 .. N
  BY <1>6 DEF N
<1> QED
  BY <1>6, <1>7, <1>8
=============================================================================
