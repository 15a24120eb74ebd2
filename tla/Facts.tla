-------------------------------- MODULE Facts --------------------------------
(***************************************************************************)
(* Facts the proofs rest on and that are not obvious to the provers: of    *)
(* the natural numbers a least element, induction, recursion, products and *)
(* remainders; of sequences what FlattenSeq computes.                      *)
(***************************************************************************)
EXTENDS Integers, SequencesExt, SequenceTheorems, WellFoundedInduction, TLAPS

\* A set of naturals has a least element.
LEMMA LeastElement ==
  ASSUME NEW T, T \subseteq Nat, T # {}
  PROVE  \E x \in T : \A y \in T : x <= y
<1>1. PICK x \in T : \A y \in T : <<y, x>> \notin OpToRel(<, Nat)
  BY NatLessThanWellFounded, WFMin
<1>2. \A y \in T : ~(y < x)
  BY <1>1 DEF OpToRel
<1>. QED BY <1>2

\* Induction, over a set instead of a predicate.
LEMMA NatInduct ==
  ASSUME NEW T, 0 \in T, \A n \in Nat : n \in T => n + 1 \in T
  PROVE  Nat \subseteq T
<1>. DEFINE C == {n \in Nat : n \notin T}
<1>. SUFFICES ASSUME C # {} PROVE FALSE
  OBVIOUS
<1>1. PICK x \in C : \A y \in C : x <= y
  <2>. C \subseteq Nat
    OBVIOUS
  <2>. HIDE DEF C
  <2>. QED BY LeastElement
<1>2. x \in Nat /\ x # 0 /\ x - 1 \in Nat
  OBVIOUS
<1>3. x - 1 \in T
  BY <1>1, <1>2
<1>4. (x - 1) + 1 \in T
  BY <1>2, <1>3
<1>. QED BY <1>2, <1>4

\* g starts at a and takes the steps of H, n of them.
Iterates(g, a, H, n) == g[0] = a /\ \A i \in 0..(n - 1) : g[i + 1] = H[i][g[i]]

\* What iterates exists: recursion over the naturals, the step given as data.
LEMMA IterationExists ==
  ASSUME NEW S, NEW a \in S, NEW H \in [Nat -> [S -> S]]
  PROVE  \A n \in Nat : \E g \in [0..n -> S] : Iterates(g, a, H, n)
<1>. DEFINE T == {n \in Nat : \E g \in [0..n -> S] : Iterates(g, a, H, n)}
<1>1. 0 \in T
  <2>1. [i \in 0..0 |-> a] \in [0..0 -> S] /\ Iterates([i \in 0..0 |-> a], a, H, 0)
    BY DEF Iterates
  <2>. QED BY <2>1
<1>2. ASSUME NEW n \in Nat, n \in T PROVE n + 1 \in T
  <2>1. PICK g \in [0..n -> S] : Iterates(g, a, H, n)
    BY <1>2
  <2>2. g[n] \in S /\ H[n] \in [S -> S] /\ H[n][g[n]] \in S
    OBVIOUS
  <2>. DEFINE f == [i \in 0..(n + 1) |-> IF i = n + 1 THEN H[n][g[n]] ELSE g[i]]
  <2>3. f \in [0..(n + 1) -> S]
    BY <2>2
  <2>4. f[0] = a
    BY <2>1 DEF Iterates
  <2>5. ASSUME NEW i \in 0..n PROVE f[i + 1] = H[i][f[i]]
    <3>1. CASE i = n
      BY <3>1
    <3>2. CASE i # n
      <4>1. i \in 0..(n - 1) /\ f[i] = g[i] /\ f[i + 1] = g[i + 1]
        BY <3>2
      <4>. QED BY <2>1, <4>1 DEF Iterates
    <3>. QED BY <3>1, <3>2
  <2>6. Iterates(f, a, H, n + 1)
    <3>1. (n + 1) - 1 = n
      OBVIOUS
    <3>. HIDE DEF f
    <3>. QED BY <2>4, <2>5, <3>1 DEF Iterates
  <2>. HIDE DEF f
  <2>. QED BY <2>3, <2>6
<1>. HIDE DEF T
<1>3. Nat \subseteq T
  BY <1>1, <1>2, NatInduct
<1>. QED BY <1>3 DEF T

\* One more of the same.
LEMMA Distributes ==
  ASSUME NEW n \in Nat, NEW d \in Nat
  PROVE  n * d \in Nat /\ (n + 1) * d = n * d + d
OBVIOUS

\* Products with the same factor are ordered as the other factor is.
LEMMA Monotonic ==
  ASSUME NEW m \in Nat, NEW n \in Nat, NEW d \in Nat, m <= n
  PROVE  m * d <= n * d
<1>1. PICK k \in Nat : n = m + k
  BY n - m \in Nat
<1>2. n * d = m * d + k * d /\ k * d \in Nat /\ m * d \in Nat
  BY <1>1
<1>. QED BY <1>2

\* What division with remainder means.
LEMMA DivMod ==
  ASSUME NEW n \in Nat, NEW m \in Nat \ {0}
  PROVE  /\ n \div m \in Nat
         /\ n % m \in 0..(m - 1)
         /\ n = m * (n \div m) + (n % m)
OBVIOUS

\* A larger factor is larger by one multiplicand at least.
LEMMA NextMultiple ==
  ASSUME NEW a \in Nat, NEW b \in Nat, NEW m \in Nat, a < b
  PROVE  m * b >= m * a + m
<1>1. PICK k \in Nat : b = a + 1 + k
  BY b - a - 1 \in Nat
<1>2. m * b = m * a + m + m * k /\ m * k \in Nat /\ m * a \in Nat
  BY <1>1
<1>. QED BY <1>2

\* The remainder is unique.
LEMMA RemainderUnique ==
  ASSUME NEW m \in Nat \ {0}, NEW q \in Nat, NEW p \in Nat,
         NEW r \in 0..(m - 1), NEW s \in 0..(m - 1), m * q + r = m * p + s
  PROVE  r = s
<1>1. CASE q < p BY <1>1, NextMultiple
<1>2. CASE p < q BY <1>2, NextMultiple
<1>3. CASE p = q BY <1>3
<1>. QED BY <1>1, <1>2, <1>3

\* Counting modulo m is counting, then taking the remainder.
LEMMA ModSuccessor ==
  ASSUME NEW n \in Nat, NEW m \in Nat \ {0}
  PROVE  ((n % m) + 1) % m = (n + 1) % m
<1>1. PICK q \in Nat, r \in 0..(m - 1) : r = n % m /\ n = m * q + r
  BY DivMod
<1>2. n + 1 \in Nat
  OBVIOUS
<1>3. PICK p \in Nat, s \in 0..(m - 1) : s = (n + 1) % m /\ n + 1 = m * p + s
  BY <1>2, DivMod
<1>4. CASE r + 1 < m
  <2>1. r + 1 \in 0..(m - 1) /\ m * q + (r + 1) = m * p + s
    BY <1>1, <1>3, <1>4
  <2>2. r + 1 = s
    BY <2>1, RemainderUnique
  <2>3. (r + 1) % m = r + 1
    BY <1>4
  <2>. QED BY <1>1, <1>3, <2>2, <2>3
<1>5. CASE r + 1 = m
  <2>1. q + 1 \in Nat /\ 0 \in 0..(m - 1) /\ m * (q + 1) + 0 = m * p + s
    BY <1>1, <1>3, <1>5
  <2>2. 0 = s
    BY <2>1, RemainderUnique
  <2>3. (r + 1) % m = 0
    BY <1>5
  <2>. QED BY <1>1, <1>3, <2>2, <2>3
<1>. QED BY <1>4, <1>5

-----------------------------------------------------------------------------
(* FlattenSeq of SequencesExt: the recursive function it is made of.          *)

IsFlatten(f, seqs) ==
  f = [i \in 1..Len(seqs) |-> IF i = 1 THEN seqs[i] ELSE f[i-1] \o seqs[i]]

LEMMA FlattenForm ==
  ASSUME NEW seqs, Len(seqs) # 0
  PROVE  FlattenSeq(seqs) = (CHOOSE f : IsFlatten(f, seqs))[Len(seqs)]
BY DEF FlattenSeq, IsFlatten

LEMMA FlattenExists ==
  ASSUME NEW S, NEW seqs \in Seq(Seq(S))
  PROVE  \E f : IsFlatten(f, seqs)
<1>. DEFINE n == Len(seqs)
            H == [i \in Nat |-> [s \in Seq(S) |->
                    IF i < n THEN s \o seqs[i + 1] ELSE s]]
<1>1. n \in Nat /\ \A i \in 1..n : seqs[i] \in Seq(S)
  OBVIOUS
<1>2. H \in [Nat -> [Seq(S) -> Seq(S)]] /\ <<>> \in Seq(S)
  <2>1. ASSUME NEW i \in Nat, NEW s \in Seq(S), i < n PROVE s \o seqs[i + 1] \in Seq(S)
    BY <1>1, <2>1, ConcatProperties
  <2>. HIDE DEF n
  <2>. QED BY <2>1
<1>3. PICK g \in [0..n -> Seq(S)] : Iterates(g, <<>>, H, n)
  <2>. HIDE DEF H
  <2>. QED BY <1>1, <1>2, IterationExists
<1>. DEFINE f == [i \in 1..n |-> g[i]]
<1>4. ASSUME NEW i \in 1..n
      PROVE  f[i] = IF i = 1 THEN seqs[i] ELSE f[i - 1] \o seqs[i]
  <2>1. i - 1 \in 0..(n - 1) /\ (i - 1) + 1 = i /\ i - 1 < n /\ i - 1 \in Nat
    BY <1>1
  <2>2. g[i] = H[i - 1][g[i - 1]] /\ g[i - 1] \in Seq(S)
    <3>. HIDE DEF H, n
    <3>1. \A j \in 0..(n - 1) : g[j + 1] = H[j][g[j]]
      BY <1>3 DEF Iterates
    <3>2. i - 1 \in 0..n
      BY <1>1, <2>1
    <3>. QED BY <1>3, <2>1, <3>1, <3>2
  <2>3. H[i - 1][g[i - 1]] = g[i - 1] \o seqs[i]
    BY <2>1, <2>2
  <2>4. CASE i = 1
    <3>1. g[i - 1] = <<>> /\ <<>> \o seqs[i] = seqs[i]
      BY <1>1, <1>3, <2>4, ConcatEmptySeq DEF Iterates
    <3>. QED BY <2>2, <2>3, <2>4, <3>1
  <2>5. CASE i # 1
    <3>1. i - 1 \in 1..n
      BY <2>1, <2>5
    <3>. QED BY <2>2, <2>3, <2>5, <3>1
  <2>. QED BY <2>4, <2>5
<1>5. IsFlatten(f, seqs)
  BY <1>4 DEF IsFlatten
<1>. QED BY <1>5

\* What FlattenSeq computes: nothing joined is empty, and one sequence more is
\* joined at the end.
LEMMA FlattenEmpty == FlattenSeq(<<>>) = <<>>
BY DEF FlattenSeq

LEMMA FlattenChoice ==
  ASSUME NEW S, NEW seqs \in Seq(Seq(S)), Len(seqs) # 0
  PROVE  \E f : IsFlatten(f, seqs) /\ FlattenSeq(seqs) = f[Len(seqs)]
<1>1. IsFlatten(CHOOSE f : IsFlatten(f, seqs), seqs)
  BY FlattenExists
<1>. QED BY <1>1, FlattenForm

LEMMA FlattenOneMore ==
  ASSUME NEW S, NEW s \in Seq(Seq(S)), NEW t \in Seq(Seq(S)), Len(t) = Len(s) + 1,
         \A i \in 1..Len(s) : s[i] = t[i]
  PROVE  FlattenSeq(t) = FlattenSeq(s) \o t[Len(t)]
<1>1. /\ Len(s) \in Nat /\ Len(t) \in Nat /\ Len(s) <= Len(t)
      /\ Len(t) # 0 /\ Len(t) \in 1..Len(t) /\ t[Len(t)] \in Seq(S)
  OBVIOUS
<1>2. PICK g : IsFlatten(g, t) /\ FlattenSeq(t) = g[Len(t)]
  BY <1>1, FlattenChoice
<1>3. g[Len(t)] = IF Len(t) = 1 THEN t[Len(t)] ELSE g[Len(t) - 1] \o t[Len(t)]
  BY <1>1, <1>2 DEF IsFlatten
<1>4. CASE Len(s) = 0
  <2>1. s = <<>> /\ FlattenSeq(s) = <<>>
    BY <1>4, FlattenEmpty
  <2>. QED BY <1>1, <1>2, <1>3, <1>4, <2>1, ConcatEmptySeq
<1>5. CASE Len(s) # 0
  <2>1. PICK f : IsFlatten(f, s) /\ FlattenSeq(s) = f[Len(s)]
    BY <1>5, FlattenChoice
  <2>2. \A i \in 1..Len(s) : f[i] = g[i]
    <3>. DEFINE T == {m \in Nat : m \in 1..Len(s) => f[m] = g[m]}
    <3>1. 0 \in T
      OBVIOUS
    <3>2. ASSUME NEW m \in Nat, m \in T, m + 1 \in 1..Len(s)
          PROVE  f[m + 1] = g[m + 1]
      <4>1. m + 1 \in 1..Len(t) /\ s[m + 1] = t[m + 1]
        BY <1>1, <3>2
      <4>2. f[m + 1] = IF m + 1 = 1 THEN s[m + 1] ELSE f[(m + 1) - 1] \o s[m + 1]
        BY <2>1, <3>2 DEF IsFlatten
      <4>3. g[m + 1] = IF m + 1 = 1 THEN t[m + 1] ELSE g[(m + 1) - 1] \o t[m + 1]
        BY <1>2, <4>1 DEF IsFlatten
      <4>4. (m + 1) - 1 = m /\ (m + 1 # 1 => f[m] = g[m])
        BY <3>2
      <4>. QED BY <4>1, <4>2, <4>3, <4>4
    <3>3. \A m \in Nat : m \in T => m + 1 \in T
      BY <3>2
    <3>. HIDE DEF T
    <3>4. Nat \subseteq T
      BY <3>1, <3>3, NatInduct
    <3>. QED BY <3>4 DEF T
  <2>3. Len(s) \in 1..Len(s) /\ Len(t) # 1 /\ Len(t) - 1 = Len(s)
    BY <1>1, <1>5
  <2>. QED BY <1>2, <1>3, <2>1, <2>2, <2>3
<1>. QED BY <1>4, <1>5

LEMMA FlattenAppend ==
  ASSUME NEW S, NEW seqs \in Seq(Seq(S)), NEW last \in Seq(S)
  PROVE  FlattenSeq(Append(seqs, last)) = FlattenSeq(seqs) \o last
<1>1. Append(seqs, last) \in Seq(Seq(S)) /\ Len(Append(seqs, last)) = Len(seqs) + 1
  BY AppendProperties
<1>2. /\ \A i \in 1..Len(seqs) : seqs[i] = Append(seqs, last)[i]
      /\ Append(seqs, last)[Len(Append(seqs, last))] = last
  BY <1>1, AppendProperties
<1>. QED BY <1>1, <1>2, FlattenOneMore

LEMMA FlattenType ==
  ASSUME NEW S
  PROVE  \A seqs \in Seq(Seq(S)) : FlattenSeq(seqs) \in Seq(S)
<1>. DEFINE T == {n \in Nat : \A seqs \in Seq(Seq(S)) :
                                Len(seqs) = n => FlattenSeq(seqs) \in Seq(S)}
<1>1. 0 \in T
  <2>1. \A seqs \in Seq(Seq(S)) : Len(seqs) = 0 => seqs = <<>>
    OBVIOUS
  <2>2. <<>> \in Seq(S)
    OBVIOUS
  <2>. QED BY <2>1, <2>2, FlattenEmpty
<1>2. ASSUME NEW n \in Nat, n \in T PROVE n + 1 \in T
  <2>. SUFFICES ASSUME NEW seqs \in Seq(Seq(S)), Len(seqs) = n + 1
                PROVE  FlattenSeq(seqs) \in Seq(S)
    OBVIOUS
  <2>1. PICK s \in Seq(Seq(S)), e \in Seq(S) : seqs = Append(s, e)
    <3>1. seqs # <<>>
      OBVIOUS
    <3>. QED BY ONLY seqs \in Seq(Seq(S)), <3>1, SequenceEmptyOrAppend
  <2>2. Len(s) = n
    BY <2>1, AppendProperties
  <2>3. FlattenSeq(s) \in Seq(S)
    BY <1>2, <2>2
  <2>. HIDE DEF T
  <2>. QED BY <2>1, <2>3, FlattenAppend, ConcatProperties
<1>. HIDE DEF T
<1>3. Nat \subseteq T
  BY <1>1, <1>2, NatInduct
<1>. QED BY <1>3 DEF T

\* The other end: what is joined first.
LEMMA FlattenOne ==
  ASSUME NEW S, NEW s \in Seq(S)
  PROVE  FlattenSeq(<<s>>) = s
<1>1. <<>> \in Seq(Seq(S)) /\ Append(<<>>, s) = <<s>>
  OBVIOUS
<1>2. FlattenSeq(Append(<<>>, s)) = FlattenSeq(<<>>) \o s
  BY <1>1, FlattenAppend
<1>. QED BY <1>1, <1>2, FlattenEmpty, ConcatEmptySeq

JoinsFront(first, seqs) == FlattenSeq(<<first>> \o seqs) = first \o FlattenSeq(seqs)

LEMMA FlattenFront ==
  ASSUME NEW S, NEW first \in Seq(S)
  PROVE  \A seqs \in Seq(Seq(S)) : JoinsFront(first, seqs)
<1>. DEFINE T == {n \in Nat : \A seqs \in Seq(Seq(S)) :
                                Len(seqs) = n => JoinsFront(first, seqs)}
<1>0. <<first>> \in Seq(Seq(S))
  OBVIOUS
<1>1. 0 \in T
  <2>1. \A seqs \in Seq(Seq(S)) : Len(seqs) = 0 => seqs = <<>>
    OBVIOUS
  <2>2. <<first>> \o <<>> = <<first>> /\ first \o <<>> = first
    BY <1>0, ConcatEmptySeq
  <2>. QED BY <2>1, <2>2, FlattenOne, FlattenEmpty DEF JoinsFront
<1>2. ASSUME NEW n \in Nat, n \in T, NEW seqs \in Seq(Seq(S)), Len(seqs) = n + 1
      PROVE  JoinsFront(first, seqs)
  <2>1. PICK s \in Seq(Seq(S)), e \in Seq(S) : seqs = Append(s, e)
    <3>1. seqs # <<>>
      BY <1>2
    <3>. QED BY ONLY seqs \in Seq(Seq(S)), <3>1, SequenceEmptyOrAppend
  <2>2. Len(s) = n
    <3>1. Len(Append(s, e)) = Len(s) + 1
      BY ONLY s \in Seq(Seq(S)), e \in Seq(S), AppendProperties
    <3>2. n \in Nat /\ Len(seqs) = n + 1 /\ Len(s) \in Nat
      BY <1>2
    <3>. QED BY ONLY <2>1, <3>1, <3>2
  <2>3. FlattenSeq(<<first>> \o s) = first \o FlattenSeq(s)
    BY <1>2, <2>2 DEF JoinsFront
  <2>4. <<first>> \o s \in Seq(Seq(S))
    BY <1>0, ConcatProperties
  <2>5. <<e>> \in Seq(Seq(S)) /\ Append(s, e) = s \o <<e>>
        /\ Append(<<first>> \o s, e) = (<<first>> \o s) \o <<e>>
    BY <2>4, AppendIsConcat
  <2>6. <<first>> \o seqs = Append(<<first>> \o s, e)
    <3>1. <<first>> \o (s \o <<e>>) = (<<first>> \o s) \o <<e>>
      BY ONLY <1>0, <2>5, s \in Seq(Seq(S)), ConcatAssociative
    <3>. QED BY ONLY <2>1, <2>5, <3>1
  <2>7. FlattenSeq(Append(<<first>> \o s, e)) = FlattenSeq(<<first>> \o s) \o e
    BY <2>4, FlattenAppend
  <2>8. FlattenSeq(Append(s, e)) = FlattenSeq(s) \o e
    BY FlattenAppend
  <2>9. FlattenSeq(s) \in Seq(S)
    BY FlattenType
  <2>10. (first \o FlattenSeq(s)) \o e = first \o (FlattenSeq(s) \o e)
    <3>. DEFINE x == FlattenSeq(s)
    <3>1. x \in Seq(S)
      BY <2>9
    <3>. HIDE DEF x
    <3>2. (first \o x) \o e = first \o (x \o e)
      BY ONLY <3>1, first \in Seq(S), e \in Seq(S), ConcatAssociative
    <3>. QED BY <3>2 DEF x
  <2>. QED BY <2>1, <2>3, <2>6, <2>7, <2>8, <2>10 DEF JoinsFront
<1>3. \A n \in Nat : n \in T => n + 1 \in T
  BY <1>2
<1>. HIDE DEF T
<1>4. Nat \subseteq T
  BY <1>1, <1>3, NatInduct
<1>. QED BY <1>4 DEF T
=============================================================================
