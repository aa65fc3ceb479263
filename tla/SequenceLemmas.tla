--------------------------- MODULE SequenceLemmas ---------------------------
(***************************************************************************)
(* Facts about numbers and sequences that the proofs of several modules    *)
(* use: least elements, sets put in order, and sequences of sequences put  *)
(* one after the other.  No induction theorem is needed for them: a least  *)
(* counterexample exists if any does, and leads to a contradiction.        *)
(***************************************************************************)
EXTENDS SequencesExt, FiniteSetTheorems, SequenceTheorems, WellFoundedInduction,
        NaturalsInduction, TLAPS

-----------------------------------------------------------------------------
(* Sequences in the order of their numbers *)

\* Every set of natural numbers that is not empty has a least one.
LEMMA NatMin ==
  ASSUME NEW T, T \subseteq Nat, T # {}
  PROVE  \E x \in T : \A y \in T : x <= y
<1> DEFINE R == {ss \in Nat \X Nat : ss[1] < ss[2]}
<1>1. IsWellFoundedOn(R, Nat)
  BY NatLessThanWellFounded DEF OpToRel
<1>2. \A y, x \in Nat : <<y, x>> \in R <=> y < x
  OBVIOUS
<1> HIDE DEF R
<1>3. PICK x \in T : \A y \in T : ~(<<y, x>> \in R)
  BY <1>1, WFMin, Zenon
<1>4. x \in Nat /\ \A y \in T : y \in Nat /\ ~(y < x)
  BY <1>2, <1>3
<1> QED BY <1>4

Increasing(s) == \A j, k \in DOMAIN s : j < k => s[j] < s[k]

\* Every set of the first n numbers can be put in order.
LEMMA OrderExists ==
  \A n \in Nat : \A S \in SUBSET (1..n) : \E s \in [1..Cardinality(S) -> S] : Increasing(s)
<1> DEFINE Good(n) == \A S \in SUBSET (1..n) : \E s \in [1..Cardinality(S) -> S] : Increasing(s)
           Bad == {n \in Nat : ~Good(n)}
<1> SUFFICES ASSUME Bad # {} PROVE FALSE
  OBVIOUS
<1>1. PICK n \in Bad : \A m \in Bad : n <= m
  BY NatMin
<1>2. n # 0
  <2>1. 1..0 = {} /\ Cardinality({}) = 0
    BY FS_EmptySet
  <2>2. Good(0)
    <3> SUFFICES ASSUME NEW S \in SUBSET (1..0)
                 PROVE  \E s \in [1..Cardinality(S) -> S] : Increasing(s)
      OBVIOUS
    <3>1. S = {}
      BY <2>1
    <3> DEFINE s == [k \in {} |-> k]
    <3>2. s \in [1..Cardinality(S) -> S] /\ Increasing(s)
      BY <2>1, <3>1 DEF Increasing
    <3> QED BY <3>2
  <2> QED BY <1>1, <2>2
<1>3. n - 1 \in Nat /\ n \in Nat /\ Good(n - 1) /\ ~Good(n)
  <2>1. n \in Nat /\ ~Good(n)
    BY <1>1
  <2>2. n - 1 \in Nat /\ ~(n <= n - 1)
    BY <1>2, <2>1
  <2>3. n - 1 \notin Bad
    BY <1>1, <2>2
  <2> QED BY <2>1, <2>2, <2>3
<1>4. PICK S \in SUBSET (1..n) : ~ \E s \in [1..Cardinality(S) -> S] : Increasing(s)
  BY <1>3
<1>5. n \in S
  <2> SUFFICES ASSUME n \notin S PROVE FALSE
    OBVIOUS
  <2>1. S \in SUBSET (1..(n - 1))
    BY <1>3
  <2> QED BY <1>3, <1>4, <2>1
<1> DEFINE T == S \ {n}
<1>6. IsFiniteSet(S) /\ T \in SUBSET (1..(n - 1))
  <2>1. IsFiniteSet(1..n)
    BY <1>3, FS_Interval
  <2>2. IsFiniteSet(S)
    BY <2>1, FS_Subset
  <2> QED BY <1>3, <2>2
<1>7. Cardinality(T) = Cardinality(S) - 1 /\ Cardinality(T) \in Nat /\ Cardinality(S) \in Nat
  BY <1>5, <1>6, FS_RemoveElement, FS_CardinalityType
<1>8. PICK t \in [1..Cardinality(T) -> T] : Increasing(t)
  BY <1>3, <1>6
<1> HIDE DEF T
<1> PICK c \in Nat : c = Cardinality(S) /\ Cardinality(T) = c - 1
  BY <1>7
<1> DEFINE s == [k \in 1..c |-> IF k = c THEN n ELSE t[k]]
<1>9. \A k \in 1..c : k # c => k \in 1..Cardinality(T) /\ t[k] \in T
  BY <1>8
<1>10. s \in [1..c -> S]
  BY <1>5, <1>9 DEF T
<1>11. Increasing(s)
  <2> SUFFICES ASSUME NEW j \in 1..c, NEW k \in 1..c, j < k PROVE s[j] < s[k]
    BY DEF Increasing
  <2>1. j # c
    OBVIOUS
  <2>2. j \in 1..Cardinality(T) /\ t[j] \in T
    BY <1>9, <2>1
  <2>3. t[j] < n
    <3>1. t[j] \in 1..(n - 1)
      BY <1>6, <2>2
    <3> QED BY <1>3, <3>1
  <2>4. s[j] = t[j]
    BY <2>1
  <2>5. CASE k = c
    BY <2>3, <2>4, <2>5
  <2>6. CASE k # c
    <3>1. s[k] = t[k] /\ k \in DOMAIN t /\ j \in DOMAIN t
      BY <1>8, <1>9, <2>2, <2>6
    <3> QED BY <1>8, <2>4, <3>1 DEF Increasing
  <2> QED BY <2>5, <2>6
<1> QED BY <1>4, <1>10, <1>11

\* An increasing sequence of all numbers of a set names each of them.
LEMMA IncreasingIsOnto ==
  ASSUME NEW n \in Nat, NEW S \in SUBSET (1..n), NEW s \in [1..Cardinality(S) -> S], Increasing(s)
  PROVE  /\ Cardinality(S) \in Nat
         /\ \A c \in S : \E k \in 1..Cardinality(S) : s[k] = c
<1>1. IsFiniteSet(S) /\ Cardinality(S) \in Nat
  <2>1. IsFiniteSet(1..n)
    BY FS_Interval
  <2>2. IsFiniteSet(S)
    BY <2>1, FS_Subset
  <2> QED BY <2>2, FS_CardinalityType
<1> DEFINE D == 1..Cardinality(S)
<1>2. IsFiniteSet(D) /\ Cardinality(D) = Cardinality(S)
  BY <1>1, FS_Interval
<1>3. \A j, k \in D : j # k => s[j] # s[k]
  <2> SUFFICES ASSUME NEW j \in D, NEW k \in D, j # k PROVE s[j] # s[k]
    OBVIOUS
  <2>1. j < k \/ k < j
    BY <1>1
  <2>2. s[j] \in 1..n /\ s[k] \in 1..n
    OBVIOUS
  <2> QED BY <2>1, <2>2 DEF Increasing
<1>4. s \in Injection(D, S)
  BY <1>3 DEF Injection, IsInjective
<1>5. s \in Surjection(D, S)
  BY <1>1, <1>2, <1>4, FS_Injection
<1> QED BY <1>1, <1>5 DEF Surjection

LEMMA IsSeqOf ==
  ASSUME NEW S, NEW n \in Nat, NEW s \in [1..n -> S]
  PROVE  s \in Seq(S) /\ Len(s) = n /\ DOMAIN s = 1..n
OBVIOUS

-----------------------------------------------------------------------------
(* Sequences of sequences, one after the other *)

\* f joins the first sequences of ss, one more at each number.
Joins(f, ss, n) ==
    \A i \in 1..n : f[i] = IF i = 1 THEN ss[i] ELSE f[i - 1] \o ss[i]

LEMMA JoinsExists ==
  ASSUME NEW S, NEW ss \in Seq(Seq(S))
  PROVE  \A n \in 0..Len(ss) : \E f \in [1..n -> Seq(S)] : Joins(f, ss, n)
<1> DEFINE Bad == {n \in 0..Len(ss) : ~ \E f \in [1..n -> Seq(S)] : Joins(f, ss, n)}
<1> SUFFICES ASSUME Bad # {} PROVE FALSE
  OBVIOUS
<1>1. Bad \subseteq Nat
  OBVIOUS
<1>2. PICK n \in Bad : \A m \in Bad : n <= m
  BY <1>1, NatMin
<1>3. n # 0
  <2> DEFINE f == [i \in 1..0 |-> <<>>]
  <2>1. f \in [1..0 -> Seq(S)] /\ Joins(f, ss, 0)
    BY DEF Joins
  <2> HIDE DEF f
  <2> QED BY <1>2, <2>1
<1>4. n - 1 \in 0..Len(ss) /\ n - 1 \notin Bad /\ n \in 1..Len(ss)
  <2>1. n \in 0..Len(ss) /\ Len(ss) \in Nat
    BY <1>2
  <2>2. n - 1 \in 0..Len(ss) /\ n \in 1..Len(ss) /\ ~(n <= n - 1)
    BY <1>3, <2>1
  <2> QED BY <1>2, <2>2
<1>5. PICK f \in [1..(n - 1) -> Seq(S)] : Joins(f, ss, n - 1)
  BY <1>4
<1>6. ss[n] \in Seq(S)
  BY <1>4, ElementOfSeq
<1> DEFINE last == IF n = 1 THEN ss[n] ELSE f[n - 1] \o ss[n]
           g == [i \in 1..n |-> IF i = n THEN last ELSE f[i]]
<1>7. last \in Seq(S)
  <2>1. n # 1 => f[n - 1] \in Seq(S)
    BY <1>4
  <2>2. n # 1 => f[n - 1] \o ss[n] \in Seq(S)
    BY <1>6, <2>1, ConcatProperties
  <2> QED BY <1>6, <2>2
<1> HIDE DEF last
<1>8. g \in [1..n -> Seq(S)]
  BY <1>4, <1>7
<1>9. Joins(g, ss, n)
  <2> SUFFICES ASSUME NEW i \in 1..n PROVE g[i] = IF i = 1 THEN ss[i] ELSE g[i - 1] \o ss[i]
    BY DEF Joins
  <2>1. CASE i = n
    <3>1. i # 1 => g[i - 1] = f[i - 1]
      BY <1>4
    <3>2. g[i] = last
      BY <2>1
    <3> QED BY <2>1, <3>1, <3>2 DEF last
  <2>2. CASE i # n
    <3>1. i \in 1..(n - 1) /\ g[i] = f[i]
      BY <1>4, <2>2
    <3>2. i # 1 => g[i - 1] = f[i - 1]
      BY <1>4, <2>2
    <3> QED BY <1>5, <3>1, <3>2 DEF Joins
  <2> QED BY <2>1, <2>2
<1> QED BY <1>2, <1>8, <1>9

\* Joining is done in one way only.
LEMMA JoinsOnce ==
  ASSUME NEW ss, NEW n \in Nat, NEW f, NEW g, Joins(f, ss, n), Joins(g, ss, n)
  PROVE  \A i \in 1..n : f[i] = g[i]
<1> DEFINE Bad == {i \in 1..n : f[i] # g[i]}
<1> SUFFICES ASSUME Bad # {} PROVE FALSE
  OBVIOUS
<1>1. Bad \subseteq Nat
  OBVIOUS
<1>2. PICK i \in Bad : \A j \in Bad : i <= j
  BY <1>1, NatMin
<1>3. CASE i = 1
  BY <1>2, <1>3 DEF Joins
<1>4. CASE i # 1
  <2>1. i - 1 \in 1..n /\ i - 1 \notin Bad
    BY <1>2, <1>4
  <2> QED BY <1>2, <1>4, <2>1 DEF Joins
<1> QED BY <1>3, <1>4

LEMMA FlattenIs ==
  ASSUME NEW S, NEW ss \in Seq(Seq(S)), ss # <<>>,
         NEW f \in [1..Len(ss) -> Seq(S)], Joins(f, ss, Len(ss))
  PROVE  FlattenSeq(ss) = f[Len(ss)]
<1> DEFINE n == Len(ss)
           flatten == CHOOSE g : g = [i \in 1..Len(ss) |-> IF i = 1 THEN ss[i] ELSE g[i - 1] \o ss[i]]
<1>1. n \in Nat \ {0}
  BY EmptySeq
<1>2. FlattenSeq(ss) = flatten[n]
  BY <1>1 DEF FlattenSeq
<1>3. f = [i \in 1..Len(ss) |-> IF i = 1 THEN ss[i] ELSE f[i - 1] \o ss[i]]
  BY DEF Joins
<1>4. flatten = [i \in 1..Len(ss) |-> IF i = 1 THEN ss[i] ELSE flatten[i - 1] \o ss[i]]
  BY <1>3
<1> HIDE DEF flatten
<1>5. Joins(flatten, ss, n)
  BY <1>4 DEF Joins
<1>6. flatten[n] = f[n]
  BY <1>1, <1>5, JoinsOnce
<1> QED BY <1>2, <1>6

LEMMA FlattenEmpty == FlattenSeq(<<>>) = <<>>
  BY DEF FlattenSeq

LEMMA FlattenAppend ==
  ASSUME NEW S, NEW ss \in Seq(Seq(S)), NEW t \in Seq(S)
  PROVE  /\ FlattenSeq(ss) \in Seq(S)
         /\ FlattenSeq(Append(ss, t)) = FlattenSeq(ss) \o t
<1> DEFINE n == Len(ss)
           tt == Append(ss, t)
<1>1. n \in Nat
  OBVIOUS
<1>2. /\ tt \in Seq(Seq(S)) /\ Len(tt) = n + 1 /\ tt[n + 1] = t /\ \A i \in 1..n : tt[i] = ss[i]
  BY AppendProperties
<1>3. PICK f \in [1..n -> Seq(S)] : Joins(f, ss, n)
  <2>1. n \in 0..Len(ss)
    BY <1>1
  <2> QED BY <2>1, JoinsExists
<1>4. PICK g \in [1..(n + 1) -> Seq(S)] : Joins(g, tt, n + 1)
  <2>1. n + 1 \in 0..Len(tt)
    BY <1>1, <1>2
  <2> QED BY <1>2, <2>1, JoinsExists
<1> HIDE DEF tt
<1>5. FlattenSeq(tt) = g[n + 1]
  <2>1. tt # <<>>
    BY <1>1, <1>2
  <2> QED BY <1>2, <1>4, <2>1, FlattenIs
<1>6. CASE ss = <<>>
  <2>1. n = 0 /\ FlattenSeq(ss) = <<>>
    BY <1>6, FlattenEmpty
  <2>2. g[1] = t
    BY <1>2, <1>4, <2>1 DEF Joins
  <2>3. <<>> \o t = t
    BY ConcatEmptySeq
  <2>4. <<>> \in Seq(S)
    BY EmptySeq
  <2> QED BY <1>5, <2>1, <2>2, <2>3, <2>4 DEF tt
<1>7. CASE ss # <<>>
  <2>1. n \in Nat \ {0}
    BY <1>7, EmptySeq
  <2>2. FlattenSeq(ss) = f[n]
    BY <1>3, <1>7, FlattenIs
  <2>3. Joins(g, ss, n)
    <3> SUFFICES ASSUME NEW i \in 1..n PROVE g[i] = IF i = 1 THEN ss[i] ELSE g[i - 1] \o ss[i]
      BY DEF Joins
    <3>1. i \in 1..(n + 1)
      BY <1>1
    <3> QED BY <1>2, <1>4, <3>1 DEF Joins
  <2>4. g[n] = f[n]
    BY <1>3, <2>1, <2>3, JoinsOnce
  <2>5. g[n + 1] = g[n] \o t
    <3>1. n + 1 \in 1..(n + 1) /\ n + 1 # 1 /\ (n + 1) - 1 = n
      BY <2>1
    <3> QED BY <1>2, <1>4, <3>1 DEF Joins
  <2> QED BY <1>3, <1>5, <2>1, <2>2, <2>4, <2>5 DEF tt
<1> QED BY <1>6, <1>7

\* A sequence that is not empty is one that something was appended to.
LEMMA LastAppended ==
  ASSUME NEW S, NEW s \in Seq(S), s # <<>>
  PROVE  LET front == SubSeq(s, 1, Len(s) - 1) IN
         /\ front \in Seq(S) /\ Len(front) = Len(s) - 1 /\ s[Len(s)] \in S
         /\ s = Append(front, s[Len(s)])
<1> DEFINE n == Len(s)
           front == SubSeq(s, 1, n - 1)
<1>1. n \in Nat \ {0} /\ s[n] \in S
  BY EmptySeq, ElementOfSeq
<1>2. front \in Seq(S) /\ Len(front) = n - 1 /\ \A i \in 1..(n - 1) : front[i] = s[i]
  BY <1>1, SubSeqProperties
<1> HIDE DEF front
<1> DEFINE t == Append(front, s[n])
<1>3. /\ t \in Seq(S) /\ Len(t) = n
      /\ \A i \in 1..n : t[i] = s[i]
  BY <1>1, <1>2, AppendProperties
<1> HIDE DEF t
<1>4. s = t
  BY <1>1, <1>3, SeqEqual
<1> QED BY <1>1, <1>2, <1>4 DEF t, front

LEMMA FlattenConcat ==
  ASSUME NEW S, NEW a \in Seq(Seq(S)), NEW b \in Seq(Seq(S))
  PROVE  FlattenSeq(a \o b) = FlattenSeq(a) \o FlattenSeq(b)
<1> DEFINE Bad == {n \in Nat : \E c \in Seq(Seq(S)) :
                     Len(c) = n /\ FlattenSeq(a \o c) # FlattenSeq(a) \o FlattenSeq(c)}
<1> SUFFICES ASSUME Bad # {} PROVE FALSE
  BY LenProperties
<1>1. PICK n \in Bad : \A m \in Bad : n <= m
  BY NatMin
<1>2. PICK c \in Seq(Seq(S)) : Len(c) = n /\ FlattenSeq(a \o c) # FlattenSeq(a) \o FlattenSeq(c)
  BY <1>1
<1>3. FlattenSeq(a) \in Seq(S)
  <2>1. <<>> \in Seq(S)
    BY EmptySeq
  <2> QED BY <2>1, FlattenAppend
<1>4. c # <<>>
  <2> SUFFICES ASSUME c = <<>> PROVE FALSE
    OBVIOUS
  <2>1. a \o c = a /\ FlattenSeq(c) = <<>>
    BY FlattenEmpty, ConcatEmptySeq
  <2>2. FlattenSeq(a) \o <<>> = FlattenSeq(a)
    BY <1>3, ConcatEmptySeq
  <2> QED BY <1>2, <2>1, <2>2
<1> DEFINE front == SubSeq(c, 1, Len(c) - 1)
           last == c[Len(c)]
<1>5. front \in Seq(Seq(S)) /\ Len(front) = Len(c) - 1 /\ last \in Seq(S) /\ c = Append(front, last)
  BY <1>4, LastAppended
<1> HIDE DEF front, last
<1>6. FlattenSeq(a \o front) = FlattenSeq(a) \o FlattenSeq(front)
  <2>1. n \in Nat /\ n # 0 /\ Len(c) = n
    BY <1>1, <1>2, <1>4, EmptySeq
  <2>2. n - 1 \in Nat /\ ~(n <= n - 1)
    BY <2>1
  <2>3. n - 1 \notin Bad
    BY <1>1, <2>2
  <2> QED BY <1>5, <2>1, <2>2, <2>3
<1>7. a \o c = Append(a \o front, last)
  <2>1. a \o front \in Seq(Seq(S))
    BY <1>5, ConcatProperties
  <2>2. Append(front, last) = front \o <<last>> /\ Append(a \o front, last) = (a \o front) \o <<last>>
    BY <1>5, <2>1, AppendIsConcat
  <2>3. <<last>> \in Seq(Seq(S))
    BY <1>5
  <2> QED BY <1>5, <2>2, <2>3, ConcatAssociative
<1>8. /\ FlattenSeq(a \o c) = FlattenSeq(a \o front) \o last
      /\ FlattenSeq(c) = FlattenSeq(front) \o last /\ FlattenSeq(front) \in Seq(S)
  <2>1. a \o front \in Seq(Seq(S))
    BY <1>5, ConcatProperties
  <2> QED BY <1>5, <1>7, <2>1, FlattenAppend
<1> HIDE DEF Bad
<1>9. ASSUME NEW x \in Seq(S), NEW y \in Seq(S), NEW z \in Seq(S)
      PROVE  (x \o y) \o z = x \o (y \o z)
  BY ConcatAssociative
<1>10. (FlattenSeq(a) \o FlattenSeq(front)) \o last = FlattenSeq(a) \o (FlattenSeq(front) \o last)
  BY <1>3, <1>5, <1>8, <1>9
<1> QED BY <1>2, <1>6, <1>8, <1>10
=============================================================================
