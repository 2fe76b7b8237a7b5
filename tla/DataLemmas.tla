------------------------------ MODULE DataLemmas ------------------------------
(***************************************************************************)
(* Lemmas about naturals, sequences and finite sets: what the operators of *)
(* the community modules return that the models take elements out of lists *)
(* with (RemoveAt, RemoveFirst) and order sets with (SetToSeqs).           *)
(***************************************************************************)
EXTENDS Integers, SequencesExt, FiniteSetTheorems, SequenceTheorems, WellFoundedInduction, TLAPS

\* Among numbers there is a smallest.
LEMMA NatMin ==
  ASSUME NEW S \in SUBSET Nat, S # {}
  PROVE  \E n \in S : \A m \in S : n <= m
  <1>1. PICK n \in S : \A m \in S : ~(<<m, n>> \in OpToRel(<, Nat))
    BY NatLessThanWellFounded, WFMin
  <1>2. \A m \in S : ~(m < n)
    BY <1>1 DEF OpToRel
  <1> QED
    BY <1>2

\* Among finitely many numbers there is a largest.
LEMMA NatMax ==
  ASSUME NEW n \in Nat, NEW S \in SUBSET (1..n), S # {}
  PROVE  \E i \in S : \A j \in S : j <= i
  <1> DEFINE T == {k \in Nat : n - k \in S}
  <1>1. T # {}
    <2>1. PICK i \in S : TRUE
      OBVIOUS
    <2>2. n - i \in T
      BY <2>1
    <2> QED
      BY <2>2
  <1>2. PICK k \in T : \A m \in T : k <= m
    BY <1>1, NatMin
  <1>3. ASSUME NEW j \in S PROVE j <= n - k
    <2>1. n - j \in T
      OBVIOUS
    <2> QED
      BY <1>2, <2>1
  <1> QED
    BY <1>2, <1>3

\* A sequence without one of its elements.
LEMMA SeqRemoveAt ==
  ASSUME NEW S, NEW s \in Seq(S), NEW k \in 1..Len(s)
  PROVE  /\ RemoveAt(s, k) \in Seq(S) /\ Len(RemoveAt(s, k)) = Len(s) - 1
         /\ \A i \in 1..(Len(s) - 1) : RemoveAt(s, k)[i] = IF i < k THEN s[i] ELSE s[i + 1]
  <1> DEFINE a == SubSeq(s, 1, k - 1)
             b == SubSeq(s, k + 1, Len(s))
  <1>1. Len(s) \in Nat /\ k \in Nat /\ 1 <= k /\ k <= Len(s)
    OBVIOUS
  <1>2. a \in Seq(S) /\ Len(a) = k - 1 /\ \A i \in 1..(k - 1) : a[i] = s[i]
    BY <1>1
  <1>3. b \in Seq(S) /\ Len(b) = Len(s) - k /\ \A i \in 1..(Len(s) - k) : b[i] = s[k + i]
    BY <1>1
  <1> HIDE DEF a, b
  <1>4. a \o b \in Seq(S) /\ Len(a \o b) = Len(s) - 1
    <2>1. a \o b \in Seq(S) /\ Len(a \o b) = Len(a) + Len(b)
      BY <1>2, <1>3, ConcatProperties
    <2> QED
      BY <1>1, <1>2, <1>3, <2>1
  <1>5. ASSUME NEW i \in 1..(Len(s) - 1)
        PROVE  (a \o b)[i] = IF i < k THEN s[i] ELSE s[i + 1]
    <2>1. CASE i < k
      <3>1. i \in 1..Len(a)
        BY <1>1, <1>2, <2>1
      <3> QED
        BY <1>2, <1>3, <2>1, <3>1
    <2>2. CASE ~(i < k)
      <3>1. i - Len(a) \in 1..Len(b) /\ i - Len(a) = i + 1 - k
        BY <1>1, <1>2, <1>3, <2>2
      <3>2. (a \o b)[i] = b[i - Len(a)]
        BY <1>1, <1>2, <1>3, <2>2, <3>1
      <3>3. b[i + 1 - k] = s[k + (i + 1 - k)] /\ k + (i + 1 - k) = i + 1
        BY <1>1, <1>3, <3>1
      <3> QED
        BY <2>2, <3>1, <3>2, <3>3
    <2> QED
      BY <2>1, <2>2
  <1> QED
    BY <1>4, <1>5 DEF RemoveAt, a, b

\* The same for an element that is looked up, and may not be there.
LEMMA SeqRemoveFirst ==
  ASSUME NEW S, NEW s \in Seq(S), NEW e
  PROVE  \/ RemoveFirst(s, e) = s /\ \A i \in 1..Len(s) : s[i] # e
         \/ \E k \in 1..Len(s) : s[k] = e /\ RemoveFirst(s, e) = RemoveAt(s, k)
  <1>1. CASE \E i \in 1..Len(s) : s[i] = e
    <2> DEFINE I == {i \in 1..Len(s) : s[i] = e}
    <2>1. I # {} /\ I \in SUBSET Nat
      BY <1>1
    <2>2. \E k \in I : \A m \in I : k <= m
      BY <2>1, NatMin
    <2>3. Min(I) \in I
      BY <2>2 DEF Min
    <2>4. RemoveFirst(s, e) = RemoveAt(s, Min(I))
      BY <1>1, <2>1 DEF RemoveFirst, SelectInSeq
    <2> QED
      BY <2>3, <2>4
  <1>2. CASE ~ \E i \in 1..Len(s) : s[i] = e
    BY <1>2 DEF RemoveFirst
  <1> QED
    BY <1>1, <1>2

\* A set as a sequence has each of its elements in one place.
LEMMA SeqOfSet ==
  ASSUME NEW S, IsFiniteSet(S), NEW s \in SetToSeqs(S)
  PROVE  /\ s \in Seq(S) /\ Len(s) = Cardinality(S) /\ Cardinality(S) \in Nat
         /\ \A i, j \in 1..Len(s) : i # j => s[i] # s[j]
         /\ \A e \in S : \E i \in 1..Len(s) : s[i] = e
  <1> DEFINE n == Cardinality(S)
             D == 1..n
             R == {s[i] : i \in D}
  <1>1. s \in [D -> S] /\ \A i, j \in D : i # j => s[i] # s[j]
    BY DEF SetToSeqs
  <1>2. n \in Nat
    BY FS_CardinalityType
  <1>3. s \in Seq(S) /\ Len(s) = n
    <2> HIDE DEF n
    <2> QED
      BY <1>1, <1>2
  <1>4. R \in SUBSET S
    BY <1>1
  <1>5. s \in Bijection(D, R)
    BY <1>1 DEF Bijection, Injection, Surjection, IsInjective
  <1>6. IsFiniteSet(D) /\ Cardinality(D) = n
    BY <1>2, FS_Interval
  <1>7. Cardinality(R) = n
    BY <1>5, <1>6, FS_Bijection DEF ExistsBijection
  <1>8. R = S
    BY <1>4, <1>7, FS_Subset
  <1> QED
    BY <1>1, <1>2, <1>3, <1>8

\* A finite set has such a sequence, and SetToSeq chooses one.
LEMMA SeqChosen ==
  ASSUME NEW S, IsFiniteSet(S)
  PROVE  SetToSeq(S) \in SetToSeqs(S)
  <1> DEFINE D == 1..Cardinality(S)
  <1>1. PICK f : f \in Bijection(D, S)
    BY FS_CardinalityType DEF ExistsBijection
  <1>2. f \in [D -> S] /\ IsInjective(f)
    BY <1>1 DEF Bijection, Injection
  <1>3. SetToSeq(S) \in [D -> S] /\ IsInjective(SetToSeq(S))
    BY <1>2 DEF SetToSeq
  <1> QED
    BY <1>3 DEF SetToSeqs, IsInjective

\* An element of a sequence, where the sequence is appended to.
LEMMA SeqAppend ==
  ASSUME NEW S, NEW s \in Seq(S), NEW e \in S
  PROVE  /\ Append(s, e) \in Seq(S) /\ Len(Append(s, e)) = Len(s) + 1 /\ Len(s) \in Nat
         /\ Append(s, e)[Len(s) + 1] = e
         /\ \A i \in 1..Len(s) : Append(s, e)[i] = s[i]
  OBVIOUS
===============================================================================
