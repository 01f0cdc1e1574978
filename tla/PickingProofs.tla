----------------------------- MODULE PickingProofs -----------------------------
(* What Array.prototype.filter returns.                                    *)
EXTENDS Picking, SequencesExt, SequenceTheorems, FiniteSetTheorems,
        WellFoundedInduction, NaturalsInduction, TLAPS

(* A set of numbers that is not empty has a least one.                     *)
LEMMA LeastNat ==
  ASSUME NEW T \in SUBSET Nat, T # {}
  PROVE  \E n \in T : \A m \in T : n <= m
<1>1. \E n \in T : \A m \in T : ~ (<<m, n>> \in OpToRel(<, Nat))
  BY WFMin, NatLessThanWellFounded, Zenon
<1>2. PICK n \in T : \A m \in T : ~ (<<m, n>> \in OpToRel(<, Nat))
  BY <1>1
<1>3. \A m \in T : ~(m < n)
  BY <1>2 DEF OpToRel
<1> QED
  BY <1>3

(* Pick returns the elements at the positions it is given and no others,   *)
(* in their order: the k-th of them exists, by the least number up to      *)
(* which there are k, and is unique.                                       *)
LEMMA PickOrder ==
  ASSUME NEW X, NEW seq \in Seq(X), NEW S \in SUBSET (DOMAIN seq)
  PROVE  /\ Pick(seq, S) \in Seq(X)
         /\ \E f \in [DOMAIN Pick(seq, S) -> S] :
              /\ \A k \in DOMAIN Pick(seq, S) : Pick(seq, S)[k] = seq[f[k]]
              /\ \A i \in S : \E k \in DOMAIN Pick(seq, S) : f[k] = i
              /\ \A k, l \in DOMAIN Pick(seq, S) : k < l <=> f[k] < f[l]
<1> DEFINE upto(n) == {j \in S : j <= n}
           N == Len(seq)
           c == Cardinality(S)
           kth(k) == CHOOSE i \in S : Cardinality(upto(i)) = k
<1>1. /\ N \in Nat /\ DOMAIN seq = 1 .. N /\ S \subseteq 1 .. N
  BY LenProperties
<1>2. IsFiniteSet(S) /\ c \in Nat
  <2>1. IsFiniteSet(1 .. N)
    BY <1>1, FS_Interval
  <2> QED
    BY <1>1, <2>1, FS_Subset, FS_CardinalityType
<1>3. \A n \in Nat : IsFiniteSet(upto(n)) /\ Cardinality(upto(n)) \in Nat
                     /\ Cardinality(upto(n)) <= c
  BY <1>2, FS_Subset, FS_CardinalityType
<1>4. upto(0) = {} /\ upto(N) = S
  BY <1>1
<1>5. \A n \in Nat \ {0} : Cardinality(upto(n)) =
             IF n \in S THEN Cardinality(upto(n - 1)) + 1 ELSE Cardinality(upto(n - 1))
  <2> TAKE n \in Nat \ {0}
  <2>1. CASE n \in S
    <3>1. upto(n) = upto(n - 1) \cup {n} /\ n \notin upto(n - 1)
      BY <1>1, <2>1
    <3> QED
      BY <3>1, <2>1, <1>3, n - 1 \in Nat, FS_AddElement
  <2>2. CASE n \notin S
    <3>1. upto(n) = upto(n - 1)
      BY <1>1, <2>2
    <3> QED
      BY <3>1, <2>2
  <2> QED
    BY <2>1, <2>2
<1>6. \A k \in 1 .. c : \E i \in S : Cardinality(upto(i)) = k
  <2> TAKE k \in 1 .. c
  <2> DEFINE T == {n \in Nat : Cardinality(upto(n)) >= k}
  <2>1. N \in T
    <3> HIDE DEF upto
    <3> QED
      BY <1>1, <1>2, <1>4
  <2>2. PICK n \in T : \A m \in T : n <= m
    BY <2>1, LeastNat
  <2>3. n # 0
    <3>1. Cardinality(upto(0)) = 0
      BY <1>4, FS_EmptySet
    <3> HIDE DEF upto
    <3> QED
      BY <3>1, <1>2
  <2>4. n - 1 \in Nat /\ n - 1 \notin T
    BY <2>2, <2>3
  <2> HIDE DEF upto
  <2>5. n \in S /\ Cardinality(upto(n)) = k
    <3>1. n \in Nat \ {0} /\ Cardinality(upto(n)) >= k
      BY <2>2, <2>3
    <3>2. Cardinality(upto(n - 1)) \in Nat /\ Cardinality(upto(n)) \in Nat
      BY <2>4, <3>1, <1>3
    <3>3. Cardinality(upto(n - 1)) < k
      BY <2>4, <3>2, <1>2
    <3> QED
      BY <3>1, <3>2, <3>3, <1>5, <1>2
  <2> QED
    BY <2>5
<1>7. \A i, j \in S : Cardinality(upto(i)) = Cardinality(upto(j)) => i = j
  <2> DEFINE P(i, j) == Cardinality(upto(i)) # Cardinality(upto(j))
  <2> SUFFICES ASSUME NEW i \in S, NEW j \in S, i < j
               PROVE  P(i, j)
    <3>1. \A i, j \in S : i < j => P(i, j)
      OBVIOUS
    <3>2. \A i, j \in S : P(i, j) => P(j, i)
      OBVIOUS
    <3>3. \A i, j \in S : P(i, j) => Cardinality(upto(i)) # Cardinality(upto(j))
      OBVIOUS
    <3> HIDE DEF P
    <3>4. \A i, j \in S : i # j => P(i, j)
      BY <1>1, <3>1, <3>2
    <3> QED
      BY <3>3, <3>4
  <2>1. i \in Nat /\ j \in Nat /\ j - 1 \in Nat /\ j # 0
    BY <1>1
  <2>2. upto(i) \subseteq upto(j - 1)
    BY <2>1, <1>1
  <2>3. Cardinality(upto(i)) <= Cardinality(upto(j - 1))
    BY <2>1, <2>2, <1>3, FS_Subset
  <2> HIDE DEF upto
  <2> QED
    BY <2>1, <2>3, <1>3, <1>5
<1>8. \A k \in 1 .. c : kth(k) \in S /\ Cardinality(upto(kth(k))) = k
  <2> HIDE DEF upto
  <2> QED
    BY <1>6
<1>8a. \A k \in 1 .. c : kth(k) \in S
  BY <1>8
<1>9. \A i \in S : \E k \in 1 .. c : kth(k) = i
  <2> TAKE i \in S
  <2>1. i \in Nat /\ i - 1 \in Nat /\ i # 0
    BY <1>1
  <2> HIDE DEF upto
  <2>2. Cardinality(upto(i)) \in 1 .. c
    BY <2>1, <1>2, <1>3, <1>5
  <2> HIDE DEF kth
  <2>3. kth(Cardinality(upto(i))) = i
    BY <2>2, <1>7, <1>8
  <2> QED
    BY <2>2, <2>3
<1>10. Pick(seq, S) = [k \in 1 .. c |-> seq[kth(k)]]
  BY DEF Pick
<1> HIDE DEF kth
<1>11. \A i \in S : seq[i] \in X
  BY <1>1, ElementOfSeq
<1>12. Pick(seq, S) \in Seq(X) /\ DOMAIN Pick(seq, S) = 1 .. c
  <2>1. \A k \in 1 .. c : seq[kth(k)] \in X
    BY <1>8, <1>11
  <2> QED
    BY <2>1, <1>2, <1>10, IsASeq
<1>13. \A k, l \in 1 .. c : k < l => kth(k) < kth(l)
  <2> SUFFICES ASSUME NEW k \in 1 .. c, NEW l \in 1 .. c, k < l, ~(kth(k) < kth(l))
               PROVE  FALSE
    OBVIOUS
  <2>1. kth(k) \in Nat /\ kth(l) \in Nat
    BY <1>1, <1>8a
  <2>2. upto(kth(l)) \subseteq upto(kth(k))
    BY <1>1, <2>1
  <2> HIDE DEF upto
  <2>3. Cardinality(upto(kth(l))) <= Cardinality(upto(kth(k)))
    BY <2>1, <2>2, <1>3, FS_Subset
  <2> QED
    BY <2>3, <1>2, <1>8
<1>14. \A k, l \in 1 .. c : k < l <=> kth(k) < kth(l)
  <2> SUFFICES ASSUME NEW k \in 1 .. c, NEW l \in 1 .. c, kth(k) < kth(l), ~(k < l)
               PROVE  FALSE
    BY <1>13
  <2>1. kth(k) \in Nat /\ kth(l) \in Nat
    BY <1>1, <1>8a
  <2>2. k # l /\ l < k
    BY <2>1, <1>2
  <2> QED
    BY <2>1, <2>2, <1>13
<1> DEFINE f == [k \in 1 .. c |-> kth(k)]
<1>15. /\ f \in [1 .. c -> S]
       /\ \A k \in 1 .. c : Pick(seq, S)[k] = seq[f[k]]
       /\ \A i \in S : \E k \in 1 .. c : f[k] = i
       /\ \A k, l \in 1 .. c : k < l <=> f[k] < f[l]
  BY <1>8, <1>9, <1>10, <1>14
<1> HIDE DEF f
<1> QED
  BY <1>12, <1>15

(* The elements of the result are those at the positions given.            *)
LEMMA PickProperties ==
  ASSUME NEW X, NEW seq \in Seq(X), NEW S \in SUBSET (DOMAIN seq)
  PROVE  /\ Pick(seq, S) \in Seq(X)
         /\ ToSet(Pick(seq, S)) = {seq[i] : i \in S}
<1>1. PICK f \in [DOMAIN Pick(seq, S) -> S] :
             /\ \A k \in DOMAIN Pick(seq, S) : Pick(seq, S)[k] = seq[f[k]]
             /\ \A i \in S : \E k \in DOMAIN Pick(seq, S) : f[k] = i
  BY PickOrder
<1>2. Pick(seq, S) \in Seq(X)
  BY PickOrder
<1> QED
  BY <1>1, <1>2 DEF ToSet
===============================================================================
