-------------------------- MODULE CrossCheckProofs --------------------------
(***************************************************************************)
(* Theorems about CrossCheck: what the every-kth sample holds, for any     *)
(* pool and any sample size, and what an open gate guarantees.             *)
(***************************************************************************)
EXTENDS CrossCheck, FiniteSetTheorems, FunctionTheorems, TLAPS

USE SampleSizeAssumption

-----------------------------------------------------------------------------
(***************************************************************************)
(* Ranks.                                                                  *)
(***************************************************************************)
\* Ranks are the numbers below the size of the pool, in the order of the ids.
LEMMA RankOrder ==
  ASSUME NEW ids \in SUBSET Nat, IsFiniteSet(ids)
  PROVE  /\ \A i \in ids : Rank(ids, i) \in Nat /\ Rank(ids, i) < Cardinality(ids)
         /\ \A i, j \in ids : i < j => Rank(ids, i) < Rank(ids, j)
<1> DEFINE Before(i) == {k \in ids : k < i}
<1>1. ASSUME NEW i \in ids
      PROVE  /\ IsFiniteSet(Before(i)) /\ Cardinality(Before(i)) \in Nat
             /\ IsFiniteSet(Before(i) \cup {i})
             /\ Cardinality(Before(i) \cup {i}) = Cardinality(Before(i)) + 1
  <2>1. Before(i) \in SUBSET ids /\ i \notin Before(i)
    OBVIOUS
  <2>2. IsFiniteSet(Before(i))
    BY <2>1, FS_Subset
  <2> HIDE DEF Before
  <2> QED BY <2>1, <2>2, FS_CardinalityType, FS_AddElement
<1>2. ASSUME NEW i \in ids, NEW T \in SUBSET ids, Before(i) \cup {i} \subseteq T
      PROVE  Cardinality(Before(i)) < Cardinality(T)
  <2>1. IsFiniteSet(T)
    BY FS_Subset
  <2>2. Cardinality(Before(i) \cup {i}) <= Cardinality(T) /\ Cardinality(T) \in Nat
    BY <1>2, <2>1, FS_Subset, FS_CardinalityType
  <2>3. /\ Cardinality(Before(i)) \in Nat
        /\ Cardinality(Before(i) \cup {i}) = Cardinality(Before(i)) + 1
    BY <1>1
  <2> HIDE DEF Before
  <2> QED BY <2>2, <2>3
<1>3. ASSUME NEW i \in ids PROVE Rank(ids, i) \in Nat /\ Rank(ids, i) < Cardinality(ids)
  BY <1>1, <1>2 DEF Rank
<1>4. ASSUME NEW i \in ids, NEW j \in ids, i < j PROVE Rank(ids, i) < Rank(ids, j)
  <2>1. ASSUME NEW k \in Before(i) \cup {i} PROVE k \in Before(j)
    <3>1. i \in Nat /\ j \in Nat /\ k \in ids /\ k \in Nat /\ (k < i \/ k = i)
      OBVIOUS
    <3>2. k < j
      BY <1>4, <3>1
    <3> QED BY <3>1, <3>2
  <2> QED BY <1>2, <2>1 DEF Rank
<1> QED BY <1>3, <1>4

\* Every number below the size of the pool is the rank of one id.
LEMMA RankOnto ==
  ASSUME NEW ids \in SUBSET Nat, IsFiniteSet(ids), NEW r \in Nat, r < Cardinality(ids)
  PROVE  \E i \in ids : Rank(ids, i) = r
<1> DEFINE n == Cardinality(ids)
           F == [i \in ids |-> Rank(ids, i)]
<1>1. n \in Nat
  BY FS_CardinalityType
<1>2. F \in [ids -> 0 .. n - 1]
  BY <1>1, RankOrder
<1>3. \A i, j \in ids : F[i] = F[j] => i = j
  <2> SUFFICES ASSUME NEW i \in ids, NEW j \in ids, Rank(ids, i) = Rank(ids, j) PROVE i = j
    OBVIOUS
  <2>1. i \in Nat /\ j \in Nat
    OBVIOUS
  <2> QED BY <2>1, RankOrder
<1>4. F \in Injection(ids, 0 .. n - 1)
  BY <1>2, <1>3, Fun_IsInj
<1>5. IsFiniteSet(0 .. n - 1) /\ Cardinality(0 .. n - 1) = n
  <2> HIDE DEF n
  <2>1. 0 \in Int /\ n - 1 \in Int
    BY <1>1
  <2>2. /\ IsFiniteSet(0 .. n - 1)
        /\ Cardinality(0 .. n - 1) = IF 0 > n - 1 THEN 0 ELSE (n - 1) - 0 + 1
    BY <2>1, FS_Interval, Zenon
  <2> QED BY <1>1, <2>2
<1>6. F \in Surjection(ids, 0 .. n - 1)
  <2> HIDE DEF F
  <2>1. Cardinality(ids) = Cardinality(0 .. n - 1)
    BY <1>5
  <2> QED BY ONLY <1>4, <1>5, <2>1, FS_Injection, Zenon
<1>7. \E i \in ids : F[i] = r
  <2>1. r \in 0 .. n - 1
    BY <1>1
  <2> HIDE DEF F, n
  <2>2. \A t \in 0 .. n - 1 : \E i \in ids : F[i] = t
    BY <1>6 DEF Surjection
  <2> QED BY <2>1, <2>2
<1> QED BY <1>7

-----------------------------------------------------------------------------
(***************************************************************************)
(* The sample.                                                             *)
(***************************************************************************)
\* Division with remainder.
LEMMA Division ==
  ASSUME NEW s \in Nat, s > 0, NEW a \in Nat
  PROVE  a \div s \in Nat /\ a % s = a - s * (a \div s) /\ a % s \in 0 .. s - 1
OBVIOUS

\* A multiple of a step, divided by it.
LEMMA Multiples ==
  ASSUME NEW s \in Nat, s > 0, NEW r \in Nat
  PROVE  s * r \in Nat /\ (s * r) % s = 0 /\ (s * r) \div s = r
OBVIOUS

\* sampleEveryKth: the sample is of the pool, all of it when there is room, and
\* exactly SampleSize of its members otherwise.
THEOREM SampleSized ==
  ASSUME NEW ids \in SUBSET Nat, IsFiniteSet(ids)
  PROVE  /\ Sampled(ids) \subseteq ids /\ IsFiniteSet(Sampled(ids))
         /\ Cardinality(Sampled(ids)) \in Nat
         /\ Cardinality(ids) <= SampleSize => Sampled(ids) = ids
         /\ Cardinality(ids) > SampleSize => Cardinality(Sampled(ids)) = SampleSize
<1>1. Sampled(ids) \in SUBSET ids
  BY DEF Sampled
<1>2. IsFiniteSet(Sampled(ids)) /\ Cardinality(Sampled(ids)) \in Nat
  BY <1>1, FS_Subset, FS_CardinalityType
<1>3. Cardinality(ids) <= SampleSize => Sampled(ids) = ids
  BY DEF Sampled
<1>4. ASSUME Cardinality(ids) > SampleSize PROVE Cardinality(Sampled(ids)) = SampleSize
  <2> DEFINE n == Cardinality(ids)
             step == n \div SampleSize
             T == Sampled(ids)
             G == [i \in T |-> Rank(ids, i) \div step]
  <2>1. n \in Nat /\ SampleSize \in Nat /\ SampleSize > 0
    BY FS_CardinalityType
  <2>2. step \in Nat /\ n % SampleSize = n - SampleSize * step
        /\ n % SampleSize \in 0 .. SampleSize - 1
    BY <2>1, Division
  <2>3. T = {i \in ids : Rank(ids, i) % step = 0 /\ Rank(ids, i) \div step < SampleSize}
    BY <1>4, <2>1 DEF Sampled
  <2> HIDE DEF step, n
  <2>4. SampleSize * step <= n /\ step > 0
    <3>1. SampleSize * step <= n
      BY <2>1, <2>2
    <3>2. CASE step = 0
      <4>1. SampleSize * step = 0
        BY <2>1, <3>2
      <4> QED BY <1>4, <2>1, <2>2, <4>1 DEF n
    <3> QED BY <2>2, <3>1, <3>2
  <2> HIDE DEF T
  <2>5. \A i \in T : Rank(ids, i) \in Nat /\ Rank(ids, i) = step * G[i] /\ G[i] \in 0 .. SampleSize - 1
    <3> TAKE i \in T
    <3>1. Rank(ids, i) \in Nat /\ Rank(ids, i) % step = 0 /\ Rank(ids, i) \div step < SampleSize
      BY <2>3, RankOrder
    <3>2. /\ Rank(ids, i) \div step \in Nat
          /\ Rank(ids, i) % step = Rank(ids, i) - step * (Rank(ids, i) \div step)
      BY <2>2, <2>4, <3>1, Division
    <3>3. step * (Rank(ids, i) \div step) \in Nat
      BY <2>2, <3>2
    <3>4. Rank(ids, i) = step * (Rank(ids, i) \div step)
      BY <3>1, <3>2, <3>3
    <3> QED BY <2>1, <3>1, <3>2, <3>4
  <2>6. G \in [T -> 0 .. SampleSize - 1]
    BY <2>5
  <2>7. \A i, j \in T : G[i] = G[j] => i = j
    <3> SUFFICES ASSUME NEW i \in T, NEW j \in T, G[i] = G[j] PROVE i = j
      OBVIOUS
    <3>1. Rank(ids, i) = Rank(ids, j)
      BY <2>5
    <3>2. i \in ids /\ j \in ids /\ i \in Nat /\ j \in Nat
      BY <2>3
    <3> QED BY <2>5, <3>1, <3>2, RankOrder
  <2>8. \A r \in 0 .. SampleSize - 1 : \E i \in T : G[i] = r
    <3> TAKE r \in 0 .. SampleSize - 1
    <3>1. step * r \in Nat /\ (step * r) % step = 0 /\ (step * r) \div step = r
      BY <2>1, <2>2, <2>4, Multiples
    <3>2. step * r < n
      <4>1. PICK d \in Nat : SampleSize = r + 1 + d
        BY <2>1
      <4>2. SampleSize * step = step * r + step + d * step /\ d * step \in Nat
        BY <2>2, <4>1
      <4> QED BY <2>1, <2>2, <2>4, <3>1, <4>2
    <3>3. PICK i \in ids : Rank(ids, i) = step * r
      BY <3>1, <3>2, RankOnto DEF n
    <3>4. i \in T
      BY <2>1, <2>3, <3>1, <3>3
    <3> QED BY <3>1, <3>3, <3>4
  <2>9. G \in Bijection(T, 0 .. SampleSize - 1)
    <3> HIDE DEF G
    <3> QED BY <2>6, <2>7, <2>8, Fun_IsBij
  <2>10. ExistsBijection(T, 0 .. SampleSize - 1)
    <3> HIDE DEF G
    <3> QED BY <2>9, Fun_ExistsBij
  <2>11. Cardinality(0 .. SampleSize - 1) = Cardinality(T)
    BY <1>2, <2>10, FS_Bijection DEF T
  <2>12. Cardinality(0 .. SampleSize - 1) =
           IF 0 > SampleSize - 1 THEN 0 ELSE (SampleSize - 1) - 0 + 1
    <3>1. 0 \in Int /\ SampleSize - 1 \in Int
      BY <2>1
    <3> QED BY <3>1, FS_Interval, Zenon
  <2> QED BY <2>1, <2>11, <2>12 DEF T
<1> QED BY <1>1, <1>2, <1>3, <1>4

-----------------------------------------------------------------------------
(***************************************************************************)
(* The gates.                                                              *)
(***************************************************************************)
\* A cross-check's counts are numbers.
LEMMA CrossCheckedTyped ==
  ASSUME NEW would \in SUBSET Nat, NEW skipped \in SUBSET Nat, NEW wanted, NEW told, NEW below,
         IsFiniteSet(would), IsFiniteSet(skipped)
  PROVE  CrossChecked(would, skipped, wanted, told, below) \in CrossChecks
<1>1. IsFiniteSet(Sampled(would)) /\ IsFiniteSet(Sampled(skipped))
  BY SampleSized
<1>2. IsFiniteSet(Sampled(would) \cup Sampled(skipped))
  BY <1>1, FS_Union
<1>3. \A S, T : IsFiniteSet(S) => Cardinality(S \cap T) \in Nat /\ Cardinality(S \ T) \in Nat
  BY FS_Intersection, FS_Difference, FS_CardinalityType
<1> DEFINE sampled  == Sampled(would) \cup Sampled(skipped)
           verified == sampled \cap told
           status   == IF \E i \in verified : (i \in wanted) # (i \in below) THEN "failed"
                       ELSE IF sampled # {} /\ verified = {} THEN "inconclusive"
                       ELSE "passed"
<1>4. status \in {"passed", "failed", "inconclusive"}
  OBVIOUS
<1>5. /\ Cardinality(verified) \in Nat /\ Cardinality(sampled \ told) \in Nat
      /\ Cardinality(Sampled(would) \cap told) \in Nat
      /\ Cardinality(Sampled(would) \ told) \in Nat
  BY <1>1, <1>2, <1>3
<1>6. CrossChecked(would, skipped, wanted, told, below) =
        [status |-> status, verified |-> Cardinality(verified),
         unverifiable |-> Cardinality(sampled \ told),
         writeVerified |-> Cardinality(Sampled(would) \cap told),
         writeUnverifiable |-> Cardinality(Sampled(would) \ told)]
  BY DEF CrossChecked
<1> HIDE DEF status, verified, sampled
<1> QED BY <1>4, <1>5, <1>6 DEF CrossChecks

\* The write gate opens on something to write only if the list and the library
\* agree on a candidate, and on every candidate that has a verdict unless the
\* sample had no room for all.
THEOREM OpenOnEvidence ==
  ASSUME NEW would \in SUBSET Nat, NEW skipped, NEW wanted, NEW told, NEW below,
         IsFiniteSet(would), NEW pending \in Nat, pending > 0,
         MayUnmonitor(CrossChecked(would, skipped, wanted, told, below), pending)
  PROVE  /\ \E i \in would \cap told : (i \in wanted) = (i \in below)
         /\ \/ Cardinality(would) > SampleSize
            \/ \A i \in would \cap told : (i \in wanted) = (i \in below)
<1> DEFINE cc == CrossChecked(would, skipped, wanted, told, below)
<1>1. cc.status = "passed" /\ cc.writeVerified > 0
  BY DEF MayUnmonitor
<1>2. cc.writeVerified = Cardinality(Sampled(would) \cap told)
  BY DEF CrossChecked
<1>3. \A i \in Sampled(would) \cap told : (i \in wanted) = (i \in below)
  <2>1. ~\E i \in (Sampled(would) \cup Sampled(skipped)) \cap told :
           (i \in wanted) # (i \in below)
    BY <1>1 DEF CrossChecked
  <2> QED BY <2>1
<1>4. Sampled(would) \cap told # {}
  BY <1>1, <1>2, FS_EmptySet
<1>5. Sampled(would) \subseteq would
  BY SampleSized
<1>6. Cardinality(would) <= SampleSize => Sampled(would) = would
  BY SampleSized
<1>7. Cardinality(would) \in Nat /\ SampleSize \in Nat
  BY FS_CardinalityType
<1>8. \E i \in would \cap told : (i \in wanted) = (i \in below)
  BY <1>3, <1>4, <1>5
<1>9. Cardinality(would) > SampleSize \/ \A i \in would \cap told : (i \in wanted) = (i \in below)
  <2>1. CASE Cardinality(would) > SampleSize
    BY <2>1
  <2>2. CASE Sampled(would) = would
    BY <1>3, <2>2
  <2> QED BY <1>6, <1>7, <2>1, <2>2
<1> QED BY <1>8, <1>9

\* The candidates' part of the counts adds up to the sample's size when the
\* candidates outnumber it.
LEMMA SampleFull ==
  ASSUME NEW would \in SUBSET Nat, NEW skipped, NEW wanted, NEW told, NEW below,
         IsFiniteSet(would), Cardinality(would) > SampleSize
  PROVE  LET cc == CrossChecked(would, skipped, wanted, told, below)
         IN  cc.writeVerified + cc.writeUnverifiable = SampleSize
<1>1. IsFiniteSet(Sampled(would)) /\ Cardinality(Sampled(would)) = SampleSize
  BY SampleSized
<1>2. /\ Cardinality(Sampled(would) \ told) = SampleSize - Cardinality(Sampled(would) \cap told)
      /\ IsFiniteSet(Sampled(would) \cap told)
  BY <1>1, FS_Difference, FS_Intersection
<1>3. Cardinality(Sampled(would) \cap told) \in Nat
  BY <1>2, FS_CardinalityType
<1> QED BY <1>2, <1>3 DEF CrossChecked

\* The gates are ordered: what opens the reverse gate opens the recovery gate, and
\* nothing opens when the list and the library disagree.
THEOREM GatesOrdered ==
  ASSUME NEW cc \in CrossChecks, NEW pending \in Nat
  PROVE  /\ MayRemonitor(cc) => MayRecover(cc)
         /\ MayUnmonitor(cc, pending) => MayRecover(cc)
         /\ cc.status = "failed" => ~MayRecover(cc)
BY DEF MayRemonitor, MayRecover, MayUnmonitor
=============================================================================
