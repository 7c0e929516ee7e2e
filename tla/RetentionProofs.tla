--------------------------- MODULE RetentionProofs ---------------------------
(***************************************************************************)
(* Proofs about the retention rule, for scanned lists of any length and    *)
(* any setting of the options.                                             *)
(***************************************************************************)
EXTENDS RetentionScan, FiniteSetTheorems, TLAPS

-----------------------------------------------------------------------------
(***************************************************************************)
(* The order of the sorted list.                                           *)
(***************************************************************************)

\* Before is a strict total order on the positions of a list.
LEMMA BeforeOrder ==
  ASSUME NEW s \in Seq(TagData)
  PROVE  /\ \A i \in DOMAIN s : ~Before(s, i, i)
         /\ \A i, j, k \in DOMAIN s : Before(s, i, j) /\ Before(s, j, k) => Before(s, i, k)
         /\ \A i, j \in DOMAIN s : i # j => Before(s, i, j) \/ Before(s, j, i)
<1>1. /\ DOMAIN s \subseteq Int
      /\ \A i \in DOMAIN s : /\ s[i] \in TagData
                             /\ s[i].name \in Int
                             /\ s[i].created \in Int
  <2>1. DOMAIN s \subseteq Int /\ \A i \in DOMAIN s : s[i] \in TagData
    OBVIOUS
  <2>2. \A a \in TagData : a.name \in Int /\ a.created \in Int
    BY DEF TagData
  <2>. QED
    BY <2>1, <2>2
<1>2. \A a, b \in TagData : a.name = b.name /\ a.created = b.created => a = b
  BY DEF TagData
<1>3. \A i \in DOMAIN s : ~Before(s, i, i)
  BY <1>1 DEF Before, Less
<1>4. \A i, j, k \in DOMAIN s : Before(s, i, j) /\ Before(s, j, k) => Before(s, i, k)
  BY <1>1 DEF Before, Less
<1>5. \A i, j \in DOMAIN s : i # j => Before(s, i, j) \/ Before(s, j, i)
  BY <1>1, <1>2 DEF Before, Less
<1>. QED
  BY <1>3, <1>4, <1>5

\* A set of natural numbers that is not empty has a least element.
LEMMA NatMin ==
  ASSUME NEW S \in SUBSET Nat, S # {}
  PROVE  \E n \in S : \A m \in S : n <= m
<1>1. PICK n \in S : \A m \in S : ~(<<m, n>> \in OpToRel(<, Nat))
  BY NatLessThanWellFounded, WFMin
<1>2. \A m \in S : ~(m < n)
  BY <1>1 DEF OpToRel
<1>. QED
  BY <1>2

-----------------------------------------------------------------------------
(***************************************************************************)
(* The sets the filter works with are finite.                              *)
(***************************************************************************)
\* They are sets of positions of the list.
LEMMA FilterFinite ==
  ASSUME NEW s \in Seq(TagData), NEW now, NEW ff
  PROVE  /\ IsFiniteSet(DOMAIN s)
         /\ \A T : T \subseteq DOMAIN s => IsFiniteSet(T) /\ Cardinality(T) \in Nat
         /\ Aged(s, now, ff) \subseteq DOMAIN s
         /\ Fresh(s, now, ff) \subseteq DOMAIN s
         /\ PurgeSet(s, now, ff) \subseteq Aged(s, now, ff)
         /\ \A i : NewerAged(s, now, ff, i) \subseteq Aged(s, now, ff)
<1>1. IsFiniteSet(DOMAIN s)
  BY FS_Interval
<1>2. \A T : T \subseteq DOMAIN s => IsFiniteSet(T) /\ Cardinality(T) \in Nat
  BY <1>1, FS_Subset, FS_CardinalityType
<1>. QED
  BY <1>1, <1>2 DEF Aged, Fresh, PurgeSet, NewerAged

\* takeFromPurge is never negative and never more than there is to purge or
\* than is missing to keep_count; it is all there is, or it makes up what is
\* missing.
LEMMA TakeBounds ==
  ASSUME NEW s \in Seq(TagData), NEW now, NEW ff
  PROVE  /\ TakeFromPurge(s, now, ff) \in Nat
         /\ \/ TakeFromPurge(s, now, ff) = Cardinality(Aged(s, now, ff))
            \/ Cardinality(Fresh(s, now, ff)) + TakeFromPurge(s, now, ff) >= KeepCount
         /\ \/ TakeFromPurge(s, now, ff) = 0
            \/ Cardinality(Fresh(s, now, ff)) + TakeFromPurge(s, now, ff) <= KeepCount
<1>1. Cardinality(Aged(s, now, ff)) \in Nat /\ Cardinality(Fresh(s, now, ff)) \in Nat
  BY FilterFinite
<1>. QED
  BY <1>1, KeepAssumption DEF TakeFromPurge

\* The number of positions of a set that come before one of its positions
\* grows along the order.
LEMMA RankGrows ==
  ASSUME NEW s \in Seq(TagData), NEW T \in SUBSET DOMAIN s,
         NEW i \in T, NEW j \in T, Before(s, j, i)
  PROVE  Cardinality({k \in T : Before(s, k, j)}) < Cardinality({k \in T : Before(s, k, i)})
<1>. DEFINE Ni == {k \in T : Before(s, k, i)}
            Nj == {k \in T : Before(s, k, j)}
<1>1. Nj \subseteq Ni
  BY BeforeOrder
<1>2. j \in Ni /\ j \notin Nj
  BY BeforeOrder
<1>3. /\ IsFiniteSet(Ni) /\ IsFiniteSet(Nj)
      /\ Cardinality(Ni) \in Nat /\ Cardinality(Nj) \in Nat
  <2>1. Ni \subseteq DOMAIN s /\ Nj \subseteq DOMAIN s
    OBVIOUS
  <2>. QED
    BY <2>1, FilterFinite
<1>. HIDE DEF Ni, Nj
<1>4. Cardinality(Nj) <= Cardinality(Ni) /\ (Cardinality(Ni) = Cardinality(Nj) => Ni = Nj)
  BY <1>1, <1>3, FS_Subset
<1>5. Cardinality(Nj) < Cardinality(Ni)
  BY <1>2, <1>3, <1>4
<1>. QED
  BY <1>5 DEF Ni, Nj

\* A newer expired tag has fewer newer expired ones.
LEMMA RankMonotone ==
  ASSUME NEW s \in Seq(TagData), NEW now, NEW ff,
         NEW i \in Aged(s, now, ff), NEW j \in Aged(s, now, ff), Before(s, j, i)
  PROVE  Cardinality(NewerAged(s, now, ff, j)) < Cardinality(NewerAged(s, now, ff, i))
<1>1. Aged(s, now, ff) \in SUBSET DOMAIN s
  BY FilterFinite
<1>. QED
  BY <1>1, RankGrows DEF NewerAged

\* An expired tag has fewer newer expired ones than there are expired tags.
LEMMA RankBelowAged ==
  ASSUME NEW s \in Seq(TagData), NEW now, NEW ff, NEW i \in Aged(s, now, ff)
  PROVE  Cardinality(NewerAged(s, now, ff, i)) < Cardinality(Aged(s, now, ff))
<1>. DEFINE A == Aged(s, now, ff)
            N == NewerAged(s, now, ff, i)
<1>1. N \subseteq A /\ A \subseteq DOMAIN s /\ N \subseteq DOMAIN s
  BY FilterFinite
<1>2. /\ IsFiniteSet(A) /\ Cardinality(A) \in Nat /\ Cardinality(N) \in Nat
  BY <1>1, FilterFinite
<1>3. i \in A /\ i \notin N
  BY <1>1, BeforeOrder DEF NewerAged
<1>4. /\ Cardinality(N) <= Cardinality(A)
      /\ Cardinality(A) = Cardinality(N) => A = N
  BY <1>1, <1>2, FS_Subset
<1>. QED
  BY <1>2, <1>3, <1>4

\* The expired tags with fewer than n newer expired ones have distinct ranks
\* below n, so there are at most n of them.
LEMMA FewTopRanks ==
  ASSUME NEW s \in Seq(TagData), NEW now, NEW ff, NEW n \in Nat
  PROVE  Cardinality({i \in Aged(s, now, ff) :
                        Cardinality(NewerAged(s, now, ff, i)) < n}) <= n
<1>. DEFINE A == Aged(s, now, ff)
            Rank(i) == Cardinality(NewerAged(s, now, ff, i))
            T == {i \in A : Rank(i) < n}
            f == [i \in T |-> Rank(i)]
<1>1. A \subseteq DOMAIN s /\ \A i : Rank(i) \in Nat
  <2>1. \A i : NewerAged(s, now, ff, i) \subseteq DOMAIN s
    BY FilterFinite
  <2>. QED
    BY <2>1, FilterFinite
<1>2. \A i, j \in A : Rank(i) = Rank(j) => i = j
  <2>1. SUFFICES ASSUME NEW i \in A, NEW j \in A, i # j PROVE Rank(i) # Rank(j)
    OBVIOUS
  <2>2. Before(s, i, j) \/ Before(s, j, i)
    BY <1>1, <2>1, BeforeOrder
  <2>3. CASE Before(s, i, j)
    BY <1>1, <2>3, RankMonotone
  <2>4. CASE Before(s, j, i)
    BY <1>1, <2>4, RankMonotone
  <2>. QED
    BY <2>2, <2>3, <2>4
<1>. HIDE DEF A, Rank
<1>3. f \in Injection(T, 0 .. n - 1)
  BY <1>1, <1>2 DEF Injection, IsInjective
<1>4. IsFiniteSet(0 .. n - 1) /\ Cardinality(0 .. n - 1) = n
  <2>1. 0 \in Int /\ n - 1 \in Int /\ (IF 0 > n - 1 THEN 0 ELSE n - 1 - 0 + 1) = n
    OBVIOUS
  <2>. HIDE DEF T, f
  <2>. QED
    BY <2>1, FS_Interval
<1>. HIDE DEF f
<1>5. Cardinality(T) <= Cardinality(0 .. n - 1)
  BY <1>3, <1>4, FS_Injection
<1>. QED
  BY <1>4, <1>5 DEF T, A, Rank

\* A set of positions that is not empty has one that comes before all others.
LEMMA FirstPosition ==
  ASSUME NEW s \in Seq(TagData), NEW T \in SUBSET DOMAIN s, T # {}
  PROVE  \E i \in T : \A j \in T : j # i => Before(s, i, j)
<1>. DEFINE Rank(i) == Cardinality({k \in T : Before(s, k, i)})
            C == {Rank(i) : i \in T}
<1>1. \A i \in T : Rank(i) \in Nat
  <2>1. \A i \in T : {k \in T : Before(s, k, i)} \subseteq DOMAIN s
    OBVIOUS
  <2>. QED
    BY <2>1, FilterFinite
<1>2. \A i, j \in T : Before(s, j, i) => Rank(j) < Rank(i)
  BY RankGrows
<1>. HIDE DEF Rank
<1>3. C \in SUBSET Nat /\ C # {}
  BY <1>1
<1>. HIDE DEF C
<1>4. PICK n \in C : \A m \in C : n <= m
  BY <1>3, NatMin
<1>5. PICK i \in T : \A j \in T : Rank(i) <= Rank(j)
  BY <1>4 DEF C
<1>6. ASSUME NEW j \in T, j # i PROVE Before(s, i, j)
  <2>1. ~Before(s, j, i)
    BY <1>1, <1>2, <1>5
  <2>. QED
    BY <1>6, <2>1, BeforeOrder
<1>. QED
  BY <1>6

-----------------------------------------------------------------------------
\* No tag that keep_regexp or the keep file protects, and none that is within
\* keep_days, is ever on the purge list (the filter loop of RunPurgeOldTags).
THEOREM PurgesOnlyExpired ==
  ASSUME NEW s \in Seq(TagData), NEW now, NEW ff, NEW i \in PurgeSet(s, now, ff)
  PROVE  /\ i \in DOMAIN s
         /\ DaysOld(now, s[i].created) > KeepDays
         /\ s[i].name \notin KeepRegexpTags \cup ff
BY DEF PurgeSet, Aged, Expired

\* The filter purges nothing or leaves at least keep_count tags, whatever the
\* list: the arithmetic of takeFromPurge and the slice it takes off the head of
\* the sorted purge list fit together.
THEOREM FilterKeepsEnough ==
  ASSUME NEW s \in Seq(TagData), NEW now, NEW ff
  PROVE  KeepsEnough(s, now, ff)
<1>. DEFINE A == Aged(s, now, ff)
            F == Fresh(s, now, ff)
            P == PurgeSet(s, now, ff)
            K == KeepSet(s, now, ff)
            N(i) == NewerAged(s, now, ff, i)
            take == TakeFromPurge(s, now, ff)
<1>1. SUFFICES ASSUME P # {} PROVE Cardinality(K) >= KeepCount
  BY DEF KeepsEnough
<1>2. /\ A \subseteq DOMAIN s /\ F \subseteq DOMAIN s /\ P \subseteq A
      /\ \A i : N(i) \subseteq A
      /\ \A T : T \subseteq DOMAIN s => IsFiniteSet(T) /\ Cardinality(T) \in Nat
  BY FilterFinite
<1>3. PICK i \in P : \A j \in P : Cardinality(N(i)) <= Cardinality(N(j))
  <2>. DEFINE C == {Cardinality(N(j)) : j \in P}
  <2>1. C \in SUBSET Nat /\ C # {}
    BY <1>1, <1>2
  <2>. HIDE DEF C
  <2>2. PICK n \in C : \A m \in C : n <= m
    BY <2>1, NatMin
  <2>. QED
    BY <2>2 DEF C
<1>4. N(i) \cap P = {}
  <2>1. SUFFICES ASSUME NEW j \in N(i), j \in P PROVE FALSE
    OBVIOUS
  <2>2. Before(s, j, i) /\ i \in A /\ j \in A
    BY <1>2, <2>1 DEF NewerAged
  <2>3. Cardinality(N(j)) < Cardinality(N(i))
    BY <2>2, RankMonotone
  <2>4. Cardinality(N(j)) \in Nat /\ Cardinality(N(i)) \in Nat
    BY <1>2
  <2>. QED
    BY <1>3, <2>1, <2>3, <2>4
<1>5. Cardinality(N(i)) >= take
  BY <1>3 DEF PurgeSet
<1>6. i \in A
  BY <1>2, <1>3
<1>7. /\ Cardinality(N(i)) \in Nat /\ Cardinality(F) \in Nat
      /\ Cardinality(A) \in Nat /\ Cardinality(K) \in Nat
      /\ IsFiniteSet(N(i)) /\ IsFiniteSet(F) /\ IsFiniteSet(A) /\ IsFiniteSet(K)
  <2>1. N(i) \subseteq DOMAIN s /\ K \subseteq DOMAIN s
    BY <1>2 DEF KeepSet
  <2>. QED
    BY <1>2, <2>1
<1>8. Cardinality(N(i)) < Cardinality(A)
  BY <1>6, RankBelowAged
<1>9. Cardinality(F) + take >= KeepCount /\ take \in Nat
  BY <1>5, <1>7, <1>8, TakeBounds
<1>10. F \cup N(i) \subseteq K /\ F \cap N(i) = {}
  <2>1. F = DOMAIN s \ A /\ K = DOMAIN s \ P
    BY DEF KeepSet, Fresh
  <2>2. N(i) \subseteq A
    BY <1>2
  <2>. HIDE DEF A, F, P, K, N
  <2>. QED
    BY <1>2, <1>4, <2>1, <2>2
<1>11. Cardinality(F \cup N(i)) = Cardinality(F) + Cardinality(N(i))
  <2>1. Cardinality(F \cup N(i)) = Cardinality(F) + Cardinality(N(i)) - Cardinality(F \cap N(i))
    BY <1>7, FS_Union
  <2>2. Cardinality(F \cap N(i)) = 0
    BY <1>10, FS_EmptySet
  <2>. QED
    BY <1>7, <2>1, <2>2
<1>12. Cardinality(F \cup N(i)) <= Cardinality(K)
  BY <1>7, <1>10, FS_Subset
<1>. QED
  BY <1>5, <1>7, <1>9, <1>11, <1>12, KeepAssumption

\* Expired tags are kept only up to keep_count: no more of them than
\* takeFromPurge.
THEOREM FilterKeepsNoMore ==
  ASSUME NEW s \in Seq(TagData), NEW now, NEW ff
  PROVE  KeepsNoMoreThanNeeded(s, now, ff)
<1>. DEFINE A == Aged(s, now, ff)
            F == Fresh(s, now, ff)
            K == KeepSet(s, now, ff)
            Rank(i) == Cardinality(NewerAged(s, now, ff, i))
            take == TakeFromPurge(s, now, ff)
            T == {i \in A : Rank(i) < take}
<1>1. /\ A \subseteq DOMAIN s /\ F \subseteq DOMAIN s
      /\ \A i : Rank(i) \in Nat
      /\ \A S : S \subseteq DOMAIN s => IsFiniteSet(S) /\ Cardinality(S) \in Nat
  <2>1. \A i : NewerAged(s, now, ff, i) \subseteq DOMAIN s
    BY FilterFinite
  <2>. QED
    BY <2>1, FilterFinite
<1>2. take \in Nat
  BY TakeBounds
<1>3. Cardinality(T) <= take
  BY <1>2, FewTopRanks
<1>4. K = F \cup T /\ F \cap T = {}
  BY <1>1, <1>2 DEF KeepSet, Fresh, PurgeSet
<1>. HIDE DEF A, F, K, Rank, take
<1>5. /\ IsFiniteSet(F) /\ Cardinality(F) \in Nat
      /\ IsFiniteSet(T) /\ Cardinality(T) \in Nat
  BY <1>1
<1>6. Cardinality(K) <= Cardinality(F) + take
  <2>1. Cardinality(F \cup T) = Cardinality(F) + Cardinality(T) - Cardinality(F \cap T)
    BY <1>5, FS_Union
  <2>2. Cardinality(F \cap T) = 0
    BY <1>4, FS_EmptySet
  <2>. HIDE DEF T
  <2>. QED
    BY <1>2, <1>3, <1>4, <1>5, <2>1, <2>2
<1>7. take = 0 \/ Cardinality(F) + take <= KeepCount
  BY TakeBounds DEF F, take
<1>8. CASE take = 0
  <2>1. T = {}
    BY <1>1, <1>8
  <2>. QED
    BY <1>4, <2>1 DEF KeepsNoMoreThanNeeded, K, F
<1>9. CASE Cardinality(F) + take <= KeepCount
  <2>1. Cardinality(K) \in Nat
    BY <1>1, <1>4
  <2>2. Cardinality(K) <= KeepCount
    BY <1>2, <1>5, <1>6, <1>9, <2>1, KeepAssumption
  <2>. QED
    BY <2>2 DEF KeepsNoMoreThanNeeded, K
<1>. QED
  BY <1>7, <1>8, <1>9

\* The expired tags that are kept to reach keep_count are newer than all that
\* are purged.
THEOREM FilterKeepsNewest ==
  ASSUME NEW s \in Seq(TagData), NEW now, NEW ff
  PROVE  KeepsNewest(s, now, ff)
<1>1. SUFFICES ASSUME NEW i \in PurgeSet(s, now, ff), NEW j \in Aged(s, now, ff),
                      j \notin PurgeSet(s, now, ff), ~Before(s, j, i)
               PROVE  FALSE
  BY DEF KeepsNewest
<1>2. /\ i \in Aged(s, now, ff) /\ i \in DOMAIN s /\ j \in DOMAIN s
      /\ Cardinality(NewerAged(s, now, ff, i)) \in Nat
      /\ Cardinality(NewerAged(s, now, ff, j)) \in Nat
  <2>1. NewerAged(s, now, ff, i) \subseteq DOMAIN s /\ NewerAged(s, now, ff, j) \subseteq DOMAIN s
    BY FilterFinite
  <2>. QED
    BY <2>1, FilterFinite
<1>3. Before(s, i, j)
  BY <1>1, <1>2, BeforeOrder
<1>4. Cardinality(NewerAged(s, now, ff, i)) < Cardinality(NewerAged(s, now, ff, j))
  BY <1>2, <1>3, RankMonotone
<1>5. /\ Cardinality(NewerAged(s, now, ff, i)) >= TakeFromPurge(s, now, ff)
      /\ ~(Cardinality(NewerAged(s, now, ff, j)) >= TakeFromPurge(s, now, ff))
  BY <1>1 DEF PurgeSet
<1>. QED
  BY <1>2, <1>4, <1>5, TakeBounds

\* A run over exactly the tags that another run at the same hour kept, listed
\* in any order, purges none of them: the tags that are not expired are no more
\* than they were, the expired ones are no more than the first run took back,
\* so the second takes all of them back again.
THEOREM FilterIsStable ==
  ASSUME NEW s \in Seq(TagData), NEW now, NEW ff,
         NEW f \in Bijection(1 .. Cardinality(KeepSet(s, now, ff)), KeepSet(s, now, ff))
  PROVE  PurgeSet([k \in 1 .. Cardinality(KeepSet(s, now, ff)) |-> s[f[k]]], now, ff) = {}
<1>. DEFINE K == KeepSet(s, now, ff)
            n == Cardinality(K)
            s2 == [k \in 1 .. n |-> s[f[k]]]
            A == Aged(s, now, ff)
            F == Fresh(s, now, ff)
            A2 == Aged(s2, now, ff)
            F2 == Fresh(s2, now, ff)
            Rank(i) == Cardinality(NewerAged(s, now, ff, i))
            take == TakeFromPurge(s, now, ff)
            take2 == TakeFromPurge(s2, now, ff)
            T == {i \in A : Rank(i) < take}
<1>1. /\ A \subseteq DOMAIN s /\ F \subseteq DOMAIN s /\ K \subseteq DOMAIN s
      /\ \A i : Rank(i) \in Nat
      /\ \A S : S \subseteq DOMAIN s => IsFiniteSet(S) /\ Cardinality(S) \in Nat
  <2>1. \A i : NewerAged(s, now, ff, i) \subseteq DOMAIN s
    BY FilterFinite
  <2>2. K \subseteq DOMAIN s
    BY DEF KeepSet
  <2>. QED
    BY <2>1, <2>2, FilterFinite
<1>2. take \in Nat /\ (take = 0 \/ Cardinality(F) + take <= KeepCount)
  BY TakeBounds
<1>3. K = F \cup T
  BY <1>1, <1>2 DEF KeepSet, Fresh, PurgeSet
<1>4. Cardinality(T) <= take
  BY <1>2, FewTopRanks
<1>5. n \in Nat
  BY <1>1
<1>6. /\ f \in [1 .. n -> K]
      /\ \A i, j \in 1 .. n : f[i] = f[j] => i = j
  BY DEF Bijection, Injection, IsInjective
<1>. HIDE DEF K, n
<1>7. s2 \in Seq(TagData) /\ DOMAIN s2 = 1 .. n /\ \A k \in 1 .. n : s2[k] = s[f[k]]
  BY <1>1, <1>5, <1>6
<1>. HIDE DEF s2
<1>8. /\ A2 \subseteq DOMAIN s2 /\ F2 \subseteq DOMAIN s2
      /\ Cardinality(A2) \in Nat /\ Cardinality(F2) \in Nat
  BY <1>7, FilterFinite
<1>9. /\ \A k \in A2 : k \in 1 .. n /\ f[k] \in T
      /\ \A k \in F2 : k \in 1 .. n /\ f[k] \in F
  <2>1. \A k \in 1 .. n : k \in A2 <=> f[k] \in A
    BY <1>1, <1>6, <1>7 DEF Aged
  <2>2. \A k \in 1 .. n : f[k] \in F \cup T
    BY <1>3, <1>6
  <2>3. F \cap A = {} /\ T \subseteq A /\ F2 \cap A2 = {}
    BY DEF Fresh
  <2>. HIDE DEF A, F, T, A2, F2
  <2>. QED
    BY <1>7, <1>8, <2>1, <2>2, <2>3
<1>10. Cardinality(A2) <= Cardinality(T) /\ IsFiniteSet(T) /\ Cardinality(T) \in Nat
  <2>. DEFINE g == [k \in A2 |-> f[k]]
  <2>1. IsFiniteSet(T) /\ Cardinality(T) \in Nat
    BY <1>1
  <2>. HIDE DEF A2, T
  <2>2. g \in Injection(A2, T)
    BY <1>6, <1>9 DEF Injection, IsInjective
  <2>. HIDE DEF g
  <2>. QED
    BY <2>1, <2>2, FS_Injection
<1>11. Cardinality(F2) <= Cardinality(F) /\ Cardinality(F) \in Nat
  <2>. DEFINE g == [k \in F2 |-> f[k]]
  <2>1. IsFiniteSet(F) /\ Cardinality(F) \in Nat
    BY <1>1
  <2>. HIDE DEF F2, F
  <2>2. g \in Injection(F2, F)
    BY <1>6, <1>9 DEF Injection, IsInjective
  <2>. HIDE DEF g
  <2>. QED
    BY <2>1, <2>2, FS_Injection
<1>12. SUFFICES ASSUME NEW i \in PurgeSet(s2, now, ff) PROVE FALSE
  BY DEF s2, n, K
<1>13. i \in A2 /\ Cardinality(NewerAged(s2, now, ff, i)) >= take2
  BY DEF PurgeSet
<1>14. /\ Cardinality(NewerAged(s2, now, ff, i)) \in Nat
       /\ Cardinality(NewerAged(s2, now, ff, i)) < Cardinality(A2)
  <2>1. NewerAged(s2, now, ff, i) \subseteq DOMAIN s2
    BY <1>7, FilterFinite
  <2>. QED
    BY <1>7, <1>13, <2>1, FilterFinite, RankBelowAged
<1>15. /\ take2 \in Nat
       /\ take2 = Cardinality(A2) \/ Cardinality(F2) + take2 >= KeepCount
  BY <1>7, TakeBounds
<1>. HIDE DEF A2, F2, T, F, take, take2
<1>. QED
  BY <1>2, <1>4, <1>8, <1>10, <1>11, <1>13, <1>14, <1>15, KeepAssumption

-----------------------------------------------------------------------------
(***************************************************************************)
(* The rule on the list that the scan loop builds.                         *)
(***************************************************************************)
\* What is scanned is a list of dated tags.
ScanTypeOK == scanList \in Seq(TagData)

\* The scan loop only appends dated tags.
LEMMA ScanTyped == ScanSpec => []ScanTypeOK
<1>1. ScanInit => ScanTypeOK
  BY DEF ScanInit, ScanTypeOK
<1>2. ScanTypeOK /\ [ScanNext]_scanList => ScanTypeOK'
  <2>1. [name : Names, created : Hours] \subseteq TagData
    BY ScanAssumption DEF TagData
  <2>. QED
    BY <2>1 DEF ScanNext, AppendScanned, ScanTypeOK
<1>. QED
  BY <1>1, <1>2, PTL DEF ScanSpec

\* However many tags are scanned, with any names, dates and options: at least
\* keep_count of them are kept, and no expired one beyond that count.
THEOREM RetentionIsExact == ScanSpec => []KeepsExactly
<1>1. ScanTypeOK => KeepsExactly
  BY FilterKeepsEnough, FilterKeepsNoMore DEF KeepsExactly, ScanTypeOK
<1>. QED
  BY <1>1, ScanTyped, PTL

\* However many tags are scanned, the top-up to keep_count takes the newest of
\* the expired ones.
THEOREM RetentionKeepsNewest == ScanSpec => []TopUpIsNewest
<1>1. ScanTypeOK => TopUpIsNewest
  BY FilterKeepsNewest DEF TopUpIsNewest, ScanTypeOK
<1>. QED
  BY <1>1, ScanTyped, PTL

\* However many tags were scanned, a second run over what the first one kept
\* purges nothing.
THEOREM RetentionDoesNotErode == ScanSpec => []SecondRunPurgesNothing
<1>1. ScanTypeOK => SecondRunPurgesNothing
  BY FilterIsStable DEF SecondRunPurgesNothing, KeptLists, ScanTypeOK
<1>. QED
  BY <1>1, ScanTyped, PTL
=============================================================================
