----------------------------- MODULE Lists_proofs -----------------------------
(***************************************************************************)
(* Keep returns the elements at the kept positions and no others, in their  *)
(* order: the positions of a sublist are found by induction on Nat, taken   *)
(* as the least number principle.                                           *)
(***************************************************************************)
EXTENDS Lists, FiniteSetTheorems, WellFoundedInduction, TLAPS

Below == {ss \in Nat \X Nat : ss[1] < ss[2]}

LEMMA BelowIsWellFounded == IsWellFoundedOn(Below, Nat)
BY NatLessThanWellFounded DEF OpToRel, Below

(* A set of numbers that has a member has a least one.                      *)
LEMMA LeastNumber ==
    ASSUME NEW T, T \subseteq Nat, T # {}
    PROVE  \E m \in T : \A k \in T : m <= k
<1>1. \E x \in T : \A y \in T : ~(<<y, x>> \in Below)
  BY BelowIsWellFounded, WFMin
<1>2. \A k, m \in Nat : ~(<<k, m>> \in Below) => m <= k
  BY DEF Below
<1> QED
  BY <1>1, <1>2

(* The positions up to i are finitely many.                                 *)
LEMMA UpToFinite ==
    ASSUME NEW S, IsFiniteSet(S), NEW i
    PROVE  /\ IsFiniteSet(UpTo(S, i)) /\ Cardinality(UpTo(S, i)) \in Nat
           /\ Cardinality(UpTo(S, i)) <= Cardinality(S)
<1>1. UpTo(S, i) \subseteq S
  BY DEF UpTo
<1> QED
  BY <1>1, FS_Subset, FS_CardinalityType

LEMMA PositionsFinite ==
    ASSUME NEW n \in Nat, NEW S \in SUBSET (1..n)
    PROVE  /\ IsFiniteSet(S) /\ Cardinality(S) \in Nat
           /\ \A i \in S : i \in Nat /\ 1 <= i /\ i <= n
<1>1. IsFiniteSet(1..n)
  BY FS_Interval
<1>2. IsFiniteSet(S)
  BY <1>1, FS_Subset
<1> QED
  BY <1>2, FS_CardinalityType

(* Every rank is that of a position.                                        *)
LEMMA RankTaken ==
    ASSUME NEW n \in Nat, NEW S \in SUBSET (1..n), NEW k \in 1..Cardinality(S)
    PROVE  \E i \in S : Cardinality(UpTo(S, i)) = k
<1>1. /\ IsFiniteSet(S) /\ Cardinality(S) \in Nat
      /\ \A i \in S : i \in Nat /\ 1 <= i /\ i <= n
  BY PositionsFinite
<1> DEFINE C(i) == Cardinality(UpTo(S, i))
           T == {i \in Nat : C(i) >= k}
<1>2. \A i : C(i) \in Nat /\ IsFiniteSet(UpTo(S, i))
  BY <1>1, UpToFinite
<1>3. n \in T
  <2>1. UpTo(S, n) = S
    BY <1>1 DEF UpTo
  <2> QED
    BY <1>1, <2>1
<1>4. PICK m \in T : \A i \in T : m <= i
  BY <1>3, LeastNumber
<1>5. C(0) = 0
  <2>1. \A j \in S : ~(j <= 0)
    BY <1>1
  <2>2. UpTo(S, 0) = {}
    BY <2>1 DEF UpTo
  <2> QED
    BY <2>2, FS_EmptySet
<1>6. m \in Nat /\ m # 0 /\ m - 1 \in Nat /\ C(m) >= k
  <2>1. m \in Nat /\ C(m) >= k
    BY <1>4
  <2>2. m # 0
    BY <1>5, <2>1
  <2> QED
    BY <2>1, <2>2
<1>7. C(m - 1) < k
  <2>1. ~(C(m - 1) >= k)
    BY <1>4, <1>6
  <2> QED
    BY <1>2, <2>1
<1>8. m \in S
  <2> SUFFICES ASSUME m \notin S PROVE FALSE
    OBVIOUS
  <2>1. \A j \in S : j <= m <=> j <= m - 1
    BY <1>1, <1>6
  <2>2. UpTo(S, m) = UpTo(S, m - 1)
    BY <2>1 DEF UpTo
  <2> QED
    BY <1>2, <1>6, <1>7, <2>2
<1>9. C(m) = C(m - 1) + 1
  <2>1. ~(m <= m - 1) /\ \A j \in S : j <= m <=> (j <= m - 1 \/ j = m)
    BY <1>1, <1>6
  <2>2. UpTo(S, m) = UpTo(S, m - 1) \cup {m} /\ m \notin UpTo(S, m - 1)
    BY <1>8, <2>1 DEF UpTo
  <2> QED
    BY <1>2, <2>2, FS_AddElement
<1>10. C(m) = k
  BY <1>2, <1>6, <1>7, <1>9
<1> QED
  BY <1>8, <1>10

(* No two positions have one rank.                                          *)
LEMMA RankIsUnique ==
    ASSUME NEW n \in Nat, NEW S \in SUBSET (1..n), NEW i \in S, NEW j \in S,
           Cardinality(UpTo(S, i)) = Cardinality(UpTo(S, j))
    PROVE  i = j
<1>1. /\ IsFiniteSet(S) /\ Cardinality(S) \in Nat
      /\ \A x \in S : x \in Nat /\ 1 <= x /\ x <= n
  BY PositionsFinite
<1>2. ASSUME NEW a \in S, NEW b \in S, a < b
      PROVE  Cardinality(UpTo(S, a)) < Cardinality(UpTo(S, b))
  <2>1. b <= b /\ ~(b <= a) /\ \A x \in S : x <= a => x <= b
    BY <1>1, <1>2
  <2>2. UpTo(S, a) \cup {b} \subseteq UpTo(S, b) /\ b \notin UpTo(S, a)
    BY <2>1 DEF UpTo
  <2>3. Cardinality(UpTo(S, a) \cup {b}) = Cardinality(UpTo(S, a)) + 1
    BY <1>1, <2>2, UpToFinite, FS_AddElement
  <2>4. Cardinality(UpTo(S, a) \cup {b}) <= Cardinality(UpTo(S, b))
    BY <1>1, <2>2, UpToFinite, FS_Subset
  <2>5. Cardinality(UpTo(S, a)) \in Nat /\ Cardinality(UpTo(S, b)) \in Nat
    BY <1>1, UpToFinite
  <2> QED
    BY <2>3, <2>4, <2>5
<1>3. Cardinality(UpTo(S, i)) \in Nat
  BY <1>1, UpToFinite
<1>4. ~(i < j) /\ ~(j < i)
  BY <1>2, <1>3
<1> QED
  BY <1>4

-----------------------------------------------------------------------------
(* The positions of a list, and the sets of some of them.                   *)
LEMMA NthIsKept ==
    ASSUME NEW n \in Nat, NEW S \in SUBSET (1..n), NEW k \in 1..Cardinality(S)
    PROVE  NthOf(S, k) \in S /\ Cardinality(UpTo(S, NthOf(S, k))) = k
BY RankTaken DEF NthOf

(* Higher ranks belong to later positions.                                  *)
LEMMA NthIncreases ==
    ASSUME NEW n \in Nat, NEW S \in SUBSET (1..n), NEW k \in 1..Cardinality(S),
           NEW m \in 1..Cardinality(S), k < m
    PROVE  NthOf(S, k) < NthOf(S, m)
<1>1. /\ IsFiniteSet(S) /\ Cardinality(S) \in Nat
      /\ \A x \in S : x \in Nat /\ 1 <= x /\ x <= n
  BY PositionsFinite
<1>2. PICK a \in S : a = NthOf(S, k) /\ Cardinality(UpTo(S, a)) = k
  BY NthIsKept
<1>3. PICK b \in S : b = NthOf(S, m) /\ Cardinality(UpTo(S, b)) = m
  BY NthIsKept
<1>4. ASSUME b <= a PROVE FALSE
  <2>1. \A x \in S : x <= b => x <= a
    BY <1>1, <1>4
  <2>2. UpTo(S, b) \subseteq UpTo(S, a)
    BY <2>1 DEF UpTo
  <2>3. m <= k
    BY <1>1, <1>2, <1>3, <2>2, UpToFinite, FS_Subset
  <2> QED
    BY <1>1, <2>3
<1> QED
  BY <1>1, <1>2, <1>3, <1>4

(* A sublist has one element for each kept position, each from one of them. *)
LEMMA KeepElements ==
    ASSUME NEW A, NEW s \in Seq(A), NEW kept \in SUBSET (DOMAIN s)
    PROVE  /\ Keep(s, kept) \in Seq(A)
           /\ Len(Keep(s, kept)) = Cardinality(kept)
           /\ \A k \in DOMAIN Keep(s, kept) :
                \E i \in kept : Keep(s, kept)[k] = s[i]
           /\ \A i \in kept :
                \E k \in DOMAIN Keep(s, kept) : Keep(s, kept)[k] = s[i]
<1>1. Len(s) \in Nat /\ DOMAIN s = 1..Len(s)
  OBVIOUS
<1>2. kept \in SUBSET (1..Len(s))
  BY <1>1
<1>3. Cardinality(kept) \in Nat /\ IsFiniteSet(kept)
  BY <1>1, <1>2, PositionsFinite
<1>4. \A k \in 1..Cardinality(kept) :
        NthOf(kept, k) \in kept /\ Cardinality(UpTo(kept, NthOf(kept, k))) = k
  BY <1>1, <1>2, NthIsKept
<1>5. \A k \in 1..Cardinality(kept) : s[NthOf(kept, k)] \in A
  BY <1>1, <1>2, <1>4
<1>6. Keep(s, kept) \in Seq(A) /\ Len(Keep(s, kept)) = Cardinality(kept)
  BY <1>3, <1>5 DEF Keep
<1>7. ASSUME NEW k \in DOMAIN Keep(s, kept)
      PROVE  \E i \in kept : Keep(s, kept)[k] = s[i]
  BY <1>4, <1>7 DEF Keep
<1>8. ASSUME NEW i \in kept
      PROVE  \E k \in DOMAIN Keep(s, kept) : Keep(s, kept)[k] = s[i]
  <2> DEFINE k == Cardinality(UpTo(kept, i))
  <2>1. k \in 1..Cardinality(kept)
    <3>1. k \in Nat /\ k <= Cardinality(kept)
      BY <1>3, UpToFinite
    <3>2. UpTo(kept, i) # {}
      BY <1>2, <1>8 DEF UpTo
    <3>3. k # 0
      BY <1>3, <3>2, UpToFinite, FS_EmptySet
    <3> QED
      BY <1>3, <3>1, <3>3
  <2>2. NthOf(kept, k) = i
    <3>1. NthOf(kept, k) \in kept /\ Cardinality(UpTo(kept, NthOf(kept, k))) = k
      BY <1>4, <2>1
    <3> QED
      BY <1>1, <1>2, <1>8, <3>1, RankIsUnique
  <2> HIDE DEF k
  <2> QED
    BY <2>1, <2>2 DEF Keep
<1> QED
  BY <1>6, <1>7, <1>8
=============================================================================
