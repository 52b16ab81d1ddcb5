------------------------------- MODULE Order --------------------------------
(***************************************************************************)
(* Finite sets of times and row numbers in ascending order, as the         *)
(* server's queries list them (ORDER BY), and what holds of the least, the *)
(* greatest and the list.                                                  *)
(***************************************************************************)
EXTENDS Integers, Sequences, FiniteSets, FiniteSetsExt, FiniteSetTheorems,
        WellFoundedInduction, TLAPS

\* how many elements of S come before i
Before(S, i) == Cardinality({j \in S : j < i})

Ascending(S) == [n \in 1..Cardinality(S) |-> CHOOSE i \in S : Before(S, i) = n - 1]
-----------------------------------------------------------------------------
LEMMA LeastExists ==
  ASSUME NEW S \in SUBSET Nat, S # {}
  PROVE  Min(S) \in S /\ \A y \in S : Min(S) <= y
<1> DEFINE Upto == {0..x : x \in S}
           R == StrictSubsetOrdering(Nat)
<1>1. Upto \subseteq FiniteSubsetsOf(Nat) /\ Upto # {}
  <2>1. \A x \in Nat : IsFiniteSet(0..x) /\ 0..x \in SUBSET Nat
    BY FS_Interval
  <2> QED BY <2>1 DEF FiniteSubsetsOf
<1>2. PICK T \in Upto : \A U \in Upto : ~(<<U, T>> \in R)
  <2> HIDE DEF Upto, R
  <2>1. IsWellFoundedOn(R, FiniteSubsetsOf(Nat))
    BY FS_StrictSubsetOrderingWellFounded DEF R
  <2> QED BY <1>1, <2>1, WFMin, Zenon
<1>3. PICK x \in S : T = 0..x
  OBVIOUS
<1>4. ASSUME NEW y \in S, y < x PROVE FALSE
  <2>1. 0..y \in Upto /\ 0..y \subseteq 0..x /\ x \in 0..x /\ x \notin 0..y
    BY <1>4
  <2>2. 0..y \in SUBSET Nat /\ 0..x \in SUBSET Nat /\ 0..y # 0..x
    BY <2>1
  <2>3. <<0..y, 0..x>> \in R
    BY <2>1, <2>2, Zenon DEF StrictSubsetOrdering
  <2> QED BY <2>1, <2>3, <1>2, <1>3
<1>5. x \in S /\ \A y \in S : x <= y
  BY <1>4
<1> QED BY <1>5, Zenon DEF Min

LEMMA GreatestExists ==
  ASSUME NEW S \in SUBSET Nat, S # {}, NEW n \in Nat, \A y \in S : y <= n
  PROVE  Max(S) \in S /\ \A y \in S : Max(S) >= y
<1> DEFINE Below == {n - y : y \in S}
<1>1. Below \in SUBSET Nat /\ Below # {}
  <2>1. \A y \in S : y \in Nat /\ n - y \in Nat OBVIOUS
  <2> QED BY <2>1
<1>2. PICK b \in Below : \A c \in Below : b <= c
  BY <1>1, LeastExists
<1>3. PICK x \in S : b = n - x
  OBVIOUS
<1>4. ASSUME NEW y \in S PROVE x >= y
  <2>1. b <= n - y
    BY <1>2
  <2> QED BY <2>1, <1>3
<1>5. x \in S /\ \A y \in S : x >= y
  BY <1>4
<1> QED BY <1>5, Zenon DEF Max

\* An element comes after strictly fewer than any element above it.
LEMMA BeforeGrows ==
  ASSUME NEW S \in SUBSET Int, IsFiniteSet(S), NEW i \in S
  PROVE  /\ Before(S, i) \in 0..(Cardinality(S) - 1)
         /\ \A j \in S : i < j => Before(S, i) < Before(S, j)
<1> DEFINE B(x) == {y \in S : y < x}
<1>0. \A x \in S : x \in Int OBVIOUS
<1>1. Cardinality(S) \in Nat BY FS_CardinalityType
<1>2. \A x \in S : IsFiniteSet(B(x)) /\ Cardinality(B(x)) \in Nat
  BY FS_Subset, FS_CardinalityType
<1>3. ASSUME NEW T \in SUBSET S, B(i) \subseteq T, i \in T
      PROVE  Cardinality(B(i)) < Cardinality(T)
  <2>1. IsFiniteSet(T) /\ Cardinality(T) \in Nat BY FS_Subset, FS_CardinalityType
  <2>2. B(i) # T BY <1>0, <1>3
  <2> QED BY <1>2, <1>3, <2>1, <2>2, FS_Subset
<1>4. Cardinality(B(i)) < Cardinality(S) BY <1>3
<1>5. ASSUME NEW j \in S, i < j PROVE Cardinality(B(i)) < Cardinality(B(j))
  <2>1. \A y \in S : y < i => y < j BY <1>0, <1>5
  <2>2. B(i) \subseteq B(j) BY <2>1
  <2>3. i \in B(j) BY <1>5
  <2> QED BY <2>2, <2>3, <1>3
<1> QED BY <1>1, <1>2, <1>4, <1>5 DEF Before

\* The list has every element of the set, in order.
LEMMA AscendingOrder ==
  ASSUME NEW S \in SUBSET Int, IsFiniteSet(S)
  PROVE  /\ Cardinality(S) \in Nat
         /\ Ascending(S) \in [1..Cardinality(S) -> S]
         /\ \A m, n \in 1..Cardinality(S) : m < n => Ascending(S)[m] < Ascending(S)[n]
         /\ \A i \in S : \E n \in 1..Cardinality(S) : Ascending(S)[n] = i
<1> DEFINE c == Cardinality(S)
           rank == [i \in S |-> Before(S, i) + 1]
<1>0. \A x \in S : x \in Int OBVIOUS
<1>1. c \in Nat /\ IsFiniteSet(1..c) /\ Cardinality(1..c) = c
  BY FS_CardinalityType, FS_Interval
<1>2. \A i \in S : Before(S, i) + 1 \in 1..c
  BY <1>1, BeforeGrows
<1>3. \A i, j \in S : i < j => Before(S, i) < Before(S, j)
  BY BeforeGrows
<1>4. rank \in Injection(S, 1..c)
  <2>1. rank \in [S -> 1..c] BY <1>2
  <2>2. ASSUME NEW i \in S, NEW j \in S, rank[i] = rank[j] PROVE i = j
    <3>1. Before(S, i) \in Int /\ Before(S, j) \in Int BY <1>1, BeforeGrows
    <3>2. Before(S, i) = Before(S, j) BY <2>2, <3>1
    <3> QED BY <1>3, <3>1, <3>2
  <2> QED BY <2>1, <2>2, Zenon DEF Injection, IsInjective
<1>5. rank \in Surjection(S, 1..c)
  BY <1>1, <1>4, FS_Injection
<1>6. ASSUME NEW n \in 1..c
      PROVE  Ascending(S)[n] \in S /\ Before(S, Ascending(S)[n]) = n - 1
  <2>1. PICK i \in S : rank[i] = n BY <1>5, Zenon DEF Surjection
  <2>2. i \in S /\ Before(S, i) = n - 1 BY <1>1, <2>1, BeforeGrows
  <2>3. Ascending(S)[n] = CHOOSE j \in S : Before(S, j) = n - 1 BY DEF Ascending
  <2> QED BY <2>2, <2>3, Zenon
<1>7. Ascending(S) \in [1..c -> S] BY <1>6 DEF Ascending
<1>8. ASSUME NEW m \in 1..c, NEW n \in 1..c, m < n
      PROVE  Ascending(S)[m] < Ascending(S)[n]
  <2> DEFINE x == Ascending(S)[m]
             y == Ascending(S)[n]
  <2>1. x \in S /\ y \in S /\ Before(S, x) = m - 1 /\ Before(S, y) = n - 1 BY <1>6
  <2> HIDE DEF x, y
  <2>2. x \in Int /\ y \in Int BY <1>0, <2>1
  <2>3. Before(S, x) < Before(S, y) BY <1>1, <1>8, <2>1
  <2>4. ~(y < x) /\ y # x BY <1>1, <1>3, <2>1, <2>3, BeforeGrows
  <2>5. x < y BY <2>2, <2>4
  <2> QED BY <2>5 DEF x, y
<1>9. ASSUME NEW i \in S PROVE \E n \in 1..c : Ascending(S)[n] = i
  <2>1. Before(S, i) + 1 \in 1..c BY <1>2
  <2>2. PICK n \in 1..c : n = Before(S, i) + 1 BY <2>1
  <2>3. Before(S, i) \in Int BY <1>1, BeforeGrows
  <2>4. Before(S, Ascending(S)[n]) = Before(S, i) /\ Ascending(S)[n] \in S
    BY <1>1, <1>6, <2>2, <2>3
  <2>5. Ascending(S)[n] \in Int /\ i \in Int BY <1>0, <2>4
  <2> QED BY <1>3, <2>3, <2>4, <2>5
<1> QED BY <1>1, <1>7, <1>8, <1>9
=============================================================================
