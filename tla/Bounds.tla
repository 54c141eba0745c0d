------------------------------- MODULE Bounds -------------------------------
(***************************************************************************)
(* Sizes and extreme elements of sets of numbers, for the proof modules.     *)
(***************************************************************************)
EXTENDS Integers, FiniteSets, FiniteSetTheorems, WellFoundedInduction, TLAPS

(* A part of a finite set is finite and no larger.                           *)
LEMMA SubsetCardinality ==
    ASSUME NEW S, IsFiniteSet(S), NEW T, T \subseteq S
    PROVE  /\ IsFiniteSet(T)
           /\ Cardinality(S) \in Nat
           /\ Cardinality(T) \in Nat
           /\ Cardinality(T) <= Cardinality(S)
           /\ S # T => Cardinality(T) < Cardinality(S)
<1>1. IsFiniteSet(T) /\ Cardinality(T) <= Cardinality(S) /\ (Cardinality(S) = Cardinality(T) => S = T)
  BY FS_Subset
<1>2. Cardinality(S) \in Nat /\ Cardinality(T) \in Nat
  BY <1>1, FS_CardinalityType
<1> QED BY <1>1, <1>2

(* The images of a finite set are finitely many. *)
LEMMA FiniteImage ==
    ASSUME NEW S, NEW T, NEW g \in [S -> T], IsFiniteSet(S), \A t \in T : \E x \in S : g[x] = t
    PROVE  IsFiniteSet(T)
<1>1. g \in Surjection(S, T)
  BY DEF Surjection
<1> QED BY <1>1, FS_Surjection

(* A finite non-empty set of integers has a largest element. *)
LEMMA LargestExists ==
    ASSUME NEW S, IsFiniteSet(S), S \subseteq Int, S # {}
    PROVE  \E m \in S : \A v \in S : v <= m
<1> DEFINE Above(v) == {x \in S : x > v}
           T == {Above(v) : v \in S}
<1>1. IsWellFoundedOn(StrictSubsetOrdering(S), FiniteSubsetsOf(S))
  BY FS_StrictSubsetOrderingWellFounded
<1>2. T \subseteq FiniteSubsetsOf(S)
  BY FS_Subset DEF FiniteSubsetsOf
<1>3. T # {}
  OBVIOUS
<1>4. PICK U \in T : \A V \in T : ~ (<<V, U>> \in StrictSubsetOrdering(S))
  <2> HIDE DEF T
  <2> QED BY <1>1, <1>2, <1>3, WFMin
<1>5. PICK m \in S : U = Above(m)
  BY <1>4
<1>6. ASSUME NEW v \in S, v > m
      PROVE  FALSE
  <2>1. Above(v) \subseteq Above(m) /\ v \in Above(m) /\ v \notin Above(v)
    <3>1. \A x \in S : x > v => x > m
      BY <1>6
    <3>2. ~ (v > v)
      BY <1>6
    <3> QED BY <1>6, <3>1, <3>2
  <2>2. <<Above(v), U>> \in StrictSubsetOrdering(S)
    BY <2>1, <1>5 DEF StrictSubsetOrdering
  <2> QED BY <2>2, <1>4
<1> QED BY <1>6

(* A set of numbers with a member has a smallest one. *)
LEMMA SmallestExists ==
    ASSUME NEW T, T \subseteq Nat, NEW t \in T
    PROVE  \E m \in T : \A v \in T : m <= v
<1> DEFINE A == {x \in 0..t : \A v \in T : x <= v}
<1>1. t \in Nat
  OBVIOUS
<1>2. IsFiniteSet(A) /\ A \subseteq Int /\ A # {}
  <2>1. IsFiniteSet(0..t)
    BY <1>1, FS_Interval
  <2>2. A \subseteq 0..t /\ 0 \in A
    BY <1>1
  <2> QED BY <2>1, <2>2, FS_Subset
<1>3. PICK m \in A : \A v \in A : v <= m
  <2> HIDE DEF A
  <2> QED BY <1>2, LargestExists
<1>4. m \in Nat /\ \A v \in T : m <= v
  BY <1>1
<1>5. m \in T
  <2> SUFFICES ASSUME m \notin T PROVE FALSE
    OBVIOUS
  <2>1. \A v \in T : m + 1 <= v
    <3> SUFFICES ASSUME NEW v \in T PROVE m + 1 <= v
      OBVIOUS
    <3>1. m <= v /\ m # v /\ v \in Nat
      BY <1>4
    <3> QED BY <1>4, <3>1
  <2>2. m + 1 \in A
    BY <1>1, <1>4, <2>1
  <2>3. m + 1 <= m
    BY <1>3, <2>2
  <2> QED BY <1>4, <2>3
<1> QED BY <1>4, <1>5
=============================================================================
