------------------------------- MODULE Highest -------------------------------
(* The last and the first of a finite set of numbers.                      *)
EXTENDS Integers, FiniteSets, FiniteSetTheorems, WellFoundedInduction, TLAPS

(* A finite set of numbers that is not empty has a highest member: the     *)
(* seat furthest along in the ascending order every seat loop uses.        *)
LEMMA HighestMember ==
  ASSUME NEW S, S \subseteq Nat, IsFiniteSet(S), S # {}
  PROVE  \E m \in S : \A s \in S : s <= m
<1> DEFINE Above(s) == {u \in S : u > s}
           T == {Above(s) : s \in S}
<1>1. IsWellFoundedOn(StrictSubsetOrdering(S), FiniteSubsetsOf(S))
  BY FS_StrictSubsetOrderingWellFounded
<1>2. T \subseteq FiniteSubsetsOf(S) /\ T # {}
  <2>1. T # {} /\ \A X \in T : X \in SUBSET S
    OBVIOUS
  <2>2. \A X \in T : IsFiniteSet(X)
    BY <2>1, FS_Subset
  <2> QED
    BY <2>1, <2>2 DEF FiniteSubsetsOf
<1>3. PICK X \in T : \A Y \in T : <<Y, X>> \notin StrictSubsetOrdering(S)
  BY <1>1, <1>2, WFMin
<1>4. PICK m \in S : X = Above(m)
  OBVIOUS
<1>5. ASSUME NEW s \in S, ~(s <= m) PROVE FALSE
  <2>1. s \in Nat /\ m \in Nat /\ s > m
    BY <1>5
  <2>2. \A u \in Above(s) : u > m
    BY <2>1
  <2>3. s \in Above(m) /\ s \notin Above(s)
    BY <2>1
  <2>4. Above(s) \subseteq Above(m) /\ Above(s) # Above(m)
    BY <2>2, <2>3
  <2>5. <<Above(s), Above(m)>> \in StrictSubsetOrdering(S)
    BY <2>4 DEF StrictSubsetOrdering
  <2> QED
    BY <1>3, <1>4, <2>5
<1> QED
  BY <1>5

(* And a lowest one.                                                       *)
LEMMA LowestMember ==
  ASSUME NEW S, S \subseteq Nat, IsFiniteSet(S), S # {}
  PROVE  \E m \in S : \A s \in S : m <= s
<1> DEFINE Below(s) == {u \in S : u < s}
           T == {Below(s) : s \in S}
<1>1. IsWellFoundedOn(StrictSubsetOrdering(S), FiniteSubsetsOf(S))
  BY FS_StrictSubsetOrderingWellFounded
<1>2. T \subseteq FiniteSubsetsOf(S) /\ T # {}
  <2>1. T # {} /\ \A X \in T : X \in SUBSET S
    OBVIOUS
  <2>2. \A X \in T : IsFiniteSet(X)
    BY <2>1, FS_Subset
  <2> QED
    BY <2>1, <2>2 DEF FiniteSubsetsOf
<1>3. PICK X \in T : \A Y \in T : <<Y, X>> \notin StrictSubsetOrdering(S)
  BY <1>1, <1>2, WFMin
<1>4. PICK m \in S : X = Below(m)
  OBVIOUS
<1>5. ASSUME NEW s \in S, ~(m <= s) PROVE FALSE
  <2>1. s \in Nat /\ m \in Nat /\ s < m
    BY <1>5
  <2>2. \A u \in Below(s) : u < m
    BY <2>1
  <2>3. s \in Below(m) /\ s \notin Below(s)
    BY <2>1
  <2>4. Below(s) \subseteq Below(m) /\ Below(s) # Below(m)
    BY <2>2, <2>3
  <2>5. <<Below(s), Below(m)>> \in StrictSubsetOrdering(S)
    BY <2>4 DEF StrictSubsetOrdering
  <2> QED
    BY <1>3, <1>4, <2>5
<1> QED
  BY <1>5

=============================================================================
