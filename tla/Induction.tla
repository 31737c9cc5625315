----------------------------- MODULE Induction -----------------------------
(* Induction over data without an operator parameter: the library's          *)
(* well-founded induction in the form that speaks of sets, WFMin, gives      *)
(* induction over the numbers and over the subsets of a finite set, and      *)
(* these give what a fold over a finite set is.                              *)
EXTENDS FiniteSetTheorems, TLAPS

(* A set that has 0 and every successor of its members is Nat. *)
LEMMA NatSetInduction ==
    ASSUME NEW K \in SUBSET Nat, 0 \in K, \A k \in K : k + 1 \in K
    PROVE  K = Nat
<1> SUFFICES ASSUME Nat \ K # {} PROVE FALSE
  OBVIOUS
<1>1. PICK x \in Nat \ K : \A y \in Nat \ K : <<y, x>> \notin OpToRel(<, Nat)
  BY NatLessThanWellFounded, WFMin
<1>2. x # 0 /\ x - 1 \in Nat /\ x - 1 < x
  BY SMT
<1>3. x - 1 \in K
  BY <1>1, <1>2 DEF OpToRel
<1>4. (x - 1) + 1 = x
  BY SMT
<1> QED
  BY <1>3, <1>4

(* A set that has {} and every subset all of whose parts with one element    *)
(* less it has, has all subsets.                                             *)
LEMMA SubsetInduction ==
    ASSUME NEW S, IsFiniteSet(S), NEW T \in SUBSET SUBSET S, {} \in T,
           \A s \in SUBSET S : s # {} /\ (\A x \in s : s \ {x} \in T) => s \in T
    PROVE  T = SUBSET S
<1> DEFINE U == (SUBSET S) \ T
           R == StrictSubsetOrdering(S)
<1> SUFFICES ASSUME U # {} PROVE FALSE
  OBVIOUS
<1>1. IsWellFoundedOn(R, SUBSET S)
  <2>1. IsWellFoundedOn(R, FiniteSubsetsOf(S))
    BY FS_StrictSubsetOrderingWellFounded
  <2>2. FiniteSubsetsOf(S) = SUBSET S
    BY FS_FiniteSubsetsOfFinite
  <2> QED
    BY <2>1, <2>2
<1>2. U \subseteq SUBSET S
  OBVIOUS
<1>3. \E s \in U : \A u \in U : ~ (<<u, s>> \in R)
  <2> HIDE DEF U, R
  <2> QED
    BY <1>1, <1>2, WFMin
<1>4. PICK s \in U : \A u \in U : ~ (<<u, s>> \in R)
  BY <1>3
<1>5. \A x \in s : s \ {x} \in T
  <2> SUFFICES ASSUME NEW x \in s PROVE s \ {x} \in T
    OBVIOUS
  <2>1. s \ {x} \in SUBSET S /\ s \in SUBSET S /\ s \ {x} \subseteq s /\ s \ {x} # s
    BY <1>4
  <2>2. <<s \ {x}, s>> \in R
    BY <2>1 DEF StrictSubsetOrdering
  <2> QED
    BY <1>4, <2>1, <2>2
<1> QED
  BY <1>4, <1>5

(* A fold takes the elements of a set one by one, in the order a choice     *)
(* function c gives them.                                                    *)
IsChoice(c, S) == \A s \in SUBSET S : s # {} => c[s] \in s
IsFold(g, S, base, c, h) ==
    \A s \in SUBSET S : g[s] = IF s = {} THEN base ELSE h[c[s]][g[s \ {c[s]}]]

SameSteps(f, g, c, S) ==
    /\ f[{}] = g[{}]
    /\ \A s \in SUBSET S : s # {} /\ f[s \ {c[s]}] = g[s \ {c[s]}] => f[s] = g[s]

(* Two functions of sets that take the same steps are the same. *)
LEMMA SameFold ==
    ASSUME NEW S, IsFiniteSet(S), NEW c, IsChoice(c, S), NEW f, NEW g, SameSteps(f, g, c, S)
    PROVE  \A s \in SUBSET S : f[s] = g[s]
<1> DEFINE T == {s \in SUBSET S : f[s] = g[s]}
<1>1. T \in SUBSET SUBSET S /\ {} \in T
  BY DEF SameSteps
<1>2. ASSUME NEW s \in SUBSET S, s # {}, \A x \in s : s \ {x} \in T
      PROVE  s \in T
  BY <1>2 DEF SameSteps, IsChoice
<1>3. T = SUBSET S
  <2> HIDE DEF T
  <2> QED
    BY <1>1, <1>2, SubsetInduction
<1> QED
  BY <1>3

(* The recursion of a fold has a solution. *)
LEMMA FoldExists ==
    ASSUME NEW S, IsFiniteSet(S), NEW c, IsChoice(c, S),
           NEW V, NEW base \in V, NEW h \in [S -> [V -> V]]
    PROVE  \E g \in [SUBSET S -> V] : IsFold(g, S, base, c, h)
<1> DEFINE RHS(g, s) == IF s = {} THEN base ELSE h[c[s]][g[s \ {c[s]}]]
           K == {k \in Nat : \E g \in [SUBSET S -> V] :
                    \A s \in SUBSET S : Cardinality(s) <= k => g[s] = RHS(g, s)}
<1>1. \A s \in SUBSET S : /\ IsFiniteSet(s) /\ Cardinality(s) \in Nat
                          /\ Cardinality(s) <= Cardinality(S)
  BY FS_Subset, FS_CardinalityType
<1>2. \A s \in SUBSET S : Cardinality(s) = 0 <=> s = {}
  BY <1>1, FS_EmptySet
<1>3. ASSUME NEW s \in SUBSET S, s # {}
      PROVE  Cardinality(s \ {c[s]}) = Cardinality(s) - 1
  BY <1>1, <1>3, FS_RemoveElement DEF IsChoice
<1>4. 0 \in K
  <2>1. [s \in SUBSET S |-> base] \in [SUBSET S -> V]
    OBVIOUS
  <2>2. \A s \in SUBSET S : Cardinality(s) <= 0 => s = {}
    BY <1>1, <1>2, SMT
  <2> QED
    BY <2>1, <2>2
<1>5. ASSUME NEW k \in K PROVE k + 1 \in K
  <2>1. PICK g \in [SUBSET S -> V] :
            \A s \in SUBSET S : Cardinality(s) <= k => g[s] = RHS(g, s)
    OBVIOUS
  <2> DEFINE d == [s \in SUBSET S |-> IF Cardinality(s) <= k THEN g[s] ELSE RHS(g, s)]
  <2>2. \A s \in SUBSET S : RHS(g, s) \in V
    <3> TAKE s \in SUBSET S
    <3>1. CASE s = {}
      BY <3>1
    <3>2. CASE s # {}
      <4>1. c[s] \in S /\ g[s \ {c[s]}] \in V
        BY <3>2 DEF IsChoice
      <4> QED
        BY <3>2, <4>1
    <3> QED
      BY <3>1, <3>2
  <2>3. d \in [SUBSET S -> V]
    BY <2>2
  <2>4. \A s \in SUBSET S : Cardinality(s) <= k + 1 => d[s] = RHS(g, s)
    BY <2>1
  <2>5. ASSUME NEW s \in SUBSET S, Cardinality(s) <= k + 1
        PROVE  RHS(d, s) = RHS(g, s)
    <3>1. CASE s = {}
      BY <3>1
    <3>2. CASE s # {}
      <4>1. s \ {c[s]} \in SUBSET S
        BY <3>2
      <4>2. Cardinality(s \ {c[s]}) <= k
        BY <1>1, <1>3, <2>5, <3>2, SMT
      <4>3. d[s \ {c[s]}] = g[s \ {c[s]}]
        BY <4>1, <4>2
      <4> QED
        BY <3>2, <4>3
    <3> QED
      BY <3>1, <3>2
  <2>6. \A s \in SUBSET S : Cardinality(s) <= k + 1 => d[s] = RHS(d, s)
    BY <2>4, <2>5
  <2>7. k + 1 \in Nat
    OBVIOUS
  <2> HIDE DEF d, RHS
  <2> QED
    BY <2>3, <2>6, <2>7
<1>6. K = Nat
  <2>1. K \in SUBSET Nat
    OBVIOUS
  <2> HIDE DEF K
  <2> QED
    BY <1>4, <1>5, <2>1, NatSetInduction
<1>7. Cardinality(S) \in K
  BY <1>6, FS_CardinalityType
<1> QED
  BY <1>1, <1>7 DEF IsFold
=============================================================================
