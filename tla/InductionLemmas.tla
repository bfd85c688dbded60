-------------------------- MODULE InductionLemmas --------------------------
(***************************************************************************)
(* Induction and recursion over the natural numbers, for the proofs about  *)
(* operators that the model defines by recursion (which points a path of   *)
(* control reaches, which nodes a graph reaches).  The library states its  *)
(* induction theorems for a predicate, a parameter that is an operator;    *)
(* here the predicate is a set and the recursive step is a function, so    *)
(* that the lemmas can be cited like any other.                            *)
(***************************************************************************)
EXTENDS Integers, FiniteSets, FiniteSetTheorems, WellFoundedInduction, TLAPS

\* Every nonempty set of natural numbers has a least element.
LEMMA LeastElement ==
    ASSUME NEW T \in SUBSET Nat, T # {}
    PROVE  \E m \in T : \A k \in T : m <= k
<1> DEFINE Less == OpToRel(<, Nat)
<1>1. IsWellFoundedOn(Less, Nat)
  BY NatLessThanWellFounded
<1>2. \A a, b \in Nat : a < b => <<a, b>> \in Less
  BY DEF OpToRel
<1> HIDE DEF Less
<1>3. PICK m \in T : \A k \in T : ~(<<k, m>> \in Less)
  BY <1>1, WFMin
<1>4. \A k \in T : ~(k < m)
  BY <1>2, <1>3
<1> QED
  BY <1>3, <1>4

\* A set that holds 0, and with every number the next one, holds them all.
LEMMA SetInduction ==
    ASSUME NEW S, 0 \in S, \A k \in Nat : k \in S => k + 1 \in S
    PROVE  \A k \in Nat : k \in S
<1> DEFINE T == {k \in Nat : k \notin S}
<1>1. SUFFICES ASSUME T # {} PROVE FALSE
  OBVIOUS
<1>2. PICK m \in T : \A k \in T : m <= k
  BY <1>1, LeastElement
<1>3. m # 0 /\ m - 1 \in Nat
  BY <1>2
<1>4. m - 1 \in S
  BY <1>2, <1>3
<1>5. m - 1 + 1 \in S
  BY <1>3, <1>4
<1> QED
  BY <1>2, <1>5

(***************************************************************************)
(* Recursion.                                                              *)
(***************************************************************************)

\* The iterates of step from base up to the m-th, as a function.
Iterates(S, base, step, m) ==
    {g \in [0 .. m -> S] : g[0] = base /\ \A i \in 1 .. m : g[i] = step[g[i - 1]]}

\* Two runs of the iteration agree as far as both go.
LEMMA IteratesAgree ==
    ASSUME NEW S, NEW base \in S, NEW step \in [S -> S],
           NEW l \in Nat, NEW m \in Nat,
           NEW g \in Iterates(S, base, step, l), NEW h \in Iterates(S, base, step, m)
    PROVE  \A k \in Nat : k <= l /\ k <= m => g[k] = h[k]
<1> DEFINE Agree == {k \in Nat : k <= l /\ k <= m => g[k] = h[k]}
<1>1. 0 \in Agree
  BY DEF Iterates
<1>2. ASSUME NEW k \in Nat, k \in Agree
      PROVE  k + 1 \in Agree
  <2> SUFFICES ASSUME k + 1 <= l, k + 1 <= m
               PROVE  g[k + 1] = h[k + 1]
    OBVIOUS
  <2>1. k + 1 \in 1 .. l /\ k + 1 \in 1 .. m /\ (k + 1) - 1 = k
    OBVIOUS
  <2>2. g[k + 1] = step[g[k]] /\ h[k + 1] = step[h[k]]
    BY <2>1 DEF Iterates
  <2> QED
    BY <1>2, <2>1, <2>2
<1> HIDE DEF Agree
<1>3. \A k \in Nat : k \in Agree
  BY <1>1, <1>2, SetInduction
<1> QED
  BY <1>3 DEF Agree

\* The iteration can be run as far as one likes.
LEMMA IteratesExist ==
    ASSUME NEW S, NEW base \in S, NEW step \in [S -> S]
    PROVE  \A m \in Nat : Iterates(S, base, step, m) # {}
<1> DEFINE Good == {m \in Nat : Iterates(S, base, step, m) # {}}
<1>1. 0 \in Good
  <2>1. [i \in 0 .. 0 |-> base] \in Iterates(S, base, step, 0)
    BY DEF Iterates
  <2> QED
    BY <2>1
<1>2. ASSUME NEW m \in Nat, m \in Good
      PROVE  m + 1 \in Good
  <2>1. PICK g : g \in Iterates(S, base, step, m)
    BY <1>2
  <2> DEFINE h == [i \in 0 .. m + 1 |-> IF i = m + 1 THEN step[g[m]] ELSE g[i]]
  <2>2. g \in [0 .. m -> S] /\ g[0] = base /\ \A i \in 1 .. m : g[i] = step[g[i - 1]]
    BY <2>1 DEF Iterates
  <2>3. h \in [0 .. m + 1 -> S] /\ h[0] = base
    BY <2>2
  <2>4. ASSUME NEW i \in 1 .. m + 1
        PROVE  h[i] = step[h[i - 1]]
    <3>1. CASE i = m + 1
      BY <3>1
    <3>2. CASE i \in 1 .. m
      BY <2>2, <3>2
    <3> QED
      BY <3>1, <3>2
  <2>5. h \in Iterates(S, base, step, m + 1)
    BY <2>3, <2>4 DEF Iterates
  <2> QED
    BY <2>5
<1> HIDE DEF Good
<1>3. \A m \in Nat : m \in Good
  BY <1>1, <1>2, SetInduction
<1> QED
  BY <1>3 DEF Good

\* f is what iterating step from base gives.
IsIteration(f, S, base, step) ==
    f \in [Nat -> S] /\ f[0] = base /\ \A k \in Nat : f[k + 1] = step[f[k]]

\* A function can be defined by what it is at 0 and by a step from each number
\* to the next.
LEMMA RecursionExists ==
    ASSUME NEW S, NEW base \in S, NEW step \in [S -> S]
    PROVE  \E f : IsIteration(f, S, base, step)
<1> DEFINE It(m) == CHOOSE g : g \in Iterates(S, base, step, m)
           f == [m \in Nat |-> It(m)[m]]
<1>1. \A m \in Nat : It(m) \in Iterates(S, base, step, m)
  BY IteratesExist
<1> HIDE DEF It
<1>2. \A m \in Nat : It(m) \in [0 .. m -> S] /\ It(m)[0] = base
  BY <1>1 DEF Iterates
<1>3. f \in [Nat -> S] /\ f[0] = base
  BY <1>2
<1>4. ASSUME NEW k \in Nat
      PROVE  f[k + 1] = step[f[k]]
  <2>1. It(k + 1)[k + 1] = step[It(k + 1)[k]]
    <3>1. k + 1 \in 1 .. k + 1 /\ (k + 1) - 1 = k
      OBVIOUS
    <3> QED
      BY <1>1, <3>1 DEF Iterates
  <2>2. It(k + 1)[k] = It(k)[k]
    BY <1>1, IteratesAgree
  <2> QED
    BY <2>1, <2>2
<1>5. IsIteration(f, S, base, step)
  BY <1>3, <1>4 DEF IsIteration
<1> QED
  BY <1>5

(***************************************************************************)
(* A growing set of elements of a finite set.                              *)
(***************************************************************************)
\* f[k] are subsets of U that grow with k, and stop growing once they stop.
IsGrowth(f, U) ==
    /\ \A k \in Nat : f[k] \in SUBSET U /\ f[k] \subseteq f[k + 1]
    /\ \A k \in Nat : f[k + 1] = f[k] => f[(k + 1) + 1] = f[k + 1]

\* It has stopped growing after as many steps as there are elements.
LEMMA Saturation ==
    ASSUME NEW U, IsFiniteSet(U), NEW m \in Nat, Cardinality(U) <= m, NEW f, IsGrowth(f, U)
    PROVE  f[m + 1] = f[m]
<1> DEFINE Grown == {k \in Nat : f[k + 1] = f[k] \/ Cardinality(f[k + 1]) >= k + 1}
<1>1. \A k \in Nat : /\ IsFiniteSet(f[k]) /\ Cardinality(f[k]) \in Nat
                     /\ Cardinality(f[k]) <= Cardinality(U)
  <2>1. \A k \in Nat : f[k] \in SUBSET U
    BY DEF IsGrowth
  <2> QED
    BY <2>1, FS_Subset, FS_CardinalityType
<1>2. Cardinality(U) \in Nat
  BY FS_CardinalityType
<1>3. ASSUME NEW k \in Nat, f[k + 1] # f[k]
      PROVE  Cardinality(f[k + 1]) >= Cardinality(f[k]) + 1
  <2>1. f[k] \in SUBSET f[k + 1] /\ k + 1 \in Nat
    BY DEF IsGrowth
  <2>2. /\ Cardinality(f[k]) <= Cardinality(f[k + 1])
        /\ Cardinality(f[k + 1]) = Cardinality(f[k]) => f[k + 1] = f[k]
    BY <1>1, <2>1, FS_Subset
  <2> QED
    BY <1>1, <1>3, <2>1, <2>2
<1>4. 0 \in Grown
  BY <1>1, <1>3
<1>5. ASSUME NEW k \in Nat, k \in Grown
      PROVE  k + 1 \in Grown
  <2>1. CASE f[(k + 1) + 1] = f[k + 1]
    BY <2>1
  <2>2. CASE f[(k + 1) + 1] # f[k + 1]
    <3>1. f[k + 1] # f[k]
      BY <2>2 DEF IsGrowth
    <3>2. Cardinality(f[k + 1]) >= k + 1
      BY <1>5, <3>1
    <3>3. Cardinality(f[(k + 1) + 1]) >= Cardinality(f[k + 1]) + 1
      BY <1>3, <2>2
    <3> QED
      BY <1>1, <3>2, <3>3
  <2> QED
    BY <2>1, <2>2
<1>6. m \in Grown
  <2> HIDE DEF Grown
  <2> QED
    BY <1>4, <1>5, SetInduction
<1>7. m + 1 \in Nat /\ Cardinality(f[m + 1]) \in Nat /\ Cardinality(f[m + 1]) <= Cardinality(U)
  BY <1>1
<1> QED
  BY <1>2, <1>6, <1>7

=============================================================================
