-------------------------- MODULE Dominance_proofs --------------------------
(***************************************************************************)
(* Proofs about the dominance analysis, for every control-flow graph: what *)
(* the sweeps compute is dominance by paths, the immediate dominators form *)
(* a tree, and the frontiers are where dominance ends.                     *)
(***************************************************************************)
EXTENDS Dominance, InductionLemmas, FiniteSetTheorems

(***************************************************************************)
(* What Reached computes: the least set of blocks that holds the entry and *)
(* is closed under branches, leaving out those to avoid.                   *)
(***************************************************************************)
Grown(R, avoid) == R \cup ((UNION {targets[c] : c \in R}) \ avoid)

\* g[k] are the blocks that k branches reach.
IsReach(g, avoid) ==
    /\ Reached(avoid) = g[N]
    /\ g[0] = {Entry} \ avoid
    /\ \A k \in Nat : g[k + 1] = Grown(g[k], avoid)
    /\ \A k \in Nat : g[k] \in SUBSET (Block \ avoid)

LEMMA GrownIs ==
    ASSUME NEW R, NEW avoid, NEW y
    PROVE  y \in Grown(R, avoid) <=> y \in R \/ (y \notin avoid /\ \E x \in R : y \in targets[x])
<1> DEFINE U == UNION {targets[c] : c \in R}
<1>1. y \in U <=> \E x \in R : y \in targets[x]
  BY Zenon
<1>2. Grown(R, avoid) = R \cup (U \ avoid)
  BY DEF Grown
<1> HIDE DEF U
<1> QED
  BY <1>1, <1>2

LEMMA GrownStays ==
    ASSUME targets \in [Block -> SUBSET Block], NEW avoid
    PROVE  \A R \in SUBSET (Block \ avoid) : Grown(R, avoid) \in SUBSET (Block \ avoid)
<1> SUFFICES ASSUME NEW R \in SUBSET (Block \ avoid), NEW y \in Grown(R, avoid)
             PROVE  y \in Block \ avoid
  OBVIOUS
<1>1. y \in R \/ (y \notin avoid /\ \E x \in R : y \in targets[x])
  BY GrownIs
<1>2. \A x \in R : x \in Block /\ targets[x] \subseteq Block
  OBVIOUS
<1> QED
  BY <1>1, <1>2

LEMMA ReachExists ==
    ASSUME targets \in [Block -> SUBSET Block], NEW avoid
    PROVE  \E g : IsReach(g, avoid)
<1> DEFINE S == SUBSET (Block \ avoid)
           base == {Entry} \ avoid
           step == [R \in S |-> Grown(R, avoid)]
           Body(f) == [k \in Nat |->
               IF k = 0 THEN {Entry} \ avoid
               ELSE f[k - 1] \cup ((UNION {targets[c] : c \in f[k - 1]}) \ avoid)]
           grow == CHOOSE f : f = Body(f)
<1>1. step \in [S -> S] /\ base \in S
  <2>1. \A R \in S : Grown(R, avoid) \in S
    BY GrownStays
  <2>2. Entry \in Block
    BY NAssumption DEF Entry, Block
  <2> QED
    BY <2>1, <2>2
<1>2. PICK f : IsIteration(f, S, base, step)
  <2> HIDE DEF S, step, base
  <2> QED
    BY <1>1, RecursionExists
<1>3. f \in [Nat -> S] /\ f[0] = base /\ \A k \in Nat : f[k + 1] = step[f[k]]
  BY <1>2 DEF IsIteration
<1>4. ASSUME NEW k \in Nat
      PROVE  f[k] = Body(f)[k]
  <2>1. CASE k = 0
    BY <1>3, <2>1
  <2>2. CASE k # 0
    <3>1. k - 1 \in Nat /\ (k - 1) + 1 = k
      BY <2>2
    <3>2. f[k] = step[f[k - 1]] /\ f[k - 1] \in S
      BY <1>3, <3>1
    <3> QED
      BY <2>2, <3>1, <3>2 DEF Grown
  <2> QED
    BY <2>1, <2>2
<1>5. f = Body(f)
  BY <1>3, <1>4, Zenon
<1>6. grow = Body(grow)
  <2> HIDE DEF Body
  <2> QED
    BY <1>5, Zenon
<1>7. Reached(avoid) = grow[N]
  BY DEF Reached
<1> HIDE DEF grow
<1>8. grow[0] = base /\ \A k \in Nat : grow[k + 1] = Grown(grow[k], avoid)
  <2>1. grow[0] = Body(grow)[0] /\ \A k \in Nat : grow[k + 1] = Body(grow)[k + 1]
    BY <1>6
  <2>2. ASSUME NEW k \in Nat
        PROVE  k + 1 \in Nat /\ k + 1 # 0 /\ (k + 1) - 1 = k
    OBVIOUS
  <2>3. ASSUME NEW k \in Nat
        PROVE  Body(grow)[k + 1] = Grown(grow[k], avoid)
    BY <2>2 DEF Grown
  <2> QED
    BY <2>1, <2>3
<1> HIDE DEF Body
<1> DEFINE G == {k \in Nat : grow[k] \in S}
<1>9. 0 \in G
  BY <1>1, <1>8
<1>10. ASSUME NEW k \in Nat, k \in G
       PROVE  k + 1 \in G
  BY <1>8, <1>10, GrownStays
<1>11. \A k \in Nat : k \in G
  <2> HIDE DEF G
  <2> QED
    BY <1>9, <1>10, SetInduction
<1>12. IsReach(grow, avoid)
  BY <1>7, <1>8, <1>11 DEF IsReach
<1> QED
  BY <1>12

\* Reached is closed: N steps are enough for N blocks.
LEMMA ReachedClosed ==
    ASSUME targets \in [Block -> SUBSET Block], NEW avoid
    PROVE  /\ Reached(avoid) \subseteq Block \ avoid
           /\ Entry \notin avoid => Entry \in Reached(avoid)
           /\ \A x \in Reached(avoid) : \A y \in targets[x] : y \notin avoid => y \in Reached(avoid)
<1>1. PICK g : IsReach(g, avoid)
  BY ReachExists
<1>2. /\ Reached(avoid) = g[N] /\ g[0] = {Entry} \ avoid
      /\ \A k \in Nat : g[k + 1] = Grown(g[k], avoid) /\ g[k] \in SUBSET (Block \ avoid)
  BY <1>1 DEF IsReach
<1>3. IsFiniteSet(Block) /\ Cardinality(Block) = N
  <2>1. IsFiniteSet(Block) /\ Cardinality(Block) = IF 1 > N THEN 0 ELSE N - 1 + 1
    BY NAssumption, FS_Interval DEF Block
  <2> QED
    BY <2>1, NAssumption
<1>4. IsGrowth(g, Block)
  <2>1. \A k \in Nat : g[k] \in SUBSET Block /\ g[k] \subseteq g[k + 1]
    BY <1>2 DEF Grown
  <2>2. ASSUME NEW k \in Nat, g[k + 1] = g[k]
        PROVE  g[(k + 1) + 1] = g[k + 1]
    <3>1. g[(k + 1) + 1] = Grown(g[k + 1], avoid) /\ g[k + 1] = Grown(g[k], avoid)
      BY <1>2
    <3> QED
      BY <2>2, <3>1
  <2> QED
    BY <2>1, <2>2 DEF IsGrowth
<1>5. g[N + 1] = g[N]
  BY <1>3, <1>4, NAssumption, Saturation
<1>6. g[N] = Grown(g[N], avoid) /\ N \in Nat
  BY <1>2, <1>5, NAssumption
<1>7. Entry \notin avoid => Entry \in g[N]
  <2> DEFINE G == {k \in Nat : Entry \notin avoid => Entry \in g[k]}
  <2>1. 0 \in G
    BY <1>2
  <2>2. ASSUME NEW k \in Nat, k \in G PROVE k + 1 \in G
    BY <1>2, <2>2 DEF Grown
  <2>3. N \in G
    <3> HIDE DEF G
    <3> QED
      BY <1>6, <2>1, <2>2, SetInduction
  <2> QED
    BY <2>3
<1>8. g[N] \subseteq Block \ avoid
  BY <1>2, <1>6
<1>9. ASSUME NEW x \in g[N], NEW y \in targets[x], y \notin avoid
      PROVE  y \in g[N]
  <2>1. y \in Grown(g[N], avoid)
    BY <1>9, GrownIs
  <2> QED
    BY <1>6, <2>1
<1> QED
  BY <1>2, <1>7, <1>8, <1>9

\* Reached is the least such set.
LEMMA ReachedLeast ==
    ASSUME targets \in [Block -> SUBSET Block], NEW avoid, NEW T,
           Entry \in T \/ Entry \in avoid,
           \A x \in T : x \in Block => \A y \in targets[x] : y \notin avoid => y \in T
    PROVE  Reached(avoid) \subseteq T
<1>1. PICK g : IsReach(g, avoid)
  BY ReachExists
<1>2. /\ Reached(avoid) = g[N] /\ g[0] = {Entry} \ avoid
      /\ \A k \in Nat : g[k + 1] = Grown(g[k], avoid) /\ g[k] \in SUBSET (Block \ avoid)
  BY <1>1 DEF IsReach
<1> DEFINE G == {k \in Nat : g[k] \subseteq T}
<1>3. 0 \in G
  BY <1>2
<1>4. ASSUME NEW k \in Nat, k \in G PROVE k + 1 \in G
  <2>1. ASSUME NEW y \in g[k + 1] PROVE y \in T
    <3>1. y \in g[k] \/ (y \notin avoid /\ \E x \in g[k] : y \in targets[x])
      BY <1>2 DEF Grown
    <3>2. \A x \in g[k] : x \in Block /\ x \in T
      BY <1>2, <1>4
    <3> QED
      BY <3>1, <3>2
  <2> QED
    BY <2>1
<1>5. N \in G
  <2> HIDE DEF G
  <2> QED
    BY <1>3, <1>4, NAssumption, SetInduction
<1> QED
  BY <1>2, <1>5

(***************************************************************************)
(* Dominance by paths.                                                     *)
(***************************************************************************)
\* What Init says of the graph.
Graph ==
    /\ targets \in [Block -> SUBSET (Block \ {Entry})]
    /\ Reached({}) = Block

LEMMA GraphFacts ==
    ASSUME Graph
    PROVE  /\ targets \in [Block -> SUBSET Block] /\ Entry \in Block
           /\ \A x \in Block : Entry \notin targets[x] /\ targets[x] \subseteq Block
<1>1. Entry \in Block
  BY NAssumption DEF Entry, Block
<1> QED
  BY <1>1 DEF Graph

\* A block that is not dominated by d can be reached without it, and d itself
\* cannot.
LEMMA NotDom ==
    ASSUME Graph, NEW d \in Block, NEW c \in Block
    PROVE  ~Dom(d, c) <=> c \in Reached({d})
<1>1. d \notin Reached({d})
  BY GraphFacts, ReachedClosed
<1> QED
  BY <1>1 DEF Dom

\* What can be reached without d can, from one block to the next.
LEMMA ReachedStep ==
    ASSUME Graph, NEW d, NEW x \in Reached({d}), NEW y \in targets[x], y # d
    PROVE  y \in Reached({d})
BY GraphFacts, ReachedClosed

LEMMA DomEntry ==
    ASSUME Graph
    PROVE  \A c \in Block : Dom(Entry, c) /\ (Dom(c, Entry) => c = Entry)
<1>1. Reached({Entry}) \subseteq {}
  BY GraphFacts, ReachedLeast
<1>2. \A c \in Block : c # Entry => Entry \in Reached({c})
  BY GraphFacts, ReachedClosed
<1> QED
  BY <1>1, <1>2, GraphFacts, NotDom

\* A set that holds the entry and is closed under branches holds every block.
LEMMA AllBlocks ==
    ASSUME Graph, NEW T, Entry \in T,
           \A x \in T : x \in Block => \A y \in targets[x] : y \in T
    PROVE  Block \subseteq T
<1>1. Reached({}) \subseteq T
  BY GraphFacts, ReachedLeast
<1> QED
  BY <1>1 DEF Graph

LEMMA DomTransitive ==
    ASSUME Graph, NEW d \in Block, NEW o \in Block, NEW c \in Block, Dom(d, o), Dom(o, c)
    PROVE  Dom(d, c)
<1> DEFINE T == Reached({d}) \cap Reached({o})
<1>1. SUFFICES ASSUME c \in Reached({d}) PROVE FALSE
  BY NotDom
<1>2. o \notin Reached({d}) /\ c \notin Reached({o})
  BY NotDom
<1>3. Entry \in T \/ Entry \in {d}
  <2>1. SUFFICES ASSUME Entry # d PROVE Entry \in T
    OBVIOUS
  <2>2. Entry \in Reached({d})
    BY <2>1, GraphFacts, ReachedClosed
  <2>3. Entry \in Reached({o})
    BY <1>2, <2>2, GraphFacts, ReachedClosed
  <2> QED
    BY <2>2, <2>3
<1>4. ASSUME NEW x \in T, NEW y \in targets[x], y \notin {d}
      PROVE  y \in T
  <2>1. y \in Reached({d})
    BY <1>4, ReachedStep
  <2>2. y # o
    BY <1>2, <2>1
  <2> QED
    BY <2>1, <2>2, ReachedStep
<1>5. Reached({d}) \subseteq T
  <2> HIDE DEF T
  <2> QED
    BY <1>3, <1>4, GraphFacts, ReachedLeast
<1> QED
  BY <1>1, <1>2, <1>5

LEMMA DomAntisymmetric ==
    ASSUME Graph, NEW d \in Block, NEW o \in Block, Dom(d, o), Dom(o, d)
    PROVE  d = o
<1> DEFINE T == Reached({d}) \cap Reached({o})
<1>1. SUFFICES ASSUME d # o PROVE FALSE
  OBVIOUS
<1>2. o \notin Reached({d}) /\ d \notin Reached({o}) /\ d \notin Reached({d})
  BY NotDom, GraphFacts, ReachedClosed
<1>3. Entry \in T
  <2>1. Entry # d /\ Entry # o
    BY <1>1, DomEntry
  <2> QED
    BY <2>1, GraphFacts, ReachedClosed
<1>4. ASSUME NEW x \in T, NEW y \in targets[x]
      PROVE  y \in T
  <2>1. y # d
    BY <1>1, <1>2, <1>4, ReachedStep
  <2>2. y # o
    BY <1>1, <1>2, <1>4, ReachedStep
  <2> QED
    BY <1>4, <2>1, <2>2, ReachedStep
<1>5. Block \subseteq T
  <2> HIDE DEF T
  <2> QED
    BY <1>3, <1>4, AllBlocks
<1> QED
  BY <1>2, <1>5

\* The dominators of a block form a chain.
LEMMA DomTotal ==
    ASSUME Graph, NEW d \in Block, NEW o \in Block, NEW c \in Block, Dom(d, c), Dom(o, c)
    PROVE  Dom(d, o) \/ Dom(o, d)
<1> DEFINE T == Reached({d}) \cup Reached({o})
<1>1. SUFFICES ASSUME o \in Reached({d}), d \in Reached({o}) PROVE FALSE
  BY NotDom
<1>2. c \notin T
  BY NotDom
<1>3. Entry \in T
  <2>1. d # o
    BY <1>1, GraphFacts, ReachedClosed
  <2> QED
    BY <2>1, GraphFacts, ReachedClosed
<1>4. ASSUME NEW x \in T, NEW y \in targets[x]
      PROVE  y \in T
  <2>1. CASE y = d \/ y = o
    BY <1>1, <2>1
  <2>2. CASE y # d /\ y # o
    BY <2>2, ReachedStep
  <2> QED
    BY <2>1, <2>2
<1>5. Block \subseteq T
  <2> HIDE DEF T
  <2> QED
    BY <1>3, <1>4, AllBlocks
<1> QED
  BY <1>2, <1>5

\* d dominates c exactly when it dominates every predecessor of c, or is c.
LEMMA DomPredecessor ==
    ASSUME Graph, NEW d \in Block, NEW c \in Block, NEW p \in Block,
           c \in targets[p], Dom(d, c), d # c
    PROVE  Dom(d, p)
BY NotDom, ReachedStep

LEMMA DomFromPredecessors ==
    ASSUME Graph, NEW d \in Block, NEW c \in Block, c # Entry,
           \A p \in Block : c \in targets[p] => Dom(d, p)
    PROVE  Dom(d, c)
<1> DEFINE T == Reached({d}) \ {c}
<1>1. Entry \in T \/ Entry \in {d}
  BY GraphFacts, ReachedClosed
<1>2. ASSUME NEW x \in T, NEW y \in targets[x], y \notin {d}
      PROVE  y \in T
  <2>1. y \in Reached({d})
    BY <1>2, ReachedStep
  <2>2. x \in Block /\ ~Dom(d, x)
    BY NotDom, GraphFacts, ReachedClosed
  <2>3. y # c
    BY <2>2
  <2> QED
    BY <2>1, <2>3
<1>3. Reached({d}) \subseteq T
  <2> HIDE DEF T
  <2> QED
    BY <1>1, <1>2, GraphFacts, ReachedLeast
<1> QED
  BY <1>3, NotDom

(***************************************************************************)
(* The sweeps.                                                             *)
(***************************************************************************)
After == {"idom", "frontier", "done"}

CFGBuilt == predecessors = [c \in Block |-> {p \in Block : c \in targets[p]}]

\* No dominator has been struck out.
NothingLost == \A c, d \in Block : Dom(d, c) => d \in dominators[c]

\* The blocks this sweep has passed without a change are at their fixed point.
PassedStable == ~changed => \A c \in 2 .. at - 1 : dominators[c] = newDom(c)

Exact == \A c, d \in Block : d \in dominators[c] <=> Dom(d, c)

SweepInv ==
    /\ TypeOK
    /\ Graph
    /\ phase # "cfg" => CFGBuilt
    /\ phase = "sweep" => /\ dominators[Entry] = {Entry}
                          /\ at >= 2
                          /\ NothingLost
                          /\ PassedStable
    /\ phase \in After => Exact

LEMMA SweepInit ==
    ASSUME Init PROVE SweepInv
<1>1. targets \in [Block -> SUBSET (Block \ {Entry})] /\ Reached({}) = Block
  <2>1. \A s \in {s \in SUBSET (Block \ {Entry}) : Cardinality(s) <= 2} : s \in SUBSET (Block \ {Entry})
    OBVIOUS
  <2> QED
    BY <2>1 DEF Init
<1>2. Graph
  BY <1>1 DEF Graph
<1>3. TypeOK
  <2>1. at \in 1 .. N + 1
    BY NAssumption DEF Init
  <2>2. targets \in [Block -> SUBSET Block]
    BY <1>1
  <2> QED
    BY <2>1, <2>2 DEF Init, TypeOK
<1> QED
  BY <1>2, <1>3 DEF Init, SweepInv, After

\* Steps that leave the branches alone keep the paths.
LEMMA PathsStay ==
    ASSUME UNCHANGED targets
    PROVE  (\A d, c : Dom(d, c)' <=> Dom(d, c)) /\ (Graph' <=> Graph)
<1>1. \A avoid : Reached(avoid)' = Reached(avoid)
  BY DEF Reached
<1> QED
  BY <1>1 DEF Dom, Graph

\* When a whole sweep changes nothing, what is left are the dominators.
LEMMA FixedPointIsExact ==
    ASSUME SweepInv, phase = "sweep", at > N, ~changed
    PROVE  Exact
<1>1. /\ Graph /\ CFGBuilt /\ dominators[Entry] = {Entry} /\ NothingLost
      /\ dominators \in [Block -> SUBSET Block]
  BY DEF SweepInv, TypeOK
<1>2. \A c \in Block : c # Entry => dominators[c] = newDom(c)
  <2>1. at = N + 1
    BY NAssumption DEF SweepInv, TypeOK
  <2>2. \A c \in Block : c # Entry => c \in 2 .. at - 1
    BY <2>1, NAssumption DEF Block, Entry
  <2> QED
    BY <2>2 DEF SweepInv, PassedStable
<1>3. ASSUME NEW c \in Block, NEW d \in dominators[c]
      PROVE  Dom(d, c)
  <2> DEFINE T == {x \in Block : d \notin dominators[x]}
  <2>1. d \in Block
    BY <1>1
  <2>2. Entry \in T \/ Entry \in {d}
    BY <1>1, GraphFacts
  <2>3. ASSUME NEW x \in T, NEW y \in targets[x], y \notin {d}
        PROVE  y \in T
    <3>1. x \in Block /\ y \in Block /\ y # Entry
      BY <1>1, GraphFacts
    <3>2. x \in predecessors[y]
      BY <1>1, <3>1 DEF CFGBuilt
    <3>3. d \notin newDom(y)
      BY <2>3, <3>2 DEF newDom
    <3> QED
      BY <1>2, <3>1, <3>3
  <2>4. Reached({d}) \subseteq T
    <3> HIDE DEF T
    <3> QED
      BY <1>1, <2>2, <2>3, GraphFacts, ReachedLeast
  <2> QED
    BY <1>1, <2>1, <2>4, NotDom
<1> QED
  BY <1>1, <1>3 DEF Exact, NothingLost

LEMMA SweepNext ==
    ASSUME SweepInv, [Next]_vars PROVE SweepInv'
<1>0. TypeOK /\ Graph /\ N \in Nat \ {0}
  BY NAssumption DEF SweepInv
<1>1. CASE buildCFG
  <2>1. UNCHANGED targets /\ phase = "cfg" /\ phase' = "sweep"
    BY <1>1 DEF buildCFG
  <2>2. targets \in [Block -> SUBSET Block] /\ Entry \in Block
    BY <1>0, GraphFacts
  <2>3. TypeOK'
    BY <1>0, <1>1, <2>2 DEF TypeOK, buildCFG
  <2>4. CFGBuilt'
    BY <1>1 DEF buildCFG, CFGBuilt
  <2>5. dominators'[Entry] = {Entry} /\ at' = 2
    BY <1>1, <2>2 DEF buildCFG
  <2>6. NothingLost'
    <3>1. ASSUME NEW c \in Block, NEW d \in Block, Dom(d, c)
          PROVE  d \in dominators'[c]
      <4>1. CASE c = Entry
        BY <1>0, <2>5, <3>1, <4>1, DomEntry
      <4>2. CASE c # Entry
        BY <1>1, <4>2 DEF buildCFG
      <4> QED
        BY <4>1, <4>2
    <3> QED
      BY <2>1, <3>1, PathsStay DEF NothingLost
  <2>7. PassedStable'
    BY <2>5 DEF PassedStable
  <2> QED
    BY <1>0, <2>1, <2>3, <2>4, <2>5, <2>6, <2>7, PathsStay DEF SweepInv, After
<1>2. CASE SweepBlock
  <2>1. /\ UNCHANGED <<targets, successors, predecessors, idom, frontier, phase>>
        /\ phase = "sweep" /\ at <= N /\ at' = at + 1
        /\ dominators' = [dominators EXCEPT ![at] = newDom(at)]
        /\ changed' = (changed \/ newDom(at) # dominators[at])
    BY <1>2 DEF SweepBlock
  <2>2. /\ CFGBuilt /\ dominators[Entry] = {Entry} /\ at >= 2 /\ NothingLost /\ PassedStable
        /\ dominators \in [Block -> SUBSET Block] /\ at \in 1 .. N + 1
        /\ changed \in BOOLEAN
    BY <1>0, <2>1 DEF SweepInv, TypeOK
  <2>3. at \in Block /\ at # Entry /\ at \in Nat
    BY <1>0, <2>1, <2>2 DEF Block, Entry
  <2>4. newDom(at) \subseteq Block
    BY <2>3 DEF newDom
  <2>5. dominators' \in [Block -> SUBSET Block] /\ dominators'[at] = newDom(at)
        /\ \A c \in Block : c # at => dominators'[c] = dominators[c]
    BY <2>1, <2>2, <2>3, <2>4
  <2>6. TypeOK'
    <3>1. at' \in 1 .. N + 1
      BY <1>0, <2>1, <2>2
    <3>2. changed' \in BOOLEAN
      BY <2>1, <2>2
    <3> QED
      BY <1>0, <2>1, <2>5, <3>1, <3>2 DEF TypeOK
  <2>7. ASSUME NEW c \in Block, NEW d \in Block, Dom(d, c)
        PROVE  d \in dominators'[c]
    <3>1. CASE c # at
      BY <2>2, <2>5, <2>7, <3>1 DEF NothingLost
    <3>2. CASE c = at
      <4>1. ASSUME d # c, NEW p \in predecessors[c]
            PROVE  d \in dominators[p]
        <5>1. p \in Block /\ c \in targets[p]
          BY <2>2 DEF CFGBuilt
        <5>2. Dom(d, p)
          BY <1>0, <2>7, <4>1, <5>1, DomPredecessor
        <5> QED
          BY <2>2, <5>1, <5>2 DEF NothingLost
      <4>2. d \in newDom(c)
        BY <4>1 DEF newDom
      <4> QED
        BY <2>5, <3>2, <4>2
    <3> QED
      BY <3>1, <3>2
  <2>8. NothingLost'
    BY <2>1, <2>7, PathsStay DEF NothingLost
  <2>9. PassedStable'
    <3>1. SUFFICES ASSUME ~changed', NEW c \in 2 .. at' - 1
                   PROVE  dominators'[c] = newDom(c)'
      BY DEF PassedStable
    <3>2. ~changed /\ newDom(at) = dominators[at]
      BY <2>1, <3>1
    <3>3. dominators' = dominators
      BY <2>1, <2>2, <2>3, <3>2
    <3>4. newDom(c)' = newDom(c)
      BY <2>1, <3>3 DEF newDom
    <3>5. c \in 2 .. at - 1 \/ c = at
      BY <2>1, <2>3
    <3> QED
      BY <2>2, <3>2, <3>3, <3>4, <3>5 DEF PassedStable
  <2>10. CFGBuilt'
    BY <2>1, <2>2 DEF CFGBuilt
  <2>11. dominators'[Entry] = {Entry} /\ at' >= 2
    BY <1>0, <2>1, <2>2, <2>3, <2>5, GraphFacts
  <2> QED
    BY <1>0, <2>1, <2>6, <2>8, <2>9, <2>10, <2>11, PathsStay DEF SweepInv, After
<1>3. CASE EndSweep
  <2>1. /\ UNCHANGED <<targets, successors, predecessors, dominators, idom, frontier>>
        /\ phase = "sweep" /\ at > N /\ changed' = FALSE
    BY <1>3 DEF EndSweep
  <2>2. CFGBuilt' /\ Graph'
    BY <1>0, <2>1, PathsStay DEF SweepInv, CFGBuilt
  <2>3. CASE changed
    <3>1. at' = 2 /\ phase' = "sweep"
      BY <1>3, <2>1, <2>3 DEF EndSweep
    <3>2. TypeOK'
      <4>1. at' \in 1 .. N + 1
        BY <1>0, <3>1
      <4> QED
        BY <1>0, <2>1, <3>1, <4>1 DEF TypeOK
    <3>3. NothingLost' /\ PassedStable' /\ dominators'[Entry] = {Entry}
      BY <2>1, <3>1, PathsStay DEF SweepInv, NothingLost, PassedStable
    <3> QED
      BY <2>2, <3>1, <3>2, <3>3 DEF SweepInv, After
  <2>4. CASE ~changed
    <3>1. at' = 1 /\ phase' = "idom"
      BY <1>3, <2>4 DEF EndSweep
    <3>2. TypeOK'
      <4>1. at' \in 1 .. N + 1
        BY <1>0, <3>1
      <4> QED
        BY <1>0, <2>1, <3>1, <4>1 DEF TypeOK
    <3>3. Exact
      BY <2>1, <2>4, FixedPointIsExact
    <3>4. Exact'
      BY <2>1, <3>3, PathsStay DEF Exact
    <3> QED
      BY <2>2, <3>1, <3>2, <3>4 DEF SweepInv, After
  <2> QED
    BY <2>3, <2>4
<1>4. CASE computeImmediateDominators
  <2>1. /\ UNCHANGED <<targets, successors, predecessors, dominators, at, changed, frontier>>
        /\ phase = "idom" /\ phase' = "frontier" /\ idom' \in [Block -> Block \cup {NoBlock}]
    BY <1>4 DEF computeImmediateDominators
  <2>2. TypeOK'
    BY <1>0, <2>1 DEF TypeOK
  <2> QED
    BY <2>1, <2>2, PathsStay DEF SweepInv, After, CFGBuilt, Exact
<1>5. CASE computeDominanceFrontiers
  <2>1. /\ UNCHANGED <<targets, successors, predecessors, dominators, at, changed, idom>>
        /\ phase = "frontier" /\ phase' = "done" /\ frontier' \in [Block -> SUBSET Block]
    BY <1>5 DEF computeDominanceFrontiers
  <2>2. TypeOK'
    BY <1>0, <2>1 DEF TypeOK
  <2> QED
    BY <2>1, <2>2, PathsStay DEF SweepInv, After, CFGBuilt, Exact
<1>6. CASE UNCHANGED vars
  <2>1. UNCHANGED <<targets, successors, predecessors, dominators, at, changed, idom, frontier, phase>>
    BY <1>6 DEF vars
  <2>2. TypeOK'
    BY <1>0, <2>1 DEF TypeOK
  <2> QED
    BY <2>1, <2>2, PathsStay DEF SweepInv, After, CFGBuilt, Exact, NothingLost, PassedStable, newDom
<1> QED
  BY <1>1, <1>2, <1>3, <1>4, <1>5, <1>6 DEF Next

\* The sweeps never strike out a dominator, and what is left when they stop
\* are the blocks every path from the entry goes through, for every graph.
THEOREM SweepsComputeDominators == Spec => []DominatorsExact
<1>1. Init => SweepInv
  BY SweepInit
<1>2. SweepInv /\ [Next]_vars => SweepInv'
  BY SweepNext
<1>3. SweepInv => DominatorsExact
  BY DEF SweepInv, DominatorsExact, NothingLost, Exact, After
<1> QED
  BY <1>1, <1>2, <1>3, PTL DEF Spec

(***************************************************************************)
(* Immediate dominators.                                                   *)
(***************************************************************************)
Rank(c) == Cardinality(dominators[c])

Analysed == Graph /\ Exact /\ dominators \in [Block -> SUBSET Block]

LEMMA RankBound ==
    ASSUME Analysed
    PROVE  \A c \in Block : Rank(c) \in Nat /\ Rank(c) <= N /\ IsFiniteSet(dominators[c])
<1>1. IsFiniteSet(Block) /\ Cardinality(Block) = N
  <2>1. IsFiniteSet(Block) /\ Cardinality(Block) = IF 1 > N THEN 0 ELSE N - 1 + 1
    BY NAssumption, FS_Interval DEF Block
  <2> QED
    BY <2>1, NAssumption
<1>2. \A c \in Block : dominators[c] \in SUBSET Block
  BY DEF Analysed
<1>3. \A c \in Block : IsFiniteSet(dominators[c]) /\ Cardinality(dominators[c]) <= N
  BY <1>1, <1>2, FS_Subset
<1> QED
  BY <1>3, FS_CardinalityType DEF Rank

\* A block has more dominators than one that strictly dominates it.
LEMMA RankGrows ==
    ASSUME Analysed, NEW d \in Block, NEW o \in Block, Dom(d, o), d # o
    PROVE  Rank(d) < Rank(o)
<1>1. dominators[d] \in SUBSET dominators[o]
  <2>1. \A x \in dominators[d] : x \in Block /\ Dom(x, d)
    BY DEF Analysed, Exact
  <2>2. \A x \in Block : Dom(x, d) => Dom(x, o)
    BY DomTransitive DEF Analysed
  <2> QED
    BY <2>1, <2>2 DEF Analysed, Exact
<1>2. o \in dominators[o] /\ o \notin dominators[d]
  <2>1. Dom(o, o)
    BY DEF Dom
  <2>2. ~Dom(o, d)
    BY DomAntisymmetric DEF Analysed
  <2> QED
    BY <2>1, <2>2 DEF Analysed, Exact
<1>3. /\ Cardinality(dominators[d]) <= Cardinality(dominators[o])
      /\ Cardinality(dominators[o]) = Cardinality(dominators[d]) => dominators[o] = dominators[d]
  BY <1>1, RankBound, FS_Subset
<1> QED
  BY <1>2, <1>3, RankBound DEF Rank

\* idom is as computeImmediateDominators leaves it.
IdomChosen ==
    \A c \in Block : IF Immediate(c) = {} THEN idom[c] = NoBlock ELSE idom[c] \in Immediate(c)

\* Every block but the entry has an immediate dominator.
LEMMA ImmediateExists ==
    ASSUME Analysed, NEW c \in Block, c # Entry
    PROVE  Immediate(c) # {}
<1> DEFINE S == dominators[c] \ {c}
           T == {k \in Nat : \E x \in S : k = N - Rank(x)}
<1>1. Entry \in S /\ S \subseteq Block
  BY GraphFacts, DomEntry DEF Analysed, Exact
<1>2. T # {} /\ T \in SUBSET Nat
  <2>1. N - Rank(Entry) \in Nat
    BY <1>1, RankBound, NAssumption
  <2> QED
    BY <1>1, <2>1
<1>3. PICK m \in T : \A k \in T : m <= k
  <2> HIDE DEF T
  <2> QED
    BY <1>2, LeastElement
<1>4. PICK d \in S : m = N - Rank(d)
  BY <1>3
<1>5. ASSUME NEW o \in S, o # d
      PROVE  d \notin dominators[o]
  <2>1. d \in Block /\ o \in Block /\ Rank(d) \in Nat /\ Rank(o) \in Nat /\ Rank(o) <= N /\ N \in Nat
    BY <1>1, <1>4, <1>5, RankBound, NAssumption
  <2>2. N - Rank(o) \in T
    BY <1>5, <2>1
  <2>3. Rank(o) <= Rank(d)
    BY <1>3, <1>4, <2>1, <2>2
  <2>4. ~Dom(d, o)
    BY <1>5, <2>1, <2>3, RankGrows
  <2> QED
    BY <2>1, <2>4 DEF Analysed, Exact
<1>6. d \in Immediate(c)
  BY <1>4, <1>5 DEF Immediate
<1> QED
  BY <1>6

\* What idom is: the closest strict dominator.
Closest(c) ==
    /\ idom[c] \in Block /\ idom[c] # c
    /\ Immediate(c) = {idom[c]}
    /\ Dom(idom[c], c)
    /\ \A d \in Block \ {c} : Dom(d, c) => Dom(d, idom[c])

LEMMA IdomClosest ==
    ASSUME Analysed, IdomChosen
    PROVE  idom[Entry] = NoBlock /\ \A c \in Block \ {Entry} : Closest(c)
<1>1. idom[Entry] = NoBlock
  <2>1. \A d \in dominators[Entry] : d = Entry
    BY GraphFacts, DomEntry DEF Analysed, Exact
  <2>2. Immediate(Entry) = {}
    BY <2>1 DEF Immediate
  <2> QED
    BY <2>2, GraphFacts DEF IdomChosen, Analysed
<1>2. ASSUME NEW c \in Block \ {Entry}
      PROVE  Closest(c)
  <2> DEFINE i == idom[c]
  <2>1. i \in Immediate(c)
    BY <1>2, ImmediateExists DEF IdomChosen
  <2>2. /\ i \in Block /\ i # c /\ Dom(i, c)
        /\ \A o \in dominators[c] \ {c, i} : i \notin dominators[o]
    BY <2>1 DEF Immediate, Analysed, Exact
  <2>3. \A o \in Block : o # c /\ o # i /\ Dom(o, c) => ~Dom(i, o)
    BY <2>2 DEF Analysed, Exact
  <2>4. \A d \in Block \ {c} : Dom(d, c) => Dom(d, i)
    <3>1. SUFFICES ASSUME NEW d \in Block \ {c}, Dom(d, c) PROVE Dom(d, i)
      OBVIOUS
    <3>2. CASE d = i
      BY <3>2 DEF Dom
    <3>3. CASE d # i
      BY <2>2, <2>3, <3>1, <3>3, DomTotal DEF Analysed
    <3> QED
      BY <3>2, <3>3
  <2>5. ASSUME NEW e \in Immediate(c) PROVE e = i
    <3>1. /\ e \in Block /\ e # c /\ Dom(e, c)
          /\ \A o \in dominators[c] \ {c, e} : e \notin dominators[o]
      BY <2>5 DEF Immediate, Analysed, Exact
    <3>2. Dom(e, i)
      BY <2>4, <3>1
    <3>3. i \in dominators[c] \ {c} /\ e \in dominators[i]
      BY <2>2, <3>1, <3>2 DEF Analysed, Exact
    <3> QED
      BY <3>1, <3>3
  <2>6. Immediate(c) = {i}
    BY <2>1, <2>5
  <2> QED
    BY <2>2, <2>4, <2>6 DEF Closest
<1> QED
  BY <1>1, <1>2

IdomInv ==
    /\ SweepInv
    /\ phase \in {"frontier", "done"} => IdomChosen

LEMMA IdomNext ==
    ASSUME IdomInv, [Next]_vars PROVE IdomInv'
<1>1. SweepInv'
  BY SweepNext DEF IdomInv
<1>2. CASE computeImmediateDominators
  <2>1. /\ UNCHANGED dominators
        /\ \A c \in Block : IF Immediate(c) = {} THEN idom'[c] = NoBlock
                                                 ELSE idom'[c] \in Immediate(c)
    BY <1>2 DEF computeImmediateDominators
  <2>2. \A c \in Block : Immediate(c)' = Immediate(c)
    BY <2>1 DEF Immediate
  <2>3. IdomChosen'
    BY <2>1, <2>2 DEF IdomChosen
  <2> QED
    BY <1>1, <2>3 DEF IdomInv
<1>3. CASE computeDominanceFrontiers \/ UNCHANGED vars
  <2>1. UNCHANGED <<dominators, idom>> /\ (phase' \in {"frontier", "done"} => phase \in {"frontier", "done"})
    BY <1>3 DEF computeDominanceFrontiers, vars
  <2>2. \A c \in Block : Immediate(c)' = Immediate(c)
    BY <2>1 DEF Immediate
  <2>3. phase' \in {"frontier", "done"} => IdomChosen'
    BY <2>1, <2>2 DEF IdomChosen, IdomInv
  <2> QED
    BY <1>1, <2>3 DEF IdomInv
<1>4. CASE buildCFG \/ SweepBlock \/ EndSweep
  <2>1. phase' \in {"sweep", "idom"}
    BY <1>4 DEF buildCFG, SweepBlock, EndSweep
  <2> QED
    BY <1>1, <2>1 DEF IdomInv
<1> QED
  BY <1>2, <1>3, <1>4 DEF Next

LEMMA InvAnalysed ==
    ASSUME IdomInv, phase \in {"frontier", "done"}
    PROVE  Analysed /\ CFGBuilt /\ idom[Entry] = NoBlock /\ \A c \in Block \ {Entry} : Closest(c)
<1>1. Analysed /\ CFGBuilt /\ IdomChosen
  BY DEF IdomInv, SweepInv, TypeOK, After, Analysed
<1> QED
  BY <1>1, IdomClosest

\* computeImmediateDominators leaves a tree rooted at the entry, for every
\* graph: one candidate per block, and it is the closest strict dominator.
THEOREM ImmediateDominatorsFormTree == Spec => []IdomIsTree
<1>1. Init => IdomInv
  BY SweepInit DEF IdomInv, Init
<1>2. IdomInv /\ [Next]_vars => IdomInv'
  BY IdomNext
<1>3. IdomInv => IdomIsTree
  BY InvAnalysed DEF IdomIsTree, Closest
<1> QED
  BY <1>1, <1>2, <1>3, PTL DEF Spec

(***************************************************************************)
(* Dominance frontiers.  Runners(p, c) is the least set that holds p and   *)
(* is closed under idom, stopping before idom[c].                          *)
(***************************************************************************)
First(p, c) == IF p # idom[c] THEN {p} ELSE {}
Climbed(R, c) == R \cup ({idom[r] : r \in R} \ {idom[c], NoBlock})

IsClimb(g, p, c) ==
    /\ Runners(p, c) = g[N]
    /\ g[0] = First(p, c)
    /\ \A k \in Nat : g[k + 1] = Climbed(g[k], c)
    /\ \A k \in Nat : g[k] \in SUBSET Block

LEMMA ClimbedIs ==
    ASSUME NEW R, NEW c, NEW y
    PROVE  y \in Climbed(R, c) <=>
             y \in R \/ (y # idom[c] /\ y # NoBlock /\ \E r \in R : y = idom[r])
<1> DEFINE U == {idom[r] : r \in R}
<1>1. y \in U <=> \E r \in R : y = idom[r]
  OBVIOUS
<1>2. Climbed(R, c) = R \cup (U \ {idom[c], NoBlock})
  BY DEF Climbed
<1> HIDE DEF U
<1> QED
  BY <1>1, <1>2

LEMMA ClimbedStays ==
    ASSUME idom \in [Block -> Block \cup {NoBlock}], NEW c
    PROVE  \A R \in SUBSET Block : Climbed(R, c) \in SUBSET Block
<1> SUFFICES ASSUME NEW R \in SUBSET Block, NEW y \in Climbed(R, c)
             PROVE  y \in Block
  OBVIOUS
<1>1. y \in R \/ (y # NoBlock /\ \E r \in R : y = idom[r])
  BY ClimbedIs
<1>2. \A r \in R : idom[r] \in Block \cup {NoBlock}
  OBVIOUS
<1> QED
  BY <1>1, <1>2

LEMMA ClimbExists ==
    ASSUME idom \in [Block -> Block \cup {NoBlock}], NEW p \in Block, NEW c \in Block
    PROVE  \E g : IsClimb(g, p, c)
<1> DEFINE S == SUBSET Block
           base == First(p, c)
           step == [R \in S |-> Climbed(R, c)]
           Body(f) == [k \in Nat |->
               IF k = 0 THEN IF p # idom[c] THEN {p} ELSE {}
               ELSE f[k - 1] \cup ({idom[r] : r \in f[k - 1]} \ {idom[c], NoBlock})]
           run == CHOOSE f : f = Body(f)
<1>1. step \in [S -> S] /\ base \in S
  BY ClimbedStays DEF First
<1>2. PICK f : IsIteration(f, S, base, step)
  <2> HIDE DEF S, step, base
  <2> QED
    BY <1>1, RecursionExists
<1>3. f \in [Nat -> S] /\ f[0] = base /\ \A k \in Nat : f[k + 1] = step[f[k]]
  BY <1>2 DEF IsIteration
<1>4. ASSUME NEW k \in Nat
      PROVE  f[k] = Body(f)[k]
  <2>1. CASE k = 0
    BY <1>3, <2>1 DEF First
  <2>2. CASE k # 0
    <3>1. k - 1 \in Nat /\ (k - 1) + 1 = k
      BY <2>2
    <3>2. f[k] = step[f[k - 1]] /\ f[k - 1] \in S
      BY <1>3, <3>1
    <3> QED
      BY <2>2, <3>1, <3>2 DEF Climbed
  <2> QED
    BY <2>1, <2>2
<1>5. f = Body(f)
  BY <1>3, <1>4, Zenon
<1>6. run = Body(run)
  <2> HIDE DEF Body
  <2> QED
    BY <1>5, Zenon
<1>7. Runners(p, c) = run[N]
  BY DEF Runners
<1> HIDE DEF run
<1>8. run[0] = base /\ \A k \in Nat : run[k + 1] = Climbed(run[k], c)
  <2>1. run[0] = Body(run)[0] /\ \A k \in Nat : run[k + 1] = Body(run)[k + 1]
    BY <1>6
  <2>2. ASSUME NEW k \in Nat
        PROVE  k + 1 \in Nat /\ k + 1 # 0 /\ (k + 1) - 1 = k
    OBVIOUS
  <2>3. ASSUME NEW k \in Nat
        PROVE  Body(run)[k + 1] = Climbed(run[k], c)
    BY <2>2 DEF Climbed
  <2>4. Body(run)[0] = base
    BY DEF First
  <2> QED
    BY <2>1, <2>3, <2>4
<1> HIDE DEF Body
<1> DEFINE G == {k \in Nat : run[k] \in S}
<1>9. 0 \in G
  BY <1>1, <1>8
<1>10. ASSUME NEW k \in Nat, k \in G
       PROVE  k + 1 \in G
  BY <1>8, <1>10, ClimbedStays
<1>11. \A k \in Nat : k \in G
  <2> HIDE DEF G
  <2> QED
    BY <1>9, <1>10, SetInduction
<1>12. IsClimb(run, p, c)
  BY <1>7, <1>8, <1>11 DEF IsClimb
<1> QED
  BY <1>12

LEMMA RunnersClosed ==
    ASSUME idom \in [Block -> Block \cup {NoBlock}], NEW p \in Block, NEW c \in Block
    PROVE  /\ Runners(p, c) \subseteq Block
           /\ p # idom[c] => p \in Runners(p, c)
           /\ \A r \in Runners(p, c) :
                idom[r] # idom[c] /\ idom[r] # NoBlock => idom[r] \in Runners(p, c)
<1>1. PICK g : IsClimb(g, p, c)
  BY ClimbExists
<1>2. /\ Runners(p, c) = g[N] /\ g[0] = First(p, c)
      /\ \A k \in Nat : g[k + 1] = Climbed(g[k], c) /\ g[k] \in SUBSET Block
  BY <1>1 DEF IsClimb
<1>3. IsFiniteSet(Block) /\ Cardinality(Block) = N
  <2>1. IsFiniteSet(Block) /\ Cardinality(Block) = IF 1 > N THEN 0 ELSE N - 1 + 1
    BY NAssumption, FS_Interval DEF Block
  <2> QED
    BY <2>1, NAssumption
<1>4. IsGrowth(g, Block)
  <2>1. \A k \in Nat : g[k] \in SUBSET Block /\ g[k] \subseteq g[k + 1]
    BY <1>2 DEF Climbed
  <2>2. ASSUME NEW k \in Nat, g[k + 1] = g[k]
        PROVE  g[(k + 1) + 1] = g[k + 1]
    <3>1. g[(k + 1) + 1] = Climbed(g[k + 1], c) /\ g[k + 1] = Climbed(g[k], c)
      BY <1>2
    <3> QED
      BY <2>2, <3>1
  <2> QED
    BY <2>1, <2>2 DEF IsGrowth
<1>5. g[N + 1] = g[N]
  BY <1>3, <1>4, NAssumption, Saturation
<1>6. g[N] = Climbed(g[N], c) /\ N \in Nat /\ g[N] \in SUBSET Block
  BY <1>2, <1>5, NAssumption
<1>7. p # idom[c] => p \in g[N]
  <2> DEFINE G == {k \in Nat : p # idom[c] => p \in g[k]}
  <2>1. 0 \in G
    BY <1>2 DEF First
  <2>2. ASSUME NEW k \in Nat, k \in G PROVE k + 1 \in G
    BY <1>2, <2>2 DEF Climbed
  <2>3. N \in G
    <3> HIDE DEF G
    <3> QED
      BY <1>6, <2>1, <2>2, SetInduction
  <2> QED
    BY <2>3
<1>8. ASSUME NEW r \in g[N], idom[r] # idom[c], idom[r] # NoBlock
      PROVE  idom[r] \in g[N]
  <2>1. idom[r] \in Climbed(g[N], c)
    BY <1>8, ClimbedIs
  <2> QED
    BY <1>6, <2>1
<1> QED
  BY <1>2, <1>6, <1>7, <1>8

LEMMA RunnersLeast ==
    ASSUME idom \in [Block -> Block \cup {NoBlock}], NEW p \in Block, NEW c \in Block, NEW T,
           p # idom[c] => p \in T,
           \A r \in T : r \in Block /\ idom[r] # idom[c] /\ idom[r] # NoBlock => idom[r] \in T
    PROVE  Runners(p, c) \subseteq T
<1>1. PICK g : IsClimb(g, p, c)
  BY ClimbExists
<1>2. /\ Runners(p, c) = g[N] /\ g[0] = First(p, c)
      /\ \A k \in Nat : g[k + 1] = Climbed(g[k], c) /\ g[k] \in SUBSET Block
  BY <1>1 DEF IsClimb
<1> DEFINE G == {k \in Nat : g[k] \subseteq T}
<1>3. 0 \in G
  BY <1>2 DEF First
<1>4. ASSUME NEW k \in Nat, k \in G PROVE k + 1 \in G
  <2>1. ASSUME NEW y \in g[k + 1] PROVE y \in T
    <3>1. y \in g[k] \/ (y # idom[c] /\ y # NoBlock /\ \E r \in g[k] : y = idom[r])
      BY <1>2, ClimbedIs
    <3>2. \A r \in g[k] : r \in Block /\ r \in T
      BY <1>2, <1>4
    <3> QED
      BY <3>1, <3>2
  <2> QED
    BY <2>1
<1>5. N \in G
  <2> HIDE DEF G
  <2> QED
    BY <1>3, <1>4, NAssumption, SetInduction
<1> QED
  BY <1>2, <1>5

\* idom is the dominator tree.
Tree ==
    /\ Analysed
    /\ idom \in [Block -> Block \cup {NoBlock}]
    /\ idom[Entry] = NoBlock
    /\ \A c \in Block \ {Entry} : Closest(c)

Strict(r, c) == Dom(r, c) /\ r # c

\* The runner from a predecessor p of c visits the blocks that dominate p but
\* not, strictly, c.
LEMMA RunnersAre ==
    ASSUME Tree, NEW c \in Block \ {Entry}, NEW p \in Block, c \in targets[p], NEW r \in Block
    PROVE  r \in Runners(p, c) <=> Dom(r, p) /\ ~Strict(r, c)
<1> DEFINE i == idom[c]
           R == Runners(p, c)
<1>0. Analysed /\ Graph /\ idom \in [Block -> Block \cup {NoBlock}] /\ NoBlock \notin Block
  BY NAssumption DEF Tree, Analysed, Block
<1>1. /\ i \in Block /\ i # c /\ Dom(i, c) /\ Dom(i, p)
      /\ \A d \in Block \ {c} : Dom(d, c) => Dom(d, i)
  <2>1. /\ i \in Block /\ i # c /\ Dom(i, c)
        /\ \A d \in Block \ {c} : Dom(d, c) => Dom(d, i)
    BY DEF Tree, Closest
  <2> QED
    BY <1>0, <2>1, DomPredecessor
<1>2. ASSUME NEW x \in Block, Dom(x, i) PROVE Strict(x, c)
  <2>1. Dom(x, c)
    BY <1>0, <1>1, <1>2, DomTransitive
  <2>2. x # c
    BY <1>0, <1>1, <1>2, DomAntisymmetric
  <2> QED
    BY <2>1, <2>2 DEF Strict
<1>3. R \subseteq {x \in Block : Dom(x, p) /\ ~Strict(x, c)}
  <2> DEFINE T == {x \in Block : Dom(x, p) /\ ~Strict(x, c)}
  <2>1. p # i => p \in T
    <3>1. SUFFICES ASSUME p # i, Dom(p, c), p # c PROVE FALSE
      BY DEF Dom, Strict
    <3>2. Dom(p, i)
      BY <1>1, <3>1
    <3> QED
      BY <1>0, <1>1, <3>1, <3>2, DomAntisymmetric
  <2>2. ASSUME NEW x \in T, idom[x] # i, idom[x] # NoBlock
        PROVE  idom[x] \in T
    <3> DEFINE y == idom[x]
    <3>1. x \in Block /\ x # Entry /\ Dom(x, p) /\ ~Strict(x, c)
      BY <2>2 DEF Tree
    <3>2. /\ y \in Block /\ y # x /\ Dom(y, x)
          /\ \A d \in Block \ {x} : Dom(d, x) => Dom(d, y)
      BY <3>1 DEF Tree, Closest
    <3>3. Dom(y, p)
      BY <1>0, <3>1, <3>2, DomTransitive
    <3>4. ~Strict(y, c)
      <4>1. SUFFICES ASSUME Dom(y, c), y # c PROVE FALSE
        BY DEF Strict
      <4>2. Dom(y, i)
        BY <1>1, <3>2, <4>1
      <4>3. ~Dom(x, i)
        BY <1>2, <3>1
      <4>4. Dom(i, x) /\ i # x
        BY <1>0, <1>1, <3>1, <4>3, DomTotal DEF Strict
      <4>5. Dom(i, y)
        BY <1>1, <3>2, <4>4
      <4> QED
        BY <1>0, <1>1, <2>2, <3>2, <4>2, <4>5, DomAntisymmetric
    <3> QED
      BY <3>2, <3>3, <3>4
  <2> HIDE DEF T
  <2>3. Runners(p, c) \subseteq T
    BY <1>0, <2>1, <2>2, RunnersLeast
  <2> QED
    BY <2>3 DEF T
<1>4. ASSUME Dom(r, p), ~Strict(r, c), r \notin R PROVE FALSE
  <2> DEFINE Q == {k \in Nat : \E x \in R : Dom(r, x) /\ k = Rank(x)}
  <2>1. /\ R \subseteq Block /\ (p # i => p \in R)
        /\ \A x \in R : idom[x] # i /\ idom[x] # NoBlock => idom[x] \in R
    BY <1>0, RunnersClosed
  <2>2. ~Dom(r, i)
    BY <1>2, <1>4
  <2>3. p \in R
    BY <1>4, <2>1, <2>2
  <2>4. Q \in SUBSET Nat /\ Q # {}
    BY <1>0, <1>4, <2>3, RankBound
  <2>5. PICK m \in Q : \A k \in Q : m <= k
    <3> HIDE DEF Q
    <3> QED
      BY <2>4, LeastElement
  <2>6. PICK x \in R : Dom(r, x) /\ m = Rank(x)
    BY <2>5
  <2>7. x \in Block /\ x # r /\ x # Entry
    BY <1>0, <1>4, <2>1, <2>6, DomEntry
  <2> DEFINE y == idom[x]
  <2>8. /\ y \in Block /\ y # x /\ Dom(y, x) /\ Dom(r, y)
    BY <2>6, <2>7 DEF Tree, Closest
  <2>9. y \in R
    BY <1>0, <2>1, <2>2, <2>6, <2>8
  <2>10. Rank(y) \in Q /\ Rank(y) < Rank(x)
    BY <1>0, <2>7, <2>8, <2>9, RankBound, RankGrows
  <2>11. Rank(x) \in Nat /\ Rank(y) \in Nat
    BY <1>0, <2>7, <2>8, RankBound
  <2> HIDE DEF Q, y
  <2> QED
    BY <2>5, <2>6, <2>10, <2>11
<1> QED
  BY <1>3, <1>4

\* A block whose dominance ends at c, or c itself, does not dominate all
\* predecessors of c.
LEMMA AnotherPredecessor ==
    ASSUME Graph, NEW c \in Block \ {Entry}, NEW r \in Block, ~Strict(r, c)
    PROVE  \E p \in Block : c \in targets[p] /\ ~Dom(r, p)
<1>1. CASE r # c
  BY <1>1, DomFromPredecessors DEF Strict
<1>2. CASE r = c
  <2>1. SUFFICES ASSUME \A p \in Block : c \in targets[p] => Dom(c, p) PROVE FALSE
    BY <1>2
  <2> DEFINE T == Reached({c})
  <2>2. Entry \in T /\ T \subseteq Block /\ c \notin T
    BY GraphFacts, ReachedClosed
  <2>3. ASSUME NEW x \in T, NEW y \in targets[x]
        PROVE  y \in T
    <3>1. x \in Block /\ ~Dom(c, x)
      BY <2>2, NotDom
    <3>2. y # c
      BY <2>1, <3>1
    <3> QED
      BY <3>2, ReachedStep
  <2>4. Block \subseteq T
    <3> HIDE DEF T
    <3> QED
      BY <2>2, <2>3, AllBlocks
  <2> QED
    BY <2>2, <2>4
<1> QED
  BY <1>1, <1>2

LEMMA TwoElements ==
    ASSUME NEW S, IsFiniteSet(S), NEW x \in S, NEW y \in S, x # y
    PROVE  Cardinality(S) >= 2
<1>1. IsFiniteSet({x}) /\ Cardinality({x}) = 1
  BY FS_Singleton
<1>2. Cardinality({x} \cup {y}) = 2
  <2>1. Cardinality({x} \cup {y}) = IF y \in {x} THEN Cardinality({x}) ELSE Cardinality({x}) + 1
    BY <1>1, FS_AddElement
  <2> QED
    BY <1>1, <2>1
<1>3. {x} \cup {y} \in SUBSET S
  OBVIOUS
<1>4. Cardinality({x} \cup {y}) <= Cardinality(S) /\ Cardinality(S) \in Nat
  BY <1>3, FS_Subset, FS_CardinalityType
<1> QED
  BY <1>2, <1>4

\* The blocks computeDominanceFrontiers puts into the frontier of r.
Frontier(r) ==
    {c \in Block : /\ Cardinality(predecessors[c]) >= 2
                   /\ \E p \in predecessors[c] : r \in Runners(p, c)}

LEMMA FrontierIs ==
    ASSUME Tree, CFGBuilt, NEW r \in Block, NEW c \in Block
    PROVE  c \in Frontier(r) <=> (\E p \in predecessors[c] : Dom(r, p)) /\ ~Strict(r, c)
<1>1. predecessors[c] = {p \in Block : c \in targets[p]}
  BY DEF CFGBuilt
<1>2. Graph
  BY DEF Tree, Analysed
<1>3. CASE c = Entry
  <2>1. predecessors[c] = {}
    BY <1>1, <1>2, <1>3, GraphFacts
  <2> QED
    BY <2>1 DEF Frontier
<1>4. CASE c # Entry
  <2>1. \A p \in predecessors[c] : r \in Runners(p, c) <=> Dom(r, p) /\ ~Strict(r, c)
    BY <1>1, <1>4, RunnersAre
  <2>2. ASSUME NEW p \in predecessors[c], Dom(r, p), ~Strict(r, c)
        PROVE  Cardinality(predecessors[c]) >= 2
    <3>1. PICK q \in Block : c \in targets[q] /\ ~Dom(r, q)
      BY <1>2, <1>4, <2>2, AnotherPredecessor
    <3>2. q \in predecessors[c] /\ q # p
      BY <1>1, <2>2, <3>1
    <3>3. IsFiniteSet(predecessors[c])
      <4>1. IsFiniteSet(Block)
        BY NAssumption, FS_Interval DEF Block
      <4>2. predecessors[c] \in SUBSET Block
        BY <1>1
      <4> QED
        BY <4>1, <4>2, FS_Subset
    <3> QED
      BY <3>2, <3>3, TwoElements
  <2> QED
    BY <2>1, <2>2 DEF Frontier
<1> QED
  BY <1>3, <1>4

FrontierInv ==
    /\ IdomInv
    /\ phase = "done" => frontier = [r \in Block |-> Frontier(r)]

LEMMA FrontierNext ==
    ASSUME FrontierInv, [Next]_vars PROVE FrontierInv'
<1>1. IdomInv'
  BY IdomNext DEF FrontierInv
<1>2. SUFFICES ASSUME phase' = "done" PROVE frontier' = [r \in Block |-> Frontier(r)']
  BY <1>1 DEF FrontierInv
<1>3. ASSUME UNCHANGED <<idom, predecessors>>
      PROVE  \A r : Frontier(r)' = Frontier(r)
  <2>1. \A p, c : Runners(p, c)' = Runners(p, c)
    BY <1>3 DEF Runners
  <2> QED
    BY <1>3, <2>1 DEF Frontier
<1>4. CASE computeDominanceFrontiers
  <2>1. UNCHANGED <<idom, predecessors>> /\ frontier' = [r \in Block |-> Frontier(r)]
    BY <1>4 DEF computeDominanceFrontiers, Frontier
  <2> QED
    BY <1>3, <2>1
<1>5. CASE UNCHANGED vars
  <2>1. UNCHANGED <<idom, predecessors, frontier, phase>>
    BY <1>5 DEF vars
  <2> QED
    BY <1>2, <1>3, <2>1 DEF FrontierInv
<1> QED
  BY <1>2, <1>4, <1>5 DEF Next, buildCFG, SweepBlock, EndSweep, computeImmediateDominators

\* computeDominanceFrontiers finds, for every graph, exactly the blocks where
\* the dominance of a block ends, although it looks only at joins.
THEOREM FrontiersExact == Spec => []FrontierExact
<1>1. Init => FrontierInv
  BY SweepInit DEF IdomInv, FrontierInv, Init
<1>2. FrontierInv /\ [Next]_vars => FrontierInv'
  BY FrontierNext
<1>3. FrontierInv => FrontierExact
  <2>1. SUFFICES ASSUME FrontierInv, phase = "done", NEW r \in Block, NEW c \in Block
                 PROVE  c \in frontier[r] <=> /\ \E p \in predecessors[c] : Dom(r, p)
                                              /\ ~(Dom(r, c) /\ r # c)
    BY DEF FrontierExact
  <2>2. Tree /\ CFGBuilt
    BY <2>1, InvAnalysed DEF FrontierInv, IdomInv, SweepInv, TypeOK, Tree
  <2>3. frontier[r] = Frontier(r)
    BY <2>1 DEF FrontierInv
  <2> QED
    BY <2>2, <2>3, FrontierIs DEF Strict
<1> QED
  BY <1>1, <1>2, <1>3, PTL DEF Spec

=============================================================================
