------------------------------ MODULE Dominance ------------------------------
(***************************************************************************)
(* Dominators, immediate dominators and dominance frontiers of a function  *)
(* (src/src/middleend/opt/Dominance.hpp): sweeps over the blocks in layout *)
(* order until nothing changes, then two passes over the result.           *)
(*                                                                         *)
(* A function is its control-flow graph: block 1 is the entry and targets  *)
(* says where each block's branches go.  As the SSA builder makes them,    *)
(* every block is reachable and no branch goes back to the entry.          *)
(***************************************************************************)
EXTENDS Integers, Sequences, FiniteSets, FiniteSetsExt

CONSTANTS
    N,          \* number of blocks
    NoBlock     \* the empty label

ASSUME NAssumption == N \in Nat \ {0} /\ NoBlock \notin Nat

Block == 1 .. N
Entry == 1

VARIABLES
    targets,        \* the branches of each block
    successors, predecessors,
    dominators,
    at,             \* the block the sweep looks at
    changed,
    idom, frontier,
    phase           \* "cfg", "sweep", "idom", "frontier", "done"

vars == <<targets, successors, predecessors, dominators, at, changed, idom, frontier, phase>>

\* Every variable has its type.
TypeOK ==
    /\ targets \in [Block -> SUBSET Block]
    /\ successors \in [Block -> SUBSET Block]
    /\ predecessors \in [Block -> SUBSET Block]
    /\ dominators \in [Block -> SUBSET Block]
    /\ at \in 1 .. N + 1
    /\ changed \in BOOLEAN
    /\ idom \in [Block -> Block \cup {NoBlock}]
    /\ frontier \in [Block -> SUBSET Block]
    /\ phase \in {"cfg", "sweep", "idom", "frontier", "done"}

\* The blocks that a path from the entry reaches without touching "avoid".
Reached(avoid) ==
    LET grow[k \in Nat] ==
            IF k = 0 THEN {Entry} \ avoid
            ELSE grow[k - 1] \cup ((UNION {targets[c] : c \in grow[k - 1]}) \ avoid)
    IN  grow[N]

Init ==
    /\ targets \in [Block -> {s \in SUBSET (Block \ {Entry}) : Cardinality(s) <= 2}]
    /\ Reached({}) = Block
    /\ successors = [c \in Block |-> {}]
    /\ predecessors = [c \in Block |-> {}]
    /\ dominators = [c \in Block |-> {}]
    /\ at = 1
    /\ changed = FALSE
    /\ idom = [c \in Block |-> NoBlock]
    /\ frontier = [c \in Block |-> {}]
    /\ phase = "cfg"

\* buildCFG, then the entry dominates itself and everything the others.
buildCFG ==
    /\ phase = "cfg"
    /\ successors' = targets
    /\ predecessors' = [c \in Block |-> {p \in Block : c \in targets[p]}]
    /\ dominators' = [c \in Block |-> IF c = Entry THEN {Entry} ELSE Block]
    /\ at' = 2
    /\ phase' = "sweep"
    /\ UNCHANGED <<targets, changed, idom, frontier>>

\* One turn of the inner loop: intersect the predecessors' dominators.
newDom(c) == {c} \cup {d \in Block : \A p \in predecessors[c] : d \in dominators[p]}

SweepBlock ==
    /\ phase = "sweep"
    /\ at <= N
    /\ dominators' = [dominators EXCEPT ![at] = newDom(at)]
    /\ changed' = (changed \/ newDom(at) # dominators[at])
    /\ at' = at + 1
    /\ UNCHANGED <<targets, successors, predecessors, idom, frontier, phase>>

EndSweep_Once ==                         \* mutant: one sweep only
    /\ phase = "sweep"
    /\ at > N
    /\ changed' = FALSE
    /\ phase' = "idom"
    /\ at' = 1
    /\ UNCHANGED <<targets, successors, predecessors, dominators, idom, frontier>>

EndSweep_Forever ==                      \* mutant: changed is never reset
    /\ phase = "sweep"
    /\ at > N
    /\ IF changed THEN at' = 2 /\ UNCHANGED phase ELSE at' = 1 /\ phase' = "idom"
    /\ UNCHANGED <<targets, successors, predecessors, dominators, changed, idom, frontier>>

EndSweep ==                              \* while (changed)
    /\ phase = "sweep"
    /\ at > N
    /\ changed' = FALSE
    /\ IF changed THEN at' = 2 /\ UNCHANGED phase ELSE at' = 1 /\ phase' = "idom"
    /\ UNCHANGED <<targets, successors, predecessors, dominators, idom, frontier>>

\* The dominators of c that dominate no other proper dominator of c.
Immediate_Any(c) == dominators[c] \ {c}  \* mutant: any dominator will do

Immediate(c) ==
    {d \in dominators[c] \ {c} :
        \A o \in dominators[c] \ {c, d} : d \notin dominators[o]}

computeImmediateDominators ==
    /\ phase = "idom"
    /\ idom' \in {f \in [Block -> Block \cup {NoBlock}] :
                    \A c \in Block : IF Immediate(c) = {} THEN f[c] = NoBlock
                                                          ELSE f[c] \in Immediate(c)}
    /\ phase' = "frontier"
    /\ UNCHANGED <<targets, successors, predecessors, dominators, at, changed, frontier>>

\* The blocks a runner visits from p up to, not including, idom[c].
Runners(p, c) ==
    LET run[k \in Nat] ==
            IF k = 0 THEN IF p # idom[c] THEN {p} ELSE {}
            ELSE run[k - 1] \cup ({idom[r] : r \in run[k - 1]} \ {idom[c], NoBlock})
    IN  run[N]

computeDominanceFrontiers_All ==         \* mutant: no test for two predecessors
    /\ phase = "frontier"
    /\ frontier' = [r \in Block |-> {c \in Block : \E p \in predecessors[c] :
                                       r \in Runners(p, c) \cup {p}}]
    /\ phase' = "done"
    /\ UNCHANGED <<targets, successors, predecessors, dominators, at, changed, idom>>

computeDominanceFrontiers ==
    /\ phase = "frontier"
    /\ frontier' = [r \in Block |-> {c \in Block :
                                       /\ Cardinality(predecessors[c]) >= 2
                                       /\ \E p \in predecessors[c] : r \in Runners(p, c)}]
    /\ phase' = "done"
    /\ UNCHANGED <<targets, successors, predecessors, dominators, at, changed, idom>>

Next ==
    \/ buildCFG \/ SweepBlock \/ EndSweep
    \/ computeImmediateDominators \/ computeDominanceFrontiers

Spec == Init /\ [][Next]_vars
FairSpec == Spec /\ WF_vars(Next)

(***************************************************************************)
(* Properties, against the definitions by paths.                           *)
(***************************************************************************)
Dom(d, c) == c = d \/ c \notin Reached({d})

\* At no time during the sweeps has a dominator been struck out, and when they
\* stop, dominators holds exactly the blocks that every path from the entry goes
\* through.  Every variable has its type.
DominatorsExact ==
    /\ TypeOK
    /\ phase = "sweep" => \A c, d \in Block : Dom(d, c) => d \in dominators[c]
    /\ phase \in {"idom", "frontier", "done"} =>
          \A c, d \in Block : d \in dominators[c] <=> Dom(d, c)

\* Every block but the entry has exactly one candidate for idom, and it lies
\* on the way up to the entry: idom is a tree that LICM and Mem2Reg can walk.
IdomIsTree ==
    phase \in {"frontier", "done"} =>
        /\ idom[Entry] = NoBlock
        /\ \A c \in Block \ {Entry} :
              /\ Immediate(c) = {idom[c]}
              /\ Dom(idom[c], c)
              /\ \A d \in Block \ {c} : Dom(d, c) => Dom(d, idom[c])

\* The frontier of r holds exactly the blocks at which r's dominance ends: r
\* dominates a predecessor but not, strictly, the block itself.
FrontierExact ==
    phase = "done" =>
        \A r, c \in Block :
            c \in frontier[r] <=> /\ \E p \in predecessors[c] : Dom(r, p)
                                  /\ ~(Dom(r, c) /\ r # c)

\* The sweeps end.
Terminates == <>(phase = "done")

=============================================================================
