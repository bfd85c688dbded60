----------------------- MODULE GraphColoringAllocator -----------------------
(***************************************************************************)
(* Graph-colouring register allocation                                     *)
(* (src/src/backend/regalloc/GraphColoring.hpp): build the interference    *)
(* graph of the intervals, remove nodes one by one onto a stack, then pop  *)
(* them and give each the first register none of its neighbours has.       *)
(*                                                                         *)
(* The graph is an unordered_map: of the nodes a loop could stop at, any   *)
(* may come first.  A node is the index of its interval.                   *)
(***************************************************************************)
EXTENDS Integers, Sequences, FiniteSets, SequencesExt

CONSTANTS
    availableGPRs,    \* sequences of register ids, in the order tried
    availableFPRs,
    NoColor           \* color = -1

VARIABLES
    intervals,           \* the input: a sequence of [var, start, end, float]
    neighbors,
    selectStack,
    phase,               \* "simplify", "select", "done"
    color,
    slot,                \* stackOffset, 0 for a node in a register
    currentSpillOffset,
    doubtful             \* history: the nodes removed although their degree was too high

Node == DOMAIN intervals

\* Every variable has its type, and no node is on the stack twice.
TypeOK ==
    /\ neighbors \in [Node -> SUBSET Node]
    /\ selectStack \in Seq(Node) /\ Len(selectStack) <= Len(intervals)
    /\ phase \in {"simplify", "select", "done"}
    /\ color \in [Node -> ToSet(availableGPRs) \cup ToSet(availableFPRs) \cup {NoColor}]
    /\ slot \in [Node -> Int]
    /\ currentSpillOffset \in Int
    /\ doubtful \subseteq Node

\* LiveInterval::overlaps
overlaps(a, b) == ~(a.end < b.start \/ a.start > b.end)

\* allocate is called: the interference graph of the intervals.
Begin(list) ==
    /\ intervals' = list
    /\ neighbors' = [v \in DOMAIN list |-> {u \in DOMAIN list \ {v} : overlaps(list[u], list[v])}]
    /\ selectStack' = <<>>
    /\ phase' = "simplify"
    /\ color' = [v \in DOMAIN list |-> NoColor]
    /\ slot' = [v \in DOMAIN list |-> 0]
    /\ currentSpillOffset' = 0
    /\ doubtful' = {}

(***************************************************************************)
(* Simplify: remove a node of low degree or, if there is none, one of      *)
(* greatest degree.                                                        *)
(***************************************************************************)
Remaining == Node \ ToSet(selectStack)
Degree(v) == Cardinality(neighbors[v] \cap Remaining)
kLimit(v) == Len(IF intervals[v].float THEN availableFPRs ELSE availableGPRs)
Low == {v \in Remaining : Degree(v) < kLimit(v)}

PushNode(v) ==
    /\ selectStack' = Append(selectStack, v)
    /\ UNCHANGED <<intervals, neighbors, color, slot, currentSpillOffset>>

Simplify_Forgets ==              \* mutant: no fallback when every degree is high
    /\ phase = "simplify"
    /\ Remaining # {}
    /\ \E v \in Low : PushNode(v)
    /\ UNCHANGED <<phase, doubtful>>

Simplify ==
    /\ phase = "simplify"
    /\ Remaining # {}
    /\ \/ \E v \in Low : PushNode(v) /\ UNCHANGED doubtful
       \/ /\ Low = {}
          /\ \E v \in Remaining :
                /\ \A u \in Remaining : Degree(u) <= Degree(v)
                /\ PushNode(v)
                /\ doubtful' = doubtful \cup {v}
    /\ UNCHANGED phase

EndSimplify ==
    /\ phase = "simplify"
    /\ Remaining = {}
    /\ phase' = IF Node = {} THEN "done" ELSE "select"
    /\ UNCHANGED <<intervals, neighbors, selectStack, color, slot, currentSpillOffset, doubtful>>

(***************************************************************************)
(* Select: pop a node and colour it, or spill it.  Line 113 offers every   *)
(* node, float or not, the floating-point registers.                       *)
(***************************************************************************)
colorsPool(v) == IF intervals[v].float THEN availableFPRs ELSE availableFPRs

usedColors(v) == {color[u] : u \in neighbors[v]} \ {NoColor}

SpillOffset_Fixed == -8          \* mutant: every spill gets the same slot
SpillOffset == currentSpillOffset - 8

\* The first register of the pool that no neighbour has.
FirstFree(v) ==
    {c \in DOMAIN colorsPool(v) :
        /\ colorsPool(v)[c] \notin usedColors(v)
        /\ \A b \in 1 .. c - 1 : colorsPool(v)[b] \in usedColors(v)}

ColorNode(v, c) ==
    /\ color' = [color EXCEPT ![v] = colorsPool(v)[c]]
    /\ UNCHANGED <<slot, currentSpillOffset>>

SpillNode(v) ==
    /\ currentSpillOffset' = SpillOffset
    /\ slot' = [slot EXCEPT ![v] = SpillOffset]
    /\ UNCHANGED color

Select ==
    /\ phase = "select"
    /\ selectStack # <<>>
    /\ LET v == Last(selectStack)
       IN  IF FirstFree(v) # {} THEN \E c \in FirstFree(v) : ColorNode(v, c) ELSE SpillNode(v)
    /\ selectStack' = Front(selectStack)
    /\ phase' = IF Len(selectStack) = 1 THEN "done" ELSE phase
    /\ UNCHANGED <<intervals, neighbors, doubtful>>

Next == Simplify \/ EndSimplify \/ Select
Finished == phase = "done"

(***************************************************************************)
(* Properties.                                                             *)
(***************************************************************************)

\* A node removed while its degree was below the number of registers of its
\* class is never spilled: only the nodes removed in doubt can be.  This needs
\* every class to be offered at least kLimit registers.
OnlyDoubtfulSpilled == \A v \in Node : slot[v] # 0 => v \in doubtful

=============================================================================
