------------------------- MODULE RegisterAllocator -------------------------
(***************************************************************************)
(* RegisterAllocator::allocateFunction                                     *)
(* (src/src/backend/regalloc/RegisterAllocator.hpp): the liveness analysis *)
(* of a function, whose intervals one of the two allocators then places in *)
(* registers and stack slots.                                              *)
(***************************************************************************)
EXTENDS LivenessAnalyzer, FiniteSets, SequencesExt

CONSTANTS
    availableGPRs,      \* the registers of a class, as the allocators list them
    availableFPRs,
    NoReg

ASSUME RegsAssumption ==
    /\ availableGPRs \in Seq(Nat)
    /\ availableFPRs \in Seq(Nat)
    /\ NoReg \notin Nat

VARIABLES
    strategy,
    stage,              \* "liveness" or "allocate"
    intervals, reg, slot, currentSpillOffset,       \* of both allocators
    n, freeGPRs, freeFPRs, active, crossed,         \* of linear scan
    neighbors, selectStack, phase, doubtful         \* of graph colouring

LinearScan ==
    INSTANCE LinearScanAllocator WITH GPRs <- ToSet(availableGPRs), FPRs <- ToSet(availableFPRs)
Coloring == INSTANCE GraphColoringAllocator WITH NoColor <- NoReg, color <- reg

livenessVars == vars
scanVars == <<n, freeGPRs, freeFPRs, active, crossed>>
graphVars == <<neighbors, selectStack, phase, doubtful>>
allocVars == <<livenessVars, strategy, stage, intervals, reg, slot, currentSpillOffset, scanVars, graphVars>>

AllocInit ==
    /\ Init
    /\ strategy \in {"LinearScan", "GraphColoring"}
    /\ stage = "liveness"
    /\ intervals = <<>> /\ reg = <<>> /\ slot = <<>> /\ currentSpillOffset = 0
    /\ n = 0 /\ freeGPRs = {} /\ freeFPRs = {} /\ active = {} /\ crossed = FALSE
    /\ neighbors = <<>> /\ selectStack = <<>> /\ phase = "" /\ doubtful = {}

Analyze ==
    /\ stage = "liveness"
    /\ Scan
    /\ UNCHANGED <<strategy, stage, intervals, reg, slot, currentSpillOffset, scanVars, graphVars>>

\* The intervals of the variables, sorted by their start; defPoints is a hash
\* table and std::sort leaves the order of equal starts open.
Sorted(order) == \A i, j \in DOMAIN order : i < j => defPoints[order[i]] <= defPoints[order[j]]
Listed(order) ==
    [i \in DOMAIN order |->
        [var |-> order[i], start |-> Interval(order[i]).start, end |-> Interval(order[i]).end,
         float |-> order[i] \in func.float]]

Allocate ==
    /\ stage = "liveness" /\ Done
    /\ stage' = "allocate"
    /\ \E order \in SetToSeqs({v \in Var : defPoints[v] # None}) :
          /\ Sorted(order)
          /\ IF strategy = "GraphColoring"
               THEN Coloring!Begin(Listed(order)) /\ UNCHANGED scanVars
               ELSE LinearScan!Begin(Listed(order)) /\ UNCHANGED graphVars
    /\ UNCHANGED <<livenessVars, strategy>>

Scanning ==
    /\ stage = "allocate" /\ strategy = "LinearScan"
    /\ LinearScan!AllocateNext
    /\ UNCHANGED <<livenessVars, strategy, stage, graphVars>>

Colour ==
    /\ stage = "allocate" /\ strategy = "GraphColoring"
    /\ Coloring!Next
    /\ UNCHANGED <<livenessVars, strategy, stage, scanVars>>

Allocated ==
    /\ stage = "allocate"
    /\ IF strategy = "GraphColoring" THEN Coloring!Finished ELSE LinearScan!Finished

AllocNext == Analyze \/ Allocate \/ Scanning \/ Colour

\* A call of allocateFunction is one thread's.
AllocSpec == AllocInit /\ [][AllocNext]_allocVars /\ WF_allocVars(AllocNext)

(***************************************************************************)
(* Properties.                                                             *)
(***************************************************************************)
Index == DOMAIN intervals
Alive(i) == intervals[i].start .. intervals[i].end
SameClass(i, j) == strategy = "GraphColoring" \/ intervals[i].float = intervals[j].float
Share(i, j) == reg[i] # NoReg /\ reg[i] = reg[j] /\ SameClass(i, j)

\* spillAtInterval has passed no register from one class to the other, which it
\* may do in a function with integer and floating-point variables
\* (LinearScanAllocator.hpp:54-57).
Separated ==
    \/ strategy = "GraphColoring"
    \/ \A i, j \in Index : intervals[i].float = intervals[j].float
    \/ ~crossed

\* Two variables never share a register while their intervals overlap, after
\* intervals expired, were spilled or passed their register on, and in whatever
\* order the hash table made the nodes be removed; and in the end none of two
\* values that some path of control still needs at a point shares a register
\* with the other.  Nothing is claimed once the classes are no longer separated:
\* two live variables of a class can then share a register.
NoClash ==
    Separated =>
        /\ \A i, j \in Index : i # j /\ Alive(i) \cap Alive(j) # {} => ~Share(i, j)
        /\ Allocated =>
            \A i, j \in Index, p \in Points :
                /\ i # j /\ p >= intervals[i].start /\ p >= intervals[j].start
                /\ LiveAfter(intervals[i].var, p) /\ LiveAfter(intervals[j].var, p)
                => ~Share(i, j)

\* In the end every variable the function mentions has exactly one place: a
\* register, or a stack slot of its own within totalStackSpillBytes.
OnePlaceEach ==
    Allocated =>
        /\ {intervals[i].var : i \in Index} =
             func.params \cup UNION {Mentioned(func.code[p]) : p \in DOMAIN func.code}
        /\ \A i \in Index : (reg[i] = NoReg) <=> (slot[i] # 0)
        /\ \A i, j \in Index : slot[i] # 0 /\ slot[i] = slot[j] => i = j
        /\ \A i \in Index : currentSpillOffset <= slot[i]

\* Linear scan loses no register of a class and hands none out twice, as long
\* as spillAtInterval has not passed one from one class to the other.
RegistersConserved ==
    stage = "allocate" /\ strategy = "LinearScan" =>
        LinearScan!TypeOK /\ (Separated => LinearScan!RegistersConserved)

\* A variable is spilled only for want of registers: by linear scan when more
\* intervals of a class overlap than it has registers, by graph colouring when
\* it was removed from the graph with too many neighbours.
SpillsJustified ==
    stage = "allocate" =>
        IF strategy = "LinearScan" THEN LinearScan!SpillsOnlyUnderPressure
        ELSE Coloring!TypeOK /\ Coloring!OnlyDoubtfulSpilled

\* The scans end, and so does the removal loop, which makes progress in every
\* turn even when all degrees are too high.
Terminates == <>Allocated

=============================================================================
