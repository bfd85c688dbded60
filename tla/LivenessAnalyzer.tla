-------------------------- MODULE LivenessAnalyzer --------------------------
(***************************************************************************)
(* Live intervals (src/src/backend/regalloc/LivenessAnalyzer.hpp): one     *)
(* pass over a function's instructions, in layout order, that records for  *)
(* every variable the first point that mentions it and the last point that *)
(* uses it.  The interval between them is what the register allocators     *)
(* take the variable's lifetime to be.                                     *)
(*                                                                         *)
(* An instruction is the set of variables it reads and the variable it     *)
(* writes; float are the variables of type Float64.  Control goes from a   *)
(* point to the next one and along jumps, pairs of points, the branches of *)
(* the function, which the analysis never looks at.                        *)
(***************************************************************************)
EXTENDS Integers, Sequences, FiniteSets

CONSTANTS
    Var,
    None,          \* no result / not recorded
    Functions0     \* the functions to analyse: [params, code, float, jumps]

Instruction == [operands : SUBSET Var, result : Var \cup {None}]

\* A function's text: finitely many variables, and branches between its points.
ASSUME VarAssumption == IsFiniteSet(Var) /\ None \notin Var \cup Nat
ASSUME FunctionsAssumption ==
    \A f \in Functions0 :
        /\ f.code \in Seq(Instruction)
        /\ f.params \subseteq Var
        /\ f.jumps \subseteq (0 .. Len(f.code)) \X (0 .. Len(f.code))

VARIABLES func, instructionIndex, defPoints, lastUsePoints

vars == <<func, instructionIndex, defPoints, lastUsePoints>>

Points == 0 .. Len(func.code)

\* Every variable has its type; a recorded point is one already passed.
TypeOK ==
    /\ func.code \in Seq(Instruction)
    /\ func.params \subseteq Var
    /\ func.jumps \subseteq Points \X Points
    /\ instructionIndex \in Points
    /\ defPoints \in [Var -> 0 .. instructionIndex \cup {None}]
    /\ lastUsePoints \in [Var -> 0 .. instructionIndex \cup {None}]

Init ==
    /\ func \in Functions0
    /\ instructionIndex = 0
    /\ defPoints = [v \in Var |-> IF v \in func.params THEN 0 ELSE None]
    /\ lastUsePoints = [v \in Var |-> IF v \in func.params THEN 0 ELSE None]

Mentioned(inst) == inst.operands \cup ({inst.result} \ {None})

Scan_FirstUse ==             \* mutant: keeps the first use instead of the last
    /\ instructionIndex < Len(func.code)
    /\ LET i == instructionIndex + 1
           new == Mentioned(func.code[i])
       IN  /\ instructionIndex' = i
           /\ defPoints' =
                [v \in Var |-> IF v \in new /\ defPoints[v] = None THEN i ELSE defPoints[v]]
           /\ lastUsePoints' =
                [v \in Var |-> IF v \in new /\ lastUsePoints[v] = None
                                 THEN i ELSE lastUsePoints[v]]
    /\ UNCHANGED func

\* One instruction: an operand is used here; a result is, if it was not before.
Scan ==
    /\ instructionIndex < Len(func.code)
    /\ LET i == instructionIndex + 1
           inst == func.code[i]
       IN  /\ instructionIndex' = i
           /\ defPoints' =
                [v \in Var |-> IF v \in Mentioned(inst) /\ defPoints[v] = None
                                 THEN i ELSE defPoints[v]]
           /\ lastUsePoints' =
                [v \in Var |-> IF v \in inst.operands
                                  \/ (v = inst.result /\ lastUsePoints[v] = None)
                                 THEN i ELSE lastUsePoints[v]]
    /\ UNCHANGED func

(***************************************************************************)
(* The intervals, once the pass is over.                                   *)
(***************************************************************************)
Done == instructionIndex = Len(func.code)

Larger(a, b) == IF a < b THEN b ELSE a

\* if (endP < startP) endP = startP; a variable never mentioned has none.
Interval(v) ==
    [start |-> defPoints[v],
     end   |-> IF lastUsePoints[v] = None THEN defPoints[v]
               ELSE Larger(defPoints[v], lastUsePoints[v])]

contains(interval, point) == interval.start <= point /\ point <= interval.end

(***************************************************************************)
(* Reference: v is live after point p when some path of control from p     *)
(* reaches a read of v before any write of it.                             *)
(***************************************************************************)
Succ(p) == {q \in Points \ {0} : q = p + 1 \/ <<p, q>> \in func.jumps}
Reads(q) == func.code[q].operands
Writes(q) == {func.code[q].result}

LiveAfter(v, p) ==
    LET reach[n \in Nat] ==    \* points entered after at most n+1 steps with v not yet touched
            IF n = 0 THEN Succ(p)
            ELSE reach[n - 1] \cup
                 UNION {Succ(q) : q \in {r \in reach[n - 1] : v \notin Reads(r) \cup Writes(r)}}
    IN  \E q \in reach[Len(func.code)] : v \in Reads(q)

\* A variable whose value is still needed after a point lies in its interval
\* there: the allocators may reuse its register only when nobody will read it
\* again.  A value read without ever having been written is exempt up to the
\* first mention.  Until the pass is over every variable has its type.
IntervalsCoverLiveness ==
    /\ TypeOK
    /\ Done =>
        \A v \in Var, p \in Points :
            LiveAfter(v, p) => \/ contains(Interval(v), p)
                               \/ p < Interval(v).start

=============================================================================
