------------------------- MODULE LinearScanAllocator -------------------------
(***************************************************************************)
(* Linear-scan register allocation                                         *)
(* (src/src/backend/regalloc/LinearScanAllocator.hpp): the intervals are   *)
(* taken in the order of their start points; each gets a free register of  *)
(* its class or, when there is none, it or the active interval that ends   *)
(* last is spilled to a stack slot.                                        *)
(*                                                                         *)
(* The free lists are sets: the code takes the last register of a vector,  *)
(* here any one is taken.  activeIntervals is sorted by end point after    *)
(* every insertion with std::sort, which leaves the order of equal end     *)
(* points open: its last element is any active interval of greatest end.   *)
(***************************************************************************)
EXTENDS Integers, Sequences, FiniteSets

CONSTANTS
    GPRs,      \* the register ids freeGPRs starts with
    FPRs,      \* the register ids freeFPRs starts with
    NoReg      \* assignedPhysicalReg = -1

VARIABLES
    intervals,            \* the input: a sequence of [var, start, end, float], sorted by start
    n,                    \* how many of them have been handled
    freeGPRs, freeFPRs,
    active,               \* activeIntervals, as indices
    reg,                  \* assignedPhysicalReg
    slot,                 \* stackOffset of a spilled interval, else 0
    currentSpillOffset,
    crossed               \* history: a register has gone to an interval of the other class

Index == 1 .. Len(intervals)
Regs == GPRs \cup FPRs

\* Every variable has its type.
TypeOK ==
    /\ n \in 0 .. Len(intervals)
    /\ freeGPRs \subseteq Regs
    /\ freeFPRs \subseteq Regs
    /\ active \subseteq 1 .. n
    /\ reg \in [Index -> Regs \cup {NoReg}]
    /\ slot \in [Index -> Int]
    /\ currentSpillOffset \in Int
    /\ crossed \in BOOLEAN

\* allocate is called.
Begin(list) ==
    /\ intervals' = list
    /\ n' = 0
    /\ freeGPRs' = GPRs
    /\ freeFPRs' = FPRs
    /\ active' = {}
    /\ reg' = [i \in DOMAIN list |-> NoReg]
    /\ slot' = [i \in DOMAIN list |-> 0]
    /\ currentSpillOffset' = 0
    /\ crossed' = FALSE

(***************************************************************************)
(* One turn of allocate's loop: expireOldIntervals, then a free register   *)
(* or spillAtInterval.                                                     *)
(***************************************************************************)
cur == n + 1
End(i) == intervals[i].end
Expired_Early == {a \in active : End(a) <= intervals[cur].start}    \* mutant: <= for <
Expired_Late == {a \in active : End(a) + 1 < intervals[cur].start} \* mutant: a point too late
Expired == {a \in active : End(a) < intervals[cur].start}
Still == active \ Expired
Freed(float) == {reg[a] : a \in {e \in Expired : intervals[e].float = float}} \ {NoReg}
Pool_NoReturn(float) == IF float THEN freeFPRs ELSE freeGPRs        \* mutant: never given back
Pool(float) == IF float THEN freeFPRs \cup Freed(TRUE) ELSE freeGPRs \cup Freed(FALSE)

\* activeIntervals.back()
Back == {a \in Still : \A o \in Still : End(o) <= End(a)}

TakeFree(r) ==
    /\ IF intervals[cur].float
         THEN freeFPRs' = Pool(TRUE) \ {r} /\ freeGPRs' = Pool(FALSE)
         ELSE freeGPRs' = Pool(FALSE) \ {r} /\ freeFPRs' = Pool(TRUE)
    /\ reg' = [reg EXCEPT ![cur] = r]
    /\ active' = Still \cup {cur}
    /\ UNCHANGED <<slot, currentSpillOffset, crossed>>

NewSlot(i) ==
    /\ currentSpillOffset' = currentSpillOffset - 8
    /\ slot' = [slot EXCEPT ![i] = currentSpillOffset - 8]

SpillCurrent ==
    /\ NewSlot(cur)
    /\ active' = Still
    /\ UNCHANGED <<reg, crossed>>

\* The last active interval, of either class, gives its register to the
\* current one: when their classes differ, an integer variable is now in a
\* floating-point register or the other way round, and expiry returns the
\* register to the wrong list.
SpillActive(c) ==
    /\ NewSlot(c)
    /\ reg' = [reg EXCEPT ![cur] = reg[c], ![c] = NoReg]
    /\ active' = (Still \ {c}) \cup {cur}
    /\ crossed' = (crossed \/ intervals[c].float # intervals[cur].float)

spillAtInterval ==
    /\ IF Back = {} THEN SpillCurrent
       ELSE \E c \in Back : IF End(c) > End(cur) THEN SpillActive(c) ELSE SpillCurrent
    /\ freeGPRs' = Pool(FALSE)
    /\ freeFPRs' = Pool(TRUE)

AllocateNext ==
    /\ n < Len(intervals)
    /\ IF Pool(intervals[cur].float) = {}
         THEN spillAtInterval
         ELSE \E r \in Pool(intervals[cur].float) : TakeFree(r)
    /\ n' = cur
    /\ UNCHANGED intervals

Finished == n = Len(intervals)

(***************************************************************************)
(* Properties.                                                             *)
(***************************************************************************)
\* A register is either free or held by exactly one active interval: none is
\* lost to the pool and none is handed out while it is held.
RegistersConserved ==
    /\ freeGPRs \cup {reg[a] : a \in {e \in active : ~intervals[e].float}} = GPRs
    /\ freeFPRs \cup {reg[a] : a \in {e \in active : intervals[e].float}} = FPRs
    /\ \A a \in active :
          reg[a] \notin (IF intervals[a].float THEN freeFPRs ELSE freeGPRs)

\* Something is spilled only when at some point more intervals of a class are
\* alive than the class has registers.
SpillsOnlyUnderPressure ==
    (\E i \in Index : slot[i] # 0) =>
        \E p \in {intervals[i].start : i \in Index}, fl \in BOOLEAN :
            Cardinality({i \in Index : /\ intervals[i].float = fl
                                       /\ intervals[i].start <= p /\ p <= End(i)})
                > Cardinality(IF fl THEN FPRs ELSE GPRs)

=============================================================================
