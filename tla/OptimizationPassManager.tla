---------------------- MODULE OptimizationPassManager ----------------------
(***************************************************************************)
(* The optimiser of -O3 (src/src/middleend/opt): for each function in turn *)
(* promotion of locals, constant propagation, dead-code elimination,       *)
(* loop-invariant code motion, vectorisation, and the second and third of  *)
(* these again.  prog is the program being rewritten.                      *)
(***************************************************************************)
EXTENDS SSAInstruction, FiniteSets

LOCAL INSTANCE Relation

VARIABLES
    prog,       \* the program
    opt         \* [fn, pass, header, loop, at, changed, defined, hoisted]: where it is

optVars == <<prog, opt>>

Passes == <<"mem2reg", "cp", "dce", "licm", "av", "cp", "dce">>
OptInit == [fn |-> 1, pass |-> 1, header |-> 0, loop |-> FALSE, at |-> <<1, 1>>,
            changed |-> FALSE, defined |-> {}, hoisted |-> <<>>]

Func == prog[opt.fn]
Optimizing == opt.fn <= Len(prog)
InPass(p) == Optimizing /\ Passes[opt.pass] = p
NextPass ==
    IF opt.pass < Len(Passes) THEN [OptInit EXCEPT !.fn = opt.fn, !.pass = opt.pass + 1]
    ELSE [OptInit EXCEPT !.fn = opt.fn + 1]

Places(f) == UNION {{<<b, k>> : k \in DOMAIN f.blocks[b].insts} : b \in DOMAIN f.blocks}
InstAt(f, p) == f.blocks[p[1]].insts[p[2]]
OnInstructions(f, F(_)) ==
    [f EXCEPT !.blocks = [b \in DOMAIN @ |->
        [@[b] EXCEPT !.insts = [k \in DOMAIN @ |-> F(@[k])]]]]

(***************************************************************************)
(* Promotion of locals returns at once: no instruction is an AllocLocal.   *)
(***************************************************************************)
Mem2Reg ==
    /\ InPass("mem2reg")
    /\ {p \in Places(Func) : InstAt(Func, p).op = "AllocLocal"} = {}
    /\ opt' = NextPass
    /\ UNCHANGED prog

(***************************************************************************)
(* Constant propagation.                                                   *)
(***************************************************************************)
tryFold(i) ==
    LET l == i.operands[1].num
        r == i.operands[2].num
        folded == CASE i.op \in {"Add", "Sub", "Mul"} -> Compute(i.op, l, r)
                    [] i.op = "Div" -> IF r # 0 THEN Quotient(l, r) ELSE 0
    IN  IF /\ Len(i.operands) = 2
           /\ i.op \in {"Add", "Sub", "Mul", "Div"}
           /\ \A k \in {1, 2} : isConstant(i.operands[k]) /\ i.operands[k].type = "Int64"
          THEN [i EXCEPT !.op = "Copy", !.operands = <<makeConstNum(folded)>>]
          ELSE i

Assignments(f, x) == {p \in Places(f) : InstAt(f, p).result.name = x}

\* The copies of constants to variables that are assigned once.
ConstantCopies(f) ==
    {p \in Places(f) : /\ InstAt(f, p).op = "Copy"
                       /\ InstAt(f, p).result.name # ""
                       /\ isConstant(InstAt(f, p).operands[1])
                       /\ Cardinality(Assignments(f, InstAt(f, p).result.name)) = 1}

constantTable(f) ==
    [x \in {InstAt(f, p).result.name : p \in ConstantCopies(f)} |->
        InstAt(f, CHOOSE p \in ConstantCopies(f) : InstAt(f, p).result.name = x).operands[1]]

Propagated(f, table) ==
    LET Known(v) == IF v.name \in DOMAIN table THEN table[v.name] ELSE v
        Rewrite(i) == tryFold([i EXCEPT !.operands = [k \in DOMAIN @ |-> Known(@[k])]])
    IN  OnInstructions(f, Rewrite)

ConstantProp ==
    /\ InPass("cp")
    /\ \E table \in {constantTable(Func)} : prog' = [prog EXCEPT ![opt.fn] = Propagated(@, table)]
    /\ opt' = NextPass

(***************************************************************************)
(* Dead-code elimination: sweeps until one removes nothing.                *)
(***************************************************************************)
hasSideEffects(op) ==
    op \in {"Call", "Return", "ArrayStore", "VolatileStore", "VolatileLoad", "IOPortWrite",
            "IOPortRead", "SetRegister", "CpuHalt", "DisableInterrupts", "EnableInterrupts",
            "Branch", "CondBranch"}

usedVars(f) ==
    UNION {{v.name : v \in Range(InstAt(f, p).operands)} : p \in Places(f)} \ {""}

Swept(f, used) ==
    [f EXCEPT !.blocks = [b \in DOMAIN @ |->
        [@[b] EXCEPT !.insts = SelectSeq(@, LAMBDA i :
            i.result.name = "" \/ i.result.name \in used \/ hasSideEffects(i.op))]]]

DeadCodeSweep ==
    /\ InPass("dce")
    /\ \E swept \in {Swept(Func, usedVars(Func))} :
          /\ prog' = [prog EXCEPT ![opt.fn] = swept]
          /\ opt' = IF swept = Func THEN NextPass ELSE opt

(***************************************************************************)
(* Loop-invariant code motion.  The loop of a header is taken to be the    *)
(* header and the predecessors it dominates.  Dominance is the relation    *)
(* that module Dominance shows the analysis to compute.                    *)
(***************************************************************************)
Dominates(f, d, b) ==
    LET n == DOMAIN f.blocks
        edge == [x, y \in n |-> f.blocks[x].label \in Range(f.blocks[y].preds) /\ d \notin {x, y}]
    IN  d = b \/ d = 1 \/ ~ReflexiveTransitiveClosure(edge, n)[1, b]

loopBlocks(f, h) ==
    LET latches == {b \in DOMAIN f.blocks :
                      f.blocks[b].label \in Range(f.blocks[h].preds) /\ Dominates(f, h, b)}
    IN  IF latches = {} THEN {} ELSE latches \cup {h}

\* The blocks before the loop, in the order of the predecessors.
preHeaders(f, h) ==
    SelectSeq(f.blocks[h].preds, LAMBDA l : BlockAt(f, l) \notin loopBlocks(f, h))

Before(p, q) == p[1] < q[1] \/ (p[1] = q[1] /\ p[2] <= q[2])

Hoistable(f, p, h, defined) ==
    /\ p[1] \in loopBlocks(f, h)
    /\ ~hasSideEffects(InstAt(f, p).op)
    /\ InstAt(f, p).op \notin {"ArrayLoad", "Phi"}
    /\ InstAt(f, p).result.name # ""
    /\ \A v \in Range(InstAt(f, p).operands) : v.name \notin defined

EnterLoop ==
    /\ InPass("licm") /\ ~opt.loop /\ opt.header < Len(Func.blocks)
    /\ LET h == opt.header + 1
           inside == {p \in Places(Func) : p[1] \in loopBlocks(Func, h)}
       IN  opt' = [opt EXCEPT !.header = h,
                              !.loop = loopBlocks(Func, h) # {} /\ preHeaders(Func, h) # <<>>,
                              !.defined = {InstAt(Func, p).result.name : p \in inside} \ {""}]
    /\ UNCHANGED prog

InLoop == InPass("licm") /\ opt.loop

\* The next instruction of the scan whose operands the loop does not define.
Hoist ==
    /\ InLoop
    /\ \E p \in Places(Func) :
          /\ Before(opt.at, p) /\ Hoistable(Func, p, opt.header, opt.defined)
          /\ \A q \in Places(Func) :
                Before(opt.at, q) /\ Hoistable(Func, q, opt.header, opt.defined) => Before(p, q)
          /\ prog' = [prog EXCEPT ![opt.fn].blocks[p[1]].insts = RemoveAt(@, p[2])]
          /\ opt' = [opt EXCEPT !.at = p, !.changed = TRUE,
                                !.hoisted = Append(@, InstAt(Func, p)),
                                !.defined = @ \ {InstAt(Func, p).result.name}]

NothingToHoist ==
    ~\E p \in Places(Func) : Before(opt.at, p) /\ Hoistable(Func, p, opt.header, opt.defined)

RescanLoop_Forever ==        \* mutant: changed is not reset
    /\ InLoop /\ NothingToHoist /\ opt.changed
    /\ opt' = [opt EXCEPT !.at = <<1, 1>>]
    /\ UNCHANGED prog

RescanLoop ==
    /\ InLoop /\ NothingToHoist /\ opt.changed
    /\ opt' = [opt EXCEPT !.at = <<1, 1>>, !.changed = FALSE]
    /\ UNCHANGED prog

\* What was taken out goes to the end of the block before the loop.
InsertedAtEnd(insts, new) ==
    IF insts # <<>> /\ Last(insts).op \in {"Branch", "CondBranch"}
      THEN Front(insts) \o new \o <<Last(insts)>>
      ELSE insts \o new

LeaveLoop ==
    /\ InLoop /\ NothingToHoist /\ ~opt.changed
    /\ LET pre == BlockAt(Func, Head(preHeaders(Func, opt.header)))
       IN  prog' = [prog EXCEPT ![opt.fn].blocks[pre].insts = InsertedAtEnd(@, opt.hoisted)]
    /\ opt' = [OptInit EXCEPT !.fn = opt.fn, !.pass = opt.pass, !.header = opt.header]

LicmDone ==
    /\ InPass("licm") /\ opt.header = Len(Func.blocks) /\ ~opt.loop
    /\ opt' = NextPass
    /\ UNCHANGED prog

(***************************************************************************)
(* Vectorisation: two additions of floats in a row, the second of which    *)
(* does not read the first, become one.                                    *)
(***************************************************************************)
Fusable(i, j) ==
    /\ i.op = "FAdd" /\ j.op = "FAdd" /\ i.result.name # "" /\ j.result.name # ""
    /\ i.result.name \notin {j.operands[1].name, j.operands[2].name}

RECURSIVE vectorize(_)
vectorize(insts) ==
    IF Len(insts) < 2 THEN insts
    ELSE IF Fusable(insts[1], insts[2])
      THEN <<Inst("VectorAdd", makeVar("vec128_fadd", "Float64"), insts[1].operands \o insts[2].operands)>>
           \o vectorize(SubSeq(insts, 3, Len(insts)))
      ELSE <<Head(insts)>> \o vectorize(Tail(insts))

AutoVectorize ==
    /\ InPass("av")
    /\ prog' = [prog EXCEPT ![opt.fn].blocks = [b \in DOMAIN @ |-> [@[b] EXCEPT !.insts = vectorize(@)]]]
    /\ opt' = NextPass

OptNext ==
    \/ Mem2Reg \/ ConstantProp \/ DeadCodeSweep
    \/ EnterLoop \/ Hoist \/ RescanLoop \/ LeaveLoop \/ LicmDone
    \/ AutoVectorize

=============================================================================
