----------------------------- MODULE SSABuilder -----------------------------
(***************************************************************************)
(* From syntax trees to intermediate code                                  *)
(* (src/src/middleend/ssa/SSABuilder.cpp): every function of a program is  *)
(* turned into basic blocks; temporaries, labels and deferred calls are    *)
(* kept per function, the table of variables for the whole program.        *)
(*                                                                         *)
(* The model compiles a program, then runs one of its functions twice: as  *)
(* the code generated for it and, statement by statement, as the source    *)
(* says (the keyword specification and Documentation.md).  What a function *)
(* does to the outside is its trace: calls, prints, spawned tasks, array,  *)
(* device and register accesses, in order, with their arguments.           *)
(*                                                                         *)
(* Integers only: floats choose other opcodes in the same places, and the  *)
(* bit operators are left out, which are built as the others are.  The     *)
(* accesses to arrays, ports, registers and memory are one kind of node    *)
(* each for reading (Access) and for writing (Effect), with the opcode as  *)
(* data; the builder treats them alike.                                    *)
(***************************************************************************)
EXTENDS Integers, Sequences, SequencesExt, FiniteSets, TLC

CONSTANTS
    Programs,   \* records [globals : name -> Int, funcs : Seq([params, naked, body]), entry]
    Trees,      \* the syntax trees that programs are made of
    Args        \* the values parameters may have

(***************************************************************************)
(* Syntax trees.                                                           *)
(***************************************************************************)
IntLit(n) == [node |-> "IntLit", val |-> n]
Var(x) == [node |-> "Var", name |-> x]
Binary(op, l, r) == [node |-> "Binary", op |-> op, left |-> l, right |-> r]
FuncCall(f, args) == [node |-> "FuncCall", callee |-> f, args |-> args]
Access(op, args) == [node |-> "Access", op |-> op, args |-> args]
Cast(e) == [node |-> "Cast", expr |-> e]
ArrayAlloc(x, size) == [node |-> "ArrayAlloc", name |-> x, size |-> size]

ExprStmt(e) == [node |-> "ExprStmt", expr |-> e]
VarAssign(x, op, e) == [node |-> "VarAssign", name |-> x, op |-> op, value |-> e]
Effect(op, args) == [node |-> "Effect", op |-> op, args |-> args]
PrintNode(e) == [node |-> "Print", expr |-> e]
If(c, t, e) == [node |-> "If", cond |-> c, then |-> t, else |-> e]
While(c, body) == [node |-> "While", cond |-> c, body |-> body, step |-> <<>>]
For(x, lo, hi, inclusive, body) ==
    [node |-> "For", var |-> x, start |-> lo, end |-> hi, inclusive |-> inclusive, body |-> body]
Return(e) == [node |-> "Return", expr |-> e]
Defer(call) == [node |-> "Defer", call |-> call]
GoStmt(f, args) == [node |-> "GoStmt", callee |-> f, args |-> args]
Break == [node |-> "Break"]
Continue == [node |-> "Continue"]

\* The operators of the language, and the opcodes of the nodes that are data.
Operators == {"+", "-", "*", "/", "%", "<", "<=", ">", ">=", "==", "!=", "&&", "||"}
Reads == {"ArrayLoad", "IOPortRead", "VolatileLoad", "GetRegister"}
Writes == {"ArrayStore", "IOPortWrite", "VolatileStore", "SetRegister",
           "CpuHalt", "DisableInterrupts", "EnableInterrupts"}

\* The parts of a tree are trees.
ASSUME TreesAssumption ==
    \A e \in Trees :
        \/ e.node \in {"IntLit", "Var", "ArrayAlloc", "Break", "Continue"}
        \/ e.node = "Binary" /\ e.op \in Operators /\ {e.left, e.right} \subseteq Trees
        \/ e.node \in {"FuncCall", "GoStmt"} /\ e.args \in Seq(Trees)
        \/ e.node = "Access" /\ e.op \in Reads /\ e.args \in Seq(Trees)
        \/ e.node = "Effect" /\ e.op \in Writes /\ e.args \in Seq(Trees)
        \/ e.node = "VarAssign" /\ e.value \in Trees
        \/ e.node \in {"Cast", "ExprStmt", "Print", "Return"} /\ e.expr \in Trees
        \/ e.node = "Defer" /\ e.call \in Trees
        \/ e.node = "If" /\ e.cond \in Trees /\ e.then \in Seq(Trees) /\ e.else \in Seq(Trees)
        \/ e.node = "While" /\ e.cond \in Trees /\ e.body \in Seq(Trees) /\ e.step = <<>>
        \/ e.node = "For" /\ {e.start, e.end} \subseteq Trees /\ e.body \in Seq(Trees)

\* A program has an entry point, and its functions have finitely many parameters.
ASSUME ProgramsAssumption ==
    \A p \in Programs :
        /\ p.funcs \in Seq([params : SUBSET STRING, naked : BOOLEAN, body : Seq(Trees)])
        /\ \A k \in DOMAIN p.funcs : IsFiniteSet(p.funcs[k].params)
        /\ p.entry \in DOMAIN p.funcs

(***************************************************************************)
(* Intermediate code.                                                      *)
(***************************************************************************)
Const(n) == [const |-> TRUE, num |-> n, name |-> ""]
Name(x) == [const |-> FALSE, num |-> 0, name |-> x]
Inst(op, result, operands) ==
    [op |-> op, sym |-> "", result |-> result, operands |-> operands, to |-> <<>>]
CallInst(op, f, result, args) == [Inst(op, result, args) EXCEPT !.sym = f]
Jump(op, operands, to) == [Inst(op, "", operands) EXCEPT !.to = to]

Truth(c) == IF c THEN 1 ELSE 0

\* Division rounds towards zero; a quotient by zero is folded to 0.
Quotient(l, r) ==
    CASE r = 0 -> 0
      [] r # 0 -> LET q == (IF l < 0 THEN -l ELSE l) \div (IF r < 0 THEN -r ELSE r)
                  IN  IF (l < 0) = (r < 0) THEN q ELSE -q

\* What an opcode computes.
Compute(op, l, r) ==
    CASE op = "Add" -> l + r
      [] op = "Sub" -> l - r
      [] op = "Mul" -> l * r
      [] op = "Div" -> Quotient(l, r)
      [] op = "Mod" -> IF r = 0 THEN 0 ELSE l - r * Quotient(l, r)
      [] op = "LessThan" -> Truth(l < r)
      [] op = "LessEqual" -> Truth(l <= r)
      [] op = "GreaterThan" -> Truth(l > r)
      [] op = "GreaterEqual" -> Truth(l >= r)
      [] op = "Equal" -> Truth(l = r)
      [] op = "NotEqual" -> Truth(l # r)

BinaryOp(op) ==
    CASE op = "+" -> "Add" [] op = "-" -> "Sub" [] op = "*" -> "Mul"
      [] op = "/" -> "Div" [] op = "%" -> "Mod"
      [] op = "<" -> "LessThan" [] op = "<=" -> "LessEqual"
      [] op = ">" -> "GreaterThan" [] op = ">=" -> "GreaterEqual"
      [] op = "==" -> "Equal" [] op = "!=" -> "NotEqual"
      [] op = "&&" -> "Mul" [] op = "||" -> "Add"

AssignOp(op) ==
    CASE op = "+=" -> "Add" [] op = "-=" -> "Sub" [] op = "*=" -> "Mul" [] op = "/=" -> "Div"
      [] OTHER -> "Copy"

VARIABLES
    prog,       \* the program
    pending,    \* the functions still to build: indices, the entry point first
    table,      \* varVersionTable, kept from function to function
    fn,         \* what the builder keeps for the current function, see FreshState
    work,       \* what is left to do for it: the calls on the builder's stack
    built,      \* index -> [order, params, code, vars] of the functions already built
    running,    \* the function under execution, 0 before
    machine,    \* the execution of its code
    source      \* the execution of its source

buildVars == <<prog, pending, table, fn, work, built>>
runVars == <<running, machine, source>>
vars == <<buildVars, runVars>>

\* The function f with the value v at x, and f with the values of g where it has none.
Put(f, x, v) == [y \in DOMAIN f \cup {x} |-> IF y = x THEN v ELSE f[y]]
Over(f, g) == [y \in DOMAIN f \cup DOMAIN g |-> IF y \in DOMAIN f THEN f[y] ELSE g[y]]

Idle == [status |-> "idle"]
Entry == <<"entry", 0>>

\* The blocks of currentFunc (layout and code) and its parameters,
\* currentBlockLabel, the two counters, deferStack, the dominance analysis and
\* variableDefBlocks (as pairs), as buildFunction sets them up.
FreshState(func) ==
    [order |-> <<Entry>>, params |-> func.params,
     code |-> [l \in {Entry} |-> IF func.naked THEN <<>> ELSE <<Inst("RegionEnter", "", <<>>)>>],
     cur |-> Entry, temps |-> 0, labels |-> 0, vals |-> <<>>, defers |-> <<>>,
     dom |-> <<>>, front |-> <<>>,
     defs |-> {<<p, Entry>> : p \in func.params}]

\* Work that is not a node: what is left to do when the operands of a node
\* have been built (their values are on fn.vals), and the end of a function.
Operate(op) == [node |-> "Operate", op |-> op]
Invoke(op, sym, result, argc) ==
    [node |-> "Invoke", op |-> op, sym |-> sym, result |-> result, argc |-> argc]
Fetch(op, argc) == [node |-> "Fetch", op |-> op, argc |-> argc]
Store(x, op) == [node |-> "Store", name |-> x, op |-> op]
Drop == [node |-> "Drop"]
Split(s) == [node |-> "Split", if |-> s]
Test(bodyLbl, endLbl) == [node |-> "Test", bodyLbl |-> bodyLbl, endLbl |-> endLbl]
Enter(s) == [node |-> "Enter", for |-> s]
Leave == [node |-> "Leave"]
Code(insts) == [node |-> "Code", insts |-> insts]
OpenBlock(label) == [node |-> "OpenBlock", label |-> label]
Finish == [node |-> "Finish"]
Dominance == [node |-> "Dominance"]
Frontiers == [node |-> "Frontiers"]
Phis == [node |-> "Phis"]

\* buildProgram: top-level literals are entered first, then the entry point
\* is built and the others after it.
Init ==
    /\ prog \in Programs
    /\ pending = <<prog.entry>> \o RemoveAt([i \in DOMAIN prog.funcs |-> i], prog.entry)
    /\ table = [g \in DOMAIN prog.globals |-> Const(prog.globals[g])]
    /\ fn = FreshState([naked |-> TRUE, params |-> {}])
    /\ work = <<>>
    /\ built = <<>>
    /\ running = 0
    /\ machine = Idle
    /\ source = Idle

(***************************************************************************)
(* The recursion of the builder is the work list: a node is replaced by    *)
(* its parts and by what the builder does after building them.             *)
(***************************************************************************)
Item == Head(work)
Working(node) == work # <<>> /\ Item.node = node
Then(items) == work' = items \o Tail(work)
Keep == UNCHANGED <<prog, pending, built, runVars>>

Temp(n) == "t" \o ToString(n)    \* makeTemp: "t0", "t1", ... among the program's names
Label(kind, k) == <<kind, fn.labels + k>>
Top(k) == SubSeq(fn.vals, Len(fn.vals) - k + 1, Len(fn.vals))
Pop(k) == [fn EXCEPT !.vals = SubSeq(@, 1, Len(@) - k)]
Push(f, v) == [f EXCEPT !.vals = Append(@, v)]

\* The definitions that emit records: those of three opcodes.
Recorded == {"Copy", "Add", "Sub"}

Defined_CopyOnly(f, insts) ==
    {<<i.result, f.cur>> : i \in {j \in ToSet(insts) : j.op = "Copy" /\ j.result # ""}}

Defined(f, insts) ==
    {<<i.result, f.cur>> : i \in {j \in ToSet(insts) : j.op \in Recorded /\ j.result # ""}}

\* emit, for several instructions in a row
emit(f, insts) == [f EXCEPT !.code[f.cur] = @ \o insts, !.defs = @ \cup Defined(f, insts)]

(***************************************************************************)
(* buildExpr.                                                              *)
(***************************************************************************)
BuildIntLit ==
    /\ Working("IntLit")
    /\ fn' = Push(fn, Const(Item.val))
    /\ Then(<<>>)
    /\ UNCHANGED table
    /\ Keep

BuildVar ==
    /\ Working("Var")
    /\ fn' = Push(fn, IF Item.name \in DOMAIN table THEN table[Item.name] ELSE Name(Item.name))
    /\ Then(<<>>)
    /\ UNCHANGED table
    /\ Keep

BuildBinary ==
    /\ Working("Binary")
    /\ Then(<<Item.left, Item.right, Operate(BinaryOp(Item.op))>>)
    /\ UNCHANGED <<table, fn>>
    /\ Keep

\* Constants are folded (tryFoldBinary).
EndBinary ==
    /\ Working("Operate")
    /\ LET l == Top(2)[1]
           r == Top(2)[2]
           res == Temp(fn.temps)
       IN  fn' = IF l.const /\ r.const
                   THEN Push(Pop(2), Const(Compute(Item.op, l.num, r.num)))
                   ELSE [emit(Push(Pop(2), Name(res)), <<Inst(Item.op, res, <<l, r>>)>>)
                            EXCEPT !.temps = @ + 1]
    /\ Then(<<>>)
    /\ UNCHANGED table
    /\ Keep

\* The result's temporary is taken before the arguments are built.
BuildCall ==
    /\ Working("FuncCall")
    /\ fn' = [fn EXCEPT !.temps = @ + 1]
    /\ Then(Append(Item.args, Invoke("Call", Item.callee, Temp(fn.temps), Len(Item.args))))
    /\ UNCHANGED table
    /\ Keep

\* Also the end of a print, a go statement or a store, which have no result.
EndCall ==
    /\ Working("Invoke")
    /\ LET after == emit(Pop(Item.argc),
                         <<CallInst(Item.op, Item.sym, Item.result, Top(Item.argc))>>)
       IN  fn' = IF Item.result = "" THEN after ELSE Push(after, Name(Item.result))
    /\ Then(<<>>)
    /\ UNCHANGED table
    /\ Keep

BuildAccess ==
    /\ \/ /\ Working("Access")
          /\ Then(Append(Item.args, Fetch(Item.op, Len(Item.args))))
       \/ /\ Working("Cast")
          /\ Then(<<Item.expr, Fetch("Copy", 1)>>)
    /\ UNCHANGED <<table, fn>>
    /\ Keep

EndAccess ==
    /\ Working("Fetch")
    /\ LET res == Temp(fn.temps)
       IN  fn' = [emit(Push(Pop(Item.argc), Name(res)), <<Inst(Item.op, res, Top(Item.argc))>>)
                    EXCEPT !.temps = @ + 1]
    /\ Then(<<>>)
    /\ UNCHANGED table
    /\ Keep

BuildAssign ==
    /\ Working("VarAssign")
    /\ Then(<<Item.value, Store(Item.name, AssignOp(Item.op))>>)
    /\ UNCHANGED <<table, fn>>
    /\ Keep

EndAssign ==
    /\ Working("Store")
    /\ LET var == Name(Item.name)
           operands == IF Item.op = "Copy" THEN Top(1) ELSE <<var>> \o Top(1)
       IN  /\ fn' = emit(Push(Pop(1), var), <<Inst(Item.op, Item.name, operands)>>)
           /\ table' = Put(table, Item.name, var)
    /\ Then(<<>>)
    /\ Keep

\* An assignment whose value is a new array.
BuildArrayAlloc ==
    /\ Working("ArrayAlloc")
    /\ table' = Put(table, Item.name, Name(Item.name))
    /\ fn' = emit(Push(fn, Name(Item.name)),
                  <<Inst("ArrayAlloc", Item.name, <<Const(Item.size)>>)>>)
    /\ Then(<<>>)
    /\ Keep

BuildExpr ==
    \/ BuildIntLit \/ BuildVar \/ BuildBinary \/ EndBinary \/ BuildCall \/ EndCall
    \/ BuildAccess \/ EndAccess \/ BuildAssign \/ EndAssign \/ BuildArrayAlloc

(***************************************************************************)
(* buildStatement.                                                         *)
(***************************************************************************)
BuildIf ==
    /\ Working("If")
    /\ Then(<<Item.cond, Split(Item)>>)
    /\ UNCHANGED <<table, fn>>
    /\ Keep

SplitIf ==
    /\ Working("Split")
    /\ LET thenLbl == Label("then", 0)
           elseLbl == Label("else", 1)
           mergeLbl == Label("merge", 2)
           toMerge == Code(<<Jump("Branch", <<>>, <<mergeLbl>>)>>)
       IN  /\ fn' = [emit(Pop(1), <<Jump("CondBranch", Top(1), <<thenLbl, elseLbl>>)>>)
                        EXCEPT !.labels = @ + 3]
           /\ Then(<<OpenBlock(thenLbl)>> \o Item.if.then \o <<toMerge>> \o
                   <<OpenBlock(elseLbl)>> \o Item.if.else \o <<toMerge, OpenBlock(mergeLbl)>>)
    /\ UNCHANGED table
    /\ Keep

BuildWhile ==
    /\ Working("While")
    /\ LET condLbl == Label("while_cond", 0)
           bodyLbl == Label("while_body", 1)
           endLbl == Label("while_end", 2)
           toCond == <<Jump("Branch", <<>>, <<condLbl>>)>>
       IN  /\ fn' = [emit(fn, toCond) EXCEPT !.labels = @ + 3]
           /\ Then(<<OpenBlock(condLbl), Item.cond, Test(bodyLbl, endLbl), OpenBlock(bodyLbl)>> \o
                   Item.body \o <<Code(toCond), OpenBlock(endLbl)>>)
    /\ UNCHANGED table
    /\ Keep

TestLoop ==
    /\ Working("Test")
    /\ fn' = emit(Pop(1), <<Jump("CondBranch", Top(1), <<Item.bodyLbl, Item.endLbl>>)>>)
    /\ Then(<<>>)
    /\ UNCHANGED table
    /\ Keep

\* The loop variable is entered before the range is built.
BuildFor ==
    /\ Working("For")
    /\ table' = Put(table, Item.var, Name(Item.var))
    /\ fn' = [fn EXCEPT !.defs = @ \cup {<<Item.var, fn.cur>>}]
    /\ Then(<<Item.start, Item.end, Enter(Item)>>)
    /\ Keep

EnterFor_NoStep ==
    /\ Working("Enter")
    /\ LET condLbl == Label("for_cond", 0)
           bodyLbl == Label("for_body", 1)
           endLbl == Label("for_end", 2)
           var == Item.for.var
           condRes == Temp(fn.temps)
           toCond == Jump("Branch", <<>>, <<condLbl>>)
           compare == Inst(IF Item.for.inclusive THEN "LessEqual" ELSE "LessThan", condRes,
                           <<Name(var), Top(1)[1]>>)
           test == Jump("CondBranch", <<Name(condRes)>>, <<bodyLbl, endLbl>>)
       IN  /\ fn' = [emit(Pop(2), <<Inst("Copy", var, <<Top(2)[1]>>), toCond>>)
                        EXCEPT !.temps = @ + 1, !.labels = @ + 3]
           /\ Then(<<OpenBlock(condLbl), Code(<<compare, test>>), OpenBlock(bodyLbl)>> \o
                   Item.for.body \o <<Code(<<toCond>>), OpenBlock(endLbl)>>)
    /\ UNCHANGED table
    /\ Keep

\* The end of the range is an operand of every test: a name is read again.
EnterFor ==
    /\ Working("Enter")
    /\ LET condLbl == Label("for_cond", 0)
           bodyLbl == Label("for_body", 1)
           endLbl == Label("for_end", 2)
           var == Item.for.var
           condRes == Temp(fn.temps)
           toCond == Jump("Branch", <<>>, <<condLbl>>)
           compare == Inst(IF Item.for.inclusive THEN "LessEqual" ELSE "LessThan", condRes,
                           <<Name(var), Top(1)[1]>>)
           test == Jump("CondBranch", <<Name(condRes)>>, <<bodyLbl, endLbl>>)
           step == Inst("Add", var, <<Name(var), Const(1)>>)
       IN  /\ fn' = [emit(Pop(2), <<Inst("Copy", var, <<Top(2)[1]>>), toCond>>)
                        EXCEPT !.temps = @ + 1, !.labels = @ + 3]
           /\ Then(<<OpenBlock(condLbl), Code(<<compare, test>>), OpenBlock(bodyLbl)>> \o
                   Item.for.body \o <<Code(<<step, toCond>>), OpenBlock(endLbl)>>)
    /\ UNCHANGED table
    /\ Keep

BuildReturn ==
    /\ Working("Return")
    /\ Then(<<Item.expr, Leave>>)
    /\ UNCHANGED <<table, fn>>
    /\ Keep

\* The deferred calls, last one first, then RegionExit and the return.
Naked == prog.funcs[Head(pending)].naked

LeaveWith_InOrder(value) ==
    [i \in DOMAIN fn.defers |-> ExprStmt(fn.defers[i])] \o
    <<Code((IF Naked THEN <<>> ELSE <<Inst("RegionExit", "", <<>>)>>) \o
           <<Inst("Return", "", <<value>>)>>)>>

LeaveWith_KeepsRegion(value) ==
    LET deferred == Reverse(fn.defers)
    IN  [i \in DOMAIN deferred |-> ExprStmt(deferred[i])] \o
        <<Code(<<Inst("Return", "", <<value>>)>>)>>

LeaveWith(value) ==
    LET deferred == Reverse(fn.defers)
    IN  [i \in DOMAIN deferred |-> ExprStmt(deferred[i])] \o
        <<Code((IF Naked THEN <<>> ELSE <<Inst("RegionExit", "", <<>>)>>) \o
               <<Inst("Return", "", <<value>>)>>)>>

EndReturn ==
    /\ Working("Leave")
    /\ Then(LeaveWith(Top(1)[1]))
    /\ fn' = Pop(1)
    /\ UNCHANGED table
    /\ Keep

BuildDefer ==
    /\ Working("Defer")
    /\ fn' = [fn EXCEPT !.defers = Append(@, Item.call)]
    /\ Then(<<>>)
    /\ UNCHANGED table
    /\ Keep

\* Stores, port and register accesses and print: operands, then one instruction
\* without a result.  The arguments of a call after go are not built.
BuildEffect ==
    /\ \/ /\ Working("Effect")
          /\ Then(Append(Item.args, Invoke(Item.op, "", "", Len(Item.args))))
       \/ /\ Working("Print")
          /\ Then(<<Item.expr, Invoke("Call", "print", "", 1)>>)
       \/ /\ Working("GoStmt")
          /\ Then(<<Invoke("TaskSpawn", Item.callee, "", 0)>>)
    /\ UNCHANGED <<table, fn>>
    /\ Keep

BuildExprStmt ==
    /\ Working("ExprStmt")
    /\ Then(<<Item.expr, Drop>>)
    /\ UNCHANGED <<table, fn>>
    /\ Keep

EndExprStmt ==
    /\ Working("Drop")
    /\ fn' = Pop(1)
    /\ Then(<<>>)
    /\ UNCHANGED table
    /\ Keep

\* A node neither switch knows yields the constant 0, which is dropped.
BuildUnknown ==
    /\ work # <<>>
    /\ Item.node \in {"Break", "Continue"}
    /\ Then(<<>>)
    /\ UNCHANGED <<table, fn>>
    /\ Keep

AppendCode ==
    /\ Working("Code")
    /\ fn' = emit(fn, Item.insts)
    /\ Then(<<>>)
    /\ UNCHANGED table
    /\ Keep

EnterBlock ==
    /\ Working("OpenBlock")
    /\ fn' = [fn EXCEPT !.order = Append(@, Item.label),
                        !.code = Put(@, Item.label, <<>>),
                        !.cur = Item.label]
    /\ Then(<<>>)
    /\ UNCHANGED table
    /\ Keep

BuildStatement ==
    \/ BuildIf \/ SplitIf \/ BuildWhile \/ TestLoop \/ BuildFor \/ EnterFor
    \/ BuildReturn \/ EndReturn \/ BuildDefer \/ BuildEffect
    \/ BuildExprStmt \/ EndExprStmt \/ BuildUnknown \/ AppendCode \/ EnterBlock

(***************************************************************************)
(* buildFunction: parameters are entered in the table, the body is built,  *)
(* a missing return is added and phi nodes are inserted.                   *)
(***************************************************************************)
BeginFunction ==
    /\ work = <<>>
    /\ pending # <<>>
    /\ LET func == prog.funcs[Head(pending)]
       IN  /\ table' = Over([p \in func.params |-> Name(p)], table)
           /\ fn' = FreshState(func)
           /\ work' = Append(func.body, Finish)
    /\ Keep

Returned == fn.code[fn.cur] # <<>> /\ Last(fn.code[fn.cur]).op = "Return"

AddReturn_Never ==
    /\ Working("Finish")
    /\ work' = <<Dominance, Frontiers, Phis>>
    /\ UNCHANGED <<table, fn>>
    /\ Keep

AddReturn ==
    /\ Working("Finish")
    /\ work' = (IF Returned THEN <<>> ELSE LeaveWith(Const(0))) \o <<Dominance, Frontiers, Phis>>
    /\ UNCHANGED <<table, fn>>
    /\ Keep

\* computeDominance: here by what it computes; the module Dominance checks how.
Succs(code, l) == UNION {ToSet(code[l][i].to) : i \in DOMAIN code[l]}
Preds(code, l) == {p \in DOMAIN code : l \in Succs(code, p)}

\* Least set that contains "from" and what step leads to, in n rounds.
Closure(from, step, n) ==
    LET grow[k \in Nat] ==
            IF k = 0 THEN from
            ELSE UNION {prev \cup UNION {step[c] : c \in prev} : prev \in {grow[k - 1]}}
    IN  grow[n]

\* The blocks reached from "from" without entering "avoid".
Reach(code, from, avoid) ==
    Closure(from, [c \in DOMAIN code |-> Succs(code, c) \ avoid], Cardinality(DOMAIN code))

DominatorsOf(code) ==
    [l \in DOMAIN code |->
        {d \in DOMAIN code : d \in {l, Entry} \/ l \notin Reach(code, {Entry}, {d})}]

FrontiersOf(code, dom) ==
    [d \in DOMAIN code |->
        {l \in DOMAIN code : /\ d = l \/ d \notin dom[l]
                             /\ \E p \in Preds(code, l) : d \in dom[p]}]

Block == DOMAIN fn.code

ComputeDominators ==
    /\ Working("Dominance")
    /\ fn' = [fn EXCEPT !.dom = DominatorsOf(fn.code)]
    /\ Then(<<>>)
    /\ UNCHANGED table
    /\ Keep

ComputeFrontiers ==
    /\ Working("Frontiers")
    /\ fn' = [fn EXCEPT !.front = FrontiersOf(fn.code, fn.dom)]
    /\ Then(<<>>)
    /\ UNCHANGED table
    /\ Keep

\* The blocks that get a phi node for x.
PhiBlocks(x) ==
    Closure(UNION {fn.front[d[2]] : d \in {e \in fn.defs : e[1] = x}}, fn.front, Len(fn.order))

\* One at the head of each of them, for every variable with definitions.
\* The node's result is varVersionTable[name]; looking a temporary up enters
\* an empty value for it.  vars is history: the names that stand for variables,
\* not for temporaries.
insertPhiNodes ==
    /\ Working("Phis")
    /\ LET names == {x \in {d[1] : d \in fn.defs} : PhiBlocks(x) # {}}
           known == Over(table, [x \in names |-> Name("")])
           phis(l) == LET here == SetToSeq({x \in names : l \in PhiBlocks(x)})
                      IN  [i \in DOMAIN here |-> Inst("Phi", known[here[i]].name, <<>>)]
       IN  /\ table' = known
           /\ built' = Put(built, Head(pending),
                           [order |-> fn.order, params |-> fn.params,
                            vars |-> {x \in DOMAIN table \ {""} : table[x] = Name(x)},
                            code |-> [l \in Block |-> phis(l) \o fn.code[l]]])
    /\ pending' = Tail(pending)
    /\ work' = <<>>
    /\ UNCHANGED <<prog, fn, runVars>>

Build ==
    \/ BeginFunction \/ BuildExpr \/ BuildStatement
    \/ AddReturn \/ ComputeDominators \/ ComputeFrontiers \/ insertPhiNodes

(***************************************************************************)
(* Running the code: what each opcode means.  Variables are the stack      *)
(* slots the encoders give to names, one each; Phi, RegionEnter and        *)
(* RegionExit do nothing, the last two are counted.  The world answers a   *)
(* call or a read with a value that depends on how much has happened.      *)
(***************************************************************************)
Answer(trace) == Len(trace) % 2
Event(op, sym, args) == [op |-> op, sym |-> sym, args |-> args]

Arithmetic == {"Add", "Sub", "Mul", "Div", "Mod", "LessThan", "LessEqual", "GreaterThan",
               "GreaterEqual", "Equal", "NotEqual"}
Silent == {"Phi", "RegionEnter", "RegionExit"}

Start(k, env) ==
    /\ pending = <<>>
    /\ running = 0
    /\ running' = k
    /\ machine' = [status |-> "run", at |-> Entry, pc |-> 1, env |-> env,
                   regions |-> 0, trace |-> <<>>, result |-> 0]
    /\ source' = [status |-> "run", todo |-> prog.funcs[k].body, env |-> Over(env, prog.globals),
                  vals |-> <<>>, defers |-> <<>>, trace |-> <<>>, result |-> 0]
    /\ UNCHANGED buildVars

Func == built[running]
Current == Func.code[machine.at][machine.pc]
ValueOf(v) == IF v.const THEN v.num ELSE machine.env[v.name]
Operands == [i \in DOMAIN Current.operands |-> ValueOf(Current.operands[i])]
Unset == {v \in ToSet(Current.operands) : ~v.const /\ v.name \notin DOMAIN machine.env}

Proceed == [machine EXCEPT !.pc = @ + 1]
Fails(how) == [machine EXCEPT !.status = how]
Goto(label) ==
    IF label \in DOMAIN Func.code THEN [machine EXCEPT !.at = label, !.pc = 1] ELSE Fails("lost")
Set(m, x, val) == IF x = "" THEN m ELSE [m EXCEPT !.env = Put(@, x, val)]

MachineNext ==
    IF machine.pc > Len(Func.code[machine.at]) THEN Fails("lost")
    ELSE IF Unset # {} THEN Fails("garbage")
    ELSE CASE Current.op \in Silent ->
            [Proceed EXCEPT !.regions = @ + (CASE Current.op = "RegionEnter" -> 1
                                               [] Current.op = "RegionExit" -> -1
                                               [] OTHER -> 0)]
      [] Current.op = "Copy" -> Set(Proceed, Current.result, Operands[1])
      [] Current.op \in Arithmetic ->
            Set(Proceed, Current.result, Compute(Current.op, Operands[1], Operands[2]))
      [] Current.op = "Branch" -> Goto(Current.to[1])
      [] Current.op = "CondBranch" -> Goto(Current.to[IF Operands[1] # 0 THEN 1 ELSE 2])
      [] Current.op = "Return" -> [machine EXCEPT !.status = "done", !.result = Operands[1]]
      [] OTHER ->
            [Set(Proceed, Current.result, Answer(machine.trace)) EXCEPT
                !.trace = Append(@, Event(Current.op, Current.sym, Operands))]

(***************************************************************************)
(* Running the source: what the documents say each node does.  "todo" is   *)
(* what is left to do, vals the values of the expressions evaluated so     *)
(* far.  Again marks the end of a loop's body.                             *)
(***************************************************************************)
Combine(op) == [node |-> "Combine", op |-> op]
Shortcut(op, right) == [node |-> "Shortcut", op |-> op, right |-> right]
AsTruth == [node |-> "AsTruth"]
Happen(op, sym, argc, answers) ==
    [node |-> "Happen", op |-> op, sym |-> sym, argc |-> argc, answers |-> answers]
Again(loop) == [node |-> "Again", loop |-> loop]

\* A for loop evaluates its range once and becomes a while loop.
ForAsWhile(e, hi) ==
    [While(Binary(IF e.inclusive THEN "<=" ELSE "<", Var(e.var), IntLit(hi)), e.body)
        EXCEPT !.step = <<ExprStmt(VarAssign(e.var, "+=", IntLit(1)))>>]

\* What is done first for a node: its operands, then what happens with them.
Parts(e) ==
    CASE e.node = "Binary" ->
            IF e.op \in {"&&", "||"} THEN <<e.left, Shortcut(e.op, e.right)>>
            ELSE <<e.left, e.right, Combine(BinaryOp(e.op))>>
      [] e.node = "FuncCall" -> Append(e.args, Happen("Call", e.callee, Len(e.args), TRUE))
      [] e.node = "Access" -> Append(e.args, Happen(e.op, "", Len(e.args), TRUE))
      [] e.node = "Cast" -> <<e.expr>>
      [] e.node = "ArrayAlloc" ->
            <<IntLit(e.size), Happen("ArrayAlloc", "", 1, TRUE), [node |-> "SetVar", name |-> e.name]>>
      [] e.node = "Effect" -> Append(e.args, Happen(e.op, "", Len(e.args), FALSE))
      [] e.node = "Print" -> <<e.expr, Happen("Call", "print", 1, FALSE)>>
      [] e.node = "GoStmt" -> Append(e.args, Happen("TaskSpawn", e.callee, Len(e.args), FALSE))
      [] e.node = "VarAssign" ->
            (IF AssignOp(e.op) = "Copy" THEN <<e.value>>
             ELSE <<Var(e.name), e.value, Combine(AssignOp(e.op))>>) \o
            <<[node |-> "SetVar", name |-> e.name]>>
      [] e.node = "ExprStmt" -> <<e.expr, Drop>>
      [] e.node = "If" -> <<e.cond, [node |-> "Choose", then |-> e.then, else |-> e.else]>>
      [] e.node = "While" ->
            <<e.cond, [node |-> "Choose", then |-> Append(e.body, Again(e)), else |-> <<>>]>>
      [] e.node = "Again" -> Append(e.loop.step, e.loop)
      [] e.node = "For" -> <<e.start, e.end, [node |-> "Iterate", for |-> e]>>
      [] e.node = "Return" -> <<e.expr, [node |-> "GiveBack"]>>

Composite == {"Binary", "FuncCall", "Access", "Cast", "ArrayAlloc", "Effect", "Print", "GoStmt",
              "VarAssign", "ExprStmt", "If", "While", "Again", "For", "Return"}

\* Perform(s, e): e in state s, whose todo is what comes after e.
Perform(s, e) ==
    LET n == Len(s.vals)
        Less(k) == [s EXCEPT !.vals = SubSeq(@, 1, n - k)]
        Yield(k, v) == [s EXCEPT !.vals = Append(SubSeq(@, 1, n - k), v)]
        atEnd == SelectInSeq(s.todo, LAMBDA d : d.node = "Again")
    IN  CASE e.node \in Composite -> [s EXCEPT !.todo = Parts(e) \o @]
          [] e.node = "IntLit" -> Yield(0, e.val)
          [] e.node = "Var" -> Yield(0, s.env[e.name])
          [] e.node = "Combine" -> Yield(2, Compute(e.op, s.vals[n - 1], s.vals[n]))
          [] e.node = "AsTruth" -> Yield(1, Truth(s.vals[n] # 0))
          [] e.node = "Shortcut" ->
                IF (s.vals[n] = 0) = (e.op = "&&") THEN Yield(1, Truth(s.vals[n] # 0))
                ELSE [Less(1) EXCEPT !.todo = <<e.right, AsTruth>> \o @]
          [] e.node = "Happen" ->
                [(IF e.answers THEN Yield(e.argc, Answer(s.trace)) ELSE Less(e.argc))
                    EXCEPT !.trace = Append(@, Event(e.op, e.sym, SubSeq(s.vals, n - e.argc + 1, n)))]
          [] e.node = "SetVar" -> [s EXCEPT !.env = Put(@, e.name, s.vals[n])]
          [] e.node = "Drop" -> Less(1)
          [] e.node = "Choose" ->
                [Less(1) EXCEPT !.todo = (IF s.vals[n] # 0 THEN e.then ELSE e.else) \o @]
          [] e.node = "Iterate" ->
                [Less(2) EXCEPT !.env = Put(@, e.for.var, s.vals[n - 1]),
                                !.todo = <<ForAsWhile(e.for, s.vals[n])>> \o @]
          [] e.node \in {"Break", "Continue"} /\ atEnd = 0 -> s      \* outside every loop
          [] e.node = "Break" /\ atEnd # 0 -> [s EXCEPT !.todo = SubSeq(@, atEnd + 1, Len(@))]
          [] e.node = "Continue" /\ atEnd # 0 -> [s EXCEPT !.todo = SubSeq(@, atEnd, Len(@))]
          [] e.node = "Defer" -> [s EXCEPT !.defers = Append(@, e.call)]
          [] e.node = "GiveBack" -> [Less(1) EXCEPT !.result = s.vals[n], !.todo = <<>>]

\* When nothing is left the deferred calls are made, last one first.
SourceNext ==
    IF source.todo # <<>> THEN Perform([source EXCEPT !.todo = Tail(@)], Head(source.todo))
    ELSE IF source.status = "run" THEN
        LET deferred == Reverse(source.defers)
        IN  [source EXCEPT !.status = "leave",
                           !.todo = [i \in DOMAIN deferred |-> ExprStmt(deferred[i])]]
    ELSE [source EXCEPT !.status = "done"]

\* The two executions go side by side.
Step ==
    /\ running # 0
    /\ machine.status = "run" \/ source.status # "done"
    /\ machine' = IF machine.status = "run" THEN MachineNext ELSE machine
    /\ source' = IF source.status # "done" THEN SourceNext ELSE source
    /\ UNCHANGED <<buildVars, running>>

Envs(k) == [prog.funcs[k].params -> Args]

Next ==
    \/ Build
    \/ \E k \in DOMAIN prog.funcs : \E env \in Envs(k) : Start(k, env)
    \/ Step

Spec == Init /\ [][Next]_vars
FairSpec == Spec /\ WF_vars(Next)

(***************************************************************************)
(* Properties.                                                             *)
(***************************************************************************)

\* Every variable has its type; the blocks of a function are the labels in
\* its layout, each once.
TypeOK ==
    /\ prog \in Programs
    /\ pending \in Seq(DOMAIN prog.funcs)
    /\ running \in 0 .. Len(prog.funcs)
    /\ DOMAIN built = DOMAIN prog.funcs \ ToSet(pending)
    /\ \A k \in DOMAIN built : /\ ToSet(built[k].order) = DOMAIN built[k].code
                                /\ IsInjective(built[k].order)
    /\ machine.status \in {"idle", "run", "done", "lost", "garbage"}
    /\ source.status \in {"idle", "run", "leave", "done"}

Finished == machine.status = "done" /\ source.status = "done"

\* The code does what the source says: no instruction reads a name nothing has
\* been stored in, at no time have the two executions done different things, and
\* in the end they have done the same and return the same value, whichever
\* functions were compiled before.
CompiledAsWritten ==
    running # 0 =>
        /\ machine.status # "garbage"
        /\ IsPrefix(machine.trace, source.trace) \/ IsPrefix(source.trace, machine.trace)
        /\ Finished => machine.trace = source.trace /\ machine.result = source.result

\* Control is never lost, however conditionals, loops and returns are nested: it
\* does not run off the end of a block, and every branch that is taken leads to a
\* block of the function.  The variables keep their types meanwhile.
NeverStuck == TypeOK /\ machine.status # "lost"

\* On every way out of a function its region is entered and left exactly once.
RegionsBalanced ==
    running # 0 =>
        /\ machine.regions \in {0, 1}
        /\ machine.status = "done" => machine.regions = 0

\* The blocks with a phi node for x; those that define x, by any instruction that
\* stores in it, by a phi node, or by being the entry of a function that x is a
\* parameter of; and whether every store in x is one that emit records.
PhisFor(code, x) ==
    {l \in DOMAIN code : \E i \in DOMAIN code[l] : code[l][i].op = "Phi" /\ code[l][i].result = x}
DefinedIn(b, x) ==
    {l \in DOMAIN b.code : \/ l = Entry /\ x \in b.params
                           \/ \E i \in DOMAIN b.code[l] : b.code[l][i].result = x}
Tracked(code, x) ==
    \A l \in DOMAIN code : \A i \in DOMAIN code[l] :
        code[l][i].result = x => code[l][i].op \in Recorded \cup {"Phi"}

\* The end of d reaches the start of l past no block of D.
Meets(code, D, d, l) ==
    l \in UNION {Succs(code, c) : c \in {d} \cup Reach(code, Succs(code, d) \ D, D)}

\* Of the blocks that define x at most one reaches the start of a block that has
\* no phi node for x.
Suffices(b, x) ==
    LET D == DefinedIn(b, x)
    IN  \A l \in DOMAIN b.code \ PhisFor(b.code, x) :
            Cardinality({d \in D : Meets(b.code, D, d, l)}) <= 1

\* In every function that has been built, where two definitions of a variable meet
\* in its code there is a phi node for it, provided the variable is only assigned
\* with =, += or -= or counts a loop.  Nothing is claimed of a variable that the
\* function also changes with *= or /=, or allocates as an array: emit does not
\* record these definitions (SSABuilder.cpp:22) and they get no phi nodes.
PhisSuffice ==
    running = 0 =>
        \A k \in DOMAIN built : \A x \in built[k].vars :
            Tracked(built[k].code, x) => Suffices(built[k], x)

\* A function that comes to an end as written does so as compiled.
Terminates == <>Finished

=============================================================================
