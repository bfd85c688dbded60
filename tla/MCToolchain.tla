---------------------------- MODULE MCToolchain ----------------------------
(***************************************************************************)
(* Calls of lsm for TLC: programs as the builder makes them, each compiled *)
(* for the targets that have a case for its instructions.                  *)
(***************************************************************************)
EXTENDS Toolchain

I(x) == makeVar(x, "Int64")
F(x) == makeVar(x, "Float64")
N(n) == makeConstNum(n)
D(f) == makeConstFloat(f)
L(name) == makeConstStr(name)
Do(op, x, l, r) == Inst(op, I(x), <<l, r>>)
DoF(op, x, l, r) == Inst(op, F(x), <<l, r>>)
Let(x, v) == Inst("Copy", I(x), <<v>>)
Goto(label) == Inst("Branch", NoResult, <<L(label)>>)
Test(c, yes, no) == Inst("CondBranch", NoResult, <<c, L(yes), L(no)>>)
Call(x, fn, args) == Inst("Call", x, <<L(fn)>> \o args)
Ret(v) == Inst("Return", NoResult, <<v>>)
Effect(op, operands) == Inst(op, NoResult, operands)
Out(port, v) == Effect("IOPortWrite", <<N(port), v>>)
PrintNum(v) == Call(I("p"), "__lsm_native_print_num", <<v>>)
Show(hosted, v) == IF hosted THEN PrintNum(v) ELSE Out(3, v)

Block(label, preds, insts) == [label |-> label, insts |-> insts, preds |-> preds]
Fn(name, params, insts) ==
    [name |-> name, params |-> params, naked |-> FALSE, blocks |-> <<Block(name \o "_entry", <<>>, insts)>>]
Flow(name, params, blocks) == [name |-> name, params |-> params, naked |-> FALSE, blocks |-> blocks]
Start(insts) == Fn("_start", <<>>, insts)

MCSignatures ==
    ("__lsm_native_print_num" :> <<"Int64">>) @@ ("__lsm_native_print_float" :> <<"Float64">>)
        @@ ("__lsm_native_print_str" :> <<"String">>) @@ ("six" :> [k \in 1 .. 6 |-> "Int64"])
        @@ ("fast_copy" :> [k \in 1 .. 3 |-> "Int64"])

(***************************************************************************)
(* Programs.                                                               *)
(***************************************************************************)
Arith(hosted, op, l, r) ==
    <<Start(<<Let("x", N(l)), Let("y", N(r)), Do(op, "t0", I("x"), I("y")), Show(hosted, I("t0")),
              Ret(I("t0"))>>)>>

\* A sum over a loop, whose product with k does not change, and a last test.
Loop(hosted, bound, k) ==
    <<Fn("twice", <<I("v")>>, <<Do("Add", "t9", I("v"), I("v")), Ret(I("t9"))>>),
      Flow("_start", <<>>,
        <<Block("_start_entry", <<>>, <<Call(I("k"), "twice", <<N(k)>>), Let("i", N(0)), Let("s", N(0)), Goto("w1")>>),
          Block("w1", <<"_start_entry", "b2">>, <<Do("Sub", "t0", N(bound), I("i")), Test(I("t0"), "b2", "e3")>>),
          Block("b2", <<"w1">>, <<Do("Mul", "t1", I("k"), I("k")), Do("Add", "t2", I("s"), I("t1")), Let("s", I("t2")),
                      Do("Add", "t3", I("i"), N(1)), Let("i", I("t3")), Goto("w1")>>),
          Block("e3", <<"w1">>, <<Show(hosted, I("s")), Do("Sub", "t4", I("s"), I("k")), Ret(I("t4"))>>)>>)>>

\* n arguments, each weighted differently, and the callee calls on.
Name(k) == <<"a", "b", "c", "d", "e", "f", "g", "h">>[k]
Weighted(n) ==
    [k \in 1 .. 2 * n |-> IF k % 2 = 1 THEN Do("Mul", "t0", I(Name((k + 1) \div 2)), N((k + 1) \div 2))
                          ELSE Do("Add", "s", I("s"), I("t0"))]
Args(hosted, n) ==
    <<Fn("sum", [k \in 1 .. n |-> I(Name(k))],
         <<Let("s", N(0))>> \o Weighted(n) \o <<Show(hosted, I("s")), Ret(I("s"))>>),
      Start(<<Let("q", N(2)), Call(I("t1"), "sum", [k \in 1 .. n |-> IF k = 2 THEN I("q") ELSE N(3 * k)]),
              Do("Sub", "t2", I("t1"), I("q")), Ret(I("t2"))>>)>>

Recursive ==
    <<Start(<<Call(I("t0"), "fact", <<N(3)>>), Ret(I("t0"))>>),
      Flow("fact", <<I("n")>>,
        <<Block("fact_entry", <<>>, <<Test(I("n"), "then1", "else2")>>),
          Block("then1", <<"fact_entry">>, <<Do("Sub", "t1", I("n"), N(1)), Call(I("t2"), "fact", <<I("t1")>>),
                         Do("Mul", "t3", I("n"), I("t2")), Ret(I("t3"))>>),
          Block("else2", <<"fact_entry">>, <<Ret(N(1))>>)>>)>>

Floats(print) ==
    <<Fn("scale", <<F("x"), I("n"), F("y")>>,
         <<DoF("FMul", "t0", F("x"), F("y")), DoF("FSub", "t1", F("t0"), D(2)), DoF("FDiv", "t2", F("t1"), D(2)),
           Inst("Return", NoResult, <<F("t2")>>)>>),
      Start(<<Inst("Copy", F("u"), <<D(3)>>), Call(F("t3"), "scale", <<F("u"), N(1), D(4)>>),
              DoF("FAdd", "t4", F("t3"), F("u"))>>
            \o (IF print THEN <<Call(I("t5"), "__lsm_native_print_float", <<F("t4")>>),
                                Inst("FLessThan", I("t6"), <<F("u"), F("t4")>>), Ret(I("t6"))>>
                ELSE <<Ret(N(0))>>))>>

\* Two additions in a row in a branch that is not taken.
Untaken ==
    <<Flow("_start", <<>>,
        <<Block("_start_entry", <<>>, <<Inst("Copy", F("x"), <<D(1)>>), Do("LessThan", "t0", N(5), N(2)), Test(I("t0"), "then1", "end2")>>),
          Block("then1", <<"_start_entry">>, <<DoF("FAdd", "t1", F("x"), F("x")), DoF("FAdd", "t2", F("x"), D(2)),
                         DoF("FAdd", "x", F("t1"), F("t2")), Goto("end2")>>),
          Block("end2", <<"_start_entry", "then1">>,
                <<Call(I("p"), "__lsm_native_print_float", <<F("x")>>), Ret(N(0))>>)>>)>>

Arrays ==
    <<Start(<<Inst("ArrayAlloc", makeVar("m", "Ptr"), <<N(2)>>), Let("i", N(1)),
              Inst("ArrayAlloc", makeVar("n", "Ptr"), <<N(3)>>), Let("j", N(2)),
              Effect("ArrayStore", <<makeVar("m", "Ptr"), I("i"), N(7)>>),
              Effect("ArrayStore", <<makeVar("n", "Ptr"), N(0), N(8)>>),
              Effect("ArrayStore", <<makeVar("n", "Ptr"), I("j"), N(9)>>),
              Inst("ArrayLoad", I("t0"), <<makeVar("m", "Ptr"), I("i")>>),
              Inst("ArrayLoad", I("t1"), <<makeVar("n", "Ptr"), N(0)>>), Do("Sub", "t2", I("t0"), I("t1")),
              PrintNum(I("t2")), Do("Add", "t3", I("i"), I("j")), Ret(I("t3"))>>)>>

\* Arrays of one name and two sizes in two functions, one of which calls the other
\* and reads its array again afterwards.
Ptr(x) == makeVar(x, "Ptr")
TwoArrays ==
    <<Start(<<Let("i", N(1)), Inst("ArrayAlloc", Ptr("m"), <<N(2)>>), Effect("ArrayStore", <<Ptr("m"), I("i"), N(7)>>),
              Call(I("t0"), "fill", <<N(5)>>), Inst("ArrayLoad", I("t1"), <<Ptr("m"), I("i")>>),
              Do("Sub", "t2", I("t0"), I("t1")), PrintNum(I("t2")), Ret(I("i"))>>),
      Fn("fill", <<I("v")>>,
         <<Inst("ArrayAlloc", Ptr("m"), <<N(3)>>), Let("j", N(2)), Effect("ArrayStore", <<Ptr("m"), N(0), N(1)>>),
           Effect("ArrayStore", <<Ptr("m"), I("j"), I("v")>>), Inst("ArrayLoad", I("t0"), <<Ptr("m"), I("j")>>),
           Do("Add", "t1", I("t0"), I("v")), Ret(I("t1"))>>)>>

Natives ==
    <<Start(<<Call(I("p"), "__lsm_native_print_str", <<Value("", 0, "text", "String")>>),
              Call(I("t0"), "six", <<N(1), N(2), N(3), N(4), N(5), N(6)>>), PrintNum(I("t0")), Ret(N(0))>>)>>

\* Arguments after the fourth, which Windows puts on the stack.
FourThenPrint == Args(TRUE, 5)

Registers(reg, hosted) ==
    <<Start(<<Effect("SetRegister", <<L(reg), N(6)>>), Inst("GetRegister", I("t0"), <<L(reg)>>),
              Show(hosted, I("t0")), Ret(I("t0"))>>)>>

\* A driver: control, ports of both widths, volatile memory of the given types.
Driver(types, port) ==
    <<Start(<<Effect("DisableInterrupts", <<>>), Inst("IOPortRead", I("t0"), <<N(port)>>), Out(port, I("t0"))>>
            \o FlattenSeq([k \in DOMAIN types |->
                 <<Effect("VolatileStore", <<N(8 * k), makeConst(213, types[k])>>),
                   Inst("VolatileLoad", makeVar("t1", types[k]), <<N(8 * k)>>), Out(3, I("t1"))>>])
            \o <<Effect("EnableInterrupts", <<>>), Effect("CpuHalt", <<>>), Ret(N(0))>>)>>
Small(types, port) ==
    <<Start(SelectSeq(Driver(types, port)[1].blocks[1].insts,
                      LAMBDA i : i.op \notin {"DisableInterrupts", "EnableInterrupts", "CpuHalt"}))>>

\* A kernel: naked _start, a main function called kmain, and a last halt.
Kernel(entry) ==
    <<Fn("kmain", <<I("a"), I("b")>>,
         <<Do("Div", "t0", I("a"), I("b")), Do("Mod", "t1", I("a"), I("b")), Out(3, I("t0")), Out(3, I("t1")),
           Call(I("t2"), "fast_copy", <<N(16), N(32), I("t0")>>), Ret(N(0))>>),
      [Fn(entry, <<>>, <<Effect("DisableInterrupts", <<>>), Call(I("t3"), "kmain", <<N(9), N(4)>>),
                         Effect("CpuHalt", <<>>)>>) EXCEPT !.naked = TRUE]>>

\* A constant that is used, one that is not, and folding.
Folding(hosted) ==
    <<Start(<<Let("x", N(6)), Let("dead", N(1)), Do("Mul", "t0", I("x"), N(3)), Let("y", I("t0")),
              Do("Div", "t1", I("y"), N(-4)), Do("Add", "t2", I("t1"), N(1)), Show(hosted, I("t1")),
              Inst("RegionEnter", NoResult, <<>>), Ret(I("y"))>>)>>

\* An assignment in a loop whose body is never entered.
ZeroTrip ==
    <<Flow("_start", <<>>,
        <<Block("_start_entry", <<>>, <<Let("x", N(1)), Let("i", N(0)), Goto("w1")>>),
          Block("w1", <<"_start_entry", "b2">>, <<Do("LessThan", "t0", I("i"), N(0)), Test(I("t0"), "b2", "e3")>>),
          Block("b2", <<"w1">>, <<Let("x", N(5)), Do("Add", "t1", I("i"), N(1)), Let("i", I("t1")), Goto("w1")>>),
          Block("e3", <<"w1">>, <<PrintNum(I("x")), Ret(N(0))>>)>>)>>

(***************************************************************************)
(* Calls.                                                                  *)
(***************************************************************************)
Flag(f) == [flag |-> f, val |-> ""]
Flags(fs) == [k \in DOMAIN fs |-> Flag(fs[k])]
Good(funcs) == [verdict |-> "ok", funcs |-> funcs]
Bad(verdict) == [verdict |-> verdict, funcs |-> <<>>]
Job(argv, source, windows) == [argv |-> argv, source |-> source, windows |-> windows]

Run(o3) == Flags(<<"run", "p.lsm">> \o (IF o3 THEN <<"-O3">> ELSE <<>>))
Build(fs) == Flags(<<"build">> \o fs \o <<"p.lsm">>)
Std == {Build(<<"--baremetal">>)}
Mod8 == {Build(<<"--modern", "--baremetal">>), Build(<<"--baremetal", "--modern", "-O3">>)}
M32 == {Build(<<"--m32", "--baremetal">>)}

Ops64 == {"Add", "Sub", "Mul"}
HostedArith ==
    {Arith(TRUE, op, l, r) : op \in Ops64 \cup Comparisons, l \in {-7, 32767}, r \in {-7, 3}}
        \cup {Arith(TRUE, op, l, r) : op \in {"Div", "Mod"}, l \in {-7, 9}, r \in {-2, 3}}
BareArith ==
    {Arith(FALSE, op, 7, r) : op \in Ops64 \cup {"Div", "Mod", "LessEqual"}, r \in {3, 9}}
BitArith == {Arith(FALSE, op, l, 3) : op \in {"BitAnd", "BitOr", "BitXor", "Shl", "Shr"}, l \in {-6, 6}}
SmallArith == {Arith(FALSE, op, -7, 3) : op \in Ops64 \cup {"Div", "Mod"}}

HostedPrograms ==
    HostedArith \cup {Args(TRUE, n) : n \in {1, 6}}
        \cup {Loop(TRUE, b, 3) : b \in {0, 2}} \cup {Recursive, Floats(TRUE), Untaken, Arrays, TwoArrays, Natives, Folding(TRUE)}
Plain == {Arith(TRUE, "Div", 4, 0), ZeroTrip, Registers("rcx", TRUE), FourThenPrint}

MCJobs ==
    {Job(Run(o3), Good(p), FALSE) : o3 \in BOOLEAN, p \in HostedPrograms}
    \cup {Job(Run(FALSE), Good(p), w) : w \in BOOLEAN, p \in Plain}
    \cup {Job(Run(TRUE), Good(p), TRUE) : p \in {Floats(TRUE), Arrays, Args(TRUE, 7), Loop(TRUE, 2, 3)}}
    \cup {Job(Flags(<<"build", "p.lsm", "-o", "out", "-O3">>), Good(Driver(<<"Int64">>, 3)), FALSE)}
    \cup {Job(a, Good(p), FALSE) : a \in Std,
            p \in BareArith \cup {Args(FALSE, n) : n \in {6, 7, 8}} \cup
                  {Loop(FALSE, 2, 3), Recursive, Floats(FALSE), Registers("rbx", FALSE), Driver(<<"Int8">>, DiskPort),
                   Kernel("_start")}}
    \cup {Job(a, Good(p), FALSE) : a \in Mod8,
            p \in BareArith \cup BitArith \cup {Args(FALSE, 5), Loop(FALSE, 2, 3), Floats(FALSE),
                  Driver(<<"Int8", "Int16", "Int32", "Int64">>, DiskPort), Kernel("_start")}}
    \cup {Job(a, Good(p), FALSE) : a \in M32,
            p \in SmallArith \cup BitArith \cup {Args(FALSE, 3), Loop(FALSE, 2, 3), Recursive,
                  Small(<<"Int8", "Int32">>, 5)}}
    \cup {Job(<<Flag("build"), Flag("p.lsm"), [flag |-> "--entry=", val |-> "boot"], Flag("--bootable")>>,
              Good(Kernel("boot")), FALSE),
          Job(Flags(<<"build", "p.lsm", "--entry", "boot", "--baremetal", "q.lsm">>), Good(Kernel("boot")), FALSE)}
    \cup {Job(Run(TRUE), Bad(v), FALSE) : v \in {"load", "type"}}
    \cup {Job(a, Good(<<>>), FALSE) : a \in {Run(FALSE), Build(<<>>), Build(<<"--baremetal">>)}}
    \cup {Job(Flags(a), Bad("load"), FALSE) :
            a \in {<<>>, <<"--version">>, <<"--lsp">>, <<"compile", "p.lsm">>, <<"run", "-O3">>, <<"build", "-o">>}}

\* The one call of run licm.
ZeroTripJobs == {Job(Run(TRUE), Good(ZeroTrip), FALSE)}

=============================================================================
