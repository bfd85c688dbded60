--------------------------- MODULE SSAInstruction ---------------------------
(***************************************************************************)
(* The intermediate representation that the SSA builder hands to the       *)
(* optimiser and the encoders (src/src/middleend/ssa/SSAInstruction.hpp),  *)
(* and what a program in it means.                                         *)
(*                                                                         *)
(* A program is a sequence of functions [name, params, naked, blocks], a   *)
(* block is [label, insts, preds].  Its meaning is what the outside sees:  *)
(* the events of ports, volatile memory, native functions and processor    *)
(* control, and the value the first function returns.                      *)
(***************************************************************************)
EXTENDS Integers, Sequences, SequencesExt, TLC

LOCAL INSTANCE Bitwise

CONSTANTS
    ByteBits,       \* bits of a byte (8); a word has eight bytes
    Signatures      \* native functions: name :> the types of their parameters

ASSUME ByteAssumption == ByteBits \in Nat \ {0}

(***************************************************************************)
(* Values and instructions.                                                *)
(***************************************************************************)
Value(name, num, str, type) == [name |-> name, num |-> num, str |-> str, type |-> type]
makeVar(x, type) == Value(x, 0, "", type)
makeConst(n, type) == Value("", n, "", type)
makeConstNum(n) == makeConst(n, "Int64")
makeConstFloat(f) == Value("", f, "", "Float64")
makeConstStr(s) == Value("", 0, s, "String")
NoResult == makeVar("", "Void")

isConstant(v) == v.name = ""
constNum(v) == IF v.type \in {"Float64", "String"} THEN 0 ELSE v.num
constFloat(v) == IF v.type = "Float64" THEN v.num ELSE 0

Inst(op, result, operands) == [op |-> op, result |-> result, operands |-> operands]

(***************************************************************************)
(* Words.  Integers are two's complement; a double is kept in the same     *)
(* word under another encoding, in which only zero looks like an integer.  *)
(***************************************************************************)
WordBytes == 8
Half == 2 ^ (WordBytes * ByteBits - 1)
Wrap(n) == ((n + Half) % (2 * Half)) - Half
Unsigned(n) == n % (2 * Half)
Low(n, bytes) == n % (2 ^ (ByteBits * bytes))

DoubleBias == Half \div 2
Bits(f) == IF f = 0 THEN 0 ELSE f + DoubleBias
Double(bits) == IF bits = 0 THEN 0 ELSE bits - DoubleBias

Truth(c) == IF c THEN 1 ELSE 0
Abs(n) == IF n < 0 THEN -n ELSE n
Quotient(l, r) == (IF (l < 0) = (r < 0) THEN 1 ELSE -1) * (Abs(l) \div Abs(r))
Remainder(l, r) == l - r * Quotient(l, r)

IntOps == {"Add", "Sub", "Mul", "Div", "Mod", "BitAnd", "BitOr", "BitXor", "Shl", "Shr"}
Comparisons == {"Equal", "NotEqual", "LessThan", "LessEqual", "GreaterThan", "GreaterEqual"}
FloatOps == {"FAdd", "FSub", "FMul", "FDiv"}
FloatComparisons ==
    {"FEqual", "FNotEqual", "FLessThan", "FLessEqual", "FGreaterThan", "FGreaterEqual"}

\* What an operation computes from two words.
Compute(op, l, r) ==
    CASE op = "Add" -> Wrap(l + r)
      [] op = "Sub" -> Wrap(l - r)
      [] op = "Mul" -> Wrap(l * r)
      [] op = "Div" -> Quotient(l, r)
      [] op = "Mod" -> Remainder(l, r)
      [] op = "BitAnd" -> Wrap(Unsigned(l) & Unsigned(r))
      [] op = "BitOr" -> Wrap(Unsigned(l) | Unsigned(r))
      [] op = "BitXor" -> Wrap(Unsigned(l) ^^ Unsigned(r))
      [] op = "Shl" -> Wrap(l * 2 ^ r)
      [] op = "Shr" -> Wrap(Unsigned(l) \div 2 ^ r)
      [] op = "FAdd" -> Bits(Double(l) + Double(r))
      [] op = "FSub" -> Bits(Double(l) - Double(r))
      [] op = "FMul" -> Bits(Double(l) * Double(r))
      [] op = "FDiv" -> Bits(Quotient(Double(l), Double(r)))
      [] op = "Equal" -> Truth(l = r)
      [] op = "NotEqual" -> Truth(l # r)
      [] op = "LessThan" -> Truth(l < r)
      [] op = "LessEqual" -> Truth(l <= r)
      [] op = "GreaterThan" -> Truth(l > r)
      [] op = "GreaterEqual" -> Truth(l >= r)
      [] op = "FEqual" -> Truth(Double(l) = Double(r))
      [] op = "FNotEqual" -> Truth(Double(l) # Double(r))
      [] op = "FLessThan" -> Truth(Double(l) < Double(r))
      [] op = "FLessEqual" -> Truth(Double(l) <= Double(r))
      [] op = "FGreaterThan" -> Truth(Double(l) > Double(r))
      [] op = "FGreaterEqual" -> Truth(Double(l) >= Double(r))

(***************************************************************************)
(* The outside.  A device or a native function answers with a value that   *)
(* depends on how much has happened before; volatile memory keeps what was *)
(* stored; the string pool hands out addresses.                            *)
(***************************************************************************)
Event(kind, args) == <<kind, args>>
Answer(out, bytes) == Low(5 + 7 * Len(out), bytes)
PoolAddress == Half - 2
DiskPort == 496     \* 0x1F0, the one port the encoders transfer 16 bits through
PortBytes(port) == IF isConstant(port) /\ constNum(port) = DiskPort THEN 2 ELSE 1
WidthOf(type) == CASE type = "Int8" -> 1 [] type = "Int16" -> 2 [] type = "Int32" -> 4 [] OTHER -> 8

\* hlt waits for an interrupt: with interrupts disabled the machine stops.
Masked(out) ==
    \E k \in DOMAIN out : /\ out[k][1] = "DisableInterrupts"
                          /\ \A j \in k .. Len(out) : out[j][1] # "EnableInterrupts"
AfterControl(op, out) == IF op = "CpuHalt" /\ Masked(out) THEN "stopped" ELSE "run"

Read(cells, a) == IF a \in DOMAIN cells THEN cells[a] ELSE 0
Write(cells, a, bytes, v) ==
    (a :> Wrap(Unsigned(Read(cells, a)) - Low(Unsigned(Read(cells, a)), bytes)
               + Low(Unsigned(v), bytes))) @@ cells

(***************************************************************************)
(* The meaning of a program, an instruction at a time.                     *)
(***************************************************************************)
BlockAt(f, label) == CHOOSE b \in DOMAIN f.blocks : f.blocks[b].label = label
Named(prog, name) == {f \in DOMAIN prog : prog[f].name = name}

Activation(prog, f, args, result) ==
    [fn |-> f, blk |-> 1, pc |-> 1, result |-> result, arrays |-> <<>>,
     env |-> [x \in {prog[f].params[k].name : k \in DOMAIN prog[f].params} |->
                args[CHOOSE k \in DOMAIN args : prog[f].params[k].name = x]]]

Begin(prog, entry) ==
    [status |-> "run", frames |-> <<Activation(prog, entry, <<>>, NoResult)>>,
     out |-> <<>>, cells |-> <<>>, regs |-> <<>>, value |-> <<>>]

Frame(m) == Head(m.frames)
Current(prog, m) == prog[Frame(m).fn].blocks[Frame(m).blk].insts[Frame(m).pc]
Word(m, v) ==
    IF ~isConstant(v) THEN Frame(m).env[v.name]
    ELSE CASE v.type = "Float64" -> Bits(v.num)
           [] v.type = "String" -> PoolAddress
           [] OTHER -> v.num

Advance(m) == [m EXCEPT !.frames[1].pc = @ + 1]
Define(m, v, w) == IF v.name = "" THEN m ELSE [m EXCEPT !.frames[1].env = (v.name :> w) @@ @]
Sees(m, kind, args) == [m EXCEPT !.out = Append(@, Event(kind, args))]
Jump(prog, m, label) ==
    [m EXCEPT !.frames[1].blk = BlockAt(prog[Frame(m).fn], label), !.frames[1].pc = 1]

MeanCall(prog, m, i) ==
    LET fn == i.operands[1].str
        args == [k \in 1 .. Len(i.operands) - 1 |-> Word(m, i.operands[k + 1])]
    IN  IF fn \in DOMAIN Signatures
          THEN Define(Sees(Advance(m), fn, args), i.result, Answer(m.out, WordBytes))
        ELSE IF Named(prog, fn) = {} THEN Advance(m)
        ELSE [Advance(m) EXCEPT
                !.frames = <<Activation(prog, CHOOSE f \in Named(prog, fn) : TRUE, args, i.result)>> \o @]

\* values holds the value returned, if there is one.
MeanReturn(m, values) ==
    IF Len(m.frames) = 1 THEN [m EXCEPT !.status = "done", !.value = values]
    ELSE IF values = <<>> THEN [m EXCEPT !.frames = Tail(@)]
    ELSE Define([m EXCEPT !.frames = Tail(@)], Frame(m).result, values[1])

\* One instruction of the program prog in the state m of its execution.
Mean(prog, m) ==
    LET i == Current(prog, m)
        W(k) == Word(m, i.operands[k])
        array == i.operands[1].name
        bytes == PortBytes(i.operands[1])
    IN  CASE i.op \in IntOps \cup Comparisons \cup FloatOps \cup FloatComparisons ->
                IF i.op \in {"Div", "Mod"} /\ W(2) = 0 THEN [m EXCEPT !.status = "fault"]
                ELSE Define(Advance(m), i.result, Compute(i.op, W(1), W(2)))
          [] i.op = "Copy" -> Define(Advance(m), i.result, W(1))
          [] i.op = "Branch" -> Jump(prog, m, i.operands[1].str)
          [] i.op = "CondBranch" ->
                Jump(prog, m, IF W(1) # 0 THEN i.operands[2].str ELSE i.operands[3].str)
          [] i.op = "Call" -> MeanCall(prog, m, i)
          [] i.op = "Return" -> MeanReturn(m, [k \in DOMAIN i.operands |-> W(k)])
          [] i.op = "ArrayLoad" -> Define(Advance(m), i.result, Read(Frame(m).arrays, <<array, W(2)>>))
          [] i.op = "ArrayStore" ->
                [Advance(m) EXCEPT !.frames[1].arrays = (<<array, W(2)>> :> W(3)) @@ @]
          [] i.op = "SetRegister" -> [Advance(m) EXCEPT !.regs = (i.operands[1].str :> W(2)) @@ @]
          [] i.op = "GetRegister" -> Define(Advance(m), i.result, m.regs[i.operands[1].str])
          [] i.op \in {"CpuHalt", "DisableInterrupts", "EnableInterrupts"} ->
                [Sees(Advance(m), i.op, <<>>) EXCEPT !.status = AfterControl(i.op, m.out)]
          [] i.op = "IOPortRead" ->
                Define(Sees(Advance(m), i.op, <<W(1)>>), i.result,
                       Answer(m.out, bytes))
          [] i.op = "IOPortWrite" -> Sees(Advance(m), i.op, <<W(1), Low(Unsigned(W(2)), bytes)>>)
          [] i.op = "VolatileLoad" ->
                Define(Sees(Advance(m), i.op, <<W(1)>>), i.result,
                       Wrap(Low(Unsigned(Read(m.cells, W(1))), WidthOf(i.result.type))))
          [] i.op = "VolatileStore" ->
                [Sees(Advance(m), i.op, <<W(1)>>) EXCEPT
                    !.cells = Write(@, W(1), WidthOf(i.operands[2].type), W(2))]
          [] OTHER -> Advance(m)      \* Phi, ArrayAlloc, RegionEnter and RegionExit do nothing

=============================================================================
