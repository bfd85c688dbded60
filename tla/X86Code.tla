------------------------------ MODULE X86Code ------------------------------
(***************************************************************************)
(* The x86 instructions the encoders emit, the templates they share, and   *)
(* the processor that runs them.  The templates are the same functions in  *)
(* X86_64Encoder.cpp and in the three bare-metal encoders.                 *)
(*                                                                         *)
(* An instruction is a record: o the operation, r and s registers (0 rax,  *)
(* 1 rcx, 2 rdx, 3 rbx, 4 rsp, 5 rbp, 6 rsi, 7 rdi, 8 .. 15), k a number,  *)
(* v a variable whose stack slot is meant, l a label.  Sequences that no   *)
(* jump can enter in the middle (cmp, setcc, movzx) are one instruction.   *)
(***************************************************************************)
EXTENDS SSAInstruction, FiniteSets

Op(o) == [o |-> o, r |-> 0, s |-> 0, k |-> 0, v |-> "", l |-> ""]
OpR(o, r) == [Op(o) EXCEPT !.r = r]
OpK(o, k) == [Op(o) EXCEPT !.k = k]
Mov(to, from) == [OpR("mov", to) EXCEPT !.s = from]
StackLoad(r, offset) == [OpR("ld", r) EXCEPT !.k = offset]
XmmLoad(r, offset) == [OpR("xld", r) EXCEPT !.k = offset]
JumpTo(o, label) == [Op(o) EXCEPT !.l = label]

emitValueLoad(r, val) ==
    IF isConstant(val) THEN <<[OpR("imm", r) EXCEPT !.k = constNum(val), !.l = val.str]>>
    ELSE <<[OpR("ld", r) EXCEPT !.v = val.name]>>

emitXmmValueLoad(r, val) ==
    IF isConstant(val) THEN <<[OpR("ximm", r) EXCEPT !.k = constFloat(val)]>>
    ELSE <<[OpR("xld", r) EXCEPT !.v = val.name]>>

\* if (!inst.result.name.empty()) emitValueStore(r, inst.result.name)
emitValueStore(r, x) == IF x = "" THEN <<>> ELSE <<[OpR("st", r) EXCEPT !.v = x]>>
emitXmmValueStore(r, x) == IF x = "" THEN <<>> ELSE <<[OpR("xst", r) EXCEPT !.v = x]>>

Operands(i) == emitValueLoad(0, i.operands[1]) \o emitValueLoad(1, i.operands[2])
XmmOperands(i) == emitXmmValueLoad(0, i.operands[1]) \o emitXmmValueLoad(1, i.operands[2])
Alu(i) == Operands(i) \o <<[Op("alu") EXCEPT !.l = i.op]>> \o emitValueStore(0, i.result.name)

\* The result of a division or a remainder is left in rax or rdx.
DivisionResult(i) == emitValueStore(IF i.op = "Div" THEN 0 ELSE 2, i.result.name)

StoreByType(v) ==
    IF v.type = "Float64" THEN emitXmmValueStore(0, v.name) ELSE emitValueStore(0, v.name)
LoadByType(v) == IF v.type = "Float64" THEN emitXmmValueLoad(0, v) ELSE emitValueLoad(0, v)

\* An argument goes to the register of its position, r8 and r9 by way of rax.
LoadArgument(gpr, k, v) ==
    IF v.type = "Float64" THEN emitXmmValueLoad(k - 1, v)
    ELSE IF gpr[k] < 8 THEN emitValueLoad(gpr[k], v)
    ELSE emitValueLoad(0, v) \o <<Mov(gpr[k], 0)>>

StoreParameter(gpr, k, p) ==
    IF p.type = "Float64" THEN emitXmmValueStore(k - 1, p.name)
    ELSE IF gpr[k] < 8 THEN emitValueStore(gpr[k], p.name)
    ELSE <<Mov(0, gpr[k])>> \o emitValueStore(0, p.name)

\* mov [rsp + offset], v through rax
StackArgument(v, offset) == emitValueLoad(0, v) \o <<OpK("stsp", offset)>>

Concat(n, Piece(_)) == FlattenSeq([k \in 1 .. n |-> Piece(k)])
RoundUp16(n) == 16 * ((n + 15) \div 16)

RegCode(reg) ==
    LET codes == [rax |-> 0, rcx |-> 1, rdx |-> 2, rbx |-> 3, rsp |-> 4, rbp |-> 5, rsi |-> 6, rdi |-> 7]
    IN  IF reg \in DOMAIN codes THEN codes[reg] ELSE 0

(***************************************************************************)
(* How many bytes an instruction takes: REX says whether 64-bit operands   *)
(* need their prefix; a stack slot near rbp has an 8-bit displacement.     *)
(***************************************************************************)
Short(offset) == -128 <= offset /\ offset <= 127
Displacement(offset) == IF Short(offset) THEN 1 ELSE 4

Bytes(i, rex) ==
    CASE i.o \in {"ld", "st"} -> rex + 2 + Displacement(i.k)
      [] i.o \in {"xld", "xst"} -> 4 + Displacement(i.k)
      [] i.o = "imm" -> IF rex = 1 THEN 10 ELSE 5
      [] i.o = "clear" -> 10        \* xor eax, eax and eight nops
      [] i.o = "ximm" -> 15
      [] i.o = "alu" -> rex + IF i.l = "Mul" THEN 3 ELSE 2
      [] i.o = "cqo" -> rex + 1
      [] i.o \in {"zero", "idiv", "mov", "movsp"} -> rex + 2
      [] i.o \in {"xalu", "xvec", "lea"} -> 4
      [] i.o = "cmp" -> 2 * rex + 8
      [] i.o = "xcmp" -> 11
      [] i.o \in {"aload", "astore"} -> 17
      [] i.o = "jz" -> rex + 8
      [] i.o \in {"jmp", "call"} -> 5
      [] i.o = "native" -> 12
      [] i.o = "addsp" -> rex + 6
      [] i.o = "subsp" -> 4         \* sub rsp with an 8-bit number
      [] i.o = "stsp" -> 8
      [] i.o \in {"push", "pop"} -> IF i.r >= 8 THEN 2 ELSE 1
      [] i.o = "in" -> 2 + rex + i.k + 1
      [] i.o = "out" -> i.k
      [] i.o = "vld" -> IF i.k = 4 THEN 2 ELSE 3
      [] i.o = "vst" -> IF i.k \in {2, 8} THEN 3 ELSE 2
      [] i.o = "movs" -> 2
      [] OTHER -> 1         \* ret, hlt, cli, sti

(***************************************************************************)
(* The processor.  A call leaves its return address on the stack; a native *)
(* function takes its arguments where the calling convention puts them and *)
(* may change every register that the convention lets it.                  *)
(***************************************************************************)
rax == 0
rcx == 1
rdx == 2
rsp == 4
rbp == 5
Junk(a) == Half - 1 - (a % 7)       \* what uninitialised storage happens to hold
HostReturn == -1                    \* the return address of whoever started the code

\* A called function's first instruction finds the stack 8 modulo 16.
PowerOn(top) ==
    [status |-> "run", fuel |-> 0, rip |-> 0, r |-> [r \in 0 .. 15 |-> IF r = rsp THEN top ELSE Junk(r)],
     x |-> [r \in 0 .. 7 |-> Junk(r)], mem |-> (top :> HostReturn),
     out |-> <<>>, cells |-> <<>>]

At(c, a) == IF a \in DOMAIN c.mem THEN c.mem[a] ELSE Junk(a)
Put(c, a, w) == [c EXCEPT !.mem = (a :> w) @@ @]
Pushed(c, w, width) == [Put(c, c.r[rsp] - width, w) EXCEPT !.r[rsp] = @ - width]
SetReg(c, r, w) == [c EXCEPT !.r[r] = w]
Seen(c, kind, args) == [c EXCEPT !.out = Append(@, Event(kind, args))]

\* The k-th argument of a native function with these parameter types.
NativeArgs(c, types, abi) ==
    LET before(k, float) == {j \in 1 .. k - 1 : (types[j] = "Float64") = float}
        Place(k) == IF abi.positional THEN k
                    ELSE Cardinality(before(k, types[k] = "Float64")) + 1
    IN  [k \in DOMAIN types |-> IF types[k] = "Float64" THEN c.x[Place(k) - 1]
                                ELSE c.r[abi.gpr[Place(k)]]]

NativeCall(c, fn, abi) ==
    LET answer == Answer(c.out, WordBytes)
    IN  [Seen(c, fn, NativeArgs(c, Signatures[fn], abi)) EXCEPT
            !.r = [r \in 0 .. 15 |-> IF r = rax THEN answer
                                     ELSE IF r \in abi.scratch THEN Junk(r) ELSE @[r]],
            !.x = [r \in 0 .. 7 |-> IF r = 0 THEN answer ELSE Junk(r)]]

\* idiv rcx divides rdx:rax and faults when the quotient does not fit.
Divide(c) ==
    LET dividend == c.r[rdx] * 2 * Half + Unsigned(c.r[rax])
    IN  IF c.r[rcx] = 0 THEN [c EXCEPT !.status = "fault"]
        ELSE IF Wrap(Quotient(dividend, c.r[rcx])) # Quotient(dividend, c.r[rcx])
          THEN [c EXCEPT !.status = "fault"]
        ELSE [c EXCEPT !.r[rax] = Quotient(dividend, c.r[rcx]),
                       !.r[rdx] = Remainder(dividend, c.r[rcx])]

\* One instruction, n bytes long, of a processor with this word in bytes.
Execute(c0, i, n, width, abi) ==
    LET c == [c0 EXCEPT !.rip = @ + n]
        r == c0.r
    IN  CASE i.o = "imm" -> SetReg(c, i.r, i.k)
          [] i.o = "clear" -> SetReg(c, rax, 0)
          [] i.o = "ld" -> SetReg(c, i.r, At(c, r[rbp] + i.k))
          [] i.o = "st" -> Put(c, r[rbp] + i.k, r[i.r])
          [] i.o = "mov" -> SetReg(c, i.r, r[i.s])
          [] i.o = "ximm" -> [SetReg(c, rax, Bits(i.k)) EXCEPT !.x[i.r] = Bits(i.k)]
          [] i.o = "xld" -> [c EXCEPT !.x[i.r] = At(c, r[rbp] + i.k)]
          [] i.o = "xst" -> Put(c, r[rbp] + i.k, c.x[i.r])
          [] i.o \in {"alu", "cmp"} -> SetReg(c, rax, Compute(i.l, r[rax], r[rcx]))
          [] i.o \in {"xalu", "xvec"} -> [c EXCEPT !.x[0] = Compute(i.l, c.x[0], c.x[1])]
          [] i.o = "xcmp" -> SetReg(c, rax, Compute(i.l, c.x[0], c.x[1]))
          [] i.o = "cqo" -> SetReg(c, rdx, IF r[rax] < 0 THEN -1 ELSE 0)
          [] i.o = "zero" -> SetReg(c, rdx, 0)
          [] i.o = "idiv" -> Divide(c)
          [] i.o = "aload" -> SetReg(c, rax, At(c, r[rbp] + i.k + 8 * r[rcx]))
          [] i.o = "astore" -> Put(SetReg(c, rax, r[rbp] + i.k + 8 * r[rcx]),
                                   r[rbp] + i.k + 8 * r[rcx], r[rdx])
          [] i.o = "jmp" -> [c EXCEPT !.rip = @ + i.k]
          [] i.o = "jz" -> IF r[rax] = 0 THEN [c EXCEPT !.rip = @ + i.k] ELSE c
          [] i.o = "call" -> [Pushed(c, c.rip, width) EXCEPT !.rip = @ + i.k]
          [] i.o = "native" -> NativeCall(c, i.l, abi)
          [] i.o = "ret" -> [c EXCEPT !.rip = At(c, r[rsp]), !.r[rsp] = @ + width]
          [] i.o \in {"addsp", "subsp"} -> SetReg(c, rsp, r[rsp] + i.k)
          [] i.o = "stsp" -> Put(c, r[rsp] + i.k, r[rax])
          [] i.o = "push" -> Pushed(c, r[i.r], width)
          [] i.o = "pop" -> SetReg(SetReg(c, rsp, r[rsp] + width), i.r, At(c, r[rsp]))
          [] i.o = "movsp" -> SetReg(c, rsp, r[rbp])
          [] i.o = "lea" -> SetReg(c, rsp, r[rbp] + i.k)
          [] i.o = "in" -> SetReg(Seen(c, "IOPortRead", <<r[rdx]>>), rax, Answer(c.out, i.k))
          [] i.o = "out" -> Seen(c, "IOPortWrite", <<r[rdx], Low(Unsigned(r[rax]), i.k)>>)
          [] i.o = "vld" -> SetReg(Seen(c, "VolatileLoad", <<r[rax]>>), rax,
                                   Wrap(Low(Unsigned(Read(c.cells, r[rax])), i.k)))
          [] i.o = "vst" -> [Seen(c, "VolatileStore", <<r[rax]>>) EXCEPT
                                !.cells = Write(@, r[rax], i.k, r[rcx])]
          [] i.o = "movs" -> Seen(c, "fast_copy", <<r[7], r[6], r[rcx]>>)
          [] i.o \in {"CpuHalt", "DisableInterrupts", "EnableInterrupts"} ->
                [Seen(c, i.o, <<>>) EXCEPT !.status = AfterControl(i.o, c.out)]

=============================================================================
