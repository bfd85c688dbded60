--------------------------- MODULE X86_64Encoder ---------------------------
(***************************************************************************)
(* What src/src/backend/x86_64/X86_64Encoder.cpp emits for an instruction, *)
(* a function's beginning and a program.  Every variable lives in a stack  *)
(* slot below rbp.  The calling convention is chosen when the toolchain    *)
(* itself is compiled.                                                     *)
(***************************************************************************)
EXTENDS X86Code

CONSTANT Windows        \* whether the toolchain was compiled for Windows

FirstOffset == 0
SlotBytes == 8
Length(i) == Bytes(i, 1)

\* Slot offsets are in place; a string becomes the address of its pooled copy.
Emitted(i, offset) ==
    CASE i.v # "" -> [i EXCEPT !.k = offset]
      [] i.o = "imm" /\ i.l # "" -> [i EXCEPT !.k = PoolAddress]
      [] OTHER -> i

encodeArithmetic(i) == Alu(i)
encodeDivision(i) == Operands(i) \o <<Op("cqo"), Op("idiv")>> \o DivisionResult(i)
encodeFloat(i) ==
    XmmOperands(i) \o <<[Op("xalu") EXCEPT !.l = i.op]>> \o emitXmmValueStore(0, i.result.name)
encodeVectorAdd(i) ==
    IF Len(i.operands) < 4 THEN <<>>
    ELSE XmmOperands(i) \o <<[Op("xvec") EXCEPT !.l = "FAdd"]>> \o emitXmmValueStore(0, i.result.name)
encodeCopy(i) ==
    IF i.operands[1].type = "Float64"
      THEN emitXmmValueLoad(0, i.operands[1]) \o emitXmmValueStore(0, i.result.name)
      ELSE emitValueLoad(0, i.operands[1]) \o emitValueStore(0, i.result.name)
encodeComparison(i) ==
    Operands(i) \o <<[Op("cmp") EXCEPT !.l = i.op]>> \o emitValueStore(0, i.result.name)
encodeFloatComparison(i) ==
    XmmOperands(i) \o <<[Op("xcmp") EXCEPT !.l = i.op]>> \o emitValueStore(0, i.result.name)

Alloc(i, bytes) == <<[OpK("alloc", bytes) EXCEPT !.v = i.result.name, !.s = constNum(i.operands[1])]>>
encodeArrayAlloc_Elements(i) == Alloc(i, constNum(i.operands[1]))       \* mutant: not times 8
encodeArrayAlloc(i) == Alloc(i, 8 * constNum(i.operands[1]))
encodeArrayLoad(i) ==
    emitValueLoad(1, i.operands[2]) \o <<[Op("aload") EXCEPT !.v = i.operands[1].name]>>
        \o emitValueStore(0, i.result.name)
encodeArrayStore(i) ==
    emitValueLoad(1, i.operands[2]) \o emitValueLoad(2, i.operands[3])
        \o <<[Op("astore") EXCEPT !.v = i.operands[1].name]>>

encodeSetRegister(i) == emitValueLoad(RegCode(i.operands[1].str), i.operands[2])
encodeGetRegister(i) ==
    LET code == RegCode(i.operands[1].str)
    IN  (IF code # 0 THEN <<Mov(0, code)>> ELSE <<>>) \o emitValueStore(0, i.result.name)
encodeControl(i) == <<Op(i.op)>>
encodePortRead(i) == emitValueLoad(2, i.operands[1]) \o <<OpK("in", 1)>> \o emitValueStore(0, i.result.name)
encodePortWrite(i) == emitValueLoad(2, i.operands[1]) \o emitValueLoad(0, i.operands[2]) \o <<OpK("out", 1)>>
encodeVolatileLoad(i) == emitValueLoad(0, i.operands[1]) \o <<OpK("vld", 8)>> \o emitValueStore(0, i.result.name)
encodeVolatileStore(i) == Operands(i) \o <<OpK("vst", 8)>>

encodeCondBranch(i) ==
    emitValueLoad(0, i.operands[1]) \o <<JumpTo("jz", i.operands[3].str), JumpTo("jmp", i.operands[2].str)>>
encodeBranch(i) == <<JumpTo("jmp", i.operands[1].str)>>

(***************************************************************************)
(* Calls.  Windows: four registers, the rest above the shadow space.       *)
(* System V: six registers, and arguments after the sixth are left out.    *)
(***************************************************************************)
GPR == IF Windows THEN <<1, 2, 8, 9>> ELSE <<7, 6, 2, 1, 8, 9>>
Scratch == IF Windows THEN {0, 1, 2, 8, 9, 10, 11} ELSE {0, 1, 2, 6, 7, 8, 9, 10, 11}
abi == [positional |-> Windows, gpr |-> GPR, scratch |-> Scratch]

SetUpCall(i, shadow) ==
    LET n == Len(i.operands) - 1
        Reg(k) == LoadArgument(GPR, k, i.operands[k + 1])
        Stack(k) == StackArgument(i.operands[k + 5], (k + 3) * 8)
    IN  IF Windows
          THEN <<OpK("addsp", -shadow)>> \o Concat(n - 4, Stack) \o Concat(Min({n, 4}), Reg)
          ELSE Concat(Min({n, 6}), Reg) \o <<OpK("subsp", -shadow)>>

encodeCall(i) ==
    LET fn == i.operands[1].str
        n == Len(i.operands) - 1
        shadow == IF Windows THEN RoundUp16((4 + Max({n - 4, 0})) * 8) ELSE 32
    IN  SetUpCall(i, shadow)
        \o <<JumpTo(IF fn \in DOMAIN Signatures THEN "native" ELSE "call", fn), OpK("addsp", shadow)>>
        \o StoreByType(i.result)

encodeReturn(i) ==
    (IF i.operands = <<>> THEN <<>> ELSE LoadByType(i.operands[1]))
        \o <<Op("movsp"), OpR("pop", rbp), Op("ret")>>

\* The switch of encodeInstruction; an opcode without a case emits nothing.
encodeInstruction(i) ==
    CASE i.op \in {"Add", "Sub", "Mul"} -> encodeArithmetic(i)
      [] i.op \in {"Div", "Mod"} -> encodeDivision(i)
      [] i.op \in FloatOps -> encodeFloat(i)
      [] i.op = "VectorAdd" -> encodeVectorAdd(i)
      [] i.op = "Copy" -> encodeCopy(i)
      [] i.op \in Comparisons -> encodeComparison(i)
      [] i.op \in FloatComparisons -> encodeFloatComparison(i)
      [] i.op = "ArrayAlloc" -> encodeArrayAlloc(i)
      [] i.op = "ArrayLoad" -> encodeArrayLoad(i)
      [] i.op = "ArrayStore" -> encodeArrayStore(i)
      [] i.op = "SetRegister" -> encodeSetRegister(i)
      [] i.op = "GetRegister" -> encodeGetRegister(i)
      [] i.op \in {"CpuHalt", "DisableInterrupts", "EnableInterrupts"} -> encodeControl(i)
      [] i.op = "IOPortRead" -> encodePortRead(i)
      [] i.op = "IOPortWrite" -> encodePortWrite(i)
      [] i.op = "VolatileLoad" -> encodeVolatileLoad(i)
      [] i.op = "VolatileStore" -> encodeVolatileStore(i)
      [] i.op = "CondBranch" -> encodeCondBranch(i)
      [] i.op = "Branch" -> encodeBranch(i)
      [] i.op = "Call" -> encodeCall(i)
      [] i.op = "Return" -> encodeReturn(i)
      [] OTHER -> <<>>

\* A Windows parameter after the fourth is read above the shadow space; its offset
\* is emitted as one byte, which the processor takes as signed.
SignedByte(n) == ((n + 128) % 256) - 128

prologue(f) ==
    LET Reg(k) == StoreParameter(GPR, k, f.params[k])
        Param(k) == IF k <= Len(GPR) THEN Reg(k)
                    ELSE <<StackLoad(0, SignedByte(48 + (k - 5) * 8))>> \o emitValueStore(0, f.params[k].name)
        taken == IF Windows THEN Len(f.params) ELSE Min({Len(f.params), 6})
    IN  IF f.naked THEN <<>>
        ELSE <<OpR("push", rbp), Mov(rbp, rsp), OpK("addsp", -8192)>> \o Concat(taken, Param)

\* encodeProgram: _start first, then main, then the others as they come.
Order(prog) ==
    SelectSeq(prog, LAMBDA f : f.name = "_start") \o SelectSeq(prog, LAMBDA f : f.name = "main")
        \o SelectSeq(prog, LAMBDA f : f.name \notin {"_start", "main"})

Patched_FromField(i, end, labels) ==    \* mutant: from the displacement, not from its end
    IF i.l \in DOMAIN labels THEN [i EXCEPT !.k = labels[i.l] - (end - 4)] ELSE i

\* A jump that ends at the given offset; an unknown label leaves the 0.
Patched(i, end, labels) ==
    IF i.l \in DOMAIN labels THEN [i EXCEPT !.k = labels[i.l] - end] ELSE i

=============================================================================
