------------------------ MODULE BareMetalX86Encoder ------------------------
(***************************************************************************)
(* What src/src/backend/baremetal/BareMetalX86Encoder.cpp emits: the       *)
(* standard engine for 64-bit kernels.  A function saves seven registers   *)
(* below rbp and keeps its variables under them.                           *)
(***************************************************************************)
EXTENDS X86Code

Saved == <<10, 11, 3, 12, 13, 14, 15>>
SaveBytes == 8 * Len(Saved)
FirstOffset == -SaveBytes
SlotBytes == 8
Length(i) == Bytes(i, 1)
Emitted(i, offset) == IF i.v # "" THEN [i EXCEPT !.k = offset] ELSE i

encodeArithmetic(i) == Alu(i)

\* rdx is cleared, not filled with the sign of rax.
encodeDivision(i) == Operands(i) \o <<Op("zero"), Op("idiv")>> \o DivisionResult(i)
encodeFloat(i) ==
    XmmOperands(i) \o <<[Op("xalu") EXCEPT !.l = i.op]>> \o emitXmmValueStore(0, i.result.name)
encodeCopy(i) ==
    IF i.operands[1].type = "Float64"
      THEN emitXmmValueLoad(0, i.operands[1]) \o emitXmmValueStore(0, i.result.name)
      ELSE emitValueLoad(0, i.operands[1]) \o emitValueStore(0, i.result.name)
encodeComparison(i) ==
    Operands(i) \o <<[Op("cmp") EXCEPT !.l = i.op]>> \o emitValueStore(0, i.result.name)

encodeSetRegister(i) == emitValueLoad(RegCode(i.operands[1].str), i.operands[2])
encodeGetRegister(i) ==
    LET code == RegCode(i.operands[1].str)
    IN  (IF code # 0 THEN <<Mov(0, code)>> ELSE <<>>) \o emitValueStore(0, i.result.name)
encodeControl(i) == <<Op(i.op)>>

encodePortRead(i) ==
    emitValueLoad(2, i.operands[1]) \o <<OpK("in", PortBytes(i.operands[1]))>>
        \o emitValueStore(0, i.result.name)
encodePortWrite(i) ==
    emitValueLoad(2, i.operands[1]) \o emitValueLoad(0, i.operands[2])
        \o <<OpK("out", PortBytes(i.operands[1]))>>
encodeVolatileLoad(i) == emitValueLoad(0, i.operands[1]) \o <<OpK("vld", 1)>> \o emitValueStore(0, i.result.name)
encodeVolatileStore(i) == Operands(i) \o <<OpK("vst", 1)>>

encodeCondBranch(i) ==
    emitValueLoad(0, i.operands[1]) \o <<JumpTo("jz", i.operands[3].str), JumpTo("jmp", i.operands[2].str)>>
encodeBranch(i) == <<JumpTo("jmp", i.operands[1].str)>>

(***************************************************************************)
(* Calls: six arguments in registers, the others on the stack, last first. *)
(* fast_copy is an instruction of its own.                                 *)
(***************************************************************************)
sysvGPR == <<7, 6, 2, 1, 8, 9>>
fastCopy(i) ==
    emitValueLoad(7, i.operands[2]) \o emitValueLoad(6, i.operands[3]) \o emitValueLoad(1, i.operands[4])
        \o <<Op("movs")>>

encodeCall(i) ==
    LET fn == i.operands[1].str
        n == Len(i.operands) - 1
        bytes == RoundUp16(8 * Max({n - 6, 0}))
        Stack(k) == StackArgument(i.operands[n + 2 - k], (n - 6 - k) * 8)
        Reg(k) == LoadArgument(sysvGPR, k, i.operands[k + 1])
    IN  IF fn = "fast_copy" THEN fastCopy(i)
        ELSE (IF n > 6 THEN <<OpK("addsp", -bytes)>> \o Concat(n - 6, Stack) ELSE <<>>)
             \o Concat(Min({n, 6}), Reg) \o <<JumpTo("call", fn)>>
             \o (IF bytes > 0 THEN <<OpK("addsp", bytes)>> ELSE <<>>) \o StoreByType(i.result)

encodeReturn(i) ==
    (IF i.operands = <<>> THEN <<>> ELSE LoadByType(i.operands[1]))
        \o <<OpK("lea", -SaveBytes)>> \o [k \in DOMAIN Saved |-> OpR("pop", Reverse(Saved)[k])]
        \o <<OpR("pop", rbp), Op("ret")>>

\* The switch of encodeInstruction; an opcode without a case emits nothing.
encodeInstruction(i) ==
    CASE i.op \in {"Add", "Sub", "Mul"} -> encodeArithmetic(i)
      [] i.op \in {"Div", "Mod"} -> encodeDivision(i)
      [] i.op \in FloatOps -> encodeFloat(i)
      [] i.op = "Copy" -> encodeCopy(i)
      [] i.op \in Comparisons -> encodeComparison(i)
      [] i.op = "SetRegister" -> encodeSetRegister(i)
      [] i.op = "GetRegister" -> encodeGetRegister(i)
      [] i.op \in {"CpuHalt", "DisableInterrupts", "EnableInterrupts"} -> encodeControl(i)
      [] i.op = "IOPortRead" -> encodePortRead(i)
      [] i.op = "IOPortWrite" -> encodePortWrite(i)
      [] i.op = "VolatileLoad" -> encodeVolatileLoad(i)
      [] i.op = "VolatileStore" -> encodeVolatileStore(i)
      [] i.op = "CondBranch" -> encodeCondBranch(i)
      [] i.op = "Branch" -> encodeBranch(i)
      [] i.op = "Call" -> encodeCall(i)
      [] i.op = "Return" -> encodeReturn(i)
      [] OTHER -> <<>>

\* A parameter after the sixth is read above the return address.
prologue(f) ==
    LET Above(k) == 16 + (k - 7) * 8
        Param(k) ==
          IF k <= 6 THEN StoreParameter(sysvGPR, k, f.params[k])
          ELSE IF f.params[k].type = "Float64"
            THEN <<XmmLoad(0, Above(k))>> \o emitXmmValueStore(0, f.params[k].name)
            ELSE <<StackLoad(0, Above(k))>> \o emitValueStore(0, f.params[k].name)
    IN  IF f.naked THEN <<>>
        ELSE <<OpR("push", rbp), Mov(rbp, rsp)>> \o [k \in DOMAIN Saved |-> OpR("push", Saved[k])]
             \o <<OpK("addsp", -4096)>> \o Concat(Len(f.params), Param)

\* encodeProgram: _start first, then the others as they come.
Order(prog) ==
    SelectSeq(prog, LAMBDA f : f.name = "_start") \o SelectSeq(prog, LAMBDA f : f.name # "_start")

\* A jump that ends at the given offset; an unknown label leaves the 0.
Patched(i, end, labels) ==
    IF i.l \in DOMAIN labels THEN [i EXCEPT !.k = labels[i.l] - end] ELSE i

=============================================================================
