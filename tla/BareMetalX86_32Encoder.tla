----------------------- MODULE BareMetalX86_32Encoder -----------------------
(***************************************************************************)
(* What src/src/backend/baremetal/BareMetalX86_32Encoder.cpp emits: 32-bit *)
(* kernels.  Slots have four bytes, every argument goes over the stack,    *)
(* and there is no case for comparisons, floats or processor control.      *)
(***************************************************************************)
EXTENDS X86Code

FirstOffset == 0
SlotBytes == 4
Length(i) == Bytes(i, 0)
Emitted(i, offset) == IF i.v # "" THEN [i EXCEPT !.k = offset] ELSE i

encodeArithmetic(i) == Alu(i)
encodeDivision(i) == Operands(i) \o <<Op("cqo"), Op("idiv")>> \o DivisionResult(i)
encodeBitwise(i) == Alu(i)
encodeShift(i) == Alu(i)
encodeCopy(i) == emitValueLoad(0, i.operands[1]) \o emitValueStore(0, i.result.name)

AccessBytes(type) == IF type \in {"Int32", "Ptr32"} THEN 4 ELSE 1
encodeVolatileLoad(i) ==
    emitValueLoad(0, i.operands[1]) \o <<OpK("vld", AccessBytes(i.result.type))>>
        \o emitValueStore(0, i.result.name)
encodeVolatileStore(i) == Operands(i) \o <<OpK("vst", AccessBytes(i.operands[2].type))>>
encodePortRead(i) == emitValueLoad(2, i.operands[1]) \o <<OpK("in", 1)>> \o emitValueStore(0, i.result.name)
encodePortWrite(i) == emitValueLoad(2, i.operands[1]) \o emitValueLoad(0, i.operands[2]) \o <<OpK("out", 1)>>

encodeCondBranch(i) ==
    emitValueLoad(0, i.operands[1]) \o <<JumpTo("jz", i.operands[3].str), JumpTo("jmp", i.operands[2].str)>>
encodeBranch(i) == <<JumpTo("jmp", i.operands[1].str)>>

Prints == {"__lsm_native_print_num", "__lsm_native_print_float", "__lsm_native_print_str"}
encodeCall(i) ==
    LET fn == i.operands[1].str
        n == Len(i.operands) - 1
        Push(k) == emitValueLoad(0, i.operands[n + 2 - k]) \o <<OpR("push", 0)>>
    IN  IF fn \in Prints THEN <<>>
        ELSE Concat(n, Push) \o <<JumpTo("call", fn)>>
             \o (IF n > 0 THEN <<OpK("addsp", 4 * n)>> ELSE <<>>) \o emitValueStore(0, i.result.name)

encodeReturn(i) ==
    (IF i.operands = <<>> THEN <<>> ELSE emitValueLoad(0, i.operands[1]))
        \o <<Op("movsp"), OpR("pop", rbp), Op("ret")>>

\* The switch of encodeInstruction; an opcode without a case emits nothing.
encodeInstruction(i) ==
    CASE i.op \in {"Add", "Sub", "Mul"} -> encodeArithmetic(i)
      [] i.op \in {"Div", "Mod"} -> encodeDivision(i)
      [] i.op \in {"BitAnd", "BitOr", "BitXor"} -> encodeBitwise(i)
      [] i.op \in {"Shl", "Shr"} -> encodeShift(i)
      [] i.op = "Copy" -> encodeCopy(i)
      [] i.op = "VolatileLoad" -> encodeVolatileLoad(i)
      [] i.op = "VolatileStore" -> encodeVolatileStore(i)
      [] i.op = "IOPortRead" -> encodePortRead(i)
      [] i.op = "IOPortWrite" -> encodePortWrite(i)
      [] i.op = "CondBranch" -> encodeCondBranch(i)
      [] i.op = "Branch" -> encodeBranch(i)
      [] i.op = "Call" -> encodeCall(i)
      [] i.op = "Return" -> encodeReturn(i)
      [] OTHER -> <<>>

prologue(f) ==
    LET Param(k) == <<StackLoad(0, 8 + (k - 1) * 4)>> \o emitValueStore(0, f.params[k].name)
    IN  IF f.naked THEN <<>>
        ELSE <<OpR("push", rbp), Mov(rbp, rsp), OpK("addsp", -2048)>> \o Concat(Len(f.params), Param)

\* encodeProgram: _start first, then the others as they come.
Order(prog) ==
    SelectSeq(prog, LAMBDA f : f.name = "_start") \o SelectSeq(prog, LAMBDA f : f.name # "_start")

\* A jump that ends at the given offset; an unknown label leaves the 0.
Patched(i, end, labels) ==
    IF i.l \in DOMAIN labels THEN [i EXCEPT !.k = labels[i.l] - end] ELSE i

=============================================================================
