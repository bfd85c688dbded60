------------------------------ MODULE Toolchain ------------------------------
(***************************************************************************)
(* One call of the lsm command (src/main.cpp) from its arguments to its    *)
(* exit: the command line, the stages of the compiler with their failures, *)
(* the optimiser, one of the encoders, and then either execution in memory *)
(* (src/src/backend/jit/JITEngine.cpp) or an image on disk.                *)
(*                                                                         *)
(* Beside it run two machines the properties compare: one that executes    *)
(* the program the builder made, and a processor that executes the code.   *)
(***************************************************************************)
EXTENDS OptimizationPassManager, X86Code

CONSTANTS
    Jobs,       \* calls: [argv, source, windows]
    Top,        \* the stack pointer when the code is entered
    Fuel        \* no run of the code takes more instructions

ASSUME TopAssumption == Top \in Nat /\ Top % 16 = 8
ASSUME FuelAssumption == Fuel \in Nat

VARIABLES
    job,        \* the call
    stage,      \* where the call, or the machine after it, is
    opts,       \* what the arguments said so far
    mean,       \* the program's meaning, executed
    asm,        \* the encoder: its place, slots, labels and what is still to be emitted
    code,       \* the machine code: offset :> instruction
    page,       \* the memory of the JIT
    disk,       \* files written
    cpu,        \* the processor
    exit        \* "" while the command runs, then how it ended

vars == <<prog, opt, job, stage, opts, mean, asm, code, page, disk, cpu, exit>>

SysV == INSTANCE X86_64Encoder WITH Windows <- FALSE
Win == INSTANCE X86_64Encoder WITH Windows <- TRUE
Standard == INSTANCE BareMetalX86Encoder
Modern == INSTANCE BareMetalX86ModernEncoder
Bits32 == INSTANCE BareMetalX86_32Encoder

(***************************************************************************)
(* The command line.  An argument is [flag, val]; val is the rest of       *)
(* --entry=name.                                                           *)
(***************************************************************************)
NoOpts == [i |-> 2, isBareMetal |-> FALSE, isBootable |-> FALSE, isModernEngine |-> FALSE,
           optimizeO3 |-> FALSE, arch |-> "X86_64", sourceFile |-> "", outputFile |-> <<>>,
           entryPoint |-> "_start"]
NoAsm == [funcs |-> <<>>, fn |-> 0, blk |-> 0, pc |-> 1, pending |-> <<>>, size |-> 0,
          slots |-> <<>>, current |-> 0, arrays |-> <<>>, extent |-> <<>>, labels |-> <<>>]
NoPage == [mapped |-> FALSE, prot |-> "", code |-> <<>>]

Init ==
    /\ job \in Jobs
    /\ stage = "command" /\ opts = NoOpts /\ exit = ""
    /\ prog = <<>> /\ opt = OptInit
    /\ mean = [status |-> "none"] /\ cpu = [status |-> "none"]
    /\ asm = NoAsm /\ code = <<>> /\ page = NoPage /\ disk = <<>>

Command == IF job.argv = <<>> THEN "" ELSE job.argv[1].flag
Ends(how) == exit' = how /\ stage' = "end"
Only(s) == stage = s /\ exit = ""

\* No command, --version, --lsp (whose loop ends with its input) and unknown ones.
WithoutSource ==
    /\ Only("command")
    /\ Command \notin {"run", "build"}
    /\ Ends(IF Command \in {"--version", "-v", "--lsp"} THEN "0" ELSE "1")
    /\ UNCHANGED <<prog, opt, job, opts, mean, asm, code, page, disk, cpu>>

AcceptCommand ==
    /\ Only("command")
    /\ Command \in {"run", "build"}
    /\ stage' = "args"
    /\ UNCHANGED <<prog, opt, job, opts, mean, asm, code, page, disk, cpu, exit>>

\* One turn of the argument loop; -o and --entry take the argument after them.
ParsedArg(o, argv) ==
    LET arg == argv[o.i].flag
        more == o.i < Len(argv)
        next == argv[o.i + 1].flag
        p == [o EXCEPT !.i = @ + 1]
    IN  CASE arg = "--baremetal" -> [p EXCEPT !.isBareMetal = TRUE]
          [] arg = "--bootable" -> [p EXCEPT !.isBootable = TRUE, !.isBareMetal = TRUE]
          [] arg = "--modern" -> [p EXCEPT !.isModernEngine = TRUE]
          [] arg \in {"--m32", "-m32"} -> [p EXCEPT !.arch = "X86_32"]
          [] arg = "-O3" -> [p EXCEPT !.optimizeO3 = TRUE]
          [] arg = "-o" /\ more -> [p EXCEPT !.outputFile = <<next, "">>, !.i = @ + 1]
          [] arg = "--entry" /\ more -> [p EXCEPT !.entryPoint = next, !.i = @ + 1]
          [] arg = "--entry=" -> [p EXCEPT !.entryPoint = argv[o.i].val]
          [] OTHER -> IF o.sourceFile = "" THEN [p EXCEPT !.sourceFile = arg] ELSE p

ParseArg ==
    /\ Only("args") /\ opts.i <= Len(job.argv)
    /\ opts' = ParsedArg(opts, job.argv)
    /\ UNCHANGED <<prog, opt, job, stage, mean, asm, code, page, disk, cpu, exit>>

\* An output that is not named gets the source's name without its extension.
DefaultOutput(o) ==
    <<o.sourceFile, IF o.isBootable THEN ".img" ELSE IF o.isBareMetal THEN ".bin" ELSE "">>

EndArgs ==
    /\ Only("args") /\ opts.i > Len(job.argv)
    /\ IF opts.sourceFile = "" THEN Ends("1") /\ UNCHANGED opts
       ELSE /\ stage' = "front" /\ UNCHANGED exit
            /\ opts' = IF opts.outputFile = <<>> THEN [opts EXCEPT !.outputFile = DefaultOutput(opts)]
                       ELSE opts
    /\ UNCHANGED <<prog, opt, job, mean, asm, code, page, disk, cpu>>

(***************************************************************************)
(* The front end accepts the source or not; the builder then puts the      *)
(* entry point's function first.                                           *)
(***************************************************************************)
FrontEndFails ==
    /\ Only("front") /\ job.source.verdict # "ok"
    /\ Ends("1")
    /\ UNCHANGED <<prog, opt, job, opts, mean, asm, code, page, disk, cpu>>

EntryFirst(funcs, entry) ==
    SelectSeq(funcs, LAMBDA f : f.name = entry) \o SelectSeq(funcs, LAMBDA f : f.name # entry)

\* Where the program begins: its entry point, or main.
EntryOf(p, entry) ==
    CHOOSE f \in DOMAIN p : p[f].name = IF Named(p, entry) # {} THEN entry ELSE "main"

BuildSSA ==
    /\ Only("front") /\ job.source.verdict = "ok"
    /\ prog' = EntryFirst(job.source.funcs, opts.entryPoint)
    /\ stage' = IF prog' = <<>> THEN "middle" ELSE "mean"
    /\ mean' = IF prog' = <<>> THEN mean ELSE Begin(prog', EntryOf(prog', opts.entryPoint))
    /\ UNCHANGED <<opt, job, opts, asm, code, page, disk, cpu, exit>>

\* The meaning of the program, executed beside the compiler.
MeanStep ==
    /\ stage = "mean" /\ mean.status = "run"
    /\ mean' = Mean(prog, mean)
    /\ UNCHANGED <<prog, opt, job, stage, opts, asm, code, page, disk, cpu, exit>>

MeanDone ==
    /\ stage = "mean" /\ mean.status # "run"
    /\ stage' = "middle"
    /\ UNCHANGED <<prog, opt, job, opts, mean, asm, code, page, disk, cpu, exit>>

Optimize ==
    /\ Only("middle") /\ opts.optimizeO3
    /\ OptNext
    /\ UNCHANGED <<job, stage, opts, mean, asm, code, page, disk, cpu, exit>>

(***************************************************************************)
(* Code generation.                                                        *)
(***************************************************************************)
Target ==
    CASE opts.isBareMetal /\ opts.arch = "X86_32" -> "bits32"
      [] opts.isBareMetal /\ opts.arch # "X86_32" ->
            IF opts.isModernEngine THEN "modern" ELSE "standard"
      [] OTHER -> IF job.windows THEN "win" ELSE "sysv"

ByTarget(sysv, win, standard, modern, bits32) ==
    CASE Target = "sysv" -> sysv [] Target = "win" -> win [] Target = "standard" -> standard
      [] Target = "modern" -> modern [] Target = "bits32" -> bits32

Width == IF Target = "bits32" THEN 4 ELSE 8
SlotBytes == ByTarget(SysV!SlotBytes, Win!SlotBytes, Standard!SlotBytes, Modern!SlotBytes, Bits32!SlotBytes)
FirstOffset ==
    ByTarget(SysV!FirstOffset, Win!FirstOffset, Standard!FirstOffset, Modern!FirstOffset, Bits32!FirstOffset)
Length(i) == ByTarget(SysV!Length(i), Win!Length(i), Standard!Length(i), Modern!Length(i), Bits32!Length(i))

BeginProgram ==
    /\ Only("middle")
    /\ opts.optimizeO3 => ~Optimizing
    /\ stage' = "encode"
    /\ asm' = [NoAsm EXCEPT !.funcs = ByTarget(SysV!Order(prog), Win!Order(prog), Standard!Order(prog),
                                               Modern!Order(prog), Bits32!Order(prog))]
    /\ UNCHANGED <<prog, opt, job, opts, mean, code, page, disk, cpu, exit>>

Encoding == Only("encode") /\ asm.pending = <<>>
InFunction == asm.fn > 0
Blocks == asm.funcs[asm.fn].blocks
BlockEnded == asm.blk = 0 \/ (asm.blk > 0 /\ asm.pc > Len(Blocks[asm.blk].insts))
FunctionEnded == ~InFunction \/ (InFunction /\ BlockEnded /\ asm.blk = Len(Blocks))

\* encodeFunctionInternal: the slots start afresh, the arrays and labels do not.
BeginFunction ==
    /\ Encoding /\ FunctionEnded /\ asm.fn < Len(asm.funcs)
    /\ LET f == asm.funcs[asm.fn + 1]
       IN  asm' = [asm EXCEPT
             !.fn = @ + 1, !.blk = 0, !.slots = <<>>, !.extent = <<>>, !.current = FirstOffset,
             !.labels = (f.name :> asm.size) @@ @,
             !.pending = ByTarget(SysV!prologue(f), Win!prologue(f), Standard!prologue(f),
                                  Modern!prologue(f), Bits32!prologue(f))]
    /\ UNCHANGED <<prog, opt, job, stage, opts, mean, code, page, disk, cpu, exit>>

BeginBlock ==
    /\ Encoding /\ InFunction /\ BlockEnded /\ asm.blk < Len(Blocks)
    /\ asm' = [asm EXCEPT !.blk = @ + 1, !.pc = 1,
                          !.labels = (Blocks[asm.blk + 1].label :> asm.size) @@ @]
    /\ UNCHANGED <<prog, opt, job, stage, opts, mean, code, page, disk, cpu, exit>>

EncodeInstruction ==
    /\ Encoding /\ InFunction /\ ~BlockEnded
    /\ LET i == Blocks[asm.blk].insts[asm.pc]
       IN  asm' = [asm EXCEPT
             !.pc = @ + 1,
             !.pending = ByTarget(SysV!encodeInstruction(i), Win!encodeInstruction(i),
                                  Standard!encodeInstruction(i), Modern!encodeInstruction(i),
                                  Bits32!encodeInstruction(i))]
    /\ UNCHANGED <<prog, opt, job, stage, opts, mean, code, page, disk, cpu, exit>>

\* ArrayAlloc emits nothing: it moves the next slot down and notes the array's
\* base.  extent is a history: how many bytes the array's elements take.
AllocateArray ==
    /\ Only("encode") /\ asm.pending # <<>> /\ Head(asm.pending).o = "alloc"
    /\ LET i == Head(asm.pending)
       IN  asm' = [asm EXCEPT !.pending = Tail(@), !.current = @ - i.k,
                              !.arrays = (i.v :> asm.current - i.k) @@ @,
                              !.extent = (i.v :> 8 * i.s) @@ @]
    /\ UNCHANGED <<prog, opt, job, stage, opts, mean, code, page, disk, cpu, exit>>

\* getStackOffset: the first use of a variable gives it the next slot.
getStackOffset(x) == IF x \in DOMAIN asm.slots THEN asm.slots[x] ELSE asm.current - SlotBytes
SlotOp(i) == i.v # "" /\ i.o \in {"ld", "st", "xld", "xst"}
OffsetOf(i) ==
    IF SlotOp(i) THEN getStackOffset(i.v)
    ELSE IF i.v \in DOMAIN asm.arrays THEN asm.arrays[i.v] ELSE 0

Emit ==
    /\ Only("encode") /\ asm.pending # <<>> /\ Head(asm.pending).o # "alloc"
    /\ \E i \in {Head(asm.pending)} : \E at \in {OffsetOf(i)} :
         \E e \in {ByTarget(SysV!Emitted(i, at), Win!Emitted(i, at), Standard!Emitted(i, at),
                            Modern!Emitted(i, at), Bits32!Emitted(i, at))} :
            /\ code' = (asm.size :> e) @@ code
            /\ asm' = [asm EXCEPT
                 !.pending = Tail(@), !.size = @ + Length(e),
                 !.slots = IF SlotOp(i) THEN (i.v :> at) @@ @ ELSE @,
                 !.current = IF SlotOp(i) /\ i.v \notin DOMAIN asm.slots THEN at ELSE @]
    /\ UNCHANGED <<prog, opt, job, stage, opts, mean, page, disk, cpu, exit>>

\* Every jump and call gets the distance from its end to its label.
Patched(i, end) ==
    ByTarget(SysV!Patched(i, end, asm.labels), Win!Patched(i, end, asm.labels),
             Standard!Patched(i, end, asm.labels), Modern!Patched(i, end, asm.labels),
             Bits32!Patched(i, end, asm.labels))

Patch ==
    /\ Encoding /\ FunctionEnded /\ asm.fn = Len(asm.funcs)
    /\ code' = [at \in DOMAIN code |->
                  IF code[at].o \in {"jmp", "jz", "call"} THEN Patched(code[at], at + Length(code[at]))
                  ELSE code[at]]
    /\ stage' = IF opts.isBareMetal THEN "raw" ELSE IF opts.optimizeO3 THEN "peephole" ELSE "output"
    /\ UNCHANGED <<prog, opt, job, opts, mean, asm, page, disk, cpu, exit>>

\* PeepholeX86: mov rax, 0 becomes xor eax, eax and nops of the same length.
Peephole ==
    /\ Only("peephole")
    /\ code' = IF asm.size < 10 THEN code
               ELSE [at \in DOMAIN code |->
                       IF code[at].o = "imm" /\ code[at].r = 0 /\ code[at].k = 0 THEN Op("clear")
                       ELSE code[at]]
    /\ stage' = "output"
    /\ UNCHANGED <<prog, opt, job, opts, mean, asm, page, disk, cpu, exit>>

(***************************************************************************)
(* Output: a file, or execution in memory.  Opening the file, allocating   *)
(* the page and changing its protection can fail; each failure is an       *)
(* exception that main reports.  Writing and closing the file can fail as  *)
(* well, and nobody looks.                                                 *)
(***************************************************************************)
Kind == IF stage = "output" THEN "elf" ELSE IF opts.isBootable THEN "img" ELSE "raw"

\* A file with the given code; short is a history: the device took only a part.
Written(image, short) ==
    (opts.outputFile :> [kind |-> Kind, code |-> image, short |-> short]) @@ disk

WriteImage ==
    /\ Only("raw") \/ (Only("output") /\ Command = "build")
    /\ code # <<>>
    /\ disk' = Written(code, FALSE)
    /\ exit' = "0" /\ stage' = "boot"
    /\ UNCHANGED <<prog, opt, job, opts, mean, asm, code, page, cpu>>

\* The device is full: what lies below some offset is on disk, and the exit
\* is the same.
WriteShort ==
    /\ Only("raw") \/ (Only("output") /\ Command = "build")
    /\ \E end \in DOMAIN code :
         disk' = Written([at \in {k \in DOMAIN code : k < end} |-> code[at]], TRUE)
    /\ Ends("0")
    /\ UNCHANGED <<prog, opt, job, opts, mean, asm, code, page, cpu>>

\* There is no code to write, or the file cannot be opened.
WriteFails ==
    /\ Only("raw") \/ (Only("output") /\ Command = "build")
    /\ Ends("1")
    /\ UNCHANGED <<prog, opt, job, opts, mean, asm, code, page, disk, cpu>>

JitEmpty ==
    /\ Only("output") /\ Command = "run" /\ code = <<>>
    /\ Ends("0")
    /\ UNCHANGED <<prog, opt, job, opts, mean, asm, code, page, disk, cpu>>

allocateRWXMemory ==
    /\ Only("output") /\ Command = "run" /\ code # <<>>
    /\ \/ stage' = "copy" /\ page' = [mapped |-> TRUE, prot |-> "rw", code |-> <<>>] /\ UNCHANGED exit
       \/ Ends("1") /\ UNCHANGED page
    /\ UNCHANGED <<prog, opt, job, opts, mean, asm, code, disk, cpu>>

CopyCode ==
    /\ Only("copy")
    /\ page' = [page EXCEPT !.code = code]
    /\ stage' = "protect"
    /\ UNCHANGED <<prog, opt, job, opts, mean, asm, code, disk, cpu, exit>>

makeMemoryExecutable_Leaks ==        \* mutant: the exception passes the page by
    /\ Only("protect")
    /\ \/ stage' = "boot" /\ page' = [page EXCEPT !.prot = "rx"] /\ UNCHANGED exit
       \/ Ends("1") /\ UNCHANGED page
    /\ UNCHANGED <<prog, opt, job, opts, mean, asm, code, disk, cpu>>

makeMemoryExecutable ==
    /\ Only("protect")
    /\ \/ stage' = "boot" /\ page' = [page EXCEPT !.prot = "rx"] /\ UNCHANGED exit
       \/ Ends("1") /\ page' = NoPage
    /\ UNCHANGED <<prog, opt, job, opts, mean, asm, code, disk, cpu>>

(***************************************************************************)
(* The processor enters the code at its first byte: the JIT calls it, and  *)
(* a loader calls a raw binary.  An executable or a boot image is taken to *)
(* arrive there too; whether it does is the question of module BootImage.  *)
(***************************************************************************)
Image == IF Command = "run" THEN page.code ELSE disk[opts.outputFile].code
Abi == IF Target = "win" THEN Win!abi ELSE SysV!abi

Enter ==
    /\ stage = "boot"
    /\ stage' = "cpu"
    /\ cpu' = [PowerOn(Top) EXCEPT !.fuel = Fuel]
    /\ UNCHANGED <<prog, opt, job, opts, mean, asm, code, page, disk, exit>>

CpuStep ==
    /\ stage = "cpu" /\ cpu.status = "run" /\ cpu.rip # HostReturn
    /\ cpu' = IF cpu.rip \notin DOMAIN Image \/ cpu.fuel = 0 THEN [cpu EXCEPT !.status = "lost"]
              ELSE [Execute(cpu, Image[cpu.rip], Length(Image[cpu.rip]), Width, Abi) EXCEPT !.fuel = @ - 1]
    /\ UNCHANGED <<prog, opt, job, stage, opts, mean, asm, code, page, disk, exit>>

\* The code returns; the JIT frees its page and the command ends.
CodeReturns ==
    /\ stage = "cpu" /\ cpu.status = "run" /\ cpu.rip = HostReturn
    /\ cpu' = [cpu EXCEPT !.status = "done"]
    /\ page' = NoPage /\ exit' = "0" /\ stage' = "end"
    /\ UNCHANGED <<prog, opt, job, opts, mean, asm, code, disk>>

\* The machine halts for good, or the code faults: a fault in the JIT's code
\* ends the process, since no handler catches the signal.
CodeStops ==
    /\ stage = "cpu" /\ cpu.status \in {"fault", "lost", "stopped"}
    /\ exit' = IF exit = "" THEN "signal" ELSE exit
    /\ stage' = "end"
    /\ UNCHANGED <<prog, opt, job, opts, mean, asm, code, page, disk, cpu>>

End == stage = "end" /\ UNCHANGED vars

Next ==
    \/ WithoutSource \/ AcceptCommand \/ ParseArg \/ EndArgs
    \/ FrontEndFails \/ BuildSSA \/ MeanStep \/ MeanDone \/ Optimize
    \/ BeginProgram \/ BeginFunction \/ BeginBlock \/ EncodeInstruction \/ AllocateArray \/ Emit
    \/ Patch \/ Peephole
    \/ WriteImage \/ WriteShort \/ WriteFails \/ JitEmpty
    \/ allocateRWXMemory \/ CopyCode \/ makeMemoryExecutable
    \/ Enter \/ CpuStep \/ CodeReturns \/ CodeStops
    \/ End

\* The command is one thread, and the processor does not stop.
Spec == Init /\ [][Next]_vars /\ WF_vars(Next)

(***************************************************************************)
(* Properties.                                                             *)
(***************************************************************************)
Ran == stage = "end" /\ cpu.status # "none"

\* Every variable has its type; code and page hold whole instructions.
Stages ==
    {"command", "args", "front", "mean", "middle", "encode", "peephole", "raw", "output",
     "copy", "protect", "boot", "cpu", "end"}
TypeOK ==
    /\ job \in Jobs /\ stage \in Stages /\ exit \in {"", "0", "1", "signal"}
    /\ DOMAIN opts = DOMAIN NoOpts /\ DOMAIN asm = DOMAIN NoAsm
    /\ DOMAIN code \subseteq 0 .. asm.size - 1
    /\ page \in [mapped : BOOLEAN, prot : {"", "rw", "rx"}, code : {<<>>, code}]
    /\ mean.status \in {"none", "run", "done", "fault", "stopped"}
    /\ cpu.status \in {"none", "run", "done", "fault", "stopped", "lost"}

\* The machine code does what the program means, with and without -O3: the
\* processor shows the outside the same port and memory accesses, native
\* calls and control instructions in the same order, leaves the same bytes
\* in volatile memory, returns the same value, and faults exactly when the
\* program does.
RunsAsMeant ==
    /\ cpu.status # "none" => IsPrefix(cpu.out, mean.out)
    /\ Ran => /\ cpu.status = mean.status
              /\ cpu.out = mean.out
              /\ cpu.cells = mean.cells
              /\ mean.status = "done" /\ mean.value # <<>> => cpu.r[rax] = mean.value[1]

\* Code that returns gives its caller back the stack and the registers the
\* calling convention reserves for it, although calls, arguments on the stack
\* and saved registers moved the stack pointer many times; and a native function
\* is entered with the stack aligned to 16 bytes.
Preserved ==
    {rbp} \cup CASE Target = "win" -> {3, 6, 7, 12, 13, 14, 15}
                 [] Target = "bits32" -> {3, 6, 7}
                 [] OTHER -> {3, 12, 13, 14, 15}
AtNativeCall ==
    stage = "cpu" /\ cpu.status = "run" /\ cpu.rip \in DOMAIN Image /\ Image[cpu.rip].o = "native"
StackDiscipline ==
    /\ Ran /\ cpu.status = "done" =>
        /\ cpu.r[rsp] = Top + Width
        /\ \A r \in Preserved : cpu.r[r] = PowerOn(Top).r[r]
    /\ AtNativeCall => cpu.r[rsp] % 16 = 0

\* Variables and arrays of a function have storage of their own, below what
\* the function saved: no slot lies inside an array or another slot.
Storage ==
    {<<asm.slots[x], asm.slots[x] + SlotBytes>> : x \in DOMAIN asm.slots}
        \cup {<<asm.arrays[a], asm.arrays[a] + asm.extent[a]>> : a \in DOMAIN asm.extent}
LocalsApart ==
    /\ Cardinality(Storage) = Cardinality(DOMAIN asm.slots) + Cardinality(DOMAIN asm.extent)
    /\ \A s, t \in Storage : s = t \/ s[2] <= t[1] \/ t[2] <= s[1]
    /\ asm.fn > 0 => \A s \in Storage : s[2] <= FirstOffset

\* The exit says what happened, as far as the command can know.  0 for a build
\* means that the file named on the command line, and no other, was written; it
\* holds the code unless the device took only a part of it, which write and close
\* do not report (RawBinaryBuilder.hpp:21, ELFBuilder.cpp:86) and the exit hides.
\* Any other exit means that nothing was written; and no page outlives the command
\* unless a signal killed it.  Code is only executed from a page that can no longer
\* be written and holds all of it.  The variables keep their types meanwhile.
ExitHonest ==
    /\ TypeOK
    /\ exit \in {"0", "1"} => page = NoPage
    /\ exit = "1" => disk = <<>> /\ cpu.status = "none"
    /\ exit = "0" /\ opts.sourceFile # "" /\ Command = "build" =>
          /\ DOMAIN disk = {opts.outputFile}
          /\ disk[opts.outputFile].short \/ disk[opts.outputFile].code = code
    /\ exit = "" /\ cpu.status # "none" => page = [mapped |-> TRUE, prot |-> "rx", code |-> code]

\* Every call ends: the argument loop, the optimiser's sweeps and scans, the
\* encoder and the code of a program that ends.
Finishes == <>(stage = "end")

=============================================================================
