----------------------------- MODULE BootImage -----------------------------
(***************************************************************************)
(* The files that lsm build writes (src/src/backend/linker/ELFBuilder.cpp, *)
(* src/src/backend/raw/RawBinaryBuilder.hpp), and the machine that starts  *)
(* from them: which bytes of the boot code are where in memory, and where  *)
(* they take the processor.                                                *)
(*                                                                         *)
(* A byte is Zero or <<piece, k>>, the k-th byte of a piece of code or     *)
(* data the builders hold.  A piece is a sequence of instructions [o, n,   *)
(* z, a]: what it does, its length, how many of its last bytes are zero    *)
(* (told where two pieces overlap), and a number.                          *)
(***************************************************************************)
EXTENDS Integers, Sequences, SequencesExt, FiniteSets, TLC

CONSTANTS
    Targets,        \* the images built and started, in turn
    KernelBytes     \* length of the machine code

VARIABLES
    at,             \* the image in hand
    stage,          \* "build", "load", "run" or "end"
    file,           \* the file: offset :> byte
    headers,        \* what the ELF header and the program header say
    cpu,            \* [rip, ax, es, mem]
    outcome         \* image :> where it took the processor

vars == <<at, stage, file, headers, cpu, outcome>>

Do(o, n) == [o |-> o, n |-> n, z |-> 0, a |-> 0]
To(o, n, z, a) == [o |-> o, n |-> n, z |-> z, a |-> a]
Zero == <<"", 0>>
Base == 1048576         \* 0x100000
Sector == 31744         \* 0x7C00, where the BIOS puts the first sector
KernelAt == 65536       \* 0x10000, where the boot sector wants the kernel
Ehdr == 52
Phdr == 32

(***************************************************************************)
(* The pieces.                                                             *)
(***************************************************************************)
\* The page tables are cleared and filled in, then paging and long mode are on.
LongMode == <<Do("mov edi", 5), Do("mov ecx", 5), Do("xor eax", 2), Do("rep stosd", 2),
              Do("pml4", 10), Do("pdpt", 10), Do("pd", 10),
              Do("mov eax", 5), Do("mov cr3", 3), Do("read cr4", 3), Do("pae", 5), Do("mov cr4", 3),
              Do("mov ecx", 5), Do("rdmsr", 2), Do("lme", 5), Do("wrmsr", 2),
              Do("read cr0", 3), Do("paging", 5), Do("mov cr0", 3)>>

multiboot == <<Do("data", 12)>>
elfStub ==
    <<Do("cli", 1)>> \o LongMode
        \o <<Do("lgdt", 7), To("jump", 7, 0, Base + 199),
             Do("mov ax", 4), Do("segments", 10), Do("mov rsp", 10), To("jump by", 2, 0, 30)>>
elfGdt == <<Do("data", 30)>>

\* xor ax, ax also clears es; the sectors to read are counted in al, and ah is
\* the function asked of the BIOS.
stage0 ==
    <<Do("cli", 1), To("ax", 2, 0, 0), Do("mov ds", 2), Do("es", 2), Do("mov ss", 2), Do("mov sp", 3),
      To("ah", 2, 0, 2), To("al", 2, 0, 16), Do("mov cx", 3), Do("xor dx", 2), To("ax", 3, 0, 4096),
      Do("es", 2), Do("xor bx", 2), Do("int 13h", 2), Do("in 92h", 2), Do("or al", 2), Do("out 92h", 2),
      Do("lgdt", 5), Do("read cr0", 3), Do("or al", 2), Do("mov cr0", 3),
      To("jump", 8, 0, Sector + 64)>>
stage1 ==
    <<Do("mov ax", 4), Do("segments", 6)>> \o LongMode \o <<To("jump", 7, 0, Sector + 224)>>
stage2 ==
    <<Do("mov ax", 4), Do("segments", 6), Do("mov rsp", 10), Do("mov rbp", 3),
      To("mov rax", 10, 5, KernelAt), Do("jump rax", 2)>>
gdtData == <<To("data", 8, 8, 0), Do("data", 24)>>
gdtPointer == <<Do("data", 6)>>
signature == <<Do("data", 2)>>
machineCode == <<Do("kernel", KernelBytes)>>

Pieces ==
    [multiboot |-> multiboot, elfStub |-> elfStub, elfGdt |-> elfGdt, stage0 |-> stage0,
     stage1 |-> stage1, stage2 |-> stage2, gdtData |-> gdtData, gdtPointer |-> gdtPointer,
     signature |-> signature, machineCode |-> machineCode]

Before(p, j) == FoldLeft(LAMBDA sum, i : sum + i.n, 0, SubSeq(Pieces[p], 1, j - 1))
Size(p) == Before(p, Len(Pieces[p]) + 1)

\* The bytes of a piece.
ByteOf(p, k) ==
    LET j == CHOOSE j \in DOMAIN Pieces[p] : Before(p, j) <= k /\ k < Before(p, j + 1)
        i == Pieces[p][j]
    IN  IF k >= Before(p, j) + i.n - i.z THEN Zero ELSE <<p, k>>

\* std::memcpy(&to[offset], piece): what was there is overwritten.
Copied(to, offset, p) ==
    [x \in DOMAIN to \cup offset .. offset + Size(p) - 1 |->
        IF x \in offset .. offset + Size(p) - 1 THEN ByteOf(p, x - offset) ELSE to[x]]

(***************************************************************************)
(* The builders.                                                           *)
(***************************************************************************)
\* payload: the boot code of a 64-bit executable, a bare header otherwise.
Payload(arch) ==
    IF arch = "X86_32" THEN <<"multiboot", "machineCode">>
    ELSE <<"multiboot", "elfStub", "elfGdt", "machineCode">>

Laid(pieces, offset) ==
    FoldLeft(LAMBDA l, p : [file |-> Copied(l.file, l.end, p), end |-> l.end + Size(p)],
             [file |-> <<>>, end |-> offset], pieces)

headerSize == Ehdr + Phdr

buildExecutable(arch) ==
    /\ file' = Laid(Payload(arch), headerSize).file
    /\ headers' = [entry |-> Base + headerSize + 12, offset |-> headerSize, vaddr |-> Base,
                   filesz |-> Laid(Payload(arch), headerSize).end - headerSize]

\* The boot sector is put together piece by piece; the kernel follows it.
bootSector ==
    FoldLeft(LAMBDA s, c : Copied(s, c[1], c[2]), [x \in 0 .. 511 |-> Zero],
             <<<<0, "stage0">>, <<64, "stage1">>, <<224, "stage2">>, <<256, "gdtData">>,
               <<288, "gdtPointer">>, <<510, "signature">>>>)

buildBootableImage ==
    /\ file' = Copied(bootSector, 512, "machineCode")
    /\ UNCHANGED headers

Init ==
    /\ at = 1 /\ stage = "build" /\ file = <<>> /\ outcome = <<>>
    /\ headers = [entry |-> 0, offset |-> 0, vaddr |-> 0, filesz |-> 0]
    /\ cpu = [rip |-> 0, ax |-> 0, es |-> 0, mem |-> <<>>]

Image == Targets[at]

Build ==
    /\ stage = "build" /\ at <= Len(Targets)
    /\ IF Image = "img" THEN buildBootableImage
       ELSE buildExecutable(IF Image = "elf32" THEN "X86_32" ELSE "X86_64")
    /\ stage' = "load"
    /\ UNCHANGED <<at, cpu, outcome>>

(***************************************************************************)
(* The machine.  A loader copies the segment to its address and jumps to   *)
(* the entry; the BIOS copies the first sector to 0x7C00 and jumps there.  *)
(***************************************************************************)
Load ==
    /\ stage = "load"
    /\ cpu' = IF Image = "img"
                THEN [cpu EXCEPT !.rip = Sector,
                                 !.mem = [x \in Sector .. Sector + 511 |-> file[x - Sector]]]
                ELSE [cpu EXCEPT !.rip = headers.entry,
                                 !.mem = [x \in headers.vaddr .. headers.vaddr + headers.filesz - 1 |->
                                            file[headers.offset + (x - headers.vaddr)]]]
    /\ stage' = "run"
    /\ UNCHANGED <<at, file, headers, outcome>>

\* The instructions that lie at an address, complete and unchanged.
InstructionAt(mem, a) ==
    {pj \in UNION {{<<p, j>> : j \in DOMAIN Pieces[p]} : p \in DOMAIN Pieces} :
        LET n == Pieces[pj[1]][pj[2]].n
            first == Before(pj[1], pj[2])
        IN  /\ a + n - 1 \in DOMAIN mem /\ a \in DOMAIN mem
            /\ mem[a] = <<pj[1], first>>
            /\ \A k \in 0 .. n - 1 : mem[a + k] = ByteOf(pj[1], first + k)}

Fetched == LET pj == CHOOSE pj \in InstructionAt(cpu.mem, cpu.rip) : TRUE IN Pieces[pj[1]][pj[2]]
Runnable == InstructionAt(cpu.mem, cpu.rip) # {} /\ Fetched.o \notin {"data", "kernel"}

\* Function 2 of int 13h reads al sectors, from the second on, to es:0.
Sectors(m) == 512 * (m.ax % 256)
ReadDisk(m) ==
    IF m.ax \div 256 # 2 THEN m
    ELSE [m EXCEPT !.mem = [x \in {16 * m.es + k : k \in 0 .. Sectors(m) - 1} |->
                              IF x - 16 * m.es + 512 \in DOMAIN file THEN file[x - 16 * m.es + 512] ELSE Zero] @@ @]

Step ==
    /\ stage = "run" /\ Runnable
    /\ \E i \in {Fetched} : \E m \in {[cpu EXCEPT !.rip = @ + i.n]} :
          cpu' = CASE i.o \in {"ax", "mov rax"} -> [m EXCEPT !.ax = i.a]
                   [] i.o = "ah" -> [m EXCEPT !.ax = 256 * i.a + (@ % 256)]
                   [] i.o = "al" -> [m EXCEPT !.ax = @ - (@ % 256) + i.a]
                   [] i.o = "es" -> [m EXCEPT !.es = m.ax]
                   [] i.o = "int 13h" -> ReadDisk(m)
                   [] i.o = "jump" -> [m EXCEPT !.rip = i.a]
                   [] i.o = "jump by" -> [m EXCEPT !.rip = @ + i.a]
                   [] i.o = "jump rax" -> [m EXCEPT !.rip = m.ax]
                   [] OTHER -> m
    /\ UNCHANGED <<at, stage, file, headers, outcome>>

\* Nothing the builders wrote can be executed any further: the kernel has
\* been reached, or the processor is in the middle of something else.
Stop ==
    /\ stage = "run" /\ ~Runnable
    /\ outcome' = (Image :> [kernel |-> InstructionAt(cpu.mem, cpu.rip) = {<<"machineCode", 1>>},
                             rip |-> cpu.rip]) @@ outcome
    /\ at' = at + 1 /\ stage' = IF at = Len(Targets) THEN "end" ELSE "build"
    /\ cpu' = [rip |-> 0, ax |-> 0, es |-> 0, mem |-> <<>>]
    /\ UNCHANGED <<file, headers>>

End == stage = "end" /\ UNCHANGED vars

Next == Build \/ Load \/ Step \/ Stop \/ End
Spec == Init /\ [][Next]_vars

\* README.md: lsm build makes a native executable, and with --bootable
\* "bootable disk image media": started from any of the files, the processor
\* arrives at the first byte of the program's code, with all of it in memory.
KernelReached == stage = "end" => \A image \in DOMAIN outcome : outcome[image].kernel

=============================================================================
