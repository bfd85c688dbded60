# A verification project for the LSM toolchain

TLA+ models of the LSM compiler and runtime, the TLC runs that check them on
small instances, and TLAPS proofs, for every instance, about the runtime's
deques, scheduler and regions, the module loader, the register allocators, the
dominance analysis and the SSA builder. All paths below are paths of the repository; `src/src/...` is its `src/` directory.

## 1. The system and its parts

LSM compiles a small systems language. `main.cpp` loads a program and its
imports, checks types, expands generics, builds intermediate code (SSA),
optimises it, encodes it for one of five targets and either runs it in memory
or writes an image. A runtime offers regions of memory and a pool of threads.

| Part | State | Operations | What makes it correct |
|---|---|---|---|
| task deques (`runtime/sched/LockFreeQueue.hpp`, `WorkStealing.hpp`) | `top`, `bottom`, a ring of slots per worker | `push`, `pop`, `steal` by several threads, lock-free | a task is handed out once and never lost; failures only when full or empty; behaves as an atomic deque |
| scheduler (`runtime/sched/Scheduler.*`) | `running`, `nextTaskId`, threads, Task objects | `spawn`, `start`, `stop`, `workerLoop` | tasks run once and on live memory; `stop` returns; nothing in hand is lost |
| module loader (`loader/ModuleLoader.hpp`) | `loadedModules`, `visitingModules`, the merged program | `resolvePath`, `loadAndMerge` (recursive) | each file once, imports first, cycles reported, ends |
| SSA builder (`middleend/ssa/SSABuilder.cpp`) | blocks, counters, `deferStack`, `varVersionTable`, definition sites | `buildProgram`, `buildFunction`, `buildStatement`, `buildExpr`, `insertPhiNodes` | the code does what the source says, on every path |
| dominance (`middleend/opt/Dominance.hpp`) | dominator sets, `idom`, frontiers | `computeDominance` | agrees with the definitions by paths, ends |
| liveness (`backend/regalloc/LivenessAnalyzer.hpp`) | first definition and last use per variable | `computeIntervals` | intervals cover every point where a value is still needed |
| linear scan (`backend/regalloc/LinearScanAllocator.hpp`) | active intervals, free registers, spill offset | `expireOldIntervals`, `spillAtInterval`, `allocate` | no two live variables in one register, none lost |
| graph colouring (`backend/regalloc/GraphColoring.hpp`) | graph, select stack, colours | build, simplify, select | the same, for every order of a hash table |
| regions (`core/Arena.hpp`, `core/Region.hpp`) | buffer, bump offset, free lists, children | `alloc`, `slabAlloc`, `slabFree`, `createChild`, `allocEscaped`, `dispose` | blocks never overlap and stay inside |
| optimiser (`middleend/opt/*.hpp`) | the program being rewritten; per loop what it defines and what was taken out | `runOptimizations`: `Mem2Reg`, constant propagation, dead code, LICM, vectoriser | the program does the same as before; the sweeps end |
| encoders (`backend/x86_64`, `backend/baremetal`) | code, `stackOffsets`, `currentStackOffset`, arrays, `blockOffsets`, `jumpPatches` | `encodeProgram`, `encodeFunctionInternal`, `encodeInstruction`, patching; `PeepholeX86` | the code does what the program means; storage of variables is disjoint; stack and saved registers are given back |
| JIT (`backend/jit/JITEngine.cpp`) | one page: unmapped, writable, executable | allocate, copy, protect, call, free | no page survives a failure; writable pages are not run |
| image writers (`backend/linker/ELFBuilder.cpp`, `backend/raw/RawBinaryBuilder.hpp`) | the file | `buildExecutable`, `buildBootableImage`, `buildRawBinary` | a machine started from the file reaches the program |
| driver (`main.cpp`) | options, the stage reached | one call of `lsm` | its exit status tells the truth; it ends |
| type checker, monomorphizer, parser, language server, build tool | | | not modelled, see section 8 |

How they interact: workers share the deques and poll `running`; the client
thread calls `spawn`, which pushes into a worker's deque. The SSA builder calls
the dominance analysis and reads its frontiers. `RegisterAllocator.hpp` feeds
liveness intervals to one of the two allocators (no stage of the pipeline calls
it: the encoders give every name a stack slot). A child region's buffer is a
block of its parent. The driver hands the builder's program to the optimiser
(`-O3`), the result to the encoder of the target, and the code to the JIT or to
an image writer.

Hard behaviour: the races of `pop`, `push` and `steal` on two indices; clients
that spawn while workers run; `stop` against busy workers; recursion over an
import graph with diamonds, cycles and broken files; a builder that moves its
"current block" while it nests; work lists over arbitrary graphs; hash-table
order; recycling of memory; jumps patched over code whose length depends on the
distance of a slot; stack pointers that must come back to where they were;
stages that fail in the middle. `PROJECT.json` lists the hazards line by line.

## 2. Modules

| Module | Models | Composition |
|---|---|---|
| `LockFreeTaskQueue` | the three deque operations, one action per access to shared memory | refines `TaskDeque` |
| `TaskDeque` | the promise: bounded deques with atomic operations | abstract |
| `LockFreeTaskQueue_proofs` | safety of the deques, and that they implement `TaskDeque` | extends `LockFreeTaskQueue` |
| `Scheduler` | client and `workerLoop` | extends `LockFreeTaskQueue`: every worker step is a step of its deques |
| `Scheduler_proofs` | its safety | extends `Scheduler` and instantiates `LockFreeTaskQueue_proofs` with the client's calls read as the owner's |
| `ModuleLoader` | `loadAndMerge`, the C++ recursion as a stack of frames | |
| `ModuleLoader_proofs` | its safety | extends `ModuleLoader`, `InductionLemmas` |
| `SSABuilder` | the builder, its recursion as a work list, and an execution of its output beside the source | uses the definition of frontiers that `Dominance` checks |
| `SSABuilder_proofs` | the shape of what it builds, and its phi nodes | extends `SSABuilder` |
| `Dominance` | sweeps, immediate dominators, frontiers | |
| `Dominance_proofs` | their exactness | extends `Dominance`, `InductionLemmas` |
| `LivenessAnalyzer`, `LinearScanAllocator`, `GraphColoringAllocator` | the three steps of register allocation | |
| `RegisterAllocator` | `allocateFunction`: intervals, their list, one of the strategies | extends the analyser, instantiates both allocators over shared results |
| `RegisterAllocator_proofs` | safety of both strategies | extends `RegisterAllocator`, `InductionLemmas` |
| `Region` | arena and region over a line of addresses | |
| `Region_proofs` | its safety | extends `Region`, `InductionLemmas` |
| `InductionLemmas` | induction over sets and numbers, recursion, saturation of finite sets | used by the proofs |
| `SSAInstruction` | values and instructions of the intermediate code, and what a program means | |
| `OptimizationPassManager` | the passes of `-O3` | extends `SSAInstruction` |
| `X86Code` | the instructions the encoders emit, the templates they share, a processor | extends `SSAInstruction` |
| `X86_64Encoder`, `BareMetalX86Encoder`, `BareMetalX86ModernEncoder`, `BareMetalX86_32Encoder` | one encoder each: what it emits for an instruction, a function's beginning, and how it orders and patches | extend `X86Code` |
| `Toolchain` | one call of `lsm` to its exit, then the machine that runs the code | extends the optimiser, instantiates the encoders (the hosted one for both calling conventions) |
| `BootImage` | the bytes of executable and boot sector, and the machine that starts from them | |

`MC*` modules hold the inputs TLC enumerates. Definitions keep the names of the
code; operators such as `PopRestore_Missing` are plausible wrong versions of the
definition that follows them, kept to show that each property can fail. A
module's type invariant, where no run lists it by itself, is a conjunct of one of
its invariants.

Correspondence, where it is not one action per function:

* **Deques.** `pc[th]` says which access of `push`/`pop`/`steal` comes next; `b`,
  `t`, `task` are the C++ locals. `TakeResult` is the return to the caller, after
  which the locals are gone (`tgt` goes back to `AnyDeque`).
  `status` and `returned` are history. `Hi(q)` is the end of what can still be
  obtained: while the owner is inside `pop`, `bottom` is lowered but the last
  position is undecided.
* **Scheduler.** `wpc` is the line of `workerLoop`; a worker's `pop` and `steal`
  are the deque's own steps. `SpawnWhileRunning` says whether the client uses
  `spawn` between `start` and `stop`; the code does not forbid it.
* **SSABuilder.** A node on `work` is replaced by its parts and by what the
  builder does after them; `fn` is the state kept per function and `table`
  (`varVersionTable`) the one kept from function to function. `Trees` is the set of
  syntax trees the functions are made of, closed under taking parts
  (`TreesAssumption`, `ProgramsAssumption`): a run computes it from its programs,
  the proofs know nothing else about it. Reads of arrays,
  ports, registers and memory are one node kind (`Access`), writes another
  (`Effect`): the builder treats them alike. `machine` executes the code by the
  meaning of its opcodes, `source` executes the syntax tree as the documents
  describe it; the world answers both in the same way. What they do to the
  outside is compared as a trace. A finished function keeps its parameters and, as
  history, `vars`: which names were variables.
* **ModuleLoader.** A file is whether it opens, lexes and parses, and its
  imports. Paths keep their spelling, because the code compares spellings. What
  the root needs, and whether a file reaches itself, is defined without any
  search, by the sets of files that are closed under imports.
* **RegisterAllocator.** A function is its instructions in layout order plus the
  set of jumps, which only the reference definition of liveness looks at. The
  intervals are sorted by their beginnings; equal ones come in any order, as the
  hash table has them.
* **Region.** `Inside(r)` is the least set of regions with `r` and everything
  carved out of a member. Clients keep two rules the code cannot enforce: nothing
  in `Inside(r)` is used after `r.dispose()`, and no value escapes to such a
  region (`AllocEscaped` asks that the parent be open).
* **Toolchain.** `stage` is the place in `main`; the optimiser's `opt` and the
  encoder's `asm` are the places inside them. An encoder first puts the
  instructions of one intermediate instruction into `asm.pending` and `Emit`
  takes them out one by one, gives a variable its slot at its first use and adds
  the length in bytes, so that labels and patches are real offsets. `mean`
  executes the builder's program by the meaning of its opcodes before any pass
  has touched it; `cpu` executes the code from the page of the JIT, or from the
  image. Devices and native functions answer both alike, uninitialised storage
  and registers that a call may change hold junk.
* **Processor.** An x86 instruction is a record with an effect and a length; a
  group that no jump can enter (compare, set, extend) is one record. Words have
  eight bytes of `ByteBits` bits and wrap; doubles live in the same words under
  another encoding, so that a value moved through the wrong kind of register
  shows. The processor, the calling conventions and the loaders are external:
  modelled from how the encoders use them.
* **BootImage.** A byte is zero or the k-th byte of a named piece, so that one
  piece copied over another is noticed. An instruction can be executed where all
  of its bytes still are.

## 3. What is checked

Eight passing runs.

| Run | Instance | Shows |
|---|---|---|
| `deques` | 3 workers, one of which pushes; 3 tasks, 2 slots; 178,447 states | `AtMostOnce`, `NoTaskLost`, `WithinCapacity`; `push` drops only in a step where the deque is full and `pop` fails only where it is empty; the deques implement `TaskDeque`; the invariant of the proofs |
| `scheduler` | 2 workers, 3 tasks, 2 slots, spawning only while stopped | tasks run at most once and never after deletion; queued tasks are run (`TasksRun`); `spawn`, `start`, `stop` return (`CallsReturn`); no worker leaves with a task in hand |
| `loader` | every file system over 3 names, 2 directories, up to one broken file; 83,182 states | verdict, order and content of the merged program; `visitingModules` is the call chain; loading ends |
| `ssa_builder` | 654 programs of two functions, parameters 0 and 1; 169,502 states | `CompiledAsWritten`, in particular no name is read that has no value; control never leaves the blocks (`NeverStuck`), regions left once on every way out, phi nodes wherever definitions of a variable meet that is only assigned by `=`, `+=`, `-=` or counts a loop (`PhisSuffice`), termination |
| `dominance` | all graphs of 4 blocks, reducible or not | dominators, immediate dominators and frontiers are exact; the sweeps never strike out a dominator, and end |
| `register_allocation` | functions of 3 instructions with forward branches, and one for every list of up to 4 intervals, of one class and of both; both strategies, every order; 1 integer and 2 floating-point registers; 249,310 states | intervals cover liveness; one place each; no clash and registers conserved, until linear scan passes a register from one class to the other (`Separated`); linear scan spills only under pressure and colouring only nodes removed in doubt (`SpillsJustified`); allocation ends |
| `region` | a root of 12 bytes and two more regions, two slab classes, four request sizes; 177,711 states | no overlap, everything inside its buffer, recycled chunks are free, a child's buffer is exclusive |
| `toolchain` | 230 calls of `lsm`; 25,574 states | `RunsAsMeant`: the code shows the outside what the program means, with and without `-O3`; `StackDiscipline`: it gives back the stack and saved registers and enters native functions aligned; `LocalsApart`: slots and arrays are disjoint; `ExitHonest`: exit 0 of a build means that the file was opened and written, any other exit that nothing was, and no page is left behind (that the device took the whole file is not part of it, see below); `Finishes` |

Four runs show a disagreement between code and documents:

* `spawn_while_running`: `spawn` pushes into a worker's deque from the client's
  thread while the owner pops. `push` and `pop` both write `bottom`, and a task
  is handed out twice.
* `ssa_break`: `break` and `continue` have no case in `buildStatement` and
  generate nothing, so the loop runs on.
* `licm`: an assignment whose operands the loop does not define is moved in front
  of the loop, although the loop may have no turns. `x = 1`, a loop that would
  assign `x = 5` and is not entered, `print x`: 5 with `-O3`, 1 without.
* `boot_image`: none of the three files takes the processor to the program. In
  the boot sector the descriptor table is copied over the end of the last stage,
  its jump included (it stops at 0x7D01), and loading `es` through `ax` destroys
  the request that `int 13h` is to serve; in both ELF files the entry address
  counts the 84 bytes of headers and the load address does not. With these three
  places changed in the model, all three files reach the program.

Other failures met while modelling. Most inputs are left out of the passing runs,
and TLC refutes a property when they are let in. The rows marked * are in the
runs; there the property says what it does not claim, and TLC refutes it without
that exception. The row marked † is in the model and in no run.

| Where | Input | What happens |
|---|---|---|
| `LockFreeQueue.hpp:27` | `spawn` into a full deque | the task is discarded, its id is returned |
| `Scheduler.hpp:31` | `SpawnWhileRunning = TRUE` | `spawn` reads the id of a deleted task |
| `LivenessAnalyzer.hpp:52` | a backward branch | the interval ends before the last read |
| `LinearScanAllocator.hpp:54` * | variables of both classes | `spillAtInterval` passes a register from one class to the other, expiry returns it to the wrong list, and two live variables of a class can share a register (`Separated` in `NoClash` and `RegistersConserved`) |
| `SSABuilder.cpp:22` * | a variable changed by `*=` or `/=` in one branch | `emit` does not record the definition, and no phi node is placed where it meets another (`Tracked` in `PhisSuffice`) |
| `RawBinaryBuilder.hpp:21`, `ELFBuilder.cpp:86` * | a full device | `write` and `close` are not checked: the file is cut off and the exit status is 0 (`short` in `ExitHonest`) |
| `X86_64Encoder.cpp:491` † | more than 14 parameters on Windows | the offset is emitted as one signed byte, and the callee reads its own frame |
| `Region.hpp:79` | three regions: the middle one carved out of the first, the last with a buffer of its own; the first is disposed of | `allocEscaped` of the last follows a pointer into memory that was given back, and blocks overlap |
| `SSABuilder.cpp:606` | a `go` statement with arguments (`Programs <- GoPrograms`), as at `Documentation.md:346` | the arguments are neither evaluated nor passed, and `CompiledAsWritten` fails |
| `SSABuilder.cpp:377` | `&&` or `\|\|` with a call on the right (`Programs <- ShortcutPrograms`) | both sides are built and joined by a product or a sum, so the call is always made, although `Documentation.md:395-396` calls both operators short-circuit; `CompiledAsWritten` fails |
| `SSABuilder.cpp:187` | a local with the name of a top-level constant | the constant is hidden in later functions |
| `BareMetalX86Encoder.cpp:156`, the same in the modern one | a negative dividend | `rdx` is cleared, not sign-extended |
| `BareMetalX86ModernEncoder.cpp:396` | six arguments | `mov r8, rcx` instead of `mov r9, rax` |
| `X86_64Encoder.cpp:396`, System V | seven arguments | the seventh is not passed |
| `ConstantProp.hpp:20` | `4 / 0` with `-O3` | folded to 0, the program no longer faults |
| `AutoVectorizer.hpp:36` | two float additions in a row, used later | both results are lost |
| encoders, `default:` | an opcode without a case (comparisons on 32 bits, float comparisons and arrays on bare metal, bit operations on hosted x86_64) | no code, the result stays unset |

`GraphColoring.hpp:113` offers integer variables the floating-point ids, the
stack pointer's among them; nothing uses the allocation yet. Some conditions in
the SSA builder are a matter of interpretation and not checked: a `defer` in a
branch that is not taken is still made, the bound of a range is read again at
every turn.

### Bounds and why they are enough

* Two slots make the ring wrap and fill with three tasks; an owner and two
  thieves is the smallest number in which a thief can be overtaken by another
  while the owner is inside `pop`. Beyond it, the proofs take over.
* Three files give self-imports, two- and three-cycles, diamonds and a shadowed
  file.
* Four blocks contain the irreducible graphs (two entries into a cycle) and
  nested loops; four intervals on one or two registers force expiry, spill of the
  current and spill of an active interval, of its own class and of the other.
* The SSA programs contain every statement kind and, inside conditionals and
  loops, every body of up to two statements of five kinds, early returns among
  them; a second function is compiled afterwards to notice what the first left
  behind. Deferred calls stand at the top level of a function, range bounds are
  not assigned in the body, `&&` joins comparisons and the `go` statement has no
  arguments; a branch that scales a variable by `*=` and `/=` has operands of both
  signs.
* The region is 12 bytes with a cache line of 4 so that alignment padding, an
  exact fit and exhaustion all occur within a few allocations.
* The calls of `lsm` cover every option, every stage that can fail and, for each
  encoder, every opcode it has a case for: arithmetic with operands of both signs
  and at the edge of a word, loops of no and of two turns, recursion, one to
  eight arguments, floats, arrays (in one function and in two), native calls, drivers with ports and volatile
  memory of every width, kernels with a naked entry. `ByteBits = 2` gives words
  of 16 bits in which overflow occurs and in which 1-, 2-, 4- and 8-byte accesses
  differ. `Fuel = 300` is more instructions than any of the programs takes; a
  program that used it up would violate `RunsAsMeant`. `Top = 100008` is a stack
  pointer of the alignment a called function finds. A frame larger than its fixed
  4096 or 8192 bytes does not occur.
* `KernelBytes = 5`: a program's length does not change the layout before it.

### Fairness

The scheduler assumes weak fairness of each worker and of the client inside a
call: the operating system runs every thread and no step blocks, `join` apart,
which is enabled once the workers are over. Whether the client calls anything is
its choice. The loader, the builder, the allocators, the dominance analysis and
a call of `lsm` (with the processor, which does not stop) are sequential code, so weak fairness of the next step says only that the
program keeps running.

## 4. What is proved

Every theorem holds for all values of the constants that satisfy the named
assumptions of its module, which TLC evaluates on the instances of section 3.
Where a theorem needs more, the hypothesis is named in its statement:

| Hypothesis | Says | Why it cannot be dropped |
|---|---|---|
| `OnlyOwnersPush` | nobody pushes into a deque but its owner | run `spawn_while_running` |
| `SpawnsWhenStopped` | the client spawns only into a stopped pool | the same run |
| `ForwardBranches` | a function's branches go forward | `LivenessAnalyzer.hpp:52`, section 3 |
| `Separated`, inside `NoClash` and `RegistersConserved` | graph colouring; or all variables of one class; or no register has gone from one class to the other so far | `LinearScanAllocator.hpp:54`, section 3 |
| `Tracked`, inside `PhisSuffice` | every instruction that assigns the variable is a copy, an addition or a subtraction | `SSABuilder.cpp:22`, section 3 |
| `PoolsSuffice` | the colours offered to a class are no fewer than its limit, none listed twice | true of the lists at `GraphColoring.hpp:45`; with a shorter list colouring could spill a node it had counted as safe |

### Deques (`LockFreeTaskQueue_proofs`)

Any sets of workers, other threads and tasks, any capacity, under
`OnlyOwnersPush`.

| Theorem | Statement |
|---|---|
| `TypeCorrect` | `TypeOK`, in particular `bottom >= -1` |
| `CapacityTheorem` | `WithinCapacity` |
| `HandedOutOnce` | `AtMostOnce` |
| `NothingLost` | `NoTaskLost` |
| `TaskInvariant` | `InductiveInvariant` |
| `DropsExplained`, `PopFailuresExplained` | the action properties `DropsOnlyWhenFull`, `PopFailsOnlyWhenEmpty` |
| `DequesAreAtomic` | `ImplementsDeque`: every behaviour is one of `TaskDeque` |

None of the safety properties is inductive. `GInv` adds what the threads' local
copies say about the indices: the owner's `b` is `bottom` (or one less before
`pop` stores it), a pusher has seen room, a thief's `t` is never ahead of `top`,
and as long as it equals `top` there is a task at that position; that last
clause is what makes a successful compare-exchange mean a task. `DInv` says who
holds which task: live positions, pushers and winners hold distinct tasks in
matching states, and what a thief or the owner has read is still in the slot as
long as its compare-exchange can succeed. The proof of `GInv` splits a step into
what it does to the deque it works on and a frame lemma for the other threads;
the proof of `DInv` has a case for quiet steps (nothing live changes), for
taking the top position, for publishing at the bottom and for claiming there;
slots of distinct live positions are distinct because at most `Capacity` are
live (`SlotDistinct`).

The refinement maps a deque to the tasks at its live positions, in order
(`Items`). Most steps leave that sequence alone. Four change it, each by one
operation of `TaskDeque`: the store of `bottom` in `push` appends, a `push` that
found no room drops, the owner's load of `top` (or its compare-exchange, for the
last task) takes from the back, a thief's compare-exchange takes from the front.
That a thief returns the task at the front is `DInv`'s clause about what it has
read.

### Scheduler (`Scheduler_proofs`)

Any number of workers, tasks and slots, any number of starts and stops, under
`SpawnsWhenStopped`.

| Theorem | Statement |
|---|---|
| `SchedulerUsesDequesAsOwner` | every behaviour is a behaviour of deques into which only owners push |
| `SchedulerKeepsDeques`, `SchedulerInvariant` | the deques' invariant, and the scheduler's own |
| `TasksAliveWhenUsed` | `NoUseAfterFree` |
| `TasksHandedOutOnce` | `AtMostOnce`, the property the run `spawn_while_running` refutes without the hypothesis |
| `StopKeepsTasks` | `StopLosesNothing` |

The client is not an owner, so the theorems about deques do not apply as they
stand. While it is inside `spawn` no worker runs; `Owned` therefore instantiates
the deques with the client's local variables in the place of those of the worker
whose deque it pushes into. `ControlInv` (who is running when) makes every step
of the scheduler a step of these deques or a stutter, and their theorems carry
over. `TaskInv` adds that the tasks in workers' hands are distinct and alive.

### Module loader (`ModuleLoader_proofs`)

Every file system and search path.

| Theorem | Statement |
|---|---|
| `LoaderInvariant`, `SearchInvariant` | the two inductive invariants |
| `LoaderVisitingIsStack` | `VisitingIsStack` |
| `LoaderMergedOnceInOrder` | `MergedOnceInOrder` |
| `LoaderVerdictIsRight` | `VerdictIsRight` |

`LoaderInv` ties the frames, `visitingModules` and the merged program together: a
frame's imports up to its position are loaded, each frame is what the one below
it imports next. `SearchInv` adds that merged files are readable, reached from
the root and on no cycle, which at the end gives the verdict: the merged files
form a closed set, so they are all that is needed.

### Register allocation (`RegisterAllocator_proofs`)

Functions of any length over any finite set of variables, any register lists,
every order the hash tables leave open.

| Theorem | Statement |
|---|---|
| `AllocationInvariant` | the inductive invariant `AllocInv` |
| `LinearScanConserves` | `RegistersConserved`: the pools and places keep their types always, each register is free or with one active interval while `Separated` |
| `EveryVariablePlaced` | `OnePlaceEach` |
| `RegistersNotShared` | intervals that overlap never share a register while `Separated` (`NeverShared`), whatever the branches |
| `LivenessCovered` | `IntervalsCoverLiveness`, under `ForwardBranches` |
| `NoTwoLiveValuesClash` | `NoClash`, under `ForwardBranches`: for graph colouring always, for linear scan while `Separated` |
| `SpillsOnlyInNeed` | `SpillsJustified`, under `PoolsSuffice` |

For linear scan the invariant has three parts. `ScanBase` holds whatever happens:
types, slots of their own, an active interval has a register, and one which kept
its register and is no longer active ended before the current one begins.
`ClassesApart` holds until a register crosses over (`crossed`, a history variable
that `SpillActive` sets): a register is free or with one active interval of its
class, and intervals of a class that got the same one lie apart. Only functions
with variables of both classes can leave it (`CrossedMixed`). `SpillsExplained` says that once anything has been
spilled, or a register has crossed, more intervals of some class overlap at a
point than it has registers. Both first happen when a pool is empty and the
classes are still apart, so the active intervals hold all of its registers; and
what is true of the intervals stays true, also after a crossing. For colouring, that nodes already coloured
differ from their neighbours and that a node removed with a low degree still has
fewer coloured neighbours than registers (a counting argument over the stack).
Liveness is by induction on the length of the path to the read.

### Dominance (`Dominance_proofs`)

Every number of blocks and every graph.

| Theorem | Statement |
|---|---|
| `SweepsComputeDominators` | `DominatorsExact` |
| `ImmediateDominatorsFormTree` | `IdomIsTree` |
| `FrontiersExact` | `FrontierExact` |

`SweepInv`: during the sweeps the sets contain every dominator, and when a sweep
has changed nothing they satisfy the equations at every block already visited.
A solution of the equations that contains the dominators is the dominators: a
block that is in the set of `c` without dominating it could be avoided along a
path from the entry, and somewhere on that path the equations fail. `IdomInv`
and `FrontierInv` carry this through the two later phases; a runner's walk up
`idom` visits exactly the dominators of a predecessor below the immediate
dominator of the join.

### SSA builder (`SSABuilder_proofs`)

Every set of programs over every set of syntax trees, nested as they may be; all
arguments.

| Theorem | Statement |
|---|---|
| `BuilderInvariant` | the inductive invariant `BuilderInv` |
| `ControlIsNeverLost` | `NeverStuck` |
| `RegionsAreBalanced` | `RegionsBalanced` |
| `PhiNodesSuffice` | `PhisSuffice` |

The builder closes blocks and opens others in statements that nest, so at most
moments some block has no jump yet and some jump has no target. `BuilderInv` says
what is owed: of `fn`, that every block but the current one ends in a jump and
that the region is entered only at the very beginning and left only in front of a
return (`FnOK`); of `work`, that the stack pays for the rest (`WorkOK`). An item
that opens a block comes right after one that ends the current block (`Chain`);
no label is opened twice or was opened before (`Once`); every target of a jump,
emitted or still to be emitted, is the label of a block or will be opened; and
the implicit return comes last. Expressions and simple statements add code
without jumps and replace their item by harmless ones (`QuietStep`). Conditionals
and loops replace theirs by a `Segment`: code and blocks that keep these promises
by themselves whatever surrounds them, and whose labels are new (`IfSegment`,
`WhileSegment`, `ForSegment`). When the stack is empty nothing is owed, and what
is left is `BuiltOK`: every block ends in a jump to a block of the function or in
a return. From there the first two follow by the position of the machine: it
stands on an instruction of a block, and the number of regions it is inside of is
given by that position (`RegionsAt`).

`PhisSuffice` needs three more promises (`FlowOK`). No block is opened unless the
code, or an item before it on the stack, jumps to it (`Promised`), so every block
of the finished graph can be reached (`Connected`): in a graph with unreachable
blocks everything dominates them and frontiers say nothing about them. And the
dominators and frontiers `insertPhiNodes` reads are those of the finished code
(`Ordered`). The rest is about graphs (`EnoughPhis`). `Reach` and the iterated
frontier stop growing within as many rounds as there are blocks, so both are
closed sets (`ClosureFacts`, `PhiBlocksFacts`). A definition that reaches the
start of a block without a phi node strictly dominates it, for if it did not, the
first block on the way that it does not strictly dominate would be in its frontier
and have a phi node (`ReachingDominates`). Suppose two do: every way to the block goes
through both, and if `b` did not dominate `a`, a way to `a` that avoids `b` could
be continued along the one from `a` to the block, which passes no other
definition (`ReachesAround`). So each dominates the other, and they are the
same block (`DominanceAntisymmetric`). Phi nodes do not change the graph
(`SameGraph`), so this holds of the function as it is stored. The property looks at
the instructions of the finished code and the builder at what `emit` wrote down:
`Noted`, the third promise, says that the record misses no copy, addition,
subtraction or parameter, and hence no definition of a `Tracked` variable.

### Regions (`Region_proofs`)

Every capacity, slab table, set of requests and alignments, any number and
nesting of regions, under `NoWrapAssumption` (no request makes the bounds check
of `Arena::alloc` wrap around).

| Theorem | Statement |
|---|---|
| `RegionInvariant` | the inductive invariant `RegionInv` |
| `BlocksNeverOverlap` | `NoOverlap` |
| `EverythingInside` | `InsideBuffer` |
| `WaitingChunksFree` | `ChunksFree` |
| `ChildBuffersExclusive` | `ChildBufferExclusive` |

The properties look at bytes in use, but a chunk goes back to its list with the
size of its class: the invariant counts a block with that whole size. It treats
blocks, waiting chunks and the buffers of carved children alike, as pieces of a
region, and says of each region alone that its pieces lie apart below its bump
pointer. Each action adds a piece above the pointer, swaps one for another on the
same memory, or takes some away. That pieces of different regions lie apart
follows by induction on the later one of the two: its buffer is new memory, a
part of a piece of the earlier one, or a part of the buffer of a region created
before.

### What the proofs found

* Disposal: that a child in use has a parent in use is not true of allocations
  that escape to a parent; the attempt to prove it gave the case of
  `Region.hpp:79` above, and the run now has the third region it needs.
* `WorkerGotPop` chose between two cases whose conditions overlapped, which leaves
  the choice open in TLA+; they now exclude each other, as the code's `if` does.
* Whether `MachineNext` and `SourceNext` chose one of several cases with
  overlapping conditions could not be told from their form; the cases are now
  exclusive, in the order in which the code tests them.
* `NeverStuck` said two things, that control stays inside the blocks and that no
  name without a value is read. The first depends on the form of the code alone and
  is proved; the second is part of what a correct compilation means and now
  belongs to `CompiledAsWritten`.
* Because line 113 offers both classes the floating-point list, the degree
  argument of graph colouring holds for integer variables only as long as that
  list is no shorter than theirs, which is `PoolsSuffice`.

### Induction

A recursive function is a function that satisfies its equation, if there is one;
`RecursionExists` shows that there is, `SetInduction` and `LeastElement` give
induction with the predicate as a set, and `Saturation` that a growing subset of
a finite set stops growing. The proofs about paths, import chains and nested
regions rest on these.

## 5. What is only model-checked

* Liveness (`TasksRun`, `CallsReturn`, `Finishes`, the `Terminates` properties):
  reasoning about fairness and `ENABLED` is outside what the prover handles.
* `CompiledAsWritten`: that the code of every program does what its source says is
  a simulation between two executions whose relation would have to follow the
  builder through every nesting of every statement.
  It does not hold of every program either (`break`, arguments of `go`, effects to
  the right of `&&`, a local that hides a constant, a bound that its loop assigns:
  see the run `ssa_break` and section 3), so a theorem would first have to say
  which programs it is about.
* `Toolchain`: its properties compare executions of programs that a run
  enumerates, over words that are taken apart bit by bit, and it reaches a
  recursive operator (the vectoriser's rewriting of a block); neither is accepted
  by the prover's SMT back end.
* The behaviours behind the four findings.

## 6. Assumptions of the models

* Memory is sequentially consistent. The code's fences order the accesses the
  algorithm depends on; weaker orderings are not explored.
* Indices are mathematical integers: `int64_t` does not wrap in practice.
* Region clients free a chunk once with the size they asked for, and do not use
  a region's memory after `dispose`, directly or as a parent.
* Integers in the programs of `SSABuilder` stay small; wrap-around is compared in
  `Toolchain`.
* What was allocated and mapped by the operating system is what was asked for;
  the code segment is entered as a function with no arguments.
* `Dominates` in the optimiser is the relation by paths; that the analysis
  computes it is what the run `dominance` and `Dominance_proofs` show.

## 7. Plan

Done: deques, scheduler, loader, register allocation, regions, dominance, SSA
builder, optimiser, encoders, JIT, image writers and the driver, and the proofs
of section 4: every safety property of the runs of deques, scheduler, loader,
register allocation, dominance and regions is a theorem, and so are the three
about the shape of the SSA builder's code. Next, in order:

1. the type checker's scopes and record layout, the monomorphizer's work list,
   the language server's document state;
2. a second `start` of a running pool (two owners per deque);
3. floats and strings in `SSABuilder`, so that its output can be fed to
   `Toolchain` instead of the hand-written programs;
4. proofs: `CompiledAsWritten`, for expressions first; `LocalsApart` of the
   encoders' slots.

## 8. Not modelled

* The lexer and the parser: the grammar is data, and a model would repeat it. The
  type checker and the monomorphizer walk the tree and accept or reject it;
  `ModuleLoader` and `Toolchain` keep the verdict.
* The bytes of each instruction: the encoders are modelled by the instruction they
  emit and by its length, not by its encoding.
* `ARM64Encoder` and the scheduler's context switching, which nothing uses;
  `EscapeAnalyzer`, whose findings the builder ignores; `RegionLowering`, which
  `main.cpp:147` calls and whose transformation changes nothing.
* The language server and the build tool (text and I/O; the driver's model ends
  `--lsp` when its input ends), the foreign-function loader, printing, start-up
  assembly, linker scripts and the UART driver.
* The operating system, kernel and tests written in LSM and the C font data of
  the kernel, which are programs for the toolchain.
