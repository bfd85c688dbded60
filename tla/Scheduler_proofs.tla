-------------------------- MODULE Scheduler_proofs --------------------------
(***************************************************************************)
(* Proofs about the task scheduler, for any number of worker threads,      *)
(* tasks and slots, when the client spawns only while the pool is stopped. *)
(*                                                                         *)
(* The deques are written for pushes by their owner, and spawn pushes from *)
(* the client's thread.  While it does, every worker thread is off, so the *)
(* push is one the owner could have made: with the client's local          *)
(* variables read as the owner's, every step of the scheduler is a step of *)
(* deques that only owners push into, and what is proved of those holds.   *)
(***************************************************************************)
EXTENDS Scheduler, LockFreeTaskQueue_proofs

USE CapacityAssumption, NullAssumption, ThreadsAssumption

\* The client never calls spawn between start and stop.
SpawnsWhenStopped == SpawnWhileRunning = FALSE

(***************************************************************************)
(* Who may be doing what.                                                  *)
(***************************************************************************)
SchedTypes ==
    /\ running \in BOOLEAN
    /\ nextTaskId \in 1 .. MaxTasks + 1
    /\ alive \subseteq Task
    /\ wpc \in [Workers -> WorkerPCs]
    /\ held \in [Workers -> Task \cup {Null}]
    /\ cpc \in ClientPCs
    /\ created \in 0 .. NumThreads

\* Outside the operations a thread has no local variables.
Clean(th) ==
    pc[th] = "idle" => tgt[th] = AnyDeque /\ b[th] = 0 /\ t[th] = 0 /\ task[th] = Null

\* A worker is inside the operation workerLoop has called, or in none.
WorkerPhase(w) ==
    /\ wpc[w] = "popping" => pc[w] \in PopPCs \cup {"ret"}
    /\ wpc[w] = "stealing" => pc[w] \in StealPCs \cup {"ret"}
    /\ wpc[w] \notin {"popping", "stealing"} => pc[w] = "idle"
    /\ wpc[w] \in {"run", "delete"} => held[w] \in Task

\* While the client pushes, no worker thread exists.
ClientPhase ==
    /\ cpc = "spawn" => ~running /\ pc[Client] \in PushPCs \cup {"ret"}
    /\ cpc # "spawn" => pc[Client] = "idle"
    /\ cpc \in {"idle", "spawn"} /\ ~running => created = 0 /\ \A w \in Workers : wpc[w] = "off"
    /\ cpc = "start" => running /\ \A w \in Workers : w >= created => wpc[w] = "off"

ControlInv ==
    /\ TypeInv /\ SchedTypes
    /\ \A th \in Threads : Clean(th)
    /\ \A w \in Workers : WorkerPhase(w)
    /\ ClientPhase

\* The scheduler's workers and its client are the threads of the deques.
LEMMA WhoIsWho ==
    /\ Client \in Threads /\ Client \notin Workers /\ Threads = Workers \cup {Client}
    /\ Workers = 0 .. NumThreads - 1 /\ NumThreads \in Nat \ {0}
    /\ \A x \in Task : x \in Nat /\ x % NumThreads \in Workers
    /\ <<Client, 0>> \in MayPush
    /\ \A w \in Workers : <<Client, w>> \in MayPush
<1> USE SchedulerAssumption
<1>1. Client \in Threads /\ Client \notin Workers /\ Threads = Workers \cup {Client}
  BY DEF Threads
<1>2. Workers = 0 .. NumThreads - 1 /\ NumThreads \in Nat \ {0}
  OBVIOUS
<1>3. \A x \in Task : x \in Nat /\ x % NumThreads \in Workers
  OBVIOUS
<1>4. 0 \in Workers
  OBVIOUS
<1> QED BY <1>1, <1>2, <1>3, <1>4

\* Every step of the scheduler is a step of the deques or leaves them alone.
LEMMA SchedulerStepsDeques ==
    ASSUME ControlInv, [SchedNext]_allVars
    PROVE  [Next]_vars
<1> USE WhoIsWho
<1>1. CASE Spawn
  <2>1. nextTaskId \in Task
    BY <1>1, SchedulerAssumption DEF Spawn, ControlInv, SchedTypes
  <2> DEFINE p == <<Client, nextTaskId % NumThreads>>
  <2>2. p \in MayPush /\ p[1] = Client /\ p[2] = nextTaskId % NumThreads
    BY <2>1
  <2>3. PushCall(p[1], p[2], nextTaskId)
    BY <1>1, <2>2 DEF Spawn
  <2> HIDE DEF p
  <2>4. \E pp \in MayPush, x \in Task : PushCall(pp[1], pp[2], x)
    BY <2>1, <2>2, <2>3
  <2> QED BY <2>4 DEF Next
<1>2. CASE SpawnPush
  BY <1>2 DEF SpawnPush, Next, QueueStep
<1>3. CASE SpawnReturn
  BY <1>3 DEF SpawnReturn, Next
<1>4. CASE Start \/ StartThread \/ Stop \/ Join
  BY <1>4 DEF Start, StartThread, Stop, Join
<1>5. ASSUME NEW w \in Workers, WorkerStep(w) PROVE [Next]_vars
  <2>1. CASE WorkerCheck(w) \/ WorkerRun(w) \/ WorkerDelete(w)
    BY <2>1 DEF WorkerCheck, WorkerRun, WorkerDelete
  <2>2. CASE WorkerPop(w)
    BY <2>2 DEF WorkerPop, Next
  <2>3. CASE WorkerQueueStep(w)
    BY <2>3 DEF WorkerQueueStep, Next, QueueStep
  <2>4. CASE WorkerGotPop(w) \/ WorkerGotSteal(w)
    BY <2>4 DEF WorkerGotPop, WorkerGotSteal, Next
  <2>5. CASE WorkerSteal(w)
    BY <2>5 DEF WorkerSteal, Next
  <2> QED BY <1>5, <2>1, <2>2, <2>3, <2>4, <2>5 DEF WorkerStep
<1>6. CASE UNCHANGED allVars
  BY <1>6 DEF allVars
<1> QED BY <1>1, <1>2, <1>3, <1>4, <1>5, <1>6 DEF SchedNext, ClientCall, ClientStep

\* A step of one thread inside the deques leaves the other threads' local
\* variables alone and keeps what Clean says.
LEMMA OneThreadMoves ==
    ASSUME TypeInv, TypeInv', NEW th \in Threads, \A u \in Threads : Clean(u),
           \/ PushStep(th) \/ PopStep(th) \/ StealStep(th) \/ TakeResult(th)
           \/ \E q \in Workers, x \in Task : PushCall(th, q, x)
           \/ \E q \in Workers : PopCall(th, q) \/ StealCall(th, q)
    PROVE  /\ \A u \in Threads : Clean(u)'
           /\ \A u \in Threads \ {th} : pc'[u] = pc[u] /\ task'[u] = task[u]
           /\ PushStep(th) => pc[th] \in PushPCs /\ pc'[th] \in PushPCs \cup {"ret"}
           /\ PopStep(th) => pc[th] \in PopPCs /\ pc'[th] \in PopPCs \cup {"ret"}
           /\ StealStep(th) => pc[th] \in StealPCs /\ pc'[th] \in StealPCs \cup {"ret"}
           /\ TakeResult(th) => pc[th] = "ret" /\ pc'[th] = "idle"
           /\ \A q, x : PushCall(th, q, x) => pc'[th] = "push_top"
           /\ \A q : PopCall(th, q) => pc'[th] = "pop_store"
           /\ \A q : StealCall(th, q) => pc'[th] = "steal_bottom"
<1> USE DEF TypeInv
<1>1. /\ \A u \in Threads \ {th} : /\ pc'[u] = pc[u] /\ tgt'[u] = tgt[u] /\ b'[u] = b[u]
                                   /\ t'[u] = t[u] /\ task'[u] = task[u]
  <2>1. CASE PushStep(th)
    BY <2>1 DEF PushStep, PushLoadTop, PushLoadTopIf, PushWrite, PushPublish, Goto, queueVars
  <2>2. CASE PopStep(th)
    BY <2>2 DEF PopStep, PopStoreBottom, PopLoadTop, PopRead, PopCas, PopRestore, Return, Goto,
       queueVars
  <2>3. CASE StealStep(th)
    BY <2>3 DEF StealStep, StealLoadBottom, StealRead, StealCas, Return, Goto, queueVars
  <2>4. CASE TakeResult(th)
    BY <2>4 DEF TakeResult, Goto, queueVars
  <2>5. CASE \E q \in Workers, x \in Task : PushCall(th, q, x)
    BY <2>5 DEF PushCall, Goto, queueVars
  <2>6. CASE \E q \in Workers : PopCall(th, q) \/ StealCall(th, q)
    BY <2>6 DEF PopCall, StealCall, Goto, queueVars
  <2> QED
    BY <2>1, <2>2, <2>3, <2>4, <2>5, <2>6
<1>2. PushStep(th) => pc[th] \in PushPCs /\ pc'[th] \in PushPCs \cup {"ret"}
  BY DEF PushStep, PushLoadTop, PushLoadTopIf, PushWrite, PushPublish, Goto, PushPCs
<1>3. PopStep(th) => pc[th] \in PopPCs /\ pc'[th] \in PopPCs \cup {"ret"}
  BY DEF PopStep, PopStoreBottom, PopLoadTop, PopRead, PopCas, PopRestore, Return, Goto, PopPCs
<1>4. StealStep(th) => pc[th] \in StealPCs /\ pc'[th] \in StealPCs \cup {"ret"}
  BY DEF StealStep, StealLoadBottom, StealRead, StealCas, Return, Goto, StealPCs
<1>5. TakeResult(th) => /\ pc[th] = "ret" /\ pc'[th] = "idle"
                        /\ tgt'[th] = AnyDeque /\ b'[th] = 0 /\ t'[th] = 0 /\ task'[th] = Null
  BY DEF TakeResult, Goto
<1>6. /\ \A q, x : PushCall(th, q, x) => pc'[th] = "push_top"
      /\ \A q : PopCall(th, q) => pc'[th] = "pop_store"
      /\ \A q : StealCall(th, q) => pc'[th] = "steal_bottom"
  BY DEF PushCall, PopCall, StealCall, Goto
<1>7. ASSUME NEW u \in Threads PROVE Clean(u)'
  <2>1. CASE u = th
    <3>1. CASE TakeResult(th)
      BY <1>5, <2>1, <3>1 DEF Clean
    <3>2. CASE ~TakeResult(th)
      <4>1. pc'[th] # "idle"
        BY <1>2, <1>3, <1>4, <1>6, <3>2 DEF PushPCs, PopPCs, StealPCs
      <4> QED BY <2>1, <4>1 DEF Clean
    <3> QED BY <3>1, <3>2
  <2>2. CASE u # th
    BY <1>1, <2>2 DEF Clean
  <2> QED BY <2>1, <2>2
<1> QED BY <1>1, <1>2, <1>3, <1>4, <1>5, <1>6, <1>7

\* The scheduler's own variables keep their types.
LEMMA SchedTypesInductive ==
    ASSUME TypeInv, SchedTypes, [SchedNext]_allVars
    PROVE  SchedTypes'
<1> USE WhoIsWho, SchedulerAssumption DEF SchedTypes, WorkerPCs, ClientPCs
<1>1. CASE Spawn
  BY <1>1 DEF Spawn
<1>2. CASE SpawnPush \/ SpawnReturn \/ Start \/ Stop
  BY <1>2 DEF SpawnPush, SpawnReturn, Start, Stop, schedVars
<1>3. CASE StartThread
  BY <1>3 DEF StartThread
<1>6. CASE Join
  <2>1. wpc' \in [Workers -> WorkerPCs]
    BY <1>6 DEF Join
  <2> QED BY <1>6, <2>1 DEF Join
<1>4. ASSUME NEW w \in Workers, WorkerStep(w) PROVE SchedTypes'
  <2>1. w \in Threads /\ task[w] \in Task \cup {Null}
    BY DEF TypeInv
  <2> QED BY ZenonT(60), <1>4, <2>1 DEF WorkerStep, WorkerCheck, WorkerPop, WorkerQueueStep,
             WorkerGotPop,
             WorkerSteal, WorkerGotSteal, WorkerRun, WorkerDelete, WGoto, schedVars
<1>5. CASE UNCHANGED allVars
  BY <1>5 DEF allVars, schedVars
<1> QED BY <1>1, <1>2, <1>3, <1>4, <1>5, <1>6 DEF SchedNext, ClientCall, ClientStep

\* The client's steps keep the phases.
LEMMA PhasesUnderClient ==
    ASSUME SpawnsWhenStopped, ControlInv, TypeInv', SchedTypes', ClientCall \/ ClientStep
    PROVE  ControlInv'
<1> USE WhoIsWho
<1>0. /\ TypeInv /\ SchedTypes /\ ClientPhase /\ \A th \in Threads : Clean(th)
      /\ \A w \in Workers : WorkerPhase(w) /\ w \in Threads
  BY DEF ControlInv
<1>1. CASE Spawn
  <2>1. nextTaskId \in Task /\ PushCall(Client, nextTaskId % NumThreads, nextTaskId)
    BY <1>0, <1>1, SchedulerAssumption DEF Spawn, SchedTypes
  <2>2. nextTaskId % NumThreads \in Workers
    BY <2>1
  <2>3. \E q \in Workers, x \in Task : PushCall(Client, q, x)
    BY <2>1, <2>2
  <2>4. /\ \A u \in Threads : Clean(u)'
        /\ \A w \in Workers : pc'[w] = pc[w]
        /\ pc'[Client] = "push_top"
    BY <1>0, <2>1, <2>3, OneThreadMoves
  <2>5. /\ cpc = "idle" /\ cpc' = "spawn" /\ ~running
        /\ UNCHANGED <<running, wpc, held, created>>
    BY <1>1 DEF Spawn, SpawnsWhenStopped
  <2>6. ClientPhase'
    BY <1>0, <2>4, <2>5 DEF ClientPhase, PushPCs
  <2>7. \A w \in Workers : WorkerPhase(w)'
    BY <1>0, <2>4, <2>5 DEF WorkerPhase
  <2> QED BY <2>4, <2>6, <2>7 DEF ControlInv
<1>2. CASE SpawnPush
  <2>1. cpc = "spawn" /\ PushStep(Client) /\ UNCHANGED schedVars
    BY <1>2 DEF SpawnPush
  <2>2. /\ \A u \in Threads : Clean(u)'
        /\ \A w \in Workers : pc'[w] = pc[w]
        /\ pc'[Client] \in PushPCs \cup {"ret"}
    BY <1>0, <2>1, OneThreadMoves
  <2>3. ClientPhase'
    BY <1>0, <2>1, <2>2 DEF ClientPhase, schedVars
  <2>4. \A w \in Workers : WorkerPhase(w)'
    BY <1>0, <2>1, <2>2 DEF WorkerPhase, schedVars
  <2> QED BY <2>2, <2>3, <2>4 DEF ControlInv
<1>3. CASE SpawnReturn
  <2>1. /\ cpc = "spawn" /\ TakeResult(Client) /\ cpc' = "idle"
        /\ UNCHANGED <<running, wpc, held, created>>
    BY <1>3 DEF SpawnReturn
  <2>2. /\ \A u \in Threads : Clean(u)'
        /\ \A w \in Workers : pc'[w] = pc[w]
        /\ pc'[Client] = "idle"
    BY <1>0, <2>1, OneThreadMoves
  <2>3. ClientPhase'
    BY <1>0, <2>1, <2>2 DEF ClientPhase
  <2>4. \A w \in Workers : WorkerPhase(w)'
    BY <1>0, <2>1, <2>2 DEF WorkerPhase
  <2> QED BY <2>2, <2>3, <2>4 DEF ControlInv
<1>4. CASE Start \/ Stop
  <2>1. UNCHANGED <<vars, wpc, held, created>> /\ cpc = "idle"
    BY <1>4 DEF Start, Stop
  <2>2. \A u \in Threads : Clean(u)'
    BY <1>0, <2>1 DEF Clean, vars
  <2>3. \A w \in Workers : WorkerPhase(w)'
    BY <1>0, <2>1 DEF WorkerPhase, vars
  <2>4. ClientPhase'
    BY <1>0, <1>4, <2>1 DEF ClientPhase, vars, Start, Stop
  <2> QED BY <2>2, <2>3, <2>4 DEF ControlInv
<1>5. CASE StartThread
  <2>1. /\ UNCHANGED <<vars, running, held>> /\ cpc = "start" /\ created < NumThreads
        /\ wpc' = [wpc EXCEPT ![created] = "check"] /\ created' = created + 1
        /\ cpc' \in {"idle", "start"} /\ running
    BY <1>0, <1>5 DEF StartThread, ClientPhase
  <2>2. \A u \in Threads : Clean(u)'
    BY <1>0, <2>1 DEF Clean, vars
  <2>3. created \in Workers /\ created \in Nat
    BY <1>0, <2>1 DEF SchedTypes
  <2>4. wpc[created] = "off"
    BY <1>0, <2>1, <2>3 DEF ClientPhase
  <2>5. \A w \in Workers : WorkerPhase(w)'
    BY <1>0, <2>1, <2>3, <2>4 DEF WorkerPhase, vars, SchedTypes
  <2>6. \A w \in Workers : w >= created' => wpc'[w] = "off"
    <3>1. ASSUME NEW w \in Workers, w >= created + 1 PROVE wpc'[w] = "off"
      <4>1. w \in Int /\ created \in Int
        BY <2>3
      <4>2. w >= created /\ w # created
        BY <3>1, <4>1
      <4> QED BY <1>0, <2>1, <4>2 DEF ClientPhase, SchedTypes
    <3> QED BY <2>1, <3>1
  <2>7. ClientPhase'
    BY <1>0, <2>1, <2>6 DEF ClientPhase, vars
  <2> QED BY <2>2, <2>5, <2>7 DEF ControlInv
<1>6. CASE Join
  <2>1. /\ UNCHANGED <<vars, running, held>> /\ cpc = "join" /\ cpc' = "idle" /\ created' = 0
        /\ \A w \in Workers : wpc[w] = "over" /\ wpc'[w] = "off"
    BY <1>6 DEF Join
  <2>2. \A u \in Threads : Clean(u)'
    BY <1>0, <2>1 DEF Clean, vars
  <2>3. \A w \in Workers : WorkerPhase(w)'
    BY <1>0, <2>1 DEF WorkerPhase, vars
  <2>4. ClientPhase'
    BY <1>0, <2>1 DEF ClientPhase, vars
  <2> QED BY <2>2, <2>3, <2>4 DEF ControlInv
<1> QED BY <1>1, <1>2, <1>3, <1>4, <1>5, <1>6 DEF ClientCall, ClientStep

\* A worker's steps keep the phases.
LEMMA PhasesUnderWorker ==
    ASSUME ControlInv, TypeInv', SchedTypes', NEW w \in Workers, WorkerStep(w)
    PROVE  ControlInv'
<1> USE WhoIsWho
<1>0. /\ TypeInv /\ SchedTypes /\ ClientPhase /\ \A th \in Threads : Clean(th)
      /\ \A v \in Workers : WorkerPhase(v) /\ v \in Threads
  BY DEF ControlInv
<1>1. wpc[w] # "off" /\ UNCHANGED <<running, cpc, created>>
  BY DEF WorkerStep, WorkerCheck, WorkerPop, WorkerQueueStep, WorkerGotPop, WorkerSteal,
     WorkerGotSteal, WorkerRun, WorkerDelete, schedVars
<1>2. \A v \in Workers \ {w} : wpc'[v] = wpc[v] /\ held'[v] = held[v]
  BY <1>0 DEF WorkerStep, WorkerCheck, WorkerPop, WorkerQueueStep, WorkerGotPop, WorkerSteal,
     WorkerGotSteal, WorkerRun, WorkerDelete, WGoto, schedVars, SchedTypes
<1>3. /\ \A u \in Threads : Clean(u)'
      /\ \A u \in Threads \ {w} : pc'[u] = pc[u]
      /\ WorkerPhase(w)'
  <2>1. CASE WorkerCheck(w) \/ WorkerRun(w) \/ WorkerDelete(w)
    <3>1. UNCHANGED vars
      BY <2>1 DEF WorkerCheck, WorkerRun, WorkerDelete
    <3>2. \A u \in Threads : Clean(u)'
      BY <1>0, <3>1 DEF Clean, vars
    <3>3. WorkerPhase(w)'
      BY <1>0, <2>1, <3>1 DEF WorkerPhase, SchedTypes, vars, WorkerCheck, WorkerRun, WorkerDelete, WGoto
    <3> QED BY <3>1, <3>2, <3>3 DEF vars
  <2>2. CASE WorkerPop(w)
    <3>1. PopCall(w, w) /\ wpc'[w] = "popping"
      BY <1>0, <2>2 DEF WorkerPop, WGoto, SchedTypes
    <3>2. /\ \A u \in Threads : Clean(u)'
          /\ \A u \in Threads \ {w} : pc'[u] = pc[u]
          /\ pc'[w] = "pop_store"
      BY ZenonT(60), <1>0, <3>1, OneThreadMoves
    <3> QED BY <3>1, <3>2 DEF WorkerPhase, PopPCs
  <2>3. CASE WorkerQueueStep(w)
    <3>1. /\ UNCHANGED <<wpc, held>> /\ wpc[w] \in {"popping", "stealing"}
          /\ PopStep(w) \/ StealStep(w)
      BY <2>3 DEF WorkerQueueStep, schedVars
    <3>2. /\ \A u \in Threads : Clean(u)'
          /\ \A u \in Threads \ {w} : pc'[u] = pc[u]
          /\ PopStep(w) => pc[w] \in PopPCs /\ pc'[w] \in PopPCs \cup {"ret"}
          /\ StealStep(w) => pc[w] \in StealPCs /\ pc'[w] \in StealPCs \cup {"ret"}
      BY <1>0, <3>1, OneThreadMoves
    <3>3. WorkerPhase(w)'
      BY <1>0, <3>1, <3>2 DEF WorkerPhase, PopPCs, StealPCs
    <3> QED BY <3>2, <3>3
  <2>4. CASE WorkerGotPop(w) \/ WorkerGotSteal(w)
    <3>1. /\ TakeResult(w) /\ held' = [held EXCEPT ![w] = task[w]]
          /\ wpc'[w] = "run" => task[w] # Null
          /\ wpc'[w] \in {"run", "steal", "check"}
      BY <1>0, <2>4 DEF WorkerGotPop, WorkerGotSteal, WGoto, SchedTypes
    <3>2. /\ \A u \in Threads : Clean(u)'
          /\ \A u \in Threads \ {w} : pc'[u] = pc[u]
          /\ pc'[w] = "idle"
      BY <1>0, <3>1, OneThreadMoves
    <3>3. WorkerPhase(w)'
      BY ZenonT(60), <1>0, <3>1, <3>2 DEF WorkerPhase, SchedTypes, TypeInv
    <3> QED BY <3>2, <3>3
  <2>5. CASE WorkerSteal(w)
    <3>1. (\E v \in Workers : StealCall(w, v)) /\ wpc'[w] = "stealing"
      BY <1>0, <2>5 DEF WorkerSteal, WGoto, SchedTypes
    <3>2. /\ \A u \in Threads : Clean(u)'
          /\ \A u \in Threads \ {w} : pc'[u] = pc[u]
          /\ pc'[w] = "steal_bottom"
      BY <1>0, <3>1, OneThreadMoves
    <3> QED BY <3>1, <3>2 DEF WorkerPhase, StealPCs
  <2> QED BY <2>1, <2>2, <2>3, <2>4, <2>5 DEF WorkerStep
<1>4. \A v \in Workers : WorkerPhase(v)'
  BY <1>0, <1>2, <1>3 DEF WorkerPhase
<1>5. ClientPhase'
  BY <1>0, <1>1, <1>2, <1>3 DEF ClientPhase
<1> QED BY <1>3, <1>4, <1>5 DEF ControlInv

\* ControlInv is an inductive invariant of the scheduler.
LEMMA ControlInvInductive ==
    ASSUME SpawnsWhenStopped, ControlInv, [SchedNext]_allVars
    PROVE  ControlInv'
<1>1. TypeInv'
  BY SchedulerStepsDeques, TypeInvInductive DEF ControlInv
<1>2. SchedTypes'
  BY SchedTypesInductive DEF ControlInv
<1>3. CASE UNCHANGED allVars
  BY <1>1, <1>2, <1>3 DEF ControlInv, Clean, WorkerPhase, ClientPhase, allVars, vars, schedVars
<1> QED BY <1>1, <1>2, <1>3, PhasesUnderClient, PhasesUnderWorker DEF SchedNext

\* The scheduler starts in ControlInv.
LEMMA ControlInvInit == SchedInit => ControlInv
<1> SUFFICES ASSUME SchedInit PROVE ControlInv
  OBVIOUS
<1>1. TypeInv
  BY GInvInit DEF SchedInit, GInv
<1>2. SchedTypes
  <2>1. wpc \in [Workers -> WorkerPCs]
    BY DEF SchedInit, WorkerPCs
  <2>2. held \in [Workers -> Task \cup {Null}]
    BY DEF SchedInit
  <2>3. running \in BOOLEAN /\ alive \subseteq Task /\ cpc \in ClientPCs
    BY DEF SchedInit, ClientPCs
  <2>4. nextTaskId \in 1 .. MaxTasks + 1 /\ created \in 0 .. NumThreads
    BY SchedulerAssumption DEF SchedInit
  <2> QED BY <2>1, <2>2, <2>3, <2>4 DEF SchedTypes
<1>3. \A th \in Threads : Clean(th)
  BY DEF SchedInit, Init, Clean
<1>4. \A w \in Workers : WorkerPhase(w)
  BY WhoIsWho DEF SchedInit, Init, WorkerPhase
<1>5. ClientPhase
  BY WhoIsWho DEF SchedInit, Init, ClientPhase
<1> QED BY <1>1, <1>2, <1>3, <1>4, <1>5 DEF ControlInv

(***************************************************************************)
(* The scheduler as the client of deques that only owners push into: while *)
(* the client is inside push, its local variables are those of the owner   *)
(* of the deque it pushes into.                                            *)
(***************************************************************************)
Acting(w) == IF pc[Client] # "idle" /\ w = tgt[Client] THEN Client ELSE w

qpc   == [w \in Workers |-> pc[Acting(w)]]
qtgt  == [w \in Workers |-> tgt[Acting(w)]]
qb    == [w \in Workers |-> b[Acting(w)]]
qt    == [w \in Workers |-> t[Acting(w)]]
qtask == [w \in Workers |-> task[Acting(w)]]

OwnPushes == {<<w, w>> : w \in Workers}

Owned ==
    INSTANCE LockFreeTaskQueue_proofs WITH
        Spawners <- {}, MayPush <- OwnPushes,
        pc <- qpc, tgt <- qtgt, b <- qb, t <- qt, task <- qtask

\* What LockFreeTaskQueue assumes of its constants, and that only owners push,
\* is true of this instance.
LEMMA OwnedAssumptions ==
    /\ Capacity \in Nat \ {0} /\ Null \notin Task
    /\ Workers # {} /\ Workers \cap {} = {}
    /\ OwnPushes \subseteq Owned!Threads \X Workers
    /\ Owned!OnlyOwnersPush /\ Owned!Threads = Workers
  BY DEF OwnPushes, Owned!Threads, Owned!OnlyOwnersPush

\* With the client outside push, the view shows the workers as they are.
ShowsWorkers ==
    /\ qpc = [w \in Workers |-> pc[w]] /\ qtgt = [w \in Workers |-> tgt[w]]
    /\ qb = [w \in Workers |-> b[w]] /\ qt = [w \in Workers |-> t[w]]
    /\ qtask = [w \in Workers |-> task[w]]

LEMMA ViewOfWorkers ==
    /\ pc[Client] = "idle" => ShowsWorkers
    /\ pc'[Client] = "idle" => ShowsWorkers'
  BY DEF Acting, qpc, qtgt, qb, qt, qtask, ShowsWorkers

\* With the client inside push, it stands for the owner of its deque.
Standing(f, q) == [w \in Workers |-> IF w = q THEN f[Client] ELSE f[w]]

ShowsClient(q) ==
    /\ qpc = Standing(pc, q) /\ qtgt = Standing(tgt, q) /\ qb = Standing(b, q)
    /\ qt = Standing(t, q) /\ qtask = Standing(task, q)

LEMMA ViewOfClient ==
    ASSUME NEW q \in Workers
    PROVE  /\ pc[Client] # "idle" /\ tgt[Client] = q => ShowsClient(q)
           /\ pc'[Client] # "idle" /\ tgt'[Client] = q => ShowsClient(q)'
  BY DEF Acting, qpc, qtgt, qb, qt, qtask, ShowsClient, Standing

\* A worker's step inside an operation is a step of the same operation.
LEMMA WorkerStepsOwned ==
    ASSUME TypeInv, ShowsWorkers, ShowsWorkers', NEW w \in Workers
    PROVE  /\ PopCall(w, w) => Owned!PopCall(w, w)
           /\ \A v \in Workers : StealCall(w, v) => Owned!StealCall(w, v)
           /\ TakeResult(w) => Owned!TakeResult(w)
           /\ PopStep(w) => Owned!PopStep(w)
           /\ StealStep(w) => Owned!StealStep(w)
<1> USE WhoIsWho DEF TypeInv, ShowsWorkers
<1>0. w \in Threads /\ tgt[w] \in Workers
  OBVIOUS
<1> DEFINE GotoIs(l) == Goto(w, l) => Owned!Goto(w, l)
<1>1. \A l : GotoIs(l)
  BY DEF Goto, Owned!Goto
<1>2. ASSUME NEW x PROVE Return(w, x) => Owned!Return(w, x)
  BY <1>1 DEF Return, Owned!Return
<1>3. PopCall(w, w) => Owned!PopCall(w, w)
  BY <1>1 DEF PopCall, Owned!PopCall, queueVars, Owned!queueVars
<1>4. ASSUME NEW v \in Workers PROVE StealCall(w, v) => Owned!StealCall(w, v)
  BY <1>1 DEF StealCall, Owned!StealCall, queueVars, Owned!queueVars
<1>5. TakeResult(w) => Owned!TakeResult(w)
  BY <1>1 DEF TakeResult, Owned!TakeResult, queueVars, Owned!queueVars, AnyDeque, Owned!AnyDeque
<1>6. PopStoreBottom(w) => Owned!PopStoreBottom(w)
  BY <1>0, <1>1 DEF PopStoreBottom, Owned!PopStoreBottom
<1>7. PopLoadTop(w) => Owned!PopLoadTop(w)
  BY <1>0, <1>1 DEF PopLoadTop, Owned!PopLoadTop, queueVars, Owned!queueVars, Slot, Owned!Slot
<1>8. PopRead(w) => Owned!PopRead(w)
  BY <1>0, <1>1, <1>2 DEF PopRead, Owned!PopRead, queueVars, Owned!queueVars, Slot, Owned!Slot
<1>9. PopCas(w) => Owned!PopCas(w)
  BY <1>0, <1>1 DEF PopCas, Owned!PopCas
<1>10. PopRestore(w) => Owned!PopRestore(w)
  BY <1>0, <1>2 DEF PopRestore, Owned!PopRestore
<1>11. StealLoadBottom(w) => Owned!StealLoadBottom(w)
  BY <1>0, <1>1 DEF StealLoadBottom, Owned!StealLoadBottom, queueVars, Owned!queueVars
<1>12. StealRead(w) => Owned!StealRead(w)
  BY <1>0, <1>1 DEF StealRead, Owned!StealRead, queueVars, Owned!queueVars, Slot, Owned!Slot
<1>13. StealCas(w) => Owned!StealCas(w)
  BY <1>0, <1>2 DEF StealCas, Owned!StealCas
<1> QED BY <1>3, <1>4, <1>5, <1>6, <1>7, <1>8, <1>9, <1>10, <1>11, <1>12, <1>13
        DEF PopStep, Owned!PopStep, StealStep, Owned!StealStep

\* What the client does to its local variable shows as done by the owner.
Tracks(f, q) ==
    /\ \A v : /\ Standing([f EXCEPT ![Client] = v], q) = [Standing(f, q) EXCEPT ![q] = v]
              /\ Standing([f EXCEPT ![Client] = v], q) = [[w \in Workers |-> f[w]] EXCEPT ![q] = v]
              /\ f[q] = v => [w \in Workers |-> [f EXCEPT ![Client] = v][w]]
                                 = [Standing(f, q) EXCEPT ![q] = v]
    /\ f[q] = f[Client] => Standing(f, q) = [w \in Workers |-> f[w]]
    /\ Standing(f, q)[q] = f[Client]

LEMMA StandingTracks ==
    ASSUME NEW S, NEW f \in [Threads -> S], NEW q \in Workers
    PROVE  Tracks(f, q)
  BY WhoIsWho DEF Standing, Tracks

\* The client's push is one the owner of the deque could have made.
LEMMA ClientStepsOwned ==
    ASSUME TypeInv, NEW q \in Workers, Clean(q), pc[q] = "idle", Clean(Client)
    PROVE  /\ \A x \in Task : PushCall(Client, q, x) /\ ShowsWorkers /\ ShowsClient(q)'
                                  => Owned!PushCall(q, q, x)
           /\ PushStep(Client) /\ tgt[Client] = q /\ ShowsClient(q) /\ ShowsClient(q)'
                  => Owned!PushStep(q)
           /\ TakeResult(Client) /\ tgt[Client] = q /\ ShowsClient(q) /\ ShowsWorkers'
                  => Owned!TakeResult(q)
<1>a. Tracks(pc, q)
  BY StandingTracks DEF TypeInv
<1>b. Tracks(tgt, q)
  BY StandingTracks DEF TypeInv
<1>c. Tracks(b, q)
  BY StandingTracks DEF TypeInv
<1>d. Tracks(t, q)
  BY StandingTracks DEF TypeInv
<1>e. Tracks(task, q)
  BY StandingTracks DEF TypeInv
<1>1. ASSUME NEW x \in Task, PushCall(Client, q, x), ShowsWorkers, ShowsClient(q)'
      PROVE  Owned!PushCall(q, q, x)
  <2>1. t[Client] = 0 /\ t[q] = 0
    BY <1>1 DEF Clean, PushCall
  <2>2. Owned!Goto(q, "push_top")
    BY <1>1, <1>a DEF PushCall, Goto, Owned!Goto, ShowsWorkers, ShowsClient, Tracks
  <2>3. /\ qtgt' = [qtgt EXCEPT ![q] = q] /\ qb' = [qb EXCEPT ![q] = bottom[q]]
        /\ qtask' = [qtask EXCEPT ![q] = x]
    BY <1>1, <1>b, <1>c, <1>e DEF PushCall, ShowsWorkers, ShowsClient, Tracks
  <2>4. qt' = qt
    BY <1>1, <1>d, <2>1 DEF PushCall, ShowsWorkers, ShowsClient, Tracks
  <2>5. qpc[q] = "idle"
    BY <1>1 DEF ShowsWorkers
  <2> QED BY <1>1, <2>2, <2>3, <2>4, <2>5 DEF PushCall, Owned!PushCall, queueVars, Owned!queueVars
<1>2. ASSUME PushStep(Client), tgt[Client] = q, ShowsClient(q), ShowsClient(q)'
      PROVE  Owned!PushStep(q)
  <2>1. \A l : Goto(Client, l) => Owned!Goto(q, l)
    BY <1>2, <1>a DEF Goto, Owned!Goto, ShowsClient, Tracks
  <2>2. \A v : task' = [task EXCEPT ![Client] = v] => qtask' = [qtask EXCEPT ![q] = v]
    BY <1>2, <1>e DEF ShowsClient, Tracks
  <2>3. \A v : t' = [t EXCEPT ![Client] = v] => qt' = [qt EXCEPT ![q] = v]
    BY <1>2, <1>d DEF ShowsClient, Tracks
  <2>4. /\ tgt' = tgt => qtgt' = qtgt
        /\ b' = b => qb' = qb
        /\ t' = t => qt' = qt
        /\ task' = task => qtask' = qtask
    BY <1>2 DEF ShowsClient
  <2>5. /\ qpc[q] = pc[Client] /\ qtgt[q] = q /\ qb[q] = b[Client] /\ qtask[q] = task[Client]
    BY <1>2, <1>a, <1>b, <1>c, <1>e DEF ShowsClient, Tracks
  <2>6. CASE PushLoadTop(Client)
    BY <1>2, <2>1, <2>2, <2>3, <2>4, <2>5, <2>6
       DEF PushLoadTop, PushLoadTopIf, Owned!PushLoadTop, Owned!PushLoadTopIf,
       Owned!PushStep, queueVars, Owned!queueVars
  <2>7. CASE PushWrite(Client)
    BY <1>2, <2>1, <2>4, <2>5, <2>7
       DEF PushWrite, Owned!PushWrite, Owned!PushStep, Slot, Owned!Slot
  <2>8. CASE PushPublish(Client)
    BY <1>2, <2>1, <2>2, <2>4, <2>5, <2>8 DEF PushPublish, Owned!PushPublish, Owned!PushStep
  <2> QED BY <1>2, <2>6, <2>7, <2>8 DEF PushStep
<1>3. ASSUME TakeResult(Client), tgt[Client] = q, ShowsClient(q), ShowsWorkers'
      PROVE  Owned!TakeResult(q)
  <2>1. Owned!Goto(q, "idle")
    BY <1>3, <1>a DEF TakeResult, Goto, Owned!Goto, ShowsWorkers, ShowsClient, Tracks
  <2>2. /\ qtgt' = [qtgt EXCEPT ![q] = AnyDeque] /\ qb' = [qb EXCEPT ![q] = 0]
    BY <1>3, <1>b, <1>c DEF TakeResult, ShowsWorkers, ShowsClient, Clean, Tracks
  <2>3. /\ qt' = [qt EXCEPT ![q] = 0] /\ qtask' = [qtask EXCEPT ![q] = Null]
    BY <1>3, <1>d, <1>e DEF TakeResult, ShowsWorkers, ShowsClient, Clean, Tracks
  <2>4. qpc[q] = "ret"
    BY <1>3, <1>a DEF TakeResult, ShowsClient, Tracks
  <2> QED BY <1>3, <2>1, <2>2, <2>3, <2>4 DEF TakeResult, Owned!TakeResult, queueVars,
             Owned!queueVars, AnyDeque, Owned!AnyDeque
<1> QED BY <1>1, <1>2, <1>3

\* Seen that way, every step of the scheduler is a step of the deques or leaves
\* them alone.
LEMMA SchedulerStepsOwned ==
    ASSUME ControlInv, ControlInv', [SchedNext]_allVars
    PROVE  [Owned!Next]_Owned!vars
<1> USE WhoIsWho
<1>0. /\ TypeInv /\ SchedTypes /\ ClientPhase /\ \A th \in Threads : Clean(th)
      /\ ClientPhase' /\ TypeInv'
      /\ \A w \in Workers : WorkerPhase(w) /\ w \in Threads
  BY DEF ControlInv
<1>a. Owned!Threads = Workers
  BY OwnedAssumptions
<1>1. CASE Spawn
  <2>1. SUFFICES ASSUME NEW x \in Task, x = nextTaskId, NEW q \in Workers, q = x % NumThreads
                 PROVE  [Owned!Next]_Owned!vars
    BY <1>0, <1>1, SchedulerAssumption DEF Spawn, SchedTypes
  <2>2. PushCall(Client, q, x) /\ cpc = "idle" /\ cpc' = "spawn" /\ wpc' = wpc
    BY <1>1, <2>1 DEF Spawn
  <2>3. /\ pc[Client] = "idle" /\ pc'[Client] # "idle" /\ wpc[q] = "off"
        /\ pc[q] = "idle" /\ tgt'[Client] = q
    <3>1. pc[Client] = "idle" /\ pc'[Client] # "idle" /\ tgt'[Client] = q
      BY <1>0, <2>2 DEF ClientPhase, PushPCs, PushCall, TypeInv
    <3>2. wpc'[q] = "off"
      BY <1>0, <2>2 DEF ClientPhase
    <3> QED BY <1>0, <2>2, <3>1, <3>2 DEF WorkerPhase
  <2>4. ShowsWorkers /\ ShowsClient(q)'
    BY <2>3, ViewOfWorkers, ViewOfClient
  <2>5. Owned!PushCall(q, q, x)
    BY <1>0, <2>2, <2>3, <2>4, ClientStepsOwned
  <2> DEFINE p == <<q, q>>
  <2>6. p \in OwnPushes /\ p[1] = q /\ p[2] = q
    BY DEF OwnPushes
  <2> HIDE DEF p
  <2>7. Owned!PushCall(p[1], p[2], x)
    BY <2>5, <2>6
  <2> QED BY <2>6, <2>7 DEF Owned!Next
<1>2. CASE SpawnPush \/ SpawnReturn
  <2>1. SUFFICES ASSUME NEW q \in Workers, q = tgt[Client]
                 PROVE  [Owned!Next]_Owned!vars
    BY <1>0 DEF TypeInv
  <2>2. cpc = "spawn" /\ wpc' = wpc
    BY <1>2 DEF SpawnPush, SpawnReturn, schedVars
  <2>3. pc[Client] # "idle" /\ pc[q] = "idle"
    BY <1>0, <2>2 DEF ClientPhase, WorkerPhase, PushPCs
  <2>4. ShowsClient(q)
    BY <2>1, <2>3, ViewOfClient
  <2>5. CASE SpawnPush
    <3>1. PushStep(Client) /\ cpc' = "spawn"
      BY <2>2, <2>5 DEF SpawnPush, schedVars
    <3>2. pc'[Client] # "idle" /\ tgt'[Client] = q
      BY <1>0, <2>1, <3>1 DEF ClientPhase, PushPCs, PushStep, PushLoadTop, PushLoadTopIf, PushWrite,
         PushPublish
    <3>3. Owned!PushStep(q)
      BY <1>0, <2>1, <2>3, <2>4, <3>1, <3>2, ViewOfClient, ClientStepsOwned
    <3> QED BY <1>a, <3>3 DEF Owned!Next, Owned!QueueStep
  <2>6. CASE SpawnReturn
    <3>1. TakeResult(Client) /\ cpc' = "idle"
      BY <2>6 DEF SpawnReturn
    <3>2. pc'[Client] = "idle"
      BY <1>0, <3>1 DEF ClientPhase
    <3>3. Owned!TakeResult(q)
      BY <1>0, <2>1, <2>3, <2>4, <3>1, <3>2, ViewOfWorkers, ClientStepsOwned
    <3> QED BY <1>a, <3>3 DEF Owned!Next
  <2> QED BY <1>2, <2>5, <2>6
<1>3. ASSUME UNCHANGED vars PROVE UNCHANGED Owned!vars
  BY <1>3 DEF vars, Owned!vars, qpc, qtgt, qb, qt, qtask, Acting
<1>4. CASE Start \/ StartThread \/ Stop \/ Join
  BY <1>3, <1>4 DEF Start, StartThread, Stop, Join
<1>5. ASSUME NEW w \in Workers, WorkerStep(w) PROVE [Owned!Next]_Owned!vars
  <2>1. wpc[w] # "off" /\ cpc' = cpc
    BY <1>5 DEF WorkerStep, WorkerCheck, WorkerPop, WorkerQueueStep, WorkerGotPop, WorkerSteal,
       WorkerGotSteal, WorkerRun, WorkerDelete, schedVars
  <2>2. pc[Client] = "idle" /\ pc'[Client] = "idle"
    BY <1>0, <2>1 DEF ClientPhase
  <2>3. ShowsWorkers /\ ShowsWorkers'
    BY <2>2, ViewOfWorkers
  <2>4. /\ PopCall(w, w) => Owned!PopCall(w, w)
        /\ \A v \in Workers : StealCall(w, v) => Owned!StealCall(w, v)
        /\ TakeResult(w) => Owned!TakeResult(w)
        /\ PopStep(w) => Owned!PopStep(w)
        /\ StealStep(w) => Owned!StealStep(w)
    BY <1>0, <2>3, WorkerStepsOwned
  <2>5. CASE WorkerCheck(w) \/ WorkerRun(w) \/ WorkerDelete(w)
    BY <1>3, <2>5 DEF WorkerCheck, WorkerRun, WorkerDelete
  <2>6. CASE WorkerPop(w)
    BY <2>4, <2>6 DEF WorkerPop, Owned!Next
  <2>7. CASE WorkerQueueStep(w)
    BY <1>a, <2>4, <2>7 DEF WorkerQueueStep, Owned!Next, Owned!QueueStep
  <2>8. CASE WorkerGotPop(w) \/ WorkerGotSteal(w)
    BY <1>a, <2>4, <2>8 DEF WorkerGotPop, WorkerGotSteal, Owned!Next
  <2>9. CASE WorkerSteal(w)
    BY <2>4, <2>9 DEF WorkerSteal, Owned!Next
  <2> QED BY <1>5, <2>5, <2>6, <2>7, <2>8, <2>9 DEF WorkerStep
<1>6. CASE UNCHANGED allVars
  BY <1>3, <1>6 DEF allVars
<1> QED BY <1>1, <1>2, <1>4, <1>5, <1>6 DEF SchedNext, ClientCall, ClientStep

\* The deques start as deques that only owners push into do.
LEMMA StartsOwned == SchedInit => Owned!Init
<1> SUFFICES ASSUME SchedInit PROVE Owned!Init
  OBVIOUS
<1>0. pc[Client] = "idle" /\ Workers \subseteq Threads
  BY WhoIsWho DEF SchedInit, Init
<1>1. ShowsWorkers
  BY <1>0, ViewOfWorkers
<1>2. /\ qpc = [w \in Workers |-> "idle"] /\ qtgt = [w \in Workers |-> AnyDeque]
      /\ qb = [w \in Workers |-> 0] /\ qt = [w \in Workers |-> 0]
      /\ qtask = [w \in Workers |-> Null]
  BY <1>0, <1>1 DEF ShowsWorkers, SchedInit, Init
<1>3. Owned!Threads = Workers
  BY OwnedAssumptions
<1> QED BY <1>2, <1>3 DEF Owned!Init, SchedInit, Init, AnyDeque, Owned!AnyDeque

\* A scheduler whose client spawns only while the pool is stopped uses its
\* deques as if only their owners pushed into them.
THEOREM SchedulerUsesDequesAsOwner ==
    ASSUME SpawnsWhenStopped
    PROVE  SchedSpec => Owned!Spec /\ []ControlInv
<1>1. SchedInit => ControlInv /\ Owned!Init
  BY ControlInvInit, StartsOwned
<1>2. ControlInv /\ [SchedNext]_allVars => ControlInv'
  BY ControlInvInductive
<1>3. ControlInv /\ ControlInv' /\ [SchedNext]_allVars => [Owned!Next]_Owned!vars
  BY SchedulerStepsOwned
<1> QED BY <1>1, <1>2, <1>3, PTL DEF SchedSpec, Owned!Spec

\* So the deques' invariant holds in every reachable state of the scheduler.
THEOREM SchedulerKeepsDeques ==
    ASSUME SpawnsWhenStopped
    PROVE  SchedSpec => []Owned!InductiveInvariant
  BY SchedulerUsesDequesAsOwner, OwnedAssumptions, Owned!TaskInvariant, PTL

(***************************************************************************)
(* The Task objects.  A worker carries a task from the moment pop or steal *)
(* returns it until it deletes it.                                         *)
(***************************************************************************)
Carries(w) ==
    CASE wpc[w] \in {"run", "delete"} -> held[w]
      [] wpc[w] \in {"popping", "stealing"} /\ pc[w] = "ret" -> task[w]
      [] OTHER -> Null

\* A carried task is alive and handed out, and nobody else carries it.
CarriedAlive ==
    /\ \A w \in Workers : Carries(w) # Null =>
           Carries(w) \in alive /\ status[Carries(w)] = "returned"
    /\ \A w, v \in Workers : Carries(w) # Null /\ Carries(w) = Carries(v) => w = v

\* The tasks alive are those that have been spawned and not been handed out, and
\* those a worker carries.
AliveAccounted ==
    /\ \A x \in Task : status[x] \in {"offered", "queued", "claimed", "dropped"} => x \in alive
    /\ \A x \in alive : /\ status[x] # "fresh"
                        /\ status[x] = "returned" => \E w \in Workers : Carries(w) = x

\* Only the task in the client's push is offered, and spawn's own task is alive
\* until spawn returns.
SpawnAccounted ==
    /\ \A x \in Task : status[x] = "offered" => pc[Client] \in PushPCs /\ task[Client] = x
    /\ cpc = "spawn" => nextTaskId - 1 \in alive

\* A steal begins without a task.
StealsEmptyHanded == \A w \in Workers : pc[w] = "steal_bottom" => task[w] = Null

TaskInv == CarriedAlive /\ AliveAccounted /\ SpawnAccounted /\ StealsEmptyHanded

\* What a worker carries is a task or nothing.
LEMMA CarriesType ==
    ASSUME ControlInv, NEW w \in Workers
    PROVE  /\ Carries(w) \in Task \cup {Null}
           /\ wpc[w] = "off" => Carries(w) = Null
  BY WhoIsWho DEF ControlInv, TypeInv, SchedTypes, Carries

\* A step that changes no status, no life and nothing that is carried keeps
\* TaskInv if the client stays where it is.
LEMMA TaskInvQuiet ==
    ASSUME TaskInv, status' = status, alive' = alive,
           \A w \in Workers : Carries(w)' = Carries(w),
           \A x \in Task : status[x] = "offered" => pc'[Client] \in PushPCs /\ task'[Client] = x,
           cpc' = "spawn" => cpc = "spawn" /\ nextTaskId' = nextTaskId,
           \A w \in Workers : pc'[w] = "steal_bottom" => task'[w] = Null
    PROVE  TaskInv'
<1>1. CarriedAlive'
  BY DEF TaskInv, CarriedAlive
<1>2. AliveAccounted'
  BY DEF TaskInv, AliveAccounted
<1>3. SpawnAccounted'
  BY DEF TaskInv, SpawnAccounted
<1>4. StealsEmptyHanded'
  BY DEF StealsEmptyHanded
<1> QED BY <1>1, <1>2, <1>3, <1>4 DEF TaskInv

\* The client's steps keep TaskInv.
LEMMA TaskInvUnderClient ==
    ASSUME ControlInv, ControlInv', Owned!InductiveInvariant, TaskInv, ClientCall \/ ClientStep
    PROVE  TaskInv'
<1> USE WhoIsWho
<1>0. /\ TypeInv /\ TypeInv' /\ SchedTypes /\ ClientPhase /\ ClientPhase'
      /\ \A th \in Threads : Clean(th)
      /\ \A w \in Workers : WorkerPhase(w) /\ w \in Threads
      /\ \A w \in Workers : WorkerPhase(w)'
  BY DEF ControlInv
<1>1. CASE Spawn
  <2>1. SUFFICES ASSUME NEW x \in Task, x = nextTaskId, NEW q \in Workers, q = x % NumThreads
                 PROVE  TaskInv'
    BY <1>0, <1>1, SchedulerAssumption DEF Spawn, SchedTypes
  <2>2. /\ PushCall(Client, q, x) /\ cpc = "idle" /\ cpc' = "spawn" /\ UNCHANGED <<wpc, held>>
        /\ alive' = alive \cup {x} /\ nextTaskId' = x + 1 /\ x \in Nat
    BY <1>1, <2>1 DEF Spawn
  <2>3. /\ status[x] = "fresh" /\ status' = [status EXCEPT ![x] = "offered"]
        /\ \A w \in Workers : pc'[w] = pc[w] /\ task'[w] = task[w]
        /\ pc[Client] = "idle" /\ pc'[Client] = "push_top" /\ task'[Client] = x
    <3>1. \A w \in Workers : pc'[w] = pc[w] /\ task'[w] = task[w]
      BY ZenonT(60), <1>0, <2>2, OneThreadMoves
    <3>2. pc[Client] = "idle" /\ pc'[Client] = "push_top" /\ task'[Client] = x
      BY <1>0, <2>2 DEF PushCall, TypeInv, Goto
    <3> QED BY <2>2, <3>1, <3>2 DEF PushCall
  <2>4. /\ \A y \in Task \ {x} : status'[y] = status[y]
        /\ status'[x] = "offered"
    BY <1>0, <2>3 DEF TypeInv
  <2>5. \A w \in Workers : Carries(w)' = Carries(w) /\ Carries(w) # x
    <3>1. \A w \in Workers : Carries(w)' = Carries(w)
      BY <2>2, <2>3 DEF Carries
    <3>2. \A w \in Workers : Carries(w) # x
      BY <2>3 DEF TaskInv, CarriedAlive
    <3> QED BY <3>1, <3>2
  <2>6. \A y \in Task : status[y] # "offered"
    BY <2>3 DEF TaskInv, SpawnAccounted, PushPCs
  <2>7. alive \subseteq Task /\ alive' \subseteq Task
    BY <1>0, <2>2 DEF SchedTypes
  <2>8. CarriedAlive'
    <3>1. ASSUME NEW w \in Workers, Carries(w) # Null
          PROVE  Carries(w) \in alive' /\ status'[Carries(w)] = "returned"
      BY <2>2, <2>4, <2>5, <2>7, <3>1 DEF TaskInv, CarriedAlive
    <3> QED BY <2>5, <3>1 DEF TaskInv, CarriedAlive
  <2>9. AliveAccounted'
    BY SMTT(30), <2>2, <2>4, <2>5, <2>7 DEF TaskInv, AliveAccounted
  <2>10. SpawnAccounted'
    <3>1. nextTaskId' - 1 \in alive'
      BY <2>2
    <3> QED BY <2>3, <2>4, <2>6, <3>1 DEF SpawnAccounted, PushPCs
  <2>11. StealsEmptyHanded'
    BY <2>3 DEF TaskInv, StealsEmptyHanded
  <2> QED BY <2>8, <2>9, <2>10, <2>11 DEF TaskInv
<1>2. CASE SpawnPush
  <2>1. /\ PushStep(Client) /\ cpc = "spawn" /\ UNCHANGED <<wpc, held, cpc, nextTaskId, alive>>
    BY <1>2 DEF SpawnPush, schedVars
  <2>2. \A w \in Workers : pc'[w] = pc[w] /\ task'[w] = task[w]
    BY <1>0, <2>1, OneThreadMoves
  <2>3. \A w \in Workers : Carries(w)' = Carries(w)
    BY <2>1, <2>2 DEF Carries
  <2>4. \A w \in Workers : pc'[w] = "steal_bottom" => task'[w] = Null
    BY <2>2 DEF TaskInv, StealsEmptyHanded
  <2>5. \/ status' = status /\ pc'[Client] \in PushPCs /\ task'[Client] = task[Client]
        \/ \E s \in {"queued", "dropped"} :
              /\ task[Client] \in Task /\ status[task[Client]] = "offered"
              /\ status' = [status EXCEPT ![task[Client]] = s]
    <3>1. task[Client] \in Task /\ status[task[Client]] = "offered"
      <4>1. SUFFICES ASSUME NEW q \in Workers, q = tgt[Client]
                     PROVE  task[Client] \in Task /\ status[task[Client]] = "offered"
        BY <1>0 DEF TypeInv
      <4>2. ShowsClient(q) /\ pc[Client] \in PushPCs
        BY <1>0, <2>1, <4>1, OneThreadMoves, ViewOfClient DEF PushPCs
      <4>3. qpc[q] = pc[Client] /\ qtask[q] = task[Client]
        BY <4>2 DEF ShowsClient, Standing
      <4>4. Owned!Offering(q)
        BY OwnedAssumptions DEF Owned!InductiveInvariant, Owned!DInv
      <4> QED BY <4>2, <4>3, <4>4 DEF Owned!Offering, Owned!PushPCs, PushPCs
    <3> QED BY ZenonT(60), <1>0, <2>1, <3>1 DEF PushStep, PushLoadTop, PushLoadTopIf, PushWrite,
               PushPublish,
               Goto, PushPCs, TypeInv
  <2>6. CASE status' = status /\ pc'[Client] \in PushPCs /\ task'[Client] = task[Client]
    BY <2>1, <2>3, <2>4, <2>6, TaskInvQuiet DEF TaskInv, SpawnAccounted
  <2>7. ASSUME NEW s \in {"queued", "dropped"}, NEW x \in Task, x = task[Client],
               status[x] = "offered", status' = [status EXCEPT ![x] = s]
        PROVE  TaskInv'
    <3>1. /\ \A y \in Task \ {x} : status'[y] = status[y]
          /\ status'[x] = s
      BY <1>0, <2>7 DEF TypeInv
    <3>2. alive \subseteq Task
      BY <1>0 DEF SchedTypes
    <3>3. CarriedAlive'
      <4>1. ASSUME NEW w \in Workers, Carries(w) # Null
            PROVE  Carries(w) \in alive /\ status'[Carries(w)] = "returned"
        BY <2>7, <3>1, <3>2, <4>1 DEF TaskInv, CarriedAlive
      <4> QED BY <2>1, <2>3, <4>1 DEF TaskInv, CarriedAlive
    <3>4. AliveAccounted'
      BY <2>1, <2>3, <2>7, <3>1, <3>2 DEF TaskInv, AliveAccounted
    <3>5. SpawnAccounted'
      <4>1. \A y \in Task : status'[y] # "offered"
        BY <2>7, <3>1 DEF TaskInv, SpawnAccounted
      <4> QED BY <2>1, <4>1 DEF TaskInv, SpawnAccounted
    <3>6. StealsEmptyHanded'
      BY <2>4 DEF StealsEmptyHanded
    <3> QED BY <3>3, <3>4, <3>5, <3>6 DEF TaskInv
  <2> QED BY <2>5, <2>6, <2>7
<1>3. CASE SpawnReturn
  <2>1. /\ TakeResult(Client) /\ cpc' = "idle" /\ UNCHANGED <<wpc, held, nextTaskId, alive>>
    BY <1>3 DEF SpawnReturn
  <2>2. status' = status /\ pc[Client] = "ret"
    BY <2>1 DEF TakeResult
  <2>3. \A w \in Workers : pc'[w] = pc[w] /\ task'[w] = task[w]
    BY <1>0, <2>1, OneThreadMoves
  <2>4. \A w \in Workers : Carries(w)' = Carries(w)
    BY <2>1, <2>3 DEF Carries
  <2>5. \A w \in Workers : pc'[w] = "steal_bottom" => task'[w] = Null
    BY <2>3 DEF TaskInv, StealsEmptyHanded
  <2>6. \A x \in Task : status[x] # "offered"
    BY <2>2 DEF TaskInv, SpawnAccounted, PushPCs
  <2> QED BY <2>1, <2>2, <2>4, <2>5, <2>6, TaskInvQuiet
<1>4. CASE Start \/ StartThread \/ Stop \/ Join
  <2>1. UNCHANGED <<vars, alive, held, nextTaskId>> /\ cpc' # "spawn"
    BY <1>4 DEF Start, StartThread, Stop, Join
  <2>2. ASSUME NEW w \in Workers PROVE Carries(w)' = Carries(w)
    <3>1. CASE wpc'[w] = wpc[w]
      BY <2>1, <3>1 DEF vars, Carries
    <3>2. CASE wpc'[w] # wpc[w]
      <4>1. wpc[w] \in {"off", "over"} /\ wpc'[w] \in {"off", "check"}
        BY <1>0, <1>4, <3>2 DEF Start, StartThread, Stop, Join, SchedTypes, ClientPhase
      <4> QED BY <4>1 DEF Carries
    <3> QED BY <3>1, <3>2
  <2>3. \A x \in Task : status[x] = "offered" => pc'[Client] \in PushPCs /\ task'[Client] = x
    BY <2>1 DEF TaskInv, SpawnAccounted, vars
  <2>4. \A w \in Workers : pc'[w] = "steal_bottom" => task'[w] = Null
    BY <2>1 DEF TaskInv, StealsEmptyHanded, vars
  <2> QED BY <2>1, <2>2, <2>3, <2>4, TaskInvQuiet DEF vars
<1> QED BY <1>1, <1>2, <1>3, <1>4 DEF ClientCall, ClientStep

\* A worker's step inside pop or steal keeps TaskInv.
LEMMA TaskInvUnderQueueStep ==
    ASSUME ControlInv, ControlInv', Owned!InductiveInvariant, TaskInv,
           NEW w \in Workers, WorkerQueueStep(w), pc[Client] = "idle", pc'[Client] = "idle"
    PROVE  TaskInv'
<1> USE WhoIsWho
<1>0. /\ TypeInv /\ SchedTypes /\ \A th \in Threads : Clean(th)
      /\ WorkerPhase(w) /\ w \in Threads /\ TypeInv'
  BY DEF ControlInv
<1>1. /\ PopStep(w) \/ StealStep(w)
      /\ wpc[w] \in {"popping", "stealing"} /\ UNCHANGED <<wpc, held, alive, cpc, nextTaskId>>
  BY DEF WorkerQueueStep, schedVars
<1>2. /\ \A u \in Threads \ {w} : pc'[u] = pc[u] /\ task'[u] = task[u]
      /\ pc[w] # "ret" /\ pc'[w] # "steal_bottom"
  <2>1. \A u \in Threads \ {w} : pc'[u] = pc[u] /\ task'[u] = task[u]
    BY SMTT(30), <1>0, <1>1, OneThreadMoves
  <2>2. pc[w] # "ret" /\ pc'[w] # "steal_bottom"
    BY ZenonT(60), <1>0, <1>1 DEF TypeInv, PopStep, PopStoreBottom, PopLoadTop, PopRead, PopCas,
       PopRestore,
       StealStep, StealLoadBottom, StealRead, StealCas, Return, Goto
  <2> QED BY <2>1, <2>2
<1>3. Carries(w) = Null /\ \A v \in Workers \ {w} : Carries(v)' = Carries(v)
  BY <1>1, <1>2 DEF Carries
<1>4. StealsEmptyHanded'
  BY <1>2 DEF TaskInv, StealsEmptyHanded
<1>5. \A x \in Task : status[x] # "offered"
  BY DEF TaskInv, SpawnAccounted, PushPCs
<1>6. alive \subseteq Task /\ \A v \in Workers : Carries(v) \in Task \cup {Null}
  BY <1>0, CarriesType DEF SchedTypes
<1>7. \/ /\ status' = status
         /\ pc'[w] = "ret" => task'[w] = Null \/ (pc[w] = "steal_bottom" /\ task' = task)
      \/ /\ pc'[w] # "ret"
         /\ \E x \in Task : status[x] = "queued" /\ status' = [status EXCEPT ![x] = "claimed"]
      \/ /\ pc'[w] = "ret" /\ task'[w] \in Task
         /\ status[task'[w]] \in {"queued", "claimed"}
         /\ status' = [status EXCEPT ![task'[w]] = "returned"]
  <2>1. ShowsWorkers /\ ShowsWorkers'
    BY ViewOfWorkers
  <2>2. Owned!PopStep(w) \/ Owned!StealStep(w)
    BY <1>0, <1>1, <2>1, WorkerStepsOwned
  <2>3. \/ /\ status' = status
           /\ qpc'[w] = "ret" => qtask'[w] = Null \/ (qpc[w] = "steal_bottom" /\ qtask' = qtask)
        \/ /\ qpc'[w] # "ret"
           /\ \E x \in Task : Owned!Changes(x, {"queued"}, "claimed")
        \/ /\ qpc'[w] = "ret" /\ qtask'[w] \in Task
           /\ Owned!Changes(qtask'[w], {"queued", "claimed"}, "returned")
    BY <2>2, OwnedAssumptions, Owned!TakeOutcome DEF Owned!InductiveInvariant
  <2>4. qpc'[w] = pc'[w] /\ qpc[w] = pc[w] /\ qtask'[w] = task'[w] /\ qtask[w] = task[w]
    BY <2>1 DEF ShowsWorkers
  <2>5. pc[w] = "steal_bottom" => task' = task
    BY <1>1 DEF PopStep, PopStoreBottom, PopLoadTop, PopRead, PopCas, PopRestore, StealStep,
       StealLoadBottom, StealRead, StealCas
  <2> QED BY <2>3, <2>4, <2>5 DEF Owned!Changes
<1>8. CASE /\ status' = status
           /\ pc'[w] = "ret" => task'[w] = Null \/ (pc[w] = "steal_bottom" /\ task' = task)
  <2>1. Carries(w)' = Null
    BY <1>1, <1>8 DEF Carries, TaskInv, StealsEmptyHanded
  <2> QED BY <1>1, <1>3, <1>4, <1>5, <1>8, <2>1, TaskInvQuiet DEF StealsEmptyHanded
<1>9. ASSUME NEW x \in Task, pc'[w] # "ret", status[x] = "queued",
             status' = [status EXCEPT ![x] = "claimed"]
      PROVE  TaskInv'
  <2>1. Carries(w)' = Null
    BY <1>1, <1>9 DEF Carries
  <2>2. \A v \in Workers : Carries(v)' = Carries(v)
    BY <1>3, <2>1
  <2>3. /\ \A y \in Task \ {x} : status'[y] = status[y]
        /\ status'[x] = "claimed"
    BY <1>0, <1>9 DEF TypeInv
  <2>4. CarriedAlive'
    <3>1. ASSUME NEW v \in Workers, Carries(v) # Null
          PROVE  Carries(v) \in alive /\ status'[Carries(v)] = "returned"
      BY <1>6, <1>9, <2>3, <3>1 DEF TaskInv, CarriedAlive
    <3> QED BY <1>1, <2>2, <3>1 DEF TaskInv, CarriedAlive
  <2>5. AliveAccounted'
    BY <1>1, <1>6, <1>9, <2>2, <2>3 DEF TaskInv, AliveAccounted
  <2>6. SpawnAccounted'
    BY <1>1, <1>5, <2>3 DEF TaskInv, SpawnAccounted
  <2> QED BY <1>4, <2>4, <2>5, <2>6 DEF TaskInv
<1>10. ASSUME NEW x \in Task, x = task'[w], pc'[w] = "ret", status[x] \in {"queued", "claimed"},
              status' = [status EXCEPT ![x] = "returned"]
       PROVE  TaskInv'
  <2>1. Carries(w)' = x
    BY <1>1, <1>10 DEF Carries
  <2>2. /\ \A y \in Task \ {x} : status'[y] = status[y]
        /\ status'[x] = "returned"
    BY <1>0, <1>10 DEF TypeInv
  <2>3. x \in alive
    BY <1>10 DEF TaskInv, AliveAccounted
  <2>4. ASSUME NEW v \in Workers, Carries(v) # Null
        PROVE  Carries(v) \in alive /\ status'[Carries(v)] = "returned" /\ Carries(v) # x
    BY <1>6, <1>10, <2>2, <2>4 DEF TaskInv, CarriedAlive
  <2>5. CarriedAlive'
    <3>1. ASSUME NEW v \in Workers, Carries(v)' # Null
          PROVE  Carries(v)' \in alive' /\ status'[Carries(v)'] = "returned"
      BY <1>1, <1>3, <2>1, <2>2, <2>3, <2>4, <3>1
    <3>2. ASSUME NEW v \in Workers, NEW u \in Workers, Carries(v)' # Null, Carries(v)' = Carries(u)'
          PROVE  v = u
      BY <1>3, <2>1, <2>4, <3>2 DEF TaskInv, CarriedAlive
    <3> QED BY <3>1, <3>2 DEF CarriedAlive
  <2>6. AliveAccounted'
    <3>1. ASSUME NEW y \in alive, status'[y] = "returned" PROVE \E v \in Workers : Carries(v)' = y
      <4>1. CASE y = x
        BY <2>1, <4>1
      <4>2. CASE y # x
        <5>1. PICK v \in Workers : Carries(v) = y
          BY <1>6, <2>2, <3>1, <4>2 DEF TaskInv, AliveAccounted
        <5>2. y \in Task
          BY <1>6
        <5>3. v # w
          BY <1>3, <5>1, <5>2
        <5> QED BY <1>3, <5>1, <5>3
      <4> QED BY <4>1, <4>2
    <3> QED BY <1>1, <1>6, <2>2, <3>1 DEF TaskInv, AliveAccounted
  <2>7. SpawnAccounted'
    BY <1>1, <1>5, <2>2 DEF TaskInv, SpawnAccounted
  <2> QED BY <1>4, <2>5, <2>6, <2>7 DEF TaskInv
<1> QED BY <1>7, <1>8, <1>9, <1>10

\* A worker's steps keep TaskInv.
LEMMA TaskInvUnderWorker ==
    ASSUME ControlInv, ControlInv', Owned!InductiveInvariant, TaskInv,
           NEW w \in Workers, WorkerStep(w)
    PROVE  TaskInv'
<1> USE WhoIsWho
<1>0. /\ TypeInv /\ SchedTypes /\ ClientPhase /\ ClientPhase' /\ \A th \in Threads : Clean(th)
      /\ WorkerPhase(w) /\ WorkerPhase(w)' /\ w \in Threads /\ TypeInv'
  BY DEF ControlInv
<1>1. wpc[w] # "off" /\ UNCHANGED <<cpc, nextTaskId>>
  BY DEF WorkerStep, WorkerCheck, WorkerPop, WorkerQueueStep, WorkerGotPop, WorkerSteal,
     WorkerGotSteal, WorkerRun, WorkerDelete, schedVars
<1>2. pc[Client] = "idle" /\ pc'[Client] = "idle" /\ cpc # "spawn"
  BY <1>0, <1>1 DEF ClientPhase
<1>3. \A x \in Task : status[x] # "offered"
  BY <1>2 DEF TaskInv, SpawnAccounted, PushPCs
<1>4. \A v \in Workers \ {w} : wpc'[v] = wpc[v] /\ held'[v] = held[v]
  BY <1>0 DEF WorkerStep, WorkerCheck, WorkerPop, WorkerQueueStep, WorkerGotPop, WorkerSteal,
     WorkerGotSteal, WorkerRun, WorkerDelete, WGoto, schedVars, SchedTypes
<1>5. ASSUME status' = status, alive' = alive, Carries(w)' = Carries(w),
             \A v \in Workers \ {w} : pc'[v] = pc[v] /\ task'[v] = task[v],
             pc'[w] = "steal_bottom" => task'[w] = Null
      PROVE  TaskInv'
  <2>1. \A v \in Workers : Carries(v)' = Carries(v)
    BY <1>4, <1>5 DEF Carries
  <2>2. \A v \in Workers : pc'[v] = "steal_bottom" => task'[v] = Null
    BY <1>5 DEF TaskInv, StealsEmptyHanded
  <2> QED BY <1>1, <1>2, <1>3, <1>5, <2>1, <2>2, TaskInvQuiet
<1>6. CASE WorkerCheck(w) \/ WorkerRun(w)
  <2>1. UNCHANGED vars /\ alive' = alive
    BY <1>6 DEF WorkerCheck, WorkerRun
  <2>2. Carries(w)' = Carries(w)
    BY <1>0, <1>6, <2>1 DEF WorkerCheck, WorkerRun, WGoto, SchedTypes, Carries, vars
  <2>3. pc'[w] = "steal_bottom" => task'[w] = Null
    BY <2>1 DEF vars, TaskInv, StealsEmptyHanded
  <2> QED BY <1>5, <2>1, <2>2, <2>3 DEF vars
<1>7. CASE WorkerPop(w)
  <2>1. /\ PopCall(w, w) /\ status' = status /\ alive' = alive
        /\ wpc[w] = "pop" /\ wpc'[w] = "popping"
    BY <1>0, <1>7 DEF WorkerPop, WGoto, SchedTypes, PopCall
  <2>2. pc'[w] = "pop_store" /\ \A v \in Workers \ {w} : pc'[v] = pc[v] /\ task'[v] = task[v]
    BY <1>0, <2>1, OneThreadMoves
  <2>3. Carries(w)' = Carries(w)
    BY <2>1, <2>2 DEF Carries
  <2> QED BY <1>5, <2>1, <2>2, <2>3
<1>8. CASE WorkerSteal(w)
  <2>1. /\ (\E v \in Workers : StealCall(w, v)) /\ status' = status /\ alive' = alive
        /\ wpc[w] = "steal" /\ wpc'[w] = "stealing" /\ task'[w] = Null
    BY <1>0, <1>8 DEF WorkerSteal, WGoto, SchedTypes, StealCall, TypeInv
  <2>2. pc'[w] = "steal_bottom" /\ \A v \in Workers \ {w} : pc'[v] = pc[v] /\ task'[v] = task[v]
    BY <1>0, <2>1, OneThreadMoves
  <2>3. Carries(w)' = Carries(w)
    BY <2>1, <2>2 DEF Carries
  <2> QED BY <1>5, <2>1, <2>2, <2>3
<1>9. CASE WorkerGotPop(w) \/ WorkerGotSteal(w)
  <2>1. /\ TakeResult(w) /\ status' = status /\ alive' = alive
        /\ wpc[w] \in {"popping", "stealing"} /\ held'[w] = task[w]
        /\ task[w] # Null => wpc'[w] = "run"
        /\ task[w] = Null => wpc'[w] \in {"steal", "check"}
    <3>1. TakeResult(w) /\ alive' = alive /\ wpc[w] \in {"popping", "stealing"}
      BY <1>9 DEF WorkerGotPop, WorkerGotSteal
    <3>2. held'[w] = task[w]
      BY <1>0, <1>9 DEF WorkerGotPop, WorkerGotSteal, SchedTypes
    <3>3. /\ task[w] # Null => wpc'[w] = "run"
          /\ task[w] = Null => wpc'[w] \in {"steal", "check"}
      <4>1. \A l : WGoto(w, l) => wpc'[w] = l
        BY <1>0 DEF WGoto, SchedTypes
      <4>2. CASE WorkerGotPop(w)
        <5> DEFINE l == CASE task[w] # Null -> "run"
                          [] task[w] = Null /\ NumThreads > 1 -> "steal"
                          [] OTHER          -> "check"
        <5>1. /\ task[w] # Null => l = "run"
              /\ task[w] = Null => l \in {"steal", "check"}
          BY Zenon
        <5>2. WGoto(w, l)
          BY <4>2 DEF WorkerGotPop
        <5> HIDE DEF l
        <5> QED BY <4>1, <5>1, <5>2
      <4>3. CASE WorkerGotSteal(w)
        BY <4>1, <4>3 DEF WorkerGotSteal
      <4> QED BY <1>9, <4>2, <4>3
    <3> QED BY <3>1, <3>2, <3>3 DEF TakeResult
  <2>2. /\ pc[w] = "ret" /\ pc'[w] = "idle"
        /\ \A v \in Workers \ {w} : pc'[v] = pc[v] /\ task'[v] = task[v]
    BY <1>0, <2>1, OneThreadMoves
  <2>3. Carries(w)' = Carries(w)
    BY <2>1, <2>2 DEF Carries
  <2> QED BY <1>5, <2>1, <2>2, <2>3
<1>10. CASE WorkerDelete(w)
  <2>1. /\ UNCHANGED vars /\ wpc[w] = "delete" /\ wpc'[w] = "check"
        /\ alive' = alive \ {held[w]}
    BY <1>0, <1>10 DEF WorkerDelete, WGoto, SchedTypes
  <2> DEFINE x == held[w]
  <2>2. Carries(w) = x /\ Carries(w)' = Null /\ x \in Task /\ x # Null
    BY <1>0, <2>1 DEF Carries, WorkerPhase
  <2>3. \A v \in Workers \ {w} : Carries(v)' = Carries(v)
    BY <1>4, <2>1 DEF Carries, vars
  <2>4. status' = status /\ status[x] = "returned"
    BY <2>1, <2>2 DEF vars, TaskInv, CarriedAlive
  <2>5. alive' = alive \ {x}
    BY <2>1
  <2> HIDE DEF x
  <2>6. \A v \in Workers \ {w} : Carries(v) # x
    BY <2>2 DEF TaskInv, CarriedAlive
  <2>7. CarriedAlive'
    <3>1. ASSUME NEW v \in Workers, Carries(v)' # Null
          PROVE  v # w /\ Carries(v)' = Carries(v) /\ Carries(v) \in alive' /\ status'[Carries(v)] = "returned"
      BY <2>2, <2>3, <2>4, <2>5, <2>6, <3>1 DEF TaskInv, CarriedAlive
    <3>2. ASSUME NEW v \in Workers, NEW u \in Workers, Carries(v)' # Null, Carries(v)' = Carries(u)'
          PROVE  v = u
      BY <3>1, <3>2 DEF TaskInv, CarriedAlive
    <3> QED BY <3>1, <3>2 DEF CarriedAlive
  <2>8. AliveAccounted'
    <3>1. ASSUME NEW y \in alive', status'[y] = "returned" PROVE \E v \in Workers : Carries(v)' = y
      <4>1. PICK v \in Workers : Carries(v) = y
        BY <2>4, <2>5, <3>1 DEF TaskInv, AliveAccounted
      <4>2. v # w
        BY <2>2, <2>5, <3>1, <4>1
      <4> QED BY <2>3, <4>1, <4>2
    <3> QED BY <2>4, <2>5, <3>1 DEF TaskInv, AliveAccounted
  <2>9. SpawnAccounted'
    BY <1>1, <1>2, <1>3, <2>4 DEF SpawnAccounted
  <2>10. StealsEmptyHanded'
    BY <2>1 DEF TaskInv, StealsEmptyHanded, vars
  <2> QED BY <2>7, <2>8, <2>9, <2>10 DEF TaskInv
<1> QED BY <1>2, <1>6, <1>7, <1>8, <1>9, <1>10, TaskInvUnderQueueStep DEF WorkerStep

\* TaskInv is kept by every step, given the invariants of control and deques.
LEMMA TaskInvInductive ==
    ASSUME ControlInv, ControlInv', Owned!InductiveInvariant, TaskInv, [SchedNext]_allVars
    PROVE  TaskInv'
<1>1. CASE UNCHANGED allVars
  <2>1. \A w \in Workers : Carries(w)' = Carries(w)
    BY <1>1 DEF allVars, vars, schedVars, Carries
  <2> QED BY <1>1, <2>1 DEF allVars, vars, schedVars, TaskInv, CarriedAlive, AliveAccounted,
             SpawnAccounted, StealsEmptyHanded
<1> QED BY <1>1, TaskInvUnderClient, TaskInvUnderWorker DEF SchedNext

\* The scheduler starts in TaskInv.
LEMMA TaskInvInit == SchedInit => TaskInv
<1> SUFFICES ASSUME SchedInit PROVE TaskInv
  OBVIOUS
<1>1. \A w \in Workers : Carries(w) = Null
  BY DEF SchedInit, Carries
<1>2. CarriedAlive /\ AliveAccounted
  BY <1>1 DEF SchedInit, Init, CarriedAlive, AliveAccounted
<1>3. SpawnAccounted /\ StealsEmptyHanded
  BY WhoIsWho DEF SchedInit, Init, SpawnAccounted, StealsEmptyHanded
<1> QED BY <1>2, <1>3 DEF TaskInv

\* In every reachable state the control, the deques and the Task objects agree.
THEOREM SchedulerInvariant ==
    ASSUME SpawnsWhenStopped
    PROVE  SchedSpec => [](ControlInv /\ TaskInv /\ Owned!InductiveInvariant)
<1>1. SchedInit => TaskInv
  BY TaskInvInit
<1>2. ControlInv /\ ControlInv' /\ Owned!InductiveInvariant /\ TaskInv /\ [SchedNext]_allVars
        => TaskInv'
  BY TaskInvInductive
<1> QED BY <1>1, <1>2, SchedulerUsesDequesAsOwner, SchedulerKeepsDeques, PTL DEF SchedSpec

\* No worker runs or deletes a Task that has been deleted, and spawn does not read
\* one, with any number of threads stealing from each other.
THEOREM TasksAliveWhenUsed ==
    ASSUME SpawnsWhenStopped
    PROVE  SchedSpec => []NoUseAfterFree
<1>1. ControlInv /\ TaskInv => NoUseAfterFree
  <2> SUFFICES ASSUME ControlInv, TaskInv PROVE NoUseAfterFree
    OBVIOUS
  <2>1. ASSUME NEW w \in Workers, wpc[w] \in {"run", "delete"} PROVE held[w] \in alive
    BY <2>1 DEF ControlInv, WorkerPhase, TaskInv, CarriedAlive, Carries
  <2>2. cpc = "spawn" => nextTaskId - 1 \in alive
    BY DEF TaskInv, SpawnAccounted
  <2> QED BY <2>1, <2>2 DEF NoUseAfterFree
<1> QED BY <1>1, SchedulerInvariant, PTL

\* The scheduler hands no task to two workers.
THEOREM TasksHandedOutOnce ==
    ASSUME SpawnsWhenStopped
    PROVE  SchedSpec => []AtMostOnce
<1>1. Owned!InductiveInvariant => AtMostOnce
  BY DEF Owned!InductiveInvariant, Owned!DInv, Owned!Counted, AtMostOnce
<1> QED BY <1>1, SchedulerInvariant, PTL

\* No thread ever holds a bottom below -1.
LEMMA SchedulerBottoms ==
    ASSUME SpawnsWhenStopped
    PROVE  SchedSpec => []Owned!LocalBottom
<1>1. SchedInit => Owned!LocalBottom
  <2>1. Owned!Init => Owned!LocalBottom
    BY DEF Owned!Init, Owned!LocalBottom
  <2> QED BY <2>1, StartsOwned
<1>2. Owned!InductiveInvariant /\ Owned!LocalBottom /\ ControlInv /\ ControlInv'
        /\ [SchedNext]_allVars => Owned!LocalBottom'
  BY SchedulerStepsOwned, OwnedAssumptions, Owned!LocalBottomInductive DEF Owned!InductiveInvariant
<1> QED BY <1>1, <1>2, SchedulerInvariant, PTL DEF SchedSpec

\* When stop has returned, no worker thread is left and every task that has not
\* run waits in a deque or was refused by a full one; every variable has its type.
THEOREM StopKeepsTasks ==
    ASSUME SpawnsWhenStopped
    PROVE  SchedSpec => []StopLosesNothing
<1>1. ControlInv /\ TaskInv /\ Owned!InductiveInvariant /\ Owned!LocalBottom => StopLosesNothing
  <2> SUFFICES ASSUME ControlInv, TaskInv, Owned!InductiveInvariant, Owned!LocalBottom
               PROVE  StopLosesNothing
    OBVIOUS
  <2> USE WhoIsWho
  <2>0. TypeInv /\ SchedTypes /\ ClientPhase /\ \A w \in Workers : WorkerPhase(w)
    BY DEF ControlInv
  <2>1. SchedTypeOK
    <3>1. bottom \in [Workers -> Nat \cup {-1}]
      <4>1. \A w \in Workers : bottom[w] \in Nat \cup {-1}
        BY OwnedAssumptions, Owned!BottomBound DEF Owned!InductiveInvariant
      <4> QED BY <2>0, <4>1 DEF TypeInv
    <3>2. b \in [Threads -> Nat \cup {-1}]
      <4>1. \A th \in Threads : b[th] \in Nat \cup {-1}
        <5>1. \A w \in Workers : qb[w] \in Nat \cup {-1}
          BY OwnedAssumptions DEF Owned!LocalBottom
        <5>2. CASE pc[Client] = "idle"
          <6>1. \A w \in Workers : qb[w] = b[w]
            BY <5>2, ViewOfWorkers DEF ShowsWorkers
          <6>2. b[Client] = 0
            BY <5>2 DEF ControlInv, Clean
          <6> QED BY <5>1, <6>1, <6>2
        <5>3. CASE pc[Client] # "idle"
          <6>1. SUFFICES ASSUME NEW q \in Workers, q = tgt[Client]
                         PROVE  \A th \in Threads : b[th] \in Nat \cup {-1}
            BY <2>0 DEF TypeInv
          <6>2. ShowsClient(q)
            BY <5>3, <6>1, ViewOfClient
          <6>3. qb[q] = b[Client] /\ \A w \in Workers \ {q} : qb[w] = b[w]
            BY <6>2 DEF ShowsClient, Standing
          <6>4. pc[q] = "idle"
            BY <2>0, <5>3 DEF ClientPhase, WorkerPhase
          <6>5. b[q] = 0
            BY <6>4 DEF ControlInv, Clean
          <6> QED BY <5>1, <6>3, <6>5
        <5> QED BY <5>2, <5>3
      <4> QED BY <2>0, <4>1 DEF TypeInv
    <3>3. TypeOK
      BY <2>0, <3>1, <3>2 DEF TypeInv, TypeOK
    <3> QED BY <2>0, <3>3 DEF SchedTypes, SchedTypeOK
  <2>2. ASSUME cpc = "idle", ~running
        PROVE  /\ \A w \in Workers : wpc[w] = "off"
               /\ \A x \in alive : status[x] \in {"queued", "dropped"}
    <3>1. \A w \in Workers : wpc[w] = "off" /\ pc[w] = "idle"
      BY <2>0, <2>2 DEF ClientPhase, WorkerPhase
    <3>2. pc[Client] = "idle"
      BY <2>0, <2>2 DEF ClientPhase
    <3>3. ASSUME NEW x \in alive PROVE status[x] \in {"queued", "dropped"}
      <4>1. x \in Task /\ status[x] \in Status /\ status[x] # "fresh"
        BY <2>0 DEF SchedTypes, TypeInv, TaskInv, AliveAccounted
      <4>2. status[x] # "returned"
        BY <3>1, <4>1, CarriesType DEF TaskInv, AliveAccounted
      <4>3. status[x] # "offered"
        BY <3>2, <4>1 DEF TaskInv, SpawnAccounted, PushPCs
      <4>4. status[x] # "claimed"
        <5>1. \A w \in Workers : qpc[w] = "idle"
          BY <3>1, <3>2, ViewOfWorkers DEF ShowsWorkers
        <5>2. \A w \in Workers : Owned!Claim(w) = Null
          BY <5>1 DEF Owned!Claim
        <5> QED BY <4>1, <5>2, OwnedAssumptions DEF Owned!InductiveInvariant, Owned!DInv, Owned!NoTaskLost
      <4> QED BY <4>1, <4>2, <4>3, <4>4 DEF Status
    <3> QED BY <3>1, <3>3
  <2> QED BY <2>1, <2>2 DEF StopLosesNothing
<1> QED BY <1>1, SchedulerInvariant, SchedulerBottoms, PTL

=============================================================================
