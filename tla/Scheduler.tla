------------------------------ MODULE Scheduler ------------------------------
(***************************************************************************)
(* The task scheduler (src/src/runtime/sched): a client thread spawns      *)
(* tasks and starts and stops the pool; every worker thread runs           *)
(* workerLoop, which pops from the worker's deque, steals from another     *)
(* worker's when that is empty, runs what it got and deletes it.           *)
(*                                                                         *)
(* The deques are those of LockFreeTaskQueue, step by step.  Workers are   *)
(* 0 .. NumThreads - 1 and a task is its id, as spawn numbers them from 1. *)
(* The scheduler places no rule on when spawn may be called:               *)
(* SpawnWhileRunning says whether the client does so while workers run.    *)
(***************************************************************************)
EXTENDS LockFreeTaskQueue

CONSTANTS
    NumThreads,         \* numThreads
    MaxTasks,           \* bound: how many tasks the client spawns
    Client,             \* the thread that uses the scheduler
    SpawnWhileRunning   \* may it spawn between start and stop?

ASSUME SchedulerAssumption ==
    /\ NumThreads \in Nat \ {0}
    /\ MaxTasks \in Nat
    /\ Workers = 0 .. NumThreads - 1
    /\ Spawners = {Client}
    /\ Task = 1 .. MaxTasks
    /\ Null = 0
    /\ MayPush = {Client} \X Workers
    /\ SpawnWhileRunning \in BOOLEAN

VARIABLES
    running,       \* the flag the workers poll
    nextTaskId,
    alive,         \* Task objects allocated and not yet deleted
    wpc,           \* where each worker thread is in workerLoop
    held,          \* the worker's local variable task
    cpc,           \* what the client is doing
    created        \* how many worker threads start has created

schedVars == <<running, nextTaskId, alive, wpc, held, cpc, created>>
allVars == <<vars, schedVars>>

WorkerPCs == {"off", "check", "pop", "popping", "steal", "stealing",
              "run", "delete", "over"}
ClientPCs == {"idle", "spawn", "start", "join"}

\* Every variable has its type, those of the deques included.
SchedTypeOK ==
    /\ TypeOK
    /\ running \in BOOLEAN
    /\ nextTaskId \in 1 .. MaxTasks + 1
    /\ alive \subseteq Task
    /\ wpc \in [Workers -> WorkerPCs]
    /\ held \in [Workers -> Task \cup {Null}]
    /\ cpc \in ClientPCs
    /\ created \in 0 .. NumThreads

SchedInit ==
    /\ Init
    /\ running = FALSE
    /\ nextTaskId = 1
    /\ alive = {}
    /\ wpc = [w \in Workers |-> "off"]
    /\ held = [w \in Workers |-> Null]
    /\ cpc = "idle"
    /\ created = 0

(***************************************************************************)
(* The client: spawn, start, stop.                                         *)
(***************************************************************************)
Spawn ==                        \* new Task(nextTaskId++); the push begins
    /\ cpc = "idle"
    /\ SpawnWhileRunning \/ ~running
    /\ nextTaskId <= MaxTasks
    /\ nextTaskId' = nextTaskId + 1
    /\ alive' = alive \cup {nextTaskId}
    /\ PushCall(Client, nextTaskId % NumThreads, nextTaskId)
    /\ cpc' = "spawn"
    /\ UNCHANGED <<running, wpc, held, created>>

SpawnPush ==
    /\ cpc = "spawn"
    /\ PushStep(Client)
    /\ UNCHANGED schedVars

SpawnReturn ==                  \* return task->id
    /\ cpc = "spawn"
    /\ TakeResult(Client)
    /\ cpc' = "idle"
    /\ UNCHANGED <<running, nextTaskId, alive, wpc, held, created>>

\* The code does not check the flag: a client that starts a running pool would
\* give every deque a second owner.  This client starts only a stopped one.
Start ==                        \* running.store(true)
    /\ cpc = "idle"
    /\ ~running
    /\ running' = TRUE
    /\ cpc' = "start"
    /\ UNCHANGED <<vars, nextTaskId, alive, wpc, held, created>>

StartThread ==                  \* workers.emplace_back(workerLoop, i)
    /\ cpc = "start"
    /\ created < NumThreads
    /\ wpc' = [wpc EXCEPT ![created] = "check"]
    /\ created' = created + 1
    /\ cpc' = IF created' = NumThreads THEN "idle" ELSE "start"
    /\ UNCHANGED <<vars, running, nextTaskId, alive, held>>

Stop ==                         \* running.exchange(false)
    /\ cpc = "idle"
    /\ running
    /\ running' = FALSE
    /\ cpc' = "join"
    /\ UNCHANGED <<vars, nextTaskId, alive, wpc, held, created>>

Join ==                         \* join every worker, workers.clear()
    /\ cpc = "join"
    /\ \A w \in Workers : wpc[w] = "over"
    /\ wpc' = [w \in Workers |-> "off"]
    /\ created' = 0
    /\ cpc' = "idle"
    /\ UNCHANGED <<vars, running, nextTaskId, alive, held>>

(***************************************************************************)
(* workerLoop(workerId)                                                    *)
(***************************************************************************)
WGoto(w, label) == wpc' = [wpc EXCEPT ![w] = label]

WorkerCheck_Forever(w) ==       \* mutant: ignores the flag
    /\ wpc[w] = "check"
    /\ WGoto(w, "pop")
    /\ UNCHANGED <<vars, running, nextTaskId, alive, held, cpc, created>>

WorkerCheck(w) ==               \* while (running.load())
    /\ wpc[w] = "check"
    /\ WGoto(w, IF running THEN "pop" ELSE "over")
    /\ UNCHANGED <<vars, running, nextTaskId, alive, held, cpc, created>>

WorkerPop(w) ==                 \* myQueue->pop()
    /\ wpc[w] = "pop"
    /\ PopCall(w, w)
    /\ WGoto(w, "popping")
    /\ UNCHANGED <<running, nextTaskId, alive, held, cpc, created>>

WorkerQueueStep(w) ==
    /\ wpc[w] \in {"popping", "stealing"}
    /\ PopStep(w) \/ StealStep(w)
    /\ UNCHANGED schedVars

\* stealTask returns at once when there is no other worker; a failed round
\* ends in std::this_thread::yield().
WorkerGotPop_Forgets(w) ==      \* mutant: drops what pop returned on stop
    /\ wpc[w] = "popping"
    /\ TakeResult(w)
    /\ held' = [held EXCEPT ![w] = task[w]]
    /\ WGoto(w, IF task[w] # Null /\ running THEN "run" ELSE "check")
    /\ UNCHANGED <<running, nextTaskId, alive, cpc, created>>

WorkerGotPop(w) ==
    /\ wpc[w] = "popping"
    /\ TakeResult(w)
    /\ held' = [held EXCEPT ![w] = task[w]]
    /\ WGoto(w, CASE task[w] # Null -> "run"
                  [] task[w] = Null /\ NumThreads > 1 -> "steal"
                  [] OTHER          -> "check")
    /\ UNCHANGED <<running, nextTaskId, alive, cpc, created>>

WorkerSteal(w) ==               \* a random other worker's queue
    /\ wpc[w] = "steal"
    /\ \E v \in Workers \ {w} : StealCall(w, v)
    /\ WGoto(w, "stealing")
    /\ UNCHANGED <<running, nextTaskId, alive, held, cpc, created>>

WorkerGotSteal(w) ==
    /\ wpc[w] = "stealing"
    /\ TakeResult(w)
    /\ held' = [held EXCEPT ![w] = task[w]]
    /\ WGoto(w, IF task[w] # Null THEN "run" ELSE "check")
    /\ UNCHANGED <<running, nextTaskId, alive, cpc, created>>

WorkerRun_AfterDelete(w) ==     \* mutant: deletes before it runs
    /\ wpc[w] = "run"
    /\ alive' = alive \ {held[w]}
    /\ WGoto(w, "delete")
    /\ UNCHANGED <<vars, running, nextTaskId, held, cpc, created>>

WorkerRun(w) ==                 \* task->entryFunc(task->argument)
    /\ wpc[w] = "run"
    /\ WGoto(w, "delete")
    /\ UNCHANGED <<vars, running, nextTaskId, alive, held, cpc, created>>

WorkerDelete(w) ==              \* task->state = Dead; delete task
    /\ wpc[w] = "delete"
    /\ alive' = alive \ {held[w]}
    /\ held' = [held EXCEPT ![w] = Null]
    /\ WGoto(w, "check")
    /\ UNCHANGED <<vars, running, nextTaskId, cpc, created>>

ClientStep == SpawnPush \/ SpawnReturn \/ StartThread \/ Join
ClientCall == Spawn \/ Start \/ Stop
WorkerStep(w) ==
    \/ WorkerCheck(w) \/ WorkerPop(w) \/ WorkerQueueStep(w) \/ WorkerGotPop(w)
    \/ WorkerSteal(w) \/ WorkerGotSteal(w) \/ WorkerRun(w) \/ WorkerDelete(w)

SchedNext == ClientCall \/ ClientStep \/ \E w \in Workers : WorkerStep(w)

SchedSpec == SchedInit /\ [][SchedNext]_allVars

\* A thread that can take a step eventually does: the operating system
\* schedules every thread, and no operation of the deques blocks.  Whether the
\* client calls spawn, start or stop is its own choice.
Fairness ==
    /\ WF_allVars(ClientStep)
    /\ \A w \in Workers : WF_allVars(WorkerStep(w))

FairSpec == SchedSpec /\ Fairness

(***************************************************************************)
(* Properties.                                                             *)
(***************************************************************************)

\* Nobody touches a Task that has been deleted: neither the worker that runs
\* it (workerLoop writes task->state and calls task->entryFunc) nor spawn,
\* which reads task->id after push has published the task.
NoUseAfterFree ==
    /\ \A w \in Workers : wpc[w] \in {"run", "delete"} => held[w] \in alive
    /\ cpc = "spawn" => nextTaskId - 1 \in alive

\* When stop has returned no worker thread is left, and every task that has
\* not run is still in a deque, from where the next start would run it: no
\* worker leaves its loop with a task in hand.  The variables keep their types
\* meanwhile.
StopLosesNothing ==
    /\ SchedTypeOK
    /\ cpc = "idle" /\ ~running =>
        /\ \A w \in Workers : wpc[w] = "off"
        /\ \A x \in alive : status[x] \in {"queued", "dropped"}

\* A task in a deque is eventually run and deleted, unless the pool stops.
TasksRun ==
    \A x \in Task :
        status[x] = "queued" /\ running ~> x \notin alive \/ ~running

\* spawn, start and stop return: in particular every worker notices that
\* running was cleared, whatever it was doing, and can be joined.
CallsReturn == cpc # "idle" ~> cpc = "idle"

=============================================================================
