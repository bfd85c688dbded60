-------------------------- MODULE LockFreeTaskQueue --------------------------
(***************************************************************************)
(* The work-stealing deques of the runtime's thread pool                   *)
(* (src/src/runtime/sched/LockFreeQueue.hpp): one bounded Chase-Lev deque  *)
(* per worker, in which push and pop work at "bottom" and steal at "top".  *)
(*                                                                         *)
(* Every step is one access to memory that threads share: a load or store  *)
(* of top or bottom, a read or write of a buffer slot, or one              *)
(* compare-exchange.  Memory is sequentially consistent; the code orders   *)
(* the accesses this depends on with fences (push line 31, pop line 39,    *)
(* steal line 64).                                                         *)
(*                                                                         *)
(* The module describes the three operations and, as Spec, the most        *)
(* general client that calls them.  MayPush says which threads push into   *)
(* which deque: the algorithm is written for a deque that only its owner   *)
(* pushes into, and Scheduler.tla says what the scheduler does instead.    *)
(***************************************************************************)
EXTENDS Integers, FiniteSets

CONSTANTS
    Workers,     \* worker ids; worker w owns deque w
    Spawners,    \* threads that are no workers
    Task,        \* the Task* pointers in play
    Null,        \* nullptr
    Capacity,    \* buffer.size()
    MayPush      \* the pairs <<thread, deque>> such that the thread pushes there

Threads == Workers \cup Spawners

ASSUME CapacityAssumption == Capacity \in Nat \ {0}
ASSUME NullAssumption     == Null \notin Task
ASSUME ThreadsAssumption  == Workers # {} /\ Workers \cap Spawners = {}
ASSUME PushAssumption     == MayPush \subseteq Threads \X Workers

VARIABLES
    top, bottom, buffer,   \* the deques: atomics and slots, by worker
    pc,                    \* where each thread is inside an operation
    tgt,                   \* the deque the thread's operation works on
    b, t, task,            \* the operation's local variables
    status,                \* history: what has become of each task
    returned               \* history: how often each task was handed out

queueVars == <<top, bottom, buffer>>
localVars == <<pc, tgt, b, t, task>>
vars == <<top, bottom, buffer, pc, tgt, b, t, task, status, returned>>

PushPCs  == {"push_top", "push_write", "push_publish"}
PopPCs   == {"pop_store", "pop_top", "pop_read", "pop_cas", "pop_restore"}
StealPCs == {"steal_bottom", "steal_read", "steal_cas"}
Status   == {"fresh", "offered", "queued", "claimed", "returned", "dropped"}

Slot(i) == i % Capacity
AnyDeque == CHOOSE w \in Workers : TRUE    \* what tgt is outside the operations

\* Every variable has its type; in particular bottom, which pop lowers before
\* it knows whether there is anything to pop, never falls below -1.
TypeOK ==
    /\ top \in [Workers -> Nat]
    /\ bottom \in [Workers -> Nat \cup {-1}]
    /\ buffer \in [Workers -> [0 .. Capacity - 1 -> Task \cup {Null}]]
    /\ pc \in [Threads -> PushPCs \cup PopPCs \cup StealPCs \cup {"idle", "ret"}]
    /\ tgt \in [Threads -> Workers]
    /\ b \in [Threads -> Nat \cup {-1}]
    /\ t \in [Threads -> Nat]
    /\ task \in [Threads -> Task \cup {Null}]
    /\ status \in [Task -> Status]
    /\ returned \in [Task -> Nat]

Init ==
    /\ top = [w \in Workers |-> 0]
    /\ bottom = [w \in Workers |-> 0]
    /\ buffer = [w \in Workers |-> [i \in 0 .. Capacity - 1 |-> Null]]
    /\ pc = [th \in Threads |-> "idle"]
    /\ tgt = [th \in Threads |-> AnyDeque]
    /\ b = [th \in Threads |-> 0]
    /\ t = [th \in Threads |-> 0]
    /\ task = [th \in Threads |-> Null]
    /\ status = [x \in Task |-> "fresh"]
    /\ returned = [x \in Task |-> 0]

(***************************************************************************)
(* Leaving an operation with result x; a task handed out is counted.       *)
(***************************************************************************)
Goto(th, label) == pc' = [pc EXCEPT ![th] = label]

Return(th, x) ==
    /\ Goto(th, "ret")
    /\ task' = [task EXCEPT ![th] = x]
    /\ IF x = Null
         THEN UNCHANGED <<status, returned>>
         ELSE /\ status' = [status EXCEPT ![x] = "returned"]
              /\ returned' = [returned EXCEPT ![x] = @ + 1]

(***************************************************************************)
(* push(task)                                                              *)
(***************************************************************************)
PushCall(th, q, x) ==                       \* b = bottom.load()
    /\ pc[th] = "idle"
    /\ status[x] = "fresh"
    /\ Goto(th, "push_top")
    /\ tgt' = [tgt EXCEPT ![th] = q]
    /\ b' = [b EXCEPT ![th] = bottom[q]]
    /\ task' = [task EXCEPT ![th] = x]
    /\ status' = [status EXCEPT ![x] = "offered"]
    /\ UNCHANGED <<queueVars, t, returned>>

PushLoadTopIf(th, full) ==
    /\ pc[th] = "push_top"
    /\ t' = [t EXCEPT ![th] = top[tgt[th]]]
    /\ IF full
         THEN /\ Goto(th, "ret")
              /\ task' = [task EXCEPT ![th] = Null]
              /\ status' = [status EXCEPT ![task[th]] = "dropped"]
         ELSE /\ Goto(th, "push_write")
              /\ UNCHANGED <<task, status>>
    /\ UNCHANGED <<queueVars, tgt, b, returned>>

PushLoadTop_OneTooMany(th) == PushLoadTopIf(th, b[th] - top[tgt[th]] > Capacity)
PushLoadTop_OneTooFew(th)  == PushLoadTopIf(th, b[th] - top[tgt[th]] >= Capacity - 1)

PushLoadTop(th) ==                          \* t = top.load(); return when full
    PushLoadTopIf(th, b[th] - top[tgt[th]] >= Capacity)

PushWrite(th) ==                            \* buffer[b % size] = task
    /\ pc[th] = "push_write"
    /\ buffer' = [buffer EXCEPT ![tgt[th]][Slot(b[th])] = task[th]]
    /\ Goto(th, "push_publish")
    /\ UNCHANGED <<top, bottom, tgt, b, t, task, status, returned>>

PushPublish(th) ==                          \* bottom.store(b + 1)
    /\ pc[th] = "push_publish"
    /\ bottom' = [bottom EXCEPT ![tgt[th]] = b[th] + 1]
    /\ status' = [status EXCEPT ![task[th]] = "queued"]
    /\ Goto(th, "ret")
    /\ task' = [task EXCEPT ![th] = Null]
    /\ UNCHANGED <<top, buffer, tgt, b, t, returned>>

(***************************************************************************)
(* pop()                                                                   *)
(***************************************************************************)
PopCall(th, q) ==                           \* b = bottom.load() - 1
    /\ pc[th] = "idle"
    /\ Goto(th, "pop_store")
    /\ tgt' = [tgt EXCEPT ![th] = q]
    /\ b' = [b EXCEPT ![th] = bottom[q] - 1]
    /\ task' = [task EXCEPT ![th] = Null]
    /\ UNCHANGED <<queueVars, t, status, returned>>

PopStoreBottom(th) ==                       \* bottom.store(b); fence
    /\ pc[th] = "pop_store"
    /\ bottom' = [bottom EXCEPT ![tgt[th]] = b[th]]
    /\ Goto(th, "pop_top")
    /\ UNCHANGED <<top, buffer, tgt, b, t, task, status, returned>>

\* With t < b no thief can reach position b any more: the task there is the
\* caller's, although it is only read in the next step.
PopLoadTop_Strict(th) ==                    \* mutant: if (t < b)
    /\ pc[th] = "pop_top"
    /\ LET tt == top[tgt[th]]
           x  == buffer[tgt[th]][Slot(b[th])]
       IN  /\ t' = [t EXCEPT ![th] = tt]
           /\ Goto(th, IF tt < b[th] THEN "pop_read" ELSE "pop_restore")
           /\ IF tt < b[th] /\ x # Null
                THEN status' = [status EXCEPT ![x] = "claimed"]
                ELSE UNCHANGED status
    /\ UNCHANGED <<queueVars, tgt, b, task, returned>>

PopLoadTop(th) ==                           \* t = top.load(); if (t <= b)
    /\ pc[th] = "pop_top"
    /\ LET tt == top[tgt[th]]
           x  == buffer[tgt[th]][Slot(b[th])]
       IN  /\ t' = [t EXCEPT ![th] = tt]
           /\ Goto(th, IF tt <= b[th] THEN "pop_read" ELSE "pop_restore")
           /\ IF tt < b[th] /\ x # Null
                THEN status' = [status EXCEPT ![x] = "claimed"]
                ELSE UNCHANGED status
    /\ UNCHANGED <<queueVars, tgt, b, task, returned>>

PopRead(th) ==                              \* task = buffer[b % size]
    /\ pc[th] = "pop_read"
    /\ LET x == buffer[tgt[th]][Slot(b[th])]
       IN  IF t[th] = b[th]
             THEN /\ Goto(th, "pop_cas")
                  /\ task' = [task EXCEPT ![th] = x]
                  /\ UNCHANGED <<status, returned>>
             ELSE Return(th, x)
    /\ UNCHANGED <<queueVars, tgt, b, t>>

PopCas(th) ==                               \* top.compare_exchange(t, t + 1)
    /\ pc[th] = "pop_cas"
    /\ Goto(th, "pop_restore")
    /\ IF top[tgt[th]] = t[th]
         THEN /\ top' = [top EXCEPT ![tgt[th]] = t[th] + 1]
              /\ UNCHANGED task
              /\ IF task[th] # Null
                   THEN status' = [status EXCEPT ![task[th]] = "claimed"]
                   ELSE UNCHANGED status
         ELSE /\ task' = [task EXCEPT ![th] = Null]
              /\ UNCHANGED <<top, status>>
    /\ UNCHANGED <<bottom, buffer, tgt, b, t, returned>>

PopRestore_Missing(th) ==                   \* mutant: bottom stays lowered
    /\ pc[th] = "pop_restore"
    /\ Return(th, task[th])
    /\ UNCHANGED <<top, bottom, buffer, tgt, b, t>>

PopRestore(th) ==                           \* bottom.store(b + 1); return task
    /\ pc[th] = "pop_restore"
    /\ bottom' = [bottom EXCEPT ![tgt[th]] = b[th] + 1]
    /\ Return(th, task[th])
    /\ UNCHANGED <<top, buffer, tgt, b, t>>

(***************************************************************************)
(* steal()                                                                 *)
(***************************************************************************)
StealCall(th, q) ==                         \* t = top.load(); fence
    /\ pc[th] = "idle"
    /\ Goto(th, "steal_bottom")
    /\ tgt' = [tgt EXCEPT ![th] = q]
    /\ t' = [t EXCEPT ![th] = top[q]]
    /\ task' = [task EXCEPT ![th] = Null]
    /\ UNCHANGED <<queueVars, b, status, returned>>

StealLoadBottom(th) ==                      \* b = bottom.load(); if (t < b)
    /\ pc[th] = "steal_bottom"
    /\ b' = [b EXCEPT ![th] = bottom[tgt[th]]]
    /\ Goto(th, IF t[th] < bottom[tgt[th]] THEN "steal_read" ELSE "ret")
    /\ UNCHANGED <<queueVars, tgt, t, task, status, returned>>

StealRead_AtBottom(th) ==                   \* mutant: takes the wrong end
    /\ pc[th] = "steal_read"
    /\ task' = [task EXCEPT ![th] = buffer[tgt[th]][Slot(b[th] - 1)]]
    /\ Goto(th, "steal_cas")
    /\ UNCHANGED <<queueVars, tgt, b, t, status, returned>>

StealRead(th) ==                            \* task = buffer[t % size]
    /\ pc[th] = "steal_read"
    /\ task' = [task EXCEPT ![th] = buffer[tgt[th]][Slot(t[th])]]
    /\ Goto(th, "steal_cas")
    /\ UNCHANGED <<queueVars, tgt, b, t, status, returned>>

StealCas_Unchecked(th) ==                   \* mutant: top.store(t + 1)
    /\ pc[th] = "steal_cas"
    /\ top' = [top EXCEPT ![tgt[th]] = t[th] + 1]
    /\ Return(th, task[th])
    /\ UNCHANGED <<bottom, buffer, tgt, b, t>>

StealCas(th) ==                             \* top.compare_exchange(t, t + 1)
    /\ pc[th] = "steal_cas"
    /\ IF top[tgt[th]] = t[th]
         THEN /\ top' = [top EXCEPT ![tgt[th]] = t[th] + 1]
              /\ Return(th, task[th])
         ELSE /\ Return(th, Null)
              /\ UNCHANGED top
    /\ UNCHANGED <<bottom, buffer, tgt, b, t>>

(***************************************************************************)
(* The operation a thread is in takes its next step; the client takes the  *)
(* result.                                                                 *)
(***************************************************************************)
PushStep(th)  == PushLoadTop(th) \/ PushWrite(th) \/ PushPublish(th)
PopStep(th)   == \/ PopStoreBottom(th) \/ PopLoadTop(th) \/ PopRead(th)
                 \/ PopCas(th) \/ PopRestore(th)
StealStep(th) == StealLoadBottom(th) \/ StealRead(th) \/ StealCas(th)
QueueStep(th) == PushStep(th) \/ PopStep(th) \/ StealStep(th)

\* The call is over: its local variables are gone.
TakeResult(th) ==
    /\ pc[th] = "ret"
    /\ Goto(th, "idle")
    /\ tgt' = [tgt EXCEPT ![th] = AnyDeque]
    /\ b' = [b EXCEPT ![th] = 0]
    /\ t' = [t EXCEPT ![th] = 0]
    /\ task' = [task EXCEPT ![th] = Null]
    /\ UNCHANGED <<queueVars, status, returned>>

Next ==
    \/ \E p \in MayPush, x \in Task : PushCall(p[1], p[2], x)
    \/ \E w \in Workers : PopCall(w, w)
    \/ \E w \in Workers : \E q \in Workers \ {w} : StealCall(w, q)
    \/ \E th \in Threads : QueueStep(th) \/ TakeResult(th)

Spec == Init /\ [][Next]_vars

(***************************************************************************)
(* What is in a deque.  While its owner is inside pop, bottom is already   *)
(* lowered but the last position is still contested: Hi(q) is the end of   *)
(* the positions a thread could still obtain.                              *)
(***************************************************************************)
Contested(th) ==
    \/ pc[th] \in {"pop_top", "pop_cas", "pop_restore"}
    \/ pc[th] = "pop_read" /\ t[th] = b[th]

Hi(q) == IF Contested(q) /\ tgt[q] = q THEN bottom[q] + 1 ELSE bottom[q]

Live(q) == top[q] .. Hi(q) - 1

\* The task a thread has won but not yet returned, or Null.
Claim(th) ==
    CASE pc[th] = "pop_read" /\ t[th] < b[th] -> buffer[tgt[th]][Slot(b[th])]
      [] pc[th] = "pop_restore"               -> task[th]
      [] OTHER                                -> Null

(***************************************************************************)
(* Properties.                                                             *)
(***************************************************************************)

\* No task is handed out twice: the worker that receives a task runs and
\* deletes it (Scheduler.cpp:166-172), so a second receipt would run freed
\* memory.
AtMostOnce == \A x \in Task : returned[x] <= 1

\* No task that push accepted is lost: until it is handed out it sits in a
\* position some thread can still obtain, or a thread has won it.  No slot is
\* overwritten, and no index is skipped, while a task depends on it.
NoTaskLost ==
    \A x \in Task :
        /\ status[x] = "queued" =>
               \E q \in Workers : \E i \in Live(q) : buffer[q][Slot(i)] = x
        /\ status[x] = "claimed" => \E th \in Threads : Claim(th) = x

\* What a deque holds never exceeds its buffer, and top never overtakes it,
\* although push compares against a top that may be stale.
WithinCapacity ==
    \A q \in Workers : top[q] <= Hi(q) /\ Hi(q) <= top[q] + Capacity

\* push drops a task only when the deque was full while the call ran: in the
\* step that drops, the deque holds Capacity tasks.
DropsOnlyWhenFull ==
    [][\A x \in Task :
          status[x] = "offered" /\ status'[x] = "dropped" =>
              \E th \in Threads : /\ task[th] = x
                                  /\ Hi(tgt[th]) - top[tgt[th]] >= Capacity]_vars

\* pop comes back with nothing only when the owner's deque is empty at that
\* instant: a worker that goes stealing leaves no task of its own behind.
PopFailsOnlyWhenEmpty ==
    [][\A w \in Workers :
          pc[w] \in {"pop_top", "pop_cas"} /\ pc'[w] = "pop_restore" /\ task'[w] = Null
              => top[w] = Hi(w)]_vars

\* The deques implement atomic bounded deques.  A push takes effect when it
\* publishes bottom, a pop when it loads a top below its position or wins the
\* compare-exchange for the last one, a steal when its compare-exchange wins.
Items(q) == [k \in 1 .. Hi(q) - top[q] |-> buffer[q][Slot(top[q] + k - 1)]]

Deque ==
    INSTANCE TaskDeque WITH
        items   <- [q \in Workers |-> Items(q)],
        taken   <- {x \in Task : status[x] \in {"claimed", "returned"}},
        dropped <- {x \in Task : status[x] = "dropped"}

ImplementsDeque == Deque!Spec

(***************************************************************************)
(* The inductive invariant, for deques that only their owner pushes into.  *)
(* GInv is about the indices, DInv about the tasks.                        *)
(***************************************************************************)
OnlyOwnersPush == \A p \in MayPush : p[1] = p[2]

TypeInv ==
    /\ top \in [Workers -> Nat]
    /\ bottom \in [Workers -> Int]
    /\ buffer \in [Workers -> [0 .. Capacity - 1 -> Task \cup {Null}]]
    /\ pc \in [Threads -> PushPCs \cup PopPCs \cup StealPCs \cup {"idle", "ret"}]
    /\ tgt \in [Threads -> Workers]
    /\ b \in [Threads -> Int]
    /\ t \in [Threads -> Nat]
    /\ task \in [Threads -> Task \cup {Null}]
    /\ status \in [Task -> Status]
    /\ returned \in [Task -> Nat]

\* Who works on which deque.
Place(th) ==
    /\ pc[th] \in PushPCs \cup PopPCs => th \in Workers /\ tgt[th] = th
    /\ pc[th] \in StealPCs => tgt[th] # th

\* What the owner's local copies say about the deque.
Owner(w) ==
    /\ pc[w] \in PushPCs => b[w] = bottom[w]
    /\ pc[w] \in {"push_write", "push_publish"} => b[w] - top[w] < Capacity
    /\ pc[w] = "pop_store" => b[w] = bottom[w] - 1
    /\ pc[w] \in PopPCs \ {"pop_store"} => b[w] = bottom[w]
    /\ pc[w] = "pop_read" => t[w] <= b[w] /\ t[w] <= top[w]
    /\ pc[w] = "pop_cas" => t[w] = b[w] /\ t[w] <= top[w]
    /\ pc[w] = "pop_restore" => top[w] = b[w] + 1

\* A thief's copy of top is never ahead, and while it is current there is a
\* task at that position.
Thief(th) ==
    pc[th] \in StealPCs =>
        /\ t[th] <= top[tgt[th]]
        /\ pc[th] \in {"steal_read", "steal_cas"} /\ t[th] = top[tgt[th]]
              => t[th] < Hi(tgt[th])

Bounds(q) == top[q] <= Hi(q) /\ Hi(q) <= top[q] + Capacity

GInv ==
    /\ TypeInv
    /\ \A th \in Threads : Place(th) /\ Thief(th)
    /\ \A w \in Workers : Owner(w) /\ Bounds(w)

\* The tasks: every live position, every thread that is pushing and every
\* thread that has won a task has a task of its own, in the state that says so.
At(q, i) == buffer[q][Slot(i)]

LiveQueued ==
    \A q \in Workers : \A i \in Live(q) : At(q, i) \in Task /\ status[At(q, i)] = "queued"

LiveDistinct ==
    \A q, r \in Workers : \A i \in Live(q), j \in Live(r) :
        At(q, i) = At(r, j) => q = r /\ i = j

Offering(th) ==
    /\ pc[th] \in PushPCs => task[th] \in Task /\ status[task[th]] = "offered"
    /\ pc[th] = "push_publish" => At(th, b[th]) = task[th]

Winning(th) ==
    /\ pc[th] = "pop_read" /\ t[th] < b[th] => Claim(th) \in Task
    /\ Claim(th) # Null => status[Claim(th)] = "claimed"
    /\ pc[th] \in {"pop_store", "pop_top"} => task[th] = Null
    /\ pc[th] = "pop_cas" => task[th] = At(th, b[th])
    /\ pc[th] = "steal_cas" /\ t[th] = top[tgt[th]] => task[th] = At(tgt[th], t[th])

HoldersDistinct ==
    \A th, uh \in Threads :
        /\ pc[th] \in PushPCs /\ pc[uh] \in PushPCs /\ task[th] = task[uh] => th = uh
        /\ Claim(th) # Null /\ Claim(th) = Claim(uh) => th = uh

Counted == \A x \in Task : returned[x] = IF status[x] = "returned" THEN 1 ELSE 0

DInv ==
    /\ LiveQueued /\ LiveDistinct
    /\ \A th \in Threads : Offering(th) /\ Winning(th)
    /\ HoldersDistinct /\ Counted /\ NoTaskLost

\* The inductive invariant: what the indices say, and who holds which task.
InductiveInvariant == GInv /\ DInv

=============================================================================
