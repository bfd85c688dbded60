---------------------- MODULE LockFreeTaskQueue_proofs ----------------------
(***************************************************************************)
(* Proofs about the work-stealing deques, for any number of workers, tasks *)
(* and slots, when only a deque's owner pushes into it: the invariants,    *)
(* then that the deques implement the atomic ones of TaskDeque.            *)
(***************************************************************************)
EXTENDS LockFreeTaskQueue, Sequences, TLAPS

USE CapacityAssumption, NullAssumption, ThreadsAssumption

(***************************************************************************)
(* Types.                                                                  *)
(***************************************************************************)
\* An index always maps to a slot of the buffer (b % buffer.size()).
LEMMA SlotInRange ==
    ASSUME NEW i \in Int
    PROVE  Slot(i) \in 0 .. Capacity - 1
  BY SMT DEF Slot

\* There is a deque.
LEMMA AnyDequeIs == AnyDeque \in Workers
  BY ThreadsAssumption DEF AnyDeque

\* What a slot of a deque holds is a task or nullptr.
LEMMA SlotHolds ==
    ASSUME TypeInv, NEW q \in Workers, NEW i \in Int
    PROVE  buffer[q][Slot(i)] \in Task \cup {Null}
<1>1. Slot(i) \in 0 .. Capacity - 1
  BY SlotInRange
<1>2. buffer[q] \in [0 .. Capacity - 1 -> Task \cup {Null}]
  BY DEF TypeInv
<1> QED BY <1>1, <1>2

\* Leaving an operation keeps the variables it writes in their types.
LEMMA ReturnTypes ==
    ASSUME TypeInv, NEW th \in Threads, NEW x \in Task \cup {Null}, Return(th, x)
    PROVE  /\ pc' \in [Threads -> PushPCs \cup PopPCs \cup StealPCs \cup {"idle", "ret"}]
           /\ task' \in [Threads -> Task \cup {Null}]
           /\ status' \in [Task -> Status]
           /\ returned' \in [Task -> Nat]
<1>1. \A y \in Task : returned[y] + 1 \in Nat
  BY DEF TypeInv
<1>2. pc' \in [Threads -> PushPCs \cup PopPCs \cup StealPCs \cup {"idle", "ret"}]
  BY DEF TypeInv, Return, Goto
<1>3. task' \in [Threads -> Task \cup {Null}]
  BY DEF TypeInv, Return
<1>4. status' \in [Task -> Status] /\ returned' \in [Task -> Nat]
  BY <1>1 DEF TypeInv, Return, Status
<1> QED BY <1>2, <1>3, <1>4

\* Every variable keeps its type under every step.
LEMMA TypeInvInductive ==
    ASSUME TypeInv, [Next]_vars
    PROVE  TypeInv'
<1> USE DEF TypeInv, PushPCs, PopPCs, StealPCs, Status
<1>a. /\ \A q \in Workers : bottom[q] - 1 \in Int
      /\ \A th \in Threads : b[th] + 1 \in Int /\ t[th] + 1 \in Nat
      /\ \A x \in Task : returned[x] + 1 \in Nat
  OBVIOUS
<1>1. ASSUME NEW p \in MayPush, NEW x \in Task, PushCall(p[1], p[2], x) PROVE TypeInv'
  <2>1. p[1] \in Threads /\ p[2] \in Workers
    BY PushAssumption
  <2> QED BY <1>1, <2>1 DEF PushCall, Goto, queueVars
<1>2. ASSUME NEW w \in Workers, PopCall(w, w) PROVE TypeInv'
  BY <1>2, <1>a DEF PopCall, Goto, queueVars
<1>3. ASSUME NEW w \in Workers, NEW q \in Workers \ {w}, StealCall(w, q) PROVE TypeInv'
  BY <1>3 DEF StealCall, Goto, queueVars
<1>4. ASSUME NEW th \in Threads, PushStep(th) PROVE TypeInv'
  <2>1. CASE PushLoadTop(th)
    BY <2>1 DEF PushLoadTop, PushLoadTopIf, Goto, queueVars
  <2>2. CASE PushWrite(th)
    BY <2>2, SlotInRange DEF PushWrite, Goto
  <2>3. CASE PushPublish(th)
    BY <2>3, <1>a DEF PushPublish, Goto
  <2> QED BY <1>4, <2>1, <2>2, <2>3 DEF PushStep
<1>5. ASSUME NEW th \in Threads, PopStep(th) PROVE TypeInv'
  <2>1. CASE PopStoreBottom(th)
    BY <2>1 DEF PopStoreBottom, Goto
  <2>2. CASE PopLoadTop(th)
    BY <2>2, SlotInRange DEF PopLoadTop, Goto, queueVars
  <2>3. CASE PopRead(th)
    <3>1. buffer[tgt[th]][Slot(b[th])] \in Task \cup {Null}
      BY SlotHolds
    <3>2. CASE t[th] = b[th]
      BY <2>3, <3>1, <3>2 DEF PopRead, Goto, queueVars
    <3>3. CASE t[th] # b[th]
      BY <2>3, <3>1, <3>3, ReturnTypes DEF PopRead, queueVars
    <3> QED BY <3>2, <3>3
  <2>4. CASE PopCas(th)
    BY <2>4, <1>a DEF PopCas, Goto
  <2>5. CASE PopRestore(th)
    BY <2>5, <1>a, ReturnTypes DEF PopRestore
  <2> QED BY <1>5, <2>1, <2>2, <2>3, <2>4, <2>5 DEF PopStep
<1>6. ASSUME NEW th \in Threads, StealStep(th) PROVE TypeInv'
  <2>1. CASE StealLoadBottom(th)
    BY <2>1 DEF StealLoadBottom, Goto, queueVars
  <2>2. CASE StealRead(th)
    BY <2>2, SlotHolds DEF StealRead, Goto, queueVars
  <2>3. CASE StealCas(th)
    BY <2>3, <1>a, ReturnTypes DEF StealCas
  <2> QED BY <1>6, <2>1, <2>2, <2>3 DEF StealStep
<1>7. ASSUME NEW th \in Threads, TakeResult(th) PROVE TypeInv'
  BY <1>7, AnyDequeIs DEF TakeResult, Goto, queueVars
<1>8. CASE UNCHANGED vars
  BY <1>8 DEF vars
<1> QED BY <1>1, <1>2, <1>3, <1>4, <1>5, <1>6, <1>7, <1>8 DEF Next, QueueStep

(***************************************************************************)
(* The indices.  A step of thread th leaves the other threads' local       *)
(* variables alone and moves the deques of others only by raising top up   *)
(* to their end (a steal); its effect on th's own deque does not hide a    *)
(* task from a thief whose copy of top is current.                         *)
(***************************************************************************)
Moves(th) ==
    \A u \in Threads \ {th} :
        pc'[u] = pc[u] /\ tgt'[u] = tgt[u] /\ b'[u] = b[u] /\ t'[u] = t[u]

OthersSteady(th) ==
    \A q \in Workers \ {th} :
        bottom'[q] = bottom[q] /\ top[q] <= top'[q] /\ top'[q] <= Hi(q)

OwnSteady(th) ==
    /\ top[th] <= top'[th]
    /\ top'[th] = top[th] => Hi(th)' >= Hi(th) \/ top[th] < Hi(th)'

\* The end of a deque is one position past bottom or bottom itself.
LEMMA HiType ==
    ASSUME TypeInv, NEW q \in Workers
    PROVE  Hi(q) \in Int /\ (Hi(q) = bottom[q] \/ Hi(q) = bottom[q] + 1)
  BY DEF TypeInv, Hi

\* A deque whose owner does not move keeps its end.
LEMMA HiSteady ==
    ASSUME NEW th \in Threads, Moves(th), OthersSteady(th), NEW q \in Workers \ {th}
    PROVE  Hi(q)' = Hi(q)
  BY DEF Moves, OthersSteady, Hi, Contested, Threads

\* A step that leaves the other deques alone is such a step.
LEMMA Untouched ==
    ASSUME GInv, NEW th \in Threads,
           \A q \in Workers \ {th} : bottom'[q] = bottom[q] /\ top'[q] = top[q]
    PROVE  OthersSteady(th)
  BY SMTT(30), HiType DEF OthersSteady, GInv, Bounds, TypeInv

\* Such a step keeps GInv if it keeps the parts of GInv about th itself.
LEMMA GInvFrame ==
    ASSUME GInv, TypeInv', NEW th \in Threads, Moves(th), OthersSteady(th),
           Place(th)', Thief(th)',
           th \in Workers => Owner(th)' /\ Bounds(th)' /\ OwnSteady(th)
    PROVE  GInv'
<1>1. ASSUME NEW u \in Threads PROVE Place(u)'
  BY DEF GInv, Place, Moves
<1>2. ASSUME NEW u \in Threads PROVE Thief(u)'
  <2>1. CASE u = th
    BY <2>1
  <2>2. CASE u # th /\ pc[u] \in StealPCs
    <3> DEFINE q == tgt[u]
    <3>1. q \in Workers /\ tgt'[u] = q /\ t'[u] = t[u] /\ pc'[u] = pc[u]
      BY <2>2 DEF GInv, TypeInv, Moves
    <3>2. /\ t[u] <= top[q]
          /\ pc[u] \in {"steal_read", "steal_cas"} /\ t[u] = top[q] => t[u] < Hi(q)
      BY <2>2 DEF GInv, Thief
    <3>3. /\ top[q] <= top'[q]
          /\ top'[q] = top[q] => Hi(q)' >= Hi(q) \/ top[q] < Hi(q)'
      <4>1. CASE q = th
        BY <4>1, <3>1 DEF OwnSteady
      <4>2. CASE q # th
        BY <4>2, <3>1, HiSteady, HiType DEF OthersSteady, GInv
      <4> QED BY <4>1, <4>2
    <3>4. top[q] \in Int /\ top'[q] \in Int /\ t[u] \in Int /\ Hi(q) \in Int /\ Hi(q)' \in Int
      <4>1. top[q] \in Int /\ top'[q] \in Int /\ t[u] \in Int
        BY <3>1 DEF GInv, TypeInv
      <4>2. Hi(q) \in Int
        BY <3>1, HiType DEF GInv
      <4>3. Hi(q)' \in Int
        BY <3>1 DEF TypeInv, Hi
      <4> QED BY <4>1, <4>2, <4>3
    <3> HIDE DEF q
    <3>5. /\ t[u] <= top'[q]
          /\ pc[u] \in {"steal_read", "steal_cas"} /\ t[u] = top'[q] => t[u] < Hi(q)'
      BY <3>2, <3>3, <3>4
    <3> QED BY <3>1, <3>5 DEF Thief, q
  <2>3. CASE u # th /\ pc[u] \notin StealPCs
    BY <2>3 DEF Thief, Moves
  <2> QED BY <2>1, <2>2, <2>3
<1>3. ASSUME NEW w \in Workers PROVE Owner(w)' /\ Bounds(w)'
  <2>1. CASE w = th
    BY <2>1
  <2>2. CASE w # th
    <3>1. /\ pc'[w] = pc[w] /\ tgt'[w] = tgt[w] /\ b'[w] = b[w] /\ t'[w] = t[w]
          /\ bottom'[w] = bottom[w] /\ top[w] <= top'[w] /\ top'[w] <= Hi(w)
      BY <2>2 DEF Moves, OthersSteady, Threads
    <3>2. Hi(w)' = Hi(w)
      BY <2>2, HiSteady
    <3>3. Owner(w) /\ Bounds(w) /\ w \in Threads /\ Place(w)
      BY DEF GInv, Threads
    <3>4. /\ top[w] \in Int /\ top'[w] \in Int /\ t[w] \in Int /\ b[w] \in Int
          /\ bottom[w] \in Int /\ Hi(w) \in Int
      <4>1. Hi(w) \in Int
        BY HiType DEF GInv
      <4> QED BY <3>3, <4>1 DEF GInv, TypeInv
    <3>5. Bounds(w)'
      BY <3>1, <3>2, <3>3, <3>4 DEF Bounds
    <3>6. pc[w] = "pop_restore" => Hi(w) = bottom[w] + 1
      BY <3>3 DEF Place, Hi, Contested, PushPCs, PopPCs
    <3>7. Owner(w)'
      BY <3>1, <3>3, <3>4, <3>6 DEF Owner, PushPCs, PopPCs
    <3> QED BY <3>5, <3>7
  <2> QED BY <2>1, <2>2
<1> QED BY <1>1, <1>2, <1>3 DEF GInv

\* The owner's steps inside push and pop.
LEMMA GInv_OwnerStep ==
    ASSUME GInv, TypeInv', NEW th \in Threads, PushStep(th) \/ PopStep(th)
    PROVE  GInv'
<1>0. TypeInv /\ th \in Workers /\ tgt[th] = th /\ Owner(th) /\ Bounds(th)
  BY DEF GInv, Place, PushPCs, PopPCs, PushStep, PushLoadTop, PushLoadTopIf, PushWrite,
     PushPublish, PopStep,
     PopStoreBottom, PopLoadTop, PopRead, PopCas, PopRestore, Return, Goto, queueVars
<1>1. Moves(th)
  BY <1>0 DEF TypeInv, Moves, PushStep, PushLoadTop, PushLoadTopIf, PushWrite, PushPublish,
     PopStep,
     PopStoreBottom, PopLoadTop, PopRead, PopCas, PopRestore, Return, Goto, queueVars
<1>2. \A q \in Workers \ {th} : bottom'[q] = bottom[q] /\ top'[q] = top[q]
  BY <1>0 DEF TypeInv, PushStep, PushLoadTop, PushLoadTopIf, PushWrite, PushPublish, PopStep,
     PopStoreBottom, PopLoadTop, PopRead, PopCas, PopRestore, Return, Goto, queueVars
<1>3. Place(th)' /\ Thief(th)'
  BY <1>0 DEF TypeInv, Place, Thief, PushPCs, PopPCs, StealPCs, PushStep, PushLoadTop,
     PushLoadTopIf, PushWrite, PushPublish, PopStep,
     PopStoreBottom, PopLoadTop, PopRead, PopCas, PopRestore, Return, Goto, queueVars
<1>4. Owner(th)' /\ Bounds(th)' /\ OwnSteady(th)
  <2> USE <1>0 DEF TypeInv, Owner, Bounds, OwnSteady, Hi, Contested, PushPCs, PopPCs
  <2>1. CASE PushLoadTop(th)
    BY <2>1 DEF PushLoadTop, PushLoadTopIf, Goto, queueVars
  <2>2. CASE PushWrite(th)
    BY <2>2 DEF PushWrite, Goto
  <2>3. CASE PushPublish(th)
    BY <2>3 DEF PushPublish, Goto
  <2>4. CASE PopStoreBottom(th)
    BY <2>4 DEF PopStoreBottom, Goto
  <2>5. CASE PopLoadTop(th)
    BY <2>5 DEF PopLoadTop, Goto, queueVars
  <2>6. CASE PopRead(th)
    BY <2>6 DEF PopRead, Return, Goto, queueVars
  <2>7. CASE PopCas(th)
    BY <2>7 DEF PopCas, Goto
  <2>8. CASE PopRestore(th)
    BY <2>8 DEF PopRestore, Return, Goto
  <2> QED BY <2>1, <2>2, <2>3, <2>4, <2>5, <2>6, <2>7, <2>8 DEF PushStep, PopStep
<1> QED BY <1>1, <1>2, <1>3, <1>4, Untouched, GInvFrame

\* A worker enters push, pop or steal.
LEMMA GInv_Call ==
    ASSUME GInv, TypeInv', NEW th \in Workers,
           \/ \E x \in Task : PushCall(th, th, x)
           \/ PopCall(th, th)
           \/ \E q \in Workers \ {th} : StealCall(th, q)
    PROVE  GInv'
<1> USE DEF PushCall, PopCall, StealCall, Goto, queueVars
<1>0. TypeInv /\ th \in Threads /\ Bounds(th) /\ pc[th] = "idle"
  BY DEF GInv, Threads
<1>1. Moves(th)
  BY <1>0 DEF TypeInv, Moves
<1>2. OthersSteady(th)
  BY <1>0, Untouched
<1>3. Place(th)' /\ Thief(th)'
  <2>1. ASSUME NEW x \in Task, PushCall(th, th, x) PROVE Place(th)' /\ Thief(th)'
    <3>1. pc'[th] = "push_top" /\ tgt'[th] = th
      BY <1>0, <2>1 DEF TypeInv
    <3> QED BY <1>0, <3>1 DEF Place, Thief, PushPCs, PopPCs, StealPCs
  <2>2. CASE PopCall(th, th)
    <3>1. pc'[th] = "pop_store" /\ tgt'[th] = th
      BY <1>0, <2>2 DEF TypeInv
    <3> QED BY <1>0, <3>1 DEF Place, Thief, PushPCs, PopPCs, StealPCs
  <2>3. ASSUME NEW q \in Workers \ {th}, StealCall(th, q) PROVE Place(th)' /\ Thief(th)'
    <3>1. /\ pc'[th] = "steal_bottom" /\ tgt'[th] = q /\ t'[th] = top[q]
          /\ top' = top /\ top[q] \in Int
      BY <1>0, <2>3 DEF TypeInv
    <3> QED BY <1>0, <2>3, <3>1 DEF Place, Thief, PushPCs, PopPCs, StealPCs
  <2> HIDE DEF PushCall, PopCall, StealCall
  <2> QED BY <2>1, <2>2, <2>3
<1>4. Owner(th)' /\ Bounds(th)' /\ OwnSteady(th)
  <2> USE <1>0 DEF TypeInv, Owner, Bounds, OwnSteady, Hi, Contested, PushPCs, PopPCs
  <2>1. ASSUME NEW x \in Task, PushCall(th, th, x)
        PROVE  Owner(th)' /\ Bounds(th)' /\ OwnSteady(th)
    BY <2>1
  <2>2. CASE PopCall(th, th)
    BY <2>2
  <2>3. ASSUME NEW q \in Workers \ {th}, StealCall(th, q)
        PROVE  Owner(th)' /\ Bounds(th)' /\ OwnSteady(th)
    BY <2>3
  <2> HIDE DEF PushCall, PopCall, StealCall
  <2> QED BY <2>1, <2>2, <2>3
<1> QED BY <1>0, <1>1, <1>2, <1>3, <1>4, GInvFrame

\* A thief loads bottom or reads a slot, or a thread leaves an operation.
LEMMA GInv_LocalStep ==
    ASSUME GInv, TypeInv', NEW th \in Threads,
           StealLoadBottom(th) \/ StealRead(th) \/ TakeResult(th)
    PROVE  GInv'
<1> USE DEF StealLoadBottom, StealRead, TakeResult, Goto, queueVars
<1>0. TypeInv /\ Place(th) /\ Thief(th) /\ (th \in Workers => Bounds(th))
  BY DEF GInv
<1>1. Moves(th)
  BY <1>0 DEF TypeInv, Moves
<1>2. OthersSteady(th)
  BY <1>0, Untouched
<1>3. Place(th)'
  BY ZenonT(60), <1>0 DEF TypeInv, Place, PushPCs, PopPCs, StealPCs
<1>4. Thief(th)'
  <2> USE <1>0 DEF TypeInv, Place, Thief, StealPCs, Hi, Contested
  <2>1. CASE StealLoadBottom(th)
    BY <2>1
  <2>2. CASE StealRead(th)
    BY <2>2
  <2>3. CASE TakeResult(th)
    BY <2>3
  <2> QED BY <2>1, <2>2, <2>3
<1>5. ASSUME th \in Workers PROVE Owner(th)' /\ Bounds(th)' /\ OwnSteady(th)
  <2>1. /\ pc[th] \notin PopPCs /\ pc'[th] \notin PopPCs /\ pc'[th] \notin PushPCs
        /\ bottom' = bottom /\ top' = top
    BY <1>0 DEF TypeInv, PushPCs, PopPCs, StealPCs
  <2>2. Hi(th)' = bottom[th] /\ Hi(th) = bottom[th]
    BY <2>1 DEF Hi, Contested, PopPCs
  <2> QED BY SMTT(30), <1>0, <1>5, <2>1, <2>2 DEF TypeInv, Owner, Bounds, OwnSteady, PushPCs, PopPCs
<1> QED BY <1>0, <1>1, <1>2, <1>3, <1>4, <1>5, GInvFrame

\* A thief's compare-exchange.
LEMMA GInv_StealCas ==
    ASSUME GInv, TypeInv', NEW th \in Threads, StealCas(th)
    PROVE  GInv'
<1>0. TypeInv /\ th \in Threads /\ Place(th) /\ Thief(th) /\ (th \in Workers => Bounds(th))
  BY DEF GInv, Threads
<1>1. Moves(th)
  BY <1>0 DEF TypeInv, Moves, StealCas, Return, Goto
<1>2. OthersSteady(th)
  <2> SUFFICES ASSUME NEW q \in Workers \ {th}
               PROVE  bottom'[q] = bottom[q] /\ top[q] <= top'[q] /\ top'[q] <= Hi(q)
    BY DEF OthersSteady
  <2>1. Hi(q) \in Int /\ top[q] \in Int /\ t[th] \in Int /\ top[q] <= Hi(q) /\ tgt[th] \in Workers
    <3>1. Hi(q) \in Int
      BY <1>0, HiType
    <3> QED BY <1>0, <3>1 DEF GInv, Bounds, TypeInv
  <2>2. CASE q = tgt[th] /\ top[q] = t[th]
    <3>1. t[th] < Hi(q)
      BY <2>2, <1>0 DEF Thief, StealCas, StealPCs
    <3>2. top'[q] = t[th] + 1 /\ bottom'[q] = bottom[q]
      BY <2>2, <1>0 DEF StealCas, TypeInv
    <3> QED BY <2>1, <2>2, <3>1, <3>2
  <2>3. CASE ~(q = tgt[th] /\ top[q] = t[th])
    <3>1. top'[q] = top[q] /\ bottom'[q] = bottom[q]
      BY <2>3, <1>0 DEF StealCas, TypeInv
    <3> QED BY <2>1, <3>1
  <2> QED BY <2>2, <2>3
<1>3. Place(th)'
  BY <1>0 DEF TypeInv, Place, PushPCs, PopPCs, StealPCs, StealCas, Return, Goto
<1>4. Thief(th)'
  BY <1>0, HiType DEF TypeInv, Place, Thief, StealPCs, Hi, Contested, StealCas, Return, Goto
<1>5. ASSUME th \in Workers PROVE Owner(th)' /\ Bounds(th)' /\ OwnSteady(th)
  <2>1. /\ pc[th] \notin PopPCs /\ pc'[th] \notin PopPCs /\ pc'[th] \notin PushPCs
        /\ bottom' = bottom /\ tgt[th] # th
    BY <1>0 DEF TypeInv, Place, PushPCs, PopPCs, StealPCs, StealCas, Return, Goto
  <2>2. top'[th] = top[th]
    BY <1>0, <1>5, <2>1 DEF TypeInv, StealCas
  <2>3. Hi(th)' = bottom[th] /\ Hi(th) = bottom[th]
    BY <2>1 DEF Hi, Contested, PopPCs
  <2> QED BY SMTT(30), <1>0, <1>5, <2>1, <2>2, <2>3 DEF TypeInv, Owner, Bounds, OwnSteady,
             PushPCs, PopPCs
<1> QED BY <1>0, <1>1, <1>2, <1>3, <1>4, <1>5, GInvFrame

\* GInv is an inductive invariant of the deques when only owners push.
LEMMA GInvInductive ==
    ASSUME OnlyOwnersPush, GInv, [Next]_vars
    PROVE  GInv'
<1>0. TypeInv'
  BY TypeInvInductive DEF GInv
<1>1. ASSUME NEW p \in MayPush, NEW x \in Task, PushCall(p[1], p[2], x) PROVE GInv'
  <2>1. p[1] = p[2] /\ p[1] \in Workers
    BY OnlyOwnersPush, PushAssumption DEF OnlyOwnersPush
  <2> QED BY <1>0, <1>1, <2>1, GInv_Call
<1>2. ASSUME NEW w \in Workers, PopCall(w, w) PROVE GInv'
  BY <1>0, <1>2, GInv_Call
<1>3. ASSUME NEW w \in Workers, NEW q \in Workers \ {w}, StealCall(w, q) PROVE GInv'
  BY <1>0, <1>3, GInv_Call
<1>4. ASSUME NEW th \in Threads, PushStep(th) PROVE GInv'
  BY <1>0, <1>4, GInv_OwnerStep
<1>5. ASSUME NEW th \in Threads, PopStep(th) PROVE GInv'
  BY <1>0, <1>5, GInv_OwnerStep
<1>6. ASSUME NEW th \in Threads, StealStep(th) PROVE GInv'
  BY <1>0, <1>6, GInv_LocalStep, GInv_StealCas DEF StealStep
<1>7. ASSUME NEW th \in Threads, TakeResult(th) PROVE GInv'
  BY <1>0, <1>7, GInv_LocalStep
<1>8. CASE UNCHANGED vars
  BY <1>8 DEF vars, GInv, TypeInv, Place, Thief, Owner, Bounds, Hi, Contested
<1> QED BY <1>1, <1>2, <1>3, <1>4, <1>5, <1>6, <1>7, <1>8 DEF Next, QueueStep

\* The deques start in GInv.
LEMMA GInvInit == Init => GInv
<1> SUFFICES ASSUME Init PROVE GInv
  OBVIOUS
<1>1. TypeInv
  BY AnyDequeIs DEF Init, TypeInv, PushPCs, PopPCs, StealPCs, Status
<1>2. ASSUME NEW th \in Threads PROVE Place(th) /\ Thief(th)
  BY DEF Init, Place, Thief, PushPCs, PopPCs, StealPCs
<1>3. ASSUME NEW w \in Workers PROVE Owner(w) /\ Bounds(w)
  BY DEF Init, Owner, Bounds, Hi, Contested, PushPCs, PopPCs, Threads
<1> QED BY <1>1, <1>2, <1>3 DEF GInv

\* In every reachable state of the deques, whatever the number of workers, tasks
\* and slots, the indices and the threads' copies of them agree as GInv says.
THEOREM IndexInvariant ==
    ASSUME OnlyOwnersPush
    PROVE  Spec => []GInv
<1>1. GInv /\ [Next]_vars => GInv'
  BY GInvInductive
<1> QED BY <1>1, GInvInit, PTL DEF Spec

\* What a deque holds never exceeds its buffer and top never overtakes it,
\* although push and steal act on copies of top and bottom that may be stale.
THEOREM CapacityTheorem ==
    ASSUME OnlyOwnersPush
    PROVE  Spec => []WithinCapacity
<1>1. GInv => WithinCapacity
  BY DEF GInv, Bounds, WithinCapacity
<1> QED BY <1>1, IndexInvariant, PTL

\* bottom is lowered below the first position by at most one, and only while
\* its owner is inside pop.
LEMMA BottomBound ==
    ASSUME GInv, NEW w \in Workers
    PROVE  /\ bottom[w] \in Nat \cup {-1}
           /\ pc[w] = "idle" => bottom[w] \in Nat
<1>1. bottom[w] \in Int /\ top[w] \in Nat
  BY DEF GInv, TypeInv
<1>2. Hi(w) = bottom[w] \/ Hi(w) = bottom[w] + 1
  BY HiType DEF GInv
<1>3. top[w] <= Hi(w)
  BY DEF GInv, Bounds
<1>4. pc[w] = "idle" => Hi(w) = bottom[w]
  BY DEF Hi, Contested
<1> QED BY <1>1, <1>2, <1>3, <1>4

LocalBottom == \A th \in Threads : b[th] \in Nat \cup {-1}

\* No thread ever holds a bottom below -1.
LEMMA LocalBottomInductive ==
    ASSUME OnlyOwnersPush, GInv, LocalBottom, [Next]_vars
    PROVE  LocalBottom'
<1> SUFFICES ASSUME NEW u \in Threads PROVE b'[u] \in Nat \cup {-1}
  BY DEF LocalBottom
<1>0. b \in [Threads -> Int] /\ b[u] \in Nat \cup {-1} /\ Workers \subseteq Threads
  BY DEF GInv, TypeInv, LocalBottom, Threads
<1>1. ASSUME NEW p \in MayPush, NEW x \in Task, PushCall(p[1], p[2], x)
      PROVE  b'[u] \in Nat \cup {-1}
  <2>1. p[2] \in Workers
    BY PushAssumption
  <2>2. bottom[p[2]] \in Nat \cup {-1}
    BY <2>1, BottomBound
  <2> QED BY <1>0, <1>1, <2>2 DEF PushCall
<1>2. ASSUME NEW w \in Workers, PopCall(w, w) PROVE b'[u] \in Nat \cup {-1}
  <2>1. bottom[w] \in Nat
    BY <1>2, BottomBound DEF PopCall
  <2>2. bottom[w] - 1 \in Nat \cup {-1}
    BY <2>1
  <2>3. b' = [b EXCEPT ![w] = bottom[w] - 1]
    BY <1>2 DEF PopCall
  <2> QED BY <1>0, <2>2, <2>3
<1>3. ASSUME NEW w \in Workers, NEW q \in Workers \ {w}, StealCall(w, q) PROVE b' = b
  BY <1>3 DEF StealCall
<1>4. ASSUME NEW th \in Threads, PushStep(th) \/ PopStep(th) PROVE b' = b
  BY <1>4 DEF PushStep, PushLoadTop, PushLoadTopIf, PushWrite, PushPublish, PopStep,
     PopStoreBottom, PopLoadTop, PopRead, PopCas, PopRestore
<1>5. ASSUME NEW th \in Threads, StealStep(th) PROVE b'[u] \in Nat \cup {-1}
  <2>1. bottom[tgt[th]] \in Nat \cup {-1}
    BY BottomBound DEF GInv, TypeInv
  <2> QED BY <1>0, <1>5, <2>1 DEF StealStep, StealLoadBottom, StealRead, StealCas
<1>6. ASSUME NEW th \in Threads, TakeResult(th) PROVE b'[u] \in Nat \cup {-1}
  BY <1>0, <1>6 DEF TakeResult
<1>7. CASE UNCHANGED vars
  BY <1>0, <1>7 DEF vars
<1> QED BY <1>0, <1>1, <1>2, <1>3, <1>4, <1>5, <1>6, <1>7 DEF Next, QueueStep

\* Every variable keeps its type; bottom, which pop lowers before it looks at
\* top, is never below -1.
THEOREM TypeCorrect ==
    ASSUME OnlyOwnersPush
    PROVE  Spec => []TypeOK
<1>1. Init => LocalBottom
  BY DEF Init, LocalBottom
<1>2. GInv /\ LocalBottom /\ [Next]_vars => LocalBottom'
  BY LocalBottomInductive
<1>3. GInv /\ LocalBottom => TypeOK
  <2> SUFFICES ASSUME GInv, LocalBottom PROVE TypeOK
    OBVIOUS
  <2>1. bottom \in [Workers -> Nat \cup {-1}]
    <3>1. \A w \in Workers : bottom[w] \in Nat \cup {-1}
      BY BottomBound
    <3> QED BY <3>1 DEF GInv, TypeInv
  <2>2. b \in [Threads -> Nat \cup {-1}]
    BY DEF GInv, TypeInv, LocalBottom
  <2> QED BY <2>1, <2>2 DEF GInv, TypeInv, TypeOK
<1> QED BY <1>1, <1>2, <1>3, IndexInvariant, PTL DEF Spec

(***************************************************************************)
(* The tasks.                                                              *)
(***************************************************************************)

\* Positions less than Capacity apart use different slots.
LEMMA SlotDistinct ==
    ASSUME NEW i \in Int, NEW j \in Int, i < j, j - i < Capacity
    PROVE  Slot(i) # Slot(j)
<1> SUFFICES ASSUME Slot(i) = Slot(j) PROVE FALSE
  OBVIOUS
<1> DEFINE k == (j \div Capacity) - (i \div Capacity)
<1>1. j \div Capacity \in Int /\ i \div Capacity \in Int
  OBVIOUS
<1>2. /\ j = Capacity * (j \div Capacity) + Slot(j)
      /\ i = Capacity * (i \div Capacity) + Slot(i)
  BY DEF Slot
<1>3. j - i = Capacity * (j \div Capacity) - Capacity * (i \div Capacity)
  BY <1>1, <1>2, SlotInRange
<1>4. j - i = Capacity * k
  BY <1>1, <1>3
<1>5. k \in Int
  BY <1>1
<1> HIDE DEF k
<1>6. k >= 1 => Capacity * k >= Capacity
  BY <1>5
<1>7. k <= 0 => Capacity * k <= 0
  BY <1>5
<1> QED BY <1>4, <1>5, <1>6, <1>7

\* The step of th leaves what the other threads hold alone.
OthersHold(th) ==
    /\ Moves(th)
    /\ \A u \in Threads \ {th} : task'[u] = task[u]
    /\ \A q \in Workers \ {th} : buffer'[q] = buffer[q]

\* What another thread has won does not depend on the step of th.
LEMMA ClaimSteady ==
    ASSUME GInv, NEW th \in Threads, OthersHold(th), NEW u \in Threads \ {th}
    PROVE  Claim(u)' = Claim(u)
<1>1. /\ pc'[u] = pc[u] /\ tgt'[u] = tgt[u] /\ b'[u] = b[u] /\ t'[u] = t[u]
      /\ task'[u] = task[u]
  BY DEF OthersHold, Moves
<1>2. pc[u] = "pop_read" => buffer'[tgt[u]] = buffer[tgt[u]]
  BY DEF GInv, Place, PopPCs, OthersHold
<1> QED BY <1>1, <1>2 DEF Claim

\* A thief whose copy of top is current copies a live position.
LEMMA ThiefAtLive ==
    ASSUME GInv, NEW u \in Threads, pc[u] \in {"steal_read", "steal_cas"},
           t[u] = top[tgt[u]]
    PROVE  tgt[u] \in Workers /\ t[u] \in Live(tgt[u])
<1>1. tgt[u] \in Workers /\ t[u] \in Int /\ t[u] < Hi(tgt[u])
  BY DEF GInv, TypeInv, Thief, StealPCs
<1>2. Hi(tgt[u]) \in Int
  BY <1>1, HiType DEF GInv
<1> QED BY <1>1, <1>2 DEF Live

\* A step of th that moves no task keeps DInv if it keeps what DInv says of th.
LEMMA DInvQuiet ==
    ASSUME GInv, GInv', DInv, NEW th \in Threads, OthersHold(th),
           UNCHANGED <<top, status, returned>>,
           \A q \in Workers : Live(q)' = Live(q),
           \A q \in Workers : \A i \in Live(q) : At(q, i)' = At(q, i),
           Claim(th)' = Claim(th),
           pc'[th] \in PushPCs => pc[th] \in PushPCs /\ task'[th] = task[th],
           Offering(th)', Winning(th)'
    PROVE  DInv'
<1>1. \A u \in Threads : Claim(u)' = Claim(u)
  BY ClaimSteady
<1>2. LiveQueued' /\ LiveDistinct'
  BY DEF DInv, LiveQueued, LiveDistinct
<1>3. ASSUME NEW u \in Threads PROVE Offering(u)' /\ Winning(u)'
  <2>1. CASE u = th
    BY <2>1
  <2>2. CASE u # th
    <3>1. /\ pc'[u] = pc[u] /\ tgt'[u] = tgt[u] /\ b'[u] = b[u] /\ t'[u] = t[u]
          /\ task'[u] = task[u] /\ Claim(u)' = Claim(u) /\ Offering(u) /\ Winning(u)
      BY <2>2, <1>1 DEF OthersHold, Moves, DInv
    <3>2. pc[u] \in {"push_publish", "pop_cas"} => buffer'[u] = buffer[u]
      BY <2>2 DEF GInv, Place, PushPCs, PopPCs, OthersHold
    <3>3. Offering(u)'
      BY <3>1, <3>2 DEF Offering, At
    <3>4. pc[u] = "steal_cas" /\ t[u] = top[tgt[u]] => At(tgt[u], t[u])' = At(tgt[u], t[u])
      BY <3>1, ThiefAtLive DEF At
    <3>5. Winning(u)'
      BY <3>1, <3>2, <3>4 DEF Winning, At
    <3> QED BY <3>3, <3>5
  <2> QED BY <2>1, <2>2
<1>4. HoldersDistinct'
  <2>1. \A u \in Threads : pc'[u] \in PushPCs => pc[u] \in PushPCs /\ task'[u] = task[u]
    BY DEF OthersHold, Moves
  <2> QED BY <1>1, <2>1 DEF DInv, HoldersDistinct
<1>5. Counted'
  BY DEF DInv, Counted
<1>6. NoTaskLost'
  <2>1. NoTaskLost
    BY DEF DInv
  <2>2. ASSUME NEW x \in Task, status'[x] = "queued"
        PROVE  \E q \in Workers : \E i \in Live(q)' : At(q, i)' = x
    <3>1. PICK q \in Workers : \E i \in Live(q) : At(q, i) = x
      BY <2>1, <2>2 DEF NoTaskLost, At
    <3> QED BY <3>1
  <2>3. ASSUME NEW x \in Task, status'[x] = "claimed"
        PROVE  \E u \in Threads : Claim(u)' = x
    BY <1>1, <2>1, <2>3 DEF NoTaskLost
  <2> QED BY <2>2, <2>3 DEF NoTaskLost, At
<1> QED BY <1>2, <1>3, <1>4, <1>5, <1>6 DEF DInv

\* A step of th that gives task x another status keeps DInv if x leaves the
\* live positions, th is the one that held x and no other thread holds it next.
LEMMA DInvChange ==
    ASSUME GInv, GInv', DInv, NEW th \in Threads, OthersHold(th), buffer' = buffer,
           NEW x \in Task, NEW s, status' = [status EXCEPT ![x] = s], s # "queued",
           \A q \in Workers : top[q] <= top'[q],
           \A q \in Workers : \A i \in Live(q)' : i \in Live(q) /\ At(q, i) # x,
           \A q \in Workers : \A i \in Live(q) : At(q, i) = x \/ i \in Live(q)',
           status[x] = "offered" => pc[th] \in PushPCs /\ task[th] = x,
           status[x] = "claimed" => Claim(th) = x,
           s = "claimed" => Claim(th)' = x,
           Claim(th) \in {Null, x},
           Claim(th)' # Null => Claim(th)' = x /\ status[x] = "queued",
           pc'[th] \in PushPCs => task'[th] = x /\ status[x] = "fresh",
           Offering(th)', Winning(th)', Counted'
    PROVE  DInv'
<1>0. /\ \A y \in Task \ {x} : status'[y] = status[y]
      /\ status'[x] = s
      /\ \A q, i : At(q, i)' = At(q, i)
  BY DEF GInv, TypeInv, At
<1>1. \A u \in Threads \ {th} : Claim(u)' = Claim(u)
  BY ClaimSteady
<1>2. LiveQueued' /\ LiveDistinct'
  BY <1>0 DEF DInv, LiveQueued, LiveDistinct
<1>3. ASSUME NEW u \in Threads, u # th
      PROVE  /\ pc[u] \in PushPCs => task[u] \in Task /\ task[u] # x
             /\ Claim(u) # Null => Claim(u) \in Task /\ Claim(u) # x
  <2>1. Offering(u) /\ Winning(u) /\ HoldersDistinct
    BY DEF DInv
  <2>2. pc[u] \in PushPCs => task[u] \in Task /\ task[u] # x
    BY <1>3, <2>1 DEF Offering, HoldersDistinct
  <2>3. Claim(u) # Null => Claim(u) \in Task
    <3>1. CASE pc[u] = "pop_read" /\ t[u] < b[u]
      BY <3>1, <2>1 DEF Winning
    <3>2. CASE pc[u] = "pop_restore"
      BY <3>2 DEF Claim, GInv, TypeInv
    <3>3. CASE ~(pc[u] = "pop_read" /\ t[u] < b[u]) /\ pc[u] # "pop_restore"
      BY <3>3 DEF Claim
    <3> QED BY <3>1, <3>2, <3>3
  <2>4. Claim(u) # Null => Claim(u) # x
    BY <1>3, <2>1 DEF Winning, HoldersDistinct
  <2> QED BY <2>2, <2>3, <2>4
<1>4. ASSUME NEW u \in Threads PROVE Offering(u)' /\ Winning(u)'
  <2>1. CASE u = th
    BY <2>1
  <2>2. CASE u # th
    <3>1. /\ pc'[u] = pc[u] /\ tgt'[u] = tgt[u] /\ b'[u] = b[u] /\ t'[u] = t[u]
          /\ task'[u] = task[u] /\ Claim(u)' = Claim(u) /\ Offering(u) /\ Winning(u)
      BY <2>2, <1>1 DEF OthersHold, Moves, DInv
    <3>2. Offering(u)'
      BY <1>0, <1>3, <2>2, <3>1 DEF Offering
    <3>3. pc[u] = "steal_cas" /\ t[u] = top'[tgt[u]] => t[u] = top[tgt[u]]
      BY SMTT(30) DEF GInv, TypeInv, Thief, StealPCs
    <3>4. Winning(u)'
      BY <1>0, <1>3, <2>2, <3>1, <3>3 DEF Winning
    <3> QED BY <3>2, <3>4
  <2> QED BY <2>1, <2>2
<1>5. HoldersDistinct'
  <2>1. \A u \in Threads \ {th} : pc'[u] = pc[u] /\ task'[u] = task[u]
    BY DEF OthersHold, Moves
  <2> QED BY <1>1, <1>3, <2>1 DEF DInv, HoldersDistinct
<1>6. NoTaskLost'
  <2>1. NoTaskLost
    BY DEF DInv
  <2>2. ASSUME NEW y \in Task, status'[y] = "queued"
        PROVE  \E q \in Workers : \E i \in Live(q)' : At(q, i)' = y
    <3>1. y # x /\ status[y] = "queued"
      BY <1>0, <2>2
    <3>2. PICK q \in Workers : \E i \in Live(q) : At(q, i) = y
      BY <2>1, <3>1 DEF NoTaskLost, At
    <3> QED BY <1>0, <3>1, <3>2
  <2>3. ASSUME NEW y \in Task, status'[y] = "claimed"
        PROVE  \E u \in Threads : Claim(u)' = y
    <3>1. CASE y = x
      BY <1>0, <2>3, <3>1
    <3>2. CASE y # x
      <4>1. PICK u \in Threads : Claim(u) = y
        BY <1>0, <2>1, <2>3, <3>2 DEF NoTaskLost
      <4> QED BY <1>1, <3>2, <4>1, NullAssumption
    <3> QED BY <3>1, <3>2
  <2> QED BY <2>2, <2>3 DEF NoTaskLost, At
<1> QED BY <1>2, <1>4, <1>5, <1>6 DEF DInv

\* The live positions of a deque depend on top, on bottom and on its owner.
LEMMA LiveSteady ==
    ASSUME NEW th \in Threads, Moves(th), top' = top,
           \A q \in Workers \ {th} : bottom'[q] = bottom[q],
           th \in Workers => Hi(th)' = Hi(th)
    PROVE  \A q \in Workers : Live(q)' = Live(q)
<1>1. ASSUME NEW q \in Workers PROVE Hi(q)' = Hi(q)
  BY DEF Moves, Hi, Contested, Threads
<1> QED BY <1>1 DEF Live

\* The steps that move no task: the calls of pop and steal, the loads, a lost
\* compare-exchange, an operation that comes back with nothing.
QuietStep(th) ==
    \/ PopCall(th, th)
    \/ \E q \in Workers \ {th} : StealCall(th, q)
    \/ StealLoadBottom(th) \/ StealRead(th) \/ TakeResult(th) \/ PopStoreBottom(th)
    \/ PushLoadTop(th) /\ b[th] - top[th] < Capacity
    \/ PopLoadTop(th) /\ ~(top[th] < b[th])
    \/ PopRead(th) /\ t[th] = b[th]
    \/ PopCas(th) /\ top[tgt[th]] # t[th]
    \/ PopRestore(th) /\ task[th] = Null
    \/ StealCas(th) /\ top[tgt[th]] # t[th]

\* Those steps keep DInv.
LEMMA DInv_QuietStep ==
    ASSUME GInv, GInv', DInv, NEW th \in Threads, QuietStep(th)
    PROVE  DInv'
<1> USE DEF QuietStep, PopCall, StealCall, StealLoadBottom, StealRead, TakeResult, PopStoreBottom,
        PushLoadTop, PushLoadTopIf, PopLoadTop, PopRead, PopCas, PopRestore, StealCas, Return,
        Goto, queueVars
<1>0. /\ TypeInv /\ th \in Threads /\ Place(th) /\ Offering(th) /\ Winning(th)
      /\ th \in Workers => Owner(th)
  BY DEF GInv, DInv, Threads
<1>1. OthersHold(th)
  BY <1>0 DEF TypeInv, OthersHold, Moves
<1>2. UNCHANGED <<top, buffer, status, returned>>
  BY <1>0 DEF TypeInv, Place, PushPCs, PopPCs
<1>3. \A q \in Workers : Live(q)' = Live(q)
  <2>1. \A q \in Workers \ {th} : bottom'[q] = bottom[q]
    BY <1>0 DEF TypeInv, Place, PushPCs, PopPCs
  <2>2. th \in Workers => Hi(th)' = Hi(th)
    BY SMTT(30), <1>0 DEF TypeInv, Place, Owner, PushPCs, PopPCs, StealPCs, Hi, Contested
  <2> QED BY <1>0, <1>1, <1>2, <2>1, <2>2, LiveSteady DEF OthersHold
<1>4. Claim(th)' = Claim(th)
  BY <1>0 DEF TypeInv, Claim, Winning, Place, Owner, PushPCs, PopPCs
<1>5. Offering(th)' /\ Winning(th)'
  BY <1>0, <1>2, <1>4 DEF TypeInv, Offering, Winning, Claim, At, Place, Owner, PushPCs, PopPCs
<1>6. pc'[th] \in PushPCs => pc[th] \in PushPCs /\ task'[th] = task[th]
  BY <1>0 DEF TypeInv, PushPCs
<1> HIDE DEF QuietStep, PopCall, StealCall, StealLoadBottom, StealRead, TakeResult, PopStoreBottom,
        PushLoadTop, PushLoadTopIf, PopLoadTop, PopRead, PopCas, PopRestore, StealCas
<1> QED BY <1>0, <1>1, <1>2, <1>3, <1>4, <1>5, <1>6, DInvQuiet DEF At

\* push writes a slot that no live position uses.
LEMMA DInv_PushWrite ==
    ASSUME GInv, GInv', DInv, NEW th \in Threads, PushWrite(th)
    PROVE  DInv'
<1>0. /\ TypeInv /\ th \in Workers /\ tgt[th] = th /\ pc[th] = "push_write"
      /\ Offering(th) /\ b[th] = bottom[th] /\ b[th] - top[th] < Capacity
      /\ b[th] \in Int /\ top[th] \in Nat /\ bottom[th] \in Int
  BY DEF GInv, TypeInv, DInv, Place, Owner, PushPCs, PushWrite
<1>1. OthersHold(th)
  BY <1>0 DEF TypeInv, OthersHold, Moves, PushWrite, Goto
<1>2. UNCHANGED <<top, bottom, status, returned, task, b, t, tgt>> /\ pc'[th] = "push_publish"
  BY <1>0 DEF TypeInv, PushWrite, Goto
<1>3. Hi(th) = bottom[th] /\ Hi(th)' = bottom[th]
  BY <1>0, <1>2 DEF Hi, Contested
<1>4. \A q \in Workers : Live(q)' = Live(q)
  BY <1>1, <1>2, <1>3, LiveSteady DEF OthersHold
<1>5. At(th, b[th])' = task[th]
  BY <1>0, <1>2, SlotInRange DEF At, TypeInv, PushWrite
<1>6. ASSUME NEW q \in Workers, NEW i \in Live(q) PROVE At(q, i)' = At(q, i)
  <2>1. CASE q # th
    BY <1>1, <2>1 DEF OthersHold, At
  <2>2. CASE q = th
    <3>1. i \in Int /\ i < b[th] /\ b[th] - i < Capacity
      BY <1>0, <1>3, <2>2 DEF Live
    <3>2. Slot(i) # Slot(b[th])
      BY <1>0, <3>1, SlotDistinct
    <3> QED BY <1>0, <2>2, <3>2 DEF At, TypeInv, PushWrite
  <2> QED BY <2>1, <2>2
<1>7. Claim(th)' = Claim(th)
  BY <1>0, <1>2 DEF Claim
<1>8. Offering(th)' /\ Winning(th)'
  BY <1>0, <1>2, <1>5, <1>7 DEF Offering, Winning, Claim, PushPCs, At
<1> QED BY <1>0, <1>1, <1>2, <1>4, <1>6, <1>7, <1>8, DInvQuiet DEF PushPCs

\* The caller of push offers a fresh task.
LEMMA DInv_PushCall ==
    ASSUME GInv, GInv', DInv, NEW th \in Workers, NEW x \in Task, PushCall(th, th, x)
    PROVE  DInv'
<1> DEFINE y == x
<1>0. /\ TypeInv /\ th \in Threads /\ Place(th) /\ Offering(th) /\ Winning(th)
      /\ th \in Workers => Owner(th)
  BY DEF GInv, DInv, Threads
<1>1. OthersHold(th)
  BY <1>0 DEF TypeInv, OthersHold, Moves, PushCall, Goto, queueVars
<1>2. /\ y \in Task
      /\ UNCHANGED <<top, buffer>>
      /\ status' = [status EXCEPT ![y] = "offered"]
  BY <1>0 DEF TypeInv, Place, Owner, Offering, Winning, Claim, At, PushPCs, PopPCs, PushCall,
     Goto, queueVars
<1>3. \A q \in Workers : Live(q)' = Live(q)
  <2>1. \A q \in Workers \ {th} : bottom'[q] = bottom[q]
    BY <1>0 DEF TypeInv, Place, PushPCs, PopPCs, PushCall, Goto, queueVars
  <2>2. th \in Workers => Hi(th)' = Hi(th)
    BY <1>0 DEF TypeInv, Place, Owner, PushPCs, PopPCs, Hi, Contested, PushCall, Goto, queueVars
  <2> QED BY <1>0, <1>1, <1>2, <2>1, <2>2, LiveSteady DEF OthersHold
<1>4. /\ status[y] = "offered" => pc[th] \in PushPCs /\ task[th] = y
      /\ status[y] = "claimed" => Claim(th) = y
      /\ status[y] # "queued" /\ status[y] # "returned"
      /\ Claim(th) \in {Null, y} /\ Claim(th)' = Null
      /\ pc'[th] \in PushPCs => task'[th] = y /\ status[y] = "fresh"
  BY <1>0, <1>2 DEF TypeInv, Place, Owner, Offering, Winning, Claim, At, PushPCs, PopPCs,
     PushCall, Goto, queueVars
<1>5. Offering(th)' /\ Winning(th)'
  BY <1>0, <1>2, <1>4 DEF TypeInv, Offering, Winning, PushPCs, PushCall, Goto, queueVars
<1>6. Counted'
  BY <1>0, <1>2, <1>4 DEF DInv, Counted, TypeInv, At, Place, PopPCs, PushCall, Goto, queueVars
<1>7. \A q \in Workers : \A i \in Live(q) : At(q, i) # y
  BY <1>4 DEF DInv, LiveQueued
<1>8. \A q \in Workers : top[q] <= top'[q]
  BY <1>0, <1>2 DEF TypeInv
<1> HIDE DEF y
<1> QED BY <1>0, <1>1, <1>2, <1>3, <1>4, <1>5, <1>6, <1>7, <1>8, DInvChange

\* push gives its task up when the deque is full.
LEMMA DInv_PushLoadTop_Full ==
    ASSUME GInv, GInv', DInv, NEW th \in Threads, ~(b[th] - top[tgt[th]] < Capacity), PushLoadTop(th)
    PROVE  DInv'
<1> DEFINE y == task[th]
<1>0. /\ TypeInv /\ th \in Threads /\ Place(th) /\ Offering(th) /\ Winning(th)
      /\ th \in Workers => Owner(th)
  BY DEF GInv, DInv, Threads
<1>1. OthersHold(th)
  BY <1>0 DEF TypeInv, OthersHold, Moves, PushLoadTop, PushLoadTopIf, Goto, queueVars
<1>2. /\ y \in Task
      /\ UNCHANGED <<top, buffer>>
      /\ status' = [status EXCEPT ![y] = "dropped"]
  BY <1>0 DEF TypeInv, Place, Owner, Offering, Winning, Claim, At, PushPCs, PopPCs,
     PushLoadTop, PushLoadTopIf, Goto, queueVars
<1>3. \A q \in Workers : Live(q)' = Live(q)
  <2>1. \A q \in Workers \ {th} : bottom'[q] = bottom[q]
    BY <1>0 DEF TypeInv, Place, PushPCs, PopPCs, PushLoadTop, PushLoadTopIf, Goto, queueVars
  <2>2. th \in Workers => Hi(th)' = Hi(th)
    BY <1>0 DEF TypeInv, Place, Owner, PushPCs, PopPCs, Hi, Contested, PushLoadTop,
       PushLoadTopIf, Goto, queueVars
  <2> QED BY <1>0, <1>1, <1>2, <2>1, <2>2, LiveSteady DEF OthersHold
<1>4. /\ status[y] = "offered" => pc[th] \in PushPCs /\ task[th] = y
      /\ status[y] = "claimed" => Claim(th) = y
      /\ status[y] # "queued" /\ status[y] # "returned"
      /\ Claim(th) \in {Null, y} /\ Claim(th)' = Null
      /\ pc'[th] \in PushPCs => task'[th] = y /\ status[y] = "fresh"
  BY <1>0, <1>2 DEF TypeInv, Place, Owner, Offering, Winning, Claim, At, PushPCs, PopPCs,
     PushLoadTop, PushLoadTopIf, Goto, queueVars
<1>5. Offering(th)' /\ Winning(th)'
  BY <1>0, <1>2, <1>4 DEF TypeInv, Offering, Winning, PushPCs, PushLoadTop, PushLoadTopIf,
     Goto, queueVars
<1>6. Counted'
  BY <1>0, <1>2, <1>4 DEF DInv, Counted, TypeInv, At, Place, PopPCs, PushLoadTop,
     PushLoadTopIf, Goto, queueVars
<1>7. \A q \in Workers : \A i \in Live(q) : At(q, i) # y
  BY <1>4 DEF DInv, LiveQueued
<1>8. \A q \in Workers : top[q] <= top'[q]
  BY <1>0, <1>2 DEF TypeInv
<1> HIDE DEF y
<1> QED BY <1>0, <1>1, <1>2, <1>3, <1>4, <1>5, <1>6, <1>7, <1>8, DInvChange

\* pop returns the task it owns since it saw top below its position.
LEMMA DInv_PopRead_Mine ==
    ASSUME GInv, GInv', DInv, NEW th \in Threads, t[th] # b[th], PopRead(th)
    PROVE  DInv'
<1> DEFINE y == At(th, b[th])
<1>0. /\ TypeInv /\ th \in Threads /\ Place(th) /\ Offering(th) /\ Winning(th)
      /\ th \in Workers => Owner(th)
  BY DEF GInv, DInv, Threads
<1>1. OthersHold(th)
  BY <1>0 DEF TypeInv, OthersHold, Moves, PopRead, Return, Goto, queueVars
<1>2. /\ y \in Task
      /\ UNCHANGED <<top, buffer>>
      /\ status' = [status EXCEPT ![y] = "returned"]
  BY <1>0 DEF TypeInv, Place, Owner, Offering, Winning, Claim, At, PushPCs, PopPCs, PopRead,
     Return, Goto, queueVars
<1>3. \A q \in Workers : Live(q)' = Live(q)
  <2>1. \A q \in Workers \ {th} : bottom'[q] = bottom[q]
    BY <1>0 DEF TypeInv, Place, PushPCs, PopPCs, PopRead, Return, Goto, queueVars
  <2>2. th \in Workers => Hi(th)' = Hi(th)
    BY <1>0 DEF TypeInv, Place, Owner, PushPCs, PopPCs, Hi, Contested, PopRead, Return, Goto,
       queueVars
  <2> QED BY <1>0, <1>1, <1>2, <2>1, <2>2, LiveSteady DEF OthersHold
<1>4. /\ status[y] = "offered" => pc[th] \in PushPCs /\ task[th] = y
      /\ status[y] = "claimed" => Claim(th) = y
      /\ status[y] # "queued" /\ status[y] # "returned"
      /\ Claim(th) \in {Null, y} /\ Claim(th)' = Null
      /\ pc'[th] \in PushPCs => task'[th] = y /\ status[y] = "fresh"
  BY <1>0, <1>2 DEF TypeInv, Place, Owner, Offering, Winning, Claim, At, PushPCs, PopPCs,
     PopRead, Return, Goto, queueVars
<1>5. Offering(th)' /\ Winning(th)'
  BY <1>0, <1>2, <1>4 DEF TypeInv, Offering, Winning, PushPCs, PopRead, Return, Goto, queueVars
<1>6. Counted'
  BY <1>0, <1>2, <1>4 DEF DInv, Counted, TypeInv, At, Place, PopPCs, PopRead, Return, Goto,
     queueVars
<1>7. \A q \in Workers : \A i \in Live(q) : At(q, i) # y
  BY <1>4 DEF DInv, LiveQueued
<1>8. \A q \in Workers : top[q] <= top'[q]
  BY <1>0, <1>2 DEF TypeInv
<1> HIDE DEF y
<1> QED BY ZenonT(60), <1>0, <1>1, <1>2, <1>3, <1>4, <1>5, <1>6, <1>7, <1>8, DInvChange

\* pop returns the task it won with the compare-exchange.
LEMMA DInv_PopRestore_Task ==
    ASSUME GInv, GInv', DInv, NEW th \in Threads, task[th] # Null, PopRestore(th)
    PROVE  DInv'
<1> DEFINE y == task[th]
<1>0. /\ TypeInv /\ th \in Threads /\ Place(th) /\ Offering(th) /\ Winning(th)
      /\ th \in Workers => Owner(th)
  BY DEF GInv, DInv, Threads
<1>1. OthersHold(th)
  BY <1>0 DEF TypeInv, OthersHold, Moves, PopRestore, Return, Goto
<1>2. /\ y \in Task
      /\ UNCHANGED <<top, buffer>>
      /\ status' = [status EXCEPT ![y] = "returned"]
  BY <1>0 DEF TypeInv, Place, Owner, Offering, Winning, Claim, At, PushPCs, PopPCs, PopRestore,
     Return, Goto
<1>3. \A q \in Workers : Live(q)' = Live(q)
  <2>1. \A q \in Workers \ {th} : bottom'[q] = bottom[q]
    BY <1>0 DEF TypeInv, Place, PushPCs, PopPCs, PopRestore, Return, Goto
  <2>2. th \in Workers => Hi(th)' = Hi(th)
    BY <1>0 DEF TypeInv, Place, Owner, PushPCs, PopPCs, Hi, Contested, PopRestore, Return, Goto
  <2> QED BY <1>0, <1>1, <1>2, <2>1, <2>2, LiveSteady DEF OthersHold
<1>4. /\ status[y] = "offered" => pc[th] \in PushPCs /\ task[th] = y
      /\ status[y] = "claimed" => Claim(th) = y
      /\ status[y] # "queued" /\ status[y] # "returned"
      /\ Claim(th) \in {Null, y} /\ Claim(th)' = Null
      /\ pc'[th] \in PushPCs => task'[th] = y /\ status[y] = "fresh"
  BY <1>0, <1>2 DEF TypeInv, Place, Owner, Offering, Winning, Claim, At, PushPCs, PopPCs,
     PopRestore, Return, Goto
<1>5. Offering(th)' /\ Winning(th)'
  BY <1>0, <1>2, <1>4 DEF TypeInv, Offering, Winning, PushPCs, PopRestore, Return, Goto
<1>6. Counted'
  BY <1>0, <1>2, <1>4 DEF DInv, Counted, TypeInv, At, Place, PopPCs, PopRestore, Return, Goto
<1>7. \A q \in Workers : \A i \in Live(q) : At(q, i) # y
  BY <1>4 DEF DInv, LiveQueued
<1>8. \A q \in Workers : top[q] <= top'[q]
  BY <1>0, <1>2 DEF TypeInv
<1> HIDE DEF y
<1> QED BY <1>0, <1>1, <1>2, <1>3, <1>4, <1>5, <1>6, <1>7, <1>8, DInvChange

\* A pop that finds more than one task owns the last position at once.
LEMMA DInv_PopLoadTop_Mine ==
    ASSUME GInv, GInv', DInv, NEW th \in Threads, top[th] < b[th], PopLoadTop(th)
    PROVE  DInv'
<1> DEFINE y == At(th, b[th])
<1>0. /\ TypeInv /\ th \in Workers /\ tgt[th] = th /\ pc[th] = "pop_top"
      /\ Winning(th) /\ b[th] = bottom[th]
      /\ b[th] \in Int /\ top[th] \in Nat /\ bottom[th] \in Int
  BY DEF GInv, TypeInv, DInv, Place, Owner, PopPCs, PopLoadTop
<1>1. OthersHold(th)
  BY <1>0 DEF TypeInv, OthersHold, Moves, PopLoadTop, Goto, queueVars
<1>2. /\ UNCHANGED <<top, bottom, buffer, tgt, b, task, returned>>
      /\ pc'[th] = "pop_read" /\ t'[th] = top[th]
  BY <1>0 DEF TypeInv, PopLoadTop, Goto, queueVars
<1>3. Hi(th) = b[th] + 1 /\ Hi(th)' = b[th]
  BY <1>0, <1>2 DEF Hi, Contested
<1>4. b[th] \in Live(th)
  BY <1>0, <1>3 DEF Live
<1>5. y \in Task /\ status[y] = "queued"
  BY <1>0, <1>4 DEF DInv, LiveQueued
<1>6. status' = [status EXCEPT ![y] = "claimed"]
  BY <1>0, <1>5 DEF PopLoadTop, At
<1>7. \A q \in Workers \ {th} : Live(q)' = Live(q)
  BY <1>1, <1>2 DEF OthersHold, Moves, Live, Hi, Contested, Threads
<1>8. Live(th)' = Live(th) \ {b[th]}
  BY <1>0, <1>2, <1>3 DEF Live
<1>9. \A q \in Workers : \A i \in Live(q)' : i \in Live(q) /\ At(q, i) # y
  BY <1>0, <1>4, <1>7, <1>8 DEF DInv, LiveDistinct
<1>10. Claim(th) = Null /\ Claim(th)' = y
  BY <1>0, <1>2 DEF Claim, At
<1>11. Offering(th)' /\ Winning(th)'
  BY <1>0, <1>2, <1>5, <1>6, <1>10 DEF TypeInv, Offering, Winning, PushPCs
<1>12. Counted'
  BY <1>0, <1>2, <1>5, <1>6 DEF DInv, Counted, TypeInv
<1>13. \A q \in Workers : top[q] <= top'[q]
  BY <1>0, <1>2 DEF TypeInv
<1>14. \A q \in Workers : \A i \in Live(q) : At(q, i) = y \/ i \in Live(q)'
  BY <1>7, <1>8
<1> HIDE DEF y
<1> QED BY <1>0, <1>1, <1>2, <1>5, <1>6, <1>9, <1>10, <1>11, <1>12, <1>13, <1>14,
           DInvChange DEF PushPCs

\* Winning the compare-exchange at top takes the task at top.  The winner is the
\* owner at its last position or a thief.
LEMMA TakeTop ==
    ASSUME GInv, GInv', DInv, NEW th \in Threads, OthersHold(th),
           NEW q \in Workers, top[q] \in Live(q), buffer' = buffer,
           NEW s \in {"claimed", "returned"},
           status' = [status EXCEPT ![At(q, top[q])] = s],
           top' = [top EXCEPT ![q] = @ + 1],
           \A r \in Workers : Hi(r)' = Hi(r),
           Claim(th) = Null,
           Claim(th)' = IF s = "claimed" THEN At(q, top[q]) ELSE Null,
           pc'[th] \notin PushPCs \cup {"pop_read", "pop_store", "pop_top", "pop_cas",
           "steal_cas"},
           Counted'
    PROVE  DInv'
<1> DEFINE y == At(q, top[q])
<1>0. TypeInv /\ top[q] \in Nat
  BY DEF GInv, TypeInv
<1>1. y \in Task /\ status[y] = "queued"
  BY DEF DInv, LiveQueued
<1>2. \A r \in Workers \ {q} : Live(r)' = Live(r)
  BY <1>0 DEF TypeInv, Live
<1>3. Live(q)' = Live(q) \ {top[q]}
  <2>1. Hi(q) \in Int
    BY HiType DEF GInv
  <2>2. top'[q] = top[q] + 1
    BY <1>0 DEF TypeInv
  <2> QED BY <1>0, <2>1, <2>2 DEF Live
<1>4. \A r \in Workers : \A i \in Live(r)' : i \in Live(r) /\ At(r, i) # y
  BY <1>2, <1>3 DEF DInv, LiveDistinct
<1>5. \A r \in Workers : \A i \in Live(r) : At(r, i) = y \/ i \in Live(r)'
  BY <1>2, <1>3
<1>6. Offering(th)'
  BY DEF Offering, PushPCs
<1>7. Winning(th)'
  <2>1. Claim(th)' # Null => status'[Claim(th)'] = "claimed"
    BY <1>0, <1>1 DEF TypeInv
  <2> QED BY <2>1 DEF Winning
<1>8. \A r \in Workers : top[r] <= top'[r]
  BY <1>0 DEF TypeInv
<1> HIDE DEF y
<1> QED BY <1>1, <1>4, <1>5, <1>6, <1>7, <1>8, DInvChange DEF y

\* The owner wins its last task.
LEMMA DInv_PopCas_Won ==
    ASSUME GInv, GInv', DInv, NEW th \in Threads, top[tgt[th]] = t[th], PopCas(th)
    PROVE  DInv'
<1>0. /\ TypeInv /\ th \in Workers /\ tgt[th] = th /\ pc[th] = "pop_cas" /\ Winning(th)
      /\ b[th] = bottom[th] /\ t[th] = b[th] /\ top[th] = b[th]
      /\ b[th] \in Int /\ top[th] \in Nat /\ bottom[th] \in Int
  BY DEF GInv, TypeInv, DInv, Place, Owner, PopPCs, PopCas
<1>1. OthersHold(th)
  BY <1>0 DEF TypeInv, OthersHold, Moves, PopCas, Goto
<1>2. /\ UNCHANGED <<bottom, buffer, tgt, b, t, task, returned>>
      /\ pc'[th] = "pop_restore" /\ top' = [top EXCEPT ![th] = @ + 1]
  BY <1>0 DEF TypeInv, PopCas, Goto
<1>3. Hi(th) = b[th] + 1 /\ \A r \in Workers : Hi(r)' = Hi(r)
  BY <1>0, <1>1, <1>2 DEF Hi, Contested, OthersHold, Moves, Threads
<1>4. top[th] \in Live(th)
  BY <1>0, <1>3 DEF Live
<1>5. task[th] = At(th, top[th]) /\ task[th] \in Task /\ status[task[th]] = "queued"
  BY <1>0, <1>4 DEF Winning, DInv, LiveQueued
<1>6. status' = [status EXCEPT ![At(th, top[th])] = "claimed"]
  BY <1>0, <1>5 DEF PopCas
<1>7. Claim(th) = Null /\ Claim(th)' = At(th, top[th])
  BY <1>0, <1>2, <1>5 DEF Claim
<1>8. Counted'
  BY <1>0, <1>2, <1>5, <1>6 DEF DInv, Counted, TypeInv
<1> QED BY <1>0, <1>1, <1>2, <1>3, <1>4, <1>6, <1>7, <1>8, TakeTop DEF PushPCs

\* A thief wins the task at top.
LEMMA DInv_StealCas_Won ==
    ASSUME GInv, GInv', DInv, NEW th \in Threads, top[tgt[th]] = t[th], StealCas(th)
    PROVE  DInv'
<1> DEFINE q == tgt[th]
<1>0. /\ TypeInv /\ Place(th) /\ Winning(th) /\ pc[th] = "steal_cas" /\ q \in Workers
      /\ top[q] \in Nat
  BY DEF GInv, TypeInv, DInv, StealCas
<1>1. OthersHold(th)
  BY <1>0 DEF TypeInv, OthersHold, Moves, StealCas, Return, Goto
<1>2. /\ UNCHANGED <<bottom, buffer, tgt, b, t>>
      /\ pc'[th] = "ret" /\ top' = [top EXCEPT ![q] = @ + 1]
  BY <1>0 DEF TypeInv, StealCas, Return, Goto
<1>3. \A r \in Workers : Hi(r)' = Hi(r)
  BY <1>0, <1>1, <1>2 DEF Hi, Contested, OthersHold, Moves, Threads
<1>4. top[q] \in Live(q)
  BY <1>0, ThiefAtLive
<1>5. task[th] = At(q, top[q]) /\ task[th] \in Task /\ status[task[th]] = "queued"
  BY <1>0, <1>4 DEF Winning, DInv, LiveQueued
<1>6. /\ status' = [status EXCEPT ![At(q, top[q])] = "returned"]
      /\ returned' = [returned EXCEPT ![At(q, top[q])] = @ + 1]
  BY <1>0, <1>5 DEF StealCas, Return
<1>7. Claim(th) = Null /\ Claim(th)' = Null
  BY <1>0, <1>2 DEF Claim
<1>8. Counted'
  BY <1>0, <1>5, <1>6 DEF DInv, Counted, TypeInv
<1> HIDE DEF q
<1> QED BY <1>0, <1>1, <1>2, <1>3, <1>4, <1>6, <1>7, <1>8, TakeTop DEF PushPCs

\* push makes its task obtainable by publishing bottom.
LEMMA DInv_PushPublish ==
    ASSUME GInv, GInv', DInv, NEW th \in Threads, PushPublish(th)
    PROVE  DInv'
<1> DEFINE y == task[th]
<1>0. /\ TypeInv /\ th \in Workers /\ tgt[th] = th /\ pc[th] = "push_publish"
      /\ Offering(th) /\ b[th] = bottom[th] /\ Bounds(th)
      /\ b[th] \in Int /\ top[th] \in Nat /\ bottom[th] \in Int
  BY DEF GInv, TypeInv, DInv, Place, Owner, PushPCs, PushPublish
<1>1. OthersHold(th)
  BY <1>0 DEF TypeInv, OthersHold, Moves, PushPublish, Goto
<1>2. /\ UNCHANGED <<top, buffer, tgt, b, t, returned>>
      /\ pc'[th] = "ret" /\ bottom' = [bottom EXCEPT ![th] = b[th] + 1]
      /\ status' = [status EXCEPT ![y] = "queued"]
  BY <1>0 DEF TypeInv, PushPublish, Goto
<1>3. Hi(th) = b[th] /\ Hi(th)' = b[th] + 1
  BY <1>0, <1>2 DEF Hi, Contested, TypeInv
<1>4. Live(th)' = Live(th) \cup {b[th]}
  BY <1>0, <1>2, <1>3 DEF Live, Bounds
<1>5. \A q \in Workers \ {th} : Live(q)' = Live(q)
  BY <1>0, <1>1, <1>2 DEF OthersHold, Moves, Live, Hi, Contested, Threads, TypeInv
<1>6. y \in Task /\ status[y] = "offered" /\ At(th, b[th]) = y
  BY <1>0 DEF Offering, PushPCs
<1>7. /\ \A x \in Task \ {y} : status'[x] = status[x]
      /\ status'[y] = "queued"
      /\ \A q, i : At(q, i)' = At(q, i)
  BY <1>0, <1>2, <1>6 DEF TypeInv, At
<1>8. \A q \in Workers : \A i \in Live(q) : At(q, i) # y
  BY <1>6 DEF DInv, LiveQueued
<1> HIDE DEF y
<1>9. LiveQueued'
  BY <1>4, <1>5, <1>6, <1>7, <1>8 DEF DInv, LiveQueued
<1>10. LiveDistinct'
  BY <1>4, <1>5, <1>6, <1>7, <1>8 DEF DInv, LiveDistinct
<1>11. \A u \in Threads : Claim(u)' = Claim(u)
  <2>1. Claim(th)' = Claim(th)
    BY <1>0, <1>2 DEF Claim
  <2> QED BY <1>1, <2>1, ClaimSteady
<1>12. ASSUME NEW u \in Threads PROVE Offering(u)' /\ Winning(u)'
  <2>1. CASE u = th
    BY <2>1, <1>0, <1>2, <1>11 DEF Offering, Winning, PushPCs, Claim
  <2>2. CASE u # th
    <3>1. /\ pc'[u] = pc[u] /\ tgt'[u] = tgt[u] /\ b'[u] = b[u] /\ t'[u] = t[u]
          /\ task'[u] = task[u] /\ Claim(u)' = Claim(u) /\ Offering(u) /\ Winning(u)
      BY <2>2, <1>1, <1>11 DEF OthersHold, Moves, DInv
    <3>2. pc[u] \in PushPCs => task[u] # y
      BY <1>0, <2>2 DEF DInv, HoldersDistinct, y, PushPCs
    <3>3. Offering(u)'
      BY <1>7, <3>1, <3>2 DEF Offering
    <3>4. Claim(u) # Null => status'[Claim(u)] = "claimed"
      <4>1. Claim(u) # Null => status[Claim(u)] = "claimed" /\ Claim(u) # y
        BY <1>6, <3>1 DEF Winning
      <4> QED BY <4>1, <1>0, <1>2, <1>6 DEF TypeInv
    <3>5. Winning(u)'
      BY <1>2, <1>7, <3>1, <3>4 DEF Winning
    <3> QED BY <3>3, <3>5
  <2> QED BY <2>1, <2>2
<1>13. HoldersDistinct'
  <2>1. \A u \in Threads \ {th} : pc'[u] = pc[u] /\ task'[u] = task[u]
    BY <1>1 DEF OthersHold, Moves
  <2>2. pc'[th] \notin PushPCs
    BY <1>2 DEF PushPCs
  <2> QED BY <1>11, <2>1, <2>2 DEF DInv, HoldersDistinct
<1>14. Counted'
  BY <1>2, <1>6, <1>7 DEF DInv, Counted
<1>15. NoTaskLost'
  <2>1. NoTaskLost
    BY DEF DInv
  <2>2. ASSUME NEW x \in Task, status'[x] = "queued"
        PROVE  \E q \in Workers : \E i \in Live(q)' : At(q, i)' = x
    <3>1. CASE x = y
      BY <1>0, <1>4, <1>6, <1>7, <3>1
    <3>2. CASE x # y
      <4>1. PICK q \in Workers : \E i \in Live(q) : At(q, i) = x
        BY <1>7, <2>1, <2>2, <3>2 DEF NoTaskLost, At
      <4> QED BY <1>4, <1>5, <1>7, <4>1
    <3> QED BY <3>1, <3>2
  <2>3. ASSUME NEW x \in Task, status'[x] = "claimed"
        PROVE  \E u \in Threads : Claim(u)' = x
    BY <1>6, <1>7, <1>11, <2>1, <2>3 DEF NoTaskLost
  <2> QED BY <2>2, <2>3 DEF NoTaskLost, At
<1> QED BY <1>9, <1>10, <1>12, <1>13, <1>14, <1>15 DEF DInv

\* DInv is kept by every step.
LEMMA DInvInductive ==
    ASSUME OnlyOwnersPush, GInv, GInv', DInv, [Next]_vars
    PROVE  DInv'
<1>1. ASSUME NEW p \in MayPush, NEW x \in Task, PushCall(p[1], p[2], x) PROVE DInv'
  <2>1. p[1] = p[2] /\ p[1] \in Workers
    BY OnlyOwnersPush, PushAssumption DEF OnlyOwnersPush
  <2> QED BY <1>1, <2>1, DInv_PushCall
<1>2. ASSUME NEW w \in Workers, PopCall(w, w) PROVE DInv'
  BY <1>2, DInv_QuietStep DEF QuietStep, Threads
<1>3. ASSUME NEW w \in Workers, NEW q \in Workers \ {w}, StealCall(w, q) PROVE DInv'
  BY <1>3, DInv_QuietStep DEF QuietStep, Threads
<1>4. ASSUME NEW th \in Threads, PushStep(th) PROVE DInv'
  <2>1. CASE PushLoadTop(th)
    <3>1. tgt[th] = th
      BY <2>1 DEF PushLoadTop, PushLoadTopIf, GInv, Place, PushPCs
    <3> QED BY <2>1, <3>1, DInv_PushLoadTop_Full, DInv_QuietStep DEF QuietStep
  <2> QED BY <1>4, <2>1, DInv_PushWrite, DInv_PushPublish DEF PushStep
<1>5. ASSUME NEW th \in Threads, PopStep(th) PROVE DInv'
  BY <1>5, DInv_QuietStep, DInv_PopLoadTop_Mine, DInv_PopRead_Mine, DInv_PopCas_Won,
     DInv_PopRestore_Task DEF PopStep, QuietStep
<1>6. ASSUME NEW th \in Threads, StealStep(th) PROVE DInv'
  BY <1>6, DInv_QuietStep, DInv_StealCas_Won DEF StealStep, QuietStep
<1>7. ASSUME NEW th \in Threads, TakeResult(th) PROVE DInv'
  BY <1>7, DInv_QuietStep DEF QuietStep
<1>8. CASE UNCHANGED vars
  BY <1>8 DEF vars, DInv, LiveQueued, LiveDistinct, Offering, Winning, HoldersDistinct,
     Counted, NoTaskLost, At, Live, Hi, Contested, Claim
<1> QED BY <1>1, <1>2, <1>3, <1>4, <1>5, <1>6, <1>7, <1>8 DEF Next, QueueStep

\* The deques start in DInv.
LEMMA DInvInit == Init => DInv
<1> SUFFICES ASSUME Init PROVE DInv
  OBVIOUS
<1>0. Workers \subseteq Threads
  BY DEF Threads
<1>1. \A q \in Workers : Live(q) = {}
  BY <1>0 DEF Init, Live, Hi, Contested
<1>2. \A th \in Threads : Claim(th) = Null
  BY DEF Init, Claim
<1>3. LiveQueued /\ LiveDistinct
  BY <1>1 DEF LiveQueued, LiveDistinct
<1>4. \A th \in Threads : Offering(th) /\ Winning(th)
  BY <1>2 DEF Init, Offering, Winning, PushPCs
<1>5. HoldersDistinct
  BY <1>2 DEF Init, HoldersDistinct, PushPCs
<1>6. Counted /\ NoTaskLost
  BY DEF Init, Counted, NoTaskLost
<1> QED BY <1>3, <1>4, <1>5, <1>6 DEF DInv

\* In every reachable state each task that push accepted has exactly one
\* holder: a live position of a deque or the thread that won it.
THEOREM TaskInvariant ==
    ASSUME OnlyOwnersPush
    PROVE  Spec => []InductiveInvariant
<1>1. Init => InductiveInvariant
  BY GInvInit, DInvInit DEF InductiveInvariant
<1>2. InductiveInvariant /\ [Next]_vars => InductiveInvariant'
  BY GInvInductive, DInvInductive DEF InductiveInvariant
<1> QED BY <1>1, <1>2, PTL DEF Spec

\* pop and steal together never hand a task out twice, in any interleaving of
\* an owner and any number of thieves.
THEOREM HandedOutOnce ==
    ASSUME OnlyOwnersPush
    PROVE  Spec => []AtMostOnce
<1>1. InductiveInvariant => AtMostOnce
  BY DEF InductiveInvariant, DInv, Counted, AtMostOnce
<1> QED BY <1>1, TaskInvariant, PTL

\* A task that push accepted stays obtainable until pop or steal returns it.
THEOREM NothingLost ==
    ASSUME OnlyOwnersPush
    PROVE  Spec => []NoTaskLost
<1>1. InductiveInvariant => NoTaskLost
  BY DEF InductiveInvariant, DInv
<1> QED BY <1>1, TaskInvariant, PTL

(***************************************************************************)
(* What a step may never do.                                               *)
(***************************************************************************)
DropStep ==
    \A x \in Task :
        status[x] = "offered" /\ status'[x] = "dropped" =>
            \E th \in Threads : /\ task[th] = x
                                /\ Hi(tgt[th]) - top[tgt[th]] >= Capacity

PopFailStep ==
    \A w \in Workers :
        pc[w] \in {"pop_top", "pop_cas"} /\ pc'[w] = "pop_restore" /\ task'[w] = Null
            => top[w] = Hi(w)

\* Only a push that finds the deque full gives a task the status "dropped".
LEMMA DropStepHolds ==
    ASSUME GInv, [Next]_vars
    PROVE  DropStep
<1> SUFFICES ASSUME NEW x \in Task, status[x] = "offered", status'[x] = "dropped"
             PROVE  \E th \in Threads : /\ task[th] = x
                                        /\ Hi(tgt[th]) - top[tgt[th]] >= Capacity
  BY DEF DropStep
<1>0. status \in [Task -> Status]
  BY SMTT(30) DEF GInv, TypeInv
<1>1. \E th \in Threads : PushLoadTop(th)
  BY <1>0 DEF Next, QueueStep, PushStep, PopStep, StealStep, PushCall, PushWrite, PushPublish,
     PopCall, PopStoreBottom, PopLoadTop, PopRead, PopCas, PopRestore, StealCall,
     StealLoadBottom, StealRead, StealCas, TakeResult, Return, vars
<1>2. PICK th \in Threads : PushLoadTop(th)
  BY <1>1
<1>3. task[th] = x /\ b[th] - top[tgt[th]] >= Capacity
  BY <1>0, <1>2 DEF PushLoadTop, PushLoadTopIf
<1>4. th \in Workers /\ tgt[th] = th /\ b[th] = bottom[th] /\ Hi(th) = bottom[th]
  BY <1>2 DEF PushLoadTop, PushLoadTopIf, GInv, Place, Owner, PushPCs, Hi, Contested
<1> QED BY <1>3, <1>4

\* A pop gives up only after it saw top past its position.
LEMMA PopFailStepHolds ==
    ASSUME InductiveInvariant, [Next]_vars
    PROVE  PopFailStep
<1> SUFFICES ASSUME NEW w \in Workers, pc[w] \in {"pop_top", "pop_cas"},
                    pc'[w] = "pop_restore", task'[w] = Null
             PROVE  top[w] = Hi(w)
  BY DEF PopFailStep
<1>0. /\ GInv /\ DInv /\ TypeInv /\ w \in Threads /\ tgt[w] = w /\ Owner(w) /\ Bounds(w)
      /\ Winning(w) /\ b[w] = bottom[w] /\ b[w] \in Int /\ top[w] \in Nat
      /\ Hi(w) = b[w] + 1
  BY DEF InductiveInvariant, GInv, DInv, TypeInv, Place, Owner, PopPCs, Threads, Hi, Contested
<1>1. PopLoadTop(w) \/ PopCas(w)
  <2>0. pc \in [Threads -> PushPCs \cup PopPCs \cup StealPCs \cup {"idle", "ret"}]
    BY <1>0 DEF TypeInv
  <2>1. ASSUME NEW p \in MayPush, NEW x \in Task, PushCall(p[1], p[2], x) PROVE FALSE
    BY <2>0, <2>1 DEF PushCall, Goto
  <2>2. ASSUME NEW v \in Workers, NEW q \in Workers, PopCall(v, v) \/ StealCall(v, q)
        PROVE  FALSE
    <3>1. pc' = [pc EXCEPT ![v] = "pop_store"] \/ pc' = [pc EXCEPT ![v] = "steal_bottom"]
      BY <2>2 DEF PopCall, StealCall, Goto
    <3> QED BY <1>0, <2>0, <3>1
  <2>3. ASSUME NEW th \in Threads, QueueStep(th) \/ TakeResult(th), th # w PROVE FALSE
    <3>1. pc'[w] = pc[w]
      BY <1>0, <2>0, <2>3 DEF QueueStep, PushStep, PushLoadTop, PushLoadTopIf, PushWrite,
         PushPublish,
         PopStep, PopStoreBottom, PopLoadTop, PopRead, PopCas, PopRestore, StealStep,
         StealLoadBottom, StealRead, StealCas, TakeResult, Return, Goto
    <3> QED BY <3>1
  <2>4. ASSUME QueueStep(w) \/ TakeResult(w) PROVE PopLoadTop(w) \/ PopCas(w)
    BY <2>4 DEF QueueStep, PushStep, PushLoadTop, PushLoadTopIf, PushWrite, PushPublish,
       PopStep, PopStoreBottom, PopRead, PopRestore, StealStep, StealLoadBottom, StealRead,
       StealCas, TakeResult
  <2>5. CASE UNCHANGED vars
    BY <2>5 DEF vars
  <2> QED BY <2>1, <2>2, <2>3, <2>4, <2>5 DEF Next
<1>2. CASE PopLoadTop(w)
  BY <1>0, <1>2 DEF PopLoadTop, Goto, TypeInv, Bounds
<1>3. CASE PopCas(w)
  <2>1. CASE top[w] = t[w]
    <3>1. t[w] = b[w] /\ task'[w] = task[w] /\ task[w] = At(w, b[w])
      BY <1>0, <1>3, <2>1 DEF PopCas, Owner, Winning
    <3>2. b[w] \in Live(w)
      BY <1>0, <2>1, <3>1 DEF Live
    <3> QED BY <1>0, <3>1, <3>2 DEF DInv, LiveQueued
  <2>2. CASE top[w] # t[w]
    BY <1>0, <1>3, <2>2 DEF PopCas, Owner, Bounds, TypeInv
  <2> QED BY <2>1, <2>2
<1> QED BY <1>1, <1>2, <1>3

\* push gives a task up only when its deque holds Capacity tasks.
THEOREM DropsExplained ==
    ASSUME OnlyOwnersPush
    PROVE  Spec => DropsOnlyWhenFull
<1>1. GInv /\ [Next]_vars => [DropStep]_vars
  BY DropStepHolds
<1>2. [][DropStep]_vars => DropsOnlyWhenFull
  BY PTL DEF DropStep, DropsOnlyWhenFull
<1> QED BY <1>1, <1>2, IndexInvariant, PTL DEF Spec

\* pop comes back with nothing only when its deque is empty at that instant.
THEOREM PopFailuresExplained ==
    ASSUME OnlyOwnersPush
    PROVE  Spec => PopFailsOnlyWhenEmpty
<1>1. InductiveInvariant /\ [Next]_vars => [PopFailStep]_vars
  BY PopFailStepHolds
<1>2. [][PopFailStep]_vars => PopFailsOnlyWhenEmpty
  BY PTL DEF PopFailStep, PopFailsOnlyWhenEmpty
<1> QED BY <1>1, <1>2, TaskInvariant, PTL DEF Spec

(***************************************************************************)
(* What one step of an operation may do to a task, for the modules that    *)
(* use the deques.                                                         *)
(***************************************************************************)
\* The task x goes from one of the states "from" to the state "to".
Changes(x, from, to) == status[x] \in from /\ status' = [status EXCEPT ![x] = to]

\* A step of pop or steal leaves the tasks alone, wins a queued task or hands out
\* a task that was queued or won; without a task it comes back with nullptr.
LEMMA TakeOutcome ==
    ASSUME GInv, DInv, NEW th \in Threads, PopStep(th) \/ StealStep(th)
    PROVE  \/ /\ status' = status
              /\ pc'[th] = "ret" => task'[th] = Null \/ (pc[th] = "steal_bottom" /\ task' = task)
           \/ /\ pc'[th] # "ret"
              /\ \E x \in Task : Changes(x, {"queued"}, "claimed")
           \/ /\ pc'[th] = "ret" /\ task'[th] \in Task
              /\ Changes(task'[th], {"queued", "claimed"}, "returned")
<1>0. TypeInv /\ th \in Threads /\ Place(th) /\ Winning(th) /\ (th \in Workers => Owner(th))
  BY DEF GInv, DInv
<1>1. CASE PopStoreBottom(th) \/ StealLoadBottom(th) \/ StealRead(th)
  BY <1>0, <1>1 DEF TypeInv, PopStoreBottom, StealLoadBottom, StealRead, Goto
<1>2. CASE PopLoadTop(th)
  <2>0. /\ th \in Workers /\ tgt[th] = th /\ pc[th] = "pop_top" /\ b[th] = bottom[th]
        /\ b[th] \in Int /\ top[th] \in Nat /\ Hi(th) = b[th] + 1
    BY <1>0, <1>2 DEF TypeInv, Place, Owner, PopPCs, PopLoadTop, Hi, Contested
  <2>1. pc'[th] # "ret"
    BY <1>0, <1>2 DEF TypeInv, PopLoadTop, Goto
  <2>2. CASE top[th] < b[th]
    <3>1. b[th] \in Live(th)
      BY <2>0, <2>2 DEF Live
    <3>2. At(th, b[th]) \in Task /\ status[At(th, b[th])] = "queued"
      BY <2>0, <3>1 DEF DInv, LiveQueued
    <3>3. status' = [status EXCEPT ![At(th, b[th])] = "claimed"]
      BY <1>2, <2>0, <2>2, <3>2 DEF PopLoadTop, At
    <3> QED BY <2>1, <3>2, <3>3 DEF Changes
  <2>3. CASE ~(top[th] < b[th])
    BY <1>2, <2>0, <2>1, <2>3 DEF PopLoadTop
  <2> QED BY <2>2, <2>3
<1>3. CASE PopRead(th)
  <2>1. CASE t[th] = b[th]
    BY <1>0, <1>3, <2>1 DEF TypeInv, PopRead, Goto
  <2>2. CASE t[th] # b[th]
    <3>1. th \in Workers /\ tgt[th] = th /\ At(th, b[th]) \in Task /\ status[At(th, b[th])] = "claimed"
      BY <1>0, <1>3, <2>2 DEF TypeInv, Place, Owner, PopPCs, Winning, Claim, At, PopRead
    <3>2. /\ status' = [status EXCEPT ![At(th, b[th])] = "returned"]
          /\ task'[th] = At(th, b[th]) /\ pc'[th] = "ret"
      BY <1>0, <1>3, <2>2, <3>1 DEF TypeInv, PopRead, Return, Goto, At
    <3> QED BY <3>1, <3>2 DEF Changes
  <2> QED BY <2>1, <2>2
<1>4. CASE PopCas(th)
  <2>0. pc'[th] # "ret" /\ th \in Workers /\ tgt[th] = th
    BY <1>0, <1>4 DEF TypeInv, PopCas, Goto, Place, PopPCs
  <2>1. CASE top[th] = t[th] /\ task[th] # Null
    <3>1. t[th] = b[th] /\ b[th] = bottom[th] /\ Hi(th) = b[th] + 1 /\ b[th] \in Int
      BY <1>0, <1>4, <2>0 DEF TypeInv, Owner, PopPCs, PopCas, Hi, Contested
    <3>2. b[th] \in Live(th)
      BY <2>1, <3>1 DEF Live
    <3>3. task[th] \in Task /\ status[task[th]] = "queued"
      BY <1>0, <1>4, <2>0, <3>2 DEF Winning, PopCas, DInv, LiveQueued
    <3> QED BY <1>4, <2>0, <2>1, <3>3 DEF PopCas, Changes
  <2>2. CASE ~(top[th] = t[th] /\ task[th] # Null)
    BY <1>4, <2>0, <2>2 DEF PopCas
  <2> QED BY <2>1, <2>2
<1>5. CASE PopRestore(th)
  <2>0. pc'[th] = "ret" /\ task'[th] = task[th] /\ task[th] \in Task \cup {Null} /\ pc[th] = "pop_restore"
    BY <1>0, <1>5 DEF TypeInv, PopRestore, Return, Goto
  <2>1. CASE task[th] = Null
    BY <1>5, <2>0, <2>1 DEF PopRestore, Return
  <2>2. CASE task[th] # Null
    <3>1. status[task[th]] = "claimed"
      BY <1>0, <2>0, <2>2 DEF Winning, Claim
    <3> QED BY <1>5, <2>0, <2>2, <3>1 DEF PopRestore, Return, Changes
  <2> QED BY <2>1, <2>2
<1>6. CASE StealCas(th)
  <2>1. CASE top[tgt[th]] = t[th]
    <3>1. tgt[th] \in Workers /\ t[th] \in Live(tgt[th])
      BY <1>6, <2>1, ThiefAtLive DEF StealCas
    <3>2. task[th] \in Task /\ status[task[th]] = "queued"
      BY <1>0, <1>6, <2>1, <3>1 DEF Winning, StealCas, DInv, LiveQueued
    <3> QED BY <1>0, <1>6, <2>1, <3>2 DEF TypeInv, StealCas, Return, Goto, Changes
  <2>2. CASE top[tgt[th]] # t[th]
    BY <1>0, <1>6, <2>2 DEF TypeInv, StealCas, Return, Goto
  <2> QED BY <2>1, <2>2
<1> QED BY <1>1, <1>2, <1>3, <1>4, <1>5, <1>6 DEF PopStep, StealStep

(***************************************************************************)
(* The deques implement the atomic ones of TaskDeque.                      *)
(***************************************************************************)
AllItems == [q \in Workers |-> Items(q)]
Taken    == {x \in Task : status[x] \in {"claimed", "returned"}}
Dropped  == {x \in Task : status[x] = "dropped"}

(***************************************************************************)
(* The sequence a deque stands for.                                        *)
(***************************************************************************)
\* What a deque holds is a sequence of tasks, front first, and a task in it
\* counts neither as taken nor as dropped.
LEMMA ItemsAre ==
    ASSUME GInv, DInv, NEW q \in Workers
    PROVE  /\ top[q] \in Nat /\ Hi(q) \in Int /\ top[q] <= Hi(q) /\ Hi(q) - top[q] \in Nat
           /\ Items(q) \in Seq(Task)
           /\ Len(Items(q)) = Hi(q) - top[q]
           /\ \A k \in 1 .. Hi(q) - top[q] :
                 /\ top[q] + k - 1 \in Live(q)
                 /\ Items(q)[k] = At(q, top[q] + k - 1)
                 /\ Items(q)[k] \in Task /\ status[Items(q)[k]] = "queued"
<1>1. top[q] \in Nat /\ top[q] <= Hi(q)
  BY DEF GInv, TypeInv, Bounds
<1>2. Hi(q) \in Int
  BY HiType DEF GInv
<1> DEFINE n == Hi(q) - top[q]
<1>3. n \in Nat
  BY <1>1, <1>2
<1>4. \A k \in 1 .. n : top[q] + k - 1 \in Live(q)
  BY <1>1, <1>2 DEF Live
<1> HIDE DEF n
<1>5. \A k \in 1 .. n : Items(q)[k] = At(q, top[q] + k - 1)
  BY DEF Items, At, n
<1>6. \A k \in 1 .. n : Items(q)[k] \in Task /\ status[Items(q)[k]] = "queued"
  BY <1>4, <1>5 DEF DInv, LiveQueued
<1>7. Items(q) = [k \in 1 .. n |-> Items(q)[k]]
  BY DEF Items, n
<1>8. Items(q) \in [1 .. n -> Task]
  BY <1>6, <1>7, Zenon
<1>9. Items(q) \in Seq(Task) /\ Len(Items(q)) = n
  BY <1>3, <1>8
<1> QED BY <1>1, <1>2, <1>3, <1>4, <1>5, <1>6, <1>9 DEF n

\* A deque whose ends and live slots stay keeps its sequence.
LEMMA ItemsSteady ==
    ASSUME GInv, NEW q \in Workers, top'[q] = top[q], Hi(q)' = Hi(q),
           \A i \in Live(q) : At(q, i)' = At(q, i)
    PROVE  Items(q)' = Items(q)
<1>1. top[q] \in Int /\ Hi(q) \in Int
  BY HiType DEF GInv, TypeInv
<1>2. ASSUME NEW k \in 1 .. Hi(q) - top[q]
      PROVE  buffer'[q][Slot(top[q] + k - 1)] = buffer[q][Slot(top[q] + k - 1)]
  <2>1. top[q] + k - 1 \in Live(q)
    BY <1>1 DEF Live
  <2> QED BY <2>1 DEF At
<1> QED BY <1>2 DEF Items

\* A task that is neither queued, claimed, returned nor dropped is unknown to
\* the deques.
LEMMA UnknownTask ==
    ASSUME GInv, DInv, NEW x \in Task, status[x] = "offered"
    PROVE  ~Deque!Known(x)
<1>1. x \notin Taken \cup Dropped
  BY DEF Taken, Dropped
<1>2. ASSUME NEW q \in Workers, NEW i \in DOMAIN Items(q) PROVE Items(q)[i] # x
  <2>1. i \in 1 .. Hi(q) - top[q]
    BY DEF Items
  <2> QED BY <2>1, ItemsAre
<1> QED BY <1>1, <1>2 DEF Deque!Known, Taken, Dropped

\* A step that keeps every sequence, what is taken and what is dropped is a
\* stutter of the atomic deques.
LEMMA Stutter ==
    ASSUME \A q \in Workers : Items(q)' = Items(q), Taken' = Taken, Dropped' = Dropped
    PROVE  UNCHANGED Deque!vars
<1>1. AllItems' = AllItems
  BY DEF AllItems
<1> QED BY <1>1 DEF Deque!vars, AllItems, Taken, Dropped

\* A deque the step of th does not move keeps its sequence.
LEMMA ItemsOfOthers ==
    ASSUME GInv, NEW th \in Threads, OthersHold(th), NEW q \in Workers \ {th},
           bottom'[q] = bottom[q], top'[q] = top[q]
    PROVE  Items(q)' = Items(q)
<1>1. Hi(q)' = Hi(q)
  BY DEF OthersHold, Moves, Hi, Contested, Threads
<1>2. buffer'[q] = buffer[q]
  BY DEF OthersHold
<1> QED BY <1>1, <1>2 DEF Items

(***************************************************************************)
(* The steps at which the operations do not take effect.                   *)
(***************************************************************************)
\* The steps that move no task.
LEMMA Quiet_Stutters ==
    ASSUME GInv, DInv, NEW th \in Threads, QuietStep(th)
    PROVE  UNCHANGED Deque!vars
<1> USE DEF QuietStep, PopCall, StealCall, StealLoadBottom, StealRead, TakeResult, PopStoreBottom,
        PushLoadTop, PushLoadTopIf, PopLoadTop, PopRead, PopCas, PopRestore, StealCas, Return,
        Goto, queueVars
<1>0. /\ TypeInv /\ th \in Threads /\ Place(th)
      /\ th \in Workers => Owner(th)
  BY DEF GInv, DInv, Threads
<1>1. OthersHold(th)
  BY SMTT(30), <1>0 DEF TypeInv, OthersHold, Moves
<1>2. UNCHANGED <<top, buffer, status, returned>>
  BY <1>0 DEF TypeInv, Place, PushPCs, PopPCs
<1>3. \A q \in Workers \ {th} : bottom'[q] = bottom[q]
  BY <1>0 DEF TypeInv, Place, PushPCs, PopPCs
<1>4. th \in Workers => Hi(th)' = Hi(th)
  BY SMTT(30), <1>0 DEF TypeInv, Place, Owner, PushPCs, PopPCs, StealPCs, Hi, Contested
<1> HIDE DEF QuietStep, PopCall, StealCall, StealLoadBottom, StealRead, TakeResult, PopStoreBottom,
        PushLoadTop, PushLoadTopIf, PopLoadTop, PopRead, PopCas, PopRestore, StealCas
<1>5. ASSUME NEW q \in Workers PROVE Items(q)' = Items(q)
  <2>1. CASE q = th
    BY <1>2, <1>4, <2>1, ItemsSteady DEF At
  <2>2. CASE q # th
    BY <1>1, <1>2, <1>3, <2>2, ItemsOfOthers
  <2> QED BY <2>1, <2>2
<1>6. Taken' = Taken /\ Dropped' = Dropped
  BY <1>2 DEF Taken, Dropped
<1> QED BY <1>5, <1>6, Stutter

\* The caller of push offers its task: no deque knows it yet.
LEMMA PushCall_Stutters ==
    ASSUME GInv, DInv, NEW th \in Workers, NEW x \in Task, PushCall(th, th, x)
    PROVE  UNCHANGED Deque!vars
<1>0. TypeInv /\ th \in Threads
  BY DEF GInv, Threads
<1>1. OthersHold(th) /\ UNCHANGED <<top, bottom, buffer>>
  BY <1>0 DEF TypeInv, OthersHold, Moves, PushCall, Goto, queueVars
<1>2. Hi(th)' = Hi(th)
  BY <1>0 DEF TypeInv, Hi, Contested, PushCall, Goto, queueVars
<1>3. ASSUME NEW q \in Workers PROVE Items(q)' = Items(q)
  <2>1. CASE q = th
    BY <1>1, <1>2, <2>1, ItemsSteady DEF At
  <2>2. CASE q # th
    BY <1>0, <1>1, <2>2, ItemsOfOthers
  <2> QED BY <2>1, <2>2
<1>4. Taken' = Taken /\ Dropped' = Dropped
  BY <1>0 DEF TypeInv, Taken, Dropped, PushCall
<1> QED BY <1>3, <1>4, Stutter

\* push writes a slot that no live position uses.
LEMMA PushWrite_Stutters ==
    ASSUME GInv, DInv, NEW th \in Threads, PushWrite(th)
    PROVE  UNCHANGED Deque!vars
<1>0. /\ TypeInv /\ th \in Workers /\ tgt[th] = th /\ pc[th] = "push_write"
      /\ b[th] = bottom[th] /\ b[th] - top[th] < Capacity
      /\ b[th] \in Int /\ top[th] \in Nat /\ bottom[th] \in Int
  BY DEF GInv, TypeInv, DInv, Place, Owner, PushPCs, PushWrite
<1>1. OthersHold(th) /\ UNCHANGED <<top, bottom, status, tgt>> /\ pc'[th] = "push_publish"
  BY <1>0 DEF TypeInv, OthersHold, Moves, PushWrite, Goto
<1>2. Hi(th) = bottom[th] /\ Hi(th)' = bottom[th]
  BY <1>0, <1>1 DEF Hi, Contested
<1>3. ASSUME NEW i \in Live(th) PROVE At(th, i)' = At(th, i)
  <2>1. i \in Int /\ i < b[th] /\ b[th] - i < Capacity
    BY <1>0, <1>2 DEF Live
  <2>2. Slot(i) # Slot(b[th])
    BY <1>0, <2>1, SlotDistinct
  <2> QED BY <1>0, <2>2 DEF At, TypeInv, PushWrite
<1>4. ASSUME NEW q \in Workers PROVE Items(q)' = Items(q)
  <2>1. CASE q = th
    BY <1>1, <1>2, <1>3, <2>1, ItemsSteady
  <2>2. CASE q # th
    BY <1>1, <2>2, ItemsOfOthers
  <2> QED BY <2>1, <2>2
<1>5. Taken' = Taken /\ Dropped' = Dropped
  BY <1>1 DEF Taken, Dropped
<1> QED BY <1>4, <1>5, Stutter

\* pop returns a task it had already won.
LEMMA PopReturn_Stutters ==
    ASSUME GInv, DInv, NEW th \in Threads,
           \/ PopRead(th) /\ t[th] # b[th]
           \/ PopRestore(th) /\ task[th] # Null
    PROVE  UNCHANGED Deque!vars
<1> USE DEF PopRead, PopRestore, Return, Goto, queueVars
<1>0. TypeInv /\ th \in Workers /\ tgt[th] = th /\ Owner(th) /\ Winning(th)
  BY DEF GInv, DInv, Place, PushPCs, PopPCs
<1>1. OthersHold(th) /\ UNCHANGED <<top, buffer>>
  BY <1>0 DEF TypeInv, OthersHold, Moves
<1>2. \A q \in Workers \ {th} : bottom'[q] = bottom[q]
  BY <1>0 DEF TypeInv
<1>3. Hi(th)' = Hi(th)
  BY <1>0 DEF TypeInv, Owner, PopPCs, Hi, Contested
<1>4. PICK y \in Task : status[y] = "claimed" /\ status' = [status EXCEPT ![y] = "returned"]
  <2>1. CASE PopRead(th) /\ t[th] # b[th]
    <3>1. At(th, b[th]) \in Task /\ status[At(th, b[th])] = "claimed"
      BY <1>0, <2>1 DEF TypeInv, Owner, Winning, Claim, At
    <3>2. status' = [status EXCEPT ![At(th, b[th])] = "returned"]
      BY <1>0, <2>1, <3>1 DEF At
    <3> QED BY <3>1, <3>2
  <2>2. CASE PopRestore(th) /\ task[th] # Null
    BY <1>0, <2>2 DEF TypeInv, Winning, Claim
  <2> QED BY <2>1, <2>2
<1> HIDE DEF PopRead, PopRestore
<1>5. ASSUME NEW q \in Workers PROVE Items(q)' = Items(q)
  <2>1. CASE q = th
    BY <1>1, <1>3, <2>1, ItemsSteady DEF At
  <2>2. CASE q # th
    BY <1>1, <1>2, <2>2, ItemsOfOthers
  <2> QED BY <2>1, <2>2
<1>6. Taken' = Taken /\ Dropped' = Dropped
  BY <1>0, <1>4 DEF TypeInv, Taken, Dropped
<1> QED BY <1>5, <1>6, Stutter

(***************************************************************************)
(* The steps at which the operations take effect.                          *)
(***************************************************************************)
\* One deque's sequence changes to s, the others' stay.
LEMMA OneDeque ==
    ASSUME NEW q \in Workers, NEW s, Items(q)' = s,
           \A r \in Workers \ {q} : Items(r)' = Items(r)
    PROVE  AllItems' = [AllItems EXCEPT ![q] = s]
  BY DEF AllItems

\* push takes effect when it publishes bottom: its task becomes the last one.
LEMMA PushPublish_PushesBack ==
    ASSUME GInv, DInv, NEW th \in Threads, PushPublish(th)
    PROVE  th \in Workers /\ \E x \in Task : Deque!PushBack(th, x)
<1> DEFINE x == task[th]
<1>0. /\ TypeInv /\ th \in Workers /\ tgt[th] = th /\ pc[th] = "push_publish"
      /\ Offering(th) /\ b[th] = bottom[th] /\ b[th] - top[th] < Capacity
      /\ b[th] \in Int /\ top[th] \in Nat /\ bottom[th] \in Int
  BY DEF GInv, TypeInv, DInv, Place, Owner, PushPCs, PushPublish
<1>1. /\ OthersHold(th) /\ UNCHANGED <<top, buffer, tgt>> /\ pc'[th] = "ret"
      /\ bottom' = [bottom EXCEPT ![th] = b[th] + 1]
      /\ status' = [status EXCEPT ![x] = "queued"]
  BY <1>0 DEF TypeInv, OthersHold, Moves, PushPublish, Goto
<1>2. Hi(th) = b[th] /\ Hi(th)' = b[th] + 1
  BY <1>0, <1>1 DEF Hi, Contested, TypeInv
<1>3. x \in Task /\ status[x] = "offered" /\ At(th, b[th]) = x
  BY <1>0 DEF Offering, PushPCs
<1> HIDE DEF x
<1>4. /\ Items(th) \in Seq(Task) /\ Len(Items(th)) = b[th] - top[th]
      /\ b[th] - top[th] \in Nat
  BY <1>0, <1>2, ItemsAre
<1>5. Items(th)' = Append(Items(th), x)
  <2> DEFINE n == b[th] - top[th]
  <2>1. Items(th)' = [k \in 1 .. n + 1 |-> buffer[th][Slot(top[th] + k - 1)]]
    BY <1>0, <1>1, <1>2 DEF Items
  <2>2. Items(th) = [k \in 1 .. n |-> buffer[th][Slot(top[th] + k - 1)]]
    BY <1>2 DEF Items
  <2>3. buffer[th][Slot(top[th] + (n + 1) - 1)] = x
    <3>1. top[th] + (n + 1) - 1 = b[th]
      BY <1>0
    <3> QED BY <1>3, <3>1 DEF At
  <2> HIDE DEF n
  <2>4. n \in Nat /\ Len(Items(th)) = n
    BY <1>4 DEF n
  <2> DEFINE s == Append(Items(th), x)
  <2>5. s \in Seq(Task) /\ Len(s) = n + 1 /\ s[n + 1] = x
    BY <1>3, <1>4, <2>4
  <2>6. \A k \in 1 .. n : s[k] = Items(th)[k]
    BY <1>3, <1>4, <2>4
  <2>7. \A k \in 1 .. n + 1 : s[k] = buffer[th][Slot(top[th] + k - 1)]
    BY <2>2, <2>3, <2>4, <2>5, <2>6
  <2>8. s = [k \in 1 .. n + 1 |-> s[k]]
    <3> HIDE DEF s
    <3> QED BY <2>5
  <2> HIDE DEF s
  <2> QED BY <2>1, <2>7, <2>8 DEF s
<1>6. AllItems' = [AllItems EXCEPT ![th] = Append(Items(th), x)]
  BY <1>0, <1>1, <1>5, OneDeque, ItemsOfOthers DEF TypeInv
<1>7. Taken' = Taken /\ Dropped' = Dropped
  BY <1>0, <1>1, <1>3 DEF TypeInv, Taken, Dropped
<1>8. ~Deque!Known(x)
  BY <1>3, UnknownTask
<1>9. AllItems[th] = Items(th)
  BY <1>0 DEF AllItems
<1> QED BY <1>0, <1>3, <1>4, <1>6, <1>7, <1>8, <1>9
        DEF Deque!PushBack, AllItems, Taken, Dropped

\* push drops its task when the deque is full.
LEMMA PushLoadTop_Drops ==
    ASSUME GInv, DInv, NEW th \in Threads, PushLoadTop(th), ~(b[th] - top[tgt[th]] < Capacity)
    PROVE  th \in Workers /\ \E x \in Task : Deque!Drop(th, x)
<1> DEFINE x == task[th]
<1>0. /\ TypeInv /\ th \in Workers /\ tgt[th] = th /\ pc[th] = "push_top"
      /\ Offering(th) /\ b[th] = bottom[th] /\ Bounds(th)
      /\ b[th] \in Int /\ top[th] \in Nat /\ bottom[th] \in Int
  BY DEF GInv, TypeInv, DInv, Place, Owner, PushPCs, PushLoadTop, PushLoadTopIf
<1>1. /\ OthersHold(th) /\ UNCHANGED <<top, bottom, buffer, tgt>> /\ pc'[th] = "ret"
      /\ status' = [status EXCEPT ![x] = "dropped"]
  BY <1>0 DEF TypeInv, OthersHold, Moves, PushLoadTop, PushLoadTopIf, Goto, queueVars
<1>2. Hi(th) = b[th] /\ Hi(th)' = b[th]
  BY <1>0, <1>1 DEF Hi, Contested
<1>3. x \in Task /\ status[x] = "offered"
  BY <1>0 DEF Offering, PushPCs
<1> HIDE DEF x
<1>4. Len(Items(th)) = Capacity
  <2>1. Len(Items(th)) = b[th] - top[th]
    BY <1>0, <1>2, ItemsAre
  <2>2. b[th] - top[th] = Capacity
    BY <1>0, <1>2 DEF Bounds
  <2> QED BY <2>1, <2>2
<1>5. ASSUME NEW q \in Workers PROVE Items(q)' = Items(q)
  <2>1. CASE q = th
    BY <1>1, <1>2, <2>1, ItemsSteady DEF At
  <2>2. CASE q # th
    BY <1>1, <2>2, ItemsOfOthers
  <2> QED BY <2>1, <2>2
<1>6. AllItems' = AllItems /\ AllItems[th] = Items(th)
  BY <1>0, <1>5 DEF AllItems
<1>7. Taken' = Taken /\ Dropped' = Dropped \cup {x}
  BY <1>0, <1>1, <1>3 DEF TypeInv, Taken, Dropped
<1>8. ~Deque!Known(x)
  BY <1>3, UnknownTask
<1> QED BY <1>0, <1>3, <1>4, <1>6, <1>7, <1>8 DEF Deque!Drop, AllItems, Taken, Dropped

\* Taking the task x from one deque takes it out of its sequence and adds it to
\* what is taken.
LEMMA TakenGrows ==
    ASSUME TypeInv, NEW x \in Task, status[x] = "queued",
           NEW s \in {"claimed", "returned"}, status' = [status EXCEPT ![x] = s]
    PROVE  Taken' = Taken \cup {x} /\ Dropped' = Dropped
  BY DEF TypeInv, Taken, Dropped

\* Cutting the last position off a deque leaves the front of its sequence.
LEMMA CutBack ==
    ASSUME GInv, DInv, NEW q \in Workers, top'[q] = top[q], buffer'[q] = buffer[q],
           Hi(q)' = Hi(q) - 1, top[q] < Hi(q)
    PROVE  /\ Items(q) # <<>>
           /\ Items(q)[Len(Items(q))] = At(q, Hi(q) - 1)
           /\ Items(q)' = SubSeq(Items(q), 1, Len(Items(q)) - 1)
<1> DEFINE n == Hi(q) - top[q]
<1>1. /\ Items(q) \in Seq(Task) /\ Len(Items(q)) = n /\ n \in Nat /\ top[q] \in Nat
      /\ Hi(q) \in Int
      /\ \A k \in 1 .. n : Items(q)[k] = At(q, top[q] + k - 1)
  BY ItemsAre
<1>2. n >= 1 /\ top[q] + n - 1 = Hi(q) - 1 /\ Hi(q)' - top'[q] = n - 1
  BY <1>1
<1>3. Items(q)' = [k \in 1 .. n - 1 |-> buffer[q][Slot(top[q] + k - 1)]]
  BY <1>2 DEF Items
<1> HIDE DEF n
<1>4. Items(q)[n] = At(q, Hi(q) - 1)
  BY <1>1, <1>2
<1> DEFINE s == SubSeq(Items(q), 1, n - 1)
<1>5. s = [k \in 1 .. n - 1 |-> Items(q)[k]]
  BY <1>1, <1>2
<1>6. \A k \in 1 .. n - 1 : Items(q)[k] = buffer[q][Slot(top[q] + k - 1)]
  BY <1>1, <1>2 DEF At
<1> HIDE DEF s
<1>7. Items(q)' = s
  BY <1>3, <1>5, <1>6
<1>8. Items(q) # <<>>
  BY <1>1, <1>2
<1> QED BY <1>1, <1>4, <1>7, <1>8 DEF s

\* Raising top cuts the front of the sequence off.
LEMMA CutFront ==
    ASSUME GInv, DInv, NEW q \in Workers, top'[q] = top[q] + 1, buffer'[q] = buffer[q],
           Hi(q)' = Hi(q), top[q] < Hi(q)
    PROVE  /\ Items(q) # <<>>
           /\ Head(Items(q)) = At(q, top[q])
           /\ Items(q)' = Tail(Items(q))
<1> DEFINE n == Hi(q) - top[q]
<1>1. /\ Items(q) \in Seq(Task) /\ Len(Items(q)) = n /\ n \in Nat /\ top[q] \in Nat
      /\ Hi(q) \in Int
      /\ \A k \in 1 .. n : Items(q)[k] = At(q, top[q] + k - 1)
  BY ItemsAre
<1>2. n >= 1 /\ top[q] + 1 - 1 = top[q] /\ Hi(q)' - top'[q] = n - 1
  <2>1. top[q] \in Int /\ Hi(q) \in Int
    BY <1>1
  <2> QED BY <2>1
<1>3. Items(q)' = [k \in 1 .. n - 1 |-> buffer[q][Slot(top[q] + 1 + k - 1)]]
  BY <1>2 DEF Items
<1> HIDE DEF n
<1>4. Items(q) # <<>>
  BY <1>1, <1>2
<1>5. Head(Items(q)) = At(q, top[q])
  <2>1. Head(Items(q)) = Items(q)[1]
    BY <1>1, <1>4
  <2>2. Items(q)[1] = At(q, top[q] + 1 - 1)
    BY <1>1, <1>2
  <2> QED BY <1>2, <2>1, <2>2
<1> DEFINE s == Tail(Items(q))
<1>6. s \in Seq(Task) /\ Len(s) = n - 1 /\ \A k \in 1 .. n - 1 : s[k] = Items(q)[k + 1]
  BY <1>1, <1>2, <1>4
<1>7. ASSUME NEW k \in 1 .. n - 1
      PROVE  s[k] = buffer[q][Slot(top[q] + 1 + k - 1)]
  <2>1. k + 1 \in 1 .. n /\ top[q] + (k + 1) - 1 = top[q] + 1 + k - 1
    <3>1. n \in Nat /\ top[q] \in Nat /\ k \in Nat
      BY <1>1
    <3> QED BY <3>1
  <2>2. Items(q)[k + 1] = At(q, top[q] + (k + 1) - 1)
    BY <1>1, <2>1
  <2> QED BY <1>6, <2>1, <2>2 DEF At
<1> HIDE DEF s
<1>8. s = [k \in 1 .. n - 1 |-> s[k]]
  BY <1>6
<1>9. Items(q)' = s
  BY <1>3, <1>7, <1>8
<1> QED BY <1>4, <1>5, <1>9 DEF s

\* pop takes effect when it sees top below its position: the last task is its own.
LEMMA PopLoadTop_PopsBack ==
    ASSUME GInv, DInv, NEW th \in Threads, PopLoadTop(th), top[th] < b[th]
    PROVE  th \in Workers /\ Deque!PopBack(th)
<1> DEFINE y == At(th, b[th])
<1>0. /\ TypeInv /\ th \in Workers /\ tgt[th] = th /\ pc[th] = "pop_top"
      /\ b[th] = bottom[th]
      /\ b[th] \in Int /\ top[th] \in Nat /\ bottom[th] \in Int
  BY DEF GInv, TypeInv, DInv, Place, Owner, PopPCs, PopLoadTop
<1>1. /\ OthersHold(th) /\ UNCHANGED <<top, bottom, buffer, tgt, b>>
      /\ pc'[th] = "pop_read" /\ t'[th] = top[th]
  BY <1>0 DEF TypeInv, OthersHold, Moves, PopLoadTop, Goto, queueVars
<1>2. Hi(th) = b[th] + 1 /\ Hi(th)' = b[th]
  BY <1>0, <1>1 DEF Hi, Contested
<1>3. Hi(th) - 1 = b[th] /\ Hi(th)' = Hi(th) - 1 /\ top[th] < Hi(th)
  BY <1>0, <1>2
<1>4. b[th] \in Live(th)
  BY <1>0, <1>2 DEF Live
<1>5. y \in Task /\ status[y] = "queued"
  BY <1>0, <1>4 DEF DInv, LiveQueued
<1>6. status' = [status EXCEPT ![y] = "claimed"]
  BY <1>0, <1>5 DEF PopLoadTop, At
<1> HIDE DEF y
<1>7. Taken' = Taken \cup {y} /\ Dropped' = Dropped
  BY <1>0, <1>5, <1>6, TakenGrows
<1>8. /\ Items(th) # <<>> /\ Items(th)[Len(Items(th))] = y
      /\ Items(th)' = SubSeq(Items(th), 1, Len(Items(th)) - 1)
  BY <1>0, <1>1, <1>3, CutBack DEF y
<1>9. AllItems' = [AllItems EXCEPT ![th] = SubSeq(Items(th), 1, Len(Items(th)) - 1)]
  BY <1>0, <1>1, <1>8, OneDeque, ItemsOfOthers
<1>10. AllItems[th] = Items(th)
  BY <1>0 DEF AllItems
<1> QED BY <1>0, <1>7, <1>8, <1>9, <1>10
        DEF Deque!PopBack, Deque!Last, Deque!Front, AllItems, Taken, Dropped

\* A thief takes effect when its compare-exchange wins: the first task is its own.
LEMMA StealCas_PopsFront ==
    ASSUME GInv, DInv, NEW th \in Threads, StealCas(th), top[tgt[th]] = t[th]
    PROVE  \E q \in Workers : Deque!PopFront(q)
<1> SUFFICES ASSUME NEW q \in Workers, q = tgt[th] PROVE Deque!PopFront(q)
  BY DEF GInv, TypeInv
<1> DEFINE y == At(q, top[q])
<1>0. /\ TypeInv /\ Winning(th) /\ pc[th] = "steal_cas" /\ q \in Workers
      /\ top[q] \in Nat /\ Hi(q) \in Int
  BY HiType DEF GInv, TypeInv, DInv, StealCas
<1>1. /\ OthersHold(th) /\ UNCHANGED <<bottom, buffer, tgt, b, t>>
      /\ pc'[th] = "ret" /\ top' = [top EXCEPT ![q] = @ + 1]
  BY <1>0 DEF TypeInv, OthersHold, Moves, StealCas, Return, Goto
<1>2. \A r \in Workers : Hi(r)' = Hi(r)
  BY <1>0, <1>1 DEF Hi, Contested, OthersHold, Moves, Threads
<1>3. top[q] \in Live(q) /\ top[q] < Hi(q)
  <2>1. top[q] \in Live(q)
    BY <1>0, ThiefAtLive
  <2> QED BY <1>0, <2>1 DEF Live
<1>4. task[th] = y /\ y \in Task /\ status[y] = "queued"
  BY <1>0, <1>3 DEF Winning, DInv, LiveQueued
<1>5. status' = [status EXCEPT ![y] = "returned"]
  BY <1>0, <1>4 DEF StealCas, Return
<1> HIDE DEF y
<1>6. Taken' = Taken \cup {y} /\ Dropped' = Dropped
  BY <1>0, <1>4, <1>5, TakenGrows
<1>7. /\ Items(q) # <<>> /\ Head(Items(q)) = y /\ Items(q)' = Tail(Items(q))
  <2>1. top'[q] = top[q] + 1
    BY <1>0, <1>1 DEF TypeInv
  <2> QED BY <1>0, <1>1, <1>2, <1>3, <2>1, CutFront DEF y
<1>8. ASSUME NEW r \in Workers \ {q} PROVE Items(r)' = Items(r)
  <2>1. top'[r] = top[r]
    BY <1>0, <1>1 DEF TypeInv
  <2> QED BY <1>1, <1>2, <2>1, ItemsSteady DEF At
<1>9. AllItems' = [AllItems EXCEPT ![q] = Tail(Items(q))]
  BY <1>0, <1>7, <1>8, OneDeque
<1>10. AllItems[q] = Items(q)
  BY <1>0 DEF AllItems
<1> QED BY <1>6, <1>7, <1>9, <1>10 DEF Deque!PopFront, AllItems, Taken, Dropped

\* Without its only element a sequence is empty, from whichever end it is taken.
LEMMA OneLeft ==
    ASSUME NEW S, NEW s \in Seq(S), Len(s) = 1
    PROVE  Tail(s) = <<>> /\ SubSeq(s, 1, 0) = <<>> /\ Head(s) = s[1]
<1>1. ASSUME NEW e \in Seq(S), Len(e) = 0 PROVE e = <<>>
  BY <1>1
<1>2. s # <<>> /\ Head(s) = s[1]
  OBVIOUS
<1>3. Tail(s) \in Seq(S) /\ Len(Tail(s)) = 0
  BY <1>2
<1>4. SubSeq(s, 1, 0) = <<>>
  OBVIOUS
<1> QED BY <1>1, <1>2, <1>3, <1>4

\* The owner's compare-exchange takes its only task, which is the last one too.
LEMMA PopCas_PopsBack ==
    ASSUME GInv, DInv, NEW th \in Threads, PopCas(th), top[tgt[th]] = t[th]
    PROVE  th \in Workers /\ Deque!PopBack(th)
<1> DEFINE y == At(th, top[th])
<1>0. /\ TypeInv /\ th \in Workers /\ tgt[th] = th /\ pc[th] = "pop_cas" /\ Winning(th)
      /\ b[th] = bottom[th] /\ t[th] = b[th] /\ top[th] = b[th]
      /\ b[th] \in Int /\ top[th] \in Nat /\ bottom[th] \in Int
  BY DEF GInv, TypeInv, DInv, Place, Owner, PopPCs, PopCas
<1>1. /\ OthersHold(th) /\ UNCHANGED <<bottom, buffer, tgt, b, t, task>>
      /\ pc'[th] = "pop_restore" /\ top' = [top EXCEPT ![th] = @ + 1]
  BY <1>0 DEF TypeInv, OthersHold, Moves, PopCas, Goto
<1>2. Hi(th) = b[th] + 1 /\ Hi(th)' = Hi(th)
  BY <1>0, <1>1 DEF Hi, Contested
<1>3. top[th] \in Live(th) /\ top[th] < Hi(th) /\ Hi(th) - top[th] = 1
  BY <1>0, <1>2 DEF Live
<1>4. task[th] = y /\ y \in Task /\ status[y] = "queued"
  BY <1>0, <1>3 DEF Winning, DInv, LiveQueued
<1>5. status' = [status EXCEPT ![y] = "claimed"]
  BY <1>0, <1>4 DEF PopCas
<1> HIDE DEF y
<1>6. Taken' = Taken \cup {y} /\ Dropped' = Dropped
  BY <1>0, <1>4, <1>5, TakenGrows
<1>7. /\ Items(th) # <<>> /\ Items(th)[Len(Items(th))] = y
      /\ Items(th)' = SubSeq(Items(th), 1, Len(Items(th)) - 1)
  <2>1. top'[th] = top[th] + 1
    BY <1>0, <1>1 DEF TypeInv
  <2>2. Items(th) # <<>> /\ Head(Items(th)) = y /\ Items(th)' = Tail(Items(th))
    BY <1>0, <1>1, <1>2, <1>3, <2>1, CutFront DEF y
  <2>3. Items(th) \in Seq(Task) /\ Len(Items(th)) = 1
    BY <1>0, <1>3, ItemsAre
  <2>4. Tail(Items(th)) = <<>> /\ SubSeq(Items(th), 1, 0) = <<>> /\ Head(Items(th)) = Items(th)[1]
    BY <2>2, <2>3, OneLeft
  <2> QED BY <2>2, <2>3, <2>4
<1>8. ASSUME NEW r \in Workers \ {th} PROVE Items(r)' = Items(r)
  <2>1. top'[r] = top[r]
    BY <1>0, <1>1 DEF TypeInv
  <2> QED BY <1>1, <2>1, ItemsOfOthers
<1>9. AllItems' = [AllItems EXCEPT ![th] = SubSeq(Items(th), 1, Len(Items(th)) - 1)]
  BY <1>0, <1>7, <1>8, OneDeque
<1>10. AllItems[th] = Items(th)
  BY <1>0 DEF AllItems
<1> QED BY <1>0, <1>6, <1>7, <1>9, <1>10
        DEF Deque!PopBack, Deque!Last, Deque!Front, AllItems, Taken, Dropped

(***************************************************************************)
(* The refinement.                                                         *)
(***************************************************************************)
\* The deques start empty, with nothing taken and nothing dropped.
LEMMA StartsEmpty == Init => Deque!Init
<1> SUFFICES ASSUME Init PROVE Deque!Init
  OBVIOUS
<1>1. ASSUME NEW q \in Workers PROVE Items(q) = <<>>
  <2>1. Hi(q) - top[q] = 0
    BY DEF Init, Hi, Contested, Threads
  <2> QED BY <2>1 DEF Items
<1>2. AllItems = [q \in Workers |-> <<>>]
  BY <1>1 DEF AllItems
<1>3. Taken = {} /\ Dropped = {}
  BY DEF Init, Taken, Dropped
<1> QED BY <1>2, <1>3 DEF Deque!Init, AllItems, Taken, Dropped

\* Every step of the lock-free deques is one step of the atomic deques or none.
LEMMA StepRefines ==
    ASSUME OnlyOwnersPush, GInv, DInv, [Next]_vars
    PROVE  [Deque!Next]_Deque!vars
<1>0. Workers \subseteq Threads
  BY DEF Threads
<1>1. ASSUME NEW p \in MayPush, NEW x \in Task, PushCall(p[1], p[2], x)
      PROVE  UNCHANGED Deque!vars
  <2>1. p[1] = p[2] /\ p[1] \in Workers
    BY OnlyOwnersPush, PushAssumption DEF OnlyOwnersPush
  <2> QED BY <1>1, <2>1, PushCall_Stutters
<1>2. ASSUME NEW w \in Workers, PopCall(w, w) PROVE UNCHANGED Deque!vars
  BY <1>0, <1>2, Quiet_Stutters DEF QuietStep
<1>3. ASSUME NEW w \in Workers, NEW q \in Workers \ {w}, StealCall(w, q)
      PROVE  UNCHANGED Deque!vars
  BY <1>0, <1>3, Quiet_Stutters DEF QuietStep
<1>4. ASSUME NEW th \in Threads, PushStep(th) PROVE [Deque!Next]_Deque!vars
  <2>1. CASE PushLoadTop(th)
    <3>1. tgt[th] = th
      BY <2>1 DEF PushLoadTop, PushLoadTopIf, GInv, Place, PushPCs
    <3>2. CASE b[th] - top[th] < Capacity
      BY <2>1, <3>2, Quiet_Stutters DEF QuietStep
    <3>3. CASE ~(b[th] - top[th] < Capacity)
      <4>1. th \in Workers /\ \E x \in Task : Deque!Drop(th, x)
        BY <2>1, <3>1, <3>3, PushLoadTop_Drops
      <4> QED BY <4>1 DEF Deque!Next
    <3> QED BY <3>2, <3>3
  <2>2. CASE PushWrite(th)
    BY <2>2, PushWrite_Stutters
  <2>3. CASE PushPublish(th)
    BY <2>3, PushPublish_PushesBack DEF Deque!Next
  <2> QED BY <1>4, <2>1, <2>2, <2>3 DEF PushStep
<1>5. ASSUME NEW th \in Threads, PopStep(th) PROVE [Deque!Next]_Deque!vars
  <2>1. CASE QuietStep(th)
    BY <2>1, Quiet_Stutters
  <2>2. CASE PopLoadTop(th) /\ top[th] < b[th]
    BY <2>2, PopLoadTop_PopsBack DEF Deque!Next
  <2>3. CASE PopCas(th) /\ top[tgt[th]] = t[th]
    BY <2>3, PopCas_PopsBack DEF Deque!Next
  <2>4. CASE \/ PopRead(th) /\ t[th] # b[th]
             \/ PopRestore(th) /\ task[th] # Null
    BY <2>4, PopReturn_Stutters
  <2>5. CASE PopStoreBottom(th)
    BY <2>1, <2>5 DEF QuietStep
  <2>6. CASE PopLoadTop(th)
    BY <2>1, <2>2, <2>6 DEF QuietStep
  <2>7. CASE PopRead(th)
    BY <2>1, <2>4, <2>7 DEF QuietStep
  <2>8. CASE PopCas(th)
    <3>1. CASE top[tgt[th]] = t[th]
      BY <2>3, <2>8, <3>1
    <3>2. CASE top[tgt[th]] # t[th]
      BY <2>1, <2>8, <3>2 DEF QuietStep
    <3> QED BY <3>1, <3>2
  <2>9. CASE PopRestore(th)
    BY <2>1, <2>4, <2>9 DEF QuietStep
  <2> QED BY <1>5, <2>5, <2>6, <2>7, <2>8, <2>9 DEF PopStep
<1>6. ASSUME NEW th \in Threads, StealStep(th) PROVE [Deque!Next]_Deque!vars
  <2>1. CASE QuietStep(th)
    BY <2>1, Quiet_Stutters
  <2>2. CASE StealCas(th) /\ top[tgt[th]] = t[th]
    <3>1. \E q \in Workers : Deque!PopFront(q)
      BY <2>2, StealCas_PopsFront
    <3> QED BY <3>1 DEF Deque!Next
  <2> QED BY <1>6, <2>1, <2>2 DEF StealStep, QuietStep
<1>7. ASSUME NEW th \in Threads, TakeResult(th) PROVE UNCHANGED Deque!vars
  BY <1>7, Quiet_Stutters DEF QuietStep
<1>8. CASE UNCHANGED vars
  <2>1. \A q \in Workers : Items(q)' = Items(q)
    BY <1>8 DEF vars, Items, Hi, Contested
  <2>2. Taken' = Taken /\ Dropped' = Dropped
    BY <1>8 DEF vars, Taken, Dropped
  <2> QED BY <2>1, <2>2, Stutter
<1> QED BY <1>1, <1>2, <1>3, <1>4, <1>5, <1>6, <1>7, <1>8 DEF Next, QueueStep

\* The lock-free deques implement atomic bounded deques: in every interleaving of
\* owners and thieves, push, pop and steal each take effect at one instant, pop at
\* the back and steal at the front, and a task is refused only by a full deque.
THEOREM DequesAreAtomic ==
    ASSUME OnlyOwnersPush
    PROVE  Spec => ImplementsDeque
<1>1. Init => Deque!Init
  BY StartsEmpty
<1>2. InductiveInvariant /\ [Next]_vars => [Deque!Next]_Deque!vars
  BY StepRefines DEF InductiveInvariant
<1> QED BY <1>1, <1>2, TaskInvariant, PTL DEF Spec, ImplementsDeque, Deque!Spec

=============================================================================
