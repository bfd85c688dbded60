------------------------------ MODULE TaskDeque ------------------------------
(***************************************************************************)
(* What a pool of work-stealing deques promises: per worker one bounded    *)
(* double-ended queue whose operations happen at one instant.  The owner   *)
(* works at the back, thieves take the front, a task refused because the   *)
(* deque is full is dropped for good.  LockFreeTaskQueue implements this.  *)
(***************************************************************************)
EXTENDS Integers, Sequences, SequencesExt

CONSTANTS Workers, Task, Capacity

VARIABLES
    items,      \* the tasks each deque holds, front first
    taken,      \* the tasks handed to a worker
    dropped     \* the tasks a full deque refused

vars == <<items, taken, dropped>>

Known(x) ==
    \/ x \in taken \cup dropped
    \/ \E q \in Workers : \E i \in DOMAIN items[q] : items[q][i] = x

Init ==
    /\ items = [q \in Workers |-> <<>>]
    /\ taken = {}
    /\ dropped = {}

PushBack(q, x) ==
    /\ ~Known(x)
    /\ Len(items[q]) < Capacity
    /\ items' = [items EXCEPT ![q] = Append(@, x)]
    /\ UNCHANGED <<taken, dropped>>

Drop(q, x) ==
    /\ ~Known(x)
    /\ Len(items[q]) = Capacity
    /\ dropped' = dropped \cup {x}
    /\ UNCHANGED <<items, taken>>

PopBack(q) ==
    /\ items[q] # <<>>
    /\ taken' = taken \cup {Last(items[q])}
    /\ items' = [items EXCEPT ![q] = Front(@)]
    /\ UNCHANGED dropped

PopFront(q) ==
    /\ items[q] # <<>>
    /\ taken' = taken \cup {Head(items[q])}
    /\ items' = [items EXCEPT ![q] = Tail(@)]
    /\ UNCHANGED dropped

Next ==
    \E q \in Workers :
        \/ \E x \in Task : PushBack(q, x) \/ Drop(q, x)
        \/ PopBack(q)
        \/ PopFront(q)

Spec == Init /\ [][Next]_vars

=============================================================================
