------------------------ MODULE MCLockFreeTaskQueue ------------------------
(***************************************************************************)
(* Instances of LockFreeTaskQueue for TLC.                                 *)
(***************************************************************************)
EXTENDS LockFreeTaskQueue, TLC

\* The discipline the deque is written for: a worker pushes into its own.
OwnersPush == {<<w, w>> : w \in Workers}

\* One worker's deque is filled, the other workers only steal from it.
OneOwnerPushes == LET w == CHOOSE w \in Workers : TRUE IN {<<w, w>>}

TaskSymmetry == Permutations(Task)

=============================================================================
