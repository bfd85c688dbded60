----------------------------- MODULE MCScheduler -----------------------------
(***************************************************************************)
(* Instances of Scheduler for TLC: the constants of the deques follow from *)
(* the number of threads and of tasks.                                     *)
(***************************************************************************)
EXTENDS Scheduler

WorkerIds == 0 .. NumThreads - 1
ClientOnly == {Client}
TaskIds == 1 .. MaxTasks
ClientPushes == {Client} \X WorkerIds

=============================================================================
