--------------------------- MODULE QueueRefinement ---------------------------
(***************************************************************************)
(* The Supabase queue of ScanQueue against the in-memory queue.            *)
(***************************************************************************)
EXTENDS ScanQueue

(***************************************************************************)
(* Only the rows of the tasks and the status of the run correspond one to  *)
(* one.  The counts are those the in-memory queue would show: the stored   *)
(* ones are written by finish_run and complete_scan_task alone, and may    *)
(* lag behind.                                                             *)
(***************************************************************************)
HeldTasks == {t \in Task : Holders(t) # {}}

CurrentRun ==
  [status |-> run.status,
   completed |-> Cardinality(With("completed")),
   failed |-> Cardinality(With("failed")),
   newReleases |-> Cardinality(NewTasks)]

Memory == INSTANCE MemoryScanQueue WITH held <- HeldTasks, run <- CurrentRun

(* While every task is done with within 15 minutes of its first claim, the    *)
(* Supabase queue behaves as the in-memory one, although complete, fail and   *)
(* finish are several statements there, and workers come, go and crash: the   *)
(* statements of one caller never show another the state in between.          *)
ImplementsMemoryQueue == Memory!Spec
=============================================================================
