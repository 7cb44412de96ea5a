--------------------------- MODULE MemoryScanQueue ---------------------------
(***************************************************************************)
(* InMemoryScanRepository: the same queue behind one lock.  Every method   *)
(* is one step, a row that somebody processes is never handed out again,   *)
(* and the counts of the run are refreshed from the tasks by every change. *)
(* This is what a caller of ScanRepository would like to rely on; the      *)
(* module ScanQueue says what the Supabase implementation of it does, and  *)
(* QueueRefinement compares the two.                                     *)
(***************************************************************************)
EXTENDS Naturals, FiniteSets

CONSTANTS Task, MaxAttempts

VARIABLES
  task,   \* the tasks of the run
  run,    \* the run: its status and its counts
  held    \* tasks that were claimed by a caller that has not reported back

memoryVars == <<task, run, held>>

Init ==
  /\ task = [t \in Task |-> [status |-> "absent", attempts |-> 0, foundNew |-> FALSE]]
  /\ run = [status |-> "absent", completed |-> 0, failed |-> 0, newReleases |-> 0]
  /\ held = {}

-----------------------------------------------------------------------------
(* _refresh_run_counts, over the rows of tasks. *)
Refreshed(tasks, status) ==
  LET Having(s) == {t \in Task : tasks[t].status = s}
  IN  [status |-> status,
       completed |-> Cardinality(Having("completed")),
       failed |-> Cardinality(Having("failed")),
       newReleases |-> Cardinality({t \in Having("completed") : tasks[t].foundNew})]

Update(t, row) ==
  /\ task' = [task EXCEPT ![t] = row]
  /\ run' = Refreshed(task', run.status)

CreateRun(status) ==
  /\ run.status = "absent"
  /\ run' = Refreshed(task, status)
  /\ UNCHANGED <<task, held>>

CreateTask(t) ==
  /\ run.status # "absent"
  /\ task[t].status = "absent"
  /\ Update(t, [task[t] EXCEPT !.status = "queued"])
  /\ UNCHANGED held

StartRun ==
  /\ run.status # "absent"
  /\ run' = [run EXCEPT !.status = "running"]
  /\ UNCHANGED <<task, held>>

ClaimNextQueuedTask(t) ==
  /\ task[t].status = "queued"
  /\ Update(t, [task[t] EXCEPT !.status = "running", !.attempts = @ + 1])
  /\ held' = held \cup {t}

CompleteTask(t, newRelease) ==
  /\ t \in held
  /\ Update(t, [task[t] EXCEPT !.status = "completed", !.foundNew = newRelease])
  /\ held' = held \ {t}

FailTask(t, retryable) ==
  /\ t \in held
  /\ LET shouldRetry == retryable /\ task[t].attempts < MaxAttempts
     IN  Update(t, [task[t] EXCEPT !.status = IF shouldRetry THEN "queued" ELSE "failed"])
  /\ held' = held \ {t}

FinishRun(status) ==
  /\ run.status # "absent"
  /\ run' = Refreshed(task, status)
  /\ UNCHANGED <<task, held>>

(* A caller that holds tasks is gone; their rows stay "running". *)
Abandon ==
  /\ \E some \in SUBSET held : held' = held \ some
  /\ UNCHANGED <<task, run>>

Next ==
  \/ \E status \in {"queued", "running"} : CreateRun(status)
  \/ StartRun
  \/ \E status \in {"completed", "failed"} : FinishRun(status)
  \/ \E t \in Task :
       \/ CreateTask(t)
       \/ ClaimNextQueuedTask(t)
       \/ \E b \in BOOLEAN : CompleteTask(t, b) \/ FailTask(t, b)
  \/ Abandon

Spec == Init /\ [][Next]_memoryVars
=============================================================================
