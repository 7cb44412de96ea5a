------------------------------ MODULE ScanQueue ------------------------------
(***************************************************************************)
(* The work queue of one scan run: the rows of scan_runs and scan_tasks as *)
(* the Supabase repository and the SQL functions behind it read and write  *)
(* them, and the position of every thread that works on the run.           *)
(*                                                                         *)
(* One step is one database statement or one committed transaction, so a   *)
(* repository method made of several statements (fail_task, finish_run,    *)
(* complete_scan_task) is several steps, and those of other threads and    *)
(* processes come in between.  What a thread does with the device of its   *)
(* task is left out here; Scanner extends this module with it.             *)
(*                                                                         *)
(* Time is reduced to what claim_scan_task asks of it: `overdue' holds the *)
(* tasks whose started_at is more than 15 minutes ago.  started_at is set  *)
(* by the first claim and never refreshed, so a task that entered stays.   *)
(***************************************************************************)
EXTENDS Naturals, FiniteSets

CONSTANTS
  Task,            \* the devices selected for the run
  Process,         \* scanner processes (and web requests that enqueue a run)
  Thread,          \* scanner threads
  Owner,           \* Owner[w]: the process that thread w belongs to
  NoTask,          \* a thread holds no task
  MaxAttempts,     \* ScannerService max_attempts
  FailurePercent,  \* failure_rate_threshold, in percent
  MayGoOverdue,    \* BOOLEAN: may a task take longer than 15 minutes?
  MaxFaults        \* bound on crashes and escaped exceptions

ASSUME TaskAssumption == IsFiniteSet(Task) /\ NoTask \notin Task
ASSUME OwnerAssumption == Owner \in [Thread -> Process]
(* max_concurrency is at least 1: a process that starts a run has a thread.   *)
ASSUME WorkerAssumption == \A p \in Process : \E w \in Thread : Owner[w] = p
ASSUME NumberAssumption ==
  /\ MaxAttempts \in Nat \ {0}
  /\ FailurePercent \in Nat
  /\ MaxFaults \in Nat
  /\ MayGoOverdue \in BOOLEAN

VARIABLES
  task,      \* scan_tasks: one row per task
  run,       \* the scan_runs row
  overdue,   \* tasks with started_at < now() - interval '15 minutes'
  thread,    \* where each thread is between its repository calls
  runner,    \* where the main thread of each process is
  faults     \* crashes and escaped exceptions so far

vars == <<task, run, overdue, thread, runner, faults>>

TaskStatus == {"absent", "queued", "running", "completed", "failed"}
RunStatus == {"absent", "queued", "running", "completed", "failed"}
Terminal == {"completed", "failed"}

TaskRow == [status: TaskStatus, attempts: Nat, foundNew: BOOLEAN]
RunRow == [status: RunStatus, completed: Nat, failed: Nat, newReleases: Nat]

(***************************************************************************)
(* A thread is "off", claims ("claiming"), owns a task it is scanning      *)
(* ("working"), has computed should_retry ("failing", in `retry'), has an  *)
(* open complete_scan_task transaction that counted the new releases       *)
(* ("completing"), found the queue empty ("drained") or left its loop with *)
(* an exception ("dead").                                                  *)
(***************************************************************************)
ThreadState ==
  [at: {"off", "claiming", "working", "failing", "completing", "drained", "dead"},
   task: Task \cup {NoTask}, retry: BOOLEAN, foundNew: BOOLEAN, count: Nat]

Idle(at) ==
  [at |-> at, task |-> NoTask, retry |-> FALSE, foundNew |-> FALSE, count |-> 0]

(***************************************************************************)
(* A process is "off", inserts the tasks of a new run ("creating" in the   *)
(* worker, "enqueuing" in the admin route), waits for its threads          *)
(* ("draining"), has computed the run status ("judged") or has read the    *)
(* counts that finish_run will write ("counted").                          *)
(***************************************************************************)
RunnerState ==
  [at: {"off", "creating", "enqueuing", "draining", "judged", "counted"},
   status: RunStatus, completed: Nat, failed: Nat]

Off == [at |-> "off", status |-> "absent", completed |-> 0, failed |-> 0]

Init ==
  /\ task = [t \in Task |-> [status |-> "absent", attempts |-> 0, foundNew |-> FALSE]]
  /\ run = [status |-> "absent", completed |-> 0, failed |-> 0, newReleases |-> 0]
  /\ overdue = {}
  /\ thread = [w \in Thread |-> Idle("off")]
  /\ runner = [p \in Process |-> Off]
  /\ faults = 0

-----------------------------------------------------------------------------
(* What the steps read. *)

Threads(p) == {w \in Thread : Owner[w] = p}

Holds(w, t) == thread[w].task = t

Holders(t) == {w \in Thread : Holds(w, t)}

(* complete_scan_task has updated the row and has not committed yet. *)
Locked(t) == \E w \in Thread : Holds(w, t) /\ thread[w].at = "completing"

With(status) == {t \in Task : task[t].status = status}

NewTasks == {t \in With("completed") : task[t].foundNew}

Settled == \A t \in Task : task[t].status \in Terminal

(* Faulty variants, which the properties must tell from the code: a claim     *)
(* that ignores started_at, and one that never takes a running row.           *)
ClaimableOfAnyAge ==
  LET free == {t \in Task : ~Locked(t)}
  IN  IF With("queued") \cap free # {} THEN With("queued") \cap free
                                       ELSE With("running") \cap free

ClaimableOnce == {t \in With("queued") : ~Locked(t)}

(***************************************************************************)
(* Rows that claim_scan_task may return: queued rows first, else running   *)
(* rows that are overdue, in the order of their random ids; a row that     *)
(* another transaction has locked is skipped.                              *)
(***************************************************************************)
Claimable ==
  LET free == {t \in Task : ~Locked(t)}
      queued == With("queued") \cap free
  IN  IF queued # {} THEN queued ELSE With("running") \cap overdue \cap free

Verdict ==
  LET failed == Cardinality(With("failed"))
      total == Cardinality(Task \ With("absent"))
  IN  IF failed * 100 > FailurePercent * total THEN "failed" ELSE "completed"

-----------------------------------------------------------------------------
(* Creating the run. *)

(* run_scheduled_scan and the admin route insert the run before its tasks. *)
CreateRun(p, at, status) ==
  /\ run.status = "absent"
  /\ runner[p].at = "off"
  /\ run' = [run EXCEPT !.status = status]
  /\ runner' = [runner EXCEPT ![p].at = at]
  /\ UNCHANGED <<task, overdue, thread, faults>>

CreateScheduledRun(p) == CreateRun(p, "creating", "running")

EnqueueAdminRun(p) == CreateRun(p, "enqueuing", "queued")

CreateTask(p, t) ==
  /\ runner[p].at \in {"creating", "enqueuing"}
  /\ task[t].status = "absent"
  /\ task' = [task EXCEPT ![t].status = "queued"]
  /\ UNCHANGED <<run, overdue, thread, runner, faults>>

RespondEnqueued(p) ==
  /\ runner[p].at = "enqueuing"
  /\ With("absent") = {}
  /\ runner' = [runner EXCEPT ![p] = Off]
  /\ UNCHANGED <<task, run, overdue, thread, faults>>

(***************************************************************************)
(* start_run, then the threads begin to claim.  A scheduled run goes on    *)
(* from its creation; `--scan-run-id' starts a run that is already there,  *)
(* whatever its status: the operator knows its id once it was created.     *)
(***************************************************************************)
StartRun(p) ==
  /\ \/ runner[p].at = "creating" /\ With("absent") = {}
     \/ /\ runner[p].at = "off"
        /\ run.status # "absent"
        /\ \A q \in Process : runner[q].at \notin {"creating", "enqueuing"}
  /\ run' = [run EXCEPT !.status = "running"]
  /\ runner' = [runner EXCEPT ![p] = [Off EXCEPT !.at = "draining"]]
  /\ thread' = [w \in Thread |-> IF Owner[w] = p THEN Idle("claiming") ELSE thread[w]]
  /\ UNCHANGED <<task, overdue, faults>>

-----------------------------------------------------------------------------
(* The repository calls of a scanner thread. *)

Claim(w, t) ==
  /\ thread[w].at = "claiming"
  /\ t \in Claimable
  /\ task' = [task EXCEPT ![t].status = "running", ![t].attempts = @ + 1]
  /\ thread' = [thread EXCEPT ![w] = [Idle("working") EXCEPT !.task = t]]
  /\ UNCHANGED <<run, overdue, runner, faults>>

ClaimNone(w) ==
  /\ thread[w].at = "claiming"
  /\ Claimable = {}
  /\ thread' = [thread EXCEPT ![w] = Idle("drained")]
  /\ UNCHANGED <<task, run, overdue, runner, faults>>

(* Faulty variant: counts the completed tasks, not those that found something. *)
BeginCompleteCountingAll(w, t, isNew) ==
  /\ thread[w].at = "working"
  /\ Holds(w, t)
  /\ ~Locked(t)
  /\ thread' = [thread EXCEPT ![w] =
                  [@ EXCEPT !.at = "completing", !.foundNew = isNew,
                            !.count = Cardinality(With("completed") \ {t}) + 1]]
  /\ UNCHANGED <<task, run, overdue, runner, faults>>

(***************************************************************************)
(* complete_scan_task, first two statements: the row is updated and stays  *)
(* locked, and the new releases are counted over the rows this transaction *)
(* sees, its own and the committed ones.                                   *)
(***************************************************************************)
BeginComplete(w, t, isNew) ==
  /\ thread[w].at = "working"
  /\ Holds(w, t)
  /\ ~Locked(t)
  /\ thread' = [thread EXCEPT ![w] =
                  [@ EXCEPT !.at = "completing", !.foundNew = isNew,
                            !.count = Cardinality(NewTasks \ {t})
                                      + (IF isNew THEN 1 ELSE 0)]]
  /\ UNCHANGED <<task, run, overdue, runner, faults>>

(* Its last statement writes that count to the run, and it commits. *)
CommitComplete(w, t) ==
  /\ thread[w].at = "completing"
  /\ Holds(w, t)
  /\ task' = [task EXCEPT ![t] = [@ EXCEPT !.status = "completed",
                                            !.foundNew = thread[w].foundNew]]
  /\ run' = [run EXCEPT !.newReleases = thread[w].count]
  /\ thread' = [thread EXCEPT ![w] = Idle("claiming")]
  /\ UNCHANGED <<overdue, runner, faults>>

(* Faulty variant: one attempt too many. *)
ReadAttemptsOffByOne(w, t, retryable) ==
  /\ thread[w].at = "working"
  /\ Holds(w, t)
  /\ thread' = [thread EXCEPT ![w] =
                  [@ EXCEPT !.at = "failing",
                            !.retry = retryable /\ task[t].attempts <= MaxAttempts]]
  /\ UNCHANGED <<task, run, overdue, runner, faults>>

(* fail_task reads the row to decide whether the task is retried ...       *)
ReadAttempts(w, t, retryable) ==
  /\ thread[w].at = "working"
  /\ Holds(w, t)
  /\ thread' = [thread EXCEPT ![w] =
                  [@ EXCEPT !.at = "failing",
                            !.retry = retryable /\ task[t].attempts < MaxAttempts]]
  /\ UNCHANGED <<task, run, overdue, runner, faults>>

(* Faulty variants: a retried task is not put back into the queue; the thread *)
(* goes on with a task it has reported.                                       *)
WriteFailureNotRequeued(w, t) ==
  /\ thread[w].at = "failing"
  /\ Holds(w, t)
  /\ ~Locked(t)
  /\ task' = [task EXCEPT ![t].status = IF thread[w].retry THEN @ ELSE "failed"]
  /\ thread' = [thread EXCEPT ![w] = Idle("claiming")]
  /\ UNCHANGED <<run, overdue, runner, faults>>

WriteFailureKeepingTask(w, t) ==
  /\ thread[w].at = "failing"
  /\ Holds(w, t)
  /\ ~Locked(t)
  /\ task' = [task EXCEPT ![t].status = IF thread[w].retry THEN "queued" ELSE "failed"]
  /\ thread' = [thread EXCEPT ![w].at = "claiming"]
  /\ UNCHANGED <<run, overdue, runner, faults>>

(* ... and writes the decision, whatever the row holds by then.            *)
WriteFailure(w, t) ==
  /\ thread[w].at = "failing"
  /\ Holds(w, t)
  /\ ~Locked(t)
  /\ task' = [task EXCEPT ![t].status = IF thread[w].retry THEN "queued" ELSE "failed"]
  /\ thread' = [thread EXCEPT ![w] = Idle("claiming")]
  /\ UNCHANGED <<run, overdue, runner, faults>>

-----------------------------------------------------------------------------
(* The main thread after its threads. *)

(* Faulty variant: does not wait for all futures. *)
JudgeAtFirstReturn(p) ==
  /\ runner[p].at = "draining"
  /\ \E w \in Threads(p) : thread[w].at = "drained"
  /\ runner' = [runner EXCEPT ![p] = [@ EXCEPT !.at = "judged", !.status = Verdict]]
  /\ thread' = [w \in Thread |-> IF Owner[w] = p THEN Idle("off") ELSE thread[w]]
  /\ UNCHANGED <<task, run, overdue, faults>>

(* All futures returned: the tasks are listed and the status is computed. *)
Judge(p) ==
  /\ runner[p].at = "draining"
  /\ \A w \in Threads(p) : thread[w].at = "drained"
  /\ runner' = [runner EXCEPT ![p] = [@ EXCEPT !.at = "judged", !.status = Verdict]]
  /\ thread' = [w \in Thread |-> IF Owner[w] = p THEN Idle("off") ELSE thread[w]]
  /\ UNCHANGED <<task, run, overdue, faults>>

(* finish_run lists the tasks again and counts them ...                    *)
CountTasks(p) ==
  /\ runner[p].at = "judged"
  /\ runner' = [runner EXCEPT ![p] =
                  [@ EXCEPT !.at = "counted",
                            !.completed = Cardinality(With("completed")),
                            !.failed = Cardinality(With("failed"))]]
  /\ UNCHANGED <<task, run, overdue, thread, faults>>

(* ... and writes the status and the counts.                               *)
FinishRun(p) ==
  /\ runner[p].at = "counted"
  /\ run' = [run EXCEPT !.status = runner[p].status,
                        !.completed = runner[p].completed,
                        !.failed = runner[p].failed]
  /\ runner' = [runner EXCEPT ![p] = Off]
  /\ UNCHANGED <<task, overdue, thread, faults>>

(* A thread ended with an exception: it is raised once the others stopped,  *)
(* and the run is never finished.                                           *)
RaiseFromThread(p) ==
  /\ runner[p].at = "draining"
  /\ \A w \in Threads(p) : thread[w].at \in {"drained", "dead"}
  /\ \E w \in Threads(p) : thread[w].at = "dead"
  /\ runner' = [runner EXCEPT ![p] = Off]
  /\ thread' = [w \in Thread |-> IF Owner[w] = p THEN Idle("off") ELSE thread[w]]
  /\ UNCHANGED <<task, run, overdue, faults>>

-----------------------------------------------------------------------------
(* The environment. *)

(* 15 minutes have passed since the first claim of t. *)
GoOverdue(t) ==
  /\ MayGoOverdue
  /\ task[t].attempts > 0
  /\ t \notin overdue
  /\ overdue' = overdue \cup {t}
  /\ UNCHANGED <<task, run, thread, runner, faults>>

(* A call that is not an OTA provider error escapes from the thread. *)
ThreadDies(w) ==
  /\ faults < MaxFaults
  /\ thread[w].at \in {"claiming", "working", "failing", "completing"}
  /\ thread' = [thread EXCEPT ![w] = Idle("dead")]
  /\ faults' = faults + 1
  /\ UNCHANGED <<task, run, overdue, runner>>

(* The process is killed: its threads go, an open transaction is aborted. *)
Crash(p) ==
  /\ faults < MaxFaults
  /\ runner[p].at # "off"
  /\ runner' = [runner EXCEPT ![p] = Off]
  /\ thread' = [w \in Thread |-> IF Owner[w] = p THEN Idle("off") ELSE thread[w]]
  /\ faults' = faults + 1
  /\ UNCHANGED <<task, run, overdue>>

-----------------------------------------------------------------------------
ThreadStep(w) ==
  \/ ClaimNone(w)
  \/ \E t \in Task :
       \/ Claim(w, t)
       \/ \E isNew \in BOOLEAN : BeginComplete(w, t, isNew)
       \/ CommitComplete(w, t)
       \/ \E retryable \in BOOLEAN : ReadAttempts(w, t, retryable)
       \/ WriteFailure(w, t)

RunnerStep(p) ==
  \/ \E t \in Task : CreateTask(p, t)
  \/ RespondEnqueued(p)
  \/ Judge(p)
  \/ CountTasks(p)
  \/ FinishRun(p)
  \/ RaiseFromThread(p)

Next ==
  \/ \E w \in Thread : ThreadStep(w) \/ ThreadDies(w)
  \/ \E p \in Process :
       \/ CreateScheduledRun(p)
       \/ EnqueueAdminRun(p)
       \/ StartRun(p)
       \/ RunnerStep(p)
       \/ Crash(p)
  \/ \E t \in Task : GoOverdue(t)

Spec == Init /\ [][Next]_vars

-----------------------------------------------------------------------------
(* Properties. *)

(* The rows and the threads keep the shape the tables and the code give them; *)
(* a thread holds a task exactly between its claim and its last write to it.  *)
TypeOK ==
  /\ task \in [Task -> TaskRow]
  /\ run \in RunRow
  /\ overdue \subseteq Task
  /\ thread \in [Thread -> ThreadState]
  /\ runner \in [Process -> RunnerState]
  /\ faults \in 0..MaxFaults
  /\ \A w \in Thread :
       thread[w].at \in {"working", "failing", "completing"} <=> thread[w].task # NoTask

(* Until 15 minutes after its first claim, a task is processed by at most one *)
(* thread of one process, its row says "running" while that lasts, and it is  *)
(* not claimed more often than max_attempts allows: the promise of            *)
(* claim_scan_task, FOR UPDATE SKIP LOCKED and fail_task together.            *)
FreshTaskIsExclusive ==
  \A t \in Task \ overdue :
    /\ task[t].attempts <= MaxAttempts
    /\ \A v, w \in Thread : Holds(v, t) /\ Holds(w, t) => v = w
    /\ (\E w \in Thread : Holds(w, t)) => task[t].status = "running"

(* Only tasks that went overdue are ever reopened: the outcome written by     *)
(* complete_scan_task or fail_task is final, and a late write by another      *)
(* thread cannot undo it, while the task is younger than 15 minutes.          *)
OutcomeIsFinal ==
  [][\A t \in Task \ overdue' : task[t].status \in Terminal => task'[t] = task[t]]_vars

(* complete_scan_task recounts instead of incrementing, so scan_runs never    *)
(* reports more new releases than its tasks found, as long as no task is old  *)
(* enough to be reopened.                                                     *)
NeverOvercounts ==
  overdue = {} => run.newReleases <= Cardinality(NewTasks)

(* The recount is exact when nobody is completing another task at the time:   *)
(* a run worked on by one thread reports exactly the new releases of its      *)
(* tasks.                                                                     *)
CounterMatchesTasks ==
  (\A w \in Thread : thread[w].at # "completing") =>
    run.newReleases = Cardinality(NewTasks)

(* When one process alone worked on the run and nothing failed in it, a       *)
(* finished run has no task left open and its counts and its status are those *)
(* of its tasks, however its threads overlapped.                              *)
FinishedRunIsSettled ==
  run.status \in {"completed", "failed"} /\ faults = 0 /\ (\A p, q \in Process : p = q) =>
    /\ Settled
    /\ run.completed = Cardinality(With("completed"))
    /\ run.failed = Cardinality(With("failed"))
    /\ run.status = Verdict

-----------------------------------------------------------------------------
(***************************************************************************)
(* Fairness: the interpreter schedules every runnable thread, and a call to*)
(* the database or the provider returns (all of them have timeouts).  A run*)
(* that was interrupted, or only enqueued, is started by the operator with *)
(* --scan-run-id, again and again if need be, and time passes in between.  *)
(* Nothing obliges a crash, nor the operator to start a run that is well.  *)
(***************************************************************************)
Fairness ==
  /\ \A w \in Thread : WF_vars(ThreadStep(w))
  /\ \A p \in Process : WF_vars(RunnerStep(p)) /\ WF_vars(runner[p].at = "creating" /\ StartRun(p))
  /\ \E p \in Process : WF_vars((faults > 0 \/ run.status = "queued") /\ StartRun(p))
  /\ \A t \in Task : WF_vars(faults > 0 /\ GoOverdue(t))

FairSpec == Spec /\ Fairness

(* A run that was started comes to an end: unless something crashes, there is *)
(* a moment when every task it created is completed or failed and the run is  *)
(* finished, however late its tasks are and whoever else works on it.         *)
RunIsFinished ==
  run.status = "running" ~>
    faults > 0 \/ (run.status \in {"completed", "failed"} /\ Settled)

(* The worker is resumable: a task in the queue is not left open for ever,    *)
(* whatever crashed while it was processed, when the run is started again     *)
(* after the crashes.                                                         *)
TasksAreResumed ==
  \A t \in Task : task[t].status \in {"queued", "running"} ~> task[t].status \in Terminal

=============================================================================
