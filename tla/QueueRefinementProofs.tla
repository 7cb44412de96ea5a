------------------------ MODULE QueueRefinementProofs ------------------------
(***************************************************************************)
(* What TLAPS proves of QueueRefinement, for every value of its constants: *)
(* the Supabase queue implements the in-memory one while no task is        *)
(* overdue.  Statement by statement, the last write of a repository method *)
(* is the step of the in-memory queue, and everything before it stutters.  *)
(***************************************************************************)
EXTENDS QueueRefinement, ScanQueueProofs

(* The main thread of a process works on a run that was created, and finishes *)
(* it with a status that ends it.                                             *)
RunnerKnowsRun ==
  \A p \in Process :
    /\ runner[p].at # "off" => run.status # "absent"
    /\ runner[p].at \in {"judged", "counted"} => runner[p].status \in Terminal

LEMMA RunnerStepKnows == TypeOK /\ RunnerKnowsRun /\ [Next]_vars => RunnerKnowsRun'
<1> SUFFICES ASSUME TypeOK, RunnerKnowsRun, [Next]_vars
             PROVE  RunnerKnowsRun'
  OBVIOUS
<1> USE DEF Terminal
<1>1. ASSUME UNCHANGED runner, run'.status = run.status
      PROVE  RunnerKnowsRun'
  BY <1>1 DEF RunnerKnowsRun
<1>2. ASSUME NEW w \in Thread, ThreadStep(w) \/ ThreadDies(w)
      PROVE  RunnerKnowsRun'
  <2>1. UNCHANGED runner /\ run'.status = run.status
    BY <1>2 DEF ThreadStep, ClaimNone, Claim, BeginComplete, CommitComplete, ReadAttempts,
                WriteFailure, ThreadDies, TypeOK, RunRow
  <2> QED
    BY <1>1, <2>1
<1>3. ASSUME NEW p \in Process, run'.status # "absent" \/ run'.status = run.status,
             \A q \in Process : q # p => runner'[q] = runner[q],
             runner'[p].at # "off" => run'.status # "absent",
             runner'[p].at \in {"judged", "counted"} => runner'[p].status \in Terminal
      PROVE  RunnerKnowsRun'
  BY <1>3 DEF RunnerKnowsRun
<1>4. ASSUME NEW p \in Process, CreateScheduledRun(p) \/ EnqueueAdminRun(p) \/ StartRun(p)
      PROVE  RunnerKnowsRun'
  <2>1. /\ run'.status # "absent"
        /\ \A q \in Process : q # p => runner'[q] = runner[q]
        /\ runner'[p].at \in {"creating", "enqueuing", "draining"}
    BY <1>4 DEF CreateScheduledRun, EnqueueAdminRun, CreateRun, StartRun, Off, TypeOK, RunRow,
                RunnerState
  <2> QED
    BY <1>3, <2>1
<1>5. ASSUME NEW p \in Process, RespondEnqueued(p) \/ RaiseFromThread(p) \/ Crash(p)
      PROVE  RunnerKnowsRun'
  <2>1. /\ run' = run /\ runner'[p].at = "off"
        /\ \A q \in Process : q # p => runner'[q] = runner[q]
    BY <1>5 DEF RespondEnqueued, RaiseFromThread, Crash, Off, TypeOK
  <2> QED
    BY <1>3, <2>1
<1>6. ASSUME NEW p \in Process, FinishRun(p)
      PROVE  RunnerKnowsRun'
  <2>1. /\ run'.status = runner[p].status /\ runner'[p].at = "off"
        /\ \A q \in Process : q # p => runner'[q] = runner[q]
    BY <1>6 DEF FinishRun, Off, TypeOK, RunRow
  <2>2. run'.status # "absent"
    BY <1>6, <2>1 DEF FinishRun, RunnerKnowsRun
  <2> QED
    BY <1>3, <2>1, <2>2
<1>7. ASSUME NEW p \in Process, Judge(p)
      PROVE  RunnerKnowsRun'
  <2>1. Verdict \in Terminal
    BY DEF Verdict
  <2>2. /\ run' = run /\ runner[p].at = "draining" /\ runner'[p].status = Verdict
        /\ \A q \in Process : q # p => runner'[q] = runner[q]
    BY <1>7 DEF Judge, TypeOK, RunnerState
  <2>3. run.status # "absent"
    BY <2>2 DEF RunnerKnowsRun
  <2> QED
    BY <1>3, <2>1, <2>2, <2>3
<1>8. ASSUME NEW p \in Process, CountTasks(p)
      PROVE  RunnerKnowsRun'
  <2> DEFINE completed == Cardinality(With("completed"))
             failed == Cardinality(With("failed"))
  <2>1. /\ run' = run /\ runner[p].at = "judged"
        /\ runner' = [runner EXCEPT ![p] =
                        [@ EXCEPT !.at = "counted", !.completed = completed, !.failed = failed]]
    BY <1>8 DEF CountTasks
  <2>2. runner'[p].status = runner[p].status
    <3> HIDE DEF completed, failed
    <3> QED
      BY <2>1 DEF TypeOK, RunnerState
  <2>3. runner[p].status \in Terminal /\ run.status # "absent"
    BY <2>1 DEF RunnerKnowsRun
  <2>4. \A q \in Process : q # p => runner'[q] = runner[q]
    BY <2>1 DEF TypeOK
  <2> QED
    BY <1>3, <2>1, <2>2, <2>3, <2>4
<1>9. ASSUME (\E t \in Task : GoOverdue(t) \/ \E p \in Process : CreateTask(p, t))
             \/ UNCHANGED vars
      PROVE  RunnerKnowsRun'
  <2>1. UNCHANGED <<runner, run>>
    BY <1>9 DEF GoOverdue, CreateTask, vars
  <2> QED
    BY <1>1, <2>1
<1> QED
  BY <1>2, <1>4, <1>5, <1>6, <1>7, <1>8, <1>9 DEF Next, RunnerStep

LEMMA RunnerInvariant == Spec => []RunnerKnowsRun
<1>1. Init => RunnerKnowsRun
  BY DEF Init, RunnerKnowsRun, Off
<1> QED
  BY <1>1, TypeCorrect, RunnerStepKnows, PTL DEF Spec

-----------------------------------------------------------------------------
(* The in-memory queue counts with the same Cardinality. *)
LEMMA SameCount == \A S : Memory!Cardinality(S) = Cardinality(S)
BY DEF Cardinality, Memory!Cardinality

(* The counts of CurrentRun are the ones that the in-memory queue refreshes. *)
LEMMA CurrentIsRefreshed ==
  /\ CurrentRun = Memory!Refreshed(task, run.status)
  /\ CurrentRun' = Memory!Refreshed(task', run'.status)
  /\ CurrentRun.status = run.status
<1>1. CurrentRun = Memory!Refreshed(task, run.status)
  BY SameCount DEF CurrentRun, Memory!Refreshed, NewTasks, With
<1>2. CurrentRun' = Memory!Refreshed(task', run'.status)
  BY SameCount DEF CurrentRun, Memory!Refreshed, NewTasks, With
<1>3. CurrentRun.status = run.status
  BY DEF CurrentRun
<1> QED
  BY <1>1, <1>2, <1>3

(* Every task is younger than 15 minutes. *)
OnTime == overdue = {}

(* Every held task is running: nobody holds a task that has an outcome. *)
LEMMA HeldIsRunning ==
  ASSUME FreshTasks, OnTime, NEW w \in Thread, NEW t \in Task, Holds(w, t)
  PROVE  /\ t \in HeldTasks /\ task[t].status = "running"
         /\ \A v \in Thread : Holds(v, t) => v = w
         /\ thread[w].retry => task[t].attempts < MaxAttempts
BY DEF FreshTasks, FreshTask, HeldTasks, Holders, OnTime

(* A step that moves nothing a caller of the queue can see. *)
LEMMA Stutters ==
  ASSUME UNCHANGED task, run'.status = run.status,
         \A w \in Thread : thread'[w].task = thread[w].task
  PROVE  UNCHANGED Memory!memoryVars
BY DEF CurrentRun, HeldTasks, Holders, Holds, NewTasks, With, Memory!memoryVars

(* Threads that go lose what they held. *)
LEMMA Abandons ==
  ASSUME UNCHANGED task, run'.status = run.status,
         \A w \in Thread : thread'[w].task \in {NoTask, thread[w].task}
  PROVE  Memory!Abandon
<1>1. CurrentRun' = CurrentRun
  BY DEF CurrentRun, NewTasks, With
<1>2. HeldTasks' \subseteq HeldTasks
  BY TaskAssumption DEF HeldTasks, Holders, Holds
<1>3. /\ HeldTasks \ HeldTasks' \in SUBSET HeldTasks
      /\ HeldTasks' = HeldTasks \ (HeldTasks \ HeldTasks')
  BY <1>2
<1> QED
  BY <1>1, <1>3 DEF Memory!Abandon

LEMMA MemoryStep ==
  ASSUME TypeOK, FreshTasks, RunnerKnowsRun, IdleProcess, OnTime, OnTime', [Next]_vars
  PROVE  [Memory!Next]_Memory!memoryVars
<1>1. DOMAIN thread = Thread /\ DOMAIN task = Task
  BY DEF TypeOK
<1>2. ASSUME NEW w \in Thread, ClaimNone(w)
      PROVE  UNCHANGED Memory!memoryVars
  <2>1. UNCHANGED <<task, run>>
    BY <1>2 DEF ClaimNone
  <2>2. \A v \in Thread : thread'[v].task = thread[v].task
    BY <1>2 DEF ClaimNone, Idle, TypeOK
  <2> QED
    BY <2>1, <2>2, Stutters
<1>3. ASSUME NEW w \in Thread, NEW t \in Task, Claim(w, t)
      PROVE  Memory!ClaimNextQueuedTask(t)
  <2>1. task[t].status = "queued"
    BY <1>3 DEF Claim, Claimable, With, OnTime
  <2> DEFINE row == [task[t] EXCEPT !.status = "running", !.attempts = @ + 1]
  <2>2. task' = [task EXCEPT ![t] = row] /\ run' = run
    BY <1>3 DEF Claim, TypeOK, TaskRow
  <2>3. CurrentRun' = Memory!Refreshed(task', CurrentRun.status)
    BY <2>2, CurrentIsRefreshed
  <2>4. HeldTasks' = HeldTasks \cup {t}
    <3>1. /\ thread[w].task = NoTask /\ thread'[w].task = t
          /\ \A v \in Thread : v # w => thread'[v] = thread[v]
      BY <1>3 DEF Claim, Idle, TypeOK
    <3> QED
      BY <3>1, TaskAssumption DEF HeldTasks, Holders, Holds
  <2> QED
    <3>1. Memory!Update(t, row)
      <4> HIDE DEF row
      <4> QED
        BY <2>2, <2>3 DEF Memory!Update
    <3> QED
      BY <2>1, <2>4, <3>1 DEF Memory!ClaimNextQueuedTask
<1>4. ASSUME NEW w \in Thread, NEW t \in Task,
             \/ \E isNew \in BOOLEAN : BeginComplete(w, t, isNew)
             \/ \E retryable \in BOOLEAN : ReadAttempts(w, t, retryable)
      PROVE  UNCHANGED Memory!memoryVars
  <2>1. UNCHANGED <<task, run>>
    BY <1>4 DEF BeginComplete, ReadAttempts
  <2>2. \A v \in Thread : thread'[v].task = thread[v].task
    <3>1. CASE \E isNew \in BOOLEAN : BeginComplete(w, t, isNew)
      BY <3>1 DEF BeginComplete, TypeOK, ThreadState
    <3>2. CASE \E retryable \in BOOLEAN : ReadAttempts(w, t, retryable)
      BY <3>2 DEF ReadAttempts, TypeOK, ThreadState
    <3> QED
      BY <1>4, <3>1, <3>2
  <2> QED
    BY <2>1, <2>2, Stutters
(* The two calls that give a task back: who held it holds it no more, and      *)
(* nobody else did.                                                            *)
<1>5. ASSUME NEW w \in Thread, NEW t \in Task, Holds(w, t),
             thread' = [thread EXCEPT ![w] = Idle("claiming")]
      PROVE  HeldTasks' = HeldTasks \ {t}
  <2>1. \A v \in Thread : Holds(v, t) => v = w
    BY <1>5, HeldIsRunning
  <2>2. thread'[w].task = NoTask /\ \A v \in Thread : v # w => thread'[v] = thread[v]
    BY <1>5 DEF Idle, TypeOK
  <2> QED
    BY <1>5, <2>1, <2>2, TaskAssumption DEF HeldTasks, Holders, Holds
<1>6. ASSUME NEW w \in Thread, NEW t \in Task, CommitComplete(w, t)
      PROVE  Memory!CompleteTask(t, thread[w].foundNew)
  <2>1. Holds(w, t) /\ HeldTasks' = HeldTasks \ {t}
    BY <1>5, <1>6 DEF CommitComplete
  <2>2. t \in HeldTasks
    BY <2>1, HeldIsRunning
  <2>3. /\ task' = [task EXCEPT ![t] = [@ EXCEPT !.status = "completed",
                                                  !.foundNew = thread[w].foundNew]]
        /\ run'.status = run.status
    BY <1>6 DEF CommitComplete, TypeOK, RunRow
  <2>4. CurrentRun' = Memory!Refreshed(task', CurrentRun.status)
    BY <2>3, CurrentIsRefreshed
  <2> QED
    BY <2>1, <2>2, <2>3, <2>4 DEF Memory!CompleteTask, Memory!Update
<1>7. ASSUME NEW w \in Thread, NEW t \in Task, WriteFailure(w, t)
      PROVE  Memory!FailTask(t, thread[w].retry)
  <2>1. Holds(w, t) /\ HeldTasks' = HeldTasks \ {t}
    BY <1>5, <1>7 DEF WriteFailure
  <2>2. t \in HeldTasks /\ (thread[w].retry => task[t].attempts < MaxAttempts)
    BY <2>1, HeldIsRunning
  <2> DEFINE status == IF thread[w].retry /\ task[t].attempts < MaxAttempts
                       THEN "queued" ELSE "failed"
  <2>3. status = IF thread[w].retry THEN "queued" ELSE "failed"
    BY <2>2
  <2>4. task' = [task EXCEPT ![t] = [@ EXCEPT !.status = status]] /\ run' = run
    BY <1>7, <2>3 DEF WriteFailure
  <2>5. CurrentRun' = Memory!Refreshed(task', CurrentRun.status)
    BY <2>4, CurrentIsRefreshed
  <2> QED
    BY <2>1, <2>2, <2>4, <2>5 DEF Memory!FailTask, Memory!Update
<1>8. ASSUME NEW w \in Thread, ThreadDies(w)
      PROVE  Memory!Abandon
  <2>1. UNCHANGED <<task, run>>
    BY <1>8 DEF ThreadDies
  <2>2. \A v \in Thread : thread'[v].task \in {NoTask, thread[v].task}
    BY <1>8 DEF ThreadDies, Idle, TypeOK
  <2> QED
    BY <2>1, <2>2, Abandons
<1>9. ASSUME NEW p \in Process, NEW status \in {"queued", "running"},
             NEW at \in {"creating", "enqueuing"}, CreateRun(p, at, status)
      PROVE  Memory!CreateRun(status)
  <2>1. run.status = "absent" /\ run'.status = status /\ UNCHANGED <<task, thread>>
    BY <1>9 DEF CreateRun, TypeOK, RunRow
  <2>2. HeldTasks' = HeldTasks
    BY <2>1 DEF HeldTasks, Holders, Holds
  <2> QED
    BY <2>1, <2>2, CurrentIsRefreshed DEF Memory!CreateRun
<1>10. ASSUME NEW p \in Process, NEW t \in Task, CreateTask(p, t)
       PROVE  Memory!CreateTask(t)
  <2>1. /\ task[t].status = "absent" /\ UNCHANGED <<run, thread>>
        /\ task' = [task EXCEPT ![t] = [@ EXCEPT !.status = "queued"]]
    BY <1>10 DEF CreateTask
  <2>2. run.status # "absent"
    BY <1>10 DEF CreateTask, RunnerKnowsRun
  <2>3. HeldTasks' = HeldTasks
    BY <2>1 DEF HeldTasks, Holders, Holds
  <2>4. CurrentRun' = Memory!Refreshed(task', CurrentRun.status)
    BY <2>1, CurrentIsRefreshed
  <2> QED
    BY <2>1, <2>2, <2>3, <2>4, CurrentIsRefreshed DEF Memory!CreateTask, Memory!Update
<1>11. ASSUME NEW p \in Process, StartRun(p)
       PROVE  Memory!StartRun
  <2>1. runner[p].at \in {"off", "creating"} /\ run.status # "absent"
    BY <1>11 DEF StartRun, RunnerKnowsRun
  <2>2. run'.status = "running" /\ UNCHANGED task
    BY <1>11 DEF StartRun, TypeOK, RunRow
  <2>3. CurrentRun' = [CurrentRun EXCEPT !.status = "running"]
    BY <2>2, CurrentIsRefreshed DEF Memory!Refreshed
  <2>4. ASSUME NEW w \in Thread
        PROVE  thread'[w].task = thread[w].task
    <3>1. Owner[w] = p => thread[w].at = "off"
      BY <2>1 DEF IdleProcess
    <3>2. Owner[w] = p => thread[w].task = NoTask
      BY <3>1 DEF TypeOK
    <3> QED
      BY <1>11, <3>2 DEF StartRun, Idle
  <2>5. HeldTasks' = HeldTasks
    BY <2>4 DEF HeldTasks, Holders, Holds
  <2> QED
    BY <2>1, <2>2, <2>3, <2>5, CurrentIsRefreshed DEF Memory!StartRun
<1>12. ASSUME NEW p \in Process, FinishRun(p)
       PROVE  \E status \in {"completed", "failed"} : Memory!FinishRun(status)
  <2>1. /\ runner[p].at = "counted" /\ run'.status = runner[p].status
        /\ UNCHANGED <<task, thread>>
    BY <1>12 DEF FinishRun, TypeOK, RunRow
  <2>2. run.status # "absent" /\ runner[p].status \in {"completed", "failed"}
    BY <2>1 DEF RunnerKnowsRun, Terminal
  <2>3. HeldTasks' = HeldTasks
    BY <2>1 DEF HeldTasks, Holders, Holds
  <2> QED
    BY <2>1, <2>2, <2>3, CurrentIsRefreshed DEF Memory!FinishRun
<1>13. ASSUME NEW p \in Process, Judge(p) \/ RaiseFromThread(p) \/ Crash(p)
       PROVE  Memory!Abandon
  <2>1. UNCHANGED <<task, run>>
    BY <1>13 DEF Judge, RaiseFromThread, Crash
  <2>2. \A v \in Thread : thread'[v].task \in {NoTask, thread[v].task}
    BY <1>13 DEF Judge, RaiseFromThread, Crash, Idle
  <2> QED
    BY <2>1, <2>2, Abandons
<1>14. ASSUME NEW p \in Process, RespondEnqueued(p) \/ CountTasks(p)
       PROVE  UNCHANGED Memory!memoryVars
  BY <1>14, Stutters DEF RespondEnqueued, CountTasks
<1>15. ASSUME UNCHANGED vars
       PROVE  UNCHANGED Memory!memoryVars
  BY <1>15, Stutters DEF vars
<1>16. ASSUME NEW t \in Task
       PROVE  ~GoOverdue(t)
  BY DEF GoOverdue, OnTime
<1>17. ASSUME NEW w \in Thread, ThreadStep(w)
       PROVE  [Memory!Next]_Memory!memoryVars
  <2>1. CASE ClaimNone(w)
    BY <1>2, <2>1
  <2>2. ASSUME NEW t \in Task, Claim(w, t)
        PROVE  Memory!Next
    BY <1>3, <2>2 DEF Memory!Next
  <2>3. ASSUME NEW t \in Task, CommitComplete(w, t)
        PROVE  Memory!Next
    <3>1. thread[w].foundNew \in BOOLEAN
      BY DEF TypeOK, ThreadState
    <3> QED
      BY <1>6, <2>3, <3>1 DEF Memory!Next
  <2>4. ASSUME NEW t \in Task, WriteFailure(w, t)
        PROVE  Memory!Next
    <3>1. thread[w].retry \in BOOLEAN
      BY DEF TypeOK, ThreadState
    <3> QED
      BY <1>7, <2>4, <3>1 DEF Memory!Next
  <2> QED
    BY <1>4, <1>17, <2>1, <2>2, <2>3, <2>4 DEF ThreadStep
<1>18. ASSUME NEW p \in Process, CreateScheduledRun(p) \/ EnqueueAdminRun(p)
       PROVE  Memory!Next
  BY <1>9, <1>18 DEF CreateScheduledRun, EnqueueAdminRun, Memory!Next
<1>19. ASSUME NEW p \in Process, StartRun(p) \/ RunnerStep(p) \/ Crash(p)
       PROVE  [Memory!Next]_Memory!memoryVars
  <2>1. ASSUME NEW t \in Task, CreateTask(p, t)
        PROVE  Memory!Next
    BY <1>10, <2>1 DEF Memory!Next
  <2>2. ASSUME StartRun(p) \/ FinishRun(p) \/ Judge(p) \/ RaiseFromThread(p) \/ Crash(p)
        PROVE  Memory!Next
    BY <1>11, <1>12, <1>13, <2>2 DEF Memory!Next
  <2> QED
    BY <1>14, <1>19, <2>1, <2>2 DEF RunnerStep
<1>20. ASSUME NEW w \in Thread, ThreadDies(w)
       PROVE  Memory!Next
  BY <1>8, <1>20 DEF Memory!Next
<1> QED
  BY <1>15, <1>16, <1>17, <1>18, <1>19, <1>20 DEF Next

(* As long as every task is done with within 15 minutes of its first claim,   *)
(* the queue of the database behaves as the in-memory one: each statement of  *)
(* complete_scan_task, fail_task and finish_run is a step of it or changes    *)
(* nothing that shows, whatever processes and threads crash in between.       *)
THEOREM PunctualQueueImplementsMemory ==
  Spec /\ []OnTime => ImplementsMemoryQueue
<1>1. Init => Memory!Init
  <2> SUFFICES ASSUME Init
               PROVE  Memory!Init
    OBVIOUS
  <2>1. HeldTasks = {}
    BY TaskAssumption DEF Init, Idle, HeldTasks, Holders, Holds
  <2>2. With("completed") = {} /\ With("failed") = {} /\ NewTasks = {}
    BY DEF Init, With, NewTasks
  <2>3. CurrentRun = [status |-> "absent", completed |-> 0, failed |-> 0, newReleases |-> 0]
    BY <2>2, FS_EmptySet DEF Init, CurrentRun
  <2> QED
    BY <2>1, <2>3 DEF Init, Memory!Init
<1> QED
  BY <1>1, TypeCorrect, FreshInvariant, RunnerInvariant, IdleInvariant, MemoryStep, PTL
  DEF Spec, ImplementsMemoryQueue, Memory!Spec

(* The same of the instances in which time does not run out. *)
COROLLARY QueueImplementsMemory ==
  ASSUME ~MayGoOverdue
  PROVE  Spec => ImplementsMemoryQueue
<1>1. Init => OnTime
  BY DEF Init, OnTime
<1>2. OnTime /\ [Next]_vars => OnTime'
  BY DEF Next, ThreadStep, RunnerStep, ClaimNone, Claim, BeginComplete, CommitComplete,
         ReadAttempts, WriteFailure, ThreadDies, CreateScheduledRun, EnqueueAdminRun,
         CreateRun, StartRun, CreateTask, RespondEnqueued, Judge, CountTasks, FinishRun,
         RaiseFromThread, Crash, GoOverdue, OnTime, vars
<1> QED
  BY <1>1, <1>2, PunctualQueueImplementsMemory, PTL DEF Spec
=============================================================================
