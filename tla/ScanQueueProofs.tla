--------------------------- MODULE ScanQueueProofs ---------------------------
(***************************************************************************)
(* What TLAPS proves of ScanQueue, for every value of its constants.       *)
(***************************************************************************)
EXTENDS ScanQueue, FiniteSetTheorems, TLAPS

(* The counts the code takes over the rows of a run are numbers. *)
LEMMA CountIsNat ==
  ASSUME NEW S, S \subseteq Task
  PROVE  Cardinality(S) \in Nat
BY TaskAssumption, FS_Subset, FS_CardinalityType

-----------------------------------------------------------------------------
(* The rows and states that the multi-field updates write are well formed. *)
LEMMA UpdatesKeepShape ==
  /\ \A row \in TaskRow, isNew \in BOOLEAN :
       [row EXCEPT !.status = "completed", !.foundNew = isNew] \in TaskRow
  /\ \A row \in ThreadState, isNew \in BOOLEAN, n \in Nat :
       [row EXCEPT !.at = "completing", !.foundNew = isNew, !.count = n] \in ThreadState
  /\ \A row \in ThreadState, retry \in BOOLEAN :
       [row EXCEPT !.at = "failing", !.retry = retry] \in ThreadState
<1>1. ASSUME NEW row \in TaskRow, NEW isNew \in BOOLEAN
      PROVE  [row EXCEPT !.status = "completed", !.foundNew = isNew] \in TaskRow
  BY DEF TaskRow, TaskStatus
<1>2. ASSUME NEW row \in ThreadState, NEW isNew \in BOOLEAN, NEW n \in Nat
      PROVE  [row EXCEPT !.at = "completing", !.foundNew = isNew, !.count = n] \in ThreadState
  BY DEF ThreadState
<1>3. ASSUME NEW row \in ThreadState, NEW retry \in BOOLEAN
      PROVE  [row EXCEPT !.at = "failing", !.retry = retry] \in ThreadState
  BY DEF ThreadState
<1> QED
  BY <1>1, <1>2, <1>3

-----------------------------------------------------------------------------
(* Every repository call and every fault leaves rows, threads and processes   *)
(* well formed, and a thread holds a task exactly while it works on it.       *)
THEOREM TypeCorrect == Spec => []TypeOK
<1>1. Init => TypeOK
  BY NumberAssumption, TaskAssumption
  DEF Init, TypeOK, TaskRow, RunRow, ThreadState, RunnerState, Idle, Off,
      TaskStatus, RunStatus
<1>2. TypeOK /\ [Next]_vars => TypeOK'
  <2> SUFFICES ASSUME TypeOK, [Next]_vars
               PROVE  TypeOK'
    OBVIOUS
  <2> USE NumberAssumption, OwnerAssumption
      DEF TypeOK
  <2>1. ASSUME NEW w \in Thread, ClaimNone(w)
        PROVE  TypeOK'
    BY <2>1 DEF ClaimNone, Idle, ThreadState
  <2>2. ASSUME NEW w \in Thread, NEW t \in Task, Claim(w, t)
        PROVE  TypeOK'
    <3>1. t # NoTask
      BY TaskAssumption
    <3> QED
      BY <2>2, <3>1 DEF Claim, Idle, ThreadState, TaskRow, TaskStatus
  <2>3. ASSUME NEW w \in Thread, NEW t \in Task, NEW isNew \in BOOLEAN,
               BeginComplete(w, t, isNew)
        PROVE  TypeOK'
    <3>1. Cardinality(NewTasks \ {t}) \in Nat
      BY CountIsNat DEF NewTasks, With
    <3> DEFINE count == Cardinality(NewTasks \ {t}) + (IF isNew THEN 1 ELSE 0)
               row == [thread[w] EXCEPT !.at = "completing", !.foundNew = isNew,
                                        !.count = count]
    <3>2. count \in Nat
      BY <3>1
    <3>3. row \in ThreadState
      <4> HIDE DEF count
      <4> QED
        BY <3>2, UpdatesKeepShape
    <3>4. row.at = "completing" /\ row.task = thread[w].task
      BY DEF ThreadState
    <3>5. thread' = [thread EXCEPT ![w] = row] /\ thread[w].task # NoTask
      BY <2>3 DEF BeginComplete
    <3> HIDE DEF row
    <3> QED
      BY <2>3, <3>3, <3>4, <3>5 DEF BeginComplete
  <2>4. ASSUME NEW w \in Thread, NEW t \in Task, CommitComplete(w, t)
        PROVE  TypeOK'
    <3>1. thread[w].foundNew \in BOOLEAN /\ thread[w].count \in Nat
      BY DEF ThreadState
    <3>2. task' \in [Task -> TaskRow]
      BY <2>4, <3>1, UpdatesKeepShape DEF CommitComplete
    <3>3. run' \in RunRow
      BY <2>4, <3>1 DEF CommitComplete, RunRow
    <3> QED
      BY <2>4, <3>2, <3>3 DEF CommitComplete, Idle, ThreadState
  <2>5. ASSUME NEW w \in Thread, NEW t \in Task, NEW retryable \in BOOLEAN,
               ReadAttempts(w, t, retryable)
        PROVE  TypeOK'
    <3> DEFINE retry == retryable /\ task[t].attempts < MaxAttempts
               row == [thread[w] EXCEPT !.at = "failing", !.retry = retry]
    <3>1. row \in ThreadState
      <4>1. retry \in BOOLEAN
        OBVIOUS
      <4> HIDE DEF retry
      <4> QED
        BY <4>1, UpdatesKeepShape
    <3>2. row.at = "failing" /\ row.task = thread[w].task
      BY DEF ThreadState
    <3>3. thread' = [thread EXCEPT ![w] = row] /\ thread[w].task # NoTask
      BY <2>5 DEF ReadAttempts
    <3> HIDE DEF row
    <3> QED
      BY <2>5, <3>1, <3>2, <3>3 DEF ReadAttempts
  <2>6. ASSUME NEW w \in Thread, NEW t \in Task, WriteFailure(w, t)
        PROVE  TypeOK'
    BY <2>6 DEF WriteFailure, Idle, ThreadState, TaskRow, TaskStatus
  <2>7. ASSUME NEW w \in Thread, ThreadDies(w)
        PROVE  TypeOK'
    BY <2>7 DEF ThreadDies, Idle, ThreadState
  <2>8. ASSUME NEW p \in Process, CreateScheduledRun(p) \/ EnqueueAdminRun(p)
        PROVE  TypeOK'
    <3>1. PICK at \in {"creating", "enqueuing"}, status \in {"queued", "running"} :
            CreateRun(p, at, status)
      BY <2>8 DEF CreateScheduledRun, EnqueueAdminRun
    <3>2. run' \in RunRow
      BY <3>1 DEF CreateRun, RunRow, RunStatus
    <3>3. runner' \in [Process -> RunnerState]
      BY <3>1 DEF CreateRun, RunnerState
    <3> QED
      BY <3>1, <3>2, <3>3 DEF CreateRun
  <2>9. ASSUME NEW p \in Process, NEW t \in Task, CreateTask(p, t)
        PROVE  TypeOK'
    BY <2>9 DEF CreateTask, TaskRow, TaskStatus
  <2>10. ASSUME NEW p \in Process, RespondEnqueued(p) \/ FinishRun(p)
         PROVE  TypeOK'
    <3>1. run' \in RunRow
      BY <2>10 DEF RespondEnqueued, FinishRun, RunRow, RunnerState
    <3>2. Off \in RunnerState
      BY DEF Off, RunnerState, RunStatus
    <3>3. runner' \in [Process -> RunnerState]
      BY <2>10, <3>2 DEF RespondEnqueued, FinishRun
    <3> QED
      BY <2>10, <3>1, <3>3 DEF RespondEnqueued, FinishRun
  <2>11. ASSUME NEW p \in Process, StartRun(p)
         PROVE  TypeOK'
    BY <2>11 DEF StartRun, Off, Idle, RunRow, RunStatus, RunnerState, ThreadState
  <2>12. ASSUME NEW p \in Process, Judge(p)
         PROVE  TypeOK'
    <3>1. Verdict \in {"completed", "failed"}
      BY DEF Verdict
    <3> QED
      BY <2>12, <3>1 DEF Judge, Idle, RunnerState, RunStatus, ThreadState
  <2>13. ASSUME NEW p \in Process, CountTasks(p)
         PROVE  TypeOK'
    <3>1. Cardinality(With("completed")) \in Nat /\ Cardinality(With("failed")) \in Nat
      BY CountIsNat DEF With
    <3> QED
      BY <2>13, <3>1 DEF CountTasks, RunnerState
  <2>14. ASSUME NEW p \in Process, RaiseFromThread(p)
         PROVE  TypeOK'
    BY <2>14 DEF RaiseFromThread, Off, Idle, RunnerState, RunStatus, ThreadState
  <2>15. ASSUME NEW p \in Process, Crash(p)
         PROVE  TypeOK'
    BY <2>15 DEF Crash, Off, Idle, RunnerState, RunStatus, ThreadState
  <2>16. ASSUME NEW t \in Task, GoOverdue(t)
         PROVE  TypeOK'
    BY <2>16 DEF GoOverdue
  <2>17. CASE UNCHANGED vars
    BY <2>17 DEF vars
  <2> QED
    BY <2>1, <2>2, <2>3, <2>4, <2>5, <2>6, <2>7, <2>8, <2>9, <2>10, <2>11, <2>12,
       <2>13, <2>14, <2>15, <2>16, <2>17
    DEF Next, ThreadStep, RunnerStep
<1> QED
  BY <1>1, <1>2, PTL DEF Spec

-----------------------------------------------------------------------------
(***************************************************************************)
(* FreshTaskIsExclusive is not inductive: that a queued task may still be  *)
(* claimed, and that a thread about to requeue its task may do so, depends *)
(* on the attempts left, and that a claimed queued row has no other thread *)
(* on it depends on its status.                                            *)
(***************************************************************************)
FreshTask(t) ==
  /\ task[t].attempts <= MaxAttempts
  /\ \A v, w \in Thread : Holds(v, t) /\ Holds(w, t) => v = w
  /\ \A w \in Thread : Holds(w, t) => task[t].status = "running"
  /\ task[t].status = "absent" => task[t].attempts = 0
  /\ task[t].status = "queued" => task[t].attempts < MaxAttempts
  /\ \A w \in Thread :
       Holds(w, t) /\ thread[w].retry => task[t].attempts < MaxAttempts

FreshTasks == \A t \in Task \ overdue : FreshTask(t)

(* Steps that leave the rows alone and give no thread another task.        *)
LEMMA ReleasingKeepsFresh ==
  ASSUME FreshTasks, UNCHANGED task, overdue \subseteq overdue',
         \A w \in Thread : \/ thread'[w].task = NoTask
                           \/ thread'[w].task = thread[w].task
                              /\ thread'[w].retry = thread[w].retry
  PROVE  FreshTasks'
BY TaskAssumption DEF FreshTasks, FreshTask, Holds

(* The steps of one thread on one task keep that task and all others fresh. *)
LEMMA FreshStep == TypeOK /\ FreshTasks /\ [Next]_vars => FreshTasks'
<1> SUFFICES ASSUME TypeOK, FreshTasks, [Next]_vars
             PROVE  FreshTasks'
  OBVIOUS
<1> USE TaskAssumption, NumberAssumption
<1>1. \A w \in Thread :
        /\ thread[w].task \in Task \cup {NoTask}
        /\ thread[w].at \in {"working", "failing", "completing"} <=> thread[w].task # NoTask
  BY DEF TypeOK, ThreadState
<1>2. \A t \in Task : task[t] \in TaskRow /\ task[t].attempts \in Nat
  BY DEF TypeOK, TaskRow
<1>3. DOMAIN thread = Thread /\ DOMAIN task = Task
  BY DEF TypeOK
<1>4. ASSUME NEW w \in Thread, ClaimNone(w) \/ ThreadDies(w)
      PROVE  FreshTasks'
  <2>1. \A v \in Thread : thread'[v].task = NoTask \/ thread'[v] = thread[v]
    BY <1>4, <1>3 DEF ClaimNone, ThreadDies, Idle, TypeOK
  <2> QED
    BY <1>4, <2>1, ReleasingKeepsFresh DEF ClaimNone, ThreadDies
<1>5. ASSUME NEW w \in Thread, NEW t \in Task, NEW isNew \in BOOLEAN,
             BeginComplete(w, t, isNew)
      PROVE  FreshTasks'
  <2>1. \A v \in Thread : thread'[v].task = thread[v].task /\ thread'[v].retry = thread[v].retry
    BY <1>5 DEF BeginComplete, TypeOK, ThreadState
  <2> QED
    BY <1>5, <2>1, ReleasingKeepsFresh DEF BeginComplete
<1>6. ASSUME NEW w \in Thread, NEW t \in Task, Claim(w, t)
      PROVE  FreshTasks'
  <2>1. thread[w].task = NoTask
    BY <1>6, <1>1 DEF Claim
  <2>2. \A v \in Thread : v # w => thread'[v] = thread[v]
    BY <1>6, <1>3 DEF Claim, TypeOK
  <2>3. thread'[w].task = t /\ thread'[w].retry = FALSE
    BY <1>6, <1>3 DEF Claim, Idle, TypeOK
  <2>4. \A u \in Task : u # t => task'[u] = task[u]
    BY <1>6, <1>3 DEF Claim, TypeOK
  <2>5. task'[t].status = "running" /\ task'[t].attempts = task[t].attempts + 1
    BY <1>6, <1>2 DEF Claim, TypeOK, TaskRow
  <2>6. overdue' = overdue
    BY <1>6 DEF Claim
  <2>7. task[t].status = "queued" \/ t \in overdue
    BY <1>6 DEF Claim, Claimable, With
  <2>8. ASSUME NEW u \in Task \ overdue, u # t
        PROVE  FreshTask(u)'
    BY <2>1, <2>2, <2>3, <2>4, <2>8 DEF FreshTasks, FreshTask, Holds
  <2>9. ASSUME t \notin overdue
        PROVE  FreshTask(t)'
    <3>1. FreshTask(t) /\ task[t].status = "queued"
      BY <2>7, <2>9 DEF FreshTasks
    <3>2. \A v \in Thread : ~Holds(v, t)
      BY <3>1 DEF FreshTask
    <3>3. \A v \in Thread : Holds(v, t)' => v = w
      BY <2>2, <3>2 DEF Holds
    <3>4. task'[t].attempts <= MaxAttempts
      BY <2>5, <3>1, <1>2 DEF FreshTask
    <3> QED
      BY <2>3, <2>5, <3>3, <3>4 DEF FreshTask
  <2> QED
    BY <2>6, <2>8, <2>9 DEF FreshTasks
<1>7. ASSUME NEW w \in Thread, NEW t \in Task, NEW retryable \in BOOLEAN,
             ReadAttempts(w, t, retryable)
      PROVE  FreshTasks'
  <2>1. \A v \in Thread : thread'[v].task = thread[v].task
    BY <1>7 DEF ReadAttempts, TypeOK, ThreadState
  <2>2. \A v \in Thread : v # w => thread'[v] = thread[v]
    BY <1>7, <1>3 DEF ReadAttempts, TypeOK
  <2>3. thread'[w].retry => task[t].attempts < MaxAttempts
    BY <1>7 DEF ReadAttempts, TypeOK, ThreadState
  <2>4. thread[w].task = t /\ UNCHANGED <<task, overdue>>
    BY <1>7 DEF ReadAttempts, Holds
  <2> QED
    BY <2>1, <2>2, <2>3, <2>4 DEF FreshTasks, FreshTask, Holds
<1>8. ASSUME NEW w \in Thread, NEW t \in Task, CommitComplete(w, t) \/ WriteFailure(w, t)
      PROVE  FreshTasks'
  <2>1. thread[w].task = t
    BY <1>8 DEF CommitComplete, WriteFailure, Holds
  <2>2. \A v \in Thread : v # w => thread'[v] = thread[v]
    BY <1>8, <1>3 DEF CommitComplete, WriteFailure, TypeOK
  <2>3. thread'[w].task = NoTask
    BY <1>8 DEF CommitComplete, WriteFailure, Idle, TypeOK
  <2>4. \A u \in Task : u # t => task'[u] = task[u]
    BY <1>8 DEF CommitComplete, WriteFailure, TypeOK
  <2>5. /\ task'[t].attempts = task[t].attempts
        /\ task'[t].status \in {"completed", "failed", "queued"}
        /\ task'[t].status = "queued" => thread[w].retry
    <3>1. CASE CommitComplete(w, t)
      <4>1. task'[t] = [task[t] EXCEPT !.status = "completed",
                                       !.foundNew = thread[w].foundNew]
        BY <3>1 DEF CommitComplete, TypeOK
      <4> QED
        BY <4>1, <1>2 DEF TaskRow
    <3>2. CASE WriteFailure(w, t)
      BY <3>2, <1>2 DEF WriteFailure, TypeOK, TaskRow
    <3> QED
      BY <1>8, <3>1, <3>2
  <2>6. overdue' = overdue
    BY <1>8 DEF CommitComplete, WriteFailure
  <2>7. ASSUME NEW u \in Task \ overdue, u # t
        PROVE  FreshTask(u)'
    BY <2>1, <2>2, <2>3, <2>4, <2>7 DEF FreshTasks, FreshTask, Holds
  <2>8. ASSUME t \notin overdue
        PROVE  FreshTask(t)'
    <3>1. FreshTask(t)
      BY <2>8 DEF FreshTasks
    <3>2. \A v \in Thread : ~Holds(v, t)'
      BY <3>1, <2>1, <2>2, <2>3 DEF FreshTask, Holds
    <3> QED
      BY <3>1, <3>2, <2>1, <2>5 DEF FreshTask, Holds
  <2> QED
    BY <2>6, <2>7, <2>8 DEF FreshTasks
<1>9. ASSUME NEW p \in Process, NEW t \in Task, CreateTask(p, t)
      PROVE  FreshTasks'
  <2>1. thread' = thread /\ overdue' = overdue
    BY <1>9 DEF CreateTask
  <2>2. \A u \in Task : u # t => task'[u] = task[u]
    BY <1>9 DEF CreateTask, TypeOK
  <2>3. /\ task[t].status = "absent" /\ task'[t].status = "queued"
        /\ task'[t].attempts = task[t].attempts
    BY <1>9, <1>2 DEF CreateTask, TypeOK, TaskRow
  <2> QED
    BY <2>1, <2>2, <2>3 DEF FreshTasks, FreshTask, Holds
<1>10. ASSUME NEW p \in Process,
              StartRun(p) \/ Judge(p) \/ RaiseFromThread(p) \/ Crash(p)
       PROVE  FreshTasks'
  <2>1. \A v \in Thread : thread'[v].task = NoTask \/ thread'[v] = thread[v]
    BY <1>10 DEF StartRun, Judge, RaiseFromThread, Crash, Idle
  <2> QED
    BY <1>10, <2>1, ReleasingKeepsFresh DEF StartRun, Judge, RaiseFromThread, Crash
<1>11. ASSUME NEW p \in Process,
              \/ CreateScheduledRun(p) \/ EnqueueAdminRun(p) \/ RespondEnqueued(p)
              \/ CountTasks(p) \/ FinishRun(p)
       PROVE  FreshTasks'
  <2>1. UNCHANGED <<task, overdue, thread>>
    BY <1>11 DEF CreateScheduledRun, EnqueueAdminRun, CreateRun, RespondEnqueued,
                 CountTasks, FinishRun
  <2> QED
    BY <2>1, ReleasingKeepsFresh
<1>12. ASSUME NEW t \in Task, GoOverdue(t)
       PROVE  FreshTasks'
  BY <1>12, ReleasingKeepsFresh DEF GoOverdue
<1>13. CASE UNCHANGED vars
  BY <1>13, ReleasingKeepsFresh DEF vars
<1> QED
  BY <1>4, <1>5, <1>6, <1>7, <1>8, <1>9, <1>10, <1>11, <1>12, <1>13
  DEF Next, ThreadStep, RunnerStep

(* FreshTasks is an invariant: it holds of a run without tasks, and steps *)
(* keep it.                                                               *)
LEMMA FreshInvariant == Spec => []FreshTasks
<1>1. Init => FreshTasks
  BY TaskAssumption, NumberAssumption DEF Init, FreshTasks, FreshTask, Holds, Idle
<1> QED
  BY <1>1, TypeCorrect, FreshStep, PTL DEF Spec

(* Until 15 minutes after its first claim a task is with at most one thread, *)
(* is "running" while it is, and is claimed at most max_attempts times,      *)
(* whatever the number of workers and threads and however often they crash.  *)
THEOREM FreshExclusive == Spec => []FreshTaskIsExclusive
<1>1. FreshTasks => FreshTaskIsExclusive
  BY DEF FreshTasks, FreshTask, FreshTaskIsExclusive
<1> QED
  BY <1>1, FreshInvariant, PTL

-----------------------------------------------------------------------------
(* A step that changes a task which has an outcome finds it overdue. *)
LEMMA OutcomeStep ==
  ASSUME TypeOK, FreshTasks, [Next]_vars
  PROVE  \A t \in Task \ overdue' : task[t].status \in Terminal => task'[t] = task[t]
<1> SUFFICES ASSUME NEW t \in Task \ overdue', task[t].status \in Terminal
             PROVE  task'[t] = task[t]
  OBVIOUS
<1> USE DEF TypeOK, Terminal
<1>1. overdue \subseteq overdue'
  BY DEF Next, ThreadStep, RunnerStep, ClaimNone, Claim, BeginComplete, CommitComplete,
         ReadAttempts, WriteFailure, ThreadDies, CreateScheduledRun, EnqueueAdminRun,
         CreateRun, StartRun, CreateTask, RespondEnqueued, Judge, CountTasks, FinishRun,
         RaiseFromThread, Crash, GoOverdue, vars
<1>2. FreshTask(t)
  BY <1>1 DEF FreshTasks
<1>3. ASSUME NEW w \in Thread, NEW u \in Task, Claim(w, u)
      PROVE  task'[t] = task[t]
  <2>1. u # t
    BY <1>3, <1>1 DEF Claim, Claimable, With
  <2> QED
    BY <1>3, <2>1 DEF Claim
<1>4. ASSUME NEW w \in Thread, NEW u \in Task, CommitComplete(w, u) \/ WriteFailure(w, u)
      PROVE  task'[t] = task[t]
  <2>1. u # t
    BY <1>4, <1>2 DEF CommitComplete, WriteFailure, FreshTask
  <2> QED
    BY <1>4, <2>1 DEF CommitComplete, WriteFailure
<1>5. ASSUME NEW p \in Process, NEW u \in Task, CreateTask(p, u)
      PROVE  task'[t] = task[t]
  BY <1>5 DEF CreateTask
<1>6. \/ UNCHANGED task
      \/ \E w \in Thread, u \in Task :
           Claim(w, u) \/ CommitComplete(w, u) \/ WriteFailure(w, u)
      \/ \E p \in Process, u \in Task : CreateTask(p, u)
  BY DEF Next, ThreadStep, RunnerStep, ClaimNone, BeginComplete, ReadAttempts, ThreadDies,
         CreateScheduledRun, EnqueueAdminRun, CreateRun, StartRun, RespondEnqueued,
         Judge, CountTasks, FinishRun, RaiseFromThread, Crash, GoOverdue, vars
<1> QED
  BY <1>3, <1>4, <1>5, <1>6

(* What complete_scan_task or fail_task wrote to a task younger than 15       *)
(* minutes is never changed again, by no thread and by no restart.            *)
THEOREM OutcomeFinal == Spec => OutcomeIsFinal
BY TypeCorrect, FreshInvariant, OutcomeStep, PTL DEF Spec, OutcomeIsFinal

-----------------------------------------------------------------------------
(* A part of the rows is no larger than the whole. *)
LEMMA CountGrows ==
  ASSUME NEW S, NEW T, T \subseteq Task, S \subseteq T
  PROVE  Cardinality(S) <= Cardinality(T)
BY TaskAssumption, FS_Subset

(* The threads of a process run only while its main thread waits for them. *)
IdleProcess ==
  \A w \in Thread : runner[Owner[w]].at # "draining" => thread[w].at = "off"

LEMMA IdleStep == TypeOK /\ IdleProcess /\ [Next]_vars => IdleProcess'
<1> SUFFICES ASSUME TypeOK, IdleProcess, [Next]_vars, NEW v \in Thread,
                    runner'[Owner[v]].at # "draining"
             PROVE  thread'[v].at = "off"
  BY DEF IdleProcess
<1> USE OwnerAssumption DEF TypeOK, IdleProcess
<1>1. ASSUME NEW w \in Thread, ThreadStep(w) \/ ThreadDies(w)
      PROVE  thread'[v].at = "off"
  <2>1. runner' = runner /\ thread[w].at # "off"
    BY <1>1 DEF ThreadStep, ClaimNone, Claim, BeginComplete, CommitComplete, ReadAttempts,
                WriteFailure, ThreadDies
  <2>2. \A u \in Thread : u # w => thread'[u] = thread[u]
    BY <1>1 DEF ThreadStep, ClaimNone, Claim, BeginComplete, CommitComplete, ReadAttempts,
                WriteFailure, ThreadDies
  <2> QED
    BY <2>1, <2>2
<1>2. ASSUME NEW p \in Process, StartRun(p)
      PROVE  thread'[v].at = "off"
  <2>1. runner' = [runner EXCEPT ![p] = [Off EXCEPT !.at = "draining"]]
    BY <1>2 DEF StartRun
  <2>2. Owner[v] # p
    BY <2>1 DEF Off
  <2> QED
    BY <1>2, <2>1, <2>2 DEF StartRun
<1>3. ASSUME NEW p \in Process, Judge(p) \/ RaiseFromThread(p) \/ Crash(p)
      PROVE  thread'[v].at = "off"
  <2>1. Owner[v] # p => runner'[Owner[v]] = runner[Owner[v]]
    BY <1>3 DEF Judge, RaiseFromThread, Crash
  <2> QED
    BY <1>3, <2>1 DEF Judge, RaiseFromThread, Crash, Idle
<1>4. ASSUME NEW p \in Process,
             \/ CreateScheduledRun(p) \/ EnqueueAdminRun(p) \/ RespondEnqueued(p)
             \/ (\E t \in Task : CreateTask(p, t)) \/ CountTasks(p) \/ FinishRun(p)
      PROVE  thread'[v].at = "off"
  <2>1. thread' = thread /\ runner[p].at # "draining"
    BY <1>4 DEF CreateScheduledRun, EnqueueAdminRun, CreateRun, RespondEnqueued, CreateTask,
                CountTasks, FinishRun
  <2>2. Owner[v] # p => runner'[Owner[v]] = runner[Owner[v]]
    BY <1>4 DEF CreateScheduledRun, EnqueueAdminRun, CreateRun, RespondEnqueued, CreateTask,
                CountTasks, FinishRun
  <2> QED
    BY <2>1, <2>2
<1>5. ASSUME UNCHANGED vars \/ \E t \in Task : GoOverdue(t)
      PROVE  thread'[v].at = "off"
  BY <1>5 DEF vars, GoOverdue
<1> QED
  BY <1>1, <1>2, <1>3, <1>4, <1>5 DEF Next, RunnerStep

LEMMA IdleInvariant == Spec => []IdleProcess
<1>1. Init => IdleProcess
  BY DEF Init, IdleProcess, Idle
<1> QED
  BY <1>1, TypeCorrect, IdleStep, PTL DEF Spec

-----------------------------------------------------------------------------
(***************************************************************************)
(* The count that a transaction took may be out of date when it is written *)
(* to the run, but only downwards: found releases are not lost while no    *)
(* task is overdue.                                                        *)
(***************************************************************************)
Found(isNew) == IF isNew THEN 1 ELSE 0

CountsBehind ==
  overdue = {} =>
    /\ run.newReleases <= Cardinality(NewTasks)
    /\ \A w \in Thread :
         thread[w].at = "completing" =>
           thread[w].count <= Cardinality(NewTasks \ {thread[w].task})
                              + Found(thread[w].foundNew)

LEMMA CountsStep ==
  TypeOK /\ FreshTasks /\ CountsBehind /\ [Next]_vars => CountsBehind'
<1> SUFFICES ASSUME TypeOK, FreshTasks, CountsBehind, [Next]_vars, overdue' = {}
             PROVE  CountsBehind'
  BY DEF CountsBehind
<1>1. overdue = {}
  BY DEF Next, ThreadStep, RunnerStep, ClaimNone, Claim, BeginComplete, CommitComplete,
         ReadAttempts, WriteFailure, ThreadDies, CreateScheduledRun, EnqueueAdminRun,
         CreateRun, StartRun, CreateTask, RespondEnqueued, Judge, CountTasks, FinishRun,
         RaiseFromThread, Crash, GoOverdue, vars
<1>2. \A t \in Task : task[t].status \in Terminal => task'[t] = task[t]
  BY OutcomeStep
<1>3. NewTasks \subseteq NewTasks' /\ NewTasks' \subseteq Task
  BY <1>2 DEF NewTasks, With, Terminal
<1>4. Cardinality(NewTasks) \in Nat /\ Cardinality(NewTasks') \in Nat
  BY CountIsNat DEF NewTasks, With
<1>5. Cardinality(NewTasks) <= Cardinality(NewTasks')
  BY <1>3, CountGrows
<1>6. ASSUME NEW t
      PROVE  /\ Cardinality(NewTasks \ {t}) <= Cardinality(NewTasks' \ {t})
             /\ Cardinality(NewTasks \ {t}) \in Nat /\ Cardinality(NewTasks' \ {t}) \in Nat
  BY <1>3, CountGrows, CountIsNat DEF NewTasks, With
<1>7. /\ run.newReleases \in Nat
      /\ \A w \in Thread : thread[w].count \in Nat /\ thread[w].foundNew \in BOOLEAN
  BY DEF TypeOK, RunRow, ThreadState
<1>8. ASSUME NEW w \in Thread, thread'[w] = thread[w], thread[w].at = "completing"
      PROVE  thread'[w].count <= Cardinality(NewTasks' \ {thread'[w].task})
                                 + Found(thread'[w].foundNew)
  <2>1. /\ thread[w].count <= Cardinality(NewTasks \ {thread[w].task}) + Found(thread[w].foundNew)
        /\ Found(thread[w].foundNew) \in Nat
    BY <1>1, <1>8 DEF CountsBehind, Found
  <2> DEFINE old == Cardinality(NewTasks \ {thread[w].task})
             new == Cardinality(NewTasks' \ {thread[w].task})
  <2>2. old <= new /\ old \in Nat /\ new \in Nat
    BY <1>6
  <2>3. thread[w].count <= new + Found(thread[w].foundNew)
    <3>1. thread[w].count <= old + Found(thread[w].foundNew)
      BY <2>1
    <3> HIDE DEF old, new
    <3> QED
      BY <1>7, <2>1, <2>2, <3>1
  <2> QED
    BY <1>8, <2>3
<1>9. ASSUME NEW w \in Thread, NEW t \in Task, NEW isNew \in BOOLEAN,
             BeginComplete(w, t, isNew)
      PROVE  CountsBehind'
  <2> DEFINE count == Cardinality(NewTasks \ {t}) + Found(isNew)
  <2>1. /\ thread' = [thread EXCEPT ![w] =
                        [@ EXCEPT !.at = "completing", !.foundNew = isNew, !.count = count]]
        /\ run' = run
        /\ thread[w].task = t
    BY <1>9 DEF BeginComplete, Found, Holds
  <2>2. \A v \in Thread : v # w => thread'[v] = thread[v]
    BY <2>1 DEF TypeOK
  <2>3. thread'[w].count = count /\ thread'[w].foundNew = isNew /\ thread'[w].task = t
    <3> DEFINE row == [thread[w] EXCEPT !.at = "completing", !.foundNew = isNew,
                                        !.count = count]
    <3>1. thread'[w] = row
      BY <2>1 DEF TypeOK
    <3>2. row.count = count /\ row.foundNew = isNew /\ row.task = thread[w].task
      <4> HIDE DEF count
      <4> QED
        BY DEF TypeOK, ThreadState
    <3> HIDE DEF row
    <3> QED
      BY <2>1, <3>1, <3>2
  <2>4. thread'[w].count <= Cardinality(NewTasks' \ {t}) + Found(isNew)
    <3> DEFINE new == Cardinality(NewTasks' \ {t})
               old == Cardinality(NewTasks \ {t})
    <3>1. old <= new /\ old \in Nat /\ new \in Nat
      BY <1>6
    <3>2. thread'[w].count = old + Found(isNew) /\ Found(isNew) \in Nat
      BY <2>3 DEF Found
    <3>3. old + Found(isNew) <= new + Found(isNew)
      <4> HIDE DEF old, new
      <4> QED
        BY <3>1, <3>2
    <3> QED
      BY <3>2, <3>3
  <2>5. run'.newReleases <= Cardinality(NewTasks')
    BY <1>1, <1>4, <1>5, <1>7, <2>1 DEF CountsBehind
  <2> QED
    BY <1>8, <2>2, <2>3, <2>4, <2>5 DEF CountsBehind
<1>10. ASSUME NEW w \in Thread, NEW t \in Task, CommitComplete(w, t)
       PROVE  CountsBehind'
  <2>1. /\ thread[w].task = t /\ thread[w].at = "completing"
        /\ task[t].status = "running"
    BY <1>1, <1>10 DEF CommitComplete, Holds, FreshTasks, FreshTask
  <2>2. /\ run'.newReleases = thread[w].count
        /\ task'[t].status = "completed" /\ task'[t].foundNew = thread[w].foundNew
    <3>1. task'[t] = [task[t] EXCEPT !.status = "completed", !.foundNew = thread[w].foundNew]
      BY <1>10 DEF CommitComplete, TypeOK
    <3> QED
      BY <1>10, <3>1 DEF CommitComplete, TypeOK, RunRow, TaskRow
  <2>3. run'.newReleases <= Cardinality(NewTasks \ {t}) + Found(thread[w].foundNew)
    BY <1>1, <2>1, <2>2 DEF CountsBehind
  <2>4. NewTasks \ {t} = NewTasks
    BY <2>1 DEF NewTasks, With
  <2>5. NewTasks' = NewTasks \cup (IF thread[w].foundNew THEN {t} ELSE {})
    <3>1. \A u \in Task : u # t => task'[u] = task[u]
      BY <1>10 DEF CommitComplete, TypeOK
    <3> QED
      BY <2>1, <2>2, <3>1 DEF NewTasks, With
  <2>6. Cardinality(NewTasks') = Cardinality(NewTasks) + Found(thread[w].foundNew)
    <3>1. IsFiniteSet(NewTasks) /\ t \notin NewTasks
      BY <2>1, TaskAssumption, FS_Subset DEF NewTasks, With
    <3>2. Cardinality(NewTasks \cup {t}) = Cardinality(NewTasks) + 1
      BY <3>1, FS_AddElement
    <3> QED
      BY <1>4, <2>5, <3>2 DEF Found
  <2>7. \A v \in Thread : v # w => thread'[v] = thread[v]
    BY <1>10 DEF CommitComplete, TypeOK
  <2>8. thread'[w].at = "claiming"
    BY <1>10 DEF CommitComplete, Idle, TypeOK
  <2> QED
    BY <1>8, <2>3, <2>4, <2>6, <2>7, <2>8 DEF CountsBehind
<1>11. ASSUME run'.newReleases = run.newReleases,
              \A v \in Thread : thread'[v] = thread[v] \/ thread'[v].at # "completing"
       PROVE  CountsBehind'
  <2>1. run'.newReleases <= Cardinality(NewTasks')
    BY <1>1, <1>4, <1>5, <1>7, <1>11 DEF CountsBehind
  <2> QED
    BY <1>8, <1>11, <2>1 DEF CountsBehind
<1>12. ASSUME NEW w \in Thread, NEW t \in Task,
              \/ Claim(w, t) \/ WriteFailure(w, t)
              \/ \E retryable \in BOOLEAN : ReadAttempts(w, t, retryable)
       PROVE  CountsBehind'
  <2>1. \A v \in Thread : v # w => thread'[v] = thread[v]
    BY <1>12 DEF Claim, WriteFailure, ReadAttempts, TypeOK
  <2>2. thread'[w].at # "completing"
    <3>1. CASE Claim(w, t) \/ WriteFailure(w, t)
      BY <3>1 DEF Claim, WriteFailure, TypeOK, Idle
    <3>2. CASE \E retryable \in BOOLEAN : ReadAttempts(w, t, retryable)
      <4>1. PICK retryable \in BOOLEAN : ReadAttempts(w, t, retryable)
        BY <3>2
      <4> DEFINE retry == retryable /\ task[t].attempts < MaxAttempts
      <4>2. thread'[w] = [thread[w] EXCEPT !.at = "failing", !.retry = retry]
        BY <4>1 DEF ReadAttempts, TypeOK
      <4> HIDE DEF retry
      <4> QED
        BY <4>2 DEF TypeOK, ThreadState
    <3> QED
      BY <1>12, <3>1, <3>2
  <2>3. run' = run
    BY <1>12 DEF Claim, WriteFailure, ReadAttempts
  <2> QED
    BY <1>11, <2>1, <2>2, <2>3
<1>13. ASSUME NEW w \in Thread, ClaimNone(w) \/ ThreadDies(w)
       PROVE  CountsBehind'
  <2>1. \A v \in Thread : thread'[v] = thread[v] \/ thread'[v].at # "completing"
    BY <1>13 DEF ClaimNone, ThreadDies, TypeOK, Idle
  <2> QED
    BY <1>11, <1>13, <2>1 DEF ClaimNone, ThreadDies
<1>14. ASSUME NEW p \in Process,
              \/ CreateScheduledRun(p) \/ EnqueueAdminRun(p) \/ StartRun(p)
              \/ RunnerStep(p) \/ Crash(p)
       PROVE  CountsBehind'
  <2>1. run'.newReleases = run.newReleases
    BY <1>14 DEF CreateScheduledRun, EnqueueAdminRun, CreateRun, StartRun, RunnerStep,
                 CreateTask, RespondEnqueued, Judge, CountTasks, FinishRun, RaiseFromThread,
                 Crash, TypeOK, RunRow
  <2>2. \A v \in Thread : thread'[v] = thread[v] \/ thread'[v].at # "completing"
    BY <1>14 DEF CreateScheduledRun, EnqueueAdminRun, CreateRun, StartRun, RunnerStep,
                 CreateTask, RespondEnqueued, Judge, CountTasks, FinishRun, RaiseFromThread,
                 Crash, Idle
  <2> QED
    BY <1>11, <2>1, <2>2
<1>15. ASSUME UNCHANGED vars \/ \E t \in Task : GoOverdue(t)
       PROVE  CountsBehind'
  BY <1>11, <1>15 DEF vars, GoOverdue
<1> QED
  BY <1>9, <1>10, <1>12, <1>13, <1>14, <1>15 DEF Next, ThreadStep

(* The recount of complete_scan_task may miss a release that another          *)
(* transaction is about to commit, and a count read before another commit may *)
(* be written after it; the run still never shows more than its tasks found,  *)
(* with any number of workers, as long as no task is reopened.                *)
THEOREM CountNeverTooHigh == Spec => []NeverOvercounts
<1>1. Init => CountsBehind
  <2> SUFFICES ASSUME Init
               PROVE  CountsBehind
    OBVIOUS
  <2>1. NewTasks = {}
    BY DEF Init, NewTasks, With
  <2>2. run.newReleases = 0 /\ Cardinality(NewTasks) = 0
    BY <2>1, FS_EmptySet DEF Init
  <2>3. \A w \in Thread : thread[w].at = "off"
    BY DEF Init, Idle
  <2> QED
    BY <2>2, <2>3 DEF CountsBehind
<1>2. CountsBehind => NeverOvercounts
  BY DEF CountsBehind, NeverOvercounts
<1> QED
  BY <1>1, <1>2, CountsStep, TypeCorrect, FreshInvariant, PTL DEF Spec

-----------------------------------------------------------------------------
(***************************************************************************)
(* One process without faults.  Why its run is settled when it is finished *)
(* has to be carried through every position of its main thread: while the  *)
(* threads drain the queue, a running task is held by one of them and a    *)
(* queued one will still be claimed, because some thread has not found the *)
(* queue empty yet; so nothing is left when the last thread returns.       *)
(***************************************************************************)
Alone == faults = 0 /\ \A p, q \in Process : p = q

Active(w) == thread[w].at \in {"claiming", "working", "failing", "completing"}

Reported(row) ==
  /\ row.completed = Cardinality(With("completed"))
  /\ row.failed = Cardinality(With("failed"))

BeforeDraining(p) ==
  /\ runner[p].at # "draining" => With("running") = {}
  /\ runner[p].at = "off" /\ run.status # "absent" => With("absent") = {}
  /\ runner[p].at \in {"creating", "enqueuing"} => run.status \in {"queued", "running"}

Draining(p) ==
  runner[p].at = "draining" =>
    /\ run.status = "running"
    /\ With("absent") = {}
    /\ \A t \in With("running") : \E w \in Thread : Holds(w, t)
    /\ With("queued") # {} => \E w \in Thread : Active(w)

Finishing(p) ==
  /\ runner[p].at \in {"judged", "counted"} =>
       run.status = "running" /\ Settled /\ runner[p].status = Verdict
  /\ runner[p].at = "counted" => Reported(runner[p])

Finished == run.status \in Terminal => Settled /\ Reported(run) /\ run.status = Verdict

Solo ==
  Alone =>
    /\ \A w \in Thread : thread[w].at # "dead"
    /\ \A p \in Process : BeforeDraining(p) /\ Draining(p) /\ Finishing(p)
    /\ Finished

(* What an active thread knows of the main thread and the run. *)
LEMMA ActiveMeansDraining ==
  ASSUME IdleProcess, Solo, Alone, NEW w \in Thread, Active(w)
  PROVE  /\ run.status = "running"
         /\ With("absent") = {}
         /\ \A p \in Process : runner[p].at = "draining"
         /\ \A t \in With("running") : \E v \in Thread : Holds(v, t)
<1>1. runner[Owner[w]].at = "draining"
  BY DEF IdleProcess, Active
<1>2. Owner[w] \in Process /\ \A p \in Process : p = Owner[w]
  BY OwnerAssumption DEF Alone
<1> QED
  BY <1>1, <1>2 DEF Solo, Draining

(* A thread reports on or claims a task: the queue is still being drained, and *)
(* the conditions of draining are all there is to show.                        *)
LEMMA StillDraining ==
  ASSUME IdleProcess, Solo, Alone, NEW w \in Thread, Active(w),
         UNCHANGED runner, run'.status = run.status,
         \A v \in Thread : thread'[v].at # "dead",
         With("absent")' = {},
         \A t \in With("running")' : \E v \in Thread : Holds(v, t)',
         With("queued")' # {} => \E v \in Thread : Active(v)'
  PROVE  Solo'
<1>1. run'.status = "running" /\ \A p \in Process : runner'[p].at = "draining"
  BY ActiveMeansDraining
<1> QED
  BY <1>1 DEF Solo, BeforeDraining, Draining, Finishing, Finished, Terminal

LEMMA SoloStep == TypeOK /\ IdleProcess /\ Solo /\ [Next]_vars => Solo'
<1> SUFFICES ASSUME TypeOK, IdleProcess, Solo, [Next]_vars, Alone'
             PROVE  Solo'
  BY DEF Solo
<1>1. faults' = faults \/ (faults' = faults + 1 /\ faults \in Nat)
  <2>1. faults \in Nat
    BY NumberAssumption DEF TypeOK
  <2>2. faults' = faults \/ faults' = faults + 1
    BY DEF Next, ThreadStep, RunnerStep, ClaimNone, Claim, BeginComplete, CommitComplete,
           ReadAttempts, WriteFailure, ThreadDies, CreateScheduledRun, EnqueueAdminRun,
           CreateRun, StartRun, CreateTask, RespondEnqueued, Judge, CountTasks, FinishRun,
           RaiseFromThread, Crash, GoOverdue, vars
  <2> QED
    BY <2>1, <2>2
<1>2. Alone /\ faults' = faults
  BY <1>1 DEF Alone
<1>3. /\ \A w \in Thread : thread[w].at # "dead"
      /\ \A p \in Process : BeforeDraining(p) /\ Draining(p) /\ Finishing(p)
      /\ Finished
  BY <1>2 DEF Solo
<1>4. \A p, q \in Process : p = q
  BY <1>2 DEF Alone
<1>5. \A t \in Task : task[t].status \in TaskStatus
  BY DEF TypeOK, TaskRow
<1>6. ASSUME NEW w \in Thread, ClaimNone(w)
      PROVE  Solo'
  <2>1. Active(w) /\ UNCHANGED <<task, run, runner>>
    BY <1>6 DEF ClaimNone, Active
  <2>2. /\ \A v \in Thread : v # w => thread'[v] = thread[v]
        /\ thread'[w].at = "drained" /\ thread[w].task = NoTask
    BY <1>6 DEF ClaimNone, TypeOK, Idle
  <2>3. \A v \in Thread, t \in Task : Holds(v, t) => Holds(v, t)'
    BY <2>2, TaskAssumption DEF Holds
  <2>4. ASSUME NEW t \in With("queued")
        PROVE  \E v \in Thread : Active(v)'
    <3>1. Locked(t)
      BY <1>6 DEF ClaimNone, Claimable, With
    <3>2. PICK v \in Thread : thread[v].at = "completing"
      BY <3>1 DEF Locked
    <3>3. v # w
      BY <1>6, <3>2 DEF ClaimNone
    <3> QED
      BY <2>2, <3>2, <3>3 DEF Active
  <2>5. \A t \in With("running")' : \E v \in Thread : Holds(v, t)'
    BY <1>2, <2>1, <2>3, ActiveMeansDraining DEF With
  <2>6. With("absent")' = {} /\ With("queued")' = With("queued")
    BY <1>2, <2>1, ActiveMeansDraining DEF With
  <2>7. \A v \in Thread : thread'[v].at # "dead"
    BY <1>3, <2>2
  <2> QED
    BY <1>2, <2>1, <2>4, <2>5, <2>6, <2>7, StillDraining
<1>7. ASSUME NEW w \in Thread, NEW t \in Task, Claim(w, t)
      PROVE  Solo'
  <2>1. Active(w) /\ UNCHANGED <<run, runner>> /\ thread[w].task = NoTask
    BY <1>7 DEF Claim, Active, TypeOK
  <2>2. /\ \A v \in Thread : v # w => thread'[v] = thread[v]
        /\ thread'[w].at = "working" /\ thread'[w].task = t
    BY <1>7 DEF Claim, TypeOK, Idle
  <2>3. /\ \A u \in Task : u # t => task'[u] = task[u]
        /\ task'[t].status = "running"
    BY <1>7 DEF Claim, TypeOK, TaskRow
  <2>4. \A u \in With("running")' : \E v \in Thread : Holds(v, u)'
    <3>1. \A u \in With("running") : \E v \in Thread : Holds(v, u)
      BY <1>2, <2>1, ActiveMeansDraining
    <3> QED
      BY <2>1, <2>2, <2>3, <3>1, TaskAssumption DEF With, Holds
  <2>5. With("absent")' = {}
    BY <1>2, <2>1, <2>3, ActiveMeansDraining DEF With
  <2>6. Active(w)' /\ \A v \in Thread : thread'[v].at # "dead"
    BY <1>3, <2>2 DEF Active
  <2> QED
    BY <1>2, <2>1, <2>4, <2>5, <2>6, StillDraining
<1>8. ASSUME NEW w \in Thread, NEW t \in Task,
             \/ \E isNew \in BOOLEAN : BeginComplete(w, t, isNew)
             \/ \E retryable \in BOOLEAN : ReadAttempts(w, t, retryable)
      PROVE  Solo'
  <2>1. Active(w) /\ UNCHANGED <<task, run, runner>>
    BY <1>8 DEF BeginComplete, ReadAttempts, Active
  <2>2. /\ \A v \in Thread : v # w => thread'[v] = thread[v]
        /\ thread'[w].at \in {"completing", "failing"} /\ thread'[w].task = thread[w].task
    <3>1. CASE \E isNew \in BOOLEAN : BeginComplete(w, t, isNew)
      <4>1. PICK isNew \in BOOLEAN : BeginComplete(w, t, isNew)
        BY <3>1
      <4> DEFINE count == Cardinality(NewTasks \ {t}) + (IF isNew THEN 1 ELSE 0)
      <4>2. thread' = [thread EXCEPT ![w] =
                         [@ EXCEPT !.at = "completing", !.foundNew = isNew, !.count = count]]
        BY <4>1 DEF BeginComplete
      <4> HIDE DEF count
      <4> QED
        BY <4>2 DEF TypeOK, ThreadState
    <3>2. CASE \E retryable \in BOOLEAN : ReadAttempts(w, t, retryable)
      <4>1. PICK retryable \in BOOLEAN : ReadAttempts(w, t, retryable)
        BY <3>2
      <4> DEFINE retry == retryable /\ task[t].attempts < MaxAttempts
      <4>2. thread' = [thread EXCEPT ![w] = [@ EXCEPT !.at = "failing", !.retry = retry]]
        BY <4>1 DEF ReadAttempts
      <4> HIDE DEF retry
      <4> QED
        BY <4>2 DEF TypeOK, ThreadState
    <3> QED
      BY <1>8, <3>1, <3>2
  <2>3. \A v \in Thread, u \in Task : Holds(v, u) => Holds(v, u)'
    BY <2>2 DEF Holds
  <2>4. \A u \in With("running")' : \E v \in Thread : Holds(v, u)'
    BY <1>2, <2>1, <2>3, ActiveMeansDraining DEF With
  <2>5. With("absent")' = {}
    BY <1>2, <2>1, ActiveMeansDraining DEF With
  <2>6. Active(w)' /\ \A v \in Thread : thread'[v].at # "dead"
    BY <1>3, <2>2 DEF Active
  <2> QED
    BY <1>2, <2>1, <2>4, <2>5, <2>6, StillDraining
<1>9. ASSUME NEW w \in Thread, NEW t \in Task, CommitComplete(w, t) \/ WriteFailure(w, t)
      PROVE  Solo'
  <2>1. /\ Active(w) /\ UNCHANGED runner /\ run'.status = run.status
        /\ thread[w].task = t
    BY <1>9 DEF CommitComplete, WriteFailure, Active, Holds, TypeOK, RunRow
  <2>2. /\ \A v \in Thread : v # w => thread'[v] = thread[v]
        /\ thread'[w].at = "claiming"
    BY <1>9 DEF CommitComplete, WriteFailure, TypeOK, Idle
  <2>3. /\ \A u \in Task : u # t => task'[u] = task[u]
        /\ task'[t].status \in {"queued", "completed", "failed"}
    <3>1. CASE CommitComplete(w, t)
      <4>1. task'[t] = [task[t] EXCEPT !.status = "completed",
                                       !.foundNew = thread[w].foundNew]
        BY <3>1 DEF CommitComplete, TypeOK
      <4> QED
        BY <3>1, <4>1 DEF CommitComplete, TypeOK, TaskRow
    <3>2. CASE WriteFailure(w, t)
      BY <3>2 DEF WriteFailure, TypeOK, TaskRow
    <3> QED
      BY <1>9, <3>1, <3>2
  <2>4. \A u \in With("running")' : \E v \in Thread : Holds(v, u)'
    <3>1. \A u \in With("running") : \E v \in Thread : Holds(v, u)
      BY <1>2, <2>1, ActiveMeansDraining
    <3> QED
      BY <2>1, <2>2, <2>3, <3>1 DEF With, Holds
  <2>5. With("absent")' = {}
    BY <1>2, <2>1, <2>3, ActiveMeansDraining DEF With
  <2>6. Active(w)' /\ \A v \in Thread : thread'[v].at # "dead"
    BY <1>3, <2>2 DEF Active
  <2> QED
    BY <1>2, <2>1, <2>4, <2>5, <2>6, StillDraining
<1>10. ASSUME NEW p \in Process, CreateScheduledRun(p) \/ EnqueueAdminRun(p)
       PROVE  Solo'
  <2>1. UNCHANGED <<task, thread>> /\ runner[p].at = "off"
    BY <1>10 DEF CreateScheduledRun, EnqueueAdminRun, CreateRun
  <2>2. runner'[p].at \in {"creating", "enqueuing"} /\ run'.status \in {"queued", "running"}
    BY <1>10 DEF CreateScheduledRun, EnqueueAdminRun, CreateRun, TypeOK, RunRow, RunnerState
  <2>3. With("running")' = {}
    BY <1>3, <2>1 DEF BeforeDraining, With
  <2>4. \A w \in Thread : thread'[w].at # "dead"
    BY <1>3, <2>1
  <2> QED
    BY <1>4, <2>2, <2>3, <2>4
    DEF Solo, BeforeDraining, Draining, Finishing, Finished, Terminal
<1>11. ASSUME NEW p \in Process, NEW t \in Task, CreateTask(p, t)
       PROVE  Solo'
  <2>1. UNCHANGED <<thread, runner, run>> /\ runner[p].at \in {"creating", "enqueuing"}
    BY <1>11 DEF CreateTask
  <2>2. run.status \in {"queued", "running"} /\ With("running") = {}
    BY <1>3, <2>1 DEF BeforeDraining
  <2>3. With("running")' = {}
    BY <1>11, <2>2 DEF CreateTask, With, TypeOK, TaskRow
  <2>4. \A w \in Thread : thread'[w].at # "dead"
    BY <1>3, <2>1
  <2> QED
    BY <1>4, <2>1, <2>2, <2>3, <2>4
    DEF Solo, BeforeDraining, Draining, Finishing, Finished, Terminal
<1>12. ASSUME NEW p \in Process, RespondEnqueued(p)
       PROVE  Solo'
  <2>1. UNCHANGED <<task, thread, run>> /\ runner[p].at = "enqueuing" /\ With("absent") = {}
    BY <1>12 DEF RespondEnqueued
  <2>2. run.status \in {"queued", "running"} /\ With("running") = {}
    BY <1>3, <2>1 DEF BeforeDraining
  <2>3. runner'[p].at = "off"
    BY <1>12 DEF RespondEnqueued, Off, TypeOK
  <2>4. With("running")' = {} /\ With("absent")' = {}
    BY <2>1, <2>2 DEF With
  <2>5. \A w \in Thread : thread'[w].at # "dead"
    BY <1>3, <2>1
  <2> QED
    BY <1>4, <2>1, <2>2, <2>3, <2>4, <2>5
    DEF Solo, BeforeDraining, Draining, Finishing, Finished, Terminal
<1>13. ASSUME NEW p \in Process, StartRun(p)
       PROVE  Solo'
  <2>1. /\ UNCHANGED task /\ runner[p].at \in {"off", "creating"}
        /\ runner[p].at = "creating" => With("absent") = {}
        /\ runner[p].at = "off" => run.status # "absent"
    BY <1>13 DEF StartRun
  <2>2. With("running") = {} /\ With("absent") = {}
    BY <1>3, <2>1 DEF BeforeDraining
  <2>3. runner'[p].at = "draining" /\ run'.status = "running"
    BY <1>13 DEF StartRun, Off, TypeOK, RunRow
  <2>4. /\ \A w \in Thread : thread'[w].at \in {"claiming", thread[w].at}
        /\ \E w \in Thread : thread'[w].at = "claiming"
    BY <1>13, WorkerAssumption DEF StartRun, Idle
  <2>5. (\A w \in Thread : thread'[w].at # "dead") /\ \E w \in Thread : Active(w)'
    BY <1>3, <2>4 DEF Active
  <2>6. With("running")' = {} /\ With("absent")' = {}
    BY <2>1, <2>2 DEF With
  <2> QED
    BY <1>4, <2>3, <2>5, <2>6
    DEF Solo, BeforeDraining, Draining, Finishing, Finished, Terminal
<1>14. ASSUME NEW p \in Process, Judge(p)
       PROVE  Solo'
  <2>1. /\ UNCHANGED <<task, run>> /\ runner[p].at = "draining"
        /\ \A w \in Thread : thread[w].at = "drained"
    BY <1>4, <1>14, OwnerAssumption DEF Judge, Threads
  <2>2. /\ run.status = "running" /\ With("absent") = {} /\ With("queued") = {}
        /\ \A t \in With("running") : \E w \in Thread : Holds(w, t)
    BY <1>3, <2>1 DEF Draining, Active
  <2>3. With("running") = {}
    BY <2>1, <2>2, TaskAssumption DEF Holds, TypeOK, With
  <2>4. Settled
    BY <1>5, <2>2, <2>3 DEF Settled, With, TaskStatus, Terminal
  <2>5. runner'[p].at = "judged" /\ runner'[p].status = Verdict
    BY <1>14 DEF Judge, TypeOK, RunnerState
  <2>6. Settled' /\ Verdict' = Verdict /\ With("running")' = {}
    BY <2>1, <2>3, <2>4 DEF Settled, Verdict, With
  <2>7. \A w \in Thread : thread'[w].at # "dead"
    BY <1>3, <1>14 DEF Judge, Idle
  <2> QED
    BY <1>4, <2>1, <2>2, <2>5, <2>6, <2>7
    DEF Solo, BeforeDraining, Draining, Finishing, Finished, Terminal
<1>15. ASSUME NEW p \in Process, CountTasks(p)
       PROVE  Solo'
  <2>1. UNCHANGED <<task, run, thread>> /\ runner[p].at = "judged"
    BY <1>15 DEF CountTasks
  <2>2. /\ run.status = "running" /\ Settled /\ runner[p].status = Verdict
        /\ With("running") = {}
    BY <1>3, <2>1 DEF Finishing, BeforeDraining
  <2> DEFINE completed == Cardinality(With("completed"))
             failed == Cardinality(With("failed"))
  <2>3. /\ runner'[p].at = "counted" /\ runner'[p].status = Verdict
        /\ runner'[p].completed = completed /\ runner'[p].failed = failed
    <3>1. runner'[p] = [runner[p] EXCEPT !.at = "counted", !.completed = completed,
                                         !.failed = failed]
      BY <1>15 DEF CountTasks, TypeOK
    <3> HIDE DEF completed, failed
    <3> QED
      BY <2>2, <3>1 DEF TypeOK, RunnerState
  <2>4. Settled' /\ Verdict' = Verdict /\ With("running")' = {} /\ Reported(runner[p])'
    BY <2>1, <2>2, <2>3 DEF Settled, Verdict, With, Reported
  <2>5. \A w \in Thread : thread'[w].at # "dead"
    BY <1>3, <2>1
  <2> QED
    BY <1>4, <2>1, <2>2, <2>3, <2>4, <2>5
    DEF Solo, BeforeDraining, Draining, Finishing, Finished, Terminal
<1>16. ASSUME NEW p \in Process, FinishRun(p)
       PROVE  Solo'
  <2>1. UNCHANGED <<task, thread>> /\ runner[p].at = "counted"
    BY <1>16 DEF FinishRun
  <2>2. /\ Settled /\ runner[p].status = Verdict /\ Reported(runner[p])
        /\ With("running") = {}
    BY <1>3, <2>1 DEF Finishing, BeforeDraining
  <2>3. /\ run'.status = Verdict /\ run'.completed = runner[p].completed
        /\ run'.failed = runner[p].failed /\ runner'[p].at = "off"
    BY <1>16, <2>2 DEF FinishRun, Off, TypeOK, RunRow
  <2>4. Settled' /\ Verdict' = Verdict /\ With("running")' = {} /\ With("absent")' = {}
    BY <2>1, <2>2 DEF Settled, Verdict, With, Terminal
  <2>5. Reported(run)'
    BY <2>1, <2>2, <2>3 DEF Reported, With
  <2>6. \A w \in Thread : thread'[w].at # "dead"
    BY <1>3, <2>1
  <2> QED
    BY <1>4, <2>3, <2>4, <2>5, <2>6
    DEF Solo, BeforeDraining, Draining, Finishing, Finished
<1>17. ASSUME NEW p \in Process
       PROVE  ~RaiseFromThread(p)
  BY <1>3 DEF RaiseFromThread, Threads
<1>18. ~(\E p \in Process : Crash(p)) /\ ~(\E w \in Thread : ThreadDies(w))
  BY <1>2 DEF Crash, ThreadDies, Alone
<1>19. ASSUME UNCHANGED vars \/ \E t \in Task : GoOverdue(t)
       PROVE  Solo'
  <2>1. UNCHANGED <<task, run, thread, runner>>
    BY <1>19 DEF vars, GoOverdue
  <2> QED
    BY <1>3, <2>1 DEF Solo, BeforeDraining, Draining, Finishing, Finished, Reported, With,
                      Holds, Active, Settled, Verdict
<1> QED
  BY <1>6, <1>7, <1>8, <1>9, <1>10, <1>11, <1>12, <1>13, <1>14, <1>15, <1>16, <1>17, <1>18,
     <1>19
  DEF Next, ThreadStep, RunnerStep

(* A run that one process worked on without a fault is finished only when     *)
(* every task is completed or failed, and reports the counts and the status   *)
(* of its tasks: with any number of threads and tasks, late tasks included.   *)
THEOREM FinishedMeansSettled == Spec => []FinishedRunIsSettled
<1>1. Init => Solo
  <2> SUFFICES ASSUME Init
               PROVE  Solo
    OBVIOUS
  <2>1. With("running") = {} /\ run.status = "absent"
    BY DEF Init, With
  <2>2. /\ \A p \in Process : runner[p].at = "off"
        /\ \A w \in Thread : thread[w].at = "off"
    BY DEF Init, Off, Idle
  <2> QED
    BY <2>1, <2>2 DEF Solo, BeforeDraining, Draining, Finishing, Finished, Terminal
<1>2. Solo => FinishedRunIsSettled
  BY DEF Solo, Alone, Finished, Reported, FinishedRunIsSettled, Terminal
<1> QED
  BY <1>1, <1>2, SoloStep, TypeCorrect, IdleInvariant, PTL DEF Spec

=============================================================================
