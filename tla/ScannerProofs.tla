---------------------------- MODULE ScannerProofs ----------------------------
(***************************************************************************)
(* What TLAPS proves of Scanner, for every value of its constants.         *)
(***************************************************************************)
EXTENDS Scanner, ScanQueueProofs

(* The part of ScannerTypeOK that speaks of the scanner alone. *)
ScanTyped ==
  /\ scan \in [Thread -> ScanState]
  /\ device \in [Task -> DeviceRow]
  /\ found \in [Task -> Release \cup {NoRelease}]
  /\ origin \in [Release -> {"none", "worker", "manual"}]
  /\ notified \subseteq Routed
  /\ \A w \in Thread :
       scan[w].at \in {"store", "reset", "advance", "announce"} => scan[w].release # NoRelease

(* Local variables that go with a position of the thread. *)
HasRelease(row) ==
  row.at \in {"store", "reset", "advance", "announce"} => row.release # NoRelease

ScanFits == scan \in [Thread -> ScanState] /\ \A w \in Thread : HasRelease(scan[w])

(* A thread replaces its local variables by well-formed ones. *)
LEMMA ScanUpdate ==
  ASSUME ScanFits, NEW w \in Thread, NEW row \in ScanState, HasRelease(row),
         scan' = [scan EXCEPT ![w] = row]
  PROVE  ScanFits'
BY DEF ScanFits, HasRelease

LEMMA RestFits ==
  ASSUME ScanFits, NEW w \in Thread, Rest(w)
  PROVE  ScanFits'
<1>1. Resting \in ScanState /\ HasRelease(Resting)
  BY DEF Resting, HasRelease, ScanState, Track
<1> QED
  BY <1>1, ScanUpdate DEF Rest

LEMMA GotoFits ==
  ASSUME ScanFits, NEW w \in Thread,
         NEW at \in {"advance", "announce", "complete", "clear", "reject", "strike"},
         at \in {"advance", "announce"} => scan[w].release # NoRelease,
         Goto(w, at)
  PROVE  ScanFits'
<1> DEFINE row == [scan[w] EXCEPT !.at = at]
<1>1. row \in ScanState /\ HasRelease(row)
  BY DEF ScanFits, HasRelease, ScanState
<1>2. scan' = [scan EXCEPT ![w] = row]
  BY DEF Goto, ScanFits
<1> HIDE DEF row
<1> QED
  BY <1>1, <1>2, ScanUpdate

(* Every thread keeps well-formed local variables. *)
LEMMA ScanFitsStep == ScanTyped /\ [ScannerNext]_scannerVars => ScanFits'
<1> SUFFICES ASSUME ScanTyped, [ScannerNext]_scannerVars
             PROVE  ScanFits'
  OBVIOUS
<1> USE TaskAssumption, ReleaseAssumption
<1>1. ScanFits /\ \A w \in Thread : scan[w] \in ScanState /\ HasRelease(scan[w])
  BY DEF ScanTyped, ScanFits, HasRelease
<1>2. \A t \in Task : device[t].failures \in Nat /\ device[t].track \in Track
                     /\ device[t].bootstrapped \in BOOLEAN
  BY DEF ScanTyped, DeviceRow
<1>3. CASE UNCHANGED scan
  BY <1>1, <1>3 DEF ScanFits
<1>4. ASSUME NEW w \in Thread, NEW t \in Task, ClaimTask(w, t)
      PROVE  ScanFits'
  <2> DEFINE row == [Resting EXCEPT !.at = "fetch", !.task = t]
  <2>1. row \in ScanState
    <3>1. Resting \in ScanState
      BY DEF Resting, ScanState, Track
    <3> QED
      BY <3>1 DEF ScanState
  <2>2. HasRelease(row)
    BY DEF Resting, HasRelease
  <2>3. scan' = [scan EXCEPT ![w] = row]
    BY <1>4 DEF ClaimTask
  <2> HIDE DEF row
  <2> QED
    BY <1>1, <2>1, <2>2, <2>3, ScanUpdate
<1>5. ASSUME NEW w \in Thread, NEW t \in Task, FetchDevice(w, t)
      PROVE  ScanFits'
  <2> DEFINE oldest == OldestTrack(t)
             row == [scan[w] EXCEPT !.at = "query", !.oldest = oldest]
  <2>1. oldest \in Track
    BY <1>2 DEF OldestTrack, Track
  <2>2. scan' = [scan EXCEPT ![w] = row]
    BY <1>1, <1>5 DEF FetchDevice, ScanFits
  <2> HIDE DEF oldest
  <2>3. row \in ScanState /\ HasRelease(row)
    BY <1>1, <2>1 DEF HasRelease, ScanState
  <2> HIDE DEF row
  <2> QED
    BY <1>1, <2>2, <2>3, ScanUpdate
<1>6. ASSUME NEW w \in Thread, NEW t \in Task, NEW r \in Release, QueryRelease(w, t, r)
      PROVE  ScanFits'
  <2> DEFINE row == [scan[w] EXCEPT !.at = "store", !.release = r]
  <2>1. scan' = [scan EXCEPT ![w] = row]
    BY <1>1, <1>6 DEF QueryRelease, ScanFits
  <2>2. row \in ScanState /\ HasRelease(row)
    BY <1>1 DEF HasRelease, ScanState
  <2> HIDE DEF row
  <2> QED
    BY <1>1, <2>1, <2>2, ScanUpdate
<1>7. ASSUME NEW w \in Thread, NEW t \in Task, NEW upstream \in BOOLEAN,
             QueryFails(w, t, upstream)
      PROVE  ScanFits'
  <2> DEFINE row == [scan[w] EXCEPT !.at = "fail", !.upstream = upstream]
  <2>1. scan' = [scan EXCEPT ![w] = row]
    BY <1>1, <1>7 DEF QueryFails, ScanFits
  <2>2. row \in ScanState /\ HasRelease(row)
    BY <1>1 DEF HasRelease, ScanState
  <2> HIDE DEF row
  <2> QED
    BY <1>1, <2>1, <2>2, ScanUpdate
<1>8. ASSUME NEW w \in Thread, NEW t \in Task, StoreRelease(w, t)
      PROVE  ScanFits'
  <2> DEFINE isNew == origin[scan[w].release] = "none"
             row == [scan[w] EXCEPT !.at = "reset", !.isNew = isNew]
  <2>1. isNew \in BOOLEAN
    OBVIOUS
  <2>2. scan' = [scan EXCEPT ![w] = row]
    BY <1>1, <1>8 DEF StoreRelease, ScanFits
  <2>3. scan[w].release # NoRelease
    BY <1>1, <1>8 DEF StoreRelease, At, HasRelease
  <2> HIDE DEF isNew
  <2>4. row \in ScanState /\ HasRelease(row)
    BY <1>1, <2>1, <2>3 DEF HasRelease, ScanState
  <2> HIDE DEF row
  <2> QED
    BY <1>1, <2>2, <2>4, ScanUpdate
<1>9. ASSUME NEW w \in Thread, NEW t \in Task,
             ResetFailures(w, t) \/ AdvanceTrack(w, t) \/ Announce(w, t)
      PROVE  ScanFits'
  <2>1. scan[w].release # NoRelease
    BY <1>1, <1>9 DEF ResetFailures, AdvanceTrack, Announce, At, HasRelease
  <2> QED
    BY <1>1, <1>9, <2>1, GotoFits DEF ResetFailures, AdvanceTrack, Announce
<1>10. ASSUME NEW w \in Thread, NEW t \in Task,
              RejectDevice(w, t) \/ QueryNothing(w, t)
       PROVE  ScanFits'
  BY <1>1, <1>10, GotoFits DEF RejectDevice, QueryNothing
<1>11. ASSUME NEW w \in Thread, NEW t \in Task,
              FinishCompleting(w, t) \/ FinishFailing(w, t)
       PROVE  ScanFits'
  BY <1>1, <1>11, GotoFits, RestFits DEF FinishCompleting, FinishFailing
<1>12. ASSUME NEW w \in Thread, NEW t \in Task,
              ClearFailures(w, t) \/ WriteFailures(w, t)
       PROVE  ScanFits'
  BY <1>1, <1>12, RestFits DEF ClearFailures, WriteFailures
<1>13. ASSUME NEW w \in Thread, NEW t \in Task, ReadFailures(w, t)
       PROVE  ScanFits'
  <2> DEFINE failures == device[t].failures
             row == [scan[w] EXCEPT !.at = "writeStrike", !.failures = failures]
  <2>1. failures \in Nat
    BY <1>2
  <2>2. scan' = [scan EXCEPT ![w] = row]
    BY <1>1, <1>13 DEF ReadFailures, ScanFits
  <2> HIDE DEF failures
  <2>3. row \in ScanState /\ HasRelease(row)
    BY <1>1, <2>1 DEF HasRelease, ScanState
  <2> HIDE DEF row
  <2> QED
    BY <1>1, <2>2, <2>3, ScanUpdate
<1>14. ASSUME NEW w \in Thread, ThreadEnds(w)
       PROVE  ScanFits'
  BY <1>1, <1>14, RestFits DEF ThreadEnds
<1>15. ASSUME NEW p \in Process, ProcessCrashes(p)
       PROVE  ScanFits'
  <2>1. Resting \in ScanState /\ HasRelease(Resting)
    BY DEF Resting, HasRelease, ScanState, Track
  <2> QED
    BY <1>1, <1>15, <2>1 DEF ProcessCrashes, ScanFits
<1>16. CASE RunStep
  BY <1>3, <1>16 DEF RunStep
<1>17. ASSUME NEW w \in Thread,
              FindQueueEmpty(w) \/ \E t \in Task : StartCompleting(w, t) \/ StartFailing(w, t)
       PROVE  ScanFits'
  BY <1>3, <1>17 DEF FindQueueEmpty, StartCompleting, StartFailing
<1>18. CASE UNCHANGED scannerVars \/ \E r \in Release : ManualQuery(r)
  BY <1>3, <1>18 DEF scannerVars, ManualQuery
<1> QED
  BY <1>4, <1>5, <1>6, <1>7, <1>8, <1>9, <1>10, <1>11, <1>12, <1>13, <1>14, <1>15, <1>16,
     <1>17, <1>18
  DEF ScannerNext, ScanStep

(* The columns a scan writes stay well formed, and only releases with an      *)
(* enabled target are announced.                                              *)
LEMMA ScanTypedStep == ScanTyped /\ [ScannerNext]_scannerVars => ScanTyped'
<1> SUFFICES ASSUME ScanTyped, [ScannerNext]_scannerVars
             PROVE  ScanTyped'
  OBVIOUS
<1> USE TaskAssumption, ReleaseAssumption
<1>1. ScanFits'
  BY ScanFitsStep
<1>2. ScanFits /\ \A w \in Thread : scan[w] \in ScanState /\ HasRelease(scan[w])
  BY DEF ScanTyped, ScanFits, HasRelease
<1>3. CASE UNCHANGED store
  BY <1>1, <1>3 DEF ScanTyped, ScanFits, HasRelease, store
<1>4. ASSUME NEW w \in Thread, NEW t \in Task,
             StoreRelease(w, t) \/ Announce(w, t) \/ FinishCompleting(w, t)
      PROVE  ScanTyped'
  <2>1. device' = device
    BY <1>4 DEF StoreRelease, Announce, FinishCompleting
  <2>2. origin' \in [Release -> {"none", "worker", "manual"}]
    BY <1>4 DEF StoreRelease, Announce, FinishCompleting, ScanTyped
  <2>3. notified' \subseteq Routed
    BY <1>4 DEF StoreRelease, Announce, FinishCompleting, ScanTyped
  <2>4. found' \in [Task -> Release \cup {NoRelease}]
    BY <1>2, <1>4 DEF StoreRelease, Announce, FinishCompleting, ScanTyped, ScanState
  <2> QED
    BY <1>1, <2>1, <2>2, <2>3, <2>4 DEF ScanTyped, ScanFits, HasRelease
<1>5. ASSUME NEW w \in Thread, NEW t \in Task,
             \/ ResetFailures(w, t) \/ AdvanceTrack(w, t)
             \/ ClearFailures(w, t) \/ WriteFailures(w, t)
      PROVE  ScanTyped'
  <2>1. UNCHANGED <<found, origin, notified>>
    BY <1>5 DEF ResetFailures, AdvanceTrack, ClearFailures, WriteFailures
  <2>2. device[t] \in DeviceRow /\ device \in [Task -> DeviceRow]
    BY DEF ScanTyped
  <2>3. CASE ResetFailures(w, t) \/ ClearFailures(w, t)
    <3>1. device' \in [Task -> DeviceRow]
      BY <2>2, <2>3 DEF ResetFailures, ClearFailures, DeviceRow
    <3> QED
      BY <1>1, <2>1, <3>1 DEF ScanTyped, ScanFits, HasRelease
  <2>4. CASE AdvanceTrack(w, t)
    <3> DEFINE track == TrackOf[scan[w].release]
               row == [device[t] EXCEPT !.bootstrapped = TRUE, !.track = track]
    <3>1. track \in Track
      BY <1>2, <2>4 DEF AdvanceTrack, At, HasRelease, ScanState
    <3>2. device' = [device EXCEPT ![t] = row]
      BY <2>2, <2>4 DEF AdvanceTrack
    <3> HIDE DEF track
    <3>3. row \in DeviceRow
      BY <2>2, <3>1 DEF DeviceRow
    <3> HIDE DEF row
    <3> QED
      BY <1>1, <2>1, <2>2, <3>2, <3>3 DEF ScanTyped, ScanFits, HasRelease
  <2>5. CASE WriteFailures(w, t)
    <3> DEFINE failures == scan[w].failures + 1
               archive == failures >= ArchiveThreshold /\ scan[w].upstream /\ t \in Legacy
               enabled == device[t].enabled /\ ~archive
               row == [device[t] EXCEPT !.failures = failures, !.enabled = enabled]
    <3>1. failures \in Nat /\ enabled \in BOOLEAN
      BY <1>2 DEF ScanState
    <3>2. device' = [device EXCEPT ![t] = row]
      BY <2>2, <2>5 DEF WriteFailures
    <3> HIDE DEF failures, archive, enabled
    <3>3. row \in DeviceRow
      BY <2>2, <3>1 DEF DeviceRow
    <3> HIDE DEF row
    <3> QED
      BY <1>1, <2>1, <2>2, <3>2, <3>3 DEF ScanTyped, ScanFits, HasRelease
  <2> QED
    BY <1>5, <2>3, <2>4, <2>5
<1>6. ASSUME NEW r \in Release, ManualQuery(r)
      PROVE  ScanTyped'
  BY <1>1, <1>6 DEF ManualQuery, ScanTyped, ScanFits, HasRelease
<1>7. ASSUME NEW w \in Thread, ScanStep(w)
      PROVE  ScanTyped'
  <2>1. CASE FindQueueEmpty(w)
    BY <1>3, <2>1 DEF FindQueueEmpty
  <2>2. ASSUME NEW t \in Task,
               \/ ClaimTask(w, t) \/ FetchDevice(w, t) \/ RejectDevice(w, t)
               \/ QueryNothing(w, t) \/ StartCompleting(w, t) \/ StartFailing(w, t)
               \/ FinishFailing(w, t) \/ ReadFailures(w, t)
        PROVE  UNCHANGED store
    BY <2>2 DEF ClaimTask, FetchDevice, RejectDevice, QueryNothing, StartCompleting,
                StartFailing, FinishFailing, ReadFailures
  <2>3. ASSUME NEW t \in Task,
               \/ \E r \in Release : QueryRelease(w, t, r)
               \/ \E upstream \in BOOLEAN : QueryFails(w, t, upstream)
        PROVE  UNCHANGED store
    BY <2>3 DEF QueryRelease, QueryFails
  <2> QED
    BY <1>3, <1>4, <1>5, <1>7, <2>1, <2>2, <2>3 DEF ScanStep
<1>8. ASSUME NEW w \in Thread, ThreadEnds(w)
      PROVE  ScanTyped'
  BY <1>3, <1>8 DEF ThreadEnds
<1>9. ASSUME NEW p \in Process, ProcessCrashes(p)
      PROVE  ScanTyped'
  BY <1>3, <1>9 DEF ProcessCrashes
<1>10. CASE RunStep \/ UNCHANGED scannerVars
  BY <1>3, <1>10 DEF RunStep, scannerVars
<1> QED
  BY <1>6, <1>7, <1>8, <1>9, <1>10 DEF ScannerNext

LEMMA ScanTypedInvariant == ScannerSpec => []ScanTyped
<1>1. ScannerInit => ScanTyped
  <2> SUFFICES ASSUME ScannerInit
               PROVE  ScanTyped
    OBVIOUS
  <2>1. scan \in [Thread -> ScanState] /\ \A w \in Thread : scan[w].at = "none"
    BY DEF ScannerInit, Resting, ScanState, Track
  <2>2. device \in [Task -> DeviceRow]
    <3>1. 0..ArchiveThreshold - 1 \subseteq Nat
      BY ReleaseAssumption
    <3>2. ScanCapable \subseteq DeviceRow
      BY <3>1 DEF ScanCapable, DeviceRow
    <3> QED
      BY <3>2 DEF ScannerInit
  <2> QED
    BY <2>1, <2>2 DEF ScannerInit, ScanTyped
<1> QED
  BY <1>1, ScanTypedStep, PTL DEF ScannerSpec

-----------------------------------------------------------------------------
(* A step of the scanner that touches the queue is a step of ScanQueue, and   *)
(* every other step leaves the queue alone.                                   *)
LEMMA QueueStep == ScanTyped /\ [ScannerNext]_scannerVars => [Next]_vars
<1> SUFFICES ASSUME ScanTyped, [ScannerNext]_scannerVars
             PROVE  [Next]_vars
  OBVIOUS
<1>1. \A w \in Thread : scan[w].isNew \in BOOLEAN /\ scan[w].upstream \in BOOLEAN
  BY DEF ScanTyped, ScanState
<1>2. ASSUME NEW w \in Thread, ThreadStep(w) \/ ThreadDies(w)
      PROVE  [Next]_vars
  BY <1>2 DEF Next
<1>3. ASSUME NEW w \in Thread, ScanStep(w)
      PROVE  [Next]_vars
  <2>1. CASE FindQueueEmpty(w)
    BY <1>2, <2>1 DEF FindQueueEmpty, ThreadStep
  <2>2. ASSUME NEW t \in Task,
               ClaimTask(w, t) \/ FinishCompleting(w, t) \/ FinishFailing(w, t)
        PROVE  ThreadStep(w)
    BY <2>2 DEF ClaimTask, FinishCompleting, FinishFailing, ThreadStep
  <2>3. ASSUME NEW t \in Task, StartCompleting(w, t)
        PROVE  ThreadStep(w)
    BY <1>1, <2>3 DEF StartCompleting, ThreadStep
  <2>4. ASSUME NEW t \in Task, StartFailing(w, t)
        PROVE  ThreadStep(w)
    BY <1>1, <2>4 DEF StartFailing, ThreadStep
  <2>5. ASSUME NEW t \in Task,
               \/ FetchDevice(w, t) \/ RejectDevice(w, t) \/ QueryNothing(w, t)
               \/ \E r \in Release : QueryRelease(w, t, r)
               \/ \E upstream \in BOOLEAN : QueryFails(w, t, upstream)
        PROVE  UNCHANGED vars
    BY <2>5 DEF FetchDevice, RejectDevice, QueryNothing, QueryRelease, QueryFails
  <2>6. ASSUME NEW t \in Task,
               \/ StoreRelease(w, t) \/ ResetFailures(w, t) \/ AdvanceTrack(w, t)
               \/ Announce(w, t) \/ ClearFailures(w, t)
               \/ ReadFailures(w, t) \/ WriteFailures(w, t)
        PROVE  UNCHANGED vars
    BY <2>6 DEF StoreRelease, ResetFailures, AdvanceTrack, Announce, ClearFailures,
                ReadFailures, WriteFailures
  <2> QED
    BY <1>2, <1>3, <2>1, <2>2, <2>3, <2>4, <2>5, <2>6 DEF ScanStep
<1>4. CASE RunStep
  BY <1>4 DEF RunStep, Next
<1>5. ASSUME NEW w \in Thread, ThreadEnds(w)
      PROVE  [Next]_vars
  BY <1>2, <1>5 DEF ThreadEnds
<1>6. ASSUME NEW p \in Process, ProcessCrashes(p)
      PROVE  [Next]_vars
  BY <1>6 DEF ProcessCrashes, Next
<1>7. CASE UNCHANGED scannerVars \/ \E r \in Release : ManualQuery(r)
  BY <1>7 DEF scannerVars, ManualQuery
<1> QED
  BY <1>3, <1>4, <1>5, <1>6, <1>7 DEF ScannerNext

(* ScannerService uses its queue as ScanQueue describes it, so every theorem  *)
(* about ScanQueue holds of it.                                               *)
LEMMA ScannerUsesQueue == ScannerSpec => Spec
<1>1. ScannerInit => Init
  BY DEF ScannerInit
<1> QED
  BY <1>1, ScanTypedInvariant, QueueStep, PTL DEF ScannerSpec, Spec

(* In particular two scanner threads never process the same task within 15    *)
(* minutes of its first claim.                                                *)
COROLLARY ScannerTasksAreExclusive == ScannerSpec => []FreshTaskIsExclusive
BY ScannerUsesQueue, FreshExclusive, PTL

-----------------------------------------------------------------------------
(* A thread scans the task it holds, and the work on the device that follows  *)
(* the last write to the task is done without holding one.                    *)
Agree ==
  \A w \in Thread :
    /\ thread[w].task # NoTask => scan[w].task = thread[w].task
    /\ scan[w].at \in {"clear", "strike", "writeStrike"} => thread[w].task = NoTask

LEMMA AgreeStep == ScanTyped /\ TypeOK /\ Agree /\ [ScannerNext]_scannerVars => Agree'
<1> SUFFICES ASSUME ScanTyped, TypeOK, Agree, [ScannerNext]_scannerVars
             PROVE  Agree'
  OBVIOUS
<1>1. /\ thread \in [Thread -> ThreadState]
      /\ \A w \in Thread : thread[w] \in ThreadState
  BY DEF TypeOK
<1>2. /\ scan \in [Thread -> ScanState]
      /\ \A w \in Thread : scan[w] \in ScanState
  BY DEF ScanTyped
<1>3. ASSUME UNCHANGED scan,
             \A w \in Thread : thread'[w].task = NoTask \/ thread'[w].task = thread[w].task
      PROVE  Agree'
  BY <1>3 DEF Agree
<1>4. ASSUME UNCHANGED thread, NEW w \in Thread,
             \A v \in Thread \ {w} : scan'[v] = scan[v],
             \/ thread[w].task = NoTask
             \/ /\ scan'[w].task = scan[w].task
                /\ scan'[w].at \notin {"clear", "strike", "writeStrike"}
      PROVE  Agree'
  BY <1>4 DEF Agree
<1>5. CASE RunStep
  <2>1. \A w \in Thread : thread'[w].task = NoTask \/ thread'[w].task = thread[w].task
    <3>1. ASSUME NEW p \in Process, StartRun(p) \/ Judge(p) \/ RaiseFromThread(p)
          PROVE  \A w \in Thread : thread'[w].task = NoTask \/ thread'[w].task = thread[w].task
      BY <3>1 DEF StartRun, Judge, RaiseFromThread, Idle
    <3>2. ASSUME NEW p \in Process,
                 \/ CreateScheduledRun(p) \/ EnqueueAdminRun(p) \/ RespondEnqueued(p)
                 \/ CountTasks(p) \/ FinishRun(p)
                 \/ \E t \in Task : CreateTask(p, t)
          PROVE  thread' = thread
      BY <3>2 DEF CreateScheduledRun, EnqueueAdminRun, CreateRun, RespondEnqueued,
                  CountTasks, FinishRun, CreateTask
    <3>3. ASSUME NEW t \in Task, GoOverdue(t)
          PROVE  thread' = thread
      BY <3>3 DEF GoOverdue
    <3> QED
      BY <1>5, <3>1, <3>2, <3>3 DEF RunStep, RunnerStep
  <2> QED
    BY <1>3, <1>5, <2>1 DEF RunStep
<1>6. ASSUME NEW w \in Thread, FindQueueEmpty(w)
      PROVE  Agree'
  <2>1. \A v \in Thread : thread'[v].task = NoTask \/ thread'[v].task = thread[v].task
    BY <1>1, <1>6 DEF FindQueueEmpty, ClaimNone, Idle
  <2> QED
    BY <1>3, <1>6, <2>1 DEF FindQueueEmpty
<1>7. ASSUME NEW w \in Thread, NEW t \in Task, ClaimTask(w, t)
      PROVE  Agree'
  <2>1. scan'[w].task = t /\ scan'[w].at = "fetch"
    BY <1>2, <1>7 DEF ClaimTask, Resting
  <2>2. thread'[w].task = t
    BY <1>1, <1>7 DEF ClaimTask, Claim, Idle
  <2>3. \A v \in Thread \ {w} : scan'[v] = scan[v] /\ thread'[v] = thread[v]
    BY <1>1, <1>2, <1>7 DEF ClaimTask, Claim
  <2> QED
    BY <2>1, <2>2, <2>3 DEF Agree
<1>8. ASSUME NEW w \in Thread, NEW t \in Task,
             StartCompleting(w, t) \/ StartFailing(w, t)
      PROVE  Agree'
  <2>1. \A v \in Thread : thread'[v].task = thread[v].task
    <3>1. CASE StartCompleting(w, t)
      BY <1>1, <3>1 DEF StartCompleting, BeginComplete, ThreadState
    <3>2. CASE StartFailing(w, t)
      BY <1>1, <3>2 DEF StartFailing, ReadAttempts, ThreadState
    <3> QED
      BY <1>8, <3>1, <3>2
  <2> QED
    BY <1>3, <1>8, <2>1 DEF StartCompleting, StartFailing
<1>9. ASSUME NEW w \in Thread, NEW t \in Task,
             FinishCompleting(w, t) \/ FinishFailing(w, t)
      PROVE  Agree'
  <2>1. thread'[w].task = NoTask
    BY <1>1, <1>9 DEF FinishCompleting, FinishFailing, CommitComplete, WriteFailure, Idle
  <2>2. \A v \in Thread \ {w} : scan'[v] = scan[v] /\ thread'[v] = thread[v]
    BY <1>1, <1>2, <1>9 DEF FinishCompleting, FinishFailing, CommitComplete, WriteFailure,
                            Goto, Rest
  <2> QED
    BY <2>1, <2>2 DEF Agree
<1>10. ASSUME NEW w \in Thread, NEW t \in Task,
              ClearFailures(w, t) \/ ReadFailures(w, t) \/ WriteFailures(w, t)
       PROVE  Agree'
  <2>1. thread' = thread
    BY <1>10 DEF ClearFailures, ReadFailures, WriteFailures, vars
  <2>2. thread[w].task = NoTask
    BY <1>10 DEF ClearFailures, ReadFailures, WriteFailures, At, Agree
  <2>3. \A v \in Thread \ {w} : scan'[v] = scan[v]
    BY <1>2, <1>10 DEF ClearFailures, ReadFailures, WriteFailures, Rest
  <2> QED
    BY <1>4, <2>1, <2>2, <2>3
<1>11. ASSUME NEW w \in Thread, NEW t \in Task,
              \/ FetchDevice(w, t) \/ RejectDevice(w, t) \/ QueryNothing(w, t)
              \/ \E r \in Release : QueryRelease(w, t, r)
              \/ \E upstream \in BOOLEAN : QueryFails(w, t, upstream)
       PROVE  Agree'
  <2>1. thread' = thread
    BY <1>11 DEF FetchDevice, RejectDevice, QueryNothing, QueryRelease, QueryFails, vars
  <2>2. /\ scan'[w].task = scan[w].task
        /\ scan'[w].at \in {"query", "reject", "complete", "store", "fail"}
    <3>1. CASE FetchDevice(w, t)
      BY <1>2, <3>1 DEF FetchDevice, ScanState
    <3>2. CASE RejectDevice(w, t) \/ QueryNothing(w, t)
      BY <1>2, <3>2 DEF RejectDevice, QueryNothing, Goto, ScanState
    <3>3. ASSUME NEW r \in Release, QueryRelease(w, t, r)
          PROVE  scan'[w].task = scan[w].task /\ scan'[w].at = "store"
      BY <1>2, <3>3 DEF QueryRelease, ScanState
    <3>4. ASSUME NEW upstream \in BOOLEAN, QueryFails(w, t, upstream)
          PROVE  scan'[w].task = scan[w].task /\ scan'[w].at = "fail"
      BY <1>2, <3>4 DEF QueryFails, ScanState
    <3> QED
      BY <1>11, <3>1, <3>2, <3>3, <3>4
  <2>3. \A v \in Thread \ {w} : scan'[v] = scan[v]
    BY <1>2, <1>11 DEF FetchDevice, RejectDevice, QueryNothing, QueryRelease, QueryFails, Goto
  <2> QED
    BY <1>4, <2>1, <2>2, <2>3
<1>12. ASSUME NEW w \in Thread, NEW t \in Task,
              \/ StoreRelease(w, t) \/ ResetFailures(w, t)
              \/ AdvanceTrack(w, t) \/ Announce(w, t)
       PROVE  Agree'
  <2>1. thread' = thread
    BY <1>12 DEF StoreRelease, ResetFailures, AdvanceTrack, Announce, vars
  <2>2. /\ scan'[w].task = scan[w].task
        /\ scan'[w].at \in {"reset", "advance", "announce", "complete"}
    <3>1. CASE StoreRelease(w, t)
      BY <1>2, <3>1 DEF StoreRelease, ScanState
    <3>2. CASE ResetFailures(w, t) \/ AdvanceTrack(w, t) \/ Announce(w, t)
      BY <1>2, <3>2 DEF ResetFailures, AdvanceTrack, Announce, Goto, ScanState
    <3> QED
      BY <1>12, <3>1, <3>2
  <2>3. \A v \in Thread \ {w} : scan'[v] = scan[v]
    BY <1>2, <1>12 DEF StoreRelease, ResetFailures, AdvanceTrack, Announce, Goto
  <2> QED
    BY <1>4, <2>1, <2>2, <2>3
<1>13. ASSUME NEW w \in Thread, ThreadEnds(w)
       PROVE  Agree'
  <2>1. thread'[w].task = NoTask
    BY <1>1, <1>13 DEF ThreadEnds, ThreadDies, Idle
  <2>2. \A v \in Thread \ {w} : scan'[v] = scan[v] /\ thread'[v] = thread[v]
    BY <1>1, <1>2, <1>13 DEF ThreadEnds, ThreadDies, Rest
  <2> QED
    BY <2>1, <2>2 DEF Agree
<1>14. ASSUME NEW p \in Process, ProcessCrashes(p)
       PROVE  Agree'
  BY <1>14 DEF ProcessCrashes, Crash, Idle, Agree
<1>15. CASE UNCHANGED scannerVars \/ \E r \in Release : ManualQuery(r)
  BY <1>3, <1>15 DEF scannerVars, vars, ManualQuery
<1> QED
  BY <1>5, <1>6, <1>7, <1>8, <1>9, <1>10, <1>11, <1>12, <1>13, <1>14, <1>15
  DEF ScannerNext, ScanStep

(* Whatever the threads do, and whenever they die, the scanner's variables    *)
(* and the columns it writes are well formed, a thread only works on the task *)
(* it has claimed, and nothing is announced without a target.                 *)
THEOREM ScannerTypeCorrect == ScannerSpec => []ScannerTypeOK
<1>1. ScannerInit => Agree
  BY DEF ScannerInit, Init, Agree, Idle, Resting
<1>2. ScannerSpec => []TypeOK
  BY ScannerUsesQueue, TypeCorrect, PTL
<1>3. ScannerSpec => []Agree
  BY <1>1, <1>2, ScanTypedInvariant, AgreeStep, PTL DEF ScannerSpec
<1>4. ScanTyped /\ Agree => ScannerTypeOK
  BY DEF ScanTyped, Agree, ScannerTypeOK
<1> QED
  BY <1>3, <1>4, ScanTypedInvariant, PTL

-----------------------------------------------------------------------------
(* A thread that is about to announce a release stays so until it has.        *)
LEMMA DiscoveryStep ==
  ScanTyped /\ TypeOK /\ DiscoveryIsAnnounced /\ [ScannerNext]_scannerVars
    => DiscoveryIsAnnounced'
<1> SUFFICES ASSUME ScanTyped, TypeOK, DiscoveryIsAnnounced, [ScannerNext]_scannerVars,
                    faults' = 0,
                    NEW r \in Routed, origin'[r] = "worker"
             PROVE  r \in notified' \/ Announcing(r)'
  BY DEF DiscoveryIsAnnounced
<1> USE ReleaseAssumption
<1>1. /\ scan \in [Thread -> ScanState]
      /\ \A w \in Thread : scan[w] \in ScanState
      /\ origin \in [Release -> {"none", "worker", "manual"}]
  BY DEF ScanTyped
<1>2. faults \in Nat
  BY NumberAssumption DEF TypeOK
<1>3. ASSUME faults = 0, UNCHANGED <<scan, notified>>, origin[r] = "worker"
      PROVE  r \in notified' \/ Announcing(r)'
  BY <1>3 DEF DiscoveryIsAnnounced, Announcing, Announces
<1>4. ASSUME faults = 0, UNCHANGED <<origin, notified>>, NEW w \in Thread,
             scan[w].at \notin {"reset", "advance", "announce"},
             \A v \in Thread \ {w} : scan'[v] = scan[v]
      PROVE  r \in notified' \/ Announcing(r)'
  BY <1>4 DEF DiscoveryIsAnnounced, Announcing, Announces
<1>5. CASE RunStep
  <2>1. faults' = faults
    <3>1. ASSUME NEW p \in Process,
                 \/ CreateScheduledRun(p) \/ EnqueueAdminRun(p) \/ StartRun(p)
                 \/ RespondEnqueued(p) \/ Judge(p) \/ CountTasks(p) \/ FinishRun(p)
                 \/ RaiseFromThread(p)
                 \/ \E t \in Task : CreateTask(p, t)
          PROVE  faults' = faults
      BY <3>1 DEF CreateScheduledRun, EnqueueAdminRun, CreateRun, StartRun, RespondEnqueued,
                  Judge, CountTasks, FinishRun, RaiseFromThread, CreateTask
    <3> QED
      BY <1>5, <3>1 DEF RunStep, RunnerStep, GoOverdue
  <2> QED
    BY <1>3, <1>5, <2>1 DEF RunStep, store
<1>6. ASSUME NEW w \in Thread, FindQueueEmpty(w)
      PROVE  r \in notified' \/ Announcing(r)'
  BY <1>3, <1>6 DEF FindQueueEmpty, ClaimNone, store
<1>7. ASSUME NEW w \in Thread, NEW t \in Task,
             StartCompleting(w, t) \/ StartFailing(w, t)
      PROVE  r \in notified' \/ Announcing(r)'
  BY <1>3, <1>7 DEF StartCompleting, StartFailing, BeginComplete, ReadAttempts, store
<1>8. ASSUME NEW w \in Thread, NEW t \in Task, ClaimTask(w, t)
      PROVE  r \in notified' \/ Announcing(r)'
  <2>1. faults' = faults /\ UNCHANGED <<origin, notified>> /\ scan[w].at = "none"
    BY <1>8 DEF ClaimTask, Claim, store
  <2>2. \A v \in Thread \ {w} : scan'[v] = scan[v]
    BY <1>1, <1>8 DEF ClaimTask
  <2> QED
    BY <1>4, <2>1, <2>2
<1>9. ASSUME NEW w \in Thread, NEW t \in Task,
             FinishCompleting(w, t) \/ FinishFailing(w, t)
      PROVE  r \in notified' \/ Announcing(r)'
  <2>1. /\ faults' = faults /\ UNCHANGED <<origin, notified>>
        /\ scan[w].at \in {"complete", "fail", "reject"}
    BY <1>9 DEF FinishCompleting, FinishFailing, CommitComplete, WriteFailure, At, store
  <2>2. \A v \in Thread \ {w} : scan'[v] = scan[v]
    BY <1>1, <1>9 DEF FinishCompleting, FinishFailing, Goto, Rest
  <2> QED
    BY <1>4, <2>1, <2>2
<1>10. ASSUME NEW w \in Thread, NEW t \in Task,
              \/ FetchDevice(w, t) \/ RejectDevice(w, t) \/ QueryNothing(w, t)
              \/ \E q \in Release : QueryRelease(w, t, q)
              \/ \E upstream \in BOOLEAN : QueryFails(w, t, upstream)
              \/ ClearFailures(w, t) \/ ReadFailures(w, t) \/ WriteFailures(w, t)
       PROVE  r \in notified' \/ Announcing(r)'
  <2>1. /\ faults' = faults /\ UNCHANGED <<origin, notified>>
        /\ scan[w].at \in {"fetch", "query", "clear", "strike", "writeStrike"}
    BY <1>10 DEF FetchDevice, RejectDevice, QueryNothing, QueryRelease, QueryFails,
                 ClearFailures, ReadFailures, WriteFailures, At, vars, store
  <2>2. \A v \in Thread \ {w} : scan'[v] = scan[v]
    BY <1>1, <1>10 DEF FetchDevice, RejectDevice, QueryNothing, QueryRelease, QueryFails,
                       ClearFailures, ReadFailures, WriteFailures, Goto, Rest
  <2> QED
    BY <1>4, <2>1, <2>2
<1>11. ASSUME NEW w \in Thread, NEW t \in Task, StoreRelease(w, t)
       PROVE  r \in notified' \/ Announcing(r)'
  <2> DEFINE isNew == origin[scan[w].release] = "none"
  <2>1. faults' = faults /\ notified' = notified /\ scan[w].at = "store"
    BY <1>11 DEF StoreRelease, At, vars
  <2>2. \A v \in Thread \ {w} : scan'[v] = scan[v]
    BY <1>1, <1>11 DEF StoreRelease
  <2>3. /\ scan'[w].at = "reset" /\ scan'[w].isNew = isNew
        /\ scan'[w].release = scan[w].release
    BY <1>1, <1>11 DEF StoreRelease, ScanState
  <2>4. CASE origin[r] = "worker"
    BY <2>1, <2>2, <2>4 DEF DiscoveryIsAnnounced, Announcing, Announces
  <2>5. CASE origin[r] # "worker"
    <3>1. r = scan[w].release /\ isNew
      BY <1>1, <1>11, <2>5 DEF StoreRelease
    <3> QED
      BY <2>3, <3>1 DEF Announcing, Announces
  <2> QED
    BY <2>4, <2>5
<1>12. ASSUME NEW w \in Thread, NEW t \in Task, ResetFailures(w, t) \/ AdvanceTrack(w, t)
       PROVE  r \in notified' \/ Announcing(r)'
  <2>1. faults' = faults /\ UNCHANGED <<origin, notified>>
    BY <1>12 DEF ResetFailures, AdvanceTrack, vars
  <2>2. \A v \in Thread \ {w} : scan'[v] = scan[v]
    BY <1>1, <1>12 DEF ResetFailures, AdvanceTrack, Goto
  <2>3. /\ scan'[w].isNew = scan[w].isNew /\ scan'[w].release = scan[w].release
        /\ scan[w].isNew => scan'[w].at \in {"advance", "announce"}
    BY <1>1, <1>12 DEF ResetFailures, AdvanceTrack, Goto, ScanState
  <2> QED
    BY <2>1, <2>2, <2>3 DEF DiscoveryIsAnnounced, Announcing, Announces
<1>13. ASSUME NEW w \in Thread, NEW t \in Task, Announce(w, t)
       PROVE  r \in notified' \/ Announcing(r)'
  <2>1. faults' = faults /\ origin' = origin
    BY <1>13 DEF Announce, vars
  <2>2. notified' = notified \cup ({scan[w].release} \cap Routed)
    BY <1>13 DEF Announce
  <2>3. \A v \in Thread \ {w} : scan'[v] = scan[v]
    BY <1>1, <1>13 DEF Announce, Goto
  <2> QED
    BY <2>1, <2>2, <2>3 DEF DiscoveryIsAnnounced, Announcing, Announces
<1>14. ASSUME NEW w \in Thread, ThreadEnds(w)
       PROVE  FALSE
  BY <1>2, <1>14 DEF ThreadEnds, ThreadDies
<1>15. ASSUME NEW p \in Process, ProcessCrashes(p)
       PROVE  FALSE
  BY <1>2, <1>15 DEF ProcessCrashes, Crash
<1>16. ASSUME NEW q \in Release, ManualQuery(q)
       PROVE  r \in notified' \/ Announcing(r)'
  BY <1>1, <1>3, <1>16 DEF ManualQuery, vars
<1>17. CASE UNCHANGED scannerVars
  BY <1>3, <1>17 DEF scannerVars, vars, store
<1> QED
  BY <1>5, <1>6, <1>7, <1>8, <1>9, <1>10, <1>11, <1>12, <1>13, <1>14, <1>15, <1>16, <1>17
  DEF ScannerNext, ScanStep

(* With any number of workers, threads, devices and releases, and however     *)
(* late a task is reclaimed by another worker: as long as nothing crashes, a  *)
(* release the worker inserted is announced or has a thread about to do it.   *)
THEOREM DiscoveriesAnnounced == ScannerSpec => []DiscoveryIsAnnounced
<1>1. ScannerInit => DiscoveryIsAnnounced
  BY ReleaseAssumption DEF ScannerInit, DiscoveryIsAnnounced
<1>2. ScannerSpec => []TypeOK
  BY ScannerUsesQueue, TypeCorrect, PTL
<1> QED
  BY <1>1, <1>2, ScanTypedInvariant, DiscoveryStep, PTL DEF ScannerSpec

-----------------------------------------------------------------------------
(* What each call of _process_task leaves in the local variables of its       *)
(* thread; those of the other threads stay.                                   *)
OthersStay(w) == \A v \in Thread \ {w} : scan'[v] = scan[v]

Moved(w, at) ==
  /\ scan'[w].at = at /\ scan'[w].task = scan[w].task
  /\ OthersStay(w)

SameResult(w) == scan'[w].release = scan[w].release /\ scan'[w].isNew = scan[w].isNew

Rested(w) == scan'[w] = Resting /\ OthersStay(w)

LEMMA RestEffect ==
  ASSUME ScanTyped, NEW w \in Thread, Rest(w)
  PROVE  Rested(w)
BY DEF ScanTyped, Rest, Rested, OthersStay

LEMMA GotoEffect ==
  ASSUME ScanTyped, NEW w \in Thread, NEW at, Goto(w, at)
  PROVE  Moved(w, at) /\ SameResult(w) /\ scan'[w].oldest = scan[w].oldest
BY DEF ScanTyped, ScanState, Goto, Moved, SameResult, OthersStay

LEMMA QueryEffects ==
  ASSUME ScanTyped, NEW w \in Thread, NEW t \in Task
  PROVE  /\ FetchDevice(w, t) =>
              Moved(w, "query") /\ SameResult(w) /\ scan'[w].oldest = OldestTrack(t)
         /\ \A r \in Release :
              QueryRelease(w, t, r) =>
                /\ Moved(w, "store") /\ scan'[w].release = r
                /\ scan'[w].isNew = scan[w].isNew /\ scan'[w].oldest = scan[w].oldest
         /\ \A upstream \in BOOLEAN :
              QueryFails(w, t, upstream) => Moved(w, "fail") /\ SameResult(w)
<1> USE DEF ScanTyped, ScanState, Moved, SameResult, OthersStay
<1>1. ASSUME FetchDevice(w, t)
      PROVE  Moved(w, "query") /\ SameResult(w) /\ scan'[w].oldest = OldestTrack(t)
  <2> DEFINE oldest == OldestTrack(t)
  <2>1. scan' = [scan EXCEPT ![w] = [@ EXCEPT !.at = "query", !.oldest = oldest]]
    BY <1>1 DEF FetchDevice
  <2> HIDE DEF oldest
  <2>2. Moved(w, "query") /\ SameResult(w) /\ scan'[w].oldest = oldest
    BY <2>1
  <2> QED
    BY <2>2 DEF oldest
<1>2. ASSUME NEW r \in Release, QueryRelease(w, t, r)
      PROVE  /\ Moved(w, "store") /\ scan'[w].release = r
             /\ scan'[w].isNew = scan[w].isNew /\ scan'[w].oldest = scan[w].oldest
  BY <1>2 DEF QueryRelease
<1>3. ASSUME NEW upstream \in BOOLEAN, QueryFails(w, t, upstream)
      PROVE  Moved(w, "fail") /\ SameResult(w)
  BY <1>3 DEF QueryFails
<1> QED
  BY <1>1, <1>2, <1>3

LEMMA StoreEffects ==
  ASSUME ScanTyped, NEW w \in Thread, NEW t \in Task
  PROVE  /\ StoreRelease(w, t) =>
              /\ Moved(w, "reset") /\ scan'[w].release = scan[w].release
              /\ scan'[w].oldest = scan[w].oldest
         /\ ReadFailures(w, t) =>
              Moved(w, "writeStrike") /\ scan'[w].failures = device[t].failures
<1> USE DEF ScanTyped, ScanState, Moved, OthersStay
<1>1. ASSUME StoreRelease(w, t)
      PROVE  /\ Moved(w, "reset") /\ scan'[w].release = scan[w].release
             /\ scan'[w].oldest = scan[w].oldest
  <2> DEFINE isNew == origin[scan[w].release] = "none"
  <2>1. scan' = [scan EXCEPT ![w] = [@ EXCEPT !.at = "reset", !.isNew = isNew]]
    BY <1>1 DEF StoreRelease
  <2> HIDE DEF isNew
  <2> QED
    BY <2>1
<1>2. ASSUME ReadFailures(w, t)
      PROVE  Moved(w, "writeStrike") /\ scan'[w].failures = device[t].failures
  <2> DEFINE failures == device[t].failures
  <2>1. scan' = [scan EXCEPT ![w] = [@ EXCEPT !.at = "writeStrike", !.failures = failures]]
    BY <1>2 DEF ReadFailures
  <2> HIDE DEF failures
  <2>2. Moved(w, "writeStrike") /\ scan'[w].failures = failures
    BY <2>1
  <2> QED
    BY <2>2 DEF failures
<1> QED
  BY <1>1, <1>2

(* What the calls that write the device row change in it. *)
LEMMA DeviceEffects ==
  ASSUME ScanTyped, NEW w \in Thread, NEW t \in Task
  PROVE  /\ ResetFailures(w, t) \/ ClearFailures(w, t) =>
              /\ \A u \in Task \ {t} : device'[u] = device[u]
              /\ device'[t].failures = 0
              /\ device'[t].bootstrapped = device[t].bootstrapped
              /\ device'[t].track = device[t].track
         /\ AdvanceTrack(w, t) =>
              /\ \A u \in Task \ {t} : device'[u] = device[u]
              /\ device'[t].failures = device[t].failures
              /\ device'[t].track = TrackOf[scan[w].release]
         /\ WriteFailures(w, t) =>
              /\ \A u \in Task \ {t} : device'[u] = device[u]
              /\ device'[t].failures = scan[w].failures + 1
              /\ device'[t].bootstrapped = device[t].bootstrapped
              /\ device'[t].track = device[t].track
<1> USE DEF ScanTyped, DeviceRow
<1>1. ASSUME ResetFailures(w, t) \/ ClearFailures(w, t)
      PROVE  /\ \A u \in Task \ {t} : device'[u] = device[u]
             /\ device'[t].failures = 0
             /\ device'[t].bootstrapped = device[t].bootstrapped
             /\ device'[t].track = device[t].track
  BY <1>1 DEF ResetFailures, ClearFailures
<1>2. ASSUME AdvanceTrack(w, t)
      PROVE  /\ \A u \in Task \ {t} : device'[u] = device[u]
             /\ device'[t].failures = device[t].failures
             /\ device'[t].track = TrackOf[scan[w].release]
  <2> DEFINE track == TrackOf[scan[w].release]
  <2>1. device' = [device EXCEPT ![t] = [@ EXCEPT !.bootstrapped = TRUE, !.track = track]]
    BY <1>2 DEF AdvanceTrack
  <2> HIDE DEF track
  <2>2. /\ \A u \in Task \ {t} : device'[u] = device[u]
        /\ device'[t].failures = device[t].failures
        /\ device'[t].track = track
    BY <2>1
  <2> QED
    BY <2>2 DEF track
<1>3. ASSUME WriteFailures(w, t)
      PROVE  /\ \A u \in Task \ {t} : device'[u] = device[u]
             /\ device'[t].failures = scan[w].failures + 1
             /\ device'[t].bootstrapped = device[t].bootstrapped
             /\ device'[t].track = device[t].track
  <2> DEFINE failures == scan[w].failures + 1
             enabled == device[t].enabled /\ ~(/\ failures >= ArchiveThreshold
                                               /\ scan[w].upstream /\ t \in Legacy)
  <2>1. device' = [device EXCEPT ![t] =
                     [@ EXCEPT !.failures = failures, !.enabled = enabled]]
    BY <1>3 DEF WriteFailures
  <2> HIDE DEF failures, enabled
  <2>2. /\ \A u \in Task \ {t} : device'[u] = device[u]
        /\ device'[t].failures = failures
        /\ device'[t].bootstrapped = device[t].bootstrapped
        /\ device'[t].track = device[t].track
    BY <2>1
  <2> QED
    BY <2>2 DEF failures
<1> QED
  BY <1>1, <1>2, <1>3

-----------------------------------------------------------------------------
(* Nothing but a discovery of the worker is ever announced.  The invariant is *)
(* inductive once it says that a thread about to announce was told is_new.    *)
AnnounceInv ==
  /\ OnlyDiscoveriesAreAnnounced
  /\ \A w \in Thread : scan[w].at = "announce" => scan[w].isNew

(* Steps after which no thread is closer to announcing a release than before. *)
NobodyNew ==
  /\ notified' = notified
  /\ \A r \in Release : origin[r] = "worker" => origin'[r] = "worker"
  /\ \A v \in Thread :
       /\ \A r \in Release : Announces(v, r)' => Announces(v, r)
       /\ scan'[v].at = "announce" => scan'[v].isNew

LEMMA NobodyNewKeeps == AnnounceInv /\ NobodyNew => AnnounceInv'
<1> SUFFICES ASSUME AnnounceInv, NobodyNew
             PROVE  AnnounceInv'
  OBVIOUS
<1>1. ASSUME NEW r \in Release
      PROVE  Announcing(r)' => Announcing(r)
  BY <1>1 DEF NobodyNew, Announcing
<1>2. ASSUME NEW r \in Release, NEW v \in Thread, NEW w \in Thread,
             Announces(v, r)', Announces(w, r)'
      PROVE  v = w
  BY <1>2 DEF AnnounceInv, OnlyDiscoveriesAreAnnounced, NobodyNew
<1>3. OnlyDiscoveriesAreAnnounced'
  BY <1>1, <1>2 DEF AnnounceInv, OnlyDiscoveriesAreAnnounced, NobodyNew
<1> QED
  BY <1>3 DEF AnnounceInv, NobodyNew

(* A thread that stays, or goes to a call that announces nothing.             *)
LEMMA ElsewhereIsNobodyNew ==
  ASSUME AnnounceInv, UNCHANGED <<origin, notified>>,
         \A v \in Thread :
           scan'[v] = scan[v] \/ scan'[v].at \notin {"reset", "advance", "announce"}
  PROVE  NobodyNew
BY DEF AnnounceInv, NobodyNew, Announces

LEMMA AnnounceStep ==
  ScanTyped /\ AnnounceInv /\ [ScannerNext]_scannerVars => AnnounceInv'
<1> SUFFICES ASSUME ScanTyped, AnnounceInv, [ScannerNext]_scannerVars
             PROVE  AnnounceInv'
  OBVIOUS
<1> USE ReleaseAssumption
<1>1. /\ scan \in [Thread -> ScanState]
      /\ \A w \in Thread : scan[w] \in ScanState
      /\ origin \in [Release -> {"none", "worker", "manual"}]
  BY DEF ScanTyped
<1>2. ASSUME UNCHANGED <<origin, notified>>,
             \A v \in Thread :
               scan'[v] = scan[v] \/ scan'[v].at \notin {"reset", "advance", "announce"}
      PROVE  AnnounceInv'
  BY <1>2, ElsewhereIsNobodyNew, NobodyNewKeeps
<1>3. CASE RunStep \/ UNCHANGED scannerVars
  BY <1>2, <1>3 DEF RunStep, scannerVars, store
<1>4. ASSUME NEW w \in Thread,
             \/ FindQueueEmpty(w)
             \/ \E t \in Task : StartCompleting(w, t) \/ StartFailing(w, t)
      PROVE  AnnounceInv'
  BY <1>2, <1>4 DEF FindQueueEmpty, StartCompleting, StartFailing, store
<1>5. ASSUME NEW w \in Thread, NEW t \in Task,
             ClaimTask(w, t) \/ FinishCompleting(w, t) \/ FinishFailing(w, t)
      PROVE  AnnounceInv'
  <2>1. UNCHANGED <<origin, notified>>
    BY <1>5 DEF ClaimTask, FinishCompleting, FinishFailing, store
  <2>2. CASE ClaimTask(w, t)
    <3>1. OthersStay(w) /\ scan'[w].at = "fetch"
      BY <1>1, <2>2 DEF ClaimTask, Resting, OthersStay
    <3> QED
      BY <1>2, <2>1, <3>1 DEF OthersStay
  <2>3. CASE Rest(w)
    BY <1>2, <2>1, <2>3, RestEffect DEF Rested, OthersStay, Resting
  <2>4. CASE Goto(w, "clear") \/ Goto(w, "strike")
    BY <1>2, <2>1, <2>4, GotoEffect DEF Moved, OthersStay
  <2> QED
    BY <1>5, <2>2, <2>3, <2>4 DEF FinishCompleting, FinishFailing
<1>6. ASSUME NEW w \in Thread, NEW t \in Task,
             \/ FetchDevice(w, t) \/ RejectDevice(w, t) \/ QueryNothing(w, t)
             \/ \E q \in Release : QueryRelease(w, t, q)
             \/ \E upstream \in BOOLEAN : QueryFails(w, t, upstream)
      PROVE  AnnounceInv'
  <2>1. UNCHANGED <<origin, notified>>
    BY <1>6 DEF FetchDevice, RejectDevice, QueryNothing, QueryRelease, QueryFails, store
  <2>2. \/ Moved(w, "query") \/ Moved(w, "reject") \/ Moved(w, "complete")
        \/ Moved(w, "store") \/ Moved(w, "fail")
    <3>1. CASE RejectDevice(w, t) \/ QueryNothing(w, t)
      BY <3>1, GotoEffect DEF RejectDevice, QueryNothing
    <3>2. CASE ~(RejectDevice(w, t) \/ QueryNothing(w, t))
      BY <1>6, <3>2, QueryEffects
    <3> QED
      BY <3>1, <3>2
  <2> QED
    BY <1>2, <2>1, <2>2 DEF Moved, OthersStay
<1>7. ASSUME NEW w \in Thread, NEW t \in Task,
             ClearFailures(w, t) \/ ReadFailures(w, t) \/ WriteFailures(w, t)
      PROVE  AnnounceInv'
  <2>1. UNCHANGED <<origin, notified>>
    BY <1>7 DEF ClearFailures, ReadFailures, WriteFailures, store
  <2>2. Rested(w) \/ Moved(w, "writeStrike")
    BY <1>7, RestEffect, StoreEffects DEF ClearFailures, WriteFailures
  <2> QED
    BY <1>2, <2>1, <2>2 DEF Rested, Moved, OthersStay, Resting
<1>8. ASSUME NEW w \in Thread, ThreadEnds(w)
      PROVE  AnnounceInv'
  BY <1>1, <1>2, <1>8 DEF ThreadEnds, Rest, Resting, store
<1>9. ASSUME NEW p \in Process, ProcessCrashes(p)
      PROVE  AnnounceInv'
  BY <1>1, <1>2, <1>9 DEF ProcessCrashes, Resting, store
<1>10. ASSUME NEW q \in Release, ManualQuery(q)
       PROVE  AnnounceInv'
  <2>1. NobodyNew
    BY <1>1, <1>10 DEF ManualQuery, NobodyNew, AnnounceInv, Announces
  <2> QED
    BY <2>1, NobodyNewKeeps
<1>11. ASSUME NEW w \in Thread, NEW t \in Task, ResetFailures(w, t) \/ AdvanceTrack(w, t)
       PROVE  AnnounceInv'
  <2>1. \A v \in Thread \ {w} : scan'[v] = scan[v]
    BY <1>1, <1>11 DEF ResetFailures, AdvanceTrack, Goto
  <2>2. /\ scan'[w].isNew = scan[w].isNew /\ scan'[w].release = scan[w].release
        /\ scan[w].at \in {"reset", "advance"}
        /\ scan'[w].at = "announce" => scan[w].isNew
    BY <1>1, <1>11 DEF ResetFailures, AdvanceTrack, Goto, At, ScanState
  <2>3. UNCHANGED <<origin, notified>>
    BY <1>11 DEF ResetFailures, AdvanceTrack
  <2>4. NobodyNew
    BY <2>1, <2>2, <2>3 DEF NobodyNew, AnnounceInv, Announces
  <2> QED
    BY <2>4, NobodyNewKeeps
<1>12. ASSUME NEW w \in Thread, NEW t \in Task, StoreRelease(w, t)
       PROVE  AnnounceInv'
  <2> DEFINE q == scan[w].release
             isNew == origin[q] = "none"
  <2>1. \A v \in Thread \ {w} : scan'[v] = scan[v]
    BY <1>1, <1>12 DEF StoreRelease
  <2>2. /\ scan'[w].at = "reset" /\ scan'[w].isNew = isNew
        /\ scan'[w].release = q /\ notified' = notified
    BY <1>1, <1>12 DEF StoreRelease, ScanState
  <2>3. CASE ~isNew
    <3>1. origin' = origin
      BY <1>12, <2>3 DEF StoreRelease
    <3>2. NobodyNew
      BY <2>1, <2>2, <2>3, <3>1 DEF NobodyNew, AnnounceInv, Announces
    <3> QED
      BY <3>2, NobodyNewKeeps
  <2>4. CASE isNew
    <3>1. /\ \A r \in Release \ {q} : origin'[r] = origin[r]
          /\ q \in Release => origin'[q] = "worker"
      BY <1>1, <1>12, <2>4 DEF StoreRelease
    <3>2. q \in Release => q \notin notified /\ \A v \in Thread : ~Announces(v, q)
      BY <2>4 DEF AnnounceInv, OnlyDiscoveriesAreAnnounced, Announcing
    <3>3. /\ \A v \in Thread \ {w} : \A r \in Release : Announces(v, r)' <=> Announces(v, r)
          /\ \A r \in Release : Announces(w, r)' <=> r = q
      BY <2>1, <2>2, <2>4 DEF Announces
    <3>4. ASSUME NEW r \in Release
          PROVE  /\ r \in notified' \/ Announcing(r)' => origin'[r] = "worker"
                 /\ r \in notified' => ~Announcing(r)'
                 /\ \A u, v \in Thread : Announces(u, r)' /\ Announces(v, r)' => u = v
      <4>1. CASE r = q
        BY <2>2, <3>1, <3>2, <3>3, <4>1 DEF Announcing
      <4>2. CASE r # q
        <5>1. \A v \in Thread : Announces(v, r)' => Announces(v, r)
          BY <3>3, <4>2
        <5>2. notified' = notified /\ origin'[r] = origin[r]
          BY <2>2, <3>1, <4>2
        <5> QED
          BY <5>1, <5>2 DEF AnnounceInv, OnlyDiscoveriesAreAnnounced, Announcing
      <4> QED
        BY <4>1, <4>2
    <3>5. OnlyDiscoveriesAreAnnounced'
      BY <3>4 DEF OnlyDiscoveriesAreAnnounced
    <3> QED
      BY <2>1, <2>2, <3>5 DEF AnnounceInv
  <2> QED
    BY <2>3, <2>4
<1>13. ASSUME NEW w \in Thread, NEW t \in Task, Announce(w, t)
       PROVE  AnnounceInv'
  <2> DEFINE q == scan[w].release
  <2>1. \A v \in Thread \ {w} : scan'[v] = scan[v]
    BY <1>1, <1>13 DEF Announce, Goto
  <2>2. /\ scan'[w].at = "complete" /\ origin' = origin
        /\ notified' = notified \cup ({q} \cap Routed)
    BY <1>1, <1>13 DEF Announce, Goto, ScanState
  <2>3. Announces(w, q)
    BY <1>13 DEF Announce, At, AnnounceInv, Announces
  <2>4. /\ \A v \in Thread : \A r \in Release : Announces(v, r)' => Announces(v, r)
        /\ \A r \in Release : ~Announces(w, r)'
    BY <2>1, <2>2 DEF Announces
  <2>5. ASSUME NEW r \in Release
        PROVE  /\ r \in notified' \/ Announcing(r)' => origin'[r] = "worker"
               /\ r \in notified' => ~Announcing(r)'
               /\ \A u, v \in Thread : Announces(u, r)' /\ Announces(v, r)' => u = v
    <3>1. /\ r \in notified \/ Announcing(r) => origin[r] = "worker"
          /\ r \in notified => ~Announcing(r)
          /\ \A u, v \in Thread : Announces(u, r) /\ Announces(v, r) => u = v
      BY DEF AnnounceInv, OnlyDiscoveriesAreAnnounced
    <3>2. CASE r = q
      BY <2>2, <2>3, <2>4, <3>1, <3>2 DEF Announcing
    <3>3. CASE r # q
      <4>1. r \in notified' <=> r \in notified
        BY <2>2, <3>3
      <4> QED
        BY <2>2, <2>4, <3>1, <4>1 DEF Announcing
    <3> QED
      BY <3>2, <3>3
  <2>6. OnlyDiscoveriesAreAnnounced'
    BY <2>5 DEF OnlyDiscoveriesAreAnnounced
  <2> QED
    BY <2>1, <2>2, <2>6 DEF AnnounceInv
<1> QED
  BY <1>3, <1>4, <1>5, <1>6, <1>7, <1>8, <1>9, <1>10, <1>11, <1>12, <1>13
  DEF ScannerNext, ScanStep

(* However many workers share the queue, whenever they crash and however late *)
(* a task is scanned again: a notification stands for the one discovery of    *)
(* its release, and at most one thread at a time is about to write it.        *)
THEOREM OnlyDiscoveries == ScannerSpec => []OnlyDiscoveriesAreAnnounced
<1>1. ScannerInit => AnnounceInv
  BY DEF ScannerInit, AnnounceInv, OnlyDiscoveriesAreAnnounced, Announcing, Announces, Resting
<1>2. AnnounceInv => OnlyDiscoveriesAreAnnounced
  BY DEF AnnounceInv
<1> QED
  BY <1>1, <1>2, ScanTypedInvariant, AnnounceStep, PTL DEF ScannerSpec

-----------------------------------------------------------------------------
(***************************************************************************)
(* Where a thread is in _process_task agrees with where it is in the queue,*)
(* and its local variables with the way it came.  The last conjunct is what*)
(* makes a reported release announced: the notification is in the outbox   *)
(* before the thread gets to complete_scan_task.                           *)
(***************************************************************************)
Busy ==
  {"fetch", "query", "store", "reset", "advance", "announce", "complete", "fail", "reject"}

Local(w) ==
  /\ scan[w].at \in Busy => thread[w].task # NoTask
  /\ scan[w].at \in {"clear", "strike", "writeStrike"} => thread[w].at = "claiming"
  /\ scan[w].at = "none" <=> scan[w].task = NoTask
  /\ thread[w].at = "completing" =>
       scan[w].at = "complete" /\ thread[w].foundNew = scan[w].isNew
  /\ scan[w].at \in {"fetch", "query"} =>
       scan[w].release = NoRelease /\ ~scan[w].isNew
  /\ scan[w].at \in {"store", "reset", "advance"} => TrackOf[scan[w].release] >= scan[w].oldest
  /\ scan[w].at = "complete" /\ scan[w].isNew /\ scan[w].release \in Routed =>
       scan[w].release \in notified

LocalOK == \A w \in Thread : Local(w)

LEMMA RestIsLocal ==
  ASSUME NEW w \in Thread, Rested(w), thread'[w].at # "completing"
  PROVE  Local(w)'
BY DEF Rested, Local, Resting, Busy

LEMMA LocalStep ==
  ASSUME ScanTyped, TypeOK, Agree, IdleProcess, LocalOK, [ScannerNext]_scannerVars
  PROVE  LocalOK'
<1> USE TaskAssumption, ReleaseAssumption
<1>1. DOMAIN thread = Thread /\ \A w \in Thread : thread[w] \in ThreadState
  BY DEF TypeOK
<1>2. \A w \in Thread :
        thread[w].at \in {"working", "failing", "completing"} <=> thread[w].task # NoTask
  BY DEF TypeOK
(* A step of one thread: only that thread has something to show. *)
<1>3. ASSUME NEW w \in Thread, OthersStay(w),
             \A v \in Thread \ {w} : thread'[v] = thread[v],
             notified \subseteq notified', Local(w)'
      PROVE  LocalOK'
  BY <1>3 DEF LocalOK, Local, OthersStay
<1>4. CASE RunStep
  <2>1. ASSUME NEW v \in Thread
        PROVE  \/ thread'[v] = thread[v]
               \/ /\ thread'[v].at \in {"claiming", "off"}
                  /\ thread[v].at \in {"off", "drained", "dead"}
    <3>1. ASSUME NEW p \in Process, StartRun(p)
          PROVE  \/ thread'[v] = thread[v]
                 \/ thread'[v].at = "claiming" /\ thread[v].at = "off"
      <4>1. runner[p].at # "draining"
        BY <3>1 DEF StartRun
      <4> QED
        BY <3>1, <4>1 DEF StartRun, Idle, IdleProcess
    <3>2. ASSUME NEW p \in Process, Judge(p) \/ RaiseFromThread(p)
          PROVE  \/ thread'[v] = thread[v]
                 \/ thread'[v].at = "off" /\ thread[v].at \in {"drained", "dead"}
      BY <3>2 DEF Judge, RaiseFromThread, Idle, Threads
    <3>3. ASSUME NEW p \in Process,
                 \/ CreateScheduledRun(p) \/ EnqueueAdminRun(p) \/ RespondEnqueued(p)
                 \/ CountTasks(p) \/ FinishRun(p)
                 \/ \E t \in Task : CreateTask(p, t)
          PROVE  thread' = thread
      BY <3>3 DEF CreateScheduledRun, EnqueueAdminRun, CreateRun, RespondEnqueued,
                  CountTasks, FinishRun, CreateTask
    <3> QED
      BY <1>4, <3>1, <3>2, <3>3 DEF RunStep, RunnerStep, GoOverdue
  <2>2. UNCHANGED <<scan, notified>>
    BY <1>4 DEF RunStep, store
  <2>3. ASSUME NEW v \in Thread, thread[v].at \in {"off", "drained", "dead"},
               thread'[v].at \in {"claiming", "off"}
        PROVE  Local(v)'
    <3>1. Local(v) /\ scan[v] \in ScanState
      BY DEF LocalOK, ScanTyped
    <3>2. scan[v].at = "none"
      BY <1>2, <2>3, <3>1 DEF Local, Busy, ScanState
    <3> QED
      BY <2>2, <2>3, <3>1, <3>2 DEF Local, Busy
  <2>4. ASSUME NEW v \in Thread, thread'[v] = thread[v]
        PROVE  Local(v)'
    BY <2>2, <2>4 DEF LocalOK, Local
  <2> QED
    BY <2>1, <2>3, <2>4 DEF LocalOK
<1>5. ASSUME NEW w \in Thread, FindQueueEmpty(w)
      PROVE  LocalOK'
  <2>1. /\ scan[w].at = "none" /\ thread'[w].at = "drained"
        /\ UNCHANGED <<scan, notified>>
        /\ \A v \in Thread \ {w} : thread'[v] = thread[v]
    BY <1>1, <1>5 DEF FindQueueEmpty, ClaimNone, Idle, store
  <2>2. Local(w)
    BY DEF LocalOK
  <2>3. Local(w)'
    BY <2>1, <2>2 DEF Local, Busy
  <2> QED
    BY <1>3, <2>1, <2>3 DEF OthersStay
<1>6. ASSUME NEW w \in Thread, NEW t \in Task, ClaimTask(w, t)
      PROVE  LocalOK'
  <2>1. /\ thread'[w].at = "working" /\ thread'[w].task = t
        /\ \A v \in Thread \ {w} : thread'[v] = thread[v]
        /\ notified' = notified
    BY <1>1, <1>6 DEF ClaimTask, Claim, Idle, store
  <2>2. scan' = [scan EXCEPT ![w] = [Resting EXCEPT !.at = "fetch", !.task = t]]
    BY <1>6 DEF ClaimTask
  <2>3. /\ scan'[w].at = "fetch" /\ scan'[w].task = t /\ scan'[w].release = NoRelease
        /\ scan'[w].isNew = FALSE /\ OthersStay(w)
    BY <2>2 DEF Resting, ScanTyped, OthersStay
  <2>4. Local(w)'
    BY <2>1, <2>3 DEF Local, Busy
  <2> QED
    BY <1>3, <2>1, <2>3, <2>4
(* The calls that leave the queue alone. *)
<1>7. ASSUME NEW w \in Thread, NEW t \in Task,
             \/ FetchDevice(w, t) \/ RejectDevice(w, t) \/ QueryNothing(w, t)
             \/ \E r \in Release : QueryRelease(w, t, r)
             \/ \E upstream \in BOOLEAN : QueryFails(w, t, upstream)
      PROVE  LocalOK'
  <2>1. /\ UNCHANGED <<thread, notified>> /\ scan[w].at \in {"fetch", "query"}
    BY <1>7 DEF FetchDevice, RejectDevice, QueryNothing, QueryRelease, QueryFails, At, vars,
                store
  <2>2. /\ Local(w) /\ scan[w].release = NoRelease /\ scan[w].isNew = FALSE
        /\ thread[w].task # NoTask /\ scan[w].task # NoTask
        /\ thread[w].at # "completing"
    <3>1. Local(w) /\ scan[w].isNew \in BOOLEAN
      BY DEF LocalOK, ScanTyped, ScanState
    <3> QED
      BY <2>1, <3>1 DEF Local, Busy
  <2>3. CASE FetchDevice(w, t)
    <3>1. Moved(w, "query") /\ SameResult(w)
      BY <2>3, QueryEffects
    <3>2. Local(w)'
      BY <2>1, <2>2, <3>1 DEF Local, Busy, Moved, SameResult
    <3> QED
      BY <1>3, <2>1, <3>1, <3>2 DEF Moved
  <2>4. ASSUME NEW at \in {"reject", "complete", "fail"}, Moved(w, at), SameResult(w)
        PROVE  LocalOK'
    <3>1. Local(w)'
      BY <2>1, <2>2, <2>4 DEF Local, Busy, Moved, SameResult
    <3> QED
      BY <1>3, <2>1, <2>4, <3>1 DEF Moved
  <2>5. CASE RejectDevice(w, t) \/ QueryNothing(w, t)
    BY <2>4, <2>5, GotoEffect DEF RejectDevice, QueryNothing
  <2>6. ASSUME NEW upstream \in BOOLEAN, QueryFails(w, t, upstream)
        PROVE  LocalOK'
    BY <2>4, <2>6, QueryEffects
  <2>7. ASSUME NEW r \in Release, QueryRelease(w, t, r)
        PROVE  LocalOK'
    <3>1. /\ Moved(w, "store") /\ scan'[w].release = r /\ scan'[w].oldest = scan[w].oldest
      BY <2>7, QueryEffects
    <3>2. TrackOf[r] >= scan[w].oldest
      BY <2>7 DEF QueryRelease
    <3>3. Local(w)'
      BY <2>1, <2>2, <3>1, <3>2 DEF Local, Busy, Moved
    <3> QED
      BY <1>3, <2>1, <3>1, <3>3 DEF Moved
  <2> QED
    BY <1>7, <2>3, <2>5, <2>6, <2>7
<1>8. ASSUME NEW w \in Thread, NEW t \in Task,
             \/ StoreRelease(w, t) \/ ResetFailures(w, t)
             \/ AdvanceTrack(w, t) \/ Announce(w, t)
      PROVE  LocalOK'
  <2>1. /\ UNCHANGED thread /\ scan[w].at \in {"store", "reset", "advance", "announce"}
        /\ notified \subseteq notified'
    BY <1>8 DEF StoreRelease, ResetFailures, AdvanceTrack, Announce, At, vars
  <2>2. /\ Local(w) /\ thread[w].task # NoTask /\ scan[w].task # NoTask
        /\ thread[w].at # "completing"
    <3>1. Local(w)
      BY DEF LocalOK
    <3> QED
      BY <2>1, <3>1 DEF Local, Busy
  <2>3. CASE StoreRelease(w, t)
    <3>1. /\ Moved(w, "reset") /\ scan'[w].release = scan[w].release
          /\ scan'[w].oldest = scan[w].oldest /\ scan[w].at = "store"
      BY <2>3, StoreEffects DEF StoreRelease, At
    <3>2. Local(w)'
      BY <2>1, <2>2, <3>1 DEF Local, Busy, Moved
    <3> QED
      BY <1>3, <2>1, <3>1, <3>2 DEF Moved
  <2>4. CASE ResetFailures(w, t)
    <3>1. /\ Moved(w, "advance") /\ SameResult(w) /\ scan'[w].oldest = scan[w].oldest
          /\ scan[w].at = "reset"
      BY <2>4, GotoEffect DEF ResetFailures, At
    <3>2. Local(w)'
      BY <2>1, <2>2, <3>1 DEF Local, Busy, Moved, SameResult
    <3> QED
      BY <1>3, <2>1, <3>1, <3>2 DEF Moved
  <2>5. CASE AdvanceTrack(w, t)
    <3>1. /\ Moved(w, IF scan[w].isNew THEN "announce" ELSE "complete") /\ SameResult(w)
      BY <2>5, GotoEffect DEF AdvanceTrack
    <3>2. Local(w)'
      BY <2>1, <2>2, <3>1 DEF Local, Busy, Moved, SameResult
    <3> QED
      BY <1>3, <2>1, <3>1, <3>2 DEF Moved
  <2>6. CASE Announce(w, t)
    <3>1. /\ Moved(w, "complete") /\ SameResult(w)
          /\ notified' = notified \cup ({scan[w].release} \cap Routed)
      BY <2>6, GotoEffect DEF Announce
    <3>2. Local(w)'
      BY <2>1, <2>2, <3>1 DEF Local, Busy, Moved, SameResult
    <3> QED
      BY <1>3, <2>1, <3>1, <3>2 DEF Moved
  <2> QED
    BY <1>8, <2>3, <2>4, <2>5, <2>6
<1>9. ASSUME NEW w \in Thread, NEW t \in Task, StartCompleting(w, t)
      PROVE  LocalOK'
  <2> DEFINE count == Cardinality(NewTasks \ {t}) + (IF scan[w].isNew THEN 1 ELSE 0)
             row == [thread[w] EXCEPT !.at = "completing", !.foundNew = scan[w].isNew,
                                      !.count = count]
  <2>1. /\ UNCHANGED <<scan, notified>> /\ scan[w].at = "complete" /\ thread[w].task = t
        /\ thread' = [thread EXCEPT ![w] = row]
    BY <1>9 DEF StartCompleting, BeginComplete, At, store, Holds
  <2>2. row.at = "completing" /\ row.foundNew = scan[w].isNew /\ row.task = thread[w].task
    <3> HIDE DEF count
    <3> QED
      BY <1>1 DEF ThreadState
  <2> HIDE DEF row
  <2>3. /\ thread'[w].at = "completing" /\ thread'[w].foundNew = scan[w].isNew
        /\ thread'[w].task = t
        /\ \A v \in Thread \ {w} : thread'[v] = thread[v]
    BY <1>1, <2>1, <2>2
  <2>4. Local(w)
    BY DEF LocalOK
  <2>5. Local(w)'
    BY <2>1, <2>3, <2>4 DEF Local, Busy
  <2> QED
    BY <1>3, <2>1, <2>3, <2>5 DEF OthersStay
<1>10. ASSUME NEW w \in Thread, NEW t \in Task, StartFailing(w, t)
       PROVE  LocalOK'
  <2>1. /\ UNCHANGED <<scan, notified>> /\ scan[w].at \in {"fail", "reject"} /\ Holds(w, t)
        /\ ReadAttempts(w, t, scan[w].upstream)
    BY <1>10 DEF StartFailing, ReadAttempts, store
  <2>2. /\ thread'[w].at = "failing" /\ thread'[w].task = t
        /\ \A v \in Thread \ {w} : thread'[v] = thread[v]
    BY <1>1, <2>1 DEF ReadAttempts, ThreadState, Holds
  <2>3. Local(w)
    BY DEF LocalOK
  <2>4. Local(w)'
    BY <2>1, <2>2, <2>3 DEF Local, Busy
  <2> QED
    BY <1>3, <2>1, <2>2, <2>4 DEF OthersStay
<1>11. ASSUME NEW w \in Thread, NEW t \in Task,
              FinishCompleting(w, t) \/ FinishFailing(w, t)
       PROVE  LocalOK'
  <2>1. /\ thread'[w].at = "claiming" /\ notified' = notified
        /\ \A v \in Thread \ {w} : thread'[v] = thread[v]
    BY <1>1, <1>11 DEF FinishCompleting, FinishFailing, CommitComplete, WriteFailure, Idle, store
  <2>2. Rested(w) \/ \E at \in {"clear", "strike"} : Moved(w, at)
    BY <1>11, RestEffect, GotoEffect DEF FinishCompleting, FinishFailing
  <2>3. scan[w].task # NoTask
    <3>1. Local(w) /\ scan[w].at # "none"
      BY <1>11 DEF LocalOK, FinishCompleting, FinishFailing, At
    <3> QED
      BY <3>1 DEF Local
  <2>4. OthersStay(w) /\ Local(w)'
    <3>1. CASE Rested(w)
      BY <2>1, <3>1, RestIsLocal DEF Rested
    <3>2. ASSUME NEW at \in {"clear", "strike"}, Moved(w, at)
          PROVE  OthersStay(w) /\ Local(w)'
      BY <2>1, <2>3, <3>2 DEF Moved, Local, Busy
    <3> QED
      BY <2>2, <3>1, <3>2
  <2> QED
    BY <1>3, <2>1, <2>4
<1>12. ASSUME NEW w \in Thread, NEW t \in Task, ReadFailures(w, t)
       PROVE  LocalOK'
  <2>1. UNCHANGED <<thread, notified>> /\ scan[w].at = "strike"
    BY <1>12 DEF ReadFailures, At, vars, store
  <2>2. Moved(w, "writeStrike")
    BY <1>12, StoreEffects
  <2>3. Local(w)
    BY DEF LocalOK
  <2>4. Local(w)'
    BY <2>1, <2>2, <2>3 DEF Local, Busy, Moved
  <2> QED
    BY <1>3, <2>1, <2>2, <2>4 DEF Moved
<1>13. ASSUME NEW w \in Thread, NEW t \in Task, ClearFailures(w, t) \/ WriteFailures(w, t)
       PROVE  LocalOK'
  <2>1. /\ UNCHANGED <<thread, notified>> /\ scan[w].at \in {"clear", "writeStrike"}
        /\ Rested(w)
    BY <1>13, RestEffect DEF ClearFailures, WriteFailures, At, vars
  <2>2. thread[w].at = "claiming"
    BY <2>1 DEF LocalOK, Local
  <2> QED
    BY <1>3, <2>1, <2>2, RestIsLocal DEF Rested
<1>14. ASSUME NEW w \in Thread, ThreadEnds(w)
       PROVE  LocalOK'
  <2>1. /\ thread'[w].at = "dead" /\ \A v \in Thread \ {w} : thread'[v] = thread[v]
        /\ notified' = notified /\ Rested(w)
    BY <1>1, <1>14, RestEffect DEF ThreadEnds, ThreadDies, Idle, store
  <2> QED
    BY <1>3, <2>1, RestIsLocal DEF Rested
<1>15. ASSUME NEW p \in Process, ProcessCrashes(p)
       PROVE  LocalOK'
  <2>1. notified' = notified
    BY <1>15 DEF ProcessCrashes, store
  <2>2. ASSUME NEW v \in Thread
        PROVE  \/ thread'[v] = thread[v] /\ scan'[v] = scan[v]
               \/ thread'[v].at = "off" /\ scan'[v] = Resting
    BY <1>15 DEF ProcessCrashes, Crash, Idle
  <2>3. ASSUME NEW v \in Thread, thread'[v].at = "off", scan'[v] = Resting
        PROVE  Local(v)'
    BY <2>3 DEF Local, Busy, Resting
  <2>4. ASSUME NEW v \in Thread, thread'[v] = thread[v], scan'[v] = scan[v]
        PROVE  Local(v)'
    BY <2>1, <2>4 DEF LocalOK, Local
  <2> QED
    BY <2>2, <2>3, <2>4 DEF LocalOK
<1>16. CASE UNCHANGED scannerVars \/ \E r \in Release : ManualQuery(r)
  BY <1>16 DEF scannerVars, vars, store, ManualQuery, LocalOK, Local
<1> QED
  BY <1>4, <1>5, <1>6, <1>7, <1>8, <1>9, <1>10, <1>11, <1>12, <1>13, <1>14, <1>15, <1>16
  DEF ScannerNext, ScanStep

(* What the queue guarantees of every user of it, and the agreement of the    *)
(* scanner's threads with it.                                                 *)
QueueInv == TypeOK /\ FreshTasks /\ IdleProcess

LEMMA ScannerInvariant == ScannerSpec => [](QueueInv /\ ScanTyped /\ Agree /\ LocalOK)
<1>1. ScannerInit => Agree /\ LocalOK
  BY DEF ScannerInit, Init, Agree, Idle, Resting, LocalOK, Local, Busy
<1>2. ScannerSpec => []QueueInv
  BY ScannerUsesQueue, TypeCorrect, FreshInvariant, IdleInvariant, PTL DEF QueueInv
<1>3. QueueInv /\ ScanTyped /\ Agree /\ LocalOK /\ [ScannerNext]_scannerVars
        => Agree' /\ LocalOK'
  BY AgreeStep, LocalStep DEF QueueInv
<1> QED
  BY <1>1, <1>2, <1>3, ScanTypedInvariant, PTL DEF ScannerSpec

-----------------------------------------------------------------------------
(* The steps that change a task of the queue, as the scanner takes them. *)
LEMMA TaskChanges ==
  ASSUME TypeOK, [ScannerNext]_scannerVars, NEW t \in Task,
         task'[t].status = "completed", task'[t] # task[t]
  PROVE  \E w \in Thread : FinishCompleting(w, t)
<1> USE DEF TypeOK, TaskRow
<1>1. UNCHANGED task => FALSE
  OBVIOUS
<1>2. ASSUME NEW w \in Thread, NEW u \in Task, Claim(w, u)
      PROVE  FALSE
  BY <1>2 DEF Claim
<1>3. ASSUME NEW w \in Thread, NEW u \in Task, WriteFailure(w, u)
      PROVE  FALSE
  BY <1>3 DEF WriteFailure
<1>4. ASSUME NEW p \in Process, NEW u \in Task, CreateTask(p, u)
      PROVE  FALSE
  BY <1>4 DEF CreateTask
<1>5. ASSUME NEW w \in Thread, NEW u \in Task, FinishCompleting(w, u)
      PROVE  u = t
  BY <1>5 DEF FinishCompleting, CommitComplete
<1>6. CASE RunStep
  <2>1. ASSUME NEW p \in Process,
               \/ CreateScheduledRun(p) \/ EnqueueAdminRun(p) \/ StartRun(p)
               \/ RespondEnqueued(p) \/ Judge(p) \/ CountTasks(p) \/ FinishRun(p)
               \/ RaiseFromThread(p)
        PROVE  UNCHANGED task
    BY <2>1 DEF CreateScheduledRun, EnqueueAdminRun, CreateRun, StartRun, RespondEnqueued,
                Judge, CountTasks, FinishRun, RaiseFromThread
  <2> QED
    BY <1>1, <1>4, <1>6, <2>1 DEF RunStep, RunnerStep, GoOverdue
<1>7. ASSUME NEW w \in Thread, ScanStep(w)
      PROVE  \E v \in Thread : FinishCompleting(v, t)
  <2>1. ASSUME NEW u \in Task,
               \/ FetchDevice(w, u) \/ RejectDevice(w, u) \/ QueryNothing(w, u)
               \/ \E r \in Release : QueryRelease(w, u, r)
               \/ \E upstream \in BOOLEAN : QueryFails(w, u, upstream)
               \/ ClearFailures(w, u) \/ ReadFailures(w, u) \/ WriteFailures(w, u)
        PROVE  UNCHANGED task
    BY <2>1 DEF FetchDevice, RejectDevice, QueryNothing, QueryRelease, QueryFails,
                ClearFailures, ReadFailures, WriteFailures, vars
  <2>2. ASSUME NEW u \in Task,
               \/ StoreRelease(w, u) \/ ResetFailures(w, u) \/ AdvanceTrack(w, u)
               \/ Announce(w, u) \/ StartCompleting(w, u) \/ StartFailing(w, u)
        PROVE  UNCHANGED task
    BY <2>2 DEF StoreRelease, ResetFailures, AdvanceTrack, Announce, StartCompleting,
                StartFailing, BeginComplete, ReadAttempts, vars
  <2>3. ASSUME NEW u \in Task, ClaimTask(w, u) \/ FinishFailing(w, u)
        PROVE  FALSE
    BY <1>2, <1>3, <2>3 DEF ClaimTask, FinishFailing
  <2>4. FindQueueEmpty(w) => UNCHANGED task
    BY DEF FindQueueEmpty, ClaimNone
  <2> QED
    BY <1>1, <1>5, <1>7, <2>1, <2>2, <2>3, <2>4 DEF ScanStep
<1>8. ASSUME \/ \E w \in Thread : ThreadEnds(w)
             \/ \E p \in Process : ProcessCrashes(p)
             \/ \E r \in Release : ManualQuery(r)
             \/ UNCHANGED scannerVars
      PROVE  UNCHANGED task
  BY <1>8 DEF ThreadEnds, ThreadDies, ProcessCrashes, Crash, ManualQuery, scannerVars, vars
<1> QED
  BY <1>1, <1>6, <1>7, <1>8 DEF ScannerNext

(* found_release_id and the outbox change at one place each. *)
LEMMA FoundChanges ==
  ASSUME ScanTyped, [ScannerNext]_scannerVars
  PROVE  /\ notified \subseteq notified'
         /\ \/ found' = found
            \/ \E w \in Thread, t \in Task : FinishCompleting(w, t)
<1>1. RunStep => UNCHANGED <<notified, found>>
  BY DEF RunStep, store
<1>2. ASSUME NEW w \in Thread, ScanStep(w)
      PROVE  /\ notified \subseteq notified'
             /\ found' = found \/ \E t \in Task : FinishCompleting(w, t)
  <2>1. FindQueueEmpty(w) => UNCHANGED <<notified, found>>
    BY DEF FindQueueEmpty, store
  <2>2. ASSUME NEW t \in Task,
               \/ FetchDevice(w, t) \/ RejectDevice(w, t) \/ QueryNothing(w, t)
               \/ \E r \in Release : QueryRelease(w, t, r)
               \/ \E upstream \in BOOLEAN : QueryFails(w, t, upstream)
               \/ ClaimTask(w, t) \/ ClearFailures(w, t) \/ ReadFailures(w, t)
        PROVE  UNCHANGED <<notified, found>>
    BY <2>2 DEF FetchDevice, RejectDevice, QueryNothing, QueryRelease, QueryFails,
                ClaimTask, ClearFailures, ReadFailures, store
  <2>3. ASSUME NEW t \in Task,
               \/ StoreRelease(w, t) \/ ResetFailures(w, t) \/ AdvanceTrack(w, t)
               \/ Announce(w, t) \/ StartCompleting(w, t) \/ StartFailing(w, t)
               \/ FinishFailing(w, t) \/ WriteFailures(w, t)
        PROVE  notified \subseteq notified' /\ found' = found
    BY <2>3 DEF StoreRelease, ResetFailures, AdvanceTrack, Announce, StartCompleting,
                StartFailing, FinishFailing, WriteFailures, store
  <2>4. ASSUME NEW t \in Task, FinishCompleting(w, t)
        PROVE  notified' = notified
    BY <2>4 DEF FinishCompleting
  <2> QED
    BY <1>2, <2>1, <2>2, <2>3, <2>4 DEF ScanStep
<1>3. ASSUME \/ \E w \in Thread : ThreadEnds(w)
             \/ \E p \in Process : ProcessCrashes(p)
             \/ \E r \in Release : ManualQuery(r)
             \/ UNCHANGED scannerVars
      PROVE  UNCHANGED <<notified, found>>
  BY <1>3 DEF ThreadEnds, ProcessCrashes, ManualQuery, scannerVars, store
<1> QED
  BY <1>1, <1>2, <1>3 DEF ScannerNext

LEMMA ReportedStep ==
  ASSUME QueueInv, ScanTyped, Agree, LocalOK, ReportedReleaseIsAnnounced,
         [ScannerNext]_scannerVars
  PROVE  ReportedReleaseIsAnnounced'
<1> SUFFICES ASSUME NEW t \in Task, task'[t].status = "completed", task'[t].foundNew,
                    found'[t] \in Routed
             PROVE  found'[t] \in notified'
  BY DEF ReportedReleaseIsAnnounced
<1> USE DEF QueueInv
<1>1. notified \subseteq notified'
  BY FoundChanges
<1>2. ASSUME NEW w \in Thread, FinishCompleting(w, t)
      PROVE  found'[t] \in notified'
  <2>1. /\ scan[w].at = "complete" /\ thread[w].at = "completing"
        /\ found'[t] = scan[w].release
    BY <1>2 DEF FinishCompleting, CommitComplete, At, ScanTyped
  <2>2. task'[t].foundNew = thread[w].foundNew
    <3>1. task'[t] = [task[t] EXCEPT !.status = "completed", !.foundNew = thread[w].foundNew]
      BY <1>2 DEF FinishCompleting, CommitComplete, TypeOK
    <3> QED
      BY <3>1 DEF TypeOK, TaskRow
  <2> QED
    BY <1>1, <2>1, <2>2 DEF LocalOK, Local
<1>3. ASSUME ~\E w \in Thread : FinishCompleting(w, t)
      PROVE  found'[t] \in notified'
  <2>1. task'[t] = task[t]
    BY <1>3, TaskChanges
  <2>2. found'[t] = found[t]
    <3>1. ASSUME NEW w \in Thread, NEW u \in Task, FinishCompleting(w, u)
          PROVE  found'[t] = found[t]
      BY <1>3, <3>1 DEF FinishCompleting, ScanTyped
    <3> QED
      BY <3>1, FoundChanges
  <2> QED
    BY <1>1, <2>1, <2>2 DEF ReportedReleaseIsAnnounced
<1> QED
  BY <1>2, <1>3

(* A task never reports a new release that has a target and no notification:  *)
(* not after a crash between the announcement and complete_scan_task, nor     *)
(* when an overdue task is completed twice by two workers.                    *)
THEOREM ReportedIsAnnounced == ScannerSpec => []ReportedReleaseIsAnnounced
<1>1. ScannerInit => ReportedReleaseIsAnnounced
  BY DEF ScannerInit, Init, ReportedReleaseIsAnnounced
<1> QED
  BY <1>1, ScannerInvariant, ReportedStep, PTL DEF ScannerSpec

-----------------------------------------------------------------------------
(***************************************************************************)
(* The device of a task younger than 15 minutes has one thread at a time,  *)
(* also after that thread has reported the outcome and until it is done    *)
(* with the device: so what a thread has read of the row is still there    *)
(* when it writes, and the outcome it acts on is the one that stands.      *)
(***************************************************************************)
Knows(w, t) ==
  /\ scan[w].at \in {"strike", "writeStrike"} => task[t].status = "failed"
  /\ scan[w].at = "clear" => task[t].status = "completed"
  /\ scan[w].at = "writeStrike" => scan[w].failures = device[t].failures
  /\ scan[w].at \in {"query", "store", "reset", "advance"} /\ device[t].bootstrapped =>
       scan[w].oldest >= device[t].track
  /\ scan[w].at \in {"advance", "announce"} => device[t].failures = 0
  /\ scan[w].at = "complete" /\ scan[w].release # NoRelease => device[t].failures = 0

Scans(w, t) == scan[w].task = t

FreshDevice(t) ==
  \A w \in Thread :
    Scans(w, t) => Knows(w, t) /\ \A v \in Thread : Scans(v, t) => v = w

FreshDevices == \A t \in Task \ overdue : FreshDevice(t)

(* What a step of the queue cannot change while a task is fresh. *)
LEMMA FreshFrame ==
  ASSUME QueueInv, ScanTyped, [ScannerNext]_scannerVars
  PROVE  /\ overdue \subseteq overdue'
         /\ \A t \in Task \ overdue' : task[t].status \in Terminal => task'[t] = task[t]
<1>1. [Next]_vars
  BY QueueStep
<1>2. overdue \subseteq overdue'
  BY <1>1
  DEF Next, ThreadStep, RunnerStep, ClaimNone, Claim, BeginComplete, CommitComplete,
      ReadAttempts, WriteFailure, ThreadDies, CreateScheduledRun, EnqueueAdminRun, CreateRun,
      StartRun, CreateTask, RespondEnqueued, Judge, CountTasks, FinishRun, RaiseFromThread,
      Crash, GoOverdue, vars
<1> QED
  BY <1>1, <1>2, OutcomeStep DEF QueueInv

(* Steps in which threads stay where they are or end. *)
LEMMA QuietKeepsDevices ==
  ASSUME QueueInv, ScanTyped, FreshDevices, [ScannerNext]_scannerVars, UNCHANGED device,
         \A v \in Thread : scan'[v] = scan[v] \/ scan'[v] = Resting
  PROVE  FreshDevices'
<1> SUFFICES ASSUME NEW t \in Task \ overdue', NEW w \in Thread, Scans(w, t)'
             PROVE  Knows(w, t)' /\ \A v \in Thread : Scans(v, t)' => v = w
  BY DEF FreshDevices, FreshDevice
<1>1. t \notin overdue /\ (task[t].status \in Terminal => task'[t] = task[t])
  BY FreshFrame
<1>2. \A v \in Thread : Scans(v, t)' => scan'[v] = scan[v]
  BY TaskAssumption DEF Scans, Resting
<1>3. \A v \in Thread : Scans(v, t)' => Scans(v, t)
  BY <1>2 DEF Scans
<1>4. Knows(w, t) /\ \A v \in Thread : Scans(v, t) => v = w
  BY <1>1, <1>3 DEF FreshDevices, FreshDevice
<1> QED
  BY <1>1, <1>2, <1>3, <1>4 DEF Knows, Terminal

(* A step of the thread that scans the device: only what that thread knows    *)
(* has to be shown.                                                           *)
LEMMA OwnStepKeepsDevices ==
  ASSUME QueueInv, ScanTyped, FreshDevices, [ScannerNext]_scannerVars,
         NEW w \in Thread, NEW t \in Task, Scans(w, t), OthersStay(w),
         scan'[w].task \in {t, NoTask},
         \A u \in Task \ {t} : device'[u] = device[u],
         t \notin overdue' /\ scan'[w].task = t => Knows(w, t)'
  PROVE  FreshDevices'
<1> SUFFICES ASSUME NEW u \in Task \ overdue', NEW v \in Thread, Scans(v, u)'
             PROVE  Knows(v, u)' /\ \A x \in Thread : Scans(x, u)' => x = v
  BY DEF FreshDevices, FreshDevice
<1>1. u \notin overdue /\ (task[u].status \in Terminal => task'[u] = task[u])
  BY FreshFrame
<1>2. \A x \in Thread : Scans(x, u)' => Scans(x, u)
  BY TaskAssumption DEF Scans, OthersStay
<1>3. Knows(v, u) /\ \A x \in Thread : Scans(x, u) => x = v
  BY <1>1, <1>2 DEF FreshDevices, FreshDevice
<1>4. CASE v = w
  <2>1. u = t
    BY <1>2, <1>4 DEF Scans
  <2> QED
    BY <1>2, <1>3, <1>4, <2>1 DEF Scans
<1>5. CASE v # w
  <2>1. u # t
    BY <1>3, <1>5 DEF Scans
  <2>2. scan'[v] = scan[v] /\ device'[u] = device[u]
    BY <1>5, <2>1 DEF OthersStay
  <2> QED
    BY <1>1, <1>2, <1>3, <2>2 DEF Knows, Terminal
<1> QED
  BY <1>4, <1>5

LEMMA FreshDevicesStep ==
  ASSUME QueueInv, ScanTyped, Agree, LocalOK, FreshDevices, [ScannerNext]_scannerVars
  PROVE  FreshDevices'
<1> USE DEF QueueInv
<1>1. ASSUME UNCHANGED <<scan, device>>
      PROVE  FreshDevices'
  BY <1>1, QuietKeepsDevices
<1>2. CASE RunStep
  BY <1>1, <1>2 DEF RunStep, store
<1>3. ASSUME NEW w \in Thread, ThreadEnds(w)
      PROVE  FreshDevices'
  BY <1>3, QuietKeepsDevices, RestEffect DEF ThreadEnds, Rested, OthersStay, store
<1>4. ASSUME NEW p \in Process, ProcessCrashes(p)
      PROVE  FreshDevices'
  BY <1>4, QuietKeepsDevices DEF ProcessCrashes, store
<1>5. CASE UNCHANGED scannerVars \/ \E r \in Release : ManualQuery(r)
  BY <1>1, <1>5 DEF scannerVars, store, ManualQuery
<1>6. ASSUME NEW w \in Thread, NEW t \in Task, ClaimTask(w, t)
      PROVE  FreshDevices'
  <2>1. /\ task[t].status = "queued" \/ t \in overdue
        /\ device' = device /\ overdue' = overdue
        /\ scan[w].at = "none"
    BY <1>6 DEF ClaimTask, Claim, Claimable, With, store
  <2>2. scan'[w].task = t /\ scan'[w].at = "fetch" /\ OthersStay(w)
    BY <1>6 DEF ClaimTask, Resting, ScanTyped, OthersStay
  <2>3. scan[w].task = NoTask
    BY <2>1 DEF LocalOK, Local
  <2>4. ASSUME t \notin overdue, NEW v \in Thread, Scans(v, t)
        PROVE  FALSE
    <3>1. Knows(v, t) /\ Local(v) /\ scan[v].at # "none" /\ scan[v] \in ScanState
      BY <2>4, TaskAssumption DEF FreshDevices, FreshDevice, LocalOK, Local, Scans, ScanTyped
    <3>2. scan[v].at \notin {"strike", "writeStrike", "clear"}
      BY <2>1, <2>4, <3>1 DEF Knows
    <3>3. scan[v].at \in Busy
      BY <3>1, <3>2 DEF Busy, ScanState
    <3>4. Holds(v, t)
      BY <2>4, <3>1, <3>3 DEF Local, Agree, Scans, Holds
    <3> QED
      BY <2>1, <2>4, <3>4 DEF FreshTasks, FreshTask
  <2>5. SUFFICES ASSUME NEW u \in Task \ overdue', NEW v \in Thread, Scans(v, u)'
                 PROVE  Knows(v, u)' /\ \A x \in Thread : Scans(x, u)' => x = v
    BY DEF FreshDevices, FreshDevice
  <2>6. u \notin overdue /\ (task[u].status \in Terminal => task'[u] = task[u])
    BY FreshFrame
  <2>7. CASE u = t
    <3>1. \A x \in Thread : Scans(x, t)' => x = w
      BY <2>2, <2>4, <2>6, <2>7 DEF Scans, OthersStay
    <3>2. v = w
      BY <2>5, <2>7, <3>1
    <3> QED
      BY <2>2, <2>7, <3>1, <3>2 DEF Knows
  <2>8. CASE u # t
    <3>1. \A x \in Thread : Scans(x, u)' => Scans(x, u) /\ scan'[x] = scan[x]
      BY <2>2, <2>8 DEF Scans, OthersStay
    <3>2. Knows(v, u) /\ \A x \in Thread : Scans(x, u) => x = v
      BY <2>5, <2>6, <3>1 DEF FreshDevices, FreshDevice
    <3> QED
      BY <2>1, <2>5, <2>6, <3>1, <3>2 DEF Knows, Terminal
  <2> QED
    BY <2>7, <2>8
(* The other calls of a thread that is busy with a device. *)
<1>7. ASSUME NEW w \in Thread, NEW t \in Task, Scans(w, t), device' = device, task' = task,
             NEW at \in {"query", "reject", "store", "complete", "fail", "reset", "announce",
                         "writeStrike"},
             Moved(w, at),
             at \in {"query", "store", "reset"} /\ device[t].bootstrapped =>
               scan'[w].oldest >= device[t].track,
             at = "announce" \/ (at = "complete" /\ scan'[w].release # NoRelease) =>
               t \in overdue \/ device[t].failures = 0,
             at = "writeStrike" =>
               /\ scan'[w].failures = device[t].failures
               /\ t \in overdue \/ task[t].status = "failed"
      PROVE  FreshDevices'
  <2>1. t \notin overdue' => t \notin overdue
    BY FreshFrame
  <2>2. t \notin overdue' => Knows(w, t)'
    BY <1>7, <2>1 DEF Knows, Moved
  <2> QED
    BY <1>7, <2>2, OwnStepKeepsDevices DEF Moved, Scans
<1>8. ASSUME NEW w \in Thread, NEW t \in Task \ overdue, Scans(w, t)
      PROVE  Knows(w, t)
  BY <1>8 DEF FreshDevices, FreshDevice
<1>9. ASSUME NEW w \in Thread, NEW t \in Task,
             \/ FetchDevice(w, t) \/ RejectDevice(w, t) \/ QueryNothing(w, t)
             \/ \E r \in Release : QueryRelease(w, t, r)
             \/ \E upstream \in BOOLEAN : QueryFails(w, t, upstream)
      PROVE  FreshDevices'
  <2>1. Scans(w, t) /\ UNCHANGED <<device, task>> /\ scan[w].at \in {"fetch", "query"}
    BY <1>9 DEF FetchDevice, RejectDevice, QueryNothing, QueryRelease, QueryFails, At, Scans,
                vars, store
  <2>2. scan[w].release = NoRelease
    BY <2>1 DEF LocalOK, Local
  <2>3. CASE FetchDevice(w, t)
    <3>1. Moved(w, "query") /\ scan'[w].oldest = OldestTrack(t)
      BY <2>3, QueryEffects
    <3>2. device[t].bootstrapped => scan'[w].oldest >= device[t].track
      BY <3>1 DEF OldestTrack, ScanTyped, DeviceRow, Track
    <3> QED
      BY <1>7, <2>1, <3>1, <3>2
  <2>4. CASE RejectDevice(w, t)
    <3>1. Moved(w, "reject")
      BY <2>4, GotoEffect DEF RejectDevice
    <3> QED
      BY <1>7, <2>1, <3>1
  <2>5. CASE QueryNothing(w, t)
    <3>1. Moved(w, "complete") /\ scan'[w].release = NoRelease
      BY <2>2, <2>5, GotoEffect DEF QueryNothing, SameResult
    <3> QED
      BY <1>7, <2>1, <3>1
  <2>6. ASSUME NEW upstream \in BOOLEAN, QueryFails(w, t, upstream)
        PROVE  FreshDevices'
    <3>1. Moved(w, "fail")
      BY <2>6, QueryEffects
    <3> QED
      BY <1>7, <2>1, <3>1
  <2>7. ASSUME NEW r \in Release, QueryRelease(w, t, r)
        PROVE  FreshDevices'
    <3>1. Moved(w, "store") /\ scan'[w].oldest = scan[w].oldest /\ scan[w].at = "query"
      BY <2>7, QueryEffects DEF QueryRelease, At
    <3>2. t \notin overdue' => Knows(w, t)'
      <4>1. t \notin overdue' => Knows(w, t)
        BY <1>8, <2>1, FreshFrame
      <4> QED
        BY <2>1, <3>1, <4>1 DEF Knows, Moved
    <3> QED
      BY <2>1, <3>1, <3>2, OwnStepKeepsDevices DEF Moved, Scans
  <2> QED
    BY <1>9, <2>3, <2>4, <2>5, <2>6, <2>7
<1>10. ASSUME NEW w \in Thread, NEW t \in Task,
              StoreRelease(w, t) \/ ResetFailures(w, t) \/ AdvanceTrack(w, t) \/ Announce(w, t)
       PROVE  FreshDevices'
  <2>1. Scans(w, t) /\ task' = task
    BY <1>10 DEF StoreRelease, ResetFailures, AdvanceTrack, Announce, At, Scans, vars
  <2>2. t \notin overdue' => Knows(w, t)
    BY <1>8, <2>1, FreshFrame
  <2>3. CASE StoreRelease(w, t)
    <3>1. /\ Moved(w, "reset") /\ scan'[w].oldest = scan[w].oldest /\ device' = device
          /\ scan[w].at = "store"
      BY <2>3, StoreEffects DEF StoreRelease, At
    <3>2. t \notin overdue' => Knows(w, t)'
      BY <2>1, <2>2, <3>1 DEF Knows, Moved
    <3> QED
      BY <2>1, <3>1, <3>2, OwnStepKeepsDevices DEF Moved, Scans
  <2>4. CASE ResetFailures(w, t)
    <3>1. /\ Moved(w, "advance") /\ scan'[w].oldest = scan[w].oldest /\ scan[w].at = "reset"
      BY <2>4, GotoEffect DEF ResetFailures, At
    <3>2. /\ \A u \in Task \ {t} : device'[u] = device[u]
          /\ device'[t].failures = 0
          /\ device'[t].bootstrapped = device[t].bootstrapped
          /\ device'[t].track = device[t].track
      BY <2>4, DeviceEffects
    <3>3. t \notin overdue' => Knows(w, t)'
      BY <2>1, <2>2, <3>1, <3>2 DEF Knows, Moved
    <3> QED
      BY <2>1, <3>1, <3>2, <3>3, OwnStepKeepsDevices DEF Moved, Scans
  <2>5. CASE AdvanceTrack(w, t)
    <3>1. /\ Moved(w, IF scan[w].isNew THEN "announce" ELSE "complete")
          /\ scan[w].at = "advance"
      BY <2>5, GotoEffect DEF AdvanceTrack, At
    <3>2. /\ \A u \in Task \ {t} : device'[u] = device[u]
          /\ device'[t].failures = device[t].failures
      BY <2>5, DeviceEffects
    <3>3. t \notin overdue' => Knows(w, t)'
      BY <2>1, <2>2, <3>1, <3>2 DEF Knows, Moved
    <3> QED
      BY <2>1, <3>1, <3>2, <3>3, OwnStepKeepsDevices DEF Moved, Scans
  <2>6. CASE Announce(w, t)
    <3>1. Moved(w, "complete") /\ device' = device /\ scan[w].at = "announce"
      BY <2>6, GotoEffect DEF Announce, At
    <3>2. t \notin overdue' => Knows(w, t)'
      BY <2>1, <2>2, <3>1 DEF Knows, Moved
    <3> QED
      BY <2>1, <3>1, <3>2, OwnStepKeepsDevices DEF Moved, Scans
  <2> QED
    BY <1>10, <2>3, <2>4, <2>5, <2>6
<1>11. ASSUME NEW w \in Thread, NEW t \in Task,
              FinishCompleting(w, t) \/ FinishFailing(w, t)
       PROVE  FreshDevices'
  <2>1. /\ device' = device /\ thread[w].task = t
        /\ Scans(w, t)
    BY <1>11, TaskAssumption DEF FinishCompleting, FinishFailing, CommitComplete, WriteFailure,
                                 Holds, Agree, Scans, store
  <2>2. CASE Rested(w)
    <3>1. scan'[w].task = NoTask /\ t # NoTask /\ OthersStay(w)
      BY <2>2, TaskAssumption DEF Rested, Resting
    <3> QED
      BY <2>1, <3>1, OwnStepKeepsDevices
  <2>3. CASE FinishCompleting(w, t) /\ Moved(w, "clear")
    <3>1. task'[t].status = "completed"
      <4>1. task'[t] = [task[t] EXCEPT !.status = "completed",
                                       !.foundNew = thread[w].foundNew]
        BY <2>3 DEF FinishCompleting, CommitComplete, TypeOK
      <4> QED
        BY <4>1 DEF TypeOK, TaskRow
    <3>2. Knows(w, t)'
      BY <2>3, <3>1 DEF Knows, Moved
    <3> QED
      BY <2>1, <2>3, <3>2, OwnStepKeepsDevices DEF Moved, Scans
  <2>4. CASE FinishFailing(w, t) /\ Moved(w, "strike") /\ ~thread[w].retry
    <3>1. task'[t].status = "failed"
      BY <2>4 DEF FinishFailing, WriteFailure, TypeOK, TaskRow
    <3>2. Knows(w, t)'
      BY <2>4, <3>1 DEF Knows, Moved
    <3> QED
      BY <2>1, <2>4, <3>2, OwnStepKeepsDevices DEF Moved, Scans
  <2> QED
    BY <1>11, <2>2, <2>3, <2>4, RestEffect, GotoEffect DEF FinishCompleting, FinishFailing
<1>12. ASSUME NEW w \in Thread, NEW t \in Task, ReadFailures(w, t)
       PROVE  FreshDevices'
  <2>1. /\ Scans(w, t) /\ UNCHANGED <<device, task>> /\ scan[w].at = "strike"
        /\ Moved(w, "writeStrike") /\ scan'[w].failures = device[t].failures
    BY <1>12, StoreEffects DEF ReadFailures, At, Scans, vars, store
  <2>2. t \in overdue \/ task[t].status = "failed"
    BY <1>8, <2>1 DEF Knows
  <2> QED
    BY <1>7, <2>1, <2>2
<1>13. ASSUME NEW w \in Thread, NEW t \in Task, ClearFailures(w, t) \/ WriteFailures(w, t)
       PROVE  FreshDevices'
  <2>1. Scans(w, t) /\ Rested(w)
    BY <1>13, RestEffect DEF ClearFailures, WriteFailures, At, Scans
  <2>2. \A u \in Task \ {t} : device'[u] = device[u]
    BY <1>13, DeviceEffects
  <2> QED
    BY <2>1, <2>2, OwnStepKeepsDevices, TaskAssumption DEF Rested, Resting, Scans
<1>14. ASSUME NEW w \in Thread,
              FindQueueEmpty(w) \/ \E t \in Task : StartCompleting(w, t) \/ StartFailing(w, t)
       PROVE  FreshDevices'
  BY <1>1, <1>14 DEF FindQueueEmpty, StartCompleting, StartFailing, store
<1> QED
  BY <1>2, <1>3, <1>4, <1>5, <1>6, <1>9, <1>10, <1>11, <1>12, <1>13, <1>14
  DEF ScannerNext, ScanStep

LEMMA FreshDevicesInvariant == ScannerSpec => []FreshDevices
<1>1. ScannerInit => FreshDevices
  BY TaskAssumption DEF ScannerInit, Resting, FreshDevices, FreshDevice, Scans
<1> QED
  BY <1>1, ScannerInvariant, FreshDevicesStep, PTL DEF ScannerSpec

-----------------------------------------------------------------------------
(* How a step changes the columns of a device. *)
LEMMA DeviceChanges ==
  ASSUME ScanTyped, [ScannerNext]_scannerVars, NEW t \in Task, device'[t] # device[t]
  PROVE  \E w \in Thread :
           \/ ResetFailures(w, t) \/ ClearFailures(w, t)
           \/ AdvanceTrack(w, t) \/ WriteFailures(w, t)
<1>1. device' # device
  OBVIOUS
<1>2. ASSUME NEW w \in Thread, ScanStep(w)
      PROVE  \E u \in Task :
               \/ ResetFailures(w, u) \/ ClearFailures(w, u)
               \/ AdvanceTrack(w, u) \/ WriteFailures(w, u)
  <2>1. ASSUME NEW u \in Task,
               \/ FetchDevice(w, u) \/ RejectDevice(w, u) \/ QueryNothing(w, u)
               \/ \E r \in Release : QueryRelease(w, u, r)
               \/ \E upstream \in BOOLEAN : QueryFails(w, u, upstream)
               \/ ClaimTask(w, u) \/ ReadFailures(w, u)
        PROVE  FALSE
    BY <1>1, <2>1 DEF FetchDevice, RejectDevice, QueryNothing, QueryRelease, QueryFails,
                      ClaimTask, ReadFailures, store
  <2>2. ASSUME NEW u \in Task,
               \/ StoreRelease(w, u) \/ Announce(w, u) \/ StartCompleting(w, u)
               \/ StartFailing(w, u) \/ FinishCompleting(w, u) \/ FinishFailing(w, u)
        PROVE  FALSE
    BY <1>1, <2>2 DEF StoreRelease, Announce, StartCompleting, StartFailing,
                      FinishCompleting, FinishFailing, store
  <2>3. ~FindQueueEmpty(w)
    BY <1>1 DEF FindQueueEmpty, store
  <2> QED
    BY <1>2, <2>1, <2>2, <2>3 DEF ScanStep
<1>3. PICK w \in Thread : ScanStep(w)
  BY <1>1 DEF ScannerNext, RunStep, ThreadEnds, ProcessCrashes, ManualQuery, scannerVars, store
<1>4. PICK u \in Task : \/ ResetFailures(w, u) \/ ClearFailures(w, u)
                        \/ AdvanceTrack(w, u) \/ WriteFailures(w, u)
  BY <1>2, <1>3
<1>5. u = t
  BY <1>4, DeviceEffects
<1> QED
  BY <1>4, <1>5

(* A failure is counted once for a task that failed for good, however         *)
(* many attempts it took and whoever else writes to the row: the read and the *)
(* write of record_scan_failure are not separated by another thread while the *)
(* task is younger than 15 minutes.                                           *)
THEOREM OneStrike == ScannerSpec => OneStrikePerFailedTask
<1> DEFINE Strikes == \A t \in Task \ overdue' :
                        device'[t].failures > device[t].failures =>
                          /\ task[t].status = "failed"
                          /\ device'[t].failures = device[t].failures + 1
<1>1. QueueInv /\ ScanTyped /\ FreshDevices /\ [ScannerNext]_scannerVars => Strikes
  <2> SUFFICES ASSUME QueueInv, ScanTyped, FreshDevices, [ScannerNext]_scannerVars,
                      NEW t \in Task \ overdue', device'[t].failures > device[t].failures
               PROVE  /\ task[t].status = "failed"
                      /\ device'[t].failures = device[t].failures + 1
    OBVIOUS
  <2>1. device[t].failures \in Nat
    BY DEF ScanTyped, DeviceRow
  <2>2. PICK w \in Thread : \/ ResetFailures(w, t) \/ ClearFailures(w, t)
                            \/ AdvanceTrack(w, t) \/ WriteFailures(w, t)
    BY <2>1, DeviceChanges
  <2>3. WriteFailures(w, t) /\ device'[t].failures = scan[w].failures + 1
    BY <2>1, <2>2, DeviceEffects
  <2>4. t \notin overdue
    BY FreshFrame
  <2>5. Knows(w, t) /\ scan[w].at = "writeStrike"
    BY <2>3, <2>4 DEF WriteFailures, At, FreshDevices, FreshDevice, Scans
  <2> QED
    BY <2>3, <2>5 DEF Knows
<1> QED
  BY <1>1, ScannerInvariant, FreshDevicesInvariant, PTL DEF ScannerSpec, OneStrikePerFailedTask

(* The active track of a bootstrapped device only moves to newer tracks: the  *)
(* track that is stored was scanned, and the scan started at the active one,  *)
(* which no other thread has moved since.                                     *)
THEOREM TrackIsMonotonic == ScannerSpec => TrackNeverGoesBack
<1> DEFINE Advances == \A t \in Task \ overdue' :
                         device[t].bootstrapped => device'[t].track >= device[t].track
<1>1. QueueInv /\ ScanTyped /\ LocalOK /\ FreshDevices /\ [ScannerNext]_scannerVars => Advances
  <2> SUFFICES ASSUME QueueInv, ScanTyped, LocalOK, FreshDevices, [ScannerNext]_scannerVars,
                      NEW t \in Task \ overdue', device[t].bootstrapped
               PROVE  device'[t].track >= device[t].track
    OBVIOUS
  <2>1. device[t].track \in Track
    BY DEF ScanTyped, DeviceRow
  <2>2. ASSUME NEW w \in Thread, AdvanceTrack(w, t)
        PROVE  device'[t].track >= device[t].track
    <3>1. scan[w].at = "advance" /\ scan[w].release \in Release /\ scan[w].oldest \in Track
      BY <2>2 DEF AdvanceTrack, At, ScanTyped, ScanState
    <3>2. TrackOf[scan[w].release] >= scan[w].oldest /\ TrackOf[scan[w].release] \in Track
      BY <3>1, ReleaseAssumption DEF LocalOK, Local
    <3>3. scan[w].oldest >= device[t].track
      <4>1. t \notin overdue
        BY FreshFrame
      <4> QED
        BY <2>2, <3>1, <4>1 DEF AdvanceTrack, At, FreshDevices, FreshDevice, Scans, Knows
    <3> QED
      BY <2>1, <2>2, <3>1, <3>2, <3>3, DeviceEffects DEF Track
  <2>3. ASSUME NEW w \in Thread,
               ResetFailures(w, t) \/ ClearFailures(w, t) \/ WriteFailures(w, t)
        PROVE  device'[t].track >= device[t].track
    BY <2>1, <2>3, DeviceEffects DEF Track
  <2>4. CASE device'[t] = device[t]
    BY <2>1, <2>4 DEF Track
  <2> QED
    BY <2>2, <2>3, <2>4, DeviceChanges
<1> QED
  BY <1>1, ScannerInvariant, FreshDevicesInvariant, PTL DEF ScannerSpec, TrackNeverGoesBack

-----------------------------------------------------------------------------
(* A completed task has cleared the failures of its device, or its thread is  *)
(* about to: a release was stored and the counter reset before the task was   *)
(* completed, or nothing was found and the reset comes after it.              *)
ClearsFailures ==
  faults = 0 =>
    \A t \in Task \ overdue :
      task[t].status = "completed" =>
        device[t].failures = 0 \/ \E w \in Thread : At(w, t, "clear")

LEMMA ClearsStep ==
  ASSUME QueueInv, ScanTyped, Agree, LocalOK, FreshDevices, ClearsFailures,
         [ScannerNext]_scannerVars
  PROVE  ClearsFailures'
<1> SUFFICES ASSUME faults' = 0, NEW t \in Task \ overdue', task'[t].status = "completed"
             PROVE  device'[t].failures = 0 \/ \E w \in Thread : At(w, t, "clear")'
  BY DEF ClearsFailures
<1> USE DEF QueueInv
<1>1. t \notin overdue
  BY FreshFrame
<1>2. faults = 0
  <2>1. faults \in Nat
    BY NumberAssumption DEF TypeOK
  <2>2. faults' = faults \/ faults' = faults + 1
    <3>1. [Next]_vars
      BY QueueStep
    <3> QED
      BY <3>1
      DEF Next, ThreadStep, RunnerStep, ClaimNone, Claim, BeginComplete, CommitComplete,
          ReadAttempts, WriteFailure, ThreadDies, CreateScheduledRun, EnqueueAdminRun,
          CreateRun, StartRun, CreateTask, RespondEnqueued, Judge, CountTasks, FinishRun,
          RaiseFromThread, Crash, GoOverdue, vars
  <2> QED
    BY <2>1, <2>2
<1>3. ASSUME NEW w \in Thread, FinishCompleting(w, t)
      PROVE  device'[t].failures = 0 \/ At(w, t, "clear")'
  <2>1. scan[w].task = t /\ scan[w].at = "complete" /\ device' = device
    BY <1>3 DEF FinishCompleting, At
  <2>2. CASE scan[w].release = NoRelease
    BY <1>3, <2>1, <2>2, GotoEffect DEF FinishCompleting, Moved, At
  <2>3. CASE scan[w].release # NoRelease
    <3>1. Knows(w, t)
      BY <1>1, <2>1 DEF FreshDevices, FreshDevice, Scans
    <3> QED
      BY <2>1, <2>3, <3>1 DEF Knows
  <2> QED
    BY <2>2, <2>3
<1>4. ASSUME task'[t] = task[t]
      PROVE  device'[t].failures = 0 \/ \E w \in Thread : At(w, t, "clear")'
  <2>1. device[t].failures = 0 \/ \E w \in Thread : At(w, t, "clear")
    BY <1>1, <1>2, <1>4 DEF ClearsFailures
  <2>2. ASSUME NEW w \in Thread, WriteFailures(w, t)
        PROVE  FALSE
    <3>1. Knows(w, t) /\ scan[w].at = "writeStrike"
      BY <1>1, <2>2 DEF WriteFailures, At, FreshDevices, FreshDevice, Scans
    <3> QED
      BY <1>4, <3>1 DEF Knows
  <2>3. CASE device[t].failures = 0
    <3>1. CASE device'[t] = device[t]
      BY <2>3, <3>1
    <3>2. CASE device'[t] # device[t]
      BY <2>2, <2>3, <3>2, DeviceChanges, DeviceEffects
    <3> QED
      BY <3>1, <3>2
  <2>4. ASSUME NEW w \in Thread, At(w, t, "clear")
        PROVE  device'[t].failures = 0 \/ At(w, t, "clear")'
    <3>1. CASE scan'[w] = scan[w]
      BY <2>4, <3>1 DEF At
    <3>2. CASE ClearFailures(w, t)
      BY <3>2, DeviceEffects
    <3>3. scan'[w] = scan[w] \/ ClearFailures(w, t)
      <4>1. ASSUME NEW v \in Thread, ScanStep(v)
            PROVE  scan'[w] = scan[w] \/ ClearFailures(w, t)
        <5>1. ASSUME v # w
              PROVE  scan'[w] = scan[w]
          BY <4>1, <5>1 DEF ScanStep, FindQueueEmpty, ClaimTask, FetchDevice, RejectDevice,
             QueryRelease, QueryNothing, QueryFails, StoreRelease, ResetFailures, AdvanceTrack,
             Announce, StartCompleting, FinishCompleting, ClearFailures, StartFailing,
             FinishFailing, ReadFailures, WriteFailures, Goto, Rest, ScanTyped
        <5>2. ASSUME v = w
              PROVE  scan'[w] = scan[w] \/ ClearFailures(w, t)
          BY <2>4, <4>1, <5>2 DEF ScanStep, FindQueueEmpty, ClaimTask, FetchDevice,
             RejectDevice, QueryRelease, QueryNothing, QueryFails, StoreRelease, ResetFailures,
             AdvanceTrack, Announce, StartCompleting, FinishCompleting, ClearFailures,
             StartFailing, FinishFailing, ReadFailures, WriteFailures, At
        <5> QED
          BY <5>1, <5>2
      <4>2. ASSUME NEW v \in Thread
            PROVE  ~ThreadEnds(v)
        BY <1>2 DEF ThreadEnds, ThreadDies
      <4>3. ASSUME NEW p \in Process
            PROVE  ~ProcessCrashes(p)
        BY <1>2 DEF ProcessCrashes, Crash
      <4> QED
        BY <4>1, <4>2, <4>3 DEF ScannerNext, RunStep, ManualQuery, scannerVars
    <3> QED
      BY <3>1, <3>2, <3>3
  <2> QED
    BY <2>1, <2>3, <2>4
<1> QED
  BY <1>3, <1>4, TaskChanges

(* When nothing crashed, a device whose task completed within 15 minutes has  *)
(* no consecutive failures once its thread is done, whatever failed before    *)
(* and with any number of threads.                                            *)
THEOREM CompletedDeviceIsHealthy == ScannerSpec => []HealthFollowsOutcome
<1>1. ScannerInit => ClearsFailures
  BY DEF ScannerInit, Init, ClearsFailures
<1>2. ClearsFailures => HealthFollowsOutcome
  BY DEF ClearsFailures, HealthFollowsOutcome, At
<1> QED
  BY <1>1, <1>2, ScannerInvariant, FreshDevicesInvariant, ClearsStep, PTL DEF ScannerSpec
=============================================================================
