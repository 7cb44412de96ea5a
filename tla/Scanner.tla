------------------------------- MODULE Scanner -------------------------------
(***************************************************************************)
(* ScannerService: what a thread does with the device of the task it has   *)
(* claimed.  The module extends the queue of ScanQueue: each of its steps  *)
(* is one repository call of _process_task or _handle_provider_failure,    *)
(* and those on scan_tasks are the steps of ScanQueue, taken in the order  *)
(* the code takes them.  Provider queries change no shared state, so the   *)
(* loop over the tracks, with the timeout retry inside it, is one step     *)
(* with its possible outcomes.                                             *)
(***************************************************************************)
EXTENDS ScanQueue

CONSTANTS
  Release,          \* releases the provider can answer with
  DeviceOf,         \* DeviceOf[r]: the task whose device r is for
  TrackOf,          \* TrackOf[r]: the OTA track r is found on
  Routed,           \* releases whose brand has an enabled Telegram target
  NoRelease,        \* no release was found
  ArchiveThreshold, \* failure_archive_threshold
  Legacy            \* tasks whose device is_legacy_oneplus_scan_candidate

(* SUPPORTED_TRACKS: A, C, F, H by their index. *)
Track == 0..3

ASSUME ReleaseAssumption ==
  /\ DeviceOf \in [Release -> Task]
  /\ TrackOf \in [Release -> Track]
  /\ Routed \subseteq Release
  /\ NoRelease \notin Release
  /\ ArchiveThreshold \in Nat \ {0}
  /\ Legacy \subseteq Task

VARIABLES
  scan,      \* where each thread is in _process_task, and its local variables
  device,    \* devices: the columns a scan reads and writes
  found,     \* scan_tasks.found_release_id
  origin,    \* ota_releases: discovered_by of each stored release
  notified   \* releases with a telegram_notifications row

store == <<device, found, origin, notified>>
scannerVars == <<vars, scan, store>>

DeviceRow ==
  [failures: Nat, enabled: BOOLEAN, bootstrapped: BOOLEAN, track: Track]

(***************************************************************************)
(* `oldest' is the lowest track of tracks_for_device, `release' and `isNew'*)
(* are the result of the upsert, `upstream' says that the error code is    *)
(* UPSTREAM_ERROR or UPSTREAM_TIMEOUT, and `failures' is the counter that  *)
(* record_scan_failure has read and is about to write back incremented.    *)
(***************************************************************************)
ScanState ==
  [at: {"none", "fetch", "query", "store", "reset", "advance", "announce",
        "complete", "clear", "fail", "reject", "strike", "writeStrike"},
   task: Task \cup {NoTask}, oldest: Track, release: Release \cup {NoRelease},
   isNew: BOOLEAN, upstream: BOOLEAN, failures: Nat]

Resting ==
  [at |-> "none", task |-> NoTask, oldest |-> 0, release |-> NoRelease,
   isNew |-> FALSE, upstream |-> FALSE, failures |-> 0]

(* A scan-capable device that may have failed before. *)
ScanCapable ==
  [failures: 0..ArchiveThreshold - 1, enabled: {TRUE}, bootstrapped: BOOLEAN, track: Track]

ScannerInit ==
  /\ Init
  /\ scan = [w \in Thread |-> Resting]
  /\ device \in [Task -> ScanCapable]
  /\ found = [t \in Task |-> NoRelease]
  /\ origin = [r \in Release |-> "none"]
  /\ notified = {}

-----------------------------------------------------------------------------
(* Faulty variant: every scan starts from the oldest track. *)
OldestTrackAlways(t) == 0

(* tracks_for_device: every track until the bootstrap is done, then the    *)
(* active track and the newer ones.                                        *)
OldestTrack(t) == IF device[t].bootstrapped THEN device[t].track ELSE 0

At(w, t, at) == scan[w].task = t /\ scan[w].at = at

Goto(w, at) == scan' = [scan EXCEPT ![w].at = at]

Rest(w) == scan' = [scan EXCEPT ![w] = Resting]

-----------------------------------------------------------------------------
(* run_existing_scan and _drain_queue. *)

ClaimTask(w, t) ==
  /\ scan[w].at = "none"
  /\ Claim(w, t)
  /\ scan' = [scan EXCEPT ![w] = [Resting EXCEPT !.at = "fetch", !.task = t]]
  /\ UNCHANGED store

FindQueueEmpty(w) ==
  /\ scan[w].at = "none"
  /\ ClaimNone(w)
  /\ UNCHANGED <<scan, store>>

(* _process_task: get_by_id, and the model and manifest normalise. *)
FetchDevice(w, t) ==
  /\ At(w, t, "fetch")
  /\ scan' = [scan EXCEPT ![w] = [@ EXCEPT !.at = "query", !.oldest = OldestTrack(t)]]
  /\ UNCHANGED <<vars, store>>

(* The device is gone, or its model or manifest no longer validates. *)
RejectDevice(w, t) ==
  /\ At(w, t, "fetch")
  /\ Goto(w, "reject")
  /\ UNCHANGED <<vars, store>>

(***************************************************************************)
(* The loop over the tracks, newest first.  It ends with the first release;*)
(* after OtaNotFoundError on every track there is none; a timeout that was *)
(* retried, an unavailable provider or an answer that does not decrypt ends*)
(* it too.                                                                 *)
(***************************************************************************)
QueryRelease(w, t, r) ==
  /\ At(w, t, "query")
  /\ DeviceOf[r] = t
  /\ TrackOf[r] >= scan[w].oldest
  /\ scan' = [scan EXCEPT ![w] = [@ EXCEPT !.at = "store", !.release = r]]
  /\ UNCHANGED <<vars, store>>

QueryNothing(w, t) ==
  /\ At(w, t, "query")
  /\ Goto(w, "complete")
  /\ UNCHANGED <<vars, store>>

QueryFails(w, t, upstream) ==
  /\ At(w, t, "query")
  /\ scan' = [scan EXCEPT ![w] = [@ EXCEPT !.at = "fail", !.upstream = upstream]]
  /\ UNCHANGED <<vars, store>>

-----------------------------------------------------------------------------
(* A release was found. *)

(* Faulty variant: a bootstrap scan does not count as a discovery. *)
StoreReleaseQuietly(w, t) ==
  /\ At(w, t, "store")
  /\ LET r == scan[w].release
         isNew == origin[r] = "none"
     IN  /\ origin' = IF isNew THEN [origin EXCEPT ![r] = "worker"] ELSE origin
         /\ scan' = [scan EXCEPT ![w] =
                        [@ EXCEPT !.at = "reset", !.isNew = isNew /\ device[t].bootstrapped]]
  /\ UNCHANGED <<vars, device, found, notified>>

(* Faulty variant: a release only a manual query has stored counts as new. *)
StoreReleaseOfOthers(w, t) ==
  /\ At(w, t, "store")
  /\ LET r == scan[w].release
         isNew == origin[r] # "worker"
     IN  /\ origin' = IF origin[r] = "none" THEN [origin EXCEPT ![r] = "worker"] ELSE origin
         /\ scan' = [scan EXCEPT ![w] = [@ EXCEPT !.at = "reset", !.isNew = isNew]]
  /\ UNCHANGED <<vars, device, found, notified>>

(* upsert_release(discovered_by="worker"). *)
StoreRelease(w, t) ==
  /\ At(w, t, "store")
  /\ LET r == scan[w].release
         isNew == origin[r] = "none"
     IN  /\ origin' = IF isNew THEN [origin EXCEPT ![r] = "worker"] ELSE origin
         /\ scan' = [scan EXCEPT ![w] = [@ EXCEPT !.at = "reset", !.isNew = isNew]]
  /\ UNCHANGED <<vars, device, found, notified>>

(* record_scan_success. *)
ResetFailures(w, t) ==
  /\ At(w, t, "reset")
  /\ device' = [device EXCEPT ![t].failures = 0]
  /\ Goto(w, "advance")
  /\ UNCHANGED <<vars, found, origin, notified>>

(* Faulty variant: completes first and announces never. *)
AdvanceTrackQuietly(w, t) ==
  /\ At(w, t, "advance")
  /\ device' = [device EXCEPT ![t] =
                  [@ EXCEPT !.bootstrapped = TRUE, !.track = TrackOf[scan[w].release]]]
  /\ Goto(w, "complete")
  /\ UNCHANGED <<vars, found, origin, notified>>

(* update_scan_state. *)
AdvanceTrack(w, t) ==
  /\ At(w, t, "advance")
  /\ device' = [device EXCEPT ![t] =
                  [@ EXCEPT !.bootstrapped = TRUE, !.track = TrackOf[scan[w].release]]]
  /\ Goto(w, IF scan[w].isNew THEN "announce" ELSE "complete")
  /\ UNCHANGED <<vars, found, origin, notified>>

(* Faulty variant: does not ask for the target. *)
AnnounceAnyway(w, t) ==
  /\ At(w, t, "announce")
  /\ notified' = notified \cup {scan[w].release}
  /\ Goto(w, "complete")
  /\ UNCHANGED <<vars, device, found, origin>>

(* get_target_for_brand, then enqueue_notification if there is a target. *)
Announce(w, t) ==
  /\ At(w, t, "announce")
  /\ notified' = notified \cup ({scan[w].release} \cap Routed)
  /\ Goto(w, "complete")
  /\ UNCHANGED <<vars, device, found, origin>>

-----------------------------------------------------------------------------
(* The outcome is written to the task. *)

StartCompleting(w, t) ==
  /\ At(w, t, "complete")
  /\ BeginComplete(w, t, scan[w].isNew)
  /\ UNCHANGED <<scan, store>>

(* A task without a release is completed before record_scan_success. *)
FinishCompleting(w, t) ==
  /\ At(w, t, "complete")
  /\ CommitComplete(w, t)
  /\ found' = [found EXCEPT ![t] = scan[w].release]
  /\ IF scan[w].release = NoRelease THEN Goto(w, "clear") ELSE Rest(w)
  /\ UNCHANGED <<device, origin, notified>>

(* Faulty variant: a scan that found nothing leaves the failures standing. *)
ClearFailuresNot(w, t) ==
  /\ At(w, t, "clear")
  /\ Rest(w)
  /\ UNCHANGED <<vars, store>>

ClearFailures(w, t) ==
  /\ At(w, t, "clear")
  /\ device' = [device EXCEPT ![t].failures = 0]
  /\ Rest(w)
  /\ UNCHANGED <<vars, found, origin, notified>>

(* fail_task: only upstream errors are retryable. *)
StartFailing(w, t) ==
  /\ scan[w].at \in {"fail", "reject"}
  /\ ReadAttempts(w, t, scan[w].upstream)
  /\ UNCHANGED <<scan, store>>

(* Faulty variant: every failed attempt counts against the device. *)
FinishFailingAlwaysStriking(w, t) ==
  /\ scan[w].at \in {"fail", "reject"}
  /\ WriteFailure(w, t)
  /\ IF scan[w].at = "fail" THEN Goto(w, "strike") ELSE Rest(w)
  /\ UNCHANGED store

(* _handle_provider_failure goes on when the task ended up failed. *)
FinishFailing(w, t) ==
  /\ scan[w].at \in {"fail", "reject"}
  /\ WriteFailure(w, t)
  /\ IF scan[w].at = "fail" /\ ~thread[w].retry THEN Goto(w, "strike") ELSE Rest(w)
  /\ UNCHANGED store

(* record_scan_failure reads the device ... *)
ReadFailures(w, t) ==
  /\ At(w, t, "strike")
  /\ scan' = [scan EXCEPT ![w] =
                [@ EXCEPT !.at = "writeStrike", !.failures = device[t].failures]]
  /\ UNCHANGED <<vars, store>>

(* ... and writes the counter, and archives a legacy OnePlus model that     *)
(* reached the threshold.                                                   *)
WriteFailures(w, t) ==
  /\ At(w, t, "writeStrike")
  /\ LET failures == scan[w].failures + 1
         archive == failures >= ArchiveThreshold /\ scan[w].upstream /\ t \in Legacy
     IN  device' = [device EXCEPT ![t] =
                       [@ EXCEPT !.failures = failures, !.enabled = device[t].enabled /\ ~archive]]
  /\ Rest(w)
  /\ UNCHANGED <<vars, found, origin, notified>>

-----------------------------------------------------------------------------
(* The environment of the threads. *)

(* run_manual_query in the web process stores a release on its own account. *)
ManualQuery(r) ==
  /\ origin[r] = "none"
  /\ origin' = [origin EXCEPT ![r] = "manual"]
  /\ UNCHANGED <<vars, scan, device, found, notified>>

(* A thread that ends loses its local variables. *)
ThreadEnds(w) ==
  /\ ThreadDies(w)
  /\ Rest(w)
  /\ UNCHANGED store

ProcessCrashes(p) ==
  /\ Crash(p)
  /\ scan' = [w \in Thread |-> IF Owner[w] = p THEN Resting ELSE scan[w]]
  /\ UNCHANGED store

(***************************************************************************)
(* The steps of the run and of time do not touch the devices.  create_task *)
(* inserts the task of a scan-capable device only: _devices_for_cycle_day  *)
(* selects them.                                                           *)
(***************************************************************************)
RunStep ==
  /\ \/ \E p \in Process : CreateScheduledRun(p) \/ EnqueueAdminRun(p)
                           \/ StartRun(p) \/ RunnerStep(p)
     \/ \E t \in Task : GoOverdue(t)
  /\ UNCHANGED <<scan, store>>

ScanStep(w) ==
  \/ FindQueueEmpty(w)
  \/ \E t \in Task :
       \/ ClaimTask(w, t)
       \/ FetchDevice(w, t) \/ RejectDevice(w, t)
       \/ \E r \in Release : QueryRelease(w, t, r)
       \/ QueryNothing(w, t)
       \/ \E upstream \in BOOLEAN : QueryFails(w, t, upstream)
       \/ StoreRelease(w, t) \/ ResetFailures(w, t) \/ AdvanceTrack(w, t) \/ Announce(w, t)
       \/ StartCompleting(w, t) \/ FinishCompleting(w, t) \/ ClearFailures(w, t)
       \/ StartFailing(w, t) \/ FinishFailing(w, t)
       \/ ReadFailures(w, t) \/ WriteFailures(w, t)

ScannerNext ==
  \/ RunStep
  \/ \E w \in Thread : ScanStep(w) \/ ThreadEnds(w)
  \/ \E p \in Process : ProcessCrashes(p)
  \/ \E r \in Release : ManualQuery(r)

ScannerSpec == ScannerInit /\ [][ScannerNext]_scannerVars

-----------------------------------------------------------------------------
(* Properties. *)

(* The columns and local variables keep their shape: a thread that stores,    *)
(* advances or announces has a release, only releases with a target are       *)
(* announced, and a thread scans the task it holds in the queue; after its    *)
(* last write to the task it may still be busy with the device.               *)
ScannerTypeOK ==
  /\ scan \in [Thread -> ScanState]
  /\ device \in [Task -> DeviceRow]
  /\ found \in [Task -> Release \cup {NoRelease}]
  /\ origin \in [Release -> {"none", "worker", "manual"}]
  /\ notified \subseteq Routed
  /\ \A w \in Thread :
       scan[w].at \in {"store", "reset", "advance", "announce"} => scan[w].release # NoRelease
  /\ \A w \in Thread :
       thread[w].task # NoTask => scan[w].task = thread[w].task

(* A task that reports a new release has its notification in the queue: the   *)
(* code enqueues before it completes, so not even a crash in between, nor a   *)
(* second worker on the same task, leaves a reported release unannounced.     *)
ReportedReleaseIsAnnounced ==
  \A t \in Task :
    task[t].status = "completed" /\ task[t].foundNew /\ found[t] \in Routed =>
      found[t] \in notified

Announces(w, r) ==
  /\ scan[w].release = r /\ scan[w].isNew
  /\ scan[w].at \in {"reset", "advance", "announce"}

Announcing(r) == \E w \in Thread : Announces(w, r)

(* Of all threads that find the same release, also when two of them process   *)
(* the same overdue task, exactly one is told that it is new, and that one    *)
(* announces it: nothing the worker inserted stays unannounced as long as     *)
(* nothing crashes.                                                           *)
DiscoveryIsAnnounced ==
  faults = 0 =>
    \A r \in Routed : origin[r] = "worker" => r \in notified \/ Announcing(r)

(* The counterpart, which holds through crashes, restarts and overdue tasks:  *)
(* a notification is only ever for a release that the worker was the first to *)
(* store.  At most one thread is told so, and it is told before the row of    *)
(* the notification exists: a release stored by a manual query stays silent,  *)
(* and a task scanned again announces nothing a second time.                  *)
OnlyDiscoveriesAreAnnounced ==
  \A r \in Release :
    /\ r \in notified \/ Announcing(r) => origin[r] = "worker"
    /\ r \in notified => ~Announcing(r)
    /\ \A v, w \in Thread : Announces(v, r) /\ Announces(w, r) => v = w

(* As above, but also across a restart of the worker: once the run is         *)
(* finished, every release it inserted has a notification.                    *)
FinishedRunAnnouncedAll ==
  run.status = "completed" /\ Settled /\ (\A w \in Thread : scan[w].at = "none") =>
    \A r \in Routed : origin[r] = "worker" => r \in notified

(* record_scan_success and record_scan_failure follow the outcome of the      *)
(* task: while it is younger than 15 minutes, a completed task leaves its     *)
(* device without consecutive failures once its thread has moved on.          *)
HealthFollowsOutcome ==
  faults = 0 =>
    \A t \in Task \ overdue :
      task[t].status = "completed" /\ (\A w \in Thread : scan[w].task # t) =>
        device[t].failures = 0

(* A device is charged at most one failure at a time, and only for a task     *)
(* that has failed for good: a retried attempt, or a read-modify-write of     *)
(* record_scan_failure by two threads, never adds to the count while the task *)
(* is younger than 15 minutes.                                                *)
OneStrikePerFailedTask ==
  [][\A t \in Task \ overdue' :
       device'[t].failures > device[t].failures =>
         /\ task[t].status = "failed"
         /\ device'[t].failures = device[t].failures + 1]_scannerVars

(* The track a recurring scan starts from never goes back: a thread only      *)
(* stores a track it scanned, and it scanned none below the active one.       *)
TrackNeverGoesBack ==
  [][\A t \in Task \ overdue' :
       device[t].bootstrapped => device'[t].track >= device[t].track]_scannerVars

=============================================================================
