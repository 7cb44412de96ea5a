# Verification of the OPlus OTA backend

TLA+ specifications of the parts of `ota_backend` that keep state and run
concurrently: the scan queue and the scanner, the Telegram outbox, the device
registry with the commands and imports that write it, and the public site with
its quota, cache, provider search and link resolver. TLC checks them on small
instances; TLAPS proves the safety properties, and that the Supabase
queue implements the in-memory one, for any number of tasks, threads, processes,
devices, notifications, requests and catalogue rows.

Paths below are relative to the repository. `tlc -config X.cfg MCModule`
repeats a run, `tlapm XProofs.tla` a proof; `PROJECT.json` lists the runs, the
lines every definition stands for, and the hazards.

## 1. The system

| Component | State | Operations | Interacts through |
|---|---|---|---|
| Scan queue (`repositories/supabase.py`, SQL functions in `supabase/migrations`) | `scan_runs`, `scan_tasks` | create_run, create_task, start_run, claim_scan_task, complete_scan_task, fail_task, finish_run | one Postgres database; RPCs are transactions, other calls single statements |
| In-memory repository (`repositories/memory.py`) | the same tables behind one lock | the same protocol | used in tests and local runs |
| Scanner (`services/scanner.py`, `domain/scanner.py`) | local variables of each thread | run_scheduled_scan, run_existing_scan, _process_task | queue, devices, releases, outbox, provider |
| Devices (`devices` table) | scan switch, eligibility, active track, bootstrap flag, consecutive failures | set_scan_enabled, set_scan_eligibility, record_scan_success, record_scan_failure, update_scan_state, catalogue upserts | written by scanner, operator commands and importers, read page by page by the scheduler |
| Operator commands (`telegram_bot.py`, `services/scan_management.py`, admin routes, `worker.py` options) | the bot's update offset | /scan on, off, on-group, off-group, off-all; the same as routes; eligibility cleanup and archive lists | devices; the chat through getUpdates |
| Catalogue importers (`catalog.py`) | `device_catalog_imports`, local candidates | fetchers and merge, Oxygen, domestic, archive and EDL imports | devices, releases, `edl_roms` |
| Releases (`ota_releases`) | the releases, their source and who discovered them | upsert_ota_release, find_cached_ota_release | written by scanner, manual queries and the archive import, read by the cache |
| Telegram outbox (`services/telegram.py`, `telegram_bot.py`) | `telegram_notifications`, `telegram_targets` | enqueue, claim, complete, fail; poll_forever, --once-delivery | scanner enqueues, bots deliver |
| Public gateway (`services/public_ota.py`, `services/access.py`) | `public_action_requests` | claim_public_action, cache lookup | web routes, release store |
| Provider client (`providers/realme.py`) | none that outlives a call | query: RUIs, upstream models, seed versions | scanner and public site |
| Resolver (`services/resolver.py`) | `resolve_requests`; a DNS cache for each call | resolve: validate, transform, follow redirects | public site; DNS and upstream servers |
| Normalisation, configuration, UI | none | | |

The behaviours that are hard to test:

- A repository method can be several statements (`fail_task`, `finish_run`,
  `record_scan_failure`) or one transaction of several statements that reads
  before it locks (`complete_scan_task`). Threads
  (`SCAN_MAX_CONCURRENCY`), a resumed run and a second process interleave there.
- A claim expires after 15 minutes without asking whether its owner is alive,
  and `started_at` is never refreshed.
- The worker writes release, device, outbox and task in separate calls and may
  stop between any two of them.
- Telegram may accept a message whose answer is lost; the bot may stop after
  sending and before recording it.
- The queue must drain although failures are put back into it, and crashed work
  must be taken up again.
- Imports, commands and scans read rows of `devices`, decide, and write them
  back later; imports write whole rows, in chunks that can fail one by one.
- The bot's offset moves before a command is handled, and is lost when the bot
  stops; Telegram then delivers again.
- A claim of the quota reads its clock when its transaction begins and then
  waits for a lock: rows are not inserted in the order of their stamps.
- Upstream, DNS and redirects answer what they like, and not twice the same.

What makes each component correct:

- Queue: a task is with one thread, its outcome is not undone, the run's
  counts are those of its tasks, every task is settled in the end.
- Scanner: what a task reports as new is announced, exactly one finder is told
  that a release is new and nothing else is announced, device health follows
  the task's outcome, tracks never go back.
- Registry: switch and eligibility agree whoever writes, an import keeps what
  the operator chose, a scheduled run finds each due device once, a command that
  Telegram forgot was carried out.
- Imports: every model once and from its best source, "completed" only if
  everything is stored, no failure without a cause, no record left running.
- Public site: no client exceeds its quota in any hour, a query goes upstream
  once per cooldown, cached answers are the provider's, "not found" is said only
  when everything was asked, only checked hosts are contacted, every request
  ends.
- Outbox: one sender per notification, a bounded number of attempts, "sent" is
  final, repetitions only where a fault hid the delivery, nothing queued is
  forgotten.

## 2. The modules

| Module | Models | Remarks |
|---|---|---|
| `ScanQueue` | the Supabase queue, the threads and the main thread of every process | one step per statement or committed transaction |
| `MemoryScanQueue` | `InMemoryScanRepository` | the abstract specification of the queue: one step per method |
| `QueueRefinement` | the mapping from the first to the second | `HeldTasks`, `CurrentRun` |
| `Scanner` | `ScannerService` on top of `ScanQueue` | one step per repository call; queue steps are those of `ScanQueue` |
| `TelegramDelivery` | outbox rows, SQL functions, bots | |
| `DeviceRegistry` | the table `devices` and its statements; the health a scan writes | one operator per statement |
| `ScanCommands` | the bot's command loop, admin routes, CLI maintenance | what was read is kept in `op` |
| `DeviceSelection` | how a scheduled run pages through the registry | |
| `CatalogFetch` | the fetchers of the domestic catalogue and their merge | |
| `CatalogImport` | the four imports | EXTENDS `DeviceRegistry`, `CatalogFetch` |
| `Operations` | all of these at once | |
| `ActionQuota` | `claim_public_action` | the abstract specification of a site's quota |
| `PublicGateway` | POST /api/ota: cache, claim, answer; other writers of releases | EXTENDS `ActionQuota` |
| `LiveProvider` | the search of the provider client | INSTANCE in `PublicSite` |
| `Resolver` | POST /api/resolve after its claim | INSTANCE in `PublicSite` |
| `PublicSite` | several web processes doing all of it | |
| `MC*` | instances for TLC | |
| `*Proofs` | theorems and proofs | `QueueRefinementProofs` and `ScannerProofs` EXTEND `ScanQueueProofs`, `CatalogProofs` EXTENDS `OperationsProofs`; `PublicSiteProofs` has those of `ActionQuota` and `LiveProvider`, too |
| `FoldLemmas` | what a loop over a list computes | INSTANCE in `OperationsProofs`, `CatalogProofs`, once for each loop |

`Scanner` EXTENDS `ScanQueue`: its actions conjoin queue actions with the
scanner's own variables, so the code that calls the queue is checked against
all the queue's interleavings. The outbox is composed with the scanner at its interface only:
`notified` in `Scanner` is the set of releases with a row, which
`TelegramDelivery.Enqueue` inserts at any time.

### ScanQueue

`task` and `run` are the two tables. `thread[w].at` says between which two
repository calls thread `w` is, with the local variables it carries across:
`retry` is `should_retry`, `count` is `v_new_count`. `runner[p]` is the main
thread of process `p` with `status`, `completed` and `failed` as read so far.

| Action | Code |
|---|---|
| CreateScheduledRun, CreateTask, StartRun | run_scheduled_scan, run_existing_scan |
| EnqueueAdminRun, CreateTask, RespondEnqueued | POST /admin/scan/enqueue |
| Claim, ClaimNone | claim_scan_task (202605270001) |
| BeginComplete, CommitComplete | complete_scan_task (202606270002): the update and the count, then the write to the run and the commit |
| ReadAttempts, WriteFailure | fail_task: the select, then the unconditional update |
| Judge, CountTasks, FinishRun | list_tasks and _run_status, finish_run's listing, finish_run's update |
| RaiseFromThread | future.result() raises; finish_run is not reached |
| ThreadDies, Crash | any exception but a provider error; the process is killed |
| GoOverdue | 15 minutes since the first claim |

A row that an open transaction has updated (`Locked`) is skipped by claims and
makes other writers wait. Read Committed gives a statement the committed rows
and those of its own transaction. A transaction whose client dies is either
committed before (CommitComplete, then ThreadDies) or aborted.

`started_at` only matters to the 15-minute test, so time is the set `overdue`
of tasks that have passed it; `MayGoOverdue` switches it off. The order of the
random task ids is any order.

### Scanner

`scan[w]` is the position in `_process_task` with its locals. A provider query
touches no shared state, so the loop over the tracks, newest first, with the
timeout retry in it, is one step with its three kinds of outcome. `origin` is
`ota_releases.discovered_by`, `found` is `scan_tasks.found_release_id`,
`notified` the releases with a notification, `Routed` those whose brand has an
enabled target. Tracks A, C, F, H are 0..3. `record_scan_failure` is a read and
a write.

### TelegramDelivery

`due` and `stale` stand for the comparisons of `next_attempt_at` and
`last_attempt_at` with the clock. `delivered` counts the messages in the chat,
which the code cannot see. A bot drains the outbox until a delivery returns
False, then polls; any exception other than `TelegramSendError` ends the
process. `StaleTimePasses` waits for a bot that still holds the row: the calls
of a bot have timeouts of seconds, the stale window is 15 minutes.

### DeviceRegistry, ScanCommands, DeviceSelection

`device[d]` has the columns that decide something: stored, manifest (the
manifest code is known), enabled, eligibility, failures. `disturbed` is history:
the rows written since an import began to read. `failing` is
`record_scan_failure` between its read and its write.

| Action | Code |
|---|---|
| SetScanEnabled, SetAllScanEnabled (used by Apply) | set_scan_enabled, set_scan_eligibility and their bulk forms |
| RecordScanSuccess, ReadScanFailure, WriteScanFailure | record_scan_success; record_scan_failure's select and update |
| Accept, CheckModel, CheckListing, Apply | ScanManagementService: set_models looks up one by one, groups and the cleanup list at once, then one write |
| GetUpdates, TakeUpdate, ReplySent, ReplyRefused, BotDies, Restart | poll_forever and its container |
| Request, Respond | admin routes and the worker's maintenance options |
| StartSelection, SelectPage | _devices_for_cycle_day |

`confirmed` is what Telegram has forgotten, `executed` which updates were
carried out. An update whose reply is too long (`Oversized`) ends the process
each time, as the code has it.

### CatalogFetch, CatalogImport, Operations

`fetch` holds the fetcher at work with its pages still out, `gathered` the
candidates so far and `delivered`, history, what the parsed pages contained.
Pages arrive or fail in any order (eight threads). `importer` is the process
with its locals: `work` is what is left to write, `saw` what
`_existing_device_state` read, `highest` the highest track of each model's
releases as they are stored, which may be that of an earlier scan or query
(`Upserted`). Names and the extraction of fields are left out: an entry has the
attributes the filters look at (region, brand, validity).

| Action | Code |
|---|---|
| StartFetch, PageArrives, PageFails, FetcherDone, FetcherFails, ListingIsEmpty, Merge, SeedIsInvalid | the fetchers, the seed file, the overlay of names, _dedupe_candidates |
| Begin, FetchDomestic, FetchRaised, StartImport | a command of catalog.py; start_import |
| ReadPage, WriteChunk | upsert_catalog_devices: the paged read, then chunks of whole rows |
| WriteRoms | upsert_edl_roms |
| EnsureDevice, StoreRelease, WriteTrack, ArchiveDone | import_lsctool_archive |
| OthersStore, ScanWritesTrack | a scan or a manual query stores a release; a scan writes the track it was found on |
| CompleteImport, FailImport, StatementFails, ImporterDies | the try block around each import |

`Operations` runs imports next to scans, commands or what scans and queries
store, commands next to each other, and the selection next to commands and scans; `active`
names the processes of a behaviour, since all of them at once are too many
states for TLC. The proofs hold for all of them at once.

### ActionQuota, PublicGateway, LiveProvider, Resolver, PublicSite

`claims` are the rows of `public_action_requests` in the order of insertion,
`claiming[w]` the call of a web process with the stamp its transaction began
with. `request[w]` is the request it serves, `search[w]` its query of the
provider with the `trail` of answers, `trip[w]` its resolution with the DNS
answers and the contacts so far. `told`, `provided` and `trail` are history.

| Action | Code |
|---|---|
| CallClaim, BeginClaim, Grant, Refuse, ClaimRaises | claim_public_action: call, begin (v_now), then all that happens under the lock |
| Prepare, ClaimSucceeds, ClaimFails, RespondCached, StoreAnswer | PublicOtaService.prepare and the route |
| ScanStores, ArchiveStores | other writers of ota_releases |
| StartSearch, Post, FetchNotes, EndSearch | RealmeOtaProvider.query |
| StartTrip, Check, Contact, EndTrip | ResolverService.resolve |

A uvicorn process serves one of these requests at a time, because its routes
block. Several processes are modelled because the SQL function locks for them
and because deployments overlap. URLs are points with the attributes that the
checks look at; any URL may redirect to any other, and DNS is asked anew with
any answer unless the call has one cached.

## 3. What the runs check

Runs that pass:

| Run | Instance | Shows |
|---|---|---|
| `ScanQueue_two_workers` | 2 tasks, 2 processes of 1 thread, 2 attempts, 1 fault, overdue tasks | FreshTaskIsExclusive, OutcomeIsFinal, NeverOvercounts |
| `ScanQueue_resume` | 2 tasks, 1 process of 2 threads, 1 fault, overdue tasks, fairness | FinishedRunIsSettled, RunIsFinished, TasksAreResumed |
| `QueueRefinement` | 2 tasks, 2 processes, 1 fault, nothing overdue | ImplementsMemoryQueue |
| `Scanner_one_device` | 1 device on track C, bootstrapped or not, 2 releases on tracks A and H (one routed), 2 threads, 1 fault, overdue tasks | the seven properties of the scanner |
| `Operations` | 3 devices (one overridden, one legacy, one not stored), six combinations of processes, 1 fault, 1 failed fetch, 2 import commands, 3 chat updates (the last with a reply Telegram refuses), fairness; about 221,000 states | the ten properties of registry, commands, selection and imports |
| `Public_site` | 2 web processes, 1 client, four sites (below), fairness; about 131,000 states | the nine properties of the public site |
| `Telegram_delivery` | 2 notifications, 1 polling and 1 one-shot bot, 2 attempts, 2 faults, fairness | OneSender, DeliveriesAreBounded, EveryDuplicateHasACause, SentIsFinal, NotificationIsSettled |

Runs in which a statement of the repository is refuted:

| Run | Statement | What happens |
|---|---|---|
| `ScanQueue_counter` | migration 202606270002, lines 91-93: the counter stays consistent with task state | two concurrent completions both count before the other commits; new_releases ends one short |
| `Scanner_lost_notification` | ARCHITECTURE.md:76 and :133-134 | crash after the release was stored; the resumed task finds it "not new" |
| `Telegram_stuck` | release-gates.md:154: sending rows are aged out | crash during the last attempt: attempt_count bars the reclaim |
| `Registry_reenable` | SCHEDULER.md:46-47: `/scan on` can re-enable a model and reset its failure counter | set_scan_enabled writes switch and eligibility only; a device at the threshold stays excluded |
| `Public_cached_quota` | public_ota.py:108-109: cached responses do not waste the caller's quota | the claim inserts a row for a cached answer, too, and counts it |

What the passing properties of the two large runs say:

- `FlagsAgree`: the switch and the eligibility of a device agree, whoever wrote
  them and in whatever order. `SelectionIsExact`: a device is missed or found twice only
  if the listing changed between pages or names are equal.
- `ImportKeepsChoices` speaks of rows nobody wrote between the import's read
  and its write: a switch made in between is lost, although DATA_SOURCES.md
  says operator choices are kept, and the pages of the read have no order. It
  is the guarantee the code can give.
- `CompletedImportIsWhole`, `FailsOnlyByFault`, `RunningImportHasOwner`: the
  record of an import tells the truth, except after its process was cut off. For the
  archive the truth is that each release has a row, at a device of its base model,
  and that the device's active track is not below the track of that row. The row may
  be older than the import and keep another track than the archive's; and a track
  that a scan wrote meanwhile is its own, higher or lower.
- `DiscoveryIsAnnounced`, `OnlyDiscoveriesAreAnnounced`: what the worker stores
  first is announced unless something crashes, and nothing else ever is; a release
  that a manual query stored first stays silent for good.
- `ConfirmedWasHandled`, `CommandsAreHandled`: the offset moves early, yet no
  command is lost; the one exception, a command behind a reply that Telegram
  always refuses, is excluded in the property and reached by the run.
- `QuotaHolds`, `LiveQueriesAreSpaced`, `RetryAfterIsEnough`: the quota in any
  window, the cooldown between live queries, and what a refused client is told,
  although stamps are taken before the lock.
- `CachedAnswerCameFromProvider`, `VerdictIsJustified`,
  `OnlyCheckedHostsAreContacted`, `HistoryIsChecked`, `RequestsEnd`: see the
  comments in the modules.

### Bounds

Two tasks, two threads and two attempts are the least with which a task can be
retried, reclaimed, and completed while another task is completing; races in
this code are between two writers of one row, or of two tasks of one run. One
fault is enough for each crash window, two for a crash on a notification's
first and on its last attempt. `MaxFaults` bounds crashes and lost answers and
is guarded in ThreadDies, Crash and AnswerIsLost; nothing else is bounded
artificially: claims of an overdue task stop when it settles, and the state
space stays finite because an overdue task can be claimed at most once per
thread in between. The proofs have no bounds but the assumption that tasks
(notifications) are finitely many.

In `Operations`, pages of one (selection) or two rows (import) and chunks of two
make three devices span two pages and two chunks; the catalogues contain a
repeated model, one without a code, entries of another region and one the parser
drops; the releases that others may store have a build that the archive lists, on
other tracks; a threshold of two leaves room for one failure below it. A second import
command follows only in one combination, which is where a stale record of the
first could matter. In `Public_site`, the four sites are: two processes of one
client at the quota with a clock up to 4 (window 3, cooldown 2, limit 3, so that
the window passes and stamps overtake each other); scans and the archive writing
what the cache reads; every answer of upstream over two RUIs, two models and
two seeds; every URL, with at most two redirects. `MaxClock`, `MaxFaults`, `MaxFetchErrors`,
`MaxRequests`, `MaxSelections`, `MaxImports`, `MaxFailures` and `MaxHistory` are
guards of the actions their modules name.

Symmetry is used over tasks (`ScanQueue_two_workers`, `QueueRefinement`) and
over threads of one process (`Scanner_one_device`), never with liveness.

Deadlock is checked in the runs of queue, scanner and outbox: a finished run can
be started again, and a bot polls for ever. The bounded scenarios of
`Operations` and `Public_site`, and of the two refutations over them, do end
(no command, import or request is left), so there it is not checked; that a
request or a command does not get stuck is what their liveness properties say.

### Fairness

`FairSpec` of `ScanQueue` is weak fairness of each thread (the interpreter
schedules them and every call has a timeout), of each main thread, and of the
start of a scheduled run by the process that created it. A run that was only
enqueued, or interrupted by a fault, is started again by the operator with
`--scan-run-id`, and time passes after a fault; this is required for
TasksAreResumed because nothing in the code restarts an interrupted run by
itself. No fairness is assumed of crashes, of overdue time in a run without
faults, or of particular outcomes of a query.

`FairSpec` of `TelegramDelivery` is weak fairness of each bot's steps, of the
restart of polling bots (`restart: unless-stopped` in `compose.yaml`; a
one-shot bot is started by hand, hence without fairness), and of time. That
sending ever succeeds is not assumed; NotificationIsSettled therefore ends in
"sent" or in used-up attempts, unless the target is disabled.

`FairSpec` of `Operations` is weak fairness of the bot's steps, its restart
included (`restart: unless-stopped`; each call has a timeout). `FairSpec` of
`PublicSite` is weak fairness of each web process at work on a request, again
because each of its calls has a timeout. Nothing is assumed of faults, of new
requests, or of what upstream answers.

## 4. What is proved

| Theorem | States | Argument |
|---|---|---|
| `ScanQueueProofs!TypeCorrect` | `Spec => []TypeOK` | inductive by itself |
| `ScanQueueProofs!FreshExclusive` | `Spec => []FreshTaskIsExclusive` | invariant `FreshTasks`, below |
| `ScanQueueProofs!OutcomeFinal` | `Spec => OutcomeIsFinal` | from the same invariant: whoever writes a task holds it, so it is running |
| `ScanQueueProofs!CountNeverTooHigh` | `Spec => []NeverOvercounts` | invariant `CountsBehind`, below |
| `ScanQueueProofs!FinishedMeansSettled` | `Spec => []FinishedRunIsSettled` | invariant `Solo`, below |
| `QueueRefinementProofs!PunctualQueueImplementsMemory` | `Spec /\ []OnTime => ImplementsMemoryQueue` | step by step under the mapping, below |
| `QueueRefinementProofs!QueueImplementsMemory` | the same without the hypothesis where `~MayGoOverdue` | nothing but `GoOverdue` makes a task overdue |
| `ScannerProofs!ScannerTypeCorrect` | `ScannerSpec => []ScannerTypeOK` | typing of the locals, and agreement of `scan` and `thread` |
| `ScannerProofs!DiscoveriesAnnounced` | `ScannerSpec => []DiscoveryIsAnnounced` | the insert makes its thread announce; it keeps that duty until the outbox has the row |
| `ScannerProofs!OnlyDiscoveries` | `ScannerSpec => []OnlyDiscoveriesAreAnnounced` | invariant `AnnounceInv`: whoever is about to announce was told that the release is new |
| `ScannerProofs!ReportedIsAnnounced` | `ScannerSpec => []ReportedReleaseIsAnnounced` | invariant `LocalOK`, below |
| `ScannerProofs!OneStrike`, `TrackIsMonotonic` | `OneStrikePerFailedTask`, `TrackNeverGoesBack` | from invariant `FreshDevices`, below |
| `ScannerProofs!CompletedDeviceIsHealthy` | `ScannerSpec => []HealthFollowsOutcome` | invariant `ClearsFailures`, on top of `FreshDevices` |
| `TelegramDeliveryProofs!TypeCorrect` | `Spec => []TypeOK` | inductive by itself |
| `TelegramDeliveryProofs!SenderIsUnique`, `DuplicatesHaveCauses`, `DeliveriesBounded`, `SentStaysSent` | `OneSender`, `EveryDuplicateHasACause`, `DeliveriesAreBounded`, `SentIsFinal` | invariant `Sound`, below |
| `OperationsProofs!RegistryIsTyped`, `FlagsAlwaysAgree` | `RegistryTypeOK`, `FlagsAgree` | invariant `RegistryInv`, below |
| `OperationsProofs!ConfirmedIsHandled` | `ConfirmedWasHandled` | invariant `HandledInv`, below |
| `OperationsProofs!RunningIsOwned` | `RunningImportHasOwner` | inductive with the importer's types |
| `OperationsProofs!SelectionExact` | `SelectionIsExact` | invariant `SelectionInv`, below |
| `CatalogProofs!BestIsGathered` | `BestOfEachModel` | invariant `FetchInv`, below |
| `CatalogProofs!FailureHadFault` | `FailsOnlyByFault` | invariant `WorkInv`, below |
| `CatalogProofs!ChoicesAreKept` | `ImportKeepsChoices` | invariants `ReadInv` and `KeepInv`, below |
| `CatalogProofs!CompletedIsWhole` | `CompletedImportIsWhole` | invariants `ListsInv` and `ArchiveInv`, below |
| `PublicSiteProofs!QuotaIsTyped`, `QuotaAlwaysHolds`, `LiveQueriesStaySpaced` | `QuotaTypeOK`, `QuotaHolds`, `LiveQueriesAreSpaced` of `QuotaSpec` | below |
| `PublicSiteProofs!RetryAfterSuffices` | `QuotaSpec => RetryAfterIsEnough` | invariant `RetryInv`, below |
| `PublicSiteProofs!SiteIsTyped`, `SiteQuotaHolds`, `SiteQueriesAreSpaced`, `SiteRetryAfterSuffices` | the same for the site | the lemma `SiteKeepsQuotaProtocol`: by construction, the steps of a site are those of the quota or leave it alone |
| `PublicSiteProofs!OnlyCheckedHosts`, `HistoryIsAlwaysChecked` | `OnlyCheckedHostsAreContacted`, `HistoryIsChecked` | invariant `LinksInv`: the URL to be contacted has an allowed host whose cached address is global |
| `PublicSiteProofs!CacheServesAnswers` | `CachedAnswerCameFromProvider` | invariant `CacheInv`: rows of source live_provider are in `provided`, whoever stored them, and a cached answer matches its query |
| `PublicSiteProofs!VerdictsAreJustified` | `Spec => []VerdictIsJustified` | invariant `SearchInv`, below |

`FreshTaskIsExclusive` is not inductive: that a task is claimed at most
max_attempts times depends on what a thread in the middle of `fail_task` is
about to write. `FreshTask(t)` adds that a failing thread only carries `retry`
when attempts are left, and that a queued task was claimed fewer times than
max_attempts. By construction, a step of the scanner is one of the queue or leaves
it alone (the lemma `ScannerUsesQueue`), so the scanner's proofs may use it.

`NeverOvercounts` compares what is stored with what is true, but a transaction
of `complete_scan_task` carries its count across a step in which others commit.
`CountsBehind` bounds that count, too: by the new releases of the other tasks plus
its own. Others can only add to them while no task is reopened, hence the
condition that none is overdue.

`FinishedRunIsSettled` says nothing before the run ends. `Solo` follows the one
process through its run: nothing is running outside `draining`; while it
drains, every running task is held by a thread, and if a task is queued some
thread is still at work (this is where `WorkerAssumption` is needed: a process that
starts a run has a thread); what the main thread has judged and counted still
stands when it writes it, because every task is settled by then. With two
processes this is false, as the hazard at `supabase.py:1065` says, and the
property has the single process as its hypothesis.

The refinement maps the rows and the counts a reader sees; a task is held in the
in-memory queue if a thread holds it. Of the statements of one method only the
last one shows (CommitComplete, WriteFailure, FinishRun); those before it change
nothing that the mapping sees, and a crash only takes holders away. It rests on
`FreshTasks` (a task on time has one holder, so a late statement of another never
undoes its outcome) and on `RunnerKnowsRun` (a main thread works on a run that was
created, and ends it with a terminal status). `OnTime` (no task is overdue) is a
hypothesis because the in-memory queue has no lease: it never hands out a running
task again, and nobody holds a task there once it is completed.

`ReportedReleaseIsAnnounced` follows from where a thread is: `LocalOK` says that
one that reaches `complete` with a new, routed release finds it in the outbox,
and that its transaction reports just this release. `FreshDevices` is
`FreshTaskIsExclusive` prolonged: the thread that reported a task's outcome still
works on the device afterwards (`clear`, `strike`, `writeStrike`), and until then no
other one scans it. So what it read of the row (`Knows`: the failures, the track)
is still there when it writes. `ClearsFailures` adds that a completed task either
has reset the counter already (a release was stored) or has a thread at `clear`.

`Sound(n)` relates deliveries, attempts and faults. "delivered <= 1 + faults"
alone is not inductive: a second delivery would be possible if the first were
forgotten. `Sound` adds that if `delivered` exceeds `faults` the row is sent or
a bot has just delivered it and is about to say so, and that a bot that is
about to send has an attempt that was not delivered yet.

`RegistryInv` is the types of the registry and `FlagsAgree`, with two parts on
what others carry: commands only name devices (`CommandInv`), and what an import
saw is typed (`ImporterInv`), so that the row it merges from an old reading still
agrees with itself. `HandledInv` says that updates below the offset were
executed or are at work, those below the one at work were executed, and a bot
that is down works at nothing: `ConfirmedWasHandled` alone says nothing of the
offset that will confirm next.

The loops of `catalog.py` and of the selection are folds (`FoldLeft`), so what they
return for every list needs induction. The library's induction theorems take a
predicate as a parameter, which cannot be instantiated here; `FoldLemmas` derives
induction over a set from the well-foundedness of `<` on the naturals, shows
that the recursive function behind `FoldLeft` exists, and gives the loop rule in
three forms: `FoldSteps` (the value after each element), `FoldInduction` (a loop
invariant `P[k]` after `k` elements) and `FoldFilters` (a loop that appends or
skips returns the elements it does not skip, in order, each once). Each loop
instantiates it with its body.

`SelectionIsExact` speaks of the end. `SelectionInv` says what the pages so far
have found: exactly the wanted devices whose place in the listing is at most
`offset`, each once. The place of a device is fixed although the rows of equal
names come in any order, because nobody shares its name: `Rank` counts the names
below it, and `PlaceIsRank` shows that every listing has it there.

`FetchInv` says of the domestic catalogue that whatever was delivered has a row
among those gathered, or in the batch of the fetcher at work, that stands for it
(`Stands`): one of the same model and no lower priority, now and after
the overlay of names, which drops the source whose names are laid over others.
Within a batch this needs `SourceAssumption`: a fetcher gives its candidates one
source. `WorkInv` says that an import works on rows of its kind of which no two
have the same key, so no chunk of them repeats one, whatever its size.

`ImportKeepsChoices` compares the row an import writes with the one that is
stored, which it read long before, in pages of a query without an order.
`ReadInv` says that as long as nothing was disturbed the pages read were
different rows: `importer.read`, which decides when the last page is reached, is
the number of devices read, so a last page means that every stored row was read.
`KeepInv` carries this to the writes: a row that was not touched since
(`Undisturbed`) is still as `importer.saw` has it, and no overridden one is left
in the work.

`CompletedImportIsWhole` is about one step, but what it needs is collected over the
whole import. `ListsInv`: each row that the source offers is left to write or
already as it should be (`Done`), and no later chunk undoes that, because no other
row has its model. `ArchiveInv`: each release has its model stored before the first
release is; then it is left to store or has landed at a stored device of the same
base, and the track of its row is on its way: in `highest` while releases are stored,
then written (`Tracked`). No upsert changes the track of a row (`UpsertKeeps`),
a device whose track a scan writes is `disturbed`, and operators remove no row, so
the others leave all this alone (`ListsKept`, `ArchiveKept`).

`QuotaHolds` counts every window, also those that begin between rows. A new row
is stamped with the begin of its transaction, which may lie before rows that
were inserted earlier; the function counts all rows from a window before that
stamp on, the later ones included, so any window that contains the new row
contained fewer than the limit of the counted ones. `LiveQueriesAreSpaced` needs
that the latest stamp of a query exists, which holds because the stamps are
natural numbers up to the clock. `RetryInv` says what `told.until` stands for:
after it the window has room again (or the cooldown is over) as long as nothing
is granted to the client. For the window this is `OldestIsOldest`: fewer than the
limit of the counted rows are later than the oldest one that `Retry-After` is
computed from. The rows are compared by their stamps, so their order does not
matter.

`VerdictIsJustified` speaks of a search that has ended. `SearchInv` says what the
loop variables of one that goes on stand for (`Going`): all candidates before the
current one are exhausted, all models before the current one were asked, and
`found_no_release` says whether upstream denied the current candidate for one of
them. The answers so far contain no release and no fault, because either ends
the search.

The proofs assume what the modules ASSUME of the constants: finitely many tasks
or notifications, at least one attempt, a "none" value outside the sets, a worker
thread in every process (`WorkerAssumption`; `scanner.py:80-81` refuses fewer),
for the searches, RUI candidates that are numbers and answers of upstream that
are told from releases (`ProviderAssumption`), and of the catalogues that they are
lists of typed rows (`CatalogAssumption`), that the candidates of one fetcher have one
source, and one brand unless it is the overlay (`SourceAssumption`; every parser of
`catalog.py` passes a fixed one), and that a model run that begins after the fetch
begins with one row of a model (`StartAssumption`). TLC evaluates all of them in the
passing runs.

Model-checked only:

- everything under fairness: RunIsFinished, TasksAreResumed,
  NotificationIsSettled, CommandsAreHandled, RequestsEnd (liveness is outside the
  prover);
- the violation runs, which show one behaviour each.

Every safety property of a passing run is stated by a theorem.

## 5. What is not modelled

- `total_tasks`, `tracks_checked`, error texts and the worker summary: no
  decision is taken on them.
- The choice of the shard and the throttle: the first is a pure function of the
  device (`Due` stands for it), the second only delays.
- Dry runs of the imports, which write nothing; the names of devices and the
  extraction of fields from HTML and JSON; the metadata an upsert fills in.
- The provider's encryption and its preconditions on a query, checked before
  anything is sent; the fake provider, which is a table.
- The challenge and the validation of public requests, which come before the
  claim and change nothing.
- Read-only routes, listings, statistics and schemas, error formats.
- The in-memory repositories other than the queue's: tests and local runs use
  them, and they have one lock instead of statements.
- Configuration, logging, wiring, the web UI and the scripts that validate it:
  no behaviour of their own.

## 6. Plan

Done: all the modules of section 2 and the proofs of section 4. What would be
worth adding, in this order:

1. One composition of `Scanner` and `DeviceRegistry` over several scan cycles,
   where a device fails, is excluded and comes back.
