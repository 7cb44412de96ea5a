--------------------------- MODULE TelegramDelivery ---------------------------
(***************************************************************************)
(* The outbox of release notifications: the rows of telegram_notifications,*)
(* the SQL functions that enqueue, claim, complete and fail them, and the  *)
(* bots that send them with TelegramDeliveryService.deliver_once, either   *)
(* in poll_forever or once (--once-delivery).                              *)
(*                                                                         *)
(* What reaches the chat is not visible to the code: a call that ends in   *)
(* an error may have delivered the message, and the process may stop after *)
(* the call and before its result is stored.                               *)
(***************************************************************************)
EXTENDS Naturals, FiniteSets

CONSTANTS
  Notification,  \* one per release and target
  Target,        \* telegram_targets
  TargetOf,      \* TargetOf[n]: the target of the notification
  Bot,           \* bot processes
  OneShot,       \* those started with --once-delivery
  NoNotification,
  MaxAttempts,   \* telegram_notification_max_attempts
  MaxFaults      \* bound on crashes and lost answers

ASSUME DeliveryAssumption ==
  /\ IsFiniteSet(Notification) /\ NoNotification \notin Notification
  /\ TargetOf \in [Notification -> Target]
  /\ OneShot \subseteq Bot
  /\ MaxAttempts \in Nat \ {0}
  /\ MaxFaults \in Nat

VARIABLES
  note,       \* telegram_notifications
  enabled,    \* targets with enabled = true
  bot,        \* where each bot is in deliver_once or poll_forever
  delivered,  \* how often each notification reached its chat
  faults      \* crashes and lost answers so far

vars == <<note, enabled, bot, delivered, faults>>

(***************************************************************************)
(* `created' is the rank of created_at.  `due' says next_attempt_at <= now,*)
(* `stale' that last_attempt_at is at least 15 minutes ago.                *)
(***************************************************************************)
NotificationRow ==
  [status: {"absent", "queued", "sending", "sent", "failed"},
   created: Nat, attempts: Nat, due: BOOLEAN, stale: BOOLEAN]

(* "delivered" and "rejected": send_message returned, or raised. *)
BotState ==
  [at: {"off", "draining", "sending", "delivered", "rejected", "polling"},
   note: Notification \cup {NoNotification}]

IdleBot(at) == [at |-> at, note |-> NoNotification]

Init ==
  /\ note = [n \in Notification |->
               [status |-> "absent", created |-> 0, attempts |-> 0,
                due |-> FALSE, stale |-> FALSE]]
  /\ enabled = Target
  /\ bot = [b \in Bot |-> IdleBot("off")]
  /\ delivered = [n \in Notification |-> 0]
  /\ faults = 0

-----------------------------------------------------------------------------
Rows == {n \in Notification : note[n].status # "absent"}

Sending(b, n) == bot[b].note = n

(* Faulty variant: ON CONFLICT queues the row again. *)
EnqueueAgain(n) ==
  /\ TargetOf[n] \in enabled
  /\ note' = [note EXCEPT ![n].status = "queued",
                          ![n].created = IF n \in Rows THEN @ ELSE Cardinality(Rows) + 1]
  /\ UNCHANGED <<enabled, bot, delivered, faults>>

(***************************************************************************)
(* enqueue_telegram_notification, called by the scanner for a new release  *)
(* and by `/notify backfill-run' for the releases of a run, after          *)
(* get_target_for_brand has found an enabled target.  A row that is there  *)
(* already is left as it is.                                               *)
(***************************************************************************)
Enqueue(n) ==
  /\ TargetOf[n] \in enabled
  /\ note' = IF n \in Rows THEN note
             ELSE [note EXCEPT ![n] =
                     [@ EXCEPT !.status = "queued", !.created = Cardinality(Rows) + 1]]
  /\ UNCHANGED <<enabled, bot, delivered, faults>>

(* Faulty variants of the WHERE clause: the age of a sending row is ignored,  *)
(* one attempt too many, and failed rows are never due.                       *)
EligibleOfAnyAge ==
  {n \in Notification :
     /\ TargetOf[n] \in enabled
     /\ note[n].attempts < MaxAttempts
     /\ \/ note[n].status \in {"queued", "sending"}
        \/ note[n].status = "failed" /\ note[n].due}

EligibleOneMore ==
  {n \in Notification :
     /\ TargetOf[n] \in enabled
     /\ note[n].attempts <= MaxAttempts
     /\ \/ note[n].status = "queued"
        \/ note[n].status = "failed" /\ note[n].due
        \/ note[n].status = "sending" /\ note[n].stale}

EligibleUnlessFailed ==
  {n \in Notification :
     /\ TargetOf[n] \in enabled
     /\ note[n].attempts < MaxAttempts
     /\ \/ note[n].status = "queued"
        \/ note[n].status = "sending" /\ note[n].stale}

(* The rows the WHERE clause of claim_telegram_notification selects. *)
Eligible ==
  {n \in Notification :
     /\ TargetOf[n] \in enabled
     /\ note[n].attempts < MaxAttempts
     /\ \/ note[n].status = "queued"
        \/ note[n].status = "failed" /\ note[n].due
        \/ note[n].status = "sending" /\ note[n].stale}

(* claim_telegram_notification takes the oldest of them. *)
Claim(b, n) ==
  /\ bot[b].at = "draining"
  /\ n \in Eligible
  /\ \A m \in Eligible : note[n].created <= note[m].created
  /\ note' = [note EXCEPT ![n].status = "sending", ![n].attempts = @ + 1,
                          ![n].due = FALSE, ![n].stale = FALSE]
  /\ bot' = [bot EXCEPT ![b] = [at |-> "sending", note |-> n]]
  /\ UNCHANGED <<enabled, delivered, faults>>

(* deliver_once returned False: poll_forever stops draining, and a bot that   *)
(* delivers once exits in any case.                                           *)
AfterDelivery(b, again) ==
  IdleBot(IF b \in OneShot THEN "off" ELSE IF again THEN "draining" ELSE "polling")

ClaimNone(b) ==
  /\ bot[b].at = "draining"
  /\ Eligible = {}
  /\ bot' = [bot EXCEPT ![b] = AfterDelivery(b, FALSE)]
  /\ UNCHANGED <<note, enabled, delivered, faults>>

-----------------------------------------------------------------------------
(* The send_message call. *)

SendSucceeds(b, n) ==
  /\ bot[b].at = "sending" /\ Sending(b, n)
  /\ delivered' = [delivered EXCEPT ![n] = @ + 1]
  /\ bot' = [bot EXCEPT ![b].at = "delivered"]
  /\ UNCHANGED <<note, enabled, faults>>

SendIsRejected(b, n) ==
  /\ bot[b].at = "sending" /\ Sending(b, n)
  /\ bot' = [bot EXCEPT ![b].at = "rejected"]
  /\ UNCHANGED <<note, enabled, delivered, faults>>

(* The message arrived and the answer did not: a timeout or a network error, *)
(* which _classify_telegram_exception turns into TELEGRAM_NETWORK.           *)
AnswerIsLost(b, n) ==
  /\ faults < MaxFaults
  /\ bot[b].at = "sending" /\ Sending(b, n)
  /\ delivered' = [delivered EXCEPT ![n] = @ + 1]
  /\ bot' = [bot EXCEPT ![b].at = "rejected"]
  /\ faults' = faults + 1
  /\ UNCHANGED <<note, enabled>>

(* complete_telegram_notification, whatever the status of the row. *)
MarkSent(b, n) ==
  /\ bot[b].at = "delivered" /\ Sending(b, n)
  /\ note' = [note EXCEPT ![n] = [@ EXCEPT !.status = "sent", !.due = FALSE]]
  /\ bot' = [bot EXCEPT ![b] = AfterDelivery(b, TRUE)]
  /\ UNCHANGED <<enabled, delivered, faults>>

(* Faulty variant: the bot goes on with a notification it has reported. *)
MarkFailedKeepingNote(b, n) ==
  /\ bot[b].at = "rejected" /\ Sending(b, n)
  /\ note' = [note EXCEPT ![n] = [@ EXCEPT !.status = "failed", !.due = FALSE]]
  /\ bot' = [bot EXCEPT ![b].at = "polling"]
  /\ UNCHANGED <<enabled, delivered, faults>>

(* fail_telegram_notification: another attempt after retry_seconds. *)
MarkFailed(b, n) ==
  /\ bot[b].at = "rejected" /\ Sending(b, n)
  /\ note' = [note EXCEPT ![n] = [@ EXCEPT !.status = "failed", !.due = FALSE]]
  /\ bot' = [bot EXCEPT ![b] = AfterDelivery(b, FALSE)]
  /\ UNCHANGED <<enabled, delivered, faults>>

(* get_updates returned and the commands are answered. *)
PollReturns(b) ==
  /\ bot[b].at = "polling"
  /\ bot' = [bot EXCEPT ![b] = IdleBot("draining")]
  /\ UNCHANGED <<note, enabled, delivered, faults>>

-----------------------------------------------------------------------------
(* The environment. *)

(* The container starts the bot again whenever it ends. *)
Start(b) ==
  /\ bot[b].at = "off"
  /\ bot' = [bot EXCEPT ![b] = IdleBot("draining")]
  /\ UNCHANGED <<note, enabled, delivered, faults>>

(* The process is killed, or an exception other than TelegramSendError,     *)
(* from a repository call or from get_updates, ends it.                     *)
Crash(b) ==
  /\ faults < MaxFaults
  /\ bot[b].at # "off"
  /\ bot' = [bot EXCEPT ![b] = IdleBot("off")]
  /\ faults' = faults + 1
  /\ UNCHANGED <<note, enabled, delivered>>

RetryTimePasses(n) ==
  /\ note[n].status = "failed" /\ ~note[n].due
  /\ note' = [note EXCEPT ![n].due = TRUE]
  /\ UNCHANGED <<enabled, bot, delivered, faults>>

(* 15 minutes after the claim.  The calls of a bot time out within seconds, *)
(* so the bot that claimed the row has reported back or is gone by then.    *)
StaleTimePasses(n) ==
  /\ note[n].status = "sending" /\ ~note[n].stale
  /\ \A b \in Bot : ~Sending(b, n)
  /\ note' = [note EXCEPT ![n].stale = TRUE]
  /\ UNCHANGED <<enabled, bot, delivered, faults>>

(* An operator edits telegram_targets. *)
ToggleTarget(g) ==
  /\ enabled' = IF g \in enabled THEN enabled \ {g} ELSE enabled \cup {g}
  /\ UNCHANGED <<note, bot, delivered, faults>>

-----------------------------------------------------------------------------
BotStep(b) ==
  \/ ClaimNone(b)
  \/ PollReturns(b)
  \/ \E n \in Notification :
       \/ Claim(b, n)
       \/ SendSucceeds(b, n) \/ SendIsRejected(b, n) \/ AnswerIsLost(b, n)
       \/ MarkSent(b, n) \/ MarkFailed(b, n)

Next ==
  \/ \E b \in Bot : BotStep(b) \/ Start(b) \/ Crash(b)
  \/ \E n \in Notification : Enqueue(n) \/ RetryTimePasses(n) \/ StaleTimePasses(n)
  \/ \E g \in Target : ToggleTarget(g)

Spec == Init /\ [][Next]_vars

(***************************************************************************)
(* Fairness: a bot runs and its calls return, compose restarts it ("restart*)
(* unless-stopped"; a one-shot bot is started by hand), and time passes.   *)
(***************************************************************************)
FairSpec ==
  /\ Spec
  /\ \A b \in Bot \ OneShot : WF_vars(BotStep(b)) /\ WF_vars(Start(b))
  /\ \A b \in OneShot : WF_vars(BotStep(b))
  /\ \A n \in Notification : WF_vars(RetryTimePasses(n)) /\ WF_vars(StaleTimePasses(n))

-----------------------------------------------------------------------------
(* Properties. *)

(* The rows and the bots keep the shape the table and the code give them, and *)
(* a bot has a notification exactly from its claim to the report.             *)
TypeOK ==
  /\ note \in [Notification -> NotificationRow]
  /\ enabled \subseteq Target
  /\ bot \in [Bot -> BotState]
  /\ delivered \in [Notification -> Nat]
  /\ faults \in 0..MaxFaults
  /\ \A b \in Bot :
       bot[b].at \in {"sending", "delivered", "rejected"} <=> bot[b].note # NoNotification

(* A notification is with at most one bot, and its row says "sending" as long *)
(* as it is: a late complete or fail, which check no status, cannot overwrite *)
(* what another bot has written in the meantime.                              *)
OneSender ==
  \A n \in Notification :
    /\ \A b, c \in Bot : Sending(b, n) /\ Sending(c, n) => b = c
    /\ (\E b \in Bot : Sending(b, n)) => note[n].status = "sending"

(* Every message in the chat was claimed first: there are never more of them  *)
(* than attempts, and max_attempts bounds both, through retries, stale        *)
(* reclaims and repeated enqueues.                                            *)
DeliveriesAreBounded ==
  \A n \in Notification :
    delivered[n] <= note[n].attempts /\ note[n].attempts <= MaxAttempts

(* A row that says "sent" was delivered, stays as it is whatever is enqueued  *)
(* again, and its message is not sent another time.                           *)
SentIsFinal ==
  [][\A n \in Notification :
       note[n].status = "sent" =>
         delivered[n] > 0 /\ note'[n] = note[n] /\ delivered'[n] = delivered[n]]_vars

(* A message is only repeated because a crash or a network error hid the      *)
(* delivery: each repetition costs one, and without them the chat sees every  *)
(* release at most once.                                                      *)
EveryDuplicateHasACause ==
  \A n \in Notification : delivered[n] <= 1 + faults

(* Whoever crashes and however often sending fails, a queued notification is  *)
(* sent or its attempts are used up, unless its target is disabled meanwhile. *)
NotificationIsSettled ==
  \A n \in Notification :
    note[n].status = "queued" ~>
      \/ note[n].status = "sent"
      \/ note[n].attempts = MaxAttempts
      \/ TargetOf[n] \notin enabled

(* A row does not stay in "sending": the bot reports back, or the row is aged *)
(* out and claimed again.                                                     *)
SendingIsAgedOut ==
  \A n \in Notification :
    note[n].status = "sending" ~> note[n].status # "sending" \/ TargetOf[n] \notin enabled

=============================================================================
