----------------------- MODULE TelegramDeliveryProofs -----------------------
(***************************************************************************)
(* What TLAPS proves of TelegramDelivery, for every value of its constants.*)
(***************************************************************************)
EXTENDS TelegramDelivery, FiniteSetTheorems, TLAPS

(* Rows, targets, bots and counters keep their shape, and a bot has a         *)
(* notification exactly while it delivers it.                                 *)
THEOREM TypeCorrect == Spec => []TypeOK
<1> USE DeliveryAssumption
<1>1. Init => TypeOK
  BY DEF Init, TypeOK, NotificationRow, BotState, IdleBot
<1>2. TypeOK /\ [Next]_vars => TypeOK'
  <2> SUFFICES ASSUME TypeOK, [Next]_vars
               PROVE  TypeOK'
    OBVIOUS
  <2> USE DEF TypeOK
  <2>1. ASSUME NEW n \in Notification, Enqueue(n)
        PROVE  TypeOK'
    <3> DEFINE rank == Cardinality(Rows) + 1
               row == [note[n] EXCEPT !.status = "queued", !.created = rank]
    <3>1. rank \in Nat
      BY FS_Subset, FS_CardinalityType DEF Rows
    <3>2. note' = note \/ note' = [note EXCEPT ![n] = row]
      BY <2>1 DEF Enqueue
    <3> HIDE DEF rank
    <3>3. row \in NotificationRow
      <4>1. note[n] \in NotificationRow
        OBVIOUS
      <4> HIDE DEF TypeOK
      <4> QED
        BY <3>1, <4>1 DEF NotificationRow
    <3> HIDE DEF row
    <3> QED
      BY <2>1, <3>2, <3>3 DEF Enqueue
  <2>2. ASSUME NEW b \in Bot, NEW n \in Notification, Claim(b, n)
        PROVE  TypeOK'
    BY <2>2 DEF Claim, NotificationRow, BotState
  <2>3. ASSUME NEW b \in Bot, ClaimNone(b) \/ PollReturns(b)
        PROVE  TypeOK'
    BY <2>3 DEF ClaimNone, PollReturns, AfterDelivery, IdleBot, BotState
  <2>4. ASSUME NEW b \in Bot, NEW n \in Notification,
               SendSucceeds(b, n) \/ SendIsRejected(b, n) \/ AnswerIsLost(b, n)
        PROVE  TypeOK'
    <3>1. bot' \in [Bot -> BotState]
      BY <2>4 DEF SendSucceeds, SendIsRejected, AnswerIsLost, BotState
    <3>2. delivered' \in [Notification -> Nat] /\ faults' \in 0..MaxFaults
      BY <2>4 DEF SendSucceeds, SendIsRejected, AnswerIsLost
    <3> QED
      BY <2>4, <3>1, <3>2 DEF SendSucceeds, SendIsRejected, AnswerIsLost, BotState
  <2>5. ASSUME NEW b \in Bot, NEW n \in Notification, MarkSent(b, n) \/ MarkFailed(b, n)
        PROVE  TypeOK'
    <3>1. note' \in [Notification -> NotificationRow]
      <4>1. /\ [note[n] EXCEPT !.status = "sent", !.due = FALSE] \in NotificationRow
            /\ [note[n] EXCEPT !.status = "failed", !.due = FALSE] \in NotificationRow
        BY DEF NotificationRow
      <4> QED
        BY <2>5, <4>1 DEF MarkSent, MarkFailed
    <3>2. \A again \in BOOLEAN : /\ AfterDelivery(b, again) \in BotState
                                 /\ AfterDelivery(b, again).at \in {"off", "draining", "polling"}
                                 /\ AfterDelivery(b, again).note = NoNotification
      BY DEF AfterDelivery, IdleBot, BotState
    <3> QED
      BY <2>5, <3>1, <3>2 DEF MarkSent, MarkFailed
  <2>6. ASSUME NEW b \in Bot, Start(b) \/ Crash(b)
        PROVE  TypeOK'
    BY <2>6 DEF Start, Crash, IdleBot, BotState
  <2>7. ASSUME NEW n \in Notification, RetryTimePasses(n) \/ StaleTimePasses(n)
        PROVE  TypeOK'
    <3>1. CASE RetryTimePasses(n)
      BY <3>1 DEF RetryTimePasses, NotificationRow
    <3>2. CASE StaleTimePasses(n)
      BY <3>2 DEF StaleTimePasses, NotificationRow
    <3> QED
      BY <2>7, <3>1, <3>2
  <2>8. ASSUME NEW g \in Target, ToggleTarget(g)
        PROVE  TypeOK'
    BY <2>8 DEF ToggleTarget
  <2>9. CASE UNCHANGED vars
    BY <2>9 DEF vars
  <2> QED
    BY <2>1, <2>2, <2>3, <2>4, <2>5, <2>6, <2>7, <2>8, <2>9 DEF Next, BotStep
<1> QED
  BY <1>1, <1>2, PTL DEF Spec

-----------------------------------------------------------------------------
(***************************************************************************)
(* What one notification may look like.  Beyond OneSender, the argument    *)
(* for EveryDuplicateHasACause needs to know that as long as a row may     *)
(* still be claimed, or is being sent, every delivery so far has cost a    *)
(* fault; the one that has not is with a bot that knows of it, or recorded.*)
(***************************************************************************)
Sound(n) ==
  /\ \A b, c \in Bot : Sending(b, n) /\ Sending(c, n) => b = c
  /\ \A b \in Bot : Sending(b, n) => note[n].status = "sending" /\ ~note[n].stale
  /\ note[n].status # "sending" => ~note[n].stale
  /\ note[n].attempts <= MaxAttempts
  /\ delivered[n] <= note[n].attempts
  /\ \A b \in Bot : Sending(b, n) /\ bot[b].at = "sending" => delivered[n] < note[n].attempts
  /\ delivered[n] <= faults + 1
  /\ delivered[n] > faults =>
       \/ note[n].status = "sent"
       \/ \E b \in Bot : Sending(b, n) /\ bot[b].at = "delivered"
  /\ note[n].status = "sent" => delivered[n] > 0
  /\ \A b \in Bot : Sending(b, n) /\ bot[b].at = "delivered" => delivered[n] > 0

AllSound == \A n \in Notification : Sound(n)

LEMMA SoundStep == TypeOK /\ AllSound /\ [Next]_vars => AllSound'
<1> SUFFICES ASSUME TypeOK, AllSound, [Next]_vars
             PROVE  AllSound'
  OBVIOUS
<1> USE DeliveryAssumption
<1>1. /\ note \in [Notification -> NotificationRow]
      /\ bot \in [Bot -> BotState]
      /\ delivered \in [Notification -> Nat]
      /\ faults \in Nat
      /\ \A n \in Notification : note[n].attempts \in Nat /\ delivered[n] \in Nat
      /\ \A b \in Bot : bot[b].at \in {"sending", "delivered", "rejected"}
                          <=> bot[b].note # NoNotification
  BY DEF TypeOK, NotificationRow
<1>2. ASSUME NEW n \in Notification, Enqueue(n)
      PROVE  AllSound'
  <2>1. UNCHANGED <<bot, delivered, faults>>
    BY <1>2 DEF Enqueue
  <2>2. \A m \in Notification : m # n => note'[m] = note[m]
    BY <1>1, <1>2 DEF Enqueue
  <2>3. CASE n \in Rows
    BY <1>2, <2>1, <2>3 DEF Enqueue, AllSound, Sound, Sending
  <2>4. CASE n \notin Rows
    <3>1. /\ note[n].status = "absent" /\ note'[n].status = "queued"
          /\ note'[n].attempts = note[n].attempts /\ note'[n].stale = note[n].stale
      BY <1>1, <1>2, <2>4 DEF Enqueue, Rows, NotificationRow
    <3> QED
      BY <1>1, <2>1, <2>2, <3>1 DEF AllSound, Sound, Sending
  <2> QED
    BY <2>3, <2>4
<1>3. ASSUME NEW b \in Bot, NEW n \in Notification, Claim(b, n)
      PROVE  AllSound'
  <2>1. UNCHANGED <<delivered, faults>> /\ bot[b].note = NoNotification
    BY <1>1, <1>3 DEF Claim
  <2>2. \A m \in Notification : m # n => note'[m] = note[m]
    BY <1>1, <1>3 DEF Claim
  <2>3. /\ note'[n].status = "sending" /\ note'[n].stale = FALSE
        /\ note'[n].attempts = note[n].attempts + 1
    BY <1>1, <1>3 DEF Claim, NotificationRow
  <2>4. /\ \A c \in Bot : c # b => bot'[c] = bot[c]
        /\ bot'[b].note = n /\ bot'[b].at = "sending"
    BY <1>1, <1>3 DEF Claim
  <2>5. /\ note[n].attempts < MaxAttempts
        /\ note[n].status \in {"queued", "failed"} \/ note[n].stale
    BY <1>3 DEF Claim, Eligible
  <2>6. \A c \in Bot : ~Sending(c, n)
    BY <2>5 DEF AllSound, Sound
  <2>7. delivered[n] <= faults
    BY <1>1, <2>5, <2>6 DEF AllSound, Sound
  <2>8. Sound(n)'
    BY <1>1, <2>1, <2>3, <2>4, <2>5, <2>6, <2>7 DEF AllSound, Sound, Sending
  <2>9. ASSUME NEW m \in Notification, m # n
        PROVE  Sound(m)'
    BY <2>1, <2>2, <2>4, <2>9 DEF AllSound, Sound, Sending
  <2> QED
    BY <2>8, <2>9 DEF AllSound
<1>4. ASSUME NEW b \in Bot, ClaimNone(b) \/ PollReturns(b) \/ Start(b)
      PROVE  AllSound'
  <2>1. UNCHANGED <<note, delivered, faults>> /\ bot[b].note = NoNotification
    BY <1>1, <1>4 DEF ClaimNone, PollReturns, Start
  <2>2. /\ \A c \in Bot : c # b => bot'[c] = bot[c]
        /\ bot'[b].note = NoNotification
    BY <1>1, <1>4 DEF ClaimNone, PollReturns, Start, AfterDelivery, IdleBot
  <2> QED
    BY <2>1, <2>2 DEF AllSound, Sound, Sending
<1>5. ASSUME NEW b \in Bot, NEW n \in Notification,
             SendSucceeds(b, n) \/ SendIsRejected(b, n) \/ AnswerIsLost(b, n)
      PROVE  AllSound'
  <2>1. note' = note /\ bot[b].at = "sending" /\ Sending(b, n)
    BY <1>5 DEF SendSucceeds, SendIsRejected, AnswerIsLost
  <2>2. /\ \A c \in Bot : c # b => bot'[c] = bot[c]
        /\ bot'[b].note = n
    BY <1>1, <1>5, <2>1 DEF SendSucceeds, SendIsRejected, AnswerIsLost, BotState, Sending
  <2>3. \A m \in Notification : m # n => delivered'[m] = delivered[m]
    BY <1>1, <1>5 DEF SendSucceeds, SendIsRejected, AnswerIsLost
  <2>4. delivered[n] <= faults /\ delivered[n] < note[n].attempts
    BY <1>1, <2>1 DEF AllSound, Sound
  <2>5. \/ /\ bot'[b].at = "delivered" /\ delivered'[n] = delivered[n] + 1 /\ faults' = faults
        \/ /\ bot'[b].at = "rejected" /\ delivered'[n] = delivered[n] /\ faults' = faults
        \/ /\ bot'[b].at = "rejected" /\ delivered'[n] = delivered[n] + 1 /\ faults' = faults + 1
    <3>1. CASE SendSucceeds(b, n)
      BY <1>1, <3>1 DEF SendSucceeds, BotState
    <3>2. CASE SendIsRejected(b, n)
      BY <1>1, <3>2 DEF SendIsRejected, BotState
    <3>3. CASE AnswerIsLost(b, n)
      BY <1>1, <3>3 DEF AnswerIsLost, BotState
    <3> QED
      BY <1>5, <3>1, <3>2, <3>3
  <2>6. Sound(n)'
    BY <1>1, <2>1, <2>2, <2>4, <2>5 DEF AllSound, Sound, Sending
  <2>7. ASSUME NEW m \in Notification, m # n
        PROVE  Sound(m)'
    <3>1. \A c \in Bot : /\ (bot'[c].note = m) <=> (bot[c].note = m)
                         /\ (bot[c].note = m) => bot'[c] = bot[c]
      BY <2>1, <2>2, <2>7 DEF Sending
    <3>2. /\ delivered'[m] = delivered[m] /\ note'[m] = note[m]
          /\ faults' = faults \/ faults' = faults + 1
      BY <2>1, <2>3, <2>5, <2>7
    <3>3. Sound(m)
      BY DEF AllSound
    <3>4. delivered'[m] > faults' => delivered[m] > faults
      BY <1>1, <3>2
    <3>5. delivered'[m] <= faults' + 1
      BY <1>1, <3>2, <3>3 DEF Sound
    <3>6. delivered'[m] > faults' =>
            \/ note'[m].status = "sent"
            \/ \E c \in Bot : bot'[c].note = m /\ bot'[c].at = "delivered"
      BY <3>1, <3>2, <3>3, <3>4 DEF Sound, Sending
    <3>7. \A c, d \in Bot : bot'[c].note = m /\ bot'[d].note = m => c = d
      BY <3>1, <3>3 DEF Sound, Sending
    <3>8. \A c \in Bot : bot'[c].note = m =>
            /\ note'[m].status = "sending" /\ ~note'[m].stale
            /\ bot'[c].at = "sending" => delivered'[m] < note'[m].attempts
            /\ bot'[c].at = "delivered" => delivered'[m] > 0
      BY <3>1, <3>2, <3>3 DEF Sound, Sending
    <3>9. /\ note'[m].status # "sending" => ~note'[m].stale
          /\ note'[m].attempts <= MaxAttempts
          /\ delivered'[m] <= note'[m].attempts
          /\ note'[m].status = "sent" => delivered'[m] > 0
      BY <3>2, <3>3 DEF Sound
    <3> QED
      BY <3>5, <3>6, <3>7, <3>8, <3>9 DEF Sound, Sending
  <2> QED
    BY <2>6, <2>7 DEF AllSound
<1>6. ASSUME NEW b \in Bot, NEW n \in Notification, MarkSent(b, n) \/ MarkFailed(b, n)
      PROVE  AllSound'
  <2>1. UNCHANGED <<delivered, faults>> /\ Sending(b, n)
    BY <1>6 DEF MarkSent, MarkFailed
  <2>2. /\ \A c \in Bot : c # b => bot'[c] = bot[c]
        /\ bot'[b].note = NoNotification
    BY <1>1, <1>6 DEF MarkSent, MarkFailed, AfterDelivery, IdleBot
  <2>3. \A m \in Notification : m # n => note'[m] = note[m]
    BY <1>1, <1>6 DEF MarkSent, MarkFailed
  <2>4. /\ note'[n].attempts = note[n].attempts /\ note'[n].stale = note[n].stale
        /\ \/ note'[n].status = "sent" /\ bot[b].at = "delivered"
           \/ note'[n].status = "failed" /\ bot[b].at = "rejected"
    <3>1. CASE MarkSent(b, n)
      <4>1. note'[n] = [note[n] EXCEPT !.status = "sent", !.due = FALSE]
        BY <1>1, <3>1 DEF MarkSent
      <4> QED
        BY <1>1, <3>1, <4>1 DEF MarkSent, NotificationRow
    <3>2. CASE MarkFailed(b, n)
      <4>1. note'[n] = [note[n] EXCEPT !.status = "failed", !.due = FALSE]
        BY <1>1, <3>2 DEF MarkFailed
      <4> QED
        BY <1>1, <3>2, <4>1 DEF MarkFailed, NotificationRow
    <3> QED
      BY <1>6, <3>1, <3>2
  <2>5. \A c \in Bot : ~Sending(c, n)'
    BY <2>1, <2>2 DEF AllSound, Sound, Sending
  <2>6. Sound(n)'
    BY <1>1, <2>1, <2>2, <2>4, <2>5 DEF AllSound, Sound
  <2>7. ASSUME NEW m \in Notification, m # n
        PROVE  Sound(m)'
    BY <2>1, <2>2, <2>3, <2>7 DEF AllSound, Sound, Sending
  <2> QED
    BY <2>6, <2>7 DEF AllSound
<1>7. ASSUME NEW b \in Bot, Crash(b)
      PROVE  AllSound'
  <2>1. UNCHANGED <<note, delivered>> /\ faults' = faults + 1
    BY <1>7 DEF Crash
  <2>2. /\ \A c \in Bot : c # b => bot'[c] = bot[c]
        /\ bot'[b].note = NoNotification
    BY <1>1, <1>7 DEF Crash, IdleBot
  <2>3. ASSUME NEW n \in Notification
        PROVE  Sound(n)'
    <3>1. \A c \in Bot : Sending(c, n)' => Sending(c, n) /\ bot'[c] = bot[c]
      BY <2>2 DEF Sending
    <3>2. ~(delivered'[n] > faults')
      BY <1>1, <2>1 DEF AllSound, Sound
    <3> QED
      BY <1>1, <2>1, <3>1, <3>2 DEF AllSound, Sound
  <2> QED
    BY <2>3 DEF AllSound
<1>8. ASSUME NEW n \in Notification, RetryTimePasses(n) \/ StaleTimePasses(n)
      PROVE  AllSound'
  <2>1. UNCHANGED <<bot, delivered, faults>>
    BY <1>8 DEF RetryTimePasses, StaleTimePasses
  <2>2. \A m \in Notification : m # n => note'[m] = note[m]
    BY <1>1, <1>8 DEF RetryTimePasses, StaleTimePasses
  <2>3. /\ note'[n].status = note[n].status /\ note'[n].attempts = note[n].attempts
        /\ \/ note'[n].stale = note[n].stale
           \/ note[n].status = "sending" /\ \A c \in Bot : ~Sending(c, n)
    BY <1>1, <1>8 DEF RetryTimePasses, StaleTimePasses, NotificationRow
  <2> QED
    BY <2>1, <2>2, <2>3 DEF AllSound, Sound, Sending
<1>9. CASE UNCHANGED vars \/ \E g \in Target : ToggleTarget(g)
  BY <1>9 DEF vars, ToggleTarget, AllSound, Sound, Sending
<1> QED
  BY <1>2, <1>3, <1>4, <1>5, <1>6, <1>7, <1>8, <1>9 DEF Next, BotStep

LEMMA SoundInvariant == Spec => []AllSound
<1>1. Init => AllSound
  BY DeliveryAssumption DEF Init, AllSound, Sound, Sending, IdleBot
<1> QED
  BY <1>1, TypeCorrect, SoundStep, PTL DEF Spec

(* However many bots there are, a notification is with one of them at a time, *)
(* so complete and fail, which check no status, overwrite nobody's result.    *)
THEOREM SenderIsUnique == Spec => []OneSender
<1>1. AllSound => OneSender
  BY DEF AllSound, Sound, OneSender
<1> QED
  BY <1>1, SoundInvariant, PTL

(* A release is repeated in the chat at most once for each crash or lost      *)
(* answer, and never without one.                                             *)
THEOREM DuplicatesHaveCauses == Spec => []EveryDuplicateHasACause
<1>1. TypeOK /\ AllSound => EveryDuplicateHasACause
  BY DEF AllSound, Sound, EveryDuplicateHasACause, TypeOK
<1> QED
  BY <1>1, TypeCorrect, SoundInvariant, PTL

(* Retries, stale reclaims and repeated enqueues together send a notification *)
(* at most max_attempts times.                                                *)
THEOREM DeliveriesBounded == Spec => []DeliveriesAreBounded
<1>1. AllSound => DeliveriesAreBounded
  BY DEF AllSound, Sound, DeliveriesAreBounded
<1> QED
  BY <1>1, SoundInvariant, PTL

(* What is recorded as sent was delivered, and is not sent again.             *)
THEOREM SentStaysSent == Spec => SentIsFinal
<1> DEFINE Final == \A n \in Notification :
                      note[n].status = "sent" =>
                        delivered[n] > 0 /\ note'[n] = note[n] /\ delivered'[n] = delivered[n]
<1>1. TypeOK /\ AllSound /\ [Next]_vars => Final
  <2> SUFFICES ASSUME TypeOK, AllSound, [Next]_vars,
                      NEW n \in Notification, note[n].status = "sent"
               PROVE  delivered[n] > 0 /\ note'[n] = note[n] /\ delivered'[n] = delivered[n]
    OBVIOUS
  <2>1. /\ delivered[n] > 0
        /\ \A b \in Bot : ~Sending(b, n)
        /\ ~note[n].stale
    BY DEF AllSound, Sound
  <2> USE DEF TypeOK
  <2>2. ASSUME NEW m \in Notification, Enqueue(m)
        PROVE  note'[n] = note[n] /\ delivered' = delivered
    BY <2>2 DEF Enqueue, Rows
  <2>3. ASSUME NEW b \in Bot, NEW m \in Notification, Claim(b, m)
        PROVE  note'[n] = note[n] /\ delivered' = delivered
    <3>1. m # n
      BY <2>3, <2>1 DEF Claim, Eligible
    <3> QED
      BY <2>3, <3>1 DEF Claim
  <2>4. ASSUME NEW b \in Bot, NEW m \in Notification,
               \/ SendSucceeds(b, m) \/ SendIsRejected(b, m) \/ AnswerIsLost(b, m)
               \/ MarkSent(b, m) \/ MarkFailed(b, m)
        PROVE  note'[n] = note[n] /\ delivered'[n] = delivered[n]
    <3>1. m # n
      BY <2>4, <2>1 DEF SendSucceeds, SendIsRejected, AnswerIsLost, MarkSent, MarkFailed
    <3> QED
      BY <2>4, <3>1 DEF SendSucceeds, SendIsRejected, AnswerIsLost, MarkSent, MarkFailed
  <2>5. ASSUME NEW m \in Notification, RetryTimePasses(m) \/ StaleTimePasses(m)
        PROVE  note'[n] = note[n] /\ delivered' = delivered
    <3>1. m # n
      BY <2>5 DEF RetryTimePasses, StaleTimePasses
    <3> QED
      BY <2>5, <3>1 DEF RetryTimePasses, StaleTimePasses
  <2>6. ASSUME NEW b \in Bot, ClaimNone(b) \/ PollReturns(b) \/ Start(b) \/ Crash(b)
        PROVE  UNCHANGED <<note, delivered>>
    BY <2>6 DEF ClaimNone, PollReturns, Start, Crash
  <2>7. CASE UNCHANGED vars \/ \E g \in Target : ToggleTarget(g)
    BY <2>7, <2>1 DEF vars, ToggleTarget
  <2> QED
    BY <2>1, <2>2, <2>3, <2>4, <2>5, <2>6, <2>7 DEF Next, BotStep
<1> QED
  BY <1>1, TypeCorrect, SoundInvariant, PTL DEF Spec, SentIsFinal
=============================================================================
