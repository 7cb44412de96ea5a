---------------------------- MODULE ActionQuota ----------------------------
(***************************************************************************)
(* The hourly quota and the cooldown of public actions: the table          *)
(* public_action_requests and the SQL function claim_public_action, which  *)
(* any number of web processes call.  A transaction reads its clock when   *)
(* it begins and then waits for the advisory lock of its actor, so the     *)
(* rows are not inserted in the order of their time stamps.                *)
(***************************************************************************)
EXTENDS Naturals, Sequences, FiniteSets

CONSTANTS Web,        \* web processes; each serves one request at a time
          Actor,      \* hashed client addresses
          Key,        \* hashed queries
          Limit,      \* requests per window, for each action
          Window,     \* 3600 seconds, in ticks of the clock
          Cooldown,   \* ota_public_cache_ttl_seconds, in ticks
          MaxClock    \* bound of the clock

Action == {"ota", "resolve"}

ASSUME QuotaAssumption ==
  /\ Limit \in [Action -> Nat \ {0}]
  /\ Window \in Nat /\ Cooldown \in Nat \ {0} /\ MaxClock \in Nat
  /\ Actor # {} /\ Key # {}

VARIABLES clock,      \* the database's clock
          claims,     \* the rows of public_action_requests, as inserted
          claiming,   \* the call each web process makes
          told        \* the last refusal, until the next row is inserted

quotaVars == <<clock, claims, claiming, told>>

Subject == [actor : Actor, action : Action, key : Key]
AnySubject == CHOOSE s \in Subject : TRUE
Call == [at : {"no", "called", "waiting"}, subject : Subject,
         cooldown : Nat, now : Nat]
NoCall == [at |-> "no", subject |-> AnySubject, cooldown |-> 0, now |-> 0]

\* `cooled' marks rows that were claimed with a cooldown, that is, without a
\* cached answer.
ClaimRow == [subject : Subject, at : Nat, cooled : BOOLEAN]
NotTold == [why |-> "nothing", subject |-> AnySubject, until |-> 0]

QuotaInit ==
  /\ clock = 0
  /\ claims = <<>>
  /\ claiming = [w \in Web |-> NoCall]
  /\ told = NotTold

Tick ==
  /\ clock < MaxClock
  /\ clock' = clock + 1
  /\ UNCHANGED <<claims, claiming, told>>

---------------------------------------------------------------------------
(* claim_public_action                                                     *)

SameClient(s, r) == s.actor = r.actor /\ s.action = r.action

Mine(s) == {i \in DOMAIN claims : SameClient(claims[i].subject, s)}

\* Mutant: requests that began later, but were faster, are not counted.
CountedUpToNow(s, now) ==
  {i \in Mine(s) : claims[i].at + Window >= now /\ claims[i].at <= now}

\* created_at >= v_now - p_window_seconds
Counted(s, now) == {i \in Mine(s) : claims[i].at + Window >= now}

QuotaFull(s, now) == Cardinality(Counted(s, now)) >= Limit[s.action]

\* v_oldest: the oldest of the latest p_limit rows of the window.
Oldest(s, now) ==
  LET rows == Counted(s, now)
      IsOldest(t) ==
        /\ Cardinality({i \in rows : claims[i].at > t}) < Limit[s.action]
        /\ Cardinality({i \in rows : claims[i].at >= t}) >= Limit[s.action]
  IN  CHOOSE t \in {claims[i].at : i \in rows} : IsOldest(t)

OfKey(s) == {i \in Mine(s) : claims[i].subject = s}

\* Mutant: the row inserted last is taken for the latest one.
LatestInserted(s) ==
  claims[CHOOSE i \in OfKey(s) : \A j \in OfKey(s) : j <= i].at

\* v_latest_query: max(created_at)
Latest(s) ==
  CHOOSE t \in {claims[i].at : i \in OfKey(s)} : \A i \in OfKey(s) : claims[i].at <= t

Cooling(s, cooldown, now) ==
  cooldown > 0 /\ OfKey(s) # {} /\ Latest(s) + cooldown > now

\* Mutant: the seconds are truncated, as the repository in memory does.
WaitTruncated(until, now) == IF until > now + 1 THEN until - now - 1 ELSE 1

\* retry_after_seconds: at least 1
Wait(until, now) == IF until > now THEN until - now ELSE 1

\* The challenge is passed and the repository called.
CallClaim(w, s, cooldown) ==
  /\ claiming[w].at = "no"
  /\ claiming' = [claiming EXCEPT ![w] = [at |-> "called", subject |-> s,
                                          cooldown |-> cooldown, now |-> 0]]
  /\ UNCHANGED <<clock, claims, told>>

\* The transaction begins: v_now and created_at are both its now().
BeginClaim(w) ==
  /\ claiming[w].at = "called"
  /\ claiming' = [claiming EXCEPT ![w].at = "waiting", ![w].now = clock]
  /\ UNCHANGED <<clock, claims, told>>

\* Mutant: the row is stamped with the end of the cooldown it starts.
GrantStampingEnd(w) ==
  LET c == claiming[w] IN
  /\ c.at = "waiting"
  /\ ~QuotaFull(c.subject, c.now)
  /\ ~Cooling(c.subject, c.cooldown, c.now)
  /\ claims' = Append(claims, [subject |-> c.subject, at |-> c.now + c.cooldown,
                               cooled |-> c.cooldown > 0])
  /\ claiming' = [claiming EXCEPT ![w] = NoCall]
  /\ told' = IF SameClient(told.subject, c.subject) THEN NotTold ELSE told
  /\ UNCHANGED clock

\* With the lock: the row is inserted ...
Grant(w) ==
  LET c == claiming[w] IN
  /\ c.at = "waiting"
  /\ ~QuotaFull(c.subject, c.now)
  /\ ~Cooling(c.subject, c.cooldown, c.now)
  /\ claims' = Append(claims, [subject |-> c.subject, at |-> c.now, cooled |-> c.cooldown > 0])
  /\ claiming' = [claiming EXCEPT ![w] = NoCall]
  /\ told' = IF SameClient(told.subject, c.subject) THEN NotTold ELSE told
  /\ UNCHANGED clock

\* ... or the caller is told how long to wait, for the quota or the cooldown.
Refusal(c) ==
  IF QuotaFull(c.subject, c.now)
  THEN [why |-> "quota", subject |-> c.subject,
        until |-> c.now + Wait(Oldest(c.subject, c.now) + Window, c.now)]
  ELSE [why |-> "cooldown", subject |-> c.subject,
        until |-> c.now + Wait(Latest(c.subject) + c.cooldown, c.now)]

Refuse(w) ==
  LET c == claiming[w] IN
  /\ c.at = "waiting"
  /\ QuotaFull(c.subject, c.now) \/ Cooling(c.subject, c.cooldown, c.now)
  /\ told' = Refusal(c)
  /\ claiming' = [claiming EXCEPT ![w] = NoCall]
  /\ UNCHANGED <<clock, claims>>

\* The call raises; if the answer to a granted claim is lost, the row stays.
ClaimRaises(w) ==
  /\ claiming[w].at # "no"
  /\ claiming' = [claiming EXCEPT ![w] = NoCall]
  /\ UNCHANGED <<clock, claims, told>>

ClaimStep(w) ==
  \/ \E s \in Subject, cooldown \in {0, Cooldown} : CallClaim(w, s, cooldown)
  \/ BeginClaim(w)
  \/ Grant(w)
  \/ Refuse(w)
  \/ ClaimRaises(w)

QuotaNext == Tick \/ \E w \in Web : ClaimStep(w)
QuotaSpec == QuotaInit /\ [][QuotaNext]_quotaVars

---------------------------------------------------------------------------
(* Properties.                                                             *)

\* Besides the types: no row and no transaction is stamped in the future.
QuotaTypeOK ==
  /\ clock \in 0..MaxClock
  /\ claims \in Seq(ClaimRow)
  /\ \A i \in DOMAIN claims : claims[i].at <= clock
  /\ claiming \in [Web -> Call]
  /\ \A w \in Web : claiming[w].now <= clock /\ claiming[w].cooldown \in {0, Cooldown}
  /\ told.why \in {"nothing", "quota", "cooldown"}
  /\ told.subject \in Subject

\* No client gets more than the limit in any hour, wherever the hour begins,
\* although a request that waited for the lock carries an older time stamp
\* than rows inserted before it and is judged by that stamp.
QuotaHolds ==
  \A a \in Actor, k \in Action, t \in 0..MaxClock :
    Cardinality({i \in DOMAIN claims : /\ claims[i].subject.actor = a
                                       /\ claims[i].subject.action = k
                                       /\ t <= claims[i].at
                                       /\ claims[i].at <= t + Window}) <= Limit[k]

\* The same query of a client goes upstream at most once per cooldown, although
\* cached answers, which ask for no cooldown, and calls that waited for the lock
\* leave rows of older stamp behind newer ones.
LiveQueriesAreSpaced ==
  \A j \in DOMAIN claims : \A i \in 1..(j - 1) :
    /\ claims[i].subject = claims[j].subject
    /\ claims[i].cooled /\ claims[j].cooled
    => claims[i].at + Cooldown <= claims[j].at

\* Who waited longer than Retry-After said, and was granted nothing meanwhile
\* (then told is reset), is not refused again for the same reason.
RetryAfterIsEnough ==
  [][\A w \in Web :
       LET c == claiming[w] IN
       /\ Refuse(w)
       /\ c.subject = told.subject
       /\ told.until < c.now
       => told'.why # told.why]_quotaVars

\* What a comment says of the code: a refusal for the quota means that the
\* client used it up with requests that were not answered from the cache.
CachedAnswersAreFree ==
  [][\A w \in Web :
       LET c == claiming[w] IN
       /\ Refuse(w)
       /\ c.subject.action = "ota"
       /\ QuotaFull(c.subject, c.now)
       => Cardinality({i \in Counted(c.subject, c.now) : claims[i].cooled})
            >= Limit["ota"]]_quotaVars
=============================================================================
