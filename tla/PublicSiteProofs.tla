-------------------------- MODULE PublicSiteProofs --------------------------
(***************************************************************************)
(* Proofs about the public site, for any processes, queries, links, DNS    *)
(* answers, answers of upstream and other writers.  First the quota by     *)
(* itself; then the site: it uses the quota as specified, contacts only    *)
(* what was checked, and caches only what the provider answered; last the  *)
(* searches of the provider: while one goes on, all that lies before it    *)
(* was asked for and answered without a release, and found_no_release      *)
(* remembers only what upstream said of the current candidate.             *)
(***************************************************************************)
EXTENDS PublicSite, FiniteSetTheorems, WellFoundedInduction, TLAPS

---------------------------------------------------------------------------
(* Types.                                                                  *)

LEMMA AnySubjectTyped == AnySubject \in Subject
<1>1. PICK a \in Actor, k \in Key : TRUE
  BY QuotaAssumption
<1>2. [actor |-> a, action |-> "ota", key |-> k] \in Subject
  BY DEF Subject, Action
<1> QED BY <1>2 DEF AnySubject

LEMMA RowTyped ==
  ASSUME QuotaTypeOK, NEW i \in DOMAIN claims
  PROVE  /\ claims[i].subject \in Subject /\ claims[i].at \in Nat
         /\ claims[i].cooled \in BOOLEAN
<1>1. claims \in Seq(ClaimRow)
  BY DEF QuotaTypeOK
<1>2. claims[i] \in ClaimRow
  BY <1>1
<1> QED BY <1>2 DEF ClaimRow

LEMMA NoCallTyped == NoCall \in Call
BY AnySubjectTyped DEF NoCall, Call

LEMMA QuotaTypeInit == QuotaInit => QuotaTypeOK
BY AnySubjectTyped, NoCallTyped, QuotaAssumption DEF QuotaInit, QuotaTypeOK, NotTold, NoCall

LEMMA ReplacedCall ==
  ASSUME QuotaTypeOK, NEW w \in Web, NEW c \in Call, c.now <= clock, c.cooldown \in {0, Cooldown},
         claiming' = [claiming EXCEPT ![w] = c], clock' = clock
  PROVE  /\ claiming' \in [Web -> Call]
         /\ \A v \in Web : claiming'[v].now <= clock' /\ claiming'[v].cooldown \in {0, Cooldown}
BY DEF QuotaTypeOK

LEMMA QuotaTypeStep == QuotaTypeOK /\ [QuotaNext]_quotaVars => QuotaTypeOK'
<1> SUFFICES ASSUME QuotaTypeOK, [QuotaNext]_quotaVars PROVE QuotaTypeOK'
  OBVIOUS
<1> USE QuotaAssumption
<1>1. CASE UNCHANGED quotaVars
  BY <1>1 DEF quotaVars, QuotaTypeOK
<1>2. CASE Tick
  <2>1. /\ clock' \in 0..MaxClock /\ clock <= clock'
        /\ \A n \in Nat : n <= clock => n <= clock'
    BY <1>2 DEF Tick, QuotaTypeOK
  <2>2. UNCHANGED <<claims, claiming, told>>
    BY <1>2 DEF Tick
  <2>3. \A i \in DOMAIN claims : claims[i].at \in Nat
    BY RowTyped
  <2>4. \A w \in Web : claiming[w].now \in Nat
    BY DEF QuotaTypeOK, Call
  <2> QED BY <2>1, <2>2, <2>3, <2>4 DEF QuotaTypeOK
<1>3. ASSUME NEW w \in Web, ClaimStep(w) PROVE QuotaTypeOK'
  <2> DEFINE c == claiming[w]
  <2>1. c \in Call /\ c.now \in Nat /\ c.now <= clock /\ c.cooldown \in {0, Cooldown}
    BY DEF QuotaTypeOK, Call
  <2>2. c.subject \in Subject
    BY <2>1 DEF Call
  <2>3. clock \in Nat /\ 0 <= clock
    BY DEF QuotaTypeOK
  <2>4. NoCall.now = 0 /\ NoCall.cooldown = 0
    BY DEF NoCall
  <2>5. ASSUME NEW s \in Subject, NEW cooldown \in {0, Cooldown}, CallClaim(w, s, cooldown)
        PROVE  QuotaTypeOK'
    <3> DEFINE d == [at |-> "called", subject |-> s, cooldown |-> cooldown, now |-> 0]
    <3>1. d \in Call
      BY DEF Call
    <3>2. claiming' = [claiming EXCEPT ![w] = d] /\ UNCHANGED <<clock, claims, told>>
      BY <2>5 DEF CallClaim
    <3> QED BY <2>3, <3>1, <3>2, ReplacedCall DEF QuotaTypeOK
  <2>6. CASE BeginClaim(w)
    <3> DEFINE d == [c EXCEPT !.at = "waiting", !.now = clock]
    <3>1. d \in Call /\ d.now = clock /\ d.cooldown = c.cooldown
      BY <2>1, <2>3 DEF Call
    <3>2. claiming' = [claiming EXCEPT ![w] = d]
      BY <2>6 DEF BeginClaim, QuotaTypeOK
    <3>3. UNCHANGED <<clock, claims, told>>
      BY <2>6 DEF BeginClaim
    <3>4. clock <= clock
      BY <2>3
    <3> HIDE DEF d, c
    <3> QED BY <2>1, <2>3, <3>1, <3>2, <3>3, <3>4, ReplacedCall DEF QuotaTypeOK
  <2>7. CASE Grant(w)
    <3> DEFINE row == [subject |-> c.subject, at |-> c.now, cooled |-> c.cooldown > 0]
    <3>1. row \in ClaimRow /\ row.at <= clock
      BY <2>1, <2>2 DEF ClaimRow
    <3>2. claims' = Append(claims, row) /\ clock' = clock
      BY <2>7 DEF Grant
    <3>3. claims' \in Seq(ClaimRow) /\ \A i \in DOMAIN claims' : claims'[i].at <= clock'
      <4> HIDE DEF row
      <4> QED BY <3>1, <3>2 DEF QuotaTypeOK
    <3>4. claiming' = [claiming EXCEPT ![w] = NoCall]
      BY <2>7 DEF Grant
    <3>5. told' \in {told, NotTold}
      BY <2>7 DEF Grant
    <3>6. told'.why \in {"nothing", "quota", "cooldown"} /\ told'.subject \in Subject
      BY <3>5, AnySubjectTyped DEF NotTold, QuotaTypeOK
    <3>7. /\ claiming' \in [Web -> Call]
          /\ \A v \in Web : claiming'[v].now <= clock' /\ claiming'[v].cooldown \in {0, Cooldown}
      BY <2>3, <2>4, <3>2, <3>4, NoCallTyped, ReplacedCall
    <3> QED BY <3>2, <3>3, <3>6, <3>7 DEF QuotaTypeOK
  <2>8. CASE Refuse(w) \/ ClaimRaises(w)
    <3>1. claiming' = [claiming EXCEPT ![w] = NoCall] /\ UNCHANGED <<clock, claims>>
      BY <2>8 DEF Refuse, ClaimRaises
    <3>2. told' \in {told, Refusal(c)}
      BY <2>8 DEF Refuse, ClaimRaises
    <3>3. told'.why \in {"nothing", "quota", "cooldown"} /\ told'.subject \in Subject
      BY <2>2, <3>2 DEF Refusal, QuotaTypeOK
    <3>4. /\ claiming' \in [Web -> Call]
          /\ \A v \in Web : claiming'[v].now <= clock' /\ claiming'[v].cooldown \in {0, Cooldown}
      BY <2>3, <2>4, <3>1, NoCallTyped, ReplacedCall
    <3> QED BY <3>1, <3>3, <3>4 DEF QuotaTypeOK
  <2> QED BY <1>3, <2>5, <2>6, <2>7, <2>8 DEF ClaimStep
<1> QED BY <1>1, <1>2, <1>3 DEF QuotaNext

\* The table's rows and the calls in flight keep their types, and none is
\* stamped in the future.
THEOREM QuotaIsTyped == QuotaSpec => []QuotaTypeOK
BY QuotaTypeInit, QuotaTypeStep, PTL DEF QuotaSpec

---------------------------------------------------------------------------
(* The quota.  When a row is inserted, the rows of its client that lie     *)
(* with it in some window were counted, whatever their order of insertion. *)

InWindow(a, k, t) == {i \in DOMAIN claims : /\ claims[i].subject.actor = a
                                            /\ claims[i].subject.action = k
                                            /\ t <= claims[i].at
                                            /\ claims[i].at <= t + Window}

LEMMA RowsFinite ==
  ASSUME QuotaTypeOK, NEW S \in SUBSET DOMAIN claims
  PROVE  IsFiniteSet(S) /\ Cardinality(S) \in Nat
<1>1. DOMAIN claims = 1..Len(claims) /\ Len(claims) \in Nat
  BY DEF QuotaTypeOK
<1>2. IsFiniteSet(DOMAIN claims)
  BY <1>1, FS_Interval
<1> QED BY <1>2, FS_Subset, FS_CardinalityType

LEMMA QuotaHoldsInit == QuotaInit => QuotaHolds
BY FS_EmptySet, QuotaAssumption DEF QuotaInit, QuotaHolds, Action

LEMMA QuotaHoldsStep ==
  QuotaTypeOK /\ QuotaHolds /\ [QuotaNext]_quotaVars => QuotaHolds'
<1> SUFFICES ASSUME QuotaTypeOK, QuotaHolds, [QuotaNext]_quotaVars PROVE QuotaHolds'
  OBVIOUS
<1>1. CASE UNCHANGED claims
  BY <1>1 DEF QuotaHolds
<1>2. ASSUME NEW w \in Web, Grant(w) PROVE QuotaHolds'
  <2> DEFINE c == claiming[w]
             new == Len(claims) + 1
  <2>1. c.subject \in Subject /\ c.now \in Nat
    BY DEF QuotaTypeOK, Call
  <2>2. claims \in Seq(ClaimRow) /\ Len(claims) \in Nat /\ DOMAIN claims = 1..Len(claims)
    BY DEF QuotaTypeOK
  <2>3. /\ DOMAIN claims' = DOMAIN claims \cup {new}
        /\ \A i \in DOMAIN claims : claims'[i] = claims[i]
        /\ claims'[new].subject = c.subject /\ claims'[new].at = c.now
    BY <1>2, <2>2 DEF Grant
  <2> SUFFICES ASSUME NEW a \in Actor, NEW k \in Action, NEW t \in 0..MaxClock
               PROVE  Cardinality(InWindow(a, k, t)') <= Limit[k]
    BY DEF QuotaHolds, InWindow
  <2>4. InWindow(a, k, t) \in SUBSET DOMAIN claims
    BY DEF InWindow
  <2>5. CASE /\ c.subject.actor = a /\ c.subject.action = k
             /\ t <= c.now /\ c.now <= t + Window
    <3>1. InWindow(a, k, t) \subseteq Counted(c.subject, c.now)
      <4> SUFFICES ASSUME NEW i \in InWindow(a, k, t)
                   PROVE  i \in Counted(c.subject, c.now)
        OBVIOUS
      <4>1. i \in DOMAIN claims /\ claims[i].at \in Nat /\ t <= claims[i].at
        BY RowTyped DEF InWindow
      <4>2. claims[i].at + Window >= c.now
        BY <2>1, <2>5, <4>1, QuotaAssumption
      <4>3. SameClient(claims[i].subject, c.subject)
        BY <2>5 DEF InWindow, SameClient
      <4> QED BY <4>1, <4>2, <4>3 DEF Counted, Mine
    <3>2. Counted(c.subject, c.now) \in SUBSET DOMAIN claims
      BY DEF Counted, Mine
    <3>3. Cardinality(Counted(c.subject, c.now)) < Limit[k]
      <4>1. ~(Cardinality(Counted(c.subject, c.now)) >= Limit[k])
        BY <1>2, <2>5 DEF Grant, QuotaFull
      <4> QED BY <3>2, <4>1, RowsFinite, QuotaAssumption
    <3>4. Cardinality(InWindow(a, k, t)) <= Cardinality(Counted(c.subject, c.now))
      BY <3>1, <3>2, RowsFinite, FS_Subset
    <3>5. InWindow(a, k, t)' = InWindow(a, k, t) \cup {new}
      BY <2>3, <2>5 DEF InWindow
    <3>6. new \notin InWindow(a, k, t)
      BY <2>2, <2>4
    <3>7. Cardinality(InWindow(a, k, t)') = Cardinality(InWindow(a, k, t)) + 1
      BY <2>4, <3>5, <3>6, RowsFinite, FS_AddElement
    <3> QED BY <2>4, <3>2, <3>3, <3>4, <3>7, RowsFinite, QuotaAssumption
  <2>6. CASE ~(/\ c.subject.actor = a /\ c.subject.action = k
               /\ t <= c.now /\ c.now <= t + Window)
    <3>1. InWindow(a, k, t)' = InWindow(a, k, t)
      BY <2>2, <2>3, <2>6 DEF InWindow
    <3> QED BY <3>1 DEF QuotaHolds, InWindow
  <2> QED BY <2>5, <2>6
<1>3. ASSUME NEW w \in Web, ClaimStep(w) PROVE QuotaHolds'
  BY <1>1, <1>2, <1>3 DEF ClaimStep, CallClaim, BeginClaim, Refuse, ClaimRaises
<1> QED BY <1>1, <1>3 DEF QuotaNext, Tick, quotaVars

\* No client gets more than the limit in any window, though a transaction that
\* waited for the lock is judged by a clock it read before: for all limits.
THEOREM QuotaAlwaysHolds == QuotaSpec => []QuotaHolds
BY QuotaTypeInit, QuotaTypeStep, QuotaHoldsInit, QuotaHoldsStep, PTL DEF QuotaSpec

---------------------------------------------------------------------------
(* The cooldown.  The latest row of a query exists, although the rows are  *)
(* not ordered by time, because their stamps are natural numbers up to the *)
(* clock.                                                                  *)

LEMMA GreatestBelow ==
  ASSUME NEW n \in Nat, NEW S \in SUBSET (0..n), S # {}
  PROVE  \E t \in S : \A u \in S : u <= t
<1> DEFINE T == {m \in Nat : m <= n /\ n - m \in S}
<1>1. T \subseteq Nat /\ T # {}
  <2>1. PICK t \in S : TRUE
    OBVIOUS
  <2>2. n - t \in Nat /\ n - t <= n /\ n - (n - t) = t
    BY <2>1
  <2> QED BY <2>1, <2>2
<1>2. PICK m \in T : \A k \in T : ~(<<k, m>> \in OpToRel(<, Nat))
  <2> HIDE DEF T
  <2> QED BY <1>1, WFMin, NatLessThanWellFounded
<1>3. ASSUME NEW k \in T PROVE m <= k
  <2>1. ~(<<k, m>> \in OpToRel(<, Nat))
    BY <1>2
  <2>2. k \in Nat /\ m \in Nat
    BY <1>1
  <2>3. ~(k < m)
    BY <2>1, <2>2 DEF OpToRel
  <2> QED BY <2>2, <2>3
<1>4. n - m \in S
  OBVIOUS
<1>5. ASSUME NEW u \in S PROVE u <= n - m
  <2>1. u \in 0..n /\ n - u \in T
    <3>1. u \in 0..n
      OBVIOUS
    <3>2. n - u \in Nat /\ n - u <= n /\ n - (n - u) = u
      BY <3>1
    <3> QED BY <3>1, <3>2
  <2>2. m <= n - u
    BY <1>3, <2>1
  <2> QED BY <2>1, <2>2
<1> QED BY <1>4, <1>5

LEMMA LatestIsLatest ==
  ASSUME QuotaTypeOK, NEW s, OfKey(s) # {}
  PROVE  Latest(s) \in Nat /\ \A i \in OfKey(s) : claims[i].at <= Latest(s)
<1> DEFINE S == {claims[i].at : i \in OfKey(s)}
<1>1. clock \in Nat /\ OfKey(s) \subseteq DOMAIN claims
  BY QuotaAssumption DEF QuotaTypeOK, OfKey, Mine
<1>2. \A i \in OfKey(s) : claims[i].at \in 0..clock
  BY <1>1, RowTyped DEF QuotaTypeOK
<1>3. S \in SUBSET (0..clock) /\ S # {}
  BY <1>2
<1>4. PICK t \in S : \A u \in S : u <= t
  <2> HIDE DEF S
  <2> QED BY <1>1, <1>3, GreatestBelow
<1>5. \A i \in OfKey(s) : claims[i].at <= t
  BY <1>4
<1>6. Latest(s) \in S /\ \A i \in OfKey(s) : claims[i].at <= Latest(s)
  BY <1>4, <1>5 DEF Latest
<1> QED BY <1>3, <1>6

LEMMA SpacedInit == QuotaInit => LiveQueriesAreSpaced
BY DEF QuotaInit, LiveQueriesAreSpaced

LEMMA SpacedStep ==
  QuotaTypeOK /\ LiveQueriesAreSpaced /\ [QuotaNext]_quotaVars => LiveQueriesAreSpaced'
<1> SUFFICES ASSUME QuotaTypeOK, LiveQueriesAreSpaced, [QuotaNext]_quotaVars
             PROVE  LiveQueriesAreSpaced'
  OBVIOUS
<1>1. CASE UNCHANGED claims
  BY <1>1 DEF LiveQueriesAreSpaced
<1>2. ASSUME NEW w \in Web, Grant(w) PROVE LiveQueriesAreSpaced'
  <2> DEFINE c == claiming[w]
             new == Len(claims) + 1
  <2>1. c.subject \in Subject /\ c.now \in Nat /\ c.cooldown \in {0, Cooldown}
    BY DEF QuotaTypeOK, Call
  <2>2. claims \in Seq(ClaimRow) /\ Len(claims) \in Nat /\ DOMAIN claims = 1..Len(claims)
    BY DEF QuotaTypeOK
  <2>3. /\ DOMAIN claims' = DOMAIN claims \cup {new}
        /\ \A i \in DOMAIN claims : claims'[i] = claims[i]
        /\ claims'[new].subject = c.subject /\ claims'[new].at = c.now
        /\ claims'[new].cooled = (c.cooldown > 0)
    BY <1>2, <2>2 DEF Grant
  <2> SUFFICES ASSUME NEW j \in DOMAIN claims', NEW i \in 1..(j - 1),
                      claims'[i].subject = claims'[j].subject,
                      claims'[i].cooled, claims'[j].cooled
               PROVE  claims'[i].at + Cooldown <= claims'[j].at
    BY DEF LiveQueriesAreSpaced
  <2>4. j \in DOMAIN claims \/ j = new
    BY <2>3
  <2>5. i \in DOMAIN claims /\ claims'[i] = claims[i]
    BY <2>2, <2>3, <2>4
  <2>6. CASE j \in DOMAIN claims
    BY <2>3, <2>5, <2>6 DEF LiveQueriesAreSpaced
  <2>7. CASE j = new
    <3>1. i \in OfKey(c.subject)
      BY <2>3, <2>5, <2>7 DEF OfKey, Mine, SameClient
    <3>2. c.cooldown = Cooldown /\ Cooldown > 0
      <4>1. claims'[new].cooled
        BY <2>7
      <4>2. c.cooldown > 0
        BY <2>3, <4>1
      <4> QED BY <2>1, <4>2, QuotaAssumption
    <3>3. ~(Latest(c.subject) + Cooldown > c.now)
      BY <1>2, <3>1, <3>2 DEF Grant, Cooling
    <3>4. Latest(c.subject) \in Nat /\ claims[i].at <= Latest(c.subject)
      BY <3>1, LatestIsLatest
    <3>5. claims[i].at \in Nat
      BY <2>5, RowTyped
    <3> QED BY <2>1, <2>3, <2>5, <2>7, <3>3, <3>4, <3>5, QuotaAssumption
  <2> QED BY <2>4, <2>6, <2>7
<1>3. ASSUME NEW w \in Web, ClaimStep(w) PROVE LiveQueriesAreSpaced'
  BY <1>1, <1>2, <1>3 DEF ClaimStep, CallClaim, BeginClaim, Refuse, ClaimRaises
<1> QED BY <1>1, <1>3 DEF QuotaNext, Tick, quotaVars

\* The live queries of a client with one key are a cooldown apart, though cached
\* answers and late transactions leave rows between them: for all cooldowns.
THEOREM LiveQueriesStaySpaced == QuotaSpec => []LiveQueriesAreSpaced
BY QuotaTypeInit, QuotaTypeStep, SpacedInit, SpacedStep, PTL DEF QuotaSpec

---------------------------------------------------------------------------
(* Retry-After.  Whoever waits longer than a refusal says finds its reason *)
(* gone: a full window has room again once its oldest row that counts has  *)
(* left it, however the rows' stamps are ordered.                          *)

LEMMA OldestIsOldest ==
  ASSUME QuotaTypeOK, NEW s \in Subject, NEW now \in Nat, QuotaFull(s, now)
  PROVE  /\ Oldest(s, now) \in Nat
         /\ Cardinality({i \in Counted(s, now) : claims[i].at > Oldest(s, now)})
              < Limit[s.action]
<1> DEFINE rows == Counted(s, now)
           From(t) == {i \in rows : claims[i].at >= t}
           After(t) == {i \in rows : claims[i].at > t}
           T == {t \in 0..clock : Cardinality(From(t)) >= Limit[s.action]}
<1>1. clock \in Nat /\ Limit[s.action] \in Nat \ {0}
  BY QuotaAssumption DEF QuotaTypeOK, Subject
<1>2. \A i \in rows : i \in DOMAIN claims /\ claims[i].at \in Nat /\ claims[i].at <= clock
  BY RowTyped DEF QuotaTypeOK, Counted, Mine
<1>3. \A t : Cardinality(From(t)) \in Nat
  BY <1>2, RowsFinite
<1>4. Cardinality(rows) >= Limit[s.action]
  BY DEF QuotaFull
<1> HIDE DEF rows
<1>5. 0 \in T
  <2>1. From(0) = rows
    BY <1>2
  <2> QED BY <1>1, <1>4, <2>1
<1>6. PICK t \in T : \A u \in T : u <= t
  <2>1. T \in SUBSET (0..clock) /\ T # {}
    BY <1>5
  <2> HIDE DEF T
  <2> QED BY <1>1, <2>1, GreatestBelow
<1>7. t \in Nat /\ t <= clock /\ Cardinality(From(t)) >= Limit[s.action]
  BY <1>6
<1>8. Cardinality(From(t + 1)) < Limit[s.action]
  <2>1. CASE t + 1 <= clock
    <3>1. t + 1 \in 0..clock /\ ~(t + 1 <= t)
      BY <1>1, <1>7, <2>1
    <3>2. ~(Cardinality(From(t + 1)) >= Limit[s.action])
      BY <1>6, <3>1
    <3> HIDE DEF From
    <3> QED BY <1>1, <1>3, <3>2
  <2>2. CASE ~(t + 1 <= clock)
    <3>1. From(t + 1) = {}
      BY <1>1, <1>2, <1>7, <2>2
    <3>2. Cardinality(From(t + 1)) = 0
      BY <3>1, FS_EmptySet
    <3> QED BY <1>1, <3>2
  <2> QED BY <2>1, <2>2
<1>9. After(t) = From(t + 1)
  BY <1>2, <1>7
<1>10. \E i \in rows : claims[i].at = t
  <2>1. From(t) # From(t + 1)
    <3> HIDE DEF From
    <3> QED BY <1>1, <1>3, <1>7, <1>8
  <2>2. PICK i \in rows : claims[i].at >= t /\ ~(claims[i].at >= t + 1)
    BY <1>2, <1>7, <2>1
  <2> QED BY <1>2, <1>7, <2>2
<1> DEFINE IsOldest(u) == /\ Cardinality(After(u)) < Limit[s.action]
                         /\ Cardinality(From(u)) >= Limit[s.action]
           stamps == {claims[i].at : i \in rows}
<1>11. t \in stamps /\ IsOldest(t)
  BY <1>7, <1>8, <1>9, <1>10
<1>12. Oldest(s, now) = CHOOSE u \in stamps : IsOldest(u)
  BY DEF Oldest, rows
<1>13. Oldest(s, now) \in stamps /\ IsOldest(Oldest(s, now))
  <2> HIDE DEF IsOldest, stamps
  <2> QED BY <1>11, <1>12
<1>14. Oldest(s, now) \in Nat
  BY <1>2, <1>13
<1> QED BY <1>13, <1>14 DEF rows

LEMMA WaitIsEnough ==
  ASSUME NEW until \in Nat, NEW now \in Nat
  PROVE  Wait(until, now) \in Nat /\ until <= now + Wait(until, now)
BY DEF Wait

RoomAfter(s, until) == \A now \in Nat : until < now => ~QuotaFull(s, now)
CooledAfter(s, until) == \A now \in Nat : until < now => ~Cooling(s, Cooldown, now)

RetryInv ==
  /\ told.why = "quota" => told.until \in Nat /\ RoomAfter(told.subject, told.until)
  /\ told.why = "cooldown" => told.until \in Nat /\ CooledAfter(told.subject, told.until)

LEMMA RefusalIsEnough ==
  ASSUME QuotaTypeOK, NEW w \in Web, Refuse(w)
  PROVE  LET c == claiming[w]
             r == Refusal(c)
         IN  /\ r.until \in Nat
             /\ r.why = "quota" => RoomAfter(c.subject, r.until)
             /\ r.why = "cooldown" => CooledAfter(c.subject, r.until)
<1> DEFINE c == claiming[w]
           s == c.subject
           r == Refusal(c)
<1>1. s \in Subject /\ c.now \in Nat /\ c.cooldown \in {0, Cooldown}
  BY DEF QuotaTypeOK, Call
<1>2. Window \in Nat /\ Cooldown \in Nat \ {0} /\ Limit[s.action] \in Nat
  BY <1>1, QuotaAssumption DEF Subject
<1>3. CASE QuotaFull(s, c.now)
  <2> DEFINE old == Oldest(s, c.now)
  <2>1. old \in Nat
        /\ Cardinality({i \in Counted(s, c.now) : claims[i].at > old}) < Limit[s.action]
    BY <1>1, <1>3, OldestIsOldest
  <2>2. r.why = "quota" /\ r.until = c.now + Wait(old + Window, c.now)
    BY <1>3 DEF Refusal
  <2> HIDE DEF old, r
  <2>3. r.until \in Nat /\ old + Window <= r.until
    <3> DEFINE end == old + Window
               wait == Wait(end, c.now)
    <3>1. end \in Nat
      BY <1>2, <2>1
    <3>2. wait \in Nat /\ end <= c.now + wait
      BY <1>1, <3>1, WaitIsEnough
    <3>3. r.until = c.now + wait
      BY <2>2
    <3>4. c.now + wait \in Nat
      BY <1>1, <3>2
    <3> HIDE DEF end, wait
    <3>5. r.until \in Nat /\ end <= r.until
      BY <3>2, <3>3, <3>4
    <3> QED BY <3>5 DEF end
  <2>4. c.now <= r.until
    <3> DEFINE end == old + Window
               wait == Wait(end, c.now)
    <3>1. end \in Nat
      BY <1>2, <2>1
    <3>2. wait \in Nat
      BY <1>1, <3>1, WaitIsEnough
    <3>3. r.until = c.now + wait
      BY <2>2
    <3> HIDE DEF end, wait
    <3> QED BY <1>1, <3>2, <3>3
  <2>5. RoomAfter(s, r.until)
    <3> SUFFICES ASSUME NEW now \in Nat, r.until < now PROVE ~QuotaFull(s, now)
      BY DEF RoomAfter
    <3> DEFINE late == {i \in Counted(s, c.now) : claims[i].at > old}
    <3>1. Counted(s, now) \subseteq late
      <4> SUFFICES ASSUME NEW i \in Mine(s), claims[i].at + Window >= now
                   PROVE  claims[i].at + Window >= c.now /\ claims[i].at > old
        BY DEF Counted
      <4>1. claims[i].at \in Nat
        BY RowTyped DEF Mine
      <4> QED BY <1>1, <1>2, <2>1, <2>3, <2>4, <4>1
    <3>2. late \in SUBSET DOMAIN claims
      BY DEF Counted, Mine
    <3>3. Cardinality(Counted(s, now)) <= Cardinality(late)
      <4> HIDE DEF late
      <4> QED BY <3>1, <3>2, RowsFinite, FS_Subset
    <3>4. /\ Cardinality(late) \in Nat /\ Cardinality(Counted(s, now)) \in Nat
      <4> HIDE DEF late
      <4> QED BY <3>1, <3>2, RowsFinite
    <3>5. Cardinality(late) < Limit[s.action]
      BY <2>1
    <3> HIDE DEF late
    <3> QED BY <1>2, <3>3, <3>4, <3>5 DEF QuotaFull
  <2> QED BY <2>2, <2>3, <2>5 DEF r
<1>4. CASE ~QuotaFull(s, c.now)
  <2>1. Cooling(s, c.cooldown, c.now)
    BY <1>4 DEF Refuse
  <2>2. c.cooldown = Cooldown /\ OfKey(s) # {}
    BY <1>1, <1>2, <2>1 DEF Cooling
  <2>3. Latest(s) \in Nat
    BY <2>2, LatestIsLatest
  <2>4. r.why = "cooldown" /\ r.until = c.now + Wait(Latest(s) + Cooldown, c.now)
    BY <1>4, <2>2 DEF Refusal
  <2> HIDE DEF r
  <2>5. r.until \in Nat /\ Latest(s) + Cooldown <= r.until
    <3> DEFINE end == Latest(s) + Cooldown
               wait == Wait(end, c.now)
    <3>1. end \in Nat
      BY <1>2, <2>3
    <3>2. wait \in Nat /\ end <= c.now + wait
      BY <1>1, <3>1, WaitIsEnough
    <3>3. r.until = c.now + wait
      BY <2>4
    <3>4. c.now + wait \in Nat
      BY <1>1, <3>2
    <3> HIDE DEF end, wait
    <3>5. r.until \in Nat /\ end <= r.until
      BY <3>2, <3>3, <3>4
    <3> QED BY <3>5 DEF end
  <2>6. CooledAfter(s, r.until)
    BY <1>2, <2>3, <2>5 DEF CooledAfter, Cooling
  <2> QED BY <2>4, <2>5, <2>6 DEF r
<1> QED BY <1>3, <1>4

\* A row of one client leaves what is counted for the others alone.
LEMMA OthersRowsStay ==
  ASSUME QuotaTypeOK, NEW s \in Subject, NEW w \in Web, Grant(w),
         ~SameClient(s, claiming[w].subject)
  PROVE  /\ \A now : QuotaFull(s, now)' = QuotaFull(s, now)
         /\ \A now : Cooling(s, Cooldown, now)' = Cooling(s, Cooldown, now)
<1> DEFINE c == claiming[w]
           new == Len(claims) + 1
<1>1. claims \in Seq(ClaimRow) /\ Len(claims) \in Nat /\ DOMAIN claims = 1..Len(claims)
  BY DEF QuotaTypeOK
<1>2. /\ DOMAIN claims' = DOMAIN claims \cup {new}
      /\ \A i \in DOMAIN claims : claims'[i] = claims[i]
      /\ claims'[new].subject = c.subject
  BY <1>1 DEF Grant
<1>3. Mine(s)' = Mine(s)
  BY <1>1, <1>2 DEF Mine, SameClient
<1>4. \A i \in Mine(s) : claims'[i] = claims[i]
  BY <1>2 DEF Mine
<1>5. \A now : Counted(s, now)' = Counted(s, now)
  BY <1>3, <1>4 DEF Counted
<1>6. OfKey(s)' = OfKey(s) /\ OfKey(s) \subseteq Mine(s)
  BY <1>3, <1>4 DEF OfKey
<1>7. Latest(s)' = Latest(s)
  <2>1. {claims'[i].at : i \in OfKey(s)} = {claims[i].at : i \in OfKey(s)}
    BY <1>4, <1>6
  <2>2. \A t : (\A i \in OfKey(s) : claims'[i].at <= t)
               <=> (\A i \in OfKey(s) : claims[i].at <= t)
    BY <1>4, <1>6
  <2> QED BY <1>6, <2>1, <2>2 DEF Latest
<1> QED BY <1>5, <1>6, <1>7 DEF QuotaFull, Cooling

LEMMA RetryStep == QuotaTypeOK /\ RetryInv /\ [QuotaNext]_quotaVars => RetryInv'
<1> SUFFICES ASSUME QuotaTypeOK, RetryInv, [QuotaNext]_quotaVars PROVE RetryInv'
  OBVIOUS
<1>1. CASE UNCHANGED <<claims, told>>
  BY <1>1 DEF RetryInv, RoomAfter, CooledAfter, QuotaFull, Counted, Mine, Cooling, OfKey, Latest
<1>2. ASSUME NEW w \in Web, Grant(w) PROVE RetryInv'
  <2>1. CASE SameClient(told.subject, claiming[w].subject)
    <3>1. told' = NotTold
      BY <1>2, <2>1 DEF Grant
    <3> QED BY <3>1 DEF NotTold, RetryInv
  <2>2. CASE ~SameClient(told.subject, claiming[w].subject)
    <3>1. told' = told /\ told.subject \in Subject
      BY <1>2, <2>2 DEF Grant, QuotaTypeOK
    <3>2. /\ \A now : QuotaFull(told.subject, now)' = QuotaFull(told.subject, now)
          /\ \A now : Cooling(told.subject, Cooldown, now)' = Cooling(told.subject, Cooldown, now)
      BY <1>2, <2>2, <3>1, OthersRowsStay
    <3> QED BY <3>1, <3>2 DEF RetryInv, RoomAfter, CooledAfter
  <2> QED BY <2>1, <2>2
<1>3. ASSUME NEW w \in Web, Refuse(w) PROVE RetryInv'
  <2> DEFINE c == claiming[w]
             r == Refusal(c)
  <2>1. /\ r.until \in Nat
        /\ r.why = "quota" => RoomAfter(c.subject, r.until)
        /\ r.why = "cooldown" => CooledAfter(c.subject, r.until)
    BY <1>3, RefusalIsEnough
  <2>2. told' = r /\ claims' = claims /\ r.subject = c.subject
    BY <1>3 DEF Refuse, Refusal
  <2> HIDE DEF r, c
  <2>3. /\ \A s, now : QuotaFull(s, now)' = QuotaFull(s, now)
        /\ \A s, now : Cooling(s, Cooldown, now)' = Cooling(s, Cooldown, now)
    BY <2>2 DEF QuotaFull, Counted, Mine, Cooling, OfKey, Latest
  <2> QED BY <2>1, <2>2, <2>3 DEF RetryInv, RoomAfter, CooledAfter
<1>4. ASSUME NEW w \in Web, ClaimStep(w) PROVE RetryInv'
  BY <1>1, <1>2, <1>3, <1>4 DEF ClaimStep, CallClaim, BeginClaim, ClaimRaises
<1> QED BY <1>1, <1>4 DEF QuotaNext, Tick, quotaVars

\* A refusal's Retry-After is enough, for all limits, windows and cooldowns: who
\* waits longer and was granted nothing is not refused for the same reason.
THEOREM RetryAfterSuffices == QuotaSpec => RetryAfterIsEnough
<1> DEFINE Kept == \A w \in Web :
             LET c == claiming[w] IN
             /\ Refuse(w)
             /\ c.subject = told.subject
             /\ told.until < c.now
             => told'.why # told.why
<1>1. QuotaInit => RetryInv
  BY DEF QuotaInit, RetryInv, NotTold
<1>2. QuotaTypeOK /\ RetryInv => Kept
  <2> SUFFICES ASSUME QuotaTypeOK, RetryInv, NEW w \in Web, Refuse(w),
                      claiming[w].subject = told.subject, told.until < claiming[w].now
               PROVE  told'.why # told.why
    OBVIOUS
  <2> DEFINE c == claiming[w]
  <2>1. c.now \in Nat /\ c.cooldown \in {0, Cooldown}
    BY DEF QuotaTypeOK, Call
  <2>2. told' = Refusal(c)
    BY DEF Refuse
  <2>3. CASE QuotaFull(c.subject, c.now)
    <3>1. told'.why = "quota"
      BY <2>2, <2>3 DEF Refusal
    <3>2. told.why # "quota"
      BY <2>1, <2>3 DEF RetryInv, RoomAfter
    <3> QED BY <3>1, <3>2
  <2>4. CASE ~QuotaFull(c.subject, c.now)
    <3>1. told'.why = "cooldown"
      BY <2>2, <2>4 DEF Refusal
    <3>2. Cooling(c.subject, Cooldown, c.now)
      BY <2>1, <2>4, QuotaAssumption DEF Refuse, Cooling
    <3>3. told.why # "cooldown"
      BY <2>1, <3>2 DEF RetryInv, CooledAfter
    <3> QED BY <3>1, <3>3
  <2> QED BY <2>3, <2>4
<1>3. QuotaTypeOK /\ RetryInv => [Kept]_quotaVars
  BY <1>2
<1> HIDE DEF Kept
<1>4. QuotaSpec => [][Kept]_quotaVars
  BY <1>1, <1>3, QuotaTypeInit, QuotaTypeStep, RetryStep, PTL DEF QuotaSpec
<1> QED BY <1>4 DEF RetryAfterIsEnough, Kept

---------------------------------------------------------------------------
(* The site implements the specification of the quota.                     *)

SiteInv == site \in Site

LEMMA SiteInvStep == SiteInv /\ [Next]_vars => SiteInv'
BY DEF SiteInv, Next, PassTime, OthersStore, ReceiveOta, ReceiveLink, Serve, Claiming,
       OtaGranted, LinkGranted, LinkRefused, AskProvider, ProviderEnds, FollowLink, LinkEnds,
       Respond, vars

LEMMA QuotaStep == SiteInv /\ [Next]_vars => [QuotaNext]_quotaVars
<1> SUFFICES ASSUME SiteInv, [Next]_vars PROVE [QuotaNext]_quotaVars
  OBVIOUS
<1>1. CASE UNCHANGED quotaVars
  BY <1>1
<1>2. CASE PassTime
  BY <1>2 DEF PassTime, QuotaNext
<1>3. CASE OthersStore \/ UNCHANGED vars
  BY <1>3 DEF OthersStore, vars
<1>4. ASSUME NEW w \in site.webs, ReceiveOta(w) PROVE [QuotaNext]_quotaVars
  <2>1. PICK a \in Actor, q \in site.queries, persist \in site.persist : Prepare(w, a, q, persist)
    BY <1>4 DEF ReceiveOta
  <2>2. [actor |-> a, action |-> "ota", key |-> q] \in Subject /\ w \in Web
    BY SiteAssumption DEF Subject, Action, SiteInv
  <2>3. \E cooldown \in {0, Cooldown} :
          CallClaim(w, [actor |-> a, action |-> "ota", key |-> q], cooldown)
    BY <2>1 DEF Prepare
  <2> QED BY <2>2, <2>3 DEF QuotaNext, ClaimStep
<1>5. ASSUME NEW w \in site.webs, ReceiveLink(w) PROVE [QuotaNext]_quotaVars
  <2>1. PICK a \in Actor, u \in site.urls :
          CallClaim(w, [actor |-> a, action |-> "resolve", key |-> u], 0)
    BY <1>5 DEF ReceiveLink
  <2>2. [actor |-> a, action |-> "resolve", key |-> u] \in Subject /\ w \in Web
    BY SiteAssumption DEF Subject, Action, SiteInv
  <2> QED BY <2>1, <2>2 DEF QuotaNext, ClaimStep
<1>6. ASSUME NEW w \in site.webs, Serve(w) PROVE [QuotaNext]_quotaVars
  <2>1. w \in Web
    BY SiteAssumption DEF SiteInv
  <2>2. CASE Claiming(w) \/ OtaGranted(w) \/ LinkGranted(w) \/ LinkRefused(w)
    <3>1. BeginClaim(w) \/ Grant(w) \/ Refuse(w) \/ ClaimRaises(w)
      BY <2>2 DEF Claiming, ClaimFails, OtaGranted, ClaimSucceeds, LinkGranted, LinkRefused
    <3> QED BY <2>1, <3>1 DEF QuotaNext, ClaimStep
  <2>3. CASE AskProvider(w) \/ ProviderEnds(w) \/ FollowLink(w) \/ LinkEnds(w) \/ Respond(w)
    BY <2>3 DEF AskProvider, ProviderEnds, FollowLink, LinkEnds, Respond, RespondCached,
                StoreAnswer
  <2> QED BY <1>6, <2>2, <2>3 DEF Serve
<1> QED BY <1>2, <1>3, <1>4, <1>5, <1>6 DEF Next

\* What the routes, the cache and the resolver do with claims is what the
\* quota's specification allows: every route claims before it acts.
LEMMA SiteKeepsQuotaProtocol == Spec => QuotaSpec
<1>1. Init => SiteInv /\ QuotaInit
  BY DEF Init, SiteInv
<1> QED BY <1>1, SiteInvStep, QuotaStep, PTL DEF Spec, QuotaSpec

\* The types of the quota's tables, on the whole site.
THEOREM SiteIsTyped == Spec => []QuotaTypeOK
BY SiteKeepsQuotaProtocol, QuotaIsTyped, PTL

\* The quota of each client, on the whole site.
THEOREM SiteQuotaHolds == Spec => []QuotaHolds
BY SiteKeepsQuotaProtocol, QuotaAlwaysHolds, PTL

\* The cooldown of each query, on the whole site.
THEOREM SiteQueriesAreSpaced == Spec => []LiveQueriesAreSpaced
BY SiteKeepsQuotaProtocol, LiveQueriesStaySpaced, PTL

\* The promise of Retry-After, on the whole site.
THEOREM SiteRetryAfterSuffices == Spec => RetryAfterIsEnough
BY SiteKeepsQuotaProtocol, RetryAfterSuffices

---------------------------------------------------------------------------
(* The resolver.  A trip that is about to contact a host has one URL, which *)
(* was found safe with the answers of DNS that the trip still has.          *)

Vetted(u) == u \notin BadUrl \cup BadPort /\ Host[u] \in AllowedHost

TripOK(t) ==
  /\ {"at", "input", "url", "hop", "dns", "contacts", "verdict"} \subseteq DOMAIN t
  /\ t.hop \in 0..MaxRedirects
  /\ \A h \in DOMAIN t.dns : t.dns[h] \in Links!Address \cup {"none"}
  /\ \A u \in t.input : Vetted(u)
  /\ \A c \in t.contacts : c[1] \in AllowedHost /\ c[2] = "global"
  /\ t.at \in {"checking", "transformed", "redirected", "contacting"} => \E u : t.url = {u}
  /\ t.at = "contacting" =>
       \A u \in t.url : Vetted(u) /\ Host[u] \in DOMAIN t.dns /\ t.dns[Host[u]] = "global"

RowOK(row) ==
  /\ \A u \in row.input : Vetted(u)
  /\ row.url # {} <=> row.status = "success"
  /\ row.url \cap (Intermediate \cup BadUrl \cup BadPort) = {}

LinksInv ==
  /\ DOMAIN trip = Web
  /\ \A w \in Web : TripOK(trip[w])
  /\ \E n \in Nat : DOMAIN history = 1..n
  /\ \A i \in DOMAIN history : RowOK(history[i])

LEMMA HomeOK == TripOK(Links!Home)
BY SiteAssumption DEF TripOK, Links!Home, Links!Unknown

LEMMA LinksInvInit == Init => LinksInv
BY HomeOK DEF Init, Links!ResolverInit, LinksInv

LEMMA AppendedRow ==
  ASSUME LinksInv, NEW row, RowOK(row), history' = Append(history, row)
  PROVE  /\ \E n \in Nat : DOMAIN history' = 1..n
         /\ \A i \in DOMAIN history' : RowOK(history'[i])
BY DEF LinksInv

LEMMA TripReplaced ==
  ASSUME LinksInv, NEW w \in Web, NEW t, TripOK(t), trip' = [trip EXCEPT ![w] = t]
  PROVE  DOMAIN trip' = Web /\ \A v \in Web : TripOK(trip'[v])
BY DEF LinksInv

LEMMA EndedOK ==
  ASSUME NEW t, TripOK(t), NEW verdict
  PROVE  TripOK([t EXCEPT !.at = "ended", !.verdict = verdict])
<1> DEFINE e == [t EXCEPT !.at = "ended", !.verdict = verdict]
<1>1. /\ DOMAIN e = DOMAIN t
      /\ e.at = "ended" /\ e.input = t.input /\ e.hop = t.hop /\ e.dns = t.dns
      /\ e.contacts = t.contacts
  BY DEF TripOK
<1> HIDE DEF e
<1> QED BY <1>1 DEF TripOK

LEMMA RaiseKeeps ==
  ASSUME LinksInv, NEW w \in Web, NEW t, TripOK(t), NEW status, status # "success",
         Links!Raise(w, t, status)
  PROVE  LinksInv'
<1> DEFINE row == Links!Row(status, t.input, {})
           ended == [t EXCEPT !.at = "ended", !.verdict = status]
<1>1. RowOK(row)
  BY DEF RowOK, TripOK, Links!Row
<1>2. TripOK(ended)
  BY EndedOK
<1>3. history' = Append(history, row) /\ trip' = [trip EXCEPT ![w] = ended]
  BY DEF Links!Raise
<1> HIDE DEF row, ended
<1> QED BY <1>1, <1>2, <1>3, AppendedRow, TripReplaced DEF LinksInv

LEMMA BreakKeeps ==
  ASSUME LinksInv, NEW w \in Web, NEW t, TripOK(t), Links!Breaks(w, t)
  PROVE  LinksInv'
<1> DEFINE ended == [t EXCEPT !.at = "ended", !.verdict = "raised"]
<1>1. TripOK(ended)
  BY EndedOK
<1>2. trip' = [trip EXCEPT ![w] = ended] /\ UNCHANGED history
  BY DEF Links!Breaks
<1> HIDE DEF ended
<1>3. DOMAIN trip' = Web /\ \A v \in Web : TripOK(trip'[v])
  BY <1>1, <1>2, TripReplaced
<1> QED BY <1>2, <1>3 DEF LinksInv

\* A URL that is found safe is of an allowed host, whose address the trip has.
LEMMA SafeIsVetted ==
  ASSUME NEW t, TripOK(t), NEW u, NEW answer \in Links!Address \cup {"none"},
         t.at \in {"checking", "transformed", "redirected"}, t.url = {u}
  PROVE  LET k == Links!Kept(Links!Ask(t, u, answer), u)
             safety == Links!Safety(u, k.dns)
         IN  /\ TripOK(k) /\ k.at = t.at /\ k.url = {u}
             /\ safety = "safe" => /\ Vetted(u) /\ Host[u] \in DOMAIN k.dns
                                   /\ k.dns[Host[u]] = "global"
             /\ safety # "success"
<1> DEFINE a == Links!Ask(t, u, answer)
           k == Links!Kept(a, u)
           safety == Links!Safety(u, a.dns)
<1>1. a = IF Links!NeedsDns(u) THEN [t EXCEPT !.dns = Links!Looked(t.dns, u, answer)] ELSE t
  BY DEF Links!Ask
<1>2. \A h \in DOMAIN a.dns : a.dns[h] \in Links!Address \cup {"none"}
  BY <1>1 DEF Links!Looked, TripOK
<1>3. /\ DOMAIN a = DOMAIN t
      /\ a.at = t.at /\ a.input = t.input /\ a.url = t.url /\ a.hop = t.hop
      /\ a.contacts = t.contacts
  BY <1>1 DEF TripOK
<1>4. Links!NeedsDns(u) => Host[u] \in DOMAIN a.dns
  BY <1>1 DEF Links!Looked, TripOK
<1>5. safety = "safe" => /\ Vetted(u) /\ Host[u] \in DOMAIN a.dns
                         /\ a.dns[Host[u]] = "global"
  <2> SUFFICES ASSUME safety = "safe"
               PROVE  Vetted(u) /\ Host[u] \in DOMAIN a.dns /\ a.dns[Host[u]] = "global"
    OBVIOUS
  <2>1. Vetted(u) /\ a.dns[Host[u]] # "none" /\ a.dns[Host[u]] # "private"
    BY DEF Links!Safety, Links!NeedsDns, Vetted
  <2>2. Host[u] \in DOMAIN a.dns
    BY <1>4, <2>1 DEF Links!NeedsDns, Vetted
  <2> QED BY <1>2, <2>1, <2>2 DEF Links!Address
<1>6. safety # "success"
  BY DEF Links!Safety
<1> HIDE DEF a, safety
<1>7. k = [a EXCEPT !.input = IF a.at = "checking" /\ safety = "safe" THEN {u} ELSE a.input]
  BY DEF Links!Kept, safety
<1>8. TripOK(a)
  BY <1>2, <1>3 DEF TripOK
<1>9. k.dns = a.dns /\ k.at = a.at /\ k.url = a.url
  BY <1>7, <1>3
<1>10. TripOK(k)
  <2>1. \A v \in k.input : Vetted(v)
    BY <1>3, <1>5, <1>7, <1>8 DEF TripOK
  <2> QED BY <1>3, <1>7, <1>8, <1>9, <2>1 DEF TripOK
<1> QED BY <1>3, <1>5, <1>6, <1>9, <1>10 DEF a, safety

LEMMA CheckKeeps ==
  ASSUME LinksInv, NEW w \in Web, Links!Check(w)
  PROVE  LinksInv'
<1>1. PICK u \in trip[w].url, answer \in Links!Address \cup {"none"} :
        LET t == Links!Kept(Links!Ask(trip[w], u, answer), u)
            safety == Links!Safety(u, t.dns)
        IN  \/ u \in Unparsable /\ Links!Breaks(w, trip[w])
            \/ /\ u \notin Unparsable /\ safety = "safe"
               /\ trip' = [trip EXCEPT ![w] = Links!Advanced(t, u)]
               /\ UNCHANGED history
            \/ u \notin Unparsable /\ safety # "safe" /\ Links!Raise(w, t, safety)
  BY DEF Links!Check
<1> DEFINE t == Links!Kept(Links!Ask(trip[w], u, answer), u)
           safety == Links!Safety(u, t.dns)
<1>2. TripOK(trip[w]) /\ trip[w].at \in {"checking", "transformed", "redirected"}
  BY DEF Links!Check, LinksInv
<1>3. trip[w].url = {u}
  BY <1>2 DEF TripOK
<1>4. /\ TripOK(t) /\ t.at = trip[w].at /\ t.url = {u}
      /\ safety = "safe" => /\ Vetted(u) /\ Host[u] \in DOMAIN t.dns
                            /\ t.dns[Host[u]] = "global"
      /\ safety # "success"
  BY <1>2, <1>3, SafeIsVetted
<1>5. \/ Links!Breaks(w, trip[w])
      \/ /\ safety = "safe"
         /\ trip' = [trip EXCEPT ![w] = Links!Advanced(t, u)]
         /\ UNCHANGED history
      \/ safety # "safe" /\ Links!Raise(w, t, safety)
  BY <1>1
<1> HIDE DEF t, safety
<1>6. CASE safety = "safe" /\ trip' = [trip EXCEPT ![w] = Links!Advanced(t, u)]
           /\ UNCHANGED history
  <2>0. /\ Vetted(u) /\ Host[u] \in DOMAIN t.dns /\ t.dns[Host[u]] = "global"
        /\ TripOK(t) /\ t.url = {u}
    BY <1>4, <1>6
  <2>1. TripOK(Links!Advanced(t, u))
    <3>1. CASE t.at = "checking"
      <4>1. Links!Advanced(t, u) = [t EXCEPT !.at = "transformed", !.url = {Moved[u]}]
        BY <3>1 DEF Links!Advanced
      <4> QED BY <1>4, <4>1 DEF TripOK
    <3>2. CASE t.at # "checking"
      <4>1. Links!Advanced(t, u) = [t EXCEPT !.at = "contacting"]
        BY <3>2 DEF Links!Advanced
      <4> QED BY <2>0, <4>1 DEF TripOK
    <3> QED BY <3>1, <3>2
  <2>2. trip' = [trip EXCEPT ![w] = Links!Advanced(t, u)] /\ UNCHANGED history
    BY <1>6
  <2> HIDE DEF Links!Advanced
  <2>3. DOMAIN trip' = Web /\ \A v \in Web : TripOK(trip'[v])
    BY <2>1, <2>2, TripReplaced
  <2> QED BY <2>2, <2>3 DEF LinksInv
<1>7. CASE safety # "safe" /\ Links!Raise(w, t, safety)
  BY <1>4, <1>7, RaiseKeeps
<1>8. CASE Links!Breaks(w, trip[w])
  BY <1>2, <1>8, BreakKeeps
<1> QED BY <1>5, <1>6, <1>7, <1>8

LEMMA RedirectedKeeps ==
  ASSUME LinksInv, NEW w \in Web, NEW t, TripOK(t), NEW v, Links!Redirected(w, t, v)
  PROVE  LinksInv'
<1>1. CASE Links!TooMany(t)
  BY <1>1, RaiseKeeps DEF Links!Redirected
<1>2. CASE ~Links!TooMany(t)
  <2> DEFINE n == [t EXCEPT !.at = "redirected", !.url = {v}, !.hop = @ + 1]
  <2>1. t.hop + 1 \in 0..MaxRedirects
    BY <1>2, SiteAssumption DEF Links!TooMany, TripOK
  <2>2. DOMAIN n = DOMAIN t
    OBVIOUS
  <2>3. /\ n.at = "redirected" /\ n.input = t.input /\ n.url = {v} /\ n.hop = t.hop + 1
        /\ n.dns = t.dns /\ n.contacts = t.contacts
    BY DEF TripOK
  <2>4. trip' = [trip EXCEPT ![w] = n] /\ UNCHANGED history
    BY <1>2 DEF Links!Redirected
  <2> HIDE DEF n
  <2>5. TripOK(n)
    BY <2>1, <2>2, <2>3 DEF TripOK
  <2>6. DOMAIN trip' = Web /\ \A x \in Web : TripOK(trip'[x])
    BY <2>4, <2>5, TripReplaced
  <2> QED BY <2>4, <2>6 DEF LinksInv
<1> QED BY <1>1, <1>2

LEMMA ContactKeeps ==
  ASSUME LinksInv, NEW w \in Web, Links!Contact(w)
  PROVE  LinksInv'
<1>1. trip[w].at = "contacting" /\ TripOK(trip[w])
  BY DEF Links!Contact, LinksInv
<1>0. PICK u \in trip[w].url : \E a \in Links!Pinned(trip[w], u) :
        LET t == [trip[w] EXCEPT !.contacts = @ \cup {<<Host[u], a>>}]
        IN  Links!Answered(w, t) \/ Links!Breaks(w, t)
  BY DEF Links!Contact
<1>2. PICK a \in Links!Pinned(trip[w], u) :
        LET t == [trip[w] EXCEPT !.contacts = @ \cup {<<Host[u], a>>}]
        IN  Links!Answered(w, t) \/ Links!Breaks(w, t)
  BY <1>0
<1> DEFINE t == [trip[w] EXCEPT !.contacts = @ \cup {<<Host[u], a>>}]
<1>3. Vetted(u) /\ Host[u] \in DOMAIN trip[w].dns /\ a = "global"
  BY <1>1, <1>2 DEF Links!Pinned, TripOK
<1>4. /\ DOMAIN t = DOMAIN trip[w] /\ t.at = "contacting" /\ t.input = trip[w].input
      /\ t.url = trip[w].url /\ t.hop = trip[w].hop /\ t.dns = trip[w].dns
      /\ t.contacts = trip[w].contacts \cup {<<Host[u], a>>}
  BY <1>1 DEF TripOK
<1>5. Links!Answered(w, t) \/ Links!Breaks(w, t)
  BY <1>2
<1> HIDE DEF t
<1>6. TripOK(t) /\ t.url = {u}
  <2>1. \A c \in t.contacts : c[1] \in AllowedHost /\ c[2] = "global"
    BY <1>1, <1>3, <1>4 DEF TripOK, Vetted
  <2>2. trip[w].url = {u}
    BY <1>1, <1>2 DEF TripOK
  <2> QED BY <1>1, <1>4, <2>1, <2>2 DEF TripOK
<1>7. CASE \/ \E v \in Url : Links!Redirected(w, t, v)
           \/ Links!Payload(w, t)
           \/ Links!Raise(w, t, "failed")
  BY <1>6, <1>7, RedirectedKeeps, RaiseKeeps DEF Links!Payload
<1>8. CASE Links!Reached(w, t)
  <2>1. CASE t.url \subseteq Intermediate
    BY <1>6, <1>8, <2>1, RaiseKeeps DEF Links!Reached
  <2>2. CASE ~(t.url \subseteq Intermediate)
    <3> DEFINE row == Links!Row("success", t.input, t.url)
               ended == [t EXCEPT !.at = "ended", !.verdict = "success"]
    <3>1. history' = Append(history, row) /\ trip' = [trip EXCEPT ![w] = ended]
      BY <1>8, <2>2 DEF Links!Reached
    <3>2. RowOK(row)
      BY <1>3, <1>6, <2>2 DEF RowOK, Links!Row, TripOK, Vetted
    <3>3. TripOK(ended)
      BY <1>6, EndedOK
    <3> HIDE DEF row, ended
    <3> QED BY <3>1, <3>2, <3>3, AppendedRow, TripReplaced DEF LinksInv
  <2> QED BY <2>1, <2>2
<1>9. CASE Links!Breaks(w, t)
  BY <1>6, <1>9, BreakKeeps
<1> QED BY <1>5, <1>7, <1>8, <1>9 DEF Links!Answered

LEMMA StartTripKeeps ==
  ASSUME LinksInv, NEW w \in Web, NEW u, Links!StartTrip(w, u)
  PROVE  LinksInv'
<1> DEFINE n == [Links!Home EXCEPT !.at = "checking", !.url = {u}]
<1>1. /\ DOMAIN n = DOMAIN Links!Home /\ n.at = "checking" /\ n.input = Links!Home.input
      /\ n.url = {u} /\ n.hop = Links!Home.hop /\ n.dns = Links!Home.dns
      /\ n.contacts = Links!Home.contacts
  BY DEF Links!Home
<1>2. trip' = [trip EXCEPT ![w] = n] /\ UNCHANGED history
  BY DEF Links!StartTrip
<1> HIDE DEF n
<1>3. TripOK(n)
  BY <1>1, HomeOK DEF TripOK
<1>4. DOMAIN trip' = Web /\ \A x \in Web : TripOK(trip'[x])
  BY <1>2, <1>3, TripReplaced
<1> QED BY <1>2, <1>4 DEF LinksInv

LEMMA EndTripKeeps ==
  ASSUME LinksInv, NEW w \in Web, Links!EndTrip(w)
  PROVE  LinksInv'
<1>1. trip' = [trip EXCEPT ![w] = Links!Home] /\ UNCHANGED history
  BY DEF Links!EndTrip
<1>2. DOMAIN trip' = Web /\ \A x \in Web : TripOK(trip'[x])
  BY <1>1, HomeOK, TripReplaced
<1> QED BY <1>1, <1>2 DEF LinksInv

LEMMA LinksInvStep == SiteInv /\ LinksInv /\ [Next]_vars => LinksInv'
<1> SUFFICES ASSUME SiteInv, LinksInv, [Next]_vars PROVE LinksInv'
  OBVIOUS
<1>1. CASE UNCHANGED <<trip, history>>
  BY <1>1 DEF LinksInv
<1>2. ASSUME NEW w \in site.webs, Serve(w) PROVE LinksInv'
  <2>1. w \in Web
    BY SiteAssumption DEF SiteInv
  <2>2. CASE LinkGranted(w)
    BY <2>1, <2>2, StartTripKeeps DEF LinkGranted
  <2>3. CASE FollowLink(w)
    BY <2>1, <2>3, CheckKeeps, ContactKeeps DEF FollowLink
  <2>4. CASE LinkEnds(w)
    BY <2>1, <2>4, EndTripKeeps DEF LinkEnds
  <2>5. CASE \/ Claiming(w) \/ OtaGranted(w) \/ LinkRefused(w) \/ AskProvider(w)
             \/ ProviderEnds(w) \/ Respond(w)
    BY <1>1, <2>5 DEF Claiming, OtaGranted, LinkRefused, AskProvider, ProviderEnds, Respond
  <2> QED BY <1>2, <2>2, <2>3, <2>4, <2>5 DEF Serve
<1>3. ASSUME NEW w \in site.webs, ReceiveOta(w) \/ ReceiveLink(w) PROVE LinksInv'
  BY <1>1, <1>3 DEF ReceiveOta, ReceiveLink
<1>4. CASE PassTime \/ OthersStore \/ UNCHANGED vars
  BY <1>1, <1>4 DEF PassTime, OthersStore, vars
<1> QED BY <1>2, <1>3, <1>4 DEF Next

LEMMA SiteInvariance == Spec => [](SiteInv /\ LinksInv)
<1>1. Init => SiteInv /\ LinksInv
  BY LinksInvInit DEF Init, SiteInv
<1> QED BY <1>1, SiteInvStep, LinksInvStep, PTL DEF Spec

\* Only hosts of the allow-list are contacted, at an address this call checked,
\* however DNS changes its answers, and within the limit of redirects.
THEOREM OnlyCheckedHosts == Spec => []OnlyCheckedHostsAreContacted
<1>1. LinksInv => OnlyCheckedHostsAreContacted
  BY SiteAssumption DEF LinksInv, TripOK, OnlyCheckedHostsAreContacted,
                        Links!OnlyCheckedHostsAreContacted
<1> QED BY <1>1, SiteInvariance, PTL

\* The history keeps no unchecked input, and a resolved URL with a success only.
THEOREM HistoryIsAlwaysChecked == Spec => []HistoryIsChecked
<1>1. LinksInv => HistoryIsChecked
  BY DEF LinksInv, RowOK, Vetted, HistoryIsChecked, Links!HistoryIsChecked
<1> QED BY <1>1, SiteInvariance, PTL

---------------------------------------------------------------------------
(* The cache.  A row keeps the source it was first stored with, so a row   *)
(* that says live_provider was stored with an answer of the provider.      *)

LiveRow(row, given) ==
  /\ {"release", "source", "track", "rui", "seen"} \subseteq DOMAIN row
  /\ row.source = "live_provider" => <<row.release, row.track, row.rui>> \in given

AnsweredFor(q, row, given) ==
  \E i \in DOMAIN q.ruis : <<row.release, q.track, q.ruis[i]>> \in given

RequestOK(r, given) ==
  /\ {"at", "query", "persist", "answer"} \subseteq DOMAIN r
  /\ r.at \in {"claiming", "cached"} => \A row \in r.answer : AnsweredFor(r.query, row, given)
  /\ r.at = "storing" =>
       /\ r.answer # {}
       /\ \A x \in r.answer : <<x.release, r.query.track, x.rui>> \in given

ReleasesOK ==
  /\ \E n \in Nat : DOMAIN releases = 1..n
  /\ \A i \in DOMAIN releases : LiveRow(releases[i], provided)

CacheInv ==
  /\ ReleasesOK
  /\ DOMAIN request = Web
  /\ \A w \in Web : RequestOK(request[w], provided)

LEMMA IdleOK == ASSUME NEW given PROVE RequestOK(Idle, given)
BY DEF RequestOK, Idle

LEMMA CacheInvInit == Init => CacheInv
BY IdleOK DEF Init, GatewayInit, CacheInv, ReleasesOK

\* Storing an answer of the provider, or a row of another source.
LEMMA UpsertKeeps ==
  ASSUME ReleasesOK, NEW r, NEW source, NEW track, NEW rui,
         provided \subseteq provided',
         source = "live_provider" => <<r, track, rui>> \in provided',
         releases' = Upserted(releases, r, source, track, rui)
  PROVE  ReleasesOK'
<1>1. CASE \E i \in DOMAIN releases : releases[i].release = r
  <2>1. releases' = [i \in DOMAIN releases |->
                       IF releases[i].release = r THEN [releases[i] EXCEPT !.seen = clock]
                                                  ELSE releases[i]]
    BY <1>1 DEF Upserted
  <2>2. ASSUME NEW i \in DOMAIN releases
        PROVE  LiveRow(releases'[i], provided')
    <3>1. LiveRow(releases[i], provided)
      BY DEF ReleasesOK
    <3>2. \/ releases'[i] = releases[i]
          \/ releases'[i] = [releases[i] EXCEPT !.seen = clock]
      BY <2>1
    <3> QED BY <3>1, <3>2 DEF LiveRow
  <2> QED BY <2>1, <2>2 DEF ReleasesOK
<1>2. CASE ~\E i \in DOMAIN releases : releases[i].release = r
  <2> DEFINE row == [release |-> r, source |-> source, track |-> track, rui |-> rui,
                     seen |-> clock]
  <2>1. releases' = Append(releases, row)
    BY <1>2 DEF Upserted
  <2>2. {"release", "source", "track", "rui", "seen"} \subseteq DOMAIN row
        /\ (row.source = "live_provider" => <<row.release, row.track, row.rui>> \in provided')
    OBVIOUS
  <2> HIDE DEF row
  <2>3. PICK n \in Nat : DOMAIN releases = 1..n
    BY DEF ReleasesOK
  <2>4. DOMAIN releases' = 1..(n + 1)
    BY <2>1, <2>3
  <2>5. releases'[n + 1] = row /\ \A i \in 1..n : releases'[i] = releases[i]
    BY <2>1, <2>3
  <2>6. \A i \in 1..n : LiveRow(releases'[i], provided')
    BY <2>3, <2>5 DEF ReleasesOK, LiveRow
  <2>7. LiveRow(releases'[n + 1], provided')
    BY <2>2, <2>5 DEF LiveRow
  <2>8. \A i \in DOMAIN releases' : i \in 1..n \/ i = n + 1
    BY <2>4
  <2> QED BY <2>4, <2>6, <2>7, <2>8 DEF ReleasesOK
<1> QED BY <1>1, <1>2

\* A request is replaced, and what the provider answered only grows.
LEMMA RequestReplaced ==
  ASSUME CacheInv, NEW w \in Web, NEW r, RequestOK(r, provided'), provided \subseteq provided',
         request' = [request EXCEPT ![w] = r]
  PROVE  DOMAIN request' = Web /\ \A v \in Web : RequestOK(request'[v], provided')
<1>1. DOMAIN request' = Web
  BY DEF CacheInv
<1>2. ASSUME NEW v \in Web
      PROVE  RequestOK(request'[v], provided')
  <2>1. CASE v = w
    <3>1. request'[v] = r
      BY <2>1 DEF CacheInv
    <3> QED BY <3>1 DEF RequestOK, AnsweredFor
  <2>2. CASE v # w
    <3>1. request'[v] = request[v] /\ RequestOK(request[v], provided)
      BY <2>2 DEF CacheInv
    <3> QED BY <3>1 DEF RequestOK, AnsweredFor
  <2> QED BY <2>1, <2>2
<1> QED BY <1>1, <1>2

\* find_cached_ota_release serves answers to the query it is asked.
LEMMA CachedIsAnswered ==
  ASSUME ReleasesOK, NEW q, NEW row \in Cached(q)
  PROVE  AnsweredFor(q, row, provided)
<1>1. PICK i \in DOMAIN releases : /\ row = releases[i]
                                  /\ releases[i].source = "live_provider"
                                  /\ Matches(q, releases[i])
  BY DEF Cached
<1>2. <<row.release, row.track, row.rui>> \in provided
  BY <1>1 DEF ReleasesOK, LiveRow
<1> QED BY <1>1, <1>2 DEF Matches, AnsweredFor

\* A request that only moves on keeps what it holds.
LEMMA MovedOn ==
  ASSUME NEW r, NEW given, RequestOK(r, given), NEW at,
         at \notin {"claiming", "cached", "storing"}
  PROVE  RequestOK([r EXCEPT !.at = at], given)
BY DEF RequestOK

LEMMA GatewayStepKeeps ==
  ASSUME CacheInv, NEW w \in Web, UNCHANGED <<releases, provided>>,
         \/ request' = [request EXCEPT ![w] = Idle]
         \/ \E at : /\ at \notin {"claiming", "cached", "storing"}
                   /\ request' = [request EXCEPT ![w].at = at]
  PROVE  CacheInv'
<1>1. RequestOK(request[w], provided)
  BY DEF CacheInv
<1>2. PICK r : RequestOK(r, provided) /\ request' = [request EXCEPT ![w] = r]
  <2>1. CASE request' = [request EXCEPT ![w] = Idle]
    BY <2>1, IdleOK
  <2>2. ASSUME NEW at, at \notin {"claiming", "cached", "storing"},
               request' = [request EXCEPT ![w].at = at]
        PROVE  \E r : RequestOK(r, provided) /\ request' = [request EXCEPT ![w] = r]
    <3> DEFINE r == [request[w] EXCEPT !.at = at]
    <3>1. RequestOK(r, provided)
      BY <1>1, <2>2, MovedOn
    <3>2. request' = [request EXCEPT ![w] = r]
      BY <2>2
    <3> QED BY <3>1, <3>2
  <2> QED BY <2>1, <2>2
<1>3. DOMAIN request' = Web /\ \A v \in Web : RequestOK(request'[v], provided')
  BY <1>2, RequestReplaced
<1> QED BY <1>3 DEF CacheInv, ReleasesOK

LEMMA PrepareKeeps ==
  ASSUME CacheInv, NEW w \in Web, NEW a, NEW q, NEW persist, Prepare(w, a, q, persist)
  PROVE  CacheInv'
<1> DEFINE r == [at |-> "claiming", query |-> q, persist |-> persist, answer |-> Cached(q)]
<1>1. RequestOK(r, provided)
  BY CachedIsAnswered DEF CacheInv, RequestOK
<1>2. request' = [request EXCEPT ![w] = r] /\ UNCHANGED <<releases, provided>>
  BY DEF Prepare
<1> HIDE DEF r
<1>3. DOMAIN request' = Web /\ \A v \in Web : RequestOK(request'[v], provided')
  BY <1>1, <1>2, RequestReplaced
<1> QED BY <1>2, <1>3 DEF CacheInv, ReleasesOK

LEMMA ClaimSucceedsKeeps ==
  ASSUME CacheInv, NEW w \in Web, ClaimSucceeds(w)
  PROVE  CacheInv'
<1> DEFINE r == [request[w] EXCEPT !.at = IF request[w].answer # {} THEN "cached" ELSE "asking"]
<1>1. RequestOK(r, provided)
  BY DEF ClaimSucceeds, CacheInv, RequestOK
<1>2. request' = [request EXCEPT ![w] = r] /\ UNCHANGED <<releases, provided>>
  BY DEF ClaimSucceeds
<1> HIDE DEF r
<1>3. DOMAIN request' = Web /\ \A v \in Web : RequestOK(request'[v], provided')
  BY <1>1, <1>2, RequestReplaced
<1> QED BY <1>2, <1>3 DEF CacheInv, ReleasesOK

LEMMA ProviderAnswersKeeps ==
  ASSUME CacheInv, NEW w \in Web, NEW x, NEW rui, ProviderAnswers(w, x, rui)
  PROVE  CacheInv'
<1> DEFINE r == [request[w] EXCEPT !.at = "storing", !.answer = {[release |-> x, rui |-> rui]}]
<1>1. RequestOK(request[w], provided)
  BY DEF CacheInv
<1>2. /\ provided' = provided \cup {<<x, request[w].query.track, rui>>}
      /\ request' = [request EXCEPT ![w] = r] /\ UNCHANGED releases
  BY DEF ProviderAnswers
<1>3. /\ DOMAIN r = DOMAIN request[w] /\ r.at = "storing" /\ r.query = request[w].query
      /\ r.answer = {[release |-> x, rui |-> rui]}
  BY <1>1 DEF RequestOK
<1> HIDE DEF r
<1>4. RequestOK(r, provided')
  BY <1>1, <1>2, <1>3 DEF RequestOK
<1>5. DOMAIN request' = Web /\ \A v \in Web : RequestOK(request'[v], provided')
  BY <1>2, <1>4, RequestReplaced
<1>6. ReleasesOK'
  BY <1>2 DEF CacheInv, ReleasesOK, LiveRow
<1> QED BY <1>5, <1>6 DEF CacheInv

LEMMA StoreAnswerKeeps ==
  ASSUME CacheInv, NEW w \in Web, StoreAnswer(w)
  PROVE  CacheInv'
<1>1. request' = [request EXCEPT ![w] = Idle] /\ UNCHANGED provided
  BY DEF StoreAnswer
<1>2. DOMAIN request' = Web /\ \A v \in Web : RequestOK(request'[v], provided')
  BY <1>1, IdleOK, RequestReplaced
<1>3. ReleasesOK'
  <2>1. CASE request[w].persist
    <3> DEFINE x == CHOOSE x \in request[w].answer : TRUE
    <3>1. x \in request[w].answer
      BY DEF StoreAnswer, CacheInv, RequestOK
    <3>2. <<x.release, request[w].query.track, x.rui>> \in provided
      BY <3>1 DEF StoreAnswer, CacheInv, RequestOK
    <3>3. releases' = Upserted(releases, x.release, "live_provider",
                               request[w].query.track, x.rui)
      BY <2>1 DEF StoreAnswer
    <3> HIDE DEF x
    <3> QED BY <1>1, <3>2, <3>3, UpsertKeeps DEF CacheInv
  <2>2. CASE ~request[w].persist
    BY <1>1, <2>2 DEF StoreAnswer, CacheInv, ReleasesOK
  <2> QED BY <2>1, <2>2
<1> QED BY <1>2, <1>3 DEF CacheInv

LEMMA OthersKeep ==
  ASSUME CacheInv, OthersStore
  PROVE  CacheInv'
<1>1. PICK row : \/ ScanStores(row.release, row.track, row.rui)
                 \/ ArchiveStores(row.release, row.track, row.rui)
  BY DEF OthersStore
<1>2. UNCHANGED request /\ provided \subseteq provided'
  BY <1>1 DEF ScanStores, ArchiveStores
<1>3. ReleasesOK'
  BY <1>1, <1>2, UpsertKeeps DEF ScanStores, ArchiveStores, CacheInv
<1>4. ASSUME NEW v \in Web PROVE RequestOK(request'[v], provided')
  BY <1>2 DEF CacheInv, RequestOK, AnsweredFor
<1> QED BY <1>2, <1>3, <1>4 DEF CacheInv

LEMMA CacheInvStep == SiteInv /\ CacheInv /\ [Next]_vars => CacheInv'
<1> SUFFICES ASSUME SiteInv, CacheInv, [Next]_vars PROVE CacheInv'
  OBVIOUS
<1>1. CASE UNCHANGED gatewayVars
  BY <1>1 DEF gatewayVars, CacheInv, ReleasesOK
<1>2. ASSUME NEW w \in site.webs, Serve(w) PROVE CacheInv'
  <2>1. w \in Web
    BY SiteAssumption DEF SiteInv
  <2>2. CASE BeginClaim(w) /\ UNCHANGED gatewayVars
    BY <1>1, <2>2
  <2>3. CASE ClaimFails(w) \/ LinkRefused(w) \/ LinkEnds(w) \/ RespondCached(w) \/ ProviderFails(w)
    BY <2>1, <2>3, GatewayStepKeeps
       DEF ClaimFails, LinkRefused, LinkEnds, RespondCached, ProviderFails
  <2>4. CASE LinkGranted(w)
    <3>1. request' = [request EXCEPT ![w].at = "resolving"] /\ UNCHANGED <<releases, provided>>
      BY <2>4 DEF LinkGranted
    <3> QED BY <2>1, <3>1, GatewayStepKeeps
  <2>5. CASE OtaGranted(w)
    BY <2>1, <2>5, ClaimSucceedsKeeps DEF OtaGranted
  <2>6. CASE ProviderEnds(w)
    <3>1. ProviderFails(w) \/ \E x, rui : ProviderAnswers(w, x, rui)
      BY <2>6 DEF ProviderEnds
    <3> QED BY <2>1, <2>3, <3>1, ProviderAnswersKeeps
  <2>7. CASE StoreAnswer(w)
    BY <2>1, <2>7, StoreAnswerKeeps
  <2>8. CASE AskProvider(w) \/ FollowLink(w)
    BY <1>1, <2>8 DEF AskProvider, FollowLink
  <2> QED BY <1>2, <2>2, <2>3, <2>4, <2>5, <2>6, <2>7, <2>8 DEF Serve, Claiming, Respond
<1>3. ASSUME NEW w \in site.webs, ReceiveOta(w) PROVE CacheInv'
  BY <1>3, SiteAssumption, PrepareKeeps DEF ReceiveOta, SiteInv
<1>4. ASSUME NEW w \in site.webs, ReceiveLink(w) PROVE CacheInv'
  <2>1. w \in Web
    BY SiteAssumption DEF SiteInv
  <2>2. request' = [request EXCEPT ![w].at = "linking"] /\ UNCHANGED <<releases, provided>>
    BY <1>4 DEF ReceiveLink
  <2> QED BY <2>1, <2>2, GatewayStepKeeps
<1>5. CASE PassTime \/ UNCHANGED vars
  BY <1>1, <1>5 DEF PassTime, vars
<1> QED BY <1>2, <1>3, <1>4, <1>5, OthersKeep DEF Next

\* The cache serves only what the provider answered on the same track, for an RUI
\* the caller accepts, whoever else stores the same releases, in any order.
THEOREM CacheServesAnswers == Spec => []CachedAnswerCameFromProvider
<1>1. Init => SiteInv /\ CacheInv
  BY CacheInvInit DEF Init, SiteInv
<1>2. CacheInv => CachedAnswerCameFromProvider
  BY DEF CacheInv, RequestOK, AnsweredFor, CachedAnswerCameFromProvider
<1> QED BY <1>1, <1>2, SiteInvStep, CacheInvStep, PTL DEF Spec

---------------------------------------------------------------------------
(* The searches of the provider.                                           *)

Quiet == {"empty", "null", "nothing"}

Entry == [rui : Nat, model : Nat, seed : Nat, response : Provider!Response]

SearchTyped(s) ==
  /\ DOMAIN s = {"at", "ruis", "rui", "model", "seed", "none", "trail"}
  /\ s.at \in {"resting", "posting", "noting"} \cup Provider!Verdict
  /\ s.ruis \in Seq(Nat) /\ s.rui \in Nat \ {0}
  /\ s.model \in 1..Provider!Models /\ s.seed \in 1..Provider!Seeds
  /\ s.none \in BOOLEAN /\ s.trail \in Seq(Entry)

\* What Post writes to the trail.
Posted(s, response) ==
  [rui |-> s.rui, model |-> s.model, seed |-> s.seed, response |-> response]

Noted(s, entry) == [s EXCEPT !.trail = Append(@, entry)]

Got(s, r, m, seed, response) ==
  \E i \in DOMAIN s.trail :
    s.trail[i] = [rui |-> r, model |-> m, seed |-> seed, response |-> response]

\* The first seed of a model got an envelope without body.
Emptied(s, r, m) == Got(s, r, m, 1, "empty")

\* A search that goes on: what was asked before it, and what found_no_release
\* and the seed stand for.
Going(s) ==
  /\ \A i \in DOMAIN s.trail : s.trail[i].response \in Quiet
  /\ \A r \in 1..(s.rui - 1) : Provider!Exhausted(s, r)
  /\ \A m \in 1..(s.model - 1) : Provider!Asked(s, s.rui, m)
  /\ s.none => \E m \in 1..(s.model - 1) : Provider!Denied(s, s.rui, m)
  /\ ~s.none => \A m \in 1..(s.model - 1) : Provider!Silent(s, s.rui, m)
  /\ s.seed = 2 => Emptied(s, s.rui, s.model)

\* A search that ends with a verdict.
Justified(s, verdict) ==
  LET last == s.trail[Len(s.trail)] IN
  /\ \A i \in 1..(Len(s.trail) - 1) : s.trail[i].response \in Quiet
  /\ \A r \in 1..(last.rui - 1) : Provider!Exhausted(s, r)
  /\ \A m \in 1..(last.model - 1) : Provider!Asked(s, last.rui, m)
  /\ verdict = "found" <=> last.response \in Release
  /\ verdict = "not_found" => \A r \in 1..Len(s.ruis) : Provider!Exhausted(s, r)
  /\ verdict = "unreachable" /\ last.response # "unreachable"
       => \A m \in 1..Provider!Models : Provider!Silent(s, last.rui, m)

SearchOK(s) ==
  /\ SearchTyped(s)
  /\ s.at = "resting" => s = Provider!Resting
  /\ s.at = "posting" => Going(s)
  /\ s.at = "noting" => Justified(s, "found")
  /\ s.at \in Provider!Verdict => Justified(s, s.at)

\* A request that is about to make its claim has its query.
Asks(r) == /\ {"at", "query", "persist", "answer"} \subseteq DOMAIN r
           /\ r.at = "claiming" => r.query \in Query

AskInv == DOMAIN request = Web /\ \A w \in Web : Asks(request[w])
SearchInv == DOMAIN search = Web /\ \A w \in Web : SearchOK(search[w])

LEMMA ModelsPositive == Provider!Models \in Nat \ {0} /\ Provider!Seeds = 2
BY ProviderAssumption DEF Provider!Models, Provider!Seeds

LEMMA RestingOK == SearchOK(Provider!Resting)
<1> DEFINE s == Provider!Resting
<1>1. SearchTyped(s)
  BY ModelsPositive DEF SearchTyped, Provider!Resting
<1>2. s.at = "resting"
  BY DEF Provider!Resting
<1>3. "resting" \notin Provider!Verdict
  BY DEF Provider!Verdict, Provider!Fault
<1> HIDE DEF s
<1> QED BY <1>1, <1>2, <1>3 DEF SearchOK, s

LEMMA SilentMeans ==
  ASSUME NEW s, NEW r, NEW m
  PROVE  Provider!Silent(s, r, m) <=>
           (Got(s, r, m, 1, "empty") /\ Got(s, r, m, 2, "empty"))
             \/ Got(s, r, m, 1, "null") \/ Got(s, r, m, 2, "null")
<1>1. Provider!Silent(s, r, m) <=> \/ \A k \in 1..Provider!Seeds : Got(s, r, m, k, "empty")
                                  \/ \E k \in 1..Provider!Seeds : Got(s, r, m, k, "null")
  BY DEF Provider!Silent, Got
<1>2. 1..Provider!Seeds = {1, 2}
  BY ModelsPositive
<1> QED BY <1>1, <1>2

\* What was asked stays asked when the trail grows.
LEMMA TrailGrows ==
  ASSUME NEW s, NEW t, NEW e, s.trail \in Seq(Entry), t.trail = Append(s.trail, e),
         NEW r, NEW m
  PROVE  /\ Provider!Denied(s, r, m) => Provider!Denied(t, r, m)
         /\ Provider!Silent(s, r, m) => Provider!Silent(t, r, m)
         /\ Provider!Asked(s, r, m) => Provider!Asked(t, r, m)
         /\ Provider!Exhausted(s, r) => Provider!Exhausted(t, r)
         /\ Emptied(s, r, m) => Emptied(t, r, m)
<1>1. \A i \in DOMAIN s.trail : i \in DOMAIN t.trail /\ t.trail[i] = s.trail[i]
  BY DEF Entry
<1>2. \A k : Provider!Denied(s, r, k) => Provider!Denied(t, r, k)
  BY <1>1 DEF Provider!Denied
<1>3. \A k : Provider!Silent(s, r, k) => Provider!Silent(t, r, k)
  <2>1. \A k, seed, response : Got(s, r, k, seed, response) => Got(t, r, k, seed, response)
    BY <1>1 DEF Got
  <2> QED BY <2>1, SilentMeans
<1>4. \A k : Provider!Asked(s, r, k) => Provider!Asked(t, r, k)
  BY <1>2, <1>3 DEF Provider!Asked
<1>5. Provider!Exhausted(s, r) => Provider!Exhausted(t, r)
  BY <1>2, <1>4 DEF Provider!Exhausted
<1>6. Emptied(s, r, m) => Emptied(t, r, m)
  BY <1>1 DEF Emptied, Got
<1> QED BY <1>2, <1>3, <1>4, <1>5, <1>6

\* What the last answer adds.
LEMMA LastAnswer ==
  ASSUME NEW s, SearchTyped(s), Going(s), s.at = "posting",
         NEW response \in Provider!Response, NEW t,
         t.trail = Append(s.trail, Posted(s, response))
  PROVE  /\ t.trail \in Seq(Entry)
         /\ t.trail[Len(t.trail)] = Posted(s, response)
         /\ \A i \in 1..(Len(t.trail) - 1) : t.trail[i].response \in Quiet
         /\ response \in Quiet => \A i \in DOMAIN t.trail : t.trail[i].response \in Quiet
         /\ response = "nothing" => Provider!Denied(t, s.rui, s.model)
         /\ response = "null" => Provider!Silent(t, s.rui, s.model)
         /\ response = "empty" /\ s.seed = 2 => Provider!Silent(t, s.rui, s.model)
         /\ response = "empty" /\ s.seed = 1 => Emptied(t, s.rui, s.model)
<1> DEFINE e == Posted(s, response)
<1>1. /\ s.trail \in Seq(Entry) /\ s.rui \in Nat /\ s.model \in Nat /\ s.seed \in {1, 2}
  BY ModelsPositive DEF SearchTyped
<1>2. e \in Entry
  BY <1>1 DEF Entry, Posted
<1>3. /\ e.rui = s.rui /\ e.model = s.model /\ e.seed = s.seed /\ e.response = response
  BY DEF Posted
<1>4. Going(s)
  OBVIOUS
<1>5. t.trail = Append(s.trail, e)
  OBVIOUS
<1>6. e = [rui |-> s.rui, model |-> s.model, seed |-> s.seed, response |-> response]
  BY DEF Posted
<1> HIDE DEF e
<1>7. /\ t.trail \in Seq(Entry) /\ Len(t.trail) = Len(s.trail) + 1 /\ Len(s.trail) \in Nat
      /\ DOMAIN t.trail = 1..Len(t.trail) /\ DOMAIN s.trail = 1..Len(s.trail)
      /\ t.trail[Len(t.trail)] = e
      /\ \A i \in 1..Len(s.trail) : t.trail[i] = s.trail[i]
  BY <1>1, <1>2, <1>5
<1>8. \A i \in 1..Len(s.trail) : t.trail[i].response \in Quiet
  BY <1>4, <1>7 DEF Going
<1>9. Len(t.trail) \in DOMAIN t.trail
  BY <1>7
<1>10. response = "nothing" => Provider!Denied(t, s.rui, s.model)
  BY <1>3, <1>7, <1>9 DEF Provider!Denied
<1>11. response = "null" => Provider!Silent(t, s.rui, s.model)
  <2>1. response = "null" => Got(t, s.rui, s.model, s.seed, "null")
    BY <1>6, <1>7, <1>9 DEF Got
  <2> QED BY <1>1, <2>1, SilentMeans
<1>12. ASSUME response = "empty", s.seed = 2 PROVE Provider!Silent(t, s.rui, s.model)
  <2>1. Emptied(s, s.rui, s.model)
    BY <1>4, <1>12 DEF Going
  <2>2. Emptied(t, s.rui, s.model)
    BY <1>1, <1>5, <2>1, TrailGrows
  <2>3. Got(t, s.rui, s.model, 2, "empty")
    BY <1>6, <1>7, <1>9, <1>12 DEF Got
  <2> QED BY <2>2, <2>3, SilentMeans DEF Emptied
<1>13. response = "empty" /\ s.seed = 1 => Emptied(t, s.rui, s.model)
  BY <1>6, <1>7, <1>9 DEF Emptied, Got
<1>14. \A i \in DOMAIN t.trail : i \in 1..Len(s.trail) \/ i = Len(t.trail)
  BY <1>7
<1>15. response \in Quiet => \A i \in DOMAIN t.trail : t.trail[i].response \in Quiet
  BY <1>3, <1>7, <1>8, <1>14
<1>16. Len(t.trail) - 1 = Len(s.trail)
  BY <1>7
<1> QED BY <1>7, <1>8, <1>10, <1>11, <1>12, <1>13, <1>15, <1>16 DEF e

\* What holds of a search that goes on holds with one more answer.
LEMMA StillAsked ==
  ASSUME NEW s, SearchTyped(s), Going(s), s.at = "posting",
         NEW response \in Provider!Response, NEW t,
         t.trail = Append(s.trail, Posted(s, response))
  PROVE  /\ \A r \in 1..(s.rui - 1) : Provider!Exhausted(t, r)
         /\ \A m \in 1..(s.model - 1) : Provider!Asked(t, s.rui, m)
         /\ s.none => \E m \in 1..(s.model - 1) : Provider!Denied(t, s.rui, m)
         /\ ~s.none => \A m \in 1..(s.model - 1) : Provider!Silent(t, s.rui, m)
<1> DEFINE e == Posted(s, response)
<1>1. Going(s) /\ s.trail \in Seq(Entry) /\ t.trail = Append(s.trail, e)
  BY DEF SearchTyped
<1> HIDE DEF e
<1>2. /\ \A r, m : Provider!Denied(s, r, m) => Provider!Denied(t, r, m)
      /\ \A r, m : Provider!Silent(s, r, m) => Provider!Silent(t, r, m)
      /\ \A r, m : Provider!Asked(s, r, m) => Provider!Asked(t, r, m)
      /\ \A r : Provider!Exhausted(s, r) => Provider!Exhausted(t, r)
  BY <1>1, TrailGrows
<1> QED BY <1>1, <1>2 DEF Going

\* A search ends with the verdict that its last answer calls for.
LEMMA EndsJustified ==
  ASSUME NEW s, SearchTyped(s), Going(s), s.at = "posting",
         NEW response \in Provider!Response, NEW t,
         t.trail = Append(s.trail, Posted(s, response)),
         NEW verdict,
         verdict = "found" <=> response \in Release,
         verdict = "not_found" => \A r \in 1..Len(t.ruis) : Provider!Exhausted(t, r),
         verdict = "unreachable" /\ response # "unreachable"
           => \A m \in 1..Provider!Models : Provider!Silent(t, s.rui, m)
  PROVE  Justified(t, verdict)
<1> DEFINE last == t.trail[Len(t.trail)]
<1>1. /\ last = Posted(s, response)
      /\ \A i \in 1..(Len(t.trail) - 1) : t.trail[i].response \in Quiet
  BY LastAnswer
<1>2. last.rui = s.rui /\ last.model = s.model /\ last.response = response
  BY <1>1 DEF Posted
<1>3. /\ \A r \in 1..(s.rui - 1) : Provider!Exhausted(t, r)
      /\ \A m \in 1..(s.model - 1) : Provider!Asked(t, s.rui, m)
  BY StillAsked
<1> HIDE DEF last
<1> QED BY <1>1, <1>2, <1>3 DEF Justified, last

\* After a model without release: the next model, the next candidate, or the end.
LEMMA AfterModelKeeps ==
  ASSUME NEW s, SearchTyped(s), Going(s), s.at = "posting",
         NEW response \in Provider!Response, NEW t,
         t.trail = Append(s.trail, Posted(s, response)),
         response \in Quiet,
         NEW none \in BOOLEAN,
         none => s.none \/ response = "nothing",
         none \/ (~s.none /\ Provider!Silent(t, s.rui, s.model)),
         Provider!Asked(t, s.rui, s.model),
         t = Noted(Provider!AfterModel(s, none), Posted(s, response))
  PROVE  SearchOK(t)
<1> DEFINE e == Posted(s, response)
           n == Provider!Models
<1>1. /\ s.rui \in Nat \ {0} /\ s.model \in 1..n /\ n \in Nat \ {0} /\ s.ruis \in Seq(Nat)
      /\ Len(s.ruis) \in Nat
  BY ModelsPositive DEF SearchTyped
<1>2. /\ t.trail \in Seq(Entry)
      /\ \A i \in DOMAIN t.trail : t.trail[i].response \in Quiet
      /\ response = "nothing" => Provider!Denied(t, s.rui, s.model)
  BY LastAnswer
<1>3. /\ \A r \in 1..(s.rui - 1) : Provider!Exhausted(t, r)
      /\ \A m \in 1..(s.model - 1) : Provider!Asked(t, s.rui, m)
      /\ s.none => \E m \in 1..(s.model - 1) : Provider!Denied(t, s.rui, m)
      /\ ~s.none => \A m \in 1..(s.model - 1) : Provider!Silent(t, s.rui, m)
  BY StillAsked
<1>4. \A m \in 1..s.model : m \in 1..(s.model - 1) \/ m = s.model
  BY <1>1
<1>5. /\ \A m \in 1..s.model : Provider!Asked(t, s.rui, m)
      /\ none => \E m \in 1..s.model : Provider!Denied(t, s.rui, m)
      /\ ~none => \A m \in 1..s.model : Provider!Silent(t, s.rui, m)
  <2>1. \A m \in 1..(s.model - 1) : m \in 1..s.model
    BY <1>1
  <2>2. s.model \in 1..s.model
    BY <1>1
  <2> HIDE DEF n
  <2> QED BY <1>2, <1>3, <1>4, <2>1, <2>2
<1>6. response \notin Release
  BY ProviderAssumption DEF Quiet
<1>7. Provider!Seeds = 2
  BY ModelsPositive
<1>8. CASE s.model < n
  <2>1. t = [s EXCEPT !.model = s.model + 1, !.seed = 1, !.none = none,
                      !.trail = Append(s.trail, e)]
    BY <1>8 DEF Provider!AfterModel, SearchTyped, Noted
  <2>2. /\ t.at = "posting" /\ t.rui = s.rui /\ t.model = s.model + 1 /\ t.seed = 1
        /\ t.none = none
    BY <2>1 DEF SearchTyped
  <2>3. SearchTyped(t)
    BY <1>1, <1>2, <1>7, <1>8, <2>1 DEF SearchTyped
  <2>4. t.model - 1 = s.model
    BY <1>1, <2>2
  <2>5. Going(t)
    BY <1>2, <1>3, <1>5, <2>2, <2>4 DEF Going
  <2> QED BY <2>2, <2>3, <2>5 DEF SearchOK, Provider!Verdict, Provider!Fault
<1>9. CASE ~(s.model < n) /\ ~none
  <2>1. s.model = n
    BY <1>1, <1>9
  <2>2. t = [s EXCEPT !.at = "unreachable", !.trail = Append(s.trail, e)]
    BY <1>9 DEF Provider!AfterModel, SearchTyped, Noted
  <2>3. SearchTyped(t) /\ t.at = "unreachable"
    BY <1>2, <2>2 DEF SearchTyped, Provider!Verdict, Provider!Fault
  <2>4. \A m \in 1..Provider!Models : Provider!Silent(t, s.rui, m)
    BY <1>5, <1>9, <2>1
  <2>5. Justified(t, "unreachable")
    BY <1>6, <2>4, EndsJustified
  <2> QED BY <2>3, <2>5 DEF SearchOK
<1>10. CASE ~(s.model < n) /\ none
  <2>1. s.model = n
    BY <1>1, <1>10
  <2>2. Provider!Exhausted(t, s.rui)
    BY <1>5, <1>10, <2>1 DEF Provider!Exhausted
  <2>3. \A r \in 1..s.rui : Provider!Exhausted(t, r)
    <3>1. \A r \in 1..s.rui : r \in 1..(s.rui - 1) \/ r = s.rui
      BY <1>1
    <3> QED BY <1>3, <2>2, <3>1
  <2>4. CASE s.rui < Len(s.ruis)
    <3>1. t = [s EXCEPT !.rui = s.rui + 1, !.model = 1, !.seed = 1, !.none = FALSE,
                        !.trail = Append(s.trail, e)]
      BY <1>10, <2>4 DEF Provider!AfterModel, Provider!NextCandidate, SearchTyped, Noted
    <3>2. /\ t.at = "posting" /\ t.rui = s.rui + 1 /\ t.model = 1 /\ t.seed = 1
          /\ t.none = FALSE
      BY <3>1 DEF SearchTyped
    <3>3. SearchTyped(t)
      BY <1>1, <1>2, <1>7, <3>1 DEF SearchTyped
    <3>4. t.rui - 1 = s.rui /\ 1..(t.model - 1) = {}
      BY <1>1, <3>2
    <3>5. Going(t)
      BY <1>2, <2>3, <3>2, <3>4 DEF Going
    <3> QED BY <3>2, <3>3, <3>5 DEF SearchOK, Provider!Verdict, Provider!Fault
  <2>5. CASE ~(s.rui < Len(s.ruis))
    <3>1. t = [s EXCEPT !.at = "not_found", !.trail = Append(s.trail, e)]
      BY <1>10, <2>5 DEF Provider!AfterModel, Provider!NextCandidate, SearchTyped, Noted
    <3>2. SearchTyped(t) /\ t.at = "not_found" /\ t.ruis = s.ruis
      BY <1>2, <3>1 DEF SearchTyped, Provider!Verdict, Provider!Fault
    <3>3. \A r \in 1..Len(t.ruis) : r \in 1..s.rui
      BY <1>1, <2>5, <3>2
    <3>4. Justified(t, "not_found")
      BY <1>6, <2>3, <3>3, EndsJustified
    <3> QED BY <3>2, <3>4 DEF SearchOK
  <2> QED BY <2>4, <2>5
<1> QED BY <1>8, <1>9, <1>10

\* Whatever a request is answered, what its search has established stays true.
LEMMA JudgedKeeps ==
  ASSUME NEW s, SearchTyped(s), Going(s), s.at = "posting",
         NEW response \in Provider!Response, NEW named \in BOOLEAN, NEW t,
         t = Noted(Provider!Judged(s, response, named), Posted(s, response))
  PROVE  SearchOK(t)
<1> DEFINE e == Posted(s, response)
<1>0. /\ Provider!Fault = {"timeout", "unreachable", "undecryptable", "malformed"}
      /\ response \in Provider!Fault \/ response \in Quiet \/ response \in Release
      /\ Release \cap (Provider!Fault \cup Quiet) = {}
  BY ProviderAssumption DEF Provider!Response, Provider!Fault, Quiet
<1>1. s.seed \in {1, 2} /\ Provider!Seeds = 2 /\ s.none \in BOOLEAN
  BY ModelsPositive DEF SearchTyped
<1>2. CASE response = "empty" /\ s.seed = 1
  <2>1. t = [s EXCEPT !.seed = 2, !.trail = Append(s.trail, e)]
    <3>1. Provider!Judged(s, response, named) = [s EXCEPT !.seed = @ + 1]
      BY <1>0, <1>1, <1>2 DEF Provider!Judged
    <3>2. s.seed + 1 = 2
      BY <1>2
    <3> QED BY <3>1, <3>2 DEF SearchTyped, Noted
  <2>2. /\ t.at = "posting" /\ t.rui = s.rui /\ t.model = s.model /\ t.seed = 2
        /\ t.none = s.none /\ t.trail = Append(s.trail, e)
    BY <2>1 DEF SearchTyped
  <2>3. /\ t.trail \in Seq(Entry) /\ Emptied(t, s.rui, s.model)
        /\ \A i \in DOMAIN t.trail : t.trail[i].response \in Quiet
    BY <1>2, <2>2, LastAnswer DEF Quiet
  <2>4. SearchTyped(t)
    BY <1>1, <2>1, <2>3 DEF SearchTyped
  <2>5. /\ \A r \in 1..(s.rui - 1) : Provider!Exhausted(t, r)
        /\ \A m \in 1..(s.model - 1) : Provider!Asked(t, s.rui, m)
        /\ s.none => \E m \in 1..(s.model - 1) : Provider!Denied(t, s.rui, m)
        /\ ~s.none => \A m \in 1..(s.model - 1) : Provider!Silent(t, s.rui, m)
    BY <2>2, StillAsked
  <2>6. Going(t)
    BY <2>2, <2>3, <2>5 DEF Going
  <2> QED BY <2>2, <2>4, <2>6 DEF SearchOK, Provider!Verdict, Provider!Fault
<1>3. CASE response \in Quiet /\ ~(response = "empty" /\ s.seed = 1)
  <2> DEFINE none == IF response = "nothing" THEN TRUE ELSE s.none
  <2>1. Provider!Judged(s, response, named) = Provider!AfterModel(s, none)
    <3>1. response \notin Provider!Fault
      BY <1>0, <1>3 DEF Quiet
    <3>2. CASE response = "empty"
      BY <1>0, <1>1, <1>3, <3>2 DEF Provider!Judged
    <3>3. CASE response = "null"
      BY <1>0, <3>3 DEF Provider!Judged
    <3>4. CASE response = "nothing"
      BY <1>0, <3>4 DEF Provider!Judged
    <3> QED BY <1>3, <3>2, <3>3, <3>4 DEF Quiet
  <2>2. Provider!AfterModel(s, none).trail = s.trail
        /\ "trail" \in DOMAIN Provider!AfterModel(s, none)
    BY DEF Provider!AfterModel, Provider!NextCandidate, SearchTyped
  <2>3. t.trail = Append(s.trail, e)
    BY <2>1, <2>2 DEF Noted
  <2>4. /\ response = "nothing" => Provider!Denied(t, s.rui, s.model)
        /\ response # "nothing" => Provider!Silent(t, s.rui, s.model)
    BY <1>1, <1>3, <2>3, LastAnswer DEF Quiet
  <2>5. Provider!Asked(t, s.rui, s.model)
    BY <2>4 DEF Provider!Asked
  <2>6. response \in Quiet /\ t.trail = Append(s.trail, Posted(s, response))
    BY <1>3, <2>3
  <2>7. CASE response = "nothing"
    <3>1. t = Noted(Provider!AfterModel(s, TRUE), Posted(s, response))
      BY <2>1, <2>7
    <3> QED BY <2>5, <2>6, <2>7, <3>1, AfterModelKeeps
  <2>8. CASE response # "nothing"
    <3>1. t = Noted(Provider!AfterModel(s, s.none), Posted(s, response))
      BY <2>1, <2>8
    <3>2. s.none => s.none \/ response = "nothing"
      OBVIOUS
    <3>3. s.none \/ (~s.none /\ Provider!Silent(t, s.rui, s.model))
      BY <2>4, <2>8
    <3> QED BY <1>1, <2>5, <2>6, <3>1, <3>2, <3>3, AfterModelKeeps
  <2> QED BY <2>7, <2>8
<1>4. CASE response \in Provider!Fault
  <2>1. t = [s EXCEPT !.at = response, !.trail = Append(s.trail, e)]
    BY <1>0, <1>4 DEF Provider!Judged, SearchTyped, Noted, Quiet
  <2>2. t.at = response /\ t.trail = Append(s.trail, e)
    BY <2>1 DEF SearchTyped
  <2>3. t.trail \in Seq(Entry)
    BY <2>2, LastAnswer
  <2>4. SearchTyped(t)
    BY <1>4, <2>1, <2>3 DEF SearchTyped, Provider!Verdict
  <2>5. Justified(t, response)
    BY <1>0, <1>4, <2>2, EndsJustified
  <2>6. response \notin {"resting", "posting", "noting"}
    BY <1>0, <1>4
  <2> QED BY <2>2, <2>4, <2>5, <2>6 DEF SearchOK
<1>5. CASE response \in Release
  <2> DEFINE at == IF named THEN "found" ELSE "noting"
  <2>1. t = [s EXCEPT !.at = at, !.trail = Append(s.trail, e)]
    BY <1>0, <1>5 DEF Provider!Judged, SearchTyped, Quiet, Noted
  <2>2. t.at = at /\ t.trail = Append(s.trail, e)
    BY <2>1 DEF SearchTyped
  <2>3. t.trail \in Seq(Entry)
    BY <2>2, LastAnswer
  <2>4. SearchTyped(t)
    BY <2>1, <2>3 DEF SearchTyped, Provider!Verdict
  <2>5. Justified(t, "found")
    BY <1>5, <2>2, EndsJustified
  <2>6. at \in {"found", "noting"}
    OBVIOUS
  <2> HIDE DEF at
  <2> QED BY <2>2, <2>4, <2>5, <2>6 DEF SearchOK, Provider!Verdict, Provider!Fault
<1> QED BY <1>0, <1>2, <1>3, <1>4, <1>5

LEMMA AskReplaced ==
  ASSUME AskInv, NEW w \in Web, NEW r, Asks(r), request' = [request EXCEPT ![w] = r]
  PROVE  AskInv'
BY DEF AskInv

LEMMA AskMovesOn ==
  ASSUME AskInv, NEW w \in Web,
         \/ request' = [request EXCEPT ![w] = Idle]
         \/ \E at : at # "claiming" /\ request' = [request EXCEPT ![w].at = at]
  PROVE  AskInv'
<1>1. CASE request' = [request EXCEPT ![w] = Idle]
  BY <1>1, AskReplaced DEF Asks, Idle
<1>2. ASSUME NEW at, at # "claiming", request' = [request EXCEPT ![w].at = at]
      PROVE  AskInv'
  <2> DEFINE r == [request[w] EXCEPT !.at = at]
  <2>1. Asks(r)
    BY <1>2 DEF AskInv, Asks
  <2>2. request' = [request EXCEPT ![w] = r]
    BY <1>2
  <2> HIDE DEF r
  <2> QED BY <2>1, <2>2, AskReplaced
<1> QED BY <1>1, <1>2

LEMMA AskStep == SiteInv /\ AskInv /\ [Next]_vars => AskInv'
<1> SUFFICES ASSUME SiteInv, AskInv, [Next]_vars PROVE AskInv'
  OBVIOUS
<1>1. CASE UNCHANGED request
  BY <1>1 DEF AskInv, Asks
<1>2. ASSUME NEW w \in site.webs, Serve(w) PROVE AskInv'
  <2>1. w \in Web
    BY SiteAssumption DEF SiteInv
  <2>2. CASE ClaimFails(w) \/ LinkRefused(w) \/ LinkEnds(w) \/ ProviderFails(w) \/ Respond(w)
    BY <2>1, <2>2, AskMovesOn
       DEF ClaimFails, LinkRefused, LinkEnds, ProviderFails, Respond, RespondCached, StoreAnswer
  <2>3. CASE OtaGranted(w) \/ LinkGranted(w)
    <3>1. \E at \in {"cached", "asking", "resolving"} :
            request' = [request EXCEPT ![w].at = at]
      BY <2>3 DEF OtaGranted, ClaimSucceeds, LinkGranted
    <3> QED BY <2>1, <3>1, AskMovesOn
  <2>4. ASSUME NEW x, NEW rui, ProviderAnswers(w, x, rui) PROVE AskInv'
    <3> DEFINE r == [request[w] EXCEPT !.at = "storing",
                                       !.answer = {[release |-> x, rui |-> rui]}]
    <3>1. Asks(r)
      BY <2>1 DEF AskInv, Asks
    <3>2. request' = [request EXCEPT ![w] = r]
      BY <2>4 DEF ProviderAnswers
    <3> HIDE DEF r
    <3> QED BY <2>1, <3>1, <3>2, AskReplaced
  <2>5. CASE AskProvider(w) \/ FollowLink(w) \/ (BeginClaim(w) /\ UNCHANGED gatewayVars)
    BY <1>1, <2>5 DEF AskProvider, FollowLink, gatewayVars
  <2> QED BY <1>2, <2>2, <2>3, <2>4, <2>5 DEF Serve, Claiming, ProviderEnds
<1>3. ASSUME NEW w \in site.webs, ReceiveOta(w) PROVE AskInv'
  <2>1. w \in Web /\ site.queries \subseteq Query
    BY SiteAssumption DEF SiteInv
  <2>2. PICK a \in Actor, q \in site.queries, persist \in site.persist : Prepare(w, a, q, persist)
    BY <1>3 DEF ReceiveOta
  <2> DEFINE r == [at |-> "claiming", query |-> q, persist |-> persist, answer |-> Cached(q)]
  <2>3. Asks(r)
    BY <2>1 DEF Asks
  <2>4. request' = [request EXCEPT ![w] = r]
    BY <2>2 DEF Prepare
  <2> HIDE DEF r
  <2> QED BY <2>1, <2>3, <2>4, AskReplaced
<1>4. ASSUME NEW w \in site.webs, ReceiveLink(w) PROVE AskInv'
  <2>1. w \in Web
    BY SiteAssumption DEF SiteInv
  <2>2. request' = [request EXCEPT ![w].at = "linking"]
    BY <1>4 DEF ReceiveLink
  <2> QED BY <2>1, <2>2, AskMovesOn
<1>5. CASE PassTime \/ OthersStore \/ UNCHANGED vars
  BY <1>1, <1>5 DEF PassTime, OthersStore, ScanStores, ArchiveStores, vars, gatewayVars
<1> QED BY <1>2, <1>3, <1>4, <1>5 DEF Next

LEMMA SearchReplaced ==
  ASSUME SearchInv, NEW w \in Web, NEW s, SearchOK(s), search' = [search EXCEPT ![w] = s]
  PROVE  SearchInv'
BY DEF SearchInv

LEMMA StartKeeps ==
  ASSUME SearchInv, NEW w \in Web, NEW ruis \in Seq(Nat), Provider!StartSearch(w, ruis)
  PROVE  SearchInv'
<1> DEFINE s == [Provider!Resting EXCEPT !.at = "posting", !.ruis = ruis]
<1>1. SearchTyped(s)
  BY ModelsPositive DEF SearchTyped, Provider!Resting
<1>2. s.at = "posting" /\ s.rui = 1 /\ s.model = 1 /\ s.seed = 1 /\ s.none = FALSE
      /\ s.trail = <<>>
  BY DEF Provider!Resting
<1>3. search' = [search EXCEPT ![w] = s]
  BY DEF Provider!StartSearch
<1> HIDE DEF s
<1>4. Going(s)
  <2>1. 1..(s.rui - 1) = {} /\ 1..(s.model - 1) = {} /\ DOMAIN s.trail = {}
    BY <1>2
  <2> QED BY <1>2, <2>1 DEF Going
<1>5. SearchOK(s)
  BY <1>1, <1>2, <1>4 DEF SearchOK, Provider!Verdict, Provider!Fault
<1> QED BY <1>3, <1>5, SearchReplaced

LEMMA PostKeeps ==
  ASSUME SearchInv, NEW w \in Web, NEW response \in Provider!Response, NEW named \in BOOLEAN,
         Provider!Post(w, response, named)
  PROVE  SearchInv'
<1> DEFINE s == search[w]
           t == Noted(Provider!Judged(s, response, named), Posted(s, response))
<1>1. SearchTyped(s) /\ Going(s) /\ s.at = "posting"
  BY DEF SearchInv, SearchOK, Provider!Post
<1>2. search' = [search EXCEPT ![w] = t]
  BY DEF Provider!Post, Noted, Posted
<1>3. SearchOK(t)
  BY <1>1, JudgedKeeps
<1> HIDE DEF t
<1> QED BY <1>2, <1>3, SearchReplaced

LEMMA FetchNotesKeeps ==
  ASSUME SearchInv, NEW w \in Web, Provider!FetchNotes(w)
  PROVE  SearchInv'
<1> DEFINE s == search[w]
           t == [s EXCEPT !.at = "found"]
<1>1. SearchTyped(s) /\ Justified(s, "found")
  BY DEF SearchInv, SearchOK, Provider!FetchNotes
<1>2. search' = [search EXCEPT ![w] = t]
  BY DEF Provider!FetchNotes
<1>3. /\ SearchTyped(t) /\ t.at = "found" /\ t.trail = s.trail /\ t.ruis = s.ruis
  BY <1>1 DEF SearchTyped, Provider!Verdict
<1> HIDE DEF t
<1>4. Justified(t, "found")
  <2>1. \A r, m : Provider!Denied(t, r, m) <=> Provider!Denied(s, r, m)
    BY <1>3 DEF Provider!Denied
  <2>2. \A r, m : Provider!Silent(t, r, m) <=> Provider!Silent(s, r, m)
    BY <1>3, SilentMeans DEF Got
  <2>3. \A r, m : Provider!Asked(t, r, m) <=> Provider!Asked(s, r, m)
    BY <2>1, <2>2 DEF Provider!Asked
  <2>4. \A r : Provider!Exhausted(t, r) <=> Provider!Exhausted(s, r)
    BY <2>1, <2>3 DEF Provider!Exhausted
  <2> QED BY <1>1, <1>3, <2>2, <2>3, <2>4 DEF Justified
<1>5. SearchOK(t)
  BY <1>3, <1>4 DEF SearchOK
<1> QED BY <1>2, <1>5, SearchReplaced

LEMMA SearchStep == SiteInv /\ AskInv /\ SearchInv /\ [Next]_vars => SearchInv'
<1> SUFFICES ASSUME SiteInv, AskInv, SearchInv, [Next]_vars PROVE SearchInv'
  OBVIOUS
<1>1. CASE UNCHANGED search
  BY <1>1 DEF SearchInv
<1>2. ASSUME NEW w \in site.webs, Serve(w) PROVE SearchInv'
  <2>1. w \in Web
    BY SiteAssumption DEF SiteInv
  <2>2. CASE OtaGranted(w)
    <3>1. request[w].query \in Query
      BY <2>1, <2>2 DEF OtaGranted, ClaimSucceeds, AskInv, Asks
    <3>2. request[w].query.ruis \in Seq(Nat)
      BY <3>1, ProviderAssumption
    <3>3. Provider!StartSearch(w, request[w].query.ruis) \/ UNCHANGED search
      BY <2>2 DEF OtaGranted
    <3> QED BY <1>1, <2>1, <3>2, <3>3, StartKeeps
  <2>3. CASE AskProvider(w)
    <3>1. CASE Provider!FetchNotes(w)
      BY <2>1, <3>1, FetchNotesKeeps
    <3>2. ASSUME NEW response \in site.responses, NEW named \in BOOLEAN,
                 Provider!Post(w, response, named)
          PROVE  SearchInv'
      <4>1. response \in Provider!Response
        BY ProviderAssumption DEF SiteInv
      <4> QED BY <2>1, <3>2, <4>1, PostKeeps
    <3> QED BY <2>3, <3>1, <3>2 DEF AskProvider
  <2>4. CASE ProviderEnds(w)
    <3>1. search' = [search EXCEPT ![w] = Provider!Resting]
      BY <2>4 DEF ProviderEnds, Provider!EndSearch
    <3> QED BY <2>1, <3>1, RestingOK, SearchReplaced
  <2>5. CASE Claiming(w) \/ LinkGranted(w) \/ LinkRefused(w) \/ FollowLink(w) \/ LinkEnds(w)
             \/ Respond(w)
    BY <1>1, <2>5 DEF Claiming, LinkGranted, LinkRefused, FollowLink, LinkEnds, Respond
  <2> QED BY <1>2, <2>2, <2>3, <2>4, <2>5 DEF Serve
<1>3. CASE PassTime \/ OthersStore \/ UNCHANGED vars \/ \E w \in site.webs : ReceiveOta(w) \/ ReceiveLink(w)
  BY <1>1, <1>3 DEF PassTime, OthersStore, ReceiveOta, ReceiveLink, vars
<1> QED BY <1>2, <1>3 DEF Next

\* The verdict of every search follows from all that upstream answered, for any
\* number of candidates, region variants and processes: "not found" only when
\* every candidate was asked for with every model and denied.
THEOREM VerdictsAreJustified == Spec => []VerdictIsJustified
<1>1. Init => SiteInv /\ AskInv /\ SearchInv
  BY RestingOK DEF Init, SiteInv, GatewayInit, Provider!SearchInit, AskInv, Asks, Idle, SearchInv
<1>2. SearchInv => VerdictIsJustified
  BY DEF SearchInv, SearchOK, Justified, Quiet, VerdictIsJustified, Provider!VerdictIsJustified,
         Provider!Answer
<1> QED BY <1>1, <1>2, SiteInvStep, AskStep, SearchStep, PTL DEF Spec
=============================================================================
