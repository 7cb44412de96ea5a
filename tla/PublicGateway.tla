--------------------------- MODULE PublicGateway ---------------------------
(***************************************************************************)
(* POST /api/ota in public mode: PublicOtaService.prepare looks for a      *)
(* fresh release in ota_releases, then claims the action, and answers from *)
(* the cache or asks the provider; and the writers of ota_releases that    *)
(* the cache must tell apart.  The claim is the module ActionQuota.  The   *)
(* releases are those of one product model and manifest code.              *)
(***************************************************************************)
EXTENDS ActionQuota

CONSTANTS Query,     \* [track, ruis]: the queries, with RUIs in order
          Release    \* releases by version and download URL, the unique key

VARIABLES request,   \* what each web process serves
          releases,  \* ota_releases, in the order of discovered_at
          provided   \* history: what the provider has answered

gatewayVars == <<request, releases, provided>>

Track == {q.track : q \in Query}
Rui == UNION {{q.ruis[i] : i \in DOMAIN q.ruis} : q \in Query}
Row == [release : Release, source : {"live_provider", "archive"},
        track : Track, rui : Rui, seen : Nat]

Idle == [at |-> "idle", query |-> CHOOSE q \in Query : TRUE, persist |-> FALSE,
         answer |-> {}]

GatewayInit ==
  /\ request = [w \in Web |-> Idle]
  /\ releases = <<>>
  /\ provided = {}

---------------------------------------------------------------------------
(* The release store.                                                      *)

\* upsert_ota_release: the unique key decides; a row that is there keeps its
\* source, track and RUI, and is only seen again.
Upserted(rows, r, source, track, rui) ==
  IF \E i \in DOMAIN rows : rows[i].release = r
  THEN [i \in DOMAIN rows |-> IF rows[i].release = r THEN [rows[i] EXCEPT !.seen = clock]
                                                     ELSE rows[i]]
  ELSE Append(rows, [release |-> r, source |-> source, track |-> track, rui |-> rui,
                     seen |-> clock])

\* A scan stores what the provider answered ...
ScanStores(r, track, rui) ==
  /\ releases' = Upserted(releases, r, "live_provider", track, rui)
  /\ provided' = provided \cup {<<r, track, rui>>}
  /\ UNCHANGED request

\* ... and the archive import what a third party lists.
ArchiveStores(r, track, rui) ==
  /\ releases' = Upserted(releases, r, "archive", track, rui)
  /\ UNCHANGED <<request, provided>>

\* list_releases since the cutoff.
Fresh(row) == row.seen + Cooldown >= clock

Matches(q, row) ==
  /\ Fresh(row)
  /\ row.track = q.track
  /\ \E i \in DOMAIN q.ruis : q.ruis[i] = row.rui

\* Mutant: the rows of all sources are searched.
CachedFromAnySource(q) ==
  LET rows == {i \in DOMAIN releases : Matches(q, releases[i])}
  IN  {releases[i] : i \in {j \in rows : \A k \in rows : k <= j}}

\* find_cached_ota_release: the match that was discovered last, if any.
Cached(q) ==
  LET rows == {i \in DOMAIN releases : /\ releases[i].source = "live_provider"
                                       /\ Matches(q, releases[i])}
  IN  {releases[i] : i \in {j \in rows : \A k \in rows : k <= j}}

---------------------------------------------------------------------------
(* A request.                                                              *)

\* PublicOtaService.prepare after the challenge: the cache is read, and
\* decides whether the claim asks for the cooldown.
Prepare(w, a, q, persist) ==
  LET hit == Cached(q) IN
  /\ request[w].at = "idle"
  /\ request' = [request EXCEPT ![w] = [at |-> "claiming", query |-> q,
                                        persist |-> persist, answer |-> hit]]
  /\ CallClaim(w, [actor |-> a, action |-> "ota", key |-> q],
               IF hit # {} THEN 0 ELSE Cooldown)
  /\ UNCHANGED <<releases, provided>>

\* A refused request ends with RATE_LIMITED, one that raises with a 500.
ClaimFails(w) ==
  /\ request[w].at = "claiming"
  /\ Refuse(w) \/ ClaimRaises(w)
  /\ request' = [request EXCEPT ![w] = Idle]
  /\ UNCHANGED <<releases, provided>>

ClaimSucceeds(w) ==
  /\ request[w].at = "claiming"
  /\ Grant(w)
  /\ request' = [request EXCEPT ![w].at = IF request[w].answer # {} THEN "cached" ELSE "asking"]
  /\ UNCHANGED <<releases, provided>>

\* The response with X-OTA-Source: cache.
RespondCached(w) ==
  /\ request[w].at = "cached"
  /\ request' = [request EXCEPT ![w] = Idle]
  /\ UNCHANGED <<quotaVars, releases, provided>>

\* run_manual_query gets a release, or an error that it maps to a status.
ProviderAnswers(w, r, rui) ==
  /\ request[w].at = "asking"
  /\ provided' = provided \cup {<<r, request[w].query.track, rui>>}
  /\ request' = [request EXCEPT ![w].at = "storing",
                                ![w].answer = {[release |-> r, rui |-> rui]}]
  /\ UNCHANGED releases

ProviderFails(w) ==
  /\ request[w].at = "asking"
  /\ request' = [request EXCEPT ![w] = Idle]
  /\ UNCHANGED <<releases, provided>>

\* The release is stored if the caller asked for it, and returned.
StoreAnswer(w) ==
  /\ request[w].at = "storing"
  /\ releases' = IF request[w].persist
                 THEN LET x == CHOOSE x \in request[w].answer : TRUE
                      IN  Upserted(releases, x.release, "live_provider",
                                   request[w].query.track, x.rui)
                 ELSE releases
  /\ request' = [request EXCEPT ![w] = Idle]
  /\ UNCHANGED <<quotaVars, provided>>

---------------------------------------------------------------------------
(* Properties.                                                             *)

\* What the cache serves the provider did answer, for the same track and an
\* RUI the caller accepts: never a release that only the archive lists, and
\* never one found on another track.
CachedAnswerCameFromProvider ==
  \A w \in Web : \A row \in request[w].answer :
    request[w].at = "cached"
      => \E i \in DOMAIN request[w].query.ruis :
           <<row.release, request[w].query.track, request[w].query.ruis[i]>> \in provided
=============================================================================
