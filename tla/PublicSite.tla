----------------------------- MODULE PublicSite -----------------------------
(***************************************************************************)
(* The public site: web processes that share the quota and the releases    *)
(* (PublicGateway), ask upstream (LiveProvider) and resolve links          *)
(* (Resolver), next to the scans and imports that write the releases.      *)
(***************************************************************************)
EXTENDS PublicGateway

CONSTANTS Site,           \* the sites that behaviours are about
          Variants, Shortened,
          Url, Host, BadUrl, BadPort, Unparsable, AllowedHost, Intermediate, Download, Moved,
          MaxRedirects,
          MaxHistory      \* bound of the calls that resolve a link

ASSUME SiteAssumption ==
  /\ Query \cup Url \subseteq Key
  /\ \A s \in Site : /\ s.webs \subseteq Web
                    /\ s.queries \subseteq Query
                    /\ s.urls \subseteq Url
  /\ MaxRedirects \in Nat

VARIABLES search, trip, history,
          site            \* the site of this behaviour

Provider == INSTANCE LiveProvider WITH Searcher <- Web, Found <- Release
Links == INSTANCE Resolver WITH Searcher <- Web

\* Candidates are a list of numbers.  A release is an object, which is neither
\* one of the exceptions of the provider nor an answer without release.
ASSUME ProviderAssumption ==
  /\ Variants \in Nat /\ Shortened \in BOOLEAN
  /\ \A q \in Query : q.ruis \in Seq(Nat)
  /\ Release \cap (Provider!Fault \cup {"empty", "null", "nothing"}) = {}
  /\ \A s \in Site : s.responses \subseteq Provider!Response

vars == <<quotaVars, gatewayVars, search, trip, history, site>>

Init ==
  /\ QuotaInit
  /\ GatewayInit
  /\ Provider!SearchInit
  /\ Links!ResolverInit
  /\ site \in Site

\* Time passes as far as this site's behaviours go.
PassTime ==
  /\ clock < site.clock
  /\ Tick
  /\ UNCHANGED <<gatewayVars, search, trip, history, site>>

\* Other processes write releases.
OthersStore ==
  /\ \E row \in site.others :
       \/ row.by = "scan" /\ ScanStores(row.release, row.track, row.rui)
       \/ row.by = "archive" /\ ArchiveStores(row.release, row.track, row.rui)
  /\ UNCHANGED <<quotaVars, search, trip, history, site>>

\* POST /api/ota
ReceiveOta(w) ==
  /\ \E a \in Actor, q \in site.queries, persist \in site.persist : Prepare(w, a, q, persist)
  /\ UNCHANGED <<search, trip, history, site>>

\* POST /api/resolve: claimed without cooldown.
ReceiveLink(w) ==
  /\ request[w].at = "idle"
  /\ Len(history) < MaxHistory
  /\ \E a \in Actor, u \in site.urls :
       /\ CallClaim(w, [actor |-> a, action |-> "resolve", key |-> u], 0)
       /\ request' = [request EXCEPT ![w].at = "linking"]
  /\ UNCHANGED <<releases, provided, search, trip, history, site>>

Claiming(w) ==
  /\ \/ BeginClaim(w) /\ UNCHANGED gatewayVars
     \/ ClaimFails(w)
  /\ UNCHANGED <<search, trip, history, site>>

\* A granted query without cached answer goes to the provider.
OtaGranted(w) ==
  /\ ClaimSucceeds(w)
  /\ IF request'[w].at = "asking" THEN Provider!StartSearch(w, request[w].query.ruis)
                                  ELSE UNCHANGED search
  /\ UNCHANGED <<trip, history, site>>

LinkGranted(w) ==
  /\ request[w].at = "linking"
  /\ \E u \in Url : /\ claiming[w].subject.key = u
                    /\ Links!StartTrip(w, u)
  /\ Grant(w)
  /\ request' = [request EXCEPT ![w].at = "resolving"]
  /\ UNCHANGED <<releases, provided, search, site>>

LinkRefused(w) ==
  /\ request[w].at = "linking"
  /\ Refuse(w) \/ ClaimRaises(w)
  /\ request' = [request EXCEPT ![w] = Idle]
  /\ UNCHANGED <<releases, provided, search, trip, history, site>>

AskProvider(w) ==
  /\ \/ \E response \in site.responses, named \in BOOLEAN : Provider!Post(w, response, named)
     \/ Provider!FetchNotes(w)
  /\ UNCHANGED <<quotaVars, gatewayVars, trip, history, site>>

\* The verdict of the search is the answer of run_manual_query.
ProviderEnds(w) ==
  /\ Provider!EndSearch(w)
  /\ IF search[w].at = "found"
     THEN ProviderAnswers(w, Provider!Answer(w).response,
                          search[w].ruis[Provider!Answer(w).rui])
     ELSE ProviderFails(w)
  /\ UNCHANGED <<quotaVars, trip, history, site>>

FollowLink(w) ==
  /\ Links!Check(w) \/ Links!Contact(w)
  /\ UNCHANGED <<quotaVars, gatewayVars, search, site>>

LinkEnds(w) ==
  /\ request[w].at = "resolving"
  /\ Links!EndTrip(w)
  /\ request' = [request EXCEPT ![w] = Idle]
  /\ UNCHANGED <<quotaVars, releases, provided, search, site>>

Respond(w) ==
  /\ RespondCached(w) \/ StoreAnswer(w)
  /\ UNCHANGED <<search, trip, history, site>>

\* What a web process does once it has a request: its calls have timeouts.
Serve(w) ==
  \/ Claiming(w) \/ OtaGranted(w) \/ LinkGranted(w) \/ LinkRefused(w)
  \/ AskProvider(w) \/ ProviderEnds(w) \/ FollowLink(w) \/ LinkEnds(w) \/ Respond(w)

Next ==
  \/ PassTime
  \/ OthersStore
  \/ \E w \in site.webs : ReceiveOta(w) \/ ReceiveLink(w) \/ Serve(w)

Spec == Init /\ [][Next]_vars
FairSpec == Spec /\ \A w \in Web : WF_vars(w \in site.webs /\ Serve(w))

---------------------------------------------------------------------------

VerdictIsJustified == Provider!VerdictIsJustified
OnlyCheckedHostsAreContacted == Links!OnlyCheckedHostsAreContacted
HistoryIsChecked == Links!HistoryIsChecked

\* Every request is answered, whatever upstream, DNS and redirects do.
RequestsEnd == \A w \in Web : request[w].at # "idle" ~> request[w].at = "idle"
=============================================================================
