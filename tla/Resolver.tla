------------------------------ MODULE Resolver ------------------------------
(***************************************************************************)
(* ResolverService.resolve: the URL is validated, transformed, validated   *)
(* again, and its redirects followed, each validated before it is          *)
(* contacted, with the addresses that were validated.  DNS and the servers *)
(* answer as they like, and DNS not always alike.                          *)
(***************************************************************************)
EXTENDS Naturals, Sequences

CONSTANTS Searcher,       \* whoever may resolve
          Url,            \* URLs
          Host,           \* the host of each URL
          BadUrl,         \* no HTTP(S) URL with a host, or credentials
          BadPort,        \* neither 80 nor 443
          Unparsable,     \* urlsplit or its port refuses them with a ValueError
          AllowedHost,    \* hosts with an allowed suffix
          Intermediate,   \* URLs with downloadCheck or servlet/download
          Download,       \* URLs that look like a download or intermediate
          Moved,          \* the component link transform of each URL
          MaxRedirects

\* What a host resolves to: global addresses only, or others too, or nothing.
Address == {"global", "private"}
Unknown == "unknown"

VARIABLES trip,      \* the resolution each process works at
          history    \* resolve_requests

Home == [at |-> "home", input |-> {}, url |-> {}, hop |-> 0, dns |-> [h \in {} |-> Unknown],
         contacts |-> {}, verdict |-> "none"]

resolverVars == <<trip, history>>
ResolverInit ==
  /\ trip = [w \in Searcher |-> Home]
  /\ history = <<>>

---------------------------------------------------------------------------
(* _validated_safe_url, with the DNS answer `answer' if it asks for one.   *)

Looked(dns, u, answer) ==
  IF Host[u] \in DOMAIN dns THEN dns
  ELSE [h \in DOMAIN dns \cup {Host[u]} |-> IF h = Host[u] THEN answer ELSE dns[h]]

NeedsDns(u) == u \notin BadUrl \cup BadPort /\ Host[u] \in AllowedHost

\* The status of the ResolverError, or "safe".
Safety(u, dns) ==
  CASE u \in BadUrl                               -> "failed"
    [] u \notin BadUrl /\ ~NeedsDns(u)            -> "blocked"
    [] NeedsDns(u) /\ dns[Host[u]] = "none"       -> "failed"
    [] NeedsDns(u) /\ dns[Host[u]] = "private"    -> "blocked"
    [] OTHER                                      -> "safe"

\* Asks DNS for the host of `u', unless this call has the answer already.
Ask(t, u, answer) ==
  IF NeedsDns(u) THEN [t EXCEPT !.dns = Looked(@, u, answer)] ELSE t

Row(status, input, url) == [status |-> status, input |-> input, url |-> url]

---------------------------------------------------------------------------
(* resolve                                                                 *)

StartTrip(w, u) ==
  /\ trip[w].at = "home"
  /\ trip' = [trip EXCEPT ![w] = [Home EXCEPT !.at = "checking", !.url = {u}]]
  /\ UNCHANGED history

\* Mutant: the input is kept for the history before it is checked.
KeptUnchecked(t, u) == [t EXCEPT !.input = IF t.at = "checking" THEN {u} ELSE @]

\* stored_input is set when the first URL was found safe.
Kept(t, u) ==
  [t EXCEPT !.input = IF t.at = "checking" /\ Safety(u, t.dns) = "safe" THEN {u} ELSE @]

\* The next step after a URL was found safe: the input is transformed, and
\* the transformed one, as every redirect, is contacted.
Advanced(t, u) ==
  CASE t.at = "checking"    -> [t EXCEPT !.at = "transformed", !.url = {Moved[u]}]
    [] OTHER                -> [t EXCEPT !.at = "contacting"]

Raise(w, t, status) ==
  /\ history' = Append(history, Row(status, t.input, {}))
  /\ trip' = [trip EXCEPT ![w] = [t EXCEPT !.at = "ended", !.verdict = status]]

\* resolve catches nothing but ResolverError: no row is written.
Breaks(w, t) ==
  /\ trip' = [trip EXCEPT ![w] = [t EXCEPT !.at = "ended", !.verdict = "raised"]]
  /\ UNCHANGED history

\* A URL is checked: the caller's, the transformed one or a redirect.
Check(w) ==
  /\ trip[w].at \in {"checking", "transformed", "redirected"}
  /\ \E u \in trip[w].url, answer \in Address \cup {"none"} :
       LET t == Kept(Ask(trip[w], u, answer), u)
           safety == Safety(u, t.dns)
       IN  \/ u \in Unparsable /\ Breaks(w, trip[w])
           \/ /\ u \notin Unparsable /\ safety = "safe"
              /\ trip' = [trip EXCEPT ![w] = Advanced(t, u)]
              /\ UNCHANGED history
           \/ u \notin Unparsable /\ safety # "safe" /\ Raise(w, t, safety)

\* Mutant: the address is asked for again when the request is sent.
PinnedAnew(t, u) == Address

\* _pinned_ip_for: an address that was validated in this call.
Pinned(t, u) == {t.dns[Host[u]]}

TooMany(t) == t.hop >= MaxRedirects

\* Mutant: a redirect does not count as a hop.
RedirectedUncounted(w, t, v) ==
  IF TooMany(t)
  THEN Raise(w, t, "failed")
  ELSE /\ trip' = [trip EXCEPT ![w] = [t EXCEPT !.at = "redirected", !.url = {v}]]
       /\ UNCHANGED history

\* A redirect to `v'.
Redirected(w, t, v) ==
  IF TooMany(t)
  THEN Raise(w, t, "failed")
  ELSE /\ trip' = [trip EXCEPT ![w] = [t EXCEPT !.at = "redirected", !.url = {v}, !.hop = @ + 1]]
       /\ UNCHANGED history

\* 2xx ends the trip, at an intermediate URL with an error: the link expired.
Reached(w, t) ==
  IF t.url \subseteq Intermediate
  THEN Raise(w, t, "failed")
  ELSE /\ history' = Append(history, Row("success", t.input, t.url))
       /\ trip' = [trip EXCEPT ![w] = [t EXCEPT !.at = "ended", !.verdict = "success"]]

\* _extract_oplus_download_location: the payload of an intermediate URL names
\* a download, or is the error 2306.
Payload(w, t) ==
  /\ t.url \subseteq Intermediate
  /\ (\E v \in Download : Redirected(w, t, v)) \/ Raise(w, t, "failed")

\* head: a redirect, a success, or any other status, which is rejected.
Answered(w, t) ==
  \/ \E v \in Url : Redirected(w, t, v)
  \/ Payload(w, t)
  \/ Reached(w, t)
  \/ Raise(w, t, "failed")

\* One request and its response; the transport may raise.
Contact(w) ==
  /\ trip[w].at = "contacting"
  /\ \E u \in trip[w].url : \E a \in Pinned(trip[w], u) :
       LET t == [trip[w] EXCEPT !.contacts = @ \cup {<<Host[u], a>>}] IN
       Answered(w, t) \/ Breaks(w, t)

EndTrip(w) ==
  /\ trip[w].at = "ended"
  /\ trip' = [trip EXCEPT ![w] = Home]
  /\ UNCHANGED history

---------------------------------------------------------------------------
(* Properties.                                                             *)

\* Whatever DNS answers the second time, only hosts with an allowed suffix are
\* contacted, at addresses that were checked, and at most as often as the
\* limit of redirects allows.
OnlyCheckedHostsAreContacted ==
  \A w \in Searcher :
    /\ \A c \in trip[w].contacts : c[1] \in AllowedHost /\ c[2] = "global"
    /\ trip[w].hop <= MaxRedirects

\* The history stores no input that failed its check, and a resolved URL only
\* if it was contacted by a call that succeeded, and is no intermediate one.
HistoryIsChecked ==
  \A i \in DOMAIN history :
    /\ \A u \in history[i].input : u \notin BadUrl \cup BadPort /\ Host[u] \in AllowedHost
    /\ history[i].url # {} <=> history[i].status = "success"
    /\ history[i].url \cap (Intermediate \cup BadUrl \cup BadPort) = {}
=============================================================================
