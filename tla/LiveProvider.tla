---------------------------- MODULE LiveProvider ----------------------------
(***************************************************************************)
(* RealmeOtaProvider.query: RUI candidates in the caller's order, for each *)
(* the upstream models (the exact one, region variants, the base model),   *)
(* for each two seed versions, and what each response makes of the search. *)
(* Encryption and the search for fields in the JSON content are left out.  *)
(***************************************************************************)
EXTENDS Naturals, Sequences

CONSTANTS Searcher,   \* whoever may query the provider
          Variants,   \* region suffixes of the manifest that the model lacks
          Shortened,  \* whether derive_ota_model shortens the model
          Found       \* the releases upstream may answer with

\* _upstream_product_models: the model, its variants and its base model.
Models == 1 + Variants + (IF Shortened THEN 1 ELSE 0)

\* _seed_ota_versions: the primary and the fallback.
Seeds == 2

\* What a POST may yield: no answer in time, no usable answer, a body that
\* cannot be decrypted, JSON content that is no object (query then raises an
\* AttributeError), an envelope without body, a body that decrypts to null,
\* content without a release (checkFailReason, no version, no URL), a release.
Fault == {"timeout", "unreachable", "undecryptable", "malformed"}
Response == Fault \cup {"empty", "null", "nothing"} \cup Found

VARIABLE search   \* where each search is, and what it was answered (trail)

Resting == [at |-> "resting", ruis |-> <<>>, rui |-> 1, model |-> 1, seed |-> 1,
            none |-> FALSE, trail |-> <<>>]

SearchInit == search = [w \in Searcher |-> Resting]

StartSearch(w, ruis) ==
  /\ search[w].at = "resting"
  /\ search' = [search EXCEPT ![w] = [Resting EXCEPT !.at = "posting", !.ruis = ruis]]

\* Mutant: a candidate's silence is forgiven if an earlier one had no release.
NextCandidateKeepingNone(s) ==
  IF s.rui < Len(s.ruis) THEN [s EXCEPT !.rui = @ + 1, !.model = 1, !.seed = 1, !.none = TRUE]
                         ELSE [s EXCEPT !.at = "not_found"]

\* query goes on with the next candidate if one has no release.
NextCandidate(s) ==
  IF s.rui < Len(s.ruis) THEN [s EXCEPT !.rui = @ + 1, !.model = 1, !.seed = 1, !.none = FALSE]
                         ELSE [s EXCEPT !.at = "not_found"]

\* _query_candidate tries the next model; after the last one the candidate
\* has no release, or was never answered, which ends the query.
AfterModel(s, none) ==
  CASE s.model < Models -> [s EXCEPT !.model = @ + 1, !.seed = 1, !.none = none]
    [] OTHER            -> IF none THEN NextCandidate(s) ELSE [s EXCEPT !.at = "unreachable"]

\* An envelope without body is asked for again with the fallback seed.  A release
\* that comes without a name to display is looked up first.
Judged(s, response, named) ==
  CASE response = "empty" /\ s.seed < Seeds -> [s EXCEPT !.seed = @ + 1]
    [] response = "empty" /\ s.seed = Seeds -> AfterModel(s, s.none)
    [] response = "null"                    -> AfterModel(s, s.none)
    [] response = "nothing"                 -> AfterModel(s, TRUE)
    [] response \in Fault                   -> [s EXCEPT !.at = response]
    [] OTHER                                -> [s EXCEPT !.at = IF named THEN "found" ELSE "noting"]

Post(w, response, named) ==
  LET s == search[w] IN
  /\ s.at = "posting"
  /\ search' = [search EXCEPT ![w] =
       [Judged(s, response, named) EXCEPT
          !.trail = Append(@, [rui |-> s.rui, model |-> s.model, seed |-> s.seed,
                               response |-> response])]]

\* _fetch_about_update_metadata: whatever the page of the update answers, the
\* release stands.
FetchNotes(w) ==
  /\ search[w].at = "noting"
  /\ search' = [search EXCEPT ![w].at = "found"]

Verdict == Fault \cup {"found", "not_found"}
Answer(w) == search[w].trail[Len(search[w].trail)]

\* query returns or raises.
EndSearch(w) ==
  /\ search[w].at \in Verdict
  /\ search' = [search EXCEPT ![w] = Resting]

---------------------------------------------------------------------------
(* Properties.                                                             *)

\* Upstream said of a model that there is no release, or never answered it.
Denied(s, r, m) ==
  \E i \in DOMAIN s.trail : /\ s.trail[i].rui = r /\ s.trail[i].model = m
                            /\ s.trail[i].response = "nothing"
Silent(s, r, m) ==
  LET Got(k, response) == \E i \in DOMAIN s.trail :
        s.trail[i] = [rui |-> r, model |-> m, seed |-> k, response |-> response]
  IN  (\A k \in 1..Seeds : Got(k, "empty")) \/ (\E k \in 1..Seeds : Got(k, "null"))
Asked(s, r, m) == Denied(s, r, m) \/ Silent(s, r, m)
Exhausted(s, r) ==
  /\ \A m \in 1..Models : Asked(s, r, m)
  /\ \E m \in 1..Models : Denied(s, r, m)

\* The verdict of a search, against all it was answered: a release is that of
\* the first candidate, and of its first model, that has one; "not found" means
\* that every candidate was asked for with every model and upstream denied each
\* at least once; and a candidate that never was answered is not "not found".
VerdictIsJustified ==
  \A w \in Searcher :
    LET s == search[w] IN
    s.at \in Verdict =>
      LET last == Answer(w) IN
      /\ \A i \in 1..(Len(s.trail) - 1) : s.trail[i].response \in {"empty", "null", "nothing"}
      /\ \A r \in 1..(last.rui - 1) : Exhausted(s, r)
      /\ \A m \in 1..(last.model - 1) : Asked(s, last.rui, m)
      /\ s.at = "found" <=> last.response \in Found
      /\ s.at = "not_found" => \A r \in 1..Len(s.ruis) : Exhausted(s, r)
      /\ s.at = "unreachable" /\ last.response # "unreachable"
           => \A m \in 1..Models : Silent(s, last.rui, m)
=============================================================================
