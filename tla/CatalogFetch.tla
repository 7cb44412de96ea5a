---------------------------- MODULE CatalogFetch ----------------------------
(***************************************************************************)
(* Where an import gets its candidates (catalog.py): the fetchers of the   *)
(* domestic catalogue, one after the other, each with pages that eight     *)
(* threads fetch and that are merged as they complete; the seed file; the  *)
(* names of a last source laid over the others; and one candidate kept of  *)
(* each model.                                                             *)
(*                                                                         *)
(* A page is a sequence of entries, each about a model; the parsers drop   *)
(* entries they can make no candidate of.  HTTP, HTML and JSON are left    *)
(* out, and so are the names, which no property tells apart.               *)
(***************************************************************************)
EXTENDS Integers, Sequences, FiniteSets, SequencesExt

CONSTANTS Fetchers,         \* the pages of each fetcher, in the code's order
          Content,          \* the entries of a page
          Seed,             \* the entries of the seed file
          Renamed,          \* [model -> brand] of the overlaid names
          Priority,         \* CATALOG_SOURCE_PRIORITY
          Overlay,          \* the source that a renamed candidate gets
          SeedSource,       \* the source whose candidates are never renamed
          MaxFetchErrors    \* bound on requests that fail

ASSUME FetchAssumption ==
  /\ Overlay \in DOMAIN Priority /\ SeedSource \in DOMAIN Priority
  /\ MaxFetchErrors \in Nat

VARIABLE fetch

\* `delivered' is what the pages that could be parsed contained.
NoFetch == [at |-> "idle", fetcher |-> 0, pages |-> {}, batch |-> <<>>,
            gathered |-> <<>>, errors |-> 0, delivered |-> <<>>]

FetchInit == fetch = NoFetch

PriorityOf(c) == Priority[c.source]

\* _domestic_candidate: every candidate gets the manifest code 97.
Candidate(e) == [model |-> e.model, source |-> e.source, brand |-> e.brand, code |-> "97"]

\* An entry about a model sold in China, of a known brand, that can be
\* normalised; only the list of default regions has others.
Usable(e) == e.region = "CN" /\ e.brand # "unknown" /\ e.valid

\* The parsers of product pages and lists.
Parse(parsed, e) == IF Usable(e) THEN Append(parsed, Candidate(e)) ELSE parsed

Parsed(p) == FoldLeft(Parse, <<>>, Content[p])

\* load_domestic_cn_seed: the rows were written to be usable, all of them.
Seeded == [i \in DOMAIN Seed |-> Candidate(Seed[i])]

\* Mutant: the latest candidate wins.
TakeLatest(kept, c) ==
  Append(SelectSeq(kept, LAMBDA k : k.model # c.model), c)

\* _dedupe_candidates: a candidate replaces the one kept of its model, in its
\* place, if its source has a higher priority.
Take(kept, c) ==
  LET same == {i \in DOMAIN kept : kept[i].model = c.model}
  IN  IF same = {} THEN Append(kept, c)
      ELSE [i \in DOMAIN kept |->
              IF i \in same /\ PriorityOf(c) > PriorityOf(kept[i]) THEN c ELSE kept[i]]

Dedupe(s) == FoldLeft(Take, <<>>, s)

\* _apply_lsctool_name_overrides
Rename(c) ==
  IF /\ c.source # SeedSource
     /\ c.model \in DOMAIN Renamed
     /\ Renamed[c.model] = c.brand
  THEN [c EXCEPT !.source = Overlay]
  ELSE c

RenameAll(s) == [i \in DOMAIN s |-> Rename(s[i])]

FetchFault == fetch.errors < MaxFetchErrors

StartFetch ==
  /\ fetch.at # "fetching"
  /\ fetch' = [NoFetch EXCEPT !.at = "fetching", !.fetcher = 1, !.pages = Fetchers[1]]

\* _fetch_product_pages: a page is taken when its thread has finished.
PageArrives(p) ==
  /\ fetch.at = "fetching"
  /\ p \in fetch.pages
  /\ fetch' = [fetch EXCEPT !.pages = @ \ {p},
                            !.batch = @ \o Parsed(p),
                            !.delivered = @ \o Parsed(p)]

PageFails(p) ==
  /\ fetch.at = "fetching"
  /\ p \in fetch.pages
  /\ FetchFault
  /\ fetch' = [fetch EXCEPT !.pages = @ \ {p}, !.errors = @ + 1]

NextFetcher(gathered, errors) ==
  LET n == fetch.fetcher + 1
  IN  [fetch EXCEPT !.fetcher = n,
                    !.pages = IF n <= Len(Fetchers) THEN Fetchers[n] ELSE {},
                    !.batch = <<>>,
                    !.gathered = gathered,
                    !.errors = errors]

FetcherDone ==
  /\ fetch.at = "fetching"
  /\ fetch.fetcher <= Len(Fetchers)
  /\ fetch.pages = {}
  /\ fetch' = NextFetcher(fetch.gathered \o Dedupe(fetch.batch), fetch.errors)

\* The listing itself could not be had: the fetcher raises before its pages.
FetcherFails ==
  /\ fetch.at = "fetching"
  /\ fetch.fetcher <= Len(Fetchers)
  /\ fetch.pages = Fetchers[fetch.fetcher]
  /\ FetchFault
  /\ fetch' = NextFetcher(fetch.gathered, fetch.errors + 1)

\* A listing answered with an error page names no products and is no error.
ListingIsEmpty ==
  /\ fetch.at = "fetching"
  /\ fetch.fetcher <= Len(Fetchers)
  /\ fetch.pages = Fetchers[fetch.fetcher]
  /\ fetch' = NextFetcher(fetch.gathered, fetch.errors)

\* The seed, the overlaid names if they can be had, and one of each model.
Merge(named) ==
  LET all == fetch.gathered \o Seeded
      result == Dedupe(IF named THEN RenameAll(all) ELSE all)
      errors == fetch.errors + (IF named THEN 0 ELSE 1)
  IN  /\ fetch.at = "fetching"
      /\ fetch.fetcher > Len(Fetchers)
      /\ named \/ FetchFault
      /\ fetch' = [fetch EXCEPT
                     !.at = IF result = <<>> /\ errors > 0 THEN "raised" ELSE "fetched",
                     !.gathered = result,
                     !.errors = errors,
                     !.delivered = (IF named THEN RenameAll(@ \o Seeded) ELSE @ \o Seeded)]

\* A seed file with wrong columns or rows is not caught.
SeedIsInvalid ==
  /\ fetch.at = "fetching"
  /\ fetch.fetcher > Len(Fetchers)
  /\ FetchFault
  /\ fetch' = [fetch EXCEPT !.at = "raised"]

FetchStep ==
  \/ \E p \in fetch.pages : PageArrives(p) \/ PageFails(p)
  \/ FetcherDone \/ FetcherFails \/ ListingIsEmpty
  \/ SeedIsInvalid
  \/ \E named \in BOOLEAN : Merge(named)

---------------------------------------------------------------------------
Fetched == fetch.at = "fetched"
ResultModels == {fetch.gathered[i].model : i \in DOMAIN fetch.gathered}

\* A partial failure loses what it concerns and nothing else: every model
\* that any parsed page or the seed contains is a candidate, exactly once,
\* in whatever order the pages complete, and from a source no other delivery
\* of the model surpasses.
BestOfEachModel ==
  Fetched =>
    /\ \A i \in DOMAIN fetch.delivered :
         fetch.delivered[i].model \in ResultModels
    /\ \A i, j \in DOMAIN fetch.gathered :
         fetch.gathered[i].model = fetch.gathered[j].model => i = j
    /\ \A i \in DOMAIN fetch.gathered, j \in DOMAIN fetch.delivered :
         fetch.gathered[i].model = fetch.delivered[j].model =>
           PriorityOf(fetch.gathered[i]) >= PriorityOf(fetch.delivered[j])
=============================================================================
