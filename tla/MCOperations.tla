---- MODULE MCOperations ----
EXTENDS Operations

CONSTANTS d1, d2, d3

MCDevice == {d1, d2, d3}
MCName == [d \in MCDevice |-> CASE d = d1 -> 1 [] d = d2 -> 2 [] OTHER -> 3]
MCBase == [d \in MCDevice |-> IF d = d3 THEN d3 ELSE d1]

\* d1 is scanned and legacy, d2 has no manifest and is overridden, d3 is not
\* stored yet, or all three are stored and scanned.
MCInitialRows ==
  {[d \in MCDevice |-> CASE d = d1 -> StoredRow(TRUE, TRUE)
                         [] d = d2 -> StoredRow(FALSE, FALSE)
                         [] OTHER  -> NoRow],
   [d \in MCDevice |-> StoredRow(TRUE, TRUE)]}

Entry(d, s, b) == [model |-> d, source |-> s, brand |-> b, region |-> "CN", valid |-> TRUE]
Abroad(e) == [e EXCEPT !.region = "EUEX"]
Odd(e) == [e EXCEPT !.valid = FALSE]
Nameless(e) == [e EXCEPT !.brand = "unknown"]
MCFetchers == <<{"specs"}, {"shop1", "shop2"}>>
MCContent == [specs |-> <<Entry(d1, "oppo_cn_specs", "oppo"), Odd(Entry(d3, "oppo_cn_specs", "oppo")),
                          Entry(d2, "oppo_cn_specs", "oppo")>>,
              shop1 |-> <<Entry(d1, "opposhop_cn", "oneplus"), Entry(d3, "opposhop_cn", "oneplus")>>,
              shop2 |-> <<Entry(d3, "opposhop_cn", "oneplus"), Abroad(Entry(d2, "lsctool", "oppo")),
                          Nameless(Entry(d2, "lsctool", "oppo"))>>]
MCSeed == <<Entry(d2, "seed", "oppo")>>
MCRenamed == [d \in {d1} |-> "oneplus"]
MCPriority == [seed |-> 100, overlay |-> 90, oppo_cn_specs |-> 70, opposhop_cn |-> 60, lsctool |-> 90]
MCFetched == [NoFetch EXCEPT !.at = "fetched",
                !.gathered = <<Candidate(Entry(d1, "overlay", "oneplus")), Candidate(Entry(d2, "seed", "oppo")),
                               Candidate(Entry(d3, "overlay", "oneplus"))>>]
MCInitialFetches == {NoFetch, MCFetched}

Ox(d, c, l) == [model |-> d, code |-> c, listed |-> l]
MCOxygen == <<Ox(d1, "none", TRUE), Ox(d3, "none", FALSE), Ox(d1, "none", TRUE), Ox(d3, "44", TRUE)>>
Row(d, b, t, c) ==
  [model |-> d, build |-> b, track |-> t, complete |-> TRUE, code |-> c, versioned |-> TRUE]
MCArchive == <<Row(d2, "x97", 0, "97"), Row(d3, "x97", 2, "97"), Row(d3, "y44", 0, "44"),
               Row(d1, "x97", 3, "none")>>
MCBuild == {"x97", "y44"}
\* One release on a newer track than the archive says, one on an older one.
MCFindable == {[model |-> d1, build |-> "x97", track |-> 3], [model |-> d3, build |-> "x97", track |-> 0]}
Rom(d, v, c) == [model |-> d, about |-> d, version |-> v, complete |-> c]
MCEdl == <<Rom(d1, 1, TRUE), Rom(d1, 2, FALSE), Rom(d1, 1, TRUE), Rom(d2, 1, TRUE),
           Rom(d3, 1, TRUE)>>

MCImportCommands == {<<"oxygen", "domestic", "archive", "edl">>, <<"domestic">>}

Cmd(k, m, o) == [kind |-> k, models |-> m, on |-> o]
MCCommands == {Cmd("models", {d1, d2}, TRUE), Cmd("group", {d1, d3}, FALSE), Cmd("all", {}, FALSE),
               Cmd("cleanup", {}, FALSE), Cmd("other", {}, FALSE)}
MCUpdates == <<Cmd("models", {d1, d2}, TRUE), Cmd("group", {d1, d3}, FALSE), Cmd("other", {}, FALSE)>>
MCOversized == {Cmd("other", {}, FALSE)}
MCScenarios == {{"import", "again"}, {"import", "tracks"}, {"import", "web"}, {"import", "scan"}, {"bot", "web"},
                {"select", "web", "scan"}}
WebScan == {{"web", "scan"}}
=============================================================================
