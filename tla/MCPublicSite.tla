---- MODULE MCPublicSite ----
EXTENDS PublicSite

CONSTANTS w1, w2, a1, r1, r2, start, moved, check, far, inner, odd, worse, broken

\* Two RUIs in order, or the second one only; and another track.
Both == [track |-> "A", ruis |-> <<7, 6>>]
Second == [track |-> "A", ruis |-> <<6>>]
Other == [track |-> "C", ruis |-> <<7>>]
MCQuery == {Both, Second, Other}
MCUrl == {start, moved, check, far, inner, odd, worse, broken}
MCKey == MCQuery \cup MCUrl
MCLimit == [ota |-> 3, resolve |-> 2]

MCHost == [u \in MCUrl |-> CASE u \in {start} -> "auto" [] u \in {moved, check} -> "manual"
                             [] u = inner -> "cdn" [] OTHER -> "elsewhere"]
MCBadUrl == {odd}
MCBadPort == {worse}
MCAllowedHost == {"auto", "manual", "cdn"}
MCIntermediate == {check}
MCMoved == [u \in MCUrl |-> IF u = start THEN moved ELSE u]

Stored(by, r, track, rui) == [by |-> by, release |-> r, track |-> track, rui |-> rui]

MCOthers == {Stored("scan", r2, "A", 7), Stored("archive", r1, "A", 6)}
NoSite == [webs |-> {w1}, queries |-> {}, persist |-> {TRUE}, responses |-> {}, urls |-> {},
           others |-> {}, clock |-> 0]
\* Two processes and the quota; what others store and the cache; all the
\* answers of upstream; all links.
MCSite == {[NoSite EXCEPT !.webs = {w1, w2}, !.queries = {Both}, !.responses = {r1}, !.clock = 4],
           [NoSite EXCEPT !.queries = {Second}, !.responses = {r1, r2},
                          !.others = MCOthers, !.clock = 2],
           [NoSite EXCEPT !.queries = {Both, Other}, !.persist = BOOLEAN,
                          !.responses = {"timeout", "unreachable", "undecryptable", "malformed", "empty",
                                         "null", "nothing", r1}],
           [NoSite EXCEPT !.urls = MCUrl]}
OneClient == {[NoSite EXCEPT !.queries = {Both}, !.responses = {r1}, !.clock = 2]}
=============================
