---------------------------- MODULE CatalogProofs ----------------------------
(***************************************************************************)
(* Proofs about the catalogues and their imports, for lists of every       *)
(* length: what the loops of catalog.py compute (FoldLemmas), that the     *)
(* merge keeps every model once and from its best source, that an import   *)
(* fails only by a fault, keeps what the operator chose and the scans      *)
(* counted, and has stored everything when it says completed.              *)
(***************************************************************************)
EXTENDS OperationsProofs

---------------------------------------------------------------------------
(* The loops of catalog.py, for lists of every length.                     *)

\* One row of each model.
Unique(s) == \A i, j \in DOMAIN s : s[i].model = s[j].model => i = j

\* What Append leaves and adds.
LEMMA Appended ==
  ASSUME NEW E, NEW s \in Seq(E), NEW e \in E
  PROVE  /\ Append(s, e) \in Seq(E)
         /\ DOMAIN Append(s, e) = DOMAIN s \cup {Len(s) + 1}
         /\ Len(s) + 1 \notin DOMAIN s
         /\ Append(s, e)[Len(s) + 1] = e
         /\ \A i \in DOMAIN s : Append(s, e)[i] = s[i] /\ s[i] \in E
<1>1. DOMAIN s = 1..Len(s) /\ Len(s) \in Nat
  OBVIOUS
<1>2. Len(Append(s, e)) = Len(s) + 1
  OBVIOUS
<1>3. DOMAIN Append(s, e) = 1..(Len(s) + 1)
  BY <1>2
<1> QED BY <1>1, <1>3

LEMMA NextIndex ==
  ASSUME NEW n \in Nat, NEW k \in 0..(n - 1)
  PROVE  /\ k \in Nat /\ k \in 0..n /\ k + 1 \in 1..n /\ k + 1 \in 0..n
         /\ 1..(k + 1) = (1..k) \cup {k + 1}
         /\ k + 1 \notin 1..k
OBVIOUS

(* _dedupe_candidates *)
TakeOf(p, kept, c) == Take(kept, c)
TakeFold == INSTANCE FoldLemmas WITH Op <- TakeOf, Base <- <<>>

\* One candidate more: every model is still kept once, at least as well ranked as
\* before, and nothing but what was kept or is taken.
LEMMA TakeStep ==
  ASSUME NEW kept \in Seq(CandidateRow), Unique(kept), NEW c \in CandidateRow
  PROVE  /\ Take(kept, c) \in Seq(CandidateRow)
         /\ Unique(Take(kept, c))
         /\ \A i \in DOMAIN kept : \E j \in DOMAIN Take(kept, c) :
              /\ Take(kept, c)[j].model = kept[i].model
              /\ PriorityOf(Take(kept, c)[j]) >= PriorityOf(kept[i])
         /\ \E j \in DOMAIN Take(kept, c) :
              /\ Take(kept, c)[j].model = c.model
              /\ PriorityOf(Take(kept, c)[j]) >= PriorityOf(c)
         /\ \A j \in DOMAIN Take(kept, c) :
              \/ Take(kept, c)[j] = c
              \/ j \in DOMAIN kept /\ Take(kept, c)[j] = kept[j]
<1> DEFINE same == {i \in DOMAIN kept : kept[i].model = c.model}
<1>0. \A x \in CandidateRow : PriorityOf(x) \in Nat
  BY CatalogAssumption DEF PriorityOf, CandidateRow
<1>1. CASE same = {}
  <2>1. Take(kept, c) = Append(kept, c)
    BY <1>1 DEF Take
  <2> QED BY <1>0, <1>1, <2>1, Appended DEF Unique
<1>2. CASE same # {}
  <2> DEFINE new == [i \in DOMAIN kept |->
              IF i \in same /\ PriorityOf(c) > PriorityOf(kept[i]) THEN c ELSE kept[i]]
  <2>1. Take(kept, c) = new
    BY <1>2 DEF Take
  <2>2. \A i \in DOMAIN kept : kept[i] \in CandidateRow
    OBVIOUS
  <2>3. DOMAIN new = DOMAIN kept /\ \A i \in DOMAIN kept : new[i] = c \/ new[i] = kept[i]
    OBVIOUS
  <2>4. new \in Seq(CandidateRow)
    <3>1. new \in [1..Len(kept) -> CandidateRow]
      BY <2>2
    <3> QED BY <3>1
  <2>5. \A i \in DOMAIN kept : /\ new[i].model = kept[i].model
                               /\ PriorityOf(new[i]) >= PriorityOf(kept[i])
    BY <1>0, <2>2
  <2>6. \A i \in same : PriorityOf(new[i]) >= PriorityOf(c) /\ new[i].model = c.model
    BY <1>0, <2>2
  <2> HIDE DEF new
  <2> QED BY <1>2, <2>1, <2>3, <2>4, <2>5, <2>6 DEF Unique
<1> QED BY <1>1, <1>2

\* The merge keeps of every model one row that none of the list surpasses.
LEMMA DedupeKeepsBest ==
  ASSUME NEW s \in Seq(CandidateRow)
  PROVE  /\ Dedupe(s) \in Seq(CandidateRow)
         /\ Unique(Dedupe(s))
         /\ \A i \in DOMAIN s : \E j \in DOMAIN Dedupe(s) :
              /\ Dedupe(s)[j].model = s[i].model
              /\ PriorityOf(Dedupe(s)[j]) >= PriorityOf(s[i])
         /\ \A j \in DOMAIN Dedupe(s) : \E i \in DOMAIN s : Dedupe(s)[j] = s[i]
<1> DEFINE n == Len(s)
           T == {x \in Seq(CandidateRow) : Unique(x)}
           Covers(x, k) == \A i \in 1..k : \E j \in DOMAIN x :
                             /\ x[j].model = s[i].model
                             /\ PriorityOf(x[j]) >= PriorityOf(s[i])
           From(x, k) == \A j \in DOMAIN x : \E i \in 1..k : x[j] = s[i]
           P == [k \in 0..n |-> {x \in T : Covers(x, k) /\ From(x, k)}]
<1>0. \A x \in CandidateRow : PriorityOf(x) \in Nat
  BY CatalogAssumption DEF PriorityOf, CandidateRow
<1>1. n \in Nat /\ DOMAIN s = 1..n /\ \A i \in 1..n : s[i] \in CandidateRow
  OBVIOUS
<1>2. <<>> \in T /\ <<>> \in P[0]
  BY DEF Unique
<1>3. \A x \in T, i \in 1..n : TakeOf(0, x, s[i]) \in T
  BY <1>1, TakeStep DEF TakeOf
<1>4. ASSUME NEW k \in 0..(n - 1), NEW x \in T, x \in P[k]
      PROVE  TakeOf(0, x, s[k + 1]) \in P[k + 1]
  <2> DEFINE c == s[k + 1]
             y == Take(x, c)
  <2>1. k \in Nat /\ k \in 0..n /\ k + 1 \in 1..n /\ k + 1 \in 0..n
        /\ 1..(k + 1) = (1..k) \cup {k + 1}
    BY <1>1, NextIndex
  <2>2. c \in CandidateRow
    BY <1>1, <2>1
  <2>3. Covers(x, k) /\ From(x, k)
    BY <1>4, <2>1
  <2>4. /\ y \in Seq(CandidateRow)
        /\ Unique(y)
        /\ \A i \in DOMAIN x : \E j \in DOMAIN y :
              y[j].model = x[i].model /\ PriorityOf(y[j]) >= PriorityOf(x[i])
        /\ \E j \in DOMAIN y : y[j].model = c.model /\ PriorityOf(y[j]) >= PriorityOf(c)
        /\ \A j \in DOMAIN y : y[j] = c \/ (j \in DOMAIN x /\ y[j] = x[j])
    BY <2>2, TakeStep
  <2>5. /\ \A i \in DOMAIN x : PriorityOf(x[i]) \in Nat
        /\ \A i \in DOMAIN y : PriorityOf(y[i]) \in Nat
        /\ \A i \in 1..(k + 1) : PriorityOf(s[i]) \in Nat
    <3> HIDE DEF y
    <3>1. /\ \A i \in DOMAIN x : x[i] \in CandidateRow
          /\ \A i \in DOMAIN y : y[i] \in CandidateRow
          /\ \A i \in 1..(k + 1) : s[i] \in CandidateRow
      BY <1>1, <2>1, <2>4
    <3> HIDE DEF P, T, n, Covers, From
    <3> QED BY <1>0, <3>1
  <2> HIDE DEF y
  <2>6. Covers(y, k + 1)
    <3>1. ASSUME NEW i \in 1..k
          PROVE  \E j \in DOMAIN y : y[j].model = s[i].model
                                     /\ PriorityOf(y[j]) >= PriorityOf(s[i])
      <4>1. PICK h \in DOMAIN x : x[h].model = s[i].model /\ PriorityOf(x[h]) >= PriorityOf(s[i])
        BY <2>3
      <4>2. PICK j \in DOMAIN y : y[j].model = x[h].model /\ PriorityOf(y[j]) >= PriorityOf(x[h])
        BY <2>4
      <4> QED BY <2>1, <2>5, <4>1, <4>2
    <3> QED BY <2>1, <2>4, <3>1
  <2>7. From(y, k + 1)
    <3> SUFFICES ASSUME NEW j \in DOMAIN y
                 PROVE  \E i \in 1..(k + 1) : y[j] = s[i]
      OBVIOUS
    <3>1. CASE y[j] = c
      BY <2>1, <3>1
    <3>2. CASE j \in DOMAIN x /\ y[j] = x[j]
      BY <2>1, <2>3, <3>2
    <3> QED BY <2>4, <3>1, <3>2
  <2> QED BY <2>1, <2>4, <2>6, <2>7 DEF TakeOf, y
<1>5. TakeFold!Folded(0, s) \in P[n]
  <2> HIDE DEF T, P
  <2> QED BY <1>1, <1>2, <1>3, <1>4, TakeFold!FoldInduction
<1>6. TakeFold!Folded(0, s) = Dedupe(s)
  BY DEF TakeOf, TakeFold!Folded, Dedupe, FoldLeft, MapThenFoldSet, Max,
         TakeFold!FoldLeft, TakeFold!MapThenFoldSet, TakeFold!Max
<1>7. Dedupe(s) \in T /\ Covers(Dedupe(s), n) /\ From(Dedupe(s), n)
  <2>1. n \in 0..n
    BY <1>1
  <2> QED BY <1>5, <1>6, <2>1
<1> QED BY <1>1, <1>7

(* The parsers of pages. *)
ParseOf(p, parsed, e) == Parse(parsed, e)
ParseFold == INSTANCE FoldLemmas WITH Op <- ParseOf, Base <- <<>>

LEMMA CandidateTyped ==
  ASSUME NEW e \in CatalogEntry PROVE Candidate(e) \in CandidateRow
BY DEF CatalogEntry, Candidate, CandidateRow

\* A parsed page has nothing but usable entries of the page.
LEMMA ParsedIsUsable ==
  ASSUME NEW p \in DOMAIN Content
  PROVE  /\ Parsed(p) \in Seq(CandidateRow)
         /\ \A j \in DOMAIN Parsed(p) : \E i \in DOMAIN Content[p] :
              Usable(Content[p][i]) /\ Parsed(p)[j] = Candidate(Content[p][i])
<1> DEFINE s == Content[p]
           I == {i \in 1..Len(s) : Usable(s[i])}
           g == [i \in I |-> Candidate(s[i])]
<1>1. s \in Seq(CatalogEntry) /\ <<>> = <<>> /\ I \in SUBSET (1..Len(s))
  BY CatalogAssumption
<1>2. g \in [I -> CandidateRow]
  <2>1. \A i \in I : s[i] \in CatalogEntry
    BY <1>1
  <2> QED BY <2>1, CandidateTyped
<1>3. \A x \in Seq(CandidateRow), i \in 1..Len(s) :
        ParseOf(0, x, s[i]) = IF i \in I THEN Append(x, g[i]) ELSE x
  BY DEF ParseOf, Parse
<1>4. DOMAIN s = 1..Len(s)
  BY <1>1
<1>5. ParseFold!Folded(0, s) = Parsed(p)
  BY DEF ParseOf, ParseFold!Folded, Parsed, FoldLeft, MapThenFoldSet, Max,
         ParseFold!FoldLeft, ParseFold!MapThenFoldSet, ParseFold!Max
<1> HIDE DEF s
<1>6. ParseFold!Filters(0, s, CatalogEntry, CandidateRow, I, g)
  <2> HIDE DEF I, g
  <2> QED BY <1>1, <1>2, <1>3 DEF ParseFold!Filters
<1>7. ParseFold!Filtered(Parsed(p), CandidateRow, I, g)
  <2> HIDE DEF I, g
  <2> QED BY <1>5, <1>6, ParseFold!FoldFilters
<1>8. PICK f \in [DOMAIN Parsed(p) -> I] : \A j \in DOMAIN Parsed(p) : Parsed(p)[j] = g[f[j]]
  BY <1>7 DEF ParseFold!Filtered
<1>9. Parsed(p) \in Seq(CandidateRow)
  BY <1>7 DEF ParseFold!Filtered
<1> QED BY <1>4, <1>8, <1>9 DEF s

(* parse_lsctool_archive *)
PutUsableOf(p, kept, row) == PutUsable(kept, row)
UsableFold == INSTANCE FoldLemmas WITH Op <- PutUsableOf, Base <- <<>>

\* Of the archive every usable row is left, and no other.
LEMMA UsableReleasesAreAll ==
  /\ UsableReleases \in Seq(ReleaseRow)
  /\ \A i \in DOMAIN Archive : UsableRelease(Archive[i]) =>
       \E j \in DOMAIN UsableReleases : UsableReleases[j] = Archive[i]
  /\ \A j \in DOMAIN UsableReleases : UsableRelease(UsableReleases[j])
<1> DEFINE s == Archive
           I == {i \in 1..Len(s) : UsableRelease(s[i])}
           g == [i \in I |-> s[i]]
<1>1. s \in Seq(ReleaseRow) /\ <<>> = <<>> /\ I \in SUBSET (1..Len(s))
  BY CatalogAssumption
<1>2. g \in [I -> ReleaseRow]
  BY <1>1
<1>3. \A x \in Seq(ReleaseRow), i \in 1..Len(s) :
        PutUsableOf(0, x, s[i]) = IF i \in I THEN Append(x, g[i]) ELSE x
  BY DEF PutUsableOf, PutUsable
<1>4. DOMAIN s = 1..Len(s)
  BY <1>1
<1>5. UsableFold!Folded(0, s) = UsableReleases
  BY DEF PutUsableOf, UsableFold!Folded, UsableReleases, FoldLeft, MapThenFoldSet, Max,
         UsableFold!FoldLeft, UsableFold!MapThenFoldSet, UsableFold!Max
<1> HIDE DEF s
<1>6. UsableFold!Filters(0, s, ReleaseRow, ReleaseRow, I, g)
  <2> HIDE DEF I, g
  <2> QED BY <1>1, <1>2, <1>3 DEF UsableFold!Filters
<1>7. UsableFold!Filtered(UsableReleases, ReleaseRow, I, g)
  <2> HIDE DEF I, g
  <2> QED BY <1>5, <1>6, UsableFold!FoldFilters
<1>8. PICK f \in [DOMAIN UsableReleases -> I] :
        /\ \A j \in DOMAIN UsableReleases : UsableReleases[j] = g[f[j]]
        /\ \A i \in I : \E j \in DOMAIN UsableReleases : f[j] = i
  BY <1>7 DEF UsableFold!Filtered
<1>9. UsableReleases \in Seq(ReleaseRow)
  BY <1>7 DEF UsableFold!Filtered
<1>10. \A j \in DOMAIN UsableReleases :
         f[j] \in I /\ UsableReleases[j] = s[f[j]] /\ UsableRelease(s[f[j]])
  BY <1>8
<1>11. \A i \in I : \E j \in DOMAIN UsableReleases : UsableReleases[j] = s[i]
  BY <1>8, <1>10
<1> QED BY <1>4, <1>9, <1>10, <1>11 DEF s

(* upsert_catalog_devices *)
OverFold == INSTANCE FoldLemmas WITH Op <- PutOverwritable, Base <- <<>>

\* Of the work every row is left but the overridden ones that were read.
LEMMA OverwritableIsAll ==
  ASSUME NEW E, importer.work \in Seq(E), NEW saw
  PROVE  /\ Overwritable(saw) \in Seq(E)
         /\ Unique(importer.work) => Unique(Overwritable(saw))
         /\ \A i \in DOMAIN importer.work :
              LET c == importer.work[i]
              IN  \/ saw[c.model].read /\ c.model \in Overridden
                  \/ \E j \in DOMAIN Overwritable(saw) : Overwritable(saw)[j] = c
         /\ \A j \in DOMAIN Overwritable(saw) :
              LET c == Overwritable(saw)[j]
              IN  /\ ~(saw[c.model].read /\ c.model \in Overridden)
                  /\ \E i \in DOMAIN importer.work : importer.work[i] = c
<1> DEFINE s == importer.work
           Skipped(c) == saw[c.model].read /\ c.model \in Overridden
           I == {i \in 1..Len(s) : ~Skipped(s[i])}
           g == [i \in I |-> s[i]]
<1>1. s \in Seq(E) /\ <<>> = <<>> /\ I \in SUBSET (1..Len(s))
  OBVIOUS
<1>2. g \in [I -> E]
  BY <1>1
<1>3. \A x \in Seq(E), i \in 1..Len(s) :
        PutOverwritable(saw, x, s[i]) = IF i \in I THEN Append(x, g[i]) ELSE x
  BY DEF PutOverwritable
<1>4. DOMAIN s = 1..Len(s)
  BY <1>1
<1>5. OverFold!Folded(saw, s) = Overwritable(saw)
  BY DEF OverFold!Folded, Overwritable, FoldLeft, MapThenFoldSet, Max,
         OverFold!FoldLeft, OverFold!MapThenFoldSet, OverFold!Max
<1> HIDE DEF s
<1>6. OverFold!Filtered(Overwritable(saw), E, I, g)
  <2> HIDE DEF I, g
  <2>1. OverFold!Filters(saw, s, E, E, I, g)
    BY <1>1, <1>2, <1>3 DEF OverFold!Filters
  <2> QED BY <1>5, <2>1, OverFold!FoldFilters
<1>7. PICK f \in [DOMAIN Overwritable(saw) -> I] :
        /\ \A i, j \in DOMAIN Overwritable(saw) : i < j => f[i] < f[j]
        /\ \A j \in DOMAIN Overwritable(saw) : Overwritable(saw)[j] = g[f[j]]
        /\ \A i \in I : \E j \in DOMAIN Overwritable(saw) : f[j] = i
  BY <1>6 DEF OverFold!Filtered
<1>8. Overwritable(saw) \in Seq(E)
  BY <1>6 DEF OverFold!Filtered
<1>9. \A j \in DOMAIN Overwritable(saw) :
        /\ f[j] \in I /\ f[j] \in DOMAIN s
        /\ Overwritable(saw)[j] = s[f[j]]
        /\ ~Skipped(s[f[j]])
  BY <1>4, <1>7
<1>10. \A i \in DOMAIN s : ~Skipped(s[i]) =>
        \E j \in DOMAIN Overwritable(saw) : Overwritable(saw)[j] = s[i]
  BY <1>4, <1>7, <1>9
<1>11. ASSUME Unique(s) PROVE Unique(Overwritable(saw))
  <2> SUFFICES ASSUME NEW i \in DOMAIN Overwritable(saw), NEW j \in DOMAIN Overwritable(saw),
                      Overwritable(saw)[i].model = Overwritable(saw)[j].model
               PROVE  i = j
    BY DEF Unique
  <2>1. f[i] = f[j]
    BY <1>9, <1>11 DEF Unique
  <2>2. i \in Nat /\ j \in Nat /\ f[i] \in Nat /\ f[j] \in Nat
    <3>1. DOMAIN Overwritable(saw) = 1..Len(Overwritable(saw))
      BY <1>8
    <3>2. I \subseteq Nat
      OBVIOUS
    <3> QED BY <1>9, <3>1, <3>2
  <2> QED BY <1>7, <2>1, <2>2
<1> HIDE DEF Skipped
<1>12. /\ \A i \in DOMAIN s : Skipped(s[i]) \/
            \E j \in DOMAIN Overwritable(saw) : Overwritable(saw)[j] = s[i]
       /\ \A j \in DOMAIN Overwritable(saw) :
            /\ ~Skipped(Overwritable(saw)[j])
            /\ \E i \in DOMAIN s : s[i] = Overwritable(saw)[j]
  BY <1>9, <1>10
<1> QED BY <1>8, <1>11, <1>12 DEF s, Skipped

(* import_oxygen *)
PutLastOf(p, kept, row) == PutLast(kept, row)
LastFold == INSTANCE FoldLemmas WITH Op <- PutLastOf, Base <- <<>>
OxygenRows == FoldLeft(PutLast, <<>>, Oxygen)

\* A repeated model takes the place of the first: no model is there twice.
LEMMA PutLastStep ==
  ASSUME NEW kept \in Seq(OxygenRow), Unique(kept), NEW row \in OxygenRow
  PROVE  PutLast(kept, row) \in Seq(OxygenRow) /\ Unique(PutLast(kept, row))
<1> DEFINE same == {i \in DOMAIN kept : kept[i].model = row.model}
<1>1. CASE ~row.listed
  BY <1>1 DEF PutLast
<1>2. CASE row.listed /\ same = {}
  <2>1. PutLast(kept, row) = Append(kept, row)
    BY <1>2 DEF PutLast
  <2> QED BY <1>2, <2>1, Appended DEF Unique
<1>3. CASE row.listed /\ same # {}
  <2> DEFINE new == [i \in DOMAIN kept |-> IF i \in same THEN row ELSE kept[i]]
  <2>1. PutLast(kept, row) = new
    BY <1>3 DEF PutLast
  <2>2. \A i \in DOMAIN kept : kept[i] \in OxygenRow
    OBVIOUS
  <2>3. new \in Seq(OxygenRow)
    <3>1. new \in [1..Len(kept) -> OxygenRow]
      BY <2>2
    <3> QED BY <3>1
  <2>4. \A i \in DOMAIN kept : new[i].model = kept[i].model
    OBVIOUS
  <2>5. DOMAIN new = DOMAIN kept
    OBVIOUS
  <2> HIDE DEF new
  <2> QED BY <2>1, <2>3, <2>4, <2>5 DEF Unique
<1> QED BY <1>1, <1>2, <1>3

LEMMA OxygenRowsUnique == OxygenRows \in Seq(OxygenRow) /\ Unique(OxygenRows)
<1> DEFINE T == {x \in Seq(OxygenRow) : Unique(x)}
<1>1. Oxygen \in Seq(OxygenRow) /\ \A i \in 1..Len(Oxygen) : Oxygen[i] \in OxygenRow
  BY CatalogAssumption
<1>2. <<>> \in T
  BY DEF Unique
<1>3. \A x \in T, i \in 1..Len(Oxygen) : PutLastOf(0, x, Oxygen[i]) \in T
  BY <1>1, PutLastStep DEF PutLastOf
<1>4. LastFold!Folded(0, Oxygen) \in T
  <2> HIDE DEF T
  <2> QED BY <1>1, <1>2, <1>3, LastFold!FoldStays
<1>5. LastFold!Folded(0, Oxygen) = OxygenRows
  BY DEF PutLastOf, LastFold!Folded, OxygenRows, FoldLeft, MapThenFoldSet, Max,
         LastFold!FoldLeft, LastFold!MapThenFoldSet, LastFold!Max
<1> QED BY <1>4, <1>5

(* parse_lsctool_edl_archive *)
PutOnceOf(p, kept, row) == PutOnce(kept, row)
OnceFold == INSTANCE FoldLemmas WITH Op <- PutOnceOf, Base <- <<>>
EdlRows == FoldLeft(PutOnce, <<>>, Edl)
Once(s) == \A i, j \in DOMAIN s : s[i] = s[j] => i = j

\* Of the EDL archive every usable row is there, once.
LEMMA EdlRowsOnce ==
  /\ EdlRows \in Seq(RomRow)
  /\ Once(EdlRows)
  /\ \A i \in DOMAIN Edl : UsableRom(Edl[i]) => \E j \in DOMAIN EdlRows : EdlRows[j] = Edl[i]
<1> DEFINE n == Len(Edl)
           T == {x \in Seq(RomRow) : Once(x)}
           Covers(x, k) == \A i \in 1..k : UsableRom(Edl[i]) => \E j \in DOMAIN x : x[j] = Edl[i]
           P == [k \in 0..n |-> {x \in T : Covers(x, k)}]
<1>1. Edl \in Seq(RomRow) /\ n \in Nat /\ DOMAIN Edl = 1..n /\ \A i \in 1..n : Edl[i] \in RomRow
  BY CatalogAssumption
<1>2. <<>> \in T /\ <<>> \in P[0]
  BY <1>1 DEF Once
<1>3. ASSUME NEW x \in T, NEW row \in RomRow
      PROVE  /\ PutOnce(x, row) \in T
             /\ \A j \in DOMAIN x : j \in DOMAIN PutOnce(x, row) /\ PutOnce(x, row)[j] = x[j]
             /\ UsableRom(row) => \E j \in DOMAIN PutOnce(x, row) : PutOnce(x, row)[j] = row
  <2>1. CASE UsableRom(row) /\ row \notin {x[i] : i \in DOMAIN x}
    <3>1. PutOnce(x, row) = Append(x, row)
      BY <2>1 DEF PutOnce
    <3> DEFINE y == Append(x, row)
    <3>2. /\ y \in Seq(RomRow)
          /\ DOMAIN y = DOMAIN x \cup {Len(x) + 1}
          /\ y[Len(x) + 1] = row
          /\ \A i \in DOMAIN x : y[i] = x[i]
      BY Appended
    <3> HIDE DEF y
    <3>3. Once(y)
      BY <2>1, <3>2 DEF Once
    <3> QED BY <3>1, <3>2, <3>3 DEF y
  <2>2. CASE ~(UsableRom(row) /\ row \notin {x[i] : i \in DOMAIN x})
    <3>1. PutOnce(x, row) = x
      BY <2>2 DEF PutOnce
    <3> QED BY <2>2, <3>1
  <2> QED BY <2>1, <2>2
<1>4. \A x \in T, i \in 1..n : PutOnceOf(0, x, Edl[i]) \in T
  BY <1>1, <1>3 DEF PutOnceOf
<1>5. ASSUME NEW k \in 0..(n - 1), NEW x \in T, x \in P[k]
      PROVE  PutOnceOf(0, x, Edl[k + 1]) \in P[k + 1]
  <2> DEFINE y == PutOnce(x, Edl[k + 1])
  <2>1. k \in 0..n /\ k + 1 \in 1..n /\ k + 1 \in 0..n /\ 1..(k + 1) = (1..k) \cup {k + 1}
    BY <1>1, NextIndex
  <2>2. Covers(x, k)
    BY <1>5, <2>1
  <2>3. /\ y \in T
        /\ \A j \in DOMAIN x : j \in DOMAIN y /\ y[j] = x[j]
        /\ UsableRom(Edl[k + 1]) => \E j \in DOMAIN y : y[j] = Edl[k + 1]
    BY <1>1, <1>3, <2>1
  <2> HIDE DEF y, T
  <2>4. Covers(y, k + 1)
    BY <2>1, <2>2, <2>3
  <2> QED BY <2>1, <2>3, <2>4 DEF PutOnceOf, y
<1>6. OnceFold!Folded(0, Edl) \in P[n]
  <2> HIDE DEF T, P
  <2> QED BY <1>1, <1>2, <1>4, <1>5, OnceFold!FoldInduction
<1>7. OnceFold!Folded(0, Edl) = EdlRows
  BY DEF PutOnceOf, OnceFold!Folded, EdlRows, FoldLeft, MapThenFoldSet, Max,
         OnceFold!FoldLeft, OnceFold!MapThenFoldSet, OnceFold!Max
<1>8. EdlRows \in T /\ Covers(EdlRows, n)
  <2>1. n \in 0..n
    BY <1>1
  <2> QED BY <1>6, <1>7, <2>1
<1> QED BY <1>1, <1>8

---------------------------------------------------------------------------
(* The domestic catalogue.  What stands for a candidate is about the same  *)
(* model and from a source as good, before the names are laid over and     *)
(* after.  Every delivered candidate is stood for by one that is gathered  *)
(* or in the batch of the fetcher at work; a batch holds nothing but what  *)
(* its fetcher offers, so whatever it keeps of a model stands for the rest.*)

\* Better ranks a over b, which is about the same model; Stands says that a may
\* replace b wherever b was offered, also after its names were laid over others.
Elements(s) == {s[i] : i \in DOMAIN s}
Better(a, b) == a.model = b.model /\ PriorityOf(a) >= PriorityOf(b)
Stands(a, b) == Better(a, b) /\ Better(Rename(a), Rename(b))

\* The candidates a fetcher can deliver.
Offered(n) ==
  {c \in CandidateRow : \E p \in Fetchers[n] : \E i \in DOMAIN Content[p] :
     Usable(Content[p][i]) /\ c = Candidate(Content[p][i])}

FetchState == [at : {"idle", "fetching", "fetched", "raised"}, fetcher : Nat,
               pages : SUBSET DOMAIN Content, batch : Seq(CandidateRow),
               gathered : Seq(CandidateRow), errors : Nat, delivered : Seq(CandidateRow)]

FetchInv ==
  /\ fetch \in FetchState
  /\ fetch.at = "fetching" =>
       /\ fetch.fetcher > 0
       /\ fetch.fetcher <= Len(Fetchers) =>
            /\ fetch.pages \subseteq Fetchers[fetch.fetcher]
            /\ fetch.pages = Fetchers[fetch.fetcher] => fetch.batch = <<>>
            /\ Elements(fetch.batch) \subseteq Offered(fetch.fetcher)
       /\ fetch.fetcher > Len(Fetchers) => fetch.pages = {} /\ fetch.batch = <<>>
       /\ \A d \in Elements(fetch.delivered) :
            \E x \in Elements(fetch.gathered) \cup Elements(fetch.batch) : Stands(x, d)
  /\ fetch.at = "fetched" =>
       /\ Unique(fetch.gathered)
       /\ \A d \in Elements(fetch.delivered) : \E x \in Elements(fetch.gathered) : Better(x, d)

LEMMA ElementsOf ==
  ASSUME NEW E, NEW s \in Seq(E), NEW t \in Seq(E)
  PROVE  /\ s \o t \in Seq(E)
         /\ Elements(s \o t) = Elements(s) \cup Elements(t)
         /\ Elements(s) \subseteq E
<1>1. /\ s \o t \in Seq(E) /\ DOMAIN s = 1..Len(s) /\ DOMAIN t = 1..Len(t)
      /\ Len(s) \in Nat /\ Len(t) \in Nat /\ Len(s \o t) = Len(s) + Len(t)
      /\ DOMAIN (s \o t) = 1..(Len(s) + Len(t))
  OBVIOUS
<1>2. \A i \in DOMAIN s : i \in DOMAIN (s \o t) /\ (s \o t)[i] = s[i]
  BY <1>1
<1>3. \A i \in DOMAIN t : Len(s) + i \in DOMAIN (s \o t) /\ (s \o t)[Len(s) + i] = t[i]
  BY <1>1
<1>4. \A i \in DOMAIN (s \o t) : i \in DOMAIN s \/ (i - Len(s) \in DOMAIN t
                                                  /\ (s \o t)[i] = t[i - Len(s)])
  BY <1>1
<1>5. \A e \in Elements(s \o t) : e \in Elements(s) \/ e \in Elements(t)
  BY <1>2, <1>4 DEF Elements
<1>6. \A e \in Elements(s) : e \in Elements(s \o t)
  BY <1>2 DEF Elements
<1>7. \A e \in Elements(t) : e \in Elements(s \o t)
  BY <1>3 DEF Elements
<1>8. Elements(s) \subseteq E
  BY DEF Elements
<1> QED BY <1>1, <1>5, <1>6, <1>7, <1>8

LEMMA NoElements == Elements(<<>>) = {} /\ \A E : <<>> \in Seq(E)
BY DEF Elements

LEMMA PriorityTyped ==
  ASSUME NEW c \in CandidateRow
  PROVE  PriorityOf(c) \in Nat /\ Rename(c) \in CandidateRow /\ PriorityOf(Rename(c)) \in Nat
         /\ Rename(c).model = c.model
<1>1. Rename(c) \in CandidateRow /\ Rename(c).model = c.model
  BY FetchAssumption DEF Rename, CandidateRow
<1>2. \A x \in CandidateRow : PriorityOf(x) \in Nat
  BY CatalogAssumption DEF PriorityOf, CandidateRow
<1> QED BY <1>1, <1>2

LEMMA StandsOrder ==
  ASSUME NEW a \in CandidateRow, NEW b \in CandidateRow, NEW c \in CandidateRow
  PROVE  /\ Stands(a, a)
         /\ Stands(a, b) /\ Stands(b, c) => Stands(a, c)
         /\ Better(a, b) /\ Better(b, c) => Better(a, c)
BY PriorityTyped DEF Stands, Better

\* What one fetcher offers of a model stands for anything else it offers of it.
LEMMA SameOffer ==
  ASSUME NEW n \in DOMAIN Fetchers, NEW a \in Offered(n), NEW b \in Offered(n),
         a.model = b.model
  PROVE  Stands(a, b) /\ a \in CandidateRow /\ b \in CandidateRow
<1>1. PICK p \in Fetchers[n] : \E i \in DOMAIN Content[p] :
        Usable(Content[p][i]) /\ a = Candidate(Content[p][i])
  BY DEF Offered
<1>11. PICK i \in DOMAIN Content[p] : Usable(Content[p][i]) /\ a = Candidate(Content[p][i])
  BY <1>1
<1>2. PICK q \in Fetchers[n] : \E j \in DOMAIN Content[q] :
        Usable(Content[q][j]) /\ b = Candidate(Content[q][j])
  BY DEF Offered
<1>12. PICK j \in DOMAIN Content[q] : Usable(Content[q][j]) /\ b = Candidate(Content[q][j])
  BY <1>2
<1>3. p \in DOMAIN Content /\ q \in DOMAIN Content
  BY CatalogAssumption
<1>4. Content[p][i] \in CatalogEntry /\ Content[q][j] \in CatalogEntry
  <2>1. Content[p] \in Seq(CatalogEntry) /\ Content[q] \in Seq(CatalogEntry)
    BY <1>3, CatalogAssumption
  <2> QED BY <2>1
<1>5. a \in CandidateRow /\ b \in CandidateRow
  BY DEF Offered
<1>6. a.source = b.source /\ (a.brand = b.brand \/ a.source = Overlay)
  BY <1>11, <1>12, SourceAssumption DEF Candidate
<1>7. Rename(a).source = Rename(b).source
  BY <1>5, <1>6 DEF Rename, CandidateRow
<1>8. PriorityOf(a) = PriorityOf(b) /\ PriorityOf(Rename(a)) = PriorityOf(Rename(b))
  BY <1>6, <1>7 DEF PriorityOf
<1> QED BY <1>5, <1>8, PriorityTyped DEF Stands, Better

LEMMA DedupeElements ==
  ASSUME NEW s \in Seq(CandidateRow)
  PROVE  /\ Dedupe(s) \in Seq(CandidateRow)
         /\ Unique(Dedupe(s))
         /\ \A x \in Elements(s) : \E y \in Elements(Dedupe(s)) : Better(y, x)
         /\ Elements(Dedupe(s)) \subseteq Elements(s)
<1> DEFINE r == Dedupe(s)
<1>1. /\ r \in Seq(CandidateRow)
      /\ Unique(r)
      /\ \A i \in DOMAIN s : \E j \in DOMAIN r :
           r[j].model = s[i].model /\ PriorityOf(r[j]) >= PriorityOf(s[i])
      /\ \A j \in DOMAIN r : \E i \in DOMAIN s : r[j] = s[i]
  BY DedupeKeepsBest
<1> HIDE DEF r
<1>2. \A x \in Elements(s) : \E y \in Elements(r) : Better(y, x)
  <2> SUFFICES ASSUME NEW i \in DOMAIN s PROVE \E y \in Elements(r) : Better(y, s[i])
    BY DEF Elements
  <2>1. PICK j \in DOMAIN r : r[j].model = s[i].model /\ PriorityOf(r[j]) >= PriorityOf(s[i])
    BY <1>1
  <2> QED BY <2>1 DEF Elements, Better
<1>3. Elements(r) \subseteq Elements(s)
  BY <1>1 DEF Elements
<1> QED BY <1>1, <1>2, <1>3 DEF r

LEMMA SeededTyped == Seeded \in Seq(CandidateRow)
<1>1. Len(Seed) \in Nat /\ DOMAIN Seed = 1..Len(Seed) /\ \A i \in 1..Len(Seed) : Seed[i] \in CatalogEntry
  BY CatalogAssumption
<1>2. Seeded \in [1..Len(Seed) -> CandidateRow]
  BY <1>1, CandidateTyped DEF Seeded
<1> QED BY <1>1, <1>2

LEMMA RenameAllElements ==
  ASSUME NEW s \in Seq(CandidateRow)
  PROVE  /\ RenameAll(s) \in Seq(CandidateRow)
         /\ Elements(RenameAll(s)) = {Rename(c) : c \in Elements(s)}
<1>1. RenameAll(s) \in [1..Len(s) -> CandidateRow]
  BY PriorityTyped DEF RenameAll
<1>2. DOMAIN RenameAll(s) = DOMAIN s /\ \A i \in DOMAIN s : RenameAll(s)[i] = Rename(s[i])
  BY DEF RenameAll
<1> QED BY <1>1, <1>2 DEF Elements

LEMMA ParsedOffered ==
  ASSUME NEW n \in DOMAIN Fetchers, NEW p \in Fetchers[n]
  PROVE  /\ Parsed(p) \in Seq(CandidateRow)
         /\ Elements(Parsed(p)) \subseteq Offered(n)
<1>1. p \in DOMAIN Content
  BY CatalogAssumption
<1> QED BY <1>1, ParsedIsUsable DEF Elements, Offered

LEMMA FetchInvInit == Init => FetchInv
<1> SUFFICES ASSUME Init PROVE FetchInv
  OBVIOUS
<1>1. PICK f \in InitialFetches : fetch = f
  BY DEF Init, ImportInit
<1>2. CASE f = NoFetch
  BY <1>1, <1>2 DEF NoFetch, FetchInv, FetchState
<1>3. CASE f # NoFetch
  <2>1. /\ f = [NoFetch EXCEPT !.at = "fetched", !.gathered = f.gathered]
        /\ f.gathered \in Seq(CandidateRow)
        /\ Unique(f.gathered)
    BY <1>3, StartAssumption DEF Unique
  <2>2. fetch = [at |-> "fetched", fetcher |-> 0, pages |-> {}, batch |-> <<>>,
                 gathered |-> f.gathered, errors |-> 0, delivered |-> <<>>]
    BY <1>1, <2>1 DEF NoFetch
  <2> QED BY <2>1, <2>2, NoElements DEF FetchInv, FetchState
<1> QED BY <1>2, <1>3

\* The next fetcher begins with the gathered rows standing for the batch.
LEMMA NextFetcherInv ==
  ASSUME FetchInv, fetch.at = "fetching", fetch.fetcher <= Len(Fetchers),
         NEW gathered \in Seq(CandidateRow), NEW errors \in Nat,
         \A x \in Elements(fetch.gathered) \cup Elements(fetch.batch) :
           x \in CandidateRow /\ \E y \in Elements(gathered) : Stands(y, x),
         fetch' = NextFetcher(gathered, errors)
  PROVE  FetchInv'
<1> DEFINE n == fetch.fetcher + 1
           pages == IF n <= Len(Fetchers) THEN Fetchers[n] ELSE {}
<1>1. Fetchers \in Seq(SUBSET DOMAIN Content) /\ Len(Fetchers) \in Nat
  BY CatalogAssumption
<1>2. n \in Nat /\ n > 0 /\ pages \in SUBSET DOMAIN Content
  BY <1>1 DEF FetchInv, FetchState
<1>3. fetch' = [at |-> "fetching", fetcher |-> n, pages |-> pages, batch |-> <<>>,
                gathered |-> gathered, errors |-> errors, delivered |-> fetch.delivered]
  BY DEF NextFetcher, FetchInv, FetchState
<1> HIDE DEF n, pages
<1>4. fetch' \in FetchState
  BY <1>2, <1>3 DEF FetchInv, FetchState
<1>5. \A d \in Elements(fetch.delivered) : \E y \in Elements(gathered) : Stands(y, d)
  <2> SUFFICES ASSUME NEW d \in Elements(fetch.delivered)
               PROVE  \E y \in Elements(gathered) : Stands(y, d)
    OBVIOUS
  <2>1. PICK x \in Elements(fetch.gathered) \cup Elements(fetch.batch) : Stands(x, d)
    BY DEF FetchInv
  <2>2. PICK y \in Elements(gathered) : Stands(y, x)
    OBVIOUS
  <2>3. d \in CandidateRow /\ y \in CandidateRow /\ x \in CandidateRow
    <3>1. fetch.delivered \in Seq(CandidateRow)
      BY DEF FetchInv, FetchState
    <3> QED BY <3>1, ElementsOf
  <2> QED BY <2>1, <2>2, <2>3, StandsOrder
<1>6. /\ pages # {} => n <= Len(Fetchers)
      /\ n <= Len(Fetchers) => pages = Fetchers[n]
  BY DEF pages
<1> QED BY <1>2, <1>3, <1>4, <1>5, <1>6, NoElements DEF FetchInv

\* A page that arrives, fails, or is the last of its fetcher.
LEMMA FetchStepInv ==
  ASSUME FetchInv, FetchStep
  PROVE  FetchInv'
<1> DEFINE f == fetch
<1>0. /\ fetch = [at |-> f.at, fetcher |-> f.fetcher, pages |-> f.pages, batch |-> f.batch,
                  gathered |-> f.gathered, errors |-> f.errors, delivered |-> f.delivered]
      /\ f.fetcher \in Nat /\ f.pages \in SUBSET DOMAIN Content /\ f.errors \in Nat
      /\ f.batch \in Seq(CandidateRow) /\ f.gathered \in Seq(CandidateRow)
      /\ f.delivered \in Seq(CandidateRow)
  BY DEF FetchInv, FetchState
<1>00. Len(Fetchers) \in Nat /\ DOMAIN Fetchers = 1..Len(Fetchers)
  BY CatalogAssumption
<1>1. ASSUME NEW p \in fetch.pages, PageArrives(p) PROVE FetchInv'
  <2>1. /\ fetch' = [f EXCEPT !.pages = f.pages \ {p}, !.batch = f.batch \o Parsed(p),
                              !.delivered = f.delivered \o Parsed(p)]
        /\ f.at = "fetching"
    BY <1>1 DEF PageArrives
  <2>2. f.fetcher <= Len(Fetchers) /\ f.fetcher > 0 /\ p \in Fetchers[f.fetcher]
        /\ f.fetcher \in DOMAIN Fetchers /\ f.pages \subseteq Fetchers[f.fetcher]
        /\ Elements(f.batch) \subseteq Offered(f.fetcher)
    BY <1>0, <1>00, <2>1 DEF FetchInv
  <2>3. Parsed(p) \in Seq(CandidateRow) /\ Elements(Parsed(p)) \subseteq Offered(f.fetcher)
    BY <2>2, ParsedOffered
  <2>4. /\ f.batch \o Parsed(p) \in Seq(CandidateRow)
        /\ f.delivered \o Parsed(p) \in Seq(CandidateRow)
        /\ Elements(f.batch \o Parsed(p)) = Elements(f.batch) \cup Elements(Parsed(p))
        /\ Elements(f.delivered \o Parsed(p)) = Elements(f.delivered) \cup Elements(Parsed(p))
    BY <1>0, <2>3, ElementsOf
  <2>5. /\ fetch'.at = "fetching" /\ fetch'.fetcher = f.fetcher /\ fetch'.pages = f.pages \ {p}
        /\ fetch'.batch = f.batch \o Parsed(p) /\ fetch'.gathered = f.gathered
        /\ fetch'.delivered = f.delivered \o Parsed(p)
    BY <1>0, <2>1
  <2>6. fetch' \in FetchState
    BY <1>0, <2>1, <2>4 DEF FetchState
  <2>7. \A d \in Elements(fetch'.delivered) :
          \E x \in Elements(fetch'.gathered) \cup Elements(fetch'.batch) : Stands(x, d)
    <3>1. \A d \in Elements(Parsed(p)) : Stands(d, d)
      BY <2>3, StandsOrder DEF Offered
    <3>2. \A d \in Elements(f.delivered) :
            \E x \in Elements(f.gathered) \cup Elements(f.batch) : Stands(x, d)
      BY <2>1 DEF FetchInv
    <3> QED BY <2>4, <2>5, <3>1, <3>2
  <2>8. fetch'.pages # Fetchers[f.fetcher] /\ fetch'.pages \subseteq Fetchers[f.fetcher]
        /\ Elements(fetch'.batch) \subseteq Offered(f.fetcher)
    BY <2>2, <2>3, <2>4, <2>5
  <2> QED BY <2>2, <2>5, <2>6, <2>7, <2>8, <1>00 DEF FetchInv
<1>2. ASSUME NEW p \in fetch.pages, PageFails(p) PROVE FetchInv'
  <2>1. /\ fetch' = [at |-> "fetching", fetcher |-> f.fetcher, pages |-> f.pages \ {p},
                     batch |-> f.batch, gathered |-> f.gathered, errors |-> f.errors + 1,
                     delivered |-> f.delivered]
        /\ f.at = "fetching"
    BY <1>0, <1>2 DEF PageFails
  <2>2. f.fetcher <= Len(Fetchers) /\ f.pages \subseteq Fetchers[f.fetcher]
    BY <1>0, <1>00, <2>1 DEF FetchInv
  <2>3. f.pages \ {p} # Fetchers[f.fetcher]
    BY <2>2
  <2>4. fetch' \in FetchState
    BY <1>0, <2>1 DEF FetchState
  <2> QED BY <1>0, <1>00, <2>1, <2>2, <2>3, <2>4 DEF FetchInv
<1>3. CASE FetcherDone
  <2> DEFINE r == Dedupe(f.batch)
  <2>1. /\ f.at = "fetching" /\ f.fetcher <= Len(Fetchers) /\ f.fetcher > 0
        /\ fetch' = NextFetcher(f.gathered \o r, f.errors)
    BY <1>3 DEF FetcherDone, FetchInv
  <2>2. /\ r \in Seq(CandidateRow)
        /\ \A x \in Elements(f.batch) : \E y \in Elements(r) : Better(y, x)
        /\ Elements(r) \subseteq Elements(f.batch)
    BY <1>0, DedupeElements
  <2> HIDE DEF r
  <2>3. f.gathered \o r \in Seq(CandidateRow)
        /\ Elements(f.gathered \o r) = Elements(f.gathered) \cup Elements(r)
    BY <1>0, <2>2, ElementsOf
  <2>4. f.fetcher \in DOMAIN Fetchers /\ Elements(f.batch) \subseteq Offered(f.fetcher)
    BY <1>0, <1>00, <2>1 DEF FetchInv
  <2>5. ASSUME NEW x \in Elements(f.batch)
        PROVE  x \in CandidateRow /\ \E y \in Elements(f.gathered \o r) : Stands(y, x)
    <3>1. PICK y \in Elements(r) : Better(y, x)
      BY <2>2
    <3>2. Stands(y, x) /\ x \in CandidateRow
      BY <2>2, <2>4, <3>1, SameOffer DEF Better
    <3> QED BY <2>3, <3>1, <3>2
  <2>6. ASSUME NEW x \in Elements(f.gathered)
        PROVE  x \in CandidateRow /\ \E y \in Elements(f.gathered \o r) : Stands(y, x)
    <3>1. x \in CandidateRow
      BY <1>0, ElementsOf
    <3> QED BY <2>3, <3>1, StandsOrder
  <2> QED BY <1>0, <2>1, <2>3, <2>5, <2>6, NextFetcherInv
<1>4. CASE FetcherFails \/ ListingIsEmpty
  <2>1. /\ f.at = "fetching" /\ f.fetcher <= Len(Fetchers)
        /\ f.pages = Fetchers[f.fetcher]
        /\ \E errors \in Nat : fetch' = NextFetcher(f.gathered, errors)
    BY <1>0, <1>4 DEF FetcherFails, ListingIsEmpty
  <2>2. Elements(f.batch) = {}
    BY <2>1, NoElements DEF FetchInv
  <2>3. ASSUME NEW x \in Elements(f.gathered)
        PROVE  x \in CandidateRow /\ \E y \in Elements(f.gathered) : Stands(y, x)
    <3>1. x \in CandidateRow
      BY <1>0, ElementsOf
    <3> QED BY <3>1, StandsOrder
  <2> QED BY <1>0, <2>1, <2>2, <2>3, NextFetcherInv
<1>5. CASE SeedIsInvalid
  <2>1. fetch' = [at |-> "raised", fetcher |-> f.fetcher, pages |-> f.pages, batch |-> f.batch,
                  gathered |-> f.gathered, errors |-> f.errors, delivered |-> f.delivered]
    BY <1>0, <1>5 DEF SeedIsInvalid
  <2> QED BY <1>0, <2>1 DEF FetchInv, FetchState
<1>6. ASSUME NEW named \in BOOLEAN, Merge(named) PROVE FetchInv'
  <2> DEFINE all == f.gathered \o Seeded
             given == f.delivered \o Seeded
             laid == IF named THEN RenameAll(all) ELSE all
             told == IF named THEN RenameAll(given) ELSE given
             result == Dedupe(laid)
  <2>1. /\ f.at = "fetching" /\ f.fetcher > Len(Fetchers)
        /\ fetch' = [f EXCEPT
                     !.at = IF result = <<>> /\ f.errors + (IF named THEN 0 ELSE 1) > 0
                            THEN "raised" ELSE "fetched",
                     !.gathered = result,
                     !.errors = f.errors + (IF named THEN 0 ELSE 1),
                     !.delivered = told]
    BY <1>6 DEF Merge
  <2>2. /\ all \in Seq(CandidateRow) /\ given \in Seq(CandidateRow)
        /\ Elements(all) = Elements(f.gathered) \cup Elements(Seeded)
        /\ Elements(given) = Elements(f.delivered) \cup Elements(Seeded)
        /\ Elements(all) \subseteq CandidateRow /\ Elements(given) \subseteq CandidateRow
    BY <1>0, SeededTyped, ElementsOf
  <2> HIDE DEF all, given
  <2>3. \A d \in Elements(given) : \E x \in Elements(all) : Stands(x, d)
    <3>1. Elements(f.batch) = {}
      BY <2>1, NoElements, <1>0, <1>00 DEF FetchInv
    <3>2. \A d \in Elements(f.delivered) : \E x \in Elements(f.gathered) : Stands(x, d)
      BY <2>1, <3>1 DEF FetchInv
    <3>3. \A d \in Elements(Seeded) : Stands(d, d)
      BY <2>2, StandsOrder
    <3> QED BY <2>2, <3>2, <3>3
  <2>4. /\ laid \in Seq(CandidateRow) /\ told \in Seq(CandidateRow)
        /\ Elements(laid) \subseteq CandidateRow /\ Elements(told) \subseteq CandidateRow
        /\ \A d \in Elements(told) : \E x \in Elements(laid) : Better(x, d)
    <3>1. CASE named
      <4>1. /\ laid \in Seq(CandidateRow) /\ told \in Seq(CandidateRow)
            /\ Elements(laid) = {Rename(c) : c \in Elements(all)}
            /\ Elements(told) = {Rename(c) : c \in Elements(given)}
        BY <2>2, <3>1, RenameAllElements
      <4>2. \A d \in Elements(told) : \E x \in Elements(laid) : Better(x, d)
        BY <2>3, <4>1 DEF Stands
      <4> QED BY <4>1, <4>2, ElementsOf
    <3>2. CASE ~named
      BY <2>2, <2>3, <3>2 DEF Stands
    <3> QED BY <3>1, <3>2
  <2> HIDE DEF laid, told
  <2>5. /\ result \in Seq(CandidateRow) /\ Unique(result)
        /\ \A x \in Elements(laid) : \E y \in Elements(result) : Better(y, x)
    BY <2>4, DedupeElements
  <2>6. Elements(result) \subseteq CandidateRow
    BY <2>5, ElementsOf
  <2> HIDE DEF result
  <2>7. \A d \in Elements(told) : \E y \in Elements(result) : Better(y, d)
    <3> SUFFICES ASSUME NEW d \in Elements(told)
                 PROVE  \E y \in Elements(result) : Better(y, d)
      OBVIOUS
    <3>1. PICK x \in Elements(laid) : Better(x, d)
      BY <2>4
    <3>2. PICK y \in Elements(result) : Better(y, x)
      BY <2>5
    <3> QED BY <2>4, <2>6, <3>1, <3>2, StandsOrder
  <2>8. PICK at \in {"raised", "fetched"}, errors \in Nat :
          fetch' = [at |-> at, fetcher |-> f.fetcher, pages |-> f.pages, batch |-> f.batch,
                    gathered |-> result, errors |-> errors, delivered |-> told]
    <3> DEFINE errors == f.errors + (IF named THEN 0 ELSE 1)
               at == IF result = <<>> /\ errors > 0 THEN "raised" ELSE "fetched"
    <3>1. errors \in Nat /\ at \in {"raised", "fetched"}
      BY <1>0
    <3>2. fetch' = [f EXCEPT !.at = at, !.gathered = result, !.errors = errors,
                             !.delivered = told]
      BY <2>1
    <3> HIDE DEF at, errors
    <3> QED BY <1>0, <3>1, <3>2
  <2>9. fetch' \in FetchState
    BY <1>0, <2>4, <2>5, <2>8 DEF FetchState
  <2> QED BY <2>5, <2>7, <2>8, <2>9 DEF FetchInv
<1> QED BY <1>1, <1>2, <1>3, <1>4, <1>5, <1>6 DEF FetchStep

LEMMA FetchInvStep == FetchInv /\ [Next]_vars => FetchInv'
<1> SUFFICES ASSUME FetchInv, [Next]_vars PROVE FetchInv'
  OBVIOUS
<1>1. CASE UNCHANGED fetch
  BY <1>1 DEF FetchInv
<1>2. CASE fetch' = NoFetch
  BY <1>2 DEF NoFetch, FetchInv, FetchState
<1>3. CASE StartFetch
  <2>1. fetch' = [at |-> "fetching", fetcher |-> 1, pages |-> Fetchers[1], batch |-> <<>>,
                  gathered |-> <<>>, errors |-> 0, delivered |-> <<>>]
    BY <1>3 DEF StartFetch, NoFetch
  <2>2. Fetchers[1] \in SUBSET DOMAIN Content /\ 1 <= Len(Fetchers)
    BY CatalogAssumption
  <2> QED BY <2>1, <2>2, NoElements DEF FetchInv, FetchState
<1>4. CASE FetchStep
  BY <1>4, FetchStepInv
<1>5. CASE ImportActs
  <2>1. CASE FetchDomestic
    BY <1>3, <1>4, <2>1 DEF FetchDomestic
  <2>2. CASE FetchRaised \/ CompleteImport \/ FailImport \/ ImporterDies
    BY <1>2, <2>2 DEF FetchRaised, CompleteImport, FailImport, ImporterDies
  <2>3. CASE StartImport \/ WriteChunk \/ WriteRoms \/ EnsureDevice \/ StoreRelease
             \/ ArchiveDone \/ StatementFails
    BY <1>1, <2>3 DEF StartImport, WriteChunk, WriteRoms, EnsureDevice, StoreRelease,
                      ArchiveDone, StatementFails
  <2>4. ASSUME NEW S, ReadPage(S) PROVE FetchInv'
    BY <1>1, <2>4 DEF ReadPage
  <2>5. ASSUME NEW x, WriteTrack(x) \/ OthersStore(x) \/ ScanWritesTrack(x) PROVE FetchInv'
    BY <1>1, <2>5 DEF WriteTrack, OthersStore, ScanWritesTrack
  <2>6. ASSUME NEW command, Begin(command) PROVE FetchInv'
    BY <1>1, <2>6 DEF Begin
  <2> QED BY <1>5, <2>1, <2>2, <2>3, <2>4, <2>5, <2>6 DEF ImportActs, ImportStep
<1>6. CASE ~ImportActs
  BY <1>1, <1>6 DEF Next, OperatorActs, vars, importVars
<1> QED BY <1>5, <1>6

\* Every model that any page or the seed contains is a candidate once, from a
\* source that no other delivery of the model surpasses: for all lists of
\* fetchers, pages and rows, in whatever order pages complete or fail.
THEOREM BestIsGathered == Spec => []BestOfEachModel
<1>1. ASSUME FetchInv PROVE BestOfEachModel
  <2> SUFFICES ASSUME fetch.at = "fetched" PROVE BestOfEachModel
    BY DEF BestOfEachModel, Fetched
  <2> DEFINE g == fetch.gathered
             e == fetch.delivered
  <2>1. /\ Unique(g)
        /\ \A d \in Elements(e) : \E x \in Elements(g) : Better(x, d)
    BY <1>1 DEF FetchInv
  <2> HIDE DEF g, e
  <2>2. ASSUME NEW j \in DOMAIN e
        PROVE  \E i \in DOMAIN g : g[i].model = e[j].model /\ PriorityOf(g[i]) >= PriorityOf(e[j])
    <3>1. PICK x \in Elements(g) : Better(x, e[j])
      BY <2>1 DEF Elements
    <3> QED BY <3>1 DEF Elements, Better
  <2>3. \A i \in DOMAIN e : e[i].model \in {g[k].model : k \in DOMAIN g}
    BY <2>2
  <2>4. \A i \in DOMAIN g, j \in DOMAIN e : g[i].model = e[j].model =>
          PriorityOf(g[i]) >= PriorityOf(e[j])
    BY <2>1, <2>2 DEF Unique
  <2> QED BY <2>1, <2>3, <2>4 DEF BestOfEachModel, ResultModels, Unique, g, e
<1> QED BY <1>1, FetchInvInit, FetchInvStep, PTL DEF Spec

---------------------------------------------------------------------------
(* The work of an import: at a phase, rows of the kind that is at work, no *)
(* two of which a statement would name alike.                              *)

Rows == OxygenRow \cup CandidateRow \cup ReleaseRow \cup RomRow

Phases == {"off", "dead", "ready", "reading", "writing", "ensuring", "storing", "tracking",
           "completing", "failing"}

Distinct(kind, s) ==
  \A i, j \in DOMAIN s :
    (IF kind = "edl" THEN s[i] = s[j] ELSE s[i].model = s[j].model) => i = j

WorkInv ==
  /\ importer.at \in Phases
  /\ importer.queue \in Seq(Kinds)
  /\ importer.at \notin {"off", "dead"} => importer.queue # <<>>
  /\ importer.work \in Seq(Rows)
  /\ importer.at = "reading" => Kind \in {"oxygen", "domestic"}
  /\ importer.at = "writing" => Kind # "archive"
  /\ importer.at \in {"ensuring", "storing", "tracking"} => Kind = "archive"
  /\ importer.at \in {"reading", "writing"} => Distinct(Kind, importer.work)
  /\ importer.at = "ensuring" => importer.work = <<>> \/ UsableReleases # <<>>
  /\ importer.at = "storing" => importer.work # <<>>
  /\ importer.at = "failing" => faults > 0
  /\ importRun = "failed" => faults > 0

\* What an import starts with, whatever its kind.
LEMMA CandidatesTyped ==
  ASSUME FetchInv, NEW kind \in Kinds, kind = "domestic" => Fetched
  PROVE  /\ Candidates(kind) \in Seq(Rows)
         /\ kind # "archive" => Distinct(kind, Candidates(kind))
<1>0. \A s : /\ s \in Seq(OxygenRow) => s \in Seq(Rows)
             /\ s \in Seq(CandidateRow) => s \in Seq(Rows)
             /\ s \in Seq(ReleaseRow) => s \in Seq(Rows)
             /\ s \in Seq(RomRow) => s \in Seq(Rows)
  BY DEF Rows
<1>1. CASE kind = "oxygen"
  <2>1. Candidates(kind) = OxygenRows
    BY <1>1 DEF Candidates, OxygenRows
  <2> QED BY <1>0, <1>1, <2>1, OxygenRowsUnique DEF Distinct, Unique
<1>2. CASE kind = "domestic"
  <2>1. Candidates(kind) = fetch.gathered
    BY <1>2 DEF Candidates
  <2>2. fetch.gathered \in Seq(CandidateRow) /\ Unique(fetch.gathered)
    BY <1>2 DEF Fetched, FetchInv, FetchState
  <2> QED BY <1>0, <1>2, <2>1, <2>2 DEF Distinct, Unique
<1>3. CASE kind = "archive"
  <2>1. Candidates(kind) = UsableReleases
    BY <1>3 DEF Candidates
  <2> QED BY <1>0, <1>3, <2>1, UsableReleasesAreAll
<1>4. CASE kind = "edl"
  <2>1. Candidates(kind) = EdlRows
    BY <1>4 DEF Candidates, EdlRows
  <2> QED BY <1>0, <1>4, <2>1, EdlRowsOnce DEF Distinct, Once
<1> QED BY <1>1, <1>2, <1>3, <1>4 DEF Kinds

\* What a chunk takes and what it leaves are parts of the work.
LEMMA ChunkOfWork ==
  ASSUME NEW E, importer.work \in Seq(E)
  PROVE  LET m == IF ChunkSize < Len(importer.work) THEN ChunkSize ELSE Len(importer.work)
         IN  /\ m \in 0..Len(importer.work) /\ (importer.work # <<>> => m > 0)
             /\ Chunk \in Seq(E) /\ DOMAIN Chunk = 1..m
             /\ \A i \in 1..m : i \in DOMAIN importer.work /\ Chunk[i] = importer.work[i]
             /\ Rest \in Seq(E) /\ DOMAIN Rest = 1..(Len(importer.work) - m)
             /\ \A i \in DOMAIN Rest : m + i \in DOMAIN importer.work
                                       /\ Rest[i] = importer.work[m + i]
<1> DEFINE w == importer.work
           m == IF ChunkSize < Len(w) THEN ChunkSize ELSE Len(w)
<1>1. /\ Len(w) \in Nat /\ ChunkSize \in Nat \ {0} /\ DOMAIN w = 1..Len(w)
      /\ w # <<>> => Len(w) > 0
  BY ImportAssumption
<1>2. m \in 0..Len(w) /\ (w # <<>> => m > 0)
  BY <1>1
<1>3. Chunk = SubSeq(w, 1, m)
  BY DEF Chunk
<1>4. m < Len(w) => m = ChunkSize
  BY <1>1
<1> HIDE DEF m
<1>5. /\ Chunk \in Seq(E) /\ DOMAIN Chunk = 1..m
      /\ \A i \in 1..m : i \in DOMAIN w /\ Chunk[i] = w[i]
  BY <1>1, <1>2, <1>3
<1>6. /\ Rest \in Seq(E) /\ DOMAIN Rest = 1..(Len(w) - m)
      /\ \A i \in DOMAIN Rest : m + i \in DOMAIN w /\ Rest[i] = w[m + i]
  <2>1. CASE m < Len(w)
    <3>1. Rest = SubSeq(w, m + 1, Len(w))
      BY <1>4, <2>1 DEF Rest
    <3> QED BY <1>1, <1>2, <2>1, <3>1
  <2>2. CASE m = Len(w)
    <3>1. Rest = SubSeq(w, ChunkSize + 1, Len(w)) /\ Len(w) < ChunkSize + 1
      BY <1>1, <2>2 DEF Rest, m
    <3>2. Rest = <<>>
      BY <1>1, <3>1
    <3> QED BY <1>1, <2>2, <3>2
  <2> QED BY <1>1, <1>2, <2>1, <2>2
<1> QED BY <1>2, <1>5, <1>6 DEF m

\* No chunk names a row twice, so no statement is refused.
LEMMA NoRepeats ==
  ASSUME WorkInv, importer.at = "writing"
  PROVE  /\ ~Repeats
         /\ Rest \in Seq(Rows)
         /\ Distinct(Kind, Rest)
<1> DEFINE w == importer.work
           m == IF ChunkSize < Len(w) THEN ChunkSize ELSE Len(w)
<1>1. w \in Seq(Rows) /\ Distinct(Kind, w)
  BY DEF WorkInv
<1>2. /\ m \in Nat
      /\ DOMAIN Chunk = 1..m
      /\ \A i \in 1..m : i \in DOMAIN w /\ Chunk[i] = w[i]
      /\ Rest \in Seq(Rows) /\ DOMAIN Rest = 1..(Len(w) - m)
      /\ \A i \in DOMAIN Rest : m + i \in DOMAIN w /\ Rest[i] = w[m + i]
  <2>1. m \in Nat
    BY <1>1, ImportAssumption
  <2> QED BY <1>1, <2>1, ChunkOfWork
<1> HIDE DEF m
<1>3. ~Repeats
  BY <1>1, <1>2 DEF Repeats, Key, Distinct
<1>4. Distinct(Kind, Rest)
  <2> SUFFICES ASSUME NEW i \in DOMAIN Rest, NEW j \in DOMAIN Rest,
                      IF Kind = "edl" THEN Rest[i] = Rest[j] ELSE Rest[i].model = Rest[j].model
               PROVE  i = j
    BY DEF Distinct
  <2>1. m + i = m + j
    BY <1>1, <1>2 DEF Distinct
  <2>2. i \in Int /\ j \in Int
    BY <1>2
  <2> QED BY <1>2, <2>1, <2>2
<1> QED BY <1>2, <1>3, <1>4

LEMMA TailOf ==
  ASSUME NEW E, NEW s \in Seq(E), s # <<>>
  PROVE  /\ Tail(s) \in Seq(E)
         /\ Tail(s) = <<>> <=> Len(s) = 1
         /\ Head(s) = s[1] /\ 1 \in DOMAIN s
         /\ DOMAIN Tail(s) = 1..(Len(s) - 1)
         /\ \A i \in DOMAIN Tail(s) : i + 1 \in DOMAIN s /\ Tail(s)[i] = s[i + 1]
<1>1. Len(s) \in Nat /\ Len(s) > 0
  OBVIOUS
<1>2. Tail(s) \in Seq(E) /\ Len(Tail(s)) = Len(s) - 1
  BY <1>1
<1>3. Tail(s) = <<>> <=> Len(Tail(s)) = 0
  BY <1>2
<1> QED BY <1>1, <1>2, <1>3

\* A fault is never forgotten.
LEMMA FaultsGrow ==
  RegistryTypeOK /\ [Next]_vars => faults \in Nat /\ faults' \in Nat /\ faults' >= faults
<1> SUFFICES ASSUME RegistryTypeOK, [Next]_vars
             PROVE  faults \in Nat /\ faults' \in Nat /\ faults' >= faults
  OBVIOUS
<1>1. faults \in Nat
  BY DeviceAssumption DEF RegistryTypeOK
<1>2. CASE UNCHANGED faults
  BY <1>1, <1>2
<1>3. CASE Fault
  BY <1>1, <1>3 DEF Fault
<1>4. CASE ImportActs
  <2>1. CASE StatementFails \/ ImporterDies
    BY <1>3, <2>1 DEF StatementFails, ImporterDies
  <2>2. CASE ImportStep
    <3>1. ASSUME NEW S, ReadPage(S) PROVE UNCHANGED faults
      BY <3>1 DEF ReadPage
    <3>2. ASSUME NEW d, WriteTrack(d) PROVE UNCHANGED faults
      BY <3>2 DEF WriteTrack, registryVars
    <3>3. CASE WriteChunk \/ WriteRoms \/ EnsureDevice \/ StoreRelease \/ ArchiveDone
      BY <1>2, <3>3 DEF WriteChunk, WriteRoms, EnsureDevice, StoreRelease, ArchiveDone,
                        registryVars
    <3>4. CASE FetchDomestic \/ FetchRaised \/ StartImport \/ CompleteImport \/ FailImport
      BY <1>2, <3>4 DEF FetchDomestic, FetchRaised, StartImport, CompleteImport, FailImport,
                        registryVars
    <3> QED BY <1>2, <2>2, <3>1, <3>2, <3>3, <3>4 DEF ImportStep
  <2>3. ASSUME NEW command, Begin(command) PROVE UNCHANGED faults
    BY <2>3 DEF Begin, registryVars
  <2>4. ASSUME NEW f, OthersStore(f) \/ ScanWritesTrack(f) PROVE UNCHANGED faults
    BY <2>4 DEF OthersStore, ScanWritesTrack, registryVars
  <2> QED BY <1>2, <1>4, <2>1, <2>2, <2>3, <2>4 DEF ImportActs
<1>5. CASE HealthStep
  BY <1>2, <1>5 DEF HealthStep, RecordScanSuccess, ReadScanFailure, WriteScanFailure
<1>6. CASE OperatorActs
  <2>1. ASSUME NEW o \in Operator, CommandStep(o) PROVE UNCHANGED faults
    BY <2>1 DEF CommandStep, CheckListing, CheckModel, Apply, registryVars
  <2>2. CASE BotDies
    BY <1>3, <2>2 DEF BotDies
  <2>3. CASE BotStep
    BY <1>2, <2>1, <2>3, CommandAssumption
       DEF BotStep, GetUpdates, TakeUpdate, ReplySent, ReplyRefused, Restart, registryVars
  <2>4. CASE \E o \in Operator : RequestStep(o)
    BY <1>2, <2>1, <2>4 DEF RequestStep, Respond, registryVars
  <2>5. CASE UpdateArrives \/ \E o \in Operator, cmd \in Commands : Request(o, cmd)
    BY <1>2, <2>5 DEF UpdateArrives, Request, registryVars
  <2> QED BY <1>6, <2>2, <2>3, <2>4, <2>5 DEF OperatorActs
<1>7. CASE SelectionStep \/ UNCHANGED vars
  BY <1>2, <1>7 DEF SelectionStep, StartSelection, SelectPage, vars, registryVars
<1> QED BY <1>4, <1>5, <1>6, <1>7 DEF Next

LEMMA WorkInvInit == Init => WorkInv
<1> SUFFICES ASSUME Init PROVE WorkInv
  OBVIOUS
<1>1. importer = AtRest /\ importRun = "none"
  BY DEF Init, ImportInit
<1> QED BY <1>1 DEF AtRest, WorkInv, Phases

LEMMA WorkInvStep ==
  RegistryTypeOK /\ ImporterInv /\ FetchInv /\ WorkInv /\ [Next]_vars => WorkInv'
<1> SUFFICES ASSUME RegistryTypeOK, ImporterInv, FetchInv, WorkInv, [Next]_vars
             PROVE  WorkInv'
  OBVIOUS
<1>0. faults \in Nat /\ faults' \in Nat /\ faults' >= faults
  BY FaultsGrow
<1>1. PICK at, queue, work, read, saw, highest, commands :
        /\ importer = [at |-> at, queue |-> queue, work |-> work, read |-> read,
                       saw |-> saw, highest |-> highest, commands |-> commands]
        /\ importer.at = at /\ importer.queue = queue /\ importer.work = work
  BY DEF ImporterInv
\* What keeps the invariant: to stay, to rest, and to go on with part of the work.
<1>2. CASE UNCHANGED <<importer, importRun>>
  BY <1>0, <1>2 DEF WorkInv, Kind, Distinct
<1>3. ASSUME importer'.at \in {"off", "dead", "ready"}, importer'.work = <<>>,
             importer'.queue \in Seq(Kinds), importer'.at = "ready" => importer'.queue # <<>>,
             importRun' # "failed" \/ importRun' = importRun \/ faults > 0
      PROVE  WorkInv'
  BY <1>0, <1>3 DEF WorkInv, Phases
<1>4. ASSUME importer'.at \in {"completing", "failing", "tracking"},
             importer'.queue = importer.queue, importer.queue # <<>>,
             importer'.work \in Seq(Rows), importRun' = importRun,
             importer'.at = "failing" => faults' > 0,
             importer'.at = "tracking" => Kind = "archive"
      PROVE  WorkInv'
  BY <1>0, <1>4 DEF WorkInv, Phases, Kind
<1>5. ASSUME NEW command \in ImportCommands, Begin(command) PROVE WorkInv'
  <2>1. command \in Seq(Kinds) /\ command # <<>>
    BY StartAssumption
  <2>2. /\ importer' = [AtRest EXCEPT !.at = "ready", !.queue = command,
                                      !.commands = importer.commands + 1]
        /\ importRun' = importRun
    BY <1>5 DEF Begin
  <2>3. importer'.at = "ready" /\ importer'.queue = command /\ importer'.work = <<>>
    BY <2>2 DEF AtRest
  <2> QED BY <1>3, <2>1, <2>2, <2>3
<1>6. CASE StartImport
  <2>1. importer.at = "ready" /\ (Kind = "domestic" => Fetched) /\ importRun' = "running"
    BY <1>6 DEF StartImport
  <2>2. queue \in Seq(Kinds) /\ queue # <<>> /\ Kind = Head(queue) /\ Kind \in Kinds
    BY <1>1, <2>1 DEF WorkInv, Kind
  <2>3. /\ importer'.queue = queue
        /\ importer'.work = Candidates(Kind)
        /\ importer'.at = CASE Kind = "archive" -> "ensuring"
                            [] Kind = "edl"     -> "writing"
                            [] OTHER            -> "reading"
    BY <1>1, <1>6 DEF StartImport
  <2>4. Kind' = Kind
    BY <1>1, <2>3 DEF Kind
  <2>5. /\ Candidates(Kind) \in Seq(Rows)
        /\ Kind # "archive" => Distinct(Kind, Candidates(Kind))
    BY <2>1, <2>2, CandidatesTyped
  <2>6. CASE Kind = "archive"
    <3>1. importer'.at = "ensuring" /\ importer'.work = UsableReleases
      BY <2>3, <2>6 DEF Candidates
    <3> QED BY <2>1, <2>2, <2>3, <2>4, <2>5, <2>6, <3>1 DEF WorkInv, Phases
  <2>7. CASE Kind = "edl"
    <3>1. importer'.at = "writing"
      BY <2>3, <2>7
    <3> QED BY <2>1, <2>2, <2>3, <2>4, <2>5, <2>7, <3>1 DEF WorkInv, Phases
  <2>8. CASE Kind \notin {"archive", "edl"}
    <3>1. importer'.at = "reading"
      BY <2>3, <2>8
    <3> QED BY <2>1, <2>2, <2>3, <2>4, <2>5, <2>8, <3>1 DEF WorkInv, Phases, Kinds
  <2> QED BY <2>6, <2>7, <2>8
<1>7. ASSUME importer.at = "reading", NEW S \in Pages, ReadPage(S) PROVE WorkInv'
  <2> DEFINE saw2 == [d \in Device |->
                IF d \in S THEN [read |-> TRUE, enabled |-> device[d].enabled,
                                 failures |-> device[d].failures]
                           ELSE importer.saw[d]]
             last == Cardinality(S) < ImportPage
             left == IF last THEN Overwritable(saw2) ELSE importer.work
  <2>1. /\ importer' = [importer EXCEPT
             !.at = IF ~last THEN "reading" ELSE IF left = <<>> THEN "completing" ELSE "writing",
             !.work = left, !.read = @ + Cardinality(S), !.saw = saw2]
        /\ importRun' = importRun
    BY <1>7 DEF ReadPage
  <2>2. work \in Seq(Rows) /\ Unique(work) /\ Kind \in {"oxygen", "domestic"} /\ queue # <<>>
    BY <1>1, <1>7 DEF WorkInv, Distinct, Unique
  <2>3. Overwritable(saw2) \in Seq(Rows) /\ Unique(Overwritable(saw2))
    BY <1>1, <2>2, OverwritableIsAll
  <2>4. left \in Seq(Rows) /\ Unique(left)
    BY <1>1, <2>2, <2>3
  <2> HIDE DEF saw2, left, last
  <2>5. /\ importer'.at \in {"reading", "completing", "writing"}
        /\ importer'.work = left /\ importer'.queue = queue
    BY <1>1, <2>1
  <2>6. Kind' = Kind
    BY <1>1, <2>5 DEF Kind
  <2>7. Distinct(Kind, left)
    BY <2>2, <2>4 DEF Distinct, Unique
  <2> QED BY <1>0, <1>1, <2>1, <2>2, <2>4, <2>5, <2>6, <2>7 DEF WorkInv, Phases
<1>8. CASE WriteChunk \/ WriteRoms
  <2>1. importer.at = "writing" /\ AfterChunk /\ importRun' = importRun /\ faults' = faults
    BY <1>8 DEF WriteChunk, WriteRoms, registryVars
  <2>2. ~Repeats /\ Rest \in Seq(Rows) /\ Distinct(Kind, Rest)
    BY <2>1, NoRepeats
  <2>3. /\ importer'.at \in {"completing", "writing"}
        /\ importer'.work = Rest /\ importer'.queue = queue
    BY <1>1, <2>1, <2>2 DEF AfterChunk
  <2>4. Kind' = Kind
    BY <1>1, <2>3 DEF Kind
  <2> QED BY <1>0, <1>1, <2>1, <2>2, <2>3, <2>4 DEF WorkInv, Phases
<1>9. CASE EnsureDevice
  <2>1. /\ importer.at = "ensuring" /\ work # <<>> /\ UsableReleases # <<>>
        /\ importer' = NextRow("ensuring", "storing")
        /\ importRun' = importRun
        /\ work \in Seq(Rows) /\ queue \in Seq(Kinds) /\ queue # <<>> /\ Kind = "archive"
    BY <1>1, <1>9 DEF EnsureDevice, WorkInv
  <2>2. UsableReleases \in Seq(Rows) /\ Tail(work) \in Seq(Rows)
    BY <2>1, TailOf, UsableReleasesAreAll DEF Rows
  <2>3. /\ importer'.queue = queue
        /\ \/ importer'.at = "storing" /\ importer'.work = UsableReleases
           \/ importer'.at = "ensuring" /\ importer'.work = Tail(work)
    BY <1>1, <2>1 DEF NextRow
  <2>4. Kind' = Kind
    BY <1>1, <2>3 DEF Kind
  <2>5. importRun' = "failed" => faults' > 0
    BY <1>0, <2>1 DEF WorkInv
  <2> QED BY <2>1, <2>2, <2>3, <2>4, <2>5 DEF WorkInv, Phases
<1>10. CASE StoreRelease
  <2>1. /\ importer.at = "storing" /\ work # <<>>
        /\ importRun' = importRun
        /\ work \in Seq(Rows) /\ queue \in Seq(Kinds) /\ queue # <<>> /\ Kind = "archive"
    BY <1>1, <1>10 DEF StoreRelease, WorkInv
  <2>2. PICK high : importer' = [NextRow("storing", "tracking") EXCEPT !.highest = high]
    BY <1>10 DEF StoreRelease
  <2>3. /\ importer'.queue = queue /\ importer'.work = Tail(work)
        /\ \/ importer'.at = "tracking"
           \/ importer'.at = "storing" /\ Len(work) # 1
    BY <1>1, <2>2 DEF NextRow
  <2>4. Tail(work) \in Seq(Rows) /\ (Len(work) # 1 => Tail(work) # <<>>)
    BY <2>1, TailOf
  <2>5. Kind' = Kind
    BY <1>1, <2>3 DEF Kind
  <2> QED BY <1>0, <2>1, <2>3, <2>4, <2>5 DEF WorkInv, Phases
<1>11. ASSUME NEW d \in Device, WriteTrack(d) PROVE WorkInv'
  <2>1. /\ importer.at = "tracking" /\ importer'.at = "tracking"
        /\ importer'.queue = queue /\ importer'.work = work /\ importRun' = importRun
    BY <1>1, <1>11 DEF WriteTrack
  <2> QED BY <1>1, <1>4, <2>1 DEF WorkInv
<1>12. CASE ArchiveDone \/ StatementFails
  <2>1. /\ importer'.at = IF ArchiveDone THEN "completing" ELSE "failing"
        /\ importer.at \in Phases \ {"off", "dead"}
        /\ importer'.queue = queue /\ importer'.work = work /\ importRun' = importRun
    BY <1>1, <1>12 DEF ArchiveDone, StatementFails, Now, Phases
  <2>2. ArchiveDone \/ faults' > 0
    BY <1>0, <1>12 DEF StatementFails, Fault
  <2> QED BY <1>1, <1>4, <2>1, <2>2 DEF WorkInv
<1>13. CASE FetchRaised
  <2>1. importer'.at = "off" /\ importer'.queue = queue /\ importRun' = importRun
        /\ importer'.work = work /\ importer.at = "ready"
    BY <1>1, <1>13 DEF FetchRaised, Now
  <2> QED BY <1>0, <1>1, <2>1 DEF WorkInv, Phases
<1>14. CASE CompleteImport
  <2>1. queue \in Seq(Kinds) /\ queue # <<>>
    BY <1>1, <1>14 DEF CompleteImport, WorkInv
  <2>2. Tail(queue) \in Seq(Kinds) /\ (Len(queue) # 1 => Tail(queue) # <<>>)
    BY <2>1, TailOf
  <2>3. /\ importer'.at = IF Len(queue) = 1 THEN "off" ELSE "ready"
        /\ importer'.queue = Tail(queue) /\ importer'.work = <<>> /\ importRun' = "completed"
    BY <1>1, <1>14 DEF CompleteImport, AtRest
  <2> QED BY <1>3, <2>2, <2>3
<1>15. CASE FailImport \/ ImporterDies
  <2>1. /\ importer'.at \in {"off", "dead"} /\ importer'.queue = <<>> /\ importer'.work = <<>>
        /\ \/ importer.at = "failing"
           \/ importRun' = IF importRun = "running" THEN "orphaned" ELSE importRun
    BY <1>15 DEF FailImport, ImporterDies, AtRest
  <2>2. importer.at = "failing" => faults > 0
    BY DEF WorkInv
  <2>3. importRun' # "failed" \/ importRun' = importRun \/ faults > 0
    BY <2>1, <2>2
  <2> QED BY <1>3, <2>1, <2>3
<1>16. CASE FetchDomestic \/ \E f \in Findable : OthersStore(f) \/ ScanWritesTrack(f)
  BY <1>2, <1>16 DEF FetchDomestic, OthersStore, ScanWritesTrack
<1>17. CASE ImportActs
  BY <1>5, <1>6, <1>7, <1>8, <1>9, <1>10, <1>11, <1>12, <1>13, <1>14, <1>15, <1>16, <1>17
     DEF ImportActs, ImportStep
<1>18. CASE ~ImportActs
  BY <1>2, <1>18 DEF Next, OperatorActs, vars, importVars
<1> QED BY <1>17, <1>18

\* An import that failed had a fault: no catalogue, however it repeats its
\* models and rows, makes a statement that the database refuses, whatever the
\* size of a chunk and of a page.
THEOREM FailureHadFault == Spec => []FailsOnlyByFault
<1> DEFINE I == RegistryInv /\ FetchInv /\ WorkInv
<1>1. Init => I
  BY RegistryInvInit, FetchInvInit, WorkInvInit
<1>2. I /\ [Next]_vars => I'
  BY RegistryInvStep, FetchInvStep, WorkInvStep DEF RegistryInv
<1>3. I => FailsOnlyByFault
  BY DEF WorkInv, FailsOnlyByFault
<1> QED BY <1>1, <1>2, <1>3, PTL DEF Spec

---------------------------------------------------------------------------
(* What an import read still stands when it writes, unless others wrote.   *)
(* A page that is read without disturbance contains rows that were not     *)
(* read before, so the count of the rows read, which decides when the last *)
(* page is reached, is the number of devices read; after it every stored   *)
(* device was read.                                                        *)

\* The rows that were read, and those that still stand as they were read.
ReadSet == {d \in Device : importer.saw[d].read}

Current(d) == importer.saw[d] = [read |-> TRUE, enabled |-> device[d].enabled,
                                 failures |-> device[d].failures]

ReadInv ==
  importer.at = "reading" =>
    /\ importer.read \in Nat
    /\ importer.read = 0 => ReadSet = {}
    /\ \A d \in ReadSet : device[d].stored
    /\ importer.read > 0 =>
         /\ Cardinality(Stored) >= ImportPage
         /\ disturbed = {} => /\ importer.read = Cardinality(ReadSet)
                              /\ \A d \in ReadSet : Current(d)

KeepInv ==
  importer.at = "writing" /\ Kind # "edl" =>
    \A i \in DOMAIN importer.work :
      LET d == importer.work[i].model
      IN  /\ ~(importer.saw[d].read /\ d \in Overridden)
          /\ device[d].stored /\ Undisturbed(d) => Current(d)

\* What others leave alone: which rows are stored and have a manifest code, and
\* every row that is not marked as disturbed.
OthersKeep ==
  /\ \A d \in Device : /\ device'[d].stored = device[d].stored
                       /\ device'[d].manifest = device[d].manifest
                       /\ d \notin disturbed' => device'[d] = device[d]
  /\ disturbed \subseteq disturbed'

LEMMA Switching ==
  ASSUME NEW models, NEW on, device \in [Device -> DeviceRow], SetScanEnabled(models, on)
  PROVE  OthersKeep
BY DEF SetScanEnabled, Switched, OthersKeep

LEMMA OthersStep ==
  ASSUME RegistryTypeOK, [Next]_vars, ~ImportActs
  PROVE  OthersKeep
<1>0. device \in [Device -> DeviceRow]
  BY DEF RegistryTypeOK
<1>1. CASE UNCHANGED <<device, disturbed>>
  BY <1>1 DEF OthersKeep
<1>2. CASE HealthStep
  <2>1. ASSUME NEW d \in Device, RecordScanSuccess(d) PROVE OthersKeep
    BY <1>0, <2>1 DEF RecordScanSuccess, OthersKeep
  <2>2. ASSUME NEW d \in Device, NEW upstream, WriteScanFailure(d, upstream) PROVE OthersKeep
    BY <1>0, <2>2 DEF WriteScanFailure, Struck, OthersKeep
  <2>3. ASSUME NEW d \in Device, ReadScanFailure(d) PROVE OthersKeep
    BY <1>1, <2>3 DEF ReadScanFailure
  <2> QED BY <1>2, <2>1, <2>2, <2>3, DeviceAssumption DEF HealthStep
<1>3. ASSUME NEW o, CommandStep(o) PROVE OthersKeep
  <2>1. CASE Apply(o)
    <3>1. \/ UNCHANGED <<device, disturbed>>
          \/ \E models, on : SetScanEnabled(models, on)
      BY <2>1 DEF Apply, SetAllScanEnabled
    <3> QED BY <1>0, <1>1, <3>1, Switching
  <2> QED BY <1>1, <1>3, <2>1 DEF CommandStep, registryVars
<1>4. CASE OperatorActs
  <2>1. CASE UpdateArrives \/ GetUpdates \/ TakeUpdate \/ ReplySent \/ ReplyRefused
             \/ Restart \/ BotDies
    BY <1>1, <2>1 DEF UpdateArrives, GetUpdates, TakeUpdate, ReplySent, ReplyRefused,
                      Restart, BotDies, registryVars
  <2>2. ASSUME NEW o, Respond(o) \/ \E cmd \in Commands : Request(o, cmd) PROVE OthersKeep
    BY <1>1, <2>2 DEF Respond, Request, registryVars
  <2> QED BY <1>3, <1>4, <2>1, <2>2 DEF OperatorActs, BotStep, RequestStep
<1>5. CASE SelectionStep \/ UNCHANGED vars
  BY <1>1, <1>5 DEF SelectionStep, StartSelection, SelectPage, vars, registryVars
<1> QED BY <1>2, <1>4, <1>5 DEF Next

\* So do a scan and a query that store a release while an import runs.
LEMMA FindersStep ==
  ASSUME RegistryTypeOK, NEW f \in Findable, OthersStore(f) \/ ScanWritesTrack(f)
  PROVE  OthersKeep /\ UNCHANGED <<device, importer, roms, fetch>>
BY DEF OthersStore, ScanWritesTrack, OthersKeep, registryVars

LEMMA StoredFinite ==
  /\ IsFiniteSet(Stored) /\ Cardinality(Stored) \in Nat
  /\ \A S \in SUBSET Stored :
       /\ IsFiniteSet(S) /\ Cardinality(S) \in Nat /\ Cardinality(S) <= Cardinality(Stored)
<1>1. IsFiniteSet(Stored)
  <2>1. Stored \in SUBSET Device
    BY DEF Stored
  <2> QED BY <2>1, DeviceAssumption, FS_Subset
<1>2. ASSUME NEW S \in SUBSET Stored
      PROVE  IsFiniteSet(S) /\ Cardinality(S) \in Nat /\ Cardinality(S) <= Cardinality(Stored)
  <2>1. IsFiniteSet(S) /\ Cardinality(S) <= Cardinality(Stored)
    BY <1>1, FS_Subset
  <2> QED BY <2>1, FS_CardinalityType
<1> QED BY <1>1, <1>2, FS_CardinalityType

\* A page, read while nothing is disturbed: of rows that were not read yet, and
\* all of those if it is the last one.
LEMMA PageOfRows ==
  ASSUME ReadInv, importer.at = "reading", NEW S \in Pages
  PROVE  /\ S \in SUBSET Stored
         /\ disturbed = {} \/ importer.read = 0 =>
              /\ importer.read + Cardinality(S) = Cardinality(ReadSet \cup S)
              /\ Cardinality(S) < ImportPage => ReadSet \cup S = Stored
<1> DEFINE read == importer.read
           left == Cardinality(Stored) - read
           fresh == {d \in Stored : ~importer.saw[d].read}
<1>1. /\ S \in SUBSET Stored
      /\ Cardinality(S) = IF left < ImportPage THEN left ELSE ImportPage
      /\ disturbed = {} \/ read = 0 => S \in SUBSET fresh
  BY DEF Pages
<1>2. ImportPage \in Nat /\ read \in Nat
  BY ImportAssumption DEF ReadInv
<1>3. ReadSet \in SUBSET Stored
  BY DEF ReadInv, ReadSet, Stored
<1>4. /\ IsFiniteSet(Stored) /\ IsFiniteSet(S) /\ IsFiniteSet(ReadSet)
      /\ Cardinality(Stored) \in Nat /\ Cardinality(S) \in Nat /\ Cardinality(ReadSet) \in Nat
  BY <1>1, <1>3, StoredFinite
<1>5. ASSUME disturbed = {} \/ read = 0
      PROVE  /\ read + Cardinality(S) = Cardinality(ReadSet \cup S)
             /\ Cardinality(S) < ImportPage => ReadSet \cup S = Stored
  <2>1. read = Cardinality(ReadSet)
    BY <1>2, <1>5, FS_EmptySet DEF ReadInv
  <2>2. fresh = Stored \ ReadSet /\ S \in SUBSET fresh
    BY <1>1, <1>5 DEF ReadSet, Stored
  <2>3. IsFiniteSet(fresh) /\ Cardinality(fresh) = Cardinality(Stored) - Cardinality(ReadSet)
    <3>1. Stored \cap ReadSet = ReadSet
      BY <1>3
    <3>2. Cardinality(Stored \ ReadSet) = Cardinality(Stored) - Cardinality(Stored \cap ReadSet)
          /\ IsFiniteSet(Stored \ ReadSet)
      BY <1>4, FS_Difference
    <3> QED BY <2>2, <3>1, <3>2
  <2>4. Cardinality(ReadSet \cup S) = Cardinality(ReadSet) + Cardinality(S)
    <3>1. ReadSet \cap S = {}
      BY <2>2
    <3>2. Cardinality(ReadSet \cup S)
            = Cardinality(ReadSet) + Cardinality(S) - Cardinality(ReadSet \cap S)
      BY <1>4, FS_Union
    <3>3. Cardinality(ReadSet \cap S) = 0
      BY <3>1, FS_EmptySet
    <3> QED BY <1>4, <3>2, <3>3
  <2>5. ASSUME Cardinality(S) < ImportPage PROVE ReadSet \cup S = Stored
    <3>1. Cardinality(S) = Cardinality(fresh)
      BY <1>1, <1>2, <1>4, <2>1, <2>3, <2>5
    <3>2. S = fresh
      BY <2>2, <2>3, <3>1, FS_Subset
    <3> QED BY <1>3, <2>2, <3>2
  <2> QED BY <2>1, <2>4, <2>5
<1> QED BY <1>1, <1>5

ReadKeepInv == ReadInv /\ KeepInv

LEMMA ReadKeepInit == Init => ReadKeepInv
BY DEF Init, ImportInit, AtRest, ReadKeepInv, ReadInv, KeepInv

\* The import goes on reading, or writes with what it has read.
LEMMA PageKeeps ==
  ASSUME RegistryTypeOK, ImporterInv, WorkInv, ReadInv, importer.at = "reading",
         NEW S \in Pages, ReadPage(S)
  PROVE  ReadKeepInv'
<1> DEFINE saw2 == [d \in Device |->
              IF d \in S THEN [read |-> TRUE, enabled |-> device[d].enabled,
                               failures |-> device[d].failures]
                         ELSE importer.saw[d]]
           last == Cardinality(S) < ImportPage
           left == IF last THEN Overwritable(saw2) ELSE importer.work
           count == importer.read + Cardinality(S)
           quiet == disturbed = {} \/ importer.read = 0
<1>1. /\ importer' = [importer EXCEPT
             !.at = IF ~last THEN "reading" ELSE IF left = <<>> THEN "completing" ELSE "writing",
             !.work = left, !.read = count, !.saw = saw2]
      /\ device' = device
      /\ disturbed' = IF importer.read = 0 THEN {} ELSE disturbed
  BY DEF ReadPage
<1>2. /\ S \in SUBSET Stored
      /\ quiet => /\ count = Cardinality(ReadSet \cup S)
                  /\ last => ReadSet \cup S = Stored
      /\ Cardinality(S) \in Nat /\ Cardinality(S) <= Cardinality(Stored)
      /\ Cardinality(Stored) \in Nat
  BY PageOfRows, StoredFinite
<1>3. /\ importer.read \in Nat /\ ImportPage \in Nat \ {0} /\ count \in Nat
      /\ Stored \subseteq Device /\ S \subseteq Device
  BY <1>2, ImportAssumption DEF ReadInv, Stored
<1>4. \A d \in Device : saw2[d] = IF d \in S THEN [read |-> TRUE, enabled |-> device[d].enabled,
                                                    failures |-> device[d].failures]
                                   ELSE importer.saw[d]
  OBVIOUS
<1>5. /\ importer'.saw = saw2 /\ importer'.read = count /\ importer'.work = left
      /\ importer'.at = IF ~last THEN "reading" ELSE IF left = <<>> THEN "completing" ELSE "writing"
      /\ Stored' = Stored /\ Kind' = Kind
  BY <1>1 DEF ImporterInv, Stored, Kind
<1> HIDE DEF saw2
<1>6. ReadSet' = ReadSet \cup S
  <2>1. ReadSet' = {d \in Device : saw2[d].read}
    BY <1>5 DEF ReadSet
  <2>2. ASSUME NEW d \in S PROVE saw2[d].read
    <3>1. saw2[d] = [read |-> TRUE, enabled |-> device[d].enabled, failures |-> device[d].failures]
      BY <1>3, <1>4
    <3> QED BY <3>1
  <2>3. ASSUME NEW d \in Device, d \notin S PROVE saw2[d] = importer.saw[d]
    BY <1>4, <2>3
  <2>4. ReadSet' \subseteq ReadSet \cup S
    BY <2>1, <2>3 DEF ReadSet
  <2>5. S \subseteq ReadSet'
    BY <1>3, <2>1, <2>2
  <2>6. ReadSet \subseteq ReadSet'
    <3> SUFFICES ASSUME NEW d \in ReadSet, d \notin S PROVE d \in ReadSet'
      BY <2>5
    <3> QED BY <2>1, <2>3 DEF ReadSet
  <2> QED BY <2>4, <2>5, <2>6
<1>7. \A d \in Device : Current(d)' <=> saw2[d] = [read |-> TRUE, enabled |-> device[d].enabled,
                                                   failures |-> device[d].failures]
  BY <1>1, <1>5 DEF Current
<1>8. ASSUME quiet PROVE \A d \in ReadSet \cup S : Current(d)'
  <2>1. importer.read = 0 => ReadSet = {}
    BY DEF ReadInv
  <2>2. importer.read > 0 => \A d \in ReadSet : Current(d)
    BY <1>8, <1>3 DEF ReadInv
  <2>3. \A d \in ReadSet : Current(d)
    BY <1>3, <2>1, <2>2
  <2>4. ReadSet \subseteq Device
    BY DEF ReadSet
  <2> QED BY <1>3, <1>4, <1>7, <2>3, <2>4 DEF Current
<1>9. disturbed' = {} => quiet
  BY <1>1
<1>10. CASE ~last
  <2>1. importer'.at = "reading" /\ Cardinality(Stored) >= ImportPage /\ count > 0
    BY <1>2, <1>3, <1>5, <1>10
  <2>2. \A d \in ReadSet' : device'[d].stored
    BY <1>1, <1>2, <1>6 DEF ReadInv, Stored
  <2>3. disturbed' = {} => count = Cardinality(ReadSet') /\ \A d \in ReadSet' : Current(d)'
    BY <1>2, <1>6, <1>8, <1>9
  <2> QED BY <1>3, <1>5, <2>1, <2>2, <2>3 DEF ReadKeepInv, ReadInv, KeepInv
<1>11. CASE last
  <2>1. importer'.at \in {"completing", "writing"} /\ importer'.work = Overwritable(saw2)
    BY <1>5, <1>11
  <2>2. /\ importer.work \in Seq(Rows)
        /\ \A j \in DOMAIN Overwritable(saw2) :
             LET c == Overwritable(saw2)[j]
             IN  ~(saw2[c.model].read /\ c.model \in Overridden) /\ c \in Rows
    <3>1. importer.work \in Seq(Rows)
      BY DEF WorkInv
    <3>2. Overwritable(saw2) \in Seq(Rows)
      BY <3>1, OverwritableIsAll
    <3> QED BY <3>1, <3>2, OverwritableIsAll
  <2>3. ASSUME NEW d \in Device, device'[d].stored, Undisturbed(d)' PROVE Current(d)'
    <3>1. quiet
      <4>1. CASE importer.read = 0
        BY <4>1
      <4>2. CASE importer.read > 0
        <5>1. Cardinality(Stored) >= ImportPage
          BY <4>2 DEF ReadInv
        <5>2. ~(Cardinality(Stored) < ImportPage)
          BY <1>2, <1>3, <5>1
        <5>3. disturbed' = {}
          BY <1>5, <2>3, <5>2 DEF Undisturbed
        <5> QED BY <1>9, <5>3
      <4> QED BY <1>3, <4>1, <4>2
    <3>2. d \in ReadSet \cup S
      BY <1>1, <1>2, <1>11, <2>3, <3>1 DEF Stored
    <3> QED BY <1>8, <3>1, <3>2
  <2>4. \A c \in Rows : c.model \in Device
    BY DEF Rows, OxygenRow, CandidateRow, ReleaseRow, RomRow
  <2> QED BY <1>5, <2>1, <2>2, <2>3, <2>4 DEF ReadKeepInv, ReadInv, KeepInv
<1> QED BY <1>10, <1>11

\* The rows of a chunk: each is written as it was merged, no other changes, and
\* what is left to write is about other devices.
LEMMA ChunkWrites ==
  ASSUME RegistryTypeOK, ImporterInv, WorkInv, WriteChunk
  PROVE  /\ \A i \in DOMAIN importer.work :
              /\ importer.work[i].model \in Device
              /\ \/ \E j \in DOMAIN Rest : Rest[j] = importer.work[i]
                 \/ device'[importer.work[i].model] = Merged(importer.work[i])
         /\ \A d \in Device :
              \/ device'[d] = device[d]
              \/ \E i \in DOMAIN importer.work : /\ importer.work[i].model = d
                                                /\ device'[d] = Merged(importer.work[i])
         /\ \A j \in DOMAIN Rest :
              /\ \E i \in DOMAIN importer.work : Rest[j] = importer.work[i]
              /\ device'[Rest[j].model] = device[Rest[j].model]
         /\ importer' = [importer EXCEPT !.work = Rest,
                                         !.at = IF Rest = <<>> THEN "completing" ELSE "writing"]
<1> DEFINE w == importer.work
           m == IF ChunkSize < Len(w) THEN ChunkSize ELSE Len(w)
           row(i) == Chunk[CHOOSE k \in DOMAIN Chunk : Chunk[k].model = Chunk[i].model]
<1>1. w \in Seq(Rows) /\ Distinct(Kind, w) /\ Kind # "edl"
  BY DEF WorkInv, WriteChunk
<1>2. /\ m \in Nat
      /\ DOMAIN Chunk = 1..m /\ DOMAIN w = 1..Len(w)
      /\ \A i \in 1..m : i \in DOMAIN w /\ Chunk[i] = w[i]
      /\ Rest \in Seq(Rows) /\ DOMAIN Rest = 1..(Len(w) - m)
      /\ \A i \in DOMAIN Rest : m + i \in DOMAIN w /\ Rest[i] = w[m + i]
      /\ Len(w) \in Nat /\ m <= Len(w)
  <2>1. m \in Nat /\ m <= Len(w)
    BY <1>1, ImportAssumption
  <2> QED BY <1>1, <2>1, ChunkOfWork
<1> HIDE DEF m
<1>3. ~Repeats
  BY NoRepeats DEF WriteChunk
<1>4. /\ device' = [d \in Device |->
                     IF InChunk(d)
                     THEN Merged(Chunk[CHOOSE i \in DOMAIN Chunk : Chunk[i].model = d])
                     ELSE device[d]]
      /\ importer' = [importer EXCEPT !.work = Rest,
                                      !.at = IF Rest = <<>> THEN "completing" ELSE "writing"]
  BY <1>3 DEF WriteChunk, AfterChunk
<1>5. \A i \in DOMAIN w : w[i].model \in Device
  <2>1. \A i \in DOMAIN w : w[i] \in Rows
    BY <1>1
  <2> QED BY <2>1 DEF Rows, OxygenRow, CandidateRow, ReleaseRow, RomRow
<1>6. ASSUME NEW i \in DOMAIN Chunk, NEW d \in Device, Chunk[i].model = d
      PROVE  device'[d] = Merged(w[i])
  <2>1. (CHOOSE k \in DOMAIN Chunk : Chunk[k].model = d) = i
    <3>1. \A k \in DOMAIN Chunk : Chunk[k].model = d => k = i
      BY <1>1, <1>2, <1>6 DEF Distinct
    <3> QED BY <1>6, <3>1
  <2>2. InChunk(d)
    BY <1>6 DEF InChunk
  <2>3. Chunk[i] = w[i]
    BY <1>2
  <2> QED BY <1>4, <2>1, <2>2, <2>3
<1>7. ASSUME NEW i \in DOMAIN w
      PROVE  \/ \E j \in DOMAIN Rest : Rest[j] = w[i]
             \/ device'[w[i].model] = Merged(w[i])
  <2>1. CASE i \in 1..m
    <3>1. i \in DOMAIN Chunk /\ Chunk[i].model = w[i].model
      BY <1>2, <2>1
    <3> QED BY <1>5, <1>6, <3>1
  <2>2. CASE i \notin 1..m
    <3>1. i - m \in DOMAIN Rest /\ m + (i - m) = i
      BY <1>2, <2>2
    <3> QED BY <1>2, <3>1
  <2> QED BY <2>1, <2>2
<1>8. ASSUME NEW d \in Device, device'[d] # device[d]
      PROVE  \E i \in DOMAIN w : w[i].model = d /\ device'[d] = Merged(w[i])
  <2>1. PICK i \in DOMAIN Chunk : Chunk[i].model = d
    BY <1>4, <1>8 DEF InChunk
  <2> QED BY <1>2, <1>6, <2>1
<1>9. ASSUME NEW j \in DOMAIN Rest
      PROVE  /\ \E i \in DOMAIN w : Rest[j] = w[i]
             /\ device'[Rest[j].model] = device[Rest[j].model]
  <2>1. m + j \in DOMAIN w /\ Rest[j] = w[m + j] /\ Rest[j].model \in Device
    BY <1>2, <1>5
  <2>2. ~InChunk(Rest[j].model)
    <3> SUFFICES ASSUME NEW i \in DOMAIN Chunk, Chunk[i].model = Rest[j].model PROVE FALSE
      BY DEF InChunk
    <3>1. i \in DOMAIN w /\ w[i].model = w[m + j].model
      BY <1>2, <2>1
    <3>2. i = m + j
      BY <1>1, <2>1, <3>1 DEF Distinct
    <3>3. j \in Nat /\ j >= 1 /\ i \in 1..m
      BY <1>2
    <3> QED BY <1>2, <3>2, <3>3
  <2> QED BY <1>4, <2>1, <2>2
<1> QED BY <1>4, <1>5, <1>7, <1>8, <1>9

\* Undisturbed speaks of more rows when the table grows.
LEMMA UndisturbedBefore ==
  ASSUME NEW d \in Device, Undisturbed(d)', disturbed \subseteq disturbed',
         \A e \in Device : device[e].stored => device'[e].stored
  PROVE  Undisturbed(d) /\ d \notin disturbed'
<1>1. Stored \in SUBSET (Stored') /\ Stored' \in SUBSET Device
  BY DEF Stored
<1>2. IsFiniteSet(Stored')
  BY <1>1, DeviceAssumption, FS_Subset
<1>3. Cardinality(Stored) <= Cardinality(Stored')
  BY <1>1, <1>2, FS_Subset
<1>4. Cardinality(Stored) \in Nat /\ Cardinality(Stored') \in Nat /\ ImportPage \in Nat
  BY <1>2, FS_CardinalityType, StoredFinite, ImportAssumption
<1>5. d \notin disturbed'
  BY DEF Undisturbed
<1>6. CASE Cardinality(Stored) < ImportPage
  BY <1>5, <1>6 DEF Undisturbed
<1>7. CASE ~(Cardinality(Stored) < ImportPage)
  <2>1. ~(Cardinality(Stored') < ImportPage)
    BY <1>3, <1>4, <1>7
  <2> QED BY <1>5, <1>7, <2>1 DEF Undisturbed
<1> QED BY <1>6, <1>7

\* Others only make the invariant ask for less.
LEMMA OthersKeepRead ==
  ASSUME RegistryTypeOK, WorkInv, ReadKeepInv, OthersKeep, UNCHANGED importer
  PROVE  ReadKeepInv'
<1>1. Stored' = Stored /\ ReadSet' = ReadSet /\ Kind' = Kind
  BY DEF OthersKeep, Stored, ReadSet, Kind
<1>2. ASSUME NEW d \in Device, d \notin disturbed' PROVE device'[d] = device[d]
  BY <1>2 DEF OthersKeep
<1>3. ReadInv'
  <2> SUFFICES ASSUME importer.at = "reading" PROVE ReadInv'
    BY DEF ReadInv
  <2>1. /\ importer.read \in Nat
        /\ importer.read = 0 => ReadSet = {}
        /\ \A d \in ReadSet : device[d].stored
        /\ importer.read > 0 =>
             /\ Cardinality(Stored) >= ImportPage
             /\ disturbed = {} => /\ importer.read = Cardinality(ReadSet)
                                  /\ \A d \in ReadSet : Current(d)
    BY DEF ReadKeepInv, ReadInv
  <2>2. \A d \in ReadSet : device'[d].stored
    BY <2>1 DEF OthersKeep, ReadSet
  <2>3. ASSUME disturbed' = {} PROVE disturbed = {} /\ \A d \in ReadSet : Current(d) => Current(d)'
    BY <1>2, <2>3 DEF OthersKeep, ReadSet, Current
  <2> QED BY <1>1, <2>1, <2>2, <2>3 DEF ReadInv
<1>4. KeepInv'
  <2> SUFFICES ASSUME importer.at = "writing", Kind # "edl" PROVE KeepInv'
    BY <1>1 DEF KeepInv
  <2>1. ASSUME NEW i \in DOMAIN importer.work, NEW d, d = importer.work[i].model
        PROVE  /\ ~(importer.saw[d].read /\ d \in Overridden)
               /\ device'[d].stored /\ Undisturbed(d)' => Current(d)'
    <3>1. d \in Device
      <4>1. importer.work[i] \in Rows
        BY DEF WorkInv
      <4> QED BY <2>1, <4>1 DEF Rows, OxygenRow, CandidateRow, ReleaseRow, RomRow
    <3>2. /\ ~(importer.saw[d].read /\ d \in Overridden)
          /\ device[d].stored /\ Undisturbed(d) => Current(d)
      BY <2>1 DEF ReadKeepInv, KeepInv
    <3>3. ASSUME device'[d].stored, Undisturbed(d)' PROVE Current(d)'
      <4>1. Undisturbed(d) /\ d \notin disturbed'
        BY <3>1, <3>3, UndisturbedBefore DEF OthersKeep
      <4>2. device'[d] = device[d]
        BY <1>2, <3>1, <4>1
      <4> QED BY <3>2, <3>3, <4>1, <4>2 DEF Current
    <3> QED BY <3>2, <3>3
  <2> QED BY <2>1 DEF KeepInv
<1> QED BY <1>3, <1>4 DEF ReadKeepInv

LEMMA ReadKeepStep ==
  RegistryTypeOK /\ ImporterInv /\ WorkInv /\ ReadKeepInv /\ [Next]_vars => ReadKeepInv'
<1> SUFFICES ASSUME RegistryTypeOK, ImporterInv, WorkInv, ReadKeepInv, [Next]_vars
             PROVE  ReadKeepInv'
  OBVIOUS
<1>1. CASE importer'.at \notin {"reading", "writing"}
  BY <1>1 DEF ReadKeepInv, ReadInv, KeepInv
<1>2. CASE UNCHANGED <<importer, device, disturbed>>
  <2>1. OthersKeep
    BY <1>2 DEF OthersKeep
  <2> QED BY <1>2, <2>1, OthersKeepRead
<1>3. CASE StartImport
  <2>1. importer' = [importer EXCEPT
          !.at = CASE Kind = "archive" -> "ensuring"
                   [] Kind = "edl"     -> "writing"
                   [] OTHER            -> "reading",
          !.work = Candidates(Kind), !.read = 0, !.saw = AtRest.saw,
          !.highest = AtRest.highest]
    BY <1>3 DEF StartImport
  <2>2. /\ importer'.at = "writing" => Kind' = "edl"
        /\ importer'.read = 0 /\ importer'.saw = [d \in Device |-> Unread]
    BY <2>1 DEF ImporterInv, Kind, AtRest
  <2>3. ReadSet' = {}
    BY <2>2 DEF ReadSet, Unread
  <2> QED BY <2>2, <2>3 DEF ReadKeepInv, ReadInv, KeepInv
<1>4. ASSUME importer.at = "reading", NEW S \in Pages, ReadPage(S) PROVE ReadKeepInv'
  BY <1>4, PageKeeps DEF ReadKeepInv
<1>5. CASE WriteChunk
  <2>1. /\ \A j \in DOMAIN Rest :
             /\ \E i \in DOMAIN importer.work : Rest[j] = importer.work[i]
             /\ device'[Rest[j].model] = device[Rest[j].model]
             /\ Rest[j].model \in Device
        /\ \A d \in Device : device[d].stored => device'[d].stored
        /\ importer' = [importer EXCEPT !.work = Rest,
                                        !.at = IF Rest = <<>> THEN "completing" ELSE "writing"]
    <3>1. \A i \in DOMAIN importer.work : Merged(importer.work[i]).stored
      BY DEF Merged
    <3>2. \A d \in Device : \/ device'[d] = device[d]
                            \/ \E i \in DOMAIN importer.work : device'[d] = Merged(importer.work[i])
      BY <1>5, ChunkWrites
    <3>3. \A d \in Device : device[d].stored => device'[d].stored
      BY <3>1, <3>2
    <3> QED BY <1>5, <3>3, ChunkWrites
  <2>2. importer'.work = Rest /\ importer'.saw = importer.saw /\ importer'.queue = importer.queue
    BY <2>1 DEF ImporterInv
  <2>3. importer.at = "writing" /\ Kind # "edl" /\ disturbed' = disturbed
    BY <1>5 DEF WriteChunk
  <2>4. ASSUME NEW j \in DOMAIN Rest, NEW d, d = Rest[j].model
        PROVE  /\ ~(importer.saw[d].read /\ d \in Overridden)
               /\ device'[d].stored /\ Undisturbed(d)' => Current(d)'
    <3>1. PICK i \in DOMAIN importer.work : Rest[j] = importer.work[i]
      BY <2>1
    <3>2. /\ ~(importer.saw[d].read /\ d \in Overridden)
          /\ device[d].stored /\ Undisturbed(d) => Current(d)
      BY <2>3, <2>4, <3>1 DEF ReadKeepInv, KeepInv
    <3>3. Undisturbed(d)' => Undisturbed(d)
      BY <2>1, <2>3, <2>4, UndisturbedBefore
    <3>4. device'[d] = device[d]
      BY <2>1, <2>4
    <3>5. Current(d)' <=> Current(d)
      BY <2>2, <3>4 DEF Current
    <3> QED BY <3>2, <3>3, <3>4, <3>5
  <2>5. importer'.at \in {"completing", "writing"}
    BY <2>1 DEF ImporterInv
  <2> QED BY <2>2, <2>4, <2>5 DEF ReadKeepInv, ReadInv, KeepInv
<1>6. CASE WriteRoms
  <2>1. importer.at = "writing" /\ Kind = "edl" /\ AfterChunk
    BY <1>6 DEF WriteRoms
  <2>2. importer'.at # "reading" /\ importer'.queue = importer.queue
    BY <2>1 DEF AfterChunk, ImporterInv
  <2> QED BY <2>1, <2>2 DEF Kind, ReadKeepInv, ReadInv, KeepInv
<1>7. CASE ImportActs
  <2>1. CASE FetchDomestic
    BY <1>2, <2>1 DEF FetchDomestic, registryVars
  <2>8. CASE \E f \in Findable : OthersStore(f) \/ ScanWritesTrack(f)
    BY <2>8, FindersStep, OthersKeepRead
  <2>2. CASE FetchRaised \/ ArchiveDone \/ StatementFails
    BY <1>1, <2>2 DEF FetchRaised, ArchiveDone, StatementFails, Now, ImporterInv
  <2>3. CASE EnsureDevice
    <3>1. importer'.at \in {"ensuring", "storing"}
      BY <2>3 DEF EnsureDevice, NextRow, ImporterInv
    <3> QED BY <1>1, <3>1
  <2>4. CASE StoreRelease
    <3>1. PICK high : importer' = [NextRow("storing", "tracking") EXCEPT !.highest = high]
      BY <2>4 DEF StoreRelease
    <3>2. importer'.at \in {"storing", "tracking"}
      BY <3>1 DEF NextRow, ImporterInv
    <3> QED BY <1>1, <3>2
  <2>5. ASSUME NEW d, WriteTrack(d) PROVE ReadKeepInv'
    <3>1. importer'.at = "tracking"
      BY <2>5 DEF WriteTrack, ImporterInv
    <3> QED BY <1>1, <3>1
  <2>6. CASE CompleteImport \/ FailImport \/ ImporterDies
    <3>1. importer'.at \in {"off", "ready", "dead"}
      BY <2>6 DEF CompleteImport, FailImport, ImporterDies, AtRest
    <3> QED BY <1>1, <3>1
  <2>7. ASSUME NEW command, Begin(command) PROVE ReadKeepInv'
    <3>1. importer'.at = "ready"
      BY <2>7 DEF Begin, AtRest
    <3> QED BY <1>1, <3>1
  <2> QED BY <1>3, <1>4, <1>5, <1>6, <1>7, <2>1, <2>2, <2>3, <2>4, <2>5, <2>6, <2>7, <2>8
          DEF ImportActs, ImportStep
<1>8. CASE ~ImportActs
  <2>1. importer' = importer
    BY <1>8 DEF Next, OperatorActs, vars, importVars
  <2> QED BY <1>8, <2>1, OthersStep, OthersKeepRead
<1> QED BY <1>7, <1>8

ImportInv == RegistryInv /\ FetchInv /\ WorkInv /\ ReadKeepInv

LEMMA ImportInvariant == Spec => []ImportInv
<1>1. Init => ImportInv
  BY RegistryInvInit, FetchInvInit, WorkInvInit, ReadKeepInit DEF ImportInv
<1>2. ImportInv /\ [Next]_vars => ImportInv'
  BY RegistryInvStep, FetchInvStep, WorkInvStep, ReadKeepStep DEF ImportInv, RegistryInv
<1> QED BY <1>1, <1>2, PTL DEF Spec

\* An import leaves an overridden row alone, switches no device on or off but
\* those it has no manifest code for, and keeps their failures, unless the
\* table was written in between: for every catalogue, table, page and chunk.
THEOREM ChoicesAreKept == Spec => ImportKeepsChoices
<1> DEFINE A == importer.at = "writing" /\ importer' # importer =>
                  \A d \in Device : device[d].stored /\ Undisturbed(d) =>
                    /\ d \in Overridden => device'[d] = device[d]
                    /\ device'[d].enabled # device[d].enabled => ~device'[d].manifest
                    /\ device'[d].failures = device[d].failures
<1>1. ImportInv /\ [Next]_vars => [A]_<<device, importer>>
  <2> SUFFICES ASSUME ImportInv, [Next]_vars, importer.at = "writing", importer' # importer,
                      NEW d \in Device, device[d].stored, Undisturbed(d)
               PROVE  /\ d \in Overridden => device'[d] = device[d]
                      /\ device'[d].enabled # device[d].enabled => ~device'[d].manifest
                      /\ device'[d].failures = device[d].failures
    OBVIOUS
  <2>1. RegistryTypeOK /\ ImporterInv /\ WorkInv /\ KeepInv
    BY DEF ImportInv, RegistryInv, ReadKeepInv
  <2>2. CASE device'[d] = device[d]
    BY <2>2
  <2>3. CASE WriteChunk
    <3>1. CASE device'[d] # device[d]
      <4>1. PICK i \in DOMAIN importer.work : /\ importer.work[i].model = d
                                              /\ device'[d] = Merged(importer.work[i])
        BY <2>1, <2>3, <3>1, ChunkWrites
      <4>2. Kind # "edl"
        BY <2>3 DEF WriteChunk
      <4>3. /\ ~(importer.saw[d].read /\ d \in Overridden)
            /\ Current(d)
        BY <2>1, <4>1, <4>2 DEF KeepInv
      <4>4. importer.saw[d].read /\ importer.saw[d].enabled = device[d].enabled
            /\ importer.saw[d].failures = device[d].failures
        BY <4>3 DEF Current
      <4>5. device[d] \in DeviceRow
        BY <2>1 DEF RegistryTypeOK
      <4>6. HasManifest(importer.work[i]) \in BOOLEAN
        BY DEF HasManifest
      <4>7. /\ device'[d].failures = device[d].failures
            /\ device'[d].enabled = (device[d].enabled /\ HasManifest(importer.work[i]))
            /\ device'[d].manifest = HasManifest(importer.work[i])
        BY <4>1, <4>4 DEF Merged
      <4> QED BY <4>3, <4>4, <4>5, <4>6, <4>7 DEF DeviceRow
    <3> QED BY <2>2, <3>1
  <2>4. CASE ~WriteChunk
    <3>1. ImportActs
      BY DEF Next, OperatorActs, vars, importVars
    <3>2. WriteRoms \/ StatementFails \/ ImporterDies
      <4>1. ~\E x : WriteTrack(x) \/ OthersStore(x) \/ ScanWritesTrack(x)
        BY DEF WriteTrack, OthersStore, ScanWritesTrack
      <4> QED BY <2>4, <3>1, <4>1
              DEF ImportActs, ImportStep, FetchDomestic, FetchRaised, StartImport, EnsureDevice,
                  StoreRelease, ArchiveDone, CompleteImport, FailImport, Begin
    <3> QED BY <2>2, <3>2 DEF WriteRoms, StatementFails, ImporterDies, registryVars
  <2> QED BY <2>3, <2>4
<1> QED BY <1>1, ImportInvariant, PTL DEF Spec, ImportKeepsChoices

---------------------------------------------------------------------------
(* What an import has stored when it completes.  What it offers is what is *)
(* left to write or done; of the archive first the devices, then the       *)
(* releases, then the tracks.                                              *)

\* A row that is stored as the catalogue has it, or overridden.
Done(c) ==
  device[c.model].stored /\ (c.model \in Overridden \/ device[c.model].manifest = HasManifest(c))

ListsInv ==
  /\ importer.at = "reading" => importer.work = Candidates(Kind)
  /\ importer.at \in {"reading", "writing", "completing"} /\ Kind = "domestic" => Fetched
  /\ importer.at \in {"writing", "completing"} =>
       /\ Kind = "edl" => Elements(EdlRows) \subseteq roms \cup Elements(importer.work)
       /\ Kind \in {"oxygen", "domestic"} =>
            /\ Elements(importer.work) \subseteq Elements(Candidates(Kind))
            /\ \A c \in Elements(Candidates(Kind)) : c \in Elements(importer.work) \/ Done(c)
  /\ importer.at = "completing" /\ Kind # "archive" => importer.work = <<>>

\* Others change neither which rows are stored nor their manifest codes.
LEMMA ListsKept ==
  ASSUME WorkInv, FetchInv, ListsInv, UNCHANGED <<importer, roms, fetch>>,
         \A d \in Device : /\ device'[d].stored = device[d].stored
                           /\ device'[d].manifest = device[d].manifest
  PROVE  ListsInv'
<1>1. /\ Kind' = Kind /\ Candidates(Kind)' = Candidates(Kind) /\ Fetched' = Fetched
      /\ importer' = importer /\ roms' = roms /\ EdlRows' = EdlRows
  BY DEF Kind, Candidates, Fetched, EdlRows
<1>2. ASSUME importer.at \in {"writing", "completing"}, Kind \in {"oxygen", "domestic"},
             NEW c \in Elements(Candidates(Kind)), Done(c)
      PROVE  Done(c)'
  <2>1. c \in Rows
    <3>1. Candidates(Kind) \in Seq(Rows)
      BY <1>2, CandidatesTyped DEF ListsInv, Kinds
    <3> QED BY <3>1, ElementsOf
  <2>2. c.model \in Device
    BY <2>1 DEF Rows, OxygenRow, CandidateRow, ReleaseRow, RomRow
  <2> QED BY <1>2, <2>2 DEF Done
<1>3. ASSUME importer.at \in {"writing", "completing"}, Kind \in {"oxygen", "domestic"}
      PROVE  /\ Elements(importer.work)' \subseteq Elements(Candidates(Kind))'
             /\ \A c \in Elements(Candidates(Kind))' : c \in Elements(importer.work)' \/ Done(c)'
  <2>1. /\ Elements(importer.work)' = Elements(importer.work)
        /\ Elements(Candidates(Kind))' = Elements(Candidates(Kind))
    BY <1>1 DEF Elements
  <2>2. /\ Elements(importer.work) \subseteq Elements(Candidates(Kind))
        /\ \A c \in Elements(Candidates(Kind)) : c \in Elements(importer.work) \/ Done(c)
    BY <1>3 DEF ListsInv
  <2> QED BY <1>2, <1>3, <2>1, <2>2
<1> QED BY <1>1, <1>3 DEF ListsInv, Elements

LEMMA ListsStart ==
  ASSUME ImporterInv, WorkInv, StartImport
  PROVE  ListsInv'
<1>1. importer' = [importer EXCEPT
          !.at = CASE Kind = "archive" -> "ensuring"
                   [] Kind = "edl"     -> "writing"
                   [] OTHER            -> "reading",
          !.work = Candidates(Kind), !.read = 0, !.saw = AtRest.saw,
          !.highest = AtRest.highest]
      /\ fetch' = fetch /\ (Kind = "domestic" => Fetched)
  BY DEF StartImport
<1>2. /\ importer'.at = "writing" => Kind = "edl"
      /\ importer'.at # "completing"
      /\ importer'.work = Candidates(Kind) /\ Kind' = Kind
  BY <1>1 DEF ImporterInv, Kind
<1>3. Candidates(Kind)' = Candidates(Kind) /\ Fetched' = Fetched /\ EdlRows' = EdlRows
  BY <1>1, <1>2 DEF Candidates, Fetched, EdlRows
<1>4. Kind = "edl" => Candidates(Kind) = EdlRows
  BY DEF Candidates, EdlRows
<1> QED BY <1>1, <1>2, <1>3, <1>4 DEF ListsInv, Elements

\* What the last page leaves out is overridden, and stored since it was read.
LEMMA ListsRead ==
  ASSUME ImporterInv, WorkInv, FetchInv, ReadInv, ListsInv, importer.at = "reading",
         NEW S \in Pages, ReadPage(S)
  PROVE  ListsInv'
<1> DEFINE saw2 == [d \in Device |->
              IF d \in S THEN [read |-> TRUE, enabled |-> device[d].enabled,
                               failures |-> device[d].failures]
                         ELSE importer.saw[d]]
           last == Cardinality(S) < ImportPage
           left == IF last THEN Overwritable(saw2) ELSE importer.work
<1>1. /\ importer' = [importer EXCEPT
             !.at = IF ~last THEN "reading" ELSE IF left = <<>> THEN "completing" ELSE "writing",
             !.work = left, !.read = @ + Cardinality(S), !.saw = saw2]
      /\ UNCHANGED <<device, fetch>>
  BY DEF ReadPage
<1>2. /\ importer'.work = left /\ Kind' = Kind
      /\ importer'.at = IF ~last THEN "reading" ELSE IF left = <<>> THEN "completing" ELSE "writing"
  BY <1>1 DEF ImporterInv, Kind
<1>3. /\ Candidates(Kind)' = Candidates(Kind) /\ Fetched' = Fetched
      /\ Kind \in {"oxygen", "domestic"} /\ (Kind = "domestic" => Fetched)
      /\ importer.work = Candidates(Kind) /\ importer.work \in Seq(Rows)
  BY <1>1, <1>2 DEF Candidates, Fetched, ListsInv, WorkInv
<1>4. S \subseteq Stored /\ Stored \subseteq Device
  BY PageOfRows DEF Stored
<1>5. ASSUME NEW d \in Device, saw2[d].read PROVE device[d].stored
  <2>1. CASE d \in S
    BY <1>4, <2>1 DEF Stored
  <2>2. CASE d \notin S
    <3>1. saw2[d] = importer.saw[d]
      BY <2>2
    <3>2. d \in ReadSet
      BY <1>5, <3>1 DEF ReadSet
    <3> QED BY <3>2 DEF ReadInv
  <2> QED BY <2>1, <2>2
<1> HIDE DEF saw2
<1>6. CASE last
  <2> DEFINE o == Overwritable(saw2)
  <2>1. /\ o \in Seq(Rows)
        /\ \A i \in DOMAIN importer.work :
              LET c == importer.work[i]
              IN  (saw2[c.model].read /\ c.model \in Overridden) \/ \E j \in DOMAIN o : o[j] = c
        /\ \A j \in DOMAIN o : \E i \in DOMAIN importer.work : importer.work[i] = o[j]
    <3>1. /\ Overwritable(saw2) \in Seq(Rows)
          /\ \A i \in DOMAIN importer.work :
              LET c == importer.work[i]
              IN  \/ saw2[c.model].read /\ c.model \in Overridden
                  \/ \E j \in DOMAIN Overwritable(saw2) : Overwritable(saw2)[j] = c
          /\ \A j \in DOMAIN Overwritable(saw2) :
              LET c == Overwritable(saw2)[j]
              IN  /\ ~(saw2[c.model].read /\ c.model \in Overridden)
                  /\ \E i \in DOMAIN importer.work : importer.work[i] = c
      BY <1>3, OverwritableIsAll
    <3> QED BY <3>1
  <2> HIDE DEF o
  <2>2. importer'.work = o /\ importer'.at \in {"writing", "completing"}
        /\ (importer'.at = "completing" => o = <<>>)
    BY <1>2, <1>6 DEF o
  <2>3. Elements(o) \subseteq Elements(importer.work)
    BY <2>1 DEF Elements
  <2>4. ASSUME NEW c \in Elements(importer.work), c \notin Elements(o) PROVE Done(c)'
    <3>1. PICK i \in DOMAIN importer.work : importer.work[i] = c
      BY DEF Elements
    <3>2. ~\E j \in DOMAIN o : o[j] = c
      BY <2>4 DEF Elements
    <3>3. saw2[c.model].read /\ c.model \in Overridden
      BY <2>1, <3>1, <3>2
    <3>4. c.model \in Device
      BY <3>3, DeviceAssumption
    <3> QED BY <1>1, <1>5, <3>3, <3>4 DEF Done
  <2>5. /\ Elements(importer.work)' = Elements(o)
        /\ Elements(Candidates(Kind))' = Elements(importer.work)
    BY <1>3, <2>2 DEF Elements
  <2> QED BY <1>2, <1>3, <2>2, <2>3, <2>4, <2>5 DEF ListsInv
<1>7. CASE ~last
  <2>1. importer'.at = "reading" /\ importer'.work = importer.work
    BY <1>2, <1>7
  <2> QED BY <1>2, <1>3, <2>1 DEF ListsInv
<1> QED BY <1>6, <1>7

LEMMA MergedIsDone ==
  ASSUME NEW c, c.model \in Device, device'[c.model] = Merged(c)
  PROVE  Done(c)'
<1>1. device'[c.model].stored /\ device'[c.model].manifest = HasManifest(c)
  BY DEF Merged
<1> QED BY <1>1 DEF Done

\* What a chunk takes is written, and no later row of it is about another code.
LEMMA ListsWrite ==
  ASSUME RegistryTypeOK, ImporterInv, WorkInv, FetchInv, ListsInv, WriteChunk
  PROVE  ListsInv'
<1> DEFINE all == Candidates(Kind)
           w == importer.work
<1>1. importer.at = "writing" /\ Kind # "edl" /\ fetch' = fetch /\ Kind \in {"oxygen", "domestic"}
  <2>1. importer.at = "writing" /\ Kind # "edl" /\ Kind # "archive" /\ fetch' = fetch
        /\ importer.queue \in Seq(Kinds) /\ importer.queue # <<>>
    BY DEF WriteChunk, WorkInv
  <2>2. Kind \in Kinds
    BY <2>1 DEF Kind
  <2> QED BY <2>1, <2>2 DEF Kinds
<1>2. importer' = [importer EXCEPT !.work = Rest,
                                   !.at = IF Rest = <<>> THEN "completing" ELSE "writing"]
  BY ChunkWrites
<1>3. /\ importer'.work = Rest /\ Kind' = Kind
      /\ importer'.at = IF Rest = <<>> THEN "completing" ELSE "writing"
  BY <1>2 DEF ImporterInv, Kind
<1>4. /\ all' = all /\ Fetched' = Fetched
      /\ (Kind = "domestic" => Fetched)
  BY <1>1, <1>3 DEF Candidates, Fetched, ListsInv
<1>5. all \in Seq(Rows) /\ Distinct(Kind, all)
  BY <1>1, <1>4, CandidatesTyped DEF Kinds
<1>6. \A c \in Elements(all) : c.model \in Device
  <2>1. Elements(all) \subseteq Rows
    BY <1>5, ElementsOf
  <2> QED BY <2>1 DEF Rows, OxygenRow, CandidateRow, ReleaseRow, RomRow
<1>7. /\ Elements(w) \subseteq Elements(all)
      /\ \A c \in Elements(all) : c \in Elements(w) \/ Done(c)
  BY <1>1 DEF ListsInv
<1> HIDE DEF all
<1>8. \A a, b \in Elements(all) : a.model = b.model => a = b
  BY <1>1, <1>5 DEF Distinct, Elements
<1>9. Elements(Rest) \subseteq Elements(w)
  BY ChunkWrites DEF Elements
<1>10. ASSUME NEW c \in Elements(all), c \notin Elements(Rest) PROVE Done(c)'
  <2>1. CASE c \in Elements(w)
    <3>1. PICK i \in DOMAIN w : w[i] = c
      BY <2>1 DEF Elements
    <3>2. ~\E j \in DOMAIN Rest : Rest[j] = c
      BY <1>10 DEF Elements
    <3>3. device'[c.model] = Merged(c)
      BY <3>1, <3>2, ChunkWrites
    <3> QED BY <1>6, <3>3, MergedIsDone
  <2>2. CASE c \notin Elements(w)
    <3>1. c.model \in Device /\ Done(c)
      BY <1>6, <1>7, <2>2
    <3>2. CASE device'[c.model] = device[c.model]
      BY <3>1, <3>2 DEF Done
    <3>3. CASE \E i \in DOMAIN w : w[i].model = c.model
      <4>1. PICK i \in DOMAIN w : w[i].model = c.model
        BY <3>3
      <4>2. w[i] \in Elements(w)
        BY DEF Elements
      <4> QED BY <1>7, <1>8, <2>2, <4>1, <4>2
    <3> QED BY <3>1, <3>2, <3>3, ChunkWrites
  <2> QED BY <2>1, <2>2
<1> QED BY <1>1, <1>3, <1>4, <1>7, <1>9, <1>10 DEF ListsInv, Elements, all

LEMMA ListsRoms ==
  ASSUME ImporterInv, WorkInv, ListsInv, WriteRoms
  PROVE  ListsInv'
<1> DEFINE w == importer.work
           m == IF ChunkSize < Len(w) THEN ChunkSize ELSE Len(w)
<1>1. importer.at = "writing" /\ Kind = "edl" /\ AfterChunk /\ ~Repeats
      /\ roms' = IF Repeats THEN roms ELSE roms \cup {Chunk[i] : i \in DOMAIN Chunk}
  BY NoRepeats DEF WriteRoms
<1>2. /\ importer'.work = Rest /\ Kind' = Kind
      /\ importer'.at = IF Rest = <<>> THEN "completing" ELSE "writing"
      /\ roms' = roms \cup {Chunk[i] : i \in DOMAIN Chunk}
  BY <1>1 DEF AfterChunk, ImporterInv, Kind
<1>3. w \in Seq(Rows) /\ Len(w) \in Nat /\ ChunkSize \in Nat
  BY ImportAssumption DEF WorkInv
<1>4. /\ m \in Nat /\ m <= Len(w)
      /\ DOMAIN Chunk = 1..m /\ DOMAIN w = 1..Len(w)
      /\ \A i \in 1..m : i \in DOMAIN w /\ Chunk[i] = w[i]
      /\ DOMAIN Rest = 1..(Len(w) - m)
      /\ \A i \in DOMAIN Rest : m + i \in DOMAIN w /\ Rest[i] = w[m + i]
  <2>1. m \in Nat /\ m <= Len(w)
    BY <1>3
  <2>2. w \in Seq(Rows) /\ DOMAIN w = 1..Len(w)
    BY <1>3
  <2>3. /\ DOMAIN Chunk = 1..m
        /\ \A i \in 1..m : i \in DOMAIN w /\ Chunk[i] = w[i]
        /\ DOMAIN Rest = 1..(Len(w) - m)
        /\ \A i \in DOMAIN Rest : m + i \in DOMAIN w /\ Rest[i] = w[m + i]
    BY <2>2, ChunkOfWork
  <2> QED BY <2>1, <2>2, <2>3
<1> HIDE DEF m
<1>5. ASSUME NEW i \in DOMAIN w PROVE w[i] \in roms' \cup Elements(Rest)
  <2>1. CASE i \in 1..m
    <3>1. i \in DOMAIN Chunk /\ Chunk[i] = w[i]
      BY <1>4, <2>1
    <3> QED BY <1>2, <3>1
  <2>2. CASE i \notin 1..m
    <3>1. i - m \in DOMAIN Rest /\ m + (i - m) = i
      BY <1>4, <2>2
    <3>2. Rest[i - m] = w[i]
      BY <1>4, <3>1
    <3> QED BY <3>1, <3>2 DEF Elements
  <2> QED BY <2>1, <2>2
<1>6. Elements(EdlRows) \subseteq roms \cup Elements(w)
  BY <1>1 DEF ListsInv
<1>7. Elements(EdlRows) \subseteq roms' \cup Elements(Rest)
  <2>1. Elements(w) \subseteq roms' \cup Elements(Rest)
    BY <1>5 DEF Elements
  <2> QED BY <1>2, <1>6, <2>1
<1>8. EdlRows' = EdlRows
  BY DEF EdlRows
<1> QED BY <1>1, <1>2, <1>7, <1>8 DEF ListsInv, Elements

LEMMA ListsInvInit == Init => ListsInv
BY DEF Init, ImportInit, AtRest, ListsInv

LEMMA ListsInvStep ==
  ImportInv /\ ListsInv /\ [Next]_vars => ListsInv'
<1> SUFFICES ASSUME ImportInv, ListsInv, [Next]_vars
             PROVE  ListsInv'
  OBVIOUS
<1>0. RegistryTypeOK /\ ImporterInv /\ FetchInv /\ WorkInv /\ ReadInv
  BY DEF ImportInv, RegistryInv, ReadKeepInv
<1>1. CASE importer'.at \notin {"reading", "writing", "completing"}
  BY <1>1 DEF ListsInv
<1>2. CASE ImportActs
  <2>1. CASE FetchDomestic
    <3>1. importer'.at = "ready"
      BY <2>1 DEF FetchDomestic
    <3> QED BY <1>1, <3>1
  <2>2. ASSUME NEW f \in Findable, OthersStore(f) \/ ScanWritesTrack(f) PROVE ListsInv'
    BY <1>0, <2>2, FindersStep, ListsKept DEF OthersKeep
  <2>3. CASE FetchRaised \/ StatementFails
    <3>1. importer'.at \in {"off", "failing"}
      BY <1>0, <2>3 DEF FetchRaised, StatementFails, Now, ImporterInv
    <3> QED BY <1>1, <3>1
  <2>4. CASE ArchiveDone
    <3>1. Kind = "archive"
      BY <1>0, <2>4 DEF ArchiveDone, WorkInv
    <3>2. importer'.at = "completing" /\ Kind' = "archive"
      BY <1>0, <2>4, <3>1 DEF ArchiveDone, Now, ImporterInv, Kind
    <3> QED BY <3>2 DEF ListsInv
  <2>5. CASE StartImport
    BY <1>0, <2>5, ListsStart
  <2>6. ASSUME importer.at = "reading", NEW S \in Pages, ReadPage(S) PROVE ListsInv'
    BY <1>0, <2>6, ListsRead
  <2>7. CASE WriteChunk
    BY <1>0, <2>7, ListsWrite
  <2>8. CASE WriteRoms
    BY <1>0, <2>8, ListsRoms
  <2>9. CASE EnsureDevice
    <3>1. importer'.at \in {"ensuring", "storing"}
      BY <1>0, <2>9 DEF EnsureDevice, NextRow, ImporterInv
    <3> QED BY <1>1, <3>1
  <2>10. CASE StoreRelease
    <3>1. PICK high : importer' = [NextRow("storing", "tracking") EXCEPT !.highest = high]
      BY <2>10 DEF StoreRelease
    <3>2. importer'.at \in {"storing", "tracking"}
      BY <1>0, <3>1 DEF NextRow, ImporterInv
    <3> QED BY <1>1, <3>2
  <2>11. ASSUME NEW d, WriteTrack(d) PROVE ListsInv'
    <3>1. importer'.at = "tracking"
      BY <1>0, <2>11 DEF WriteTrack, ImporterInv
    <3> QED BY <1>1, <3>1
  <2>12. CASE CompleteImport \/ FailImport \/ ImporterDies
    <3>1. importer'.at \in {"off", "ready", "dead"}
      BY <2>12 DEF CompleteImport, FailImport, ImporterDies, AtRest
    <3> QED BY <1>1, <3>1
  <2>13. ASSUME NEW command, Begin(command) PROVE ListsInv'
    <3>1. importer'.at = "ready"
      BY <2>13 DEF Begin, AtRest
    <3> QED BY <1>1, <3>1
  <2> QED BY <1>2, <2>1, <2>2, <2>3, <2>4, <2>5, <2>6, <2>7, <2>8, <2>9, <2>10, <2>11, <2>12,
             <2>13 DEF ImportActs, ImportStep
<1>3. CASE ~ImportActs
  <2>1. UNCHANGED <<importer, roms, fetch>>
    BY <1>3 DEF Next, OperatorActs, vars, importVars
  <2> QED BY <1>0, <1>3, <2>1, OthersStep, ListsKept DEF OthersKeep
<1> QED BY <1>2, <1>3

---------------------------------------------------------------------------
(* The archive: every release is left to store or on its way to a device   *)
(* that fits, whose track is that of the highest release found for it,     *)
(* once it is written.                                                     *)

\* The releases that parse_lsctool_archive keeps.
Usables == Elements(UsableReleases)

\* The track of a release on its way to its device: found, or written.
Written(d, t) == d \in Overridden \cup disturbed \/ track[d] >= t

Tracked(d, t) ==
  \/ importer.at \in {"storing", "tracking"} /\ importer.highest[d] >= t
  \/ importer.at = "tracking" /\ (d \in Overridden \/ importer.highest[d] < 0) /\ Written(d, t)
  \/ importer.at = "completing" /\ Written(d, t)

Landed(r) ==
  \E d \in Stored : /\ Base[d] = Base[r.model]
                    /\ releases[<<d, r.build>>] # NotStored
                    /\ Tracked(d, releases[<<d, r.build>>])

ArchiveInv ==
  /\ track \in [Device -> Tracks]
  /\ releases \in [Device \X Build -> -1..3]
  /\ importer.highest \in [Device -> -1..3]
  /\ importer.at \in {"ensuring", "storing"} => Elements(importer.work) \subseteq Usables
  /\ importer.at = "ensuring" =>
       /\ importer.work = <<>> => Usables = {}
       /\ \A r \in Usables : r \in Elements(importer.work) \/ device[r.model].stored
  /\ importer.at \in {"storing", "tracking"} =>
       \A r \in Usables :
         /\ device[r.model].stored
         /\ \/ importer.at = "storing" /\ r \in Elements(importer.work)
            \/ Landed(r)
  /\ importer.at = "completing" /\ Kind = "archive" => \A r \in Usables : Landed(r)

LEMMA UsablesTyped ==
  /\ UsableReleases \in Seq(ReleaseRow)
  /\ \A r \in Usables : r.model \in Device /\ r.build \in Build /\ r.track \in Tracks
  /\ UsableReleases = <<>> <=> Usables = {}
  /\ Usables' = Usables
<1>1. UsableReleases \in Seq(ReleaseRow)
  BY UsableReleasesAreAll
<1>2. Usables \subseteq ReleaseRow
  BY <1>1, ElementsOf DEF Usables
<1>3. DOMAIN UsableReleases = 1..Len(UsableReleases) /\ Len(UsableReleases) \in Nat
      /\ (UsableReleases = <<>> <=> Len(UsableReleases) = 0)
  BY <1>1
<1>4. UsableReleases = <<>> <=> Usables = {}
  <2>1. CASE Len(UsableReleases) = 0
    BY <1>3, <2>1, NoElements DEF Usables
  <2>2. CASE Len(UsableReleases) # 0
    <3>1. 1 \in DOMAIN UsableReleases
      BY <1>3, <2>2
    <3> QED BY <1>3, <2>2, <3>1 DEF Usables, Elements
  <2> QED BY <2>1, <2>2
<1>5. Usables' = Usables
  BY DEF Usables, Elements, UsableReleases
<1> QED BY <1>1, <1>2, <1>4, <1>5 DEF ReleaseRow, Tracks

\* What holds of a row that is stored, the upserts of others leave as it is.
StoredKeep ==
  /\ releases' \in [Device \X Build -> -1..3]
  /\ \A key \in Device \X Build : releases[key] # NotStored => releases'[key] = releases[key]

LEMMA UpsertKeeps ==
  ASSUME releases \in [Device \X Build -> -1..3], NEW d \in Device, NEW b \in Build,
         NEW t \in Tracks, releases' = [releases EXCEPT ![<<d, b>>] = Upserted(<<d, b>>, t)]
  PROVE  /\ StoredKeep
         /\ releases'[<<d, b>>] = Upserted(<<d, b>>, t)
         /\ Upserted(<<d, b>>, t) \in Tracks
<1>1. <<d, b>> \in Device \X Build
  OBVIOUS
<1>2. PICK key : key = <<d, b>>
  OBVIOUS
<1>3. /\ key \in Device \X Build
      /\ releases' = [releases EXCEPT ![key] = Upserted(key, t)]
  BY <1>1, <1>2
<1>4. releases[key] \in -1..3
  BY <1>3
<1>5. Upserted(key, t) \in Tracks /\ (releases[key] # NotStored => Upserted(key, t) = releases[key])
  BY <1>4 DEF Upserted, NotStored, Tracks
<1>6. StoredKeep /\ releases'[key] = Upserted(key, t)
  BY <1>3, <1>5 DEF StoredKeep, Tracks
<1> QED BY <1>2, <1>5, <1>6

\* Others touch neither the rows' presence nor what the import found, nor the
\* track of a row that is stored; whose track they write, they disturb.
LEMMA ArchiveKept ==
  ASSUME ArchiveInv, UNCHANGED importer, StoredKeep,
         \A d \in Device : device'[d].stored = device[d].stored,
         track' \in [Device -> Tracks], disturbed \subseteq disturbed',
         \A d \in Device : d \in disturbed' \/ track'[d] = track[d]
  PROVE  ArchiveInv'
<1>1. Kind' = Kind /\ Stored' = Stored /\ Usables' = Usables
  BY UsablesTyped DEF Kind, Stored
<1>2. ASSUME NEW r \in Usables, Landed(r) PROVE Landed(r)'
  <2>1. PICK d \in Stored : /\ Base[d] = Base[r.model]
                            /\ releases[<<d, r.build>>] # NotStored
                            /\ Tracked(d, releases[<<d, r.build>>])
    BY <1>2 DEF Landed
  <2>2. <<d, r.build>> \in Device \X Build /\ d \in Device
    BY UsablesTyped DEF Stored
  <2>3. PICK t : t = releases[<<d, r.build>>]
    OBVIOUS
  <2>4. releases'[<<d, r.build>>] = t
    BY <2>1, <2>2, <2>3 DEF StoredKeep
  <2>5. Written(d, t) => Written(d, t)'
    BY <2>2 DEF Written
  <2>6. Tracked(d, t)'
    BY <2>1, <2>3, <2>5 DEF Tracked
  <2> QED BY <1>1, <2>1, <2>3, <2>4, <2>6 DEF Landed
<1>3. \A r \in Usables : r.model \in Device
  BY UsablesTyped
<1> QED BY <1>1, <1>2, <1>3 DEF ArchiveInv, Elements, StoredKeep

\* What an import forgets between two of its phases.
LEMMA HighestForgotten ==
  ASSUME ArchiveInv, UNCHANGED <<track, releases>>, importer'.highest = AtRest.highest,
         importer'.at \notin {"ensuring", "storing", "tracking", "completing"}
  PROVE  ArchiveInv'
<1>1. importer'.highest \in [Device -> -1..3]
  BY DEF AtRest
<1> QED BY <1>1 DEF ArchiveInv

LEMMA HighestUntouched ==
  ASSUME ArchiveInv, UNCHANGED <<track, releases>>, importer'.highest = importer.highest,
         importer'.at \notin {"ensuring", "storing", "tracking"},
         importer'.at = "completing" => Kind' # "archive"
  PROVE  ArchiveInv'
BY DEF ArchiveInv

LEMMA ArchiveStarts ==
  ASSUME ImporterInv, WorkInv, ArchiveInv, StartImport
  PROVE  ArchiveInv'
<1>1. importer' = [importer EXCEPT
          !.at = CASE Kind = "archive" -> "ensuring"
                   [] Kind = "edl"     -> "writing"
                   [] OTHER            -> "reading",
          !.work = Candidates(Kind), !.read = 0, !.saw = AtRest.saw,
          !.highest = AtRest.highest]
      /\ UNCHANGED <<track, releases>>
  BY DEF StartImport
<1>2. /\ importer'.at = "ensuring" => Kind = "archive"
      /\ importer'.at \in {"ensuring", "writing", "reading"}
      /\ importer'.work = Candidates(Kind) /\ Kind' = Kind
      /\ importer'.highest = AtRest.highest
  BY <1>1 DEF ImporterInv, Kind
<1>3. Kind = "archive" => Candidates(Kind) = UsableReleases
  BY DEF Candidates
<1>4. importer'.highest \in [Device -> -1..3]
  BY <1>2 DEF AtRest
<1>5. importer'.at = "ensuring" => Elements(importer'.work) = Usables'
  BY <1>2, <1>3, UsablesTyped DEF Usables
<1>6. importer'.at = "ensuring" /\ importer'.work = <<>> => Usables' = {}
  BY <1>2, <1>3, UsablesTyped
<1> QED BY <1>1, <1>2, <1>4, <1>5, <1>6 DEF ArchiveInv, Elements

\* The row that was walked is the first; the rows behind it are left.
LEMMA WalkedRow ==
  ASSUME ArchiveInv, WorkInv, importer.at \in {"ensuring", "storing"}, importer.work # <<>>
  PROVE  /\ Head(importer.work) \in Usables
         /\ \A r : r \in Elements(importer.work) <=>
              r = Head(importer.work) \/ r \in Elements(Tail(importer.work))
         /\ Len(importer.work) = 1 => Elements(Tail(importer.work)) = {}
         /\ Len(importer.work) # 1 => Tail(importer.work) # <<>>
<1> DEFINE w == importer.work
<1>1. w \in Seq(Rows) /\ w # <<>> /\ Elements(w) \subseteq Usables
  BY DEF WorkInv, ArchiveInv
<1> HIDE DEF w
<1>2. /\ Tail(w) \in Seq(Rows)
      /\ Tail(w) = <<>> <=> Len(w) = 1
      /\ Head(w) = w[1] /\ 1 \in DOMAIN w
      /\ DOMAIN Tail(w) = 1..(Len(w) - 1)
      /\ \A i \in DOMAIN Tail(w) : i + 1 \in DOMAIN w /\ Tail(w)[i] = w[i + 1]
  BY <1>1, TailOf
<1>3. DOMAIN w = 1..Len(w) /\ Len(w) \in Nat
  BY <1>1
<1>4. Head(w) \in Elements(w)
  BY <1>2 DEF Elements
<1>5. ASSUME NEW r \in Elements(w), r # Head(w) PROVE r \in Elements(Tail(w))
  <2>1. PICK i \in DOMAIN w : w[i] = r
    BY <1>5 DEF Elements
  <2>2. i # 1
    BY <1>2, <1>5, <2>1
  <2>3. i - 1 \in DOMAIN Tail(w) /\ (i - 1) + 1 = i
    BY <1>2, <1>3, <2>2
  <2>4. Tail(w)[i - 1] = w[i]
    BY <1>2, <2>3
  <2> QED BY <2>1, <2>3, <2>4 DEF Elements
<1>6. Elements(Tail(w)) \subseteq Elements(w)
  BY <1>2 DEF Elements
<1>7. Len(w) = 1 => Elements(Tail(w)) = {}
  BY <1>2, NoElements
<1> QED BY <1>1, <1>2, <1>4, <1>5, <1>6, <1>7 DEF w

\* The device of the row is stored, and remains so when the releases are walked.
LEMMA ArchiveEnsures ==
  ASSUME RegistryTypeOK, ImporterInv, WorkInv, ArchiveInv, EnsureDevice
  PROVE  ArchiveInv'
<1> DEFINE w == importer.work
           r0 == Head(w)
           last == Len(w) = 1
<1>1. /\ importer.at = "ensuring" /\ w # <<>>
      /\ device' = [device EXCEPT ![r0.model] = IF @.stored THEN @ ELSE StoredRow(TRUE, FALSE)]
      /\ importer' = [importer EXCEPT
           !.at = IF last THEN "storing" ELSE "ensuring",
           !.work = IF last THEN UsableReleases ELSE Tail(w)]
      /\ UNCHANGED <<track, releases>>
  BY DEF EnsureDevice, NextRow
<1>2. /\ importer'.at = IF last THEN "storing" ELSE "ensuring"
      /\ importer'.work = IF last THEN UsableReleases ELSE Tail(w)
      /\ importer'.highest = importer.highest
  BY <1>1 DEF ImporterInv
<1>3. /\ r0 \in Usables
      /\ \A r : r \in Elements(w) <=> r = r0 \/ r \in Elements(Tail(w))
      /\ last => Elements(Tail(w)) = {}
      /\ ~last => Tail(w) # <<>>
  BY <1>1, WalkedRow
<1>4. \A r \in Usables : r.model \in Device
  BY UsablesTyped
<1>5. device \in [Device -> DeviceRow]
  BY DEF RegistryTypeOK
<1>6. device'[r0.model].stored
  BY <1>1, <1>3, <1>4, <1>5 DEF StoredRow
<1>7. ASSUME NEW d \in Device, device[d].stored PROVE device'[d].stored
  BY <1>1, <1>5, <1>7
<1>8. \A r \in Usables : r \in Elements(Tail(w)) \/ device'[r.model].stored
  BY <1>1, <1>3, <1>4, <1>6, <1>7 DEF ArchiveInv
<1>9. Elements(Tail(w)) \subseteq Usables
  BY <1>1, <1>3 DEF ArchiveInv
<1>10. CASE last
  <2>1. importer'.at = "storing" /\ importer'.work = UsableReleases
    BY <1>2, <1>10
  <2>2. Elements(importer.work)' = Usables /\ Usables' = Usables
    BY <2>1, UsablesTyped DEF Usables, Elements
  <2>3. \A r \in Usables : device'[r.model].stored
    BY <1>3, <1>8, <1>10
  <2> QED BY <1>1, <1>2, <2>1, <2>2, <2>3 DEF ArchiveInv
<1>11. CASE ~last
  <2>1. importer'.at = "ensuring" /\ importer'.work = Tail(w) /\ Tail(w) # <<>>
        /\ Usables' = Usables
    BY <1>2, <1>3, <1>11, UsablesTyped
  <2>2. Elements(importer.work)' = Elements(Tail(w))
    BY <2>1 DEF Elements
  <2> QED BY <1>1, <1>2, <1>8, <1>9, <2>1, <2>2 DEF ArchiveInv
<1> QED BY <1>10, <1>11

\* A release is stored under its model or a stored device of the same base.
LEMMA RouteFits ==
  ASSUME NEW m \in Device, NEW alike \in SUBSET Stored, device[m].stored
  PROVE  Route(m, alike) \in Stored /\ Base[Route(m, alike)] = Base[m]
<1> DEFINE fits == {d \in alike : Base[d] = Base[m]}
<1>1. CASE m \notin fits /\ Cardinality(fits) = 1
  <2>1. fits # {}
    <3>1. Cardinality({}) = 0
      BY FS_EmptySet
    <3> QED BY <1>1, <3>1
  <2>2. Route(m, alike) = CHOOSE d \in fits : TRUE
    BY <1>1 DEF Route
  <2>3. Route(m, alike) \in fits
    BY <2>1, <2>2
  <2> QED BY <2>3
<1>2. CASE ~(m \notin fits /\ Cardinality(fits) = 1)
  <2>1. Route(m, alike) = m
    BY <1>2 DEF Route
  <2> QED BY <2>1 DEF Stored
<1> QED BY <1>1, <1>2

\* The release lands at a device of the same base, which keeps the highest track.
LEMMA ArchiveStores ==
  ASSUME ImporterInv, WorkInv, ArchiveInv, StoreRelease
  PROVE  ArchiveInv'
<1> DEFINE w == importer.work
           last == Len(w) = 1
<1>1. PICK r0 : r0 = Head(w)
  OBVIOUS
<1>2. PICK alike \in SUBSET {d \in Stored : device[d].manifest} :
         LET m == Route(r0.model, alike)
             t == Upserted(<<m, r0.build>>, r0.track)
         IN  /\ importer.at = "storing"
             /\ releases' = [releases EXCEPT ![<<m, r0.build>>] = t]
             /\ importer' = [NextRow("storing", "tracking") EXCEPT
                               !.highest[m] = IF t > @ THEN t ELSE @]
             /\ UNCHANGED <<device, disturbed, track>>
  BY <1>1 DEF StoreRelease, registryVars
<1>3. PICK m : m = Route(r0.model, alike)
  OBVIOUS
<1>20. PICK t : t = Upserted(<<m, r0.build>>, r0.track)
  OBVIOUS
<1> DEFINE h == [importer.highest EXCEPT ![m] = IF t > @ THEN t ELSE @]
<1>4. /\ importer'.at = IF last THEN "tracking" ELSE "storing"
      /\ importer'.work = Tail(w)
      /\ importer'.highest = h
  BY <1>2, <1>3, <1>20 DEF ImporterInv, NextRow
<1>5. w # <<>>
  BY <1>2 DEF WorkInv
<1>6. /\ r0 \in Usables
      /\ \A r : r \in Elements(w) <=> r = r0 \/ r \in Elements(Tail(w))
      /\ last => Elements(Tail(w)) = {}
  BY <1>1, <1>2, <1>5, WalkedRow
<1>7. \A r \in Usables : r.model \in Device /\ r.build \in Build /\ r.track \in Tracks
  BY UsablesTyped
<1>8. importer.highest \in [Device -> -1..3] /\ releases \in [Device \X Build -> -1..3]
  BY DEF ArchiveInv
<1>9. m \in Stored /\ Base[m] = Base[r0.model] /\ m \in Device
  <2>1. r0.model \in Device /\ device[r0.model].stored
    BY <1>2, <1>6, <1>7 DEF ArchiveInv
  <2>2. alike \in SUBSET Stored
    OBVIOUS
  <2>3. m \in Stored /\ Base[m] = Base[r0.model]
    BY <1>3, <2>1, <2>2, RouteFits
  <2> QED BY <2>3 DEF Stored
<1>10. StoredKeep /\ releases'[<<m, r0.build>>] = t /\ t \in 0..3
  <2>1. PICK b : b = r0.build
    OBVIOUS
  <2>2. PICK u : u = r0.track
    OBVIOUS
  <2>3. releases' = [releases EXCEPT ![<<m, b>>] = Upserted(<<m, b>>, u)]
    BY <1>2, <1>3, <2>1, <2>2
  <2>4. m \in Device /\ b \in Build /\ u \in Tracks
    BY <1>6, <1>7, <1>9, <2>1, <2>2
  <2>5. /\ StoredKeep
        /\ releases'[<<m, b>>] = Upserted(<<m, b>>, u)
        /\ Upserted(<<m, b>>, u) \in Tracks
    BY <1>8, <2>3, <2>4, UpsertKeeps
  <2>6. t = Upserted(<<m, b>>, u)
    BY <1>20, <2>1, <2>2
  <2> QED BY <2>1, <2>5, <2>6 DEF Tracks
<1>11. /\ h \in [Device -> -1..3] /\ h[m] >= t
      /\ \A d \in Device : h[d] >= importer.highest[d]
  BY <1>8, <1>9, <1>10
<1> HIDE DEF h
<1>12. ASSUME NEW d \in Device, NEW u, h[d] >= u PROVE Tracked(d, u)'
  BY <1>4, <1>12 DEF Tracked
<1>21. Stored' = Stored
  BY <1>2 DEF Stored
<1>13. Landed(r0)'
  <2>1. Tracked(m, t)'
    BY <1>9, <1>11, <1>12
  <2>2. t # NotStored
    BY <1>10 DEF NotStored
  <2> QED BY <1>9, <1>10, <1>21, <2>1, <2>2 DEF Landed
<1>14. ASSUME NEW r \in Usables, Landed(r) PROVE Landed(r)'
  <2>1. PICK d \in Stored : /\ Base[d] = Base[r.model]
                            /\ releases[<<d, r.build>>] # NotStored
                            /\ Tracked(d, releases[<<d, r.build>>])
    BY <1>14 DEF Landed
  <2>2. d \in Device /\ <<d, r.build>> \in Device \X Build
    BY <1>7 DEF Stored
  <2>3. PICK u : u = releases[<<d, r.build>>]
    OBVIOUS
  <2>4. releases'[<<d, r.build>>] = u /\ u \in -1..3
    BY <1>8, <1>10, <2>1, <2>2, <2>3 DEF StoredKeep
  <2>5. importer.highest[d] >= u
    BY <1>2, <2>1, <2>3 DEF Tracked
  <2>6. h[d] >= u
    BY <1>8, <1>11, <2>2, <2>4, <2>5
  <2>7. Tracked(d, u)'
    BY <1>12, <2>2, <2>6
  <2> QED BY <1>21, <2>1, <2>3, <2>4, <2>7 DEF Landed
<1>15. ASSUME NEW r \in Usables
       PROVE  device'[r.model].stored /\ (r \in Elements(Tail(w)) \/ Landed(r)')
  BY <1>2, <1>6, <1>13, <1>14 DEF ArchiveInv
<1>16. Elements(Tail(w)) \subseteq Usables
  BY <1>2, <1>6 DEF ArchiveInv
<1>17. Usables' = Usables
  BY UsablesTyped
<1>18. importer'.at \in {"storing", "tracking"}
       /\ (importer'.at = "tracking" => Elements(Tail(w)) = {})
  BY <1>4, <1>6
<1>19. Elements(importer.work)' = Elements(Tail(w))
  BY <1>4 DEF Elements
<1> HIDE DEF w
<1> QED BY <1>2, <1>4, <1>10, <1>11, <1>15, <1>16, <1>17, <1>18, <1>19 DEF ArchiveInv, StoredKeep

\* The track that is written is at least that of every release stored for it.
LEMMA ArchiveTracks ==
  ASSUME ImporterInv, ArchiveInv, NEW d0 \in Device, WriteTrack(d0)
  PROVE  ArchiveInv'
<1> DEFINE h == [importer.highest EXCEPT ![d0] = -1]
<1>1. /\ importer.at = "tracking" /\ importer.highest[d0] >= 0
      /\ importer' = [importer EXCEPT !.highest[d0] = -1]
      /\ track' = IF d0 \in Overridden \/ ~device[d0].stored THEN track
                  ELSE [track EXCEPT ![d0] = importer.highest[d0]]
      /\ UNCHANGED <<device, disturbed, releases>>
  BY DEF WriteTrack, registryVars
<1>2. importer'.at = "tracking" /\ importer'.highest = h
  BY <1>1 DEF ImporterInv
<1>3. /\ importer.highest \in [Device -> -1..3] /\ track \in [Device -> 0..3]
      /\ importer.highest[d0] \in 0..3
  BY <1>1 DEF ArchiveInv, Tracks
<1>4. h \in [Device -> -1..3] /\ track' \in [Device -> 0..3] /\ h[d0] = -1
      /\ \A d \in Device \ {d0} : h[d] = importer.highest[d] /\ track'[d] = track[d]
  BY <1>1, <1>3
<1>5. ASSUME NEW r \in Usables, Landed(r) PROVE Landed(r)'
  <2>1. PICK d \in Stored : /\ Base[d] = Base[r.model]
                            /\ releases[<<d, r.build>>] # NotStored
                            /\ Tracked(d, releases[<<d, r.build>>])
    BY <1>5 DEF Landed
  <2>2. d \in Device /\ d \in Stored' /\ device[d].stored
    BY <1>1 DEF Stored
  <2>4. PICK t : t = releases[<<d, r.build>>]
    OBVIOUS
  <2>5. Tracked(d, t)
    BY <2>1, <2>4
  <2>3. Tracked(d, t)'
    <3>1. CASE d \in Overridden
      BY <1>2, <3>1 DEF Tracked, Written
    <3>2. CASE d # d0 /\ d \notin Overridden
      <4>1. \/ importer.highest[d] >= t
            \/ importer.highest[d] < 0 /\ Written(d, t)
        BY <1>1, <2>5, <3>2 DEF Tracked
      <4>2. h[d] = importer.highest[d] /\ track'[d] = track[d]
        BY <1>4, <2>2, <3>2
      <4> QED BY <1>1, <1>2, <4>1, <4>2 DEF Tracked, Written
    <3>3. CASE d = d0 /\ d \notin Overridden
      <4>1. importer.highest[d] >= t
        BY <1>1, <1>3, <2>5, <3>3 DEF Tracked
      <4>2. track'[d] = importer.highest[d]
        BY <1>1, <1>3, <2>2, <3>3
      <4>3. h[d] < 0
        BY <1>4, <3>3
      <4> QED BY <1>2, <4>1, <4>2, <4>3 DEF Tracked, Written
    <3> QED BY <3>1, <3>2, <3>3
  <2> QED BY <1>1, <2>1, <2>2, <2>3, <2>4 DEF Landed
<1>6. \A r \in Usables : device'[r.model].stored /\ Landed(r)'
  BY <1>1, <1>5 DEF ArchiveInv
<1>7. releases' \in [Device \X Build -> -1..3] /\ importer'.highest \in [Device -> -1..3]
  BY <1>1, <1>2, <1>4 DEF ArchiveInv
<1>8. track' \in [Device -> Tracks]
  BY <1>4 DEF Tracks
<1>9. importer'.at = "tracking" /\ Usables' = Usables
  BY <1>2, UsablesTyped
<1> HIDE DEF h
<1> QED BY <1>6, <1>7, <1>8, <1>9 DEF ArchiveInv

\* When no track is left to write, every release has its own.
LEMMA ArchiveEnds ==
  ASSUME ImporterInv, ArchiveInv, ArchiveDone
  PROVE  ArchiveInv'
<1>1. /\ importer' = [importer EXCEPT !.at = "completing"]
      /\ UNCHANGED <<device, disturbed, track, releases>>
      /\ \/ importer.at = "tracking" /\ \A d \in Device : importer.highest[d] < 0
         \/ importer.at = "ensuring" /\ importer.work = <<>>
  BY DEF ArchiveDone, Now, registryVars
<1>2. importer'.at = "completing" /\ importer'.highest = importer.highest
  BY <1>1 DEF ImporterInv
<1>3. ASSUME NEW r \in Usables PROVE Landed(r)'
  <2>1. importer.at = "tracking" /\ \A d \in Device : importer.highest[d] < 0
    BY <1>1, <1>3 DEF ArchiveInv
  <2>2. PICK d \in Stored : /\ Base[d] = Base[r.model]
                            /\ releases[<<d, r.build>>] # NotStored
                            /\ Tracked(d, releases[<<d, r.build>>])
    BY <2>1 DEF ArchiveInv, Landed
  <2>3. /\ d \in Device /\ d \in Stored' /\ <<d, r.build>> \in Device \X Build
        /\ importer.highest[d] \in -1..3
    BY <1>1, UsablesTyped DEF Stored, ArchiveInv
  <2>6. PICK t : t = releases[<<d, r.build>>]
    OBVIOUS
  <2>7. t \in 0..3
    BY <2>2, <2>3, <2>6 DEF ArchiveInv, NotStored
  <2>4. Written(d, t)
    BY <2>1, <2>2, <2>3, <2>6, <2>7 DEF Tracked
  <2>5. Tracked(d, t)'
    BY <1>1, <1>2, <2>4 DEF Tracked, Written
  <2> QED BY <1>1, <2>2, <2>3, <2>5, <2>6 DEF Landed
<1> QED BY <1>1, <1>2, <1>3, UsablesTyped DEF ArchiveInv

LEMMA ArchiveInvInit == Init => ArchiveInv
<1> SUFFICES ASSUME Init PROVE ArchiveInv
  OBVIOUS
<1>1. /\ importer = AtRest /\ track = [d \in Device |-> 1]
      /\ releases = [key \in Device \X Build |-> -1]
  BY DEF Init, ImportInit, NotStored
<1>2. importer.at = "off" /\ importer.highest = [d \in Device |-> -1]
  BY <1>1 DEF AtRest
<1> QED BY <1>1, <1>2 DEF ArchiveInv, Tracks

LEMMA ArchiveInvStep ==
  ImportInv /\ ArchiveInv /\ [Next]_vars => ArchiveInv'
<1> SUFFICES ASSUME ImportInv, ArchiveInv, [Next]_vars
             PROVE  ArchiveInv'
  OBVIOUS
<1>0. /\ RegistryTypeOK /\ ImporterInv /\ WorkInv
      /\ track \in [Device -> Tracks]
      /\ releases \in [Device \X Build -> -1..3]
  BY DEF ImportInv, RegistryInv, ArchiveInv
<1>9. releases' = releases => StoredKeep
  BY <1>0 DEF StoredKeep
<1>1. CASE ImportActs
  <2>1. CASE FetchDomestic
    BY <1>0, <1>9, <2>1, ArchiveKept DEF FetchDomestic, registryVars
  <2>2. ASSUME NEW f \in Findable, OthersStore(f) PROVE ArchiveInv'
    <3>1. f.model \in Device /\ f.build \in Build /\ f.track \in Tracks
      BY CatalogAssumption DEF Tracks
    <3>2. StoredKeep
      BY <1>0, <2>2, <3>1, UpsertKeeps DEF OthersStore
    <3> QED BY <1>0, <2>2, <3>2, ArchiveKept DEF OthersStore, registryVars
  <2>13. ASSUME NEW f \in Findable, ScanWritesTrack(f) PROVE ArchiveInv'
    <3>1. f.model \in Device /\ f.track \in Tracks
      BY CatalogAssumption DEF Tracks
    <3>2. /\ track' \in [Device -> Tracks]
          /\ \A d \in Device : d \in disturbed' \/ track'[d] = track[d]
      BY <1>0, <2>13, <3>1 DEF ScanWritesTrack
    <3> QED BY <1>0, <1>9, <2>13, <3>2, ArchiveKept DEF ScanWritesTrack
  <2>3. CASE FetchRaised \/ StatementFails
    <3>1. importer'.at \in {"off", "failing"} /\ importer'.highest = importer.highest
          /\ UNCHANGED <<track, releases>>
      BY <1>0, <2>3 DEF FetchRaised, StatementFails, Now, ImporterInv
    <3> QED BY <3>1, HighestUntouched
  <2>4. CASE ArchiveDone
    BY <1>0, <2>4, ArchiveEnds
  <2>5. CASE StartImport
    BY <1>0, <2>5, ArchiveStarts
  <2>6. ASSUME importer.at = "reading", NEW S \in Pages, ReadPage(S) PROVE ArchiveInv'
    <3>1. PICK at, work, saw : importer' = [importer EXCEPT
             !.at = at, !.work = work, !.read = @ + Cardinality(S), !.saw = saw]
             /\ at \in {"reading", "completing", "writing"} /\ UNCHANGED <<track, releases>>
      BY <2>6 DEF ReadPage
    <3>2. /\ importer'.at \in {"reading", "completing", "writing"} /\ Kind' = Kind
          /\ importer'.highest = importer.highest
      BY <1>0, <3>1 DEF ImporterInv, Kind
    <3>3. Kind # "archive"
      BY <1>0, <2>6 DEF WorkInv
    <3> QED BY <3>1, <3>2, <3>3, HighestUntouched
  <2>7. CASE WriteChunk \/ WriteRoms
    <3>1. importer.at = "writing" /\ AfterChunk /\ UNCHANGED <<track, releases>>
      BY <2>7 DEF WriteChunk, WriteRoms
    <3>2. /\ importer'.at \in {"failing", "completing", "writing"} /\ Kind' = Kind
          /\ importer'.highest = importer.highest
      BY <1>0, <3>1 DEF AfterChunk, ImporterInv, Kind
    <3>3. Kind # "archive"
      BY <1>0, <3>1 DEF WorkInv
    <3> QED BY <3>1, <3>2, <3>3, HighestUntouched
  <2>8. CASE EnsureDevice
    BY <1>0, <2>8, ArchiveEnsures
  <2>9. CASE StoreRelease
    BY <1>0, <2>9, ArchiveStores
  <2>10. ASSUME NEW d \in Device, WriteTrack(d) PROVE ArchiveInv'
    BY <1>0, <2>10, ArchiveTracks
  <2>11. CASE CompleteImport \/ FailImport \/ ImporterDies
    <3>1. importer'.at \in {"off", "ready", "dead"} /\ importer'.highest = AtRest.highest
          /\ UNCHANGED <<track, releases>>
      BY <2>11 DEF CompleteImport, FailImport, ImporterDies, AtRest
    <3> QED BY <3>1, HighestForgotten
  <2>12. ASSUME NEW command, Begin(command) PROVE ArchiveInv'
    <3>1. importer'.at = "ready" /\ importer'.highest = AtRest.highest /\ UNCHANGED <<track, releases>>
      BY <2>12 DEF Begin, AtRest
    <3> QED BY <3>1, HighestForgotten
  <2> QED BY <1>1, <2>1, <2>2, <2>3, <2>4, <2>5, <2>6, <2>7, <2>8, <2>9, <2>10, <2>11, <2>12,
             <2>13 DEF ImportActs, ImportStep
<1>2. CASE ~ImportActs
  <2>1. UNCHANGED <<importer, track, releases>>
    BY <1>2 DEF Next, OperatorActs, vars, importVars
  <2> QED BY <1>0, <1>2, <1>9, <2>1, OthersStep, ArchiveKept DEF OthersKeep
<1> QED BY <1>1, <1>2

\* An import that says completed has stored everything that its source offers,
\* for every catalogue and whatever others wrote to the table meanwhile.
THEOREM CompletedIsWhole == Spec => CompletedImportIsWhole
<1> DEFINE Whole ==
       CASE Kind = "edl" ->
              \A i \in DOMAIN Edl : UsableRom(Edl[i]) => Edl[i] \in roms
         [] Kind = "archive" ->
              \A i \in DOMAIN Archive : UsableRelease(Archive[i]) =>
                \E d \in Stored :
                  /\ Base[d] = Base[Archive[i].model]
                  /\ releases[<<d, Archive[i].build>>] # NotStored
                  /\ \/ d \in Overridden \cup disturbed
                     \/ track[d] >= releases[<<d, Archive[i].build>>]
         [] OTHER ->
              \A i \in DOMAIN Candidates(Kind) :
                LET c == Candidates(Kind)[i]
                IN  /\ c.model \in Stored
                    /\ c.model \in Overridden \/ device[c.model].manifest = HasManifest(c)
           I == ImportInv /\ ListsInv /\ ArchiveInv
           A == importRun = "running" /\ importRun' = "completed" => Whole
<1>1. I /\ [Next]_vars => [A]_<<importRun, importer>>
  <2> SUFFICES ASSUME ImportInv, ListsInv, ArchiveInv, [Next]_vars,
                      importRun = "running", importRun' = "completed"
               PROVE  Whole
    OBVIOUS
  <2>1. importer.at = "completing"
    <3>1. ImportActs
      BY DEF Next, OperatorActs, vars, importVars
    <3>2. CASE CompleteImport
      BY <3>2 DEF CompleteImport
    <3>3. CASE ~CompleteImport
      <4>1. ~\E x : WriteTrack(x) \/ OthersStore(x) \/ ScanWritesTrack(x)
        BY DEF WriteTrack, OthersStore, ScanWritesTrack
      <4>2. ~\E S : ReadPage(S)
        BY DEF ReadPage
      <4> QED BY <3>1, <3>3, <4>1, <4>2
              DEF ImportActs, ImportStep, FetchDomestic, FetchRaised, StartImport, EnsureDevice,
                  StoreRelease, ArchiveDone, FailImport, Begin, StatementFails, ImporterDies,
                  WriteChunk, WriteRoms
    <3> QED BY <3>2, <3>3
  <2>2. Kind \in Kinds
    BY <2>1 DEF ImportInv, WorkInv, Kind
  <2>3. CASE Kind = "edl"
    <3>1. importer.work = <<>> /\ Elements(EdlRows) \subseteq roms \cup Elements(importer.work)
      BY <2>1, <2>3 DEF ListsInv
    <3>2. Elements(EdlRows) \subseteq roms
      BY <3>1, NoElements
    <3>3. \A i \in DOMAIN Edl : UsableRom(Edl[i]) => Edl[i] \in roms
      BY <3>2, EdlRowsOnce DEF Elements
    <3> QED BY <2>3, <3>3
  <2>4. CASE Kind = "archive"
    <3>1. ASSUME NEW i \in DOMAIN Archive, UsableRelease(Archive[i])
          PROVE  \E d \in Stored :
                   /\ Base[d] = Base[Archive[i].model]
                   /\ releases[<<d, Archive[i].build>>] # NotStored
                   /\ \/ d \in Overridden \cup disturbed
                      \/ track[d] >= releases[<<d, Archive[i].build>>]
      <4>1. Archive[i] \in Usables
        BY <3>1, UsableReleasesAreAll DEF Usables, Elements
      <4>2. Landed(Archive[i])
        BY <2>1, <2>4, <4>1 DEF ArchiveInv
      <4> QED BY <2>1, <4>2 DEF Landed, Tracked, Written
    <3> QED BY <2>4, <3>1
  <2>5. CASE Kind \in {"oxygen", "domestic"}
    <3>1. importer.work = <<>>
          /\ \A c \in Elements(Candidates(Kind)) : c \in Elements(importer.work) \/ Done(c)
      BY <2>1, <2>5 DEF ListsInv
    <3>2. /\ Candidates(Kind) \in Seq(Rows)
      BY <2>1, <2>2, <2>5, CandidatesTyped DEF ListsInv, ImportInv
    <3>3. ASSUME NEW i \in DOMAIN Candidates(Kind)
          PROVE  LET c == Candidates(Kind)[i]
                 IN  /\ c.model \in Stored
                     /\ c.model \in Overridden \/ device[c.model].manifest = HasManifest(c)
      <4>1. PICK c : c = Candidates(Kind)[i]
        OBVIOUS
      <4>2. c \in Elements(Candidates(Kind))
        BY <4>1 DEF Elements
      <4>3. c \in Rows /\ Done(c)
        BY <3>1, <3>2, <4>2, NoElements, ElementsOf
      <4>4. c.model \in Device
        BY <4>3 DEF Rows, OxygenRow, CandidateRow, ReleaseRow, RomRow
      <4> QED BY <4>1, <4>3, <4>4 DEF Done, Stored
    <3> QED BY <2>5, <3>3
  <2> QED BY <2>2, <2>3, <2>4, <2>5 DEF Kinds
<1>2. Init => ListsInv /\ ArchiveInv
  BY ListsInvInit, ArchiveInvInit
<1>3. ImportInv /\ ListsInv /\ ArchiveInv /\ [Next]_vars => (ListsInv /\ ArchiveInv)'
  BY ListsInvStep, ArchiveInvStep
<1> QED BY <1>1, <1>2, <1>3, ImportInvariant, PTL DEF Spec, CompletedImportIsWhole
=============================================================================
