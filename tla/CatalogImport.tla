---------------------------- MODULE CatalogImport ----------------------------
(***************************************************************************)
(* The imports of catalog.py: the Oxygen and the domestic catalogue, which *)
(* read the whole table devices and write whole rows back in chunks; the   *)
(* release archive, which adds devices, stores releases one by one and     *)
(* then writes the tracks it found; and the EDL archive.  A command is a   *)
(* sequence of imports that stops at the first exception.                  *)
(***************************************************************************)
EXTENDS DeviceRegistry, CatalogFetch

CONSTANTS Oxygen,           \* rows of the Oxygen catalogue
          Archive,          \* rows of the release archive
          Edl,              \* rows of the EDL archive
          Base,             \* derive_ota_model of a model
          Build,            \* manifest code, version and link of a release: with
                            \* the model, the unique key of ota_releases
          Findable,         \* releases that scans and manual queries may find
          ImportPage,       \* 1000 in the code: rows read at once
          ChunkSize,        \* 200 in the code: rows written at once
          MaxImports        \* bound on the commands

\* What the sources contain: entries of the domestic catalogue, and rows.
CatalogEntry == [model : Device, source : DOMAIN Priority, brand : STRING,
                 region : STRING, valid : BOOLEAN]
OxygenRow == [model : Device, code : STRING, listed : BOOLEAN]
ReleaseRow == [model : Device, build : Build, track : 0..3, complete : BOOLEAN,
               code : STRING, versioned : BOOLEAN]
RomRow == [model : Device, about : Device, version : Nat, complete : BOOLEAN]

ASSUME CatalogAssumption ==
  /\ Fetchers \in Seq(SUBSET DOMAIN Content) \ {<<>>}
  /\ Content \in [DOMAIN Content -> Seq(CatalogEntry)]
  /\ Seed \in Seq(CatalogEntry)
  /\ Priority \in [DOMAIN Priority -> Nat]
  /\ Oxygen \in Seq(OxygenRow)
  /\ Archive \in Seq(ReleaseRow)
  /\ Edl \in Seq(RomRow)
  /\ Findable \subseteq [model : Device, build : Build, track : 0..3]

\* A fetcher gives all its candidates one source, and one brand unless it is
\* the one whose names are laid over the others.
ASSUME SourceAssumption ==
  \A n \in DOMAIN Fetchers : \A p, q \in Fetchers[n] :
    \A i \in DOMAIN Content[p], j \in DOMAIN Content[q] :
      Usable(Content[p][i]) /\ Usable(Content[q][j]) =>
        /\ Content[p][i].source = Content[q][j].source
        /\ \/ Content[p][i].brand = Content[q][j].brand
           \/ Content[p][i].source = Overlay

ASSUME ImportAssumption ==
  /\ Base \in [Device -> Device]
  /\ ImportPage \in Nat \ {0}
  /\ ChunkSize \in Nat \ {0}
  /\ MaxImports \in Nat

VARIABLES importer,         \* the process and its locals
          importRun,        \* status of the newest row of device_catalog_imports;
                            \* "orphaned" is running without its process
          track,            \* devices.active_track
          releases,         \* ota_track of the rows of ota_releases, by model
                            \* and build
          roms              \* keys of edl_roms

importVars == <<importer, importRun, track, releases, roms, fetch>>

Tracks == 0..3
NotStored == -1
Unread == [read |-> FALSE, enabled |-> FALSE, failures |-> 0]

AtRest == [at |-> "off", queue |-> <<>>, work |-> <<>>, read |-> 0,
           saw |-> [d \in Device |-> Unread], highest |-> [d \in Device |-> -1],
           commands |-> 0]

ImportInit(fetched) ==
  /\ importer = AtRest
  /\ importRun = "none"
  /\ track = [d \in Device |-> 1]
  /\ releases = [key \in Device \X Build |-> NotStored]
  /\ roms = {}
  /\ fetch = fetched

Kind == Head(importer.queue)
Stored == {d \in Device : device[d].stored}
Now(at) == importer' = [importer EXCEPT !.at = at]

\* import_oxygen: the enabled rows, the last one of a model in the place of
\* the first.
PutLast(kept, row) ==
  LET same == {i \in DOMAIN kept : kept[i].model = row.model}
  IN  IF ~row.listed THEN kept
      ELSE IF same = {} THEN Append(kept, row)
      ELSE [i \in DOMAIN kept |-> IF i \in same THEN row ELSE kept[i]]

\* parse_lsctool_release_row: a row with a link, a version name, a region whose
\* manifest code is known, and a track and RUI to be read from the version.
UsableRelease(r) == r.complete /\ r.code # "none" /\ r.versioned

\* parse_lsctool_archive: the releases that are left, and their devices.
PutUsable(kept, row) == IF UsableRelease(row) THEN Append(kept, row) ELSE kept

UsableReleases == FoldLeft(PutUsable, <<>>, Archive)

\* parse_lsctool_edl_row: a complete row about the model it is listed under.
UsableRom(r) == r.complete /\ r.about = r.model

\* Mutant: repeated rows are kept.
PutEach(kept, row) == IF UsableRom(row) THEN Append(kept, row) ELSE kept

\* parse_lsctool_edl_archive: one row of each key.
PutOnce(kept, row) ==
  IF UsableRom(row) /\ row \notin {kept[i] : i \in DOMAIN kept}
  THEN Append(kept, row)
  ELSE kept

Candidates(kind) ==
  CASE kind = "oxygen"   -> FoldLeft(PutLast, <<>>, Oxygen)
    [] kind = "domestic" -> fetch.gathered
    [] kind = "archive"  -> UsableReleases
    [] kind = "edl"      -> FoldLeft(PutOnce, <<>>, Edl)

---------------------------------------------------------------------------
Begin(command) ==
  /\ importer.at \in {"off", "dead"}
  /\ importer.commands < MaxImports
  /\ importer' = [AtRest EXCEPT !.at = "ready", !.queue = command,
                                !.commands = importer.commands + 1]
  /\ UNCHANGED <<registryVars, importRun, track, releases, roms, fetch>>

\* The domestic catalogue is fetched before the import is recorded.
FetchDomestic ==
  /\ importer.at = "ready"
  /\ Kind = "domestic"
  /\ \/ fetch.at = "idle" /\ StartFetch
     \/ fetch.at = "fetching" /\ FetchStep
  /\ UNCHANGED <<registryVars, importer, importRun, track, releases, roms>>

FetchRaised ==
  /\ importer.at = "ready"
  /\ fetch.at = "raised"
  /\ Now("off")
  /\ fetch' = NoFetch
  /\ UNCHANGED <<registryVars, importRun, track, releases, roms>>

StartImport ==
  /\ importer.at = "ready"
  /\ Kind = "domestic" => Fetched
  /\ importRun' = "running"
  /\ importer' = [importer EXCEPT
       !.at = CASE Kind = "archive" -> "ensuring"
                [] Kind = "edl"     -> "writing"
                [] OTHER            -> "reading",
       !.work = Candidates(Kind),
       !.read = 0,
       !.saw = AtRest.saw,
       !.highest = AtRest.highest]
  /\ disturbed' = {}
  /\ UNCHANGED <<device, failing, faults, track, releases, roms, fetch>>

---------------------------------------------------------------------------
(* upsert_catalog_devices.                                                 *)

\* _existing_device_state: the query has no order, so a page is any rows that
\* were not read before; once a row was written, and moved, any rows at all.
Pages ==
  LET left == Cardinality(Stored) - importer.read
      size == IF left < ImportPage THEN left ELSE ImportPage
      fresh == {d \in Stored : ~importer.saw[d].read}
  IN  {S \in SUBSET (IF disturbed = {} \/ importer.read = 0 THEN fresh ELSE Stored) :
         Cardinality(S) = size}

PutOverwritable(saw, kept, c) ==
  IF saw[c.model].read /\ c.model \in Overridden THEN kept ELSE Append(kept, c)

Overwritable(saw) ==
  FoldLeft(LAMBDA kept, c : PutOverwritable(saw, kept, c), <<>>, importer.work)

ReadPage(S) ==
  LET saw == [d \in Device |->
                IF d \in S THEN [read |-> TRUE, enabled |-> device[d].enabled,
                                 failures |-> device[d].failures]
                           ELSE importer.saw[d]]
      last == Cardinality(S) < ImportPage
      work == IF last THEN Overwritable(saw) ELSE importer.work
  IN  /\ importer.at = "reading"
      /\ importer' = [importer EXCEPT
           !.at = IF ~last THEN "reading" ELSE IF work = <<>> THEN "completing" ELSE "writing",
           !.work = work,
           !.read = @ + Cardinality(S),
           !.saw = saw]
      /\ disturbed' = IF importer.read = 0 THEN {} ELSE disturbed
      /\ UNCHANGED <<device, failing, faults, importRun, track, releases, roms, fetch>>

HasManifest(c) == c.code # "none"

\* Mutant: the candidate's switch, which is off, replaces the operator's.
MergedAnew(c) == StoredRow(HasManifest(c), FALSE)

\* _resolve_catalog_device_payload: the switch and the failures as they were
\* read, or those of a new device, never those of the row that is replaced.
Merged(c) ==
  [stored |-> TRUE, manifest |-> HasManifest(c),
   enabled |-> importer.saw[c.model].enabled /\ HasManifest(c),
   eligibility |-> EligibilityFor(importer.saw[c.model].enabled, HasManifest(c)),
   failures |-> importer.saw[c.model].failures]

Chunk ==
  SubSeq(importer.work, 1,
         IF ChunkSize < Len(importer.work) THEN ChunkSize ELSE Len(importer.work))

\* Mutant: the next chunk begins one row too late.
RestOffByOne == SubSeq(importer.work, ChunkSize + 2, Len(importer.work))

Rest == SubSeq(importer.work, ChunkSize + 1, Len(importer.work))
InChunk(d) == \E i \in DOMAIN Chunk : Chunk[i].model = d

\* A statement must not name a row twice: Postgres refuses it.
Key(c) == IF Kind = "edl" THEN c ELSE c.model
Repeats == \E i, j \in DOMAIN Chunk : i # j /\ Key(Chunk[i]) = Key(Chunk[j])

AfterChunk ==
  importer' = IF Repeats THEN [importer EXCEPT !.at = "failing"]
              ELSE [importer EXCEPT !.work = Rest,
                                    !.at = IF Rest = <<>> THEN "completing" ELSE "writing"]

WriteChunk ==
  /\ importer.at = "writing"
  /\ Kind # "edl"
  /\ device' = [d \in Device |->
                  IF InChunk(d) /\ ~Repeats
                  THEN Merged(Chunk[CHOOSE i \in DOMAIN Chunk : Chunk[i].model = d])
                  ELSE device[d]]
  /\ AfterChunk
  /\ UNCHANGED <<failing, disturbed, faults, importRun, track, releases, roms, fetch>>

\* upsert_edl_roms
WriteRoms ==
  /\ importer.at = "writing"
  /\ Kind = "edl"
  /\ roms' = IF Repeats THEN roms ELSE roms \cup {Chunk[i] : i \in DOMAIN Chunk}
  /\ AfterChunk
  /\ UNCHANGED <<registryVars, importRun, track, releases, fetch>>

---------------------------------------------------------------------------
(* import_lsctool_archive.                                                 *)

\* The devices come first, then the releases, so both walk the same rows.
NextRow(at, then) ==
  LET last == Len(importer.work) = 1
  IN  [importer EXCEPT !.at = IF last THEN then ELSE at,
                       !.work = IF last /\ then = "storing" THEN UsableReleases
                                                            ELSE Tail(importer.work)]

\* _ensure_archive_devices: only imports add rows, and one at a time.
EnsureDevice ==
  /\ importer.at = "ensuring"
  /\ importer.work # <<>>
  /\ LET d == Head(importer.work).model
     IN  device' = [device EXCEPT ![d] = IF @.stored THEN @ ELSE StoredRow(TRUE, FALSE)]
  /\ importer' = NextRow("ensuring", "storing")
  /\ UNCHANGED <<failing, disturbed, faults, importRun, track, releases, roms, fetch>>

\* _route_archive_release: a release of a model that does not fit moves to the
\* only stored device of its base model that does.  Which devices have the
\* manifest code of the release (`alike') is left open.
Route(m, alike) ==
  LET fits == {d \in alike : Base[d] = Base[m]}
  IN  IF m \notin fits /\ Cardinality(fits) = 1 THEN CHOOSE d \in fits : TRUE ELSE m

\* upsert_ota_release: a row that is there keeps the track it was found on.
Upserted(key, t) == IF releases[key] = NotStored THEN t ELSE releases[key]

\* Mutant: the track of the archive's row counts, not that of the stored one.
StoreReleaseOfRow ==
  /\ importer.at = "storing"
  /\ \E alike \in SUBSET {d \in Stored : device[d].manifest} :
       LET r == Head(importer.work)
           m == Route(r.model, alike)
           key == <<m, r.build>>
       IN  /\ releases' = [releases EXCEPT ![key] = Upserted(key, r.track)]
           /\ importer' = [NextRow("storing", "tracking") EXCEPT
                             !.highest[m] = IF r.track > @ THEN r.track ELSE @]
  /\ UNCHANGED <<registryVars, importRun, track, roms, fetch>>

\* The release is stored; the row that the upsert returns says its track.
StoreRelease ==
  /\ importer.at = "storing"
  /\ \E alike \in SUBSET {d \in Stored : device[d].manifest} :
       LET r == Head(importer.work)
           m == Route(r.model, alike)
           key == <<m, r.build>>
           t == Upserted(key, r.track)
       IN  /\ releases' = [releases EXCEPT ![key] = t]
           /\ importer' = [NextRow("storing", "tracking") EXCEPT
                             !.highest[m] = IF t > @ THEN t ELSE @]
  /\ UNCHANGED <<registryVars, importRun, track, roms, fetch>>

\* _update_archive_scan_state: the stored track is replaced, higher or not.
WriteTrack(d) ==
  /\ importer.at = "tracking"
  /\ importer.highest[d] >= 0
  /\ importer' = [importer EXCEPT !.highest[d] = -1]
  /\ track' = IF d \in Overridden \/ ~device[d].stored THEN track
              ELSE [track EXCEPT ![d] = importer.highest[d]]
  /\ UNCHANGED <<registryVars, importRun, releases, roms, fetch>>

ArchiveDone ==
  /\ \/ importer.at = "tracking" /\ \A d \in Device : importer.highest[d] < 0
     \/ importer.at = "ensuring" /\ importer.work = <<>>
  /\ Now("completing")
  /\ UNCHANGED <<registryVars, importRun, track, releases, roms, fetch>>

---------------------------------------------------------------------------
(* The end of an import.                                                   *)

CompleteImport ==
  /\ importer.at = "completing"
  /\ importRun' = "completed"
  /\ importer' = [AtRest EXCEPT
       !.at = IF Len(importer.queue) = 1 THEN "off" ELSE "ready",
       !.queue = Tail(importer.queue),
       !.commands = importer.commands]
  /\ fetch' = NoFetch
  /\ UNCHANGED <<registryVars, track, releases, roms>>

StatementFails ==
  /\ importer.at \in {"reading", "writing", "ensuring", "storing", "tracking"}
  /\ Fault
  /\ Now("failing")
  /\ UNCHANGED <<device, failing, disturbed, importRun, track, releases, roms, fetch>>

\* Mutant: the exception is raised without recording it.
RaiseOnly ==
  /\ importer.at = "failing"
  /\ importer' = [AtRest EXCEPT !.commands = importer.commands]
  /\ fetch' = NoFetch
  /\ UNCHANGED <<registryVars, importRun, track, releases, roms>>

\* fail_import; the exception then ends the command.
FailImport ==
  /\ importer.at = "failing"
  /\ importRun' = "failed"
  /\ importer' = [AtRest EXCEPT !.commands = importer.commands]
  /\ fetch' = NoFetch
  /\ UNCHANGED <<registryVars, track, releases, roms>>

\* Nothing catches an exception of complete_import or fail_import.  A row that
\* says running is left behind.
ImporterDies ==
  /\ importer.at \notin {"off", "dead"}
  /\ Fault
  /\ importRun' = IF importRun = "running" THEN "orphaned" ELSE importRun
  /\ importer' = [AtRest EXCEPT !.at = "dead", !.commands = importer.commands]
  /\ fetch' = NoFetch
  /\ UNCHANGED <<device, failing, disturbed, track, releases, roms>>

---------------------------------------------------------------------------
(* What happens between the statements of an import.                       *)

\* A scan or a manual query stores a release, on the track it asked for.
OthersStore(f) ==
  /\ LET key == <<f.model, f.build>>
     IN  releases' = [releases EXCEPT ![key] = Upserted(key, f.track)]
  /\ UNCHANGED <<registryVars, importer, importRun, track, roms, fetch>>

\* A scan that has stored its release writes the track it found it on.  It read
\* the stored track before its query: that may be higher by now.
ScanWritesTrack(f) ==
  /\ releases[<<f.model, f.build>>] # NotStored
  /\ device[f.model].stored
  /\ track' = [track EXCEPT ![f.model] = f.track]
  /\ disturbed' = disturbed \cup {f.model}
  /\ UNCHANGED <<device, failing, faults, importer, importRun, releases, roms, fetch>>

ImportStep ==
  \/ FetchDomestic \/ FetchRaised \/ StartImport
  \/ (importer.at = "reading" /\ \E S \in Pages : ReadPage(S))
  \/ WriteChunk \/ WriteRoms
  \/ EnsureDevice \/ StoreRelease \/ ArchiveDone
  \/ \E d \in Device : WriteTrack(d)
  \/ CompleteImport \/ FailImport

---------------------------------------------------------------------------
(* Properties.                                                             *)

\* Nobody wrote what the import relies on since it read it: the row, if all
\* rows were read at once, else any row.
Undisturbed(d) ==
  IF Cardinality(Stored) < ImportPage THEN d \notin disturbed ELSE disturbed = {}

\* A catalogue import writes whole rows that it read long before.  It leaves
\* an overridden row alone, switches a device off only if the catalogue has no
\* manifest code for it, never on, and keeps its failures, unless the table
\* was written in between.
ImportKeepsChoices ==
  [][importer.at = "writing" /\ importer' # importer =>
       \A d \in Device : device[d].stored /\ Undisturbed(d) =>
         /\ d \in Overridden => device'[d] = device[d]
         /\ device'[d].enabled # device[d].enabled => ~device'[d].manifest
         /\ device'[d].failures = device[d].failures]_<<device, importer>>

\* An import that says completed has stored everything the source offers, in
\* whatever chunks, and although the same rows are written by others.  A release
\* of the archive is stored under its model or one of the same base, and unless
\* somebody else wrote the device meanwhile, its active track is not below the
\* track that release is stored with: found earlier, that may not be the one
\* the archive says.
CompletedImportIsWhole ==
  [][importRun = "running" /\ importRun' = "completed" =>
       CASE Kind = "edl" ->
              \A i \in DOMAIN Edl : UsableRom(Edl[i]) => Edl[i] \in roms
         [] Kind = "archive" ->
              \A i \in DOMAIN Archive : UsableRelease(Archive[i]) =>
                \E d \in Stored :
                  /\ Base[d] = Base[Archive[i].model]
                  /\ releases[<<d, Archive[i].build>>] # NotStored
                  /\ \/ d \in Overridden \cup disturbed
                     \/ track[d] >= releases[<<d, Archive[i].build>>]
         [] OTHER ->
              \A i \in DOMAIN Candidates(Kind) :
                LET c == Candidates(Kind)[i]
                IN  /\ c.model \in Stored
                    /\ c.model \in Overridden \/ device[c.model].manifest = HasManifest(c)
    ]_<<importRun, importer>>

\* A failed import had a fault: no catalogue, however it repeats its models,
\* makes a statement that the database refuses.
FailsOnlyByFault == importRun = "failed" => faults > 0

\* An import that is recorded as running is being worked on, unless its process
\* was cut off: no exception and no later import leaves the record behind.
RunningImportHasOwner == importRun = "running" => importer.at \notin {"off", "ready", "dead"}
=============================================================================
