-------------------------- MODULE OperationsProofs --------------------------
(***************************************************************************)
(* Proofs about the registry, the operator's commands and the selection of *)
(* a scheduled run, for every set of devices, commands, updates,           *)
(* catalogues and bounds.                                                  *)
(***************************************************************************)
EXTENDS Operations, FiniteSetTheorems, TLAPS

---------------------------------------------------------------------------
(* Types.  A bot's batch lies within what has arrived, and its offset is   *)
(* at most one beyond.  Of an import only what it read of the rows is      *)
(* typed here; what it works on is the subject of CatalogProofs.           *)

OpState == [at : {"idle", "checking", "checked", "replying"},
            cmd : Commands \cup {NoCommand},
            todo : SUBSET Device, known : SUBSET Device]

CommandInv ==
  /\ op \in [Operator -> OpState]
  /\ bot \in [up : BOOLEAN, offset : Nat, next : Nat \ {0}, last : Nat]
  /\ arrived \in 0..Len(Updates)
  /\ bot.last <= arrived
  /\ bot.offset <= arrived + 1
  /\ confirmed \in 0..arrived

Seen == [read : BOOLEAN, enabled : BOOLEAN, failures : 0..MaxFailures]

ImporterInv ==
  /\ importer = [at |-> importer.at, queue |-> importer.queue, work |-> importer.work,
                 read |-> importer.read, saw |-> importer.saw,
                 highest |-> importer.highest, commands |-> importer.commands]
  /\ importer.saw \in [Device -> Seen]

LEMMA CommandTyped ==
  ASSUME NEW cmd \in Commands \cup {NoCommand}
  PROVE  cmd.models \subseteq Device /\ cmd.on \in BOOLEAN
<1>1. CASE cmd \in Commands
  <2>1. cmd \in [kind : {"models", "group", "all", "cleanup", "other"},
                 models : SUBSET Device, on : BOOLEAN]
    BY <1>1, CommandAssumption
  <2> QED BY <2>1
<1>2. CASE cmd = NoCommand
  BY <1>2 DEF NoCommand
<1> QED BY <1>1, <1>2

LEMMA Successor == ASSUME NEW n \in Nat, NEW c \in 0..n PROVE c \in Nat /\ c + 1 \in Nat \ {0}
OBVIOUS

LEMMA NoOpTyped == NoOp \in OpState
BY DEF NoOp, OpState, NoCommand

\* Commands change only as OperatorActs does.
LEMMA CommandInvStep == CommandInv /\ [Next]_vars => CommandInv'
<1> SUFFICES ASSUME CommandInv, [Next]_vars PROVE CommandInv'
  OBVIOUS
<1> USE DEF CommandInv
<1>1. CASE UNCHANGED commandVars
  BY <1>1 DEF commandVars
<1>2. ASSUME NEW o \in Operator, CommandStep(o) PROVE CommandInv'
  <2>1. CASE CheckListing(o)
    <3>1. Found(op[o].cmd) \subseteq Device
      <4>1. op[o].cmd.models \subseteq Device
        BY CommandTyped DEF OpState
      <4> QED BY <4>1, DeviceAssumption DEF Found
    <3>2. op' \in [Operator -> OpState]
      BY <2>1, <3>1 DEF CheckListing, OpState
    <3> QED BY <3>2, <2>1, <1>2 DEF CommandStep, CheckListing, Apply, Checked
  <2>2. ASSUME NEW d \in Device, CheckModel(o, d) PROVE CommandInv'
    <3>1. op' \in [Operator -> OpState]
      BY <2>2 DEF CheckModel, OpState
    <3> QED BY <3>1, <2>2, <1>2 DEF CommandStep, CheckModel, Apply, Checked
  <2>3. CASE Apply(o)
    <3>1. op' \in [Operator -> OpState]
      BY <2>3 DEF Apply, OpState
    <3> QED BY <3>1, <2>3 DEF Apply
  <2> QED BY <1>2, <2>1, <2>2, <2>3 DEF CommandStep
<1>3. CASE UpdateArrives
  BY <1>3, CommandAssumption DEF UpdateArrives
<1>4. CASE GetUpdates
  <2>1. arrived \in Nat /\ confirmed \in Nat
    BY CommandAssumption
  <2>2. confirmed' \in 0..arrived
    BY <1>4, <2>1 DEF GetUpdates, Larger
  <2>3. bot' \in [up : BOOLEAN, offset : Nat, next : Nat \ {0}, last : Nat]
    <3>1. confirmed' + 1 \in Nat \ {0}
      BY <2>1, <2>2, Successor
    <3>2. bot' = [bot EXCEPT !.next = confirmed' + 1, !.last = arrived]
      BY <1>4 DEF GetUpdates
    <3> QED BY <2>1, <3>1, <3>2
  <2>4. bot'.last = arrived /\ bot'.offset = bot.offset
    BY <1>4 DEF GetUpdates
  <2> QED BY <1>4, <2>1, <2>2, <2>3, <2>4 DEF GetUpdates
<1>5. CASE TakeUpdate
  <2>1. Updates[bot.next] \in Commands
    BY <1>5, CommandAssumption DEF TakeUpdate
  <2>2. Updates[bot.next].models \subseteq Device
    BY <2>1, CommandTyped
  <2>3. op' \in [Operator -> OpState]
    BY <1>5, <2>1, <2>2 DEF TakeUpdate, Accept, OpState
  <2>4. bot.next \in Nat /\ bot.offset \in Nat /\ bot.next <= arrived /\ arrived \in Nat
    BY <1>5, CommandAssumption DEF TakeUpdate
  <2>5. bot' \in [up : BOOLEAN, offset : Nat, next : Nat \ {0}, last : Nat]
    BY <1>5, <2>4 DEF TakeUpdate, Larger
  <2>6. bot'.last = bot.last /\ bot'.offset <= arrived + 1
    BY <1>5, <2>4 DEF TakeUpdate, Larger
  <2> QED BY <1>5, <2>3, <2>5, <2>6 DEF TakeUpdate
<1>6. CASE ReplySent
  <2>1. op' \in [Operator -> OpState]
    BY <1>6, NoOpTyped DEF ReplySent
  <2>2. bot.next \in Nat /\ bot.next + 1 \in Nat \ {0}
    OBVIOUS
  <2>3. bot' = [bot EXCEPT !.next = bot.next + 1]
    BY <1>6 DEF ReplySent
  <2>4. bot' \in [up : BOOLEAN, offset : Nat, next : Nat \ {0}, last : Nat]
    BY <2>2, <2>3
  <2> QED BY <1>6, <2>1, <2>3, <2>4 DEF ReplySent
<1>7. CASE ReplyRefused \/ BotDies
  <2>1. bot' = [up |-> FALSE, offset |-> 0, next |-> 1, last |-> 0]
    BY <1>7 DEF ReplyRefused, BotDies, Stopped, Started
  <2>2. op' \in [Operator -> OpState]
    BY <1>7, NoOpTyped DEF ReplyRefused, BotDies
  <2>3. UNCHANGED <<arrived, confirmed>>
    BY <1>7 DEF ReplyRefused, BotDies
  <2>4. arrived \in Nat /\ arrived' = arrived
    BY <2>3, CommandAssumption
  <2>5. bot' \in [up : BOOLEAN, offset : Nat, next : Nat \ {0}, last : Nat]
    BY <2>1
  <2>6. bot'.last <= arrived' /\ bot'.offset <= arrived' + 1
    BY <2>1, <2>4
  <2> QED BY <2>2, <2>3, <2>5, <2>6
<1>8. CASE Restart
  BY <1>8 DEF Restart, Started
<1>9. ASSUME NEW o \in Operator, NEW cmd \in Commands, Request(o, cmd) PROVE CommandInv'
  <2>1. cmd.models \subseteq Device
    BY CommandTyped
  <2>2. op' \in [Operator -> OpState]
    BY <1>9, <2>1 DEF Request, Accept, OpState
  <2> QED BY <1>9, <2>2 DEF Request
<1>10. ASSUME NEW o \in Operator, Respond(o) PROVE CommandInv'
  BY <1>10, NoOpTyped DEF Respond
<1>11. ASSUME BotStep PROVE CommandInv'
  BY <1>11, <1>2, <1>4, <1>5, <1>6, <1>7, <1>8, CommandAssumption DEF BotStep
<1>12. ASSUME NEW o \in Operator, RequestStep(o) PROVE CommandInv'
  BY <1>12, <1>2, <1>10 DEF RequestStep
<1>13. CASE OperatorActs
  BY <1>13, <1>3, <1>7, <1>9, <1>11, <1>12 DEF OperatorActs
<1>14. CASE ~OperatorActs
  <2>1. UNCHANGED commandVars
    BY <1>14 DEF Next, ImportActs, vars
  <2> QED BY <2>1, <1>1
<1> QED
  BY <1>13, <1>14

---------------------------------------------------------------------------
(* What an import has read.                                                *)

LEMMA AtRestTyped == AtRest.saw \in [Device -> Seen]
BY DeviceAssumption DEF AtRest, Unread, Seen

LEMMA ImporterInvStep ==
  RegistryTypeOK /\ ImporterInv /\ [Next]_vars => ImporterInv'
<1> SUFFICES ASSUME RegistryTypeOK, ImporterInv, [Next]_vars PROVE ImporterInv'
  OBVIOUS
<1>1. CASE UNCHANGED importer
  BY <1>1 DEF ImporterInv
<1>2. ASSUME NEW command, Begin(command) PROVE ImporterInv'
  BY <1>2, AtRestTyped DEF Begin, ImporterInv, AtRest
<1>3. CASE StartImport
  BY <1>3, AtRestTyped DEF StartImport, ImporterInv
<1>4. ASSUME NEW S \in Pages, ReadPage(S) PROVE ImporterInv'
  <2> DEFINE saw == [d \in Device |->
                IF d \in S THEN [read |-> TRUE, enabled |-> device[d].enabled,
                                 failures |-> device[d].failures]
                           ELSE importer.saw[d]]
  <2>1. saw \in [Device -> Seen]
    BY DEF RegistryTypeOK, DeviceRow, ImporterInv, Seen
  <2>2. \E at, work, read : importer' = [importer EXCEPT !.at = at, !.work = work,
                                                       !.read = read, !.saw = saw]
    BY <1>4 DEF ReadPage
  <2> HIDE DEF saw
  <2> QED BY <2>1, <2>2 DEF ImporterInv
<1>5. CASE WriteChunk \/ WriteRoms
  BY <1>5 DEF WriteChunk, WriteRoms, AfterChunk, ImporterInv
<1>6. CASE EnsureDevice
  BY <1>6 DEF EnsureDevice, NextRow, ImporterInv
<1>7. CASE StoreRelease
  <2>1. \E at, work, highest :
          importer' = [importer EXCEPT !.at = at, !.work = work, !.highest = highest]
    <3>1. \E m, t : importer' = [NextRow("storing", "tracking") EXCEPT
                                  !.highest[m] = IF t > @ THEN t ELSE @]
      BY <1>7 DEF StoreRelease
    <3>2. PICK at, work : NextRow("storing", "tracking") = [importer EXCEPT !.at = at, !.work = work]
      BY DEF NextRow
    <3>3. PICK highest : importer' = [NextRow("storing", "tracking") EXCEPT !.highest = highest]
      BY <3>1
    <3>4. importer' = [importer EXCEPT !.at = at, !.work = work, !.highest = highest]
      BY <3>2, <3>3
    <3> QED BY <3>4
  <2> QED BY <2>1 DEF ImporterInv
<1>8. ASSUME NEW d \in Device, WriteTrack(d) PROVE ImporterInv'
  BY <1>8 DEF WriteTrack, ImporterInv
<1>9. CASE FetchRaised \/ ArchiveDone \/ StatementFails
  BY <1>9 DEF FetchRaised, ArchiveDone, StatementFails, Now, ImporterInv
<1>10. CASE CompleteImport \/ FailImport \/ ImporterDies
  BY <1>10, AtRestTyped DEF CompleteImport, FailImport, ImporterDies, ImporterInv, AtRest
<1>11. CASE FetchDomestic \/ \E f \in Findable : OthersStore(f) \/ ScanWritesTrack(f)
  BY <1>11, <1>1 DEF FetchDomestic, OthersStore, ScanWritesTrack
<1>12. CASE ImportStep
  BY <1>12, <1>3, <1>4, <1>5, <1>6, <1>7, <1>8, <1>9, <1>10, <1>11 DEF ImportStep
<1>13. CASE ImportActs
  BY <1>13, <1>2, <1>9, <1>10, <1>11, <1>12 DEF ImportActs
<1>14. CASE ~ImportActs
  BY <1>14, <1>1 DEF Next, OperatorActs, vars, importVars
<1> QED
  BY <1>13, <1>14

---------------------------------------------------------------------------
(* The rows.  A row agrees if its switch and its eligibility do.           *)

Agrees(row) == row.enabled <=> row.eligibility = "active_scan"

LEMMA FlagsAgreeByRow == FlagsAgree <=> \A d \in Device : Agrees(device[d])
BY DEF FlagsAgree, Agrees

\* What statements write into a row.
LEMMA SwitchedRow ==
  ASSUME NEW row \in DeviceRow, NEW enabled \in BOOLEAN
  PROVE  Switched(row, enabled) \in DeviceRow /\ Agrees(Switched(row, enabled))
BY DEF Switched, DeviceRow, Eligibility, Agrees

LEMMA StoredRowTyped ==
  ASSUME NEW manifest \in BOOLEAN, NEW enabled \in BOOLEAN
  PROVE  /\ StoredRow(manifest, enabled) \in DeviceRow
         /\ Agrees(StoredRow(manifest, enabled))
BY DeviceAssumption DEF StoredRow, EligibilityFor, DeviceRow, Eligibility, Agrees

LEMMA MergedRow ==
  ASSUME ImporterInv, NEW c, c.model \in Device
  PROVE  Merged(c) \in DeviceRow /\ Agrees(Merged(c))
<1>1. importer.saw[c.model] \in Seen
  BY DEF ImporterInv
<1>2. /\ importer.saw[c.model].enabled \in BOOLEAN
      /\ importer.saw[c.model].failures \in 0..MaxFailures
      /\ HasManifest(c) \in BOOLEAN
  BY <1>1 DEF Seen, HasManifest
<1> QED
  BY <1>2 DEF Merged, EligibilityFor, DeviceRow, Eligibility, Agrees

LEMMA StruckRow ==
  ASSUME NEW d \in Device, device[d] \in DeviceRow, Agrees(device[d]),
         failing.count \in 0..MaxFailures, NEW upstream \in BOOLEAN
  PROVE  Struck(d, upstream) \in DeviceRow /\ Agrees(Struck(d, upstream))
BY DeviceAssumption DEF Struck, DeviceRow, Eligibility, Agrees

RowsOK == /\ device \in [Device -> DeviceRow]
          /\ \A d \in Device : Agrees(device[d])

LEMMA SetScanEnabledRows ==
  ASSUME RowsOK, disturbed \subseteq Device, NEW models \in SUBSET Device,
         NEW enabled \in BOOLEAN, SetScanEnabled(models, enabled)
  PROVE  RowsOK' /\ disturbed' \subseteq Device
<1> DEFINE rows == {d \in models : device[d].stored}
<1>1. device' = [d \in Device |-> IF d \in rows THEN Switched(device[d], enabled)
                                                ELSE device[d]]
  BY DEF SetScanEnabled
<1>2. disturbed' = disturbed \cup rows
  BY DEF SetScanEnabled
<1>3. ASSUME NEW d \in Device
      PROVE  device'[d] \in DeviceRow /\ Agrees(device'[d])
  <2>1. device[d] \in DeviceRow /\ Agrees(device[d])
    BY DEF RowsOK
  <2> QED BY <1>1, <2>1, SwitchedRow
<1> QED BY <1>1, <1>2, <1>3 DEF RowsOK

---------------------------------------------------------------------------
(* The invariant of the tables: types, and rows that agree.  A row is      *)
(* written from a value that was read before or not at all, so it rests on *)
(* what commands and imports hold.                                         *)

RegistryInv == RegistryTypeOK /\ FlagsAgree /\ CommandInv /\ ImporterInv

LEMMA RegistryInvInit == Init => RegistryInv
<1> SUFFICES ASSUME Init PROVE RegistryInv
  OBVIOUS
<1>1. PICK rows \in InitialRows : RegistryInit(rows)
  BY DEF Init
<1>2. RegistryTypeOK
  BY <1>1, OperationsAssumption, DeviceAssumption DEF RegistryInit, RegistryTypeOK, NotFailing
<1>3. FlagsAgree
  BY <1>1, OperationsAssumption DEF RegistryInit, FlagsAgree
<1>4. CommandInv
  <2>1. bot \in [up : BOOLEAN, offset : Nat, next : Nat \ {0}, last : Nat]
    BY DEF Init, CommandInit, Started
  <2>2. op \in [Operator -> OpState]
    BY NoOpTyped DEF Init, CommandInit
  <2>3. /\ arrived \in 0..Len(Updates) /\ confirmed \in 0..arrived
        /\ bot.last <= arrived /\ bot.offset <= arrived + 1
    BY CommandAssumption DEF Init, CommandInit, Started
  <2> QED BY <2>1, <2>2, <2>3 DEF CommandInv
<1>5. ImporterInv
  <2>1. importer = AtRest
    BY DEF Init, ImportInit
  <2> QED BY <2>1, AtRestTyped DEF ImporterInv, AtRest
<1> QED BY <1>2, <1>3, <1>4, <1>5 DEF RegistryInv

LEMMA HealthRows ==
  ASSUME RegistryTypeOK, RowsOK, HealthStep
  PROVE  RegistryTypeOK' /\ RowsOK'
<1> USE DeviceAssumption
<1>1. PICK d \in Scanned : \/ RecordScanSuccess(d)
                           \/ ReadScanFailure(d)
                           \/ \E upstream \in BOOLEAN : WriteScanFailure(d, upstream)
  BY DEF HealthStep
<1>2. d \in Device /\ device[d] \in DeviceRow /\ Agrees(device[d])
  BY DEF RowsOK
<1>3. CASE RecordScanSuccess(d)
  <2>1. [device[d] EXCEPT !.failures = 0] \in DeviceRow
    BY <1>2 DEF DeviceRow
  <2>2. Agrees([device[d] EXCEPT !.failures = 0])
    BY <1>2 DEF DeviceRow, Agrees
  <2>3. device' = [device EXCEPT ![d] = [device[d] EXCEPT !.failures = 0]]
    BY <1>3 DEF RecordScanSuccess
  <2>4. RowsOK'
    BY <1>2, <2>1, <2>2, <2>3 DEF RowsOK
  <2> QED BY <1>2, <1>3, <2>4 DEF RecordScanSuccess, RegistryTypeOK, RowsOK
<1>4. CASE ReadScanFailure(d)
  <2>1. device[d].failures + 1 \in 0..MaxFailures
    BY <1>2, <1>4 DEF ReadScanFailure, DeviceRow
  <2> QED BY <1>2, <1>4, <2>1 DEF ReadScanFailure, RegistryTypeOK, RowsOK
<1>5. ASSUME NEW upstream \in BOOLEAN, WriteScanFailure(d, upstream)
      PROVE  RegistryTypeOK' /\ RowsOK'
  <2>1. failing.count \in 0..MaxFailures
    BY DEF RegistryTypeOK
  <2>2. Struck(d, upstream) \in DeviceRow /\ Agrees(Struck(d, upstream))
    BY <1>2, <2>1, StruckRow
  <2>3. device' = [device EXCEPT ![d] = Struck(d, upstream)]
    BY <1>5 DEF WriteScanFailure
  <2>4. RowsOK'
    BY <1>2, <2>2, <2>3 DEF RowsOK
  <2> QED BY <1>2, <1>5, <2>4 DEF WriteScanFailure, RegistryTypeOK, RowsOK, NotFailing
<1> QED BY <1>1, <1>3, <1>4, <1>5

LEMMA ApplyRows ==
  ASSUME RegistryTypeOK, RowsOK, CommandInv, NEW o \in Operator, Apply(o)
  PROVE  RegistryTypeOK' /\ RowsOK'
<1>1. op[o] \in OpState
  BY DEF CommandInv
<1>2. op[o].known \in SUBSET Device /\ op[o].cmd.on \in BOOLEAN
  BY <1>1, CommandTyped DEF OpState
<1>3. \/ \E models \in SUBSET Device, enabled \in BOOLEAN : SetScanEnabled(models, enabled)
      \/ UNCHANGED <<device, disturbed>>
  <2>1. CASE op[o].cmd.kind = "all"
    <3>1. SetAllScanEnabled(FALSE)
      BY <2>1 DEF Apply
    <3> QED BY <3>1 DEF SetAllScanEnabled
  <2>2. CASE op[o].cmd.kind = "other"
    BY <2>2 DEF Apply
  <2>3. CASE op[o].cmd.kind \notin {"all", "other"}
    <3>1. SetScanEnabled(op[o].known, op[o].cmd.on)
      BY <2>3 DEF Apply
    <3> QED BY <1>2, <3>1
  <2> QED BY <2>1, <2>2, <2>3
<1>4. RowsOK' /\ disturbed' \subseteq Device
  BY <1>3, SetScanEnabledRows DEF RegistryTypeOK, RowsOK
<1>5. UNCHANGED <<failing, faults>>
  BY DEF Apply
<1> QED BY <1>4, <1>5 DEF RegistryTypeOK, RowsOK

LEMMA ImportRows ==
  ASSUME RegistryTypeOK, RowsOK, ImporterInv, ImportActs
  PROVE  RegistryTypeOK' /\ RowsOK'
<1>1. CASE UNCHANGED <<device, failing, faults>> /\ disturbed' \in SUBSET Device
  BY <1>1 DEF RegistryTypeOK, RowsOK
<1>2. CASE StatementFails \/ ImporterDies
  BY <1>2, DeviceAssumption
     DEF StatementFails, ImporterDies, Fault, RegistryTypeOK, RowsOK
<1>3. CASE WriteChunk
  <2>1. ASSUME NEW d \in Device
        PROVE  device'[d] \in DeviceRow /\ Agrees(device'[d])
    <3>1. CASE InChunk(d) /\ ~Repeats
      <4> DEFINE i == CHOOSE i \in DOMAIN Chunk : Chunk[i].model = d
      <4>1. Chunk[i].model = d
        BY <3>1 DEF InChunk
      <4>2. device'[d] = Merged(Chunk[i])
        BY <1>3, <3>1 DEF WriteChunk
      <4> HIDE DEF i
      <4> QED BY <4>1, <4>2, MergedRow
    <3>2. CASE ~(InChunk(d) /\ ~Repeats)
      BY <1>3, <3>2 DEF WriteChunk, RowsOK
    <3> QED BY <3>1, <3>2
  <2>2. device' = [d \in Device |-> device'[d]]
    BY <1>3 DEF WriteChunk
  <2>3. RowsOK'
    BY <2>1, <2>2 DEF RowsOK
  <2>4. UNCHANGED <<failing, disturbed, faults>>
    BY <1>3 DEF WriteChunk
  <2> QED BY <2>3, <2>4 DEF RegistryTypeOK, RowsOK
<1>4. CASE EnsureDevice
  <2> DEFINE d == Head(importer.work).model
  <2>1. device' = [device EXCEPT ![d] = IF @.stored THEN @ ELSE StoredRow(TRUE, FALSE)]
    BY <1>4 DEF EnsureDevice
  <2>2. RowsOK'
    BY <2>1, StoredRowTyped DEF RowsOK
  <2>3. UNCHANGED <<failing, disturbed, faults>>
    BY <1>4 DEF EnsureDevice
  <2> QED BY <2>2, <2>3 DEF RegistryTypeOK, RowsOK
<1>5. CASE ImportStep
  <2>1. CASE \E S \in Pages : ReadPage(S)
    BY <1>1, <2>1 DEF ReadPage, RegistryTypeOK
  <2>2. CASE FetchDomestic \/ FetchRaised \/ WriteRoms
    BY <1>1, <2>2
       DEF FetchDomestic, FetchRaised, WriteRoms, registryVars, RegistryTypeOK
  <2>5. CASE StartImport
    BY <1>1, <2>5 DEF StartImport
  <2>3. CASE StoreRelease \/ ArchiveDone \/ CompleteImport \/ FailImport
    BY <1>1, <2>3
       DEF StoreRelease, ArchiveDone, CompleteImport, FailImport, registryVars, RegistryTypeOK
  <2>4. CASE \E d \in Device : WriteTrack(d)
    BY <1>1, <2>4 DEF WriteTrack, registryVars, RegistryTypeOK
  <2> QED BY <1>3, <1>4, <1>5, <2>1, <2>2, <2>3, <2>4, <2>5 DEF ImportStep
<1>6. CASE \E command \in ImportCommands : Begin(command)
  BY <1>1, <1>6 DEF Begin, registryVars, RegistryTypeOK
<1>7. CASE \E f \in Findable : OthersStore(f) \/ ScanWritesTrack(f)
  BY <1>1, <1>7, CatalogAssumption
     DEF OthersStore, ScanWritesTrack, registryVars, RegistryTypeOK
<1> QED BY <1>2, <1>5, <1>6, <1>7 DEF ImportActs

LEMMA RegistryInvStep == RegistryInv /\ [Next]_vars => RegistryInv'
<1> SUFFICES ASSUME RegistryInv, [Next]_vars PROVE RegistryInv'
  OBVIOUS
<1>1. RegistryTypeOK /\ RowsOK /\ CommandInv /\ ImporterInv
  BY FlagsAgreeByRow DEF RegistryInv, RegistryTypeOK, RowsOK
<1>2. CommandInv' /\ ImporterInv'
  BY <1>1, CommandInvStep, ImporterInvStep
<1>3. RegistryTypeOK' /\ RowsOK'
  <2>1. CASE UNCHANGED registryVars
    BY <1>1, <2>1 DEF registryVars, RegistryTypeOK, RowsOK
  <2>2. CASE ImportActs
    BY <1>1, <2>2, ImportRows
  <2>3. CASE HealthStep
    BY <1>1, <2>3, HealthRows
  <2>4. CASE \E o \in Operator : Apply(o)
    BY <1>1, <2>4, ApplyRows
  <2>5. CASE BotDies
    BY <1>1, <2>5, DeviceAssumption DEF BotDies, Fault, RegistryTypeOK, RowsOK
  <2>6. CASE OperatorActs
    <3>1. ASSUME NEW o \in Operator, CommandStep(o)
          PROVE  UNCHANGED registryVars \/ \E p \in Operator : Apply(p)
      BY <3>1 DEF CommandStep
    <3>2. CASE BotStep
      BY <2>1, <2>4, <3>1, <3>2, CommandAssumption
         DEF BotStep, GetUpdates, TakeUpdate, ReplySent, ReplyRefused, Restart
    <3>3. CASE \E o \in Operator : RequestStep(o)
      BY <2>1, <2>4, <3>1, <3>3 DEF RequestStep, Respond
    <3>4. CASE UpdateArrives \/ \E o \in Operator, cmd \in Commands : Request(o, cmd)
      BY <2>1, <3>4 DEF UpdateArrives, Request
    <3> QED BY <2>5, <2>6, <3>2, <3>3, <3>4 DEF OperatorActs
  <2>7. CASE SelectionStep \/ UNCHANGED vars
    BY <2>1, <2>7 DEF SelectionStep, StartSelection, SelectPage, vars
  <2> QED BY <2>2, <2>3, <2>6, <2>7 DEF Next
<1> QED BY <1>2, <1>3, FlagsAgreeByRow DEF RegistryInv, RowsOK, FlagsAgree, Agrees

\* The rows of the registry keep their types, whoever writes them.
THEOREM RegistryIsTyped == Spec => []RegistryTypeOK
<1>1. RegistryInv => RegistryTypeOK
  BY DEF RegistryInv
<1> QED BY <1>1, RegistryInvInit, RegistryInvStep, PTL DEF Spec

\* The switch and the eligibility of a device agree in every interleaving of
\* bots, routes, imports and scans: no set of catalogues, page or chunk size,
\* batch of updates or crash separates them.
THEOREM FlagsAlwaysAgree == Spec => []FlagsAgree
<1>1. RegistryInv => FlagsAgree
  BY DEF RegistryInv
<1> QED BY <1>1, RegistryInvInit, RegistryInvStep, PTL DEF Spec

---------------------------------------------------------------------------
(* The offset confirms nothing that was not carried out.                   *)

\* Below the offset of a bot lies what was carried out and, while a command is
\* at work, its update; below the update it is at, only what was carried out.
HandledInv ==
  /\ \A u \in 1..confirmed : u \in executed
  /\ \A u \in 1..(bot.next - 1) : u \in executed
  /\ \A u \in 1..(bot.offset - 1) :
       u \in executed \/ (u = bot.next /\ op["bot"].at \in {"checking", "checked"})
  /\ op["bot"].at = "replying" => bot.next \in executed
  /\ ~bot.up => op["bot"].at = "idle"

BotInv == CommandInv /\ HandledInv

LEMMA BotNumbers ==
  ASSUME CommandInv
  PROVE  /\ bot.next \in Nat \ {0} /\ bot.offset \in Nat
         /\ arrived \in Nat /\ confirmed \in Nat
BY CommandAssumption DEF CommandInv

LEMMA BotInvInit == Init => BotInv
<1>1. Init => CommandInv
  BY RegistryInvInit DEF RegistryInv
<1>2. Init => HandledInv
  BY CommandAssumption DEF Init, CommandInit, Started, NoOp, HandledInv
<1> QED BY <1>1, <1>2 DEF BotInv

LEMMA HandledInvStep == BotInv /\ [Next]_vars => HandledInv'
<1> SUFFICES ASSUME CommandInv, HandledInv, [Next]_vars PROVE HandledInv'
  BY DEF BotInv
<1> USE BotNumbers, CommandAssumption
<1>1. CASE UNCHANGED <<op, bot, confirmed, executed>>
  BY <1>1 DEF HandledInv
<1>2. ASSUME NEW o \in Operator, CommandStep(o) PROVE HandledInv'
  <2>1. op \in [Operator -> OpState]
    BY DEF CommandInv
  <2>2. CASE CheckListing(o) \/ \E d \in Device : CheckModel(o, d)
    <3>1. \/ op'["bot"].at = op["bot"].at
          \/ op["bot"].at = "checking" /\ op'["bot"].at = "checked"
      BY <2>1, <2>2 DEF CheckListing, CheckModel, OpState
    <3>2. UNCHANGED <<bot, confirmed, executed>>
      BY <1>2, <2>2 DEF CommandStep, CheckListing, CheckModel, Apply, Checked
    <3> QED BY <3>1, <3>2 DEF HandledInv
  <2>3. CASE Apply(o) /\ o = "bot"
    <3>1. op'["bot"].at = "replying" /\ executed' = executed \cup {bot.next}
      BY <2>1, <2>3 DEF Apply, OpState
    <3>2. UNCHANGED <<bot, confirmed>>
      BY <2>3 DEF Apply
    <3>3. op["bot"].at \in {"checking", "checked"} /\ bot.up
      BY <2>3 DEF Apply, Checked, HandledInv
    <3>4. \A u \in 1..(bot'.offset - 1) : u \in executed'
      BY <3>1, <3>2 DEF HandledInv
    <3>5. /\ \A u \in 1..confirmed' : u \in executed'
          /\ \A u \in 1..(bot'.next - 1) : u \in executed'
      BY <3>1, <3>2 DEF HandledInv
    <3> QED BY <3>1, <3>2, <3>3, <3>4, <3>5 DEF HandledInv
  <2>4. CASE Apply(o) /\ o # "bot"
    BY <1>1, <2>1, <2>4 DEF Apply, HandledInv, OpState
  <2> QED BY <1>2, <2>2, <2>3, <2>4 DEF CommandStep
<1>3. CASE GetUpdates
  <2>1. op["bot"].at = "idle" /\ UNCHANGED <<op, executed>>
    BY <1>3 DEF GetUpdates, Polling, BotAtRest
  <2>2. confirmed' = Larger(confirmed, bot.offset - 1)
    BY <1>3 DEF GetUpdates
  <2>3. \A u \in 1..confirmed' : u \in executed
    BY <2>1, <2>2 DEF Larger, HandledInv
  <2>4. bot' = [bot EXCEPT !.next = confirmed' + 1, !.last = arrived]
    BY <1>3 DEF GetUpdates
  <2>5. bot'.next = confirmed' + 1 /\ bot'.offset = bot.offset
    BY <2>4 DEF CommandInv
  <2>6. confirmed' \in Nat /\ bot'.next - 1 = confirmed'
    BY <2>2, <2>5 DEF Larger
  <2>7. \A u \in 1..(bot.offset - 1) : u \in executed
    BY <2>1 DEF HandledInv
  <2> QED BY <2>1, <2>3, <2>5, <2>6, <2>7 DEF HandledInv
<1>4. CASE TakeUpdate
  <2>1. op["bot"].at = "idle" /\ op'["bot"].at = "checking"
    BY <1>4 DEF TakeUpdate, BotAtRest, Accept, CommandInv
  <2>2. bot'.offset = Larger(bot.offset, bot.next + 1) /\ bot'.next = bot.next
    BY <1>4 DEF TakeUpdate, CommandInv
  <2>3. UNCHANGED <<confirmed, executed>>
    BY <1>4 DEF TakeUpdate
  <2>4. ASSUME NEW u \in 1..(bot'.offset - 1)
        PROVE  u \in executed \/ u = bot.next
    BY <2>1, <2>2 DEF Larger, HandledInv
  <2>5. bot'.up
    BY <1>4 DEF TakeUpdate, BotAtRest, CommandInv
  <2>6. /\ \A u \in 1..confirmed : u \in executed
        /\ \A u \in 1..(bot.next - 1) : u \in executed
    BY DEF HandledInv
  <2> QED BY <2>1, <2>2, <2>3, <2>4, <2>5, <2>6 DEF HandledInv
<1>5. CASE ReplySent
  <2>1. bot'.next = bot.next + 1 /\ bot'.offset = bot.offset
    BY <1>5 DEF ReplySent, CommandInv
  <2>2. op'["bot"].at = "idle" /\ bot.next \in executed
    BY <1>5 DEF ReplySent, HandledInv, NoOp, CommandInv
  <2>3. UNCHANGED <<confirmed, executed>>
    BY <1>5 DEF ReplySent
  <2>4. ASSUME NEW u \in 1..(bot.offset - 1)
        PROVE  u \in executed
    BY <1>5, <2>2 DEF ReplySent, HandledInv
  <2>5. ASSUME NEW u \in 1..bot.next
        PROVE  u \in executed
    <3>1. u = bot.next \/ u \in 1..(bot.next - 1)
      OBVIOUS
    <3> QED BY <3>1, <2>2 DEF HandledInv
  <2>6. \A u \in 1..(bot'.next - 1) : u \in executed'
    BY <2>1, <2>3, <2>5
  <2>7. \A u \in 1..confirmed' : u \in executed'
    BY <2>3 DEF HandledInv
  <2>8. \A u \in 1..(bot'.offset - 1) : u \in executed'
    BY <2>1, <2>3, <2>4
  <2> QED BY <2>2, <2>6, <2>7, <2>8 DEF HandledInv
<1>6. CASE ReplyRefused \/ BotDies
  <2>1. bot'.offset = 0 /\ bot'.next = 1 /\ op'["bot"].at = "idle"
    BY <1>6 DEF ReplyRefused, BotDies, Stopped, Started, NoOp, CommandInv
  <2>2. UNCHANGED <<confirmed, executed>>
    BY <1>6 DEF ReplyRefused, BotDies
  <2> QED BY <2>1, <2>2 DEF HandledInv
<1>7. CASE Restart
  <2>1. bot'.offset = 0 /\ bot'.next = 1
    BY <1>7 DEF Restart, Started
  <2>2. op["bot"].at = "idle" /\ bot'.up
    BY <1>7 DEF Restart, HandledInv, Started
  <2> QED BY <1>7, <2>1, <2>2 DEF Restart, HandledInv
<1>8. ASSUME NEW o \in Operator, NEW cmd \in Commands, Request(o, cmd) PROVE HandledInv'
  BY <1>8, <1>1 DEF Request, Accept, CommandInv, HandledInv
<1>9. ASSUME NEW o \in Operator, Respond(o) PROVE HandledInv'
  BY <1>9, <1>1 DEF Respond, CommandInv, HandledInv
<1>10. CASE UpdateArrives
  BY <1>1, <1>10 DEF UpdateArrives
<1>11. CASE OperatorActs
  BY <1>2, <1>3, <1>4, <1>5, <1>6, <1>7, <1>8, <1>9, <1>10, <1>11
     DEF OperatorActs, BotStep, RequestStep
<1>12. CASE ~OperatorActs
  BY <1>1, <1>12 DEF Next, ImportActs, commandVars, vars
<1> QED BY <1>11, <1>12

\* What Telegram has forgotten was carried out, whenever the bot dies and
\* whichever replies are refused, for every sequence of updates.
THEOREM ConfirmedIsHandled == Spec => []ConfirmedWasHandled
<1>1. BotInv /\ [Next]_vars => BotInv'
  BY CommandInvStep, HandledInvStep DEF BotInv
<1>2. BotInv => ConfirmedWasHandled
  BY BotNumbers DEF BotInv, HandledInv, ConfirmedWasHandled
<1> QED BY <1>1, <1>2, BotInvInit, PTL DEF Spec

---------------------------------------------------------------------------
(* The record of an import.                                                *)

LEMMA OwnerStep ==
  ImporterInv /\ RunningImportHasOwner /\ [Next]_vars => RunningImportHasOwner'
<1> SUFFICES ASSUME ImporterInv, RunningImportHasOwner, [Next]_vars
             PROVE  RunningImportHasOwner'
  OBVIOUS
<1> USE DEF RunningImportHasOwner
<1>0. PICK at, queue, work, read, saw, highest, commands :
        importer = [at |-> at, queue |-> queue, work |-> work, read |-> read,
                    saw |-> saw, highest |-> highest, commands |-> commands]
  BY DEF ImporterInv
<1>1. CASE UNCHANGED <<importer, importRun>>
  BY <1>1
<1>2. ASSUME NEW command, Begin(command) PROVE RunningImportHasOwner'
  BY <1>2 DEF Begin
<1>3. CASE StartImport
  BY <1>0, <1>3 DEF StartImport
<1>4. CASE \/ importer.at = "reading" /\ \E S \in Pages : ReadPage(S)
           \/ WriteChunk \/ WriteRoms \/ EnsureDevice
  BY <1>0, <1>4 DEF ReadPage, WriteChunk, WriteRoms, AfterChunk, EnsureDevice, NextRow
<1>5. CASE StoreRelease
  <2>1. importer'.at \in {"storing", "tracking"}
    BY <1>0, <1>5 DEF StoreRelease, NextRow
  <2> QED BY <2>1
<1>6. ASSUME NEW d \in Device, WriteTrack(d) PROVE RunningImportHasOwner'
  BY <1>0, <1>6 DEF WriteTrack
<1>7. CASE FetchRaised \/ ArchiveDone \/ StatementFails
  BY <1>0, <1>7 DEF FetchRaised, ArchiveDone, StatementFails, Now
<1>8. CASE CompleteImport \/ FailImport \/ ImporterDies
  BY <1>0, <1>8 DEF CompleteImport, FailImport, ImporterDies
<1>9. CASE FetchDomestic \/ \E f \in Findable : OthersStore(f) \/ ScanWritesTrack(f)
  BY <1>1, <1>9 DEF FetchDomestic, OthersStore, ScanWritesTrack
<1>10. CASE ImportActs
  BY <1>2, <1>3, <1>4, <1>5, <1>6, <1>7, <1>8, <1>9, <1>10 DEF ImportActs, ImportStep
<1>11. CASE ~ImportActs
  BY <1>1, <1>11 DEF Next, OperatorActs, vars, importVars
<1> QED BY <1>10, <1>11

\* No exception and no later command leaves a record that says running behind,
\* unless the process was cut off, for any catalogue, page and chunk size.
THEOREM RunningIsOwned == Spec => []RunningImportHasOwner
<1>1. Init => RegistryInv /\ RunningImportHasOwner
  BY RegistryInvInit DEF Init, ImportInit, RunningImportHasOwner
<1>2. RegistryInv => ImporterInv
  BY DEF RegistryInv
<1> QED BY <1>1, <1>2, RegistryInvStep, OwnerStep, PTL DEF Spec

---------------------------------------------------------------------------
(* How a scheduled run pages through the table.  A device whose name no    *)
(* other has is at the same place of every listing of the same devices, so *)
(* as long as the listing is the same, the pages so far have found the     *)
(* wanted devices whose place they have passed, each once.                 *)

\* A device whose name no other has, and its place in a listing by name.
OnlyName(d) == \A e \in Device \ {d} : Name[e] # Name[d]

Rank(L, d) == Cardinality({e \in L : Name[e] < Name[d]}) + 1

\* How often a list has a device.
PickedOnce(s, d) == \A i, j \in DOMAIN s : s[i] = d /\ s[j] = d => i = j

IsPicked(s, d) == \E i \in DOMAIN s : s[i] = d

SelectionInv ==
  /\ selection \in [at : {"idle", "paging", "selected"}, offset : Nat, picked : Seq(Device),
                    first : (SUBSET Device) \X (SUBSET Device), same : BOOLEAN, runs : Nat]
  /\ selection.first[2] \subseteq selection.first[1]
  /\ selection.at \in {"paging", "selected"} /\ selection.same =>
       \A d \in Device : OnlyName(d) =>
         /\ PickedOnce(selection.picked, d)
         /\ selection.at = "paging" =>
              (IsPicked(selection.picked, d) <=>
                 d \in selection.first[2] /\ Rank(selection.first[1], d) <= selection.offset)
         /\ selection.at = "selected" /\ Len(selection.picked) < MaxTasks =>
              (IsPicked(selection.picked, d) <=> d \in selection.first[2])

\* The listing has every device once.
LEMMA OrderedIsAll ==
  ASSUME NEW L \in SUBSET Device, NEW s \in Ordered(L)
  PROVE  /\ s \in Seq(Device) /\ Len(s) = Cardinality(L) /\ Cardinality(L) \in Nat
         /\ DOMAIN s = 1..Cardinality(L)
         /\ \A d \in L : \E i \in DOMAIN s : s[i] = d
         /\ \A i, j \in DOMAIN s : s[i] = s[j] => i = j
<1> DEFINE n == Cardinality(L)
<1>1. IsFiniteSet(L) /\ n \in Nat
  BY DeviceAssumption, FS_Subset, FS_CardinalityType
<1>2. /\ s \in [1..n -> L]
      /\ \A i, j \in DOMAIN s : i < j => s[i] # s[j] /\ Name[s[i]] <= Name[s[j]]
  BY DEF Ordered
<1>3. DOMAIN s = 1..n
  BY <1>2
<1>4. \A i, j \in DOMAIN s : s[i] = s[j] => i = j
  BY <1>1, <1>2, <1>3
<1>5. IsFiniteSet(1..n) /\ Cardinality(1..n) = n
  BY <1>1, FS_Interval
<1>6. s \in Injection(1..n, L)
  BY <1>2, <1>3, <1>4 DEF Injection, IsInjective
<1>7. s \in Surjection(1..n, L)
  BY <1>1, <1>5, <1>6, FS_Injection
<1>8. \A d \in L : \E i \in DOMAIN s : s[i] = d
  BY <1>3, <1>7 DEF Surjection
<1>9. s \in Seq(Device) /\ Len(s) = n
  BY <1>1, <1>2
<1> QED BY <1>1, <1>3, <1>4, <1>8, <1>9

\* A device whose name no other has is at the place its name gives it.
LEMMA PlaceIsRank ==
  ASSUME NEW L \in SUBSET Device, NEW s \in Ordered(L), NEW d \in L, OnlyName(d)
  PROVE  /\ Rank(L, d) \in DOMAIN s
         /\ \A i \in DOMAIN s : s[i] = d <=> i = Rank(L, d)
<1> DEFINE n == Cardinality(L)
           below == {e \in L : Name[e] < Name[d]}
<1>1. /\ n \in Nat /\ DOMAIN s = 1..n
      /\ \A e \in L : \E i \in DOMAIN s : s[i] = e
      /\ \A i, j \in DOMAIN s : s[i] = s[j] => i = j
  BY OrderedIsAll
<1>2. PICK p \in DOMAIN s : s[p] = d
  BY <1>1
<1>3. /\ s \in [1..n -> L]
      /\ \A i, j \in DOMAIN s : i < j => s[i] # s[j] /\ Name[s[i]] <= Name[s[j]]
  BY DEF Ordered
<1>4. \A e \in L : Name[e] \in Nat /\ e \in Device
  BY SelectionAssumption
<1>5. \A i \in DOMAIN s : s[i] \in L
  BY <1>3
<1>6. p \in Nat /\ p >= 1 /\ p - 1 \in Nat /\ \A i \in DOMAIN s : i \in Nat
  BY <1>1
<1>7. ASSUME NEW i \in DOMAIN s PROVE Name[s[i]] < Name[d] <=> i < p
  <2>1. CASE i < p
    <3>1. s[i] # d /\ Name[s[i]] <= Name[d]
      BY <1>2, <1>3, <2>1
    <3>2. Name[s[i]] # Name[d]
      BY <1>4, <1>5, <3>1 DEF OnlyName
    <3> QED BY <1>4, <1>5, <2>1, <3>1, <3>2
  <2>2. CASE i = p
    BY <1>2, <1>4, <1>6, <2>2
  <2>3. CASE p < i
    <3>1. Name[d] <= Name[s[i]]
      BY <1>2, <1>3, <2>3
    <3> QED BY <1>4, <1>5, <1>6, <2>3, <3>1
  <2> QED BY <1>6, <2>1, <2>2, <2>3
<1> DEFINE f == [i \in 1..(p - 1) |-> s[i]]
<1>8. 1..(p - 1) \subseteq DOMAIN s /\ \A i \in 1..(p - 1) : i < p
  BY <1>1, <1>2, <1>6
<1>9. f \in [1..(p - 1) -> below]
  BY <1>5, <1>7, <1>8
<1>10. \A i, j \in 1..(p - 1) : f[i] = f[j] => i = j
  BY <1>1, <1>8
<1>11. ASSUME NEW e \in below PROVE \E i \in 1..(p - 1) : f[i] = e
  <2>1. PICK i \in DOMAIN s : s[i] = e
    BY <1>1
  <2>2. i < p
    BY <1>7, <2>1
  <2>3. i \in 1..(p - 1)
    BY <1>1, <1>6, <2>1, <2>2
  <2> QED BY <2>1, <2>3
<1>12. f \in Bijection(1..(p - 1), below)
  BY <1>9, <1>10, <1>11 DEF Bijection, Injection, IsInjective, Surjection
<1>13. Cardinality(below) = p - 1
  <2>1. IsFiniteSet(1..(p - 1)) /\ Cardinality(1..(p - 1)) = p - 1
    BY <1>6, FS_Interval
  <2>2. ExistsBijection(1..(p - 1), below)
    BY <1>12 DEF ExistsBijection
  <2> QED BY <2>1, <2>2, FS_Bijection
<1>14. Rank(L, d) = p
  BY <1>6, <1>13 DEF Rank
<1> QED BY <1>1, <1>2, <1>14

LEMMA RankPositive ==
  ASSUME NEW L \in SUBSET Device, NEW d
  PROVE  Rank(L, d) \in Nat /\ Rank(L, d) >= 1
<1> DEFINE below == {e \in L : Name[e] < Name[d]}
<1>1. IsFiniteSet(below)
  <2>1. below \in SUBSET Device
    OBVIOUS
  <2> QED BY <2>1, DeviceAssumption, FS_Subset
<1>2. Cardinality(below) \in Nat
  BY <1>1, FS_CardinalityType
<1> QED BY <1>2 DEF Rank

KeepOf(p, kept, d) == Keep(kept, d)
KeepFold == INSTANCE FoldLemmas WITH Op <- KeepOf, Base <- <<>>

\* A page's wanted devices, no more often than the page has them.
LEMMA KeptIsWanted ==
  ASSUME NEW s \in Seq(Device)
  PROVE  /\ Kept(s) \in Seq(Device)
         /\ \A d : IsPicked(Kept(s), d) <=> d \in Wanted /\ IsPicked(s, d)
         /\ \A d : PickedOnce(s, d) => PickedOnce(Kept(s), d)
<1> DEFINE I == {i \in 1..Len(s) : s[i] \in Wanted}
           g == [i \in I |-> s[i]]
           k == Kept(s)
<1>1. s \in Seq(Device) /\ <<>> = <<>> /\ I \in SUBSET (1..Len(s))
  OBVIOUS
<1>2. g \in [I -> Device]
  BY <1>1
<1>3. \A x \in Seq(Device), i \in 1..Len(s) :
        KeepOf(0, x, s[i]) = IF i \in I THEN Append(x, g[i]) ELSE x
  BY DEF KeepOf, Keep
<1>4. DOMAIN s = 1..Len(s)
  BY <1>1
<1>5. KeepFold!Folded(0, s) = k
  BY DEF KeepFold!Folded, Kept, FoldLeft, MapThenFoldSet, Max,
         KeepFold!FoldLeft, KeepFold!MapThenFoldSet, KeepFold!Max, KeepOf
<1> HIDE DEF k
<1>6. KeepFold!Filtered(k, Device, I, g)
  <2> HIDE DEF I, g
  <2>1. KeepFold!Filters(0, s, Device, Device, I, g)
    BY <1>1, <1>2, <1>3 DEF KeepFold!Filters
  <2> QED BY <1>5, <2>1, KeepFold!FoldFilters
<1>7. PICK f \in [DOMAIN k -> I] :
        /\ \A i, j \in DOMAIN k : i < j => f[i] < f[j]
        /\ \A j \in DOMAIN k : k[j] = g[f[j]]
        /\ \A i \in I : \E j \in DOMAIN k : f[j] = i
  BY <1>6 DEF KeepFold!Filtered
<1>8. k \in Seq(Device)
  BY <1>6 DEF KeepFold!Filtered
<1>9. \A j \in DOMAIN k : /\ f[j] \in I /\ f[j] \in DOMAIN s
                          /\ k[j] = s[f[j]] /\ s[f[j]] \in Wanted
  BY <1>4, <1>7
<1>10. \A i \in DOMAIN s : s[i] \in Wanted => \E j \in DOMAIN k : k[j] = s[i]
  BY <1>4, <1>7, <1>9
<1>11. ASSUME NEW d PROVE IsPicked(k, d) <=> d \in Wanted /\ IsPicked(s, d)
  BY <1>9, <1>10 DEF IsPicked
<1>12. ASSUME NEW d, PickedOnce(s, d) PROVE PickedOnce(k, d)
  <2> SUFFICES ASSUME NEW i \in DOMAIN k, NEW j \in DOMAIN k, k[i] = d, k[j] = d
               PROVE  i = j
    BY DEF PickedOnce
  <2>1. f[i] = f[j]
    BY <1>9, <1>12 DEF PickedOnce
  <2>2. i \in Nat /\ j \in Nat /\ f[i] \in Nat /\ f[j] \in Nat
    <3>1. DOMAIN k = 1..Len(k)
      BY <1>8
    <3>2. I \subseteq Nat
      OBVIOUS
    <3> QED BY <1>9, <3>1, <3>2
  <2> QED BY <1>7, <2>1, <2>2
<1> QED BY <1>8, <1>11, <1>12 DEF k

\* A page has the devices at its places of the listing.
LEMMA PageOfListing ==
  ASSUME NEW L \in SUBSET Device, NEW s \in Ordered(L), NEW offset \in Nat
  PROVE  /\ Page(s, offset) \in Seq(Device)
         /\ \A d \in L : OnlyName(d) =>
              /\ PickedOnce(Page(s, offset), d)
              /\ IsPicked(Page(s, offset), d) <=>
                   offset < Rank(L, d) /\ Rank(L, d) <= offset + PageSize
         /\ \A d \in Device \ L : ~IsPicked(Page(s, offset), d)
         /\ Len(Page(s, offset)) = 0 => Cardinality(L) <= offset
<1> DEFINE n == Cardinality(L)
           m == IF offset + PageSize < Len(s) THEN offset + PageSize ELSE Len(s)
           page == SubSeq(s, offset + 1, m)
<1>1. /\ s \in Seq(Device) /\ Len(s) = n /\ n \in Nat /\ DOMAIN s = 1..n
      /\ \A i, j \in DOMAIN s : s[i] = s[j] => i = j
  BY OrderedIsAll
<1>2. PageSize \in Nat /\ PageSize >= 1
  BY SelectionAssumption
<1>3. m \in Nat /\ m <= n /\ m <= offset + PageSize /\ (m = n \/ m = offset + PageSize)
  BY <1>1, <1>2
<1>4. Page(s, offset) = page
  BY DEF Page
<1> HIDE DEF m
<1>5. /\ page \in Seq(Device)
      /\ Len(page) = IF offset + 1 <= m THEN m - offset ELSE 0
      /\ DOMAIN page = 1..Len(page)
      /\ \A i \in 1..Len(page) : page[i] = s[offset + i]
  <2>1. \A i \in (offset + 1)..m : i \in DOMAIN s
    BY <1>1, <1>3
  <2>2. Len(page) = IF offset + 1 <= m THEN m - (offset + 1) + 1 ELSE 0
    BY <1>1, <1>3
  <2>3. page = [i \in 1..Len(page) |-> s[offset + i]]
    <3>1. page = [i \in 1..(m - (offset + 1) + 1) |-> s[(offset + 1) + i - 1]]
      BY <1>1, <1>3 DEF SubSeq
    <3>2. 1..Len(page) = 1..(m - (offset + 1) + 1)
      BY <1>3, <2>2
    <3>3. \A i \in 1..Len(page) : s[(offset + 1) + i - 1] = s[offset + i]
      <4>1. \A i \in 1..Len(page) : (offset + 1) + i - 1 = offset + i
        BY <2>2, <1>3
      <4> QED BY <4>1
    <3> QED BY <3>1, <3>2, <3>3
  <2>4. Len(page) \in Nat
    BY <1>3, <2>2
  <2>5. \A i \in 1..Len(page) : s[offset + i] \in Device
    <3>1. \A i \in 1..Len(page) : offset + i \in DOMAIN s
      BY <1>1, <1>3, <2>2
    <3>2. \A i \in DOMAIN s : s[i] \in Device
      BY <1>1
    <3> QED BY <3>1, <3>2
  <2>6. page \in Seq(Device)
    <3>1. page \in [1..Len(page) -> Device]
      BY <2>3, <2>5
    <3> HIDE DEF page
    <3>2. PICK k \in Nat : k = Len(page)
      BY <2>4
    <3>3. page \in [1..k -> Device]
      BY <3>1, <3>2
    <3> QED BY <3>3
  <2>7. DOMAIN page = 1..Len(page) /\ \A i \in 1..Len(page) : page[i] = s[offset + i]
    BY <2>3
  <2>8. Len(page) = IF offset + 1 <= m THEN m - offset ELSE 0
    BY <1>3, <2>2
  <2> QED BY <2>6, <2>7, <2>8
<1> HIDE DEF page
<1>6. \A i \in DOMAIN page : /\ i \in Nat /\ i >= 1 /\ offset + i \in DOMAIN s
                             /\ offset + i <= m /\ page[i] = s[offset + i]
  BY <1>1, <1>3, <1>5
<1>7. \A i \in DOMAIN s : offset < i /\ i <= m => i - offset \in DOMAIN page
                                                   /\ page[i - offset] = s[i]
  <2> SUFFICES ASSUME NEW i \in DOMAIN s, offset < i, i <= m
               PROVE  i - offset \in DOMAIN page /\ page[i - offset] = s[i]
    OBVIOUS
  <2>1. i \in Nat /\ i - offset \in 1..Len(page) /\ offset + (i - offset) = i
    BY <1>1, <1>3, <1>5
  <2> QED BY <1>5, <2>1
<1>8. ASSUME NEW d \in L, OnlyName(d)
      PROVE  /\ PickedOnce(page, d)
             /\ IsPicked(page, d) <=> offset < Rank(L, d) /\ Rank(L, d) <= offset + PageSize
  <2>1. PICK r \in DOMAIN s : r = Rank(L, d) /\ \A i \in DOMAIN s : s[i] = d <=> i = r
    BY <1>8, PlaceIsRank
  <2>2. r \in Nat /\ r <= n
    BY <1>1
  <2>3. ASSUME NEW i \in DOMAIN page, page[i] = d PROVE i = r - offset
    <3>1. offset + i = r
      BY <1>6, <2>1, <2>3
    <3> QED BY <1>6, <2>2, <3>1
  <2>4. PickedOnce(page, d)
    BY <2>3 DEF PickedOnce
  <2>5. ASSUME IsPicked(page, d) PROVE offset < r /\ r <= offset + PageSize
    <3>1. PICK i \in DOMAIN page : page[i] = d
      BY <2>5 DEF IsPicked
    <3>2. offset + i = r /\ i \in Nat /\ i >= 1 /\ offset + i <= m
      BY <1>6, <2>1, <3>1
    <3> QED BY <1>2, <1>3, <2>2, <3>2
  <2>6. ASSUME offset < r, r <= offset + PageSize PROVE IsPicked(page, d)
    <3>1. r <= m
      BY <1>2, <1>3, <2>2, <2>6
    <3>2. page[r - offset] = d /\ r - offset \in DOMAIN page
      BY <1>7, <2>1, <2>6, <3>1
    <3> QED BY <3>2 DEF IsPicked
  <2> QED BY <2>1, <2>4, <2>5, <2>6
<1>9. ASSUME NEW d \in Device \ L PROVE ~IsPicked(page, d)
  <2>1. \A i \in DOMAIN s : s[i] \in L
    BY DEF Ordered
  <2> QED BY <1>6, <2>1 DEF IsPicked
<1>10. Len(page) = 0 => n <= offset
  BY <1>2, <1>3, <1>5
<1> QED BY <1>4, <1>5, <1>8, <1>9, <1>10

\* What is picked of two lists, and of the beginning of a list.
LEMMA PickedOfBoth ==
  ASSUME NEW s \in Seq(Device), NEW t \in Seq(Device), NEW d
  PROVE  /\ s \o t \in Seq(Device)
         /\ IsPicked(s \o t, d) <=> IsPicked(s, d) \/ IsPicked(t, d)
         /\ PickedOnce(s, d) /\ PickedOnce(t, d) /\ ~(IsPicked(s, d) /\ IsPicked(t, d)) =>
              PickedOnce(s \o t, d)
<1> DEFINE u == s \o t
<1>1. /\ u \in Seq(Device) /\ DOMAIN s = 1..Len(s) /\ DOMAIN t = 1..Len(t)
      /\ Len(s) \in Nat /\ Len(t) \in Nat /\ DOMAIN u = 1..(Len(s) + Len(t))
      /\ \A i \in DOMAIN s : i \in DOMAIN u /\ u[i] = s[i]
      /\ \A i \in DOMAIN t : Len(s) + i \in DOMAIN u /\ u[Len(s) + i] = t[i]
      /\ \A i \in DOMAIN u : \/ i \in DOMAIN s /\ u[i] = s[i]
                             \/ i - Len(s) \in DOMAIN t /\ u[i] = t[i - Len(s)]
  OBVIOUS
<1> HIDE DEF u
<1>2. IsPicked(u, d) <=> IsPicked(s, d) \/ IsPicked(t, d)
  BY <1>1 DEF IsPicked
<1>3. ASSUME PickedOnce(s, d), PickedOnce(t, d), ~(IsPicked(s, d) /\ IsPicked(t, d))
      PROVE  PickedOnce(u, d)
  <2> SUFFICES ASSUME NEW i \in DOMAIN u, NEW j \in DOMAIN u, u[i] = d, u[j] = d
               PROVE  i = j
    BY DEF PickedOnce
  <2>1. CASE IsPicked(s, d)
    <3>1. i \in DOMAIN s /\ j \in DOMAIN s /\ s[i] = d /\ s[j] = d
      BY <1>1, <1>3, <2>1 DEF IsPicked
    <3> QED BY <1>3, <3>1 DEF PickedOnce
  <2>2. CASE ~IsPicked(s, d)
    <3>1. /\ i - Len(s) \in DOMAIN t /\ j - Len(s) \in DOMAIN t
          /\ t[i - Len(s)] = d /\ t[j - Len(s)] = d
      BY <1>1, <2>2 DEF IsPicked
    <3>2. i - Len(s) = j - Len(s)
      BY <1>3, <3>1 DEF PickedOnce
    <3> QED BY <1>1, <3>2
  <2> QED BY <2>1, <2>2
<1> QED BY <1>1, <1>2, <1>3 DEF u

LEMMA PickedOfPrefix ==
  ASSUME NEW s \in Seq(Device), NEW m \in Nat, m <= Len(s)
  PROVE  /\ SubSeq(s, 1, m) \in Seq(Device) /\ Len(SubSeq(s, 1, m)) = m
         /\ \A d : PickedOnce(s, d) => PickedOnce(SubSeq(s, 1, m), d)
         /\ m = Len(s) => SubSeq(s, 1, m) = s
<1> DEFINE u == SubSeq(s, 1, m)
<1>1. /\ u \in Seq(Device) /\ Len(u) = m /\ DOMAIN u = 1..m /\ DOMAIN s = 1..Len(s)
      /\ Len(s) \in Nat
      /\ \A i \in 1..m : i \in DOMAIN s /\ u[i] = s[i]
  OBVIOUS
<1>2. m = Len(s) => u = s
  BY <1>1
<1> HIDE DEF u
<1>3. ASSUME NEW d, PickedOnce(s, d) PROVE PickedOnce(u, d)
  BY <1>1, <1>3 DEF PickedOnce
<1> QED BY <1>1, <1>2, <1>3 DEF u

LEMMA WantedIsListed ==
  /\ Listing \in SUBSET Device /\ Wanted \in SUBSET Device /\ Wanted \subseteq Listing
BY DEF Listing, Wanted, ScanCapable

\* The devices found by one more page of a listing that is still the same.
LEMMA PageFinds ==
  ASSUME SelectionInv, selection.at = "paging", selection.same,
         selection.first = <<Listing, Wanted>>,
         NEW s \in Ordered(Listing), NEW d \in Device, OnlyName(d)
  PROVE  LET all == selection.picked \o Kept(Page(s, selection.offset))
         IN  /\ PickedOnce(all, d)
             /\ IsPicked(all, d) <=>
                  d \in Wanted /\ Rank(Listing, d) <= selection.offset + PageSize
<1> DEFINE picked == selection.picked
           offset == selection.offset
           page == Page(s, offset)
           kept == Kept(page)
           r == Rank(Listing, d)
<1>1. /\ picked \in Seq(Device) /\ offset \in Nat /\ PageSize \in Nat
      /\ PickedOnce(picked, d)
      /\ IsPicked(picked, d) <=> d \in Wanted /\ r <= offset
  BY SelectionAssumption DEF SelectionInv
<1>2. /\ page \in Seq(Device)
      /\ d \in Listing => /\ PickedOnce(page, d)
                          /\ IsPicked(page, d) <=> offset < r /\ r <= offset + PageSize
      /\ d \notin Listing => ~IsPicked(page, d)
  BY <1>1, WantedIsListed, PageOfListing
<1> HIDE DEF page
<1>3. /\ kept \in Seq(Device)
      /\ IsPicked(kept, d) <=> d \in Wanted /\ IsPicked(page, d)
      /\ PickedOnce(page, d) => PickedOnce(kept, d)
  BY <1>2, KeptIsWanted
<1> HIDE DEF kept
<1>4. r \in Nat
  BY WantedIsListed, RankPositive
<1> HIDE DEF r, picked, offset
<1>5. ~(IsPicked(picked, d) /\ IsPicked(kept, d))
  BY <1>1, <1>2, <1>3, <1>4, WantedIsListed
<1>6. PickedOnce(kept, d)
  <2>1. CASE d \in Listing
    BY <1>2, <1>3, <2>1
  <2>2. CASE d \notin Listing
    <3>1. ~IsPicked(kept, d)
      BY <1>2, <1>3, <2>2
    <3> QED BY <3>1 DEF IsPicked, PickedOnce
  <2> QED BY <2>1, <2>2
<1>7. /\ IsPicked(picked \o kept, d) <=> IsPicked(picked, d) \/ IsPicked(kept, d)
      /\ PickedOnce(picked \o kept, d)
  BY <1>1, <1>3, <1>5, <1>6, PickedOfBoth
<1>8. IsPicked(picked, d) \/ IsPicked(kept, d) <=> d \in Wanted /\ r <= offset + PageSize
  BY <1>1, <1>2, <1>3, <1>4, WantedIsListed
<1> QED BY <1>7, <1>8 DEF picked, offset, page, kept, r

LEMMA SelectionInvInit == Init => SelectionInv
<1> SUFFICES ASSUME Init PROVE SelectionInv
  OBVIOUS
<1>1. selection = NoSelection
  BY DEF Init, SelectionInit
<1> QED BY <1>1 DEF SelectionInv, NoSelection

LEMMA SelectionStarts ==
  ASSUME SelectionInv, StartSelection
  PROVE  SelectionInv'
<1>1. selection' = [at |-> "paging", offset |-> 0, picked |-> <<>>,
                    first |-> <<Listing, Wanted>>, same |-> TRUE, runs |-> selection.runs + 1]
  BY DEF StartSelection, NoSelection
<1>2. selection.runs \in Nat
  BY DEF SelectionInv
<1>3. ASSUME NEW d PROVE PickedOnce(<<>>, d) /\ ~IsPicked(<<>>, d)
  BY DEF PickedOnce, IsPicked
<1>4. ASSUME NEW d PROVE ~(Rank(Listing, d) <= 0)
  BY WantedIsListed, RankPositive
<1>5. selection' \in [at : {"idle", "paging", "selected"}, offset : Nat, picked : Seq(Device),
                      first : (SUBSET Device) \X (SUBSET Device), same : BOOLEAN, runs : Nat]
  BY <1>1, <1>2, WantedIsListed
<1>6. /\ selection'.at = "paging" /\ selection'.picked = <<>> /\ selection'.offset = 0
      /\ selection'.first[1] = Listing /\ selection'.first[2] = Wanted
  BY <1>1
<1> QED BY <1>3, <1>4, <1>5, <1>6, WantedIsListed DEF SelectionInv

\* One more page: the places it passes are those up to the next offset, and the
\* last page passes them all.
LEMMA SelectionPages ==
  ASSUME SelectionInv, NEW s \in Ordered(Listing), SelectPage(s)
  PROVE  SelectionInv'
<1> DEFINE t == selection
           all == t.picked \o Kept(Page(s, t.offset))
           enough == Len(all) >= MaxTasks
           offset == t.offset + PageSize
           last == Len(Page(s, t.offset)) = 0 \/ offset >= Cardinality(Listing)
           picked == SubSeq(all, 1, IF enough THEN MaxTasks ELSE Len(all))
<1>1. /\ t.at = "paging"
      /\ selection' = [t EXCEPT !.at = IF enough \/ last THEN "selected" ELSE "paging",
                                !.offset = offset, !.picked = picked,
                                !.same = @ /\ t.first = <<Listing, Wanted>>]
  BY DEF SelectPage
<1>2. /\ t \in [at : {"idle", "paging", "selected"}, offset : Nat, picked : Seq(Device),
                first : (SUBSET Device) \X (SUBSET Device), same : BOOLEAN, runs : Nat]
      /\ t.first[2] \subseteq t.first[1]
  BY DEF SelectionInv
<1>3. PageSize \in Nat /\ MaxTasks \in Nat /\ offset \in Nat /\ t.offset \in Nat
  BY <1>2, SelectionAssumption
<1>4. all \in Seq(Device) /\ Len(all) \in Nat
  <2>1. Page(s, t.offset) \in Seq(Device)
    BY <1>3, WantedIsListed, PageOfListing
  <2>2. Kept(Page(s, t.offset)) \in Seq(Device)
    BY <2>1, KeptIsWanted
  <2>3. t.picked \in Seq(Device)
    BY <1>2
  <2>4. all \in Seq(Device)
    BY <2>2, <2>3, PickedOfBoth
  <2> HIDE DEF all
  <2> QED BY <2>4
<1>5. /\ picked \in Seq(Device)
      /\ \A d : PickedOnce(all, d) => PickedOnce(picked, d)
      /\ enough => Len(picked) = MaxTasks
      /\ ~enough => picked = all
  <2> DEFINE m == IF enough THEN MaxTasks ELSE Len(all)
  <2> HIDE DEF all
  <2>1. m \in Nat /\ m <= Len(all)
    BY <1>3, <1>4
  <2>2. /\ SubSeq(all, 1, m) \in Seq(Device) /\ Len(SubSeq(all, 1, m)) = m
        /\ \A d : PickedOnce(all, d) => PickedOnce(SubSeq(all, 1, m), d)
        /\ m = Len(all) => SubSeq(all, 1, m) = all
    BY <1>4, <2>1, PickedOfPrefix
  <2> QED BY <2>2
<1>6. Len(Page(s, t.offset)) = 0 => Cardinality(Listing) <= t.offset
  BY <1>3, WantedIsListed, PageOfListing
<1>7. ASSUME t.same, t.first = <<Listing, Wanted>>, NEW d \in Device, OnlyName(d)
      PROVE  /\ PickedOnce(all, d)
             /\ IsPicked(all, d) <=> d \in Wanted /\ Rank(Listing, d) <= offset
  BY <1>1, <1>7, PageFinds
<1>8. ASSUME last, NEW d \in Wanted, OnlyName(d) PROVE Rank(Listing, d) <= offset
  <2>1. Rank(Listing, d) \in 1..Cardinality(Listing) /\ Cardinality(Listing) \in Nat
    BY <1>8, WantedIsListed, PlaceIsRank, OrderedIsAll
  <2> QED BY <1>3, <1>6, <1>8, <2>1
<1> HIDE DEF all, last, enough
<1>9. /\ selection'.at = (IF enough \/ last THEN "selected" ELSE "paging")
      /\ selection'.offset = offset /\ selection'.picked = picked
      /\ selection'.same = (t.same /\ t.first = <<Listing, Wanted>>)
      /\ selection'.first = t.first /\ selection'.runs = t.runs
  BY <1>1, <1>2
<1> HIDE DEF picked, offset
<1>10. selection' \in [at : {"idle", "paging", "selected"}, offset : Nat, picked : Seq(Device),
                       first : (SUBSET Device) \X (SUBSET Device), same : BOOLEAN, runs : Nat]
  BY <1>1, <1>2, <1>3, <1>5
<1>11. ASSUME selection'.same, NEW d \in Device, OnlyName(d)
       PROVE  /\ PickedOnce(picked, d)
              /\ selection'.at = "paging" =>
                   (IsPicked(picked, d) <=>
                      d \in t.first[2] /\ Rank(t.first[1], d) <= offset)
              /\ selection'.at = "selected" /\ Len(picked) < MaxTasks =>
                   (IsPicked(picked, d) <=> d \in t.first[2])
  <2>1. t.same /\ t.first = <<Listing, Wanted>>
    BY <1>2, <1>9, <1>11
  <2>2. t.first[1] = Listing /\ t.first[2] = Wanted
    BY <2>1
  <2>3. PickedOnce(all, d) /\ (IsPicked(all, d) <=> d \in Wanted /\ Rank(Listing, d) <= offset)
    BY <1>7, <1>11, <2>1
  <2>4. selection'.at = "paging" => ~enough
    BY <1>9
  <2>5. selection'.at = "selected" /\ Len(picked) < MaxTasks => ~enough /\ last
    BY <1>3, <1>5, <1>9
  <2> QED BY <1>5, <1>8, <1>11, <2>2, <2>3, <2>4, <2>5
<1> QED BY <1>2, <1>9, <1>10, <1>11 DEF SelectionInv

LEMMA SelectionInvStep == SelectionInv /\ [Next]_vars => SelectionInv'
<1> SUFFICES ASSUME SelectionInv, [Next]_vars PROVE SelectionInv'
  OBVIOUS
<1>1. CASE UNCHANGED selection
  BY <1>1 DEF SelectionInv
<1>2. CASE SelectionStep
  BY <1>2, SelectionStarts, SelectionPages DEF SelectionStep
<1> QED BY <1>1, <1>2 DEF Next, ImportActs, OperatorActs, vars

\* A scheduled run finds every wanted device once, whatever the page size and
\* the number of devices, if the listing stayed the same while it was read.
THEOREM SelectionExact == Spec => []SelectionIsExact
<1>1. ASSUME SelectionInv PROVE SelectionIsExact
  <2> SUFFICES ASSUME selection.at = "selected", selection.same, NEW d \in Device, OnlyName(d)
               PROVE  /\ Copies(d) <= 1
                      /\ Len(selection.picked) < MaxTasks =>
                           (Copies(d) = 1 <=> d \in selection.first[2])
    BY DEF SelectionIsExact, OnlyName
  <2> DEFINE picked == selection.picked
             at == {i \in DOMAIN picked : picked[i] = d}
  <2>1. PickedOnce(picked, d)
        /\ (Len(picked) < MaxTasks => (IsPicked(picked, d) <=> d \in selection.first[2]))
    BY <1>1 DEF SelectionInv
  <2>2. Copies(d) = IF IsPicked(picked, d) THEN 1 ELSE 0
    <3>1. CASE IsPicked(picked, d)
      <4>1. PICK i \in DOMAIN picked : picked[i] = d
        BY <3>1 DEF IsPicked
      <4>2. at = {i}
        BY <2>1, <4>1 DEF PickedOnce
      <4>3. Cardinality(at) = 1
        BY <4>2, FS_Singleton
      <4> QED BY <3>1, <4>3 DEF Copies
    <3>2. CASE ~IsPicked(picked, d)
      <4>1. at = {}
        BY <3>2 DEF IsPicked
      <4>2. Cardinality(at) = 0
        BY <4>1, FS_EmptySet
      <4> QED BY <3>2, <4>2 DEF Copies
    <3> QED BY <3>1, <3>2
  <2> QED BY <2>1, <2>2
<1> QED BY <1>1, SelectionInvInit, SelectionInvStep, PTL DEF Spec
=============================================================================
