----------------------------- MODULE Operations -----------------------------
(***************************************************************************)
(* The registry with everybody who writes it at once: the bot, admin       *)
(* routes and the CLI (ScanCommands), imports (CatalogImport), scans, and  *)
(* the scheduler that reads it (DeviceSelection).                          *)
(***************************************************************************)
EXTENDS CatalogImport, ScanCommands, DeviceSelection

CONSTANTS InitialRows,      \* the tables that behaviours start from
          InitialFetches,   \* the catalogue fetched already, or NoFetch
          ImportCommands,   \* the commands of catalog.py
          Scenarios         \* the processes that run together; with "again", a
                            \* second import command follows the first

Kinds == {"oxygen", "domestic", "archive", "edl"}
CandidateRow == [model : Device, source : DOMAIN Priority, brand : STRING, code : {"97"}]

\* A catalogue that was fetched before the model run has one row of a model.
ASSUME StartAssumption ==
  /\ ImportCommands \subseteq Seq(Kinds) \ {<<>>}
  /\ \A f \in InitialFetches :
       \/ f = NoFetch
       \/ /\ f = [NoFetch EXCEPT !.at = "fetched", !.gathered = f.gathered]
          /\ f.gathered \in Seq(CandidateRow)
          /\ \A i, j \in DOMAIN f.gathered :
               f.gathered[i].model = f.gathered[j].model => i = j

ASSUME OperationsAssumption ==
  \A rows \in InitialRows :
    /\ rows \in [Device -> DeviceRow]
    /\ \A d \in Device : rows[d].enabled <=> rows[d].eligibility = "active_scan"

VARIABLE active             \* those of this behaviour

vars == <<registryVars, commandVars, importVars, selection, active>>

Init ==
  /\ \E rows \in InitialRows : RegistryInit(rows)
  /\ CommandInit
  /\ \E fetched \in InitialFetches : ImportInit(fetched)
  /\ SelectionInit
  /\ active \in Scenarios

ImportActs ==
  /\ \/ ImportStep
     \/ /\ importer.commands = 0 \/ "again" \in active
        /\ \E command \in ImportCommands : Begin(command)
     \/ StatementFails
     \/ ImporterDies
     \/ "tracks" \in active /\ \E f \in Findable : OthersStore(f) \/ ScanWritesTrack(f)
  /\ UNCHANGED <<commandVars, selection, active>>

OperatorActs ==
  /\ \/ "bot" \in active /\ (BotStep \/ UpdateArrives \/ BotDies)
     \/ "web" \in active /\ \E o \in Operator : \/ RequestStep(o)
                                               \/ \E cmd \in Commands : Request(o, cmd)
  /\ UNCHANGED <<importVars, selection, active>>

Next ==
  \/ "import" \in active /\ ImportActs
  \/ OperatorActs
  \/ /\ "scan" \in active
     /\ HealthStep
     /\ UNCHANGED <<commandVars, importVars, selection, active>>
  \/ /\ "select" \in active
     /\ SelectionStep
     /\ UNCHANGED <<commandVars, importVars, active>>

Spec == Init /\ [][Next]_vars

\* The event loop of the bot and its restart policy: all calls have timeouts.
Fairness ==
  WF_vars("bot" \in active /\ BotStep /\ UNCHANGED <<importVars, selection, active>>)

FairSpec == Spec /\ Fairness
=============================================================================
