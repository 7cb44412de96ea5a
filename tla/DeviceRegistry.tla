--------------------------- MODULE DeviceRegistry ---------------------------
(***************************************************************************)
(* The table devices and the statements that write it                      *)
(* (SupabaseDeviceRepository): the operator's scan switch, the eligibility *)
(* that follows it, and the failures that exclude a device.  A device is a *)
(* row of the table or a model that is not stored yet.  Names, brands and  *)
(* error texts are left out; `manifest' is whether the code is known.      *)
(*                                                                         *)
(* Each operator below is one statement.  What a caller reads first and    *)
(* writes back later is kept in the caller's own record.                   *)
(***************************************************************************)
EXTENDS Integers, FiniteSets

CONSTANTS Device,           \* product models, stored or not
          Overridden,       \* those whose row has manual_override set
          Legacy,           \* those is_legacy_oneplus_scan_candidate accepts
          Scanned,          \* devices that are scanned in a model run
          Threshold,        \* archive_threshold: failures that exclude
          MaxFailures,      \* bound on the failures counted in a model run
          MaxFaults         \* bound on calls that fail and processes that die

ASSUME DeviceAssumption ==
  /\ IsFiniteSet(Device)
  /\ Overridden \subseteq Device
  /\ Legacy \subseteq Device
  /\ Scanned \subseteq Device
  /\ Threshold \in Nat \ {0}
  /\ MaxFailures \in Nat
  /\ MaxFaults \in Nat

VARIABLES device,           \* the rows
          failing,          \* record_scan_failure between its read and write
          disturbed,        \* the rows written since an import began to read
          faults            \* calls that failed and processes that died

registryVars == <<device, failing, disturbed, faults>>

Eligibility == {"active_scan", "archive_only", "invalid_for_scan"}

DeviceRow == [stored : BOOLEAN, manifest : BOOLEAN, enabled : BOOLEAN,
              eligibility : Eligibility, failures : 0..MaxFailures]

\* scan_eligibility_for: the eligibility that goes with a switch.
EligibilityFor(enabled, manifest) ==
  CASE ~manifest -> "invalid_for_scan"
    [] manifest /\ enabled -> "active_scan"
    [] OTHER -> "archive_only"

\* _device: a row without a manifest code reads as switched off.
ReadEnabled(d) == device[d].enabled /\ device[d].manifest

\* is_scan_capable, and the filter of list_scan_enabled_devices.
Listed(d) == /\ device[d].stored
             /\ device[d].enabled
             /\ device[d].eligibility = "active_scan"
             /\ device[d].manifest

ScanCapable(d) == Listed(d) /\ device[d].failures < Threshold

NotFailing == [at |-> "idle", of |-> {}, count |-> 0]

\* A row as the migrations and earlier imports left it.
StoredRow(manifest, enabled) ==
  [stored |-> TRUE, manifest |-> manifest, enabled |-> enabled /\ manifest,
   eligibility |-> EligibilityFor(enabled, manifest), failures |-> 0]

NoRow == [stored |-> FALSE, manifest |-> FALSE, enabled |-> FALSE,
          eligibility |-> "invalid_for_scan", failures |-> 0]

RegistryInit(rows) ==
  /\ device = rows
  /\ failing = NotFailing
  /\ disturbed = {}
  /\ faults = 0

\* Mutant: a switch that leaves the eligibility to the next import.
SwitchedKeepingEligibility(row, enabled) == [row EXCEPT !.enabled = enabled]

\* Mutant: an eligibility that the column does not admit.
SwitchedToUnknown(row, enabled) ==
  [row EXCEPT !.enabled = enabled,
              !.eligibility = IF enabled THEN "active_scan" ELSE "disabled"]

\* set_scan_enabled, set_scan_eligibility: the switch and the eligibility are
\* written together, whatever the row's manifest code and failures are.
Switched(row, enabled) ==
  [stored |-> row.stored, manifest |-> row.manifest, enabled |-> enabled,
   eligibility |-> IF enabled THEN "active_scan" ELSE "archive_only",
   failures |-> row.failures]

SetScanEnabled(models, enabled) ==
  LET rows == {d \in models : device[d].stored}
  IN  /\ device' = [d \in Device |-> IF d \in rows THEN Switched(device[d], enabled)
                                                   ELSE device[d]]
      /\ disturbed' = disturbed \cup rows

\* set_all_scan_enabled: only the rows whose switch differs are written.
SetAllScanEnabled(enabled) ==
  SetScanEnabled({d \in Device : device[d].enabled # enabled}, enabled)

\* A call that raises, or a process that is killed.
Fault == /\ faults < MaxFaults
         /\ faults' = faults + 1

---------------------------------------------------------------------------
(* What a scan writes.  One scanner is enough: concurrent scans of a       *)
(* device are the subject of the module Scanner.                           *)

\* record_scan_success
RecordScanSuccess(d) ==
  /\ failing.at = "idle"
  /\ device[d].stored
  /\ device' = [device EXCEPT ![d].failures = 0]
  /\ disturbed' = disturbed \cup {d}
  /\ UNCHANGED <<failing, faults>>

\* record_scan_failure reads the row ...
ReadScanFailure(d) ==
  /\ failing.at = "idle"
  /\ device[d].stored
  /\ device[d].failures < MaxFailures
  /\ failing' = [at |-> "writing", of |-> {d}, count |-> device[d].failures + 1]
  /\ UNCHANGED <<device, disturbed, faults>>

\* ... and writes the count, switching a legacy device off at the threshold
\* if the last error came from upstream (`upstream').
Struck(d, upstream) ==
  LET row == device[d]
      archive == upstream /\ failing.count >= Threshold /\ d \in Legacy
  IN  [stored |-> row.stored, manifest |-> row.manifest,
       enabled |-> row.enabled /\ ~archive,
       eligibility |-> IF archive THEN "archive_only" ELSE row.eligibility,
       failures |-> failing.count]

WriteScanFailure(d, upstream) ==
  /\ failing.at = "writing"
  /\ d \in failing.of
  /\ device' = [device EXCEPT ![d] = Struck(d, upstream)]
  /\ disturbed' = disturbed \cup {d}
  /\ failing' = NotFailing
  /\ UNCHANGED faults

HealthStep ==
  \E d \in Scanned : \/ RecordScanSuccess(d)
                     \/ ReadScanFailure(d)
                     \/ \E upstream \in BOOLEAN : WriteScanFailure(d, upstream)

---------------------------------------------------------------------------
(* Properties of the rows, whoever writes them.                            *)

RegistryTypeOK ==
  /\ device \in [Device -> DeviceRow]
  /\ failing \in [at : {"idle", "writing"}, of : SUBSET Device,
                  count : 0..MaxFailures]
  /\ disturbed \in SUBSET Device
  /\ faults \in 0..MaxFaults

\* The switch an operator sees and the eligibility the scheduler filters by
\* never disagree, although six methods write the pair, from values read
\* earlier or not read at all, and two of them without looking at the row.
FlagsAgree ==
  \A d \in Device : device[d].enabled <=> device[d].eligibility = "active_scan"
=============================================================================
