--------------------------- MODULE DeviceSelection ---------------------------
(***************************************************************************)
(* How a scheduled run chooses its devices                                 *)
(* (ScannerService._devices_for_cycle_day): it pages by offset through     *)
(* list_scan_enabled_devices, ordered by name, while others write the      *)
(* table, and keeps the devices below the failure threshold whose shard is *)
(* due.                                                                    *)
(***************************************************************************)
EXTENDS DeviceRegistry, Sequences, SequencesExt

CONSTANTS Name,             \* the names the listing is ordered by
          Due,              \* devices of the shard that is due
          PageSize,         \* 200 in the code
          MaxTasks,         \* SCAN_MAX_TASKS_PER_RUN
          MaxSelections     \* bound on the runs scheduled

ASSUME SelectionAssumption ==
  /\ Name \in [Device -> Nat]
  /\ Due \subseteq Device
  /\ PageSize \in Nat \ {0}
  /\ MaxTasks \in Nat \ {0}
  /\ MaxSelections \in Nat

VARIABLE selection

\* `first' is the listing as it was at the first page and `same' whether every
\* later page was cut from the same listing.
NoSelection == [at |-> "idle", offset |-> 0, picked |-> <<>>, first |-> <<{}, {}>>,
                same |-> TRUE, runs |-> 0]

SelectionInit == selection = NoSelection

Listing == {d \in Device : Listed(d)}
Wanted == {d \in Device : ScanCapable(d) /\ d \in Due}

\* An order by name leaves devices of equal names in any order.
Ordered(S) ==
  {s \in [1..Cardinality(S) -> S] :
     \A i, j \in DOMAIN s : i < j => s[i] # s[j] /\ Name[s[i]] <= Name[s[j]]}

\* The devices of a page that are kept, up to the limit.
Keep(kept, d) == IF d \in Wanted THEN Append(kept, d) ELSE kept

Kept(page) == FoldLeft(Keep, <<>>, page)

\* Mutant: a page begins one row too late.
PageOffByOne(s, offset) ==
  SubSeq(s, offset + 2,
         IF offset + 1 + PageSize < Len(s) THEN offset + 1 + PageSize ELSE Len(s))

Page(s, offset) ==
  SubSeq(s, offset + 1, IF offset + PageSize < Len(s) THEN offset + PageSize ELSE Len(s))

StartSelection ==
  /\ selection.at # "paging"
  /\ selection.runs < MaxSelections
  /\ selection' = [NoSelection EXCEPT !.at = "paging", !.first = <<Listing, Wanted>>,
                                      !.runs = selection.runs + 1]
  /\ UNCHANGED registryVars

SelectPage(s) ==
  LET t == selection
      all == t.picked \o Kept(Page(s, t.offset))
      enough == Len(all) >= MaxTasks
      offset == t.offset + PageSize
      last == Len(Page(s, t.offset)) = 0 \/ offset >= Cardinality(Listing)
  IN  /\ t.at = "paging"
      /\ selection' =
           [t EXCEPT !.at = IF enough \/ last THEN "selected" ELSE "paging",
                     !.offset = offset,
                     !.picked = SubSeq(all, 1, IF enough THEN MaxTasks ELSE Len(all)),
                     !.same = @ /\ t.first = <<Listing, Wanted>>]
      /\ UNCHANGED registryVars

SelectionStep == StartSelection \/ \E s \in Ordered(Listing) : SelectPage(s)

---------------------------------------------------------------------------
Copies(d) == Cardinality({i \in DOMAIN selection.picked : selection.picked[i] = d})

\* Paging by offset finds every wanted device once, although the listing is
\* read in several statements: a device is skipped or found twice only if
\* someone wrote the table meanwhile, or shares its name with another.
SelectionIsExact ==
  selection.at = "selected" /\ selection.same =>
    \A d \in Device :
      (\A e \in Device \ {d} : Name[e] # Name[d]) =>
        /\ Copies(d) <= 1
        /\ Len(selection.picked) < MaxTasks =>
             (Copies(d) = 1 <=> d \in selection.first[2])
=============================================================================
