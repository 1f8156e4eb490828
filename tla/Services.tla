------------------------------ MODULE Services ------------------------------
(***************************************************************************)
(* The components beside orders and money, in one specification.  No two   *)
(* of them write the same table, and none reads what another one writes    *)
(* between two of its own steps except as its module models it.  So a      *)
(* behaviour of the server is, for each component, a behaviour of that     *)
(* component with steps that leave it alone; it is enough to let one of    *)
(* them run, whichever it is, while the others rest.                       *)
(***************************************************************************)
EXTENDS Accounts, VehicleTypes, RiderDocuments, Presence, RiderSelection, Lookups,
        Desk, WithdrawalOptions, Pricing

CONSTANT Budget   \* bound: the calls of a behaviour of each component

VARIABLE component   \* the one that runs

Components == {"accounts", "vehicles", "documents", "presence", "selection",
               "lookups", "desk", "options", "pricing"}

ASSUME BudgetAssumption == Budget \in [Components -> 0..MaxCalls]

vars == <<component, accountVars, vehicleVars, documentVars, presenceVars, selectionVars,
          lookupVars, deskVars, optionVars, pricingVars, reqVars>>

\* A component that rests has one state.
Init ==
  /\ component \in Components /\ RequestsInit
  /\ AccountsInit  /\ (component # "accounts"  => Registered = {})
  /\ DocumentsInit /\ (component # "documents" => docs = {} /\ info.vehicle = None)
  /\ PresenceInit  /\ (component # "presence"  => rows = {})
  /\ SelectionInit /\ (component # "selection" =>
                         \A r \in Drivers : drivers[r].place = 0 /\ drivers[r].load = 0)
  /\ DeskInit      /\ (component # "desk"      => desk = {})
  /\ OptionsInit   /\ (component # "options"   => options = {})
  /\ VehiclesInit /\ LookupsInit /\ PricingInit

Next ==
  /\ UNCHANGED component
  /\ IF component = "accounts"  THEN AccountsNext  ELSE UNCHANGED accountVars
  /\ IF component = "vehicles"  THEN VehiclesNext  ELSE UNCHANGED vehicleVars
  /\ IF component = "documents" THEN DocumentsNext ELSE UNCHANGED documentVars
  /\ IF component = "presence"  THEN PresenceNext  ELSE UNCHANGED presenceVars
  /\ IF component = "selection" THEN SelectionNext ELSE UNCHANGED selectionVars
  /\ IF component = "lookups"   THEN LookupsNext   ELSE UNCHANGED lookupVars
  /\ IF component = "desk"      THEN DeskNext      ELSE UNCHANGED deskVars
  /\ IF component = "options"   THEN OptionsNext   ELSE UNCHANGED optionVars
  /\ IF component = "pricing"   THEN PricingNext   ELSE UNCHANGED pricingVars
  /\ calls' <= Budget[component]

Spec == Init /\ [][Next]_vars
=============================================================================
