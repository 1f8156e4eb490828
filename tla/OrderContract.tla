---------------------------- MODULE OrderContract ----------------------------
(***************************************************************************)
(* What the order subsystem promises about one order, whatever requests    *)
(* race, fail or crash: each call that changes the order is one atomic     *)
(* step.  An order only moves to a status whose predecessor it has reached *)
(* (or had reached, before the row was removed; TRANSIT is one on the way, *)
(* as the code has it and its comment has not), reaches each status once,  *)
(* is DELIVERED only when all its destinations are, and its delivery and   *)
(* the rider's reward are one step.                                        *)
(***************************************************************************)
CONSTANTS Orders, Destinations, Payments

Before == [ACCEPTED  |-> "PENDING",   PICKED_UP |-> "ACCEPTED",
           TRANSIT   |-> "PICKED_UP", DELIVERED |-> "TRANSIT"]

VARIABLES placed, stops, arrived, reached, removed, paid

vars == <<placed, stops, arrived, reached, removed, paid>>

Init ==
  /\ placed  = {}
  /\ stops   = [o \in Orders |-> {}]
  /\ arrived = [o \in Orders |-> {}]
  /\ reached = [o \in Orders |-> {}]
  /\ removed = [o \in Orders |-> {}]
  /\ paid    = [o \in Orders |-> {}]

Place(o, S) ==
  /\ o \notin placed
  /\ placed'  = placed \cup {o}
  /\ stops'   = [stops EXCEPT ![o] = S]
  /\ reached' = [reached EXCEPT ![o] = {"PENDING"}]
  /\ UNCHANGED <<arrived, removed, paid>>

Advance(o, s) ==
  /\ o \in placed
  /\ s \notin reached[o] \cup {"DELIVERED"}
  /\ s \in DOMAIN Before => Before[s] \in reached[o] \cup removed[o]
  /\ reached' = [reached EXCEPT ![o] = @ \cup {s}]
  /\ UNCHANGED <<placed, stops, arrived, removed, paid>>

Deliver(o, p) ==
  /\ "DELIVERED" \notin reached[o]
  /\ Before["DELIVERED"] \in reached[o] \cup removed[o]
  /\ (\E d, e \in stops[o] : d # e) => arrived[o] = stops[o]
  /\ p \notin paid[o]
  /\ reached' = [reached EXCEPT ![o] = @ \cup {"DELIVERED"}]
  /\ paid'    = [paid EXCEPT ![o] = @ \cup {p}]
  /\ UNCHANGED <<placed, stops, arrived, removed>>

\* a reward paid on request, for an order delivered before
Settle(o, p) ==
  /\ "DELIVERED" \in reached[o] \cup removed[o]
  /\ p \notin paid[o]
  /\ paid' = [paid EXCEPT ![o] = @ \cup {p}]
  /\ UNCHANGED <<placed, stops, arrived, reached, removed>>

Arrive(o, d) ==
  /\ d \in stops[o]
  /\ arrived' = [arrived EXCEPT ![o] = @ \cup {d}]
  /\ UNCHANGED <<placed, stops, reached, removed, paid>>

Remove(o, s) ==
  /\ s \in reached[o]
  /\ reached' = [reached EXCEPT ![o] = @ \ {s}]
  /\ removed' = [removed EXCEPT ![o] = @ \cup {s}]
  /\ UNCHANGED <<placed, stops, arrived, paid>>

Next ==
  \E o \in Orders :
    \/ \E S \in SUBSET Destinations : Place(o, S)
    \/ \E s \in DOMAIN Before \cup {"PENDING", "CANCELLED"} :
         Advance(o, s) \/ Remove(o, s)
    \/ \E p \in Payments : Deliver(o, p) \/ Settle(o, p)
    \/ \E d \in Destinations : Arrive(o, d)

Spec == Init /\ [][Next]_vars
=============================================================================
