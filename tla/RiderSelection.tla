--------------------------- MODULE RiderSelection ---------------------------
(***************************************************************************)
(* RiderService.getRiderForOrder: one query for the riders below           *)
(* MAX_ACTIVE_ORDERS, a second one for the others if it finds nobody, at   *)
(* most Limit rows of either, and the closest of them.  No transaction     *)
(* spans the two queries.                                                  *)
(*                                                                         *)
(* A place is the distance from the pick-up location.                      *)
(***************************************************************************)
EXTENDS Requests, FiniteSetsExt

CONSTANTS
  Drivers,     \* riders with a row of active_status
  MaxOrders,   \* MAX_ACTIVE_ORDERS
  Limit,       \* rows a query returns
  Radius,      \* reach of the bounding box
  MaxPlace,    \* bound: places told apart
  Broken       \* a position that is not a number

ASSUME SelectionAssumption ==
  /\ MaxOrders \in Nat \ {0} /\ Limit \in Nat \ {0} /\ Radius \in Nat
  /\ MaxPlace \in Nat /\ Radius < MaxPlace /\ Broken \notin Nat

VARIABLES
  drivers,   \* what the queries join: rider_info, active_status, orders
  answer,    \* the last answer
  pool       \* history: the suitable riders when it was given

selectionVars == <<drivers, answer, pool>>

\* available: approved, active and with a position
Driver == [available : BOOLEAN, place : 0..MaxPlace \cup {Broken}, load : 0..MaxOrders]

\* A search begins in any state, so nothing needs to change before it.
SelectionInit ==
  /\ drivers \in [Drivers -> {d \in Driver : d.available}]
  /\ answer = None /\ pool = None

-----------------------------------------------------------------------------
(* The queries.  A query asks for riders near a location, or without one    *)
(* for any, except those that have declined.                                *)

InBox(r, q) == q.near => drivers[r].place \in 0..Radius

Suitable(q) == {r \in Drivers \ q.declined : drivers[r].available /\ InBox(r, q)}

Below(q)   == {r \in Suitable(q) : drivers[r].load < MaxOrders}
AtLimit(q) == {r \in Suitable(q) : drivers[r].load >= MaxOrders}

\* A broken position cannot be cast to a number, and the database may cast it before
\* it looks at the other conditions.
CastFails(q) == q.near /\ \E r \in Drivers : drivers[r].place = Broken

\* Any Limit of the rows found
Page(found) == IF Cardinality(found) <= Limit THEN {found} ELSE kSubset(Limit, found)

\* findClosestRider keeps the first of equally close candidates, whichever that is.
Closest(rows) == {r \in rows : \A x \in rows : drivers[r].place <= drivers[x].place}

\* Without a location the first row is taken.
Choose(q, rows) == IF q.near THEN Closest(rows) ELSE rows

Reply(q, rider, changed) ==
  /\ answer' = [rider |-> rider, near |-> q.near, changed |-> changed]
  /\ pool' = [free |-> Below(q), busy |-> AtLimit(q)]
  /\ UNCHANGED drivers

\* mutant: the limit of active orders holds for the second query too
Busy_none(q) == {}

Busy(q) == AtLimit(q)

\* A search changes nothing, so one at a time is enough.
Search(c, q) ==
  /\ answer = None /\ Quiescent
  /\ IF Below(q) = {}
     THEN Arrive(c, [pc |-> "busy", query |-> q, seen |-> drivers]) /\ UNCHANGED selectionVars
     ELSE /\ Instant
          /\ \E rows \in Page(Below(q)) : \E r \in Choose(q, rows) : Reply(q, r, FALSE)

SearchBusy(c) ==
  LET r == req[c]
      q == r.query
      changed == drivers # r.seen
  IN
  /\ r.pc = "busy"
  /\ IF Busy(q) = {} THEN Reply(q, None, changed)
     ELSE \E rows \in Page(Busy(q)) : \E x \in Choose(q, rows) : Reply(q, x, changed)
  /\ Finish(c)

SearchFails(c) ==
  /\ req[c].pc = "busy" /\ CastFails(req[c].query)
  /\ Finish(c)
  /\ UNCHANGED selectionVars

\* Riders move, go offline, get or finish orders while a search is between its queries.
DriverChanges(r) ==
  /\ ~Quiescent
  /\ \E d \in Driver :
       /\ Cardinality({k \in DOMAIN d : d[k] # drivers[r][k]}) = 1
       /\ drivers' = [drivers EXCEPT ![r] = d]
  /\ Instant
  /\ UNCHANGED <<answer, pool>>

SelectionNext ==
  \/ \E c \in Clients :
       \/ \E x \in SUBSET Drivers, near \in BOOLEAN : Search(c, [declined |-> x, near |-> near])
       \/ SearchBusy(c) \/ SearchFails(c)
  \/ \E r \in Drivers : DriverChanges(r)

SelectionSpec == SelectionInit /\ RequestsInit /\ [][SelectionNext]_<<selectionVars, reqVars>>

-----------------------------------------------------------------------------
(* Property                                                                *)

\* What dispatch relies on: the closest suitable rider with room for another order, the
\* closest busy one when nobody has room, and nobody only when nobody is suitable, as
\* far as one page holds all candidates.  A rider who finishes or gets an order between
\* the two queries may be passed over by both; then the answer is still the best of the
\* busy riders.
SelectsBestRider ==
  LET best(r, set) == r \in set /\ (Cardinality(set) <= Limit => r \in Choose(answer, set)) IN
  answer # None =>
    \/ best(answer.rider, pool.free)
    \/ /\ pool.free = {} \/ answer.changed
       /\ \/ best(answer.rider, pool.busy)
          \/ answer.rider = None /\ pool.busy = {}
=============================================================================
