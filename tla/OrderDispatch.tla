---------------------------- MODULE OrderDispatch ----------------------------
(***************************************************************************)
(* How an order gets a rider: order creation, PUT /:id/assign-rider, the   *)
(* scheduled job and the rider's answer (handleRiderFeedback).             *)
(***************************************************************************)
EXTENDS OrderStore

(* createMultipleDeliveryOrder: one transaction inserts the order, a        *)
(* destination per location and the PENDING row; no other request knows     *)
(* the order before it commits.  Then a rider is looked for.                *)
CreateOrder(q, o, S, isCash, t) ==
  /\ "create" \in Ops /\ Free(q) /\ o \notin created /\ S # {}
  /\ StartsAt(t)
  /\ Becomes(q, [Idle EXCEPT !.pc = "assign", !.op = "create", !.order = o])
  /\ created'  = created \cup {o}
  /\ cash'     = [cash EXCEPT ![o] = isCash]
  /\ stops'    = [stops EXCEPT ![o] = S]
  /\ tracking' = [tracking EXCEPT
                    ![o] = {[status |-> "PENDING", at |-> t]}]
  /\ UNCHANGED <<orders, delivered, gone, credits, charges, refused, faults>>

-----------------------------------------------------------------------------
(* assignRiderToOrder                                                       *)

PutAssign(q, o) ==
  /\ "assign" \in Ops /\ Free(q) /\ o \in created
  /\ Becomes(q, [Idle EXCEPT !.pc = "assign", !.op = "assign", !.order = o])
  /\ UNCHANGED <<table, faults>>

LoadDeclined(q) ==
  LET r == req[q] IN
  /\ r.pc = "assign"
  /\ Becomes(q, [r EXCEPT !.pc = "pick",
                          !.excluded = orders[r.order].declined])
  /\ UNCHANGED <<table, faults>>

\* getRiderForOrder(excluded) returns some eligible rider: riders come online,
\* move, get busy and go offline at will, except that those of Steady are
\* always eligible (below MAX_ACTIVE_ORDERS when the first query looks).
PickRider(q, rider) ==
  /\ req[q].pc = "pick"
  /\ rider \notin req[q].excluded
  /\ Becomes(q, [req[q] EXCEPT !.pc = "update", !.rider = rider])
  /\ UNCHANGED <<table, faults>>

\* ... or nobody, and the order stays as it is.
PickNobody(q) ==
  /\ req[q].pc = "pick"
  /\ Steady \subseteq req[q].excluded
  /\ Finish(q)
  /\ UNCHANGED <<table, faults>>

\* assignRider: an update of the rider columns alone
UpdateRider(q) ==
  LET r == req[q] IN
  /\ r.pc = "update"
  /\ orders' = [orders EXCEPT ![r.order].rider    = r.rider,
                              ![r.order].assigned = TRUE]
  /\ Finish(q)
  /\ UNCHANGED <<created, cash, stops, delivered, tracking, gone, credits,
                 charges, refused, faults>>

-----------------------------------------------------------------------------
(* assignRidersToUnassignedOrders                                           *)

\* mutants: only orders still PENDING are looked at; the list is not used up
CronStart_pending ==
  /\ req[Cron].pc = "idle"
  /\ Becomes(Cron, [Idle EXCEPT
       !.pc = "next", !.op = "cron",
       !.todo = {o \in created : /\ ~orders[o].assigned
                                 /\ \A x \in tracking[o] : x.status = "PENDING"}])
  /\ UNCHANGED <<table, faults>>

CronNext_again ==
  LET r == req[Cron] IN
  /\ r.pc = "next"
  /\ \/ /\ r.todo = {}
        /\ Becomes(Cron, Idle)
     \/ \E o \in r.todo :
          Becomes(Cron, [r EXCEPT !.pc = "assign", !.order = o])
  /\ UNCHANGED <<table, faults>>

CronStart ==
  /\ req[Cron].pc = "idle"
  /\ Becomes(Cron, [Idle EXCEPT
       !.pc = "next", !.op = "cron",
       !.todo = {o \in created : ~orders[o].assigned}])
  /\ UNCHANGED <<table, faults>>

CronNext ==
  LET r == req[Cron] IN
  /\ r.pc = "next"
  /\ \/ /\ r.todo = {}
        /\ Becomes(Cron, Idle)
     \/ \E o \in r.todo :
          Becomes(Cron, [r EXCEPT !.pc = "assign", !.order = o,
                                  !.todo = @ \ {o}])
  /\ UNCHANGED <<table, faults>>

-----------------------------------------------------------------------------
(* handleRiderFeedback: the order must be assigned to the rider who answers *)

Accept(q, o, rider) ==
  /\ "accept" \in Ops /\ Free(q) /\ o \in created
  /\ orders[o].rider = rider
  /\ Becomes(q, [Idle EXCEPT !.pc = "begin", !.op = "accept", !.order = o,
                             !.rider = rider, !.status = "ACCEPTED"])
  /\ UNCHANGED <<table, faults>>

\* addOrderTracking opens its transaction
BeginAccept(q, t) ==
  /\ req[q].pc = "begin"
  /\ StartsAt(t)
  /\ Becomes(q, [req[q] EXCEPT !.pc = "order", !.at = t])
  /\ UNCHANGED <<table, faults>>

\* deductServiceChargeFromRider: the wallet is found or else created, which may
\* fail, then one atomic decrement; an error is swallowed
Charge(q) ==
  LET r == req[q] IN
  /\ r.pc = "charge"
  /\ \/ charges' = [charges EXCEPT
              ![r.order] = @ \cup {[rider |-> r.rider, at |-> r.at]}]
     \/ r.rider \notin HasWallet /\ UNCHANGED charges
  /\ Finish(q)
  /\ UNCHANGED <<created, cash, orders, stops, delivered, tracking, gone,
                 credits, refused, faults>>

\* mutant: riderId is cleared before it is added to declinedRiderIds
Decline_swapped(q, o, rider) ==
  LET row == orders[o] IN
  /\ "decline" \in Ops /\ Free(q) /\ o \in created
  /\ row.rider = rider
  /\ Becomes(q, [Idle EXCEPT
       !.pc = "diff", !.op = "decline", !.order = o, !.rider = rider,
       !.snap = [row EXCEPT !.declined = @ \cup {None}, !.rider = None,
                            !.assigned = FALSE]])
  /\ UNCHANGED <<table, faults>>

\* The entity read here is changed in memory and saved as a whole later.
Decline(q, o, rider) ==
  LET row == orders[o] IN
  /\ "decline" \in Ops /\ Free(q) /\ o \in created
  /\ row.rider = rider
  /\ Becomes(q, [Idle EXCEPT
       !.pc = "diff", !.op = "decline", !.order = o, !.rider = rider,
       !.snap = [row EXCEPT !.declined = @ \cup {rider}, !.rider = None,
                            !.assigned = FALSE]])
  /\ UNCHANGED <<table, faults>>

\* repository.save selects the row again and compares column by column ...
SaveDiff(q) ==
  LET r == req[q] IN
  /\ r.pc = "diff"
  /\ Becomes(q, [r EXCEPT !.pc = "write",
       !.diff = {c \in Columns : r.snap[c] # orders[r.order][c]}])
  /\ UNCHANGED <<table, faults>>

\* mutant: riderId is set to undefined, which save skips, and not to null
Overwrite_undefined(row, snap, diff) ==
  [row EXCEPT !.assigned = IF "assigned" \in diff THEN snap.assigned ELSE @,
              !.declined = IF "declined" \in diff THEN snap.declined ELSE @,
              !.rewarded = IF "rewarded" \in diff THEN snap.rewarded ELSE @]

Overwrite(row, snap, diff) ==
  [rider    |-> IF "rider"    \in diff THEN snap.rider    ELSE row.rider,
   assigned |-> IF "assigned" \in diff THEN snap.assigned ELSE row.assigned,
   declined |-> IF "declined" \in diff THEN snap.declined ELSE row.declined,
   rewarded |-> IF "rewarded" \in diff THEN snap.rewarded ELSE row.rewarded]

\* ... and updates the columns that differ; then looks for another rider.
SaveWrite(q) ==
  LET r == req[q] IN
  /\ r.pc = "write"
  /\ orders' = [orders EXCEPT ![r.order] = Overwrite(@, r.snap, r.diff)]
  /\ refused' = [refused EXCEPT ![r.order] = @ \cup {r.rider}]
  /\ Becomes(q, [r EXCEPT !.pc = "pick", !.excluded = r.snap.declined,
                          !.rider = None, !.snap = NewOrder, !.diff = {}])
  /\ UNCHANGED <<created, cash, stops, delivered, tracking, gone, credits,
                 charges, faults>>

-----------------------------------------------------------------------------
StartDispatch(q) ==
  \/ \E o \in Orders, S \in SUBSET Destinations, isCash \in BOOLEAN, t \in Times :
       CreateOrder(q, o, S, isCash, t)
  \/ \E o \in created : PutAssign(q, o)
  \/ \E o \in created, rider \in Riders : Accept(q, o, rider)
  \/ \E o \in created, rider \in Riders : Decline(q, o, rider)

StepDispatch(q) ==
  \/ LoadDeclined(q) \/ PickNobody(q) \/ UpdateRider(q)
  \/ \E rider \in Riders : PickRider(q, rider)
  \/ \E t \in Times : BeginAccept(q, t)
  \/ Charge(q) \/ SaveDiff(q) \/ SaveWrite(q)
=============================================================================
