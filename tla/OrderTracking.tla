---------------------------- MODULE OrderTracking ----------------------------
(***************************************************************************)
(* OrderService: addOrderTracking with the reward it pays, rewardRider on  *)
(* its own, removeOrderTracking and markDestinationDelivered.              *)
(***************************************************************************)
EXTENDS OrderStore

\* Operators named X_<what> here and in OrderDispatch are mutants: X changed the
\* way a plausible bug would.  A property no mutant violates would be worth
\* nothing.

\* mutant: an accepted order need not be picked up
Successors_skipped ==
  [s \in Status |->
     CASE s = "PENDING"   -> {"ACCEPTED"}
       [] s = "ACCEPTED"  -> {"PICKED_UP", "TRANSIT"}
       [] s = "PICKED_UP" -> {"TRANSIT"}
       [] s = "TRANSIT"   -> {"DELIVERED"}
       [] OTHER           -> {}]

\* transitions of addOrderTracking; CANCELLED is added to each by Allowed.  The comment
\* above them calls TRANSIT optional; the table makes it the only way to DELIVERED.
Successors ==
  [s \in Status |->
     CASE s = "PENDING"   -> {"ACCEPTED"}
       [] s = "ACCEPTED"  -> {"PICKED_UP"}
       [] s = "PICKED_UP" -> {"TRANSIT"}
       [] s = "TRANSIT"   -> {"DELIVERED"}
       [] OTHER           -> {}]

\* mutants: any status after a row that is not CANCELLED
Allowed_unordered(s, rows) ==
  rows = {} \/ \E x \in rows : Latest(x, rows) /\ x.status # "CANCELLED"

\* ... createdAt ASC for DESC
Allowed_oldest(s, rows) ==
  \/ rows = {} /\ s \in {"PENDING", "CANCELLED"}
  \/ \E x \in rows : /\ \A y \in rows : x.at <= y.at
                     /\ s \in Successors[x.status] \cup {"CANCELLED"}

\* May a row with status s follow the committed rows of an order?
Allowed(s, rows) ==
  \/ rows = {} /\ s \in {"PENDING", "CANCELLED"}
  \/ \E x \in rows : /\ Latest(x, rows)
                     /\ x.status # "CANCELLED"
                     /\ s \in Successors[x.status] \cup {"CANCELLED"}

-----------------------------------------------------------------------------
(* addOrderTracking(o, s), called by POST /tracking and by an acceptance    *)

PostTracking(q, o, s, t) ==
  /\ "track" \in Ops /\ Free(q) /\ o \in created /\ s \in Posted
  /\ StartsAt(t)
  /\ Becomes(q, [Idle EXCEPT !.pc = "order", !.op = "track", !.order = o,
                             !.status = s, !.at = t])
  /\ UNCHANGED <<table, faults>>

\* mutant: one delivered destination is enough
LoadOrder_anyStop(q) ==
  LET r == req[q] IN
  /\ r.pc = "order"
  /\ IF r.status = "DELIVERED" /\ Multiple(r.order) /\ delivered[r.order] = {}
       THEN Finish(q)
       ELSE Goto(q, "exists")
  /\ UNCHANGED <<table, faults>>

\* the order with its destinations
LoadOrder(q) ==
  LET r == req[q] IN
  /\ r.pc = "order"
  /\ IF r.status = "DELIVERED" /\ Multiple(r.order)
                               /\ delivered[r.order] # stops[r.order]
       THEN Finish(q)
       ELSE Goto(q, "exists")
  /\ UNCHANGED <<table, faults>>

\* mutant: an acceptance takes the refusal for a success and charges
CheckDuplicate_charges(q) ==
  LET r == req[q] IN
  /\ r.pc = "exists"
  /\ IF \E x \in tracking[r.order] : x.status = r.status
       THEN IF r.op = "accept" THEN Goto(q, "charge") ELSE Finish(q)
       ELSE Goto(q, "latest")
  /\ UNCHANGED <<table, faults>>

CheckDuplicate(q) ==
  LET r == req[q] IN
  /\ r.pc = "exists"
  /\ IF \E x \in tracking[r.order] : x.status = r.status
       THEN Finish(q)
       ELSE Goto(q, "latest")
  /\ UNCHANGED <<table, faults>>

CheckTransition(q) ==
  LET r == req[q] IN
  /\ r.pc = "latest"
  /\ IF Allowed(r.status, tracking[r.order])
       THEN Goto(q, "insert")
       ELSE Finish(q)
  /\ UNCHANGED <<table, faults>>

\* mutant: no unique index
InsertRow_noIndex(q) ==
  /\ req[q].pc = "insert"
  /\ Goto(q, IF req[q].status = "DELIVERED" THEN "reward" ELSE "commit")
  /\ UNCHANGED <<table, faults>>

\* The unique index on (orderId, status) makes the insert wait for another
\* transaction's uncommitted row, and fail on a committed one.
InsertRow(q) ==
  LET r == req[q] IN
  /\ r.pc = "insert"
  /\ \A p \in Procs : \A x \in Uncommitted(p) :
       ~(req[p].order = r.order /\ x.status = r.status)
  /\ \/ /\ \E x \in tracking[r.order] : x.status = r.status
        /\ Finish(q)
     \/ /\ \A x \in tracking[r.order] : x.status # r.status
        /\ Goto(q, IF r.status = "DELIVERED" THEN "reward" ELSE "commit")
  /\ UNCHANGED <<table, faults>>

\* mutants: hasRewardedRider is not looked at; an error of rewardRider is
\* swallowed and the row committed; the flag is set outside the transaction
CheckReward_again(q) ==
  LET row == orders[req[q].order] IN
  /\ req[q].pc = "reward"
  /\ IF row.rider # None
       THEN Becomes(q, [req[q] EXCEPT !.pc = "commit", !.rider = row.rider])
       ELSE Finish(q)
  /\ UNCHANGED <<table, faults>>

CheckReward_swallowed(q) ==
  LET r == req[q]
      row == orders[r.order]
  IN
  /\ r.pc = "reward"
  /\ IF row.rider # None /\ ~row.rewarded
       THEN /\ Becomes(q, [r EXCEPT !.pc = "commit", !.rider = row.rider])
            /\ UNCHANGED tracking
       ELSE /\ Finish(q)
            /\ tracking' = [tracking EXCEPT ![r.order] = @ \cup Uncommitted(q)]
  /\ UNCHANGED <<created, cash, orders, stops, delivered, gone, credits, charges,
                 refused, faults>>

CheckReward_flagFirst(q) ==
  LET r == req[q]
      row == orders[r.order]
  IN
  /\ r.pc = "reward"
  /\ row.rider # None /\ ~row.rewarded
  /\ Becomes(q, [r EXCEPT !.pc = "commit", !.rider = row.rider])
  /\ orders' = [orders EXCEPT ![r.order].rewarded = TRUE]
  /\ UNCHANGED <<created, cash, stops, delivered, tracking, gone, credits, charges,
                 refused, faults>>

\* rewardRider: one query reads the order with its latest tracking row, the
\* row of this transaction included; then the wallet of order.riderId is
\* looked up, and for a rider outside HasWallet found or not.
CheckReward(q) ==
  LET r == req[q]
      row == orders[r.order]
      due == /\ row.rider # None
             /\ \E x \in tracking[r.order] \cup Uncommitted(q) :
                  /\ Latest(x, tracking[r.order] \cup Uncommitted(q))
                  /\ x.status = "DELIVERED"
             /\ ~row.rewarded
  IN
  /\ r.pc = "reward"
  /\ \/ due /\ Becomes(q, [r EXCEPT !.pc = "commit", !.rider = row.rider])
     \/ ~(due /\ row.rider \in HasWallet) /\ Finish(q)
  /\ UNCHANGED <<table, faults>>

\* mutant: hasRewardedRider is not set
Commit_unflagged(q) ==
  LET r == req[q]
      o == r.order
  IN
  /\ r.pc = "commit"
  /\ tracking' = [tracking EXCEPT ![o] = @ \cup Uncommitted(q)]
  /\ IF r.status = "DELIVERED"
       THEN credits' = [credits EXCEPT ![o] = @ \cup {[rider |-> r.rider, at |-> r.at]}]
       ELSE UNCHANGED credits
  /\ IF r.op = "accept" /\ cash[o] THEN Goto(q, "charge") ELSE Finish(q)
  /\ UNCHANGED <<created, cash, orders, stops, delivered, gone, charges, refused, faults>>

\* Credit the wallet and set hasRewardedRider (a reward), then commit the
\* inserted row.  An acceptance of a cash order goes on to the service charge.
Commit(q) ==
  LET r == req[q]
      o == r.order
  IN
  /\ r.pc = "commit"
  /\ tracking' = [tracking EXCEPT ![o] = @ \cup Uncommitted(q)]
  /\ IF r.status = "DELIVERED"
       THEN /\ credits' = [credits EXCEPT
                             ![o] = @ \cup {[rider |-> r.rider, at |-> r.at]}]
            /\ orders'  = [orders EXCEPT ![o].rewarded = TRUE]
       ELSE UNCHANGED <<credits, orders>>
  /\ IF r.op = "accept" /\ cash[o] THEN Goto(q, "charge") ELSE Finish(q)
  /\ UNCHANGED <<created, cash, stops, delivered, gone, charges, refused, faults>>

\* POST /:id/reward runs rewardRider in a transaction of its own.
PostReward(q, o, t) ==
  /\ "reward" \in Ops /\ Free(q) /\ o \in created
  /\ StartsAt(t)
  /\ Becomes(q, [Idle EXCEPT !.pc = "reward", !.op = "reward", !.order = o,
                             !.status = "DELIVERED", !.at = t])
  /\ UNCHANGED <<table, faults>>

-----------------------------------------------------------------------------
(* removeOrderTracking: find the row by id, then delete it                  *)

LoadRow(q, o, x) ==
  /\ "remove" \in Ops /\ Free(q) /\ x \in tracking[o]
  /\ Becomes(q, [Idle EXCEPT !.pc = "delete", !.op = "remove", !.order = o,
                             !.status = x.status, !.at = x.at])
  /\ UNCHANGED <<table, faults>>

DeleteRow(q) ==
  LET r == req[q] IN
  /\ r.pc = "delete"
  /\ tracking' = [tracking EXCEPT
                    ![r.order] = @ \ {[status |-> r.status, at |-> r.at]}]
  /\ gone'     = [gone EXCEPT ![r.order] = @ \cup {r.status}]
  /\ Finish(q)
  /\ UNCHANGED <<created, cash, orders, stops, delivered, credits, charges,
                 refused, faults>>

-----------------------------------------------------------------------------
(* markDestinationDelivered: the destination is read, then saved            *)

LoadDestination(q, o, d) ==
  /\ "delivered" \in Ops /\ Free(q) /\ d \in stops[o] \ delivered[o]
  /\ Becomes(q, [Idle EXCEPT !.pc = "mark", !.op = "delivered", !.order = o,
                             !.dest = d])
  /\ UNCHANGED <<table, faults>>

SaveDestination(q) ==
  LET r == req[q] IN
  /\ r.pc = "mark"
  /\ delivered' = [delivered EXCEPT ![r.order] = @ \cup {r.dest}]
  /\ Finish(q)
  /\ UNCHANGED <<created, cash, orders, stops, tracking, gone, credits,
                 charges, refused, faults>>

-----------------------------------------------------------------------------
StartTracking(q) ==
  \E o \in created :
    \/ \E s \in Posted, t \in Times : PostTracking(q, o, s, t)
    \/ \E t \in Times : PostReward(q, o, t)
    \/ \E x \in tracking[o] : LoadRow(q, o, x)
    \/ \E d \in stops[o] : LoadDestination(q, o, d)

StepTracking(q) ==
  \/ LoadOrder(q) \/ CheckDuplicate(q) \/ CheckTransition(q) \/ InsertRow(q)
  \/ CheckReward(q) \/ Commit(q) \/ DeleteRow(q) \/ SaveDestination(q)
=============================================================================
