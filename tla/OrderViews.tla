----------------------------- MODULE OrderViews -----------------------------
(***************************************************************************)
(* What a rider is shown of the order tables.  Every such query joins an   *)
(* order with its latest tracking row; pages and date ranges are left out. *)
(***************************************************************************)
EXTENDS OrderLifecycle

\* LATEST_TRACKING_JOIN_CLAUSE, for the orders of r whose latest status is in set
Joined(r, set) ==
  {o \in created : /\ orders[o].rider = r
                   /\ \E x \in tracking[o] : Latest(x, tracking[o]) /\ x.status \in set}

CompletedUnrewardedOrders(r) == {o \in Joined(r, {"DELIVERED"}) : ~orders[o].rewarded}

\* order.service.ts:610 "To get orders that are delivered but not yet paid/rewarded to
\* rider": there is no such order.  A DELIVERED row commits with the credit and the flag,
\* so whatever is in the list has been paid, and its flag was overwritten by the stale save
\* of a decline; POST /:id/reward of an order in the list pays it twice.
UnrewardedListIsStale ==
  \A r \in Riders : \A o \in CompletedUnrewardedOrders(r) :
    credits[o] # {} /\ refused[o] # {}
=============================================================================
