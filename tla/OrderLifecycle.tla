--------------------------- MODULE OrderLifecycle ---------------------------
(***************************************************************************)
(* The order subsystem: tracking, rewards and dispatch over one database,  *)
(* with any number of requests in flight, the scheduled job, failing       *)
(* queries and process crashes.                                            *)
(***************************************************************************)
EXTENDS OrderTracking, OrderDispatch

Start(q) == StartTracking(q) \/ StartDispatch(q)
Step(q)  == StepTracking(q) \/ StepDispatch(q)

Next ==
  \/ \E q \in Clients : Start(q)
  \/ \E q \in Procs : Step(q) \/ Fail(q)
  \/ CronStart
  \/ CronNext
  \/ Crash

Spec == Init /\ [][Next]_vars

\* The event loop resumes a request whose query has answered, and the cron
\* timer fires again and again; clients and faults are under no obligation.
Fairness ==
  /\ \A q \in Procs : WF_vars(Step(q))
  /\ WF_vars(CronStart) /\ WF_vars(CronNext)

FairSpec == Spec /\ Fairness

-----------------------------------------------------------------------------
(* Safety                                                                   *)

\* The requests that run addOrderTracking
Tracks(q) == req[q].op \in {"track", "accept"}

HasStatus(o, s)  == \E x \in tracking[o] : x.status = s
EverReached(o, s) == HasStatus(o, s) \/ s \in gone[o]

\* Every status past PENDING was reached through its predecessor in the code's
\* transitions, however many addOrderTracking transactions overlap: the check of
\* "latest" holds for the row that is finally inserted (rows removed by DELETE
\* /tracking count).  That includes TRANSIT: no order is DELIVERED without it,
\* although the comment at order.service.ts:300 says "Enforce sequential tracking
\* transitions with optional TRANSIT and CANCELLED allowed anytime".
ChainClosed ==
  \A o \in Orders : \A s \in Status : \A next \in Successors[s] :
    EverReached(o, next) => EverReached(o, s)

\* The destinations checked before the duplicate and transition queries are
\* still all delivered when the DELIVERED row of a multiple-delivery order
\* commits.
DeliveredAllStops ==
  \A o \in Orders :
    EverReached(o, "DELIVERED") /\ Multiple(o) => delivered[o] = stops[o]

\* A DELIVERED row and its rider's credit commit together or not at all: no
\* failure, crash or race leaves a delivery unpaid.
DeliveryPaid ==
  \A o \in Orders : \A x \in tracking[o] :
    x.status = "DELIVERED" => \E c \in credits[o] : c.at = x.at

\* hasRewardedRider is set only by a transaction that credits the wallet, and
\* a stale order entity saved later never invents it.
RewardedFlagIsTrue ==
  \A o \in Orders : orders[o].rewarded => credits[o] # {}

\* rewardRider: an order's reward is credited at most once, whichever of the
\* DELIVERED transaction and POST /:id/reward get there first.
RewardOnce == \A o \in Orders : \A c, d \in credits[o] : c = d

\* riderAssigned and riderId never disagree, although assignments and stale
\* saves of the order entity overwrite each other: an order without a rider
\* is always visible to the scheduled job, which looks at riderAssigned.
AssignedIffRider ==
  \A o \in Orders : orders[o].assigned <=> orders[o].rider # None

\* The service charge of a cash order is taken once per committed ACCEPTED row,
\* however many acceptances race or are repeated.
ChargeOnce ==
  \A o \in Orders : \A c \in charges[o] :
    /\ \/ "ACCEPTED" \in gone[o]
       \/ [status |-> "ACCEPTED", at |-> c.at] \in tracking[o]
    /\ \A d \in charges[o] : d.at = c.at => d = c

\* CANCELLED is the latest row, and no request that has passed the check of an
\* earlier one is about to insert.
Closed(o) ==
  /\ \E x \in tracking[o] : Latest(x, tracking[o]) /\ x.status = "CANCELLED"
  /\ ~\E q \in Procs : /\ req[q].order = o /\ Tracks(q)
                       /\ req[q].pc \in {"insert", "reward", "commit"}

\* A cancelled order stays closed once the transactions that overlapped the
\* cancellation have ended: neither a rider who accepts late nor a transaction
\* begun before can reopen it, only DELETE /tracking of the CANCELLED row can.
CancelSettles ==
  [][\A o \in Orders : Closed(o) => Closed(o)' \/ ~HasStatus(o, "CANCELLED")']_vars

-----------------------------------------------------------------------------
(* The inductive invariant behind the safety properties                     *)

\* A request inside a transaction of addOrderTracking, or of a reward, or in
\* the service charge that follows
InTx(q) == req[q].pc \in {"order", "exists", "latest", "insert", "reward",
                          "commit", "charge"}

\* Past the check of the destinations, past the check of the latest row, and
\* with its row inserted
PastStops(q)  == req[q].pc \in {"exists", "latest", "insert", "reward", "commit"}
PastLatest(q) == req[q].pc \in {"insert", "reward", "commit"}
Inserted(q)   == req[q].pc \in {"reward", "commit"} /\ Tracks(q)

\* What a request has checked stays true until it uses it.
CheckedStops(q) ==
  PastStops(q) /\ Tracks(q) /\ req[q].status = "DELIVERED" /\ Multiple(req[q].order)
    => delivered[req[q].order] = stops[req[q].order]

CheckedChain(q) ==
  PastLatest(q) /\ Tracks(q) =>
    \A s \in Status : req[q].status \in Successors[s] =>
      EverReached(req[q].order, s)

CheckedUnique(q) == Inserted(q) => ~HasStatus(req[q].order, req[q].status)

CheckedReward(q) ==
  /\ req[q].pc = "commit" /\ req[q].status = "DELIVERED" => req[q].rider \in Riders
  /\ req[q].pc = "commit" /\ req[q].op = "reward" =>
       EverReached(req[q].order, "DELIVERED")

\* The row a removal has found was there.
Found(q) ==
  req[q].pc = "delete" =>
    \/ [status |-> req[q].status, at |-> req[q].at] \in tracking[req[q].order]
    \/ req[q].status \in gone[req[q].order]

\* A service charge follows a committed acceptance.
ChargeIsDue(q) ==
  req[q].pc = "charge" =>
    \/ [status |-> "ACCEPTED", at |-> req[q].at] \in tracking[req[q].order]
    \/ "ACCEPTED" \in gone[req[q].order]

\* A stale order entity never separates riderId from riderAssigned, and knows
\* only rewards that were paid.
StaleSave(q) ==
  /\ req[q].pc \in {"diff", "write"} =>
       /\ req[q].op = "decline" /\ req[q].rider \in Riders
       /\ req[q].snap.rider = None /\ ~req[q].snap.assigned
       /\ req[q].snap.rewarded => credits[req[q].order] # {}
  /\ req[q].pc = "write" =>
       ("rider" \in req[q].diff <=> "assigned" \in req[q].diff)

\* Which handler can be where, with which arguments
Shape(q) ==
  /\ req[q].op \in Ops \cup {"cron", None}
  /\ req[q].op = "accept" => req[q].status = "ACCEPTED" /\ req[q].rider \in Riders
  /\ req[q].op = "reward" => req[q].status = "DELIVERED"
  /\ InTx(q) => /\ req[q].status \in Status
                /\ Tracks(q) \/ (req[q].op = "reward" /\ req[q].pc \in {"reward", "commit"})
  /\ req[q].pc = "delete" => req[q].status \in Status
  /\ req[q].pc = "mark"   => req[q].dest \in stops[req[q].order]
  /\ req[q].pc \in {"begin", "charge"} => req[q].op = "accept"
  /\ req[q].pc = "update" => req[q].rider \in Riders

RequestInv(q) ==
  /\ Shape(q) /\ CheckedStops(q) /\ CheckedChain(q) /\ CheckedUnique(q)
  /\ CheckedReward(q) /\ Found(q) /\ ChargeIsDue(q) /\ StaleSave(q)

\* The unique index: one row per order and status, one transaction inserting it
UniqueRows ==
  /\ \A o \in Orders : \A x, y \in tracking[o] : x.status = y.status => x = y
  /\ \A p, q \in Procs :
       /\ Inserted(p) /\ Inserted(q)
       /\ req[p].order = req[q].order /\ req[p].status = req[q].status
       => p = q

\* Transactions have start times of their own, and what they pay is paid last.
OwnTime ==
  \A q \in Procs : InTx(q) =>
    /\ \A p \in Procs : InTx(p) /\ req[p].at = req[q].at => p = q
    /\ \A o \in Orders : \A c \in credits[o] \cup charges[o] : c.at # req[q].at

\* Nothing exists of an order that has not been created.
Placed ==
  /\ \A o \in Orders \ created :
       /\ tracking[o] = {} /\ gone[o] = {} /\ delivered[o] = {}
       /\ credits[o] = {} /\ orders[o] = NewOrder
  /\ \A o \in Orders : delivered[o] \subseteq stops[o]

TableInv ==
  /\ Placed /\ ChainClosed /\ DeliveredAllStops /\ DeliveryPaid
  /\ RewardedFlagIsTrue /\ AssignedIffRider /\ ChargeOnce

IInv ==
  /\ TypeOK
  /\ TableInv
  /\ UniqueRows /\ OwnTime
  /\ \A q \in Procs : RequestInv(q)

\* Without declines no stale order entity is saved, and the reward flag of the
\* row guards the payment.
NoStaleReward ==
  /\ \A o \in Orders :
       /\ credits[o] # {} <=> orders[o].rewarded
       /\ HasStatus(o, "DELIVERED") => orders[o].rewarded
  /\ \A q \in Procs :
       req[q].pc = "commit" /\ req[q].status = "DELIVERED" =>
         Tracks(q) /\ ~orders[req[q].order].rewarded

-----------------------------------------------------------------------------
(* What the code's comments say and concurrent requests break               *)

\* order.service.ts:306 "If already cancelled, no further transitions allowed"
CancelledIsFinal ==
  [][\A o \in Orders :
       HasStatus(o, "CANCELLED") => tracking'[o] \subseteq tracking[o]]_vars

\* order.service.ts:300 "Enforce sequential tracking transitions with optional
\* TRANSIT and CANCELLED allowed anytime": in the order of createdAt, by which the
\* service reads its own rows, each status follows the ones that lead to it.
TimelineFollowsChain ==
  \A o \in Orders : \A x, y \in tracking[o] :
    y.status \in Successors[x.status] => x.at < y.at

\* order.service.ts:779 "Attempt to reassign to a new rider (excluding those who
\* declined)": an order is not given to a rider whose decline has been saved.
DeclineIsRespected ==
  \A o \in Orders : orders[o].rider \notin refused[o]

-----------------------------------------------------------------------------
(* Liveness                                                                 *)

\* Every request is answered: the wait of an insert for another transaction's
\* row ends, and the cron job's list is exhausted.
RequestsEnd == \A q \in Procs : req[q].pc # "idle" ~> req[q].pc = "idle"

\* An order without a rider gets one as long as some rider stays available who
\* has not declined it: no failed assignment or crash strands it.
OrderIsAssigned ==
  \A o \in Orders :
    o \in created /\ orders[o].rider = None
      ~> orders[o].rider # None \/ Steady \subseteq orders[o].declined

-----------------------------------------------------------------------------
(* Refinement: the interleaved handlers implement the atomic contract.      *)

Contract == INSTANCE OrderContract WITH
  Payments <- Credits,
  placed   <- created,
  arrived  <- delivered,
  reached  <- [o \in Orders |-> {x.status : x \in tracking[o]}],
  removed  <- gone,
  paid     <- credits

ImplementsContract == Contract!Spec
=============================================================================
