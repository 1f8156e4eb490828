----------------------------- MODULE OrderStore -----------------------------
(***************************************************************************)
(* The state shared by every handler of the order subsystem: the rows of   *)
(* the order, delivery_destination and order_tracking tables, and the      *)
(* requests in flight, each with what it has read so far.                  *)
(*                                                                         *)
(* A handler is split where it awaits the database.  Reads see the rows    *)
(* committed at that instant (PostgreSQL READ COMMITTED) and what was read *)
(* is kept in the request.  A transaction's own uncommitted row is a       *)
(* function of the request (Uncommitted); its other writes are statements  *)
(* right before the commit that hold their row locks until it, so they     *)
(* take effect in the commit step: nobody can read or overwrite them in    *)
(* between.                                                                *)
(***************************************************************************)
EXTENDS Naturals, FiniteSets

CONSTANTS
  Orders,        \* order ids
  Riders,        \* users that can be assigned to an order
  Destinations,  \* delivery_destination ids an order may have
  Clients,       \* HTTP requests that can be in flight together
  Cron,          \* the scheduled job, one more request
  None,          \* SQL NULL / undefined
  Ops,           \* handlers the clients of this instance call
  Posted,        \* statuses they post to POST /tracking
  HasWallet,     \* riders with a wallet throughout; others may get one or not
  Steady,        \* riders approved, online, near and not busy throughout
  MaxTime,       \* bound: start times that are told apart at once
  MaxFaults      \* bound: failed requests and process crashes

Handlers == {"create", "track", "accept", "decline", "reward", "assign",
             "delivered", "remove"}

Main    == {"PENDING", "ACCEPTED", "PICKED_UP", "TRANSIT", "DELIVERED"}
Status  == Main \cup {"CANCELLED"}

ASSUME ConstantsAssumption ==
  /\ Cron \notin Clients
  /\ None \notin Orders \cup Riders \cup Destinations \cup Status \cup Handlers
  /\ Ops \subseteq Handlers
  /\ Posted \subseteq Status
  /\ HasWallet \subseteq Riders
  /\ Steady \subseteq Riders
  /\ MaxTime \in Nat
  /\ MaxFaults \in Nat

VARIABLES
  created,    \* orders whose creation committed
  cash,       \* order.isCashPayment
  orders,     \* the columns of the order row that handlers change
  stops,      \* the delivery_destination rows of an order
  delivered,  \* those with delivered = true
  tracking,   \* the committed order_tracking rows of an order
  gone,       \* history: statuses whose row DELETE /tracking/:id deleted
  credits,    \* rewards credited to a rider's wallet for an order
  charges,    \* service charges taken from a rider's wallet for an order
  refused,    \* history: riders whose decline has been saved
  req,        \* the requests in flight
  faults      \* failures so far

table == <<created, cash, orders, stops, delivered, tracking, gone, credits,
           charges, refused>>
vars  == <<table, req, faults>>

-----------------------------------------------------------------------------
Procs   == Clients \cup {Cron}
Times   == 0..MaxTime
Rows    == [status : Status, at : Times]       \* at: createdAt, see StartTx
Credits == [rider : Riders, at : Times]
Columns == {"rider", "assigned", "declined", "rewarded"}
OrderRow == [rider    : Riders \cup {None},    \* riderId
             assigned : BOOLEAN,               \* riderAssigned
             declined : SUBSET Riders,         \* declinedRiderIds
             rewarded : BOOLEAN]               \* hasRewardedRider

NewOrder == [rider |-> None, assigned |-> FALSE, declined |-> {},
             rewarded |-> FALSE]

\* hasMultipleDeliveries, set once from the number of locations
Multiple(o) == \E d, e \in stops[o] : d # e

PCs == {"idle", "begin", "order", "exists", "latest", "insert", "reward",
        "commit", "charge", "diff", "write", "assign", "pick", "update",
        "mark", "delete", "next"}

Request ==
  [pc       : PCs,
   op       : Handlers \cup {"cron", None},
   order    : Orders \cup {None},
   status   : Status \cup {None},
   at       : Times,
   rider    : Riders \cup {None},
   dest     : Destinations \cup {None},
   excluded : SUBSET Riders,     \* declinedRiderIds as the handler read them
   snap     : OrderRow,          \* the order entity handleDecline will save
   diff     : SUBSET Columns,    \* the columns its save found changed
   todo     : SUBSET Orders]     \* what is left of the cron job's list

Idle == [pc |-> "idle", op |-> None, order |-> None, status |-> None, at |-> 0,
         rider |-> None, dest |-> None, excluded |-> {}, snap |-> NewOrder,
         diff |-> {}, todo |-> {}]

TypeOK ==
  /\ created   \subseteq Orders
  /\ cash      \in [Orders -> BOOLEAN]
  /\ orders    \in [Orders -> OrderRow]
  /\ stops     \in [Orders -> SUBSET Destinations]
  /\ delivered \in [Orders -> SUBSET Destinations]
  /\ tracking  \in [Orders -> SUBSET Rows]
  /\ gone      \in [Orders -> SUBSET Status]
  /\ credits   \in [Orders -> SUBSET Credits]
  /\ charges   \in [Orders -> SUBSET Credits]
  /\ refused   \in [Orders -> SUBSET Riders]
  /\ req       \in [Procs -> Request]
  /\ faults    \in Nat
  /\ \A q \in Procs :
       /\ req[q].pc \notin {"idle", "next"} => req[q].order \in created
       /\ req[q].todo \subseteq created

Init ==
  /\ created   = {}
  /\ cash      = [o \in Orders |-> FALSE]
  /\ orders    = [o \in Orders |-> NewOrder]
  /\ stops     = [o \in Orders |-> {}]
  /\ delivered = [o \in Orders |-> {}]
  /\ tracking  = [o \in Orders |-> {}]
  /\ gone      = [o \in Orders |-> {}]
  /\ credits   = [o \in Orders |-> {}]
  /\ charges   = [o \in Orders |-> {}]
  /\ refused   = [o \in Orders |-> {}]
  /\ req       = [q \in Procs |-> Idle]
  /\ faults    = 0

-----------------------------------------------------------------------------
(* Steps of a request                                                      *)

Free(q) == q \in Clients /\ req[q].pc = "idle"

\* q becomes r, or moves on as r
Becomes(q, r) == req' = [req EXCEPT ![q] = r]
Goto(q, pc)   == Becomes(q, [req[q] EXCEPT !.pc = pc])

\* The answer is sent; the cron job catches what one order threw and goes on
\* with the next.
Finish(q) ==
  Becomes(q, IF req[q].op = "cron"
               THEN [Idle EXCEPT !.pc = "next", !.op = "cron",
                                 !.todo = req[q].todo]
               ELSE Idle)

\* Every start time some row or request still refers to.  Times only matter by
\* their order, so the time after the last of them stands for "now": what a
\* rolled back transaction used is used again.
Used ==
  {x.at : x \in UNION {tracking[o] : o \in Orders}}
    \cup {c.at : c \in UNION {credits[o] \cup charges[o] : o \in Orders}}
    \cup {req[q].at : q \in Procs} \cup {0}

\* START TRANSACTION.  now(), the default of createdAt, is the start time of
\* the transaction, so a row's createdAt is fixed before any of its reads.
StartsAt(t) ==
  /\ t \in Times
  /\ t - 1 \in Used
  /\ \A u \in Used : u < t

\* The row a tracking transaction has inserted and not committed yet
Uncommitted(q) ==
  {x \in {[status |-> req[q].status, at |-> req[q].at]} :
     req[q].pc \in {"reward", "commit"} /\ req[q].op \in {"track", "accept"}}

\* x is what "ORDER BY createdAt DESC LIMIT 1" and MAX(createdAt) select
Latest(x, rows) == x \in rows /\ \A y \in rows : y.at <= x.at

\* A query of q fails (connection lost, timeout): its transaction is rolled
\* back, what its earlier statements committed stays.
Fail(q) ==
  /\ req[q].pc \notin {"idle", "next"}
  /\ faults < MaxFaults
  /\ faults' = faults + 1
  /\ Finish(q)
  /\ UNCHANGED table

\* The process dies with every request in it and is started again.
Crash ==
  /\ faults < MaxFaults
  /\ faults' = faults + 1
  /\ req' = [q \in Procs |-> Idle]
  /\ UNCHANGED table
=============================================================================
