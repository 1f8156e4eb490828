------------------------ MODULE OrderLifecycle_proofs ------------------------
(***************************************************************************)
(* Proofs about OrderLifecycle, for any orders, riders, destinations and   *)
(* clients, any set of handlers in use and any number of faults.           *)
(***************************************************************************)
EXTENDS OrderViews, FiniteSetTheorems, TLAPS

(***************************************************************************)
(* Requests                                                                *)
(***************************************************************************)

\* The idle request is a Request.
LEMMA IdleType ==
  /\ Idle \in Request
  /\ Idle.pc = "idle" /\ Idle.op = None /\ Idle.rider = None /\ Idle.todo = {}
BY ConstantsAssumption DEF Idle, Request, PCs, OrderRow, NewOrder, Times

\* Replacing the request of one process keeps the others.
LEMMA BecomesType ==
  ASSUME req \in [Procs -> Request], NEW q \in Procs, NEW r \in Request,
         Becomes(q, r)
  PROVE  /\ req' \in [Procs -> Request]
         /\ req'[q] = r
         /\ \A p \in Procs : p # q => req'[p] = req[p]
BY DEF Becomes

\* What Finish leaves of a request: nothing, or the cron job with its list.
LEMMA FinishType ==
  ASSUME req \in [Procs -> Request], NEW q \in Procs, Finish(q)
  PROVE  /\ req' \in [Procs -> Request]
         /\ req'[q].pc \in {"idle", "next"}
         /\ req'[q].op \in {"cron", None}
         /\ req'[q].todo \subseteq req[q].todo
         /\ \A p \in Procs : p # q => req'[p] = req[p]
<1> DEFINE r == [Idle EXCEPT !.pc = "next", !.op = "cron", !.todo = req[q].todo]
<1>1. req[q] \in Request /\ req[q].todo \in SUBSET Orders
  BY DEF Request
<1>2. r \in Request /\ r.pc = "next" /\ r.op = "cron" /\ r.todo = req[q].todo
  BY <1>1, IdleType, ZenonT(40) DEF Request, PCs
<1>3. CASE req[q].op = "cron"
  <2>1. Becomes(q, r)
    BY <1>3 DEF Finish
  <2> QED
    BY <2>1, <1>2, BecomesType
<1>4. CASE req[q].op # "cron"
  <2>1. Becomes(q, Idle)
    BY <1>4 DEF Finish
  <2> QED
    BY <2>1, IdleType, BecomesType
<1> QED
  BY <1>3, <1>4

\* A request at rest owes the invariant nothing but a known handler.
LEMMA AtRest ==
  ASSUME NEW q \in Procs, req[q].pc \in {"idle", "next"},
         req[q].op \in {"cron", None}
  PROVE  RequestInv(q) /\ ~InTx(q) /\ ~Inserted(q)
BY ConstantsAssumption DEF RequestInv, Shape, CheckedStops, CheckedChain, CheckedUnique,
       CheckedReward, Found, ChargeIsDue, StaleSave, PastStops, PastLatest,
       Inserted, InTx, Handlers

(***************************************************************************)
(* What other requests may do to the tables under a request                *)
(***************************************************************************)

\* Orders, destinations, credits and the statuses reached are never taken back.
Grows ==
  /\ created \subseteq created'
  /\ \A o \in created :
       /\ stops'[o] = stops[o]
       /\ delivered[o] \subseteq delivered'[o] /\ delivered'[o] \subseteq stops'[o]
       /\ \A x \in tracking[o] : x \in tracking'[o] \/ x.status \in gone'[o]
       /\ gone[o] \subseteq gone'[o]
       /\ credits[o] \subseteq credits'[o]

\* A status once reached stays reached.
LEMMA EverReachedGrows ==
  ASSUME Grows, NEW o \in created, NEW s, EverReached(o, s)
  PROVE  EverReached(o, s)'
BY DEF Grows, EverReached, HasStatus

\* Growing tables keep what a request has checked, except that its row is
\* still the only one with its status.
LEMMA Unmoved ==
  ASSUME IInv, Grows, NEW p \in Procs, req'[p] = req[p], CheckedUnique(p)'
  PROVE  RequestInv(p)'
<1>1. CASE req[p].pc \in {"idle", "next"}
  BY <1>1 DEF IInv, RequestInv, Shape, CheckedStops, CheckedChain, CheckedUnique,
       CheckedReward, Found, ChargeIsDue, StaleSave, PastStops, PastLatest,
       Inserted, InTx, Tracks
<1>2. CASE req[p].pc \notin {"idle", "next"}
  <2>1. /\ req[p].order \in created /\ RequestInv(p)
        /\ req[p].order \in Orders
    BY <1>2 DEF IInv, TypeOK
  <2>2. Shape(p)'
    BY <2>1 DEF RequestInv, Shape, InTx, Tracks, Grows
  <2>3. CheckedStops(p)'
    BY <2>1 DEF RequestInv, CheckedStops, PastStops, Tracks, Multiple, Grows
  <2>4. CheckedChain(p)'
    BY <2>1, EverReachedGrows DEF RequestInv, CheckedChain, PastLatest, Tracks
  <2>5. CheckedReward(p)'
    BY <2>1, EverReachedGrows DEF RequestInv, CheckedReward
  <2>6. Found(p)'
    BY <2>1 DEF RequestInv, Found, Grows
  <2>7. ChargeIsDue(p)'
    BY <2>1 DEF RequestInv, ChargeIsDue, Grows
  <2>8. StaleSave(p)'
    BY <2>1 DEF RequestInv, StaleSave, Grows
  <2> QED
    BY <2>2, <2>3, <2>4, <2>5, <2>6, <2>7, <2>8 DEF RequestInv
<1> QED
  BY <1>1, <1>2


\* Tables that do not change do not shrink, and their invariant holds on.
LEMMA TableStays ==
  ASSUME IInv, UNCHANGED table
  PROVE  Grows /\ TableInv'
<1> USE DEF table
<1>1. Grows
  BY DEF Grows, IInv, TypeOK, TableInv, Placed
<1>2. Placed'
  BY DEF IInv, TableInv, Placed
<1>3. ChainClosed'
  BY DEF IInv, TableInv, ChainClosed, EverReached, HasStatus
<1>4. DeliveredAllStops'
  BY DEF IInv, TableInv, DeliveredAllStops, EverReached, HasStatus, Multiple
<1>5. DeliveryPaid' /\ RewardedFlagIsTrue' /\ AssignedIffRider' /\ ChargeOnce'
  BY DEF IInv, TableInv, DeliveryPaid, RewardedFlagIsTrue, AssignedIffRider, ChargeOnce
<1> QED
  BY <1>1, <1>2, <1>3, <1>4, <1>5 DEF TableInv

\* A step that only moves the request q: what is left to show of it.
LEMMA QuietStep ==
  ASSUME IInv, UNCHANGED table, faults' \in Nat, NEW q \in Procs,
         req' \in [Procs -> Request],
         \A p \in Procs : p # q => req'[p] = req[p],
         req'[q].pc \notin {"idle", "next"} => req'[q].order \in created,
         req'[q].todo \subseteq created,
         RequestInv(q)',
         Inserted(q)' => \A p \in Procs \ {q} :
           ~(/\ Inserted(p)
             /\ req[p].order = req'[q].order /\ req[p].status = req'[q].status),
         InTx(q)' =>
           /\ \A p \in Procs \ {q} : InTx(p) => req[p].at # req'[q].at
           /\ \A o \in Orders : \A c \in credits[o] \cup charges[o] :
                c.at # req'[q].at
  PROVE  IInv'
<1>1. TypeOK'
  BY DEF IInv, TypeOK, table
<1>2. Grows /\ TableInv'
  BY TableStays
<1>3. \A p \in Procs : RequestInv(p)'
  <2> SUFFICES ASSUME NEW p \in Procs, p # q PROVE RequestInv(p)'
    OBVIOUS
  <2>1. CheckedUnique(p)'
    BY DEF IInv, RequestInv, CheckedUnique, Inserted, Tracks, HasStatus, table
  <2> QED
    BY <1>2, <2>1, Unmoved
<1>4. UniqueRows'
  BY DEF IInv, UniqueRows, Inserted, Tracks, table
<1>5. OwnTime'
  BY DEF IInv, OwnTime, InTx, table
<1> QED
  BY <1>1, <1>2, <1>3, <1>4, <1>5 DEF IInv

\* A refused or failing request leaves the invariant alone.
LEMMA FinishStep ==
  ASSUME IInv, UNCHANGED table, faults' \in Nat, NEW q \in Procs, Finish(q)
  PROVE  IInv'
<1>1. /\ req' \in [Procs -> Request]
      /\ req'[q].pc \in {"idle", "next"} /\ req'[q].op \in {"cron", None}
      /\ req'[q].todo \subseteq req[q].todo
      /\ \A p \in Procs : p # q => req'[p] = req[p]
  BY FinishType DEF IInv, TypeOK
<1>2. RequestInv(q)' /\ ~InTx(q)' /\ ~Inserted(q)'
  BY <1>1, ConstantsAssumption DEF RequestInv, Shape, CheckedStops, CheckedChain,
       CheckedUnique, CheckedReward, Found, ChargeIsDue, StaleSave, PastStops,
       PastLatest, Inserted, InTx, Handlers
<1> QED
  BY <1>1, <1>2, QuietStep DEF IInv, TypeOK

\* A transaction that stays one, with the arguments it has, keeps its start
\* time to itself.
LEMMA SameTime ==
  ASSUME IInv, NEW q \in Procs, InTx(q)
  PROVE  /\ \A p \in Procs \ {q} : InTx(p) => req[p].at # req[q].at
         /\ \A o \in Orders : \A c \in credits[o] \cup charges[o] : c.at # req[q].at
BY DEF IInv, OwnTime

\* The start time of a new transaction is its own.
LEMMA NewTime ==
  ASSUME TypeOK, NEW t, StartsAt(t)
  PROVE  /\ t \in Times
         /\ \A p \in Procs : req[p].at # t
         /\ \A o \in Orders : \A c \in credits[o] \cup charges[o] : c.at # t
         /\ \A o \in Orders : \A x \in tracking[o] : x.at # t
<1>1. t \in Times /\ \A u \in Used : u < t
  BY DEF StartsAt
<1>2. t \in Nat
  BY <1>1, ConstantsAssumption DEF Times
<1>3. t \notin Used
  BY <1>1, <1>2
<1>4. \A p \in Procs : req[p].at \in Used
  BY DEF Used
<1>5. \A o \in Orders : \A c \in credits[o] \cup charges[o] : c.at \in Used
  BY DEF Used
<1>6. \A o \in Orders : \A x \in tracking[o] : x.at \in Used
  BY DEF Used
<1> QED
  BY <1>1, <1>3, <1>4, <1>5, <1>6

(***************************************************************************)
(* Steps that only move a request: addOrderTracking and rewardRider        *)
(***************************************************************************)

\* Goto changes where a request is and nothing else of it.
LEMMA GotoType ==
  ASSUME req \in [Procs -> Request], NEW q \in Procs, NEW pc \in PCs, Goto(q, pc)
  PROVE  /\ req' \in [Procs -> Request]
         /\ \A p \in Procs : p # q => req'[p] = req[p]
         /\ req'[q].pc = pc /\ req'[q].op = req[q].op
         /\ req'[q].order = req[q].order /\ req'[q].status = req[q].status
         /\ req'[q].at = req[q].at /\ req'[q].rider = req[q].rider
         /\ req'[q].todo = req[q].todo
<1> DEFINE r == [req[q] EXCEPT !.pc = pc]
<1>1. req[q] \in Request
  OBVIOUS
<1>2. /\ r \in Request
      /\ r.pc = pc /\ r.op = req[q].op /\ r.order = req[q].order
      /\ r.status = req[q].status /\ r.at = req[q].at
      /\ r.rider = req[q].rider /\ r.todo = req[q].todo
  BY <1>1 DEF Request
<1>3. Becomes(q, r)
  BY DEF Goto
<1> QED
  BY <1>2, <1>3, BecomesType

\* A transaction that goes on has only its new check to show.
LEMMA GotoStep ==
  ASSUME IInv, UNCHANGED <<table, faults>>, NEW q \in Procs,
         NEW pc \in {"exists", "latest", "insert", "reward", "commit"}, Goto(q, pc),
         req[q].pc \in {"order", "exists", "latest", "insert"},
         CheckedStops(q)', CheckedChain(q)', CheckedUnique(q)',
         pc \in {"reward", "commit"} => \A p \in Procs \ {q} :
           ~(/\ Inserted(p)
             /\ req[p].order = req[q].order /\ req[p].status = req[q].status),
         pc = "commit" => req[q].status # "DELIVERED"
  PROVE  IInv'
<1>1. /\ req' \in [Procs -> Request]
      /\ \A p \in Procs : p # q => req'[p] = req[p]
      /\ req'[q].pc = pc /\ req'[q].op = req[q].op
      /\ req'[q].order = req[q].order /\ req'[q].status = req[q].status
      /\ req'[q].at = req[q].at /\ req'[q].rider = req[q].rider
      /\ req'[q].todo = req[q].todo
  BY GotoType DEF IInv, TypeOK, PCs
<1>2. RequestInv(q) /\ InTx(q) /\ InTx(q)'
  BY <1>1 DEF IInv, InTx
<1>3. Shape(q)' /\ Tracks(q)'
  BY <1>1, <1>2, ConstantsAssumption DEF RequestInv, Shape, InTx, Tracks
<1>4. CheckedReward(q)' /\ Found(q)' /\ ChargeIsDue(q)' /\ StaleSave(q)'
  BY <1>1, <1>3, ConstantsAssumption DEF CheckedReward, Found, ChargeIsDue, StaleSave, Tracks
<1>5. RequestInv(q)'
  BY <1>3, <1>4 DEF RequestInv
<1>6. Inserted(q)' => \A p \in Procs \ {q} :
           ~(/\ Inserted(p)
             /\ req[p].order = req'[q].order /\ req[p].status = req'[q].status)
  BY <1>1 DEF Inserted
<1>7. /\ \A p \in Procs \ {q} : InTx(p) => req[p].at # req'[q].at
      /\ \A o \in Orders : \A c \in credits[o] \cup charges[o] : c.at # req'[q].at
  BY <1>1, <1>2, SameTime
<1>8. /\ req'[q].order \in created /\ req'[q].todo \subseteq created
      /\ faults' \in Nat
  BY <1>1 DEF IInv, TypeOK
<1> QED
  BY <1>1, <1>5, <1>6, <1>7, <1>8, QuietStep

LEMMA LoadOrderStep ==
  ASSUME IInv, NEW q \in Procs, LoadOrder(q)
  PROVE  IInv'
<1> USE DEF LoadOrder
<1>1. CASE Finish(q)
  BY <1>1, FinishStep DEF IInv, TypeOK
<1>2. CASE /\ Goto(q, "exists")
           /\ req[q].status = "DELIVERED" /\ Multiple(req[q].order)
                => delivered[req[q].order] = stops[req[q].order]
  <2>1. /\ req'[q].pc = "exists" /\ req'[q].op = req[q].op
        /\ req'[q].order = req[q].order /\ req'[q].status = req[q].status
    BY <1>2, GotoType DEF IInv, TypeOK, PCs
  <2>2. CheckedStops(q)'
    BY <1>2, <2>1 DEF CheckedStops, Multiple, table
  <2>3. CheckedChain(q)' /\ CheckedUnique(q)'
    BY <2>1 DEF CheckedChain, CheckedUnique, PastLatest, Inserted
  <2> QED
    BY <1>2, <2>2, <2>3, GotoStep
<1> QED
  BY <1>1, <1>2

LEMMA CheckDuplicateStep ==
  ASSUME IInv, NEW q \in Procs, CheckDuplicate(q)
  PROVE  IInv'
<1> USE DEF CheckDuplicate
<1>1. CASE Finish(q)
  BY <1>1, FinishStep DEF IInv, TypeOK
<1>2. CASE Goto(q, "latest")
  <2>1. /\ req'[q].pc = "latest" /\ req'[q].op = req[q].op
        /\ req'[q].order = req[q].order /\ req'[q].status = req[q].status
    BY <1>2, GotoType DEF IInv, TypeOK, PCs
  <2>2. CheckedStops(q)'
    BY <2>1 DEF IInv, RequestInv, CheckedStops, PastStops, Tracks, Multiple, table
  <2>3. CheckedChain(q)' /\ CheckedUnique(q)'
    BY <2>1 DEF CheckedChain, CheckedUnique, PastLatest, Inserted
  <2> QED
    BY <1>2, <2>2, <2>3, GotoStep
<1> QED
  BY <1>1, <1>2

\* A status has one predecessor.
LEMMA OnePredecessor ==
  ASSUME NEW s \in Status, NEW u \in Status, NEW next \in Status,
         next \in Successors[s], next \in Successors[u]
  PROVE  s = u
BY DEF Successors, Status, Main

LEMMA CheckTransitionStep ==
  ASSUME IInv, NEW q \in Procs, CheckTransition(q)
  PROVE  IInv'
<1> USE DEF CheckTransition
<1>1. CASE Finish(q)
  BY <1>1, FinishStep DEF IInv, TypeOK
<1>2. CASE Goto(q, "insert") /\ Allowed(req[q].status, tracking[req[q].order])
  <2>1. /\ req'[q].pc = "insert" /\ req'[q].op = req[q].op
        /\ req'[q].order = req[q].order /\ req'[q].status = req[q].status
    BY <1>2, GotoType DEF IInv, TypeOK, PCs
  <2>2. CheckedStops(q)'
    BY <2>1 DEF IInv, RequestInv, CheckedStops, PastStops, Tracks, Multiple, table
  <2>3. ASSUME NEW s \in Status, req[q].status \in Successors[s]
        PROVE  EverReached(req[q].order, s)
    <3>1. req[q].status \notin {"PENDING", "CANCELLED"}
      BY <2>3 DEF Successors, Status, Main
    <3>2. PICK x \in tracking[req[q].order] : req[q].status \in Successors[x.status]
      BY <1>2, <3>1 DEF Allowed
    <3>3. x.status \in Status /\ req[q].status \in Status
      BY DEF IInv, TypeOK, Rows, RequestInv, Shape, InTx
    <3>4. x.status = s
      BY <2>3, <3>2, <3>3, OnePredecessor
    <3> QED
      BY <3>2, <3>4 DEF EverReached, HasStatus
  <2>4. CheckedChain(q)' /\ CheckedUnique(q)'
    BY <2>1, <2>3 DEF CheckedChain, CheckedUnique, Inserted, EverReached, HasStatus, table
  <2> QED
    BY <1>2, <2>2, <2>4, GotoStep
<1> QED
  BY <1>1, <1>2

\* What a request has inserted is its row, and nothing before.
LEMMA UncommittedRow ==
  ASSUME NEW q \in Procs
  PROVE  Uncommitted(q) = IF Inserted(q)
                            THEN {[status |-> req[q].status, at |-> req[q].at]}
                            ELSE {}
<1>1. CASE Inserted(q)
  BY <1>1 DEF Uncommitted, Inserted, Tracks
<1>2. CASE ~Inserted(q)
  BY <1>2 DEF Uncommitted, Inserted, Tracks
<1> QED
  BY <1>1, <1>2

LEMMA InsertRowStep ==
  ASSUME IInv, NEW q \in Procs, InsertRow(q)
  PROVE  IInv'
<1>1. CASE Finish(q)
  BY <1>1, FinishStep DEF InsertRow, IInv, TypeOK
<1>2. CASE /\ \A x \in tracking[req[q].order] : x.status # req[q].status
           /\ Goto(q, IF req[q].status = "DELIVERED" THEN "reward" ELSE "commit")
  <2> DEFINE pc == IF req[q].status = "DELIVERED" THEN "reward" ELSE "commit"
  <2>1. /\ req'[q].pc = pc /\ req'[q].op = req[q].op
        /\ req'[q].order = req[q].order /\ req'[q].status = req[q].status
    BY <1>2, GotoType DEF IInv, TypeOK, PCs
  <2>2. CheckedStops(q)'
    BY <2>1, ZenonT(40) DEF InsertRow, IInv, RequestInv, CheckedStops, PastStops, Tracks, Multiple, table
  <2>3. CheckedChain(q)' /\ CheckedUnique(q)'
    BY <1>2, <2>1 DEF InsertRow, IInv, RequestInv, CheckedChain, CheckedUnique,
         PastLatest, Inserted, Tracks, EverReached, HasStatus, table
  <2>4. \A p \in Procs : Inserted(p) =>
           ~(req[p].order = req[q].order /\ req[p].status = req[q].status)
    <3> SUFFICES ASSUME NEW p \in Procs, Inserted(p)
                 PROVE  ~(req[p].order = req[q].order /\ req[p].status = req[q].status)
      OBVIOUS
    <3> DEFINE x == [status |-> req[p].status, at |-> req[p].at]
    <3>1. x \in Uncommitted(p) /\ x.status = req[p].status
      BY UncommittedRow
    <3> QED
      BY <3>1 DEF InsertRow
  <2> QED
    BY <1>2, <2>2, <2>3, <2>4, GotoStep DEF InsertRow
<1> QED
  BY <1>1, <1>2 DEF InsertRow

\* A reward about to commit has found its order delivered and its rider's
\* wallet.
LEMMA CheckRewardStep ==
  ASSUME IInv, NEW q \in Procs, CheckReward(q)
  PROVE  IInv'
<1> DEFINE o == req[q].order
           r == [req[q] EXCEPT !.pc = "commit", !.rider = orders[o].rider]
<1>1. CASE Finish(q)
  BY <1>1, FinishStep DEF CheckReward, IInv, TypeOK
<1>2. CASE /\ orders[o].rider # None
           /\ \E x \in tracking[o] \cup Uncommitted(q) : x.status = "DELIVERED"
           /\ Becomes(q, r)
  <2>1. /\ r \in Request /\ r.pc = "commit" /\ r.op = req[q].op /\ r.order = o
        /\ r.status = req[q].status /\ r.at = req[q].at
        /\ r.rider \in Riders /\ r.todo = req[q].todo
    <3>1. req[q] \in Request /\ o \in Orders
      BY DEF CheckReward, IInv, TypeOK
    <3>2. orders[o].rider \in Riders
      BY <1>2, <3>1 DEF IInv, TypeOK, OrderRow
    <3> QED
      BY <3>1, <3>2 DEF Request, PCs
  <2>2. /\ req' \in [Procs -> Request] /\ req'[q] = r
        /\ \A p \in Procs : p # q => req'[p] = req[p]
    BY <1>2, <2>1, BecomesType DEF IInv, TypeOK
  <2>3. RequestInv(q) /\ InTx(q) /\ InTx(q)' /\ UNCHANGED table
    BY <2>1, <2>2 DEF CheckReward, IInv, InTx
  <2>4. Shape(q)'
    BY <2>1, <2>2, <2>3 DEF RequestInv, Shape, InTx, Tracks
  <2>5. CheckedStops(q)' /\ CheckedChain(q)' /\ CheckedUnique(q)'
    <3>1. CheckedStops(q)'
      BY <2>1, <2>2, <2>3 DEF CheckReward, RequestInv, CheckedStops, PastStops, Tracks, Multiple, table
    <3>2. CheckedChain(q)'
      BY <2>1, <2>2, <2>3 DEF CheckReward, RequestInv, CheckedChain, PastLatest, Inserted, Tracks,
           EverReached, HasStatus, table
    <3>3. CheckedUnique(q)'
      BY <2>1, <2>2, <2>3 DEF CheckReward, RequestInv, CheckedUnique, PastLatest, Inserted, Tracks,
           EverReached, HasStatus, table
    <3>4. QED
      BY <3>1, <3>2, <3>3
  <2>6. CheckedReward(q)'
    BY <1>2, <2>1, <2>2, <2>3 DEF CheckedReward, Uncommitted, EverReached, HasStatus, table
  <2>7. Found(q)' /\ ChargeIsDue(q)' /\ StaleSave(q)'
    BY <2>1, <2>2 DEF Found, ChargeIsDue, StaleSave
  <2>8. RequestInv(q)'
    BY <2>4, <2>5, <2>6, <2>7 DEF RequestInv
  <2>9. Inserted(q)' => \A p \in Procs \ {q} :
           ~(/\ Inserted(p)
             /\ req[p].order = req'[q].order /\ req[p].status = req'[q].status)
    BY <2>1, <2>2 DEF CheckReward, IInv, UniqueRows, Inserted, Tracks
  <2>10. /\ req'[q].order \in created /\ req'[q].todo \subseteq created
         /\ faults' \in Nat
    BY <2>1, <2>2 DEF CheckReward, IInv, TypeOK
  <2>11. /\ \A p \in Procs \ {q} : InTx(p) => req[p].at # req'[q].at
         /\ \A u \in Orders : \A c \in credits[u] \cup charges[u] : c.at # req'[q].at
    BY <2>1, <2>2, <2>3, SameTime
  <2> HIDE DEF r
  <2> QED
    BY <2>2, <2>3, <2>8, <2>9, <2>10, <2>11, QuietStep
<1> QED
  BY <1>1, <1>2 DEF CheckReward

(***************************************************************************)
(* Steps that only move a request: new requests, assignment and answers    *)
(***************************************************************************)

\* A request outside any transaction owes its shape, and what it has found.
LEMMA OutsideStep ==
  ASSUME IInv, UNCHANGED <<table, faults>>, NEW q \in Procs,
         NEW r \in Request, Becomes(q, r),
         r.pc \notin {"order", "exists", "latest", "insert", "reward", "commit",
                      "charge"},
         r.order \in created \/ r.pc \in {"idle", "next"},
         r.todo \subseteq created,
         Shape(q)', Found(q)', StaleSave(q)'
  PROVE  IInv'
<1>1. /\ req' \in [Procs -> Request] /\ req'[q] = r
      /\ \A p \in Procs : p # q => req'[p] = req[p]
  BY BecomesType DEF IInv, TypeOK
<1>2. ~InTx(q)' /\ ~Inserted(q)'
  BY <1>1 DEF InTx, Inserted
<1>3. RequestInv(q)'
  BY <1>1 DEF RequestInv, CheckedStops, CheckedChain, CheckedUnique, CheckedReward,
       ChargeIsDue, PastStops, PastLatest, Inserted
<1>4. faults' \in Nat
  BY DEF IInv, TypeOK
<1> QED
  BY <1>1, <1>2, <1>3, <1>4, QuietStep

LEMMA PostTrackingStep ==
  ASSUME IInv, NEW q \in Procs, NEW o \in created, NEW s \in Posted,
         NEW t \in Times, PostTracking(q, o, s, t)
  PROVE  IInv'
<1> DEFINE r == [Idle EXCEPT !.pc = "order", !.op = "track", !.order = o,
                             !.status = s, !.at = t]
<1>1. /\ r \in Request /\ r.pc = "order" /\ r.op = "track" /\ r.order = o
      /\ r.status = s /\ r.at = t /\ r.todo = {}
  BY IdleType, ConstantsAssumption DEF IInv, TypeOK, Request, PCs, Handlers
<1>2. /\ req' \in [Procs -> Request] /\ req'[q] = r
      /\ \A p \in Procs : p # q => req'[p] = req[p]
  BY <1>1, BecomesType DEF PostTracking, IInv, TypeOK
<1>3. RequestInv(q)' /\ ~Inserted(q)'
  BY <1>1, <1>2, ConstantsAssumption DEF PostTracking, RequestInv, Shape, CheckedStops,
       CheckedChain, CheckedUnique, CheckedReward, Found, ChargeIsDue, StaleSave,
       PastStops, PastLatest, Inserted, InTx, Tracks
<1>4. /\ \A p \in Procs \ {q} : InTx(p) => req[p].at # req'[q].at
      /\ \A u \in Orders : \A c \in credits[u] \cup charges[u] : c.at # req'[q].at
  BY <1>1, <1>2, NewTime DEF PostTracking, IInv
<1>5. /\ req'[q].order \in created /\ req'[q].todo \subseteq created
      /\ faults' \in Nat /\ UNCHANGED table
  BY <1>1, <1>2 DEF PostTracking, IInv, TypeOK
<1> HIDE DEF r
<1> QED
  BY <1>2, <1>3, <1>4, <1>5, QuietStep

LEMMA PostRewardStep ==
  ASSUME IInv, NEW q \in Procs, NEW o \in created, NEW t \in Times, PostReward(q, o, t)
  PROVE  IInv'
<1> DEFINE r == [Idle EXCEPT !.pc = "reward", !.op = "reward", !.order = o,
                             !.status = "DELIVERED", !.at = t]
<1>1. /\ r \in Request /\ r.pc = "reward" /\ r.op = "reward" /\ r.order = o
      /\ r.status = "DELIVERED" /\ r.at = t /\ r.todo = {}
  BY IdleType DEF IInv, TypeOK, Request, PCs, Handlers, Status, Main
<1>2. /\ req' \in [Procs -> Request] /\ req'[q] = r
      /\ \A p \in Procs : p # q => req'[p] = req[p]
  BY <1>1, BecomesType DEF PostReward, IInv, TypeOK
<1>3. RequestInv(q)' /\ ~Inserted(q)'
  BY <1>1, <1>2, ConstantsAssumption DEF PostReward, RequestInv, Shape, CheckedStops,
       CheckedChain, CheckedUnique, CheckedReward, Found, ChargeIsDue, StaleSave,
       PastStops, PastLatest, Inserted, InTx, Tracks, Status, Main
<1>4. /\ \A p \in Procs \ {q} : InTx(p) => req[p].at # req'[q].at
      /\ \A u \in Orders : \A c \in credits[u] \cup charges[u] : c.at # req'[q].at
  BY <1>1, <1>2, NewTime DEF PostReward, IInv
<1>5. /\ req'[q].order \in created /\ req'[q].todo \subseteq created
      /\ faults' \in Nat /\ UNCHANGED table
  BY <1>1, <1>2 DEF PostReward, IInv, TypeOK
<1> HIDE DEF r
<1> QED
  BY <1>2, <1>3, <1>4, <1>5, QuietStep

LEMMA BeginAcceptStep ==
  ASSUME IInv, NEW q \in Procs, NEW t \in Times, BeginAccept(q, t)
  PROVE  IInv'
<1> DEFINE r == [req[q] EXCEPT !.pc = "order", !.at = t]
<1>1. /\ r \in Request /\ r.pc = "order" /\ r.op = req[q].op
      /\ r.order = req[q].order /\ r.status = req[q].status
      /\ r.rider = req[q].rider /\ r.at = t /\ r.todo = req[q].todo
  <2>1. req[q] \in Request
    BY DEF IInv, TypeOK
  <2> QED
    BY <2>1 DEF Request, PCs
<1>2. /\ req' \in [Procs -> Request] /\ req'[q] = r
      /\ \A p \in Procs : p # q => req'[p] = req[p]
  BY <1>1, BecomesType DEF BeginAccept, IInv, TypeOK
<1>3. RequestInv(q) /\ req[q].pc = "begin"
  BY DEF BeginAccept, IInv
<1>4. RequestInv(q)' /\ ~Inserted(q)'
  BY <1>1, <1>2, <1>3 DEF RequestInv, Shape, CheckedStops,
       CheckedChain, CheckedUnique, CheckedReward, Found, ChargeIsDue, StaleSave,
       PastStops, PastLatest, Inserted, InTx, Tracks, Status, Main
<1>5. /\ \A p \in Procs \ {q} : InTx(p) => req[p].at # req'[q].at
      /\ \A u \in Orders : \A c \in credits[u] \cup charges[u] : c.at # req'[q].at
  BY <1>1, <1>2, NewTime DEF BeginAccept, IInv
<1>6. /\ req'[q].order \in created /\ req'[q].todo \subseteq created
      /\ faults' \in Nat /\ UNCHANGED table
  BY <1>1, <1>2 DEF BeginAccept, IInv, TypeOK
<1> HIDE DEF r
<1> QED
  BY <1>2, <1>4, <1>5, <1>6, QuietStep

LEMMA LoadRowStep ==
  ASSUME IInv, NEW q \in Procs, NEW o \in created, NEW x \in tracking[o],
         LoadRow(q, o, x)
  PROVE  IInv'
<1> DEFINE r == [Idle EXCEPT !.pc = "delete", !.op = "remove", !.order = o,
                             !.status = x.status, !.at = x.at]
<1>1. o \in Orders /\ x \in Rows
  BY DEF IInv, TypeOK
<1>2. /\ r \in Request /\ r.pc = "delete" /\ r.op = "remove" /\ r.order = o
      /\ r.status = x.status /\ r.at = x.at /\ r.todo = {}
  BY <1>1, IdleType DEF Request, PCs, Handlers, Rows
<1>3. req'[q] = r /\ Becomes(q, r)
  BY <1>2, BecomesType DEF LoadRow, IInv, TypeOK
<1>4. [status |-> x.status, at |-> x.at] = x
  BY <1>1 DEF Rows
<1>5. Shape(q)' /\ Found(q)' /\ StaleSave(q)'
  BY <1>1, <1>2, <1>3, <1>4 DEF LoadRow, Shape, Found, StaleSave, InTx, Rows, table
<1> HIDE DEF r
<1> QED
  BY <1>2, <1>3, <1>5, OutsideStep DEF LoadRow

LEMMA LoadDestinationStep ==
  ASSUME IInv, NEW q \in Procs, NEW o \in created, NEW d \in stops[o],
         LoadDestination(q, o, d)
  PROVE  IInv'
<1> DEFINE r == [Idle EXCEPT !.pc = "mark", !.op = "delivered", !.order = o,
                             !.dest = d]
<1>1. o \in Orders /\ d \in Destinations
  BY DEF IInv, TypeOK
<1>2. /\ r \in Request /\ r.pc = "mark" /\ r.op = "delivered" /\ r.order = o
      /\ r.dest = d /\ r.todo = {}
  BY <1>1, IdleType DEF Request, PCs, Handlers
<1>3. req'[q] = r /\ Becomes(q, r)
  BY <1>2, BecomesType DEF LoadDestination, IInv, TypeOK
<1>4. Shape(q)' /\ Found(q)' /\ StaleSave(q)'
  BY <1>2, <1>3 DEF LoadDestination, Shape, Found, StaleSave, InTx, table
<1> HIDE DEF r
<1> QED
  BY <1>2, <1>3, <1>4, OutsideStep DEF LoadDestination

LEMMA PutAssignStep ==
  ASSUME IInv, NEW q \in Procs, NEW o \in created, PutAssign(q, o)
  PROVE  IInv'
<1> DEFINE r == [Idle EXCEPT !.pc = "assign", !.op = "assign", !.order = o]
<1>1. /\ r \in Request /\ r.pc = "assign" /\ r.op = "assign" /\ r.order = o
      /\ r.todo = {}
  BY IdleType DEF IInv, TypeOK, Request, PCs, Handlers
<1>2. req'[q] = r /\ Becomes(q, r)
  BY <1>1, BecomesType DEF PutAssign, IInv, TypeOK
<1>3. Shape(q)' /\ Found(q)' /\ StaleSave(q)'
  BY <1>1, <1>2 DEF PutAssign, Shape, Found, StaleSave, InTx
<1> HIDE DEF r
<1> QED
  BY <1>1, <1>2, <1>3, OutsideStep DEF PutAssign

LEMMA LoadDeclinedStep ==
  ASSUME IInv, NEW q \in Procs, LoadDeclined(q)
  PROVE  IInv'
<1> DEFINE r == [req[q] EXCEPT !.pc = "pick",
                               !.excluded = orders[req[q].order].declined]
<1>1. /\ req[q] \in Request /\ orders[req[q].order].declined \subseteq Riders
      /\ Shape(q)
  BY DEF LoadDeclined, IInv, TypeOK, OrderRow, RequestInv
<1>2. /\ r \in Request /\ r.pc = "pick" /\ r.op = req[q].op
      /\ r.order = req[q].order /\ r.status = req[q].status
      /\ r.rider = req[q].rider /\ r.todo = req[q].todo
  BY <1>1 DEF Request, PCs
<1>3. req'[q] = r /\ Becomes(q, r)
  BY <1>2, BecomesType DEF LoadDeclined, IInv, TypeOK
<1>4. Shape(q)' /\ Found(q)' /\ StaleSave(q)'
  BY <1>1, <1>2, <1>3 DEF Shape, Found, StaleSave, InTx
<1>5. r.order \in created /\ r.todo \subseteq created
  BY <1>2 DEF LoadDeclined, IInv, TypeOK
<1> HIDE DEF r
<1> QED
  BY <1>2, <1>3, <1>4, <1>5, OutsideStep DEF LoadDeclined

LEMMA PickRiderStep ==
  ASSUME IInv, NEW q \in Procs, NEW rider \in Riders, PickRider(q, rider)
  PROVE  IInv'
<1> DEFINE r == [req[q] EXCEPT !.pc = "update", !.rider = rider]
<1>1. req[q] \in Request /\ Shape(q)
  BY DEF IInv, TypeOK, RequestInv
<1>2. /\ r \in Request /\ r.pc = "update" /\ r.op = req[q].op
      /\ r.order = req[q].order /\ r.status = req[q].status
      /\ r.rider = rider /\ r.todo = req[q].todo
  BY <1>1 DEF Request, PCs
<1>3. req'[q] = r /\ Becomes(q, r)
  BY <1>2, BecomesType DEF PickRider, IInv, TypeOK
<1>4. Shape(q)' /\ Found(q)' /\ StaleSave(q)'
  BY <1>1, <1>2, <1>3 DEF Shape, Found, StaleSave, InTx
<1>5. r.order \in created /\ r.todo \subseteq created
  BY <1>2 DEF PickRider, IInv, TypeOK
<1> HIDE DEF r
<1> QED
  BY <1>2, <1>3, <1>4, <1>5, OutsideStep DEF PickRider

LEMMA CronStartStep ==
  ASSUME IInv, CronStart
  PROVE  IInv'
<1> DEFINE r == [Idle EXCEPT !.pc = "next", !.op = "cron",
                             !.todo = {o \in created : ~orders[o].assigned}]
<1>1. /\ r \in Request /\ r.pc = "next" /\ r.op = "cron"
      /\ r.todo \subseteq created
  BY IdleType DEF IInv, TypeOK, Request, PCs
<1>2. Cron \in Procs /\ req'[Cron] = r /\ Becomes(Cron, r)
  BY <1>1, BecomesType DEF CronStart, IInv, TypeOK, Procs
<1>3. Shape(Cron)' /\ Found(Cron)' /\ StaleSave(Cron)'
  BY <1>1, <1>2, ConstantsAssumption DEF Shape, Found, StaleSave, InTx, Handlers
<1> HIDE DEF r
<1> QED
  BY <1>1, <1>2, <1>3, OutsideStep DEF CronStart

LEMMA CronNextStep ==
  ASSUME IInv, CronNext
  PROVE  IInv'
<1>1. Cron \in Procs /\ req[Cron] \in Request /\ Shape(Cron) /\ UNCHANGED <<table, faults>>
  BY DEF CronNext, Procs, IInv, TypeOK, RequestInv
<1>2. CASE Becomes(Cron, Idle)
  <2>1. req'[Cron] = Idle
    BY <1>1, <1>2, IdleType, BecomesType DEF IInv, TypeOK
  <2>2. Shape(Cron)' /\ Found(Cron)' /\ StaleSave(Cron)'
    BY <2>1, IdleType, ConstantsAssumption DEF Shape, Found, StaleSave, InTx, Handlers
  <2> QED
    BY <1>1, <1>2, <2>2, IdleType, OutsideStep
<1>3. ASSUME NEW o \in req[Cron].todo,
             Becomes(Cron, [req[Cron] EXCEPT !.pc = "assign", !.order = o,
                                             !.todo = @ \ {o}])
      PROVE  IInv'
  <2> DEFINE r == [req[Cron] EXCEPT !.pc = "assign", !.order = o, !.todo = @ \ {o}]
  <2>1. o \in Orders /\ o \in created /\ req[Cron].todo \subseteq created
    BY <1>1 DEF IInv, TypeOK
  <2>2. /\ r \in Request /\ r.pc = "assign" /\ r.op = req[Cron].op /\ r.order = o
        /\ r.status = req[Cron].status /\ r.rider = req[Cron].rider
        /\ r.todo \subseteq created
    BY <1>1, <2>1 DEF Request, PCs
  <2>3. req'[Cron] = r /\ Becomes(Cron, r)
    BY <1>1, <1>3, <2>2, BecomesType DEF IInv, TypeOK
  <2>4. Shape(Cron)' /\ Found(Cron)' /\ StaleSave(Cron)'
    BY <1>1, <2>2, <2>3 DEF Shape, Found, StaleSave, InTx
  <2> HIDE DEF r
  <2> QED
    BY <1>1, <2>1, <2>2, <2>3, <2>4, OutsideStep
<1> QED
  BY <1>2, <1>3 DEF CronNext

LEMMA AcceptStep ==
  ASSUME IInv, NEW q \in Procs, NEW o \in created, NEW rider \in Riders,
         Accept(q, o, rider)
  PROVE  IInv'
<1> DEFINE r == [Idle EXCEPT !.pc = "begin", !.op = "accept", !.order = o,
                             !.rider = rider, !.status = "ACCEPTED"]
<1>1. /\ r \in Request /\ r.pc = "begin" /\ r.op = "accept" /\ r.order = o
      /\ r.rider = rider /\ r.status = "ACCEPTED" /\ r.todo = {}
  BY IdleType DEF IInv, TypeOK, Request, PCs, Handlers, Status, Main
<1>2. req'[q] = r /\ Becomes(q, r)
  BY <1>1, BecomesType DEF Accept, IInv, TypeOK
<1>3. Shape(q)' /\ Found(q)' /\ StaleSave(q)'
  BY <1>1, <1>2 DEF Accept, Shape, Found, StaleSave, InTx
<1> HIDE DEF r
<1> QED
  BY <1>1, <1>2, <1>3, OutsideStep DEF Accept

LEMMA DeclineStep ==
  ASSUME IInv, NEW q \in Procs, NEW o \in created, NEW rider \in Riders,
         Decline(q, o, rider)
  PROVE  IInv'
<1> DEFINE snap == [orders[o] EXCEPT !.declined = @ \cup {rider}, !.rider = None,
                                     !.assigned = FALSE]
           r == [Idle EXCEPT !.pc = "diff", !.op = "decline", !.order = o,
                             !.rider = rider, !.snap = snap]
<1>1. o \in Orders /\ orders[o] \in OrderRow
  BY DEF IInv, TypeOK
<1>2. /\ snap \in OrderRow /\ snap.rider = None /\ ~snap.assigned
      /\ snap.rewarded = orders[o].rewarded
  BY <1>1 DEF OrderRow
<1> HIDE DEF snap
<1>3. /\ r \in Request /\ r.pc = "diff" /\ r.op = "decline" /\ r.order = o
      /\ r.rider = rider /\ r.snap = snap /\ r.todo = {}
  BY <1>1, <1>2, IdleType DEF Request, PCs, Handlers
<1>4. Becomes(q, r)
  BY DEF Decline, snap
<1>5. req'[q] = r
  BY <1>3, <1>4, BecomesType DEF IInv, TypeOK
<1>6. credits' = credits /\ UNCHANGED <<table, faults>> /\ "decline" \in Ops
  BY DEF Decline, table
<1>7. Shape(q)' /\ Found(q)'
  BY <1>3, <1>5, <1>6 DEF Shape, Found, InTx
<1>8. StaleSave(q)'
  BY <1>1, <1>2, <1>3, <1>5, <1>6 DEF StaleSave, IInv, TableInv, RewardedFlagIsTrue
<1> HIDE DEF r
<1> QED
  BY <1>3, <1>4, <1>6, <1>7, <1>8, OutsideStep

LEMMA SaveDiffStep ==
  ASSUME IInv, NEW q \in Procs, SaveDiff(q)
  PROVE  IInv'
<1> DEFINE o    == req[q].order
           diff == {c \in Columns : req[q].snap[c] # orders[o][c]}
           r    == [req[q] EXCEPT !.pc = "write", !.diff = diff]
<1>1. /\ req[q] \in Request /\ req[q].pc = "diff" /\ o \in created /\ o \in Orders
      /\ req[q].todo \subseteq created /\ Shape(q) /\ StaleSave(q)
      /\ UNCHANGED <<table, faults>> /\ credits' = credits
  BY DEF SaveDiff, IInv, TypeOK, RequestInv, table
<1>2. "rider" \in diff <=> "assigned" \in diff
  <2>1. /\ "rider" \in diff <=> req[q].snap["rider"] # orders[o]["rider"]
        /\ "assigned" \in diff <=> req[q].snap["assigned"] # orders[o]["assigned"]
    BY DEF Columns
  <2>2. orders[o].assigned <=> orders[o].rider # None
    BY <1>1 DEF IInv, TableInv, AssignedIffRider
  <2>3. /\ req[q].snap["rider"] = None /\ ~req[q].snap["assigned"]
        /\ orders[o].assigned \in BOOLEAN /\ req[q].snap.assigned \in BOOLEAN
    BY <1>1 DEF StaleSave, IInv, TypeOK, OrderRow, Request
  <2> HIDE DEF diff
  <2> QED
    BY <2>1, <2>2, <2>3
<1>3. diff \subseteq Columns
  OBVIOUS
<1> HIDE DEF diff
<1>4. /\ r \in Request /\ r.pc = "write" /\ r.op = req[q].op /\ r.order = o
      /\ r.status = req[q].status /\ r.rider = req[q].rider
      /\ r.snap = req[q].snap /\ r.diff = diff /\ r.todo = req[q].todo
  BY <1>1, <1>3 DEF Request, PCs
<1>5. Becomes(q, r)
  BY DEF SaveDiff, diff
<1>6. req'[q] = r
  BY <1>4, <1>5, BecomesType DEF IInv, TypeOK
<1>7. Shape(q)' /\ Found(q)'
  BY <1>1, <1>4, <1>6 DEF Shape, Found, InTx
<1>8. StaleSave(q)'
  BY <1>1, <1>2, <1>4, <1>6 DEF StaleSave
<1> HIDE DEF r
<1> QED
  BY <1>1, <1>4, <1>5, <1>7, <1>8, OutsideStep

LEMMA PickNobodyStep ==
  ASSUME IInv, NEW q \in Procs, PickNobody(q)
  PROVE  IInv'
BY FinishStep DEF PickNobody, IInv, TypeOK

LEMMA FailStep ==
  ASSUME IInv, NEW q \in Procs, Fail(q)
  PROVE  IInv'
BY FinishStep DEF Fail, IInv, TypeOK

LEMMA CrashStep ==
  ASSUME IInv, Crash
  PROVE  IInv'
<1>1. /\ req' \in [Procs -> Request] /\ faults' \in Nat /\ UNCHANGED table
      /\ \A q \in Procs : req'[q] = Idle
  BY IdleType DEF Crash, IInv, TypeOK
<1>2. TypeOK'
  BY <1>1, IdleType DEF IInv, TypeOK, table
<1>3. TableInv'
  BY <1>1, TableStays
<1>4. \A q \in Procs : RequestInv(q)' /\ ~InTx(q)' /\ ~Inserted(q)'
  BY <1>1, IdleType, ConstantsAssumption DEF RequestInv, Shape, CheckedStops, CheckedChain,
       CheckedUnique, CheckedReward, Found, ChargeIsDue, StaleSave, PastStops,
       PastLatest, Inserted, InTx, Handlers
<1>5. UniqueRows' /\ OwnTime'
  BY <1>1, <1>4 DEF IInv, UniqueRows, OwnTime, table
<1> QED
  BY <1>2, <1>3, <1>4, <1>5 DEF IInv

(***************************************************************************)
(* Steps that change the tables                                            *)
(***************************************************************************)

TableTypes ==
  /\ created   \subseteq Orders
  /\ cash      \in [Orders -> BOOLEAN]
  /\ orders    \in [Orders -> OrderRow]
  /\ stops     \in [Orders -> SUBSET Destinations]
  /\ delivered \in [Orders -> SUBSET Destinations]
  /\ tracking  \in [Orders -> SUBSET Rows]
  /\ gone      \in [Orders -> SUBSET Status]
  /\ credits   \in [Orders -> SUBSET Credits]
  /\ charges   \in [Orders -> SUBSET Credits]
  /\ refused   \in [Orders -> SUBSET Riders]

OneRowPerStatus ==
  \A o \in Orders : \A x, y \in tracking[o] : x.status = y.status => x = y

\* A step of q that changes the tables: what is left to show of the tables, of
\* q, and of the rows and times of the others.
LEMMA ChangeStep ==
  ASSUME IInv, Grows, faults' = faults, NEW q \in Procs,
         req' \in [Procs -> Request],
         \A p \in Procs : p # q => req'[p] = req[p],
         req'[q].pc \notin {"idle", "next"} => req'[q].order \in created',
         req'[q].todo \subseteq created',
         ~Inserted(q)', InTx(q)' => InTx(q) /\ req'[q].at = req[q].at,
         RequestInv(q)',
         TableTypes', TableInv', OneRowPerStatus',
         \A p \in Procs : p # q => CheckedUnique(p)',
         \A p \in Procs : InTx(p)' =>
           \A o \in Orders : \A c \in credits'[o] \cup charges'[o] : c.at # req'[p].at
  PROVE  IInv'
<1>1. TypeOK'
  BY DEF IInv, TypeOK, TableTypes, Grows
<1>2. \A p \in Procs : RequestInv(p)'
  BY Unmoved
<1>3. UniqueRows'
  BY DEF IInv, UniqueRows, OneRowPerStatus, Inserted, Tracks
<1>4. OwnTime'
  BY DEF IInv, OwnTime, InTx
<1> QED
  BY <1>1, <1>2, <1>3, <1>4 DEF IInv

\* The step ends the request.
LEMMA ChangeAndFinish ==
  ASSUME IInv, Grows, faults' = faults, NEW q \in Procs, Finish(q),
         TableTypes', TableInv', OneRowPerStatus',
         \A p \in Procs : p # q => CheckedUnique(p)',
         \A p \in Procs : p # q /\ InTx(p) =>
           \A o \in Orders : \A c \in credits'[o] \cup charges'[o] : c.at # req[p].at
  PROVE  IInv'
<1>1. /\ req' \in [Procs -> Request]
      /\ req'[q].pc \in {"idle", "next"} /\ req'[q].op \in {"cron", None}
      /\ req'[q].todo \subseteq req[q].todo
      /\ \A p \in Procs : p # q => req'[p] = req[p]
  BY FinishType DEF IInv, TypeOK
<1>2. RequestInv(q)' /\ ~InTx(q)' /\ ~Inserted(q)'
  BY <1>1, ConstantsAssumption DEF RequestInv, Shape, CheckedStops, CheckedChain,
       CheckedUnique, CheckedReward, Found, ChargeIsDue, StaleSave, PastStops,
       PastLatest, Inserted, InTx, Handlers
<1>3. req'[q].todo \subseteq created'
  BY <1>1 DEF IInv, TypeOK, Grows
<1>4. \A p \in Procs : InTx(p)' =>
           \A o \in Orders : \A c \in credits'[o] \cup charges'[o] : c.at # req'[p].at
  BY <1>1, <1>2 DEF InTx
<1> QED
  BY <1>1, <1>2, <1>3, <1>4, ChangeStep

LEMMA SaveDestinationStep ==
  ASSUME IInv, NEW q \in Procs, SaveDestination(q)
  PROVE  IInv'
<1> DEFINE o == req[q].order
<1>1. /\ o \in created /\ o \in Orders /\ req[q].dest \in stops[o]
      /\ delivered' = [delivered EXCEPT ![o] = @ \cup {req[q].dest}]
      /\ UNCHANGED <<created, cash, orders, stops, tracking, gone, credits,
                     charges, refused, faults>>
      /\ Finish(q)
  BY DEF SaveDestination, IInv, TypeOK, RequestInv, Shape
<1> HIDE DEF o
<1>2. Grows
  BY <1>1 DEF Grows, IInv, TypeOK, TableInv, Placed
<1>3. TableTypes' /\ OneRowPerStatus'
  BY <1>1 DEF TableTypes, OneRowPerStatus, IInv, TypeOK, UniqueRows
<1>4. Placed'
  BY <1>1 DEF IInv, TypeOK, TableInv, Placed
<1>5. DeliveredAllStops'
  BY <1>1, <1>4 DEF IInv, TypeOK, TableInv, DeliveredAllStops, Placed, EverReached,
       HasStatus, Multiple
<1>6. ChainClosed'
  BY <1>1 DEF IInv, TableInv, ChainClosed, EverReached, HasStatus
<1>7. DeliveryPaid' /\ RewardedFlagIsTrue' /\ AssignedIffRider' /\ ChargeOnce'
  BY <1>1 DEF IInv, TableInv, DeliveryPaid, RewardedFlagIsTrue, AssignedIffRider, ChargeOnce
<1>8. \A p \in Procs : p # q => CheckedUnique(p)'
  BY <1>1, FinishType DEF IInv, TypeOK, RequestInv, CheckedUnique, Inserted, Tracks, HasStatus
<1>9. \A p \in Procs : p # q /\ InTx(p) =>
        \A u \in Orders : \A c \in credits'[u] \cup charges'[u] : c.at # req[p].at
  BY <1>1 DEF IInv, OwnTime
<1> QED
  BY <1>1, <1>2, <1>3, <1>4, <1>5, <1>6, <1>7, <1>8, <1>9, ChangeAndFinish DEF TableInv

LEMMA UpdateRiderStep ==
  ASSUME IInv, NEW q \in Procs, UpdateRider(q)
  PROVE  IInv'
<1> DEFINE o == req[q].order
<1>1. /\ o \in created /\ o \in Orders /\ req[q].rider \in Riders
      /\ orders[o] \in OrderRow
      /\ orders' = [orders EXCEPT ![o].rider = req[q].rider, ![o].assigned = TRUE]
      /\ UNCHANGED <<created, cash, stops, delivered, tracking, gone, credits,
                     charges, refused, faults>>
      /\ Finish(q)
  BY DEF UpdateRider, IInv, TypeOK, RequestInv, Shape
<1> HIDE DEF o
<1>2. Grows
  BY <1>1 DEF Grows, IInv, TypeOK, TableInv, Placed
<1>3. /\ orders' \in [Orders -> OrderRow]
      /\ \A u \in Orders : u # o => orders'[u] = orders[u]
      /\ orders'[o].rider = req[q].rider /\ orders'[o].assigned = TRUE
      /\ orders'[o].rewarded = orders[o].rewarded
  <2> DEFINE row == [[orders[o] EXCEPT !.rider = req[q].rider] EXCEPT !.assigned = TRUE]
  <2>1. /\ row \in OrderRow /\ row.rider = req[q].rider /\ row.assigned = TRUE
        /\ row.rewarded = orders[o].rewarded
    BY <1>1 DEF OrderRow
  <2>2. orders' = [orders EXCEPT ![o] = row]
    BY <1>1 DEF IInv, TypeOK
  <2>3. o \in Orders /\ orders \in [Orders -> OrderRow]
    BY <1>1 DEF IInv, TypeOK
  <2> HIDE DEF row
  <2> QED
    BY <2>1, <2>2, <2>3
<1>4. TableTypes' /\ OneRowPerStatus'
  BY <1>1, <1>3 DEF TableTypes, OneRowPerStatus, IInv, TypeOK, UniqueRows
<1>5. Placed'
  BY <1>1, <1>3 DEF IInv, TypeOK, TableInv, Placed
<1>6. DeliveredAllStops' /\ ChainClosed'
  BY <1>1 DEF IInv, TableInv, DeliveredAllStops, ChainClosed, EverReached,
       HasStatus, Multiple
<1>7. DeliveryPaid' /\ ChargeOnce'
  BY <1>1 DEF IInv, TableInv, DeliveryPaid, ChargeOnce
<1>8. RewardedFlagIsTrue' /\ AssignedIffRider'
  BY <1>1, <1>3, ConstantsAssumption DEF IInv, TableInv, RewardedFlagIsTrue, AssignedIffRider
<1>9. \A p \in Procs : p # q => CheckedUnique(p)'
  BY <1>1, FinishType DEF IInv, TypeOK, RequestInv, CheckedUnique, Inserted, Tracks, HasStatus
<1>10. \A p \in Procs : p # q /\ InTx(p) =>
        \A u \in Orders : \A c \in credits'[u] \cup charges'[u] : c.at # req[p].at
  BY <1>1 DEF IInv, OwnTime
<1> QED
  BY <1>1, <1>2, <1>4, <1>5, <1>6, <1>7, <1>8, <1>9, <1>10, ChangeAndFinish DEF TableInv

LEMMA DeleteRowStep ==
  ASSUME IInv, NEW q \in Procs, DeleteRow(q)
  PROVE  IInv'
<1> DEFINE o   == req[q].order
           row == [status |-> req[q].status, at |-> req[q].at]
<1>1. /\ o \in created /\ o \in Orders /\ req[q].status \in Status
      /\ tracking' = [tracking EXCEPT ![o] = @ \ {row}]
      /\ gone' = [gone EXCEPT ![o] = @ \cup {req[q].status}]
      /\ UNCHANGED <<created, cash, orders, stops, delivered, credits, charges,
                     refused, faults>>
      /\ Finish(q)
  BY DEF DeleteRow, IInv, TypeOK, RequestInv, Shape
<1>2. row.status = req[q].status
  OBVIOUS
<1> HIDE DEF o, row
<1>3. Grows
  BY <1>1, <1>2 DEF Grows, IInv, TypeOK, TableInv, Placed
<1>4. TableTypes' /\ OneRowPerStatus'
  BY <1>1 DEF TableTypes, OneRowPerStatus, IInv, TypeOK, UniqueRows
<1>5. Placed'
  BY <1>1 DEF IInv, TypeOK, TableInv, Placed
\* what is reached after the deletion was reached before it
<1>6. \A u \in Orders : \A s : EverReached(u, s)' => EverReached(u, s) \/ (u = o /\ s = req[q].status)
  BY <1>1 DEF EverReached, HasStatus, IInv, TypeOK
<1>7. EverReached(o, req[q].status)
  BY <1>1 DEF DeleteRow, IInv, RequestInv, Found, EverReached, HasStatus, o
<1>8. \A u \in Orders : \A s : EverReached(u, s)' <=> EverReached(u, s)
  <2>1. \A u \in Orders : u # o => tracking'[u] = tracking[u] /\ gone'[u] = gone[u]
    BY <1>1 DEF IInv, TypeOK
  <2>2. \A u \in Orders : \A s : EverReached(u, s) => EverReached(u, s)'
    BY <1>1, <1>3, <2>1, EverReachedGrows DEF EverReached, HasStatus
  <2> QED
    BY <1>6, <1>7, <2>2
<1>9. ChainClosed'
  <2> SUFFICES ASSUME NEW u \in Orders, NEW s \in Status, NEW next \in Successors[s],
                      EverReached(u, next)'
               PROVE  EverReached(u, s)'
    BY DEF ChainClosed, EverReached, HasStatus
  <2> QED
    BY <1>8 DEF IInv, TableInv, ChainClosed
<1>10. DeliveredAllStops'
  <2> SUFFICES ASSUME NEW u \in Orders, EverReached(u, "DELIVERED")', Multiple(u)'
               PROVE  delivered'[u] = stops'[u]
    BY DEF DeliveredAllStops, EverReached, HasStatus, Multiple
  <2> QED
    BY <1>1, <1>8 DEF IInv, TableInv, DeliveredAllStops, Multiple
<1>11. DeliveryPaid' /\ RewardedFlagIsTrue' /\ AssignedIffRider'
  BY <1>1 DEF IInv, TypeOK, TableInv, DeliveryPaid, RewardedFlagIsTrue, AssignedIffRider
<1>12. ChargeOnce'
  <2> SUFFICES ASSUME NEW u \in Orders, NEW c \in charges[u]
               PROVE  \/ "ACCEPTED" \in gone'[u]
                      \/ [status |-> "ACCEPTED", at |-> c.at] \in tracking'[u]
    BY <1>1 DEF ChargeOnce, IInv, TableInv
  <2> DEFINE x == [status |-> "ACCEPTED", at |-> c.at]
  <2>1. x.status = "ACCEPTED"
    OBVIOUS
  <2>2. "ACCEPTED" \in gone[u] \/ x \in tracking[u]
    BY DEF IInv, TableInv, ChargeOnce
  <2> HIDE DEF x
  <2>3. "ACCEPTED" \in gone'[u] \/ x \in tracking'[u]
    BY <1>1, <1>2, <2>1, <2>2 DEF IInv, TypeOK
  <2> QED
    BY <2>3 DEF x
<1>13. \A p \in Procs : p # q => CheckedUnique(p)'
  BY <1>1, FinishType DEF IInv, TypeOK, RequestInv, CheckedUnique, Inserted, Tracks, HasStatus
<1>14. \A p \in Procs : p # q /\ InTx(p) =>
        \A u \in Orders : \A c \in credits'[u] \cup charges'[u] : c.at # req[p].at
  BY <1>1 DEF IInv, OwnTime
<1> QED
  BY <1>1, <1>3, <1>4, <1>5, <1>9, <1>10, <1>11, <1>12, <1>13, <1>14, ChangeAndFinish
     DEF TableInv

LEMMA ChargeStep ==
  ASSUME IInv, NEW q \in Procs, Charge(q)
  PROVE  IInv'
<1> DEFINE o   == req[q].order
           new == [rider |-> req[q].rider, at |-> req[q].at]
<1>1. /\ o \in created /\ o \in Orders /\ req[q].rider \in Riders
      /\ req[q].at \in Times /\ InTx(q) /\ ChargeIsDue(q) /\ req[q].pc = "charge"
      /\ UNCHANGED <<created, cash, orders, stops, delivered, tracking, gone,
                     credits, refused, faults>>
      /\ Finish(q)
  BY DEF Charge, IInv, TypeOK, RequestInv, Shape, InTx, Request
<1>2. new \in Credits /\ new.at = req[q].at
  BY <1>1 DEF Credits
<1>3. \/ charges' = [charges EXCEPT ![o] = @ \cup {new}]
      \/ charges' = charges
  BY DEF Charge
<1>4. \A c \in charges[o] : c.at # new.at
  BY <1>1, <1>2 DEF IInv, OwnTime
<1>5. \/ "ACCEPTED" \in gone[o]
      \/ [status |-> "ACCEPTED", at |-> new.at] \in tracking[o]
  BY <1>1, <1>2 DEF ChargeIsDue
<1>6. \A p \in Procs : p # q /\ InTx(p) => req[p].at # new.at
  BY <1>1, <1>2 DEF IInv, OwnTime
<1> HIDE DEF o, new
<1>7. Grows
  BY <1>1 DEF Grows, IInv, TypeOK, TableInv, Placed
<1>8. TableTypes' /\ OneRowPerStatus'
  BY <1>1, <1>2, <1>3 DEF TableTypes, OneRowPerStatus, IInv, TypeOK, UniqueRows
<1>9. Placed'
  BY <1>1 DEF IInv, TypeOK, TableInv, Placed
<1>10. DeliveredAllStops' /\ ChainClosed'
  BY <1>1 DEF IInv, TableInv, DeliveredAllStops, ChainClosed, EverReached,
       HasStatus, Multiple
<1>11. DeliveryPaid' /\ RewardedFlagIsTrue' /\ AssignedIffRider'
  BY <1>1 DEF IInv, TableInv, DeliveryPaid, RewardedFlagIsTrue, AssignedIffRider
<1>12. ChargeOnce'
  <2>1. \A u \in Orders : \A c \in charges'[u] :
          c \in charges[u] \/ (u = o /\ c = new)
    BY <1>1, <1>3 DEF IInv, TypeOK
  <2>2. ASSUME NEW u \in Orders, NEW c \in charges'[u]
        PROVE  \/ "ACCEPTED" \in gone'[u]
               \/ [status |-> "ACCEPTED", at |-> c.at] \in tracking'[u]
    <3>1. CASE c \in charges[u]
      BY <1>1, <3>1 DEF IInv, TableInv, ChargeOnce
    <3>2. CASE u = o /\ c = new
      BY <1>1, <1>5, <3>2
    <3> QED
      BY <2>1, <3>1, <3>2
  <2>3. ASSUME NEW u \in Orders, NEW c \in charges'[u], NEW d \in charges'[u], d.at = c.at
        PROVE  d = c
    <3>1. CASE c \in charges[u] /\ d \in charges[u]
      BY <2>3, <3>1 DEF IInv, TableInv, ChargeOnce
    <3>2. CASE ~(c \in charges[u] /\ d \in charges[u])
      BY <1>4, <2>1, <2>3, <3>2
    <3> QED
      BY <3>1, <3>2
  <2> QED
    BY <2>2, <2>3 DEF ChargeOnce
<1>13. \A p \in Procs : p # q => CheckedUnique(p)'
  BY <1>1, FinishType DEF IInv, TypeOK, RequestInv, CheckedUnique, Inserted, Tracks, HasStatus
<1>14. \A p \in Procs : p # q /\ InTx(p) =>
        \A u \in Orders : \A c \in credits'[u] \cup charges'[u] : c.at # req[p].at
  BY <1>1, <1>3, <1>6 DEF IInv, TypeOK, OwnTime
<1> QED
  BY <1>1, <1>7, <1>8, <1>9, <1>10, <1>11, <1>12, <1>13, <1>14, ChangeAndFinish
     DEF TableInv

LEMMA SaveWriteStep ==
  ASSUME IInv, NEW q \in Procs, SaveWrite(q)
  PROVE  IInv'
<1> DEFINE o    == req[q].order
           snap == req[q].snap
           diff == req[q].diff
           row  == Overwrite(orders[o], snap, diff)
           r    == [req[q] EXCEPT !.pc = "pick", !.excluded = snap.declined,
                                  !.rider = None, !.snap = NewOrder, !.diff = {}]
<1>1. /\ o \in created /\ o \in Orders /\ req[q] \in Request
      /\ snap \in OrderRow /\ orders[o] \in OrderRow /\ req[q].rider \in Riders
      /\ req[q].pc = "write" /\ Shape(q) /\ StaleSave(q)
      /\ orders' = [orders EXCEPT ![o] = row]
      /\ refused' = [refused EXCEPT ![o] = @ \cup {req[q].rider}]
      /\ Becomes(q, r)
      /\ UNCHANGED <<created, cash, stops, delivered, tracking, gone, credits,
                     charges, faults>>
  BY DEF SaveWrite, IInv, TypeOK, RequestInv, Shape, StaleSave, Request
<1>2. /\ snap.rider = None /\ ~snap.assigned
      /\ snap.rewarded => credits[o] # {}
      /\ "rider" \in diff <=> "assigned" \in diff
  BY <1>1 DEF StaleSave
<1>3. row \in OrderRow
  BY <1>1 DEF Overwrite, OrderRow
<1>4. row.rewarded => credits[o] # {}
  BY <1>1, <1>2 DEF Overwrite, IInv, TableInv, RewardedFlagIsTrue
<1>5. row.assigned <=> row.rider # None
  <2>1. orders[o].assigned <=> orders[o].rider # None
    BY <1>1 DEF IInv, TableInv, AssignedIffRider
  <2> QED
    BY <1>1, <1>2, <2>1 DEF Overwrite
<1>6. /\ r \in Request /\ r.pc = "pick" /\ r.op = req[q].op /\ r.order = o
      /\ r.status = req[q].status /\ r.todo = req[q].todo
      /\ r.rider = None
  BY <1>1, ZenonT(40) DEF Request, PCs, OrderRow, NewOrder
<1>7. /\ req' \in [Procs -> Request] /\ req'[q] = r
      /\ \A p \in Procs : p # q => req'[p] = req[p]
  BY <1>1, <1>6, BecomesType DEF IInv, TypeOK
<1>8. RequestInv(q)' /\ ~Inserted(q)' /\ ~InTx(q)'
  <2>1. req[q].op = "decline"
    BY <1>1 DEF StaleSave
  <2> HIDE DEF r
  <2> QED
    BY <1>1, <1>6, <1>7, <2>1 DEF RequestInv, Shape, CheckedStops, CheckedChain,
       CheckedUnique, CheckedReward, Found, ChargeIsDue, StaleSave, PastStops,
       PastLatest, Inserted, InTx
<1>9. req'[q].order \in created' /\ req'[q].todo \subseteq created'
  BY <1>1, <1>6, <1>7 DEF IInv, TypeOK
<1> HIDE DEF o, snap, diff, row, r
<1>10. Grows
  BY <1>1 DEF Grows, IInv, TypeOK, TableInv, Placed
<1>11. TableTypes' /\ OneRowPerStatus'
  BY <1>1, <1>3 DEF TableTypes, OneRowPerStatus, IInv, TypeOK, UniqueRows
<1>12. Placed'
  BY <1>1 DEF IInv, TypeOK, TableInv, Placed
<1>13. DeliveredAllStops' /\ ChainClosed'
  BY <1>1 DEF IInv, TableInv, DeliveredAllStops, ChainClosed, EverReached,
       HasStatus, Multiple
<1>14. DeliveryPaid' /\ ChargeOnce'
  BY <1>1 DEF IInv, TableInv, DeliveryPaid, ChargeOnce
<1>15. RewardedFlagIsTrue' /\ AssignedIffRider'
  BY <1>1, <1>4, <1>5 DEF IInv, TypeOK, TableInv, RewardedFlagIsTrue, AssignedIffRider
<1>16. \A p \in Procs : p # q => CheckedUnique(p)'
  BY <1>1, <1>7 DEF IInv, RequestInv, CheckedUnique, Inserted, Tracks, HasStatus
<1>17. \A p \in Procs : InTx(p)' =>
        \A u \in Orders : \A c \in credits'[u] \cup charges'[u] : c.at # req'[p].at
  BY <1>1, <1>7, <1>8 DEF IInv, OwnTime, InTx
<1> QED
  BY <1>1, <1>7, <1>8, <1>9, <1>10, <1>11, <1>12, <1>13, <1>14, <1>15, <1>16, <1>17,
     ChangeStep DEF TableInv

LEMMA CreateOrderStep ==
  ASSUME IInv, NEW q \in Procs, NEW o \in Orders, NEW S \in SUBSET Destinations,
         NEW isCash \in BOOLEAN, NEW t \in Times, CreateOrder(q, o, S, isCash, t)
  PROVE  IInv'
<1> DEFINE r   == [Idle EXCEPT !.pc = "assign", !.op = "create", !.order = o]
           row == [status |-> "PENDING", at |-> t]
<1>1. /\ o \notin created /\ "create" \in Ops
      /\ Becomes(q, r)
      /\ created'  = created \cup {o}
      /\ cash'     = [cash EXCEPT ![o] = isCash]
      /\ stops'    = [stops EXCEPT ![o] = S]
      /\ tracking' = [tracking EXCEPT ![o] = {row}]
      /\ UNCHANGED <<orders, delivered, gone, credits, charges, refused, faults>>
  BY DEF CreateOrder
<1>2. row \in Rows /\ row.status = "PENDING"
  BY DEF Rows, Status, Main
<1>3. /\ r \in Request /\ r.pc = "assign" /\ r.op = "create" /\ r.order = o
      /\ r.todo = {}
  BY IdleType DEF Request, PCs, Handlers
<1>4. /\ req' \in [Procs -> Request] /\ req'[q] = r
      /\ \A p \in Procs : p # q => req'[p] = req[p]
  BY <1>1, <1>3, BecomesType DEF IInv, TypeOK
<1> HIDE DEF r, row
<1>5. RequestInv(q)' /\ ~InTx(q)' /\ ~Inserted(q)'
  BY <1>1, <1>3, <1>4 DEF RequestInv, Shape, CheckedStops, CheckedChain,
       CheckedUnique, CheckedReward, Found, ChargeIsDue, StaleSave, PastStops,
       PastLatest, Inserted, InTx
<1>6. req'[q].order \in created' /\ req'[q].todo \subseteq created'
  BY <1>1, <1>3, <1>4
\* the new order has no rows, and the others keep theirs
<1>7. /\ tracking[o] = {} /\ gone[o] = {} /\ delivered[o] = {} /\ charges[o] = {}
      /\ tracking'[o] = {row} /\ stops'[o] = S
      /\ \A u \in Orders \ {o} : tracking'[u] = tracking[u] /\ stops'[u] = stops[u]
  BY <1>1 DEF IInv, TypeOK, TableInv, Placed, ChargeOnce
<1>8. Grows
  BY <1>1, <1>7 DEF Grows, IInv, TypeOK, TableInv, Placed
<1>9. TableTypes'
  BY <1>1, <1>2 DEF TableTypes, IInv, TypeOK
<1>10. OneRowPerStatus'
  BY <1>7 DEF OneRowPerStatus, IInv, UniqueRows
<1>11. Placed'
  BY <1>1, <1>7 DEF IInv, TableInv, Placed
<1>12. ChainClosed'
  <2> SUFFICES ASSUME NEW u \in Orders, NEW s \in Status, NEW next \in Successors[s],
                      EverReached(u, next)'
               PROVE  EverReached(u, s)'
    BY DEF ChainClosed, EverReached, HasStatus
  <2>1. CASE u = o
    BY <1>1, <1>2, <1>7, <2>1 DEF EverReached, HasStatus, Successors, Status, Main
  <2>2. CASE u # o
    BY <1>1, <1>7, <2>2 DEF IInv, TableInv, ChainClosed, EverReached, HasStatus
  <2> QED
    BY <2>1, <2>2
<1>13. DeliveredAllStops'
  <2> SUFFICES ASSUME NEW u \in Orders, EverReached(u, "DELIVERED")', Multiple(u)'
               PROVE  delivered'[u] = stops'[u]
    BY DEF DeliveredAllStops, EverReached, HasStatus, Multiple
  <2>1. CASE u = o
    BY <1>1, <1>2, <1>7, <2>1 DEF EverReached, HasStatus
  <2>2. CASE u # o
    BY <1>1, <1>7, <2>2 DEF IInv, TableInv, DeliveredAllStops, EverReached, HasStatus, Multiple
  <2> QED
    BY <2>1, <2>2
<1>14. DeliveryPaid'
  BY <1>1, <1>2, <1>7 DEF IInv, TableInv, DeliveryPaid
<1>15. RewardedFlagIsTrue' /\ AssignedIffRider'
  BY <1>1 DEF IInv, TableInv, RewardedFlagIsTrue, AssignedIffRider
<1>16. ChargeOnce'
  BY <1>1, <1>7 DEF IInv, TableInv, ChargeOnce
<1>17. \A p \in Procs : p # q => CheckedUnique(p)'
  <2> SUFFICES ASSUME NEW p \in Procs, p # q, Inserted(p)
               PROVE  ~HasStatus(req[p].order, req[p].status)'
    BY <1>4 DEF CheckedUnique, Inserted, Tracks, HasStatus
  <2>1. req[p].order \in created /\ req[p].order \in Orders \ {o}
    BY <1>1 DEF Inserted, IInv, TypeOK
  <2> QED
    BY <1>4, <1>7, <2>1 DEF IInv, RequestInv, CheckedUnique, HasStatus
<1>18. \A p \in Procs : InTx(p)' =>
        \A u \in Orders : \A c \in credits'[u] \cup charges'[u] : c.at # req'[p].at
  BY <1>1, <1>4, <1>5 DEF IInv, OwnTime, InTx
<1> QED
  BY <1>1, <1>4, <1>5, <1>6, <1>8, <1>9, <1>10, <1>11, <1>12, <1>13, <1>14, <1>15,
     <1>16, <1>17, <1>18, ChangeStep DEF TableInv

LEMMA CommitStep ==
  ASSUME IInv, NEW q \in Procs, Commit(q)
  PROVE  IInv'
<1> DEFINE o    == req[q].order
           s    == req[q].status
           new  == Uncommitted(q)
           pay  == [rider |-> req[q].rider, at |-> req[q].at]
<1>1. /\ o \in created /\ o \in Orders /\ req[q] \in Request /\ req[q].at \in Times
      /\ req[q].pc = "commit" /\ RequestInv(q) /\ InTx(q)
      /\ s \in Status /\ (Inserted(q) <=> Tracks(q))
      /\ tracking' = [tracking EXCEPT ![o] = @ \cup new]
      /\ UNCHANGED <<created, cash, stops, delivered, gone, charges, refused, faults>>
      /\ Finish(q) \/ (req[q].op = "accept" /\ Goto(q, "charge"))
  BY DEF Commit, IInv, TypeOK, RequestInv, Shape, InTx, Inserted, Request
<1>2. \/ /\ s = "DELIVERED"
         /\ credits' = [credits EXCEPT ![o] = @ \cup {pay}]
         /\ orders'  = [orders EXCEPT ![o].rewarded = TRUE]
      \/ /\ s # "DELIVERED"
         /\ UNCHANGED <<credits, orders>>
  BY DEF Commit
<1>3. /\ \A x \in new : x \in Rows /\ x.status = s /\ x.at = req[q].at /\ Inserted(q)
      /\ \A x, y \in new : x = y
  BY <1>1, UncommittedRow DEF Rows
<1>4. s = "DELIVERED" => pay \in Credits
  BY <1>1 DEF RequestInv, CheckedReward, Credits
<1>5. pay.at = req[q].at
  OBVIOUS
<1>6. Inserted(q) => ~HasStatus(o, s)
  BY <1>1 DEF RequestInv, CheckedUnique
<1>7. /\ tracking'[o] = tracking[o] \cup new
      /\ \A u \in Orders \ {o} : tracking'[u] = tracking[u]
  BY <1>1 DEF IInv, TypeOK
<1>8. /\ \A u \in Orders : \A c \in credits[u] : c \in credits'[u]
      /\ \A u \in Orders : \A c \in credits'[u] : c \in credits[u] \/ (u = o /\ c = pay)
      /\ s = "DELIVERED" => pay \in credits'[o]
      /\ credits' \in [Orders -> SUBSET Credits]
  BY <1>1, <1>2, <1>4 DEF IInv, TypeOK
<1>9. /\ orders' \in [Orders -> OrderRow]
      /\ \A u \in Orders \ {o} : orders'[u] = orders[u]
      /\ orders'[o].rider = orders[o].rider /\ orders'[o].assigned = orders[o].assigned
      /\ orders'[o].rewarded => orders[o].rewarded \/ pay \in credits'[o]
  <2> DEFINE row == [orders[o] EXCEPT !.rewarded = TRUE]
  <2>1. orders \in [Orders -> OrderRow] /\ orders[o] \in OrderRow
    BY <1>1 DEF IInv, TypeOK
  <2>2. row \in OrderRow /\ row.rider = orders[o].rider /\ row.assigned = orders[o].assigned
    BY <2>1 DEF OrderRow
  <2>3. orders' = [orders EXCEPT ![o] = row] \/ orders' = orders
    BY <1>2
  <2>4. orders' = [orders EXCEPT ![o] = row] => pay \in credits'[o] \/ orders' = orders
    BY <1>2, <1>8
  <2> HIDE DEF row
  <2> QED
    BY <1>1, <2>1, <2>2, <2>3, <2>4
<1> HIDE DEF o, s, new, pay
<1>10. Grows
  BY <1>1, <1>7, <1>8 DEF Grows, IInv, TypeOK, TableInv, Placed
<1>11. TableTypes'
  BY <1>1, <1>3, <1>8, <1>9 DEF TableTypes, IInv, TypeOK
<1>12. OneRowPerStatus'
  BY <1>3, <1>6, <1>7 DEF OneRowPerStatus, IInv, UniqueRows, HasStatus
<1>13. Placed'
  BY <1>1, <1>7, <1>8, <1>9 DEF IInv, TableInv, Placed
\* only the new row's status is new
<1>14. \A u \in Orders : \A w : EverReached(u, w)' =>
         EverReached(u, w) \/ (u = o /\ w = s /\ Inserted(q))
  BY <1>1, <1>3, <1>7 DEF EverReached, HasStatus
<1>15. ChainClosed'
  <2> SUFFICES ASSUME NEW u \in Orders, NEW w \in Status, NEW next \in Successors[w],
                      EverReached(u, next)'
               PROVE  EverReached(u, w)'
    BY DEF ChainClosed, EverReached, HasStatus
  <2>1. EverReached(u, w) /\ u \in created
    <3>1. CASE EverReached(u, next)
      BY <3>1 DEF IInv, TableInv, ChainClosed, Placed, EverReached, HasStatus
    <3>2. CASE u = o /\ next = s /\ Inserted(q)
      BY <1>1, <3>2 DEF RequestInv, CheckedChain, PastLatest, Inserted, o, s
    <3> QED
      BY <1>14, <3>1, <3>2
  <2> QED
    BY <1>10, <2>1, EverReachedGrows
<1>16. DeliveredAllStops'
  <2> SUFFICES ASSUME NEW u \in Orders, EverReached(u, "DELIVERED")', Multiple(u)
               PROVE  delivered[u] = stops[u]
    BY <1>1 DEF DeliveredAllStops, EverReached, HasStatus, Multiple
  <2>1. CASE EverReached(u, "DELIVERED")
    BY <2>1 DEF IInv, TableInv, DeliveredAllStops
  <2>2. CASE u = o /\ s = "DELIVERED" /\ Inserted(q)
    BY <1>1, <2>2 DEF RequestInv, CheckedStops, PastStops, Inserted, o, s
  <2> QED
    BY <1>14, <2>1, <2>2
<1>17. DeliveryPaid'
  <2> SUFFICES ASSUME NEW u \in Orders, NEW x \in tracking'[u], x.status = "DELIVERED"
               PROVE  \E c \in credits'[u] : c.at = x.at
    BY DEF DeliveryPaid
  <2>1. CASE x \in tracking[u]
    BY <1>8, <2>1 DEF IInv, TableInv, DeliveryPaid
  <2>2. CASE u = o /\ x \in new
    BY <1>3, <1>5, <1>8, <2>2
  <2> QED
    BY <1>7, <2>1, <2>2
<1>18. RewardedFlagIsTrue' /\ AssignedIffRider'
  BY <1>1, <1>8, <1>9 DEF IInv, TableInv, RewardedFlagIsTrue, AssignedIffRider
<1>19. ChargeOnce'
  BY <1>1, <1>7 DEF IInv, TableInv, ChargeOnce
<1>20. /\ req' \in [Procs -> Request]
       /\ \A p \in Procs : p # q => req'[p] = req[p]
  BY <1>1, FinishType, GotoType DEF IInv, TypeOK, PCs
<1>21. \A p \in Procs : p # q => CheckedUnique(p)'
  <2> SUFFICES ASSUME NEW p \in Procs, p # q, Inserted(p)
               PROVE  ~HasStatus(req[p].order, req[p].status)'
    BY <1>20 DEF CheckedUnique, Inserted, Tracks, HasStatus
  <2>1. ~HasStatus(req[p].order, req[p].status) /\ req[p].order \in Orders
    BY DEF IInv, TypeOK, RequestInv, CheckedUnique, Inserted
  <2>2. ~(req[p].order = o /\ req[p].status = s /\ Inserted(q))
    BY DEF IInv, UniqueRows, o, s
  <2> QED
    BY <1>3, <1>7, <1>20, <2>1, <2>2 DEF HasStatus
<1>22. \A p \in Procs : p # q /\ InTx(p) =>
        \A u \in Orders : \A c \in credits'[u] \cup charges'[u] : c.at # req[p].at
  BY <1>1, <1>5, <1>8 DEF IInv, OwnTime
<1>23. CASE Finish(q)
  BY <1>1, <1>10, <1>11, <1>12, <1>13, <1>15, <1>16, <1>17, <1>18, <1>19, <1>21, <1>22,
     <1>23, ChangeAndFinish DEF TableInv
<1>24. CASE req[q].op = "accept" /\ Goto(q, "charge")
  <2>1. /\ req'[q].pc = "charge" /\ req'[q].op = "accept" /\ req'[q].order = o
        /\ req'[q].status = s /\ req'[q].at = req[q].at
        /\ req'[q].rider = req[q].rider /\ req'[q].todo = req[q].todo
    BY <1>24, GotoType DEF IInv, TypeOK, PCs, o, s
  <2>2. s = "ACCEPTED" /\ req[q].rider \in Riders /\ Inserted(q) /\ "accept" \in Ops \cup {"cron", None}
    BY <1>1, <1>24 DEF RequestInv, Shape, Tracks, s
  <2>3. [status |-> "ACCEPTED", at |-> req[q].at] \in tracking'[o]
    BY <1>7, <2>2, UncommittedRow DEF new, s
  <2>4. RequestInv(q)' /\ ~Inserted(q)' /\ InTx(q)'
    BY <2>1, <2>2, <2>3 DEF RequestInv, Shape, CheckedStops, CheckedChain,
       CheckedUnique, CheckedReward, Found, ChargeIsDue, StaleSave, PastStops,
       PastLatest, Inserted, InTx, Tracks, Status, Main
  <2>5. req'[q].order \in created' /\ req'[q].todo \subseteq created'
    BY <1>1, <2>1 DEF IInv, TypeOK
  <2>6. \A p \in Procs : InTx(p)' =>
        \A u \in Orders : \A c \in credits'[u] \cup charges'[u] : c.at # req'[p].at
    <3>1. credits' = credits
      BY <1>2, <2>2
    <3> QED
      BY <1>1, <1>20, <1>22, <2>1, <3>1, SameTime DEF InTx
  <2> QED
    BY <1>1, <1>10, <1>11, <1>12, <1>13, <1>15, <1>16, <1>17, <1>18, <1>19, <1>20,
       <1>21, <2>1, <2>4, <2>5, <2>6, ChangeStep DEF TableInv
<1> QED
  BY <1>1, <1>23, <1>24

(***************************************************************************)
(* The invariant                                                           *)
(***************************************************************************)

LEMMA InitIInv == Init => IInv
<1> SUFFICES ASSUME Init PROVE IInv
  OBVIOUS
<1> USE DEF Init
<1>1. \A q \in Procs : req[q] = Idle
  OBVIOUS
<1>2. TypeOK
  BY <1>1, IdleType, ConstantsAssumption DEF TypeOK, OrderRow, NewOrder
<1>3. TableInv
  BY DEF TableInv, Placed, ChainClosed, DeliveredAllStops, DeliveryPaid,
     RewardedFlagIsTrue, AssignedIffRider, ChargeOnce, EverReached, HasStatus,
     Multiple, NewOrder
<1>4. \A q \in Procs : RequestInv(q) /\ ~InTx(q) /\ ~Inserted(q)
  BY <1>1, IdleType, AtRest
<1>5. UniqueRows /\ OwnTime
  BY <1>4 DEF UniqueRows, OwnTime
<1> QED
  BY <1>2, <1>3, <1>4, <1>5 DEF IInv

LEMMA NextIInv == IInv /\ [Next]_vars => IInv'
<1> SUFFICES ASSUME IInv, [Next]_vars PROVE IInv'
  OBVIOUS
<1>1. ASSUME NEW q \in Clients, StartTracking(q) PROVE IInv'
  <2>1. q \in Procs
    BY DEF Procs
  <2> QED
    BY <1>1, <2>1, PostTrackingStep, PostRewardStep, LoadRowStep, LoadDestinationStep
       DEF StartTracking
<1>2. ASSUME NEW q \in Clients, StartDispatch(q) PROVE IInv'
  <2>1. q \in Procs
    BY DEF Procs
  <2> QED
    BY <1>2, <2>1, CreateOrderStep, PutAssignStep, AcceptStep, DeclineStep
       DEF StartDispatch
<1>3. ASSUME NEW q \in Procs, StepTracking(q) PROVE IInv'
  BY <1>3, LoadOrderStep, CheckDuplicateStep, CheckTransitionStep, InsertRowStep,
     CheckRewardStep, CommitStep, DeleteRowStep, SaveDestinationStep DEF StepTracking
<1>4. ASSUME NEW q \in Procs, StepDispatch(q) PROVE IInv'
  BY <1>4, LoadDeclinedStep, PickNobodyStep, UpdateRiderStep, PickRiderStep,
     BeginAcceptStep, ChargeStep, SaveDiffStep, SaveWriteStep DEF StepDispatch
<1>5. ASSUME NEW q \in Procs, Fail(q) PROVE IInv'
  BY <1>5, FailStep
<1>6. CASE CronStart
  BY <1>6, CronStartStep
<1>7. CASE CronNext
  BY <1>7, CronNextStep
<1>8. CASE Crash
  BY <1>8, CrashStep
<1>9. CASE UNCHANGED vars
  <2> USE DEF vars
  <2>1. UNCHANGED table /\ req' = req /\ faults' = faults
    BY <1>9
  <2>2. TypeOK'
    BY <2>1 DEF IInv, TypeOK, table
  <2>3. Grows /\ TableInv'
    BY <2>1, TableStays
  <2>4. \A p \in Procs : CheckedUnique(p)'
    BY <2>1 DEF IInv, RequestInv, CheckedUnique, Inserted, Tracks, HasStatus, table
  <2>5. \A p \in Procs : RequestInv(p)'
    BY <2>1, <2>3, <2>4, Unmoved
  <2>6. UniqueRows' /\ OwnTime'
    BY <2>1 DEF IInv, UniqueRows, OwnTime, Inserted, Tracks, InTx, table
  <2> QED
    BY <2>2, <2>3, <2>5, <2>6 DEF IInv
<1> QED
  BY <1>1, <1>2, <1>3, <1>4, <1>5, <1>6, <1>7, <1>8, <1>9 DEF Next, Start, Step

\* In every reachable state of an order subsystem of any size the tables are
\* consistent and what each request in flight has checked still holds.
THEOREM Invariance == Spec => []IInv
BY InitIInv, NextIInv, PTL DEF Spec

\* Type correctness.
THEOREM TypeCorrect == Spec => []TypeOK
<1>1. IInv => TypeOK
  BY DEF IInv
<1> QED
  BY <1>1, Invariance, PTL

\* addOrderTracking never skips a status, however many transactions overlap.
THEOREM ChainIsClosed == Spec => []ChainClosed
<1>1. IInv => ChainClosed
  BY DEF IInv, TableInv
<1> QED
  BY <1>1, Invariance, PTL

\* An order with several destinations is DELIVERED only when each of them is.
THEOREM AllStopsDelivered == Spec => []DeliveredAllStops
<1>1. IInv => DeliveredAllStops
  BY DEF IInv, TableInv
<1> QED
  BY <1>1, Invariance, PTL

\* A DELIVERED row never commits without the rider's credit.
THEOREM DeliveryIsPaid == Spec => []DeliveryPaid
<1>1. IInv => DeliveryPaid
  BY DEF IInv, TableInv
<1> QED
  BY <1>1, Invariance, PTL

\* hasRewardedRider is never set for an order whose rider was not credited.
THEOREM RewardedFlagTrue == Spec => []RewardedFlagIsTrue
<1>1. IInv => RewardedFlagIsTrue
  BY DEF IInv, TableInv
<1> QED
  BY <1>1, Invariance, PTL

\* riderAssigned and riderId agree in spite of the stale saves of a decline.
THEOREM AssignedHasRider == Spec => []AssignedIffRider
<1>1. IInv => AssignedIffRider
  BY DEF IInv, TableInv
<1> QED
  BY <1>1, Invariance, PTL

\* Each committed acceptance of a cash order is charged at most once.
THEOREM ChargedOnce == Spec => []ChargeOnce
<1>1. IInv => ChargeOnce
  BY DEF IInv, TableInv
<1> QED
  BY <1>1, Invariance, PTL

(***************************************************************************)
(* One reward per order, where no rider declines                           *)
(***************************************************************************)

\* What is about to be paid after the step was about to be paid before it.
OnlyOldPayments ==
  \A p \in Procs : req'[p].pc = "commit" /\ req'[p].status = "DELIVERED" =>
    req'[p] = req[p]

\* A step that touches neither rewards nor payments keeps them as they are.
LEMMA SamePayments ==
  ASSUME TypeOK, NoStaleReward, RewardOnce, OnlyOldPayments, credits' = credits,
         \A o \in Orders : orders'[o].rewarded = orders[o].rewarded,
         \A o \in Orders : HasStatus(o, "DELIVERED")' => HasStatus(o, "DELIVERED")
  PROVE  NoStaleReward' /\ RewardOnce'
<1>1. \A p \in Procs : req[p].pc = "commit" => req[p].order \in Orders
  BY DEF TypeOK
<1>2. RewardOnce'
  BY DEF RewardOnce
<1>3. NoStaleReward'
  BY <1>1 DEF NoStaleReward, OnlyOldPayments, Tracks, HasStatus
<1> QED
  BY <1>2, <1>3

\* Of the steps that only move a request, CheckReward alone starts a payment.
LEMMA QuietPayments ==
  ASSUME IInv, NEW q \in Procs,
         \/ StartTracking(q)
         \/ \E o \in created : PutAssign(q, o)
         \/ \E o \in created, rider \in Riders : Accept(q, o, rider) \/ Decline(q, o, rider)
         \/ LoadOrder(q) \/ CheckDuplicate(q) \/ CheckTransition(q) \/ InsertRow(q)
         \/ LoadDeclined(q) \/ PickNobody(q)
         \/ \E rider \in Riders : PickRider(q, rider)
         \/ \E t \in Times : BeginAccept(q, t)
         \/ SaveDiff(q) \/ Fail(q)
  PROVE  UNCHANGED table /\ OnlyOldPayments
<1>1. UNCHANGED table
  <2>1. CASE StartTracking(q)
    BY <2>1 DEF StartTracking, PostTracking, PostReward, LoadRow, LoadDestination
  <2>2. ASSUME NEW o \in created, PutAssign(q, o) PROVE UNCHANGED table
    BY <2>2 DEF PutAssign
  <2>3. ASSUME NEW o \in created, NEW rider \in Riders,
               Accept(q, o, rider) \/ Decline(q, o, rider)
        PROVE  UNCHANGED table
    BY <2>3 DEF Accept, Decline
  <2>4. CASE LoadOrder(q) \/ CheckDuplicate(q) \/ CheckTransition(q) \/ InsertRow(q)
    BY <2>4 DEF LoadOrder, CheckDuplicate, CheckTransition, InsertRow
  <2>5. CASE LoadDeclined(q) \/ PickNobody(q) \/ SaveDiff(q) \/ Fail(q)
    BY <2>5 DEF LoadDeclined, PickNobody, SaveDiff, Fail
  <2>6. ASSUME NEW rider \in Riders, PickRider(q, rider) PROVE UNCHANGED table
    BY <2>6 DEF PickRider
  <2>7. ASSUME NEW t \in Times, BeginAccept(q, t) PROVE UNCHANGED table
    BY <2>7 DEF BeginAccept
  <2> QED
    BY <2>1, <2>2, <2>3, <2>4, <2>5, <2>6, <2>7
<1> SUFFICES OnlyOldPayments
  BY <1>1
<1>2. req \in [Procs -> Request] /\ req[q] \in Request
  BY DEF IInv, TypeOK
<1>3. CASE Finish(q)
  BY <1>2, <1>3, FinishType DEF OnlyOldPayments
<1>4. ASSUME NEW pc \in PCs, Goto(q, pc), pc = "commit" => req[q].status # "DELIVERED"
      PROVE  OnlyOldPayments
  BY <1>2, <1>4, GotoType DEF OnlyOldPayments
<1>5. ASSUME NEW r, Becomes(q, r), r.pc # "commit"
      PROVE  OnlyOldPayments
  <2>1. req'[q] = r /\ \A p \in Procs : p # q => req'[p] = req[p]
    BY <1>2, <1>5 DEF Becomes
  <2> QED
    BY <1>5, <2>1 DEF OnlyOldPayments
<1>6. CASE StartTracking(q)
  BY <1>5, <1>6, IdleType DEF StartTracking, PostTracking, PostReward, LoadRow,
     LoadDestination, Request
<1>7. ASSUME NEW o \in created, PutAssign(q, o)
      PROVE  OnlyOldPayments
  BY <1>5, <1>7, IdleType DEF PutAssign, Request
<1>8. ASSUME NEW o \in created, NEW rider \in Riders, Accept(q, o, rider) \/ Decline(q, o, rider)
      PROVE  OnlyOldPayments
  BY <1>5, <1>8, IdleType DEF Accept, Decline, Request
<1>9. CASE LoadOrder(q) \/ CheckDuplicate(q) \/ CheckTransition(q) \/ PickNobody(q) \/ Fail(q)
  BY <1>3, <1>4, <1>9 DEF LoadOrder, CheckDuplicate, CheckTransition, PickNobody, Fail, PCs
<1>10. CASE InsertRow(q)
  BY <1>3, <1>4, <1>10 DEF InsertRow, PCs
<1>11. CASE LoadDeclined(q) \/ SaveDiff(q)
  BY <1>2, <1>5, <1>11 DEF LoadDeclined, SaveDiff, Request
<1>12. ASSUME NEW rider \in Riders, PickRider(q, rider)
       PROVE  OnlyOldPayments
  BY <1>2, <1>5, <1>12 DEF PickRider, Request
<1>13. ASSUME NEW t \in Times, BeginAccept(q, t)
       PROVE  OnlyOldPayments
  BY <1>2, <1>5, <1>13 DEF BeginAccept, Request
<1> QED
  BY <1>6, <1>7, <1>8, <1>9, <1>10, <1>11, <1>12, <1>13

\* rewardRider finds the order delivered, and either its own transaction
\* delivers it or it was rewarded when it was.
LEMMA CheckRewardPayments ==
  ASSUME IInv, NoStaleReward, RewardOnce, NEW q \in Procs, CheckReward(q)
  PROVE  NoStaleReward' /\ RewardOnce'
<1> DEFINE o == req[q].order
           r == [req[q] EXCEPT !.pc = "commit", !.rider = orders[o].rider]
<1>1. /\ UNCHANGED <<created, orders, tracking, credits>>
      /\ req \in [Procs -> Request] /\ req[q] \in Request /\ o \in Orders /\ TypeOK
  BY DEF CheckReward, table, IInv, TypeOK
<1>2. CASE Finish(q)
  <2>1. OnlyOldPayments
    BY <1>1, <1>2, FinishType DEF OnlyOldPayments
  <2> QED
    BY <1>1, <2>1, SamePayments DEF HasStatus
<1>3. CASE /\ ~orders[o].rewarded
           /\ \E x \in tracking[o] \cup Uncommitted(q) : x.status = "DELIVERED"
           /\ Becomes(q, r)
  <2>1. r.pc = "commit" /\ r.op = req[q].op /\ r.order = o
    BY <1>1 DEF Request
  <2>2. req'[q] = r /\ \A p \in Procs : p # q => req'[p] = req[p]
    BY <1>1, <1>3 DEF Becomes
  <2>3. ~HasStatus(o, "DELIVERED")
    BY <1>1, <1>3 DEF NoStaleReward
  <2>4. Tracks(q)
    BY <1>3, <2>3, UncommittedRow DEF HasStatus, Inserted
  <2> HIDE DEF o, r
  <2> QED
    BY <1>1, <1>3, <2>1, <2>2, <2>4 DEF NoStaleReward, RewardOnce, Tracks, HasStatus
<1> QED
  BY <1>2, <1>3 DEF CheckReward

\* The payment finds the order unpaid, and leaves it paid once.
LEMMA CommitPayments ==
  ASSUME IInv, NoStaleReward, RewardOnce, NEW q \in Procs, Commit(q)
  PROVE  NoStaleReward' /\ RewardOnce'
<1> DEFINE o   == req[q].order
           s   == req[q].status
           pay == [rider |-> req[q].rider, at |-> req[q].at]
<1>1. /\ o \in Orders /\ req \in [Procs -> Request] /\ TypeOK /\ req[q].pc = "commit"
      /\ credits \in [Orders -> SUBSET Credits] /\ orders \in [Orders -> OrderRow]
      /\ tracking' = [tracking EXCEPT ![o] = @ \cup Uncommitted(q)]
      /\ Finish(q) \/ Goto(q, "charge")
  BY DEF Commit, IInv, TypeOK
<1>2. /\ req'[q].pc # "commit"
      /\ \A p \in Procs : p # q => req'[p] = req[p]
  BY <1>1, FinishType, GotoType DEF PCs
<1>3. \A u \in Orders : HasStatus(u, "DELIVERED")' =>
        HasStatus(u, "DELIVERED") \/ (u = o /\ s = "DELIVERED")
  BY <1>1, UncommittedRow DEF HasStatus, IInv, TypeOK
<1>4. CASE s # "DELIVERED"
  <2>1. UNCHANGED <<credits, orders>>
    BY <1>4 DEF Commit
  <2>2. OnlyOldPayments
    BY <1>2 DEF OnlyOldPayments
  <2> QED
    BY <1>1, <1>3, <1>4, <2>1, <2>2, SamePayments
<1>5. CASE s = "DELIVERED"
  <2>1. /\ credits' = [credits EXCEPT ![o] = @ \cup {pay}]
        /\ orders'  = [orders EXCEPT ![o].rewarded = TRUE]
    BY <1>5 DEF Commit
  <2>2. Tracks(q) /\ ~orders[o].rewarded /\ credits[o] = {}
    BY <1>1, <1>5 DEF NoStaleReward
  <2>3. Inserted(q)
    BY <1>1, <2>2 DEF Inserted
  <2>4. /\ credits'[o] = {pay}
        /\ \A u \in Orders \ {o} : credits'[u] = credits[u]
    BY <1>1, <2>1, <2>2
  <2>5. orders'[o].rewarded
    <3>1. orders[o] \in OrderRow /\ orders' = [orders EXCEPT ![o] = [orders[o] EXCEPT !.rewarded = TRUE]]
      BY <1>1, <2>1
    <3>2. [orders[o] EXCEPT !.rewarded = TRUE].rewarded
      BY <3>1 DEF OrderRow
    <3> QED
      BY <1>1, <3>1, <3>2
  <2>6. \A u \in Orders \ {o} : orders'[u] = orders[u]
    BY <1>1, <2>1
\* no other transaction is about to pay for this order
  <2>7. \A p \in Procs \ {q} :
          ~(req[p].pc = "commit" /\ req[p].status = "DELIVERED" /\ req[p].order = o)
    <3> SUFFICES ASSUME NEW p \in Procs \ {q}, req[p].pc = "commit",
                        req[p].status = "DELIVERED", req[p].order = o
                 PROVE  FALSE
      OBVIOUS
    <3>1. Inserted(p)
      BY DEF NoStaleReward, Inserted
    <3> QED
      BY <1>5, <2>3, <3>1 DEF IInv, UniqueRows
  <2> HIDE DEF o, s, pay
  <2>8. RewardOnce'
    BY <1>1, <2>4 DEF RewardOnce
  <2>9. \A u \in Orders :
           /\ credits'[u] # {} <=> orders'[u].rewarded
           /\ HasStatus(u, "DELIVERED")' => orders'[u].rewarded
    BY <1>1, <1>3, <2>4, <2>5, <2>6 DEF NoStaleReward
  <2>10. \A p \in Procs : req'[p].pc = "commit" /\ req'[p].status = "DELIVERED" =>
           Tracks(p)' /\ ~orders'[req'[p].order].rewarded
    <3> SUFFICES ASSUME NEW p \in Procs, req'[p].pc = "commit", req'[p].status = "DELIVERED"
                 PROVE  Tracks(p)' /\ ~orders'[req'[p].order].rewarded
      OBVIOUS
    <3>1. p # q /\ req'[p] = req[p]
      BY <1>2
    <3>2. req[p].order \in Orders \ {o}
      BY <1>1, <2>7, <3>1 DEF TypeOK
    <3> QED
      BY <2>6, <3>1, <3>2 DEF NoStaleReward, Tracks
  <2> QED
    BY <2>8, <2>9, <2>10 DEF NoStaleReward
<1> QED
  BY <1>4, <1>5

LEMMA NextPayments ==
  ASSUME "decline" \notin Ops, IInv, NoStaleReward, RewardOnce, [Next]_vars
  PROVE  NoStaleReward' /\ RewardOnce'
<1>1. /\ TypeOK /\ req \in [Procs -> Request] /\ orders \in [Orders -> OrderRow]
      /\ tracking \in [Orders -> SUBSET Rows]
      /\ \A q \in Procs : req[q] \in Request
      /\ \A q \in Procs : req[q].pc \notin {"idle", "next"} =>
           req[q].order \in Orders /\ req[q].order \in created
  BY DEF IInv, TypeOK
<1>2. ASSUME UNCHANGED table, OnlyOldPayments
      PROVE  NoStaleReward' /\ RewardOnce'
  BY <1>1, <1>2, SamePayments DEF HasStatus, table
<1>3. ASSUME NEW q \in Procs, Finish(q)
      PROVE  OnlyOldPayments
  BY <1>1, <1>3, FinishType DEF OnlyOldPayments
<1>4. ASSUME NEW q \in Procs, StartTracking(q)
      PROVE  NoStaleReward' /\ RewardOnce'
  BY <1>2, <1>4, QuietPayments
<1>5. ASSUME NEW q \in Procs, NEW o \in Orders, NEW S \in SUBSET Destinations,
             NEW isCash \in BOOLEAN, NEW t \in Times, CreateOrder(q, o, S, isCash, t)
      PROVE  NoStaleReward' /\ RewardOnce'
  <2> DEFINE r == [Idle EXCEPT !.pc = "assign", !.op = "create", !.order = o]
  <2>1. Becomes(q, r) /\ r.pc = "assign"
    BY <1>5, IdleType DEF CreateOrder, Request
  <2>2. OnlyOldPayments
    <3>1. req'[q] = r /\ \A p \in Procs : p # q => req'[p] = req[p]
      BY <1>1, <2>1 DEF Becomes
    <3> QED
      BY <2>1, <3>1 DEF OnlyOldPayments
  <2>3. \A u \in Orders : HasStatus(u, "DELIVERED")' => HasStatus(u, "DELIVERED")
    BY <1>1, <1>5 DEF CreateOrder, HasStatus
  <2> QED
    BY <1>1, <1>5, <2>2, <2>3, SamePayments DEF CreateOrder
<1>6. ASSUME NEW q \in Procs, StartDispatch(q)
      PROVE  NoStaleReward' /\ RewardOnce'
  BY <1>2, <1>5, <1>6, QuietPayments DEF StartDispatch
<1>7. ASSUME NEW q \in Procs, DeleteRow(q)
      PROVE  NoStaleReward' /\ RewardOnce'
  <2>1. \A u \in Orders : HasStatus(u, "DELIVERED")' => HasStatus(u, "DELIVERED")
    BY <1>1, <1>7 DEF DeleteRow, HasStatus
  <2> QED
    BY <1>1, <1>3, <1>7, <2>1, SamePayments DEF DeleteRow
<1>8. ASSUME NEW q \in Procs, SaveDestination(q) \/ Charge(q)
      PROVE  NoStaleReward' /\ RewardOnce'
  <2>1. UNCHANGED <<orders, tracking, credits>> /\ Finish(q)
    BY <1>8 DEF SaveDestination, Charge
  <2> QED
    BY <1>1, <1>3, <2>1, SamePayments DEF HasStatus
<1>9. ASSUME NEW q \in Procs, UpdateRider(q)
      PROVE  NoStaleReward' /\ RewardOnce'
  <2> DEFINE o   == req[q].order
             row == [[orders[o] EXCEPT !.rider = req[q].rider] EXCEPT !.assigned = TRUE]
  <2>1. /\ UNCHANGED <<tracking, credits>> /\ Finish(q) /\ o \in Orders
        /\ orders' = [orders EXCEPT ![o] = row]
    BY <1>1, <1>9 DEF UpdateRider
  <2>2. row.rewarded = orders[o].rewarded
    BY <1>1, <2>1 DEF OrderRow
  <2> HIDE DEF o, row
  <2>3. \A u \in Orders : orders'[u].rewarded = orders[u].rewarded
    BY <1>1, <2>1, <2>2
  <2> QED
    BY <1>1, <1>3, <2>1, <2>3, SamePayments DEF HasStatus
<1>10. ASSUME NEW q \in Procs, SaveWrite(q)
       PROVE  FALSE
  BY <1>10, ConstantsAssumption DEF SaveWrite, IInv, RequestInv, Shape, StaleSave, Handlers
<1>11. ASSUME NEW q \in Procs, StepTracking(q)
       PROVE  NoStaleReward' /\ RewardOnce'
  BY <1>2, <1>7, <1>8, <1>11, QuietPayments, CheckRewardPayments, CommitPayments
     DEF StepTracking
<1>12. ASSUME NEW q \in Procs, StepDispatch(q)
       PROVE  NoStaleReward' /\ RewardOnce'
  BY <1>2, <1>8, <1>9, <1>10, <1>12, QuietPayments DEF StepDispatch
<1>13. ASSUME NEW q \in Procs, Fail(q)
       PROVE  NoStaleReward' /\ RewardOnce'
  BY <1>2, <1>13, QuietPayments
<1>14. ASSUME CronStart \/ CronNext
       PROVE  NoStaleReward' /\ RewardOnce'
  <2>1. Cron \in Procs
    BY DEF Procs
  <2>2. ASSUME NEW r, Becomes(Cron, r), r.pc # "commit"
        PROVE  OnlyOldPayments
    <3>1. req'[Cron] = r /\ \A p \in Procs : p # Cron => req'[p] = req[p]
      BY <1>1, <2>1, <2>2 DEF Becomes
    <3> QED
      BY <2>2, <3>1 DEF OnlyOldPayments
  <2>3. CASE CronStart
    BY <1>2, <2>2, <2>3, IdleType DEF CronStart, Request
  <2>4. CASE CronNext
    <3>1. CASE Becomes(Cron, Idle)
      BY <1>2, <2>2, <2>4, <3>1, IdleType DEF CronNext
    <3>2. ASSUME NEW o \in req[Cron].todo,
                 Becomes(Cron, [req[Cron] EXCEPT !.pc = "assign", !.order = o,
                                                 !.todo = @ \ {o}])
          PROVE  NoStaleReward' /\ RewardOnce'
      <4> DEFINE r == [req[Cron] EXCEPT !.pc = "assign", !.order = o, !.todo = @ \ {o}]
      <4>1. r.pc = "assign"
        BY <1>1, <2>1 DEF Request
      <4>2. OnlyOldPayments
        BY <2>2, <3>2, <4>1
      <4> QED
        BY <1>2, <2>4, <4>2 DEF CronNext
    <3> QED
      BY <2>4, <3>1, <3>2 DEF CronNext
  <2> QED
    BY <1>14, <2>3, <2>4
<1>15. ASSUME Crash
       PROVE  NoStaleReward' /\ RewardOnce'
  <2>1. OnlyOldPayments
    BY <1>15, IdleType DEF Crash, OnlyOldPayments
  <2> QED
    BY <1>2, <1>15, <2>1 DEF Crash
<1>16. ASSUME UNCHANGED vars
       PROVE  NoStaleReward' /\ RewardOnce'
  BY <1>2, <1>16 DEF vars, OnlyOldPayments
<1>17. Clients \subseteq Procs
  BY DEF Procs
<1> QED
  BY <1>4, <1>6, <1>11, <1>12, <1>13, <1>14, <1>15, <1>16, <1>17 DEF Next, Start, Step

\* An order is never rewarded twice as long as no rider declines: the stale
\* save of a decline is the only way to a second reward.
THEOREM RewardedOnce ==
  ASSUME "decline" \notin Ops
  PROVE  Spec => []RewardOnce
<1>1. Init => NoStaleReward /\ RewardOnce
  BY IdleType DEF Init, NoStaleReward, RewardOnce, HasStatus, NewOrder
<1>2. IInv /\ NoStaleReward /\ RewardOnce /\ [Next]_vars => (NoStaleReward /\ RewardOnce)'
  BY NextPayments
<1> QED
  BY <1>1, <1>2, InitIInv, NextIInv, PTL DEF Spec

(***************************************************************************)
(* Refinement: the interleaved handlers implement the atomic contract      *)
(***************************************************************************)

Statuses(rows) == {x.status : x \in rows}
Reached == [o \in Orders |-> Statuses(tracking[o])]

LEMMA ReachedIff ==
  ASSUME NEW o \in Orders, NEW s
  PROVE  s \in Reached[o] <=> HasStatus(o, s)
BY DEF Reached, Statuses, HasStatus

\* Where only the rows of o change, only the statuses of o do.
LEMMA ReachedChange ==
  ASSUME NEW o \in Orders,
         \A u \in Orders \ {o} : tracking'[u] = tracking[u]
  PROVE  Reached' = [Reached EXCEPT ![o] = Statuses(tracking'[o])]
BY DEF Reached

LEMMA PlaceStep ==
  ASSUME IInv, NEW q \in Procs, NEW o \in Orders, NEW S \in SUBSET Destinations,
         NEW isCash \in BOOLEAN, NEW t \in Times, CreateOrder(q, o, S, isCash, t)
  PROVE  Contract!Place(o, S)
<1>1. /\ tracking'[o] = {[status |-> "PENDING", at |-> t]}
      /\ \A u \in Orders \ {o} : tracking'[u] = tracking[u]
  BY DEF CreateOrder, IInv, TypeOK
<1>2. Statuses(tracking'[o]) = {"PENDING"}
  BY <1>1 DEF Statuses
<1>3. Reached' = [Reached EXCEPT ![o] = {"PENDING"}]
  BY <1>1, <1>2, ReachedChange
<1> QED
  BY <1>3 DEF CreateOrder, Contract!Place, Reached, Statuses

LEMMA ArriveStep ==
  ASSUME IInv, NEW q \in Procs, SaveDestination(q)
  PROVE  Contract!Arrive(req[q].order, req[q].dest)
BY DEF SaveDestination, Contract!Arrive, IInv, RequestInv, Shape

\* A row deleted twice, or posted again in between, is removed once.
LEMMA RemoveStep ==
  ASSUME IInv, NEW q \in Procs, DeleteRow(q)
  PROVE  \/ Contract!Next
         \/ UNCHANGED <<created, stops, delivered, tracking, gone, credits>>
<1> SUFFICES ASSUME NEW o, NEW s, o = req[q].order, s = req[q].status
             PROVE  \/ Contract!Next
                    \/ UNCHANGED <<created, stops, delivered, tracking, gone, credits>>
  OBVIOUS
<1> DEFINE row == [status |-> s, at |-> req[q].at]
<1>1. /\ o \in Orders /\ s \in Status /\ Found(q) /\ req[q].pc = "delete"
      /\ tracking' = [tracking EXCEPT ![o] = @ \ {row}]
      /\ gone' = [gone EXCEPT ![o] = @ \cup {s}]
      /\ UNCHANGED <<created, stops, delivered, credits>>
      /\ tracking \in [Orders -> SUBSET Rows] /\ gone \in [Orders -> SUBSET Status]
  BY DEF DeleteRow, IInv, TypeOK, RequestInv, Shape
<1>2. CASE row \in tracking[o]
  <2>1. HasStatus(o, s)
    BY <1>2 DEF HasStatus
  <2>2. Statuses(tracking'[o]) = Reached[o] \ {s}
    <3>1. \A x \in tracking[o] : x.status = s => x = row
      BY <1>1, <1>2 DEF IInv, UniqueRows
    <3>2. \A x \in tracking'[o] : x \in tracking[o] /\ x # row
      BY <1>1
    <3>3. \A x \in tracking[o] : x # row => x \in tracking'[o]
      BY <1>1
    <3>4. row.status = s
      OBVIOUS
    <3> HIDE DEF row
    <3> QED
      BY <1>1, <3>1, <3>2, <3>3, <3>4 DEF Statuses, Reached
  <2>3. \A u \in Orders \ {o} : tracking'[u] = tracking[u]
    BY <1>1
  <2>4. Reached' = [Reached EXCEPT ![o] = Reached[o] \ {s}]
    BY <1>1, <2>2, <2>3, ReachedChange
  <2>5. s \in Reached[o]
    BY <1>1, <2>1, ReachedIff
  <2>6. Contract!Remove(o, s)
    BY <1>1, <2>4, <2>5 DEF Contract!Remove, Reached, Statuses
  <2>7. s \in DOMAIN Contract!Before \cup {"PENDING", "CANCELLED"}
    BY <1>1 DEF Contract!Before, Status, Main
  <2> QED
    BY <1>1, <2>6, <2>7 DEF Contract!Next
<1>3. CASE row \notin tracking[o]
  <2>1. s \in gone[o]
    BY <1>1, <1>3 DEF Found
  <2>2. tracking' = tracking /\ gone' = gone
    BY <1>1, <1>3, <2>1
  <2> QED
    BY <1>1, <2>2
<1> QED
  BY <1>2, <1>3

\* The commit of addOrderTracking advances or delivers, the commit of a reward
\* on request settles.
LEMMA CommitContract ==
  ASSUME IInv, NEW q \in Procs, Commit(q)
  PROVE  Contract!Next
<1> SUFFICES ASSUME NEW o, NEW s, NEW pay, o = req[q].order, s = req[q].status,
                    pay = [rider |-> req[q].rider, at |-> req[q].at]
             PROVE  Contract!Next
  OBVIOUS
<1>1. /\ o \in Orders /\ o \in created /\ s \in Status /\ RequestInv(q)
      /\ req[q].pc = "commit" /\ InTx(q) /\ req[q].at \in Times
      /\ tracking' = [tracking EXCEPT ![o] = @ \cup Uncommitted(q)]
      /\ UNCHANGED <<created, stops, delivered, gone>>
      /\ tracking \in [Orders -> SUBSET Rows]
      /\ credits \in [Orders -> SUBSET Credits]
      /\ \/ s = "DELIVERED" /\ credits' = [credits EXCEPT ![o] = @ \cup {pay}]
         \/ s # "DELIVERED" /\ credits' = credits
      /\ Tracks(q) \/ (req[q].op = "reward" /\ s = "DELIVERED")
  BY DEF Commit, IInv, TypeOK, RequestInv, Shape, InTx, Request
<1>2. s = "DELIVERED" => pay \in Credits /\ pay \notin credits[o]
  <2>1. pay.at = req[q].at
    OBVIOUS
  <2>2. \A c \in credits[o] : c.at # req[q].at
    BY <1>1, SameTime
  <2> QED
    BY <1>1, <2>1, <2>2 DEF RequestInv, CheckedReward, Credits
<1>3. CASE Tracks(q)
  <2>1. Inserted(q) /\ ~HasStatus(o, s)
    BY <1>1, <1>3 DEF Inserted, RequestInv, CheckedUnique
  <2>2. /\ tracking'[o] = tracking[o] \cup {[status |-> s, at |-> req[q].at]}
        /\ \A u \in Orders \ {o} : tracking'[u] = tracking[u]
    BY <1>1, <2>1, UncommittedRow
  <2>3. Statuses(tracking'[o]) = Reached[o] \cup {s}
    <3> DEFINE row == [status |-> s, at |-> req[q].at]
    <3>1. row.status = s /\ tracking'[o] = tracking[o] \cup {row}
      BY <2>2
    <3>2. Reached[o] = Statuses(tracking[o])
      BY <1>1 DEF Reached
    <3> HIDE DEF row
    <3> QED
      BY <3>1, <3>2 DEF Statuses
  <2>4. Reached' = [Reached EXCEPT ![o] = Reached[o] \cup {s}]
    BY <1>1, <2>2, <2>3, ReachedChange
  <2>5. s \notin Reached[o]
    BY <1>1, <2>1, ReachedIff
  <2>6. \A w \in Status : s \in Successors[w] => w \in Reached[o] \cup gone[o]
    BY <1>1, <1>3, ReachedIff DEF RequestInv, CheckedChain, PastLatest, EverReached
  <2>7. s \in DOMAIN Contract!Before => Contract!Before[s] \in Reached[o] \cup gone[o]
    <3>1. CASE s = "ACCEPTED"
      BY <2>6, <3>1 DEF Contract!Before, Successors, Status, Main
    <3>2. CASE s = "PICKED_UP"
      BY <2>6, <3>2 DEF Contract!Before, Successors, Status, Main
    <3>3. CASE s = "TRANSIT"
      BY <2>6, <3>3 DEF Contract!Before, Successors, Status, Main
    <3>4. CASE s = "DELIVERED"
      BY <2>6, <3>4 DEF Contract!Before, Successors, Status, Main
    <3> QED
      BY <3>1, <3>2, <3>3, <3>4 DEF Contract!Before
  <2>8. CASE s # "DELIVERED"
    <3>1. Contract!Advance(o, s)
      BY <1>1, <2>4, <2>5, <2>7, <2>8 DEF Contract!Advance, Reached, Statuses
    <3>2. s \in DOMAIN Contract!Before \cup {"PENDING", "CANCELLED"}
      BY <1>1 DEF Contract!Before, Status, Main
    <3> QED
      BY <1>1, <3>1, <3>2 DEF Contract!Next
  <2>9. CASE s = "DELIVERED"
    <3>1. Multiple(o) => delivered[o] = stops[o]
      BY <1>1, <1>3, <2>9 DEF RequestInv, CheckedStops, PastStops
    <3>2. Contract!Before["DELIVERED"] \in Reached[o] \cup gone[o]
      BY <2>7, <2>9 DEF Contract!Before
    <3>3. Contract!Deliver(o, pay)
      BY <1>1, <1>2, <2>4, <2>5, <2>9, <3>1, <3>2 DEF Contract!Deliver, Multiple, Reached, Statuses
    <3>4. pay \in Credits
      BY <1>2, <2>9
    <3> QED
      BY <1>1, <3>3, <3>4 DEF Contract!Next
  <2> QED
    BY <2>8, <2>9
<1>4. CASE ~Tracks(q)
  <2>1. s = "DELIVERED" /\ req[q].op = "reward" /\ ~Inserted(q)
    BY <1>1, <1>4 DEF Inserted
  <2>2. tracking' = tracking
    BY <1>1, <2>1, UncommittedRow
  <2>3. "DELIVERED" \in Reached[o] \cup gone[o]
    BY <1>1, <2>1, ReachedIff DEF RequestInv, CheckedReward, EverReached
  <2>4. Contract!Settle(o, pay)
    BY <1>1, <1>2, <2>1, <2>2, <2>3 DEF Contract!Settle, Reached, Statuses
  <2> QED
    BY <1>1, <1>2, <2>1, <2>4 DEF Contract!Next
<1> QED
  BY <1>3, <1>4

\* The other steps change nothing the contract speaks of.
LEMMA StutterStep ==
  ASSUME NEW q \in Procs, UpdateRider(q) \/ Charge(q) \/ SaveWrite(q)
  PROVE  UNCHANGED <<created, stops, delivered, tracking, gone, credits>>
BY DEF UpdateRider, Charge, SaveWrite

LEMMA NextContract ==
  ASSUME IInv, [Next]_vars
  PROVE  [Contract!Next]_(Contract!vars)
<1>1. ASSUME UNCHANGED <<created, stops, delivered, tracking, gone, credits>>
      PROVE  UNCHANGED Contract!vars
  BY <1>1 DEF Contract!vars
<1>2. ASSUME UNCHANGED table
      PROVE  UNCHANGED Contract!vars
  BY <1>1, <1>2 DEF table
<1>3. \A q \in Procs : req[q].pc \notin {"idle", "next"} => req[q].order \in Orders
  BY DEF IInv, TypeOK
<1>4. ASSUME NEW q \in Procs, StartTracking(q)
      PROVE  UNCHANGED Contract!vars
  BY <1>2, <1>4, QuietPayments
<1>5. ASSUME NEW q \in Procs, StartDispatch(q)
      PROVE  Contract!Next \/ UNCHANGED Contract!vars
  <2>1. ASSUME NEW o \in Orders, NEW S \in SUBSET Destinations,
               NEW isCash \in BOOLEAN, NEW t \in Times, CreateOrder(q, o, S, isCash, t)
        PROVE  Contract!Next
    BY <2>1, PlaceStep DEF Contract!Next
  <2> QED
    BY <1>2, <1>5, <2>1, QuietPayments DEF StartDispatch
<1>6. ASSUME NEW q \in Procs, Commit(q)
      PROVE  Contract!Next
  BY <1>6, CommitContract
<1>7. ASSUME NEW q \in Procs, DeleteRow(q)
      PROVE  Contract!Next \/ UNCHANGED Contract!vars
  BY <1>1, <1>7, RemoveStep
<1>8. ASSUME NEW q \in Procs, SaveDestination(q)
      PROVE  Contract!Next
  <2>1. req[q].order \in Orders /\ req[q].dest \in Destinations
    BY <1>3, <1>8 DEF SaveDestination, IInv, TypeOK, RequestInv, Shape
  <2> QED
    BY <1>8, <2>1, ArriveStep DEF Contract!Next
<1>9. ASSUME NEW q \in Procs, CheckReward(q)
      PROVE  UNCHANGED Contract!vars
  BY <1>2, <1>9 DEF CheckReward
<1>10. ASSUME NEW q \in Procs, StepTracking(q)
       PROVE  Contract!Next \/ UNCHANGED Contract!vars
  BY <1>2, <1>6, <1>7, <1>8, <1>9, <1>10, QuietPayments DEF StepTracking
<1>11. ASSUME NEW q \in Procs, StepDispatch(q)
       PROVE  UNCHANGED Contract!vars
  BY <1>1, <1>2, <1>11, QuietPayments, StutterStep DEF StepDispatch
<1>12. ASSUME NEW q \in Procs, Fail(q)
       PROVE  UNCHANGED Contract!vars
  BY <1>2, <1>12 DEF Fail
<1>13. ASSUME CronStart \/ CronNext \/ Crash
       PROVE  UNCHANGED Contract!vars
  BY <1>2, <1>13 DEF CronStart, CronNext, Crash
<1>14. ASSUME UNCHANGED vars
       PROVE  UNCHANGED Contract!vars
  BY <1>2, <1>14 DEF vars
<1>15. Clients \subseteq Procs
  BY DEF Procs
<1> QED
  BY <1>4, <1>5, <1>10, <1>11, <1>12, <1>13, <1>14, <1>15 DEF Next, Start, Step

\* Whatever overlaps, fails or crashes, each change of an order is one atomic
\* step of the contract.
THEOREM Refinement == Spec => ImplementsContract
<1>1. Init => Contract!Init
  BY DEF Init, Contract!Init
<1>2. IInv /\ [Next]_vars => [Contract!Next]_(Contract!vars)
  BY NextContract
<1> QED
  BY <1>1, <1>2, Invariance, PTL DEF Spec, ImplementsContract, Contract!Spec

(***************************************************************************)
(* A cancelled order stays closed                                          *)
(***************************************************************************)

\* A request that may still insert a row, or has inserted one
WillInsert(q) == req[q].pc \in {"order", "exists", "latest", "insert", "reward", "commit"}

\* Rows are told apart by their times, and so is the row a request will insert:
\* the latest row of an order is one.
RowTimes ==
  /\ \A o \in Orders : \A x, y \in tracking[o] : x.at = y.at => x = y
  /\ \A q \in Procs : WillInsert(q) =>
       \A o \in Orders : \A x \in tracking[o] : x.at # req[q].at

\* p goes on with its transaction, past the check of the latest row only as
\* that check allows ...
GoesOn(p) ==
  /\ WillInsert(p)
  /\ req'[p].at = req[p].at /\ req'[p].order = req[p].order /\ req'[p].op = req[p].op
  /\ PastLatest(p)' =>
       \/ PastLatest(p)
       \/ /\ Allowed(req[p].status, tracking[req[p].order])
          /\ UNCHANGED table

\* ... or begins one, at a time no row has.
Begins(p) ==
  /\ UNCHANGED table
  /\ \A o \in Orders : \A x \in tracking[o] : x.at # req'[p].at
  /\ ~(Tracks(p) /\ PastLatest(p))'

LEMMA StartWrites ==
  ASSUME IInv, NEW q \in Procs, StartTracking(q) \/ StartDispatch(q), WillInsert(q)'
  PROVE  Begins(q)
<1>1. req \in [Procs -> Request] /\ TypeOK
  BY DEF IInv, TypeOK
<1>2. ASSUME NEW o \in created, NEW s \in Posted, NEW t \in Times, PostTracking(q, o, s, t)
      PROVE  Begins(q)
  <2>1. req'[q].pc = "order" /\ req'[q].at = t
    BY <1>1, <1>2 DEF PostTracking, Becomes, Idle
  <2> QED
    BY <1>1, <1>2, <2>1, NewTime DEF PostTracking, Begins, PastLatest
<1>3. ASSUME NEW o \in created, NEW t \in Times, PostReward(q, o, t)
      PROVE  Begins(q)
  <2>1. req'[q].op = "reward" /\ req'[q].at = t
    BY <1>1, <1>3 DEF PostReward, Becomes, Idle
  <2> QED
    BY <1>1, <1>3, <2>1, NewTime DEF PostReward, Begins, Tracks
<1>4. ASSUME NEW r, Becomes(q, r),
             r.pc \notin {"order", "exists", "latest", "insert", "reward", "commit"}
      PROVE  FALSE
  BY <1>1, <1>4 DEF Becomes, WillInsert
<1>5. ASSUME NEW o \in created, NEW x \in tracking[o], LoadRow(q, o, x) PROVE FALSE
  BY <1>4, <1>5, IdleType DEF LoadRow, Request
<1>6. ASSUME NEW o \in created, NEW d \in stops[o], LoadDestination(q, o, d) PROVE FALSE
  BY <1>4, <1>6, IdleType DEF LoadDestination, Request
<1>7. CASE StartDispatch(q)
  BY <1>4, <1>7, IdleType DEF StartDispatch, CreateOrder, PutAssign, Accept, Decline, Request
<1> QED
  BY <1>2, <1>3, <1>5, <1>6, <1>7 DEF StartTracking

\* The steps that end a request or take it elsewhere
LEMMA StepWrites ==
  ASSUME IInv, NEW q \in Procs, StepTracking(q) \/ StepDispatch(q) \/ Fail(q), WillInsert(q)'
  PROVE  GoesOn(q) \/ Begins(q)
<1>1. req \in [Procs -> Request] /\ TypeOK /\ req[q] \in Request
  BY DEF IInv, TypeOK
<1>2. ~Finish(q)
  BY <1>1, FinishType DEF WillInsert
<1>3. ASSUME NEW r, Becomes(q, r),
             r.pc \notin {"order", "exists", "latest", "insert", "reward", "commit"}
      PROVE  FALSE
  BY <1>1, <1>3 DEF Becomes, WillInsert
<1>4. ASSUME NEW pc \in PCs, Goto(q, pc)
      PROVE  /\ req'[q].pc = pc /\ req'[q].at = req[q].at
             /\ req'[q].order = req[q].order /\ req'[q].op = req[q].op
  BY <1>1, <1>4, GotoType
<1>5. CASE LoadOrder(q)
  BY <1>2, <1>4, <1>5 DEF LoadOrder, GoesOn, WillInsert, PastLatest, PCs
<1>6. CASE CheckDuplicate(q)
  BY <1>2, <1>4, <1>6 DEF CheckDuplicate, GoesOn, WillInsert, PastLatest, PCs
<1>7. CASE CheckTransition(q)
  BY <1>2, <1>4, <1>7 DEF CheckTransition, GoesOn, WillInsert, PastLatest, PCs
<1>8. CASE InsertRow(q)
  <2>1. Goto(q, "reward") \/ Goto(q, "commit")
    BY <1>2, <1>8 DEF InsertRow
  <2> QED
    BY <1>4, <1>8, <2>1 DEF InsertRow, GoesOn, WillInsert, PastLatest, PCs
<1>9. CASE CheckReward(q)
  <2> DEFINE r == [req[q] EXCEPT !.pc = "commit", !.rider = orders[req[q].order].rider]
  <2>1. Becomes(q, r) /\ req[q].pc = "reward"
    BY <1>2, <1>9 DEF CheckReward
  <2>2. r.at = req[q].at /\ r.order = req[q].order /\ r.op = req[q].op
    BY <1>1 DEF Request
  <2>3. req'[q] = r
    BY <1>1, <2>1 DEF Becomes
  <2> QED
    BY <2>1, <2>2, <2>3 DEF GoesOn, WillInsert, PastLatest
<1>10. CASE Commit(q)
  <2>1. Goto(q, "charge")
    BY <1>2, <1>10 DEF Commit
  <2> QED
    BY <1>4, <2>1 DEF WillInsert, PCs
<1>11. ASSUME NEW t \in Times, BeginAccept(q, t)
       PROVE  Begins(q)
  <2>1. req'[q].pc = "order" /\ req'[q].at = t
    BY <1>1, <1>11 DEF BeginAccept, Becomes, Request
  <2> QED
    BY <1>1, <1>11, <2>1, NewTime DEF BeginAccept, Begins, PastLatest
<1>12. ASSUME NEW rider \in Riders, PickRider(q, rider)
       PROVE  FALSE
  BY <1>1, <1>3, <1>12 DEF PickRider, Request
<1>13. CASE LoadDeclined(q) \/ SaveDiff(q) \/ SaveWrite(q)
  BY <1>1, <1>3, <1>13 DEF LoadDeclined, SaveDiff, SaveWrite, Request
<1>14. CASE DeleteRow(q) \/ SaveDestination(q) \/ PickNobody(q) \/ UpdateRider(q) \/ Charge(q) \/ Fail(q)
  BY <1>2, <1>14 DEF DeleteRow, SaveDestination, PickNobody, UpdateRider, Charge, Fail
<1> QED
  BY <1>5, <1>6, <1>7, <1>8, <1>9, <1>10, <1>11, <1>12, <1>13, <1>14
     DEF StepTracking, StepDispatch

\* However the system moves, whoever is in a transaction was in it or begins it.
LEMMA NextWrites ==
  ASSUME IInv, [Next]_vars, NEW p \in Procs, WillInsert(p)'
  PROVE  GoesOn(p) \/ Begins(p)
<1>1. req \in [Procs -> Request]
  BY DEF IInv, TypeOK
<1>2. ASSUME req'[p] = req[p] PROVE GoesOn(p)
  BY <1>2 DEF GoesOn, WillInsert, PastLatest
<1>3. ASSUME NEW q \in Procs, \E r : Becomes(q, r), q # p
      PROVE  GoesOn(p)
  BY <1>1, <1>2, <1>3 DEF Becomes
<1>4. ASSUME NEW q \in Procs, StartTracking(q) \/ StartDispatch(q)
      PROVE  GoesOn(p) \/ Begins(p)
  <2>1. \E r : Becomes(q, r)
    BY <1>4 DEF StartTracking, StartDispatch, PostTracking, PostReward, LoadRow,
       LoadDestination, CreateOrder, PutAssign, Accept, Decline
  <2> QED
    BY <1>3, <1>4, <2>1, StartWrites
<1>5. ASSUME NEW q \in Procs, StepTracking(q) \/ StepDispatch(q) \/ Fail(q)
      PROVE  GoesOn(p) \/ Begins(p)
  <2>1. CASE StepTracking(q)
    BY <1>3, <1>5, <2>1, StepWrites DEF StepTracking, LoadOrder, CheckDuplicate, CheckTransition,
       InsertRow, CheckReward, Commit, DeleteRow, SaveDestination, Finish, Goto
  <2>2. CASE StepDispatch(q) \/ Fail(q)
    BY <1>3, <1>5, <2>2, StepWrites DEF StepDispatch, Fail, LoadDeclined, PickNobody, UpdateRider,
       PickRider, BeginAccept, Charge, SaveDiff, SaveWrite, Finish, Goto
  <2> QED
    BY <1>5, <2>1, <2>2
<1>6. CASE CronStart \/ CronNext
  <2>1. Cron \in Procs
    BY DEF Procs
  <2>2. ASSUME NEW r, Becomes(Cron, r), r.pc \in {"idle", "next", "assign"}
        PROVE  GoesOn(p)
    <3>1. CASE p = Cron
      BY <1>1, <2>2, <3>1 DEF Becomes, WillInsert
    <3> QED
      BY <1>3, <2>1, <2>2, <3>1
  <2>3. CASE CronStart
    BY <2>2, <2>3, IdleType DEF CronStart, Request
  <2>4. CASE CronNext
    BY <1>1, <2>1, <2>2, <2>4, IdleType DEF CronNext, Request
  <2> QED
    BY <1>6, <2>3, <2>4
<1>7. CASE Crash
  BY <1>7, IdleType DEF Crash, WillInsert
<1>8. CASE UNCHANGED vars
  BY <1>2, <1>8 DEF vars
<1>9. Clients \subseteq Procs
  BY DEF Procs
<1> QED
  BY <1>4, <1>5, <1>6, <1>7, <1>8, <1>9 DEF Next, Start, Step

\* What a step does to the rows of an order: it places the order, removes rows,
\* or adds the row of the transaction it commits.
LEMMA NextRows ==
  ASSUME IInv, [Next]_vars, NEW o \in Orders
  PROVE  \/ tracking'[o] \subseteq tracking[o]
         \/ /\ tracking[o] = {}
            /\ \E t : /\ \A x \in tracking'[o] : x.at = t
                      /\ \A x, y \in tracking'[o] : x = y
                      /\ \A p \in Procs : req[p].at # t
         \/ \E q \in Procs :
              /\ Inserted(q) /\ req[q].order = o /\ ~WillInsert(q)'
              /\ \A x \in tracking'[o] :
                   \/ x \in tracking[o]
                   \/ x = [status |-> req[q].status, at |-> req[q].at]
<1> DEFINE Goal ==
         \/ tracking'[o] \subseteq tracking[o]
         \/ /\ tracking[o] = {}
            /\ \E t : /\ \A x \in tracking'[o] : x.at = t
                      /\ \A x, y \in tracking'[o] : x = y
                      /\ \A p \in Procs : req[p].at # t
         \/ \E q \in Procs :
              /\ Inserted(q) /\ req[q].order = o /\ ~WillInsert(q)'
              /\ \A x \in tracking'[o] :
                   \/ x \in tracking[o]
                   \/ x = [status |-> req[q].status, at |-> req[q].at]
<1>1. tracking \in [Orders -> SUBSET Rows] /\ TypeOK /\ req \in [Procs -> Request]
  BY DEF IInv, TypeOK
<1>2. ASSUME UNCHANGED tracking PROVE Goal
  BY <1>2
<1>3. ASSUME NEW q \in Procs, NEW u \in Orders, NEW S \in SUBSET Destinations,
             NEW isCash \in BOOLEAN, NEW t \in Times, CreateOrder(q, u, S, isCash, t)
      PROVE  Goal
  <2>1. CASE u = o
    <3>1. tracking[o] = {}
      BY <1>3, <2>1 DEF CreateOrder, IInv, TableInv, Placed
    <3>2. tracking'[o] = {[status |-> "PENDING", at |-> t]}
      BY <1>1, <1>3, <2>1 DEF CreateOrder
    <3>3. \A p \in Procs : req[p].at # t
      BY <1>1, <1>3, NewTime DEF CreateOrder
    <3>4. \A x \in tracking'[o] : x.at = t
      BY <3>2
    <3>5. \A x, y \in tracking'[o] : x = y
      BY <3>2
    <3> QED
      BY <3>1, <3>3, <3>4, <3>5
  <2>2. CASE u # o
    BY <1>1, <1>3, <2>2 DEF CreateOrder
  <2> QED
    BY <2>1, <2>2
<1>4. ASSUME NEW q \in Procs, Commit(q)
      PROVE  Goal
  <2>1. Finish(q) \/ Goto(q, "charge")
    BY <1>4 DEF Commit
  <2>2. ~WillInsert(q)'
    BY <1>1, <2>1, FinishType, GotoType DEF WillInsert, PCs
  <2>3. tracking' = [tracking EXCEPT ![req[q].order] = @ \cup Uncommitted(q)]
    BY <1>4 DEF Commit
  <2>4. CASE req[q].order = o /\ Inserted(q)
    BY <1>1, <2>2, <2>3, <2>4, UncommittedRow
  <2>5. CASE req[q].order # o \/ ~Inserted(q)
    BY <1>1, <2>3, <2>5, UncommittedRow
  <2> QED
    BY <2>4, <2>5
<1>5. ASSUME NEW q \in Procs, DeleteRow(q)
      PROVE  Goal
  BY <1>1, <1>5 DEF DeleteRow
<1>6. ASSUME UNCHANGED table PROVE Goal
  BY <1>2, <1>6 DEF table
<1>7. ASSUME NEW q \in Procs, StartTracking(q) \/ StartDispatch(q)
      PROVE  Goal
  BY <1>3, <1>6, <1>7, QuietPayments DEF StartDispatch
<1>8. ASSUME NEW q \in Procs, StepTracking(q)
      PROVE  Goal
  BY <1>2, <1>4, <1>5, <1>6, <1>8, QuietPayments DEF StepTracking, CheckReward, SaveDestination
<1>9. ASSUME NEW q \in Procs, StepDispatch(q) \/ Fail(q)
      PROVE  Goal
  BY <1>2, <1>6, <1>9, QuietPayments DEF StepDispatch, UpdateRider, Charge, SaveWrite
<1>10. CASE CronStart \/ CronNext \/ Crash \/ UNCHANGED vars
  BY <1>6, <1>10 DEF CronStart, CronNext, Crash, vars
<1>11. Clients \subseteq Procs
  BY DEF Procs
<1> QED
  BY <1>7, <1>8, <1>9, <1>10, <1>11 DEF Next, Start, Step

LEMMA InitRowTimes == Init => RowTimes
BY IdleType DEF Init, RowTimes, WillInsert

LEMMA NextRowTimes ==
  ASSUME IInv, RowTimes, [Next]_vars
  PROVE  RowTimes'
<1>1. tracking \in [Orders -> SUBSET Rows]
  BY DEF IInv, TypeOK
<1>2. ASSUME NEW q \in Procs, WillInsert(q) PROVE InTx(q)
  BY <1>2 DEF WillInsert, InTx
<1>3. ASSUME NEW q \in Procs, Inserted(q) PROVE WillInsert(q)
  BY <1>3 DEF WillInsert, Inserted
<1>4. ASSUME NEW o \in Orders, NEW x \in tracking'[o], NEW y \in tracking'[o], x.at = y.at
      PROVE  x = y
  <2>1. CASE x \in tracking[o] /\ y \in tracking[o]
    BY <1>4, <2>1 DEF RowTimes
  <2>2. ASSUME NEW q \in Procs, Inserted(q), NEW u \in tracking[o]
        PROVE  u.at # req[q].at
    BY <1>3, <2>2 DEF RowTimes
  <2>3. ASSUME NEW q \in Procs, Inserted(q),
               \A v \in tracking'[o] : \/ v \in tracking[o]
                                       \/ v = [status |-> req[q].status, at |-> req[q].at]
        PROVE  x = y
    <3> DEFINE row == [status |-> req[q].status, at |-> req[q].at]
    <3>1. row.at = req[q].at
      OBVIOUS
    <3> HIDE DEF row
    <3> QED
      BY <1>4, <2>1, <2>2, <2>3, <3>1 DEF row
  <2> QED
    BY <2>1, <2>3, NextRows
<1>5. ASSUME NEW p \in Procs, WillInsert(p)', NEW o \in Orders, NEW x \in tracking'[o]
      PROVE  x.at # req'[p].at
  <2>1. CASE Begins(p)
    BY <1>5, <2>1 DEF Begins, table
  <2>2. CASE GoesOn(p)
    <3>1. WillInsert(p) /\ req'[p].at = req[p].at
      BY <2>2 DEF GoesOn
    <3>2. CASE x \in tracking[o]
      BY <3>1, <3>2 DEF RowTimes
    <3>3. CASE \E t : (\A v \in tracking'[o] : v.at = t) /\ \A q \in Procs : req[q].at # t
      BY <3>1, <3>3
    <3>4. ASSUME NEW q \in Procs, Inserted(q), ~WillInsert(q)',
                 x = [status |-> req[q].status, at |-> req[q].at]
          PROVE  x.at # req'[p].at
      <4>1. p # q /\ x.at = req[q].at
        BY <1>5, <3>4
      <4> QED
        BY <1>2, <1>3, <3>1, <3>4, <4>1, SameTime
    <3> QED
      BY <3>2, <3>3, <3>4, NextRows
  <2> QED
    BY <1>5, <2>1, <2>2, NextWrites
<1> QED
  BY <1>4, <1>5 DEF RowTimes

\* The latest row of a closed order is the cancelled one and stays, whoever
\* commits or deletes, and nobody passes the check of the latest row anew.
LEMMA ClosedStays ==
  ASSUME IInv, RowTimes, [Next]_vars, NEW o \in Orders, Closed(o), HasStatus(o, "CANCELLED")'
  PROVE  Closed(o)'
<1>1. tracking \in [Orders -> SUBSET Rows]
  BY DEF IInv, TypeOK
<1>2. PICK x \in tracking[o] : Latest(x, tracking[o]) /\ x.status = "CANCELLED"
  BY DEF Closed
<1>3. tracking'[o] \subseteq tracking[o]
  <2>1. ASSUME NEW q \in Procs, Inserted(q), req[q].order = o PROVE FALSE
    BY <2>1 DEF Closed, Inserted
  <2> QED
    BY <1>2, <2>1, NextRows
<1>4. x \in tracking'[o]
  BY <1>2, <1>3 DEF HasStatus, IInv, UniqueRows
<1>5. Latest(x, tracking'[o])
  BY <1>2, <1>3, <1>4 DEF Latest
<1>6. ASSUME NEW s PROVE ~Allowed(s, tracking[o])
  <2>1. ASSUME NEW y \in tracking[o], Latest(y, tracking[o]) PROVE y = x
    <3>1. x.at \in Nat /\ y.at \in Nat /\ x.at <= y.at /\ y.at <= x.at
      BY <1>1, <1>2, <2>1, ConstantsAssumption DEF Latest, Rows, Times
    <3>2. x.at = y.at
      BY <3>1
    <3> QED
      BY <3>2 DEF RowTimes
  <2> QED
    BY <1>2, <2>1 DEF Allowed
<1>7. ASSUME NEW q \in Procs, (Tracks(q) /\ PastLatest(q))', req'[q].order = o
      PROVE  FALSE
  <2>1. WillInsert(q)' /\ ~Begins(q)
    BY <1>7 DEF WillInsert, PastLatest, Begins
  <2>2. GoesOn(q)
    BY <2>1, NextWrites
  <2>3. req[q].order = o /\ Tracks(q) /\ PastLatest(q)
    BY <1>6, <1>7, <2>2 DEF GoesOn, Tracks
  <2> QED
    BY <2>3 DEF Closed, PastLatest
<1> QED
  BY <1>2, <1>4, <1>5, <1>7 DEF Closed, PastLatest

\* A cancelled order is never reopened by a transaction that overlapped its
\* cancellation, only by a removal of the CANCELLED row.
THEOREM CancellationSettles == Spec => CancelSettles
<1>1. IInv /\ RowTimes /\ [Next]_vars =>
        [\A o \in Orders : Closed(o) => Closed(o)' \/ ~HasStatus(o, "CANCELLED")']_vars
  BY ClosedStays
<1>2. IInv /\ RowTimes /\ [Next]_vars => RowTimes'
  BY NextRowTimes
<1> QED
  BY <1>1, <1>2, InitIInv, NextIInv, InitRowTimes, PTL DEF Spec, CancelSettles

(***************************************************************************)
(* What riders are shown                                                   *)
(***************************************************************************)

\* Only a decline's save clears the flag of a reward that was paid.
Overwritten ==
  \A o \in Orders : credits[o] # {} /\ ~orders[o].rewarded => refused[o] # {}

\* Credits, flags and refusals stay.
LEMMA OverwrittenFrame ==
  ASSUME Overwritten, UNCHANGED credits,
         \A o \in Orders : /\ orders[o].rewarded = orders'[o].rewarded
                           /\ refused[o] \subseteq refused'[o]
  PROVE  Overwritten'
BY DEF Overwritten

LEMMA OverwrittenNext ==
  ASSUME IInv, Overwritten, [Next]_vars
  PROVE  Overwritten'
<1>1. orders \in [Orders -> OrderRow] /\ refused \in [Orders -> SUBSET Riders]
      /\ credits \in [Orders -> SUBSET Credits]
      /\ \A q \in Procs : req[q].pc \notin {"idle", "next"} => req[q].order \in Orders
  BY DEF IInv, TypeOK
<1>2. ASSUME UNCHANGED <<orders, credits, refused>> PROVE Overwritten'
  BY <1>2, OverwrittenFrame
<1>3. ASSUME NEW q \in Procs, Commit(q) PROVE Overwritten'
  <2>1. CASE req[q].status = "DELIVERED"
    <3>1. /\ UNCHANGED refused /\ orders' = [orders EXCEPT ![req[q].order].rewarded = TRUE]
          /\ \A o \in Orders \ {req[q].order} : credits'[o] = credits[o]
      BY <1>1, <1>3, <2>1 DEF Commit
    <3>2. \A o \in Orders : IF o = req[q].order THEN orders'[o].rewarded
                                                ELSE orders'[o] = orders[o]
      BY <1>1, <3>1 DEF OrderRow
    <3>3. QED
      BY <3>1, <3>2 DEF Overwritten
  <2>2. CASE req[q].status # "DELIVERED"
    BY <1>2, <1>3, <2>2 DEF Commit
  <2>3. QED
    BY <2>1, <2>2
<1>4. ASSUME NEW q \in Procs, SaveWrite(q) PROVE Overwritten'
  <2>1. req[q].order \in Orders /\ UNCHANGED credits
    BY <1>1, <1>4 DEF SaveWrite
  <2>2. \A o \in Orders : IF o = req[q].order
                            THEN refused'[o] # {}
                            ELSE orders'[o] = orders[o] /\ refused'[o] = refused[o]
    BY <1>1, <1>4 DEF SaveWrite
  <2>3. QED
    BY <2>1, <2>2 DEF Overwritten
<1>5. ASSUME NEW q \in Procs, UpdateRider(q) PROVE Overwritten'
  <2>1. UNCHANGED <<credits, refused>>
    BY <1>5 DEF UpdateRider
  <2>2. \A o \in Orders : orders'[o].rewarded = orders[o].rewarded
    BY <1>1, <1>5 DEF UpdateRider, OrderRow
  <2>3. QED
    BY <2>1, <2>2, OverwrittenFrame
<1>6. ASSUME NEW q \in Clients, NEW o \in Orders, NEW S, NEW isCash, NEW t,
             CreateOrder(q, o, S, isCash, t)
      PROVE  Overwritten'
  <2>1. UNCHANGED <<credits, refused>> \/ UNCHANGED <<orders, credits, refused>>
    BY <1>6 DEF CreateOrder
  <2>2. \A p \in Orders : orders'[p] = orders[p] \/ (p = o /\ credits[p] = {})
    BY <1>1, <1>6 DEF CreateOrder, IInv, TableInv, Placed
  <2>3. QED
    BY <2>1, <2>2 DEF Overwritten
<1>7. ASSUME NEW q \in Clients, StartTracking(q) PROVE Overwritten'
  BY <1>2, <1>7 DEF StartTracking, PostTracking, PostReward, LoadRow, LoadDestination, table
<1>8. ASSUME NEW q \in Clients, StartDispatch(q) PROVE Overwritten'
  BY <1>2, <1>6, <1>8 DEF StartDispatch, PutAssign, Accept, Decline, table
<1>9. ASSUME NEW q \in Procs, StepTracking(q) PROVE Overwritten'
  BY <1>2, <1>3, <1>9 DEF StepTracking, LoadOrder, CheckDuplicate, CheckTransition, InsertRow,
     CheckReward, DeleteRow, SaveDestination, table
<1>10. ASSUME NEW q \in Procs, StepDispatch(q) PROVE Overwritten'
  BY <1>2, <1>4, <1>5, <1>10 DEF StepDispatch, LoadDeclined, PickNobody, PickRider, BeginAccept,
     Charge, SaveDiff, table
<1>11. (\E q \in Procs : Fail(q)) \/ CronStart \/ CronNext \/ Crash \/ UNCHANGED vars =>
         UNCHANGED <<orders, credits, refused>>
  BY DEF Fail, CronStart, CronNext, Crash, vars, table
<1>12. QED
  BY <1>2, <1>7, <1>8, <1>9, <1>10, <1>11 DEF Next, Start, Step

\* getCompletedUnrewardedOrdersForRider, "delivered but not yet paid": every order in that
\* list has been paid, and a decline's stale save has cleared its flag.
THEOREM UnrewardedIsStale == Spec => []UnrewardedListIsStale
<1>1. IInv /\ Overwritten => UnrewardedListIsStale
  <2> SUFFICES ASSUME IInv, Overwritten, NEW r \in Riders, NEW o \in CompletedUnrewardedOrders(r)
               PROVE  credits[o] # {} /\ refused[o] # {}
    BY DEF UnrewardedListIsStale
  <2>1. o \in Joined(r, {"DELIVERED"}) /\ ~orders[o].rewarded
    BY DEF CompletedUnrewardedOrders
  <2>2. PICK x \in tracking[o] : x.status = "DELIVERED" /\ o \in Orders
    BY <2>1 DEF Joined, IInv, TypeOK
  <2>3. credits[o] # {}
    BY <2>2 DEF IInv, TableInv, DeliveryPaid
  <2>4. QED
    BY <2>1, <2>2, <2>3 DEF Overwritten
<1>2. Init => Overwritten
  BY DEF Init, Overwritten
<1>3. QED
  BY <1>1, <1>2, InitIInv, NextIInv, OverwrittenNext, PTL DEF Spec
==============================================================================
