---------------------------- MODULE WalletStore ----------------------------
(***************************************************************************)
(* The state shared by everything that moves money: the wallets,           *)
(* virtual_account and transactions tables, the event bus that fills the   *)
(* last one, the payment provider, and the requests in flight.             *)
(*                                                                         *)
(* Every handler but the service charge reads the wallet row, changes the  *)
(* balance in memory and saves it.  The ledger row is written by an event  *)
(* handler of its own, from an event bus that lives in memory.             *)
(***************************************************************************)
EXTENDS Integers, Sequences, FiniteSets

CONSTANTS
  Users,          \* user ids
  Clients,        \* HTTP requests and event handlers in flight together
  Job,            \* the weekly payout job, one more request
  Orders,         \* order ids
  Payments,       \* references of payments into a virtual account
  None,           \* SQL NULL
  Ops,            \* handlers the clients of this instance call
  Total,          \* totalAmount of each order
  Fee,            \* its deliveryFee, the rider's reward
  ServiceCharge,  \* its serviceChargeAmount; an urgencyFee has any sign, and so
                  \* have the three amounts it is part of
  Paid,           \* amount of a payment
  MinPayout,      \* MIN_PAYOUT_AMOUNT
  MaxWeeks,       \* bound: runs of the payout job
  MaxRepeats,     \* bound: credits of one payment
  MaxCalls,       \* bound: requests
  MaxFaults       \* bound: failed requests, lost events and crashes

Handlers == {"register", "get", "order", "cash", "reward", "charge", "fund"}
Types    == {"DEPOSIT", "ORDER", "ORDER_REWARD", "FAILED_PAYOUT", "SERVICE_CHARGE"}

ASSUME WalletAssumption ==
  /\ Job \notin Clients
  /\ None \notin Users \cup Orders \cup Payments
  /\ Orders \cap (1..MaxWeeks) = {}   \* an order's id is no payout's
  /\ Ops \subseteq Handlers
  /\ {Total, Fee, ServiceCharge} \subseteq [Orders -> Int]
  /\ {Paid, MinPayout} \subseteq Nat \ {0}
  /\ {MaxWeeks, MaxRepeats, MaxCalls, MaxFaults} \subseteq Nat

VARIABLES
  registered, \* users that exist
  riders,     \* those with Role.RIDER
  wallets,    \* users with a row in the wallets table
  code,       \* its customerCode, 0 if there is none
  balance,    \* its walletBalance
  parts,      \* history: the postings walletBalance is made of
  accounts,   \* customer codes of the virtual_account rows of a user
  shown,      \* the account last shown to the user
  customers,  \* customers the provider has; codes count from 1
  paid,       \* the code a payment was made to
  cashed,     \* orders of a user with isCashPayment
  posted,     \* history: every posting that committed
  raced,      \* history: users whose wallet was written while another request
              \* held an older copy of it
  bus,        \* CreateTransactionEvents published and not handled
  ledger,     \* the transactions table
  transfers,  \* transfers the provider has made to a rider's bank
  week,       \* runs of the payout job
  req,        \* the requests in flight
  calls,      \* requests so far
  faults      \* failures so far, each with the orders whose announced reward it
              \* rolled back

rows  == <<registered, riders, wallets, code, accounts, shown, customers, paid,
           cashed>>
money == <<balance, parts, posted, raced>>
vars  == <<rows, money, bus, ledger, transfers, week, req, calls, faults>>

-----------------------------------------------------------------------------
Procs == Clients \cup {Job}
Ids   == Orders \cup Payments \cup (1..MaxWeeks)

\* A change of one balance; nth tells repetitions apart.
Postings == [type : Types, id : Ids, nth : Nat, amount : Int]
LedgerRows == [type : Types, id : Ids, nth : Nat, amount : Int,
               status : {"complete", "failed"}, cash : BOOLEAN]   \* isCashPayment
Events == [user : Users, row : LedgerRows]
Copies == [user : Users, value : Int, parts : SUBSET Postings]

PCs == {"idle", "find", "customer", "account", "insert", "verify", "read",
        "known", "cash", "select", "write", "commit", "decrement", "transfer", "next"}

Request ==
  [pc    : PCs,
   op    : Handlers \cup {"payout", None},
   user  : Users \cup {None},
   role  : {"RIDER", "USER"},           \* what a missing wallet is created for
   id    : Ids \cup {None},
   code  : Nat,
   value : Int,                         \* walletBalance as read
   parts : SUBSET Postings,             \* history: the postings it was made of
   dirty : BOOLEAN,                     \* does save find a difference?
   todo  : SUBSET Copies]               \* what is left of the payout job's list

Idle == [pc |-> "idle", op |-> None, user |-> None, role |-> "USER", id |-> None,
         code |-> 0, value |-> 0, parts |-> {}, dirty |-> FALSE, todo |-> {}]

TypeOK ==
  /\ registered \subseteq Users
  /\ wallets \cup riders \subseteq registered
  /\ code      \in [Users -> Nat]
  /\ balance   \in [Users -> Int]
  /\ parts     \in [Users -> SUBSET Postings]
  /\ accounts  \in [Users -> SUBSET Nat]
  /\ shown     \in [Users -> Nat]
  /\ customers \in Nat
  /\ paid      \in [Payments -> Nat]
  /\ cashed    \in [Users -> SUBSET Orders]
  /\ posted    \in [Users -> SUBSET Postings]
  /\ raced     \subseteq Users
  /\ bus       \subseteq Events
  /\ ledger    \in [Users -> SUBSET LedgerRows]
  /\ transfers \subseteq [user : Users, id : Ids, amount : Nat]
  /\ week      \in 0..MaxWeeks
  /\ req       \in [Procs -> Request]
  /\ calls     \in 0..MaxCalls
  /\ faults    \in Seq(SUBSET Orders)

Init ==
  /\ registered = {} /\ riders = {} /\ wallets = {}
  /\ code      = [u \in Users |-> 0]
  /\ balance   = [u \in Users |-> 0]
  /\ parts     = [u \in Users |-> {}]
  /\ accounts  = [u \in Users |-> {}]
  /\ shown     = [u \in Users |-> 0]
  /\ customers = 0
  /\ paid      = [p \in Payments |-> 0]
  /\ cashed    = [u \in Users |-> {}]
  /\ posted    = [u \in Users |-> {}]
  /\ raced     = {}
  /\ bus       = {}
  /\ ledger    = [u \in Users |-> {}]
  /\ transfers = {}
  /\ week      = 0
  /\ req       = [q \in Procs |-> Idle]
  /\ calls     = 0
  /\ faults    = <<>>

-----------------------------------------------------------------------------
(* Steps of a request                                                      *)


Becomes(q, r) == req' = [req EXCEPT ![q] = r]
Goto(q, pc)   == Becomes(q, [req[q] EXCEPT !.pc = pc])

\* A new request for op
Call(q, op, r) ==
  /\ op \in Ops /\ req[q].pc = "idle" /\ calls < MaxCalls
  /\ calls' = calls + 1
  /\ Becomes(q, r)

\* The answer is sent; the payout job goes on with the next wallet.
Finish(q) ==
  Becomes(q, IF req[q].op = "payout"
               THEN [Idle EXCEPT !.pc = "next", !.op = "payout",
                                 !.todo = req[q].todo]
               ELSE Idle)

\* The posting a request makes
Type(op) ==
  CASE op = "fund"   -> "DEPOSIT"
    [] op = "order"  -> "ORDER"
    [] op = "charge" -> "SERVICE_CHARGE"
    [] OTHER         -> "ORDER_REWARD"    \* of payouts too

Amount(r) ==
  CASE r.op = "fund"   -> Paid
    [] r.op = "order"  -> -Total[r.id]
    [] r.op = "charge" -> -ServiceCharge[r.id]
    [] r.op = "reward" -> Fee[r.id]
    [] OTHER           -> -r.value        \* a payout of the whole balance

Made(u, type, id) == {p \in posted[u] : p.type = type /\ p.id = id}

Posting(r) ==
  [type |-> Type(r.op), id |-> r.id,
   nth |-> Cardinality(Made(r.user, Type(r.op), r.id)), amount |-> Amount(r)]

\* The transactions table has the amount a debit takes: the price of an order, the
\* service charge, what is paid out.
IsDebit(p) == p.type \in {"ORDER", "SERVICE_CHARGE"} \/ p.id \in 1..MaxWeeks

Row(p) == [type |-> p.type, id |-> p.id, nth |-> p.nth,
           amount |-> IF IsDebit(p) THEN -p.amount ELSE p.amount,
           status |-> "complete", cash |-> FALSE]

\* An order paid in cash is a COMPLETE transaction of its price too.
CashRow(o) == [type |-> "ORDER", id |-> o, nth |-> 0, amount |-> Total[o],
               status |-> "complete", cash |-> TRUE]

Publish(u, row) == bus' = bus \cup {[user |-> u, row |-> row]}

\* q holds what it has read of u's wallet and will act on it.
Holds(q, u) ==
  \/ /\ req[q].user = u
     /\ \/ req[q].pc \in {"known", "select", "write", "commit", "transfer"}
        \/ req[q].pc = "read" /\ req[q].op = "order"
  \/ \E c \in req[q].todo : c.user = u

\* A wallet row a transaction has updated and not committed is locked.
Unlocked(u) ==
  \A q \in Procs : ~(req[q].user = u /\ req[q].pc = "commit" /\ req[q].dirty)

\* u's balance becomes value, made of ps, by the commit of q's posting.
Post(q, u, value, ps) ==
  /\ balance' = [balance EXCEPT ![u] = value]
  /\ parts'   = [parts EXCEPT ![u] = ps]
  /\ posted'  = [posted EXCEPT ![u] = @ \cup {Posting(req[q])}]
  /\ raced'   = IF \E p \in Procs \ {q} : Holds(p, u) THEN raced \cup {u} ELSE raced

\* What save(wallet) writes: nothing if it found the value it was about to write.
\* (A posting of 0 is part of any balance.)
PostCopy(q) ==
  LET r == req[q] IN
  IF r.dirty
    THEN Post(q, r.user, r.value + Amount(r), r.parts \cup {Posting(r)})
    ELSE Post(q, r.user, balance[r.user],
              parts[r.user] \cup {p \in {Posting(r)} : p.amount = 0})
=============================================================================
