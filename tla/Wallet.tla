------------------------------- MODULE Wallet -------------------------------
(***************************************************************************)
(* WalletService and what moves money outside it: the debit of an order    *)
(* creation, rewardRider and the service charge.                           *)
(***************************************************************************)
EXTENDS WalletStore

(* getUserWallet, and initialiseWallet for a user who has none              *)

RoleOf(u) == IF u \in riders THEN "RIDER" ELSE "USER"

\* mutant: no one is given an account
Initialise_noAccount(role) == "insert"

\* initialiseWallet: only customers are given a virtual account.
Initialise(role) == IF role = "RIDER" THEN "insert" ELSE "customer"

\* RegisterUseCase saves the user, then InitializeWalletEvent is handled.
Register(q, u) ==
  /\ u \notin registered
  /\ registered' = registered \cup {u}
  /\ riders' \in {riders, riders \cup {u}}
  /\ Call(q, "register", [Idle EXCEPT !.pc = Initialise(RoleOf(u)'),
                                     !.op = "register", !.user = u])
  /\ UNCHANGED <<wallets, code, accounts, shown, customers, paid, cashed, money,
                 bus, ledger, transfers, week, faults>>

\* op asks getUserWallet for the wallet of u, created for role if there is none.
Lookup(q, op, u, id, role) ==
  /\ u \in registered
  /\ Call(q, op, [Idle EXCEPT !.pc = "find", !.op = op, !.user = u, !.id = id,
                             !.role = role])
  /\ UNCHANGED <<rows, money, bus, ledger, transfers, week, faults>>

\* No other request for o, finished or in flight
Fresh(op, o) ==
  /\ \A u \in Users : Made(u, Type(op), o) = {}
  /\ \A p \in Clients : ~(req[p].op = op /\ req[p].id = o)

\* An order is created once.
Unplaced(o) ==
  /\ Fresh("order", o) /\ Fresh("cash", o)
  /\ \A u \in Users : o \notin cashed[u]

\* GET /wallet and GET /wallet/rider
GetWallet(q, u) == Lookup(q, "get", u, None, RoleOf(u))

\* createMultipleDeliveryOrder paid from the wallet
PlaceOrder(q, u, o) == Unplaced(o) /\ Lookup(q, "order", u, o, "USER")

\* createMultipleDeliveryOrder with isCashPayment: the wallet is not looked at
\* before the transaction, which needs it and does not change it.  The event is not
\* skipped, as a comment has it: after the commit it is published for any order.
PlaceCashOrder(q, u, o) ==
  /\ u \in registered /\ Unplaced(o)
  /\ Call(q, "cash", [Idle EXCEPT !.pc = "cash", !.op = "cash", !.user = u, !.id = o])
  /\ UNCHANGED <<rows, money, bus, ledger, transfers, week, faults>>

RecordCashOrder(q) ==
  LET r == req[q] IN
  /\ r.pc = "cash"
  /\ IF r.user \in wallets
       THEN /\ cashed' = [cashed EXCEPT ![r.user] = @ \cup {r.id}]
            /\ Publish(r.user, CashRow(r.id))
       ELSE UNCHANGED <<cashed, bus>>
  /\ Finish(q)
  /\ UNCHANGED <<registered, riders, wallets, code, accounts, shown, customers,
                 paid, money, ledger, transfers, week, calls, faults>>

\* deductServiceChargeFromRider, once per order
ChargeRider(q, u, o) ==
  u \in riders /\ Fresh("charge", o) /\ Lookup(q, "charge", u, o, "USER")

\* mutant: the balance is not checked
HasFound_unchecked(q, v) ==
  IF req[q].op = "order" THEN Goto(q, "read")
  ELSE IF req[q].op = "charge" THEN Goto(q, "decrement") ELSE Finish(q)

\* What the caller of getUserWallet does with a balance of v
HasFound(q, v) ==
  CASE req[q].op = "order" -> IF Total[req[q].id] > v THEN Finish(q) ELSE Goto(q, "read")
    [] req[q].op = "charge" -> Goto(q, "decrement")
    [] OTHER                -> Finish(q)

FindWallet(q) ==
  LET r == req[q] IN
  /\ r.pc = "find"
  /\ IF r.user \in wallets THEN HasFound(q, balance[r.user])
                           ELSE Goto(q, Initialise(r.role))
  /\ UNCHANGED <<rows, money, bus, ledger, transfers, week, calls, faults>>

\* createWalletForUser: the provider creates a customer with an account, or
\* answers with one it has for this user
CreateCustomer(q) ==
  /\ req[q].pc = "customer"
  /\ \E c \in accounts[req[q].user] \cup {customers + 1} :
       /\ customers' = IF c > customers THEN c ELSE customers
       /\ Becomes(q, [req[q] EXCEPT !.pc = "account", !.code = c])
  /\ UNCHANGED <<registered, riders, wallets, code, accounts, shown, paid, cashed,
                 money, bus, ledger, transfers, week, calls, faults>>

SaveAccount(q) ==
  LET r == req[q] IN
  /\ r.pc = "account"
  /\ accounts' = [accounts EXCEPT ![r.user] = @ \cup {r.code}]
  /\ Goto(q, "insert")
  /\ UNCHANGED <<registered, riders, wallets, code, shown, customers, paid, cashed,
                 money, bus, ledger, transfers, week, calls, faults>>

\* userId is unique in wallets: the second of two inserts fails.
InsertWallet(q) ==
  LET r == req[q] IN
  /\ r.pc = "insert"
  /\ \/ /\ r.user \in wallets
        /\ Finish(q)
        /\ UNCHANGED <<wallets, code>>
     \/ /\ r.user \notin wallets
        /\ wallets' = wallets \cup {r.user}
        /\ code' = [code EXCEPT ![r.user] = r.code]
        /\ HasFound(q, 0)
  /\ UNCHANGED <<registered, riders, accounts, shown, customers, paid, cashed, money,
                 bus, ledger, transfers, week, calls, faults>>

\* GET /wallet/virtual-account: some row of the user, kept in the cache
GetVirtualAccount(u) ==
  /\ u \in wallets
  /\ \E c \in accounts[u] \ {shown[u]} : shown' = [shown EXCEPT ![u] = c]
  /\ UNCHANGED <<registered, riders, wallets, code, accounts, customers, paid, cashed,
                 money, bus, ledger, transfers, week, req, calls, faults>>

-----------------------------------------------------------------------------
(* fundWallet, called by the provider's webhook and by POST /wallet/fund    *)

\* external: the user pays into the account shown to them
Pay(u, p) ==
  /\ shown[u] # 0 /\ paid[p] = 0
  /\ paid' = [paid EXCEPT ![p] = shown[u]]
  /\ UNCHANGED <<registered, riders, wallets, code, accounts, shown, customers,
                 cashed, money, bus, ledger, transfers, week, req, calls, faults>>

\* The provider's webhook names the customer who paid; POST /wallet/fund takes the
\* customer code from its caller, and it is not compared with the verified payment.
\* Either may come at any time and again and again.
FundWallet(q, p, c) ==
  /\ paid[p] # 0 /\ c \in 1..customers
  /\ \A u \in Users : Cardinality(Made(u, "DEPOSIT", p)) < MaxRepeats
  /\ Call(q, "fund", [Idle EXCEPT !.pc = "verify", !.op = "fund", !.id = p,
                                 !.code = c])
  /\ UNCHANGED <<rows, money, bus, ledger, transfers, week, faults>>

\* verifyTransaction, then the wallet with the customer's code
FindFunded(q) ==
  LET r == req[q]
      owners == {u \in wallets : code[u] = r.code}
  IN
  /\ r.pc = "verify"
  /\ \/ \E u \in owners :
          Becomes(q, [r EXCEPT !.pc = "known", !.user = u, !.value = balance[u],
                               !.parts = parts[u]])
     \/ Finish(q)       \* not a success, or no such wallet
  /\ UNCHANGED <<rows, money, bus, ledger, transfers, week, calls, faults>>

\* mutant: references are not looked up
CheckExisting_never(q) ==
  /\ req[q].pc = "known"
  /\ Goto(q, "select")
  /\ UNCHANGED <<rows, money, bus, ledger, transfers, week, calls, faults>>

\* checkExistingTransaction
CheckExisting(q) ==
  LET r == req[q] IN
  /\ r.pc = "known"
  /\ IF \E x \in ledger[r.user] : x.id = r.id
       THEN Finish(q)
       ELSE Goto(q, "select")
  /\ UNCHANGED <<rows, money, bus, ledger, transfers, week, calls, faults>>

-----------------------------------------------------------------------------
(* The wallet row is read, changed in memory and saved                      *)

\* rewardRider; that an order is rewarded once is the concern of the order
\* modules, so no second reward of it starts here.
RewardRider(q, u, o) ==
  /\ u \in riders \cap wallets /\ Fresh("reward", o)
  /\ Call(q, "reward", [Idle EXCEPT !.pc = "read", !.op = "reward", !.user = u,
                                   !.id = o])
  /\ UNCHANGED <<rows, money, bus, ledger, transfers, week, faults>>

ReadWallet(q) ==
  LET r == req[q] IN
  /\ r.pc = "read"
  /\ Becomes(q, [r EXCEPT !.pc = "select", !.value = balance[r.user],
                          !.parts = parts[r.user]])
  /\ UNCHANGED <<rows, money, bus, ledger, transfers, week, calls, faults>>

\* mutant: the changed balance is never found to differ
SelectWallet_clean(q) ==
  /\ req[q].pc = "select"
  /\ Becomes(q, [req[q] EXCEPT !.pc = "write", !.dirty = FALSE])
  /\ UNCHANGED <<rows, money, bus, ledger, transfers, week, calls, faults>>

\* save selects the row again and compares ...
SelectWallet(q) ==
  LET r == req[q] IN
  /\ r.pc = "select"
  /\ Becomes(q, [r EXCEPT !.pc = "write",
                          !.dirty = (r.value + Amount(r) # balance[r.user])])
  /\ UNCHANGED <<rows, money, bus, ledger, transfers, week, calls, faults>>

\* ... and updates it; the commit follows, then the event is published.
WriteWallet(q) ==
  LET r == req[q] IN
  /\ r.pc = "write" /\ r.op \in {"order", "fund", "payout"}
  /\ Unlocked(r.user)
  /\ PostCopy(q)
  /\ Publish(r.user, Row(Posting(r)))
  /\ Finish(q)
  /\ UNCHANGED <<rows, ledger, transfers, week, calls, faults>>

\* mutant: the wallet is saved outside the transaction
WriteReward_autocommit(q) ==
  LET r == req[q] IN
  /\ r.pc = "write" /\ r.op = "reward"
  /\ Unlocked(r.user)
  /\ balance' = [balance EXCEPT ![r.user] = r.value + Amount(r)]
  /\ parts' = [parts EXCEPT ![r.user] = r.parts \cup {Posting(r)}]
  /\ Publish(r.user, Row(Posting(r)))
  /\ Goto(q, "commit")
  /\ UNCHANGED <<rows, posted, raced, ledger, transfers, week, calls, faults>>

\* rewardRider publishes its event before the commit.
WriteReward(q) ==
  LET r == req[q] IN
  /\ r.pc = "write" /\ r.op = "reward"
  /\ Unlocked(r.user)
  /\ Publish(r.user, Row(Posting(r)))
  /\ Goto(q, "commit")
  /\ UNCHANGED <<rows, money, ledger, transfers, week, calls, faults>>

CommitReward(q) ==
  /\ req[q].pc = "commit"
  /\ PostCopy(q)
  /\ Finish(q)
  /\ UNCHANGED <<rows, bus, ledger, transfers, week, calls, faults>>

\* mutant: a service charge leaves no transaction
Decrement_silent(q) ==
  LET r == req[q] IN
  /\ r.pc = "decrement"
  /\ Unlocked(r.user)
  /\ Post(q, r.user, balance[r.user] + Amount(r), parts[r.user] \cup {Posting(r)})
  /\ Finish(q)
  /\ UNCHANGED <<rows, bus, ledger, transfers, week, calls, faults>>

\* deductServiceCharge: an atomic decrement
Decrement(q) ==
  LET r == req[q] IN
  /\ r.pc = "decrement"
  /\ Unlocked(r.user)
  /\ Post(q, r.user, balance[r.user] + Amount(r), parts[r.user] \cup {Posting(r)})
  /\ Publish(r.user, Row(Posting(r)))
  /\ Finish(q)
  /\ UNCHANGED <<rows, ledger, transfers, week, calls, faults>>

-----------------------------------------------------------------------------
(* The event bus                                                            *)

\* CreateTransactionEventHandler
SaveTransaction(e) ==
  /\ e \in bus
  /\ bus' = bus \ {e}
  /\ ledger' = [ledger EXCEPT ![e.user] = @ \cup {e.row}]
  /\ UNCHANGED <<rows, money, transfers, week, req, calls, faults>>

StartWallet(q) ==
  \/ \E u \in Users : Register(q, u) \/ GetWallet(q, u)
  \/ \E u \in Users, o \in Orders :
       PlaceOrder(q, u, o) \/ PlaceCashOrder(q, u, o) \/ ChargeRider(q, u, o)
       \/ RewardRider(q, u, o)
  \/ \E p \in Payments : \E c \in 1..customers : FundWallet(q, p, c)

StepWallet(q) ==
  \/ FindWallet(q) \/ CreateCustomer(q) \/ SaveAccount(q) \/ InsertWallet(q)
  \/ RecordCashOrder(q) \/ FindFunded(q) \/ CheckExisting(q)
  \/ ReadWallet(q) \/ SelectWallet(q) \/ WriteWallet(q)
  \/ WriteReward(q) \/ CommitReward(q) \/ Decrement(q)
=============================================================================
