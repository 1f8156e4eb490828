------------------------------- MODULE Money --------------------------------
(***************************************************************************)
(* Everything that moves money, together: wallets, virtual accounts, the   *)
(* deposits of the provider, orders, rewards, service charges and the      *)
(* weekly payouts, with the transactions table that events fill.           *)
(***************************************************************************)
EXTENDS Wallet, RiderPayouts, FiniteSetsExt

\* The orders whose reward requests ps have announced and not committed
Announced(ps) == {req[q].id : q \in {p \in ps : req[p].pc = "commit"}}

\* A query or a call of q throws.  A failed payout is caught and the job goes on.
Fail(q) ==
  /\ req[q].pc \notin {"idle", "next"} /\ Len(faults) < MaxFaults
  /\ faults' = Append(faults, Announced({q}))
  /\ Finish(q)
  /\ UNCHANGED <<rows, money, bus, ledger, transfers, week, calls>>

\* The insert of a transaction row fails; nothing retries it.
LoseEvent(e) ==
  /\ e \in bus /\ Len(faults) < MaxFaults
  /\ faults' = Append(faults, {})
  /\ bus' = bus \ {e}
  /\ UNCHANGED <<rows, money, ledger, transfers, week, req, calls>>

\* The process ends and starts again; the bus lives in memory.
Crash ==
  /\ Len(faults) < MaxFaults
  /\ faults' = Append(faults, Announced(Procs))
  /\ bus' = {}
  /\ req' = [q \in Procs |-> Idle]
  /\ UNCHANGED <<rows, money, ledger, transfers, week, calls>>

\* Nothing is in flight; any other state without a next step is a deadlock.
Quiet ==
  /\ bus = {} /\ \A q \in Procs : req[q].pc = "idle"
  /\ UNCHANGED vars

Step(q) == StepWallet(q) \/ (q = Job /\ StepPayouts)

Next ==
  \/ StartPayouts
  \/ \E q \in Clients : StartWallet(q)
  \/ \E q \in Procs : Step(q) \/ Fail(q)
  \/ \E u \in Users : GetVirtualAccount(u) \/ \E p \in Payments : Pay(u, p)
  \/ \E e \in bus : SaveTransaction(e) \/ LoseEvent(e)
  \/ Crash
  \/ Quiet

Spec == Init /\ [][Next]_vars

-----------------------------------------------------------------------------
(* Properties                                                              *)

Sum(ps) == MapThenSumSet(LAMBDA p : p.amount, ps)

\* Whatever requests overlap or fail (a lost update, a payout of a stale copy of the
\* wallet, an announced and rolled back or a repeated reward), a balance never holds
\* more than all that was ever credited to the wallet, nor less than all that was ever
\* taken from it.  Between the two it may be anything: a lost credit is money gone,
\* and a lost debit leaves money in the wallet that was spent or paid out.
BalanceBounded ==
  \A u \in Users :
    /\ balance[u] <= Sum({p \in posted[u] : p.amount > 0})
    /\ balance[u] >= Sum({p \in posted[u] : p.amount < 0})

\* The handlers read the wallet and save it back without a lock; a balance is the sum
\* of its postings unless another request held a copy of that wallet across a write
\* to it.
ExactUnlessRaced ==
  \A u \in Users \ raced : balance[u] = Sum(posted[u])

\* A debit for which the balance is not looked at: the service charge, and the reward
\* of an order whose negative urgencyFee made its deliveryFee negative
Unchecked(p) == p.type \in {"SERVICE_CHARGE", "ORDER_REWARD"} /\ p.amount < 0 /\ p.id \in Orders

\* A wallet pays for an order only out of what it holds: createMultipleDelivery-
\* Order checks the balance, and only a debit that is not checked, or a request that
\* raced another, takes a balance below zero.
NoOverdraft ==
  \A u \in Users \ raced : balance[u] < 0 => \E p \in posted[u] : Unchecked(p)

\* The rows of u in the transactions table and those on the way to it
Told(u) == ledger[u] \cup {e.row : e \in {f \in bus : f.user = u}}

\* The orders whose announced reward a failure or a crash has rolled back
Undone == UNION {faults[i] : i \in DOMAIN faults}

\* A row of the transactions table, written or on the bus, that reports a completed
\* movement stands for a movement of that amount that committed, or for an order paid
\* in cash that did.  A reward is announced before its commit, so a reward row alone
\* may be in doubt: while the commit is still to come, and for good if exactly that
\* transaction was rolled back.
LedgerIsBacked ==
  \A u \in Users : \A x \in {y \in Told(u) : y.status = "complete"} :
    \/ \E p \in posted[u] : Row(p) = x
    \/ \E o \in cashed[u] : CashRow(o) = x
    \/ /\ x.type = "ORDER_REWARD" /\ x.id \in Orders
       /\ x.id \in Undone \cup Announced(Clients)

\* Once the row of a payment is stored for u and no request that found u's wallet is
\* past the check for it, no webhook and no POST /wallet/fund credits that payment to u
\* again.  (The check asks for rows of one user: for a wallet it was not credited to,
\* the same reference is a new one.)
Settled(u, p) ==
  /\ \E x \in ledger[u] : x.type = "DEPOSIT" /\ x.id = p
  /\ \A q \in Clients :
       req[q].op = "fund" /\ req[q].id = p /\ req[q].user = u =>
         req[q].pc \notin {"select", "write"}

DepositSettles ==
  [][\A p \in Payments, u \in Users : Settled(u, p) =>
       Settled(u, p)' /\ Made(u, "DEPOSIT", p)' = Made(u, "DEPOSIT", p)]_vars

\* A transfer to a bank leaves a trace: unless something fails, its debit is
\* still to come or a transaction of that amount is recorded for it.
PayoutsTraced ==
  faults = <<>> =>
    \A t \in transfers :
      \/ req[Job].pc \in {"select", "write"} /\ Transfer(req[Job]) = t
      \/ \E x \in Told(t.user) :
           x.type = "ORDER_REWARD" /\ x.id = t.id /\ x.amount = t.amount

\* The code of a wallet belongs to a virtual account that is already stored, and
\* a customer's wallet has one: a customer can be shown where to pay.
AccountBehindWallet ==
  \A u \in wallets :
    /\ code[u] # 0 => code[u] \in accounts[u]
    /\ u \notin riders => code[u] # 0

\* Every movement that committed is told to the transactions table, and so is every
\* order paid in cash: its row is stored or on the bus, unless a crash or a failed
\* insert lost it.  The comment of create-order.usecase.ts:187, "Create transaction
\* event (skip for cash payments)", says otherwise of the cash orders.
LedgerIsComplete ==
  faults = <<>> =>
    \A u \in Users :
      /\ \A p \in posted[u] : Row(p) \in Told(u)
      /\ \A o \in cashed[u] : CashRow(o) \in Told(u)

\* The message of fundWallet, "Transaction already exists": a payment is credited
\* once.
DepositOnce ==
  \A p \in Payments : \A u \in Users : Cardinality(Made(u, "DEPOSIT", p)) <= 1

\* The comment of performExternalTransfer: if the external transfer is recorded as
\* successful, the rider's wallet is debited.
PayoutDebits ==
  \A u \in Users : \A x \in ledger[u] :
    x.type = "ORDER_REWARD" /\ x.id \in 1..MaxWeeks /\ x.status = "complete"
      => \E p \in parts[u] : Row(p) = x
=============================================================================
