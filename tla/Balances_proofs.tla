-------------------------- MODULE Balances_proofs ---------------------------
(***************************************************************************)
(* Theorems about wallet balances: as long as no two requests raced on a   *)
(* wallet its balance is the sum of all that was posted to it, and is not  *)
(* overdrawn; whatever races, it is the sum of some of the postings, each  *)
(* counted once, and so lies between all debits and all credits.           *)
(***************************************************************************)
EXTENDS Money_proofs, Sums_proofs

-----------------------------------------------------------------------------
(* The invariant                                                            *)

Copied == {"known", "select", "write", "commit", "transfer"}

\* What request r knows of u's wallet is still so, its save will not be skipped if
\* there is something to save, and the order it pays for is covered.
CopyOK(r, u) ==
  /\ r.user = u /\ r.pc \in Copied => r.value = balance[u] /\ r.parts = parts[u]
  /\ r.user = u /\ r.pc \in {"write", "commit"} => r.dirty \/ Amount(r) = 0
  /\ \A c \in r.todo : c.user = u => c.value = balance[u] /\ c.parts = parts[u]
  /\ r.user = u /\ r.op = "order" /\ r.pc \in {"read", "select", "write"} =>
       Total[r.id] <= 0 \/ Total[r.id] <= balance[u]

\* The payout job has one copy of a wallet.
ListOK(r) ==
  /\ \A c, d \in r.todo : c.user = d.user => c = d
  /\ r.pc \in {"transfer", "select", "write"} => \A c \in r.todo : c.user # r.user

BalanceOK(u) ==
  /\ parts[u] = posted[u]
  /\ balance[u] < 0 => \E p \in posted[u] : Unchecked(p)

BalanceInv ==
  /\ \A u \in Users \ raced : BalanceOK(u) /\ \A q \in Procs : CopyOK(req[q], u)
  /\ \A q \in Procs : ListOK(req[q])

LEMMA IdleCopy == ListOK(Idle) /\ \A u : CopyOK(Idle, u) /\ Idle.todo = {}
BY DEF Idle, ListOK, CopyOK, Copied

LEMMA BalanceInit == Init => BalanceInv
BY IdleCopy DEF Init, BalanceInv, BalanceOK

-----------------------------------------------------------------------------
(* Steps that move no money                                                 *)

LEMMA BalanceMove ==
  ASSUME TypeInv, BalanceInv, UNCHANGED money, NEW q \in Procs, NEW r,
         req' = [req EXCEPT ![q] = r],
         ListOK(r), \A u \in Users \ raced : CopyOK(r, u)
  PROVE  BalanceInv'
<1>1. \A p \in Procs : req'[p] = IF p = q THEN r ELSE req[p]
  BY DEF TypeInv, ReqsOK
<1>2. \A p \in Procs : ListOK(req'[p]) /\ \A u \in Users \ raced : CopyOK(req'[p], u)
  BY <1>1 DEF BalanceInv
<1>3. \A p \in Procs : ListOK(req[p])'
  BY <1>2 DEF ListOK
<1>4. ASSUME NEW u \in Users \ raced' PROVE BalanceOK(u)' /\ \A p \in Procs : CopyOK(req[p], u)'
  <2>1. u \in Users \ raced /\ BalanceOK(u)
    BY DEF BalanceInv, money
  <2>2. BalanceOK(u)'
    BY <2>1 DEF BalanceOK, money
  <2>3. \A p \in Procs : CopyOK(req[p], u)'
    BY <1>2, <2>1 DEF CopyOK, money
  <2>4. QED
    BY <2>2, <2>3
<1>5. QED
  BY <1>3, <1>4 DEF BalanceInv

Plain == {"idle", "find", "customer", "account", "insert", "verify", "cash", "decrement"}

\* A request without a copy
LEMMA PlainMove ==
  ASSUME TypeInv, BalanceInv, UNCHANGED money, NEW q \in Procs, NEW r,
         req' = [req EXCEPT ![q] = r], r.todo = {},
         \/ r.pc \in Plain
         \/ r.pc = "read" /\ (r.op = "order" => \A u \in Users \ raced :
                                r.user = u => \/ Total[r.id] <= 0
                                              \/ Total[r.id] <= balance[u])
  PROVE  BalanceInv'
<1>1. ListOK(r)
  BY DEF ListOK, Plain
<1>2. \A u \in Users \ raced : CopyOK(r, u)
  BY DEF CopyOK, Plain, Copied
<1>3. QED
  BY <1>1, <1>2, BalanceMove

\* q's request becomes one without a copy.
LandsPlain(q) == \E r : req' = [req EXCEPT ![q] = r] /\ r.todo = {} /\ r.pc \in Plain

LEMMA StartIs ==
  ASSUME TypeInv, NEW q \in Clients, StartWallet(q)
  PROVE  /\ UNCHANGED money
         /\ \E r : /\ req' = [req EXCEPT ![q] = r] /\ r.todo = {}
                   /\ r.pc \in Plain \/ (r.pc = "read" /\ r.op = "reward")
<1>1. ASSUME NEW u \in Users, Register(q, u)
      PROVE  LandsPlain(q)
  <2>1. PICK pc \in {"insert", "customer"} :
          req' = [req EXCEPT ![q] = [Idle EXCEPT !.pc = pc, !.op = "register", !.user = u]]
    BY <1>1, RegisterIs
  <2>2. /\ [Idle EXCEPT !.pc = pc, !.op = "register", !.user = u].todo = {}
        /\ [Idle EXCEPT !.pc = pc, !.op = "register", !.user = u].pc \in Plain
    BY DEF Idle, Plain
  <2>3. QED
    BY <2>1, <2>2 DEF LandsPlain
<1>2. ASSUME NEW u, NEW op, NEW id, NEW role, Lookup(q, op, u, id, role)
      PROVE  LandsPlain(q)
  <2> DEFINE r == [Idle EXCEPT !.pc = "find", !.op = op, !.user = u, !.id = id, !.role = role]
  <2>1. r.todo = {} /\ r.pc \in Plain
    BY DEF Idle, Plain
  <2>2. req' = [req EXCEPT ![q] = r]
    BY <1>2 DEF Lookup, Call, Becomes
  <2>3. QED
    BY <2>1, <2>2 DEF LandsPlain
<1>3. ASSUME NEW u, NEW o, PlaceCashOrder(q, u, o)
      PROVE  LandsPlain(q)
  <2> DEFINE r == [Idle EXCEPT !.pc = "cash", !.op = "cash", !.user = u, !.id = o]
  <2>1. r.todo = {} /\ r.pc \in Plain
    BY DEF Idle, Plain
  <2>2. req' = [req EXCEPT ![q] = r]
    BY <1>3 DEF PlaceCashOrder, Call, Becomes
  <2>3. QED
    BY <2>1, <2>2 DEF LandsPlain
<1>4. ASSUME NEW u, NEW o, RewardRider(q, u, o)
      PROVE  \E r : /\ req' = [req EXCEPT ![q] = r] /\ r.todo = {}
                    /\ r.pc = "read" /\ r.op = "reward"
  <2> DEFINE r == [Idle EXCEPT !.pc = "read", !.op = "reward", !.user = u, !.id = o]
  <2>1. r.todo = {} /\ r.pc = "read" /\ r.op = "reward"
    BY DEF Idle
  <2>2. req' = [req EXCEPT ![q] = r]
    BY <1>4 DEF RewardRider, Call, Becomes
  <2>3. QED
    BY <2>1, <2>2
<1>5. ASSUME NEW p, NEW k, FundWallet(q, p, k)
      PROVE  LandsPlain(q)
  <2> DEFINE r == [Idle EXCEPT !.pc = "verify", !.op = "fund", !.id = p, !.code = k]
  <2>1. r.todo = {} /\ r.pc \in Plain
    BY DEF Idle, Plain
  <2>2. req' = [req EXCEPT ![q] = r]
    BY <1>5 DEF FundWallet, Call, Becomes
  <2>3. QED
    BY <2>1, <2>2 DEF LandsPlain
<1>6. UNCHANGED money
  <2>1. \A u, op, id, role : Lookup(q, op, u, id, role) => UNCHANGED money
    BY DEF Lookup
  <2>2. \A u, o : \/ Register(q, u) \/ PlaceCashOrder(q, u, o) \/ RewardRider(q, u, o)
                  \/ FundWallet(q, o, u)
                  => UNCHANGED money
    BY DEF Register, PlaceCashOrder, RewardRider, FundWallet
  <2>3. QED
    BY <2>1, <2>2 DEF StartWallet, GetWallet, PlaceOrder, ChargeRider
<1>7. \/ \E u \in Users : Register(q, u)
      \/ \E u, op, id, role : Lookup(q, op, u, id, role)
      \/ \E u, o : PlaceCashOrder(q, u, o)
      \/ \E u, o : RewardRider(q, u, o)
      \/ \E p, k : FundWallet(q, p, k)
  BY DEF StartWallet, GetWallet, PlaceOrder, ChargeRider
<1>8. CASE \E u, o : RewardRider(q, u, o)
  BY <1>4, <1>6, <1>8
<1>9. CASE \E u \in Users : Register(q, u)
  BY <1>1, <1>6, <1>9 DEF LandsPlain
<1>10. CASE \E u, op, id, role : Lookup(q, op, u, id, role)
  BY <1>2, <1>6, <1>10 DEF LandsPlain
<1>11. CASE \E u, o : PlaceCashOrder(q, u, o)
  BY <1>3, <1>6, <1>11 DEF LandsPlain
<1>12. CASE \E p, k : FundWallet(q, p, k)
  BY <1>5, <1>6, <1>12 DEF LandsPlain
<1>13. QED
  BY <1>7, <1>8, <1>9, <1>10, <1>11, <1>12

LEMMA StartBalance ==
  ASSUME TypeInv, BalanceInv, NEW q \in Clients, StartWallet(q)
  PROVE  BalanceInv'
BY StartIs, PlainMove DEF Procs

\* Ending a request, with no money moved
LEMMA AfterCopy ==
  ASSUME TypeInv, BalanceInv, NEW q \in Procs, req[q].pc # "idle"
  PROVE  ListOK(After(q)) /\ \A u \in Users \ raced : CopyOK(After(q), u)
<1> DEFINE r == [Idle EXCEPT !.pc = "next", !.op = "payout", !.todo = req[q].todo]
<1>1. r.pc = "next" /\ r.op = "payout" /\ r.todo = req[q].todo
  BY DEF Idle
<1>2. ListOK(req[q]) /\ \A u \in Users \ raced : CopyOK(req[q], u)
  BY DEF BalanceInv
<1> HIDE DEF r
<1>3. ListOK(r) /\ \A u \in Users \ raced : CopyOK(r, u)
  BY <1>1, <1>2 DEF ListOK, CopyOK, Copied
<1>4. After(q) = r \/ After(q) = Idle
  BY DEF After, r
<1>5. QED
  BY <1>3, <1>4, IdleCopy

LEMMA FinishBalance ==
  ASSUME TypeInv, BalanceInv, NEW q \in Procs, req[q].pc # "idle", Finish(q), UNCHANGED money
  PROVE  BalanceInv'
BY AfterCopy, AfterTyped, BalanceMove

-----------------------------------------------------------------------------
(* Steps of a request                                                       *)

LEMMA HasFoundBalance ==
  ASSUME TypeInv, BalanceInv, NEW q \in Clients, NEW v, HasFound(q, v), UNCHANGED money,
         req[q].pc \in {"find", "insert"}, v \in {0, balance[req[q].user]}
  PROVE  BalanceInv'
<1>1. q \in Procs /\ req[q].pc # "idle" /\ req[q].todo = {} /\ req[q] \in Request
  BY Here DEF Procs, Shape
<1>2. CASE Finish(q)
  BY <1>1, <1>2, FinishBalance
<1>3. CASE req[q].op = "order" /\ ~(Total[req[q].id] > v) /\ Goto(q, "read")
  <2> DEFINE r == [req[q] EXCEPT !.pc = "read"]
  <2>1. "read" \in PCs
    BY DEF PCs
  <2>2. r.pc = "read" /\ r.user = req[q].user /\ r.id = req[q].id /\ r.todo = {}
    BY <1>1, <2>1, GotoTyped
  <2>3. req' = [req EXCEPT ![q] = r]
    BY <1>3 DEF Goto, Becomes
  <2>4. \A u \in Users : r.user = u => Total[r.id] <= 0 \/ Total[r.id] <= balance[u]
    <3>1. req[q].id \in Orders
      BY <1>1, <1>3, Here DEF Shape
    <3>2. Total[req[q].id] \in Int
      BY <3>1, WalletAssumption
    <3>3. QED
      BY <1>3, <2>2, <3>2 DEF TypeInv, MoneyOK
  <2> HIDE DEF r
  <2>5. QED
    BY <1>1, <2>2, <2>3, <2>4, PlainMove
<1>4. CASE Goto(q, "decrement")
  <2> DEFINE r == [req[q] EXCEPT !.pc = "decrement"]
  <2>1. "decrement" \in PCs /\ "decrement" \in Plain
    BY DEF PCs, Plain
  <2>2. r.pc = "decrement" /\ r.todo = {}
    BY <1>1, <2>1, GotoTyped
  <2>3. req' = [req EXCEPT ![q] = r]
    BY <1>4 DEF Goto, Becomes
  <2> HIDE DEF r
  <2>4. QED
    BY <1>1, <2>1, <2>2, <2>3, PlainMove
<1>5. QED
  BY <1>2, <1>3, <1>4 DEF HasFound

LEMMA GotoPlain ==
  ASSUME TypeInv, BalanceInv, NEW q \in Clients, NEW pc \in Plain, Goto(q, pc), UNCHANGED money
  PROVE  BalanceInv'
<1> DEFINE r == [req[q] EXCEPT !.pc = pc]
<1>1. pc \in PCs /\ q \in Procs /\ req[q].todo = {}
  BY Here DEF PCs, Plain, Procs, Shape
<1>2. r.pc = pc /\ r.todo = {}
  BY <1>1, GotoTyped
<1>3. req' = [req EXCEPT ![q] = r]
  BY DEF Goto, Becomes
<1> HIDE DEF r
<1>4. QED
  BY <1>1, <1>2, <1>3, PlainMove

LEMMA WalletSetupBalance ==
  ASSUME TypeInv, BalanceInv, NEW q \in Procs,
         FindWallet(q) \/ CreateCustomer(q) \/ SaveAccount(q) \/ InsertWallet(q)
  PROVE  BalanceInv'
<1>1. /\ q \in Clients /\ UNCHANGED money /\ req[q].pc # "idle" /\ req[q] \in Request
      /\ req[q].todo = {}
  BY Here DEF FindWallet, CreateCustomer, SaveAccount, InsertWallet, Shape
<1>2. {"insert", "customer", "account"} \subseteq Plain
  BY DEF Plain
<1>3. CASE FindWallet(q)
  BY <1>1, <1>2, <1>3, HasFoundBalance, GotoPlain DEF FindWallet, Initialise
<1>4. CASE CreateCustomer(q)
  <2>1. PICK k : Becomes(q, [req[q] EXCEPT !.pc = "account", !.code = k])
    BY <1>4 DEF CreateCustomer
  <2> DEFINE r == [req[q] EXCEPT !.pc = "account", !.code = k]
  <2>2. r.pc = "account" /\ r.todo = {}
    BY <1>1 DEF Request
  <2>3. req' = [req EXCEPT ![q] = r]
    BY <2>1 DEF Becomes
  <2> HIDE DEF r
  <2>4. QED
    BY <1>1, <1>2, <2>2, <2>3, PlainMove
<1>5. CASE SaveAccount(q)
  BY <1>1, <1>2, <1>5, GotoPlain DEF SaveAccount
<1>6. CASE InsertWallet(q)
  BY <1>1, <1>6, HasFoundBalance, FinishBalance DEF InsertWallet
<1>7. QED
  BY <1>3, <1>4, <1>5, <1>6

LEMMA FundBalance ==
  ASSUME TypeInv, BalanceInv, NEW q \in Procs, FindFunded(q) \/ CheckExisting(q)
  PROVE  BalanceInv'
<1>1. /\ UNCHANGED money /\ req[q].pc \in {"verify", "known"} /\ req[q] \in Request
      /\ req[q].op = "fund" /\ req[q].todo = {}
  BY Here DEF FindFunded, CheckExisting, Shape
<1>2. CASE Finish(q)
  BY <1>1, <1>2, FinishBalance
<1>3. ASSUME NEW v, Becomes(q, [req[q] EXCEPT !.pc = "known", !.user = v,
                                   !.value = balance[v], !.parts = parts[v]])
      PROVE  BalanceInv'
  <2> DEFINE r == [req[q] EXCEPT !.pc = "known", !.user = v,
                                 !.value = balance[v], !.parts = parts[v]]
  <2>1. /\ r.pc = "known" /\ r.user = v /\ r.value = balance[v] /\ r.parts = parts[v]
        /\ r.todo = {} /\ r.op = "fund"
    BY <1>1 DEF Request
  <2>2. req' = [req EXCEPT ![q] = r]
    BY <1>3 DEF Becomes
  <2> HIDE DEF r
  <2>3. ListOK(r) /\ \A u \in Users \ raced : CopyOK(r, u)
    BY <2>1 DEF ListOK, CopyOK
  <2>4. QED
    BY <1>1, <2>2, <2>3, BalanceMove
<1>4. CASE req[q].pc = "known" /\ Goto(q, "select")
  <2> DEFINE r == [req[q] EXCEPT !.pc = "select"]
  <2>1. "select" \in PCs
    BY DEF PCs
  <2>2. /\ r.pc = "select" /\ r.user = req[q].user /\ r.value = req[q].value
        /\ r.parts = req[q].parts /\ r.todo = {} /\ r.op = "fund"
    BY <1>1, <2>1, GotoTyped
  <2>3. req' = [req EXCEPT ![q] = r]
    BY <1>4 DEF Goto, Becomes
  <2> HIDE DEF r
  <2>4. \A u \in Users \ raced : CopyOK(req[q], u)
    BY DEF BalanceInv
  <2>5. ListOK(r) /\ \A u \in Users \ raced : CopyOK(r, u)
    BY <1>4, <2>2, <2>4 DEF ListOK, CopyOK, Copied
  <2>6. QED
    BY <1>1, <2>3, <2>5, BalanceMove
<1>5. QED
  BY <1>2, <1>3, <1>4 DEF FindFunded, CheckExisting

LEMMA ReadBalance ==
  ASSUME TypeInv, BalanceInv, NEW q \in Procs, ReadWallet(q)
  PROVE  BalanceInv'
<1>1. UNCHANGED money /\ req[q].pc = "read" /\ req[q] \in Request /\ req[q].todo = {}
  BY Here DEF ReadWallet, Shape
<1> DEFINE r == [req[q] EXCEPT !.pc = "select", !.value = balance[req[q].user],
                               !.parts = parts[req[q].user]]
<1>2. /\ r.pc = "select" /\ r.user = req[q].user /\ r.value = balance[r.user]
      /\ r.parts = parts[r.user] /\ r.todo = {} /\ r.op = req[q].op /\ r.id = req[q].id
  BY <1>1 DEF Request
<1>3. req' = [req EXCEPT ![q] = r]
  BY DEF ReadWallet, Becomes
<1> HIDE DEF r
<1>4. \A u \in Users \ raced : CopyOK(req[q], u)
  BY DEF BalanceInv
<1>5. ListOK(r) /\ \A u \in Users \ raced : CopyOK(r, u)
  BY <1>1, <1>2, <1>4 DEF ListOK, CopyOK
<1>6. QED
  BY <1>1, <1>3, <1>5, BalanceMove

LEMMA SelectBalance ==
  ASSUME TypeInv, BalanceInv, NEW q \in Procs, SelectWallet(q)
  PROVE  BalanceInv'
<1>1. UNCHANGED money /\ req[q].pc = "select" /\ req[q] \in Request
  BY Here DEF SelectWallet
<1> DEFINE d == (req[q].value + Amount(req[q]) # balance[req[q].user])
           r == [req[q] EXCEPT !.pc = "write", !.dirty = d]
<1>2. req' = [req EXCEPT ![q] = r]
  BY DEF SelectWallet, Becomes
<1>3. \A u \in Users \ raced : req[q].user = u => d \/ Amount(req[q]) = 0
  BY <1>1, PostingTyped DEF BalanceInv, CopyOK, Copied, TypeInv, MoneyOK
<1>4. ListOK(req[q]) /\ \A u \in Users \ raced : CopyOK(req[q], u)
  BY DEF BalanceInv
<1> HIDE DEF d
<1>5. /\ r.pc = "write" /\ r.user = req[q].user /\ r.value = req[q].value /\ r.dirty = d
      /\ r.parts = req[q].parts /\ r.todo = req[q].todo /\ r.op = req[q].op
      /\ r.id = req[q].id
  BY <1>1 DEF Request
<1> HIDE DEF r
<1>5a. Amount(r) = Amount(req[q])
  BY <1>5 DEF Amount
<1>6. ListOK(r) /\ \A u \in Users \ raced : CopyOK(r, u)
  BY <1>1, <1>3, <1>4, <1>5, <1>5a DEF ListOK, CopyOK, Copied
<1>7. QED
  BY <1>1, <1>2, <1>6, BalanceMove

LEMMA WriteRewardBalance ==
  ASSUME TypeInv, BalanceInv, NEW q \in Procs, WriteReward(q)
  PROVE  BalanceInv'
<1>1. /\ UNCHANGED money /\ req[q].pc = "write" /\ req[q].op = "reward" /\ req[q].todo = {}
  BY Here DEF WriteReward, Shape, Procs
<1> DEFINE r == [req[q] EXCEPT !.pc = "commit"]
<1>2. "commit" \in PCs
  BY DEF PCs
<1>3. /\ r.pc = "commit" /\ r.user = req[q].user /\ r.value = req[q].value
      /\ r.parts = req[q].parts /\ r.todo = {} /\ r.op = "reward" /\ r.dirty = req[q].dirty
      /\ r.id = req[q].id
  BY <1>1, <1>2, GotoTyped
<1>4. req' = [req EXCEPT ![q] = r]
  BY DEF WriteReward, Goto, Becomes
<1> HIDE DEF r
<1>5. \A u \in Users \ raced : CopyOK(req[q], u)
  BY DEF BalanceInv
<1>5a. Amount(r) = Amount(req[q])
  BY <1>1, <1>3 DEF Amount
<1>6. ListOK(r) /\ \A u \in Users \ raced : CopyOK(r, u)
  BY <1>1, <1>3, <1>5, <1>5a DEF ListOK, CopyOK, Copied
<1>7. QED
  BY <1>1, <1>4, <1>6, BalanceMove

-----------------------------------------------------------------------------
(* The payout job                                                           *)

LEMMA StartPayoutsBalance ==
  ASSUME TypeInv, BalanceInv, StartPayouts
  PROVE  BalanceInv'
<1> DEFINE paidOut == {v \in riders \cap wallets : balance[v] >= MinPayout}
           todo == {[user |-> u, value |-> balance[u], parts |-> parts[u]] : u \in paidOut}
           r == [Idle EXCEPT !.pc = "next", !.op = "payout", !.todo = todo]
<1>1. req' = [req EXCEPT ![Job] = r] /\ UNCHANGED money
  BY DEF StartPayouts, Becomes
<1>2. \A c \in todo : c.value = balance[c.user] /\ c.parts = parts[c.user]
  OBVIOUS
<1>3. \A c, d \in todo : c.user = d.user => c = d
  OBVIOUS
<1> HIDE DEF todo, paidOut
<1>4. r.pc = "next" /\ r.op = "payout" /\ r.todo = todo
  BY DEF Idle
<1> HIDE DEF r
<1>5. ListOK(r) /\ \A u \in Users \ raced : CopyOK(r, u)
  BY <1>2, <1>3, <1>4 DEF ListOK, CopyOK, Copied
<1>6. QED
  BY <1>1, <1>5, JobIn, BalanceMove

LEMMA NextPayoutBalance ==
  ASSUME TypeInv, BalanceInv, NextPayout
  PROVE  BalanceInv'
<1>1. UNCHANGED money /\ req[Job] \in Request /\ req[Job].pc = "next" /\ req[Job].op = "payout"
  BY Here, JobIn DEF NextPayout, Shape
<1>2. ListOK(req[Job]) /\ \A u \in Users \ raced : CopyOK(req[Job], u)
  BY JobIn DEF BalanceInv
<1>3. ASSUME NEW c \in req[Job].todo,
             Becomes(Job, [req[Job] EXCEPT !.pc = "transfer", !.user = c.user, !.id = week,
                             !.value = c.value, !.parts = c.parts, !.todo = @ \ {c}])
      PROVE  BalanceInv'
  <2> DEFINE todo == req[Job].todo \ {c}
             r == [req[Job] EXCEPT !.pc = "transfer", !.user = c.user, !.id = week,
                             !.value = c.value, !.parts = c.parts, !.todo = todo]
  <2>1. req' = [req EXCEPT ![Job] = r]
    BY <1>3 DEF Becomes
  <2>2. todo \subseteq req[Job].todo /\ c \notin todo
    OBVIOUS
  <2> HIDE DEF todo
  <2>3. /\ r.pc = "transfer" /\ r.user = c.user /\ r.value = c.value /\ r.parts = c.parts
        /\ r.todo = todo /\ r.op = "payout"
    BY <1>1 DEF Request
  <2> HIDE DEF r
  <2>4. ListOK(r)
    BY <1>2, <2>2, <2>3 DEF ListOK
  <2>5. \A u \in Users \ raced : CopyOK(r, u)
    BY <1>2, <2>2, <2>3 DEF CopyOK, Copied
  <2>6. QED
    BY <1>1, <2>1, <2>4, <2>5, JobIn, BalanceMove
<1>4. CASE Becomes(Job, Idle)
  BY <1>1, <1>4, IdleCopy, JobIn, BalanceMove DEF Becomes
<1>5. QED
  BY <1>3, <1>4 DEF NextPayout

LEMMA TransferBalance ==
  ASSUME TypeInv, BalanceInv, NoOption \/ TransferSucceeds \/ TransferFails \/ TransferTimesOut
  PROVE  BalanceInv'
<1>1. /\ UNCHANGED money /\ req[Job].pc = "transfer" /\ req[Job].op = "payout"
      /\ Job \in Procs
  BY Here, JobIn DEF NoOption, TransferSucceeds, TransferFails, TransferTimesOut, Shape
<1>2. CASE Finish(Job)
  BY <1>1, <1>2, FinishBalance
<1>3. CASE Goto(Job, "select")
  <2> DEFINE r == [req[Job] EXCEPT !.pc = "select"]
  <2>1. "select" \in PCs
    BY DEF PCs
  <2>2. /\ r.pc = "select" /\ r.user = req[Job].user /\ r.value = req[Job].value
        /\ r.parts = req[Job].parts /\ r.todo = req[Job].todo /\ r.op = "payout"
    BY <1>1, <2>1, GotoTyped
  <2>3. req' = [req EXCEPT ![Job] = r]
    BY <1>3 DEF Goto, Becomes
  <2> HIDE DEF r
  <2>4. ListOK(req[Job]) /\ \A u \in Users \ raced : CopyOK(req[Job], u)
    BY <1>1 DEF BalanceInv
  <2>5. ListOK(r) /\ \A u \in Users \ raced : CopyOK(r, u)
    BY <1>1, <2>2, <2>4 DEF ListOK, CopyOK, Copied
  <2>6. QED
    BY <1>1, <2>3, <2>5, BalanceMove
<1>4. QED
  BY <1>2, <1>3 DEF NoOption, TransferSucceeds, TransferFails, TransferTimesOut, GiveUp

-----------------------------------------------------------------------------
(* Postings                                                                 *)

\* Only a debit that is not checked takes a balance that is known and covered below
\* zero.
LEMMA StaysCovered ==
  ASSUME TypeInv, BalanceInv, NEW q \in Procs, req[q].pc \in {"write", "commit", "decrement"},
         req[q].user \notin raced, balance[req[q].user] + Amount(req[q]) < 0
  PROVE  balance[req[q].user] < 0 \/ Unchecked(Posting(req[q]))
<1> DEFINE r == req[q]
           u == r.user
<1>1. r \in Request /\ Shape(q, r) /\ u \in Users /\ balance[u] \in Int
  BY Here, PostingTyped DEF TypeInv, MoneyOK
<1>2. CopyOK(r, u)
  BY <1>1 DEF BalanceInv
<1>2a. r.op \in {"order", "charge", "reward"} => r.id \in Orders
  BY <1>1 DEF Shape
<1>2b. Posting(r).amount = Amount(r) /\ Posting(r).id = r.id /\ Posting(r).type = Type(r.op)
  BY DEF Posting
<1>3. CASE r.op = "order"
  <2>1. r.pc = "write" /\ Amount(r) = -Total[r.id]
    BY <1>1, <1>3 DEF Shape, Amount
  <2>2. Total[r.id] <= 0 \/ Total[r.id] <= balance[u]
    BY <1>2, <1>3, <2>1 DEF CopyOK
  <2>3. Total[r.id] \in Int
    BY <1>2a, <1>3, WalletAssumption
  <2>4. QED
    BY <1>1, <2>1, <2>2, <2>3
<1>4. CASE r.op \in {"charge", "reward"}
  <2>1. Amount(r) \in Int /\ Type(r.op) \in {"SERVICE_CHARGE", "ORDER_REWARD"}
    BY <1>4, PostingTyped DEF Type
  <2>2. balance[u] < 0 \/ Amount(r) < 0
    BY <1>1, <2>1
  <2>3. QED
    BY <1>2a, <1>2b, <1>4, <2>1, <2>2 DEF Unchecked
<1>5. CASE r.op = "fund"
  <2>1. Amount(r) = Paid /\ Paid > 0 /\ Paid \in Int
    BY <1>5, WalletAssumption DEF Amount
  <2>2. QED
    BY <1>1, <2>1
<1>6. CASE r.op = "payout"
  <2>1. r.pc = "write" /\ Amount(r) = -r.value /\ r.value \in Int
    BY <1>1, <1>6, JobIn DEF Shape, Amount, Procs, Request
  <2>2. r.value = balance[u]
    BY <1>2, <2>1 DEF CopyOK, Copied
  <2>3. QED
    BY <1>1, <2>1, <2>2
<1>7. r.op \in {"order", "charge", "fund", "reward", "payout"}
  BY <1>1, JobIn DEF Shape, Procs
<1>8. QED
  BY <1>3, <1>4, <1>5, <1>6, <1>7

LEMMA PostBalance ==
  ASSUME TypeInv, BalanceInv, NEW q \in Procs, req[q].pc \in {"write", "commit", "decrement"},
         Finish(q), NEW value, NEW ps, Post(q, req[q].user, value, ps),
         req[q].user \notin raced =>
           /\ value = balance[req[q].user] + Amount(req[q])
           /\ ps = parts[req[q].user] \cup {Posting(req[q])}
  PROVE  BalanceInv'
<1>0. PICK u : u = req[q].user
  OBVIOUS
<1>a. PICK x : x = Posting(req[q])
  OBVIOUS
<1>1. u \in Users /\ req[q] \in Request /\ Shape(q, req[q])
  BY <1>0, Here, PostingTyped
<1>2. /\ After(q).todo \subseteq req[q].todo /\ After(q).pc \in {"idle", "next"}
      /\ \A p \in Procs : req'[p] = IF p = q THEN After(q) ELSE req[p]
  BY AfterTyped DEF TypeInv, ReqsOK
<1>3. /\ balance' = [balance EXCEPT ![u] = value]
      /\ parts'   = [parts EXCEPT ![u] = ps]
      /\ posted'  = [posted EXCEPT ![u] = @ \cup {x}]
      /\ raced'   = IF \E p \in Procs \ {q} : Holds(p, u) THEN raced \cup {u} ELSE raced
  BY <1>0, <1>a DEF Post
<1>4. /\ \A v \in Users : balance'[v] = IF v = u THEN value ELSE balance[v]
      /\ \A v \in Users : parts'[v] = IF v = u THEN ps ELSE parts[v]
      /\ \A v \in Users : posted'[v] = IF v = u THEN posted[u] \cup {x} ELSE posted[v]
  BY <1>1, <1>3 DEF TypeInv, MoneyOK
<1>5. \A c \in After(q).todo : c.user # u
  BY <1>0, <1>1, <1>2, JobIn DEF BalanceInv, ListOK, Shape, Procs
<1>6. \A p \in Procs : ListOK(req[p])'
  <2>1. ListOK(After(q))
    BY AfterCopy
  <2>2. \A p \in Procs : ListOK(req'[p])
    BY <1>2, <2>1 DEF BalanceInv
  <2>3. QED
    BY <2>2 DEF ListOK
<1>7. ASSUME NEW v \in Users \ raced', v # u
      PROVE  BalanceOK(v)' /\ \A p \in Procs : CopyOK(req[p], v)'
  <2>1. v \in Users \ raced /\ BalanceOK(v) /\ \A p \in Procs : CopyOK(req[p], v)
    BY <1>3, <1>7 DEF BalanceInv
  <2>2. balance'[v] = balance[v] /\ parts'[v] = parts[v] /\ posted'[v] = posted[v]
    BY <1>4, <1>7
  <2>3. BalanceOK(v)'
    BY <2>1, <2>2 DEF BalanceOK
  <2>4. CopyOK(After(q), v)
    BY <2>1, AfterCopy
  <2>5. \A p \in Procs : CopyOK(req'[p], v)
    BY <1>2, <2>1, <2>4
  <2>6. QED
    BY <2>2, <2>3, <2>5 DEF CopyOK
<1>8. ASSUME u \notin raced'
      PROVE  BalanceOK(u)' /\ \A p \in Procs : CopyOK(req[p], u)'
  <2>1. u \notin raced /\ \A p \in Procs \ {q} : ~Holds(p, u)
    BY <1>3, <1>8
  <2>2. BalanceOK(u) /\ value = balance[u] + Amount(req[q]) /\ ps = parts[u] \cup {x}
    BY <1>0, <1>a, <1>1, <2>1 DEF BalanceInv
  <2>3. balance[u] + Amount(req[q]) < 0 => balance[u] < 0 \/ Unchecked(x)
    BY <1>0, <1>a, <2>1, StaysCovered
  <2>4. BalanceOK(u)'
    BY <1>1, <1>4, <2>2, <2>3 DEF BalanceOK
  <2>5. ASSUME NEW p \in Procs PROVE CopyOK(req[p], u)'
    <3>1. CASE p = q
      BY <1>2, <1>5, <3>1 DEF CopyOK, Copied
    <3>2. CASE p # q
      <4>1. req'[p] = req[p] /\ ~Holds(p, u)
        BY <1>2, <2>1, <3>2
      <4>2. QED
        BY <4>1 DEF CopyOK, Copied, Holds
    <3>3. QED
      BY <3>1, <3>2
  <2>6. QED
    BY <2>4, <2>5
<1>9. QED
  BY <1>6, <1>7, <1>8 DEF BalanceInv

LEMMA WriteBalance ==
  ASSUME TypeInv, BalanceInv, NEW q \in Procs,
         WriteWallet(q) \/ CommitReward(q) \/ Decrement(q)
  PROVE  BalanceInv'
<1>1. Finish(q) /\ req[q].pc \in {"write", "commit", "decrement"}
  BY DEF WriteWallet, CommitReward, Decrement
<1>2. req[q].user \in Users
  BY <1>1, PostingTyped
<1>3. CASE Decrement(q)
  <2>1. Post(q, req[q].user, balance[req[q].user] + Amount(req[q]),
             parts[req[q].user] \cup {Posting(req[q])})
    BY <1>3 DEF Decrement
  <2>2. QED
    BY <1>1, <2>1, PostBalance
<1>4. CASE req[q].pc \in {"write", "commit"} /\ PostCopy(q)
  <2>1. req[q].user \notin raced =>
          /\ req[q].dirty \/ Amount(req[q]) = 0
          /\ req[q].value = balance[req[q].user]
          /\ req[q].parts = parts[req[q].user]
    BY <1>2, <1>4 DEF BalanceInv, CopyOK, Copied
  <2>2. CASE req[q].dirty
    <3>1. Post(q, req[q].user, req[q].value + Amount(req[q]), req[q].parts \cup {Posting(req[q])})
      BY <1>4, <2>2 DEF PostCopy
    <3>2. QED
      BY <1>1, <2>1, <3>1, PostBalance
  <2>3. CASE ~req[q].dirty
    <3> DEFINE ps == parts[req[q].user] \cup {p \in {Posting(req[q])} : p.amount = 0}
    <3>1. Post(q, req[q].user, balance[req[q].user], ps)
      BY <1>4, <2>3 DEF PostCopy
    <3>2. req[q].user \notin raced => /\ balance[req[q].user] = balance[req[q].user] + Amount(req[q])
                                      /\ ps = parts[req[q].user] \cup {Posting(req[q])}
      BY <1>2, <2>1, <2>3 DEF Posting, TypeInv, MoneyOK
    <3> HIDE DEF ps
    <3>3. QED
      BY <1>1, <3>1, <3>2, PostBalance
  <2>4. QED
    BY <2>2, <2>3
<1>5. QED
  BY <1>3, <1>4 DEF WriteWallet, CommitReward

-----------------------------------------------------------------------------
LEMMA BalanceNext ==
  ASSUME TypeInv, BalanceInv, [Next]_vars
  PROVE  BalanceInv'
<1>1. ASSUME NEW q \in Clients, StartWallet(q) PROVE BalanceInv'
  BY <1>1, StartBalance
<1>2. ASSUME NEW q \in Procs, StepWallet(q) PROVE BalanceInv'
  <2>1. CASE RecordCashOrder(q)
    BY <2>1, FinishBalance DEF RecordCashOrder
  <2>2. QED
    BY <1>2, <2>1, WalletSetupBalance, FundBalance, ReadBalance, SelectBalance,
       WriteRewardBalance, WriteBalance DEF StepWallet
<1>3. ASSUME NEW q \in Procs, Fail(q) PROVE BalanceInv'
  BY <1>3, FinishBalance DEF Fail
<1>4. CASE StartPayouts \/ StepPayouts
  BY <1>4, StartPayoutsBalance, NextPayoutBalance, TransferBalance DEF StepPayouts
<1>5. CASE Crash
  <2>1. UNCHANGED money /\ \A q \in Procs : req'[q] = Idle
    BY <1>5 DEF Crash
  <2>2. \A u \in Users \ raced' : BalanceOK(u)'
    BY <2>1 DEF BalanceInv, BalanceOK, money
  <2>3. \A q \in Procs : ListOK(req[q])' /\ \A u : CopyOK(req[q], u)'
    BY <2>1, IdleCopy DEF ListOK, CopyOK, Idle, Copied
  <2>4. QED
    BY <2>2, <2>3 DEF BalanceInv
<1>6. CASE \/ \E e \in bus : SaveTransaction(e) \/ LoseEvent(e)
           \/ \E u \in Users : GetVirtualAccount(u) \/ \E p \in Payments : Pay(u, p)
           \/ UNCHANGED vars
  <2>1. UNCHANGED <<money, req>>
    BY <1>6 DEF SaveTransaction, LoseEvent, GetVirtualAccount, Pay, vars
  <2>2. QED
    BY <2>1 DEF BalanceInv, BalanceOK, CopyOK, ListOK, money
<1>7. QED
  BY <1>1, <1>2, <1>3, <1>4, <1>5, <1>6 DEF Next, Step, Quiet

LEMMA BalanceAlways == Spec => []BalanceInv
<1>1. TypeInv /\ BalanceInv /\ [Next]_vars => (TypeInv /\ BalanceInv)'
  BY TypeNext, BalanceNext
<1>2. QED
  BY <1>1, TypeInit, BalanceInit, PTL DEF Spec

\* createMultipleDeliveryOrder checks the balance before it debits it, and a payout takes
\* what was there: without a race only a service charge, or a reward that is a debit
\* because its order's fee is negative, leaves a balance below zero.
THEOREM CoveredBalances == Spec => []NoOverdraft
<1>1. BalanceInv => NoOverdraft
  BY DEF BalanceInv, BalanceOK, NoOverdraft
<1>2. QED
  BY <1>1, BalanceAlways, PTL

-----------------------------------------------------------------------------
(* Sums of postings                                                         *)

LEMMA SumIs ==
  ASSUME NEW U, NEW S, S \subseteq U
  PROVE  Sum(S) = SumOver([p \in U |-> p.amount], S)
<1> DEFINE f == [p \in U |-> p.amount]
           Body(h) == [s \in SUBSET S |-> IF s = {} THEN 0
                        ELSE (CHOOSE x \in s : TRUE).amount + h[s \ {CHOOSE x \in s : TRUE}]]
<1>1. Sum(S) = (CHOOSE h : h = Body(h))[S]
  BY DEF Sum, MapThenSumSet, MapThenFoldSet
<1>2. ASSUME NEW h PROVE (h = Body(h)) <=> Sums(h, f, S)
  <2>1. \A s \in SUBSET S : s # {} => f[Chosen(s)] = Chosen(s).amount
    BY ChosenIn
  <2>2. Body(h) = [s \in SUBSET S |-> IF s = {} THEN 0 ELSE f[Chosen(s)] + h[s \ {Chosen(s)}]]
    BY <2>1 DEF Chosen
  <2>3. QED
    BY <2>2, Zenon DEF Sums
<1> HIDE DEF Body, f
<1>3. (CHOOSE h : h = Body(h)) = (CHOOSE h : Sums(h, f, S))
  BY <1>2
<1>4. QED
  BY <1>1, <1>3 DEF SumOver, f

LEMMA SumNone == Sum({}) = 0
<1>1. Sum({}) = SumOver([p \in {} |-> p.amount], {})
  BY SumIs
<1>2. QED
  BY <1>1, FS_EmptySet, SumUnfolds

LEMMA SumAdd ==
  ASSUME NEW S, IsFiniteSet(S), NEW p, p \notin S, \A x \in S \cup {p} : x.amount \in Int
  PROVE  Sum(S \cup {p}) = Sum(S) + p.amount
<1> DEFINE U == S \cup {p}
           f == [x \in U |-> x.amount]
<1>1. \A x \in U : f[x] \in Int
  OBVIOUS
<1>2. IsFiniteSet(U) /\ U \ {p} = S /\ p \in U
  BY FS_AddElement
<1>3. Sum(U) = SumOver(f, U) /\ Sum(S) = SumOver(f, S)
  BY SumIs
<1>4. f[p] = p.amount
  OBVIOUS
<1> HIDE DEF f, U
<1>5. SumOver(f, U) = f[p] + SumOver(f, S)
  BY <1>1, <1>2, SumWithout
<1>6. SumOver(f, S) \in Int
  BY <1>1, <1>2, SumInt
<1>7. f[p] \in Int
  BY <1>1, <1>2
<1>8. QED
  BY <1>3, <1>4, <1>5, <1>6, <1>7 DEF U

-----------------------------------------------------------------------------
(* Where the money comes from                                               *)

\* Money that some of the postings of u make up
Backed(u, value, ps) == ps \subseteq posted[u] /\ value = Sum(ps)

\* What a request knows of a wallet was once its balance.
CopyBacked(r) ==
  /\ r.pc \in Copied => Backed(r.user, r.value, r.parts)
  /\ \A c \in r.todo : Backed(c.user, c.value, c.parts)

\* Repetitions are counted, so that no posting equals one before it.
Numbered(u) == \A p \in posted[u] : p.nth < Cardinality(Made(u, p.type, p.id))

SumInv ==
  /\ \A u \in Users : Numbered(u) /\ Backed(u, balance[u], parts[u])
  /\ \A q \in Procs : CopyBacked(req[q])

LEMMA IdleBacked == CopyBacked(Idle)
BY DEF Idle, CopyBacked, Copied

LEMMA SumInit == Init => SumInv
BY IdleBacked, SumNone DEF Init, SumInv, Numbered, Backed

\* Steps that move no money

LEMMA SumMove ==
  ASSUME TypeInv, SumInv, UNCHANGED money, NEW q \in Procs, NEW r,
         req' = [req EXCEPT ![q] = r], CopyBacked(r)
  PROVE  SumInv'
<1>1. \A p \in Procs : req'[p] = IF p = q THEN r ELSE req[p]
  BY DEF TypeInv, ReqsOK
<1>2. \A u, v, ps : Backed(u, v, ps)' <=> Backed(u, v, ps)
  BY DEF Backed, money
<1>3. \A p \in Procs : CopyBacked(req'[p])
  BY <1>1 DEF SumInv
<1>4. \A p \in Procs : CopyBacked(req[p])'
  BY <1>3 DEF CopyBacked, Backed, money
<1>5. \A u \in Users : Numbered(u)' /\ Backed(u, balance[u], parts[u])'
  BY DEF SumInv, Numbered, Made, Backed, money
<1>6. QED
  BY <1>4, <1>5 DEF SumInv

LEMMA SumPlain ==
  ASSUME TypeInv, SumInv, UNCHANGED money, NEW q \in Procs, NEW r,
         req' = [req EXCEPT ![q] = r], r.todo = {}, r.pc \notin Copied
  PROVE  SumInv'
<1>1. CopyBacked(r)
  BY DEF CopyBacked
<1>2. QED
  BY <1>1, SumMove

LEMMA AfterBacked ==
  ASSUME TypeInv, SumInv, NEW q \in Procs, req[q].pc # "idle"
  PROVE  CopyBacked(After(q))
<1>1. After(q).pc \in {"idle", "next"} /\ After(q).todo \subseteq req[q].todo
  BY AfterTyped
<1>2. CopyBacked(req[q])
  BY DEF SumInv
<1>3. QED
  BY <1>1, <1>2 DEF CopyBacked, Copied

LEMMA FinishSum ==
  ASSUME TypeInv, SumInv, NEW q \in Procs, req[q].pc # "idle", Finish(q), UNCHANGED money
  PROVE  SumInv'
BY AfterBacked, AfterTyped, SumMove

LEMMA GotoSum ==
  ASSUME TypeInv, SumInv, NEW q \in Procs, NEW pc \in PCs, Goto(q, pc), UNCHANGED money,
         pc \in Copied => req[q].pc \in Copied
  PROVE  SumInv'
<1> DEFINE r == [req[q] EXCEPT !.pc = pc]
<1>1. /\ r.pc = pc /\ r.user = req[q].user /\ r.value = req[q].value
      /\ r.parts = req[q].parts /\ r.todo = req[q].todo
  BY GotoTyped
<1>2. req' = [req EXCEPT ![q] = r] /\ CopyBacked(req[q])
  BY DEF Goto, Becomes, SumInv
<1> HIDE DEF r
<1>3. CopyBacked(r)
  BY <1>1, <1>2 DEF CopyBacked
<1>4. QED
  BY <1>2, <1>3, SumMove

LEMMA HasFoundSum ==
  ASSUME TypeInv, SumInv, NEW q \in Procs, NEW v, HasFound(q, v), UNCHANGED money,
         req[q].pc # "idle"
  PROVE  SumInv'
<1>1. {"read", "decrement"} \subseteq PCs \ Copied
  BY DEF PCs, Copied
<1>2. QED
  BY <1>1, FinishSum, GotoSum DEF HasFound

LEMMA WalletSetupSum ==
  ASSUME TypeInv, SumInv, NEW q \in Procs,
         FindWallet(q) \/ CreateCustomer(q) \/ SaveAccount(q) \/ InsertWallet(q)
  PROVE  SumInv'
<1>1. /\ UNCHANGED money /\ req[q].pc # "idle" /\ req[q] \in Request /\ req[q].todo = {}
  BY Here DEF FindWallet, CreateCustomer, SaveAccount, InsertWallet, Shape, Procs
<1>2. {"insert", "customer", "account"} \subseteq PCs \ Copied
  BY DEF PCs, Copied
<1>3. CASE FindWallet(q)
  BY <1>1, <1>2, <1>3, HasFoundSum, GotoSum DEF FindWallet, Initialise
<1>4. CASE CreateCustomer(q)
  <2>1. PICK k : Becomes(q, [req[q] EXCEPT !.pc = "account", !.code = k])
    BY <1>4 DEF CreateCustomer
  <2> DEFINE r == [req[q] EXCEPT !.pc = "account", !.code = k]
  <2>2. r.pc = "account" /\ r.todo = {}
    BY <1>1 DEF Request
  <2>3. req' = [req EXCEPT ![q] = r]
    BY <2>1 DEF Becomes
  <2> HIDE DEF r
  <2>4. QED
    BY <1>1, <1>2, <2>2, <2>3, SumPlain
<1>5. CASE SaveAccount(q)
  BY <1>1, <1>2, <1>5, GotoSum DEF SaveAccount
<1>6. CASE InsertWallet(q)
  BY <1>1, <1>6, HasFoundSum, FinishSum DEF InsertWallet
<1>7. QED
  BY <1>3, <1>4, <1>5, <1>6

\* A request reads the balance of v.
LEMMA ReadsSum ==
  ASSUME TypeInv, SumInv, UNCHANGED money, NEW q \in Procs, NEW v \in Users, NEW r,
         req' = [req EXCEPT ![q] = r], r.todo = {},
         r.user = v /\ r.value = balance[v] /\ r.parts = parts[v]
  PROVE  SumInv'
<1>1. CopyBacked(r)
  BY DEF CopyBacked, SumInv
<1>2. QED
  BY <1>1, SumMove

LEMMA FundSum ==
  ASSUME TypeInv, SumInv, NEW q \in Procs, FindFunded(q) \/ CheckExisting(q) \/ ReadWallet(q)
  PROVE  SumInv'
<1>1. /\ UNCHANGED money /\ req[q].pc \in {"verify", "known", "read"} /\ req[q] \in Request
      /\ req[q].todo = {} /\ (req[q].pc = "read" => req[q].user \in Users)
  BY Here DEF FindFunded, CheckExisting, ReadWallet, Shape, Procs, TypeInv, RowsOK
<1>2. CASE Finish(q)
  BY <1>1, <1>2, FinishSum
<1>3. ASSUME NEW v \in Users, Becomes(q, [req[q] EXCEPT !.pc = "known", !.user = v,
                                            !.value = balance[v], !.parts = parts[v]])
      PROVE  SumInv'
  <2> DEFINE r == [req[q] EXCEPT !.pc = "known", !.user = v,
                                 !.value = balance[v], !.parts = parts[v]]
  <2>1. r.user = v /\ r.value = balance[v] /\ r.parts = parts[v] /\ r.todo = {}
    BY <1>1 DEF Request
  <2>2. req' = [req EXCEPT ![q] = r]
    BY <1>3 DEF Becomes
  <2> HIDE DEF r
  <2>3. QED
    BY <1>1, <2>1, <2>2, ReadsSum
<1>4. CASE req[q].pc = "known" /\ Goto(q, "select")
  <2>1. "select" \in PCs /\ req[q].pc \in Copied
    BY <1>4 DEF PCs, Copied
  <2>2. QED
    BY <1>1, <1>4, <2>1, GotoSum
<1>5. CASE ReadWallet(q)
  <2> DEFINE r == [req[q] EXCEPT !.pc = "select", !.value = balance[req[q].user],
                                 !.parts = parts[req[q].user]]
  <2>1. /\ r.user = req[q].user /\ r.value = balance[req[q].user]
        /\ r.parts = parts[req[q].user] /\ r.todo = {}
    BY <1>1 DEF Request
  <2>2. req' = [req EXCEPT ![q] = r] /\ req[q].user \in Users
    BY <1>1, <1>5 DEF ReadWallet, Becomes
  <2> HIDE DEF r
  <2>3. QED
    BY <1>1, <2>1, <2>2, ReadsSum
<1>6. CASE FindFunded(q) /\ ~Finish(q)
  <2>1. \E v \in wallets : Becomes(q, [req[q] EXCEPT !.pc = "known", !.user = v,
                                         !.value = balance[v], !.parts = parts[v]])
    BY <1>6 DEF FindFunded
  <2>2. wallets \subseteq Users
    BY DEF TypeInv, RowsOK
  <2>3. QED
    BY <1>3, <2>1, <2>2
<1>7. QED
  BY <1>2, <1>4, <1>5, <1>6 DEF CheckExisting

LEMMA SelectSum ==
  ASSUME TypeInv, SumInv, NEW q \in Procs, SelectWallet(q) \/ WriteReward(q)
  PROVE  SumInv'
<1>1. UNCHANGED money /\ req[q].pc \in {"select", "write"} /\ req[q] \in Request
  BY Here DEF SelectWallet, WriteReward
<1>2. CASE WriteReward(q)
  <2>1. "commit" \in PCs /\ req[q].pc \in Copied
    BY <1>1 DEF PCs, Copied
  <2>2. QED
    BY <1>1, <1>2, <2>1, GotoSum DEF WriteReward
<1>3. CASE SelectWallet(q)
  <2> DEFINE d == (req[q].value + Amount(req[q]) # balance[req[q].user])
             r == [req[q] EXCEPT !.pc = "write", !.dirty = d]
  <2>1. req' = [req EXCEPT ![q] = r]
    BY <1>3 DEF SelectWallet, Becomes
  <2>2. CopyBacked(req[q])
    BY DEF SumInv
  <2> HIDE DEF d
  <2>3. /\ r.user = req[q].user /\ r.value = req[q].value
        /\ r.parts = req[q].parts /\ r.todo = req[q].todo /\ req[q].pc \in Copied
    BY <1>1 DEF Request, Copied
  <2> HIDE DEF r
  <2>4. CopyBacked(r)
    BY <2>2, <2>3 DEF CopyBacked
  <2>5. QED
    BY <1>1, <2>1, <2>4, SumMove
<1>4. QED
  BY <1>2, <1>3

LEMMA StartPayoutsSum ==
  ASSUME TypeInv, SumInv, StartPayouts
  PROVE  SumInv'
<1> DEFINE paidOut == {v \in riders \cap wallets : balance[v] >= MinPayout}
           todo == {[user |-> u, value |-> balance[u], parts |-> parts[u]] : u \in paidOut}
           r == [Idle EXCEPT !.pc = "next", !.op = "payout", !.todo = todo]
<1>1. req' = [req EXCEPT ![Job] = r] /\ UNCHANGED money
  BY DEF StartPayouts, Becomes
<1>2. \A c \in todo : c.user \in Users /\ c.value = balance[c.user] /\ c.parts = parts[c.user]
  BY DEF TypeInv, RowsOK
<1> HIDE DEF todo
<1>3. r.pc = "next" /\ r.todo = todo
  BY DEF Idle
<1> HIDE DEF r
<1>4. CopyBacked(r)
  BY <1>2, <1>3 DEF CopyBacked, Copied, SumInv
<1>5. QED
  BY <1>1, <1>4, JobIn, SumMove

LEMMA NextPayoutSum ==
  ASSUME TypeInv, SumInv, NextPayout
  PROVE  SumInv'
<1>1. UNCHANGED money /\ req[Job] \in Request /\ CopyBacked(req[Job])
  BY Here, JobIn DEF NextPayout, SumInv
<1>2. ASSUME NEW c \in req[Job].todo,
             Becomes(Job, [req[Job] EXCEPT !.pc = "transfer", !.user = c.user, !.id = week,
                             !.value = c.value, !.parts = c.parts, !.todo = @ \ {c}])
      PROVE  SumInv'
  <2> DEFINE todo == req[Job].todo \ {c}
             r == [req[Job] EXCEPT !.pc = "transfer", !.user = c.user, !.id = week,
                             !.value = c.value, !.parts = c.parts, !.todo = todo]
  <2>1. req' = [req EXCEPT ![Job] = r] /\ todo \subseteq req[Job].todo
    BY <1>2 DEF Becomes
  <2> HIDE DEF todo
  <2>2. r.user = c.user /\ r.value = c.value /\ r.parts = c.parts /\ r.todo = todo
    BY <1>1 DEF Request
  <2> HIDE DEF r
  <2>3. CopyBacked(r)
    BY <1>1, <2>1, <2>2 DEF CopyBacked
  <2>4. QED
    BY <1>1, <2>1, <2>3, JobIn, SumMove
<1>3. CASE Becomes(Job, Idle)
  BY <1>1, <1>3, IdleBacked, JobIn, SumMove DEF Becomes
<1>4. QED
  BY <1>2, <1>3 DEF NextPayout

LEMMA TransferSum ==
  ASSUME TypeInv, SumInv, NoOption \/ TransferSucceeds \/ TransferFails \/ TransferTimesOut
  PROVE  SumInv'
<1>1. UNCHANGED money /\ req[Job].pc = "transfer" /\ Job \in Procs
  BY JobIn DEF NoOption, TransferSucceeds, TransferFails, TransferTimesOut
<1>2. "select" \in PCs /\ req[Job].pc \in Copied
  BY <1>1 DEF PCs, Copied
<1>3. Finish(Job) \/ Goto(Job, "select")
  BY DEF NoOption, TransferSucceeds, TransferFails, TransferTimesOut, GiveUp
<1>4. QED
  BY <1>1, <1>2, <1>3, FinishSum, GotoSum

\* Postings

\* A posting is none of those before it, and is counted like them.
LEMMA PostedNew ==
  ASSUME TypeInv, NEW u \in Users, Numbered(u), NEW x \in Postings,
         x.nth = Cardinality(Made(u, x.type, x.id)), posted' = [posted EXCEPT ![u] = @ \cup {x}]
  PROVE  x \notin posted[u] /\ \A v \in Users : Numbered(v) => Numbered(v)'
<1>1. /\ x.nth \in Nat /\ IsFiniteSet(posted[u]) /\ posted[u] \subseteq Postings
      /\ \A v \in Users : posted'[v] = IF v = u THEN posted[u] \cup {x} ELSE posted[v]
  BY DEF TypeInv, MoneyOK, Postings
<1>2. x \notin posted[u]
  BY <1>1 DEF Numbered
<1>3. \A t, i : /\ IsFiniteSet(Made(u, t, i)) /\ x \notin Made(u, t, i)
                /\ Cardinality(Made(u, t, i)) \in Nat
  BY <1>1, <1>2, FS_Subset, FS_CardinalityType DEF Made
<1>4. \A t, i : Made(u, t, i)' = IF t = x.type /\ i = x.id THEN Made(u, t, i) \cup {x}
                                 ELSE Made(u, t, i)
  BY <1>1 DEF Made
<1>5. \A t, i : Cardinality(Made(u, t, i)') = Cardinality(Made(u, t, i)) +
                                               IF t = x.type /\ i = x.id THEN 1 ELSE 0
  BY <1>3, <1>4, FS_AddElement
<1>6. Numbered(u)'
  <2>1. ASSUME NEW p \in posted'[u] PROVE p.nth < Cardinality(Made(u, p.type, p.id)')
    <3>1. CASE p = x
      BY <1>1, <1>3, <1>5, <3>1
    <3>2. CASE p # x
      <4>1. p \in posted[u] /\ p.nth < Cardinality(Made(u, p.type, p.id)) /\ p.nth \in Nat
        BY <1>1, <2>1, <3>2 DEF Numbered, Postings
      <4>2. QED
        BY <1>3, <1>5, <4>1
    <3>3. QED
      BY <3>1, <3>2
  <2>2. QED
    BY <2>1 DEF Numbered
<1>7. \A v \in Users \ {u} : Numbered(v) => Numbered(v)'
  BY <1>1 DEF Numbered, Made
<1>8. QED
  BY <1>2, <1>6, <1>7

LEMMA PostSum ==
  ASSUME TypeInv, SumInv, NEW q \in Procs, req[q].pc \in {"write", "commit", "decrement"},
         Finish(q), NEW value, NEW ps, Post(q, req[q].user, value, ps),
         \/ value = balance[req[q].user] /\ ps = parts[req[q].user]
         \/ \E v, old : /\ Backed(req[q].user, v, old)
                        /\ value = v + Amount(req[q]) /\ ps = old \cup {Posting(req[q])}
  PROVE  SumInv'
<1>0. PICK u : u = req[q].user
  OBVIOUS
<1>a. PICK x : x = Posting(req[q])
  OBVIOUS
<1>1. u \in Users /\ x \in Postings /\ x.amount = Amount(req[q]) /\ Numbered(u)
  BY <1>0, <1>a, PostingTyped DEF SumInv, Posting
<1>2. x.nth = Cardinality(Made(u, x.type, x.id))
  BY <1>0, <1>a DEF Posting
<1>3. /\ balance' = [balance EXCEPT ![u] = value]
      /\ parts'   = [parts EXCEPT ![u] = ps]
      /\ posted'  = [posted EXCEPT ![u] = @ \cup {x}]
  BY <1>0, <1>a DEF Post
<1>4. /\ \A v \in Users : balance'[v] = IF v = u THEN value ELSE balance[v]
      /\ \A v \in Users : parts'[v] = IF v = u THEN ps ELSE parts[v]
      /\ \A v \in Users : posted'[v] = IF v = u THEN posted[u] \cup {x} ELSE posted[v]
      /\ IsFiniteSet(posted[u]) /\ posted[u] \subseteq Postings
  BY <1>1, <1>3 DEF TypeInv, MoneyOK
<1>5. x \notin posted[u] /\ \A v \in Users : Numbered(v) => Numbered(v)'
  BY <1>1, <1>2, <1>3, PostedNew
<1>6. \A v \in Users : \A n, s : Backed(v, n, s) => Backed(v, n, s)'
  BY <1>4 DEF Backed
<1>7. ps \subseteq posted[u] \cup {x} /\ value = Sum(ps)
  <2>1. CASE value = balance[u] /\ ps = parts[u]
    BY <1>1, <2>1 DEF SumInv, Backed
  <2>2. ASSUME NEW v, NEW old, Backed(u, v, old), value = v + x.amount, ps = old \cup {x}
        PROVE  ps \subseteq posted[u] \cup {x} /\ value = Sum(ps)
    <3>1. IsFiniteSet(old) /\ x \notin old /\ old \subseteq Postings /\ v = Sum(old)
      BY <1>4, <1>5, <2>2, FS_Subset DEF Backed
    <3>2. \A y \in old \cup {x} : y.amount \in Int
      BY <1>1, <3>1 DEF Postings
    <3>3. QED
      BY <2>2, <3>1, <3>2, SumAdd DEF Backed
  <2>3. QED
    BY <1>0, <1>a, <1>1, <2>1, <2>2
<1>8. \A v \in Users : Numbered(v)' /\ Backed(v, balance[v], parts[v])'
  <2>1. \A v \in Users : parts'[v] \subseteq posted'[v] /\ balance'[v] = Sum(parts'[v])
    <3>1. \A v \in Users : parts[v] \subseteq posted[v] /\ balance[v] = Sum(parts[v])
      BY DEF SumInv, Backed
    <3>2. QED
      BY <1>4, <1>7, <3>1
  <2>2. QED
    BY <1>5, <2>1 DEF SumInv, Backed
<1>9. \A p \in Procs : CopyBacked(req[p])'
  <2>1. \A p \in Procs : req'[p] = IF p = q THEN After(q) ELSE req[p]
    BY AfterTyped DEF TypeInv, ReqsOK
  <2>2. \A p \in Procs : CopyBacked(req'[p])
    BY <2>1, AfterBacked DEF SumInv
  <2>3. \A p \in Procs : /\ req[p].pc \in Copied => req[p].user \in Users
                         /\ req[p].todo \subseteq Copies
    BY Here DEF Copied, Shape, Request, TypeInv, RowsOK
  <2>4. After(q).pc \notin Copied /\ After(q).todo \subseteq Copies
    BY <2>3, AfterTyped DEF Copied
  <2>5. \A p \in Procs : /\ req'[p].pc \in Copied => req'[p].user \in Users
                         /\ \A c \in req'[p].todo : c.user \in Users
    BY <2>1, <2>3, <2>4 DEF Copies
  <2>6. QED
    BY <1>6, <2>2, <2>5 DEF CopyBacked
<1>10. QED
  BY <1>8, <1>9 DEF SumInv

LEMMA WriteSum ==
  ASSUME TypeInv, SumInv, NEW q \in Procs,
         WriteWallet(q) \/ CommitReward(q) \/ Decrement(q)
  PROVE  SumInv'
<1>1. Finish(q) /\ req[q].pc \in {"write", "commit", "decrement"}
  BY DEF WriteWallet, CommitReward, Decrement
<1>2. req[q].user \in Users
  BY <1>1, PostingTyped
<1>3. CASE Decrement(q)
  <2>1. Post(q, req[q].user, balance[req[q].user] + Amount(req[q]),
             parts[req[q].user] \cup {Posting(req[q])})
    BY <1>3 DEF Decrement
  <2>2. Backed(req[q].user, balance[req[q].user], parts[req[q].user])
    BY <1>2 DEF SumInv
  <2>3. QED
    BY <1>1, <2>1, <2>2, PostSum
<1>4. CASE req[q].pc \in {"write", "commit"} /\ PostCopy(q)
  <2>1. CASE req[q].dirty
    <3>1. Post(q, req[q].user, req[q].value + Amount(req[q]), req[q].parts \cup {Posting(req[q])})
      BY <1>4, <2>1 DEF PostCopy
    <3>2. Backed(req[q].user, req[q].value, req[q].parts)
      BY <1>4 DEF SumInv, CopyBacked, Copied
    <3>3. QED
      BY <1>1, <3>1, <3>2, PostSum
  <2>2. CASE ~req[q].dirty
    <3> DEFINE ps == parts[req[q].user] \cup {p \in {Posting(req[q])} : p.amount = 0}
    <3>1. Post(q, req[q].user, balance[req[q].user], ps)
      BY <1>4, <2>2 DEF PostCopy
    <3>2. Backed(req[q].user, balance[req[q].user], parts[req[q].user])
      BY <1>2 DEF SumInv
    <3>3. CASE Amount(req[q]) = 0
      <4>1. /\ balance[req[q].user] = balance[req[q].user] + Amount(req[q])
            /\ ps = parts[req[q].user] \cup {Posting(req[q])}
        BY <1>2, <3>3 DEF Posting, TypeInv, MoneyOK
      <4> HIDE DEF ps
      <4>2. QED
        BY <1>1, <3>1, <3>2, <4>1, PostSum
    <3>4. CASE Amount(req[q]) # 0
      <4>1. ps = parts[req[q].user]
        BY <3>4 DEF Posting
      <4> HIDE DEF ps
      <4>2. QED
        BY <1>1, <3>1, <4>1, PostSum
    <3>5. QED
      BY <3>3, <3>4
  <2>3. QED
    BY <2>1, <2>2
<1>5. QED
  BY <1>3, <1>4 DEF WriteWallet, CommitReward

LEMMA SumNext ==
  ASSUME TypeInv, SumInv, [Next]_vars
  PROVE  SumInv'
<1>1. ASSUME NEW q \in Clients, StartWallet(q) PROVE SumInv'
  <2>1. PICK r : /\ UNCHANGED money /\ req' = [req EXCEPT ![q] = r] /\ r.todo = {}
                 /\ r.pc \in Plain \cup {"read"}
    BY <1>1, StartIs
  <2>2. r.pc \notin Copied /\ q \in Procs
    BY <2>1 DEF Plain, Copied, Procs
  <2>3. QED
    BY <2>1, <2>2, SumPlain
<1>2. ASSUME NEW q \in Procs, StepWallet(q) PROVE SumInv'
  <2>1. CASE RecordCashOrder(q)
    BY <2>1, FinishSum DEF RecordCashOrder
  <2>2. QED
    BY <1>2, <2>1, WalletSetupSum, FundSum, SelectSum, WriteSum DEF StepWallet
<1>3. ASSUME NEW q \in Procs, Fail(q) PROVE SumInv'
  BY <1>3, FinishSum DEF Fail
<1>4. CASE StartPayouts \/ StepPayouts
  BY <1>4, StartPayoutsSum, NextPayoutSum, TransferSum DEF StepPayouts
<1>5. CASE Crash
  <2>1. UNCHANGED money /\ \A q \in Procs : req'[q] = Idle
    BY <1>5 DEF Crash
  <2>2. \A q \in Procs : CopyBacked(req[q])'
    BY <2>1 DEF CopyBacked, Idle, Copied
  <2>3. QED
    BY <2>1, <2>2 DEF SumInv, Numbered, Made, Backed, money
<1>6. CASE \/ \E e \in bus : SaveTransaction(e) \/ LoseEvent(e)
           \/ \E u \in Users : GetVirtualAccount(u) \/ \E p \in Payments : Pay(u, p)
           \/ UNCHANGED vars
  <2>1. UNCHANGED <<money, req>>
    BY <1>6 DEF SaveTransaction, LoseEvent, GetVirtualAccount, Pay, vars
  <2>2. QED
    BY <2>1 DEF SumInv, Numbered, Made, Backed, CopyBacked, money
<1>7. QED
  BY <1>1, <1>2, <1>3, <1>4, <1>5, <1>6 DEF Next, Step, Quiet

LEMMA SumAlways == Spec => []SumInv
<1>1. TypeInv /\ SumInv /\ [Next]_vars => (TypeInv /\ SumInv)'
  BY TypeNext, SumNext
<1>2. QED
  BY <1>1, TypeInit, SumInit, PTL DEF Spec

\* The handlers save the wallet they read.  A balance is the sum of all that was posted
\* to it, unless some request wrote it while another held a copy.
THEOREM ExactBalances == Spec => []ExactUnlessRaced
<1>1. BalanceInv /\ SumInv => ExactUnlessRaced
  BY DEF BalanceInv, BalanceOK, SumInv, Backed, ExactUnlessRaced
<1>2. QED
  BY <1>1, BalanceAlways, SumAlways, PTL

\* Some of a set of postings add up to no more than its credits, no less than its debits.
LEMMA SumBounded ==
  ASSUME NEW P, IsFiniteSet(P), \A p \in P : p.amount \in Int, NEW S, S \subseteq P
  PROVE  /\ Sum(S) <= Sum({p \in P : p.amount > 0})
         /\ Sum(S) >= Sum({p \in P : p.amount < 0})
<1> DEFINE f == [p \in P |-> p.amount]
<1>1. /\ Sum(S) = SumOver(f, S)
      /\ Sum({p \in P : p.amount > 0}) = SumOver(f, {p \in P : p.amount > 0})
      /\ Sum({p \in P : p.amount < 0}) = SumOver(f, {p \in P : p.amount < 0})
  <2>1. {p \in P : p.amount > 0} \subseteq P /\ {p \in P : p.amount < 0} \subseteq P
    OBVIOUS
  <2>2. QED
    BY <2>1, SumIs
<1>2. /\ {p \in P : p.amount > 0} = Above(f, P)
      /\ {p \in P : p.amount < 0} = Negatives(f, P)
  BY DEF Above, Negatives
<1>3. \A p \in P : f[p] \in Int
  OBVIOUS
<1> HIDE DEF f
<1>4. SumOver(f, S) <= SumOver(f, Above(f, P)) /\ SumOver(f, S) >= SumOver(f, Negatives(f, P))
  BY <1>3, SumOfSome
<1>5. QED
  BY <1>1, <1>2, <1>4

\* Whatever raced or failed, a balance is the sum of some of the postings that committed,
\* each counted once: it is not above all credits nor below all debits together.
THEOREM BalancesBounded == Spec => []BalanceBounded
<1>1. TypeInv /\ SumInv => BalanceBounded
  <2>1. SUFFICES ASSUME TypeInv, SumInv, NEW u \in Users
                 PROVE  /\ balance[u] <= Sum({p \in posted[u] : p.amount > 0})
                        /\ balance[u] >= Sum({p \in posted[u] : p.amount < 0})
    BY DEF BalanceBounded
  <2>2. /\ IsFiniteSet(posted[u]) /\ \A p \in posted[u] : p.amount \in Int
        /\ parts[u] \subseteq posted[u] /\ balance[u] = Sum(parts[u])
    BY <2>1 DEF TypeInv, MoneyOK, Postings, SumInv, Backed
  <2>3. QED
    BY <2>2, SumBounded
<1>2. QED
  BY <1>1, TypeAlways, SumAlways, PTL
=============================================================================
