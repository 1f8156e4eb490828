------------------------ MODULE Transactions_proofs -------------------------
(***************************************************************************)
(* Theorems about the transactions table and the event bus that fills it:  *)
(* what is posted is told, what is told was posted, a transfer leaves a    *)
(* trace, and a payment whose row is stored is not credited again.         *)
(***************************************************************************)
EXTENDS Money_proofs

-----------------------------------------------------------------------------
(* Requests that go on without telling anyone                               *)

\* q's request ends or goes on with what it was asked for.
GoesOn(q) ==
  /\ req[q].pc # "idle"
  /\ \E r : /\ req' = [req EXCEPT ![q] = r] /\ r.pc # "commit"
            /\ r.pc = "idle" \/ (r.op = req[q].op /\ r.id = req[q].id)

LEMMA GotoGoesOn ==
  ASSUME TypeInv, NEW q \in Clients, NEW pc \in PCs \ {"commit"}, Goto(q, pc),
         req[q].pc # "idle"
  PROVE  GoesOn(q)
<1> DEFINE r == [req[q] EXCEPT !.pc = pc]
<1>1. r.pc = pc /\ r.op = req[q].op /\ r.id = req[q].id
  BY GotoTyped DEF Procs
<1>2. req' = [req EXCEPT ![q] = r]
  BY DEF Goto, Becomes
<1>3. QED
  BY <1>1, <1>2 DEF GoesOn

LEMMA FinishGoesOn ==
  ASSUME TypeInv, NEW q \in Clients, req[q].pc # "idle", Finish(q)
  PROVE  GoesOn(q) /\ req' = [req EXCEPT ![q] = Idle]
BY AfterTyped, IdleTyped DEF GoesOn, Procs

LEMMA ClientGoesOn ==
  ASSUME TypeInv, NEW q \in Clients,
         \/ FindWallet(q) \/ CreateCustomer(q) \/ SaveAccount(q) \/ InsertWallet(q)
         \/ FindFunded(q) \/ CheckExisting(q) \/ ReadWallet(q) \/ SelectWallet(q)
  PROVE  GoesOn(q) /\ UNCHANGED <<money, cashed, bus, ledger, transfers, faults>>
<1>1. /\ UNCHANGED <<money, cashed, bus, ledger, transfers, faults>>
      /\ req[q].pc # "idle" /\ req[q] \in Request
  BY Here DEF FindWallet, CreateCustomer, SaveAccount, InsertWallet, FindFunded,
              CheckExisting, ReadWallet, SelectWallet, Procs, rows
<1>2. {"insert", "customer", "read", "decrement", "select"} \subseteq PCs \ {"commit"}
  BY DEF PCs
<1>3. CASE Finish(q)
  BY <1>1, <1>3, FinishGoesOn
<1>4. CASE \E pc \in {"insert", "customer", "read", "decrement", "select"} : Goto(q, pc)
  BY <1>1, <1>2, <1>4, GotoGoesOn
<1>5. CASE FindWallet(q) \/ SaveAccount(q) \/ InsertWallet(q) \/ CheckExisting(q)
  BY <1>3, <1>4, <1>5 DEF FindWallet, SaveAccount, InsertWallet, CheckExisting, HasFound,
                          Initialise
<1>6. CASE CreateCustomer(q)
  <2>1. PICK k : Becomes(q, [req[q] EXCEPT !.pc = "account", !.code = k])
    BY <1>6 DEF CreateCustomer
  <2> DEFINE r == [req[q] EXCEPT !.pc = "account", !.code = k]
  <2>2. r.pc = "account" /\ r.op = req[q].op /\ r.id = req[q].id
    BY <1>1 DEF Request
  <2>3. req' = [req EXCEPT ![q] = r]
    BY <2>1 DEF Becomes
  <2>4. QED
    BY <1>1, <2>2, <2>3 DEF GoesOn
<1>7. ASSUME NEW v, Becomes(q, [req[q] EXCEPT !.pc = "known", !.user = v,
                                   !.value = balance[v], !.parts = parts[v]])
      PROVE  GoesOn(q)
  <2> DEFINE r == [req[q] EXCEPT !.pc = "known", !.user = v,
                                 !.value = balance[v], !.parts = parts[v]]
  <2>1. r.pc = "known" /\ r.op = req[q].op /\ r.id = req[q].id
    BY <1>1 DEF Request
  <2>2. req' = [req EXCEPT ![q] = r]
    BY <1>7 DEF Becomes
  <2>3. QED
    BY <1>1, <2>1, <2>2 DEF GoesOn
<1>8. CASE FindFunded(q)
  BY <1>1, <1>3, <1>7, <1>8 DEF FindFunded
<1>9. CASE ReadWallet(q)
  <2> DEFINE r == [req[q] EXCEPT !.pc = "select", !.value = balance[req[q].user],
                                 !.parts = parts[req[q].user]]
  <2>1. r.pc = "select" /\ r.op = req[q].op /\ r.id = req[q].id
    BY <1>1 DEF Request
  <2>2. req' = [req EXCEPT ![q] = r]
    BY <1>9 DEF ReadWallet, Becomes
  <2>3. QED
    BY <1>1, <2>1, <2>2 DEF GoesOn
<1>10. CASE SelectWallet(q)
  <2> DEFINE d == (req[q].value + Amount(req[q]) # balance[req[q].user])
             r == [req[q] EXCEPT !.pc = "write", !.dirty = d]
  <2>1. r.pc = "write" /\ r.op = req[q].op /\ r.id = req[q].id
    BY <1>1 DEF Request
  <2>2. req' = [req EXCEPT ![q] = r]
    BY <1>10 DEF SelectWallet, Becomes
  <2>3. QED
    BY <1>1, <2>1, <2>2 DEF GoesOn
<1>11. QED
  BY <1>5, <1>6, <1>8, <1>9, <1>10

\* A new request; a reward is the first of its order.
Begins(q) ==
  \E r : /\ req' = [req EXCEPT ![q] = r] /\ r.pc \notin {"select", "write", "commit"}
         /\ r.op = "reward" => Fresh("reward", r.id)

LEMMA ClientBegins ==
  ASSUME TypeInv, NEW q \in Clients, StartWallet(q)
  PROVE  Begins(q) /\ UNCHANGED <<money, cashed, bus, ledger, transfers, faults>>
<1>1. ASSUME NEW u \in Users, Register(q, u) PROVE Begins(q)
  <2>1. PICK pc \in {"insert", "customer"} :
          req' = [req EXCEPT ![q] = [Idle EXCEPT !.pc = pc, !.op = "register", !.user = u]]
    BY <1>1, RegisterIs
  <2>2. /\ [Idle EXCEPT !.pc = pc, !.op = "register", !.user = u].pc = pc
        /\ [Idle EXCEPT !.pc = pc, !.op = "register", !.user = u].op = "register"
    BY DEF Idle
  <2>3. QED
    BY <2>1, <2>2 DEF Begins
<1>2. ASSUME NEW u, NEW op \in {"get", "order", "charge"}, NEW id, NEW role,
             Lookup(q, op, u, id, role)
      PROVE  Begins(q)
  <2> DEFINE r == [Idle EXCEPT !.pc = "find", !.op = op, !.user = u, !.id = id, !.role = role]
  <2>1. r.pc = "find" /\ r.op = op
    BY DEF Idle
  <2>2. req' = [req EXCEPT ![q] = r]
    BY <1>2 DEF Lookup, Call, Becomes
  <2>3. QED
    BY <2>1, <2>2 DEF Begins
<1>3. ASSUME NEW u, NEW o, PlaceCashOrder(q, u, o) PROVE Begins(q)
  <2> DEFINE r == [Idle EXCEPT !.pc = "cash", !.op = "cash", !.user = u, !.id = o]
  <2>1. r.pc = "cash" /\ r.op = "cash"
    BY DEF Idle
  <2>2. req' = [req EXCEPT ![q] = r]
    BY <1>3 DEF PlaceCashOrder, Call, Becomes
  <2>3. QED
    BY <2>1, <2>2 DEF Begins
<1>4. ASSUME NEW u, NEW o, RewardRider(q, u, o) PROVE Begins(q)
  <2> DEFINE r == [Idle EXCEPT !.pc = "read", !.op = "reward", !.user = u, !.id = o]
  <2>1. r.pc = "read" /\ r.op = "reward" /\ r.id = o
    BY DEF Idle
  <2>2. req' = [req EXCEPT ![q] = r] /\ Fresh("reward", o)
    BY <1>4 DEF RewardRider, Call, Becomes
  <2> HIDE DEF r
  <2>3. QED
    BY <2>1, <2>2 DEF Begins
<1>5. ASSUME NEW p, NEW k, FundWallet(q, p, k) PROVE Begins(q)
  <2> DEFINE r == [Idle EXCEPT !.pc = "verify", !.op = "fund", !.id = p, !.code = k]
  <2>1. r.pc = "verify" /\ r.op = "fund"
    BY DEF Idle
  <2>2. req' = [req EXCEPT ![q] = r]
    BY <1>5 DEF FundWallet, Call, Becomes
  <2>3. QED
    BY <2>1, <2>2 DEF Begins
<1>6. UNCHANGED <<money, cashed, bus, ledger, transfers, faults>>
  <2>1. \A u, op, id, role : Lookup(q, op, u, id, role) =>
          UNCHANGED <<money, cashed, bus, ledger, transfers, faults>>
    BY DEF Lookup, rows
  <2>2. \A u, o : \/ Register(q, u) \/ PlaceCashOrder(q, u, o) \/ RewardRider(q, u, o)
                  \/ FundWallet(q, o, u)
                  => UNCHANGED <<money, cashed, bus, ledger, transfers, faults>>
    BY DEF Register, PlaceCashOrder, RewardRider, FundWallet, rows
  <2>3. QED
    BY <2>1, <2>2 DEF StartWallet, GetWallet, PlaceOrder, ChargeRider
<1>7. QED
  BY <1>1, <1>2, <1>3, <1>4, <1>5, <1>6 DEF StartWallet, GetWallet, PlaceOrder, ChargeRider

-----------------------------------------------------------------------------
(* One reward of an order                                                   *)

Rewards(q, o) == req[q].pc # "idle" /\ req[q].op = "reward" /\ req[q].id = o

RewardInv ==
  \A q \in Clients, o \in Orders :
    Rewards(q, o) =>
      /\ \A u \in Users : Made(u, "ORDER_REWARD", o) = {}
      /\ \A p \in Clients \ {q} : ~Rewards(p, o)

LEMMA RewardInit == Init => RewardInv
BY IdleTyped DEF Init, RewardInv, Rewards, Procs

LEMMA RewardFrame ==
  ASSUME RewardInv, UNCHANGED posted, \A q \in Clients : req'[q] = req[q] \/ req'[q].pc = "idle"
  PROVE  RewardInv'
BY DEF RewardInv, Rewards, Made

LEMMA RewardMove ==
  ASSUME TypeInv, RewardInv, UNCHANGED posted, NEW q \in Clients, GoesOn(q) \/ Begins(q)
  PROVE  RewardInv'
<1>1. PICK r : /\ req' = [req EXCEPT ![q] = r]
               /\ \/ r.pc = "idle"
                  \/ req[q].pc # "idle" /\ r.op = req[q].op /\ r.id = req[q].id
                  \/ r.op = "reward" => Fresh("reward", r.id)
  BY DEF GoesOn, Begins
<1>2. \A p \in Clients : req'[p] = IF p = q THEN r ELSE req[p]
  BY <1>1 DEF TypeInv, ReqsOK, Procs
<1>3. \A o \in Orders : Rewards(q, o)' => Rewards(q, o) \/ Fresh("reward", o)
  BY <1>1, <1>2 DEF Rewards
<1>4. \A p \in Clients \ {q}, o \in Orders : Rewards(p, o)' = Rewards(p, o)
  BY <1>2 DEF Rewards
<1>5. \A o \in Orders : Fresh("reward", o) =>
        /\ \A u \in Users : Made(u, "ORDER_REWARD", o) = {}
        /\ \A p \in Clients : ~Rewards(p, o)
  BY DEF Fresh, Type, Rewards
<1>6. \A u \in Users, o \in Orders : Made(u, "ORDER_REWARD", o)' = Made(u, "ORDER_REWARD", o)
  BY DEF Made
<1>7. ASSUME NEW p \in Clients, NEW o \in Orders, Rewards(p, o)'
      PROVE  /\ \A u \in Users : Made(u, "ORDER_REWARD", o)' = {}
             /\ \A d \in Clients \ {p} : ~Rewards(d, o)'
  BY <1>3, <1>4, <1>5, <1>6, <1>7 DEF RewardInv
<1>8. QED
  BY <1>7 DEF RewardInv

LEMMA RewardPost ==
  ASSUME TypeInv, RewardInv, NEW q \in Procs, req[q].pc \in {"write", "commit", "decrement"},
         Finish(q), NEW value, NEW ps, Post(q, req[q].user, value, ps)
  PROVE  RewardInv'
<1>1. PICK x : x = Posting(req[q])
  OBVIOUS
<1>2. PICK u \in Users : u = req[q].user
  BY PostingTyped
<1>3. \A v \in Users : posted'[v] = IF v = u THEN posted[v] \cup {x} ELSE posted[v]
  BY <1>1, <1>2 DEF Post, TypeInv, MoneyOK
<1>4. /\ \A p \in Clients : req'[p] = IF p = q THEN After(q) ELSE req[p]
      /\ q \in Clients => After(q).pc = "idle"
  BY AfterTyped, IdleTyped DEF TypeInv, ReqsOK, Procs
<1>5. ASSUME NEW o \in Orders, x.type = "ORDER_REWARD", x.id = o
      PROVE  q \in Clients /\ Rewards(q, o)
  <2>1. req[q].id = o /\ Shape(q, req[q])
    BY <1>1, <1>5, Here DEF Posting
  <2>2. req[q].op # "payout"
    BY <2>1, WalletAssumption DEF Shape
  <2>3. q \in Clients /\ req[q].op = "reward"
    BY <1>1, <1>5, <2>1, <2>2, Here, JobIn DEF Posting, Type, Shape, Procs
  <2>4. QED
    BY <2>1, <2>3 DEF Rewards
<1>6. ASSUME NEW p \in Clients, NEW o \in Orders, Rewards(p, o)'
      PROVE  /\ \A v \in Users : Made(v, "ORDER_REWARD", o)' = {}
             /\ \A d \in Clients \ {p} : ~Rewards(d, o)'
  <2>1. p # q /\ Rewards(p, o)
    BY <1>4, <1>6 DEF Rewards
  <2>2. ~(x.type = "ORDER_REWARD" /\ x.id = o)
    BY <1>5, <2>1 DEF RewardInv
  <2>3. \A v \in Users : Made(v, "ORDER_REWARD", o)' = Made(v, "ORDER_REWARD", o)
    BY <1>3, <2>2 DEF Made
  <2>4. \A d \in Clients \ {p} : ~Rewards(d, o)'
    BY <1>4, <2>1 DEF RewardInv, Rewards
  <2>5. QED
    BY <2>1, <2>3, <2>4 DEF RewardInv
<1>7. QED
  BY <1>6 DEF RewardInv

\* The row of an order's reward
RewardRow(o) == [type |-> "ORDER_REWARD", id |-> o, nth |-> 0, amount |-> Fee[o],
                 status |-> "complete", cash |-> FALSE]

LEMMA RewardRowIs ==
  ASSUME TypeInv, RewardInv, NEW q \in Clients, req[q].pc \in {"write", "commit"},
         req[q].op = "reward"
  PROVE  /\ req[q].user \in Users /\ req[q].id \in Orders
         /\ Row(Posting(req[q])) = RewardRow(req[q].id)
<1>1. req[q].user \in Users /\ req[q].id \in Orders
  BY Here, PostingTyped DEF Shape, Procs
<1>2. Made(req[q].user, "ORDER_REWARD", req[q].id) = {}
  BY <1>1 DEF RewardInv, Rewards
<1>3. Posting(req[q]) = [type |-> "ORDER_REWARD", id |-> req[q].id, nth |-> 0,
                         amount |-> Fee[req[q].id]]
  BY <1>2, FS_EmptySet DEF Posting, Type, Amount
<1>4. ~IsDebit(Posting(req[q]))
  BY <1>1, <1>3, WalletAssumption DEF IsDebit
<1>5. QED
  BY <1>1, <1>3, <1>4 DEF Row, RewardRow

-----------------------------------------------------------------------------
(* What is told                                                             *)

TellInv ==
  faults = <<>> =>
    /\ \A u \in Users : \A p \in posted[u] : Row(p) \in Told(u)
    /\ \A u \in Users : \A o \in cashed[u] : CashRow(o) \in Told(u)
    /\ \A q \in Clients : req[q].pc = "commit" => RewardRow(req[q].id) \in Told(req[q].user)

\* x is the row of a reward that q is about to commit.
Announces(q, u, x) ==
  req[q].pc = "commit" /\ req[q].user = u /\ req[q].id \in Orders /\ x = RewardRow(req[q].id)

BackInv ==
  \A u \in Users : \A x \in Told(u) :
    \/ x.status = "failed"
    \/ \E p \in posted[u] : Row(p) = x
    \/ \E o \in cashed[u] : CashRow(o) = x
    \/ /\ x.type = "ORDER_REWARD" /\ x.id \in Orders
       /\ x.id \in Undone \/ \E q \in Clients : Announces(q, u, x)

TalkInv == RewardInv /\ TellInv /\ BackInv

LEMMA TalkInit == Init => TalkInv
<1> SUFFICES ASSUME Init PROVE TalkInv
  OBVIOUS
<1>1. \A u \in Users : Told(u) = {} /\ posted[u] = {} /\ cashed[u] = {}
  BY DEF Init, Told
<1>2. \A q \in Clients : req[q].pc = "idle"
  BY IdleTyped DEF Init, Procs
<1>3. QED
  BY <1>1, <1>2, RewardInit DEF TalkInv, TellInv, BackInv

LEMMA ToldPublished ==
  ASSUME TypeInv, NEW u \in Users, NEW row, Publish(u, row), UNCHANGED ledger
  PROVE  \A v \in Users : Told(v)' = IF v = u THEN Told(v) \cup {row} ELSE Told(v)
<1>1. PICK e : e = [user |-> u, row |-> row]
  OBVIOUS
<1>2. e.user = u /\ e.row = row /\ bus' = bus \cup {e}
  BY <1>1 DEF Publish
<1>3. \A v, x : x \in Told(v) <=> x \in ledger[v] \/ \E f \in bus : f.user = v /\ f.row = x
  BY DEF Told
<1>4. \A v, x : x \in Told(v)' <=> x \in ledger[v] \/ \E f \in bus' : f.user = v /\ f.row = x
  BY DEF Told
<1>5. ASSUME NEW v \in Users, NEW x
      PROVE  x \in Told(v)' <=> x \in Told(v) \/ (v = u /\ x = row)
  BY <1>2, <1>3, <1>4
<1>6. ASSUME NEW v \in Users
      PROVE  Told(v)' = IF v = u THEN Told(v) \cup {row} ELSE Told(v)
  <2>1. CASE v = u
    <3>1. \A x : x \in Told(v)' <=> x \in Told(v) \cup {row}
      BY <1>5, <2>1
    <3>2. Told(v)' = Told(v) \cup {row}
      BY <3>1
    <3>3. QED
      BY <2>1, <3>2
  <2>2. CASE v # u
    <3>1. \A x : x \in Told(v)' <=> x \in Told(v)
      BY <1>5, <2>2
    <3>2. Told(v)' = Told(v)
      BY <3>1
    <3>3. QED
      BY <2>2, <3>2
  <2>3. QED
    BY <2>1, <2>2
<1>7. QED
  BY <1>6

LEMMA ToldSaved ==
  ASSUME TypeInv, NEW e \in bus, SaveTransaction(e)
  PROVE  \A v \in Users : Told(v)' = Told(v)
<1>1. e.user \in Users
  BY DEF TypeInv, BusOK, Events
<1>2. \A v \in Users : ledger'[v] = IF v = e.user THEN ledger[v] \cup {e.row} ELSE ledger[v]
  BY <1>1 DEF SaveTransaction, TypeInv, BusOK
<1>3. bus' = bus \ {e}
  BY DEF SaveTransaction
<1>4. ASSUME NEW v \in Users PROVE Told(v)' = Told(v)
  <2>1. \A x : x \in Told(v) <=> x \in ledger[v] \/ \E f \in bus : f.user = v /\ f.row = x
    BY DEF Told
  <2>2. \A x : x \in Told(v)' <=> x \in ledger'[v] \/ \E f \in bus' : f.user = v /\ f.row = x
    BY DEF Told
  <2>3. ASSUME NEW x PROVE x \in Told(v)' <=> x \in Told(v)
    <3>1. CASE v = e.user
      <4>1. x \in ledger'[v] <=> x \in ledger[v] \/ x = e.row
        BY <1>2, <3>1
      <4>2. (\E f \in bus : f.user = v /\ f.row = x)
              <=> (\E f \in bus' : f.user = v /\ f.row = x) \/ x = e.row
        BY <1>3, <3>1
      <4>3. QED
        BY <2>1, <2>2, <4>1, <4>2
    <3>2. CASE v # e.user
      BY <1>2, <1>3, <2>1, <2>2, <3>2
    <3>3. QED
      BY <3>1, <3>2
  <2>4. QED
    BY <2>3
<1>5. QED
  BY <1>4

\* Failures are remembered.
Remembered == (faults' = <<>> => faults = <<>>) /\ Undone \subseteq Undone'

LEMMA NoFault == ASSUME UNCHANGED faults PROVE Remembered
BY DEF Remembered, Undone

LEMMA OneFault ==
  ASSUME TypeInv, NEW s \in SUBSET Orders, faults' = Append(faults, s)
  PROVE  Remembered /\ faults' # <<>> /\ s \subseteq Undone'
<1>1. /\ faults \in Seq(SUBSET Orders) /\ Len(faults) \in Nat
      /\ Len(faults') = Len(faults) + 1 /\ DOMAIN faults' = 1..(Len(faults) + 1)
      /\ DOMAIN faults = 1..Len(faults)
      /\ \A i \in 1..Len(faults) : faults'[i] = faults[i]
      /\ faults'[Len(faults) + 1] = s
  BY DEF TypeInv, CountsOK
<1>2. faults' # <<>>
  BY <1>1
<1>3. \A x \in Undone : x \in Undone'
  BY <1>1 DEF Undone
<1>4. \A x \in s : x \in Undone'
  BY <1>1 DEF Undone
<1>5. QED
  BY <1>2, <1>3, <1>4 DEF Remembered

LEMMA TellFrame ==
  ASSUME TellInv, UNCHANGED posted, Remembered, TypeInv,
         faults' = <<>> => \A u \in Users : Told(u) \subseteq Told(u)',
         \A u \in Users : \A o \in cashed'[u] : o \in cashed[u] \/ CashRow(o) \in Told(u)',
         \A q \in Clients : req'[q] = req[q] \/ req'[q].pc # "commit"
  PROVE  TellInv'
<1> SUFFICES ASSUME faults' = <<>> PROVE TellInv'
  BY DEF TellInv
<1>1. faults = <<>> /\ \A u \in Users : Told(u) \subseteq Told(u)'
  BY DEF Remembered
<1>2. /\ \A u \in Users : \A p \in posted'[u] : Row(p) \in Told(u)'
      /\ \A u \in Users : \A o \in cashed'[u] : CashRow(o) \in Told(u)'
  BY <1>1 DEF TellInv
<1>3. ASSUME NEW q \in Clients, req'[q].pc = "commit"
      PROVE  (RewardRow(req[q].id) \in Told(req[q].user))'
  <2>1. /\ req'[q] = req[q] /\ req[q].user \in Users
        /\ RewardRow(req[q].id) \in Told(req[q].user)
    BY <1>1, <1>3, PostingTyped DEF TellInv, Procs
  <2>2. PICK u \in Users : u = req[q].user
    BY <2>1
  <2>3. RewardRow(req[q].id) \in Told(u)'
    BY <1>1, <2>1, <2>2
  <2>4. QED
    BY <2>1, <2>2, <2>3 DEF Told, RewardRow
<1>4. QED
  BY <1>2, <1>3 DEF TellInv

\* Requests that are about to commit do, or are known to be undone.
NoneForgotten ==
  \A q \in Clients : req[q].pc = "commit" => req'[q] = req[q] \/ req[q].id \in Undone'

LEMMA BackFrame ==
  ASSUME TypeInv, BackInv, UNCHANGED posted, Remembered, NoneForgotten,
         \A u \in Users : cashed[u] \subseteq cashed'[u],
         \A u \in Users : \A x \in Told(u)' :
           x \in Told(u) \/ x.status = "failed" \/ \E o \in cashed'[u] : CashRow(o) = x
  PROVE  BackInv'
<1> SUFFICES ASSUME NEW u \in Users, NEW x \in Told(u)', x.status # "failed",
                    ~\E o \in cashed'[u] : CashRow(o) = x
             PROVE  \/ \E p \in posted'[u] : Row(p) = x
                    \/ /\ x.type = "ORDER_REWARD" /\ x.id \in Orders
                       /\ x.id \in Undone' \/ \E q \in Clients : Announces(q, u, x)'
  BY DEF BackInv
<1>1. x \in Told(u) /\ ~\E o \in cashed[u] : CashRow(o) = x
  OBVIOUS
<1>2. \/ \E p \in posted[u] : Row(p) = x
      \/ /\ x.type = "ORDER_REWARD" /\ x.id \in Orders
         /\ x.id \in Undone \/ \E q \in Clients : Announces(q, u, x)
  BY <1>1 DEF BackInv
<1>3. ASSUME NEW q \in Clients, Announces(q, u, x)
      PROVE  x.id \in Undone' \/ Announces(q, u, x)'
  <2>1. req[q].pc = "commit" /\ x.id = req[q].id
    BY <1>3 DEF Announces, RewardRow
  <2>2. CASE req'[q] = req[q]
    BY <1>3, <2>2 DEF Announces
  <2>3. QED
    BY <2>1, <2>2 DEF NoneForgotten
<1>4. x.id \in Undone => x.id \in Undone'
  BY DEF Remembered
<1>5. QED
  BY <1>2, <1>3, <1>4

\* Nothing is told but what failed or was paid in cash, and no reward is begun or ended.
LEMMA TalkFrame ==
  ASSUME TypeInv, TalkInv, RewardInv', UNCHANGED posted, Remembered, NoneForgotten,
         faults' = <<>> => \A u \in Users : Told(u) \subseteq Told(u)',
         \A u \in Users : \A x \in Told(u)' :
           x \in Told(u) \/ x.status = "failed" \/ \E o \in cashed'[u] : CashRow(o) = x,
         \A u \in Users : cashed[u] \subseteq cashed'[u],
         \A u \in Users : \A o \in cashed'[u] : o \in cashed[u] \/ CashRow(o) \in Told(u)',
         \A q \in Clients : req'[q] = req[q] \/ req'[q].pc # "commit"
  PROVE  TalkInv'
BY TellFrame, BackFrame DEF TalkInv

\* A request that says nothing
LEMMA TalkMove ==
  ASSUME TypeInv, TalkInv, NEW q \in Clients, GoesOn(q) \/ Begins(q), req[q].pc # "commit",
         UNCHANGED <<posted, cashed, bus, ledger, faults>>
  PROVE  TalkInv'
<1>1. RewardInv'
  BY RewardMove DEF TalkInv
<1>2. \A u \in Users : Told(u)' = Told(u)
  BY DEF Told
<1>3. PICK r : req' = [req EXCEPT ![q] = r] /\ r.pc # "commit"
  BY DEF GoesOn, Begins
<1>4. \A p \in Clients : req'[p] = IF p = q THEN r ELSE req[p]
  BY <1>3 DEF TypeInv, ReqsOK, Procs
<1>5. NoneForgotten
  BY <1>4 DEF NoneForgotten
<1>6. QED
  BY <1>1, <1>2, <1>3, <1>4, <1>5, NoFault, TalkFrame

\* The payout job says nothing, or that it failed.
LEMMA TalkJob ==
  ASSUME TypeInv, TalkInv, NEW r, req' = [req EXCEPT ![Job] = r],
         UNCHANGED <<posted, cashed, ledger, faults>>,
         \/ UNCHANGED bus
         \/ \E u \in Users : \E row : Publish(u, row) /\ row.status = "failed"
  PROVE  TalkInv'
<1>1. \A q \in Clients : req'[q] = req[q]
  BY WalletAssumption DEF TypeInv, ReqsOK, Procs
<1>2. RewardInv'
  BY <1>1, RewardFrame DEF TalkInv
<1>3. \A u \in Users : /\ Told(u) \subseteq Told(u)'
                       /\ \A x \in Told(u)' : x \in Told(u) \/ x.status = "failed"
  <2>1. CASE UNCHANGED bus
    BY <2>1 DEF Told
  <2>2. ASSUME NEW u \in Users, NEW row, Publish(u, row), row.status = "failed"
        PROVE  \A v \in Users : /\ Told(v) \subseteq Told(v)'
                 /\ \A x \in Told(v)' : x \in Told(v) \/ x.status = "failed"
    BY <2>2, ToldPublished
  <2>3. QED
    BY <2>1, <2>2
<1>4. NoneForgotten
  BY <1>1 DEF NoneForgotten
<1>5. QED
  BY <1>1, <1>2, <1>3, <1>4, NoFault, TalkFrame

\* rewardRider announces its reward ...
LEMMA TalkWriteReward ==
  ASSUME TypeInv, TalkInv, NEW q \in Procs, WriteReward(q)
  PROVE  TalkInv'
<1>1. /\ req[q].pc = "write" /\ req[q].op = "reward" /\ q \in Clients
      /\ Publish(req[q].user, Row(Posting(req[q])))
      /\ UNCHANGED <<posted, cashed, ledger, faults>>
  BY Here DEF WriteReward, Shape, Procs, money, rows
<1>2. PICK u \in Users, o \in Orders :
        u = req[q].user /\ o = req[q].id /\ Row(Posting(req[q])) = RewardRow(o)
  BY <1>1, RewardRowIs DEF TalkInv
<1>3. \A v \in Users : Told(v)' = IF v = u THEN Told(v) \cup {RewardRow(o)} ELSE Told(v)
  BY <1>1, <1>2, ToldPublished
<1>4. PICK r : /\ req' = [req EXCEPT ![q] = r] /\ r.pc = "commit" /\ r.user = u /\ r.id = o
               /\ r.op = "reward"
  <2> DEFINE r == [req[q] EXCEPT !.pc = "commit"]
  <2>1. "commit" \in PCs
    BY DEF PCs
  <2>2. r.pc = "commit" /\ r.user = u /\ r.id = o /\ r.op = "reward"
    BY <1>1, <1>2, <2>1, GotoTyped
  <2>3. req' = [req EXCEPT ![q] = r]
    BY DEF WriteReward, Goto, Becomes
  <2>4. QED
    BY <2>2, <2>3
<1>5. \A p \in Clients : req'[p] = IF p = q THEN r ELSE req[p]
  BY <1>4 DEF TypeInv, ReqsOK, Procs
<1>6. RewardInv'
  <2>1. \A p \in Clients, i \in Orders : Rewards(p, i)' = Rewards(p, i)
    BY <1>1, <1>2, <1>4, <1>5 DEF Rewards
  <2>2. \A v \in Users, i \in Orders : Made(v, "ORDER_REWARD", i)' = Made(v, "ORDER_REWARD", i)
    BY <1>1 DEF Made
  <2>3. ASSUME NEW p \in Clients, NEW i \in Orders, Rewards(p, i)'
        PROVE  /\ \A v \in Users : Made(v, "ORDER_REWARD", i)' = {}
               /\ \A d \in Clients \ {p} : ~Rewards(d, i)'
    BY <2>1, <2>2, <2>3 DEF TalkInv, RewardInv
  <2>4. QED
    BY <2>3 DEF RewardInv
<1>7. TellInv'
  <2> SUFFICES ASSUME faults = <<>> PROVE TellInv'
    BY <1>1 DEF TellInv
  <2>1. /\ \A v \in Users : \A p \in posted'[v] : Row(p) \in Told(v)'
        /\ \A v \in Users : \A i \in cashed'[v] : CashRow(i) \in Told(v)'
    BY <1>1, <1>3 DEF TalkInv, TellInv
  <2>2. ASSUME NEW p \in Clients, req'[p].pc = "commit"
        PROVE  (RewardRow(req[p].id) \in Told(req[p].user))'
    <3>1. PICK v \in Users, i \in {req'[p].id} : v = req'[p].user /\ i = req'[p].id /\ RewardRow(i) \in Told(v)'
      <4>1. CASE p = q
        BY <1>3, <1>4, <1>5, <4>1
      <4>2. CASE p # q
        <5>1. /\ req'[p] = req[p] /\ req[p].user \in Users
              /\ RewardRow(req[p].id) \in Told(req[p].user)
          BY <1>5, <2>2, <4>2, PostingTyped DEF TalkInv, TellInv, Procs
        <5>2. QED
          BY <1>3, <5>1
      <4>3. QED
        BY <4>1, <4>2
    <3>2. QED
      BY <3>1 DEF Told, RewardRow
  <2>3. QED
    BY <2>1, <2>2 DEF TellInv
<1>8. BackInv'
  <2> SUFFICES ASSUME NEW v \in Users, NEW x \in Told(v)', x.status # "failed"
               PROVE  \/ \E p \in posted'[v] : Row(p) = x
                      \/ \E i \in cashed'[v] : CashRow(i) = x
                      \/ /\ x.type = "ORDER_REWARD" /\ x.id \in Orders
                         /\ x.id \in Undone' \/ \E p \in Clients : Announces(p, v, x)'
    BY DEF BackInv
  <2>1. CASE x \in Told(v)
    <3>1. \A p \in Clients : Announces(p, v, x) => Announces(p, v, x)'
      BY <1>1, <1>5 DEF Announces
    <3>2. Undone' = Undone
      BY <1>1 DEF Undone
    <3>3. QED
      BY <1>1, <2>1, <3>1, <3>2 DEF TalkInv, BackInv
  <2>2. CASE x \notin Told(v)
    <3>1. v = u /\ x = RewardRow(o)
      BY <1>3, <2>2
    <3>2. Announces(q, v, x)'
      BY <1>4, <1>5, <3>1, <1>1 DEF Announces, RewardRow
    <3>3. QED
      BY <1>1, <1>2, <3>1, <3>2 DEF RewardRow
  <2>3. QED
    BY <2>1, <2>2
<1>9. QED
  BY <1>6, <1>7, <1>8 DEF TalkInv

\* ... and whoever posts tells, or has told, what was posted.
LEMMA TalkPost ==
  ASSUME TypeInv, TalkInv, NEW q \in Procs, req[q].pc \in {"write", "commit", "decrement"},
         Finish(q), NEW value, NEW ps, Post(q, req[q].user, value, ps),
         UNCHANGED <<cashed, ledger, faults>>,
         \/ req[q].pc # "commit" /\ Publish(req[q].user, Row(Posting(req[q])))
         \/ req[q].pc = "commit" /\ UNCHANGED bus
  PROVE  TalkInv'
<1>1. PICK u \in Users, x \in {Posting(req[q])} : u = req[q].user /\ x = Posting(req[q])
  BY PostingTyped
<1>2. \A v \in Users : posted'[v] = IF v = u THEN posted[v] \cup {x} ELSE posted[v]
  BY <1>1 DEF Post, TypeInv, MoneyOK
<1>3. /\ \A p \in Clients : req'[p] = IF p = q THEN After(q) ELSE req[p]
      /\ After(q).pc # "commit"
  BY AfterTyped DEF TypeInv, ReqsOK, Procs
<1>4. \A v \in Users : /\ Told(v) \subseteq Told(v)'
                       /\ \A y \in Told(v)' : y \in Told(v) \/ (v = u /\ y = Row(x))
  <2>1. CASE req[q].pc # "commit" /\ Publish(req[q].user, Row(Posting(req[q])))
    BY <1>1, <2>1, ToldPublished
  <2>2. CASE UNCHANGED bus
    BY <2>2 DEF Told
  <2>3. QED
    BY <2>1, <2>2
<1>5. req[q].pc = "commit" =>
        q \in Clients /\ Row(x) = RewardRow(req[q].id) /\ req[q].id \in Orders
  BY <1>1, Here, RewardRowIs DEF TalkInv, Shape, Procs
<1>6. faults = <<>> => Row(x) \in Told(u)'
  <2>1. CASE req[q].pc = "commit"
    BY <1>1, <1>4, <1>5, <2>1 DEF TalkInv, TellInv
  <2>2. CASE req[q].pc # "commit"
    BY <1>1, <2>2, ToldPublished
  <2>3. QED
    BY <2>1, <2>2
<1>7. TellInv'
  <2> SUFFICES ASSUME faults = <<>> PROVE TellInv'
    BY DEF TellInv
  <2>1. /\ \A v \in Users : \A p \in posted'[v] : Row(p) \in Told(v)'
        /\ \A v \in Users : \A o \in cashed'[v] : CashRow(o) \in Told(v)'
    BY <1>2, <1>4, <1>6 DEF TalkInv, TellInv
  <2>2. ASSUME NEW p \in Clients, req'[p].pc = "commit"
        PROVE  (RewardRow(req[p].id) \in Told(req[p].user))'
    <3>1. /\ req'[p] = req[p] /\ req[p].user \in Users
          /\ RewardRow(req[p].id) \in Told(req[p].user)
      BY <1>3, <2>2, PostingTyped DEF TalkInv, TellInv, Procs
    <3>2. PICK v \in Users : v = req[p].user /\ RewardRow(req[p].id) \in Told(v)'
      BY <1>4, <3>1
    <3>3. QED
      BY <3>1, <3>2 DEF Told, RewardRow
  <2>3. QED
    BY <2>1, <2>2 DEF TellInv
<1>8. BackInv'
  <2> SUFFICES ASSUME NEW v \in Users, NEW y \in Told(v)', y.status # "failed"
               PROVE  \/ \E p \in posted'[v] : Row(p) = y
                      \/ \E o \in cashed'[v] : CashRow(o) = y
                      \/ /\ y.type = "ORDER_REWARD" /\ y.id \in Orders
                         /\ y.id \in Undone' \/ \E p \in Clients : Announces(p, v, y)'
    BY DEF BackInv
  <2>1. CASE v = u /\ y = Row(x)
    BY <1>2, <2>1
  <2>2. CASE y \in Told(v)
    <3>1. \A p \in Clients \ {q} : Announces(p, v, y) => Announces(p, v, y)'
      BY <1>3 DEF Announces
    <3>2. q \in Clients /\ Announces(q, v, y) => v = u /\ y = Row(x)
      BY <1>1, <1>5 DEF Announces
    <3>3. posted[v] \subseteq posted'[v]
      BY <1>2
    <3>4. Undone' = Undone
      BY DEF Undone
    <3>5. QED
      BY <2>1, <2>2, <3>1, <3>2, <3>3, <3>4 DEF TalkInv, BackInv
  <2>3. QED
    BY <1>4, <2>1, <2>2
<1>9. QED
  BY <1>7, <1>8, RewardPost DEF TalkInv

\* A posting writes the wallet as it was read, or leaves it.
LEMMA PostCopyPosts ==
  ASSUME NEW q, PostCopy(q)
  PROVE  \E value, ps : Post(q, req[q].user, value, ps)
BY DEF PostCopy

LEMMA TalkWrite ==
  ASSUME TypeInv, TalkInv, NEW q \in Procs,
         WriteWallet(q) \/ CommitReward(q) \/ Decrement(q)
  PROVE  TalkInv'
<1>1. /\ Finish(q) /\ UNCHANGED <<cashed, ledger, faults>>
      /\ req[q].pc \in {"write", "commit", "decrement"}
      /\ \/ req[q].pc # "commit" /\ Publish(req[q].user, Row(Posting(req[q])))
         \/ req[q].pc = "commit" /\ UNCHANGED bus
  BY DEF WriteWallet, CommitReward, Decrement, rows
<1>2. PICK value, ps : Post(q, req[q].user, value, ps)
  BY PostCopyPosts DEF WriteWallet, CommitReward, Decrement
<1>3. QED
  BY <1>1, <1>2, TalkPost

LEMMA TalkFail ==
  ASSUME TypeInv, TalkInv, NEW q \in Procs, Fail(q)
  PROVE  TalkInv'
<1>1. /\ req[q].pc # "idle" /\ Finish(q) /\ UNCHANGED <<posted, cashed, bus, ledger>>
      /\ faults' = Append(faults, Announced({q})) /\ Announced({q}) \in SUBSET Orders
  BY AnnouncedOrders DEF Fail, money, rows
<1>2. Remembered /\ Announced({q}) \subseteq Undone'
  BY <1>1, OneFault
<1>3. \A p \in Clients : p # q => req'[p] = req[p]
  BY <1>1 DEF Finish, Becomes, TypeInv, ReqsOK, Procs
<1>4. \A p \in Clients : req'[p] = req[p] \/ req'[p].pc = "idle"
  BY <1>1, AfterTyped, IdleTyped DEF TypeInv, ReqsOK, Procs
<1>5. NoneForgotten
  BY <1>2, <1>3 DEF NoneForgotten, Announced
<1>6. \A u \in Users : Told(u)' = Told(u)
  BY <1>1 DEF Told
<1>7. RewardInv'
  BY <1>1, <1>4, RewardFrame DEF TalkInv
<1>8. QED
  BY <1>1, <1>2, <1>4, <1>5, <1>6, <1>7, TalkFrame

LEMMA TalkCash ==
  ASSUME TypeInv, TalkInv, NEW q \in Procs, RecordCashOrder(q)
  PROVE  TalkInv'
<1>1. /\ q \in Clients /\ req[q].pc = "cash" /\ Finish(q) /\ UNCHANGED <<posted, ledger, faults>>
      /\ req[q].user \in Users
  BY Here DEF RecordCashOrder, money, Shape, TypeInv, RowsOK
<1>2. PICK u \in Users, o \in {req[q].id} : u = req[q].user /\ o = req[q].id
  BY <1>1
<1>3. \A p \in Clients : req'[p] = IF p = q THEN Idle ELSE req[p]
  BY <1>1, AfterTyped DEF TypeInv, ReqsOK, Procs
<1>4. RewardInv' /\ NoneForgotten
  BY <1>1, <1>3, IdleTyped, RewardFrame DEF TalkInv, NoneForgotten
<1>5. CASE UNCHANGED <<cashed, bus>>
  <2>1. \A v \in Users : Told(v)' = Told(v)
    BY <1>1, <1>5 DEF Told
  <2>2. QED
    BY <1>1, <1>3, <1>4, <1>5, <2>1, IdleTyped, NoFault, TalkFrame
<1>6. CASE /\ cashed' = [cashed EXCEPT ![req[q].user] = @ \cup {req[q].id}]
           /\ Publish(req[q].user, CashRow(req[q].id))
  <2>1. \A v \in Users : cashed'[v] = IF v = u THEN cashed[v] \cup {o} ELSE cashed[v]
    BY <1>2, <1>6 DEF TypeInv, RowsOK
  <2>2. \A v \in Users : Told(v)' = IF v = u THEN Told(v) \cup {CashRow(o)} ELSE Told(v)
    BY <1>1, <1>2, <1>6, ToldPublished
  <2>3. /\ \A v \in Users : Told(v) \subseteq Told(v)' /\ cashed[v] \subseteq cashed'[v]
        /\ \A v \in Users : \A x \in Told(v)' :
             x \in Told(v) \/ \E i \in cashed'[v] : CashRow(i) = x
        /\ \A v \in Users : \A i \in cashed'[v] : i \in cashed[v] \/ CashRow(i) \in Told(v)'
    BY <2>1, <2>2
  <2>4. QED
    BY <1>1, <1>3, <1>4, <2>3, IdleTyped, NoFault, TalkFrame
<1>7. QED
  BY <1>5, <1>6 DEF RecordCashOrder

\* What the payout job does but debit a wallet
JobWalks ==
  \/ StartPayouts \/ NextPayout \/ SelectWallet(Job)
  \/ NoOption \/ TransferSucceeds \/ TransferFails \/ TransferTimesOut

LEMMA TalkJobWalks ==
  ASSUME TypeInv, TalkInv, JobWalks
  PROVE  TalkInv'
<1>1. UNCHANGED <<posted, cashed, ledger, faults>> /\ \E r : req' = [req EXCEPT ![Job] = r]
  BY DEF JobWalks, StartPayouts, NextPayout, SelectWallet, NoOption, TransferSucceeds,
         TransferFails, TransferTimesOut, GiveUp, Finish, Goto, Becomes, money, rows
<1>2. CASE NoOption \/ TransferFails \/ TransferTimesOut
  <2>1. req[Job].user \in Users
    BY <1>2, JobIn, PostingTyped DEF NoOption, TransferFails, TransferTimesOut
  <2>2. ASSUME NEW type, NEW amount, GiveUp(type, amount) PROVE TalkInv'
    <3> DEFINE row == [type |-> type, id |-> req[Job].id, nth |-> 0, amount |-> amount,
                       status |-> "failed", cash |-> FALSE]
    <3>1. row.status = "failed" /\ Publish(req[Job].user, row)
      BY <2>2 DEF GiveUp
    <3> HIDE DEF row
    <3>2. QED
      BY <1>1, <2>1, <3>1, TalkJob
  <2>3. QED
    BY <1>2, <2>2 DEF NoOption, TransferFails, TransferTimesOut
<1>3. CASE StartPayouts \/ NextPayout \/ SelectWallet(Job) \/ TransferSucceeds
  <2>1. UNCHANGED bus
    BY <1>3 DEF StartPayouts, NextPayout, SelectWallet, TransferSucceeds
  <2>2. QED
    BY <1>1, <2>1, TalkJob
<1>4. QED
  BY <1>2, <1>3 DEF JobWalks

\* Steps that no request takes
LEMMA TalkWorld ==
  ASSUME TypeInv, TalkInv,
         \/ \E e \in bus : SaveTransaction(e) \/ LoseEvent(e)
         \/ \E u \in Users : GetVirtualAccount(u) \/ \E p \in Payments : Pay(u, p)
         \/ UNCHANGED vars \/ Crash
  PROVE  TalkInv'
<1>1. /\ UNCHANGED <<posted, cashed>>
      /\ \A q \in Clients : req'[q] = req[q] \/ req'[q].pc = "idle"
  BY IdleTyped DEF SaveTransaction, LoseEvent, GetVirtualAccount, Pay, Crash, vars, money, rows,
         Procs
<1>2. /\ Remembered /\ NoneForgotten
      /\ \A u \in Users : Told(u)' \subseteq Told(u)
      /\ faults' = <<>> => \A u \in Users : Told(u)' = Told(u)
  <2>1. ASSUME NEW e \in bus, SaveTransaction(e) PROVE \A u \in Users : Told(u)' = Told(u)
    BY <2>1, ToldSaved
  <2>2. UNCHANGED <<bus, ledger>> => \A u \in Users : Told(u)' = Told(u)
    BY DEF Told
  <2>3. CASE \/ \E e \in bus : SaveTransaction(e)
             \/ \E u \in Users : GetVirtualAccount(u) \/ \E p \in Payments : Pay(u, p)
             \/ UNCHANGED vars
    <3>1. UNCHANGED <<req, faults>>
      BY <2>3 DEF SaveTransaction, GetVirtualAccount, Pay, vars
    <3>2. \A u \in Users : Told(u)' = Told(u)
      BY <2>1, <2>2, <2>3 DEF GetVirtualAccount, Pay, vars
    <3>3. QED
      BY <3>1, <3>2, NoFault DEF NoneForgotten
  <2>4. ASSUME NEW e \in bus, LoseEvent(e)
        PROVE  /\ Remembered /\ NoneForgotten
               /\ \A u \in Users : Told(u)' \subseteq Told(u)
               /\ faults' = <<>> => \A u \in Users : Told(u)' = Told(u)
    <3>1. UNCHANGED <<req, ledger>> /\ bus' \subseteq bus /\ faults' = Append(faults, {})
      BY <2>4 DEF LoseEvent
    <3>2. Remembered /\ faults' # <<>>
      BY <3>1, OneFault
    <3>3. QED
      BY <3>1, <3>2 DEF NoneForgotten, Told
  <2>5. CASE Crash
    <3>1. UNCHANGED ledger /\ bus' \subseteq bus /\ faults' = Append(faults, Announced(Procs))
      BY <2>5 DEF Crash
    <3>2. Remembered /\ faults' # <<>> /\ Announced(Procs) \subseteq Undone'
      BY <3>1, AnnouncedOrders, OneFault
    <3>3. NoneForgotten
      BY <3>2 DEF NoneForgotten, Announced, Procs
    <3>4. QED
      BY <3>1, <3>2, <3>3 DEF Told
  <2>6. QED
    BY <2>3, <2>4, <2>5
<1>3. RewardInv'
  BY <1>1, RewardFrame DEF TalkInv
<1>4. QED
  BY <1>1, <1>2, <1>3, TalkFrame

LEMMA JobWrites ==
  ASSUME TypeInv, StepWallet(Job)
  PROVE  SelectWallet(Job) \/ WriteWallet(Job)
<1>1. Shape(Job, req[Job]) /\ (req[Job].pc # "idle" => req[Job].op = "payout")
  BY Here, JobIn DEF Shape
<1>2. QED
  BY <1>1 DEF StepWallet, Shape, FindWallet, CreateCustomer, SaveAccount, InsertWallet,
       RecordCashOrder, FindFunded, CheckExisting, ReadWallet, WriteReward, CommitReward,
       Decrement

LEMMA TalkNext ==
  ASSUME TypeInv, TalkInv, [Next]_vars
  PROVE  TalkInv'
<1>1. ASSUME NEW q \in Clients, StartWallet(q) PROVE TalkInv'
  <2>1. req[q].pc = "idle"
    BY <1>1 DEF StartWallet, Register, GetWallet, PlaceOrder, ChargeRider, Lookup,
                PlaceCashOrder, RewardRider, FundWallet, Call
  <2>2. QED
    BY <1>1, <2>1, ClientBegins, TalkMove DEF money
<1>2. ASSUME NEW q \in Clients, StepWallet(q) PROVE TalkInv'
  <2>1. CASE \/ FindWallet(q) \/ CreateCustomer(q) \/ SaveAccount(q) \/ InsertWallet(q)
             \/ FindFunded(q) \/ CheckExisting(q) \/ ReadWallet(q) \/ SelectWallet(q)
    <3>1. req[q].pc # "commit"
      BY <2>1 DEF FindWallet, CreateCustomer, SaveAccount, InsertWallet, FindFunded,
                  CheckExisting, ReadWallet, SelectWallet
    <3>2. QED
      BY <2>1, <3>1, ClientGoesOn, TalkMove DEF money
  <2>2. QED
    BY <1>2, <2>1, TalkCash, TalkWriteReward, TalkWrite DEF StepWallet, Procs
<1>3. CASE StartPayouts \/ StepPayouts
  BY <1>3, TalkJobWalks DEF StepPayouts, JobWalks
<1>4. CASE StepWallet(Job)
  BY <1>4, JobWrites, JobIn, TalkJobWalks, TalkWrite DEF JobWalks
<1>5. QED
  BY <1>1, <1>2, <1>3, <1>4, TalkFail, TalkWorld DEF Next, Step, Quiet, Procs

LEMMA TalkAlways == Spec => []TalkInv
<1>1. TypeInv /\ TalkInv /\ [Next]_vars => (TypeInv /\ TalkInv)'
  BY TypeNext, TalkNext
<1>2. QED
  BY <1>1, TypeInit, TalkInit, PTL DEF Spec

\* Each handler publishes a CreateTransactionEvent for what it commits, orders paid in cash
\* included: unless the bus or an insert fails, all of it is told.
THEOREM MovementsAreTold == Spec => []LedgerIsComplete
<1>1. TalkInv => LedgerIsComplete
  BY DEF TalkInv, TellInv, LedgerIsComplete
<1>2. QED
  BY <1>1, TalkAlways, PTL

\* A completed row stands for a movement that committed, or an order paid in cash; only a
\* reward, announced before its commit, may be in doubt, and only until its commit or if a
\* failure or a crash undid that very reward.
THEOREM RowsAreBacked == Spec => []LedgerIsBacked
<1>1. TalkInv => LedgerIsBacked
  <2> SUFFICES ASSUME TalkInv, NEW u \in Users, NEW x \in Told(u), x.status = "complete"
               PROVE  \/ \E p \in posted[u] : Row(p) = x
                      \/ \E o \in cashed[u] : CashRow(o) = x
                      \/ /\ x.type = "ORDER_REWARD" /\ x.id \in Orders
                         /\ x.id \in Undone \cup Announced(Clients)
    BY DEF LedgerIsBacked
  <2>1. \A q \in Clients : Announces(q, u, x) => x.id \in Announced(Clients)
    BY DEF Announces, RewardRow, Announced
  <2>2. QED
    BY <2>1 DEF TalkInv, BackInv
<1>2. QED
  BY <1>1, TalkAlways, PTL

-----------------------------------------------------------------------------
(* Transfers                                                                *)

\* The debit of t is still to come.
Owed(t) == req[Job].pc \in {"select", "write"} /\ Transfer(req[Job]) = t

Traced(t) ==
  \E x \in Told(t.user) : x.type = "ORDER_REWARD" /\ x.id = t.id /\ x.amount = t.amount

LEMMA TracedFrame ==
  ASSUME TypeInv, PayoutsTraced, faults' = <<>> => faults = <<>>,
         faults' = <<>> =>
           /\ UNCHANGED transfers
           /\ \A u \in Users : Told(u) \subseteq Told(u)'
           /\ \A t : Owed(t) => Owed(t)'
  PROVE  PayoutsTraced'
<1> SUFFICES ASSUME faults' = <<>>, NEW t \in transfers'
             PROVE  \/ Owed(t)'
                    \/ \E x \in Told(t.user)' :
                         x.type = "ORDER_REWARD" /\ x.id = t.id /\ x.amount = t.amount
  BY DEF PayoutsTraced, Owed
<1>1. faults = <<>> /\ t \in transfers /\ t.user \in Users
  BY DEF TypeInv, CountsOK, BusOK
<1>2. Owed(t) \/ Traced(t)
  BY <1>1 DEF PayoutsTraced, Owed, Traced
<1>3. QED
  BY <1>1, <1>2 DEF Traced

\* The payout job lets go of a transfer when it has told of it.
LEMMA TracedDebit ==
  ASSUME TypeInv, PayoutsTraced, UNCHANGED <<ledger, faults>>, NEW row,
         Publish(req[Job].user, row), row.type = "ORDER_REWARD", row.id = req[Job].id,
         row.amount = req[Job].value, req[Job].pc \in {"transfer", "write"},
         transfers' \subseteq transfers \cup {Transfer(req[Job])}
  PROVE  PayoutsTraced'
<1> SUFFICES ASSUME faults = <<>>, NEW t \in transfers'
             PROVE  \E x \in Told(t.user)' :
                      x.type = "ORDER_REWARD" /\ x.id = t.id /\ x.amount = t.amount
  BY DEF PayoutsTraced
<1>1. PICK u \in Users : u = req[Job].user
  BY JobIn, PostingTyped
<1>2. \A v \in Users : Told(v)' = IF v = u THEN Told(v) \cup {row} ELSE Told(v)
  BY <1>1, ToldPublished
<1>3. CASE t = Transfer(req[Job])
  BY <1>1, <1>2, <1>3 DEF Transfer
<1>4. CASE t # Transfer(req[Job])
  <2>1. t \in transfers /\ t.user \in Users
    BY <1>4 DEF TypeInv, BusOK
  <2>2. Traced(t)
    BY <1>4, <2>1 DEF PayoutsTraced, Traced
  <2>3. QED
    BY <1>2, <2>1, <2>2 DEF Traced
<1>5. QED
  BY <1>3, <1>4

\* Clients have nothing to do with transfers.
LEMMA TracedClient ==
  ASSUME TypeInv, PayoutsTraced, NEW q \in Clients, StartWallet(q) \/ StepWallet(q)
  PROVE  PayoutsTraced'
<1>1. req'[Job] = req[Job] /\ UNCHANGED <<transfers, faults>>
      /\ \A u \in Users : Told(u) \subseteq Told(u)'
  <2>1. CASE StartWallet(q)
    <3>1. UNCHANGED <<bus, ledger, transfers, faults>> /\ \E r : req' = [req EXCEPT ![q] = r]
      BY <2>1, ClientBegins DEF Begins
    <3>2. QED
      BY <3>1, ClientIsNotJob DEF Told
  <2>2. CASE \/ FindWallet(q) \/ CreateCustomer(q) \/ SaveAccount(q) \/ InsertWallet(q)
             \/ FindFunded(q) \/ CheckExisting(q) \/ ReadWallet(q) \/ SelectWallet(q)
    <3>1. UNCHANGED <<bus, ledger, transfers, faults>> /\ \E r : req' = [req EXCEPT ![q] = r]
      BY <2>2, ClientGoesOn DEF GoesOn
    <3>2. QED
      BY <3>1, ClientIsNotJob DEF Told
  <2>3. CASE \/ RecordCashOrder(q) \/ WriteWallet(q) \/ WriteReward(q) \/ CommitReward(q)
             \/ Decrement(q)
    <3>1. /\ UNCHANGED <<ledger, transfers, faults>>
          /\ UNCHANGED bus \/ \E u, row : Publish(u, row)
      BY <2>3 DEF RecordCashOrder, WriteWallet, WriteReward, CommitReward, Decrement
    <3>2. \E r : req' = [req EXCEPT ![q] = r]
      BY <2>3 DEF RecordCashOrder, WriteWallet, WriteReward, CommitReward, Decrement, Finish,
                  Goto, Becomes
    <3>3. bus \subseteq bus'
      BY <3>1 DEF Publish
    <3>4. QED
      BY <3>1, <3>2, <3>3, ClientIsNotJob DEF Told
  <2>4. QED
    BY <2>1, <2>2, <2>3 DEF StepWallet
<1>2. QED
  BY <1>1, TracedFrame DEF Owed

LEMMA TracedSucceeds ==
  ASSUME TypeInv, PayoutsTraced, TransferSucceeds
  PROVE  PayoutsTraced'
<1>1. /\ req[Job].pc = "transfer" /\ UNCHANGED <<bus, ledger, faults>>
      /\ transfers' = transfers \cup {Transfer(req[Job])}
  BY DEF TransferSucceeds
<1>2. req'[Job].pc = "select" /\ Transfer(req[Job])' = Transfer(req[Job])
  <2> DEFINE r == [req[Job] EXCEPT !.pc = "select"]
  <2>1. "select" \in PCs
    BY DEF PCs
  <2>2. r.pc = "select" /\ Transfer(r) = Transfer(req[Job])
    BY <2>1, JobIn, GotoTyped DEF Transfer
  <2>3. req'[Job] = r
    BY JobIn DEF TransferSucceeds, Goto, Becomes, TypeInv, ReqsOK
  <2> HIDE DEF r
  <2>4. QED
    BY <2>2, <2>3 DEF Transfer
<1>3. \A u : Told(u)' = Told(u)
  BY <1>1 DEF Told
<1> SUFFICES ASSUME faults = <<>>, NEW t \in transfers'
             PROVE  \/ Owed(t)'
                    \/ \E x \in Told(t.user)' :
                         x.type = "ORDER_REWARD" /\ x.id = t.id /\ x.amount = t.amount
  BY <1>1 DEF PayoutsTraced, Owed
<1>4. CASE t = Transfer(req[Job])
  BY <1>2, <1>4 DEF Owed
<1>5. CASE t \in transfers
  BY <1>1, <1>3, <1>5 DEF PayoutsTraced
<1>6. QED
  BY <1>1, <1>4, <1>5

LEMMA TracedJob ==
  ASSUME TypeInv, PayoutsTraced, JobWalks \/ WriteWallet(Job)
  PROVE  PayoutsTraced'
<1>1. CASE StartPayouts \/ NextPayout \/ NoOption
  <2>1. /\ UNCHANGED <<ledger, transfers, faults>> /\ bus \subseteq bus'
        /\ req[Job].pc \in {"idle", "next", "transfer"}
    BY <1>1 DEF StartPayouts, NextPayout, NoOption, GiveUp, Publish
  <2>2. QED
    BY <2>1, TracedFrame DEF Told, Owed
<1>2. CASE SelectWallet(Job)
  <2> DEFINE d == (req[Job].value + Amount(req[Job]) # balance[req[Job].user])
             r == [req[Job] EXCEPT !.pc = "write", !.dirty = d]
  <2>1. req[Job] \in Request
    BY Here, JobIn
  <2>2. r.pc = "write" /\ Transfer(r) = Transfer(req[Job])
    BY <2>1 DEF Request, Transfer
  <2>3. req'[Job] = r
    BY <1>2, JobIn DEF SelectWallet, Becomes, TypeInv, ReqsOK
  <2> HIDE DEF r
  <2>4. \A t : Owed(t) => Owed(t)'
    BY <2>2, <2>3 DEF Owed, Transfer
  <2>5. UNCHANGED <<bus, ledger, transfers, faults>>
    BY <1>2 DEF SelectWallet
  <2>6. QED
    BY <2>4, <2>5, TracedFrame DEF Told
<1>3. CASE TransferFails \/ TransferTimesOut
  <2> DEFINE row == [type |-> "ORDER_REWARD", id |-> req[Job].id, nth |-> 0,
                     amount |-> req[Job].value, status |-> "failed", cash |-> FALSE]
  <2>1. row.type = "ORDER_REWARD" /\ row.id = req[Job].id /\ row.amount = req[Job].value
    OBVIOUS
  <2>2. /\ UNCHANGED <<ledger, faults>> /\ req[Job].pc = "transfer"
        /\ transfers' \subseteq transfers \cup {Transfer(req[Job])}
        /\ Publish(req[Job].user, row)
    BY <1>3 DEF TransferFails, TransferTimesOut, GiveUp
  <2> HIDE DEF row
  <2>3. QED
    BY <2>1, <2>2, TracedDebit
<1>4. CASE WriteWallet(Job)
  <2>1. /\ UNCHANGED <<ledger, faults, transfers>> /\ req[Job].pc = "write"
        /\ Publish(req[Job].user, Row(Posting(req[Job])))
    BY <1>4 DEF WriteWallet
  <2>2. req[Job].op = "payout" /\ req[Job].value \in Int /\ req[Job].id \in 1..MaxWeeks
    BY <2>1, Here, JobIn DEF Shape, TypeInv, TodoOK, Request
  <2>3. /\ Row(Posting(req[Job])).type = "ORDER_REWARD"
        /\ Row(Posting(req[Job])).id = req[Job].id
        /\ Row(Posting(req[Job])).amount = req[Job].value
    BY <2>2 DEF Row, Posting, Type, Amount, IsDebit
  <2>4. QED
    BY <2>1, <2>3, TracedDebit
<1>5. QED
  BY <1>1, <1>2, <1>3, <1>4, TracedSucceeds DEF JobWalks

LEMMA TracedNext ==
  ASSUME TypeInv, PayoutsTraced, [Next]_vars
  PROVE  PayoutsTraced'
<1>1. ASSUME NEW q \in Clients, StartWallet(q) \/ StepWallet(q) PROVE PayoutsTraced'
  BY <1>1, TracedClient
<1>2. CASE StartPayouts \/ StepPayouts \/ StepWallet(Job)
  BY <1>2, TracedJob, JobWrites DEF StepPayouts, JobWalks
<1>3. ASSUME faults' # <<>> PROVE PayoutsTraced'
  BY <1>3, TracedFrame
<1>4. ASSUME NEW e \in bus, SaveTransaction(e) PROVE PayoutsTraced'
  <2>1. UNCHANGED <<transfers, req, faults>>
    BY <1>4 DEF SaveTransaction
  <2>2. QED
    BY <1>4, <2>1, ToldSaved, TracedFrame DEF Owed
<1>5. ASSUME UNCHANGED <<bus, ledger, transfers, req, faults>> PROVE PayoutsTraced'
  BY <1>5 DEF PayoutsTraced, Told
<1>6. (\E q \in Procs : Fail(q)) \/ (\E e \in bus : LoseEvent(e)) \/ Crash => faults' # <<>>
  <2>1. ASSUME NEW s \in SUBSET Orders, faults' = Append(faults, s) PROVE faults' # <<>>
    BY <2>1, OneFault
  <2>2. \A q \in Procs : Announced({q}) \in SUBSET Orders
    BY AnnouncedOrders
  <2>3. Announced(Procs) \in SUBSET Orders
    BY AnnouncedOrders
  <2>4. ASSUME NEW q \in Procs, Fail(q) PROVE faults' # <<>>
    <3>1. faults' = Append(faults, Announced({q}))
      BY <2>4 DEF Fail
    <3>2. QED
      BY <2>1, <2>2, <3>1
  <2>5. ASSUME NEW e \in bus, LoseEvent(e) PROVE faults' # <<>>
    <3>1. faults' = Append(faults, {})
      BY <2>5 DEF LoseEvent
    <3>2. QED
      BY <2>1, <3>1
  <2>6. Crash => faults' # <<>>
    BY <2>1, <2>3 DEF Crash
  <2>7. QED
    BY <2>4, <2>5, <2>6
<1>7. \/ \E u \in Users : GetVirtualAccount(u) \/ \E p \in Payments : Pay(u, p)
      \/ UNCHANGED vars
      => UNCHANGED <<bus, ledger, transfers, req, faults>>
  BY DEF GetVirtualAccount, Pay, vars
<1>8. QED
  BY <1>1, <1>2, <1>3, <1>4, <1>5, <1>6, <1>7 DEF Next, Step, Quiet, Procs

\* performExternalTransfer: every outcome of a transfer is recorded, a late answer of the
\* provider included.
THEOREM TransfersLeaveATrace == Spec => []PayoutsTraced
<1>1. Init => TypeInv /\ PayoutsTraced
  BY TypeInit DEF Init, PayoutsTraced
<1>2. TypeInv /\ PayoutsTraced /\ [Next]_vars => (TypeInv /\ PayoutsTraced)'
  BY TypeNext, TracedNext
<1>3. QED
  BY <1>1, <1>2, PTL DEF Spec

-----------------------------------------------------------------------------
(* Deposits: the row of a payment ends its credits to one wallet            *)

Stored(u, p) == \E x \in ledger[u] : x.type = "DEPOSIT" /\ x.id = p

\* q is past the check for p in the wallet of u.
Past(q, u, p) ==
  /\ req[q].op = "fund" /\ req[q].id = p /\ req[q].user = u
  /\ req[q].pc \in {"select", "write"}

LEMMA NonePasses ==
  ASSUME TypeInv, [Next]_vars, NEW p \in Payments, NEW u \in Users, Stored(u, p),
         NEW q \in Clients, ~Past(q, u, p)
  PROVE  ~Past(q, u, p)'
<1> SUFFICES ASSUME Past(q, u, p)' PROVE FALSE
  OBVIOUS
<1>1. req'[q] # req[q]
  BY DEF Past
<1>2. StartWallet(q) \/ StepWallet(q)
  <2>1. ASSUME NEW d \in Clients, StartWallet(d) \/ StepWallet(d) PROVE d = q
    <3>1. \E r : req' = [req EXCEPT ![d] = r]
      <4>1. CASE StartWallet(d)
        BY <4>1, ClientBegins DEF Begins
      <4>2. CASE \/ FindWallet(d) \/ CreateCustomer(d) \/ SaveAccount(d) \/ InsertWallet(d)
                 \/ FindFunded(d) \/ CheckExisting(d) \/ ReadWallet(d) \/ SelectWallet(d)
        BY <4>2, ClientGoesOn DEF GoesOn
      <4>3. CASE \/ RecordCashOrder(d) \/ WriteWallet(d) \/ WriteReward(d) \/ CommitReward(d)
                 \/ Decrement(d)
        BY <4>3 DEF RecordCashOrder, WriteWallet, WriteReward, CommitReward, Decrement, Finish,
                    Goto, Becomes
      <4>4. QED
        BY <2>1, <4>1, <4>2, <4>3 DEF StepWallet
    <3>2. QED
      BY <1>1, <3>1 DEF TypeInv, ReqsOK, Procs
  <2>2. ASSUME NEW d \in Procs, Fail(d) PROVE FALSE
    <3>1. req[d].pc # "idle" /\ Finish(d)
      BY <2>2 DEF Fail
    <3>2. req'[q] = req[q] \/ req'[q].pc = "idle"
      BY <3>1, AfterTyped, IdleTyped DEF TypeInv, ReqsOK, Procs
    <3>3. QED
      BY <1>1, <3>2 DEF Past
  <2>3. CASE StartPayouts \/ StepPayouts \/ StepWallet(Job)
    <3>1. JobWalks \/ WriteWallet(Job)
      BY <2>3, JobWrites DEF StepPayouts, JobWalks
    <3>2. \E r : req' = [req EXCEPT ![Job] = r]
      BY <3>1 DEF JobWalks, StartPayouts, NextPayout, SelectWallet, NoOption, TransferSucceeds,
         TransferFails, TransferTimesOut, GiveUp, Finish, Goto, Becomes, WriteWallet
    <3>3. QED
      BY <1>1, <3>2, WalletAssumption DEF TypeInv, ReqsOK, Procs
  <2>4. CASE Crash
    BY <2>4, IdleTyped DEF Crash, Past, Procs
  <2>5. ASSUME UNCHANGED req PROVE FALSE
    BY <1>1, <2>5
  <2>6. \/ \E e \in bus : SaveTransaction(e) \/ LoseEvent(e)
        \/ \E v \in Users : GetVirtualAccount(v) \/ \E i \in Payments : Pay(v, i)
        \/ UNCHANGED vars
        => UNCHANGED req
    BY DEF SaveTransaction, LoseEvent, GetVirtualAccount, Pay, vars
  <2>7. QED
    BY <2>1, <2>2, <2>3, <2>4, <2>5, <2>6 DEF Next, Step, Quiet, Procs
<1>3. CASE StartWallet(q)
  <2>1. PICK r : req' = [req EXCEPT ![q] = r] /\ r.pc \notin {"select", "write"}
    BY <1>3, ClientBegins DEF Begins
  <2>2. QED
    BY <2>1 DEF Past, TypeInv, ReqsOK, Procs
<1>4. CASE StepWallet(q)
  <2>1. ~Finish(q)
    <3>1. req[q].pc # "idle"
      BY <1>4 DEF StepWallet, FindWallet, CreateCustomer, SaveAccount, InsertWallet,
         RecordCashOrder, FindFunded, CheckExisting, ReadWallet, SelectWallet, WriteWallet,
         WriteReward, CommitReward, Decrement
    <3>2. QED
      BY <3>1, FinishGoesOn, IdleTyped DEF Past, TypeInv, ReqsOK, Procs
  <2>2. ~WriteReward(q)
    <3>1. ASSUME WriteReward(q) PROVE req'[q].pc = "commit"
      <4>1. "commit" \in PCs
        BY DEF PCs
      <4>2. QED
        BY <3>1, <4>1, GotoTyped DEF WriteReward, Goto, Becomes, TypeInv, ReqsOK, Procs
    <3>2. QED
      BY <3>1 DEF Past
  <2>3. \/ FindWallet(q) \/ CreateCustomer(q) \/ SaveAccount(q) \/ InsertWallet(q)
        \/ FindFunded(q) \/ CheckExisting(q) \/ ReadWallet(q) \/ SelectWallet(q)
    BY <1>4, <2>1, <2>2 DEF StepWallet, RecordCashOrder, WriteWallet, CommitReward, Decrement
  <2>4. req[q].pc # "idle" /\ req[q].op = "fund" /\ req[q].id = p
    BY <2>3, ClientGoesOn DEF GoesOn, Past, TypeInv, ReqsOK, Procs
  <2>5. FindFunded(q) \/ CheckExisting(q) \/ SelectWallet(q)
    BY <2>3, <2>4, Here DEF Shape, Procs, FindWallet, CreateCustomer, SaveAccount,
       InsertWallet, ReadWallet
  <2>6. ASSUME NEW v, Becomes(q, [req[q] EXCEPT !.pc = "known", !.user = v, !.value = balance[v],
                                                !.parts = parts[v]])
        PROVE  FALSE
    <3>1. [req[q] EXCEPT !.pc = "known", !.user = v, !.value = balance[v],
                         !.parts = parts[v]].pc = "known"
      BY Here DEF Request, Procs
    <3>2. QED
      BY <2>6, <3>1 DEF Becomes, Past, TypeInv, ReqsOK, Procs
  <2>7. ~FindFunded(q)
    BY <2>1, <2>6 DEF FindFunded
  <2>8. req'[q].user = req[q].user
    <3>1. CASE CheckExisting(q)
      <4>1. "select" \in PCs /\ Goto(q, "select")
        BY <2>1, <3>1 DEF CheckExisting, PCs
      <4>2. QED
        BY <4>1, GotoTyped DEF Goto, Becomes, TypeInv, ReqsOK, Procs
    <3>2. CASE SelectWallet(q)
      <4> DEFINE d == (req[q].value + Amount(req[q]) # balance[req[q].user])
      <4>1. req'[q] = [req[q] EXCEPT !.pc = "write", !.dirty = d]
        BY <3>2 DEF SelectWallet, Becomes, TypeInv, ReqsOK, Procs
      <4> HIDE DEF d
      <4>2. QED
        BY <4>1, Here DEF Request, Procs
    <3>3. QED
      BY <2>5, <2>7, <3>1, <3>2
  <2>9. req[q].user = u
    BY <2>8 DEF Past
  <2>10. ~SelectWallet(q)
    BY <2>4, <2>9 DEF SelectWallet, Past
  <2>11. ~CheckExisting(q)
    BY <2>1, <2>4, <2>9 DEF CheckExisting, Stored
  <2>12. QED
    BY <2>5, <2>7, <2>10, <2>11
<1>5. QED
  BY <1>2, <1>3, <1>4

\* A deposit is posted by a webhook past the check.
LEMMA DepositPosts ==
  ASSUME TypeInv, [Next]_vars, NEW p \in Payments, NEW u \in Users,
         \A q \in Clients : ~Past(q, u, p)
  PROVE  Made(u, "DEPOSIT", p)' = Made(u, "DEPOSIT", p)
<1>1. ASSUME UNCHANGED posted PROVE Made(u, "DEPOSIT", p)' = Made(u, "DEPOSIT", p)
  BY <1>1 DEF Made
<1>2. ASSUME NEW q \in Procs, WriteWallet(q) \/ CommitReward(q) \/ Decrement(q)
      PROVE  Made(u, "DEPOSIT", p)' = Made(u, "DEPOSIT", p)
  <2>1. req[q].pc \in {"write", "commit", "decrement"}
    BY <1>2 DEF WriteWallet, CommitReward, Decrement
  <2>2. PICK value, ps : Post(q, req[q].user, value, ps)
    BY <1>2, PostCopyPosts DEF WriteWallet, CommitReward, Decrement
  <2>3. PICK x : x = Posting(req[q])
    OBVIOUS
  <2>4. \/ posted'[u] = posted[u]
        \/ req[q].user = u /\ posted'[u] = posted[u] \cup {x}
    BY <2>2, <2>3 DEF Post, TypeInv, MoneyOK
  <2>5. ~(req[q].user = u /\ x.type = "DEPOSIT" /\ x.id = p)
    <3> SUFFICES ASSUME req[q].user = u, x.type = "DEPOSIT", x.id = p PROVE FALSE
      OBVIOUS
    <3>1. req[q].op = "fund" /\ req[q].id = p
      BY <2>3 DEF Posting, Type
    <3>2. q \in Clients /\ req[q].pc = "write"
      BY <2>1, <3>1, Here, JobIn DEF Shape, Procs
    <3>3. QED
      BY <3>1, <3>2 DEF Past
  <2>6. QED
    BY <2>4, <2>5 DEF Made
<1>3. ASSUME NEW q \in Clients, StartWallet(q) PROVE UNCHANGED posted
  BY <1>3, ClientBegins DEF money
<1>4. ASSUME NEW q \in Procs, StepWallet(q), ~(WriteWallet(q) \/ CommitReward(q) \/ Decrement(q))
      PROVE  UNCHANGED posted
  BY <1>4 DEF StepWallet, FindWallet, CreateCustomer, SaveAccount, InsertWallet,
         RecordCashOrder, FindFunded, CheckExisting, ReadWallet, SelectWallet, WriteReward, money
<1>5. StartPayouts \/ StepPayouts => UNCHANGED posted
  BY DEF StartPayouts, StepPayouts, NextPayout, NoOption, TransferSucceeds, TransferFails,
         TransferTimesOut, money
<1>6. \/ \E q \in Procs : Fail(q)
      \/ \E e \in bus : SaveTransaction(e) \/ LoseEvent(e)
      \/ \E v \in Users : GetVirtualAccount(v) \/ \E i \in Payments : Pay(v, i)
      \/ Crash \/ UNCHANGED vars
      => UNCHANGED posted
  BY DEF Fail, SaveTransaction, LoseEvent, GetVirtualAccount, Pay, Crash, vars, money
<1>7. QED
  BY <1>1, <1>2, <1>3, <1>4, <1>5, <1>6 DEF Next, Step, Quiet

LEMMA LedgerGrows ==
  ASSUME TypeInv, [Next]_vars, NEW u \in Users
  PROVE  ledger[u] \subseteq ledger'[u]
<1>1. ASSUME NEW e \in bus, SaveTransaction(e) PROVE ledger[u] \subseteq ledger'[u]
  BY <1>1 DEF SaveTransaction, TypeInv, BusOK
<1>2. ASSUME NEW q \in Clients, StartWallet(q) PROVE UNCHANGED ledger
  BY <1>2, ClientBegins
<1>3. ASSUME NEW q \in Procs, StepWallet(q) PROVE UNCHANGED ledger
  BY <1>3 DEF StepWallet, FindWallet, CreateCustomer, SaveAccount, InsertWallet,
         RecordCashOrder, FindFunded, CheckExisting, ReadWallet, SelectWallet, WriteReward,
         WriteWallet, CommitReward, Decrement
<1>4. StartPayouts \/ StepPayouts => UNCHANGED ledger
  BY DEF StartPayouts, StepPayouts, NextPayout, NoOption, TransferSucceeds, TransferFails,
         TransferTimesOut
<1>5. \/ \E q \in Procs : Fail(q)
      \/ \E e \in bus : LoseEvent(e)
      \/ \E v \in Users : GetVirtualAccount(v) \/ \E i \in Payments : Pay(v, i)
      \/ Crash \/ UNCHANGED vars
      => UNCHANGED ledger
  BY DEF Fail, LoseEvent, GetVirtualAccount, Pay, Crash, vars
<1>6. QED
  BY <1>1, <1>2, <1>3, <1>4, <1>5 DEF Next, Step, Quiet

\* fundWallet looks its reference up in the transactions of the wallet's owner: once the
\* row is stored and no request for that wallet is past the look-up, the payment is not
\* credited to it again.  (Another user's wallet may be: see Settled.)
THEOREM DepositsSettle == Spec => DepositSettles
<1>1. ASSUME TypeInv, [Next]_vars, NEW p \in Payments, NEW u \in Users, Settled(u, p)
      PROVE  Settled(u, p)' /\ Made(u, "DEPOSIT", p)' = Made(u, "DEPOSIT", p)
  <2>1. Stored(u, p) /\ \A q \in Clients : ~Past(q, u, p)
    BY <1>1 DEF Settled, Stored, Past
  <2>2. Made(u, "DEPOSIT", p)' = Made(u, "DEPOSIT", p)
    BY <1>1, <2>1, DepositPosts
  <2>3. \A q \in Clients : ~Past(q, u, p)'
    BY <1>1, <2>1, NonePasses
  <2>4. Stored(u, p)'
    BY <1>1, <2>1, LedgerGrows DEF Stored
  <2>5. QED
    BY <2>2, <2>3, <2>4 DEF Settled, Stored, Past
<1>2. TypeInv /\ [Next]_vars =>
        [\A p \in Payments, u \in Users : Settled(u, p) =>
           Settled(u, p)' /\ Made(u, "DEPOSIT", p)' = Made(u, "DEPOSIT", p)]_vars
  BY <1>1
<1>3. QED
  BY <1>2, TypeAlways, PTL DEF Spec, DepositSettles
=============================================================================
