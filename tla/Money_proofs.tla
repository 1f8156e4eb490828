---------------------------- MODULE Money_proofs ----------------------------
(***************************************************************************)
(* Theorems about everything that moves money, for any number of users,    *)
(* requests, orders, payments and failures.                                *)
(***************************************************************************)
EXTENDS Money, TLAPS, FiniteSetTheorems, SequenceTheorems

-----------------------------------------------------------------------------
(* The shape of requests                                                    *)

\* What a handler knows where it stands
Shape(q, r) ==
  /\ q \in Clients => r.todo = {}
  /\ q = Job => r.pc \in {"idle", "next", "transfer", "select", "write"}
  /\ q \in Clients => r.pc \notin {"next", "transfer"}
  /\ r.pc = "idle" => r.todo = {}
  /\ r.pc \notin {"idle", "next", "verify"} => r.user \in registered
  /\ r.pc = "find" => r.op \in {"get", "order", "charge"}
  /\ r.pc \in {"customer", "account", "insert"} =>
       r.op \in {"register", "get", "order", "charge"}
  /\ r.pc \in {"verify", "known"} => r.op = "fund"
  /\ r.pc = "cash" => r.op = "cash"
  /\ r.pc = "read" => r.op \in {"order", "reward"}
  /\ q \in Clients /\ r.pc \in {"select", "write"} => r.op \in {"order", "reward", "fund"}
  /\ r.pc = "commit" => r.op = "reward"
  /\ r.pc = "decrement" => r.op = "charge"
  /\ q = Job /\ r.pc # "idle" => r.op = "payout"
  /\ r.pc # "idle" /\ r.op \in {"order", "cash", "reward", "charge"} => r.id \in Orders
  /\ r.pc # "idle" /\ r.op = "fund" => r.id \in Payments
  /\ r.pc \notin {"idle", "next"} /\ r.op = "payout" => r.id \in 1..MaxWeeks

RowsOK ==
  /\ registered \subseteq Users
  /\ wallets \cup riders \subseteq registered
  /\ code \in [Users -> Nat]
  /\ accounts \in [Users -> SUBSET Nat]
  /\ shown \in [Users -> Nat]
  /\ customers \in Nat
  /\ paid \in [Payments -> Nat]
  /\ cashed \in [Users -> SUBSET Orders]

MoneyOK ==
  /\ balance \in [Users -> Int]
  /\ parts \in [Users -> SUBSET Postings]
  /\ posted \in [Users -> SUBSET Postings]
  /\ \A u \in Users : IsFiniteSet(posted[u])
  /\ raced \subseteq Users

BusOK ==
  /\ bus \subseteq Events
  /\ ledger \in [Users -> SUBSET LedgerRows]
  /\ transfers \subseteq [user : Users, id : Ids, amount : Nat]

CountsOK ==
  week \in 0..MaxWeeks /\ calls \in 0..MaxCalls /\ faults \in Seq(SUBSET Orders)

\* The copies of the payout job are of riders with enough to pay out.
TodoOK ==
  /\ \A c \in req[Job].todo : c.user \in wallets /\ c.value > 0
  /\ req[Job].pc \in {"transfer", "select", "write"} =>
       req[Job].user \in wallets /\ req[Job].value > 0
  /\ req[Job].pc # "idle" => week > 0

ReqsOK ==
  /\ req \in [Procs -> Request]
  /\ \A q \in Procs : Shape(q, req[q])

TypeInv == RowsOK /\ MoneyOK /\ BusOK /\ CountsOK /\ ReqsOK /\ TodoOK

LEMMA IdleTyped ==
  /\ Idle \in Request /\ Idle.pc = "idle" /\ Idle.todo = {}
  /\ \A q \in Procs : Shape(q, Idle)
BY DEF Idle, Request, PCs, Shape

LEMMA TypeInit == Init => TypeInv
<1> SUFFICES ASSUME Init PROVE TypeInv
  OBVIOUS
<1>1. RowsOK /\ BusOK /\ CountsOK
  BY WalletAssumption DEF Init, RowsOK, BusOK, CountsOK
<1>2. MoneyOK
  BY FS_EmptySet DEF Init, MoneyOK
<1>3. ReqsOK /\ TodoOK
  BY IdleTyped DEF Init, ReqsOK, TodoOK, Procs
<1>4. QED
  BY <1>1, <1>2, <1>3 DEF TypeInv

\* A posting and its row are well typed.
LEMMA PostingTyped ==
  ASSUME TypeInv, NEW q \in Procs,
         req[q].pc \in {"select", "write", "commit", "decrement", "transfer"}
  PROVE  /\ req[q].user \in Users /\ req[q].id \in Ids
         /\ Amount(req[q]) \in Int
         /\ Posting(req[q]) \in Postings
         /\ Row(Posting(req[q])) \in LedgerRows
<1> DEFINE r == req[q]
<1>1. r \in Request /\ r.user \in Users /\ r.id \in Ids
  BY DEF TypeInv, ReqsOK, Shape, RowsOK, Procs, Ids
<1>2. Amount(r) \in Int
  <2>1. req[q].op \in {"order", "cash", "reward", "charge"} => r.id \in Orders
    BY DEF TypeInv, ReqsOK, Shape
  <2>2. /\ Paid \in Int
        /\ \A o \in Orders : Total[o] \in Int /\ Fee[o] \in Int /\ ServiceCharge[o] \in Int
    BY WalletAssumption
  <2>3. QED
    BY <1>1, <2>1, <2>2 DEF Amount, Request
<1>3. Type(r.op) \in Types
  BY DEF Type, Types
<1>4. Cardinality(Made(r.user, Type(r.op), r.id)) \in Nat
  <2>1. IsFiniteSet(posted[r.user])
    BY <1>1 DEF TypeInv, MoneyOK
  <2>2. QED
    BY <2>1, FS_Subset, FS_CardinalityType DEF Made
<1>5. Posting(r) \in Postings
  BY <1>1, <1>2, <1>3, <1>4 DEF Posting, Postings
<1>6. \A p \in Postings : Row(p) \in LedgerRows
  BY DEF Postings, Row, LedgerRows
<1>7. QED
  BY <1>1, <1>2, <1>5, <1>6

-----------------------------------------------------------------------------
(* How the parts of TypeInv are kept                                        *)

LEMMA ReqsMove ==
  ASSUME TypeInv, NEW q \in Procs, NEW r, req' = [req EXCEPT ![q] = r],
         r \in Request, Shape(q, r)', registered \subseteq registered'
  PROVE  ReqsOK'
<1>1. \A p \in Procs : req'[p] = IF p = q THEN r ELSE req[p]
  BY DEF TypeInv, ReqsOK
<1>2. \A p \in Procs : Shape(p, req[p]) => Shape(p, req[p])'  \/ p = q
  BY <1>1 DEF Shape
<1>3. QED
  BY <1>1, <1>2 DEF TypeInv, ReqsOK

\* A client's request leaves the payout job alone.
LEMMA TodoKept ==
  ASSUME TypeInv, UNCHANGED req[Job], wallets \subseteq wallets', UNCHANGED week
  PROVE  TodoOK'
BY DEF TypeInv, TodoOK

LEMMA ClientIsNotJob ==
  ASSUME TypeInv, NEW q \in Clients, NEW r, req' = [req EXCEPT ![q] = r]
  PROVE  req'[Job] = req[Job]
BY WalletAssumption DEF TypeInv, ReqsOK, Procs

\* A request of a client goes on, and nothing else happens.
LEMMA ClientMoves ==
  ASSUME TypeInv, NEW q \in Clients, NEW r, req' = [req EXCEPT ![q] = r],
         r \in Request, Shape(q, r),
         UNCHANGED <<rows, money, bus, ledger, transfers, week>>,
         calls' \in 0..MaxCalls, faults' \in Seq(SUBSET Orders)
  PROVE  TypeInv'
<1>1. RowsOK' /\ MoneyOK' /\ BusOK' /\ CountsOK'
  BY DEF TypeInv, RowsOK, MoneyOK, BusOK, CountsOK, rows, money
<1>2. ReqsOK'
  <2>1. Shape(q, r)'
    BY DEF Shape, rows
  <2>2. QED
    BY <2>1, ReqsMove DEF rows, Procs
<1>3. TodoOK'
  BY ClientIsNotJob, TodoKept DEF rows
<1>4. QED
  BY <1>1, <1>2, <1>3 DEF TypeInv

\* The same of the payout job
LEMMA JobMoves ==
  ASSUME TypeInv, NEW r, req' = [req EXCEPT ![Job] = r],
         r \in Request, Shape(Job, r),
         UNCHANGED <<rows, money, bus, ledger, transfers>>,
         week' \in week..MaxWeeks, calls' = calls, faults' \in Seq(SUBSET Orders),
         \A c \in r.todo : c.user \in wallets /\ c.value > 0,
         r.pc \in {"transfer", "select", "write"} => r.user \in wallets /\ r.value > 0,
         r.pc # "idle" => week' > 0
  PROVE  TypeInv'
<1>1. RowsOK' /\ MoneyOK' /\ BusOK' /\ CountsOK'
  BY DEF TypeInv, RowsOK, MoneyOK, BusOK, CountsOK, rows, money
<1>2. ReqsOK'
  <2>1. Shape(Job, r)'
    BY DEF Shape, rows
  <2>2. QED
    BY <2>1, ReqsMove DEF rows, Procs
<1>3. TodoOK'
  <2>1. req'[Job] = r
    BY DEF TypeInv, ReqsOK, Procs
  <2>2. QED
    BY <2>1 DEF TypeInv, TodoOK, rows
<1>4. QED
  BY <1>1, <1>2, <1>3 DEF TypeInv

\* What a request becomes when its handler is over
After(q) ==
  IF req[q].op = "payout"
    THEN [Idle EXCEPT !.pc = "next", !.op = "payout", !.todo = req[q].todo]
    ELSE Idle

LEMMA AfterTyped ==
  ASSUME TypeInv, NEW q \in Procs, req[q].pc # "idle"
  PROVE  /\ After(q) \in Request /\ Shape(q, After(q))
         /\ After(q).pc \in {"idle", "next"} /\ After(q).todo \subseteq req[q].todo
         /\ q \in Clients => After(q) = Idle
         /\ Finish(q) <=> req' = [req EXCEPT ![q] = After(q)]
<1>1. req[q] \in Request /\ Shape(q, req[q])
  BY DEF TypeInv, ReqsOK
<1>2. Job \notin Clients
  BY WalletAssumption
<1>3. q \in Clients => req[q].op # "payout"
  BY <1>1, <1>2 DEF Shape, Request, PCs
<1>4. CASE req[q].op = "payout"
  <2>1. q = Job /\ After(q) = [Idle EXCEPT !.pc = "next", !.op = "payout", !.todo = req[q].todo]
    BY <1>3, <1>4 DEF After, Procs
  <2>2. After(q) \in Request /\ After(q).pc = "next" /\ After(q).op = "payout"
        /\ After(q).todo = req[q].todo
    <3>1. After(q) \in Request
      BY <1>1, <2>1, IdleTyped DEF Request, PCs
    <3>2. QED
      BY <2>1, <3>1 DEF Idle
  <2>3. QED
    BY <1>2, <1>3, <1>4, <2>1, <2>2 DEF Shape, Finish, Becomes, After
<1>5. CASE req[q].op # "payout"
  BY <1>5, IdleTyped DEF After, Finish, Becomes
<1>6. QED
  BY <1>4, <1>5

-----------------------------------------------------------------------------
(* Requests of clients                                                      *)

LEMMA CallTyped ==
  ASSUME TypeInv, NEW q \in Clients, NEW op, NEW r, Call(q, op, r)
  PROVE  /\ req' = [req EXCEPT ![q] = r]
         /\ calls' \in 0..MaxCalls /\ req[q].pc = "idle"
BY WalletAssumption DEF TypeInv, CountsOK, Call, Becomes

LEMMA LookupType ==
  ASSUME TypeInv, NEW q \in Clients, NEW u \in Users, NEW role \in {"RIDER", "USER"},
         NEW id, NEW op,
         \/ op = "get" /\ id = None
         \/ op \in {"order", "charge"} /\ id \in Orders,
         Lookup(q, op, u, id, role)
  PROVE  TypeInv'
<1> DEFINE r == [Idle EXCEPT !.pc = "find", !.op = op, !.user = u, !.id = id, !.role = role]
<1>1. r \in Request /\ Shape(q, r)
  <2>0. "find" \in PCs /\ op \in Handlers /\ id \in Ids \cup {None}
    BY DEF PCs, Handlers, Ids
  <2>1. r \in Request
    BY IdleTyped, <2>0 DEF Request
  <2>1a. r.pc = "find" /\ r.op = op /\ r.user = u /\ r.id = id /\ r.todo = {}
    BY DEF Idle
  <2>2. u \in registered
    BY DEF Lookup
  <2>3. q # Job
    BY WalletAssumption
  <2>4. QED
    BY <2>1, <2>1a, <2>2, <2>3 DEF Shape
<1>2. QED
  BY <1>1, CallTyped, ClientMoves DEF Lookup, TypeInv, CountsOK

\* Customers go on to the provider, riders straight to the insert.
LEMMA RegisterIs ==
  ASSUME TypeInv, NEW q \in Clients, NEW u \in Users, Register(q, u)
  PROVE  \E pc \in {"insert", "customer"} :
           /\ req' = [req EXCEPT ![q] = [Idle EXCEPT !.pc = pc, !.op = "register", !.user = u]]
           /\ pc = "insert" => u \in riders'
BY DEF Register, Call, Becomes, Initialise, RoleOf

LEMMA RegisterType ==
  ASSUME TypeInv, NEW q \in Clients, NEW u \in Users, Register(q, u)
  PROVE  TypeInv'
<1>1. PICK pc \in {"insert", "customer"} :
        req' = [req EXCEPT ![q] = [Idle EXCEPT !.pc = pc, !.op = "register", !.user = u]]
  BY RegisterIs
<1> DEFINE r == [Idle EXCEPT !.pc = pc, !.op = "register", !.user = u]
<1>2. /\ registered' = registered \cup {u} /\ riders' \subseteq riders \cup {u}
      /\ calls < MaxCalls /\ calls' = calls + 1
      /\ UNCHANGED <<wallets, code, accounts, shown, customers, paid, cashed, money, bus,
                     ledger, transfers, week, faults>>
  BY DEF Register, Call
<1>3. RowsOK' /\ MoneyOK' /\ BusOK' /\ CountsOK'
  <2>1. RowsOK' /\ MoneyOK' /\ BusOK'
    BY <1>2 DEF TypeInv, RowsOK, MoneyOK, BusOK, money
  <2>2. CountsOK'
    BY <1>2, WalletAssumption DEF TypeInv, CountsOK
  <2>3. QED
    BY <2>1, <2>2
<1>4. r \in Request /\ Shape(q, r)'
  <2>0. pc \in PCs /\ "register" \in Handlers
    BY DEF PCs, Handlers
  <2>1. r \in Request
    BY IdleTyped, <2>0 DEF Request
  <2>1a. r.pc \in {"insert", "customer"} /\ r.op = "register" /\ r.user = u /\ r.todo = {}
    BY DEF Idle
  <2>2. q # Job
    BY WalletAssumption
  <2>3. QED
    BY <1>2, <2>1, <2>1a, <2>2 DEF Shape
<1>5. ReqsOK'
  BY <1>1, <1>2, <1>4, ReqsMove DEF Procs
<1>6. TodoOK'
  BY <1>1, <1>2, ClientIsNotJob, TodoKept
<1>7. QED
  BY <1>3, <1>5, <1>6 DEF TypeInv

LEMMA StartWalletType ==
  ASSUME TypeInv, NEW q \in Clients, StartWallet(q)
  PROVE  TypeInv'
<1>0. q # Job
  BY WalletAssumption
<1>1. ASSUME NEW u \in Users, Register(q, u) PROVE TypeInv'
  BY <1>1, RegisterType
<1>2. ASSUME NEW u \in Users, GetWallet(q, u) PROVE TypeInv'
  <2>1. RoleOf(u) \in {"RIDER", "USER"}
    BY DEF RoleOf
  <2>2. QED
    BY <1>2, <2>1, LookupType DEF GetWallet
<1>3. ASSUME NEW u \in Users, NEW o \in Orders, PlaceOrder(q, u, o) PROVE TypeInv'
  BY <1>3, LookupType DEF PlaceOrder
<1>4. ASSUME NEW u \in Users, NEW o \in Orders, ChargeRider(q, u, o) PROVE TypeInv'
  BY <1>4, LookupType DEF ChargeRider
<1>5. ASSUME NEW u \in Users, NEW o \in Orders, PlaceCashOrder(q, u, o) PROVE TypeInv'
  <2> DEFINE r == [Idle EXCEPT !.pc = "cash", !.op = "cash", !.user = u, !.id = o]
  <2>1. r \in Request
    BY IdleTyped DEF Request, PCs, Handlers, Ids
  <2>1a. r.pc = "cash" /\ r.op = "cash" /\ r.user = u /\ r.id = o /\ r.todo = {}
    BY DEF Idle
  <2>2. u \in registered
    BY <1>5 DEF PlaceCashOrder
  <2>3. Shape(q, r)
    BY <1>0, <2>1a, <2>2 DEF Shape
  <2>4. QED
    BY <1>5, <2>1, <2>3, CallTyped, ClientMoves DEF PlaceCashOrder, TypeInv, CountsOK
<1>6. ASSUME NEW u \in Users, NEW o \in Orders, RewardRider(q, u, o) PROVE TypeInv'
  <2> DEFINE r == [Idle EXCEPT !.pc = "read", !.op = "reward", !.user = u, !.id = o]
  <2>1. r \in Request
    BY IdleTyped DEF Request, PCs, Handlers, Ids
  <2>1a. r.pc = "read" /\ r.op = "reward" /\ r.user = u /\ r.id = o /\ r.todo = {}
    BY DEF Idle
  <2>2. u \in registered
    BY <1>6 DEF RewardRider, TypeInv, RowsOK
  <2>3. Shape(q, r)
    BY <1>0, <2>1a, <2>2 DEF Shape
  <2>4. QED
    BY <1>6, <2>1, <2>3, CallTyped, ClientMoves DEF RewardRider, TypeInv, CountsOK
<1>7. ASSUME NEW p \in Payments, NEW k \in 1..customers, FundWallet(q, p, k)
      PROVE  TypeInv'
  <2> DEFINE r == [Idle EXCEPT !.pc = "verify", !.op = "fund", !.id = p, !.code = k]
  <2>0. k \in Nat
    BY DEF TypeInv, RowsOK
  <2>1. r \in Request
    BY IdleTyped, <2>0 DEF Request, PCs, Handlers, Ids
  <2>1a. r.pc = "verify" /\ r.op = "fund" /\ r.id = p /\ r.todo = {}
    BY DEF Idle
  <2>2. Shape(q, r)
    BY <1>0, <2>1a DEF Shape
  <2>3. QED
    BY <1>7, <2>1, <2>2, CallTyped, ClientMoves DEF FundWallet, TypeInv, CountsOK
<1>8. QED
  BY <1>1, <1>2, <1>3, <1>4, <1>5, <1>6, <1>7 DEF StartWallet

-----------------------------------------------------------------------------
(* The steps of a request                                                   *)

LEMMA Here ==
  ASSUME TypeInv, NEW q \in Procs
  PROVE  /\ req[q] \in Request /\ Shape(q, req[q])
         /\ req[q].pc \notin {"idle", "next", "transfer", "select", "write"} => q \in Clients
         /\ q \in Clients => q # Job
BY WalletAssumption DEF TypeInv, ReqsOK, Shape, Procs

LEMMA GotoTyped ==
  ASSUME TypeInv, NEW q \in Procs, NEW pc \in PCs
  PROVE  LET r == [req[q] EXCEPT !.pc = pc] IN
         /\ r \in Request /\ r.pc = pc /\ r.op = req[q].op /\ r.user = req[q].user
         /\ r.id = req[q].id /\ r.todo = req[q].todo /\ r.code = req[q].code
         /\ r.value = req[q].value /\ r.parts = req[q].parts /\ r.dirty = req[q].dirty
         /\ r.role = req[q].role
BY Here DEF Request

LEMMA PublishOK ==
  ASSUME BusOK, NEW u \in Users, NEW row \in LedgerRows, Publish(u, row),
         UNCHANGED <<ledger, transfers>>
  PROVE  BusOK'
BY DEF BusOK, Publish, Events

LEMMA PostOK ==
  ASSUME TypeInv, NEW q \in Procs, NEW value \in Int, NEW ps \in SUBSET Postings,
         req[q].pc \in {"select", "write", "commit", "decrement", "transfer"},
         Post(q, req[q].user, value, ps)
  PROVE  MoneyOK'
<1> DEFINE u == req[q].user
           x == Posting(req[q])
<1>1. u \in Users /\ x \in Postings
  BY PostingTyped
<1>2. /\ balance' = [balance EXCEPT ![u] = value]
      /\ parts' = [parts EXCEPT ![u] = ps]
      /\ posted' = [posted EXCEPT ![u] = @ \cup {x}]
      /\ raced' \subseteq raced \cup {u}
  BY DEF Post
<1> HIDE DEF u, x
<1>3. \A v \in Users : IsFiniteSet(posted'[v])
  <2>1. \A v \in Users : posted'[v] \in {posted[v], posted[v] \cup {x}}
    BY <1>1, <1>2 DEF TypeInv, MoneyOK
  <2>2. \A v \in Users : IsFiniteSet(posted[v])
    BY DEF TypeInv, MoneyOK
  <2>3. \A v \in Users : IsFiniteSet(posted[v] \cup {x})
    BY <2>2, FS_AddElement
  <2>4. QED
    BY <2>1, <2>2, <2>3
<1>4. QED
  BY <1>1, <1>2, <1>3 DEF TypeInv, MoneyOK

LEMMA PostCopyOK ==
  ASSUME TypeInv, NEW q \in Procs, req[q].pc \in {"write", "commit"}, PostCopy(q)
  PROVE  MoneyOK'
<1>1. req[q].user \in Users /\ Amount(req[q]) \in Int /\ Posting(req[q]) \in Postings
  BY PostingTyped
<1>2. /\ req[q].value \in Int /\ req[q].parts \in SUBSET Postings
      /\ balance[req[q].user] \in Int /\ parts[req[q].user] \in SUBSET Postings
  BY <1>1, Here DEF Request, TypeInv, MoneyOK
<1>3. CASE req[q].dirty
  <2>1. /\ req[q].value + Amount(req[q]) \in Int
        /\ req[q].parts \cup {Posting(req[q])} \in SUBSET Postings
    BY <1>1, <1>2
  <2>2. Post(q, req[q].user, req[q].value + Amount(req[q]),
             req[q].parts \cup {Posting(req[q])})
    BY <1>3 DEF PostCopy
  <2>3. QED
    BY <2>1, <2>2, PostOK
<1>4. CASE ~req[q].dirty
  <2> DEFINE ps == parts[req[q].user] \cup {p \in {Posting(req[q])} : p.amount = 0}
  <2>1. ps \in SUBSET Postings
    BY <1>1, <1>2
  <2>2. Post(q, req[q].user, balance[req[q].user], ps)
    BY <1>4 DEF PostCopy
  <2>3. QED
    BY <1>2, <2>1, <2>2, PostOK
<1>5. QED
  BY <1>3, <1>4

\* What comes of a wallet that was found or made
LEMMA HasFoundTyped ==
  ASSUME TypeInv, NEW q \in Clients, NEW v, HasFound(q, v),
         req[q].pc \in {"find", "insert"}
  PROVE  \E r \in Request :
           /\ req' = [req EXCEPT ![q] = r] /\ Shape(q, r)
           /\ \/ r = Idle
              \/ /\ r = [req[q] EXCEPT !.pc = "read"]
                 /\ req[q].op = "order" /\ ~(Total[req[q].id] > v)
              \/ r = [req[q] EXCEPT !.pc = "decrement"] /\ req[q].op = "charge"
<1>1. req[q] \in Request /\ Shape(q, req[q]) /\ q # Job /\ q \in Procs
  BY Here DEF Procs
<1>2. CASE Finish(q)
  BY <1>1, <1>2, AfterTyped, IdleTyped
<1>3. CASE req[q].op = "order" /\ ~(Total[req[q].id] > v) /\ Goto(q, "read")
  <2> DEFINE r == [req[q] EXCEPT !.pc = "read"]
  <2>0. "read" \in PCs
    BY DEF PCs
  <2>1. r \in Request /\ r.pc = "read" /\ r.op = "order" /\ r.user = req[q].user
        /\ r.id = req[q].id /\ r.todo = req[q].todo
    BY <1>1, <1>3, <2>0, GotoTyped
  <2>2. Shape(q, r)
    BY <1>1, <2>1 DEF Shape
  <2>3. QED
    BY <1>3, <2>1, <2>2 DEF Goto, Becomes
<1>4. CASE req[q].op = "charge" /\ Goto(q, "decrement")
  <2> DEFINE r == [req[q] EXCEPT !.pc = "decrement"]
  <2>0. "decrement" \in PCs
    BY DEF PCs
  <2>1. r \in Request /\ r.pc = "decrement" /\ r.op = "charge" /\ r.user = req[q].user
        /\ r.id = req[q].id /\ r.todo = req[q].todo
    BY <1>1, <1>4, <2>0, GotoTyped
  <2>2. Shape(q, r)
    BY <1>1, <2>1 DEF Shape
  <2>3. QED
    BY <1>4, <2>1, <2>2 DEF Goto, Becomes
<1>5. QED
  BY <1>2, <1>3, <1>4 DEF HasFound

\* A request of a client goes on and changes a table.
LEMMA ClientWrites ==
  ASSUME TypeInv, NEW q \in Clients, NEW r, req' = [req EXCEPT ![q] = r],
         r \in Request, Shape(q, r), RowsOK', MoneyOK', BusOK',
         registered' = registered, wallets \subseteq wallets',
         UNCHANGED <<week, calls, faults>>
  PROVE  TypeInv'
<1>1. Shape(q, r)'
  BY DEF Shape
<1>2. ReqsOK'
  BY <1>1, ReqsMove DEF Procs
<1>3. TodoOK'
  BY ClientIsNotJob, TodoKept
<1>4. QED
  BY <1>2, <1>3 DEF TypeInv, CountsOK

LEMMA FindWalletType ==
  ASSUME TypeInv, NEW q \in Procs, FindWallet(q)
  PROVE  TypeInv'
<1>1. req[q].pc = "find" /\ q \in Clients /\ req[q] \in Request /\ Shape(q, req[q]) /\ q # Job
  BY Here DEF FindWallet
<1>2. PICK r \in Request : req' = [req EXCEPT ![q] = r] /\ Shape(q, r)
  <2>1. CASE HasFound(q, balance[req[q].user])
    BY <1>1, <2>1, HasFoundTyped
  <2>2. ASSUME NEW pc \in {"insert", "customer"}, Goto(q, pc)
        PROVE  \E r \in Request : req' = [req EXCEPT ![q] = r] /\ Shape(q, r)
    <3> DEFINE r == [req[q] EXCEPT !.pc = pc]
    <3>1. pc \in PCs
      BY DEF PCs
    <3>2. r \in Request /\ r.pc = pc /\ r.op = req[q].op /\ r.user = req[q].user
          /\ r.id = req[q].id /\ r.todo = req[q].todo
      BY <3>1, GotoTyped
    <3> HIDE DEF r
    <3>3. Shape(q, r)
      BY <1>1, <3>2 DEF Shape
    <3>4. QED
      BY <2>2, <3>2, <3>3 DEF Goto, Becomes, r
  <2>3. Initialise(req[q].role) \in {"insert", "customer"}
    BY DEF Initialise
  <2>4. QED
    BY <2>1, <2>2, <2>3 DEF FindWallet
<1>3. QED
  BY <1>1, <1>2, ClientMoves DEF FindWallet, TypeInv, CountsOK

LEMMA CreateCustomerType ==
  ASSUME TypeInv, NEW q \in Procs, CreateCustomer(q)
  PROVE  TypeInv'
<1>1. /\ req[q].pc = "customer" /\ q \in Clients
      /\ req[q] \in Request /\ Shape(q, req[q]) /\ q # Job /\ req[q].user \in Users
  BY Here DEF CreateCustomer, TypeInv, RowsOK, Shape
<1>2. PICK k \in accounts[req[q].user] \cup {customers + 1} :
        /\ customers' = IF k > customers THEN k ELSE customers
        /\ Becomes(q, [req[q] EXCEPT !.pc = "account", !.code = k])
  BY DEF CreateCustomer
<1>3. k \in Nat /\ customers' \in Nat
  BY <1>1, <1>2 DEF TypeInv, RowsOK
<1> DEFINE r == [req[q] EXCEPT !.pc = "account", !.code = k]
<1>4. /\ r \in Request /\ r.pc = "account" /\ r.op = req[q].op /\ r.user = req[q].user
      /\ r.id = req[q].id /\ r.todo = req[q].todo
  <2>1. "account" \in PCs
    BY DEF PCs
  <2>2. QED
    BY <1>1, <1>3, <2>1 DEF Request
<1>5. RowsOK' /\ MoneyOK' /\ BusOK' /\ UNCHANGED <<registered, wallets, week, calls, faults>>
  BY <1>3 DEF CreateCustomer, TypeInv, RowsOK, MoneyOK, BusOK, money
<1>6. req' = [req EXCEPT ![q] = r]
  BY <1>2 DEF Becomes
<1> HIDE DEF r
<1>7. Shape(q, r)
  BY <1>1, <1>4 DEF Shape
<1>8. QED
  BY <1>1, <1>4, <1>5, <1>6, <1>7, ClientWrites

LEMMA SaveAccountType ==
  ASSUME TypeInv, NEW q \in Procs, SaveAccount(q)
  PROVE  TypeInv'
<1>1. /\ req[q].pc = "account" /\ q \in Clients
      /\ req[q] \in Request /\ Shape(q, req[q]) /\ q # Job
      /\ req[q].user \in Users /\ req[q].code \in Nat
  BY Here DEF SaveAccount, TypeInv, RowsOK, Shape, Request
<1> DEFINE r == [req[q] EXCEPT !.pc = "insert"]
<1>2. /\ r \in Request /\ r.pc = "insert" /\ r.op = req[q].op /\ r.user = req[q].user
      /\ r.id = req[q].id /\ r.todo = req[q].todo
  <2>1. "insert" \in PCs
    BY DEF PCs
  <2>2. QED
    BY <2>1, GotoTyped
<1>3. RowsOK' /\ MoneyOK' /\ BusOK' /\ UNCHANGED <<registered, wallets, week, calls, faults>>
  BY <1>1 DEF SaveAccount, TypeInv, RowsOK, MoneyOK, BusOK, money
<1>4. req' = [req EXCEPT ![q] = r]
  BY DEF SaveAccount, Goto, Becomes
<1> HIDE DEF r
<1>5. Shape(q, r)
  BY <1>1, <1>2 DEF Shape
<1>6. QED
  BY <1>1, <1>2, <1>3, <1>4, <1>5, ClientWrites

LEMMA InsertWalletType ==
  ASSUME TypeInv, NEW q \in Procs, InsertWallet(q)
  PROVE  TypeInv'
<1>1. /\ req[q].pc = "insert" /\ q \in Clients
      /\ req[q] \in Request /\ Shape(q, req[q]) /\ q # Job
      /\ req[q].user \in registered /\ req[q].code \in Nat
  BY Here DEF InsertWallet, Shape, Request
<1>2. PICK r \in Request : req' = [req EXCEPT ![q] = r] /\ Shape(q, r)
  BY <1>1, HasFoundTyped, AfterTyped, IdleTyped DEF InsertWallet, Procs
<1>3. /\ RowsOK' /\ MoneyOK' /\ BusOK'
      /\ wallets \subseteq wallets' /\ UNCHANGED <<registered, week, calls, faults>>
  BY <1>1 DEF InsertWallet, TypeInv, RowsOK, MoneyOK, BusOK, money
<1>4. QED
  BY <1>1, <1>2, <1>3, ClientWrites

LEMMA RecordCashOrderType ==
  ASSUME TypeInv, NEW q \in Procs, RecordCashOrder(q)
  PROVE  TypeInv'
<1>1. /\ req[q].pc = "cash" /\ q \in Clients
      /\ req[q].user \in Users /\ req[q].id \in Orders
  BY Here DEF RecordCashOrder, TypeInv, RowsOK, Shape
<1>2. CashRow(req[q].id) \in LedgerRows
  <2>1. Total[req[q].id] \in Int
    BY <1>1, WalletAssumption
  <2>2. QED
    BY <1>1, <2>1 DEF CashRow, LedgerRows, Types, Ids
<1>3. BusOK'
  BY <1>1, <1>2, PublishOK DEF RecordCashOrder, TypeInv, BusOK
<1>4. RowsOK' /\ MoneyOK' /\ UNCHANGED <<registered, wallets, week, calls, faults>>
  BY <1>1 DEF RecordCashOrder, TypeInv, RowsOK, MoneyOK, money
<1>5. req' = [req EXCEPT ![q] = Idle]
  BY <1>1, AfterTyped DEF RecordCashOrder
<1>6. QED
  BY <1>1, <1>3, <1>4, <1>5, IdleTyped, ClientWrites

LEMMA FindFundedType ==
  ASSUME TypeInv, NEW q \in Procs, FindFunded(q)
  PROVE  TypeInv'
<1>1. /\ req[q].pc = "verify" /\ q \in Clients
      /\ req[q] \in Request /\ Shape(q, req[q]) /\ q # Job
  BY Here DEF FindFunded
<1>2. CASE Finish(q)
  <2>1. req' = [req EXCEPT ![q] = Idle]
    BY <1>1, <1>2, AfterTyped
  <2>2. QED
    BY <1>1, <2>1, IdleTyped, ClientMoves DEF FindFunded, TypeInv, CountsOK
<1>3. ASSUME NEW u \in wallets,
             Becomes(q, [req[q] EXCEPT !.pc = "known", !.user = u, !.value = balance[u],
                                       !.parts = parts[u]])
      PROVE  TypeInv'
  <2> DEFINE r == [req[q] EXCEPT !.pc = "known", !.user = u, !.value = balance[u],
                                 !.parts = parts[u]]
  <2>1. u \in Users /\ u \in registered /\ balance[u] \in Int /\ parts[u] \in SUBSET Postings
    BY DEF TypeInv, RowsOK, MoneyOK
  <2>2. /\ r \in Request /\ r.pc = "known" /\ r.op = req[q].op /\ r.user = u
        /\ r.id = req[q].id /\ r.todo = req[q].todo
    <3>1. "known" \in PCs
      BY DEF PCs
    <3>2. QED
      BY <1>1, <2>1, <3>1 DEF Request
  <2>3. req' = [req EXCEPT ![q] = r]
    BY <1>3 DEF Becomes
  <2> HIDE DEF r
  <2>4. Shape(q, r)
    BY <1>1, <2>1, <2>2 DEF Shape
  <2>5. QED
    BY <1>1, <2>2, <2>3, <2>4, ClientMoves DEF FindFunded, TypeInv, CountsOK
<1>4. QED
  BY <1>2, <1>3 DEF FindFunded

LEMMA CheckExistingType ==
  ASSUME TypeInv, NEW q \in Procs, CheckExisting(q)
  PROVE  TypeInv'
<1>1. /\ req[q].pc = "known" /\ q \in Clients
      /\ req[q] \in Request /\ Shape(q, req[q]) /\ q # Job
  BY Here DEF CheckExisting
<1>2. CASE Finish(q)
  <2>1. req' = [req EXCEPT ![q] = Idle]
    BY <1>1, <1>2, AfterTyped
  <2>2. QED
    BY <1>1, <2>1, IdleTyped, ClientMoves DEF CheckExisting, TypeInv, CountsOK
<1>3. CASE Goto(q, "select")
  <2> DEFINE r == [req[q] EXCEPT !.pc = "select"]
  <2>1. "select" \in PCs
    BY DEF PCs
  <2>2. /\ r \in Request /\ r.pc = "select" /\ r.op = req[q].op /\ r.user = req[q].user
        /\ r.id = req[q].id /\ r.todo = req[q].todo
    BY <2>1, GotoTyped
  <2>3. req' = [req EXCEPT ![q] = r]
    BY <1>3 DEF Goto, Becomes
  <2> HIDE DEF r
  <2>4. Shape(q, r)
    BY <1>1, <2>2 DEF Shape
  <2>5. QED
    BY <1>1, <2>2, <2>3, <2>4, ClientMoves DEF CheckExisting, TypeInv, CountsOK
<1>4. QED
  BY <1>2, <1>3 DEF CheckExisting

LEMMA ReadWalletType ==
  ASSUME TypeInv, NEW q \in Procs, ReadWallet(q)
  PROVE  TypeInv'
<1>1. /\ req[q].pc = "read" /\ q \in Clients
      /\ req[q] \in Request /\ Shape(q, req[q]) /\ q # Job /\ req[q].user \in Users
  BY Here DEF ReadWallet, Shape, TypeInv, RowsOK
<1> DEFINE r == [req[q] EXCEPT !.pc = "select", !.value = balance[req[q].user],
                               !.parts = parts[req[q].user]]
<1>2. balance[req[q].user] \in Int /\ parts[req[q].user] \in SUBSET Postings
  BY <1>1 DEF TypeInv, MoneyOK
<1>3. /\ r \in Request /\ r.pc = "select" /\ r.op = req[q].op /\ r.user = req[q].user
      /\ r.id = req[q].id /\ r.todo = req[q].todo
  <2>1. "select" \in PCs
    BY DEF PCs
  <2>2. QED
    BY <1>1, <1>2, <2>1 DEF Request
<1>4. req' = [req EXCEPT ![q] = r]
  BY DEF ReadWallet, Becomes
<1> HIDE DEF r
<1>5. Shape(q, r)
  BY <1>1, <1>3 DEF Shape
<1>6. QED
  BY <1>1, <1>3, <1>4, <1>5, ClientMoves DEF ReadWallet, TypeInv, CountsOK

\* A posting, or its row, is on its way, and the request is over or goes to its commit.
LEMMA RequestWrites ==
  ASSUME TypeInv, NEW q \in Procs, NEW r, req' = [req EXCEPT ![q] = r],
         r \in Request, Shape(q, r), MoneyOK', BusOK', UNCHANGED <<rows, week, calls>>,
         faults' \in Seq(SUBSET Orders),
         r.todo \subseteq req[q].todo, r.pc \in {"idle", "next", "commit"},
         req[q].pc # "idle"
  PROVE  TypeInv'
<1>1. ReqsOK'
  <2>1. Shape(q, r)'
    BY DEF Shape, rows
  <2>2. QED
    BY <2>1, ReqsMove DEF rows
<1>2. TodoOK'
  <2>1. CASE q = Job
    <3>1. req'[Job] = r
      BY <2>1 DEF TypeInv, ReqsOK
    <3>2. QED
      BY <2>1, <3>1 DEF TypeInv, TodoOK, rows
  <2>2. CASE q # Job
    BY <2>2, ClientIsNotJob, TodoKept DEF rows, Procs
  <2>3. QED
    BY <2>1, <2>2
<1>3. RowsOK' /\ CountsOK'
  BY DEF TypeInv, RowsOK, CountsOK, rows
<1>4. QED
  BY <1>1, <1>2, <1>3 DEF TypeInv

LEMMA SelectWalletType ==
  ASSUME TypeInv, NEW q \in Procs, SelectWallet(q)
  PROVE  TypeInv'
<1>1. req[q].pc = "select" /\ req[q] \in Request /\ Shape(q, req[q])
  BY Here DEF SelectWallet
<1> DEFINE d == (req[q].value + Amount(req[q]) # balance[req[q].user])
           r == [req[q] EXCEPT !.pc = "write", !.dirty = d]
<1>2. req' = [req EXCEPT ![q] = r]
      /\ UNCHANGED <<rows, money, bus, ledger, transfers, week, calls, faults>>
  BY DEF SelectWallet, Becomes
<1>3. "write" \in PCs /\ d \in BOOLEAN
  BY DEF PCs
<1> HIDE DEF d
<1>4. /\ r \in Request /\ r.pc = "write" /\ r.op = req[q].op /\ r.user = req[q].user
      /\ r.id = req[q].id /\ r.todo = req[q].todo /\ r.value = req[q].value
  BY <1>1, <1>3 DEF Request
<1> HIDE DEF r
<1>5. Shape(q, r)
  BY <1>1, <1>4 DEF Shape
<1>6. CASE q \in Clients
  BY <1>2, <1>4, <1>5, <1>6, ClientMoves DEF TypeInv, CountsOK
<1>7. CASE q = Job
  <2>1. /\ \A c \in r.todo : c.user \in wallets /\ c.value > 0
        /\ r.user \in wallets /\ r.value > 0 /\ week > 0 /\ week \in week..MaxWeeks
    BY <1>1, <1>4, <1>7, WalletAssumption DEF TypeInv, TodoOK, CountsOK
  <2>2. req' = [req EXCEPT ![Job] = r] /\ Shape(Job, r)
    BY <1>2, <1>5, <1>7
  <2>3. week' \in week..MaxWeeks /\ calls' = calls /\ faults' \in Seq(SUBSET Orders) /\ week' > 0
    BY <1>2, <2>1 DEF TypeInv, CountsOK
  <2>4. QED
    BY <1>2, <1>4, <2>1, <2>2, <2>3, JobMoves
<1>8. QED
  BY <1>6, <1>7 DEF Procs

LEMMA WriteWalletType ==
  ASSUME TypeInv, NEW q \in Procs, WriteWallet(q)
  PROVE  TypeInv'
<1>1. req[q].pc = "write"
  BY DEF WriteWallet
<1>2. MoneyOK'
  BY <1>1, PostCopyOK DEF WriteWallet
<1>3. BusOK'
  BY <1>1, PostingTyped, PublishOK DEF WriteWallet, TypeInv
<1>4. QED
  BY <1>1, <1>2, <1>3, AfterTyped, RequestWrites DEF WriteWallet, TypeInv, CountsOK

LEMMA WriteRewardType ==
  ASSUME TypeInv, NEW q \in Procs, WriteReward(q)
  PROVE  TypeInv'
<1>1. /\ req[q].pc = "write" /\ req[q].op = "reward"
      /\ req[q] \in Request /\ Shape(q, req[q])
  BY Here DEF WriteReward
<1>2. MoneyOK'
  BY DEF WriteReward, TypeInv, MoneyOK, money
<1>3. BusOK'
  BY <1>1, PostingTyped, PublishOK DEF WriteReward, TypeInv
<1> DEFINE r == [req[q] EXCEPT !.pc = "commit"]
<1>4. "commit" \in PCs
  BY DEF PCs
<1>5. /\ r \in Request /\ r.pc = "commit" /\ r.op = req[q].op /\ r.user = req[q].user
      /\ r.id = req[q].id /\ r.todo = req[q].todo
  BY <1>4, GotoTyped
<1>6. req' = [req EXCEPT ![q] = r]
  BY DEF WriteReward, Goto, Becomes
<1> HIDE DEF r
<1>7. q # Job
  BY <1>1 DEF Shape
<1>8. Shape(q, r)
  BY <1>1, <1>5, <1>7 DEF Shape
<1>9. QED
  BY <1>1, <1>2, <1>3, <1>5, <1>6, <1>8, RequestWrites DEF WriteReward, TypeInv, CountsOK

LEMMA CommitRewardType ==
  ASSUME TypeInv, NEW q \in Procs, CommitReward(q)
  PROVE  TypeInv'
<1>1. req[q].pc = "commit"
  BY DEF CommitReward
<1>2. MoneyOK'
  BY <1>1, PostCopyOK DEF CommitReward
<1>3. BusOK'
  BY DEF CommitReward, TypeInv, BusOK
<1>4. QED
  BY <1>1, <1>2, <1>3, AfterTyped, RequestWrites DEF CommitReward, TypeInv, CountsOK

LEMMA DecrementType ==
  ASSUME TypeInv, NEW q \in Procs, Decrement(q)
  PROVE  TypeInv'
<1>1. req[q].pc = "decrement"
  BY DEF Decrement
<1>2. /\ req[q].user \in Users /\ Amount(req[q]) \in Int /\ Posting(req[q]) \in Postings
      /\ Row(Posting(req[q])) \in LedgerRows
  BY <1>1, PostingTyped
<1>3. /\ balance[req[q].user] + Amount(req[q]) \in Int
      /\ parts[req[q].user] \cup {Posting(req[q])} \in SUBSET Postings
  BY <1>2 DEF TypeInv, MoneyOK
<1>4. MoneyOK'
  BY <1>1, <1>3, PostOK DEF Decrement
<1>5. BusOK'
  BY <1>2, PublishOK DEF Decrement, TypeInv
<1>6. QED
  BY <1>1, <1>4, <1>5, AfterTyped, RequestWrites DEF Decrement, TypeInv, CountsOK

LEMMA StepWalletType ==
  ASSUME TypeInv, NEW q \in Procs, StepWallet(q)
  PROVE  TypeInv'
BY FindWalletType, CreateCustomerType, SaveAccountType, InsertWalletType,
   RecordCashOrderType, FindFundedType, CheckExistingType, ReadWalletType,
   SelectWalletType, WriteWalletType, WriteRewardType, CommitRewardType, DecrementType
   DEF StepWallet

-----------------------------------------------------------------------------
(* The payout job                                                           *)

LEMMA JobIn == Job \in Procs /\ Job \notin Clients
BY WalletAssumption DEF Procs

LEMMA StartPayoutsType ==
  ASSUME TypeInv, StartPayouts
  PROVE  TypeInv'
<1> DEFINE todo == {[user |-> u, value |-> balance[u], parts |-> parts[u]] :
                      u \in {v \in riders \cap wallets : balance[v] >= MinPayout}}
           r == [Idle EXCEPT !.pc = "next", !.op = "payout", !.todo = todo]
<1>1. /\ req' = [req EXCEPT ![Job] = r] /\ week < MaxWeeks /\ week' = week + 1
      /\ UNCHANGED <<rows, money, bus, ledger, transfers, calls, faults>>
  BY DEF StartPayouts, Becomes
<1>2. MinPayout \in Nat \ {0} /\ MaxWeeks \in Nat
  BY WalletAssumption
<1>3. \A u \in riders \cap wallets :
        u \in Users /\ balance[u] \in Int /\ parts[u] \in SUBSET Postings
  BY DEF TypeInv, RowsOK, MoneyOK
<1>4. todo \in SUBSET Copies /\ \A c \in todo : c.user \in wallets /\ c.value > 0
  BY <1>2, <1>3 DEF Copies
<1> HIDE DEF todo
<1>5. /\ r \in Request /\ r.pc = "next" /\ r.op = "payout" /\ r.todo = todo
  <2>1. "next" \in PCs
    BY DEF PCs
  <2>2. r \in Request
    BY <1>4, <2>1, IdleTyped DEF Request
  <2>3. QED
    BY <2>2 DEF Idle
<1> HIDE DEF r
<1>6. Shape(Job, r)
  BY <1>5, JobIn DEF Shape
<1>7. /\ week' \in week..MaxWeeks /\ week' > 0 /\ faults' \in Seq(SUBSET Orders)
  BY <1>1, <1>2 DEF TypeInv, CountsOK
<1>8. QED
  BY <1>1, <1>4, <1>5, <1>6, <1>7, JobMoves

LEMMA NextPayoutType ==
  ASSUME TypeInv, NextPayout
  PROVE  TypeInv'
<1>1. /\ req[Job].pc = "next" /\ req[Job] \in Request /\ Shape(Job, req[Job])
      /\ UNCHANGED <<rows, money, bus, ledger, transfers, week, calls, faults>>
      /\ \A c \in req[Job].todo : c.user \in wallets /\ c.value > 0
      /\ week \in 0..MaxWeeks /\ week > 0 /\ MaxWeeks \in Nat /\ faults \in Seq(SUBSET Orders)
  BY Here, JobIn, WalletAssumption DEF NextPayout, TypeInv, TodoOK, CountsOK
<1>2. week' \in week..MaxWeeks /\ week' > 0 /\ calls' = calls /\ faults' \in Seq(SUBSET Orders)
  BY <1>1
<1>3. ASSUME NEW c \in req[Job].todo,
             Becomes(Job, [req[Job] EXCEPT !.pc = "transfer", !.user = c.user, !.id = week,
                             !.value = c.value, !.parts = c.parts, !.todo = @ \ {c}])
      PROVE  TypeInv'
  <2> DEFINE todo == req[Job].todo \ {c}
             r == [req[Job] EXCEPT !.pc = "transfer", !.user = c.user, !.id = week,
                             !.value = c.value, !.parts = c.parts, !.todo = todo]
  <2>1. req' = [req EXCEPT ![Job] = r]
    BY <1>3 DEF Becomes
  <2>2. /\ c.user \in Users /\ c.user \in registered /\ c.value \in Int
        /\ c.parts \in SUBSET Postings /\ todo \in SUBSET Copies
    BY <1>1 DEF Request, Copies, TypeInv, RowsOK
  <2>3. "transfer" \in PCs /\ week \in Ids /\ week \in 1..MaxWeeks
    BY <1>1 DEF PCs, Ids
  <2> HIDE DEF todo
  <2>4. /\ r \in Request /\ r.pc = "transfer" /\ r.op = req[Job].op /\ r.user = c.user
        /\ r.id = week /\ r.value = c.value /\ r.todo = todo
    BY <1>1, <2>2, <2>3 DEF Request
  <2> HIDE DEF r
  <2>5. Shape(Job, r)
    BY <1>1, <2>2, <2>3, <2>4, JobIn DEF Shape
  <2>6. /\ \A d \in r.todo : d.user \in wallets /\ d.value > 0
        /\ r.user \in wallets /\ r.value > 0
    BY <1>1, <2>4 DEF todo
  <2>7. QED
    BY <1>1, <1>2, <2>1, <2>4, <2>5, <2>6, JobMoves
<1>4. CASE req[Job].todo = {} /\ Becomes(Job, Idle)
  <2>1. /\ req' = [req EXCEPT ![Job] = Idle] /\ Idle \in Request /\ Shape(Job, Idle)
        /\ Idle.pc = "idle" /\ Idle.todo = {}
    BY <1>4, IdleTyped, JobIn DEF Becomes
  <2>2. QED
    BY <1>1, <1>2, <2>1, JobMoves
<1>5. QED
  BY <1>3, <1>4 DEF NextPayout

LEMMA TransferTyped ==
  ASSUME TypeInv, req[Job].pc = "transfer", UNCHANGED transfers
                  \/ transfers' = transfers \cup {Transfer(req[Job])}
  PROVE  /\ transfers' \subseteq [user : Users, id : Ids, amount : Nat]
         /\ req[Job].user \in Users /\ req[Job].id \in Ids /\ req[Job].value \in Nat
<1>1. /\ req[Job].user \in Users /\ req[Job].id \in Ids /\ req[Job].value \in Int
      /\ req[Job].value > 0
  BY Here, JobIn, PostingTyped DEF Request, TypeInv, TodoOK
<1>2. QED
  BY <1>1 DEF Transfer, TypeInv, BusOK

LEMMA GiveUpType ==
  ASSUME TypeInv, NoOption \/ TransferFails \/ TransferTimesOut
  PROVE  TypeInv'
<1>1. /\ req[Job].pc = "transfer"
      /\ UNCHANGED transfers \/ transfers' = transfers \cup {Transfer(req[Job])}
      /\ UNCHANGED <<rows, money, ledger, week, calls, faults>>
  BY DEF NoOption, TransferFails, TransferTimesOut
<1>2. /\ transfers' \subseteq [user : Users, id : Ids, amount : Nat]
      /\ req[Job].user \in Users /\ req[Job].id \in Ids /\ req[Job].value \in Nat
  BY <1>1, TransferTyped
<1>3. PICK type \in Types, amount \in Nat : GiveUp(type, amount)
  BY <1>2 DEF NoOption, TransferFails, TransferTimesOut, Types
<1> DEFINE row == [type |-> type, id |-> req[Job].id, nth |-> 0, amount |-> amount,
                   status |-> "failed", cash |-> FALSE]
<1>4. row \in LedgerRows
  BY <1>2 DEF LedgerRows
<1> HIDE DEF row
<1>5. bus' = bus \cup {[user |-> req[Job].user, row |-> row]}
  BY <1>3 DEF GiveUp, Publish, row
<1>6. BusOK'
  BY <1>1, <1>2, <1>4, <1>5 DEF TypeInv, BusOK, Events
<1>7. MoneyOK'
  BY <1>1 DEF TypeInv, MoneyOK, money
<1>8. Finish(Job)
  BY <1>3 DEF GiveUp
<1>9. QED
  BY <1>1, <1>6, <1>7, <1>8, JobIn, AfterTyped, RequestWrites DEF TypeInv, CountsOK

LEMMA JobTransfers ==
  ASSUME TypeInv, NEW r, req' = [req EXCEPT ![Job] = r], r \in Request, Shape(Job, r),
         MoneyOK', BusOK', UNCHANGED <<rows, week, calls, faults>>,
         req[Job].pc = "transfer",
         r.todo = req[Job].todo, r.user = req[Job].user, r.value = req[Job].value
  PROVE  TypeInv'
<1>1. ReqsOK'
  <2>1. Shape(Job, r)'
    BY DEF Shape, rows
  <2>2. QED
    BY <2>1, JobIn, ReqsMove DEF rows
<1>2. TodoOK'
  <2>1. req'[Job] = r
    BY JobIn DEF TypeInv, ReqsOK
  <2>2. QED
    BY <2>1 DEF TypeInv, TodoOK, rows
<1>3. RowsOK' /\ CountsOK'
  BY DEF TypeInv, RowsOK, CountsOK, rows
<1>4. QED
  BY <1>1, <1>2, <1>3 DEF TypeInv

LEMMA TransferSucceedsType ==
  ASSUME TypeInv, TransferSucceeds
  PROVE  TypeInv'
<1>1. /\ req[Job].pc = "transfer" /\ req[Job] \in Request /\ Shape(Job, req[Job])
      /\ transfers' = transfers \cup {Transfer(req[Job])}
      /\ UNCHANGED <<rows, money, bus, ledger, week, calls, faults>>
      /\ Goto(Job, "select")
  BY Here, JobIn DEF TransferSucceeds
<1>2. transfers' \subseteq [user : Users, id : Ids, amount : Nat]
  BY <1>1, TransferTyped
<1> DEFINE r == [req[Job] EXCEPT !.pc = "select"]
<1>3. "select" \in PCs
  BY DEF PCs
<1>4. /\ r \in Request /\ r.pc = "select" /\ r.op = req[Job].op /\ r.user = req[Job].user
      /\ r.id = req[Job].id /\ r.todo = req[Job].todo /\ r.value = req[Job].value
  BY <1>3, JobIn, GotoTyped
<1>5. req' = [req EXCEPT ![Job] = r]
  BY <1>1 DEF Goto, Becomes
<1> HIDE DEF r
<1>6. Shape(Job, r)
  BY <1>1, <1>4, JobIn DEF Shape
<1>7. MoneyOK' /\ BusOK'
  BY <1>1, <1>2 DEF TypeInv, MoneyOK, BusOK, money
<1>8. QED
  BY <1>1, <1>4, <1>5, <1>6, <1>7, JobTransfers

-----------------------------------------------------------------------------
(* Failures, the bus and the provider                                       *)

\* Rewards are of orders.
LEMMA AnnouncedOrders ==
  ASSUME TypeInv, NEW ps \in SUBSET Procs
  PROVE  Announced(ps) \in SUBSET Orders
<1>1. \A q \in ps : req[q].pc = "commit" => req[q].id \in Orders
  BY Here DEF Shape
<1>2. QED
  BY <1>1 DEF Announced

LEMMA FailType ==
  ASSUME TypeInv, NEW q \in Procs, Fail(q)
  PROVE  TypeInv'
<1>1. /\ req[q].pc # "idle" /\ Finish(q) /\ faults' \in Seq(SUBSET Orders)
      /\ UNCHANGED <<rows, money, bus, ledger, transfers, week, calls>>
  <2>1. Announced({q}) \in SUBSET Orders
    BY AnnouncedOrders
  <2>2. faults \in Seq(SUBSET Orders)
    BY DEF TypeInv, CountsOK
  <2>3. faults' = Append(faults, Announced({q}))
    BY DEF Fail
  <2>4. faults' \in Seq(SUBSET Orders)
    BY <2>1, <2>2, <2>3, AppendProperties
  <2>5. QED
    BY <2>4 DEF Fail
<1>2. MoneyOK' /\ BusOK'
  BY <1>1 DEF TypeInv, MoneyOK, BusOK, money
<1>3. QED
  BY <1>1, <1>2, AfterTyped, RequestWrites

LEMMA CrashType ==
  ASSUME TypeInv, Crash
  PROVE  TypeInv'
<1>1. RowsOK' /\ MoneyOK' /\ BusOK' /\ CountsOK'
  <2>1. Announced(Procs) \in SUBSET Orders
    BY AnnouncedOrders
  <2>2. faults \in Seq(SUBSET Orders) /\ faults' = Append(faults, Announced(Procs))
    BY DEF Crash, TypeInv, CountsOK
  <2>3. faults' \in Seq(SUBSET Orders)
    BY <2>1, <2>2, AppendProperties
  <2>4. QED
    BY <2>3 DEF Crash, TypeInv, RowsOK, MoneyOK, BusOK, CountsOK, rows, money
<1>2. ReqsOK' /\ TodoOK'
  <2>1. \A q \in Procs : Shape(q, Idle)'
    BY IdleTyped DEF Shape, Crash, rows
  <2>2. QED
    BY <2>1, IdleTyped, JobIn DEF Crash, ReqsOK, TodoOK
<1>3. QED
  BY <1>1, <1>2 DEF TypeInv

\* Steps that no request takes
LEMMA WorldType ==
  ASSUME TypeInv,
         \/ \E e \in bus : SaveTransaction(e) \/ LoseEvent(e)
         \/ \E u \in Users : GetVirtualAccount(u) \/ \E p \in Payments : Pay(u, p)
         \/ UNCHANGED vars
  PROVE  TypeInv'
<1>1. /\ UNCHANGED <<registered, wallets, riders, money, transfers, week, req, calls>>
      /\ faults' \in {faults, Append(faults, {})}
  BY DEF SaveTransaction, LoseEvent, GetVirtualAccount, Pay, vars, rows
<1>2. RowsOK'
  <2>1. ASSUME NEW u \in Users, GetVirtualAccount(u) PROVE RowsOK'
    BY <2>1 DEF GetVirtualAccount, TypeInv, RowsOK
  <2>2. ASSUME NEW u \in Users, NEW p \in Payments, Pay(u, p) PROVE RowsOK'
    BY <2>2 DEF Pay, TypeInv, RowsOK
  <2>3. CASE UNCHANGED rows
    BY <2>3 DEF TypeInv, RowsOK, rows
  <2>4. QED
    BY <2>1, <2>2, <2>3 DEF SaveTransaction, LoseEvent, vars
<1>3. BusOK'
  <2>1. ASSUME NEW e \in bus, SaveTransaction(e) PROVE BusOK'
    <3>1. e.user \in Users /\ e.row \in LedgerRows
      BY DEF TypeInv, BusOK, Events
    <3>2. QED
      BY <2>1, <3>1 DEF SaveTransaction, TypeInv, BusOK
  <2>2. ASSUME NEW e \in bus, LoseEvent(e) PROVE BusOK'
    BY <2>2 DEF LoseEvent, TypeInv, BusOK
  <2>3. CASE UNCHANGED <<bus, ledger, transfers>>
    BY <2>3 DEF TypeInv, BusOK
  <2>4. QED
    BY <2>1, <2>2, <2>3 DEF GetVirtualAccount, Pay, vars
<1>4. MoneyOK' /\ ReqsOK' /\ TodoOK'
  BY <1>1 DEF TypeInv, MoneyOK, ReqsOK, Shape, TodoOK, money
<1>5. CountsOK'
  <2>1. faults' \in Seq(SUBSET Orders)
    BY <1>1 DEF TypeInv, CountsOK
  <2>2. QED
    BY <1>1, <2>1 DEF TypeInv, CountsOK
<1>6. QED
  BY <1>2, <1>3, <1>4, <1>5 DEF TypeInv

LEMMA TypeNext ==
  ASSUME TypeInv, [Next]_vars
  PROVE  TypeInv'
BY StartPayoutsType, StartWalletType, StepWalletType, NextPayoutType, GiveUpType,
   TransferSucceedsType, FailType, CrashType, WorldType, JobIn
   DEF Next, Step, StepPayouts, Quiet

LEMMA TypeAlways == Spec => []TypeInv
BY TypeInit, TypeNext, PTL DEF Spec

\* The tables, the bus and the requests hold what their columns say.
THEOREM MoneyTyped == Spec => []TypeOK
<1>1. TypeInv => TypeOK
  BY DEF TypeInv, RowsOK, MoneyOK, BusOK, CountsOK, ReqsOK, TypeOK
<1>2. QED
  BY <1>1, TypeAlways, PTL

-----------------------------------------------------------------------------
(* Virtual accounts: a code belongs to one user, and is stored before a     *)
(* wallet has it.                                                           *)

AccountRows == <<riders, wallets, code, accounts, customers>>

Provided(r) ==
  /\ r.pc = "find" => r.code = 0 /\ (r.role = "RIDER" => r.user \in riders)
  /\ r.pc = "account" =>
       /\ r.code \in 1..customers
       /\ \A u \in Users \ {r.user} : r.code \notin accounts[u]
  /\ r.pc = "insert" =>
       /\ r.code # 0 => r.code \in accounts[r.user]
       /\ r.user \notin riders => r.code # 0

AccountInv ==
  /\ AccountBehindWallet
  /\ \A u \in Users : accounts[u] \subseteq 1..customers
  /\ \A u, v \in Users : u # v => accounts[u] \cap accounts[v] = {}
  /\ \A q \in Clients : Provided(req[q])
  /\ \A q, p \in Clients :
       req[q].pc = "account" /\ req[p].pc = "account" /\ req[q].code = req[p].code =>
         req[q].user = req[p].user

LEMMA AccountInit == Init => AccountInv
BY DEF Init, AccountInv, AccountBehindWallet, Provided, Idle, Procs

\* Requests end, or go where no account is made.
LEMMA AccountFrame ==
  ASSUME AccountInv, UNCHANGED AccountRows,
         \A q \in Clients : \/ req'[q] = req[q]
                            \/ /\ req'[q].pc \notin {"account", "insert"}
                               /\ req'[q].pc = "find" => Provided(req'[q])
  PROVE  AccountInv'
<1>1. AccountBehindWallet'
  BY DEF AccountInv, AccountBehindWallet, AccountRows
<1>2. \A q \in Clients : Provided(req[q])'
  BY DEF AccountInv, Provided, AccountRows
<1>3. \A q, p \in Clients :
        req'[q].pc = "account" /\ req'[p].pc = "account" /\ req'[q].code = req'[p].code =>
          req'[q].user = req'[p].user
  BY DEF AccountInv
<1>4. QED
  BY <1>1, <1>2, <1>3 DEF AccountInv, AccountRows

\* The same, for one request
LEMMA AccountMove ==
  ASSUME TypeInv, AccountInv, UNCHANGED AccountRows, NEW q \in Procs, NEW r,
         req' = [req EXCEPT ![q] = r],
         r.pc \notin {"account", "insert"}, r.pc = "find" => Provided(r)
  PROVE  AccountInv'
<1>1. \A p \in Procs : req'[p] = IF p = q THEN r ELSE req[p]
  BY DEF TypeInv, ReqsOK
<1>2. QED
  BY <1>1, AccountFrame DEF Procs

LEMMA GotoIs ==
  ASSUME TypeInv, NEW q \in Procs, NEW pc \in PCs, Goto(q, pc)
  PROVE  \E r : req' = [req EXCEPT ![q] = r] /\ r.pc = pc
<1> DEFINE r == [req[q] EXCEPT !.pc = pc]
<1>1. r.pc = pc
  BY GotoTyped
<1>2. req' = [req EXCEPT ![q] = r]
  BY DEF Goto, Becomes
<1>3. QED
  BY <1>1, <1>2

LEMMA HasFoundIs ==
  ASSUME TypeInv, NEW q \in Clients, NEW v, HasFound(q, v), req[q].pc # "idle"
  PROVE  \E r : req' = [req EXCEPT ![q] = r] /\ r.pc \in {"idle", "read", "decrement"}
<1>1. q \in Procs /\ {"read", "decrement"} \subseteq PCs
  BY DEF Procs, PCs
<1>2. CASE Finish(q)
  BY <1>1, <1>2, AfterTyped, IdleTyped
<1>3. CASE Goto(q, "read") \/ Goto(q, "decrement")
  BY <1>1, <1>3, GotoIs
<1>4. QED
  BY <1>2, <1>3 DEF HasFound

\* Where most steps lead
LEMMA Elsewhere ==
  ASSUME TypeInv, NEW q \in Procs,
         \/ RecordCashOrder(q) \/ FindFunded(q) \/ CheckExisting(q) \/ ReadWallet(q)
         \/ SelectWallet(q) \/ WriteWallet(q) \/ WriteReward(q) \/ CommitReward(q)
         \/ Decrement(q) \/ Fail(q)
  PROVE  /\ UNCHANGED AccountRows
         /\ \E r : /\ req' = [req EXCEPT ![q] = r]
                   /\ r.pc \in {"idle", "next", "known", "select", "write", "commit"}
<1>1. CASE RecordCashOrder(q) \/ WriteWallet(q) \/ CommitReward(q) \/ Decrement(q) \/ Fail(q)
  <2>1. req[q].pc # "idle" /\ Finish(q) /\ UNCHANGED AccountRows
    BY <1>1 DEF RecordCashOrder, WriteWallet, CommitReward, Decrement, Fail, rows, AccountRows
  <2>2. QED
    BY <2>1, AfterTyped
<1>2. CASE FindFunded(q)
  <2>1. req[q].pc # "idle" /\ UNCHANGED AccountRows /\ req[q] \in Request
    BY <1>2, Here DEF FindFunded, rows, AccountRows
  <2>2. CASE Finish(q)
    BY <2>1, <2>2, AfterTyped
  <2>3. ASSUME NEW u, Becomes(q, [req[q] EXCEPT !.pc = "known", !.user = u,
                                   !.value = balance[u], !.parts = parts[u]])
        PROVE  \E r : /\ req' = [req EXCEPT ![q] = r] /\ r.pc = "known"
    <3> DEFINE r == [req[q] EXCEPT !.pc = "known", !.user = u,
                                   !.value = balance[u], !.parts = parts[u]]
    <3>1. r.pc = "known"
      BY <2>1 DEF Request
    <3>2. QED
      BY <2>3, <3>1 DEF Becomes
  <2>4. QED
    BY <1>2, <2>1, <2>2, <2>3 DEF FindFunded
<1>3. CASE CheckExisting(q)
  <2>1. req[q].pc # "idle" /\ UNCHANGED AccountRows
    BY <1>3 DEF CheckExisting, rows, AccountRows
  <2>2. CASE Finish(q)
    BY <2>1, <2>2, AfterTyped
  <2>3. CASE Goto(q, "select")
    <3>1. "select" \in PCs
      BY DEF PCs
    <3>2. QED
      BY <2>1, <2>3, <3>1, GotoIs
  <2>4. QED
    BY <1>3, <2>2, <2>3 DEF CheckExisting
<1>4. CASE ReadWallet(q)
  <2> DEFINE r == [req[q] EXCEPT !.pc = "select", !.value = balance[req[q].user],
                                 !.parts = parts[req[q].user]]
  <2>1. r.pc = "select"
    BY Here DEF Request
  <2>2. QED
    BY <1>4, <2>1 DEF ReadWallet, Becomes, rows, AccountRows
<1>5. CASE SelectWallet(q)
  <2> DEFINE d == (req[q].value + Amount(req[q]) # balance[req[q].user])
             r == [req[q] EXCEPT !.pc = "write", !.dirty = d]
  <2>1. r.pc = "write"
    BY Here DEF Request
  <2>2. QED
    BY <1>5, <2>1 DEF SelectWallet, Becomes, rows, AccountRows
<1>6. CASE WriteReward(q)
  <2>1. "commit" \in PCs /\ Goto(q, "commit") /\ UNCHANGED AccountRows
    BY <1>6 DEF WriteReward, PCs, rows, AccountRows
  <2>2. QED
    BY <2>1, GotoIs
<1>7. QED
  BY <1>1, <1>2, <1>3, <1>4, <1>5, <1>6

\* The payout job has nothing to do with accounts.
LEMMA JobElsewhere ==
  ASSUME TypeInv, StartPayouts \/ StepPayouts
  PROVE  UNCHANGED rows /\ \E r : req' = [req EXCEPT ![Job] = r]
BY DEF StartPayouts, StepPayouts, NextPayout, NoOption, TransferSucceeds, TransferFails,
       TransferTimesOut, GiveUp, Finish, Goto, Becomes

LEMMA StartAccount ==
  ASSUME TypeInv, AccountInv, NEW q \in Clients, StartWallet(q)
  PROVE  AccountInv'
<1>0. q \in Procs
  BY DEF Procs
<1>1. ASSUME NEW u \in Users, Register(q, u) PROVE AccountInv'
  <2>1. PICK pc \in {"insert", "customer"} :
          /\ req' = [req EXCEPT ![q] = [Idle EXCEPT !.pc = pc, !.op = "register", !.user = u]]
          /\ pc = "insert" => u \in riders'
    BY <1>1, RegisterIs
  <2> DEFINE r == [Idle EXCEPT !.pc = pc, !.op = "register", !.user = u]
  <2>2. r.pc = pc /\ r.user = u /\ r.code = 0
    BY DEF Idle
  <2>3. \A p \in Clients : req'[p] = IF p = q THEN r ELSE req[p]
    BY <2>1 DEF TypeInv, ReqsOK, Procs
  <2> HIDE DEF r
  <2>4. /\ u \notin registered /\ riders \subseteq riders' /\ riders' \subseteq riders \cup {u}
        /\ UNCHANGED <<wallets, code, accounts, customers>>
        /\ wallets \subseteq registered
    BY <1>1 DEF Register, TypeInv, RowsOK
  <2>5. AccountBehindWallet'
    BY <2>4 DEF AccountInv, AccountBehindWallet
  <2>6. ASSUME NEW p \in Clients PROVE Provided(req[p])'
    <3>1. CASE p = q
      BY <2>1, <2>2, <2>3, <3>1 DEF Provided
    <3>2. CASE p # q
      <4>1. req'[p] = req[p] /\ Provided(req[p])
        BY <2>3, <3>2 DEF AccountInv
      <4>2. QED
        BY <2>4, <4>1 DEF Provided
    <3>3. QED
      BY <3>1, <3>2
  <2>7. \A p, d \in Clients :
          req'[p].pc = "account" /\ req'[d].pc = "account" /\ req'[p].code = req'[d].code =>
            req'[p].user = req'[d].user
    BY <2>2, <2>3 DEF AccountInv
  <2>8. QED
    BY <2>4, <2>5, <2>6, <2>7 DEF AccountInv
<1>2. ASSUME NEW u \in Users, NEW op, NEW id, NEW role, Lookup(q, op, u, id, role),
             role = "RIDER" => u \in riders
      PROVE  AccountInv'
  <2> DEFINE r == [Idle EXCEPT !.pc = "find", !.op = op, !.user = u, !.id = id, !.role = role]
  <2>1. r.pc = "find" /\ r.user = u /\ r.role = role /\ r.code = 0
    BY DEF Idle
  <2>2. req' = [req EXCEPT ![q] = r] /\ UNCHANGED AccountRows
    BY <1>2 DEF Lookup, Call, Becomes, rows, AccountRows
  <2> HIDE DEF r
  <2>3. Provided(r)
    BY <1>2, <2>1 DEF Provided
  <2>4. QED
    BY <1>0, <2>1, <2>2, <2>3, AccountMove
<1>3. ASSUME NEW u \in Users, NEW o \in Orders,
             PlaceCashOrder(q, u, o) \/ RewardRider(q, u, o)
      PROVE  AccountInv'
  <2>1. PICK r : /\ req' = [req EXCEPT ![q] = r] /\ r.pc \in {"cash", "read"}
    <3>1. [Idle EXCEPT !.pc = "cash", !.op = "cash", !.user = u, !.id = o].pc = "cash"
      BY DEF Idle
    <3>2. [Idle EXCEPT !.pc = "read", !.op = "reward", !.user = u, !.id = o].pc = "read"
      BY DEF Idle
    <3>3. QED
      BY <1>3, <3>1, <3>2 DEF PlaceCashOrder, RewardRider, Call, Becomes
  <2>2. UNCHANGED AccountRows
    BY <1>3 DEF PlaceCashOrder, RewardRider, rows, AccountRows
  <2>3. QED
    BY <1>0, <2>1, <2>2, AccountMove
<1>4. ASSUME NEW p \in Payments, NEW k, FundWallet(q, p, k) PROVE AccountInv'
  <2> DEFINE r == [Idle EXCEPT !.pc = "verify", !.op = "fund", !.id = p, !.code = k]
  <2>1. r.pc = "verify"
    BY DEF Idle
  <2>2. req' = [req EXCEPT ![q] = r] /\ UNCHANGED AccountRows
    BY <1>4 DEF FundWallet, Call, Becomes, rows, AccountRows
  <2>3. QED
    BY <1>0, <2>1, <2>2, AccountMove
<1>5. \A u \in Users : RoleOf(u) = "RIDER" => u \in riders
  BY DEF RoleOf
<1>6. QED
  BY <1>1, <1>2, <1>3, <1>4, <1>5 DEF StartWallet, GetWallet, PlaceOrder, ChargeRider

\* A rider's wallet needs no account.
LEMMA InsertFrame ==
  ASSUME TypeInv, AccountInv, UNCHANGED AccountRows, NEW q \in Clients, NEW r,
         \A p \in Procs : req'[p] = IF p = q THEN r ELSE req[p],
         r.pc = "insert", r.code = 0, r.user \in riders
  PROVE  AccountInv'
<1>1. AccountBehindWallet'
  BY DEF AccountInv, AccountBehindWallet, AccountRows
<1>2. \A p \in Clients : Provided(req[p])'
  BY DEF AccountInv, Provided, AccountRows, Procs
<1>3. \A p, d \in Clients :
        req'[p].pc = "account" /\ req'[d].pc = "account" /\ req'[p].code = req'[d].code =>
          req'[p].user = req'[d].user
  BY DEF AccountInv, Procs
<1>4. QED
  BY <1>1, <1>2, <1>3 DEF AccountInv, AccountRows

LEMMA FindAccount ==
  ASSUME TypeInv, AccountInv, NEW q \in Procs, FindWallet(q)
  PROVE  AccountInv'
<1>1. /\ req[q].pc = "find" /\ q \in Clients /\ req[q] \in Request /\ UNCHANGED AccountRows
      /\ req[q].role = "RIDER" => req[q].user \in riders
      /\ req[q].code = 0
  BY Here DEF FindWallet, AccountInv, Provided, AccountRows, rows, Request
<1>2. CASE HasFound(q, balance[req[q].user])
  <2>1. PICK r : req' = [req EXCEPT ![q] = r] /\ r.pc \in {"idle", "read", "decrement"}
    BY <1>1, <1>2, HasFoundIs
  <2>2. QED
    BY <1>1, <2>1, AccountMove
<1>3. CASE Goto(q, "customer")
  <2>1. PICK r : req' = [req EXCEPT ![q] = r] /\ r.pc = "customer"
    <3>1. "customer" \in PCs
      BY DEF PCs
    <3>2. QED
      BY <1>3, <3>1, GotoIs
  <2>2. QED
    BY <1>1, <2>1, AccountMove
<1>4. CASE req[q].role = "RIDER" /\ Goto(q, "insert")
  <2> DEFINE r == [req[q] EXCEPT !.pc = "insert"]
  <2>1. r.pc = "insert" /\ r.user = req[q].user /\ r.code = req[q].code
    BY GotoTyped DEF PCs
  <2>2. \A p \in Procs : req'[p] = IF p = q THEN r ELSE req[p]
    BY <1>4 DEF Goto, Becomes, TypeInv, ReqsOK
  <2> HIDE DEF r
  <2>3. QED
    BY <1>1, <1>4, <2>1, <2>2, InsertFrame
<1>5. QED
  BY <1>2, <1>3, <1>4 DEF FindWallet, Initialise

\* A code of the provider is new, or was given to the same user before.
LEMMA CreateAccount ==
  ASSUME TypeInv, AccountInv, NEW q \in Procs, CreateCustomer(q)
  PROVE  AccountInv'
<1>1. req[q].pc = "customer" /\ q \in Clients /\ req[q] \in Request /\ req[q].user \in Users
  BY Here DEF CreateCustomer, TypeInv, RowsOK, Shape
<1>2. PICK k \in accounts[req[q].user] \cup {customers + 1} :
        /\ customers' = IF k > customers THEN k ELSE customers
        /\ Becomes(q, [req[q] EXCEPT !.pc = "account", !.code = k])
  BY DEF CreateCustomer
<1>3. UNCHANGED <<riders, wallets, code, accounts>>
  BY DEF CreateCustomer
<1> DEFINE r == [req[q] EXCEPT !.pc = "account", !.code = k]
<1>4. r.pc = "account" /\ r.user = req[q].user /\ r.code = k
  BY <1>1 DEF Request
<1>5. \A p \in Procs : req'[p] = IF p = q THEN r ELSE req[p]
  BY <1>2 DEF Becomes, TypeInv, ReqsOK
<1> HIDE DEF r
<1>6. customers \in Nat /\ \A u \in Users : accounts[u] \subseteq 1..customers
  BY DEF TypeInv, RowsOK, AccountInv
<1>7. k \in 1..customers' /\ customers' \in customers..(customers + 1)
  BY <1>1, <1>2, <1>6
<1>8. \A u \in Users \ {req[q].user} : k \notin accounts[u]
  BY <1>1, <1>2, <1>6 DEF AccountInv
<1>9. \A u \in Users : accounts'[u] \subseteq 1..customers'
  BY <1>3, <1>6, <1>7
<1>10. ASSUME NEW p \in Clients PROVE Provided(req[p])'
  <2>1. CASE p = q
    BY <1>3, <1>4, <1>5, <1>7, <1>8, <2>1 DEF Provided, Procs
  <2>2. CASE p # q
    <3>1. req'[p] = req[p] /\ Provided(req[p])
      BY <1>5, <2>2 DEF AccountInv, Procs
    <3>2. 1..customers \subseteq 1..customers'
      BY <1>6, <1>7
    <3>3. QED
      BY <1>3, <3>1, <3>2 DEF Provided
  <2>3. QED
    BY <2>1, <2>2
<1>11. ASSUME NEW p \in Clients, req[p].pc = "account", req[p].code = k
       PROVE  req[p].user = req[q].user
  <2>1. req[p].user \in Users /\ Provided(req[p])
    BY <1>11, Here DEF AccountInv, Shape, Procs, TypeInv, RowsOK
  <2>2. k # customers + 1
    BY <1>6, <1>11, <2>1 DEF Provided
  <2>3. QED
    BY <1>1, <1>2, <1>11, <2>1, <2>2 DEF Provided
<1>12. \A p, d \in Clients :
         req'[p].pc = "account" /\ req'[d].pc = "account" /\ req'[p].code = req'[d].code =>
           req'[p].user = req'[d].user
  BY <1>4, <1>5, <1>11 DEF AccountInv, Procs
<1>13. AccountBehindWallet'
  BY <1>3 DEF AccountInv, AccountBehindWallet
<1>14. QED
  BY <1>3, <1>9, <1>10, <1>12, <1>13 DEF AccountInv

LEMMA SaveAccountAccount ==
  ASSUME TypeInv, AccountInv, NEW q \in Procs, SaveAccount(q)
  PROVE  AccountInv'
<1>1. /\ req[q].pc = "account" /\ q \in Clients /\ req[q].user \in Users
      /\ Provided(req[q])
  BY Here DEF SaveAccount, TypeInv, RowsOK, Shape, AccountInv
<1> DEFINE u == req[q].user
           k == req[q].code
           r == [req[q] EXCEPT !.pc = "insert"]
<1>2. r.pc = "insert" /\ r.user = u /\ r.code = k
  BY GotoTyped DEF PCs
<1>3. \A p \in Procs : req'[p] = IF p = q THEN r ELSE req[p]
  BY DEF SaveAccount, Goto, Becomes, TypeInv, ReqsOK
<1>4. /\ UNCHANGED <<riders, wallets, code, customers>>
      /\ \A v \in Users : accounts'[v] = IF v = u THEN accounts[u] \cup {k} ELSE accounts[v]
  BY <1>1 DEF SaveAccount, TypeInv, RowsOK
<1>5. k \in 1..customers /\ k # 0 /\ \A v \in Users \ {u} : k \notin accounts[v]
  BY <1>1 DEF Provided, TypeInv, RowsOK
<1>6. \A p \in Clients : req[p].pc = "account" /\ req[p].code = k => req[p].user = u
  BY <1>1 DEF AccountInv
<1> HIDE DEF u, k, r
<1>7. ASSUME NEW p \in Clients PROVE Provided(req[p])'
  <2>1. CASE p = q
    BY <1>1, <1>2, <1>3, <1>4, <1>5, <2>1 DEF Provided, Procs, u
  <2>2. CASE p # q
    <3>1. req'[p] = req[p] /\ Provided(req[p])
      BY <1>3, <2>2 DEF AccountInv, Procs
    <3>2. \A v \in Users : accounts[v] \subseteq accounts'[v]
      BY <1>4
    <3>3. req[p].pc \in {"account", "insert"} => req[p].user \in Users
      BY Here DEF Shape, Procs, TypeInv, RowsOK
    <3>4. req[p].pc = "account" => \A v \in Users \ {req[p].user} : req[p].code \notin accounts'[v]
      BY <1>4, <1>6, <3>1 DEF Provided
    <3>5. QED
      BY <1>4, <3>1, <3>2, <3>3, <3>4 DEF Provided
  <2>3. QED
    BY <2>1, <2>2
<1>8. \A p, d \in Clients :
        req'[p].pc = "account" /\ req'[d].pc = "account" /\ req'[p].code = req'[d].code =>
          req'[p].user = req'[d].user
  BY <1>2, <1>3 DEF AccountInv, Procs
<1>9. /\ \A v \in Users : accounts'[v] \subseteq 1..customers'
      /\ \A v, w \in Users : v # w => accounts'[v] \cap accounts'[w] = {}
  BY <1>4, <1>5 DEF AccountInv
<1>10. AccountBehindWallet'
  BY <1>4 DEF AccountInv, AccountBehindWallet, TypeInv, RowsOK
<1>11. QED
  BY <1>7, <1>8, <1>9, <1>10 DEF AccountInv

LEMMA InsertAccount ==
  ASSUME TypeInv, AccountInv, NEW q \in Procs, InsertWallet(q)
  PROVE  AccountInv'
<1>1. /\ req[q].pc = "insert" /\ q \in Clients /\ req[q].user \in Users
      /\ Provided(req[q])
  BY Here DEF InsertWallet, TypeInv, RowsOK, Shape, AccountInv
<1>2. PICK r : req' = [req EXCEPT ![q] = r] /\ r.pc \in {"idle", "read", "decrement"}
  <2>1. CASE Finish(q)
    BY <1>1, <2>1, AfterTyped, IdleTyped
  <2>2. CASE HasFound(q, 0)
    BY <1>1, <2>2, HasFoundIs
  <2>3. QED
    BY <2>1, <2>2 DEF InsertWallet
<1>3. CASE UNCHANGED <<wallets, code>>
  BY <1>2, <1>3, AccountMove DEF InsertWallet, AccountRows
<1>4. CASE /\ wallets' = wallets \cup {req[q].user}
           /\ code' = [code EXCEPT ![req[q].user] = req[q].code]
  <2>1. UNCHANGED <<riders, accounts, customers>>
    BY DEF InsertWallet
  <2>2. \A p \in Clients : req'[p] = req[p] \/ req'[p].pc \in {"idle", "read", "decrement"}
    BY <1>2 DEF TypeInv, ReqsOK, Procs
  <2>3. \A p \in Clients : Provided(req[p])'
    BY <2>1, <2>2 DEF AccountInv, Provided
  <2>4. AccountBehindWallet'
    BY <1>1, <1>4, <2>1 DEF AccountInv, AccountBehindWallet, Provided, TypeInv, RowsOK
  <2>5. QED
    BY <2>1, <2>2, <2>3, <2>4 DEF AccountInv
<1>5. QED
  BY <1>3, <1>4 DEF InsertWallet

LEMMA AccountNext ==
  ASSUME TypeInv, AccountInv, [Next]_vars
  PROVE  AccountInv'
<1>1. ASSUME NEW q \in Clients, StartWallet(q) PROVE AccountInv'
  BY <1>1, StartAccount
<1>2. ASSUME NEW q \in Procs, StepWallet(q) \/ Fail(q) PROVE AccountInv'
  <2>1. CASE FindWallet(q) \/ CreateCustomer(q) \/ SaveAccount(q) \/ InsertWallet(q)
    BY <2>1, FindAccount, CreateAccount, SaveAccountAccount, InsertAccount
  <2>2. CASE ~(FindWallet(q) \/ CreateCustomer(q) \/ SaveAccount(q) \/ InsertWallet(q))
    <3>1. /\ UNCHANGED AccountRows
          /\ \E r : /\ req' = [req EXCEPT ![q] = r]
                    /\ r.pc \in {"idle", "next", "known", "select", "write", "commit"}
      BY <1>2, <2>2, Elsewhere DEF StepWallet
    <3>2. QED
      BY <3>1, AccountMove
  <2>3. QED
    BY <2>1, <2>2
<1>3. CASE StartPayouts \/ StepPayouts
  <2>1. UNCHANGED rows /\ \E r : req' = [req EXCEPT ![Job] = r]
    BY <1>3, JobElsewhere
  <2>2. \A q \in Clients : req'[q] = req[q]
    BY <2>1, JobIn DEF TypeInv, ReqsOK, Procs
  <2>3. QED
    BY <2>1, <2>2, AccountFrame DEF rows, AccountRows
<1>4. CASE Crash
  BY <1>4, AccountFrame DEF Crash, Idle, Procs, rows, AccountRows
<1>5. CASE \/ \E e \in bus : SaveTransaction(e) \/ LoseEvent(e)
           \/ \E u \in Users : GetVirtualAccount(u) \/ \E p \in Payments : Pay(u, p)
           \/ UNCHANGED vars
  <2>1. UNCHANGED <<AccountRows, req>>
    BY <1>5 DEF SaveTransaction, LoseEvent, GetVirtualAccount, Pay, vars, rows, AccountRows
  <2>2. QED
    BY <2>1, AccountFrame
<1>6. QED
  BY <1>1, <1>2, <1>3, <1>4, <1>5 DEF Next, Step, Quiet

\* initialiseWallet and createWalletForUser: an account is stored before the wallet that
\* has its code, and every customer's wallet has one.
THEOREM AccountsBehindWallets == Spec => []AccountBehindWallet
<1>1. Init => TypeInv /\ AccountInv
  BY TypeInit, AccountInit
<1>2. TypeInv /\ AccountInv /\ [Next]_vars => (TypeInv /\ AccountInv)'
  BY TypeNext, AccountNext
<1>3. AccountInv => AccountBehindWallet
  BY DEF AccountInv
<1>4. QED
  BY <1>1, <1>2, <1>3, PTL DEF Spec
=============================================================================
