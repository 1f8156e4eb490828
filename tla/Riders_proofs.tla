---------------------------- MODULE Riders_proofs ----------------------------
(***************************************************************************)
(* Theorems about what is known of a rider, for any number of banks,       *)
(* types, documents, drivers, sockets, requests, calls and failures: the   *)
(* bank account a payout takes, the defaults a server starts with, the     *)
(* status that follows the documents, the status that follows the sockets. *)
(*                                                                         *)
(* Each promise is about a request that ran alone, or a row nobody wrote   *)
(* across a copy, so each invariant says what such a request has seen: the *)
(* row it read is the row that is there, and what it counted or looked up  *)
(* has not changed since.                                                  *)
(***************************************************************************)
EXTENDS WithdrawalOptions, VehicleTypes, RiderDocuments, Presence, SequenceTheorems,
        FiniteSetTheorems, TLAPS

-----------------------------------------------------------------------------
(* Bank accounts                                                            *)

Defaults == {o.id : o \in {x \in options : x.isDefault}}

\* The defaults once the row is saved
DefaultsWith(row) == (Defaults \ {row.id}) \cup (IF row.isDefault THEN {row.id} ELSE {})

OptionRequest(r) ==
  /\ r.pc = "count" => r.id \in 0..MaxCalls /\ r.bank \in Banks
  /\ r.pc \in {"insertOption", "removeOption", "unset", "selectOption", "updateOption"} =>
       r.row \in OptionRow
  /\ r.pc = "unset" => {"pc", "row", "means"} \subseteq DOMAIN r

\* What a request that is alone still finds as it left it, and will leave
AloneKnows(r) ==
  /\ r.pc \in {"count", "insertOption"} => options = {}
  /\ r.pc = "insertOption" => r.row.isDefault
  /\ r.pc = "removeOption" /\ decided # None => Defaults = {decided}
  /\ r.pc \in {"unset", "selectOption", "updateOption"} => OptionAt(r.row.id) # {}
  /\ r.pc = "unset" => r.row.isDefault /\ r.means = r.row.id
  /\ r.pc \in {"selectOption", "updateOption"} /\ r.means # None =>
       DefaultsWith(r.row) = {r.means}
  /\ r.pc = "updateOption" =>
       \A o \in OptionAt(r.row.id) : "isDefault" \in r.cols \/ o.isDefault = r.row.isDefault

OptionsTyped ==
  /\ calls \in 0..MaxCalls /\ DOMAIN req = Clients
  /\ options \subseteq OptionRow
  /\ \A c \in Clients : OptionRequest(req[c])

\* What overlapping requests leave decides nothing; without any there is one option.
OptionsInv ==
  /\ OptionsTyped
  /\ \A x, y \in options : x.id = y.id => x = y
  /\ ~alone => decided = None
  /\ ~doubled => alone /\ \A x, y \in options : x = y
  /\ alone => \A c, d \in Clients : req[c] # Idle /\ req[d] # Idle => c = d
  /\ alone => \A c \in Clients : AloneKnows(req[c])
  /\ decided # None => OptionAt(decided) # {}
  /\ DefaultDecided /\ PaysDefault

LEMMA OptionsInvInit == OptionsInit /\ RequestsInit => OptionsInv
<1> SUFFICES ASSUME OptionsInit, RequestsInit PROVE OptionsInv
  OBVIOUS
<1>0. options = {} \/ \E b \in Banks : options = {[id |-> 0, bank |-> b, isDefault |-> TRUE]}
  BY DEF OptionsInit
<1>1. /\ \A x, y \in options : x = y
      /\ \A o \in options : o \in OptionRow /\ o.id = 0 /\ o.isDefault
  <2>1. \A b \in Banks : LET o == [id |-> 0, bank |-> b, isDefault |-> TRUE]
                         IN  o \in OptionRow /\ o.id = 0 /\ o.isDefault
    BY RequestsAssumption DEF OptionRow
  <2>2. QED
    BY <1>0, <2>1
<1>2. OptionsTyped /\ \A c \in Clients : AloneKnows(req[c])
  BY <1>1, RequestsAssumption
  DEF RequestsInit, OptionsTyped, OptionRequest, AloneKnows, Idle
<1>3. /\ options # {} => Defaults = {0} /\ OptionAt(0) # {}
      /\ decided # None => options # {} /\ decided = 0
  <2>1. options # {} => Defaults = {0} /\ OptionAt(0) # {}
    BY <1>1 DEF OptionAt, Defaults
  <2>2. QED
    BY <2>1 DEF OptionsInit
<1>4. DefaultDecided /\ PaysDefault
  BY <1>3 DEF OptionsInit, DefaultDecided, PaysDefault, Defaults
<1>5. QED
  BY <1>1, <1>2, <1>3, <1>4 DEF OptionsInit, RequestsInit, OptionsInv

\* A request begins.
LEMMA EnterStep ==
  ASSUME OptionsInv, NEW c \in Clients, NEW r, Enter(c, r), OptionRequest(r),
         Quiescent => AloneKnows(r)
  PROVE  OptionsInv'
<1>1. /\ calls' = calls + 1 /\ calls < MaxCalls /\ UNCHANGED <<options, paid>>
      /\ DOMAIN req' = Clients
      /\ \A d \in Clients : req'[d] = IF d = c THEN r ELSE req[d]
      /\ alone' = Quiescent
      /\ decided' = (IF Quiescent THEN decided ELSE None)
      /\ doubled' = (~Quiescent \/ (doubled /\ options # {}))
  BY DEF Enter, Arrive, OptionsInv, OptionsTyped
<1>2. OptionsTyped'
  BY <1>1, RequestsAssumption DEF OptionsInv, OptionsTyped, OptionRequest
<1>3. CASE Quiescent
  <2>1. \A d \in Clients : d # c => req'[d] = Idle
    BY <1>1, <1>3 DEF Quiescent
  <2>2. \A d \in Clients : AloneKnows(req[d])'
    BY <1>1, <1>3, <2>1 DEF AloneKnows, Defaults, DefaultsWith, OptionAt, Idle
  <2>3. DefaultDecided' /\ PaysDefault'
    BY <1>1, <1>3 DEF OptionsInv, DefaultDecided, PaysDefault, Quiescent
  <2>4. QED
    BY <1>1, <1>2, <1>3, <2>1, <2>2, <2>3 DEF OptionsInv, OptionAt
<1>4. CASE ~Quiescent
  <2>1. DefaultDecided' /\ PaysDefault'
    BY <1>1, <1>4 DEF OptionsInv, DefaultDecided, PaysDefault
  <2>2. QED
    BY <1>1, <1>2, <1>4, <2>1 DEF OptionsInv
<1>5. QED
  BY <1>3, <1>4

\* A request goes on; it changes no ids, and whoever is alone knows what it finds.
LEMMA ProceedStep ==
  ASSUME OptionsInv, NEW c \in Clients, NEW r, Proceed(c, r), req[c] # Idle,
         OptionRequest(r), options' \subseteq OptionRow,
         \A x, y \in options' : x.id = y.id => x = y,
         {o.id : o \in options'} = {o.id : o \in options},
         alone => AloneKnows(r)', r # Idle
  PROVE  OptionsInv'
<1>1. /\ UNCHANGED <<calls, alone, decided, doubled, paid>>
      /\ DOMAIN req' = Clients
      /\ \A d \in Clients : req'[d] = IF d = c THEN r ELSE req[d]
  BY DEF Proceed, Become, OptionsInv, OptionsTyped
<1>2. OptionsTyped'
  BY <1>1 DEF OptionsInv, OptionsTyped, OptionRequest
<1>3. ASSUME alone PROVE \A d \in Clients : AloneKnows(req[d])'
  <2>1. \A d \in Clients \ {c} : req'[d] = Idle
    BY <1>1, <1>3 DEF OptionsInv
  <2>2. QED
    BY <1>1, <1>3, <2>1 DEF AloneKnows, Idle
<1>4. ~doubled => \A x, y \in options' : x = y
  <2> SUFFICES ASSUME ~doubled, NEW x \in options', NEW y \in options' PROVE x.id = y.id
    OBVIOUS
  <2>1. \A o \in options : x.id = o.id
    BY DEF OptionsInv
  <2>2. QED
    BY <2>1
<1>5. decided # None => OptionAt(decided)' # {}
  BY <1>1 DEF OptionsInv, OptionAt
<1>6. ~Quiescent'
  BY <1>1 DEF Quiescent
<1>7. DefaultDecided' /\ PaysDefault'
  BY <1>1, <1>6 DEF OptionsInv, DefaultDecided, PaysDefault
<1>8. QED
  BY <1>1, <1>2, <1>3, <1>4, <1>5, <1>7 DEF OptionsInv

\* A request ends: id is the only default if it was alone, unless it is None.
LEMMA LeaveStep ==
  ASSUME OptionsInv, NEW c \in Clients, NEW id, Leave(c, id), req[c] # Idle,
         options' \subseteq OptionRow,
         \A x, y \in options' : x.id = y.id => x = y,
         ~doubled => \A x, y \in options' : x = y,
         alone /\ id # None => Defaults' = {id}
  PROVE  OptionsInv'
<1>1. /\ UNCHANGED <<calls, alone, doubled, paid>>
      /\ DOMAIN req' = Clients
      /\ \A d \in Clients : req'[d] = IF d = c THEN Idle ELSE req[d]
      /\ decided' = (IF alone THEN id ELSE None)
  BY DEF Leave, Finish, Become, OptionsInv, OptionsTyped
<1>2. OptionsTyped'
  BY <1>1 DEF OptionsInv, OptionsTyped, OptionRequest, Idle
<1>3. ASSUME alone PROVE \A d \in Clients : req'[d] = Idle /\ AloneKnows(req[d])'
  <2>1. \A d \in Clients : req'[d] = Idle
    BY <1>1, <1>3 DEF OptionsInv
  <2>2. QED
    BY <2>1 DEF AloneKnows, Idle
<1>4. decided' # None => Defaults' = {decided'}
  BY <1>1
<1>5. decided' # None => OptionAt(decided)' # {}
  BY <1>4 DEF OptionAt, Defaults
<1>6. DefaultDecided' /\ PaysDefault'
  BY <1>1, <1>4 DEF OptionsInv, DefaultDecided, PaysDefault, Defaults
<1>7. QED
  BY <1>1, <1>2, <1>3, <1>5, <1>6 DEF OptionsInv

LEMMA CreateOptionStep ==
  ASSUME OptionsInv, NEW c \in Clients, NEW b \in Banks, CreateOption(c, b)
  PROVE  OptionsInv'
<1> DEFINE r == [pc |-> "count", id |-> calls + 1, bank |-> b]
<1>1. Enter(c, r) /\ options = {} /\ calls < MaxCalls
  BY DEF CreateOption, Enter, Arrive
<1>2. OptionRequest(r) /\ AloneKnows(r)
  BY <1>1, RequestsAssumption DEF OptionsInv, OptionsTyped, OptionRequest, AloneKnows
<1>3. QED
  BY <1>1, <1>2, EnterStep

LEMMA CountOptionsStep ==
  ASSUME OptionsInv, NEW c \in Clients, CountOptions(c)
  PROVE  OptionsInv'
<1> DEFINE r == [pc |-> "insertOption",
                 row |-> [id |-> req[c].id, bank |-> req[c].bank, isDefault |-> options = {}]]
<1>1. Proceed(c, r) /\ options' = options /\ req[c].pc = "count"
  BY DEF CountOptions
<1>2. OptionRequest(r) /\ r # Idle /\ req[c] # Idle
  BY <1>1 DEF OptionsInv, OptionsTyped, OptionRequest, OptionRow, Idle
<1>3. ASSUME alone PROVE options = {}
  BY <1>1, <1>3 DEF OptionsInv, AloneKnows
<1>4. ASSUME NEW s, s = r, alone PROVE AloneKnows(s)'
  BY <1>1, <1>3, <1>4 DEF AloneKnows
<1>5. QED
  <2> HIDE DEF r
  <2>1. ASSUME NEW s, s = r PROVE OptionsInv'
    BY <1>1, <1>2, <1>4, <2>1, ProceedStep DEF OptionsInv, OptionsTyped
  <2>2. QED
    BY <2>1

LEMMA InsertOptionStep ==
  ASSUME OptionsInv, NEW c \in Clients, InsertOption(c)
  PROVE  OptionsInv'
<1> DEFINE row == req[c].row
<1>1. req[c].pc = "insertOption" /\ req[c] # Idle /\ row \in OptionRow
  BY DEF InsertOption, Idle, OptionsInv, OptionsTyped, OptionRequest
<1>2. CASE Leave(c, None) /\ options' = options
  BY <1>1, <1>2, LeaveStep DEF OptionsInv, OptionsTyped
<1>3. CASE OptionAt(row.id) = {} /\ options' = options \cup {row} /\ Leave(c, row.id)
  <2>1. alone => options = {} /\ row.isDefault
    BY <1>1 DEF OptionsInv, AloneKnows
  <2>2. alone => Defaults' = {row.id}
    BY <1>3, <2>1 DEF Defaults
  <2>3. \A x, y \in options' : x.id = y.id => x = y
    BY <1>3 DEF OptionsInv, OptionAt
  <2>4. ~doubled => \A x, y \in options' : x = y
    BY <1>3, <2>1 DEF OptionsInv
  <2>5. options' \subseteq OptionRow
    BY <1>1, <1>3 DEF OptionsInv, OptionsTyped
  <2>6. QED
    BY <1>1, <1>3, <2>2, <2>3, <2>4, <2>5, LeaveStep
<1>4. QED
  BY <1>2, <1>3 DEF InsertOption

\* The requests for an option that is there
LEMMA ExistingOptionStep ==
  ASSUME OptionsInv, NEW c \in Clients, NEW o \in options,
         \/ \E b \in Banks : UpdateOption(c, o, b)
         \/ RemoveOption(c, o) \/ SetDefault(c, o)
  PROVE  OptionsInv'
<1>1. o \in OptionRow /\ (Quiescent /\ decided # None => Defaults = {decided})
  BY DEF OptionsInv, OptionsTyped, DefaultDecided, Defaults
<1>2. ASSUME NEW b \in Banks, UpdateOption(c, o, b) PROVE OptionsInv'
  <2> DEFINE row == [o EXCEPT !.bank = b]
             r   == [pc |-> "selectOption", row |-> row, means |-> decided]
  <2>1. row \in OptionRow /\ row.id = o.id /\ row.isDefault = o.isDefault
    BY <1>1 DEF OptionRow
  <2>2. row.id \in Defaults <=> row.isDefault
    BY <2>1 DEF OptionsInv, Defaults
  <2>3. DefaultsWith(row) = Defaults
    BY <2>2 DEF DefaultsWith
  <2>4. OptionRequest(r) /\ (Quiescent => AloneKnows(r))
    BY <1>1, <2>1, <2>3 DEF OptionRequest, AloneKnows, OptionAt
  <2>5. QED
    BY <1>2, <2>4, EnterStep DEF UpdateOption
<1>3. CASE RemoveOption(c, o)
  <2> DEFINE r == [pc |-> "removeOption", row |-> o]
  <2>1. OptionRequest(r) /\ (Quiescent => AloneKnows(r))
    BY <1>1 DEF OptionRequest, AloneKnows
  <2>2. QED
    BY <1>3, <2>1, EnterStep DEF RemoveOption
<1>4. CASE SetDefault(c, o)
  <2> DEFINE row == [o EXCEPT !.isDefault = TRUE]
             r   == [pc |-> "unset", row |-> row, means |-> o.id]
  <2>1. row \in OptionRow /\ row.id = o.id /\ row.isDefault
    BY <1>1 DEF OptionRow
  <2>2. OptionRequest(r) /\ (Quiescent => AloneKnows(r))
    BY <2>1 DEF OptionRequest, AloneKnows, OptionAt
  <2>3. QED
    BY <1>4, <2>2, EnterStep DEF SetDefault
<1>5. QED
  BY <1>2, <1>3, <1>4

LEMMA DeleteOptionStep ==
  ASSUME OptionsInv, NEW c \in Clients, DeleteOption(c)
  PROVE  OptionsInv'
<1> DEFINE id   == req[c].row.id
           left == IF decided = id THEN None ELSE decided
<1>1. /\ req[c].pc = "removeOption" /\ req[c] # Idle
      /\ options' = options \ OptionAt(id) /\ Leave(c, left)
  BY DEF DeleteOption, Idle
<1>2. ASSUME alone, left # None PROVE Defaults' = {left}
  <2>1. Defaults = {decided} /\ decided # id /\ left = decided
    BY <1>1, <1>2 DEF OptionsInv, AloneKnows
  <2>2. QED
    BY <1>1, <2>1 DEF Defaults, OptionAt
<1>3. QED
  BY <1>1, <1>2, LeaveStep DEF OptionsInv, OptionsTyped

LEMMA UnsetStep ==
  ASSUME OptionsInv, NEW c \in Clients, Unset(c)
  PROVE  OptionsInv'
<1> DEFINE s == [req[c] EXCEPT !.pc = "selectOption"]
<1>1. /\ req[c].pc = "unset" /\ req[c] # Idle
      /\ options' = {[o EXCEPT !.isDefault = FALSE] : o \in options}
      /\ Proceed(c, s)
  BY DEF Unset, Idle
<1>2. /\ req[c].row \in OptionRow
      /\ s.pc = "selectOption" /\ s.row = req[c].row /\ s.means = req[c].means
  BY <1>1 DEF OptionsInv, OptionsTyped, OptionRequest
<1> DEFINE cleared(o) == [o EXCEPT !.isDefault = FALSE]
<1>3. \A o \in options : /\ cleared(o) \in OptionRow /\ cleared(o).id = o.id
                         /\ cleared(o).isDefault = FALSE
  BY DEF OptionsInv, OptionsTyped, OptionRow
<1>4. /\ options' \subseteq OptionRow
      /\ \A x, y \in options' : x.id = y.id => x = y
      /\ {o.id : o \in options'} = {o.id : o \in options}
      /\ Defaults' = {}
  <2>1. options' = {cleared(o) : o \in options}
    BY <1>1
  <2> HIDE DEF cleared, s
  <2>2. \A x, y \in options' : x.id = y.id => x = y
    BY <1>3, <2>1 DEF OptionsInv
  <2>3. {o.id : o \in options'} = {o.id : o \in options}
    BY <1>3, <2>1
  <2>4. QED
    BY <1>3, <2>1, <2>2, <2>3 DEF Defaults
<1> HIDE DEF s
<1>5. ASSUME NEW r, r = s PROVE OptionsInv'
  <2>1. OptionRequest(r) /\ r # Idle
    BY <1>2, <1>5 DEF OptionRequest, Idle
  <2>2. ASSUME alone PROVE AloneKnows(r)'
    <3>1. r.row.isDefault /\ r.means = r.row.id /\ OptionAt(r.row.id) # {}
      BY <1>1, <1>2, <1>5, <2>2 DEF OptionsInv, AloneKnows
    <3>2. \E o \in options' : o.id = r.row.id
      BY <1>4, <3>1 DEF OptionAt
    <3>3. QED
      BY <1>2, <1>4, <1>5, <3>1, <3>2 DEF AloneKnows, OptionAt, DefaultsWith
  <2>3. QED
    BY <1>1, <1>4, <1>5, <2>1, <2>2, ProceedStep
<1>6. QED
  BY <1>5

LEMMA SelectOptionStep ==
  ASSUME OptionsInv, NEW c \in Clients, SelectOption(c)
  PROVE  OptionsInv'
<1> DEFINE row == req[c].row
           old == OptionAt(row.id)
           ins == [pc |-> "insertOption", row |-> row]
           upd == [pc |-> "updateOption", row |-> row, means |-> req[c].means,
                   cols |-> {k \in {"bank", "isDefault"} : \E o \in old : o[k] # row[k]}]
<1>1. /\ req[c].pc = "selectOption" /\ req[c] # Idle /\ options' = options
      /\ row \in OptionRow
  BY DEF SelectOption, Idle, OptionsInv, OptionsTyped, OptionRequest
<1>2. alone => AloneKnows(req[c]) /\ old # {}
  BY <1>1 DEF OptionsInv, AloneKnows
<1>3. CASE old = {}
  <2>1. Proceed(c, ins) /\ OptionRequest(ins) /\ ins # Idle
    BY <1>1, <1>3 DEF SelectOption, OptionRequest, Idle
  <2> HIDE DEF ins
  <2>2. ASSUME NEW r, r = ins PROVE OptionsInv'
    BY <1>1, <1>2, <1>3, <2>1, <2>2, ProceedStep DEF OptionsInv, OptionsTyped
  <2>3. QED
    BY <2>2
<1>4. CASE old # {}
  <2>1. Proceed(c, upd) /\ OptionRequest(upd) /\ upd # Idle
    BY <1>1, <1>4 DEF SelectOption, OptionRequest, Idle
  <2>2. \A o \in old : "isDefault" \in upd.cols \/ o.isDefault = row.isDefault
    OBVIOUS
  <2>3. upd.pc = "updateOption" /\ upd.row = row /\ upd.means = req[c].means
    OBVIOUS
  <2> HIDE DEF upd
  <2>4. ASSUME NEW r, r = upd PROVE OptionsInv'
    <3>1. ASSUME alone PROVE AloneKnows(r)'
      BY <1>1, <1>2, <1>4, <2>2, <2>3, <2>4, <3>1 DEF AloneKnows, OptionAt, DefaultsWith, Defaults
    <3>2. QED
      BY <1>1, <2>1, <2>4, <3>1, ProceedStep DEF OptionsInv, OptionsTyped
  <2>5. QED
    BY <2>4
<1>5. QED
  BY <1>3, <1>4

LEMMA UpdateRowStep ==
  ASSUME OptionsInv, NEW c \in Clients, UpdateRow(c)
  PROVE  OptionsInv'
<1> DEFINE row  == req[c].row
           cols == req[c].cols
           old  == OptionAt(row.id)
           written(o) == [o EXCEPT !.bank = IF "bank" \in cols THEN row.bank ELSE @,
                                   !.isDefault = IF "isDefault" \in cols THEN row.isDefault ELSE @]
<1>0. req[c].pc = "updateOption"
  BY DEF UpdateRow
<1>1. req[c].pc = "updateOption" /\ req[c] # Idle /\ row \in OptionRow
  BY <1>0 DEF Idle, OptionsInv, OptionsTyped, OptionRequest
<1>2. CASE Leave(c, None) /\ options' = options
  BY <1>1, <1>2, LeaveStep DEF OptionsInv, OptionsTyped
<1>3. CASE options' = (options \ old) \cup {written(o) : o \in old} /\ Leave(c, req[c].means)
  <2>1. \A o \in old : /\ written(o) \in OptionRow /\ written(o).id = row.id
                       /\ written(o).isDefault =
                            IF "isDefault" \in cols THEN row.isDefault ELSE o.isDefault
    BY <1>1 DEF OptionsInv, OptionsTyped, OptionRow, OptionAt
  <2> HIDE DEF written
  <2>2. \A x, y \in old : x = y
    BY DEF OptionsInv, OptionAt
  <2>3. /\ options' \subseteq OptionRow
        /\ \A x, y \in options' : x.id = y.id => x = y
    BY <1>3, <2>1, <2>2 DEF OptionsInv, OptionsTyped, OptionAt
  <2>4. ~doubled => \A x, y \in options' : x = y
    BY <1>3, <2>1, <2>2 DEF OptionsInv, OptionAt
  <2>5. ASSUME alone, req[c].means # None PROVE Defaults' = {req[c].means}
    <3>1. /\ old # {} /\ DefaultsWith(row) = {req[c].means}
          /\ \A o \in old : "isDefault" \in cols \/ o.isDefault = row.isDefault
      BY <1>1, <2>5 DEF OptionsInv, AloneKnows
    <3>2. \A o \in old : written(o).isDefault = row.isDefault
      BY <2>1, <3>1
    <3>3. Defaults' = DefaultsWith(row)
      BY <1>3, <2>1, <3>1, <3>2 DEF Defaults, DefaultsWith, OptionAt
    <3>4. QED
      BY <3>1, <3>3
  <2>6. QED
    BY <1>1, <1>3, <2>3, <2>4, <2>5, LeaveStep
<1>4. QED
  BY <1>2, <1>3 DEF UpdateRow

LEMMA OptionRequestFailsStep ==
  ASSUME OptionsInv, NEW c \in Clients, OptionRequestFails(c)
  PROVE  OptionsInv'
<1>1. /\ UNCHANGED <<calls, options, paid, alone, doubled>> /\ decided' = None
      /\ DOMAIN req' = Clients
      /\ \A d \in Clients : req'[d] = IF d = c THEN Idle ELSE req[d]
      /\ req[c] # Idle
  BY DEF OptionRequestFails, Abort, OptionsInv, OptionsTyped
<1>2. OptionsTyped'
  BY <1>1 DEF OptionsInv, OptionsTyped, OptionRequest, Idle
<1>3. ASSUME alone PROVE \A d \in Clients : req'[d] = Idle /\ AloneKnows(req[d])'
  BY <1>1, <1>3 DEF OptionsInv, AloneKnows, Idle
<1>4. DefaultDecided' /\ PaysDefault'
  BY <1>1 DEF OptionsInv, DefaultDecided, PaysDefault
<1>5. QED
  BY <1>1, <1>2, <1>3, <1>4 DEF OptionsInv

\* Nobody writes.
LEMMA OptionsRest ==
  ASSUME OptionsInv, UNCHANGED <<options, alone, decided, doubled, req, calls>>, PaysDefault'
  PROVE  OptionsInv'
<1>1. OptionsTyped' /\ DefaultDecided'
  BY DEF OptionsInv, OptionsTyped, OptionRequest, DefaultDecided, Quiescent
<1>2. /\ Defaults' = Defaults /\ \A id : OptionAt(id)' = OptionAt(id)
      /\ \A row : DefaultsWith(row)' = DefaultsWith(row)
  BY DEF Defaults, OptionAt, DefaultsWith
<1>3. ASSUME alone, NEW d \in Clients PROVE AloneKnows(req[d])'
  <2>1. AloneKnows(req[d])
    BY <1>3 DEF OptionsInv
  <2>2. QED
    BY <1>2, <2>1 DEF AloneKnows
<1>4. QED
  BY <1>1, <1>2, <1>3 DEF OptionsInv

\* With one option, the one that was decided is the one that is taken.
LEMMA PayOutStep ==
  ASSUME OptionsInv, NEW o \in options, PayOut(o)
  PROVE  OptionsInv'
<1>1. /\ paid' = [option |-> o.id, decided |-> decided, doubled |-> doubled]
      /\ UNCHANGED <<options, alone, decided, doubled, req, calls>>
  BY DEF PayOut, reqVars
<1>2. ~doubled /\ decided # None => o.id = decided
  BY DEF OptionsInv, OptionAt
<1>3. PaysDefault'
  BY <1>1, <1>2 DEF PaysDefault
<1>4. QED
  BY <1>1, <1>3, OptionsRest

LEMMA OptionsInvNext == OptionsInv /\ [OptionsNext]_<<optionVars, reqVars>> => OptionsInv'
<1> SUFFICES ASSUME OptionsInv, [OptionsNext]_<<optionVars, reqVars>> PROVE OptionsInv'
  OBVIOUS
<1>1. ASSUME NEW c \in Clients, NEW b \in Banks, CreateOption(c, b) PROVE OptionsInv'
  BY <1>1, CreateOptionStep
<1>2. ASSUME NEW c \in Clients, NEW o \in options,
             \/ \E b \in Banks : UpdateOption(c, o, b)
             \/ RemoveOption(c, o) \/ SetDefault(c, o)
      PROVE  OptionsInv'
  BY <1>2, ExistingOptionStep
<1>3. ASSUME NEW c \in Clients,
             \/ CountOptions(c) \/ InsertOption(c) \/ DeleteOption(c) \/ Unset(c)
             \/ SelectOption(c) \/ UpdateRow(c) \/ OptionRequestFails(c)
      PROVE  OptionsInv'
  BY <1>3, CountOptionsStep, InsertOptionStep, DeleteOptionStep, UnsetStep, SelectOptionStep,
     UpdateRowStep, OptionRequestFailsStep
<1>4. CASE UNCHANGED <<optionVars, reqVars>>
  <2>1. PaysDefault'
    BY <1>4 DEF optionVars, OptionsInv, PaysDefault
  <2>2. QED
    BY <1>4, <2>1, OptionsRest DEF optionVars, reqVars
<1>5. QED
  BY <1>1, <1>2, <1>3, <1>4, PayOutStep DEF OptionsNext

\* A request of WithdrawalOptionsService that ran alone and to its end leaves the one
\* default it meant, whatever overlapped or failed before.
THEOREM DefaultIsDecided == OptionsSpec => []DefaultDecided
<1>1. OptionsInv => DefaultDecided
  BY DEF OptionsInv
<1>2. QED
  BY <1>1, OptionsInvInit, OptionsInvNext, PTL DEF OptionsSpec

\* handleWeeklyPayouts takes the default option, though it asks for any, unless requests
\* had overlapped.
THEOREM PayoutsTakeDefault == OptionsSpec => []PaysDefault
<1>1. OptionsInv => PaysDefault
  BY DEF OptionsInv
<1>2. QED
  BY <1>1, OptionsInvInit, OptionsInvNext, PTL DEF OptionsSpec

-----------------------------------------------------------------------------
(* The start and the vehicle types                                          *)

\* The table holds the first k default types.
FirstTypes(k) ==
  Len(types) = k /\ \A i \in 1..k : types[i].name = DefaultTypes[i] /\ types[i].live

SettingsComplete ==
  \A d \in DefaultSettings : \E s \in settings : s.doc = d[2] /\ s.type \in TypeNamed(d[1])

\* What a start that was never cut off between two types finds and leaves
BootSound ==
  /\ boot.pc \in {"down", "count"} => FirstTypes(0) \/ FirstTypes(3)
  /\ boot.pc = "types" => boot.next \in 1..3 /\ FirstTypes(boot.next - 1)
  /\ boot.pc \in {"settings", "admin", "up"} => FirstTypes(3)
  /\ settings = {} \/ SettingsComplete
  /\ boot.pc \in {"admin", "up"} => SettingsComplete
  /\ boot.pc = "up" => admin

VehicleRequest(r) ==
  /\ r.pc = "create" => r.name \in Names
  /\ r.pc = "name" => {"pc", "name", "type"} \subseteq DOMAIN r
  /\ r.pc \in {"name", "save"} => r.name \in Names /\ r.type \in DOMAIN types
  /\ r.pc \in {"delete", "restore"} => r.type \in DOMAIN types

VehiclesTyped ==
  /\ types \in Seq(VehicleType)
  /\ {"pc"} \subseteq DOMAIN boot
  /\ boot.pc \in {"down", "count", "types", "settings", "admin", "up"}
  /\ boot.pc = "types" => boot = [pc |-> "types", next |-> boot.next] /\ boot.next \in 1..3
  /\ DOMAIN req = Clients
  /\ \A c \in Clients : VehicleRequest(req[c])

VehiclesInv ==
  /\ VehiclesTyped
  /\ ~touched /\ ~cut => BootSound

LEMMA DefaultNames ==
  /\ \A i \in 1..3 : DefaultTypes[i] \in Names
  /\ \A i, j \in 1..3 : DefaultTypes[i] = DefaultTypes[j] => i = j
  /\ \A d \in DefaultSettings : \E i \in 1..3 : d[1] = DefaultTypes[i]
<1>1. \A i \in 1..3 : DefaultTypes[i] \in Names
  BY DEF Names
<1>2. DefaultTypes[1] = "bike" /\ DefaultTypes[2] = "bicycle" /\ DefaultTypes[3] = "van"
  BY DEF DefaultTypes
<1>3. \A i, j \in 1..3 : DefaultTypes[i] = DefaultTypes[j] => i = j
  BY <1>2
<1>4. \A d \in DefaultSettings : d[1] \in {"bike", "bicycle", "van"}
  <2>1. \A x, y : <<x, y>>[1] = x
    OBVIOUS
  <2>2. QED
    BY <2>1, Zenon DEF DefaultSettings
<1>5. QED
  BY <1>1, <1>2, <1>3, <1>4

\* With the first k types, the next name is not taken, and all names lead to a type.
LEMMA FirstTypesNamed ==
  ASSUME types \in Seq(VehicleType), NEW k \in 0..3, FirstTypes(k)
  PROVE  /\ \A i \in 1..3 : i > k => ~NameUsed(DefaultTypes[i]) /\ TypeNamed(DefaultTypes[i]) = {}
         /\ \A i \in 1..k : i \in TypeNamed(DefaultTypes[i])
         /\ LiveTypes = 1..k
<1>1. /\ DOMAIN types = 1..k
      /\ \A i \in 1..k : types[i].name = DefaultTypes[i] /\ types[i].live
  BY DEF FirstTypes
<1>2. LiveTypes = 1..k
  BY <1>1 DEF LiveTypes
<1>3. \A i \in 1..k : i \in TypeNamed(DefaultTypes[i])
  BY <1>1, <1>2 DEF TypeNamed
<1>4. ASSUME NEW i \in 1..3, i > k
      PROVE  ~NameUsed(DefaultTypes[i]) /\ TypeNamed(DefaultTypes[i]) = {}
  BY <1>1, <1>2, <1>4, DefaultNames DEF NameUsed, TypeNamed
<1>5. QED
  BY <1>1, <1>2, <1>3, <1>4

\* A new row: the others keep their places.
LEMMA NewType ==
  ASSUME types \in Seq(VehicleType), NEW n \in Names,
         types' = Append(types, [name |-> n, live |-> TRUE])
  PROVE  /\ types' \in Seq(VehicleType) /\ Len(types') = Len(types) + 1
         /\ DOMAIN types = 1..Len(types) /\ DOMAIN types' = 1..Len(types')
         /\ \A i \in 1..Len(types) : types'[i] = types[i]
         /\ types'[Len(types')].name = n /\ types'[Len(types')].live
<1> DEFINE e == [name |-> n, live |-> TRUE]
<1>1. e \in VehicleType /\ e.name = n /\ e.live
  BY DEF VehicleType
<1> HIDE DEF e
<1>2. types' = Append(types, e)
  BY DEF e
<1>3. QED
  BY <1>1, <1>2, AppendProperties

LEMMA VehiclesInvInit == VehiclesInit /\ RequestsInit => VehiclesInv
<1> SUFFICES ASSUME VehiclesInit, RequestsInit PROVE VehiclesInv
  OBVIOUS
<1>1. VehiclesTyped
  BY DEF VehiclesInit, RequestsInit, VehiclesTyped, VehicleRequest, Idle
<1>2. QED
  BY <1>1 DEF VehiclesInit, VehiclesInv, BootSound, FirstTypes

LEMMA StartStep ==
  ASSUME VehiclesInv, Start \/ CountTypes
  PROVE  VehiclesInv'
<1>1. UNCHANGED <<types, settings, admin, touched, cut, req>>
  BY DEF Start, CountTypes, Boot, tables, reqVars
<1>2. CASE Start
  <2>1. boot.pc = "down" /\ boot' = [pc |-> "count"]
    BY <1>2 DEF Start, Boot
  <2>2. BootSound => BootSound'
    BY <1>1, <2>1 DEF BootSound, FirstTypes, SettingsComplete, TypeNamed, LiveTypes
  <2>3. VehiclesTyped'
    BY <1>1, <2>1 DEF VehiclesInv, VehiclesTyped, VehicleRequest
  <2>4. QED
    BY <1>1, <2>2, <2>3 DEF VehiclesInv
<1>3. CASE CountTypes /\ LiveTypes # {}
  <2>1. boot.pc = "count" /\ boot' = [pc |-> "settings"]
    BY <1>3 DEF CountTypes, Boot
  <2>2. FirstTypes(0) => LiveTypes = {}
    BY FirstTypesNamed DEF VehiclesInv, VehiclesTyped
  <2>3. BootSound => BootSound'
    BY <1>1, <1>3, <2>1, <2>2 DEF BootSound, FirstTypes, SettingsComplete, TypeNamed, LiveTypes
  <2>4. VehiclesTyped'
    BY <1>1, <2>1 DEF VehiclesInv, VehiclesTyped, VehicleRequest
  <2>5. QED
    BY <1>1, <2>3, <2>4 DEF VehiclesInv
<1>4. CASE CountTypes /\ LiveTypes = {}
  <2>1. boot.pc = "count" /\ boot' = [pc |-> "types", next |-> 1]
    BY <1>4 DEF CountTypes, Boot
  <2>2. FirstTypes(3) => LiveTypes # {}
    <3>1. FirstTypes(3) => LiveTypes = 1..3
      BY FirstTypesNamed DEF VehiclesInv, VehiclesTyped
    <3>2. QED
      BY <3>1
  <2>3. BootSound => BootSound'
    BY <1>1, <1>4, <2>1, <2>2 DEF BootSound, FirstTypes, SettingsComplete, TypeNamed, LiveTypes
  <2>4. VehiclesTyped'
    BY <1>1, <2>1 DEF VehiclesInv, VehiclesTyped, VehicleRequest
  <2>5. QED
    BY <1>1, <2>3, <2>4 DEF VehiclesInv
<1>5. QED
  BY <1>2, <1>3, <1>4

LEMMA InitTypeStep ==
  ASSUME VehiclesInv, InitType
  PROVE  VehiclesInv'
<1> DEFINE name == DefaultTypes[boot.next]
<1>1. /\ boot.pc = "types" /\ boot.next \in 1..3 /\ name \in Names
      /\ boot = [pc |-> "types", next |-> boot.next]
      /\ types \in Seq(VehicleType) /\ UNCHANGED <<settings, admin, touched, cut, req>>
  BY DefaultNames DEF InitType, Boot, reqVars, VehiclesInv, VehiclesTyped
<1>2. ASSUME BootSound
      PROVE  /\ FirstTypes(boot.next - 1) /\ ~NameUsed(name) /\ TypeNamed(name) = {}
             /\ settings = {} \/ SettingsComplete
  BY <1>1, <1>2, FirstTypesNamed DEF BootSound
<1>3. CASE TypeNamed(name) = {} /\ NameUsed(name)
  <2>1. boot' = [pc |-> "down"] /\ types' = types
    BY <1>3 DEF InitType, Boot
  <2>2. boot'.pc = "down" /\ DOMAIN boot' = {"pc"}
    BY <2>1
  <2>3. VehiclesTyped'
    BY <1>1, <2>1, <2>2 DEF VehiclesInv, VehiclesTyped, VehicleRequest
  <2>4. QED
    BY <1>1, <1>2, <1>3, <2>3 DEF VehiclesInv
<1>4. CASE ~(TypeNamed(name) = {} /\ NameUsed(name))
  <2> DEFINE next == IF boot.next = 3 THEN [pc |-> "settings"] ELSE [boot EXCEPT !.next = @ + 1]
  <2>1. /\ boot' = next
        /\ types' = IF TypeNamed(name) = {}
                    THEN Append(types, [name |-> name, live |-> TRUE]) ELSE types
    BY <1>4 DEF InitType, Boot
  <2>2. /\ boot.next = 3 => boot'.pc = "settings" /\ DOMAIN boot' = {"pc"}
        /\ boot.next # 3 =>
             /\ boot' = [pc |-> "types", next |-> boot.next + 1]
             /\ boot'.pc = "types" /\ boot'.next = boot.next + 1
    BY <1>1, <2>1
  <2>3. /\ types' \in Seq(VehicleType) /\ Len(types) \in Nat
        /\ Len(types') = Len(types) + (IF TypeNamed(name) = {} THEN 1 ELSE 0)
        /\ DOMAIN types = 1..Len(types) /\ DOMAIN types' = 1..Len(types')
        /\ \A i \in 1..Len(types) : types'[i] = types[i]
        /\ TypeNamed(name) = {} => types'[Len(types')].name = name /\ types'[Len(types')].live
    <3>1. CASE TypeNamed(name) = {}
      <4> HIDE DEF name
      <4>1. types' = Append(types, [name |-> name, live |-> TRUE])
        BY <2>1, <3>1
      <4>2. ASSUME NEW n \in Names, n = name
            PROVE  /\ types' \in Seq(VehicleType) /\ Len(types') = Len(types) + 1
                   /\ DOMAIN types = 1..Len(types) /\ DOMAIN types' = 1..Len(types')
                   /\ \A i \in 1..Len(types) : types'[i] = types[i]
                   /\ types'[Len(types')].name = n /\ types'[Len(types')].live
        BY <1>1, <4>1, <4>2, NewType, Zenon
      <4>3. Len(types) \in Nat
        BY <1>1
      <4>4. QED
        BY <1>1, <3>1, <4>2, <4>3
    <3>2. CASE TypeNamed(name) # {}
      BY <1>1, <2>1, <3>2
    <3>3. QED
      BY <3>1, <3>2
  <2>4. VehiclesTyped'
    <3>1. \A c \in Clients : VehicleRequest(req[c])'
      BY <1>1, <2>3 DEF VehiclesInv, VehiclesTyped, VehicleRequest
    <3>2. QED
      BY <1>1, <2>2, <2>3, <3>1 DEF VehiclesInv, VehiclesTyped
  <2>5. ASSUME BootSound PROVE BootSound'
    <3>1. Len(types) = boot.next - 1
          /\ \A i \in 1..(boot.next - 1) : types[i].name = DefaultTypes[i] /\ types[i].live
      BY <1>2, <2>5 DEF FirstTypes
    <3>2. Len(types') = boot.next
          /\ \A i \in 1..boot.next : types'[i].name = DefaultTypes[i] /\ types'[i].live
      BY <1>1, <1>2, <2>3, <2>5, <3>1
    <3>3. SettingsComplete => SettingsComplete'
      <4>1. \A n : TypeNamed(n) \subseteq TypeNamed(n)'
        BY <1>1, <2>3 DEF TypeNamed, LiveTypes
      <4>2. QED
        BY <1>1, <4>1 DEF SettingsComplete
    <3>4. CASE boot.next = 3
      BY <1>1, <1>2, <2>2, <2>5, <3>2, <3>3, <3>4 DEF BootSound, FirstTypes
    <3>5. CASE boot.next # 3
      BY <1>1, <1>2, <2>2, <2>5, <3>2, <3>3, <3>5 DEF BootSound, FirstTypes
    <3>6. QED
      BY <3>4, <3>5
  <2>6. QED
    BY <1>1, <2>4, <2>5 DEF VehiclesInv
<1>5. QED
  BY <1>3, <1>4

LEMMA InitSettingsStep ==
  ASSUME VehiclesInv, InitSettings
  PROVE  VehiclesInv'
<1> DEFINE all == UNION {{[id |-> d, type |-> t, doc |-> d[2]] : t \in TypeNamed(d[1])} :
                         d \in DefaultSettings}
<1>1. /\ boot.pc = "settings" /\ boot' = [pc |-> "admin"]
      /\ settings' = IF settings = {} /\ \A i \in 1..3 : TypeNamed(DefaultTypes[i]) # {}
                     THEN all ELSE settings
      /\ UNCHANGED <<types, admin, touched, cut, req>>
  BY DEF InitSettings, Boot, reqVars
<1>2. VehiclesTyped'
  BY <1>1 DEF VehiclesInv, VehiclesTyped, VehicleRequest
<1>3. ASSUME BootSound PROVE BootSound'
  <2>1. FirstTypes(3)
    BY <1>1, <1>3 DEF BootSound
  <2>2. \A i \in 1..3 : TypeNamed(DefaultTypes[i]) # {}
    BY <2>1, FirstTypesNamed DEF VehiclesInv, VehiclesTyped
  <2>3. UNCHANGED <<LiveTypes, FirstTypes(3)>> /\ \A n : TypeNamed(n)' = TypeNamed(n)
    BY <1>1 DEF LiveTypes, TypeNamed, FirstTypes
  <2>4. CASE settings = {}
    <3>1. settings' = all
      BY <1>1, <2>2, <2>4
    <3>2. ASSUME NEW d \in DefaultSettings
          PROVE  \E s \in all : s.doc = d[2] /\ s.type \in TypeNamed(d[1])
      <4>1. PICK t : t \in TypeNamed(d[1])
        BY <2>2, DefaultNames
      <4>2. [id |-> d, type |-> t, doc |-> d[2]] \in all
        BY <4>1
      <4>3. QED
        BY <4>1, <4>2
    <3>3. SettingsComplete'
      BY <2>3, <3>1, <3>2 DEF SettingsComplete
    <3>4. QED
      BY <1>1, <2>1, <2>3, <3>3 DEF BootSound
  <2>5. CASE settings # {}
    <3>1. SettingsComplete /\ settings' = settings
      BY <1>1, <1>3, <2>5 DEF BootSound
    <3>2. SettingsComplete'
      BY <2>3, <3>1 DEF SettingsComplete
    <3>3. QED
      BY <1>1, <2>1, <2>3, <3>2 DEF BootSound
  <2>6. QED
    BY <2>4, <2>5
<1>4. QED
  BY <1>1, <1>2, <1>3 DEF VehiclesInv

LEMMA BootEndsStep ==
  ASSUME VehiclesInv, InitAdmin \/ Crash
  PROVE  VehiclesInv'
<1>1. UNCHANGED <<types, settings, touched>>
  BY DEF InitAdmin, Crash, Boot, tables
<1>2. UNCHANGED FirstTypes(0) /\ UNCHANGED FirstTypes(3) /\ UNCHANGED SettingsComplete
  BY <1>1 DEF FirstTypes, SettingsComplete, TypeNamed, LiveTypes
<1>3. CASE InitAdmin
  <2>1. /\ boot.pc = "admin" /\ UNCHANGED <<cut, req>>
        /\ (boot' = [pc |-> "up"] /\ admin') \/ boot' = [pc |-> "down"]
    BY <1>3 DEF InitAdmin, Boot, reqVars
  <2>2. BootSound => BootSound'
    BY <1>1, <1>2, <2>1 DEF BootSound, VehiclesInv, VehiclesTyped
  <2>3. VehiclesTyped'
    BY <1>1, <2>1 DEF VehiclesInv, VehiclesTyped, VehicleRequest
  <2>4. QED
    BY <1>1, <2>1, <2>2, <2>3 DEF VehiclesInv
<1>4. CASE Crash
  <2>1. /\ boot.pc # "down" /\ boot' = [pc |-> "down"] /\ admin' = admin
        /\ req' = [c \in Clients |-> Idle]
        /\ cut' = (cut \/ (boot.pc = "types" /\ boot.next > 1))
    BY <1>4 DEF Crash, tables
  <2>2. ASSUME BootSound, ~(boot.pc = "types" /\ boot.next > 1) PROVE BootSound'
    BY <1>1, <1>2, <2>1, <2>2 DEF BootSound, VehiclesInv, VehiclesTyped
  <2>3. VehiclesTyped'
    BY <1>1, <2>1 DEF VehiclesInv, VehiclesTyped, VehicleRequest, Idle
  <2>4. QED
    BY <1>1, <2>1, <2>2, <2>3 DEF VehiclesInv
<1>5. QED
  BY <1>3, <1>4

\* An administrator's step: the types stay in their places, and a change is recorded.
LEMMA AdministratorStep ==
  ASSUME VehiclesInv, Up, touched' \/ UNCHANGED <<types, settings, touched>>,
         types' \in Seq(VehicleType), DOMAIN types \subseteq DOMAIN types',
         UNCHANGED req \/
           \E c \in Clients : \E r : req' = [req EXCEPT ![c] = r] /\ VehicleRequest(r)
  PROVE  VehiclesInv'
<1>1. boot.pc = "up" /\ UNCHANGED <<admin, boot, cut>>
  BY DEF Up
<1>2. VehiclesTyped'
  <2>1. \A r : VehicleRequest(r) => VehicleRequest(r)'
    BY DEF VehicleRequest
  <2>2. DOMAIN req' = Clients /\ \A d \in Clients : VehicleRequest(req'[d])
    BY DEF VehiclesInv, VehiclesTyped
  <2>3. \A d \in Clients : VehicleRequest(req[d])'
    BY <2>2 DEF VehicleRequest
  <2>4. QED
    BY <1>1, <2>2, <2>3 DEF VehiclesInv, VehiclesTyped
<1>3. ASSUME BootSound, UNCHANGED <<types, settings>> PROVE BootSound'
  BY <1>1, <1>3 DEF BootSound, FirstTypes, SettingsComplete, TypeNamed, LiveTypes
<1>4. QED
  BY <1>1, <1>2, <1>3 DEF VehiclesInv

\* The requests that only look
LEMMA LookingStep ==
  ASSUME VehiclesInv, NEW c \in Clients,
         \/ \E n \in OtherNames : CreateType(c, n)
         \/ \E i \in DOMAIN types :
              \/ RemoveType(c, i) \/ RestoreType(c, i)
              \/ \E n \in OtherNames \cup {types[i].name} : UpdateType(c, i, n)
         \/ NameIsFree(c) \/ \E s \in settings : ChangeSetting(c, s)
  PROVE  VehiclesInv'
<1>1. Up /\ UNCHANGED <<types, settings, touched>>
  BY DEF CreateType, RemoveType, RestoreType, UpdateType, NameIsFree, ChangeSetting
<1>2. types \in Seq(VehicleType) /\ \A i \in DOMAIN types : types[i].name \in Names
  <2>1. types \in Seq(VehicleType) /\ \A i \in DOMAIN types : types[i] \in VehicleType
    BY DEF VehiclesInv, VehiclesTyped
  <2>2. QED
    BY <2>1 DEF VehicleType
<1>3. ASSUME NEW r, req' = [req EXCEPT ![c] = r], VehicleRequest(r) PROVE VehiclesInv'
  BY <1>1, <1>2, <1>3, AdministratorStep
<1>4. ASSUME NEW n \in OtherNames, CreateType(c, n) PROVE VehiclesInv'
  <2>1. VehicleRequest([pc |-> "create", name |-> n])
    BY DEF VehicleRequest, Names
  <2>2. QED
    BY <1>3, <1>4, <2>1 DEF CreateType, Arrive
<1>5. ASSUME NEW i \in DOMAIN types, RemoveType(c, i) \/ RestoreType(c, i) PROVE VehiclesInv'
  <2>1. \A pc \in {"delete", "restore"} : VehicleRequest([pc |-> pc, type |-> i])
    BY DEF VehicleRequest
  <2>2. QED
    BY <1>3, <1>5, <2>1 DEF RemoveType, RestoreType, Arrive
<1>6. ASSUME NEW i \in DOMAIN types, NEW n \in OtherNames \cup {types[i].name}, UpdateType(c, i, n)
      PROVE  VehiclesInv'
  <2>1. n \in Names
    BY <1>2 DEF Names
  <2>2. \A pc \in {"save", "name"} : VehicleRequest([pc |-> pc, type |-> i, name |-> n])
    BY <2>1 DEF VehicleRequest
  <2>3. QED
    BY <1>3, <1>6, <2>2 DEF UpdateType, Arrive
<1>7. CASE NameIsFree(c)
  <2>1. VehicleRequest(Idle)
    BY DEF VehicleRequest, Idle
  <2>2. req[c].pc = "name" => VehicleRequest([req[c] EXCEPT !.pc = "save"])
    BY DEF VehiclesInv, VehiclesTyped, VehicleRequest
  <2>3. QED
    BY <1>3, <1>7, <2>1, <2>2 DEF NameIsFree, Goto, Finish, Become
<1>8. ASSUME NEW s \in settings, ChangeSetting(c, s) PROVE VehiclesInv'
  <2>1. \A d : VehicleRequest([pc |-> "setting", old |-> s, doc |-> d])
    BY DEF VehicleRequest
  <2>2. QED
    BY <1>3, <1>8, <2>1 DEF ChangeSetting, Arrive
<1>9. QED
  BY <1>4, <1>5, <1>6, <1>7, <1>8

\* The requests that write
LEMMA WritingStep ==
  ASSUME VehiclesInv,
         \/ \E c \in Clients : InsertType(c) \/ SaveType(c) \/ SoftDelete(c) \/ SaveSetting(c)
         \/ \E i \in DOMAIN types, d \in OtherNames : CreateSetting(i, d)
  PROVE  VehiclesInv'
<1>1. Up /\ touched' /\ types \in Seq(VehicleType) /\ VehicleRequest(Idle)
  BY DEF InsertType, SaveType, SoftDelete, SaveSetting, CreateSetting, VehiclesInv,
     VehiclesTyped, VehicleRequest, Idle
<1>2. \/ UNCHANGED req
      \/ \E c \in Clients : \E r : req' = [req EXCEPT ![c] = r] /\ VehicleRequest(r)
  BY <1>1 DEF InsertType, SaveType, SoftDelete, SaveSetting, CreateSetting, Finish, Become,
     Instant
<1>3. types' \in Seq(VehicleType) /\ DOMAIN types \subseteq DOMAIN types'
  <2>1. ASSUME NEW c \in Clients, InsertType(c), types' # types
        PROVE  types' \in Seq(VehicleType) /\ DOMAIN types \subseteq DOMAIN types'
    <3>1. PICK n \in Names : types' = Append(types, [name |-> n, live |-> TRUE])
      BY <2>1 DEF InsertType, VehiclesInv, VehiclesTyped, VehicleRequest
    <3>2. /\ types' \in Seq(VehicleType) /\ Len(types') = Len(types) + 1
          /\ DOMAIN types = 1..Len(types) /\ DOMAIN types' = 1..Len(types')
      BY <1>1, <3>1, NewType, Zenon
    <3>3. Len(types) \in Nat
      BY <1>1
    <3>4. 1..Len(types) \subseteq 1..(Len(types) + 1)
      BY <3>3
    <3>5. QED
      BY <3>2, <3>4, Zenon
  <2>2. ASSUME NEW c \in Clients, SaveType(c) \/ SoftDelete(c), types' # types
        PROVE  \E i \in DOMAIN types : \E t \in VehicleType : types' = [types EXCEPT ![i] = t]
    <3>1. CASE SaveType(c)
      <4>1. /\ req[c].name \in Names /\ req[c].type \in DOMAIN types
            /\ types' = [types EXCEPT ![req[c].type] = [name |-> req[c].name, live |-> TRUE]]
        BY <2>2, <3>1 DEF SaveType, VehiclesInv, VehiclesTyped, VehicleRequest
      <4>2. [name |-> req[c].name, live |-> TRUE] \in VehicleType
        BY <4>1 DEF VehicleType
      <4>3. QED
        BY <4>1, <4>2
    <3>2. CASE SoftDelete(c)
      <4> DEFINE i == req[c].type
                 t == [types[i] EXCEPT !.live = (req[c].pc = "restore")]
      <4>1. i \in DOMAIN types /\ types' = [types EXCEPT ![i] = t]
        BY <3>2 DEF SoftDelete, VehiclesInv, VehiclesTyped, VehicleRequest
      <4>2. t \in VehicleType
        <5>1. types[i] \in VehicleType
          BY <1>1, <4>1
        <5>2. QED
          BY <5>1 DEF VehicleType
      <4>3. QED
        BY <4>1, <4>2
    <3>3. QED
      BY <2>2, <3>1, <3>2
  <2>3. ASSUME NEW i \in DOMAIN types, NEW t \in VehicleType, types' = [types EXCEPT ![i] = t]
        PROVE  types' \in Seq(VehicleType) /\ DOMAIN types \subseteq DOMAIN types'
    BY <1>1, <2>3
  <2>4. QED
    BY <1>1, <2>1, <2>2, <2>3 DEF SaveSetting, CreateSetting
<1>4. QED
  BY <1>1, <1>2, <1>3, AdministratorStep

LEMMA VehiclesInvNext == VehiclesInv /\ [VehiclesNext]_<<vehicleVars, reqVars>> => VehiclesInv'
<1> SUFFICES ASSUME VehiclesInv, [VehiclesNext]_<<vehicleVars, reqVars>> PROVE VehiclesInv'
  OBVIOUS
<1>1. CASE UNCHANGED <<vehicleVars, reqVars>>
  BY <1>1 DEF vehicleVars, reqVars, VehiclesInv, VehiclesTyped, VehicleRequest,
     BootSound, FirstTypes, SettingsComplete, TypeNamed, LiveTypes
<1>2. CASE VehiclesNext
  BY <1>2, StartStep, InitTypeStep, InitSettingsStep, BootEndsStep, LookingStep, WritingStep
  DEF VehiclesNext
<1>3. QED
  BY <1>1, <1>2

LEMMA CompleteWhenUp == VehiclesInv => UpWithDefaults
<1> SUFFICES ASSUME VehiclesInv, boot.pc = "up", ~touched, ~cut PROVE Complete
  BY DEF UpWithDefaults
<1>1. FirstTypes(3) /\ SettingsComplete /\ admin
  BY DEF VehiclesInv, BootSound
<1>2. \A i \in 1..3 : TypeNamed(DefaultTypes[i]) # {}
  BY <1>1, FirstTypesNamed DEF VehiclesInv, VehiclesTyped
<1>3. QED
  BY <1>1, <1>2 DEF Complete, SettingsComplete

\* OnStartUp: a server that listens has all default types, settings and the administrator,
\* however often its start was cut off or failed for want of the administrator's data, unless
\* it was cut off between two types.
THEOREM StartsWithDefaults == VehiclesSpec => []UpWithDefaults
BY CompleteWhenUp, VehiclesInvInit, VehiclesInvNext, PTL DEF VehiclesSpec

-----------------------------------------------------------------------------
(* Documents                                                                *)

DocKeys == {"id", "name", "file", "status"}

DocSound(d)   == DOMAIN d = DocKeys /\ d.id \in Nat /\ d.id < nextDoc
Passed(d)     == d.status = "APPROVED" => [id |-> d.id, file |-> d.file] \in passed

\* A change of the row x leaves it as the entity is.
Covers(ch, x) == \A k \in DocKeys : k \in ch.cols \/ x[k] = ch.row[k]

DocRequest(r) ==
  /\ r.pc = "select" => DocSound(r.row) /\ Passed(r.row)
  /\ r.pc = "insert" => DOMAIN r.row = DocKeys /\ r.row.status = "PENDING"
  /\ r.pc = "update" => DocSound(r.change.row) /\ Passed(r.change.row)
  /\ r.pc = "selectInfo" =>
       /\ DOMAIN r.row = {"status", "vehicle"}
       /\ \A d \in r.loaded : DocSound(d)
       /\ \A d, x \in r.loaded : d.id = x.id => d = x
       /\ ~r.cascade => r.loaded = {}
  /\ r.pc = "updateInfo" =>
       /\ \A ch \in r.changes : DocSound(ch.row)
       /\ \A ch, x \in r.changes : ch.row.id = x.row.id => ch = x

\* What a request that is alone still finds as it read it
SoloKnows(r) ==
  /\ r.pc = "update" => \A x \in WithId(docs, r.change.row.id) : Covers(r.change, x)
  /\ r.pc = "selectInfo" /\ r.cascade => r.loaded = docs /\ r.row.status = Derived(docs)
  /\ r.pc = "updateInfo" => \A ch \in r.changes : ~ch.new /\ ch.cols = {}
  /\ r.pc = "updateInfo" /\ r.cascade =>
       /\ r.row.status = Derived(docs)
       /\ "status" \in r.cols \/ info.status = r.row.status

DocsTyped ==
  /\ DOMAIN req = Clients /\ nextDoc \in Nat /\ DOMAIN info = {"status", "vehicle"}
  /\ \A d \in docs : DocSound(d)
  /\ \A d, x \in docs : d.id = x.id => d = x
  /\ \A c \in Clients : DocRequest(req[c])

DocumentsInv ==
  /\ DocsTyped
  /\ solo => \A c, d \in Clients : req[c] # Idle /\ req[d] # Idle => c = d
  /\ solo => \A c \in Clients : SoloKnows(req[c])
  /\ settled => Quiescent
  /\ StatusReflectsDocuments /\ ApprovedAsRead

LEMMA DocumentsInvInit == DocumentsInit /\ RequestsInit => DocumentsInv
<1> SUFFICES ASSUME DocumentsInit, RequestsInit PROVE DocumentsInv
  OBVIOUS
<1>1. docs = {} \/ \E n \in DocNames, f \in Files, s \in Status \ {"INITIAL"} :
                     docs = {[id |-> 1, name |-> n, file |-> f, status |-> s]}
  BY DEF DocumentsInit
<1>2. /\ \A d \in docs : DocSound(d)
      /\ \A d, x \in docs : d.id = x.id => d = x
  <2>1. \A n, f, s : DocSound([id |-> 1, name |-> n, file |-> f, status |-> s])
    BY DEF DocumentsInit, DocSound, DocKeys
  <2>2. QED
    BY <1>1, <2>1
<1>3. \A c \in Clients : DocRequest(req[c]) /\ SoloKnows(req[c])
  BY DEF RequestsInit, DocRequest, SoloKnows, Idle
<1>4. DOMAIN info = {"status", "vehicle"} /\ info.status = Derived(docs)
  <2>1. \E s \in {Derived(docs)} : info.status = s /\ DOMAIN info = {"status", "vehicle"}
    BY DEF DocumentsInit
  <2>2. QED
    BY <2>1
<1>5. StatusReflectsDocuments /\ ApprovedAsRead
  BY <1>4 DEF DocumentsInit, StatusReflectsDocuments, ApprovedAsRead
<1>6. QED
  BY <1>2, <1>3, <1>4, <1>5 DEF DocumentsInit, RequestsInit, DocumentsInv, DocsTyped, Quiescent

-----------------------------------------------------------------------------
(* save()                                                                   *)

\* What is stored is a row that was there, merged or not, or an entity whose row is gone.
LEMMA StoredRow ==
  ASSUME NEW table, NEW changes, NEW x \in Stored(table, changes),
         \A d \in table : DOMAIN d = DocKeys
  PROVE  \/ x \in table /\ \A ch \in changes : ch.row.id = x.id => ch.new
         \/ \E d \in table, ch \in changes :
              /\ ~ch.new /\ ch.row.id = d.id
              /\ x = Merged(d, ch.row, ch.cols) /\ x.id = d.id /\ DOMAIN x = DocKeys
         \/ \E ch \in changes : ch.new /\ x = ch.row /\ WithId(table, x.id) = {}
<1> DEFINE to(d)  == {ch \in changes : ch.row.id = d.id /\ ~ch.new}
           pick(d) == CHOOSE ch \in to(d) : TRUE
           new(d) == IF to(d) = {} THEN d ELSE Merged(d, pick(d).row, pick(d).cols)
<1>1. Stored(table, changes) =
        {new(d) : d \in table}
        \cup {ch.row : ch \in {y \in changes : y.new /\ WithId(table, y.row.id) = {}}}
  BY DEF Stored
<1>2. CASE x \in {ch.row : ch \in {y \in changes : y.new /\ WithId(table, y.row.id) = {}}}
  BY <1>2
<1>3. ASSUME NEW d \in table, x = new(d)
      PROVE  \/ x \in table /\ \A ch \in changes : ch.row.id = x.id => ch.new
             \/ \E ch \in changes :
                  /\ ~ch.new /\ ch.row.id = d.id
                  /\ x = Merged(d, ch.row, ch.cols) /\ x.id = d.id /\ DOMAIN x = DocKeys
  <2>1. CASE to(d) = {}
    BY <1>3, <2>1
  <2>2. CASE to(d) # {}
    <3>1. pick(d) \in to(d)
      BY <2>2
    <3>2. x = Merged(d, pick(d).row, pick(d).cols)
      BY <1>3, <2>2
    <3>3. pick(d) \in changes /\ pick(d).row.id = d.id /\ ~pick(d).new
      BY <3>1
    <3> HIDE DEF pick, to, new
    <3>4. x.id = d.id /\ DOMAIN x = DocKeys
      BY <3>2, <3>3 DEF Merged, DocKeys
    <3>5. QED
      BY <3>2, <3>3, <3>4
  <2>3. QED
    BY <2>1, <2>2
<1>4. QED
  BY <1>1, <1>2, <1>3

\* Rows keep their ids apart.
LEMMA StoredOnce ==
  ASSUME NEW table, NEW changes,
         \A d \in table : DOMAIN d = DocKeys,
         \A d, x \in table : d.id = x.id => d = x,
         \A ch, x \in changes : ch.row.id = x.row.id => ch = x
  PROVE  \A x, y \in Stored(table, changes) : x.id = y.id => x = y
<1> SUFFICES ASSUME NEW x \in Stored(table, changes), NEW y \in Stored(table, changes),
                    x.id = y.id
             PROVE  x = y
  OBVIOUS
<1> DEFINE kept(z) == z \in table /\ \A ch \in changes : ch.row.id = z.id => ch.new
           merged(z) == \E d \in table, ch \in changes :
                          /\ ~ch.new /\ ch.row.id = d.id
                          /\ z = Merged(d, ch.row, ch.cols) /\ z.id = d.id
           added(z) == \E ch \in changes : ch.new /\ z = ch.row /\ WithId(table, z.id) = {}
<1>1. \A z \in {x, y} : kept(z) \/ merged(z) \/ added(z)
  BY StoredRow
<1>2. \A z \in {x, y} : kept(z) \/ merged(z) => WithId(table, z.id) # {}
  BY DEF WithId
<1>3. CASE kept(x) /\ kept(y)
  BY <1>3
<1>4. CASE merged(x) /\ merged(y)
  BY <1>4
<1>5. CASE added(x) /\ added(y)
  BY <1>5
<1>6. ~(kept(x) /\ merged(y)) /\ ~(merged(x) /\ kept(y))
  OBVIOUS
<1>7. QED
  BY <1>1, <1>2, <1>3, <1>4, <1>5, <1>6

-----------------------------------------------------------------------------
(* The steps of a request                                                   *)

LEMMA DocRequestKept ==
  ASSUME NEW r, DocRequest(r), nextDoc \in Nat, nextDoc' \in Nat, nextDoc <= nextDoc',
         passed \subseteq passed'
  PROVE  DocRequest(r)'
<1>1. \A d : (DocSound(d) => DocSound(d)') /\ (Passed(d) => Passed(d)')
  BY DEF DocSound, Passed
<1>2. QED
  BY <1>1 DEF DocRequest

\* A request reads.
LEMMA ReadStep ==
  ASSUME DocumentsInv, NEW c \in Clients, NEW r, req' = [req EXCEPT ![c] = r], req[c] # Idle,
         UNCHANGED <<info, docs, nextDoc, mixed, solo, settled, passed>>,
         DocRequest(r), solo => SoloKnows(r)
  PROVE  DocumentsInv'
<1>1. /\ DOMAIN req' = Clients
      /\ \A d \in Clients : req'[d] = IF d = c THEN r ELSE req[d]
  BY DEF DocumentsInv, DocsTyped
<1>2. \A x : /\ DocRequest(x) => DocRequest(x)'
             /\ SoloKnows(x) => SoloKnows(x)'
             /\ DocSound(x) => DocSound(x)'
  BY DocRequestKept DEF DocumentsInv, DocsTyped, SoloKnows, DocSound
<1>3. DocsTyped'
  <2>1. \A d \in Clients : DocRequest(req[d])'
    <3>1. ASSUME NEW d \in Clients, NEW x, x = req'[d] PROVE DocRequest(x)'
      BY <1>1, <1>2, <3>1 DEF DocumentsInv, DocsTyped
    <3>2. QED
      BY <3>1 DEF DocRequest
  <2>2. QED
    BY <1>1, <1>2, <2>1 DEF DocumentsInv, DocsTyped
<1>4. ASSUME solo PROVE \A d \in Clients : SoloKnows(req[d])'
  <2>1. ASSUME NEW d \in Clients, NEW x, x = req'[d] PROVE SoloKnows(x)'
    BY <1>1, <1>2, <1>4, <2>1 DEF DocumentsInv
  <2>2. QED
    BY <2>1 DEF SoloKnows
<1>5. ~settled
  BY DEF DocumentsInv, Quiescent
<1>6. StatusReflectsDocuments' /\ ApprovedAsRead'
  BY <1>5 DEF DocumentsInv, StatusReflectsDocuments, ApprovedAsRead
<1>7. QED
  BY <1>1, <1>3, <1>4, <1>5, <1>6 DEF DocumentsInv

\* A request begins.
LEMMA BeginStep ==
  ASSUME DocumentsInv, NEW c \in Clients, NEW r, Begin(c, r), passed \subseteq passed',
         DocRequest(r)', Quiescent => SoloKnows(r)
  PROVE  DocumentsInv'
<1>1. /\ DOMAIN req' = Clients
      /\ \A d \in Clients : req'[d] = IF d = c THEN r ELSE req[d]
      /\ UNCHANGED <<info, docs, nextDoc, mixed>> /\ solo' = Quiescent /\ ~settled'
  BY DEF Begin, Arrive, Rows, DocumentsInv, DocsTyped
<1>2. \A x : DocRequest(x) => DocRequest(x)'
  BY <1>1, DocRequestKept DEF DocumentsInv, DocsTyped
<1>3. DocsTyped'
  <2>1. \A d \in Clients : DocRequest(req[d])'
    <3>1. ASSUME NEW d \in Clients, NEW x, x = req'[d] PROVE DocRequest(x)'
      BY <1>1, <1>2, <3>1 DEF DocumentsInv, DocsTyped
    <3>2. QED
      BY <3>1 DEF DocRequest
  <2>2. QED
    BY <1>1, <2>1 DEF DocumentsInv, DocsTyped, DocSound
<1>4. ASSUME Quiescent, NEW d \in Clients PROVE SoloKnows(req[d])'
  <2>1. ASSUME NEW x, x = req'[d] PROVE SoloKnows(x)'
    <3>1. SoloKnows(x)
      BY <1>1, <1>4, <2>1 DEF Quiescent, SoloKnows, Idle
    <3>2. QED
      BY <1>1, <3>1 DEF SoloKnows
  <2>2. QED
    BY <2>1 DEF SoloKnows
<1>5. StatusReflectsDocuments' /\ ApprovedAsRead'
  BY <1>1 DEF DocumentsInv, StatusReflectsDocuments, ApprovedAsRead
<1>6. QED
  BY <1>1, <1>3, <1>4, <1>5 DEF DocumentsInv, Quiescent

\* A request writes rows, and rider_info perhaps, and goes on or ends.
LEMMA WriteStep ==
  ASSUME DocumentsInv, NEW c \in Clients, NEW r, NEW changes, Write(changes),
         req' = [req EXCEPT ![c] = r], req[c] # Idle, UNCHANGED <<solo, passed>>,
         nextDoc' \in Nat, nextDoc <= nextDoc', DOMAIN info' = {"status", "vehicle"},
         \A ch \in changes : DOMAIN ch.row = DocKeys /\ ch.row.id \in Nat /\ ch.row.id < nextDoc',
         \A ch, x \in changes : ch.row.id = x.row.id => ch = x,
         solo => \A ch \in changes : /\ Passed(ch.row)
                                     /\ \A x \in WithId(docs, ch.row.id) : Covers(ch, x),
         DocRequest(r), \A x \in {"update", "selectInfo", "updateInfo"} : r.pc # x,
         settled' => r = Idle /\ solo /\ info'.status = Derived(docs')
  PROVE  DocumentsInv'
<1>1. /\ DOMAIN req' = Clients
      /\ \A d \in Clients : req'[d] = IF d = c THEN r ELSE req[d]
      /\ docs' = Stored(docs, changes)
      /\ mixed' = (IF solo THEN mixed ELSE mixed \cup {ch.row.id : ch \in changes})
      /\ \A d \in docs : DOMAIN d = DocKeys
  BY DEF Write, DocumentsInv, DocsTyped, DocSound
<1>2. \A x : /\ DocRequest(x) => DocRequest(x)'
             /\ DocSound(x) => DocSound(x)'
  BY DocRequestKept DEF DocumentsInv, DocsTyped, DocSound
<1>3. ASSUME NEW x \in docs'
      PROVE  \/ x \in docs /\ \A ch \in changes : ch.row.id = x.id => ch.new
             \/ \E d \in docs, ch \in changes :
                  /\ ~ch.new /\ ch.row.id = d.id
                  /\ x = Merged(d, ch.row, ch.cols) /\ x.id = d.id /\ DOMAIN x = DocKeys
             \/ \E ch \in changes : ch.new /\ x = ch.row /\ WithId(docs, x.id) = {}
  BY <1>1, StoredRow
<1>4. DocsTyped'
  <2>1. \A d \in Clients : DocRequest(req[d])'
    <3>1. ASSUME NEW d \in Clients, NEW x, x = req'[d] PROVE DocRequest(x)'
      BY <1>1, <1>2, <3>1 DEF DocumentsInv, DocsTyped
    <3>2. QED
      BY <3>1 DEF DocRequest
  <2>2. ASSUME NEW x \in docs' PROVE DocSound(x)'
    BY <1>2, <1>3 DEF DocumentsInv, DocsTyped, DocSound
  <2>3. \A x, y \in docs' : x.id = y.id => x = y
    BY <1>1, StoredOnce DEF DocumentsInv, DocsTyped
  <2>4. QED
    BY <1>1, <2>1, <2>2, <2>3 DEF DocsTyped
<1>5. ASSUME solo PROVE \A d \in Clients : (d # c => req'[d] = Idle) /\ SoloKnows(req[d])'
  <2>1. \A d \in Clients : d # c => req'[d] = Idle
    BY <1>1, <1>5 DEF DocumentsInv
  <2>2. ASSUME NEW x, x \in {Idle, r} PROVE SoloKnows(x)'
    BY <2>2 DEF SoloKnows, Idle
  <2>3. QED
    <3>1. ASSUME NEW d \in Clients, NEW x, x = req'[d] PROVE SoloKnows(x)'
      BY <1>1, <2>1, <2>2, <3>1
    <3>2. QED
      BY <2>1, <3>1 DEF SoloKnows
<1>6. ApprovedAsRead'
  <2> SUFFICES ASSUME NEW x \in docs', x.status = "APPROVED", x.id \notin mixed'
               PROVE  [id |-> x.id, file |-> x.file] \in passed
    BY DEF ApprovedAsRead
  <2>1. CASE x \in docs
    BY <1>1, <2>1 DEF DocumentsInv, ApprovedAsRead
  <2>2. ASSUME NEW d \in docs, NEW ch \in changes, ~ch.new, ch.row.id = d.id,
               x = Merged(d, ch.row, ch.cols), x.id = d.id
        PROVE  [id |-> x.id, file |-> x.file] \in passed
    <3>1. solo /\ Passed(ch.row) /\ Covers(ch, d)
      BY <1>1, <2>2 DEF WithId
    <3>2. x.status = ch.row.status /\ x.file = ch.row.file
      BY <1>1, <2>2, <3>1 DEF Covers, Merged, DocKeys
    <3>3. QED
      BY <2>2, <3>1, <3>2 DEF Passed
  <2>3. ASSUME NEW ch \in changes, x = ch.row
        PROVE  [id |-> x.id, file |-> x.file] \in passed
    <3>1. solo /\ Passed(ch.row)
      BY <1>1, <2>3
    <3>2. QED
      BY <2>3, <3>1 DEF Passed
  <2>4. QED
    BY <1>3, <2>1, <2>2, <2>3
<1>7. StatusReflectsDocuments' /\ (settled' => Quiescent')
  BY <1>1, <1>5 DEF StatusReflectsDocuments, Quiescent
<1>8. QED
  BY <1>1, <1>4, <1>5, <1>6, <1>7 DEF DocumentsInv

LEMMA BeginningStep ==
  ASSUME DocumentsInv, NEW c \in Clients,
         \/ \E names \in SUBSET DocNames : \E files \in [names -> Files] : Upload(c, files)
         \/ \E d \in docs : DeleteDocument(c, d) \/ \E s \in Status : Review(c, d, s)
         \/ \E row \in RiderInfo : SetInfo(c, row)
  PROVE  DocumentsInv'
<1>1. ASSUME NEW r, Begin(c, r), r.pc \in {"find", "remove"}, UNCHANGED passed
      PROVE  DocumentsInv'
  <2>1. DocRequest(r)' /\ SoloKnows(r)
    BY <1>1 DEF DocRequest, SoloKnows
  <2>2. QED
    BY <1>1, <2>1, BeginStep
<1>2. ASSUME NEW names, NEW files \in [names -> Files], Upload(c, files) PROVE DocumentsInv'
  BY <1>1, <1>2 DEF Upload, Serving
<1>3. ASSUME NEW d \in docs, DeleteDocument(c, d) PROVE DocumentsInv'
  BY <1>1, <1>3 DEF DeleteDocument, Serving
<1>4. ASSUME NEW d \in docs, NEW status \in Status, Review(c, d, status) PROVE DocumentsInv'
  <2> DEFINE row == [d EXCEPT !.status = status]
             q   == Serving("select", <<>>, row)
  <2>1. DocSound(d)
    BY DEF DocumentsInv, DocsTyped
  <2>2. /\ DOMAIN row = DocKeys /\ row.id = d.id /\ row.file = d.file /\ row.status = status
    BY <2>1 DEF DocSound, DocKeys
  <2>3. /\ Begin(c, q) /\ nextDoc' = nextDoc /\ q.pc = "select" /\ q.row = row
        /\ passed' = IF status = "APPROVED"
                       THEN passed \cup {[id |-> d.id, file |-> d.file]} ELSE passed
    BY <1>4 DEF Review, Begin, Rows, Serving
  <2> HIDE DEF row, q
  <2>4. ASSUME NEW r, r = q PROVE DocumentsInv'
    <3>1. DocRequest(r)' /\ SoloKnows(r)
      BY <2>1, <2>2, <2>3, <2>4 DEF DocRequest, SoloKnows, DocSound, Passed
    <3>2. QED
      BY <2>3, <2>4, <3>1, BeginStep
  <2>5. QED
    BY <2>4
<1>5. ASSUME NEW row \in RiderInfo, SetInfo(c, row) PROVE DocumentsInv'
  <2> DEFINE q == [pc |-> "selectInfo", row |-> row, cascade |-> FALSE, loaded |-> {}]
  <2>1. Begin(c, q) /\ UNCHANGED passed
    BY <1>5 DEF SetInfo
  <2>2. /\ q.pc = "selectInfo" /\ q.row = row /\ q.cascade = FALSE /\ q.loaded = {}
        /\ DOMAIN row = {"status", "vehicle"}
    BY DEF RiderInfo
  <2> HIDE DEF q
  <2>3. ASSUME NEW r, r = q PROVE DocumentsInv'
    <3>1. DocRequest(r)' /\ SoloKnows(r)
      BY <2>2, <2>3 DEF DocRequest, SoloKnows
    <3>2. QED
      BY <2>1, <2>3, <3>1, BeginStep
  <2>4. QED
    BY <2>3
<1>6. QED
  BY <1>2, <1>3, <1>4, <1>5

LEMMA FindDocumentStep ==
  ASSUME DocumentsInv, NEW c \in Clients, NEW n \in DocNames, FindDocument(c, n)
  PROVE  DocumentsInv'
<1> DEFINE left    == Without(req[c].files, n)
           created == [id |-> None, name |-> n, file |-> req[c].files[n], status |-> "PENDING"]
<1>1. /\ req[c] # Idle /\ UNCHANGED <<info, docs, nextDoc, mixed, solo, settled, passed>>
      /\ \E r : /\ req' = [req EXCEPT ![c] = r]
                /\ \/ r = Serving("insert", left, created)
                   \/ r = After(left)
                   \/ \E d \in docs : r = Serving("select", left, Uploaded(d, req[c].files[n]))
  BY DEF FindDocument, Go, Become, Rows, Idle
<1>2. ASSUME NEW f PROVE LET r == Serving("insert", f, created) IN DocRequest(r) /\ SoloKnows(r)
  BY DEF DocRequest, SoloKnows, Serving, DocKeys
<1>3. ASSUME NEW f PROVE LET r == After(f) IN DocRequest(r) /\ SoloKnows(r)
  BY DEF DocRequest, SoloKnows, Serving, After
<1>4. ASSUME NEW f, NEW d \in docs, NEW file
      PROVE LET r == Serving("select", f, Uploaded(d, file)) IN DocRequest(r) /\ SoloKnows(r)
  <2>1. DocSound(d)
    BY DEF DocumentsInv, DocsTyped
  <2>2. /\ DOMAIN Uploaded(d, file) = DocKeys /\ Uploaded(d, file).id = d.id
        /\ Uploaded(d, file).status = "PENDING"
    BY <2>1 DEF Uploaded, DocSound, DocKeys
  <2>3. QED
    BY <2>1, <2>2 DEF DocRequest, SoloKnows, Serving, DocSound, Passed
<1>5. PICK r : /\ req' = [req EXCEPT ![c] = r] /\ DocRequest(r) /\ SoloKnows(r)
  BY <1>1, <1>2, <1>3, <1>4
<1>6. QED
  BY <1>1, <1>5, ReadStep

\* What nobody has changed since it was read is changed to what was meant.
LEMMA ChangeCovers ==
  ASSUME \A d \in docs : DOMAIN d = DocKeys, \A d, x \in docs : d.id = x.id => d = x, NEW d
  PROVE  LET ch == Change(d, docs)
         IN  /\ ch.row = d /\ (ch.new <=> WithId(docs, d.id) = {})
             /\ \A x \in WithId(docs, d.id) : Covers(ch, x)
             /\ d \in docs => ~ch.new /\ ch.cols = {}
<1> DEFINE cols == UNION {Changed(d, x) : x \in WithId(docs, d.id)}
           ch   == [row |-> d, new |-> WithId(docs, d.id) = {}, cols |-> cols]
<1>1. Change(d, docs) = ch
  BY DEF Change
<1>2. ch.row = d /\ (ch.new <=> WithId(docs, d.id) = {}) /\ ch.cols = cols
  OBVIOUS
<1>3. ASSUME NEW x \in WithId(docs, d.id), NEW k \in DocKeys PROVE k \in cols \/ x[k] = d[k]
  <2>1. x \in docs /\ DOMAIN x = DocKeys
    BY DEF WithId
  <2>2. x[k] # d[k] => k \in Changed(d, x)
    BY <2>1 DEF Changed
  <2>3. QED
    BY <2>2
<1>4. ASSUME d \in docs PROVE WithId(docs, d.id) = {d} /\ cols = {}
  <2>1. WithId(docs, d.id) = {d}
    BY <1>4 DEF WithId
  <2>2. Changed(d, d) = {}
    BY DEF Changed
  <2>3. QED
    BY <2>1, <2>2
<1> HIDE DEF cols, ch
<1>5. QED
  BY <1>1, <1>2, <1>3, <1>4 DEF Covers

LEMMA SelectDocumentStep ==
  ASSUME DocumentsInv, NEW c \in Clients, SelectDocument(c)
  PROVE  DocumentsInv'
<1> DEFINE ch == Change(req[c].row, docs)
           q  == [pc |-> "update", files |-> req[c].files, change |-> ch]
<1>0. req[c].pc = "select"
  BY DEF SelectDocument
<1>1. /\ req[c] # Idle /\ UNCHANGED <<info, docs, nextDoc, mixed, solo, settled, passed>>
      /\ req' = [req EXCEPT ![c] = q]
  BY DEF SelectDocument, Go, Become, Rows, Idle
<1>2. DocSound(req[c].row) /\ Passed(req[c].row)
  BY <1>0 DEF DocumentsInv, DocsTyped, DocRequest
<1>3. ch.row = req[c].row /\ \A x \in WithId(docs, req[c].row.id) : Covers(ch, x)
  <2>1. ASSUME NEW d, d = req[c].row
        PROVE  LET m == Change(d, docs) IN m.row = d /\ \A x \in WithId(docs, d.id) : Covers(m, x)
    BY ChangeCovers DEF DocumentsInv, DocsTyped, DocSound
  <2>2. QED
    BY <2>1
<1>4. q.pc = "update" /\ q.change = ch
  OBVIOUS
<1> HIDE DEF ch, q
<1>5. DocRequest(q) /\ SoloKnows(q)
  BY <1>2, <1>3, <1>4 DEF DocRequest, SoloKnows
<1>6. QED
  BY <1>1, <1>5, ReadStep

LEMMA LoadInfoStep ==
  ASSUME DocumentsInv, NEW c \in Clients, LoadInfo(c)
  PROVE  DocumentsInv'
<1> DEFINE row == [info EXCEPT !.status = Derived(docs)]
           q   == [pc |-> "selectInfo", row |-> row, cascade |-> TRUE, loaded |-> docs]
<1>1. /\ req[c] # Idle /\ UNCHANGED <<info, docs, nextDoc, mixed, solo, settled, passed>>
      /\ req' = [req EXCEPT ![c] = q]
  BY DEF LoadInfo, Go, Become, Rows, Idle
<1>2. DOMAIN row = {"status", "vehicle"} /\ row.status = Derived(docs)
  BY DEF DocumentsInv, DocsTyped
<1>3. q.pc = "selectInfo" /\ q.row = row /\ q.cascade = TRUE /\ q.loaded = docs
  OBVIOUS
<1> HIDE DEF row, q
<1>4. DocRequest(q) /\ SoloKnows(q)
  BY <1>2, <1>3 DEF DocRequest, SoloKnows, DocumentsInv, DocsTyped
<1>5. QED
  BY <1>1, <1>4, ReadStep

LEMMA SelectInfoStep ==
  ASSUME DocumentsInv, NEW c \in Clients, SelectInfo(c)
  PROVE  DocumentsInv'
<1> DEFINE r == req[c]
           cols == Changed(r.row, info)
           changes == {Change(d, docs) : d \in r.loaded}
           q == [pc |-> "updateInfo", row |-> r.row, cols |-> cols, cascade |-> r.cascade,
                 changes |-> changes]
<1>0. r.pc = "selectInfo" /\ r # Idle
  BY DEF SelectInfo, Idle
<1>1. /\ UNCHANGED <<info, docs, nextDoc, mixed, solo, settled, passed>>
      /\ req' = [req EXCEPT ![c] = Idle] \/ req' = [req EXCEPT ![c] = q]
  BY DEF SelectInfo, Go, Fail, Finish, Become, Rows
<1>2. DocRequest(r) /\ DOMAIN r.row = {"status", "vehicle"}
      /\ DOMAIN info = {"status", "vehicle"}
  BY <1>0 DEF DocumentsInv, DocsTyped, DocRequest
<1>3. \A d : LET ch == Change(d, docs) IN ch.row = d /\ (d \in docs => ~ch.new /\ ch.cols = {})
  BY ChangeCovers DEF DocumentsInv, DocsTyped, DocSound
<1>4. /\ \A ch \in changes : DocSound(ch.row)
      /\ \A ch, x \in changes : ch.row.id = x.row.id => ch = x
  BY <1>0, <1>2, <1>3 DEF DocRequest
<1>5. ASSUME solo PROVE /\ \A ch \in changes : ~ch.new /\ ch.cols = {}
                        /\ r.cascade => /\ r.row.status = Derived(docs)
                                        /\ "status" \in cols \/ info.status = r.row.status
  <2>1. SoloKnows(r)
    BY <1>5 DEF DocumentsInv
  <2>2. r.loaded \subseteq docs
    BY <1>0, <1>2, <2>1 DEF SoloKnows, DocRequest
  <2>3. \A ch \in changes : ~ch.new /\ ch.cols = {}
    BY <1>3, <2>2
  <2>4. "status" \in cols \/ info.status = r.row.status
    BY <1>2 DEF Changed
  <2>5. QED
    BY <1>0, <2>1, <2>3, <2>4 DEF SoloKnows
<1>6. q.pc = "updateInfo" /\ q.row = r.row /\ q.cols = cols /\ q.cascade = r.cascade
      /\ q.changes = changes
  OBVIOUS
<1> HIDE DEF cols, changes, q
<1>7. DocRequest(q) /\ (solo => SoloKnows(q))
  BY <1>4, <1>5, <1>6 DEF DocRequest, SoloKnows
<1>8. DocRequest(Idle) /\ SoloKnows(Idle)
  BY DEF DocRequest, SoloKnows, Idle
<1>9. QED
  BY <1>0, <1>1, <1>7, <1>8, ReadStep

LEMMA InsertDocumentStep ==
  ASSUME DocumentsInv, NEW c \in Clients, InsertDocument(c)
  PROVE  DocumentsInv'
<1> DEFINE row == [req[c].row EXCEPT !.id = nextDoc]
           ch  == [row |-> row, new |-> TRUE, cols |-> {}]
           q   == After(req[c].files)
<1>0. req[c].pc = "insert" /\ nextDoc \in Nat
  BY DEF InsertDocument, DocumentsInv, DocsTyped
<1>1. /\ req[c] # Idle /\ UNCHANGED <<info, solo, settled, passed>> /\ nextDoc' = nextDoc + 1
      /\ req' = [req EXCEPT ![c] = q] /\ Write({ch})
  BY DEF InsertDocument, Go, Become, Idle
<1>2. DOMAIN req[c].row = DocKeys /\ req[c].row.status = "PENDING"
  BY <1>0 DEF DocumentsInv, DocsTyped, DocRequest
<1>3. DOMAIN row = DocKeys /\ row.id = nextDoc /\ row.status = "PENDING" /\ ch.row = row
  BY <1>2 DEF DocKeys
<1>4. DocRequest(q) /\ q.pc \in {"find", "load"}
  BY DEF DocRequest, After, Serving
<1>5. WithId(docs, nextDoc) = {} /\ ~settled /\ DOMAIN info = {"status", "vehicle"}
  BY <1>1 DEF WithId, DocumentsInv, DocsTyped, DocSound, Quiescent
<1> HIDE DEF row, ch, q
<1>6. Passed(ch.row) /\ \A x \in WithId(docs, ch.row.id) : Covers(ch, x)
  BY <1>3, <1>5 DEF Passed
<1>7. ASSUME NEW r, r = q, NEW w, w = {ch} PROVE DocumentsInv'
  <2>1. Write(w) /\ req' = [req EXCEPT ![c] = r] /\ DocRequest(r)
        /\ \A x \in {"update", "selectInfo", "updateInfo"} : r.pc # x
    BY <1>1, <1>4, <1>7
  <2>2. \A y \in w : DOMAIN y.row = DocKeys /\ y.row.id \in Nat /\ y.row.id < nextDoc'
    BY <1>0, <1>1, <1>3, <1>7
  <2>3. \A y, x \in w : y.row.id = x.row.id => y = x
    BY <1>7
  <2>4. solo => \A y \in w : /\ Passed(y.row)
                           /\ \A x \in WithId(docs, y.row.id) : Covers(y, x)
    BY <1>6, <1>7
  <2>5. nextDoc' \in Nat /\ nextDoc <= nextDoc' /\ DOMAIN info' = {"status", "vehicle"}
    BY <1>0, <1>1, <1>5
  <2>6. settled' => r = Idle /\ solo /\ info'.status = Derived(docs')
    BY <1>1, <1>5
  <2>7. req[c] # Idle /\ UNCHANGED <<solo, passed>>
    BY <1>1
  <2>8. QED
    BY <2>1, <2>2, <2>3, <2>4, <2>5, <2>6, <2>7, WriteStep
<1>8. QED
  BY <1>7

LEMMA UpdateDocumentStep ==
  ASSUME DocumentsInv, NEW c \in Clients, UpdateDocument(c)
  PROVE  DocumentsInv'
<1> DEFINE ch == req[c].change
           q  == After(req[c].files)
<1>0. req[c].pc = "update" /\ nextDoc \in Nat
  BY DEF UpdateDocument, DocumentsInv, DocsTyped
<1>1. /\ req[c] # Idle /\ UNCHANGED <<info, nextDoc, solo, settled, passed>>
      /\ req' = [req EXCEPT ![c] = q] /\ Write({ch})
  BY DEF UpdateDocument, Go, Become, Idle
<1>2. DocSound(ch.row) /\ Passed(ch.row)
  BY <1>0 DEF DocumentsInv, DocsTyped, DocRequest
<1>3. solo => \A x \in WithId(docs, ch.row.id) : Covers(ch, x)
  BY <1>0 DEF DocumentsInv, SoloKnows
<1>4. DocRequest(q) /\ q.pc \in {"find", "load"}
  BY DEF DocRequest, After, Serving
<1>5. ~settled /\ DOMAIN info = {"status", "vehicle"}
  BY <1>1 DEF DocumentsInv, DocsTyped, Quiescent
<1> HIDE DEF ch, q
<1>6. ASSUME NEW r, r = q, NEW w, w = {ch} PROVE DocumentsInv'
  <2>1. Write(w) /\ req' = [req EXCEPT ![c] = r] /\ DocRequest(r)
        /\ \A x \in {"update", "selectInfo", "updateInfo"} : r.pc # x
    BY <1>1, <1>4, <1>6
  <2>2. \A y \in w : DOMAIN y.row = DocKeys /\ y.row.id \in Nat /\ y.row.id < nextDoc'
    BY <1>1, <1>2, <1>6 DEF DocSound
  <2>3. \A y, x \in w : y.row.id = x.row.id => y = x
    BY <1>6
  <2>4. solo => \A y \in w : /\ Passed(y.row)
                           /\ \A x \in WithId(docs, y.row.id) : Covers(y, x)
    BY <1>2, <1>3, <1>6
  <2>5. nextDoc' \in Nat /\ nextDoc <= nextDoc' /\ DOMAIN info' = {"status", "vehicle"}
    BY <1>0, <1>1, <1>5
  <2>6. settled' => r = Idle /\ solo /\ info'.status = Derived(docs')
    BY <1>1, <1>5
  <2>7. req[c] # Idle /\ UNCHANGED <<solo, passed>>
    BY <1>1
  <2>8. QED
    BY <2>1, <2>2, <2>3, <2>4, <2>5, <2>6, <2>7, WriteStep
<1>7. QED
  BY <1>6

LEMMA RemoveDocumentStep ==
  ASSUME DocumentsInv, NEW c \in Clients, RemoveDocument(c)
  PROVE  DocumentsInv'
<1> DEFINE q == After(<<>>)
<1>1. /\ req[c] # Idle /\ UNCHANGED <<info, nextDoc, solo, settled, passed>>
      /\ req' = [req EXCEPT ![c] = q]
      /\ docs' \subseteq docs /\ mixed \subseteq mixed'
  BY DEF RemoveDocument, Go, Become, Idle
<1>2. DocRequest(q) /\ q.pc \in {"find", "load"}
  BY DEF DocRequest, After, Serving
<1> HIDE DEF q
<1>3. /\ DOMAIN req' = Clients
      /\ \A d \in Clients : req'[d] = IF d = c THEN q ELSE req[d]
  BY <1>1 DEF DocumentsInv, DocsTyped
<1>4. DocsTyped'
  <2>1. \A d \in Clients : DocRequest(req[d])'
    BY <1>1, <1>2, <1>3 DEF DocumentsInv, DocsTyped, DocRequest, DocSound, Passed
  <2>2. \A d \in docs' : DocSound(d)'
    BY <1>1 DEF DocumentsInv, DocsTyped, DocSound
  <2>3. QED
    BY <1>1, <1>3, <2>1, <2>2 DEF DocumentsInv, DocsTyped
<1>5. ASSUME solo PROVE \A d \in Clients : (d # c => req'[d] = Idle) /\ SoloKnows(req[d])'
  <2>1. \A d \in Clients : d # c => req'[d] = Idle
    BY <1>1, <1>3, <1>5 DEF DocumentsInv
  <2>2. \A d \in Clients : req'[d].pc \in {"idle", "find", "load"}
    BY <1>2, <1>3, <2>1 DEF Idle
  <2>3. QED
    BY <2>1, <2>2 DEF SoloKnows
<1>6. ~settled
  BY <1>1 DEF DocumentsInv, Quiescent
<1>7. StatusReflectsDocuments' /\ ApprovedAsRead'
  BY <1>1, <1>6 DEF DocumentsInv, StatusReflectsDocuments, ApprovedAsRead
<1>8. QED
  BY <1>1, <1>3, <1>4, <1>5, <1>6, <1>7 DEF DocumentsInv

LEMMA UpdateInfoStep ==
  ASSUME DocumentsInv, NEW c \in Clients, UpdateInfo(c)
  PROVE  DocumentsInv'
<1> DEFINE r == req[c]
           writes == {ch \in r.changes : ch.new \/ ch.cols # {}}
<1>0. r.pc = "updateInfo" /\ r # Idle /\ ~settled /\ nextDoc \in Nat
      /\ DOMAIN info = {"status", "vehicle"}
  BY DEF UpdateInfo, Idle, DocumentsInv, DocsTyped, Quiescent
<1>1. DocRequest(Idle) /\ SoloKnows(Idle)
  BY DEF DocRequest, SoloKnows, Idle
<1>2. CASE Fail(c) /\ UNCHANGED Rows
  BY <1>0, <1>1, <1>2, ReadStep DEF Fail, Finish, Become, Rows
<1>3. CASE /\ info' = Merged(info, r.row, r.cols) /\ Write(writes)
           /\ IF r.cascade THEN Done(c) ELSE Fail(c)
           /\ UNCHANGED nextDoc
  <2>1. /\ \A ch \in writes : DocSound(ch.row)
        /\ \A ch, x \in writes : ch.row.id = x.row.id => ch = x
    BY <1>0 DEF DocumentsInv, DocsTyped, DocRequest
  <2>2. solo => writes = {}
    BY <1>0 DEF DocumentsInv, SoloKnows
  <2>3. DOMAIN info' = {"status", "vehicle"}
    BY <1>0, <1>3 DEF Merged
  <2>4. /\ req' = [req EXCEPT ![c] = Idle] /\ UNCHANGED <<solo, passed>>
        /\ settled' => solo /\ r.cascade
    BY <1>0, <1>3 DEF Done, Fail, Finish, Become
  <2>5. ASSUME settled' PROVE info'.status = Derived(docs')
    <3>1. /\ solo /\ writes = {} /\ r.row.status = Derived(docs)
          /\ "status" \in r.cols \/ info.status = r.row.status
      BY <1>0, <2>2, <2>4, <2>5 DEF DocumentsInv, SoloKnows
    <3>2. docs' = docs
      BY <1>3, <3>1, Zenon DEF Write, Stored
    <3>3. info'.status = r.row.status
      BY <1>0, <1>3, <3>1 DEF Merged
    <3>4. QED
      BY <3>1, <3>2, <3>3
  <2> HIDE DEF writes
  <2>6. Idle.pc = "idle"
    BY DEF Idle
  <2>7. ASSUME NEW i, i = Idle, NEW w, w = writes PROVE DocumentsInv'
    <3>1. Write(w) /\ req' = [req EXCEPT ![c] = i] /\ DocRequest(i)
          /\ \A x \in {"update", "selectInfo", "updateInfo"} : i.pc # x
      BY <1>1, <1>3, <2>4, <2>6, <2>7
    <3>2. \A y \in w : DOMAIN y.row = DocKeys /\ y.row.id \in Nat /\ y.row.id < nextDoc'
      BY <1>3, <2>1, <2>7 DEF DocSound
    <3>3. \A y, x \in w : y.row.id = x.row.id => y = x
      BY <2>1, <2>7
    <3>4. solo => \A y \in w : /\ Passed(y.row)
                             /\ \A x \in WithId(docs, y.row.id) : Covers(y, x)
      BY <2>2, <2>7
    <3>5. nextDoc' \in Nat /\ nextDoc <= nextDoc' /\ DOMAIN info' = {"status", "vehicle"}
      BY <1>0, <1>3, <2>3
    <3>6. settled' => i = Idle /\ solo /\ info'.status = Derived(docs')
      BY <2>4, <2>5, <2>7
    <3>7. req[c] # Idle /\ UNCHANGED <<solo, passed>>
      BY <1>0, <2>4
    <3>8. QED
      BY <3>1, <3>2, <3>3, <3>4, <3>5, <3>6, <3>7, WriteStep
  <2>8. QED
    BY <2>7
<1>4. QED
  BY <1>2, <1>3 DEF UpdateInfo

LEMMA DocumentsInvNext == DocumentsInv /\ [DocumentsNext]_<<documentVars, reqVars>> => DocumentsInv'
<1> SUFFICES ASSUME DocumentsInv, [DocumentsNext]_<<documentVars, reqVars>> PROVE DocumentsInv'
  OBVIOUS
<1>1. ASSUME NEW c \in Clients,
             \/ InsertDocument(c) \/ SelectDocument(c) \/ UpdateDocument(c)
             \/ RemoveDocument(c) \/ LoadInfo(c) \/ SelectInfo(c) \/ UpdateInfo(c)
      PROVE  DocumentsInv'
  BY <1>1, InsertDocumentStep, SelectDocumentStep, UpdateDocumentStep, RemoveDocumentStep,
     LoadInfoStep, SelectInfoStep, UpdateInfoStep
<1>2. ASSUME NEW c \in Clients, Abort(c), UNCHANGED documentVars PROVE DocumentsInv'
  <2>1. DocRequest(Idle) /\ SoloKnows(Idle)
    BY DEF DocRequest, SoloKnows, Idle
  <2>2. QED
    BY <1>2, <2>1, ReadStep DEF Abort, documentVars
<1>3. CASE UNCHANGED <<documentVars, reqVars>>
  BY <1>3 DEF documentVars, reqVars, DocumentsInv, DocsTyped, DocRequest, DocSound, Passed,
     SoloKnows, WithId, Covers, StatusReflectsDocuments, ApprovedAsRead, Quiescent
<1>4. QED
  BY <1>1, <1>2, <1>3, BeginningStep, FindDocumentStep DEF DocumentsNext

\* updateRiderInfoStatus: after a request about documents that ran alone and to its end
\* the status of the rider follows from the documents, whatever happened before.
THEOREM StatusAlwaysReflects == DocumentsSpec => []StatusReflectsDocuments
<1>1. DocumentsInv => StatusReflectsDocuments
  BY DEF DocumentsInv
<1>2. QED
  BY <1>1, DocumentsInvInit, DocumentsInvNext, PTL DEF DocumentsSpec

\* RiderDocumentService: a document is approved only with the file that an approving request
\* read, unless requests overlapped when its row was written.
THEOREM ApprovalsAreOfFilesRead == DocumentsSpec => []ApprovedAsRead
<1>1. DocumentsInv => ApprovedAsRead
  BY DEF DocumentsInv
<1>2. QED
  BY <1>1, DocumentsInvInit, DocumentsInvNext, PTL DEF DocumentsSpec

-----------------------------------------------------------------------------
(* Presence                                                                 *)

HandlerSound(r) ==
  /\ r.pc \in {"idle", "verify", "saveStatus"}
  /\ r.pc = "saveStatus" =>
       /\ r.active \in BOOLEAN
       /\ r.row # None => \E x \in rows : x.id = r.row /\ x.user = r.user

\* What the sockets of u say
Shown(u) == OpenOf(u) # {} /\ u \notin dropped

\* A handler sets what the sockets say; without a handler the row says it.
Clear(u) ==
  /\ \A c, d \in Handling(u) : c = d
  /\ \A c \in Handling(u) :
       IF req[c].pc = "verify" THEN Shown(u) ELSE req[c].active <=> Shown(u)
  /\ Handling(u) = {} /\ Cardinality(RowsOf(u)) = 1 =>
       \A r \in RowsOf(u) : r.active <=> Shown(u)
  /\ Handling(u) = {} /\ OpenOf(u) # {} => RowsOf(u) # {}

PresenceTyped ==
  /\ DOMAIN req = Clients /\ socket \in [Sockets -> Socket]
  /\ \A x \in rows : DOMAIN x = {"id", "user", "active"}
  /\ \A u \in Online : IsFiniteSet(RowsOf(u))
  /\ \A c \in Clients : HandlerSound(req[c])

PresenceInv == PresenceTyped /\ \A u \in Online \ unclear : Clear(u)

LEMMA PresenceInvInit == PresenceInit /\ RequestsInit => PresenceInv
<1> SUFFICES ASSUME PresenceInit, RequestsInit PROVE PresenceInv
  OBVIOUS
<1>1. /\ \A x \in rows : DOMAIN x = {"id", "user", "active"} /\ x.active = FALSE /\ x.id = 0
      /\ \A x, y \in rows : x.user = y.user => x = y
  <2>1. \A x \in rows : \E u \in Online : x = [id |-> 0, user |-> u, active |-> FALSE]
    BY DEF PresenceInit
  <2>2. \A x \in rows : /\ DOMAIN x = {"id", "user", "active"} /\ x.active = FALSE /\ x.id = 0
                       /\ x = [id |-> 0, user |-> x.user, active |-> FALSE]
    BY <2>1
  <2>3. QED
    BY <2>2, Zenon
<1>2. ASSUME NEW u \in Online PROVE IsFiniteSet(RowsOf(u))
  <2>1. RowsOf(u) = {} \/ \E x : RowsOf(u) = {x}
    BY <1>1 DEF RowsOf
  <2>2. QED
    BY <2>1, FS_EmptySet, FS_Singleton
<1>3. socket \in [Sockets -> Socket] /\ \A s \in Sockets : socket[s].user = None
  BY DEF PresenceInit, Closed, Socket
<1>4. \A c \in Clients : HandlerSound(req[c]) /\ req[c].pc = "idle"
  BY DEF RequestsInit, HandlerSound, Idle
<1>5. ASSUME NEW u \in Online PROVE Clear(u)
  <2>1. OpenOf(u) = {} /\ Handling(u) = {}
    BY <1>3, <1>4, PresenceAssumption DEF OpenOf, Handling
  <2>2. ~Shown(u) /\ \A r \in RowsOf(u) : r.active = FALSE
    BY <1>1, <2>1 DEF Shown, RowsOf
  <2>3. QED
    BY <2>1, <2>2 DEF Clear
<1>6. QED
  BY <1>1, <1>2, <1>3, <1>4, <1>5 DEF RequestsInit, PresenceInv, PresenceTyped

\* Whom a step does not concern
LEMMA OthersClear ==
  ASSUME NEW u, Clear(u), UNCHANGED <<OpenOf(u), Handling(u), RowsOf(u)>>,
         u \in dropped' <=> u \in dropped,
         \A c \in Handling(u) : req'[c] = req[c]
  PROVE  Clear(u)'
<1>1. Shown(u)' <=> Shown(u)
  BY DEF Shown
<1>2. QED
  BY <1>1 DEF Clear

LEMMA ConnectStep ==
  ASSUME PresenceInv, NEW c \in Clients, NEW s \in Sockets, NEW u \in Online, Connect(c, s, u)
  PROVE  PresenceInv'
<1> DEFINE q == [pc |-> "verify", user |-> u, socket |-> s]
<1>1. /\ socket[s] = Closed /\ req[c] = Idle /\ rows' = rows /\ req' = [req EXCEPT ![c] = q]
      /\ socket' = [socket EXCEPT ![s].user = u]
      /\ dropped' = dropped \ {u}
      /\ unclear' = (IF Handling(u) = {} THEN unclear \ {u} ELSE unclear \cup {u})
  BY DEF Connect, Arrive
<1>2. q.pc = "verify" /\ q.user = u /\ Idle.pc = "idle" /\ Closed.user = None
  BY DEF Idle, Closed
<1> HIDE DEF q
<1>3. /\ DOMAIN req' = Clients
      /\ \A d \in Clients : req'[d] = IF d = c THEN q ELSE req[d]
      /\ \A v : Handling(v)' = (IF v = u THEN Handling(v) \cup {c} ELSE Handling(v))
      /\ \A v : c \notin Handling(v)
  <2>1. DOMAIN req = Clients /\ \A v : c \notin Handling(v)
    BY <1>1, <1>2 DEF PresenceInv, PresenceTyped, Handling
  <2>2. \A d \in Clients : req'[d] = IF d = c THEN q ELSE req[d]
    BY <1>1, <2>1
  <2>3. \A v : Handling(v)' = (IF v = u THEN Handling(v) \cup {c} ELSE Handling(v))
    BY <1>2, <2>1, <2>2 DEF Handling
  <2>4. QED
    BY <1>1, <2>1, <2>2, <2>3
<1>4. /\ socket' \in [Sockets -> Socket]
      /\ \A t \in Sockets : socket'[t].user = IF t = s THEN u ELSE socket[t].user
  BY <1>1 DEF PresenceInv, PresenceTyped, Socket
<1>5. \A v \in Online : OpenOf(v)' = IF v = u THEN OpenOf(v) \cup {s} ELSE OpenOf(v)
  BY <1>1, <1>2, <1>4, PresenceAssumption DEF OpenOf
<1>6. PresenceTyped'
  <2>1. \A d \in Clients : HandlerSound(req[d])'
    BY <1>1, <1>2, <1>3 DEF PresenceInv, PresenceTyped, HandlerSound
  <2>2. QED
    BY <1>1, <1>3, <1>4, <2>1 DEF PresenceInv, PresenceTyped, RowsOf
<1>7. ASSUME NEW v \in Online \ unclear' PROVE Clear(v)'
  <2>1. CASE v = u
    <3>1. Handling(v)' = {c} /\ Shown(v)'
      BY <1>1, <1>3, <1>5, <1>7, <2>1 DEF Shown
    <3>2. QED
      BY <1>2, <1>3, <3>1 DEF Clear
  <2>2. CASE v # u
    <3>1. v \in Online \ unclear /\ (v \in dropped' <=> v \in dropped)
      BY <1>1, <1>7, <2>2
    <3>2. UNCHANGED <<OpenOf(v), Handling(v), RowsOf(v)>> /\ \A d \in Handling(v) : req'[d] = req[d]
      BY <1>1, <1>3, <1>5, <2>2 DEF RowsOf, Handling
    <3>3. QED
      BY <3>1, <3>2, OthersClear DEF PresenceInv
  <2>3. QED
    BY <2>1, <2>2
<1>8. QED
  BY <1>6, <1>7 DEF PresenceInv

LEMMA VerifyStep ==
  ASSUME PresenceInv, NEW c \in Clients, Verify(c)
  PROVE  PresenceInv'
<1> DEFINE u == req[c].user
           s == req[c].socket
<1>1. /\ req[c].pc = "verify" /\ rows' = rows /\ unclear' = unclear /\ dropped' = dropped
      /\ socket' = IF socket[s].user = u THEN [socket EXCEPT ![s].known = TRUE] ELSE socket
      /\ Updates(c, u, s, TRUE)
  BY DEF Verify
<1>2. PICK row \in (IF RowsOf(u) = {} THEN {None} ELSE {r.id : r \in RowsOf(u)}) :
        req' = [req EXCEPT ![c] = [pc |-> "saveStatus", user |-> u, socket |-> s,
                                   active |-> TRUE, row |-> row]]
  BY <1>1 DEF Updates
<1> DEFINE q == [pc |-> "saveStatus", user |-> u, socket |-> s, active |-> TRUE, row |-> row]
<1>3. q.pc = "saveStatus" /\ q.user = u /\ q.active = TRUE /\ q.row = row
  OBVIOUS
<1>4. HandlerSound(q)
  BY <1>2, <1>3 DEF HandlerSound, RowsOf
<1>5. req' = [req EXCEPT ![c] = q]
  BY <1>2
<1> HIDE DEF q
<1>6. /\ DOMAIN req' = Clients
      /\ \A d \in Clients : req'[d] = IF d = c THEN q ELSE req[d]
  BY <1>5 DEF PresenceInv, PresenceTyped
<1>7. \A v : Handling(v)' = Handling(v)
  BY <1>1, <1>3, <1>6 DEF Handling
<1>8. /\ socket' \in [Sockets -> Socket]
      /\ \A t \in Sockets : socket'[t].user = socket[t].user
  <2>1. socket \in [Sockets -> Socket]
    BY DEF PresenceInv, PresenceTyped
  <2>2. CASE socket' = [socket EXCEPT ![s].known = TRUE]
    <3>1. \A x \in Socket : [x EXCEPT !.known = TRUE] \in Socket /\ [x EXCEPT !.known = TRUE].user = x.user
      BY DEF Socket
    <3>2. QED
      BY <2>1, <2>2, <3>1
  <2>3. QED
    BY <1>1, <2>1, <2>2
<1>9. \A v : OpenOf(v)' = OpenOf(v) /\ RowsOf(v)' = RowsOf(v)
  BY <1>1, <1>8 DEF OpenOf, RowsOf
<1>10. PresenceTyped'
  <2>1. \A d \in Clients : HandlerSound(req[d])'
    BY <1>1, <1>4, <1>6 DEF PresenceInv, PresenceTyped, HandlerSound
  <2>2. QED
    BY <1>1, <1>6, <1>8, <1>9, <2>1 DEF PresenceInv, PresenceTyped
<1>11. ASSUME NEW v \in Online \ unclear' PROVE Clear(v)'
  <2>1. v \in Online \ unclear /\ Clear(v)
    BY <1>1, <1>11 DEF PresenceInv
  <2>2. CASE v = u
    <3>1. c \in Handling(v) /\ Shown(v) /\ Handling(v) = {c}
      BY <1>1, <2>1, <2>2 DEF Clear, Handling
    <3>2. Shown(v)' /\ Handling(v)' = {c}
      BY <1>1, <1>7, <1>9, <3>1 DEF Shown
    <3>3. QED
      BY <1>3, <1>6, <3>2 DEF Clear
  <2>3. CASE v # u
    <3>1. \A d \in Handling(v) : req'[d] = req[d]
      BY <1>6, <2>3 DEF Handling
    <3>2. QED
      BY <1>1, <1>7, <1>9, <2>1, <3>1, OthersClear
  <2>4. QED
    BY <2>2, <2>3
<1>12. QED
  BY <1>10, <1>11 DEF PresenceInv

\* The request of c concerns u alone, before and after: u is unclear, or the only
\* handler of u is about to save what the sockets say.
LEMMA UserStep ==
  ASSUME PresenceInv, NEW c \in Clients, NEW u, NEW r, req' = [req EXCEPT ![c] = r],
         req[c].pc = "idle" \/ req[c].user = u, r.pc = "idle" \/ r.user = u,
         HandlerSound(r), rows' = rows, socket' \in [Sockets -> Socket],
         \A v \in Online \ {u} : OpenOf(v)' = OpenOf(v) /\ (v \in dropped' <=> v \in dropped),
         unclear \subseteq unclear',
         u \in Online \ unclear' =>
           /\ Handling(u) = {} /\ r.pc = "saveStatus" /\ r.user = u
           /\ r.active <=> Shown(u)'
  PROVE  PresenceInv'
<1>1. /\ DOMAIN req' = Clients
      /\ \A d \in Clients : req'[d] = IF d = c THEN r ELSE req[d]
  BY DEF PresenceInv, PresenceTyped
<1>2. PresenceTyped'
  <2>1. \A d \in Clients : HandlerSound(req[d])'
    BY <1>1 DEF PresenceInv, PresenceTyped, HandlerSound
  <2>2. QED
    BY <1>1, <2>1 DEF PresenceInv, PresenceTyped, RowsOf
<1>3. ASSUME NEW v \in Online \ unclear' PROVE Clear(v)'
  <2>1. CASE v = u
    <3>1. Handling(v)' = {c}
      BY <1>1, <1>3, <2>1 DEF Handling
    <3>2. QED
      BY <1>1, <1>3, <2>1, <3>1 DEF Clear
  <2>2. CASE v # u
    <3>1. Handling(v)' = Handling(v)
      BY <1>1, <2>2 DEF Handling
    <3>2. \A d \in Handling(v) : req'[d] = req[d]
      BY <1>1, <2>2 DEF Handling
    <3>3. /\ OpenOf(v)' = OpenOf(v) /\ RowsOf(v)' = RowsOf(v) /\ v \in Online \ unclear
          /\ v \in dropped' <=> v \in dropped
      BY <1>3, <2>2 DEF RowsOf
    <3>4. QED
      BY <3>1, <3>2, <3>3, OthersClear DEF PresenceInv
  <2>3. QED
    BY <2>1, <2>2
<1>4. QED
  BY <1>2, <1>3 DEF PresenceInv

\* Updates begins to save what the caller says.
LEMMA UpdatesRequest ==
  ASSUME NEW c, NEW u, NEW s, NEW active \in BOOLEAN, Updates(c, u, s, active)
  PROVE  \E r : /\ req' = [req EXCEPT ![c] = r] /\ HandlerSound(r)
                /\ r.pc = "saveStatus" /\ r.user = u /\ r.active = active
<1>1. PICK row \in (IF RowsOf(u) = {} THEN {None} ELSE {x.id : x \in RowsOf(u)}) :
        req' = [req EXCEPT ![c] = [pc |-> "saveStatus", user |-> u, socket |-> s,
                                   active |-> active, row |-> row]]
  BY DEF Updates
<1> DEFINE q == [pc |-> "saveStatus", user |-> u, socket |-> s, active |-> active, row |-> row]
<1>2. q.pc = "saveStatus" /\ q.user = u /\ q.active = active /\ q.row = row
  OBVIOUS
<1>3. req' = [req EXCEPT ![c] = q]
  BY <1>1
<1> HIDE DEF q
<1>4. HandlerSound(q)
  BY <1>1, <1>2 DEF HandlerSound, RowsOf
<1>5. QED
  BY <1>2, <1>3, <1>4

\* The sockets once s is closed
LEMMA ClosedSocket ==
  ASSUME socket \in [Sockets -> Socket], NEW s \in Sockets, NEW u, socket[s].user = u,
         socket' = [socket EXCEPT ![s] = Closed]
  PROVE  /\ socket' \in [Sockets -> Socket]
         /\ \A v \in Online \ {u} : OpenOf(v)' = OpenOf(v)
         /\ u \in Online => OpenOf(u)' = OpenOf(u) \ {s}
<1>1. Closed \in Socket /\ Closed.user = None
  BY DEF Closed, Socket
<1>2. \A t \in Sockets : socket'[t] = IF t = s THEN Closed ELSE socket[t]
  OBVIOUS
<1>3. QED
  BY <1>1, <1>2, PresenceAssumption DEF OpenOf

LEMMA DisconnectStep ==
  ASSUME PresenceInv, NEW c \in Clients, NEW s \in Sockets, Disconnect(c, s)
  PROVE  PresenceInv'
<1> SUFFICES ASSUME NEW u, socket[s].user = u PROVE PresenceInv'
  OBVIOUS
<1>1. socket' = [socket EXCEPT ![s] = Closed] /\ rows' = rows /\ socket \in [Sockets -> Socket]
  BY DEF Disconnect, PresenceInv, PresenceTyped
<1>2. /\ socket' \in [Sockets -> Socket]
      /\ \A v \in Online \ {u} : OpenOf(v)' = OpenOf(v)
      /\ u \in Online => OpenOf(u)' = OpenOf(u) \ {s}
  BY <1>1, ClosedSocket
<1>3. /\ \A v \in Online \ {u} : v \in dropped' <=> v \in dropped
      /\ u \in Online => ~Shown(u)'
  <2>1. dropped' = IF OpenOf(u) = {s} THEN dropped \ {u} ELSE dropped \cup {u}
    BY DEF Disconnect, Dropped
  <2>2. QED
    BY <1>2, <2>1 DEF Shown
<1>4. CASE socket[s].known
  <2>1. req[c] = Idle /\ Updates(c, u, s, FALSE) /\ Begun(u)
    BY <1>4 DEF Disconnect
  <2>2. PICK r : /\ req' = [req EXCEPT ![c] = r] /\ HandlerSound(r)
                 /\ r.pc = "saveStatus" /\ r.user = u /\ r.active = FALSE
    <3>1. FALSE \in BOOLEAN
      OBVIOUS
    <3>2. \A a \in BOOLEAN : Updates(c, u, s, a) =>
            \E r : /\ req' = [req EXCEPT ![c] = r] /\ HandlerSound(r)
                  /\ r.pc = "saveStatus" /\ r.user = u /\ r.active = a
      BY UpdatesRequest
    <3>3. QED
      BY <2>1, <3>1, <3>2, Zenon
  <2>3. /\ unclear \subseteq unclear'
        /\ u \in Online \ unclear' => Handling(u) = {}
    BY <2>1 DEF Begun
  <2>4. req[c].pc = "idle"
    BY <2>1 DEF Idle
  <2>5. u \in Online \ unclear' =>
          /\ Handling(u) = {} /\ r.pc = "saveStatus" /\ r.user = u
          /\ r.active <=> Shown(u)'
    BY <1>3, <2>2, <2>3
  <2>6. QED
    BY <1>1, <1>2, <1>3, <2>2, <2>3, <2>4, <2>5, UserStep
<1>5. CASE ~socket[s].known
  <2>1. req' = req /\ unclear' = unclear \cup {u}
    BY <1>5 DEF Disconnect, Instant
  <2>2. PresenceTyped'
    BY <1>1, <1>2, <2>1 DEF PresenceInv, PresenceTyped, HandlerSound, RowsOf
  <2>3. ASSUME NEW v \in Online \ unclear' PROVE Clear(v)'
    <3>1. OpenOf(v)' = OpenOf(v) /\ Handling(v)' = Handling(v) /\ RowsOf(v)' = RowsOf(v)
          /\ Clear(v) /\ (v \in dropped' <=> v \in dropped)
      BY <1>1, <1>2, <1>3, <2>1, <2>3 DEF Handling, RowsOf, PresenceInv
    <3>2. QED
      BY <2>1, <3>1, OthersClear
  <2>4. QED
    BY <2>2, <2>3 DEF PresenceInv
<1>6. QED
  BY <1>4, <1>5

LEMMA SetStatusStep ==
  ASSUME PresenceInv, NEW c \in Clients, NEW u \in Online,
         Initialize(c, u) \/ \E a \in BOOLEAN : SetStatus(c, u, a)
  PROVE  PresenceInv'
<1>1. /\ UNCHANGED <<rows, socket, dropped>> /\ req[c] = Idle /\ socket' \in [Sockets -> Socket]
      /\ \A v : OpenOf(v)' = OpenOf(v)
  BY DEF Initialize, SetStatus, Arrive, OpenOf, PresenceInv, PresenceTyped
<1>2. ASSUME NEW a \in BOOLEAN, SetStatus(c, u, a) PROVE PresenceInv'
  <2>1. PICK r : /\ req' = [req EXCEPT ![c] = r] /\ HandlerSound(r)
                 /\ r.pc = "saveStatus" /\ r.user = u /\ r.active = a
    BY <1>2, UpdatesRequest DEF SetStatus
  <2>2. unclear' = unclear \cup {u}
    BY <1>2 DEF SetStatus
  <2>3. req[c].pc = "idle" /\ unclear \subseteq unclear' /\ u \notin Online \ unclear'
    BY <1>1, <2>2 DEF Idle
  <2>4. QED
    BY <1>1, <2>1, <2>3, UserStep
<1>3. CASE Initialize(c, u)
  <2> DEFINE q == [pc |-> "saveStatus", user |-> u, socket |-> None, active |-> FALSE,
                   row |-> None]
  <2>1. q.pc = "saveStatus" /\ q.user = u /\ q.active = FALSE /\ q.row = None
    OBVIOUS
  <2>2. req' = [req EXCEPT ![c] = q] /\ Begun(u) /\ RowsOf(u) = {}
    BY <1>3 DEF Initialize, Arrive
  <2> HIDE DEF q
  <2>3. HandlerSound(q)
    BY <2>1 DEF HandlerSound
  <2>4. unclear \subseteq unclear' /\ (u \notin unclear' => Handling(u) = {} /\ OpenOf(u) = {})
    BY <2>2 DEF Begun, PresenceInv, Clear
  <2>5. req[c].pc = "idle"
    BY <1>1 DEF Idle
  <2>6. u \in Online \ unclear' =>
          /\ Handling(u) = {} /\ q.pc = "saveStatus" /\ q.user = u
          /\ q.active <=> Shown(u)'
    BY <1>1, <2>1, <2>4 DEF Shown
  <2>7. ASSUME NEW r, r = q PROVE PresenceInv'
    BY <1>1, <2>1, <2>2, <2>3, <2>4, <2>5, <2>6, <2>7, UserStep
  <2>8. QED
    BY <2>7
<1>4. QED
  BY <1>2, <1>3

\* The rows once r is saved: those of its user all say what r says, if they are one.
LEMMA SavedRows ==
  ASSUME PresenceTyped, NEW c \in Clients, SaveStatus(c), NEW r, r = req[c],
         r.active \in BOOLEAN,
         r.row # None => \E x \in rows : x.id = r.row /\ x.user = r.user
  PROVE  /\ \A x \in rows' : DOMAIN x = {"id", "user", "active"}
         /\ \A u \in Online : IsFiniteSet(RowsOf(u)')
         /\ \A u \in Online \ {r.user} : RowsOf(u)' = RowsOf(u)
         /\ \A x \in rows : \E y \in rows' : y.id = x.id /\ y.user = x.user
         /\ \E x \in RowsOf(r.user)' : x.active = r.active
<1> DEFINE Saved(x) == IF x.id = r.row /\ x.user = r.user THEN [x EXCEPT !.active = r.active]
                       ELSE x
<1>1. CASE r.row = None
  <2> DEFINE new == [id |-> Cardinality(rows), user |-> r.user, active |-> r.active]
  <2>1. /\ DOMAIN new = {"id", "user", "active"} /\ new.user = r.user /\ new.active = r.active
        /\ rows' = rows \cup {new}
    BY <1>1 DEF SaveStatus
  <2> HIDE DEF new
  <2>2. \A u : RowsOf(u)' = IF u = r.user THEN RowsOf(u) \cup {new} ELSE RowsOf(u)
    BY <2>1 DEF RowsOf
  <2>3. \A u \in Online : IsFiniteSet(RowsOf(u)')
    BY <2>2, FS_AddElement DEF PresenceTyped
  <2>4. \A x \in rows' : DOMAIN x = {"id", "user", "active"}
    BY <2>1 DEF PresenceTyped
  <2>5. new \in RowsOf(r.user)'
    BY <2>2
  <2>6. QED
    BY <2>1, <2>2, <2>3, <2>4, <2>5
<1>2. CASE r.row # None
  <2>1. rows' = {Saved(x) : x \in rows}
    BY <1>2 DEF SaveStatus
  <2>2. \A x \in rows :
          /\ Saved(x).id = x.id /\ Saved(x).user = x.user
          /\ DOMAIN Saved(x) = {"id", "user", "active"}
          /\ x.user # r.user => Saved(x) = x
          /\ x.id = r.row /\ x.user = r.user => Saved(x).active = r.active
    BY DEF PresenceTyped
  <2> HIDE DEF Saved
  <2>3. \A u : RowsOf(u)' = {Saved(x) : x \in RowsOf(u)}
    BY <2>1, <2>2 DEF RowsOf
  <2>4. \A u \in Online : IsFiniteSet(RowsOf(u)')
    <3> SUFFICES ASSUME NEW u \in Online PROVE IsFiniteSet(RowsOf(u)')
      OBVIOUS
    <3> DEFINE f == [x \in RowsOf(u) |-> Saved(x)]
    <3>1. f \in Surjection(RowsOf(u), RowsOf(u)')
      BY <2>3 DEF Surjection
    <3>2. QED
      BY <3>1, FS_Surjection DEF PresenceTyped
  <2>5. \A u \in Online \ {r.user} : RowsOf(u)' = RowsOf(u)
    <3>1. \A u \in Online \ {r.user} : \A x \in RowsOf(u) : Saved(x) = x
      BY <2>2 DEF RowsOf
    <3>2. QED
      BY <2>3, <3>1
  <2>6. PICK x \in rows : x.id = r.row /\ x.user = r.user
    BY <1>2
  <2>7. Saved(x) \in RowsOf(r.user)' /\ Saved(x).active = r.active
    BY <2>1, <2>2, <2>6 DEF RowsOf
  <2>8. QED
    BY <2>1, <2>2, <2>4, <2>5, <2>7
<1>3. QED
  BY <1>1, <1>2

LEMMA SaveStatusStep ==
  ASSUME PresenceInv, NEW c \in Clients, SaveStatus(c)
  PROVE  PresenceInv'
<1> SUFFICES ASSUME NEW r, r = req[c] PROVE PresenceInv'
  OBVIOUS
<1>1. /\ r.pc = "saveStatus" /\ req' = [req EXCEPT ![c] = Idle]
      /\ UNCHANGED <<socket, dropped, unclear>>
  BY DEF SaveStatus, Finish, Become
<1>2. /\ r.active \in BOOLEAN
      /\ r.row # None => \E x \in rows : x.id = r.row /\ x.user = r.user
  BY <1>1 DEF PresenceInv, PresenceTyped, HandlerSound
<1>3. /\ \A x \in rows' : DOMAIN x = {"id", "user", "active"}
      /\ \A u \in Online : IsFiniteSet(RowsOf(u)')
      /\ \A u \in Online \ {r.user} : RowsOf(u)' = RowsOf(u)
      /\ \A x \in rows : \E y \in rows' : y.id = x.id /\ y.user = x.user
      /\ \E x \in RowsOf(r.user)' : x.active = r.active
  <2>1. PresenceTyped
    BY DEF PresenceInv
  <2>2. QED
    BY <1>2, <2>1, SavedRows
<1>4. /\ DOMAIN req' = Clients
      /\ \A d \in Clients : req'[d] = IF d = c THEN Idle ELSE req[d]
  BY <1>1 DEF PresenceInv, PresenceTyped
<1>5. Idle.pc = "idle"
  BY DEF Idle
<1>6. PresenceTyped'
  <2>1. \A d \in Clients : HandlerSound(req[d])'
    BY <1>3, <1>4, <1>5 DEF PresenceInv, PresenceTyped, HandlerSound
  <2>2. QED
    BY <1>1, <1>3, <1>4, <2>1 DEF PresenceInv, PresenceTyped
<1>7. ASSUME NEW v \in Online \ unclear' PROVE Clear(v)'
  <2>1. OpenOf(v)' = OpenOf(v) /\ (Shown(v)' <=> Shown(v)) /\ Clear(v)
    BY <1>1, <1>7 DEF PresenceInv, OpenOf, Shown
  <2>2. CASE v = r.user
    <3>1. Handling(v) = {c} /\ (r.active <=> Shown(v))
      BY <1>1, <2>1, <2>2 DEF Clear, Handling
    <3>2. Handling(v)' = {}
      BY <1>4, <1>5, <3>1 DEF Handling
    <3>3. ASSUME Cardinality(RowsOf(v)') = 1, NEW x \in RowsOf(v)'
          PROVE  x.active = r.active
      <4>1. \E y : RowsOf(v)' = {y}
        BY <1>3, <1>7, <3>3, FS_Singleton
      <4>2. QED
        BY <1>3, <2>2, <3>3, <4>1
    <3>4. RowsOf(v)' # {}
      BY <1>3, <2>2
    <3>5. QED
      BY <2>1, <3>1, <3>2, <3>3, <3>4 DEF Clear
  <2>3. CASE v # r.user
    <3>1. /\ Handling(v)' = Handling(v) /\ RowsOf(v)' = RowsOf(v)
          /\ \A d \in Handling(v) : req'[d] = req[d]
      BY <1>1, <1>3, <1>4, <1>5, <1>7, <2>3 DEF Handling
    <3>2. QED
      BY <1>1, <2>1, <3>1, OthersClear
  <2>4. QED
    BY <2>2, <2>3
<1>8. QED
  BY <1>6, <1>7 DEF PresenceInv

LEMMA HandlerFailsStep ==
  ASSUME PresenceInv, NEW c \in Clients, HandlerFails(c)
  PROVE  PresenceInv'
<1> SUFFICES ASSUME NEW r, r = req[c], NEW u, u = r.user PROVE PresenceInv'
  OBVIOUS
<1>1. /\ unclear' = unclear \cup {u} /\ UNCHANGED <<rows, dropped>> /\ socket \in [Sockets -> Socket]
      /\ Idle.pc = "idle" /\ HandlerSound(Idle)
  BY DEF HandlerFails, PresenceInv, PresenceTyped, HandlerSound, Idle
<1>2. ASSUME NEW q, req' = [req EXCEPT ![c] = q], HandlerSound(q), q.pc = "idle" \/ q.user = u,
             \/ socket' = socket
             \/ /\ socket[r.socket].user = u
                /\ socket' = [socket EXCEPT ![r.socket] = Closed]
      PROVE  PresenceInv'
  <2>1. socket' \in [Sockets -> Socket] /\ \A v \in Online \ {u} : OpenOf(v)' = OpenOf(v)
    <3>1. CASE socket' = socket
      BY <1>1, <3>1 DEF OpenOf
    <3>2. CASE r.socket \in Sockets /\ socket' # socket
      BY <1>1, <1>2, <3>2, ClosedSocket
    <3>3. CASE r.socket \notin Sockets
      <4>1. socket' = socket
        BY <1>1, <1>2, <3>3
      <4>2. QED
        BY <1>1, <4>1 DEF OpenOf
    <3>4. QED
      BY <3>1, <3>2, <3>3
  <2>2. unclear \subseteq unclear' /\ u \notin Online \ unclear'
    BY <1>1
  <2>3. QED
    BY <1>1, <1>2, <2>1, <2>2, UserStep
<1>3. \/ /\ socket' = socket
         /\ req' = [req EXCEPT ![c] = Idle]
      \/ /\ socket[r.socket].user = u
         /\ socket' = [socket EXCEPT ![r.socket] = Closed]
         /\ Updates(c, u, r.socket, FALSE) \/ req' = [req EXCEPT ![c] = Idle]
  BY DEF HandlerFails
<1>4. CASE req' = [req EXCEPT ![c] = Idle]
  BY <1>1, <1>2, <1>3, <1>4
<1>5. CASE Updates(c, u, r.socket, FALSE) /\ req' # [req EXCEPT ![c] = Idle]
  <2>1. FALSE \in BOOLEAN
    OBVIOUS
  <2>2. \A a \in BOOLEAN : Updates(c, u, r.socket, a) =>
          \E q : /\ req' = [req EXCEPT ![c] = q] /\ HandlerSound(q)
                /\ q.pc = "saveStatus" /\ q.user = u /\ q.active = a
    BY UpdatesRequest
  <2>3. PICK q : req' = [req EXCEPT ![c] = q] /\ HandlerSound(q) /\ q.user = u
    BY <1>5, <2>1, <2>2, Zenon
  <2>4. QED
    BY <1>2, <1>3, <1>5, <2>3
<1>6. QED
  BY <1>3, <1>4, <1>5

LEMMA RestartStep ==
  ASSUME PresenceInv, Restart
  PROVE  PresenceInv'
<1>1. /\ socket' = [s \in Sockets |-> Closed] /\ req' = [c \in Clients |-> Idle]
      /\ UNCHANGED <<rows, dropped>>
      /\ unclear' = unclear \cup {u \in Online : OpenOf(u) # {} \/ Handling(u) # {}}
      /\ Idle.pc = "idle" /\ Closed.user = None /\ Closed \in Socket
  BY DEF Restart, Idle, Closed, Socket
<1>2. PresenceTyped'
  BY <1>1 DEF PresenceInv, PresenceTyped, HandlerSound, RowsOf
<1>3. ASSUME NEW v \in Online \ unclear' PROVE Clear(v)'
  <2>1. OpenOf(v) = {} /\ Handling(v) = {} /\ Clear(v)
    BY <1>1, <1>3 DEF PresenceInv
  <2>2. OpenOf(v)' = {} /\ Handling(v)' = {} /\ RowsOf(v)' = RowsOf(v)
    BY <1>1, <1>3, PresenceAssumption DEF OpenOf, Handling, RowsOf
  <2>3. QED
    BY <1>1, <2>1, <2>2, OthersClear
<1>4. QED
  BY <1>2, <1>3 DEF PresenceInv

LEMMA PresenceInvNext == PresenceInv /\ [PresenceNext]_<<presenceVars, reqVars>> => PresenceInv'
<1> SUFFICES ASSUME PresenceInv, [PresenceNext]_<<presenceVars, reqVars>> PROVE PresenceInv'
  OBVIOUS
<1>1. ASSUME NEW c \in Clients, Verify(c) \/ SaveStatus(c) \/ HandlerFails(c)
      PROVE  PresenceInv'
  BY <1>1, VerifyStep, SaveStatusStep, HandlerFailsStep
<1>2. CASE UNCHANGED <<presenceVars, reqVars>>
  <2>1. UNCHANGED <<req, rows, socket, dropped, unclear>>
    BY <1>2 DEF presenceVars, reqVars
  <2>2. \A u : UNCHANGED <<OpenOf(u), Handling(u), RowsOf(u)>>
    BY <2>1 DEF OpenOf, Handling, RowsOf
  <2>3. PresenceTyped'
    BY <2>1, <2>2 DEF PresenceInv, PresenceTyped, HandlerSound
  <2>4. \A u \in Online \ unclear : Clear(u)'
    BY <2>1, <2>2, OthersClear DEF PresenceInv
  <2>5. QED
    BY <2>1, <2>3, <2>4 DEF PresenceInv
<1>3. QED
  BY <1>1, <1>2, DisconnectStep, ConnectStep, SetStatusStep, RestartStep DEF PresenceNext

\* UsersGateway and ActiveStatusService: whatever overlapped or failed before, a user whose
\* handlers came one at a time since a connection is active exactly while a socket is open,
\* but for the time between the first of several sockets to close and the next to connect.
THEOREM PresenceFollows == PresenceSpec => []PresenceFollowsSockets
<1>1. PresenceInv => PresenceFollowsSockets
  BY DEF PresenceInv, Clear, Shown, PresenceFollowsSockets
<1>2. QED
  BY <1>1, PresenceInvInit, PresenceInvNext, PTL DEF PresenceSpec
=============================================================================
