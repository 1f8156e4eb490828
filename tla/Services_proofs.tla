--------------------------- MODULE Services_proofs ---------------------------
(***************************************************************************)
(* What the services around an order promise, for any number of clients,   *)
(* people, places, destinations, riders, calls and failures.               *)
(*                                                                         *)
(* Tasks, notifications, tickets and ratings: a user has at most one       *)
(* rating of another, and what a handler wrote is undone only by a request *)
(* that held an older copy.  The unique index alone does not say so, since *)
(* save() of another request inserts a row that is gone and writes every   *)
(* column of its copy.  The invariant says that the id of a row determines *)
(* its table, its owner and whom it is about, in the table and in every    *)
(* copy a request holds, and that a rating which is being changed is still *)
(* there.  Of a row nobody has written across a copy it says that the copy *)
(* differs from the row in the columns its request has set, and in no      *)
(* other.                                                                  *)
(*                                                                         *)
(* Location lookups: an answer is neither too old nor to another question. *)
(* Charges: the parts add up to what is paid.  Rider selection: a pair of  *)
(* coordinates is read in one way, and the rider proposed is the best.     *)
(*                                                                         *)
(* At the end all services together: whichever is used keeps what it       *)
(* promises, and so do those that rest.                                    *)
(***************************************************************************)
EXTENDS Services, Accounts_proofs, Riders_proofs, Sums_proofs, FiniteSetTheorems, TLAPS

-----------------------------------------------------------------------------
(* Tasks, notifications, tickets and ratings                                *)

RowKeys == {"id", "table", "owner", "about", "text", "state"}

Active(r) == r.pc # "idle"

\* The rows in the table, and the copies requests hold
AllRows == desk \cup {req[c].row : c \in {d \in Clients : Active(req[d])}}

\* Two rows are versions of the same one.
Same(x, y) == x.id = y.id /\ x.table = y.table /\ x.owner = y.owner /\ x.about = y.about

Sound(r) ==
  /\ "pc" \in DOMAIN r
  /\ Active(r) => "row" \in DOMAIN r
  /\ r.pc \in {"select", "save"} /\ r.row.table = "rating" => \E x \in desk : x.id = r.row.id
  /\ r.pc = "insert" => r.row.table = "rating" /\ \A x \in desk : x.id # r.row.id
  /\ r.pc = "remove" => r.row.table # "rating"
  /\ Active(r) => r.pc \in {"select", "save", "insert", "remove"}

RowsTyped ==
  /\ calls \in Nat /\ DOMAIN req = Clients
  /\ \A x \in AllRows : DOMAIN x = RowKeys /\ x.id \in Nat /\ x.id <= calls

Determined == \A x, y \in AllRows : x.id = y.id => Same(x, y)

OneRow == \A x, y \in desk : x.id = y.id => x = y

\* Nobody else knows of a rating before it is inserted.
InsertedOnce ==
  \A c, d \in Clients : req[c].pc = "insert" /\ Active(req[d]) /\ c # d =>
    req[c].row.id # req[d].row.id

DeskInv ==
  /\ RowsTyped /\ Determined /\ OneRow /\ InsertedOnce
  /\ \A c \in Clients : Sound(req[c])
  /\ RatedOnce

LEMMA DeskInvInit == DeskInit /\ RequestsInit => DeskInv
<1> SUFFICES ASSUME DeskInit, RequestsInit PROVE DeskInv
  OBVIOUS
<1>1. calls = 0 /\ DOMAIN req = Clients /\ \A c \in Clients : req[c] = Idle
  BY DEF RequestsInit
<1>2. AllRows = desk
  BY <1>1 DEF AllRows, Active, Idle
<1>3. \A x, y \in desk : x = y /\ DOMAIN x = RowKeys /\ x.id = 0
  BY DEF DeskInit, DeskRow, RowKeys
<1>4. RowsTyped /\ Determined /\ OneRow /\ RatedOnce
  BY <1>1, <1>2, <1>3 DEF RowsTyped, Determined, Same, OneRow, RatedOnce
<1>5. InsertedOnce /\ \A c \in Clients : Sound(req[c])
  BY <1>1 DEF InsertedOnce, Sound, Active, Idle
<1>6. QED
  BY <1>4, <1>5 DEF DeskInv

-----------------------------------------------------------------------------
(* A request takes a copy, keeps it or ends; the table stays as it is.      *)

\* A copy of a row of the table, or the copy the request has
LEMMA CopyStep ==
  ASSUME DeskInv, NEW c \in Clients, NEW r, UNCHANGED desk,
         req' = [req EXCEPT ![c] = r], calls' \in {calls, calls + 1},
         Sound(r), r.pc # "insert",
         Active(r) => DOMAIN r.row = RowKeys /\ \E p \in AllRows : Same(r.row, p),
         Active(r) => \A d \in Clients \ {c} : req[d].pc = "insert" => req[d].row.id # r.row.id
  PROVE  DeskInv'
<1>1. /\ DOMAIN req' = Clients
      /\ \A d \in Clients : req'[d] = IF d = c THEN r ELSE req[d]
  BY DEF DeskInv, RowsTyped
<1>2. \A x \in AllRows' : DOMAIN x = RowKeys /\ \E p \in AllRows : Same(x, p)
  BY <1>1 DEF DeskInv, RowsTyped, AllRows, Same
<1>3. RowsTyped'
  BY <1>1, <1>2 DEF DeskInv, RowsTyped, Same
<1>4. Determined'
  BY <1>2 DEF DeskInv, Determined, Same
<1>5. InsertedOnce'
  BY <1>1 DEF DeskInv, InsertedOnce
<1>6. \A d \in Clients : Sound(req[d])'
  BY <1>1 DEF DeskInv, Sound
<1>7. QED
  BY <1>3, <1>4, <1>5, <1>6 DEF DeskInv, OneRow, RatedOnce

\* A row of the table is read and its copy changed.
LEMMA DeskReadStep ==
  ASSUME DeskInv, NEW c \in Clients, NEW x \in desk, NEW r, UNCHANGED deskVars, Arrive(c, r),
         "pc" \in DOMAIN r, "row" \in DOMAIN r, DOMAIN r.row = RowKeys, Same(r.row, x),
         \/ r.pc = "select"
         \/ r.pc = "remove" /\ x.table # "rating"
  PROVE  DeskInv'
<1>1. req' = [req EXCEPT ![c] = r] /\ calls' = calls + 1 /\ UNCHANGED desk
  BY DEF Arrive, deskVars
<1>2. Sound(r)
  BY DEF Sound, Active, Same
<1>3. \A d \in Clients \ {c} : req[d].pc = "insert" => req[d].row.id # r.row.id
  BY DEF DeskInv, Sound, Same
<1>4. x \in AllRows
  BY DEF AllRows
<1>5. QED
  BY <1>1, <1>2, <1>3, <1>4, CopyStep

LEMMA EndStep ==
  ASSUME DeskInv, NEW c \in Clients, UNCHANGED <<desk, calls>>, req' = [req EXCEPT ![c] = Idle]
  PROVE  DeskInv'
<1>1. Sound(Idle) /\ ~Active(Idle) /\ Idle.pc # "insert"
  BY DEF Sound, Active, Idle
<1>2. QED
  BY <1>1, CopyStep

LEMMA EditStep ==
  ASSUME DeskInv, NEW c \in Clients, NEW x \in desk, NEW new, NEW set,
         DOMAIN new = RowKeys, Same(new, x), Edit(c, x, new, set)
  PROVE  DeskInv'
BY DeskReadStep DEF Edit

\* The columns an edit changes identify no row.
LEMMA Editable ==
  ASSUME DeskInv, NEW x \in desk, NEW v
  PROVE  /\ DOMAIN [x EXCEPT !.text = v] = RowKeys  /\ Same([x EXCEPT !.text = v], x)
         /\ DOMAIN [x EXCEPT !.state = v] = RowKeys /\ Same([x EXCEPT !.state = v], x)
<1>1. DOMAIN x = RowKeys
  BY DEF DeskInv, RowsTyped, AllRows
<1>2. QED
  BY <1>1 DEF RowKeys, Same

LEMMA UpdateStep ==
  ASSUME DeskInv, NEW c \in Clients, NEW x \in desk,
         \/ RemoveRow(c, x) \/ MarkAsCompleted(c, x) \/ CancelTask(c, x)
         \/ \E t : UpdateNotification(c, x, t) \/ UpdateTask(c, x, t) \/ UpdateTicket(c, x, t)
  PROVE  DeskInv'
<1>1. CASE RemoveRow(c, x)
  <2>1. DOMAIN x = RowKeys /\ Same(x, x)
    BY DEF DeskInv, RowsTyped, AllRows, Same
  <2>2. QED
    BY <1>1, <2>1, DeskReadStep DEF RemoveRow
<1>2. CASE \E t : UpdateNotification(c, x, t)
  BY <1>2, EditStep, Editable DEF UpdateNotification
<1>3. ASSUME NEW t, UpdateTask(c, x, t) PROVE DeskInv'
  BY <1>3, EditStep, Editable DEF UpdateTask
<1>4. CASE \E t : UpdateTicket(c, x, t)
  BY <1>4, EditStep, Editable DEF UpdateTicket
<1>5. QED
  BY <1>1, <1>2, <1>3, <1>4 DEF MarkAsCompleted, CancelTask

LEMMA SelectRowStep ==
  ASSUME DeskInv, NEW c \in Clients, SelectRow(c)
  PROVE  DeskInv'
<1> DEFINE x == req[c].row
           diff == {k \in DOMAIN x : \E y \in DeskAt(x.id) : y[k] # x[k]}
           r == [pc |-> "save", row |-> x, set |-> req[c].set, new |-> DeskAt(x.id) = {},
                 diff |-> diff]
<1>1. /\ req[c].pc = "select" /\ UNCHANGED <<desk, calls>>
      /\ req' = [req EXCEPT ![c] = r]
  BY DEF SelectRow, Become, deskVars
<1>2. Sound(req[c]) /\ Active(req[c])
  BY <1>1 DEF DeskInv, Active
<1>3. /\ "pc" \in DOMAIN r /\ "row" \in DOMAIN r
      /\ r.pc = "save" /\ r.row = x
  OBVIOUS
<1>4. x \in AllRows /\ DOMAIN x = RowKeys /\ Same(x, x)
  BY <1>2 DEF DeskInv, AllRows, RowsTyped, Same
<1>5. \A d \in Clients \ {c} : req[d].pc = "insert" => req[d].row.id # x.id
  BY <1>2 DEF DeskInv, InsertedOnce
<1> HIDE DEF r, x
<1>6. Sound(r)
  BY <1>1, <1>2, <1>3 DEF Sound, Active, x
<1>7. QED
  BY <1>1, <1>3, <1>4, <1>5, <1>6, CopyStep

-----------------------------------------------------------------------------
(* The table changes.                                                       *)

Replaced(ids, new) == {x \in desk : x.id \notin ids} \cup new

\* The rows with the given ids are replaced by versions of them, or removed if
\* they are no ratings; the request ends, or was over at once.
LEMMA ReplaceStep ==
  ASSUME DeskInv, NEW c \in Clients, NEW ids, NEW new,
         desk' = Replaced(ids, new),
         calls' \in {calls, calls + 1}, UNCHANGED req \/ req' = [req EXCEPT ![c] = Idle],
         \A x \in new : x.id \in ids /\ DOMAIN x = RowKeys /\ \E p \in desk : Same(x, p),
         \A x, y \in new : x.id = y.id => x = y,
         \A x \in desk : x.id \in ids /\ x.table = "rating" => \E y \in new : Same(x, y)
  PROVE  DeskInv'
<1> USE DEF Replaced
<1>1. /\ DOMAIN req' = Clients
      /\ \A d \in Clients : req'[d] = req[d] \/ req'[d] = Idle
  BY DEF DeskInv, RowsTyped
<1>2. \A x \in AllRows' : DOMAIN x = RowKeys /\ \E p \in AllRows : Same(x, p)
  BY <1>1 DEF DeskInv, RowsTyped, AllRows, Same, Active, Idle
<1>3. RowsTyped'
  BY <1>1, <1>2 DEF DeskInv, RowsTyped, Same
<1>4. Determined'
  BY <1>2 DEF DeskInv, Determined, Same
<1>5. OneRow'
  BY DEF DeskInv, OneRow
<1>6. InsertedOnce'
  BY <1>1 DEF DeskInv, InsertedOnce, Active, Idle
<1>7. \A d \in Clients : Sound(req[d])'
  <2> SUFFICES ASSUME NEW d \in Clients, req'[d] # Idle PROVE Sound(req[d])'
    BY DEF Sound, Active, Idle
  <2>1. req'[d] = req[d] /\ Sound(req[d])
    BY <1>1 DEF DeskInv
  <2>2. ASSUME req[d].pc \in {"select", "save"}, req[d].row.table = "rating"
        PROVE  \E x \in desk' : x.id = req[d].row.id
    <3>1. PICK x \in desk : x.id = req[d].row.id
      BY <2>1, <2>2 DEF Sound
    <3>2. x.table = "rating"
      BY <2>2, <3>1 DEF DeskInv, Determined, AllRows, Active, Same
    <3>3. QED
      BY <3>1, <3>2 DEF Same
  <2>3. ASSUME req[d].pc = "insert"
        PROVE  \A x \in desk' : x.id # req[d].row.id
    BY <2>1, <2>3 DEF Sound, Same
  <2>4. QED
    BY <2>1, <2>2, <2>3 DEF Sound
<1>8. RatedOnce'
  <2> SUFFICES ASSUME NEW x \in desk', NEW y \in desk', x.table = "rating",
                      y.table = "rating", x.owner = y.owner, x.about = y.about
               PROVE  x = y
    BY DEF RatedOnce
  <2>1. PICK p \in desk : Same(x, p)
    BY DEF Same
  <2>2. PICK q \in desk : Same(y, q)
    BY DEF Same
  <2>3. p = q
    <3>1. p \in {z \in desk : z.table = "rating"} /\ q \in {z \in desk : z.table = "rating"}
      BY <2>1, <2>2 DEF Same
    <3>2. p.owner = q.owner /\ p.about = q.about
      BY <2>1, <2>2 DEF Same
    <3>3. RatedOnce
      BY DEF DeskInv
    <3>4. QED
      BY <3>1, <3>2, <3>3 DEF RatedOnce
  <2>4. x.id = y.id
    BY <2>1, <2>2, <2>3 DEF Same
  <2>5. QED
    BY <1>5, <2>4 DEF OneRow
<1>9. QED
  BY <1>3, <1>4, <1>5, <1>6, <1>7, <1>8 DEF DeskInv

LEMMA NewRowIs ==
  ASSUME NEW table, NEW owner, NEW about, NEW text
  PROVE  LET x == NewRow(table, owner, about, text) IN
         /\ DOMAIN x = RowKeys /\ x.id = calls + 1
         /\ x.table = table /\ x.owner = owner /\ x.about = about
<1> DEFINE st == CASE table = "notification" -> "unseen" [] table = "task" -> "pending"
                   [] table = "ticket" -> "open"         [] table = "rating" -> "rated"
<1>1. NewRow(table, owner, about, text) =
        [id |-> calls + 1, table |-> table, owner |-> owner, about |-> about,
         text |-> text, state |-> st]
  BY DEF NewRow
<1> HIDE DEF st
<1>2. QED
  BY <1>1 DEF RowKeys

\* A new row has a new id.
LEMMA CreateStep ==
  ASSUME DeskInv, NEW c \in Clients, NEW table \in {"notification", "task", "ticket"},
         NEW u, NEW t, Create(c, table, u, t)
  PROVE  DeskInv'
<1> DEFINE new == NewRow(table, u, None, t)
<1>1. DOMAIN new = RowKeys /\ new.id = calls + 1 /\ new.table # "rating"
  BY NewRowIs
<1>2. desk' = desk \cup {new} /\ calls' = calls + 1 /\ UNCHANGED req
  BY DEF Create, Replace, Instant
<1> HIDE DEF new
<1>3. calls \in Nat /\ \A x \in AllRows : x.id \in Nat /\ x.id <= calls
  BY DEF DeskInv, RowsTyped
<1>4. AllRows' = AllRows \cup {new}
  BY <1>2 DEF AllRows
<1>5. RowsTyped'
  BY <1>1, <1>2, <1>3, <1>4 DEF DeskInv, RowsTyped
<1>6. Determined'
  BY <1>1, <1>3, <1>4 DEF DeskInv, Determined, Same
<1>7. OneRow'
  BY <1>1, <1>2, <1>3 DEF DeskInv, OneRow, AllRows
<1>8. \A d \in Clients : Sound(req[d])'
  <2> SUFFICES ASSUME NEW d \in Clients PROVE Sound(req[d])'
    OBVIOUS
  <2>1. Active(req[d]) => req[d].row \in AllRows
    BY DEF AllRows
  <2>2. QED
    BY <1>1, <1>2, <1>3, <2>1 DEF DeskInv, Sound, Active
<1>9. RatedOnce' /\ InsertedOnce'
  BY <1>1, <1>2 DEF DeskInv, RatedOnce, InsertedOnce
<1>10. QED
  BY <1>5, <1>6, <1>7, <1>8, <1>9 DEF DeskInv

LEMMA MarkAsSeenStep ==
  ASSUME DeskInv, NEW c \in Clients, NEW u, NEW ids, MarkAsSeen(c, u, ids)
  PROVE  DeskInv'
<1> DEFINE seen == Seen(u, ids)
           new == Marked(seen)
           gone == {x.id : x \in seen}
<1>1. /\ desk' = Replaced(gone, new)
      /\ calls' = calls + 1 /\ UNCHANGED req
  BY DEF MarkAsSeen, Instant, Replace, Replaced
<1>2. \A x \in seen : x \in desk /\ x.table = "notification"
  BY DEF Seen
<1>3. \A x \in seen : /\ DOMAIN [x EXCEPT !.state = "seen"] = RowKeys
                      /\ Same([x EXCEPT !.state = "seen"], x)
  BY <1>2, Editable
<1> HIDE DEF seen
<1>4. \A y \in new : \E x \in seen : y = [x EXCEPT !.state = "seen"]
  BY DEF Marked
<1> HIDE DEF new
<1>5. \A y \in new : y.id \in gone /\ DOMAIN y = RowKeys /\ \E p \in desk : Same(y, p)
  <2> SUFFICES ASSUME NEW y \in new
               PROVE  y.id \in gone /\ DOMAIN y = RowKeys /\ \E p \in desk : Same(y, p)
    OBVIOUS
  <2>1. PICK x \in seen : y = [x EXCEPT !.state = "seen"]
    BY <1>4
  <2>2. DOMAIN y = RowKeys /\ Same(y, x)
    BY <1>3, <2>1
  <2>3. QED
    BY <1>2, <2>2 DEF Same
<1>6. \A x, y \in new : x.id = y.id => x = y
  <2> SUFFICES ASSUME NEW x \in new, NEW y \in new, x.id = y.id PROVE x = y
    OBVIOUS
  <2>1. PICK p \in seen : x = [p EXCEPT !.state = "seen"]
    BY <1>4
  <2>2. PICK q \in seen : y = [q EXCEPT !.state = "seen"]
    BY <1>4
  <2>3. p.id = q.id
    BY <1>3, <2>1, <2>2 DEF Same
  <2>4. QED
    BY <1>2, <2>1, <2>2, <2>3 DEF DeskInv, OneRow
<1>7. \A x \in desk : x.id \in gone => x.table # "rating"
  BY <1>2 DEF DeskInv, OneRow
<1> HIDE DEF gone
<1>8. QED
  BY <1>1, <1>5, <1>6, <1>7, ReplaceStep

LEMMA DeleteStep ==
  ASSUME DeskInv, NEW c \in Clients, DeleteRow(c) \/ \E x \in desk : DeleteTicket(c, x)
  PROVE  DeskInv'
<1>1. CASE DeleteRow(c)
  <2> DEFINE gone == {req[c].row.id}
             none == {}
  <2>1. /\ req[c].pc = "remove" /\ calls' \in {calls, calls + 1}
        /\ desk' = Replaced(gone, none)
        /\ req' = [req EXCEPT ![c] = Idle]
    BY <1>1 DEF DeleteRow, Replace, Finish, Become, Replaced
  <2>2. \A x \in desk : x.id \in gone => x.table # "rating"
    BY <2>1 DEF DeskInv, Sound, Determined, AllRows, Active, Same
  <2> HIDE DEF gone
  <2>3. /\ \A x \in none : x.id \in gone /\ DOMAIN x = RowKeys /\ \E p \in desk : Same(x, p)
        /\ \A x, y \in none : x.id = y.id => x = y
        /\ \A x \in desk : x.id \in gone /\ x.table = "rating" => \E y \in none : Same(x, y)
    BY <2>2
  <2> HIDE DEF none
  <2>4. UNCHANGED req \/ req' = [req EXCEPT ![c] = Idle]
    BY <2>1
  <2>5. QED
    BY <2>1, <2>3, <2>4, ReplaceStep
<1>2. ASSUME NEW y \in desk, DeleteTicket(c, y) PROVE DeskInv'
  <2>1. /\ y.table = "ticket" /\ calls' = calls + 1 /\ UNCHANGED req
        /\ desk' = Replaced({y.id}, {})
    BY <1>2 DEF DeleteTicket, Replace, Instant, Replaced
  <2>2. \A x \in desk : x.id \in {y.id} => x.table # "rating"
    BY <2>1 DEF DeskInv, OneRow
  <2>3. QED
    BY <2>1, <2>2, ReplaceStep
<1>3. QED
  BY <1>1, <1>2

\* A copy that is saved is a version of the row it is written over.
LEMMA OverlayIs ==
  ASSUME NEW x, NEW r, NEW cols, DOMAIN x = RowKeys, DOMAIN r = RowKeys, Same(r, x)
  PROVE  DOMAIN Overlay(x, r, cols) = RowKeys /\ Same(Overlay(x, r, cols), x)
BY DEF Overlay, RowKeys, Same

LEMMA SaveRowStep ==
  ASSUME DeskInv, NEW c \in Clients, SaveRow(c)
  PROVE  DeskInv'
<1> DEFINE r == req[c].row
           cols == req[c].diff
           over(x) == IF x.id = r.id THEN Overlay(x, r, cols) ELSE x
           back == IF req[c].new /\ DeskAt(r.id) = {} THEN {r} ELSE {}
<1>1. /\ req[c].pc = "save" /\ UNCHANGED calls
      /\ desk' = {over(x) : x \in desk} \cup back
      /\ req' = [req EXCEPT ![c] = Idle]
  BY DEF SaveRow, Finish, Become
<1>2. r \in AllRows /\ DOMAIN r = RowKeys
  BY <1>1 DEF DeskInv, AllRows, RowsTyped, Active
<1>3. \A x \in desk : DOMAIN x = RowKeys /\ (x.id = r.id => Same(r, x))
  BY <1>2 DEF DeskInv, RowsTyped, Determined, AllRows
<1>4. CASE \E x \in desk : x.id = r.id
  <2>1. PICK x \in desk : x.id = r.id
    BY <1>4
  <2>2. back = {}
    BY <2>1 DEF DeskAt
  <2> DEFINE y == Overlay(x, r, cols)
  <2>3. DOMAIN y = RowKeys /\ Same(y, x)
    BY <1>2, <1>3, <2>1, OverlayIs
  <2>4. \A z \in desk : z.id = r.id => z = x
    BY <2>1 DEF DeskInv, OneRow
  <2>5. desk' = Replaced({r.id}, {y})
    BY <1>1, <2>1, <2>2, <2>4 DEF Replaced
  <2> HIDE DEF y, r
  <2>6. y.id \in {r.id} /\ Same(x, y)
    BY <2>1, <2>3 DEF Same
  <2>7. calls' \in {calls, calls + 1} /\ (UNCHANGED req \/ req' = [req EXCEPT ![c] = Idle])
    BY <1>1
  <2>8. \A z \in {y} : z.id \in {r.id} /\ DOMAIN z = RowKeys /\ \E p \in desk : Same(z, p)
    BY <2>3, <2>6
  <2>9. \A z \in desk : z.id \in {r.id} /\ z.table = "rating" => \E w \in {y} : Same(z, w)
    BY <2>4, <2>6
  <2>10. QED
    BY <2>5, <2>7, <2>8, <2>9, ReplaceStep
<1>5. CASE ~\E x \in desk : x.id = r.id
  <2>1. r.table # "rating"
    BY <1>1, <1>5 DEF DeskInv, Sound
  <2>2. /\ \A d \in Clients \ {c} : req[d].pc = "insert" => req[d].row.id # r.id
        /\ \A d \in Clients \ {c} : Active(req[d]) /\ req[d].row.id = r.id =>
             req[d].row.table # "rating"
    BY <1>1, <1>2, <2>1 DEF DeskInv, InsertedOnce, Determined, AllRows, Active, Same
  <2>3. desk' = desk \cup back /\ back \subseteq {r}
    BY <1>1, <1>5
  <2> HIDE DEF back
  <2>4. /\ DOMAIN req' = Clients
        /\ \A d \in Clients : req'[d] = IF d = c THEN Idle ELSE req[d]
    BY <1>1 DEF DeskInv, RowsTyped
  <2>5. AllRows' \subseteq AllRows
    BY <1>2, <2>3, <2>4 DEF AllRows, Active, Idle
  <2>6. RowsTyped' /\ Determined'
    BY <1>1, <2>4, <2>5 DEF DeskInv, RowsTyped, Determined
  <2>7. OneRow' /\ RatedOnce'
    BY <1>5, <2>1, <2>3 DEF DeskInv, OneRow, RatedOnce
  <2>8. InsertedOnce'
    BY <2>4 DEF DeskInv, InsertedOnce, Active, Idle
  <2>9. \A d \in Clients : Sound(req[d])'
    BY <2>2, <2>3, <2>4 DEF DeskInv, Sound, Active, Idle
  <2>10. QED
    BY <2>6, <2>7, <2>8, <2>9 DEF DeskInv
<1>6. QED
  BY <1>4, <1>5

-----------------------------------------------------------------------------
(* First ratings                                                           *)

LEMMA RateUserStep ==
  ASSUME DeskInv, NEW c \in Clients, NEW u, NEW v, NEW t, RateUser(c, u, v, t)
  PROVE  DeskInv'
<1> DEFINE new == NewRow("rating", u, v, t)
           r == [pc |-> "insert", row |-> new]
<1>1. CASE Arrive(c, r) /\ UNCHANGED deskVars
  <2>1. DOMAIN new = RowKeys /\ new.id = calls + 1 /\ new.table = "rating"
    BY NewRowIs
  <2>2. req' = [req EXCEPT ![c] = r] /\ calls' = calls + 1 /\ UNCHANGED desk
    BY <1>1 DEF Arrive, deskVars
  <2>3. "pc" \in DOMAIN r /\ "row" \in DOMAIN r /\ r.pc = "insert" /\ r.row = new
    OBVIOUS
  <2> HIDE DEF new, r
  <2>4. /\ DOMAIN req' = Clients
        /\ \A d \in Clients : req'[d] = IF d = c THEN r ELSE req[d]
    BY <2>2 DEF DeskInv, RowsTyped
  <2>5. calls \in Nat /\ \A x \in AllRows : x.id \in Nat /\ x.id <= calls
    BY DEF DeskInv, RowsTyped
  <2>6. AllRows' \subseteq AllRows \cup {new}
    BY <2>2, <2>3, <2>4 DEF AllRows
  <2>7. RowsTyped'
    BY <2>1, <2>2, <2>4, <2>5, <2>6 DEF DeskInv, RowsTyped
  <2>8. Determined'
    BY <2>1, <2>5, <2>6 DEF DeskInv, Determined, Same
  <2>9. \A d \in Clients : Active(req[d]) => req[d].row \in AllRows
    BY DEF AllRows
  <2>10. InsertedOnce'
    BY <2>1, <2>3, <2>4, <2>5, <2>9 DEF DeskInv, InsertedOnce, Active
  <2>11. \A x \in desk : x.id # new.id
    BY <2>1, <2>5 DEF AllRows
  <2>12. \A d \in Clients : Sound(req[d])'
    BY <2>1, <2>2, <2>3, <2>4, <2>11 DEF DeskInv, Sound
  <2>13. QED
    BY <2>2, <2>7, <2>8, <2>10, <2>12 DEF DeskInv, OneRow, RatedOnce
<1>2. CASE \E x \in desk : Edit(c, x, [x EXCEPT !.text = t], {"text"})
  BY <1>2, EditStep, Editable
<1>3. QED
  BY <1>1, <1>2 DEF RateUser

\* The unique index refuses the second of two first ratings.
LEMMA InsertRatingStep ==
  ASSUME DeskInv, NEW c \in Clients, InsertRating(c)
  PROVE  DeskInv'
<1> DEFINE new == req[c].row
<1>1. req[c].pc = "insert" /\ Active(req[c]) /\ Sound(req[c])
  BY DEF DeskInv, InsertRating, Active
<1>2. req' = [req EXCEPT ![c] = Idle] /\ UNCHANGED calls
  BY DEF InsertRating, Finish, Become
<1>3. CASE UNCHANGED deskVars
  BY <1>2, <1>3, EndStep DEF deskVars
<1>4. CASE /\ ~\E x \in desk : x.table = "rating" /\ x.owner = new.owner /\ x.about = new.about
           /\ Replace(c, {}, {new})
  <2>1. /\ DOMAIN req' = Clients
        /\ \A d \in Clients : req'[d] = IF d = c THEN Idle ELSE req[d]
    BY <1>2 DEF DeskInv, RowsTyped
  <2>2. desk' = desk \cup {new}
    BY <1>4 DEF Replace
  <2>3. new \in AllRows /\ new.table = "rating" /\ \A x \in desk : x.id # new.id
    BY <1>1 DEF AllRows, Sound
  <2>4. AllRows' \subseteq AllRows
    BY <2>1, <2>2, <2>3 DEF AllRows, Active, Idle
  <2>5. RowsTyped' /\ Determined'
    BY <1>2, <2>1, <2>4 DEF DeskInv, RowsTyped, Determined
  <2>6. OneRow' /\ RatedOnce'
    BY <1>4, <2>2, <2>3 DEF DeskInv, OneRow, RatedOnce
  <2>7. InsertedOnce'
    BY <2>1 DEF DeskInv, InsertedOnce, Active, Idle
  <2>8. \A d \in Clients \ {c} : Active(req[d]) => req[d].row.id # new.id
    BY <1>1 DEF DeskInv, InsertedOnce
  <2>9. \A d \in Clients : Sound(req[d])'
    BY <2>1, <2>2, <2>8 DEF DeskInv, Sound, Active, Idle
  <2>10. QED
    BY <2>5, <2>6, <2>7, <2>9 DEF DeskInv
<1>5. QED
  BY <1>3, <1>4 DEF InsertRating

-----------------------------------------------------------------------------
(* Every step, and the theorem                                             *)

LEMMA DeskInvNext == DeskInv /\ [DeskNext]_<<deskVars, reqVars>> => DeskInv'
<1> SUFFICES ASSUME DeskInv, [DeskNext]_<<deskVars, reqVars>> PROVE DeskInv'
  OBVIOUS
<1>1. ASSUME NEW c \in Clients, NEW u \in People, NEW t \in Texts,
             CreateNotification(c, u, t) \/ CreateTask(c, u, t) \/ CreateTicket(c, u, t)
      PROVE  DeskInv'
  BY <1>1, CreateStep DEF CreateNotification, CreateTask, CreateTicket
<1>2. ASSUME NEW c \in Clients, NEW u \in People, NEW v \in People, NEW t \in Texts,
             RateUser(c, u, v, t)
      PROVE  DeskInv'
  BY <1>2, RateUserStep
<1>3. ASSUME NEW c \in Clients, NEW u \in People, NEW ids \in SUBSET {x.id : x \in desk},
             MarkAsSeen(c, u, ids)
      PROVE  DeskInv'
  BY <1>3, MarkAsSeenStep
<1>4. ASSUME NEW c \in Clients, NEW x \in desk,
             \/ DeleteTicket(c, x) \/ RemoveRow(c, x)
             \/ MarkAsCompleted(c, x) \/ CancelTask(c, x)
             \/ \E t \in Texts : UpdateNotification(c, x, t)
             \/ \E s \in States["task"] : UpdateTask(c, x, s)
             \/ \E s \in States["ticket"] : UpdateTicket(c, x, s)
      PROVE  DeskInv'
  BY <1>4, DeleteStep, UpdateStep
<1>5. ASSUME NEW c \in Clients, InsertRating(c) \/ SelectRow(c) \/ SaveRow(c) \/ DeleteRow(c)
      PROVE  DeskInv'
  BY <1>5, InsertRatingStep, SelectRowStep, SaveRowStep, DeleteStep
<1>6. ASSUME NEW c \in Clients, Abort(c), UNCHANGED deskVars
      PROVE  DeskInv'
  BY <1>6, EndStep DEF Abort, deskVars
<1>7. CASE UNCHANGED <<deskVars, reqVars>>
  <2>1. AllRows' = AllRows
    BY <1>7 DEF AllRows, deskVars, reqVars
  <2>2. QED
    BY <1>7, <2>1 DEF DeskInv, RowsTyped, Determined, OneRow, InsertedOnce, Sound, RatedOnce,
       deskVars, reqVars
<1>8. QED
  BY <1>1, <1>2, <1>3, <1>4, <1>5, <1>6, <1>7 DEF DeskNext

\* RatingService.rateUser: two first ratings that both find none, changes and failures
\* never leave two ratings of one user by another.
THEOREM OneRating == DeskSpec => []RatedOnce
<1>1. DeskInv => RatedOnce
  BY DEF DeskInv
<1>2. QED
  BY <1>1, DeskInvInit, DeskInvNext, PTL DEF DeskSpec

-----------------------------------------------------------------------------
(* What is written stays                                                   *)

MeantAt(id) == {r \in meant : r.id = id}

\* r has read x, changed the columns of its set, and will write these and no others.
CopyOf(r, x) ==
  /\ x.id = r.row.id
  /\ \A k \in RowKeys \ r.set : r.row[k] = x[k]
  /\ r.pc = "save" => ~r.new /\ \A k \in RowKeys : k \in r.diff <=> r.row[k] # x[k]

CopyInv(r) ==
  r.pc \in {"select", "save"} /\ r.row.id \notin crossed => \E x \in desk : CopyOf(r, x)

HoldsInv ==
  /\ \A x \in meant : DOMAIN x = RowKeys
  /\ \A id : id \notin crossed => DeskAt(id) = MeantAt(id)
  /\ \A c \in Clients : CopyInv(req[c])

LEMMA HoldsInit == DeskInit /\ RequestsInit => HoldsInv
<1> SUFFICES ASSUME DeskInit, RequestsInit PROVE HoldsInv
  OBVIOUS
<1>1. \A x \in meant : DOMAIN x = RowKeys
  BY DEF DeskInit, DeskRow, RowKeys
<1>2. \A id : DeskAt(id) = MeantAt(id)
  BY DEF DeskInit, DeskAt, MeantAt
<1>3. \A c \in Clients : CopyInv(req[c])
  BY DEF RequestsInit, Idle, CopyInv
<1>4. QED
  BY <1>1, <1>2, <1>3 DEF HoldsInv

\* A request takes a copy, keeps it or ends.
LEMMA CopyStays ==
  ASSUME DeskInv, HoldsInv, NEW c \in Clients, NEW r, UNCHANGED deskVars,
         req' = [req EXCEPT ![c] = r], CopyInv(r)
  PROVE  HoldsInv'
<1>1. \A d \in Clients : req'[d] = IF d = c THEN r ELSE req[d]
  BY DEF DeskInv, RowsTyped
<1>2. \A d \in Clients : CopyInv(req[d])'
  BY <1>1 DEF HoldsInv, CopyInv, CopyOf, deskVars
<1>3. \A id : DeskAt(id)' = DeskAt(id) /\ MeantAt(id)' = MeantAt(id)
  BY DEF DeskAt, MeantAt, deskVars
<1>4. QED
  BY <1>2, <1>3 DEF HoldsInv, deskVars

LEMMA CopyEnds ==
  ASSUME DeskInv, HoldsInv, NEW c \in Clients, UNCHANGED deskVars, req' = [req EXCEPT ![c] = Idle]
  PROVE  HoldsInv'
<1>1. CopyInv(Idle)
  BY DEF CopyInv, Idle
<1>2. QED
  BY <1>1, CopyStays

\* A copy of a row that is read agrees with it outside the columns that are set.
LEMMA EditHolds ==
  ASSUME DeskInv, HoldsInv, NEW c \in Clients, NEW x \in desk, NEW k \in {"text", "state"}, NEW v,
         Edit(c, x, [x EXCEPT ![k] = v], {k})
  PROVE  HoldsInv'
<1> DEFINE new == [x EXCEPT ![k] = v]
           r == [pc |-> "select", row |-> new, set |-> {k}]
<1>1. DOMAIN x = RowKeys
  BY DEF DeskInv, RowsTyped, AllRows
<1>2. \A j \in RowKeys \ {k} : new[j] = x[j]
  BY <1>1
<1>3. new.id = x.id
  BY <1>2 DEF RowKeys
<1> HIDE DEF new
<1>4. CopyOf(r, x)
  BY <1>2, <1>3 DEF CopyOf
<1>5. CopyInv(r)
  BY <1>4 DEF CopyInv
<1>6. QED
  BY <1>5, CopyStays DEF Edit, Arrive, new

LEMMA UpdateHolds ==
  ASSUME DeskInv, HoldsInv, NEW c \in Clients, NEW x \in desk,
         \/ RemoveRow(c, x) \/ MarkAsCompleted(c, x) \/ CancelTask(c, x)
         \/ \E t : UpdateNotification(c, x, t) \/ UpdateTask(c, x, t) \/ UpdateTicket(c, x, t)
  PROVE  HoldsInv'
<1>1. CASE RemoveRow(c, x)
  <2> DEFINE r == [pc |-> "remove", row |-> x]
  <2>1. CopyInv(r)
    BY DEF CopyInv
  <2>2. QED
    BY <1>1, <2>1, CopyStays DEF RemoveRow, Arrive
<1>2. ASSUME NEW t, UpdateNotification(c, x, t) PROVE HoldsInv'
  BY <1>2, EditHolds DEF UpdateNotification
<1>3. ASSUME NEW t, UpdateTask(c, x, t) PROVE HoldsInv'
  BY <1>3, EditHolds DEF UpdateTask
<1>4. ASSUME NEW t, UpdateTicket(c, x, t) PROVE HoldsInv'
  BY <1>4, EditHolds DEF UpdateTicket
<1>5. QED
  BY <1>1, <1>2, <1>3, <1>4 DEF MarkAsCompleted, CancelTask

LEMMA RateUserHolds ==
  ASSUME DeskInv, HoldsInv, NEW c \in Clients, NEW u, NEW v, NEW t, RateUser(c, u, v, t)
  PROVE  HoldsInv'
<1> DEFINE new == NewRow("rating", u, v, t)
           r == [pc |-> "insert", row |-> new]
<1>1. CASE Arrive(c, r) /\ UNCHANGED deskVars
  <2>1. CopyInv(r)
    BY DEF CopyInv
  <2>2. QED
    BY <1>1, <2>1, CopyStays DEF Arrive
<1>2. CASE \E x \in desk : Edit(c, x, [x EXCEPT !.text = t], {"text"})
  BY <1>2, EditHolds
<1>3. QED
  BY <1>1, <1>2 DEF RateUser

\* save() finds in the row what the request has set.
LEMMA SelectRowHolds ==
  ASSUME DeskInv, HoldsInv, NEW c \in Clients, SelectRow(c)
  PROVE  HoldsInv'
<1> DEFINE q == req[c]
           x == q.row
           diff == {k \in DOMAIN x : \E y \in DeskAt(x.id) : y[k] # x[k]}
           r == [pc |-> "save", row |-> x, set |-> q.set, new |-> DeskAt(x.id) = {},
                 diff |-> diff]
<1>1. /\ q.pc = "select" /\ UNCHANGED deskVars /\ CopyInv(q)
      /\ req' = [req EXCEPT ![c] = r]
  BY DEF SelectRow, Become, HoldsInv
<1>2. DOMAIN x = RowKeys
  BY <1>1 DEF DeskInv, RowsTyped, AllRows, Active
<1>3. ASSUME NEW y \in desk, CopyOf(q, y)
      PROVE  CopyOf(r, y)
  <2>1. DeskAt(x.id) = {y}
    BY <1>3 DEF DeskInv, OneRow, DeskAt, CopyOf
  <2>2. \A k \in RowKeys : k \in diff <=> x[k] # y[k]
    BY <1>2, <2>1
  <2>3. ~r.new
    BY <2>1
  <2> HIDE DEF diff
  <2>4. QED
    BY <1>3, <2>2, <2>3 DEF CopyOf
<1>4. r.row = q.row
  OBVIOUS
<1> HIDE DEF r
<1>5. CopyInv(r)
  BY <1>1, <1>3, <1>4 DEF CopyInv
<1>6. QED
  BY <1>1, <1>5, CopyStays

\* Rows are replaced in the table as they are in the minds of the handlers, and whoever
\* holds an older copy is noted.
LEMMA ReplaceHolds ==
  ASSUME DeskInv, HoldsInv, NEW c \in Clients, NEW ids, NEW new, Replace(c, ids, new),
         \A x \in new : DOMAIN x = RowKeys,
         req' = [req EXCEPT ![c] = Idle] \/ (UNCHANGED req /\ req[c] = Idle)
  PROVE  HoldsInv'
<1>1. \A d \in Clients : req'[d] = IF d = c THEN Idle ELSE req[d]
  BY DEF DeskInv, RowsTyped
<1>2. \A x \in meant' : DOMAIN x = RowKeys
  BY DEF Replace, HoldsInv
<1>3. crossed \subseteq crossed'
  BY DEF Replace, Cross
<1>4. ASSUME NEW id, id \notin crossed'
      PROVE  DeskAt(id)' = MeantAt(id)'
  <2>1. DeskAt(id) = MeantAt(id)
    BY <1>3, <1>4 DEF HoldsInv
  <2>2. \A x : x \in desk /\ x.id = id <=> x \in meant /\ x.id = id
    BY <2>1 DEF DeskAt, MeantAt
  <2>3. \A x : x \in desk' /\ x.id = id <=> x \in meant' /\ x.id = id
    BY <2>2 DEF Replace
  <2>4. QED
    BY <2>3 DEF DeskAt, MeantAt
<1>5. ASSUME NEW d \in Clients PROVE CopyInv(req[d])'
  <2>1. CASE d = c
    BY <1>1, <2>1 DEF CopyInv, Idle
  <2>2. ASSUME d # c, req[d].pc \in {"select", "save"}, req[d].row.id \notin crossed'
        PROVE  \E x \in desk' : CopyOf(req[d], x)
    <3>1. PICK x \in desk : CopyOf(req[d], x)
      BY <1>3, <2>2 DEF HoldsInv, CopyInv
    <3>2. x.id \notin ids
      BY <2>2, <3>1 DEF CopyOf, Replace, Cross, Holds
    <3>3. QED
      BY <3>1, <3>2 DEF Replace
  <2>3. QED
    BY <1>1, <2>1, <2>2 DEF CopyInv, CopyOf
<1>6. QED
  BY <1>2, <1>4, <1>5 DEF HoldsInv

LEMMA TableHolds ==
  ASSUME DeskInv, HoldsInv, NEW c \in Clients,
         \/ \E u \in People, t \in Texts :
              CreateNotification(c, u, t) \/ CreateTask(c, u, t) \/ CreateTicket(c, u, t)
         \/ \E u, ids : MarkAsSeen(c, u, ids)
         \/ \E x \in desk : DeleteTicket(c, x)
         \/ DeleteRow(c) \/ InsertRating(c)
  PROVE  HoldsInv'
<1>1. ASSUME NEW u, NEW t, NEW table, Create(c, table, u, t) PROVE HoldsInv'
  <2> DEFINE new == NewRow(table, u, None, t)
             none == {}
  <2>1. DOMAIN new = RowKeys
    BY NewRowIs
  <2> HIDE DEF new
  <2>2. Replace(c, none, {new}) /\ UNCHANGED req /\ req[c] = Idle
    BY <1>1 DEF Create, Instant, new
  <2> HIDE DEF none
  <2>3. QED
    BY <2>1, <2>2, ReplaceHolds
<1>2. ASSUME NEW u, NEW ids, MarkAsSeen(c, u, ids) PROVE HoldsInv'
  <2> DEFINE seen == Seen(u, ids)
             new == Marked(seen)
             gone == {x.id : x \in seen}
  <2>1. \A x \in seen : DOMAIN [x EXCEPT !.state = "seen"] = RowKeys
    BY Editable DEF Seen
  <2>2. \A y \in new : DOMAIN y = RowKeys
    BY <2>1 DEF Marked
  <2>3. Replace(c, gone, new) /\ UNCHANGED req /\ req[c] = Idle
    BY <1>2 DEF MarkAsSeen, Instant
  <2> HIDE DEF new, gone
  <2>4. QED
    BY <2>2, <2>3, ReplaceHolds
<1>3. ASSUME NEW x \in desk, DeleteTicket(c, x) PROVE HoldsInv'
  <2> DEFINE gone == {x.id}
             none == {}
  <2>1. Replace(c, gone, none) /\ UNCHANGED req /\ req[c] = Idle /\ \A y \in none : DOMAIN y = RowKeys
    BY <1>3 DEF DeleteTicket, Instant
  <2> HIDE DEF gone, none
  <2>2. QED
    BY <2>1, ReplaceHolds
<1>4. CASE DeleteRow(c)
  <2> DEFINE gone == {req[c].row.id}
             none == {}
  <2>1. Replace(c, gone, none) /\ req' = [req EXCEPT ![c] = Idle] /\ \A y \in none : DOMAIN y = RowKeys
    BY <1>4 DEF DeleteRow, Finish, Become
  <2> HIDE DEF gone, none
  <2>2. QED
    BY <2>1, ReplaceHolds
<1>5. CASE InsertRating(c)
  <2> DEFINE new == req[c].row
             none == {}
  <2>1. req' = [req EXCEPT ![c] = Idle] /\ req[c].pc = "insert"
    BY <1>5 DEF InsertRating, Finish, Become
  <2>2. DOMAIN new = RowKeys
    BY <2>1 DEF DeskInv, RowsTyped, AllRows, Active
  <2>3. UNCHANGED deskVars \/ Replace(c, none, {new})
    BY <1>5 DEF InsertRating
  <2> HIDE DEF new, none
  <2>4. CASE UNCHANGED deskVars
    BY <2>1, <2>4, CopyEnds
  <2>5. CASE Replace(c, none, {new})
    BY <2>1, <2>2, <2>5, ReplaceHolds
  <2>6. QED
    BY <2>3, <2>4, <2>5
<1>6. QED
  BY <1>1, <1>2, <1>3, <1>4, <1>5 DEF CreateNotification, CreateTask, CreateTicket

\* The columns that differ from an uncrossed copy are those its request has set.
LEMMA SaveRowHolds ==
  ASSUME DeskInv, HoldsInv, NEW c \in Clients, SaveRow(c)
  PROVE  HoldsInv'
<1> DEFINE q == req[c]
           r == q.row
           write(set, cols) == {IF x.id = r.id THEN Overlay(x, r, cols) ELSE x : x \in set}
           back == IF q.new /\ DeskAt(r.id) = {} THEN {r} ELSE {}
<1>1. /\ q.pc = "save" /\ Active(q)
      /\ desk' = write(desk, q.diff) \cup back
      /\ meant' = write(meant, q.set)
      /\ crossed' = crossed \cup {id \in {r.id} : \E d \in Clients \ {c} : Holds(d, id)}
      /\ req' = [req EXCEPT ![c] = Idle]
  BY DEF SaveRow, Finish, Become, Cross, Active
<1>2. \A d \in Clients : req'[d] = IF d = c THEN Idle ELSE req[d]
  BY <1>1 DEF DeskInv, RowsTyped
<1>3. DOMAIN r = RowKeys /\ (\A x \in desk : DOMAIN x = RowKeys) /\ (\A x \in meant : DOMAIN x = RowKeys)
  BY <1>1 DEF DeskInv, RowsTyped, AllRows, HoldsInv
<1>4. ASSUME NEW x, DOMAIN x = RowKeys, x.id = r.id, NEW cols
      PROVE  /\ DOMAIN Overlay(x, r, cols) = RowKeys /\ Overlay(x, r, cols).id = r.id
             /\ \A k \in RowKeys : Overlay(x, r, cols)[k] = IF k \in cols THEN r[k] ELSE x[k]
  BY <1>4 DEF Overlay, RowKeys
<1>5. crossed \subseteq crossed' /\ \A id : id \notin crossed' => DeskAt(id) = MeantAt(id)
  BY <1>1 DEF HoldsInv
<1> HIDE DEF r
<1>6. \A y \in meant' : DOMAIN y = RowKeys
  BY <1>1, <1>3, <1>4
<1>7. ASSUME NEW id, id # r.id, id \notin crossed'
      PROVE  DeskAt(id)' = MeantAt(id)'
  <2>1. \A y : y \in desk' /\ y.id = id <=> y \in desk /\ y.id = id
    BY <1>1, <1>3, <1>4, <1>7
  <2>2. \A y : y \in meant' /\ y.id = id <=> y \in meant /\ y.id = id
    BY <1>1, <1>3, <1>4, <1>7
  <2>3. DeskAt(id) = MeantAt(id)
    BY <1>5, <1>7
  <2>4. QED
    BY <2>1, <2>2, <2>3 DEF DeskAt, MeantAt
<1>8. ASSUME NEW id, id = r.id, id \notin crossed'
      PROVE  DeskAt(id)' = MeantAt(id)'
  <2>1. PICK x \in desk : CopyOf(q, x)
    BY <1>1, <1>5, <1>8 DEF HoldsInv, CopyInv, r
  <2>2. /\ x.id = id /\ ~q.new
        /\ \A k \in RowKeys \ q.set : r[k] = x[k]
        /\ \A k \in RowKeys : k \in q.diff <=> r[k] # x[k]
    BY <1>1, <1>8, <2>1 DEF CopyOf, r
  <2>3. DeskAt(id) = {x} /\ MeantAt(id) = {x}
    <3>1. DeskAt(id) = {x}
      BY <2>2 DEF DeskInv, OneRow, DeskAt
    <3>2. QED
      BY <1>5, <1>8, <3>1
  <2> DEFINE new == Overlay(x, r, q.diff)
             mean == Overlay(x, r, q.set)
  <2>4. new = mean
    <3>1. \A k \in RowKeys : new[k] = mean[k]
      BY <1>3, <1>4, <1>8, <2>2
    <3>2. QED
      BY <1>3, <2>2, <3>1 DEF Overlay
  <2>5. new.id = id /\ mean.id = id
    BY <1>3, <1>4, <1>8, <2>2
  <2>6. back = {}
    BY <2>2
  <2> HIDE DEF new, mean, back
  <2>7. DeskAt(id)' = {new}
    <3>1. \A y \in desk : y.id = id <=> y = x
      BY <2>2, <2>3 DEF DeskAt
    <3>2. \A y : y \in desk' /\ y.id = id <=> y = new
      BY <1>1, <1>3, <1>4, <1>8, <2>5, <2>6, <3>1 DEF new
    <3>3. QED
      BY <3>2 DEF DeskAt
  <2>8. MeantAt(id)' = {mean}
    <3>1. (\A y \in meant : y.id = id <=> y = x) /\ x \in meant
      BY <2>2, <2>3 DEF MeantAt
    <3>2. \A y : y \in meant' /\ y.id = id <=> y = mean
      BY <1>1, <1>3, <1>4, <1>8, <2>5, <3>1 DEF mean
    <3>3. QED
      BY <3>2 DEF MeantAt
  <2>9. QED
    BY <2>4, <2>7, <2>8
<1>9. ASSUME NEW d \in Clients PROVE CopyInv(req[d])'
  <2>1. CASE d = c
    BY <1>2, <2>1 DEF CopyInv, Idle
  <2>2. ASSUME d # c, req[d].pc \in {"select", "save"}, req[d].row.id \notin crossed'
        PROVE  \E x \in desk' : CopyOf(req[d], x)
    <3>1. PICK x \in desk : CopyOf(req[d], x)
      BY <1>5, <2>2 DEF HoldsInv, CopyInv
    <3>2. x.id # r.id
      BY <1>1, <2>2, <3>1 DEF CopyOf, Holds
    <3>3. x \in desk'
      BY <1>1, <3>2
    <3>4. QED
      BY <3>1, <3>3
  <2>3. QED
    BY <1>2, <2>1, <2>2 DEF CopyInv, CopyOf
<1>10. QED
  BY <1>6, <1>7, <1>8, <1>9 DEF HoldsInv

LEMMA HoldsNext ==
  ASSUME DeskInv, HoldsInv, [DeskNext]_<<deskVars, reqVars>>
  PROVE  HoldsInv'
<1>1. ASSUME NEW c \in Clients, NEW u \in People, NEW t \in Texts,
             \/ CreateNotification(c, u, t) \/ CreateTask(c, u, t) \/ CreateTicket(c, u, t)
             \/ \E v \in People : RateUser(c, u, v, t)
      PROVE  HoldsInv'
  BY <1>1, TableHolds, RateUserHolds
<1>2. ASSUME NEW c \in Clients, NEW u \in People, NEW ids, MarkAsSeen(c, u, ids)
      PROVE  HoldsInv'
  BY <1>2, TableHolds
<1>3. ASSUME NEW c \in Clients, NEW x \in desk,
             \/ DeleteTicket(c, x) \/ RemoveRow(c, x)
             \/ MarkAsCompleted(c, x) \/ CancelTask(c, x)
             \/ \E t \in Texts : UpdateNotification(c, x, t)
             \/ \E s \in States["task"] : UpdateTask(c, x, s)
             \/ \E s \in States["ticket"] : UpdateTicket(c, x, s)
      PROVE  HoldsInv'
  BY <1>3, TableHolds, UpdateHolds
<1>4. ASSUME NEW c \in Clients, InsertRating(c) \/ SelectRow(c) \/ SaveRow(c) \/ DeleteRow(c)
      PROVE  HoldsInv'
  BY <1>4, TableHolds, SelectRowHolds, SaveRowHolds
<1>5. ASSUME NEW c \in Clients, Abort(c), UNCHANGED deskVars
      PROVE  HoldsInv'
  BY <1>5, CopyEnds DEF Abort
<1>6. CASE UNCHANGED <<deskVars, reqVars>>
  BY <1>6 DEF HoldsInv, CopyInv, CopyOf, DeskAt, MeantAt, deskVars, reqVars
<1>7. QED
  BY <1>1, <1>2, <1>3, <1>4, <1>5, <1>6 DEF DeskNext

\* Notifications seen, tasks finished, tickets moved and rows deleted stay so until a
\* handler means to change them, unless a request held an older copy across the change.
THEOREM DeskAlwaysHolds == DeskSpec => []DeskHolds
<1>1. HoldsInv => DeskHolds
  BY DEF HoldsInv, DeskHolds, MeantAt
<1>2. QED
  BY <1>1, DeskInvInit, DeskInvNext, HoldsInit, HoldsNext, PTL DEF DeskSpec

-----------------------------------------------------------------------------
(* Location lookups                                                         *)

\* An entry answers the question of its key, and ends in time.
EntrySound(k) ==
  cache[k] # None =>
    /\ Key(cache[k].answer.question) = k
    /\ cache[k].answer.at \in 0..now
    /\ cache[k].until \in Nat
    /\ cache[k].until <= cache[k].answer.at + Ttl(k[1])

\* An answer that waits to be stored is of this period: time stands still meanwhile.
RequestSound(r) ==
  /\ "pc" \in DOMAIN r
  /\ r.pc \in {"ask", "again", "store"} =>
       "question" \in DOMAIN r /\ r.question \in Questions
  /\ r.pc = "store" => r.answer.at = now /\ Key(r.answer.question) = Key(r.question)

LookupsInv ==
  /\ now \in Nat
  /\ DOMAIN req = Clients /\ DOMAIN cache = Keys
  /\ \A k \in Keys : EntrySound(k)
  /\ \A c \in Clients : RequestSound(req[c])
  /\ ServedFresh

\* The periods an answer is kept
LEMMA TtlNat == \A kind : Ttl(kind) \in Nat
BY LookupsAssumption DEF Ttl

LEMMA LookupsInvInit == LookupsInit /\ RequestsInit => LookupsInv
BY DEF LookupsInit, RequestsInit, Idle, LookupsInv, EntrySound, RequestSound, ServedFresh

\* The steps of a request

\* A request goes on, and nothing else happens.
LEMMA RequestStep ==
  ASSUME LookupsInv, NEW c \in Clients, NEW r, req' = [req EXCEPT ![c] = r],
         UNCHANGED <<now, cache>>, RequestSound(r), ServedFresh'
  PROVE  LookupsInv'
<1>1. /\ DOMAIN req' = Clients
      /\ \A d \in Clients : req'[d] = IF d = c THEN r ELSE req[d]
  BY DEF LookupsInv
<1>2. QED
  BY <1>1 DEF LookupsInv, EntrySound, RequestSound

\* An answer of this period is fresh.
LEMMA ServeNow ==
  ASSUME now \in Nat, NEW q, NEW a, a.at = now, Key(a.question) = Key(q), Serve(q, a)
  PROVE  ServedFresh'
BY DEF Serve, ServedFresh

LEMMA LookupStep ==
  ASSUME LookupsInv, NEW c \in Clients, NEW q \in Questions, Lookup(c, q)
  PROVE  LookupsInv'
<1>1. CASE Cached(Key(q)) /\ Instant /\ Serve(q, cache[Key(q)].answer)
           /\ UNCHANGED <<now, cache>>
  <2> DEFINE e == cache[Key(q)]
  <2>1. Key(q) \in Keys /\ Key(q)[1] = q.kind
    BY DEF Keys, Key
  <2>2. /\ Key(e.answer.question) = Key(q)
        /\ e.answer.at \in 0..now /\ e.until \in Nat
        /\ e.until <= e.answer.at + Ttl(q.kind)
        /\ now < e.until /\ now \in Nat
    BY <1>1, <2>1 DEF LookupsInv, EntrySound, Cached
  <2>3. now - e.answer.at < Ttl(q.kind)
    BY <2>2, TtlNat
  <2>4. ServedFresh'
    BY <1>1, <2>2, <2>3 DEF Serve, ServedFresh
  <2>5. QED
    BY <1>1, <2>4 DEF LookupsInv, EntrySound, RequestSound, Instant
<1>2. CASE /\ req' = [req EXCEPT ![c] = [pc |-> "ask", question |-> q]]
           /\ UNCHANGED <<now, cache, served>>
  <2>1. RequestSound([pc |-> "ask", question |-> q])
    BY DEF RequestSound
  <2>2. QED
    BY <1>2, <2>1, RequestStep DEF LookupsInv, ServedFresh
<1>3. QED
  BY <1>1, <1>2 DEF Lookup

\* Every provider answers the question it is asked, now.
LEMMA AnswersNow ==
  ASSUME NEW q \in Questions, NEW a \in Answers(q)
  PROVE  a.at = now /\ a.question = q
<1>1. q.kind \in Kinds
  BY DEF Questions
<1>2. \E found \in BOOLEAN : a = Answer(q, found)
  BY <1>1 DEF Kinds, Answers, PerformLocationSearch, PerformPlaceDetailsLookup,
     PerformReverseGeocode, PerformDistanceCalculation
<1>3. QED
  BY <1>2 DEF Answer

LEMMA ProviderAnswersStep ==
  ASSUME LookupsInv, NEW c \in Clients, ProviderAnswers(c)
  PROVE  LookupsInv'
<1> DEFINE q == req[c].question
<1>1. q \in Questions /\ UNCHANGED <<now, cache>> /\ now \in Nat
  BY DEF LookupsInv, ProviderAnswers, RequestSound
<1>2. PICK a \in Answers(q) :
        IF req[c].pc = "ask"
        THEN Become(c, [pc |-> "store", question |-> q, answer |-> a]) /\ UNCHANGED served
        ELSE Finish(c) /\ Serve(q, a)
  BY DEF ProviderAnswers
<1>3. a.at = now /\ a.question = q
  BY <1>1, <1>2, AnswersNow
<1>4. CASE req[c].pc = "ask"
  <2> DEFINE r == [pc |-> "store", question |-> q, answer |-> a]
  <2>1. RequestSound(r)
    BY <1>1, <1>3 DEF RequestSound
  <2>2. ServedFresh'
    BY <1>2, <1>4 DEF LookupsInv, ServedFresh
  <2>3. QED
    BY <1>1, <1>2, <1>4, <2>1, <2>2, RequestStep DEF Become
<1>5. CASE req[c].pc # "ask"
  <2>1. RequestSound(Idle)
    BY DEF RequestSound, Idle
  <2>2. ServedFresh'
    BY <1>1, <1>2, <1>3, <1>5, ServeNow
  <2>3. QED
    BY <1>1, <1>2, <1>5, <2>1, <2>2, RequestStep DEF Finish, Become
<1>6. QED
  BY <1>4, <1>5

LEMMA ProviderFailsStep ==
  ASSUME LookupsInv, NEW c \in Clients, ProviderFails(c)
  PROVE  LookupsInv'
<1>1. UNCHANGED <<now, cache>> /\ ServedFresh' /\ RequestSound(req[c])
  BY DEF LookupsInv, ProviderFails, lookupVars, ServedFresh
<1>2. RequestSound(Idle)
  BY DEF RequestSound, Idle
<1>3. CASE req[c].pc = "ask"
  <2>1. RequestSound([req[c] EXCEPT !.pc = "again"])
    BY <1>1, <1>3 DEF RequestSound
  <2>2. QED
    BY <1>1, <1>3, <2>1, RequestStep DEF ProviderFails, Goto, Become
<1>4. QED
  BY <1>1, <1>2, <1>3, RequestStep DEF ProviderFails, Finish, Become

\* The entry is stored in the period of its answer, so it ends in time.
LEMMA StoreAnswerStep ==
  ASSUME LookupsInv, NEW c \in Clients, NEW kept \in BOOLEAN, StoreAnswer(c, kept)
  PROVE  LookupsInv'
<1> DEFINE q == req[c].question
           a == req[c].answer
<1>1. /\ q \in Questions /\ a.at = now /\ Key(a.question) = Key(q)
      /\ now \in Nat /\ now' = now
      /\ Serve(q, a)
      /\ req' = [req EXCEPT ![c] = Idle]
      /\ cache' = IF kept THEN [cache EXCEPT ![Key(q)] = Entry(a, Ttl(q.kind))] ELSE cache
  BY DEF LookupsInv, StoreAnswer, RequestSound, Finish, Become
<1>2. /\ DOMAIN req' = Clients
      /\ \A d \in Clients : req'[d] = IF d = c THEN Idle ELSE req[d]
      /\ DOMAIN cache' = Keys
  BY <1>1 DEF LookupsInv
<1>3. ServedFresh'
  BY <1>1, ServeNow
<1>4. ASSUME NEW k \in Keys PROVE EntrySound(k)'
  <2>1. CASE kept /\ k = Key(q)
    <3>1. cache'[k] = Entry(a, Ttl(q.kind)) /\ k[1] = q.kind
      BY <1>1, <2>1 DEF LookupsInv, Key
    <3>2. QED
      BY <1>1, <2>1, <3>1, TtlNat DEF EntrySound, Entry
  <2>2. CASE ~(kept /\ k = Key(q))
    <3>1. cache'[k] = cache[k]
      BY <1>1, <2>2 DEF LookupsInv
    <3>2. QED
      BY <1>1, <3>1 DEF LookupsInv, EntrySound
  <2>3. QED
    BY <2>1, <2>2
<1>5. \A d \in Clients : RequestSound(req[d])'
  BY <1>1, <1>2 DEF LookupsInv, RequestSound, Idle
<1>6. QED
  BY <1>1, <1>2, <1>3, <1>4, <1>5 DEF LookupsInv

\* The steps of the world

LEMMA WorldStep ==
  ASSUME LookupsInv, PeriodPasses \/ ProcessDies \/ \E k \in Keys : Evict(k)
  PROVE  LookupsInv'
<1>1. CASE PeriodPasses
  BY <1>1 DEF LookupsInv, PeriodPasses, Quiescent, Idle, EntrySound, RequestSound, ServedFresh,
     reqVars
<1>2. CASE ProcessDies
  BY <1>2 DEF LookupsInv, ProcessDies, Idle, EntrySound, RequestSound, ServedFresh
<1>3. ASSUME NEW k \in Keys, Evict(k) PROVE LookupsInv'
  BY <1>3 DEF LookupsInv, Evict, EntrySound, RequestSound, ServedFresh, reqVars
<1>4. QED
  BY <1>1, <1>2, <1>3

LEMMA LookupsInvNext == LookupsInv /\ [LookupsNext]_<<lookupVars, reqVars>> => LookupsInv'
<1> SUFFICES ASSUME LookupsInv, [LookupsNext]_<<lookupVars, reqVars>> PROVE LookupsInv'
  OBVIOUS
<1>1. ASSUME NEW c \in Clients, NEW p \in Places,
             \/ SearchLocation(c, p)  \/ GetPlaceDetails(c, p)
             \/ ReverseGeocode(c, p) \/ CalculateDistance(c, p)
      PROVE  LookupsInv'
  <2>1. \E kind \in Kinds : Lookup(c, [kind |-> kind, place |-> p])
    BY <1>1 DEF SearchLocation, GetPlaceDetails, ReverseGeocode, CalculateDistance, Kinds
  <2>2. \A kind \in Kinds : [kind |-> kind, place |-> p] \in Questions
    BY DEF Questions
  <2>3. QED
    BY <2>1, <2>2, LookupStep
<1>2. ASSUME NEW c \in Clients, ProviderAnswers(c) \/ ProviderFails(c) PROVE LookupsInv'
  BY <1>2, ProviderAnswersStep, ProviderFailsStep
<1>3. ASSUME NEW c \in Clients, NEW kept \in BOOLEAN, StoreAnswer(c, kept) PROVE LookupsInv'
  BY <1>3, StoreAnswerStep
<1>4. CASE UNCHANGED <<lookupVars, reqVars>>
  BY <1>4 DEF LookupsInv, EntrySound, RequestSound, ServedFresh, lookupVars, reqVars
<1>5. QED
  BY <1>1, <1>2, <1>3, <1>4, WorldStep DEF LookupsNext

\* CacheService.wrap as LocationService uses it: what is served answers the question,
\* and is not older than its kind allows.
THEOREM AnswersStayFresh == LookupsSpec => []ServedFresh
<1>1. LookupsInv => ServedFresh
  BY DEF LookupsInv
<1>2. QED
  BY <1>1, LookupsInvInit, LookupsInvNext, PTL DEF LookupsSpec

-----------------------------------------------------------------------------
(* Charges: rounding                                                        *)

\* Fixed yields whole cents, and leaves them alone.
LEMMA FixedCents ==
  ASSUME NEW x \in Nat
  PROVE  /\ Fixed(x) \in Nat
         /\ Fixed(x) % 100 = 0
<1>1. CASE x % 100 = 50 /\ x \in TiesDown
  BY <1>1 DEF Fixed
<1>2. CASE ~(x % 100 = 50 /\ x \in TiesDown)
  BY <1>2 DEF Fixed
<1>3. QED
  BY <1>1, <1>2

LEMMA FixedIdempotent ==
  ASSUME NEW x \in Nat, x % 100 = 0
  PROVE  Fixed(x) = x
BY DEF Fixed

\* A sum of amounts is in whole cents.
LEMMA AddCents ==
  ASSUME NEW a \in Nat, NEW b \in Nat
  PROVE  /\ Add(a, b) \in Nat
         /\ Add(a, b) % 100 = 0
<1>1. /\ Fixed(a) \in Nat /\ Fixed(a) % 100 = 0
      /\ Fixed(b) \in Nat /\ Fixed(b) % 100 = 0
  BY FixedCents
<1>2. QED
  BY <1>1 DEF Add

LEMMA MultiplyNat ==
  ASSUME NEW a \in Nat, NEW b \in Nat
  PROVE  Multiply(a, b) \in Nat
<1>1. Fixed(a) \div 100 \in Nat /\ Fixed(b) \div 100 \in Nat
  BY FixedCents
<1>2. \A x, y \in Nat : x * y \in Nat
  OBVIOUS
<1>3. QED
  BY <1>1, <1>2 DEF Multiply

\* The columns of an order: NumberUtil rounds what it adds, the transformer rounds every
\* column on its own, and still the total is the fee plus the service charge, whatever
\* the fee and the rate are.
THEOREM PartsAddUp ==
  ASSUME NEW fee \in Nat
  PROVE  Fixed(Charge(fee).total) = Fixed(Charge(fee).fee) + Fixed(Charge(fee).service)
<1>1. /\ Charge(fee).total = Add(Multiply(fee, Percent), fee)
      /\ Charge(fee).fee = fee
      /\ Charge(fee).service = Multiply(fee, Percent)
  BY DEF Charge
<1>0. Multiply(fee, Percent) \in Nat
  BY MultiplyNat, PricingAssumption
<1>2. Fixed(Charge(fee).total) = Charge(fee).total
  BY <1>0, <1>1, AddCents, FixedIdempotent
<1>3. Charge(fee).total = Fixed(Multiply(fee, Percent)) + Fixed(fee)
  BY <1>1 DEF Add
<1>4. QED
  BY <1>0, <1>1, <1>2, <1>3, FixedCents

-----------------------------------------------------------------------------
(* Sums of amounts                                                          *)

Cents(x) == x \in Nat /\ x % 100 = 0

\* A sum of whole cents is in whole cents.
LEMMA SumsCents ==
  ASSUME NEW S, IsFiniteSet(S), NEW g, \A x \in S : Cents(g[x]), NEW h, Sums(h, g, S)
  PROVE  \A s \in SUBSET S : Cents(h[s])
<1> DEFINE T == {s \in SUBSET S : ~Cents(h[s])}
<1>1. \A s \in SUBSET S : h[s] = IF s = {} THEN 0 ELSE g[Chosen(s)] + h[s \ {Chosen(s)}]
  BY DEF Sums
<1>2. ASSUME T # {} PROVE FALSE
  <2>1. T \subseteq SUBSET S
    OBVIOUS
  <2> HIDE DEF T
  <2>2. PICK t \in T : \A u \in T : u \subseteq t => u = t
    BY <1>2, <2>1, Smallest
  <2>3. t \subseteq S /\ ~Cents(h[t])
    BY <2>2 DEF T
  <2>0. Cents(0)
    BY DEF Cents
  <2>4. t # {} /\ Chosen(t) \in t
    BY <1>1, <2>0, <2>3, ChosenIn
  <2>5. Cents(h[t \ {Chosen(t)}])
    BY <2>2, <2>3, <2>4 DEF T
  <2>6. h[t] = g[Chosen(t)] + h[t \ {Chosen(t)}] /\ Cents(g[Chosen(t)])
    BY <1>1, <2>3, <2>4
  <2>7. QED
    BY <2>3, <2>5, <2>6 DEF Cents
<1>3. QED
  BY <1>2

\* h adds f up with NumberUtil.add over every part of S.
AddSums(h, f, S) ==
  h = [s \in SUBSET S |-> IF s = {} THEN 0 ELSE Add(f[Chosen(s)], h[s \ {Chosen(s)}])]

LEMMA AddSumsUnique ==
  ASSUME NEW S, IsFiniteSet(S), NEW f, NEW g, NEW h, AddSums(g, f, S), AddSums(h, f, S)
  PROVE  g = h
<1> DEFINE T == {s \in SUBSET S : g[s] # h[s]}
<1>1. /\ \A s \in SUBSET S : g[s] = IF s = {} THEN 0 ELSE Add(f[Chosen(s)], g[s \ {Chosen(s)}])
      /\ \A s \in SUBSET S : h[s] = IF s = {} THEN 0 ELSE Add(f[Chosen(s)], h[s \ {Chosen(s)}])
  BY DEF AddSums
<1>2. ASSUME T # {} PROVE FALSE
  <2>1. T \subseteq SUBSET S
    OBVIOUS
  <2> HIDE DEF T
  <2>2. PICK t \in T : \A u \in T : u \subseteq t => u = t
    BY <1>2, <2>1, Smallest
  <2>3. t \subseteq S /\ g[t] # h[t]
    BY <2>2 DEF T
  <2>4. t # {} /\ Chosen(t) \in t
    BY <1>1, <2>3, ChosenIn
  <2>5. g[t \ {Chosen(t)}] = h[t \ {Chosen(t)}]
    BY <2>2, <2>3, <2>4 DEF T
  <2>6. QED
    BY <1>1, <2>3, <2>4, <2>5
<1>3. \A s \in SUBSET S : g[s] = h[s]
  BY <1>2
<1>4. QED
  BY <1>3 DEF AddSums

\* Adding up with NumberUtil.add is adding up what is rounded first.
LEMMA SumsAreAddSums ==
  ASSUME NEW S, IsFiniteSet(S), NEW f, \A x \in S : f[x] \in Nat,
         NEW h, Sums(h, [x \in S |-> Fixed(f[x])], S)
  PROVE  AddSums(h, f, S) /\ \A s \in SUBSET S : Cents(h[s])
<1> DEFINE g == [x \in S |-> Fixed(f[x])]
<1>1. \A x \in S : Cents(g[x]) /\ g[x] = Fixed(f[x])
  BY FixedCents DEF Cents
<1>2. Sums(h, g, S)
  OBVIOUS
<1> HIDE DEF g
<1>3. \A s \in SUBSET S : Cents(h[s])
  BY <1>1, <1>2, SumsCents
<1>4. ASSUME NEW s \in SUBSET S, s # {}
      PROVE  g[Chosen(s)] + h[s \ {Chosen(s)}] = Add(f[Chosen(s)], h[s \ {Chosen(s)}])
  <2>1. Cents(h[s \ {Chosen(s)}])
    BY <1>3
  <2>2. Fixed(h[s \ {Chosen(s)}]) = h[s \ {Chosen(s)}]
    BY <2>1, FixedIdempotent DEF Cents
  <2>3. g[Chosen(s)] = Fixed(f[Chosen(s)])
    BY <1>1, <1>4, ChosenIn
  <2>4. QED
    BY <2>2, <2>3 DEF Add
<1>5. h = [s \in SUBSET S |-> IF s = {} THEN 0 ELSE g[Chosen(s)] + h[s \ {Chosen(s)}]]
  BY <1>2 DEF Sums
<1>6. [s \in SUBSET S |-> IF s = {} THEN 0 ELSE g[Chosen(s)] + h[s \ {Chosen(s)}]]
      = [s \in SUBSET S |-> IF s = {} THEN 0 ELSE Add(f[Chosen(s)], h[s \ {Chosen(s)}])]
  BY <1>4
<1>7. AddSums(h, f, S)
  BY <1>5, <1>6, Zenon DEF AddSums
<1>8. QED
  BY <1>3, <1>7

\* The folds of calculateMultipleDeliveryFee and of the property
LEMMA FoldAdd ==
  ASSUME NEW f
  PROVE  FoldFunction(Add, 0, f) = (CHOOSE h : AddSums(h, f, DOMAIN f))[DOMAIN f]
<1>1. FoldFunction(Add, 0, f) =
        (CHOOSE h : h = [s \in SUBSET DOMAIN f |->
           IF s = {} THEN 0 ELSE Add(f[CHOOSE x \in s : TRUE], h[s \ {CHOOSE x \in s : TRUE}])])[DOMAIN f]
  BY DEF FoldFunction, FoldFunctionOnSet, MapThenFoldSet, SumFunction, SumFunctionOnSet
<1>2. QED
  BY <1>1, Zenon DEF AddSums, Chosen

LEMMA FoldPlus ==
  ASSUME NEW f
  PROVE  SumFunction(f) = (CHOOSE h : Sums(h, f, DOMAIN f))[DOMAIN f]
<1>1. SumFunction(f) =
        (CHOOSE h : h = [s \in SUBSET DOMAIN f |->
           IF s = {} THEN 0 ELSE f[CHOOSE x \in s : TRUE] + h[s \ {CHOOSE x \in s : TRUE}]])[DOMAIN f]
  BY DEF FoldFunction, FoldFunctionOnSet, MapThenFoldSet, SumFunction, SumFunctionOnSet
<1>2. QED
  BY <1>1, Zenon DEF Sums, Chosen

LEMMA FoldsAgree ==
  ASSUME NEW S, IsFiniteSet(S), NEW f, DOMAIN f = S, \A x \in S : f[x] \in Nat
  PROVE  /\ FoldFunction(Add, 0, f) = SumFunction([x \in S |-> Fixed(f[x])])
         /\ Cents(FoldFunction(Add, 0, f))
<1> DEFINE g == [x \in S |-> Fixed(f[x])]
           h == CHOOSE k : Sums(k, g, S)
<1>1. Sums(h, g, S)
  BY SumsExist
<1>2. SumFunction(g) = h[S]
  <2>1. DOMAIN g = S
    OBVIOUS
  <2> HIDE DEF g
  <2>2. QED
    BY <2>1, FoldPlus
<1> HIDE DEF h
<1>3. AddSums(h, f, S) /\ Cents(h[S])
  BY <1>1, SumsAreAddSums
<1>4. (CHOOSE k : AddSums(k, f, S)) = h
  BY <1>3, AddSumsUnique
<1>5. QED
  BY <1>2, <1>3, <1>4, FoldAdd

-----------------------------------------------------------------------------
(* Orders and quotes                                                        *)

\* What quotes and orders are made of
ChargeInv ==
  /\ quote # None =>
       /\ quote.trip \in Trips /\ DOMAIN quote.trip = {1}
       /\ quote.total = DeliveryFee(quote.trip[1], quote.urgent).total
  /\ order # None =>
       /\ order.trip \in Trips
       /\ order.legs = [i \in DOMAIN order.trip |-> Fixed(LegFees(order.trip)[i])]
       /\ LET charge == MultipleDeliveryFee(order.trip, order.urgent) IN
            /\ order.fee = Fixed(charge.fee)
            /\ order.service = Fixed(charge.service)
            /\ order.total = Fixed(charge.total)

LEMMA ChargeInvInit == PricingInit => ChargeInv
BY DEF PricingInit, ChargeInv

LEMMA ChargeInvNext == ChargeInv /\ [PricingNext]_<<pricingVars, reqVars>> => ChargeInv'
<1> SUFFICES ASSUME ChargeInv, [PricingNext]_<<pricingVars, reqVars>> PROVE ChargeInv'
  OBVIOUS
<1>1. ASSUME NEW trip \in Trips, NEW urgent \in BOOLEAN, Quote(trip, urgent) PROVE ChargeInv'
  BY <1>1 DEF Quote, ChargeInv
<1>2. ASSUME NEW trip \in Trips, NEW urgent \in BOOLEAN, PlaceOrder(trip, urgent)
      PROVE  ChargeInv'
  <2>1. /\ quote' = quote
        /\ order'.trip = trip /\ order'.urgent = urgent
        /\ order'.legs = [i \in DOMAIN trip |-> Fixed(LegFees(trip)[i])]
        /\ order'.fee = Fixed(MultipleDeliveryFee(trip, urgent).fee)
        /\ order'.service = Fixed(MultipleDeliveryFee(trip, urgent).service)
        /\ order'.total = Fixed(MultipleDeliveryFee(trip, urgent).total)
    BY <1>2 DEF PlaceOrder
  <2>2. QED
    BY <2>1 DEF ChargeInv
<1>3. CASE UNCHANGED <<quote, order>>
  BY <1>3 DEF ChargeInv
<1>4. QED
  BY <1>1, <1>2, <1>3 DEF PricingNext, PickUp, pricingVars

\* The fee of several destinations, before and after the urgency fee
LEMMA LegsAddUp ==
  ASSUME NEW trip \in Trips
  PROVE  LET legs == [i \in DOMAIN trip |-> Fixed(LegFees(trip)[i])]
             sum == FoldFunction(Add, 0, LegFees(trip))
         IN  Cents(sum) /\ sum = SumFunction(legs)
<1>1. IsFiniteSet(DOMAIN trip) /\ \A i \in DOMAIN trip : trip[i] \in Nat
  BY PricingAssumption
<1>2. /\ DOMAIN LegFees(trip) = DOMAIN trip
      /\ \A i \in DOMAIN trip : LegFees(trip)[i] \in Nat
  BY <1>1, MultiplyNat, PricingAssumption DEF LegFees
<1>3. QED
  BY <1>1, <1>2, FoldsAgree

LEMMA UrgentCents ==
  ASSUME NEW fee \in Nat, NEW urgent
  PROVE  /\ Urgent(fee, urgent) \in Nat
         /\ Fixed(Urgent(fee, urgent)) = Fixed(fee) + IF urgent THEN Fixed(UrgencyFee) ELSE 0
<1>1. UrgencyFee \in Nat /\ Fixed(fee) \in Nat
  BY PricingAssumption, FixedCents
<1>2. CASE urgent
  <2>1. Urgent(fee, urgent) = Add(fee, UrgencyFee)
    BY <1>2 DEF Urgent
  <2>2. Add(fee, UrgencyFee) \in Nat /\ Add(fee, UrgencyFee) % 100 = 0
    BY <1>1, AddCents
  <2>3. Fixed(Add(fee, UrgencyFee)) = Fixed(fee) + Fixed(UrgencyFee)
    BY <2>2, FixedIdempotent DEF Add
  <2>4. QED
    BY <1>2, <2>1, <2>2, <2>3
<1>3. CASE ~urgent
  BY <1>1, <1>3 DEF Urgent
<1>4. QED
  BY <1>2, <1>3

\* The charge depends on the fee in whole cents only.
LEMMA ChargeOfCents ==
  ASSUME NEW fee \in Nat, NEW x \in Nat, Fixed(fee) = Fixed(x)
  PROVE  Charge(fee).total = Charge(x).total
BY DEF Charge, Multiply, Add

LEMMA ChargeCents ==
  ASSUME NEW fee \in Nat
  PROVE  Fixed(Charge(fee).total) = Charge(fee).total
<1>1. Charge(fee).total = Add(Multiply(fee, Percent), fee) /\ Multiply(fee, Percent) \in Nat
  BY MultiplyNat, PricingAssumption DEF Charge
<1>2. QED
  BY <1>1, AddCents, FixedIdempotent

\* One destination
LEMMA FoldOne ==
  ASSUME NEW f, DOMAIN f = {1}, f[1] \in Nat
  PROVE  FoldFunction(Add, 0, f) = Fixed(f[1])
<1> DEFINE g == [x \in {1} |-> Fixed(f[x])]
           h == CHOOSE k : Sums(k, g, {1})
<1>1. IsFiniteSet({1})
  BY FS_Singleton
<1>2. Sums(h, g, {1})
  BY <1>1, SumsExist
<1> HIDE DEF h
<1>3. AddSums(h, f, {1})
  BY <1>1, <1>2, SumsAreAddSums
<1>4. (CHOOSE k : AddSums(k, f, {1})) = h
  BY <1>1, <1>3, AddSumsUnique
<1>5. FoldFunction(Add, 0, f) = h[{1}]
  BY <1>4, FoldAdd
<1>6. h = [s \in SUBSET {1} |-> IF s = {} THEN 0 ELSE g[Chosen(s)] + h[s \ {Chosen(s)}]]
  BY <1>2 DEF Sums
<1>7. Chosen({1}) = 1
  BY ChosenIn
<1>8. h[{}] = 0 /\ h[{1}] = g[1] + h[{1} \ {1}] /\ {1} \ {1} = {}
  BY <1>6, <1>7
<1>9. g[1] = Fixed(f[1]) /\ Fixed(f[1]) \in Nat
  BY FixedCents
<1>10. QED
  BY <1>5, <1>8, <1>9

LEMMA ChargesAddUp == ASSUME ChargeInv PROVE ChargeAddsUp
<1> SUFFICES ASSUME order # None PROVE ChargeAddsUp
  BY DEF ChargeAddsUp
<1> DEFINE trip == order.trip
           sum == FoldFunction(Add, 0, LegFees(trip))
           fee == Urgent(sum, order.urgent)
<1>1. /\ trip \in Trips /\ Cents(sum) /\ sum = SumFunction(order.legs)
      /\ order.fee = Fixed(Charge(fee).fee) /\ order.service = Fixed(Charge(fee).service)
      /\ order.total = Fixed(Charge(fee).total)
  BY LegsAddUp DEF ChargeInv, MultipleDeliveryFee
<1>2. sum \in Nat /\ Fixed(sum) = sum
  BY <1>1, FixedIdempotent DEF Cents
<1>3. /\ fee \in Nat
      /\ Fixed(fee) = sum + IF order.urgent THEN Fixed(UrgencyFee) ELSE 0
  BY <1>2, UrgentCents
<1>4. order.total = order.fee + order.service
  BY <1>1, <1>3, PartsAddUp
<1>5. order.fee = sum + IF order.urgent THEN Fixed(UrgencyFee) ELSE 0
  BY <1>1, <1>3 DEF Charge
<1>8. order.fee = SumFunction(order.legs)
                  + IF order.urgent THEN Fixed(UrgencyFee) ELSE 0
  BY <1>1, <1>5, Zenon
<1>6. ASSUME quote # None, quote.trip = trip, quote.urgent = order.urgent,
             trip[1] <= 50000 \/ VanRate = BikeRate
      PROVE  quote.total = order.total
  <2> DEFINE leg == Multiply(trip[1], BikeRate)
             quoted == Urgent(leg, order.urgent)
  <2>0. quote.trip \in Trips /\ DOMAIN quote.trip = {1}
        /\ quote.total = DeliveryFee(quote.trip[1], quote.urgent).total
    BY <1>6 DEF ChargeInv
  <2>1. trip[1] \in Nat /\ DOMAIN trip = {1}
    BY <1>6, <2>0, PricingAssumption
  <2>2. leg \in Nat
    BY <2>1, MultiplyNat, PricingAssumption
  <2>3. quote.total = Charge(quoted).total
    BY <1>6, <2>0, <2>1 DEF DeliveryFee
  <2>4. sum = Fixed(leg)
    <3>1. DOMAIN LegFees(trip) = {1} /\ LegFees(trip)[1] = leg
      BY <2>1 DEF LegFees
    <3>2. QED
      BY <2>2, <3>1, FoldOne
  <2>5. quoted \in Nat /\ Fixed(quoted) = Fixed(fee)
    BY <1>3, <2>2, <2>4, UrgentCents
  <2>6. Charge(quoted).total = Charge(fee).total
    BY <1>3, <2>5, ChargeOfCents
  <2>7. Fixed(Charge(fee).total) = Charge(fee).total
    BY <1>3, ChargeCents
  <2>8. QED
    BY <1>1, <2>3, <2>6, <2>7
<1>7. QED
  BY <1>4, <1>6, <1>8 DEF ChargeAddsUp

\* CalculateDeliveryChargesUsecase and the columns of an order: the fees of any number
\* of destinations, the urgency fee and the service charge add up to what is paid, and a
\* quote for one destination is what its order costs.
THEOREM OrdersAddUp == PricingSpec => []ChargeAddsUp
<1>1. QED
  BY ChargesAddUp, ChargeInvInit, ChargeInvNext, PTL DEF PricingSpec

-----------------------------------------------------------------------------
(* Pick-up locations                                                        *)

\* The branches of normalizePickupLocation, for any two integers
LEMMA Normalized ==
  ASSUME NEW a \in Int, NEW b \in Int
  PROVE  NormalizePickupLocation(a, b) =
           IF IsLon(a) /\ IsLat(b) THEN <<a, b>>
           ELSE IF IsLon(b) /\ IsLat(a) THEN <<b, a>> ELSE None
<1>1. NotFinite \notin {a, b}
  BY PricingAssumption
<1>2. (IsLat(a) => IsLon(a)) /\ (IsLat(b) => IsLon(b))
  BY DEF IsLat, IsLon
<1>3. CASE IsLat(a)
  BY <1>1, <1>2, <1>3, Zenon DEF NormalizePickupLocation, Located
<1>4. CASE ~IsLat(a)
  BY <1>1, <1>2, <1>4, Zenon DEF NormalizePickupLocation, Located
<1>5. QED
  BY <1>3, <1>4

LEMMA PickupNext ==
  PickupNormalized /\ [PricingNext]_<<pricingVars, reqVars>> => PickupNormalized'
<1> SUFFICES ASSUME PickupNormalized, [PricingNext]_<<pricingVars, reqVars>>
             PROVE  PickupNormalized'
  OBVIOUS
<1>1. ASSUME NEW a \in Degrees \cup {NotFinite}, NEW b \in Degrees \cup {NotFinite},
             PickUp(a, b)
      PROVE  PickupNormalized'
  <2>1. pickup' = [given |-> <<a, b>>, used |-> NormalizePickupLocation(a, b)]
    BY <1>1 DEF PickUp
  <2>2. CASE NotFinite \in {a, b}
    BY <2>1, <2>2 DEF PickupNormalized
  <2>3. CASE NotFinite \notin {a, b}
    <3>1. a \in Int /\ b \in Int
      BY <2>3, PricingAssumption
    <3>2. QED
      BY <2>1, <3>1, Normalized DEF PickupNormalized
  <2>4. QED
    BY <2>2, <2>3
<1>2. ASSUME UNCHANGED pickup
      PROVE  PickupNormalized'
  BY <1>2, Zenon DEF PickupNormalized
<1>3. QED
  BY <1>1, <1>2 DEF PricingNext, Quote, PlaceOrder, pricingVars

LEMMA PickupInit == PricingInit => PickupNormalized
BY DEF PricingInit, PickupNormalized

\* A location is used as given, swapped, or refused, for any set of coordinates.
THEOREM PickupInterpreted == PricingSpec => []PickupNormalized
BY PickupInit, PickupNext, PTL DEF PricingSpec

-----------------------------------------------------------------------------
(* Rider selection                                                          *)

\* The riders with room for another order, as a search has seen them
BelowIn(seen, q) ==
  {r \in Drivers \ q.declined : /\ seen[r].available
                                /\ q.near => seen[r].place \in 0..Radius
                                /\ seen[r].load < MaxOrders}

\* The answer is in the set, and the best of it as far as one page holds it.
BestOf(rider, set) == rider \in set /\ (Cardinality(set) <= Limit => rider \in Choose(answer, set))

SelectionInv ==
  /\ DOMAIN req = Clients
  /\ \A c \in Clients : req[c] = Idle \/ req[c].pc = "busy"
  /\ \A c, d \in Clients : req[c] # Idle /\ req[d] # Idle => c = d
  /\ \A c \in Clients : req[c].pc = "busy" => BelowIn(req[c].seen, req[c].query) = {}
  /\ answer # None => Quiescent
  /\ SelectsBestRider

LEMMA SelectionInvInit == SelectionInit /\ RequestsInit => SelectionInv
BY DEF SelectionInit, RequestsInit, Idle, SelectionInv, SelectsBestRider

\* A page holds rows of what was found, and all of them if they are not too many.
LEMMA PageOfFound ==
  ASSUME NEW found, NEW page \in Page(found)
  PROVE  page \subseteq found /\ (Cardinality(found) <= Limit => page = found)
BY DEF Page, kSubset

\* The choice from a page is the best of what was found.
LEMMA ChosenIsBest ==
  ASSUME NEW q, NEW found, NEW page \in Page(found), NEW r \in Choose(q, page), NEW changed,
         Reply(q, r, changed)
  PROVE  BestOf(r, found)'
<1>1. page \subseteq found /\ (Cardinality(found) <= Limit => page = found)
  BY PageOfFound
<1>2. \A set : Choose(answer, set)' = Choose(q, set)
  BY DEF Reply, Choose, Closest
<1>3. r \in page
  BY DEF Choose, Closest
<1>4. QED
  BY <1>1, <1>2, <1>3 DEF BestOf

\* Either query's best rider is what dispatch relies on.
LEMMA AnswerKeeps ==
  ASSUME \/ BestOf(answer.rider, pool.free)'
         \/ (pool'.free = {} \/ answer'.changed) /\ BestOf(answer.rider, pool.busy)'
  PROVE  SelectsBestRider'
BY DEF SelectsBestRider, BestOf

LEMMA SearchStep ==
  ASSUME SelectionInv, NEW c \in Clients, NEW q, Search(c, q)
  PROVE  SelectionInv'
<1>1. answer = None /\ Quiescent
  BY DEF Search
<1>2. CASE Below(q) = {}
  <2> DEFINE r == [pc |-> "busy", query |-> q, seen |-> drivers]
  <2>1. req' = [req EXCEPT ![c] = r] /\ UNCHANGED selectionVars
    BY <1>2 DEF Search, Arrive
  <2>2. BelowIn(drivers, q) = {}
    BY <1>2 DEF BelowIn, Below, Suitable, InBox
  <2>3. r.pc = "busy" /\ r.query = q /\ r.seen = drivers
    OBVIOUS
  <2> HIDE DEF r
  <2>4. \A d \in Clients : req'[d] = IF d = c THEN r ELSE Idle
    BY <1>1, <2>1 DEF SelectionInv, Quiescent
  <2>5. DOMAIN req' = Clients /\ answer' = None /\ SelectsBestRider'
    BY <1>1, <2>1 DEF SelectionInv, selectionVars, SelectsBestRider
  <2>6. Idle.pc # "busy"
    BY DEF Idle
  <2>7. \A d \in Clients : req'[d].pc = "busy" => BelowIn(req'[d].seen, req'[d].query) = {}
    BY <2>2, <2>3, <2>4, <2>6
  <2>8. QED
    BY <2>3, <2>4, <2>5, <2>7 DEF SelectionInv, BelowIn
<1>3. CASE Below(q) # {}
  <2>0. PICK page \in Page(Below(q)) : \E r \in Choose(q, page) : Reply(q, r, FALSE)
    BY <1>3 DEF Search
  <2>1. PICK r \in Choose(q, page) : Reply(q, r, FALSE)
    BY <2>0
  <2>2. BestOf(r, Below(q))'
    <3>1. \A found : page \in Page(found) => BestOf(r, found)'
      BY <2>1, ChosenIsBest
    <3>2. Below(q)' = Below(q)
      BY <2>1 DEF Reply, Below, Suitable, InBox
    <3>3. QED
      BY <2>1, <3>1, <3>2 DEF BestOf
  <2>3. answer'.rider = r /\ pool'.free = Below(q)
    BY <2>1 DEF Reply
  <2>4. SelectsBestRider'
    <3>1. Below(q)' = Below(q)
      BY <2>1 DEF Reply, Below, Suitable, InBox
    <3>2. BestOf(answer.rider, pool.free)'
      BY <2>2, <2>3, <3>1 DEF BestOf
    <3>3. QED
      BY <3>2, AnswerKeeps
  <2>5. req' = req
    BY <1>3 DEF Search, Instant
  <2>6. QED
    BY <1>1, <2>4, <2>5 DEF SelectionInv, Quiescent, BelowIn, Idle
<1>4. QED
  BY <1>2, <1>3

LEMMA SearchBusyStep ==
  ASSUME SelectionInv, NEW c \in Clients, SearchBusy(c)
  PROVE  SelectionInv'
<1> SUFFICES ASSUME NEW q, q = req[c].query, NEW changed, changed = (drivers # req[c].seen)
             PROVE  SelectionInv'
  OBVIOUS
<1>1. req[c].pc = "busy" /\ req' = [req EXCEPT ![c] = Idle]
  BY DEF SearchBusy, Finish, Become
<1>2. \A d \in Clients : req'[d] = Idle
  BY <1>1 DEF SelectionInv, Idle
<1>3. Below(q) = {} \/ changed
  BY <1>1 DEF SelectionInv, BelowIn, Below, Suitable, InBox
<1>4. PICK r : /\ Reply(q, r, changed)
               /\ \/ r = None /\ AtLimit(q) = {}
                  \/ \E page \in Page(AtLimit(q)) : r \in Choose(q, page)
  BY DEF SearchBusy, Busy
<1>5. /\ answer'.rider = r /\ answer'.changed = changed
      /\ pool'.free = Below(q) /\ pool'.busy = AtLimit(q)
  BY <1>4 DEF Reply
<1>6. CASE r = None /\ AtLimit(q) = {}
  <2>1. SelectsBestRider'
    BY <1>3, <1>5, <1>6 DEF SelectsBestRider
  <2>2. QED
    BY <1>1, <1>2, <2>1 DEF SelectionInv, Quiescent, Idle
<1>7. ASSUME NEW page \in Page(AtLimit(q)), r \in Choose(q, page) PROVE SelectionInv'
  <2>1. AtLimit(q)' = AtLimit(q)
    BY <1>4 DEF Reply, AtLimit, Suitable, InBox
  <2>2. \A found : page \in Page(found) => BestOf(r, found)'
    BY <1>4, <1>7, ChosenIsBest
  <2>3. BestOf(answer.rider, pool.busy)'
    BY <1>5, <1>7, <2>1, <2>2 DEF BestOf
  <2>4. SelectsBestRider'
    <3>1. pool'.free = {} \/ answer'.changed
      BY <1>3, <1>5
    <3>2. QED
      BY <2>3, <3>1, AnswerKeeps
  <2>5. QED
    BY <1>1, <1>2, <2>4 DEF SelectionInv, Quiescent, Idle
<1>8. QED
  BY <1>4, <1>6, <1>7

LEMMA SelectionInvNext == SelectionInv /\ [SelectionNext]_<<selectionVars, reqVars>> => SelectionInv'
<1> SUFFICES ASSUME SelectionInv, [SelectionNext]_<<selectionVars, reqVars>> PROVE SelectionInv'
  OBVIOUS
<1>1. ASSUME NEW c \in Clients, SearchFails(c) PROVE SelectionInv'
  <2>1. req' = [req EXCEPT ![c] = Idle] /\ answer' = answer /\ req[c] # Idle
    BY <1>1 DEF SearchFails, Finish, Become, selectionVars, Idle
  <2>2. answer = None
    BY <2>1 DEF SelectionInv, Quiescent
  <2>3. QED
    BY <2>1, <2>2 DEF SelectionInv, SelectsBestRider, Quiescent, Idle, BelowIn
<1>2. ASSUME NEW r \in Drivers, DriverChanges(r) PROVE SelectionInv'
  <2>1. req' = req /\ answer' = answer /\ answer = None
    BY <1>2 DEF DriverChanges, Instant, SelectionInv
  <2>2. QED
    BY <2>1 DEF SelectionInv, SelectsBestRider, Quiescent, BelowIn
<1>3. CASE UNCHANGED <<selectionVars, reqVars>>
  BY <1>3 DEF selectionVars, reqVars, SelectionInv, Quiescent, BelowIn, SelectsBestRider,
     Choose, Closest
<1>4. QED
  BY <1>1, <1>2, <1>3, SearchStep, SearchBusyStep DEF SelectionNext

\* RiderService.getRiderForOrder: the closest suitable rider with room for an order, or
\* of the busy ones when nobody has room, whoever moves between the two queries.
THEOREM SelectionIsBest == SelectionSpec => []SelectsBestRider
<1>1. SelectionInv => SelectsBestRider
  BY DEF SelectionInv
<1>2. QED
  BY <1>1, SelectionInvInit, SelectionInvNext, PTL DEF SelectionSpec

-----------------------------------------------------------------------------
(* All services together                                                    *)

\* What a component relies on while it runs, and what is left of it while it rests

AccountsSafe ==
  IF component = "accounts" THEN IInv /\ UserInv
  ELSE ServedAfterConsume /\ CodeServesOnce /\ ChangesHold

VehiclesSafe ==
  IF component = "vehicles" THEN VehiclesInv
  ELSE UpWithDefaults

DocumentsSafe ==
  IF component = "documents" THEN DocumentsInv
  ELSE StatusReflectsDocuments /\ ApprovedAsRead

PresenceSafe == IF component = "presence" THEN PresenceInv ELSE rows = {}

SelectionSafe == IF component = "selection" THEN SelectionInv ELSE SelectsBestRider

LookupsSafe == IF component = "lookups" THEN LookupsInv ELSE ServedFresh

DeskSafe == IF component = "desk" THEN DeskInv /\ HoldsInv ELSE desk = {} /\ meant = {}

OptionsSafe == IF component = "options" THEN OptionsInv ELSE decided = None /\ PaysDefault

PricingSafe ==
  IF component = "pricing" THEN ChargeInv /\ PickupNormalized
  ELSE ChargeAddsUp /\ PickupNormalized

LEMMA AccountsSafeInit == Init => AccountsSafe
BY InvInit, UserInvInit, SpentOnce DEF Init, AccountsSafe, IInv, UserInv

LEMMA AccountsSafeNext ==
  ASSUME AccountsSafe, [Next]_vars
  PROVE  AccountsSafe'
<1>1. CASE component = "accounts"
  <2>1. [AccountsNext]_<<accountVars, reqVars>> /\ component' = component
    BY <1>1 DEF Next, vars
  <2>2. QED
    BY <1>1, <2>1, InvNext, UserInvNext DEF AccountsSafe
<1>2. CASE component # "accounts"
  <2>1. UNCHANGED accountVars /\ component' = component
    BY <1>2 DEF Next, vars
  <2>2. QED
    BY <1>2, <2>1 DEF AccountsSafe, accountVars, ServedAfterConsume, CodeServesOnce, ChangesHold
<1>3. QED
  BY <1>1, <1>2

LEMMA VehiclesSafeInit == Init => VehiclesSafe
BY VehiclesInvInit, CompleteWhenUp DEF Init, VehiclesSafe

LEMMA VehiclesSafeNext ==
  ASSUME VehiclesSafe, [Next]_vars
  PROVE  VehiclesSafe'
<1>1. CASE component = "vehicles"
  <2>1. [VehiclesNext]_<<vehicleVars, reqVars>> /\ component' = component
    BY <1>1 DEF Next, vars
  <2>2. QED
    BY <1>1, <2>1, VehiclesInvNext DEF VehiclesSafe
<1>2. CASE component # "vehicles"
  <2>1. UNCHANGED vehicleVars /\ component' = component
    BY <1>2 DEF Next, vars
  <2>2. QED
    BY <1>2, <2>1 DEF VehiclesSafe, vehicleVars, UpWithDefaults, Complete, TypeNamed, LiveTypes
<1>3. QED
  BY <1>1, <1>2

LEMMA DocumentsSafeInit == Init => DocumentsSafe
BY DocumentsInvInit DEF Init, DocumentsSafe, DocumentsInv

LEMMA DocumentsSafeNext ==
  ASSUME DocumentsSafe, [Next]_vars
  PROVE  DocumentsSafe'
<1>1. CASE component = "documents"
  <2>1. [DocumentsNext]_<<documentVars, reqVars>> /\ component' = component
    BY <1>1 DEF Next, vars
  <2>2. QED
    BY <1>1, <2>1, DocumentsInvNext DEF DocumentsSafe
<1>2. CASE component # "documents"
  <2>1. UNCHANGED documentVars /\ component' = component
    BY <1>2 DEF Next, vars
  <2>2. QED
    BY <1>2, <2>1 DEF DocumentsSafe, documentVars, StatusReflectsDocuments, Derived, ApprovedAsRead
<1>3. QED
  BY <1>1, <1>2

LEMMA PresenceSafeInit == Init => PresenceSafe
BY PresenceInvInit DEF Init, PresenceSafe

LEMMA PresenceSafeNext ==
  ASSUME PresenceSafe, [Next]_vars
  PROVE  PresenceSafe'
<1>1. CASE component = "presence"
  <2>1. [PresenceNext]_<<presenceVars, reqVars>> /\ component' = component
    BY <1>1 DEF Next, vars
  <2>2. QED
    BY <1>1, <2>1, PresenceInvNext DEF PresenceSafe
<1>2. CASE component # "presence"
  <2>1. UNCHANGED presenceVars /\ component' = component
    BY <1>2 DEF Next, vars
  <2>2. QED
    BY <1>2, <2>1 DEF PresenceSafe, presenceVars
<1>3. QED
  BY <1>1, <1>2

LEMMA SelectionSafeInit == Init => SelectionSafe
BY SelectionInvInit DEF Init, SelectionSafe, SelectionInv

LEMMA SelectionSafeNext ==
  ASSUME SelectionSafe, [Next]_vars
  PROVE  SelectionSafe'
<1>1. CASE component = "selection"
  <2>1. [SelectionNext]_<<selectionVars, reqVars>> /\ component' = component
    BY <1>1 DEF Next, vars
  <2>2. QED
    BY <1>1, <2>1, SelectionInvNext DEF SelectionSafe
<1>2. CASE component # "selection"
  <2>1. UNCHANGED selectionVars /\ component' = component
    BY <1>2 DEF Next, vars
  <2>2. QED
    BY <1>2, <2>1 DEF SelectionSafe, selectionVars, SelectsBestRider, Choose, Closest
<1>3. QED
  BY <1>1, <1>2

LEMMA LookupsSafeInit == Init => LookupsSafe
BY LookupsInvInit DEF Init, LookupsSafe, LookupsInv

LEMMA LookupsSafeNext ==
  ASSUME LookupsSafe, [Next]_vars
  PROVE  LookupsSafe'
<1>1. CASE component = "lookups"
  <2>1. [LookupsNext]_<<lookupVars, reqVars>> /\ component' = component
    BY <1>1 DEF Next, vars
  <2>2. QED
    BY <1>1, <2>1, LookupsInvNext DEF LookupsSafe
<1>2. CASE component # "lookups"
  <2>1. UNCHANGED lookupVars /\ component' = component
    BY <1>2 DEF Next, vars
  <2>2. QED
    BY <1>2, <2>1 DEF LookupsSafe, lookupVars, ServedFresh
<1>3. QED
  BY <1>1, <1>2

LEMMA DeskSafeInit == Init => DeskSafe
BY DeskInvInit, HoldsInit DEF Init, DeskSafe, DeskInit

LEMMA DeskSafeNext ==
  ASSUME DeskSafe, [Next]_vars
  PROVE  DeskSafe'
<1>1. CASE component = "desk"
  <2>1. [DeskNext]_<<deskVars, reqVars>> /\ component' = component
    BY <1>1 DEF Next, vars
  <2>2. QED
    BY <1>1, <2>1, DeskInvNext, HoldsNext DEF DeskSafe
<1>2. CASE component # "desk"
  <2>1. UNCHANGED deskVars /\ component' = component
    BY <1>2 DEF Next, vars
  <2>2. QED
    BY <1>2, <2>1 DEF DeskSafe, deskVars
<1>3. QED
  BY <1>1, <1>2

LEMMA OptionsSafeInit == Init => OptionsSafe
BY OptionsInvInit DEF Init, OptionsSafe, OptionsInit, OptionsInv

LEMMA OptionsSafeNext ==
  ASSUME OptionsSafe, [Next]_vars
  PROVE  OptionsSafe'
<1>1. CASE component = "options"
  <2>1. [OptionsNext]_<<optionVars, reqVars>> /\ component' = component
    BY <1>1 DEF Next, vars
  <2>2. QED
    BY <1>1, <2>1, OptionsInvNext DEF OptionsSafe
<1>2. CASE component # "options"
  <2>1. UNCHANGED optionVars /\ component' = component
    BY <1>2 DEF Next, vars
  <2>2. QED
    BY <1>2, <2>1 DEF OptionsSafe, optionVars, PaysDefault
<1>3. QED
  BY <1>1, <1>2

LEMMA PricingSafeInit == Init => PricingSafe
BY ChargeInvInit, PickupInit, ChargesAddUp DEF Init, PricingSafe

LEMMA PricingSafeNext ==
  ASSUME PricingSafe, [Next]_vars
  PROVE  PricingSafe'
<1>1. CASE component = "pricing"
  <2>1. [PricingNext]_<<pricingVars, reqVars>> /\ component' = component
    BY <1>1 DEF Next, vars
  <2>2. QED
    BY <1>1, <2>1, ChargeInvNext, PickupNext DEF PricingSafe
<1>2. CASE component # "pricing"
  <2>1. UNCHANGED pricingVars /\ component' = component
    BY <1>2 DEF Next, vars
  <2>2. QED
    BY <1>2, <2>1 DEF PricingSafe, pricingVars, ChargeAddsUp, PickupNormalized
<1>3. QED
  BY <1>1, <1>2

\* The server as a whole: whichever service is used, it keeps what it promises, and so do
\* those that rest.
THEOREM EveryServiceHolds ==
  Spec => /\ [](ServedAfterConsume /\ CodeServesOnce /\ ChangesHold)
          /\ MobileSettles
          /\ []UpWithDefaults
          /\ [](StatusReflectsDocuments /\ ApprovedAsRead)
          /\ [](PresenceFollowsSockets /\ SelectsBestRider /\ ServedFresh)
          /\ [](DeskHolds /\ RatedOnce)
          /\ [](DefaultDecided /\ PaysDefault)
          /\ [](ChargeAddsUp /\ PickupNormalized)
<1> DEFINE Safe == /\ AccountsSafe /\ VehiclesSafe /\ DocumentsSafe /\ PresenceSafe /\ SelectionSafe
                   /\ LookupsSafe /\ DeskSafe /\ OptionsSafe /\ PricingSafe
<1>1. Init => Safe
  BY AccountsSafeInit, VehiclesSafeInit, DocumentsSafeInit, PresenceSafeInit, SelectionSafeInit,
     LookupsSafeInit, DeskSafeInit, OptionsSafeInit, PricingSafeInit
<1>2. Safe /\ [Next]_vars => Safe'
  BY AccountsSafeNext, VehiclesSafeNext, DocumentsSafeNext, PresenceSafeNext, SelectionSafeNext,
     LookupsSafeNext, DeskSafeNext, OptionsSafeNext, PricingSafeNext
<1>3. AccountsSafe => ServedAfterConsume /\ CodeServesOnce /\ ChangesHold
  BY SpentOnce DEF AccountsSafe, IInv, UserInv
<1>4. VehiclesSafe => UpWithDefaults
  BY CompleteWhenUp DEF VehiclesSafe
<1>5. DocumentsSafe => StatusReflectsDocuments /\ ApprovedAsRead
  BY DEF DocumentsSafe, DocumentsInv
<1>6. PresenceSafe => PresenceFollowsSockets
  BY DEF PresenceSafe, PresenceInv, Clear, Shown, PresenceFollowsSockets, RowsOf
<1>7. SelectionSafe => SelectsBestRider
  BY DEF SelectionSafe, SelectionInv
<1>8. LookupsSafe => ServedFresh
  BY DEF LookupsSafe, LookupsInv
<1>9. DeskSafe => DeskHolds /\ RatedOnce
  BY DEF DeskSafe, DeskInv, HoldsInv, DeskHolds, RatedOnce, DeskAt, MeantAt
<1>10. OptionsSafe => DefaultDecided /\ PaysDefault
  BY DEF OptionsSafe, OptionsInv, DefaultDecided
<1>11. PricingSafe => ChargeAddsUp /\ PickupNormalized
  BY ChargesAddUp DEF PricingSafe
<1>12. Safe /\ [Next]_vars => [\A u \in Registered \ raced' :
                                 users'[u].mobile # users[u].mobile => users[u].changed # month]_users
  <2>1. CASE component = "accounts"
    BY <2>1, MobileStep DEF AccountsSafe, Next, vars
  <2>2. CASE component # "accounts"
    BY <2>2 DEF Next, vars, accountVars
  <2>3. QED
    BY <2>1, <2>2
<1> HIDE DEF Safe
<1>13. Safe => /\ AccountsSafe /\ VehiclesSafe /\ DocumentsSafe /\ PresenceSafe /\ SelectionSafe
               /\ LookupsSafe /\ DeskSafe /\ OptionsSafe /\ PricingSafe
  BY DEF Safe
<1>14. QED
  BY <1>1, <1>2, <1>3, <1>4, <1>5, <1>6, <1>7, <1>8, <1>9, <1>10, <1>11, <1>12, <1>13, PTL
  DEF Spec, MobileSettles
=============================================================================
