-------------------------------- MODULE Desk --------------------------------
(***************************************************************************)
(* Notifications, tasks, tickets and ratings: four tables whose services   *)
(* read a row, change it in memory and save or remove it.  None of them    *)
(* asks whose row it is, except markAsSeen.                                *)
(***************************************************************************)
EXTENDS Requests

CONSTANTS
  People,    \* user ids
  Texts      \* what a client may write into a row

ASSUME DeskAssumption == None \notin People \cup Texts

VARIABLES
  desk,      \* the rows of the four tables
  meant,     \* history: what the handlers meant the rows to be
  crossed    \* history: rows written while another request held a copy

deskVars == <<desk, meant, crossed>>

States ==
  [notification |-> {"unseen", "seen"},
   task         |-> {"pending", "completed", "cancelled"},
   ticket       |-> {"open", "in_progress", "resolved", "closed"},
   rating       |-> {"rated"}]

DeskRow == [id : 0..MaxCalls, table : DOMAIN States, owner : People, about : {None} \cup People,
            state : UNION {States[t] : t \in DOMAIN States}, text : Texts]

NewRow(table, owner, about, text) ==
  [id |-> calls + 1, table |-> table, owner |-> owner, about |-> about, text |-> text,
   state |-> CASE table = "notification" -> "unseen" [] table = "task" -> "pending"
               [] table = "ticket" -> "open"         [] table = "rating" -> "rated"]

DeskInit ==
  /\ \/ desk = {}
     \/ \E r \in DeskRow :
          /\ r.id = 0 /\ r.state \in States[r.table]
          /\ (r.table = "rating") <=> (r.about # None)
          /\ r.owner # r.about
          /\ desk = {r}
  /\ meant = desk /\ crossed = {}

DeskAt(id)   == {r \in desk : r.id = id}
Holds(c, id) == req[c].pc # "idle" /\ req[c].row.id = id

Cross(c, ids) ==
  crossed' = crossed \cup {id \in ids : \E d \in Clients \ {c} : Holds(d, id)}

\* Rows of ids become new, in the table and in the minds of the handlers.
Replace(c, ids, new) ==
  /\ desk'  = {r \in desk : r.id \notin ids} \cup new
  /\ meant' = {r \in meant : r.id \notin ids} \cup new
  /\ Cross(c, ids)

-----------------------------------------------------------------------------
(* Calls that are over with one query                                      *)

Create(c, table, owner, text) ==
  req[c] = Idle /\ Instant /\ Replace(c, {}, {NewRow(table, owner, None, text)})

CreateNotification(c, u, t) == Create(c, "notification", u, t)
CreateTask(c, u, t)         == Create(c, "task", u, t)
CreateTicket(c, u, t)       == Create(c, "ticket", u, t)

Seen(u, ids) == {r \in desk : r.id \in ids /\ r.owner = u /\ r.table = "notification"}

Marked(rows) == {[r EXCEPT !.state = "seen"] : r \in rows}

MarkAsSeen(c, u, ids) ==
  /\ req[c] = Idle /\ Instant
  /\ Replace(c, {r.id : r \in Seen(u, ids)}, Marked(Seen(u, ids)))

DeleteTicket(c, r) ==
  req[c] = Idle /\ r.table = "ticket" /\ Instant /\ Replace(c, {r.id}, {})

-----------------------------------------------------------------------------
(* Calls that read a row first.  save() selects it again and updates what   *)
(* differs from the copy; a row that is gone is inserted again.             *)

Edit(c, r, new, set) ==
  Arrive(c, [pc |-> "select", row |-> new, set |-> set]) /\ UNCHANGED deskVars

UpdateNotification(c, r, t) ==
  r.table = "notification" /\ Edit(c, r, [r EXCEPT !.text = t], {"text"})

UpdateTask(c, r, s) ==
  r.table = "task" /\ Edit(c, r, [r EXCEPT !.state = s], {"state"})

MarkAsCompleted(c, r) == UpdateTask(c, r, "completed")
CancelTask(c, r)      == UpdateTask(c, r, "cancelled")

UpdateTicket(c, r, s) ==
  r.table = "ticket" /\ Edit(c, r, [r EXCEPT !.state = s], {"state"})

\* A rating of the same pair is changed, another one inserted: by the second of two
\* first ratings too, which the unique index refuses.
RateUser(c, u, v, t) ==
  LET old == {r \in desk : r.table = "rating" /\ r.owner = u /\ r.about = v} IN
  /\ u # v
  /\ IF old = {}
     THEN /\ Arrive(c, [pc |-> "insert", row |-> NewRow("rating", u, v, t)])
          /\ UNCHANGED deskVars
     ELSE \E r \in old : Edit(c, r, [r EXCEPT !.text = t], {"text"})

\* mutant: the table has no unique index
InsertRating_again(c) ==
  /\ req[c].pc = "insert"
  /\ Replace(c, {}, {req[c].row})
  /\ Finish(c)

InsertRating(c) ==
  LET new == req[c].row IN
  /\ req[c].pc = "insert"
  /\ IF \E r \in desk : r.table = "rating" /\ r.owner = new.owner /\ r.about = new.about
     THEN UNCHANGED deskVars
     ELSE Replace(c, {}, {new})
  /\ Finish(c)

\* mutant: the state is a column that save() leaves alone
SelectRow_stateless(c) ==
  LET r == req[c].row IN
  /\ req[c].pc = "select"
  /\ Become(c, [pc |-> "save", row |-> r, set |-> req[c].set, new |-> DeskAt(r.id) = {},
                diff |-> {k \in DOMAIN r \ {"state"} : \E x \in DeskAt(r.id) : x[k] # r[k]}])
  /\ UNCHANGED deskVars

SelectRow(c) ==
  LET r == req[c].row IN
  /\ req[c].pc = "select"
  /\ Become(c, [pc |-> "save", row |-> r, set |-> req[c].set, new |-> DeskAt(r.id) = {},
                diff |-> {k \in DOMAIN r : \E x \in DeskAt(r.id) : x[k] # r[k]}])
  /\ UNCHANGED deskVars

\* The columns of new that are named are written.
Overlay(old, new, cols) == [k \in DOMAIN old |-> IF k \in cols THEN new[k] ELSE old[k]]

\* A row that has come back meanwhile is not inserted twice.
SaveRow(c) ==
  LET q == req[c]
      r == q.row
      write(rows, cols) == {IF x.id = r.id THEN Overlay(x, r, cols) ELSE x : x \in rows}
  IN
  /\ q.pc = "save"
  /\ desk' = write(desk, q.diff) \cup (IF q.new /\ DeskAt(r.id) = {} THEN {r} ELSE {})
  /\ meant' = write(meant, q.set)
  /\ Cross(c, {r.id})
  /\ Finish(c)

RemoveRow(c, r) ==
  /\ r.table \in {"notification", "task"}
  /\ Arrive(c, [pc |-> "remove", row |-> r])
  /\ UNCHANGED deskVars

DeleteRow(c) ==
  /\ req[c].pc = "remove"
  /\ Replace(c, {req[c].row.id}, {})
  /\ Finish(c)

DeskNext ==
  \E c \in Clients :
    \/ \E u \in People, t \in Texts :
         \/ CreateNotification(c, u, t) \/ CreateTask(c, u, t) \/ CreateTicket(c, u, t)
         \/ \E v \in People : RateUser(c, u, v, t)
    \/ \E u \in People : \E ids \in SUBSET {r.id : r \in desk} : MarkAsSeen(c, u, ids)
    \/ \E r \in desk :
         \/ DeleteTicket(c, r) \/ RemoveRow(c, r)
         \/ MarkAsCompleted(c, r) \/ CancelTask(c, r)
         \/ \E t \in Texts : UpdateNotification(c, r, t)
         \/ \E s \in States["task"] : UpdateTask(c, r, s)
         \/ \E s \in States["ticket"] : UpdateTicket(c, r, s)
    \/ InsertRating(c) \/ SelectRow(c) \/ SaveRow(c) \/ DeleteRow(c)
    \/ Abort(c) /\ UNCHANGED deskVars

DeskSpec == DeskInit /\ RequestsInit /\ [][DeskNext]_<<deskVars, reqVars>>

-----------------------------------------------------------------------------
(* Properties                                                              *)

\* Notifications that were seen stay seen, finished tasks stay finished, tickets keep
\* their state and deleted rows stay deleted, until a handler means to change them:
\* only a request that held an older copy of the row across a change can undo it,
\* since save() writes whatever differs from its copy and inserts what is gone.
DeskHolds == \A id \in 0..calls \ crossed : DeskAt(id) = {r \in meant : r.id = id}

\* A user has at most one rating of another, though two first ratings may both have
\* found none; the second then fails.
RatedOnce ==
  \A r, s \in {x \in desk : x.table = "rating"} :
    r.owner = s.owner /\ r.about = s.about => r = s
=============================================================================
