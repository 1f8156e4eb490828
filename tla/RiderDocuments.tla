--------------------------- MODULE RiderDocuments ---------------------------
(***************************************************************************)
(* The documents and the approval of one rider: RiderDocumentService and   *)
(* the parts of RiderService that write rider_info.                        *)
(*                                                                         *)
(* A file stands for the address and the expiration date of an upload; the *)
(* reasons of a rejection follow its status and are left out.              *)
(***************************************************************************)
EXTENDS Requests

CONSTANTS
  Vehicles,    \* vehicle types
  Asked,       \* the documents in the settings of a vehicle type
  Required,    \* those of them that are required
  Files        \* what a rider may upload for a document

ASSUME DocumentsAssumption ==
  \A v \in Vehicles : Required[v] \subseteq Asked[v]

VARIABLES
  info,      \* the row of rider_info
  docs,      \* the rows of rider_document
  nextDoc,   \* the id of the next row
  solo,      \* history: one request at most since all were idle
  settled,   \* history: the last request ran alone and to its end
  passed,    \* history: the files that approving requests have read, by row
  mixed      \* history: rows written while several requests were served

documentVars == <<info, docs, nextDoc, solo, settled, passed, mixed>>

Status        == {"INITIAL", "PENDING", "APPROVED", "REJECTED"}
DocNames      == UNION {Asked[v] : v \in Vehicles}
RiderInfo     == [status : Status, vehicle : {None} \cup Vehicles]
RiderDocument == [id : Nat, name : DocNames, file : Files, status : Status]

WithId(rows, id) == {d \in rows : d.id = id}

\* save() of an entity: select the row and find what differs, then update that.
\* A row that is gone is inserted again, with the id it had.
Changed(new, old)      == {k \in DOMAIN old : new[k] # old[k]}
Merged(old, new, cols) == [k \in DOMAIN old |-> IF k \in cols THEN new[k] ELSE old[k]]

Change(d, rows) == [row |-> d, new |-> WithId(rows, d.id) = {},
                    cols |-> UNION {Changed(d, x) : x \in WithId(rows, d.id)}]

Stored(rows, changes) ==
  LET to(d) == {ch \in changes : ch.row.id = d.id /\ ~ch.new} IN
  {IF to(d) = {} THEN d ELSE LET ch == CHOOSE x \in to(d) : TRUE
                             IN Merged(d, ch.row, ch.cols) : d \in rows}
  \cup {ch.row : ch \in {x \in changes : x.new /\ WithId(rows, x.row.id) = {}}}

\* updateRiderInfoStatus: what the documents make of the rider
Derived(rows) ==
  IF rows = {} THEN "INITIAL"
  ELSE IF \E d \in rows : d.status = "REJECTED" THEN "REJECTED"
  ELSE IF \A d \in rows : d.status = "APPROVED" THEN "APPROVED"
  ELSE "PENDING"

\* initRiderInfo gives a new rider the vehicle type "bike" if there is one; the
\* documents are as earlier requests left them.
DocumentsInit ==
  /\ docs \in {{}} \cup {{[id |-> 1, name |-> n, file |-> f, status |-> s]} :
                          n \in DocNames, f \in Files, s \in Status \ {"INITIAL"}}
  /\ info \in [status : {Derived(docs)}, vehicle : {None} \cup Vehicles]
  /\ docs # {} => info.vehicle # None
  /\ nextDoc = 2 /\ solo = TRUE /\ settled = TRUE /\ mixed = {}
  /\ passed = {[id |-> d.id, file |-> d.file] : d \in {x \in docs : x.status = "APPROVED"}}

-----------------------------------------------------------------------------
(* Requests                                                                *)

Rows == <<info, docs, nextDoc, mixed>>

\* What a request goes on with: the files still to be stored, the row to be saved
Serving(pc, files, row) == [pc |-> pc, files |-> files, row |-> row]

Begin(c, r) ==
  /\ Arrive(c, r)
  /\ solo' = Quiescent /\ settled' = FALSE
  /\ UNCHANGED Rows

Go(c, r) == Become(c, r) /\ UNCHANGED <<solo, settled, passed>>
Done(c)  == Finish(c) /\ settled' = solo /\ UNCHANGED <<solo, passed>>
Fail(c)  == Finish(c) /\ UNCHANGED <<solo, settled, passed>>

\* Rows are written by the only request, or while others are served.
Write(changes) ==
  /\ docs' = Stored(docs, changes)
  /\ mixed' = IF solo THEN mixed ELSE mixed \cup {ch.row.id : ch \in changes}

-----------------------------------------------------------------------------
(* uploadMultipleDocuments: every required document is given, and none that *)
(* the settings of the vehicle type do not name.                            *)

Upload(c, files) ==
  /\ info.vehicle # None
  /\ Required[info.vehicle] \subseteq DOMAIN files
  /\ DOMAIN files \subseteq Asked[info.vehicle]
  /\ Begin(c, Serving("find", files, None))
  /\ UNCHANGED passed

Without(files, n) == [m \in DOMAIN files \ {n} |-> files[m]]

\* After a document: the next one, or the status of the rider
After(files) ==
  Serving(IF DOMAIN files # {} THEN "find" ELSE "load", files, None)

\* mutant: a document that is uploaded again keeps its approval
Uploaded_kept(d, file) == [d EXCEPT !.file = file]

Uploaded(d, file) == [d EXCEPT !.file = file, !.status = "PENDING"]

\* A row in which nothing changes is not saved.
FindDocument(c, n) ==
  LET r == req[c]
      left == Without(r.files, n)
      found == {d \in docs : d.name = n}
      created == [id |-> None, name |-> n, file |-> r.files[n], status |-> "PENDING"]
  IN
  /\ r.pc = "find" /\ n \in DOMAIN r.files
  /\ IF found = {} THEN Go(c, Serving("insert", left, created))
     ELSE \E d \in found :
       LET new == Uploaded(d, r.files[n]) IN
       Go(c, IF new = d THEN After(left) ELSE Serving("select", left, new))
  /\ UNCHANGED Rows

InsertDocument(c) ==
  LET r == req[c] IN
  /\ r.pc = "insert"
  /\ Write({[row |-> [r.row EXCEPT !.id = nextDoc], new |-> TRUE, cols |-> {}]})
  /\ nextDoc' = nextDoc + 1
  /\ Go(c, After(r.files))
  /\ UNCHANGED info

SelectDocument(c) ==
  LET r == req[c] IN
  /\ r.pc = "select"
  /\ Go(c, [pc |-> "update", files |-> r.files, change |-> Change(r.row, docs)])
  /\ UNCHANGED Rows

UpdateDocument(c) ==
  LET r == req[c] IN
  /\ r.pc = "update"
  /\ Write({r.change})
  /\ Go(c, After(r.files))
  /\ UNCHANGED <<info, nextDoc>>

-----------------------------------------------------------------------------
(* Administrators review documents, riders delete them.  A review says which *)
(* document gets which status, and nothing of the file the administrator has *)
(* seen: it approves the file the row has when the request reads it.         *)

Review(c, d, status) ==
  /\ Begin(c, Serving("select", <<>>, [d EXCEPT !.status = status]))
  /\ passed' = IF status = "APPROVED"
                 THEN passed \cup {[id |-> d.id, file |-> d.file]} ELSE passed

DeleteDocument(c, d) ==
  /\ Begin(c, Serving("remove", <<>>, d))
  /\ UNCHANGED passed

\* mutant: the status of the rider is not derived anew
RemoveDocument_alone(c) ==
  LET id == req[c].row.id IN
  /\ req[c].pc = "remove"
  /\ docs' = docs \ WithId(docs, id)
  /\ mixed' = IF solo THEN mixed ELSE mixed \cup {id}
  /\ Done(c)
  /\ UNCHANGED <<info, nextDoc>>

RemoveDocument(c) ==
  LET id == req[c].row.id IN
  /\ req[c].pc = "remove"
  /\ docs' = docs \ WithId(docs, id)
  /\ mixed' = IF solo THEN mixed ELSE mixed \cup {id}
  /\ Go(c, After(<<>>))
  /\ UNCHANGED <<info, nextDoc>>

-----------------------------------------------------------------------------
(* updateRiderInfoStatus: the rider is read with all documents and saved    *)
(* with them (cascade).  Documents changed in between are changed back,     *)
(* documents deleted in between return, and one added in between would lose *)
(* its rider, which the database refuses.                                   *)

LoadInfo(c) ==
  /\ req[c].pc = "load"
  /\ Go(c, [pc |-> "selectInfo", row |-> [info EXCEPT !.status = Derived(docs)],
            cascade |-> TRUE, loaded |-> docs])
  /\ UNCHANGED Rows

SelectInfo(c) ==
  LET r == req[c] IN
  /\ r.pc = "selectInfo"
  /\ IF r.cascade /\ \E d \in docs : WithId(r.loaded, d.id) = {} THEN Fail(c)
     ELSE Go(c, [pc |-> "updateInfo", row |-> r.row, cols |-> Changed(r.row, info),
                 cascade |-> r.cascade, changes |-> {Change(d, docs) : d \in r.loaded}])
  /\ UNCHANGED Rows

\* Two requests that bring back the same row insert it twice, and one throws.
UpdateInfo(c) ==
  LET r == req[c]
      writes == {ch \in r.changes : ch.new \/ ch.cols # {}}
  IN
  /\ r.pc = "updateInfo"
  /\ IF \E ch \in writes : ch.new /\ WithId(docs, ch.row.id) # {}
     THEN Fail(c) /\ UNCHANGED Rows
     ELSE /\ info' = Merged(info, r.row, r.cols)
          /\ Write(writes)
          /\ IF r.cascade THEN Done(c) ELSE Fail(c)
          /\ UNCHANGED nextDoc

-----------------------------------------------------------------------------
(* updateRiderInfo and updateRiderDocumentStatus write rider_info alone.    *)

\* A rider may set the vehicle type, and the status INITIAL or PENDING, an
\* administrator any status.
SetInfo(c, row) ==
  /\ \/ row.vehicle \in {info.vehicle} \cup Vehicles
        /\ row.status \in {info.status, "INITIAL", "PENDING"}
     \/ row.vehicle = info.vehicle
  /\ Begin(c, [pc |-> "selectInfo", row |-> row, cascade |-> FALSE, loaded |-> {}])
  /\ UNCHANGED passed

DocumentsNext ==
  \/ \E c \in Clients :
       \/ \E names \in SUBSET DocNames : \E files \in [names -> Files] : Upload(c, files)
       \/ \E n \in DocNames : FindDocument(c, n)
       \/ \E d \in docs : DeleteDocument(c, d) \/ \E s \in Status : Review(c, d, s)
       \/ \E row \in RiderInfo : SetInfo(c, row)
       \/ InsertDocument(c) \/ SelectDocument(c) \/ UpdateDocument(c)
       \/ RemoveDocument(c) \/ LoadInfo(c) \/ SelectInfo(c) \/ UpdateInfo(c)
       \/ Abort(c) /\ UNCHANGED documentVars

DocumentsSpec ==
  DocumentsInit /\ RequestsInit /\ [][DocumentsNext]_<<documentVars, reqVars>>

-----------------------------------------------------------------------------
(* Properties                                                              *)

\* The comment of updateRiderInfoStatus: the status of the rider reflects the current
\* state of all documents.  It does after every request about documents that ran alone
\* and to its end, whatever was cut off, raced or overwritten before; an upload that
\* is repeated unchanged repairs the status too.
StatusReflectsDocuments == settled => info.status = Derived(docs)

\* A document counts as approved only with the file that an approving request read: a
\* later upload takes the approval back.  Not so where its row was written while requests
\* overlapped: the save of an approval then updates a row the rider has replaced, or a
\* save of the rider brings an old status back.  It need not be the file that the
\* administrator had looked at before.
ApprovedAsRead ==
  \A d \in docs : d.status = "APPROVED" /\ d.id \notin mixed =>
    [id |-> d.id, file |-> d.file] \in passed
=============================================================================
