------------------------------ MODULE Presence ------------------------------
(***************************************************************************)
(* Who is online: UsersGateway marks a user active when a socket connects  *)
(* and inactive when one disconnects, through ActiveStatusService.update,  *)
(* which finds the user's row of active_status and saves it, or inserts    *)
(* one.  userId is not unique, so there may be two.  The gateway does not  *)
(* count sockets: one that closes sets a user inactive whose others stay.  *)
(*                                                                         *)
(* save() writes one column here, at the select or at the update, so it is *)
(* one step.  The position is left out.                                    *)
(***************************************************************************)
EXTENDS Requests

CONSTANTS
  Online,     \* users of the gateway
  Sockets     \* socket connections

ASSUME PresenceAssumption == None \notin Online

VARIABLES
  rows,       \* active_status: [id, user, active]
  socket,     \* the open sockets and what handleConnection knows of them
  dropped,    \* history: users one of whose sockets closed beside another that is open,
              \* with no connection since
  unclear     \* history: users whose handlers overlapped, failed or were bypassed

presenceVars == <<rows, socket, dropped, unclear>>

Closed == [user |-> None, known |-> FALSE]
Socket == [user : {None} \cup Online, known : BOOLEAN]
ActiveStatus == [id : Nat, user : Online, active : BOOLEAN]

RowsOf(u)   == {r \in rows : r.user = u}
OpenOf(u)   == {s \in Sockets : socket[s].user = u}
Handling(u) == {c \in Clients : req[c].pc \in {"verify", "saveStatus"} /\ req[c].user = u}

\* The process starts without sockets; nobody is left online by a clean stop.
PresenceInit ==
  /\ rows \in SUBSET {[id |-> 0, user |-> u, active |-> FALSE] : u \in Online}
  /\ socket = [s \in Sockets |-> Closed]
  /\ dropped = {} /\ unclear = {}

\* A handler of u begins beside the ones that are being served.
Begun(u) == unclear' = IF Handling(u) = {} THEN unclear ELSE unclear \cup {u}

\* The socket s of u closes.
Dropped(u, s) == dropped' = IF OpenOf(u) = {s} THEN dropped \ {u} ELSE dropped \cup {u}

-----------------------------------------------------------------------------
(* Sockets                                                                 *)

\* handleConnection waits for the token to be verified before it knows the user.  A
\* connection that is served alone makes the state of the user clear again.
Connect(c, s, u) ==
  /\ socket[s] = Closed /\ \A d \in Clients : req[d] # Idle => req[d].socket # s
  /\ Arrive(c, [pc |-> "verify", user |-> u, socket |-> s])
  /\ socket' = [socket EXCEPT ![s].user = u]
  /\ dropped' = dropped \ {u}
  /\ unclear' = IF Handling(u) = {} THEN unclear \ {u} ELSE unclear \cup {u}
  /\ UNCHANGED rows

\* update: any row of the user, or none
Updates(c, u, s, active) ==
  \E row \in IF RowsOf(u) = {} THEN {None} ELSE {r.id : r \in RowsOf(u)} :
    req' = [req EXCEPT ![c] = [pc |-> "saveStatus", user |-> u, socket |-> s,
                               active |-> active, row |-> row]]

Verify(c) ==
  LET r == req[c] IN
  /\ r.pc = "verify"
  /\ socket' = IF socket[r.socket].user = r.user
               THEN [socket EXCEPT ![r.socket].known = TRUE] ELSE socket
  /\ Updates(c, r.user, r.socket, TRUE)
  /\ UNCHANGED <<rows, dropped, unclear, calls, faults>>

\* mutant: a closing socket is taken for one that never proved who it is
Disconnect_unknown(c, s) ==
  LET u == socket[s].user IN
  /\ socket[s] # Closed
  /\ Instant
  /\ socket' = [socket EXCEPT ![s] = Closed] /\ Dropped(u, s)
  /\ unclear' = IF socket[s].known THEN unclear ELSE unclear \cup {u}
  /\ UNCHANGED rows

\* A socket that closes before it is verified has no user: nobody is set inactive,
\* and handleConnection goes on to set the user active.
Disconnect(c, s) ==
  LET u == socket[s].user IN
  /\ socket[s] # Closed
  /\ socket' = [socket EXCEPT ![s] = Closed] /\ Dropped(u, s)
  /\ IF socket[s].known
     THEN /\ req[c] = Idle /\ calls < MaxCalls /\ calls' = calls + 1
          /\ Updates(c, u, s, FALSE)
          /\ Begun(u)
          /\ UNCHANGED faults
     ELSE Instant /\ unclear' = unclear \cup {u}
  /\ UNCHANGED rows

-----------------------------------------------------------------------------
(* The message "active.status", PUT and GET of the rider's status           *)

SetStatus(c, u, active) ==
  /\ req[c] = Idle /\ calls < MaxCalls /\ calls' = calls + 1
  /\ Updates(c, u, None, active)
  /\ unclear' = unclear \cup {u}
  /\ UNCHANGED <<rows, socket, dropped, faults>>

\* initialize, also for a new rider: nothing is done if there is a row.
Initialize(c, u) ==
  /\ RowsOf(u) = {}
  /\ Arrive(c, [pc |-> "saveStatus", user |-> u, socket |-> None, active |-> FALSE, row |-> None])
  /\ Begun(u)
  /\ UNCHANGED <<rows, socket, dropped>>

SaveStatus(c) ==
  LET r == req[c] IN
  /\ r.pc = "saveStatus"
  /\ rows' = IF r.row = None
             THEN rows \cup {[id |-> Cardinality(rows), user |-> r.user, active |-> r.active]}
             ELSE {IF x.id = r.row /\ x.user = r.user THEN [x EXCEPT !.active = r.active]
                   ELSE x : x \in rows}
  /\ Finish(c)
  /\ UNCHANGED <<socket, dropped, unclear>>

-----------------------------------------------------------------------------
(* Faults                                                                  *)

\* The token or a query is refused.  handleConnection closes the socket, and when it
\* knows the user that starts handleDisconnect; everybody else gives up.
HandlerFails(c) ==
  LET r == req[c]
      connecting == /\ r.pc = "verify" \/ (r.pc = "saveStatus" /\ r.active /\ r.socket # None)
                    /\ socket[r.socket].user = r.user
  IN
  /\ r # Idle /\ faults < MaxFaults /\ faults' = faults + 1
  /\ unclear' = unclear \cup {r.user}
  /\ IF connecting
     THEN /\ socket' = [socket EXCEPT ![r.socket] = Closed]
          /\ \/ Updates(c, r.user, r.socket, FALSE)
             \/ r.pc = "verify" /\ req' = [req EXCEPT ![c] = Idle]
     ELSE /\ req' = [req EXCEPT ![c] = Idle]
          /\ UNCHANGED socket
  /\ UNCHANGED <<rows, dropped, calls>>

\* The process dies with its sockets; no handler tells the database.
Restart ==
  /\ faults < MaxFaults /\ faults' = faults + 1
  /\ socket' = [s \in Sockets |-> Closed]
  /\ req' = [c \in Clients |-> Idle]
  /\ unclear' = unclear \cup {u \in Online : OpenOf(u) # {} \/ Handling(u) # {}}
  /\ UNCHANGED <<rows, dropped, calls>>

PresenceNext ==
  \/ \E c \in Clients :
       \/ \E s \in Sockets : Disconnect(c, s) \/ \E u \in Online : Connect(c, s, u)
       \/ \E u \in Online : Initialize(c, u) \/ \E a \in BOOLEAN : SetStatus(c, u, a)
       \/ Verify(c) \/ SaveStatus(c) \/ HandlerFails(c)
  \/ Restart

PresenceSpec == PresenceInit /\ RequestsInit /\ [][PresenceNext]_<<presenceVars, reqVars>>

-----------------------------------------------------------------------------
(* Property                                                                *)

\* Once every handler has answered, a user is active exactly while a socket of the user is
\* open, except that the first of several sockets to close makes the user inactive until
\* the next one connects: nobody is active without a socket, however many there were.  It
\* holds for users whose handlers came one at a time, and again from the next connection
\* that is served alone, whatever overlapped, failed or was lost in a restart before; but
\* a second row, which two handlers without a row can insert, breaks it for good.
PresenceFollowsSockets ==
  \A u \in Online \ unclear :
    Handling(u) = {} /\ Cardinality(RowsOf(u)) = 1 =>
      \A r \in RowsOf(u) : r.active <=> OpenOf(u) # {} /\ u \notin dropped
=============================================================================
