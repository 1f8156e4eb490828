------------------------------ MODULE Requests ------------------------------
(***************************************************************************)
(* The HTTP requests, socket messages and event handlers in flight, shared *)
(* by the components that keep no transaction open between two queries.    *)
(* A handler is split where it awaits; what it has read so far is in its   *)
(* record of req.  Arriving has no effect of its own, so a handler arrives *)
(* with its first query, and a call refused by that query is a call that   *)
(* is not made.                                                            *)
(***************************************************************************)
EXTENDS Naturals, FiniteSets

CONSTANTS
  Clients,    \* requests that can be in flight together
  None,       \* SQL NULL / undefined
  MaxCalls,   \* bound: calls of one behaviour
  MaxFaults   \* bound: calls of one behaviour that throw or are cut off

ASSUME RequestsAssumption == MaxCalls \in Nat /\ MaxFaults \in Nat

VARIABLES
  req,      \* the requests in flight
  calls,    \* calls so far
  faults    \* failures so far

reqVars == <<req, calls, faults>>

Idle == [pc |-> "idle"]

RequestsInit ==
  /\ req = [c \in Clients |-> Idle]
  /\ calls = 0 /\ faults = 0

\* A call arrives at c and goes on as r.
Arrive(c, r) ==
  /\ req[c] = Idle /\ calls < MaxCalls
  /\ calls' = calls + 1
  /\ req' = [req EXCEPT ![c] = r]
  /\ UNCHANGED faults

\* A call that is over with its first query
Instant ==
  /\ calls < MaxCalls
  /\ calls' = calls + 1
  /\ UNCHANGED <<req, faults>>

Become(c, r) ==
  /\ req' = [req EXCEPT ![c] = r]
  /\ UNCHANGED <<calls, faults>>

Goto(c, pc) == Become(c, [req[c] EXCEPT !.pc = pc])
Finish(c)   == Become(c, Idle)

\* The next query of c throws, the client goes away or the process dies: what it
\* has written stays, what it has read is lost.
Abort(c) ==
  /\ req[c] # Idle /\ faults < MaxFaults
  /\ faults' = faults + 1
  /\ req' = [req EXCEPT ![c] = Idle]
  /\ UNCHANGED calls

Quiescent == \A c \in Clients : req[c] = Idle
=============================================================================
