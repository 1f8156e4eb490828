------------------------------ MODULE Lookups -------------------------------
(***************************************************************************)
(* LocationService asks map providers through CacheService.wrap: a stored  *)
(* answer is returned, another one is asked for and stored for the time    *)
(* its kind of question is given.  A place written in two ways, or two     *)
(* points that round to the same four decimals, share a key.  Time passes  *)
(* in periods of days, and no request lasts that long.                     *)
(***************************************************************************)
EXTENDS Requests

CONSTANTS
  Places,       \* what is asked for, as the client writes it
  Rounded,      \* trimmed and in lower case, or rounded to four decimals
  ShortTtl,     \* seven days, in periods
  LongTtl,      \* thirty days
  MaxPeriods    \* bound: periods of a behaviour

ASSUME LookupsAssumption ==
  /\ ShortTtl \in Nat \ {0} /\ LongTtl \in Nat /\ ShortTtl <= LongTtl
  /\ MaxPeriods \in Nat

VARIABLES
  now,       \* the current period
  cache,     \* what is stored, by key
  served     \* history: the answer given last

lookupVars == <<now, cache, served>>

Kinds == {"search", "place-details", "reverse", "distance"}
Questions == [kind : Kinds, place : Places]

\* generateKey with the coordinates or the text of the question
Key(q) == <<q.kind, Rounded[q.place]>>
Keys   == {Key(q) : q \in Questions}

Ttl(kind) == IF kind = "reverse" THEN LongTtl ELSE ShortTtl

\* An answer of a provider, and an entry of the cache
Answer(q, found) == [question |-> q, at |-> now, found |-> found]
Entry(a, ttl)    == [answer |-> a, until |-> now + ttl]

LookupsInit ==
  /\ now = 0 /\ cache = [k \in Keys |-> None]
  /\ served = None

\* mutant: an entry never ends
Cached_forever(k) == cache[k] # None

Cached(k) == cache[k] # None /\ now < cache[k].until

-----------------------------------------------------------------------------
(* wrap                                                                    *)

Serve(q, answer) ==
  served' = [question |-> q, answer |-> answer, age |-> now - answer.at]

\* A get that fails counts as a miss.
Lookup(c, q) ==
  \/ /\ Cached(Key(q))
     /\ req[c] = Idle /\ Instant
     /\ Serve(q, cache[Key(q)].answer)
     /\ UNCHANGED <<now, cache>>
  \/ /\ Cached(Key(q)) => faults < MaxFaults
     /\ req[c] = Idle /\ calls < MaxCalls /\ calls' = calls + 1
     /\ faults' = IF Cached(Key(q)) THEN faults + 1 ELSE faults
     /\ req' = [req EXCEPT ![c] = [pc |-> "ask", question |-> q]]
     /\ UNCHANGED <<now, cache, served>>

SearchLocation(c, p)    == Lookup(c, [kind |-> "search", place |-> p])
GetPlaceDetails(c, p)   == Lookup(c, [kind |-> "place-details", place |-> p])
ReverseGeocode(c, p)    == Lookup(c, [kind |-> "reverse", place |-> p])
CalculateDistance(c, p) == Lookup(c, [kind |-> "distance", place |-> p])

-----------------------------------------------------------------------------
(* The providers.  A search may find nothing, which is an answer; the       *)
(* other three take it for a failure.                                       *)

PerformLocationSearch(q)      == {Answer(q, TRUE), Answer(q, FALSE)}
PerformPlaceDetailsLookup(q)  == {Answer(q, TRUE)}
PerformReverseGeocode(q)      == {Answer(q, TRUE)}
PerformDistanceCalculation(q) == {Answer(q, TRUE)}

Answers(q) ==
  CASE q.kind = "search"        -> PerformLocationSearch(q)
    [] q.kind = "place-details" -> PerformPlaceDetailsLookup(q)
    [] q.kind = "reverse"       -> PerformReverseGeocode(q)
    [] q.kind = "distance"      -> PerformDistanceCalculation(q)

\* The second attempt of wrap is returned without being stored.
ProviderAnswers(c) ==
  LET q == req[c].question IN
  /\ req[c].pc \in {"ask", "again"}
  /\ \E a \in Answers(q) :
       IF req[c].pc = "ask"
       THEN Become(c, [pc |-> "store", question |-> q, answer |-> a]) /\ UNCHANGED served
       ELSE Finish(c) /\ Serve(q, a)
  /\ UNCHANGED <<now, cache>>

\* wrap takes a failure of the provider for one of the cache and asks again.
ProviderFails(c) ==
  /\ req[c].pc \in {"ask", "again"}
  /\ IF req[c].pc = "ask" THEN Goto(c, "again") ELSE Finish(c)
  /\ UNCHANGED lookupVars

\* mutant: every answer is kept for the longest time
StoreAnswer_long(c, kept) ==
  LET q == req[c].question
      a == req[c].answer
  IN
  /\ req[c].pc = "store"
  /\ cache' = IF kept THEN [cache EXCEPT ![Key(q)] = Entry(a, LongTtl)] ELSE cache
  /\ Serve(q, a) /\ Finish(c)
  /\ UNCHANGED now

\* A set that fails is logged, and the answer returned all the same.
StoreAnswer(c, kept) ==
  LET q == req[c].question
      a == req[c].answer
  IN
  /\ req[c].pc = "store"
  /\ cache' = IF kept THEN [cache EXCEPT ![Key(q)] = Entry(a, Ttl(q.kind))] ELSE cache
  /\ Serve(q, a) /\ Finish(c)
  /\ UNCHANGED now

-----------------------------------------------------------------------------
(* The world                                                               *)

PeriodPasses ==
  /\ Quiescent /\ now < MaxPeriods /\ now' = now + 1
  /\ UNCHANGED <<cache, served, reqVars>>

\* The cache drops an entry, or all of them with the process it lives in.
Evict(k) ==
  /\ cache[k] # None
  /\ cache' = [cache EXCEPT ![k] = None]
  /\ UNCHANGED <<now, served, reqVars>>

ProcessDies ==
  /\ faults < MaxFaults /\ faults' = faults + 1
  /\ req' = [c \in Clients |-> Idle]
  /\ cache' = [k \in Keys |-> None]
  /\ UNCHANGED <<calls, now, served>>

LookupsNext ==
  \/ \E c \in Clients :
       \/ \E p \in Places : \/ SearchLocation(c, p) \/ GetPlaceDetails(c, p)
                           \/ ReverseGeocode(c, p) \/ CalculateDistance(c, p)
       \/ ProviderAnswers(c) \/ ProviderFails(c)
       \/ \E kept \in BOOLEAN : StoreAnswer(c, kept)
  \/ PeriodPasses \/ ProcessDies
  \/ \E k \in Keys : Evict(k)

LookupsSpec == LookupsInit /\ RequestsInit /\ [][LookupsNext]_<<lookupVars, reqVars>>

-----------------------------------------------------------------------------
(* Property                                                                *)

\* What a client gets was answered to a question that is the same but for the spelling
\* or the fifth decimal, and within the time its kind may be kept: evictions, failures
\* of cache or provider, restarts and two requests that miss and store the same key
\* never stretch it.
ServedFresh ==
  served # None =>
    /\ Key(served.answer.question) = Key(served.question)
    /\ served.age = 0 \/ served.age < Ttl(served.question.kind)
=============================================================================
