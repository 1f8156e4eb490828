--------------------------- MODULE Accounts_proofs --------------------------
(***************************************************************************)
(* Theorems about one-time passwords and the columns of a user, for any    *)
(* number of clients, users, calls and failures.                           *)
(*                                                                         *)
(* Codes: a code serves nobody before it is consumed, and one call only.   *)
(* A row of a code is in the table, or in the hands of requests that have  *)
(* read it.  The invariant says of all of them together that the number of *)
(* a code determines its reference, so that the delete of clearOtp takes   *)
(* the row it has checked; and that a code that has served, and was not    *)
(* shared, is nowhere any more.                                            *)
(*                                                                         *)
(* Users: a change of a column stays until the next change of it.  The     *)
(* invariant says that a request's copy differs from the row only in what  *)
(* it is about to write and in what others have changed across it.         *)
(***************************************************************************)
EXTENDS Accounts, TLAPS, FiniteSetTheorems

OtpRow == [nr : Nat, ref : Contacts, code : Codes, used : BOOLEAN]

Holding(r) == r.pc \in {"consume", "validate", "revive", "clear"}

\* The rows in the table and in the hands of requests
AllCodes == otps \cup {req[c].otp : c \in {d \in Clients : Holding(req[d])}}

\* What a request may rely on
CodeSound(r) ==
  /\ "pc" \in DOMAIN r
  /\ r.pc = "issue" => r.ref \in Contacts
  /\ r.pc = "otp" => {"otp", "ref"} \subseteq DOMAIN r
  /\ Holding(r) => "otp" \in DOMAIN r
  /\ r.pc = "clear" => r.otp.nr \in consumed /\ r.otp.ref = r.ref

CodesTyped ==
  /\ issued \in Nat
  /\ DOMAIN req = Clients
  /\ spent = [n \in 1..MaxCalls |-> spent[n]]
  /\ \A o \in AllCodes : o \in OtpRow /\ o.nr <= issued

CodesDetermined == \A o, p \in AllCodes : o.nr = p.nr => o.ref = p.ref

UsedIsConsumed == \A o \in otps : o.used => o.nr \in consumed

GoneWhenSpent ==
  \A n \in 1..MaxCalls : spent[n] # {} /\ n \notin shared =>
    /\ \A o \in AllCodes : o.nr # n
    /\ \E s : spent[n] = {s}

SpentIssued == \A n \in 1..MaxCalls : spent[n] # {} => n <= issued

IInv ==
  /\ SpentIssued
  /\ CodesTyped /\ CodesDetermined /\ UsedIsConsumed /\ GoneWhenSpent
  /\ \A c \in Clients : CodeSound(req[c])
  /\ ServedAfterConsume

LEMMA InvInit == AccountsInit /\ RequestsInit => IInv
BY DEF AccountsInit, RequestsInit, Idle, IInv, CodesTyped, CodesDetermined, UsedIsConsumed,
       GoneWhenSpent, SpentIssued, AllCodes, Holding, CodeSound, ServedAfterConsume

-----------------------------------------------------------------------------
(* Steps that leave the codes alone                                        *)

\* A request goes on without the row of a code.
LEMMA WithoutRow ==
  ASSUME IInv, UNCHANGED otpRows, NEW c \in Clients, NEW r,
         req' = [req EXCEPT ![c] = r], CodeSound(r), ~Holding(r)
  PROVE  IInv'
<1>1. /\ DOMAIN req' = Clients
      /\ \A d \in Clients : req'[d] = IF d = c THEN r ELSE req[d]
  BY DEF IInv, CodesTyped
<1>2. AllCodes' \subseteq AllCodes
  BY <1>1 DEF AllCodes, Holding, otpRows
<1>3. \A d \in Clients : CodeSound(req[d])'
  BY <1>1 DEF IInv, CodeSound, Holding, otpRows
<1>4. QED
  BY <1>1, <1>2, <1>3 DEF IInv, CodesTyped, CodesDetermined, UsedIsConsumed, GoneWhenSpent,
     SpentIssued, ServedAfterConsume, otpRows

LEMMA NoRequest ==
  ASSUME IInv, UNCHANGED <<otpRows, req>>
  PROVE  IInv'
BY DEF IInv, CodesTyped, CodesDetermined, UsedIsConsumed, GoneWhenSpent, SpentIssued,
       ServedAfterConsume, AllCodes, Holding, CodeSound, otpRows

\* A request takes a row out of the table, or keeps the one it has.
LEMMA WithRow ==
  ASSUME IInv, UNCHANGED otpRows, NEW c \in Clients, NEW r,
         req' = [req EXCEPT ![c] = r], CodeSound(r), Holding(r), r.otp \in AllCodes
  PROVE  IInv'
<1>1. /\ DOMAIN req' = Clients
      /\ \A d \in Clients : req'[d] = IF d = c THEN r ELSE req[d]
  BY DEF IInv, CodesTyped
<1>2. AllCodes' \subseteq AllCodes
  BY <1>1 DEF AllCodes, Holding, otpRows
<1>3. \A d \in Clients : CodeSound(req[d])'
  BY <1>1 DEF IInv, CodeSound, Holding, otpRows
<1>4. QED
  BY <1>1, <1>2, <1>3 DEF IInv, CodesTyped, CodesDetermined, UsedIsConsumed, GoneWhenSpent,
     SpentIssued, ServedAfterConsume, otpRows

-----------------------------------------------------------------------------
(* createOtp                                                               *)

LEMMA RequestOtpStep ==
  ASSUME IInv, NEW c \in Clients, NEW m \in Contacts, RequestOtp(c, m)
  PROVE  IInv'
<1>1. /\ otps' \subseteq otps
      /\ UNCHANGED <<issued, consumed, spent, shared>>
      /\ req' = [req EXCEPT ![c] = [pc |-> "issue", ref |-> m]]
  BY DEF RequestOtp, Arrive
<1>2. /\ DOMAIN req' = Clients
      /\ \A d \in Clients : req'[d] = IF d = c THEN [pc |-> "issue", ref |-> m] ELSE req[d]
  BY <1>1 DEF IInv, CodesTyped
<1>3. AllCodes' \subseteq AllCodes
  BY <1>1, <1>2 DEF AllCodes, Holding
<1>4. \A d \in Clients : CodeSound(req[d])'
  BY <1>1, <1>2 DEF IInv, CodeSound, Holding
<1>5. QED
  BY <1>1, <1>2, <1>3, <1>4 DEF IInv, CodesTyped, CodesDetermined, UsedIsConsumed,
     GoneWhenSpent, SpentIssued, ServedAfterConsume

\* The number of a new code is new.
LEMMA IssueOtpStep ==
  ASSUME IInv, NEW c \in Clients, IssueOtp(c)
  PROVE  IInv'
<1>1. PICK k \in Codes :
        otps' = otps \cup {[nr |-> issued + 1, ref |-> req[c].ref, code |-> k, used |-> FALSE]}
  BY DEF IssueOtp
<1> DEFINE new == [nr |-> issued + 1, ref |-> req[c].ref, code |-> k, used |-> FALSE]
<1>2. /\ issued' = issued + 1 /\ UNCHANGED <<consumed, spent, shared>>
      /\ req' = [req EXCEPT ![c] = Idle]
      /\ req[c].pc = "issue"
  BY DEF IssueOtp, Finish, Become
<1>3. /\ DOMAIN req' = Clients
      /\ \A d \in Clients : req'[d] = IF d = c THEN Idle ELSE req[d]
  BY <1>2 DEF IInv, CodesTyped
<1>4. /\ new \in OtpRow /\ new.nr = issued + 1 /\ ~new.used
      /\ issued \in Nat /\ issued' \in Nat
  BY <1>2 DEF IInv, CodesTyped, CodeSound, OtpRow
<1>5. AllCodes' \subseteq AllCodes \cup {new}
  BY <1>1, <1>3 DEF AllCodes, Holding, Idle
<1> HIDE DEF new
<1>6. \A o \in AllCodes : o.nr \in Nat /\ o.nr <= issued
  BY DEF IInv, CodesTyped, OtpRow
<1>7. CodesTyped'
  <2>1. \A o \in AllCodes' : o \in OtpRow /\ o.nr <= issued'
    BY <1>2, <1>4, <1>5, <1>6 DEF IInv, CodesTyped
  <2>2. QED
    BY <1>2, <1>3, <1>4, <2>1 DEF IInv, CodesTyped
<1>8. CodesDetermined'
  BY <1>4, <1>5, <1>6 DEF IInv, CodesDetermined
<1>9. UsedIsConsumed'
  BY <1>1, <1>2, <1>4 DEF IInv, UsedIsConsumed
<1>10. \A d \in Clients : CodeSound(req[d])'
  BY <1>2, <1>3 DEF IInv, CodeSound, Holding, Idle
<1>11. GoneWhenSpent'
  <2> SUFFICES ASSUME NEW n \in 1..MaxCalls, spent[n] # {}, n \notin shared
               PROVE  (\A o \in AllCodes' : o.nr # n) /\ (\E s : spent[n] = {s})
    BY <1>2 DEF GoneWhenSpent
  <2>1. n <= issued
    BY DEF IInv, SpentIssued
  <2>2. (\A o \in AllCodes : o.nr # n) /\ (\E s : spent[n] = {s})
    BY DEF IInv, GoneWhenSpent
  <2>3. new.nr # n
    BY <1>4, <2>1
  <2>4. \A o \in AllCodes' : o \in AllCodes \/ o = new
    BY <1>5
  <2>5. QED
    BY <2>2, <2>3, <2>4
<1>12. SpentIssued' /\ ServedAfterConsume'
  BY <1>2, <1>4 DEF IInv, SpentIssued, ServedAfterConsume
<1>13. QED
  BY <1>7, <1>8, <1>9, <1>10, <1>11, <1>12 DEF IInv

-----------------------------------------------------------------------------
(* consumeOtp                                                              *)

LEMMA ConsumeOtpStep ==
  ASSUME IInv, NEW c \in Clients, NEW m, NEW k, ConsumeOtp(c, m, k)
  PROVE  IInv'
<1>1. PICK o \in Matching(m, k) : Arrive(c, [pc |-> "consume", otp |-> o])
  BY DEF ConsumeOtp
<1> DEFINE r == [pc |-> "consume", otp |-> o]
<1>2. req' = [req EXCEPT ![c] = r] /\ UNCHANGED otpRows
  BY <1>1 DEF Arrive, ConsumeOtp
<1>3. CodeSound(r) /\ Holding(r) /\ r.otp \in AllCodes
  BY DEF CodeSound, Holding, Matching, AllCodes
<1>4. QED
  BY <1>2, <1>3, WithRow

LEMMA SelectOtpStep ==
  ASSUME IInv, NEW c \in Clients, SelectOtp(c)
  PROVE  IInv'
<1>1. PICK pc \in {"validate", "revive"} :
        req' = [req EXCEPT ![c] = [req[c] EXCEPT !.pc = pc]]
  BY DEF SelectOtp, Goto, Become
<1> DEFINE r == [req[c] EXCEPT !.pc = pc]
<1>2. req[c].pc = "consume" /\ UNCHANGED otpRows
  BY DEF SelectOtp
<1>3. CodeSound(req[c]) /\ Holding(req[c])
  BY <1>2 DEF IInv, Holding
<1>4. r.pc = pc /\ DOMAIN r = DOMAIN req[c] /\ r.otp = req[c].otp
  BY <1>3 DEF CodeSound
<1>5. CodeSound(r) /\ Holding(r)
  BY <1>3, <1>4 DEF CodeSound, Holding
<1>6. r.otp \in AllCodes
  BY <1>3, <1>4 DEF AllCodes
<1>7. QED
  BY <1>1, <1>2, <1>5, <1>6, WithRow

\* A row that is saved has the number and the reference it was read with.
LEMMA SaveOtpStep ==
  ASSUME IInv, NEW c \in Clients, SaveOtp(c)
  PROVE  IInv'
<1> DEFINE o == req[c].otp
           saved == [o EXCEPT !.used = TRUE]
<1>1. /\ otps' \subseteq {x \in otps : x.nr # o.nr} \cup {saved} \/ otps' = otps
      /\ consumed' = consumed \cup {o.nr}
      /\ req' = [req EXCEPT ![c] = Idle]
      /\ UNCHANGED <<issued, spent, shared>>
      /\ Holding(req[c])
  BY DEF SaveOtp, Finish, Become, Holding
<1>2. /\ DOMAIN req' = Clients
      /\ \A d \in Clients : req'[d] = IF d = c THEN Idle ELSE req[d]
  BY <1>1 DEF IInv, CodesTyped
<1>3. o \in AllCodes /\ o \in OtpRow /\ o.nr <= issued
  BY <1>1 DEF AllCodes, IInv, CodesTyped
<1>4. saved \in OtpRow /\ saved.nr = o.nr /\ saved.ref = o.ref
  BY <1>3 DEF OtpRow
<1>5. AllCodes' \subseteq AllCodes \cup {saved}
  BY <1>1, <1>2 DEF AllCodes, Holding, Idle
<1>6. UsedIsConsumed'
  BY <1>1, <1>4 DEF IInv, UsedIsConsumed
<1> HIDE DEF o, saved
<1>7. CodesTyped'
  <2>1. \A x \in AllCodes' : x \in OtpRow /\ x.nr <= issued
    BY <1>3, <1>4, <1>5 DEF IInv, CodesTyped
  <2>2. QED
    BY <1>1, <1>2, <2>1 DEF IInv, CodesTyped
<1>8. CodesDetermined'
  BY <1>3, <1>4, <1>5 DEF IInv, CodesDetermined
<1>9. \A d \in Clients : CodeSound(req[d])'
  BY <1>1, <1>2 DEF IInv, CodeSound, Holding, Idle
<1>10. GoneWhenSpent'
  BY <1>1, <1>3, <1>4, <1>5 DEF IInv, GoneWhenSpent
<1>11. SpentIssued' /\ ServedAfterConsume'
  BY <1>1 DEF IInv, SpentIssued, ServedAfterConsume
<1>12. QED
  BY <1>6, <1>7, <1>8, <1>9, <1>10, <1>11 DEF IInv

-----------------------------------------------------------------------------
(* clearOtp                                                                *)

LEMMA FindOtpStep ==
  ASSUME IInv, NEW c \in Clients, FindOtp(c)
  PROVE  IInv'
<1>1. CodeSound(req[c]) /\ req[c].pc = "otp" /\ UNCHANGED otpRows
  BY DEF IInv, FindOtp
<1>2. CASE req' = [req EXCEPT ![c] = Idle]
  <2>1. CodeSound(Idle) /\ ~Holding(Idle)
    BY DEF CodeSound, Holding, Idle
  <2>2. QED
    BY <1>1, <1>2, <2>1, WithoutRow
<1>3. CASE \E o \in Matching(req[c].ref, req[c].code) :
             o.used /\ req' = [req EXCEPT ![c] = [req[c] EXCEPT !.pc = "clear", !.otp = o]]
  <2>1. PICK o \in otps :
          /\ o.ref = req[c].ref /\ o.used
          /\ req' = [req EXCEPT ![c] = [req[c] EXCEPT !.pc = "clear", !.otp = o]]
    BY <1>3 DEF Matching
  <2> DEFINE r == [req[c] EXCEPT !.pc = "clear", !.otp = o]
  <2>2. DOMAIN r = DOMAIN req[c] /\ r.pc = "clear" /\ r.otp = o /\ r.ref = req[c].ref
    BY <1>1 DEF CodeSound
  <2>3. o.nr \in consumed /\ o \in AllCodes
    BY <2>1 DEF IInv, UsedIsConsumed, AllCodes
  <2>4. CodeSound(r) /\ Holding(r) /\ r.otp \in AllCodes
    BY <1>1, <2>1, <2>2, <2>3 DEF CodeSound, Holding
  <2>5. QED
    BY <1>1, <2>1, <2>4, WithRow
<1>4. QED
  BY <1>2, <1>3 DEF FindOtp, Finish, Become

\* The delete takes every row of the code; what others hold is shared.
LEMMA ClearOtpStep ==
  ASSUME IInv, NEW c \in Clients, ClearOtp(c)
  PROVE  IInv'
<1> DEFINE n == req[c].otp.nr
           r == [req[c] EXCEPT !.pc = "save"]
<1>1. /\ req[c].pc = "clear" /\ Holding(req[c]) /\ CodeSound(req[c])
      /\ otps' = {o \in otps : o.ref # req[c].ref}
      /\ spent' = [spent EXCEPT ![n] = @ \cup {Served(c)}]
      /\ shared' = IF \E d \in Clients \ {c} : HoldsOtp(d, n) THEN shared \cup {n} ELSE shared
      /\ req' = [req EXCEPT ![c] = r]
      /\ UNCHANGED <<issued, consumed>>
  BY DEF IInv, ClearOtp, Goto, Become, Holding
<1>2. r.pc = "save" /\ ~Holding(r) /\ CodeSound(r)
  BY <1>1 DEF CodeSound, Holding
<1>3. /\ DOMAIN req' = Clients
      /\ \A d \in Clients : req'[d] = IF d = c THEN r ELSE req[d]
  BY <1>1 DEF IInv, CodesTyped
<1>4. /\ req[c].otp \in AllCodes /\ req[c].otp \in OtpRow /\ n <= issued
      /\ n \in consumed /\ req[c].otp.ref = req[c].ref
  BY <1>1 DEF AllCodes, IInv, CodesTyped, CodeSound
<1>5. AllCodes' \subseteq AllCodes
  BY <1>1, <1>2, <1>3 DEF AllCodes
<1>6. n \notin shared' => \A o \in AllCodes' : o.nr # n
  <2> SUFFICES ASSUME n \notin shared', NEW o \in AllCodes', o.nr = n PROVE FALSE
    OBVIOUS
  <2>1. CASE o \in otps'
    <3>1. o.ref = req[c].ref
      BY <1>1, <1>4, <1>5 DEF IInv, CodesDetermined
    <3>2. QED
      BY <1>1, <2>1, <3>1
  <2>2. CASE o \in {req'[d].otp : d \in {e \in Clients : Holding(req'[e])}}
    <3>1. PICK d \in Clients : Holding(req'[d]) /\ o = req'[d].otp
      BY <2>2
    <3>2. d # c /\ Holding(req[d]) /\ o = req[d].otp
      BY <1>2, <1>3, <3>1
    <3>3. HoldsOtp(d, n)
      BY <3>2 DEF HoldsOtp, Holding
    <3>4. QED
      BY <1>1, <3>2, <3>3
  <2>3. QED
    BY <2>1, <2>2 DEF AllCodes
<1>7. CodesTyped'
  BY <1>1, <1>3, <1>5 DEF IInv, CodesTyped
<1>8. CodesDetermined'
  BY <1>5 DEF IInv, CodesDetermined
<1>9. UsedIsConsumed'
  BY <1>1 DEF IInv, UsedIsConsumed
<1>10. \A d \in Clients : CodeSound(req[d])'
  <2>1. \A d \in Clients : CodeSound(req'[d])
    BY <1>2, <1>3 DEF IInv
  <2>2. QED
    BY <1>1, <2>1 DEF CodeSound, Holding
<1>11. /\ DOMAIN spent = 1..MaxCalls
       /\ \A k \in 1..MaxCalls :
            spent'[k] = IF k = n THEN spent[k] \cup {Served(c)} ELSE spent[k]
  BY <1>1 DEF IInv, CodesTyped
<1>12. GoneWhenSpent'
  <2> SUFFICES ASSUME NEW k \in 1..MaxCalls, spent'[k] # {}, k \notin shared'
               PROVE  (\A o \in AllCodes' : o.nr # k) /\ (\E s : spent'[k] = {s})
    BY DEF GoneWhenSpent
  <2>1. k \notin shared
    BY <1>1
  <2>2. CASE k = n
    <3>1. spent[k] = {}
      BY <1>4, <2>1, <2>2 DEF IInv, GoneWhenSpent
    <3>2. QED
      BY <1>6, <1>11, <2>2, <3>1
  <2>3. CASE k # n
    <3>1. spent'[k] = spent[k]
      BY <1>11, <2>3
    <3>2. (\A o \in AllCodes : o.nr # k) /\ (\E s : spent[k] = {s})
      BY <2>1, <3>1 DEF IInv, GoneWhenSpent
    <3>3. QED
      BY <1>5, <3>1, <3>2
  <2>4. QED
    BY <2>2, <2>3
<1>13. SpentIssued' /\ ServedAfterConsume'
  BY <1>1, <1>4, <1>11 DEF IInv, SpentIssued, ServedAfterConsume
<1>14. QED
  BY <1>7, <1>8, <1>9, <1>10, <1>12, <1>13 DEF IInv

-----------------------------------------------------------------------------
(* Requests that only write users                                          *)

\* A call that begins with no row of a code in hand
LEMMA UserBegins ==
  ASSUME IInv, UNCHANGED otpRows, NEW c \in Clients, NEW r, Arrive(c, r),
         "pc" \in DOMAIN r,
         \/ r.pc \in {"save", "exists"}
         \/ r.pc = "otp" /\ {"otp", "ref"} \subseteq DOMAIN r
  PROVE  IInv'
<1>1. CodeSound(r) /\ ~Holding(r)
  BY DEF CodeSound, Holding
<1>2. QED
  BY <1>1, WithoutRow DEF Arrive

LEMMA UserEnds ==
  ASSUME IInv, UNCHANGED otpRows, NEW c \in Clients, req' = [req EXCEPT ![c] = Idle]
  PROVE  IInv'
<1>1. CodeSound(Idle) /\ ~Holding(Idle)
  BY DEF CodeSound, Holding, Idle
<1>2. QED
  BY <1>1, WithoutRow

LEMMA NoCodeStep ==
  ASSUME IInv, NEW c \in Clients,
         \/ \E u \in Users, m \in Contacts :
              \/ \E k \in Codes, p \in Passwords : Register(c, u, m, k, p)
              \/ \E padded \in BOOLEAN : UpdateProfile(c, u, m, padded)
         \/ \E u \in Users, p \in Passwords :
              UpdatePassword(c, u, p) \/ \E k \in Codes : ResetPassword(c, u, k, p)
         \/ \E u \in Users : UpdateOther(c, u)
         \/ InsertUser(c) \/ MobileExists(c) \/ SelectUser(c) \/ UpdateUser(c)
         \/ Abort(c) /\ UNCHANGED accountVars
  PROVE  IInv'
<1>1. ASSUME NEW u \in Users, NEW m \in Contacts, NEW k \in Codes, NEW p \in Passwords,
             Register(c, u, m, k, p)
      PROVE  IInv'
  BY <1>1, UserBegins DEF Register, Cleared
<1>2. ASSUME NEW u \in Users, NEW m \in Contacts, NEW padded \in BOOLEAN,
             UpdateProfile(c, u, m, padded)
      PROVE  IInv'
  BY <1>2, UserBegins DEF UpdateProfile
<1>3. ASSUME NEW u \in Users, NEW p \in Passwords, UpdatePassword(c, u, p)
      PROVE  IInv'
  BY <1>3, UserBegins DEF UpdatePassword
<1>4. ASSUME NEW u \in Users, NEW p \in Passwords, NEW k \in Codes, ResetPassword(c, u, k, p)
      PROVE  IInv'
  BY <1>4, UserBegins DEF ResetPassword, Cleared
<1>5. ASSUME NEW u \in Users, UpdateOther(c, u)
      PROVE  IInv'
  BY <1>5, UserBegins DEF UpdateOther
<1>6. CASE InsertUser(c)
  BY <1>6, UserEnds DEF InsertUser, Finish, Become
<1>7. CASE MobileExists(c)
  <2>1. CASE Finish(c)
    BY <1>7, <2>1, UserEnds DEF MobileExists, Finish, Become
  <2>2. CASE Goto(c, "save")
    <3> DEFINE r == [req[c] EXCEPT !.pc = "save"]
    <3>1. CodeSound(r) /\ ~Holding(r)
      BY DEF IInv, CodeSound, Holding
    <3>2. QED
      BY <1>7, <2>2, <3>1, WithoutRow DEF MobileExists, Goto, Become
  <2>3. QED
    BY <1>7, <2>1, <2>2 DEF MobileExists
<1>8. CASE SelectUser(c)
  <2> DEFINE q == req[c]
             diff == {k \in Columns : Row(q.user)[k] # q.row[k]}
             r == [pc |-> "update", op |-> q.op, user |-> q.user, set |-> q.set,
                   row |-> q.row, diff |-> diff]
  <2>1. req' = [req EXCEPT ![c] = r]
    BY <1>8 DEF SelectUser, Become
  <2>2. CodeSound(r) /\ ~Holding(r)
    BY DEF CodeSound, Holding
  <2>3. QED
    BY <1>8, <2>1, <2>2, WithoutRow DEF SelectUser
<1>9. CASE UpdateUser(c)
  BY <1>9, UserEnds DEF UpdateUser, Finish, Become
<1>10. CASE Abort(c) /\ UNCHANGED accountVars
  BY <1>10, UserEnds DEF Abort, accountVars, otpRows
<1>11. QED
  BY <1>1, <1>2, <1>3, <1>4, <1>5, <1>6, <1>7, <1>8, <1>9, <1>10

-----------------------------------------------------------------------------
(* Every step, and the theorems                                            *)

LEMMA InvNext == IInv /\ [AccountsNext]_<<accountVars, reqVars>> => IInv'
<1> SUFFICES ASSUME IInv, [AccountsNext]_<<accountVars, reqVars>> PROVE IInv'
  OBVIOUS
<1>1. ASSUME NEW c \in Clients, NEW m \in Contacts, RequestOtp(c, m) PROVE IInv'
  BY <1>1, RequestOtpStep
<1>2. ASSUME NEW c \in Clients, NEW m \in Contacts, NEW k \in Codes, ConsumeOtp(c, m, k)
      PROVE  IInv'
  BY <1>2, ConsumeOtpStep
<1>3. ASSUME NEW c \in Clients,
             IssueOtp(c) \/ SelectOtp(c) \/ SaveOtp(c) \/ FindOtp(c) \/ ClearOtp(c)
      PROVE  IInv'
  BY <1>3, IssueOtpStep, SelectOtpStep, SaveOtpStep, FindOtpStep, ClearOtpStep
<1>4. ASSUME NEW n, Expire(n) PROVE IInv'
  BY <1>4, NoRequest DEF Expire, reqVars
<1>5. CASE MonthPasses
  BY <1>5, NoRequest DEF MonthPasses, reqVars
<1>6. CASE UNCHANGED <<accountVars, reqVars>>
  BY <1>6, NoRequest DEF accountVars, otpRows, reqVars
<1>7. QED
  BY <1>1, <1>2, <1>3, <1>4, <1>5, <1>6, NoCodeStep DEF AccountsNext

LEMMA Inductive == AccountsSpec => []IInv
BY InvInit, InvNext, PTL DEF AccountsSpec

\* POST /auth/register and /auth/reset-password: whoever is served by a code has had
\* that code validated by POST /otp/consume before.
THEOREM OtpServedAfterConsume == AccountsSpec => []ServedAfterConsume
<1>1. IInv => ServedAfterConsume
  BY DEF IInv
<1>2. QED
  BY <1>1, Inductive, PTL

LEMMA SpentOnce == IInv => CodeServesOnce
<1> SUFFICES ASSUME IInv, NEW n \in 1..MaxCalls, n \notin shared
             PROVE  ~(Cardinality(spent[n]) > 1)
  BY DEF CodeServesOnce
<1>1. CASE spent[n] = {}
  BY <1>1, FS_EmptySet
<1>2. CASE spent[n] # {}
  <2>1. PICK s : spent[n] = {s}
    BY <1>2 DEF IInv, GoneWhenSpent
  <2>2. Cardinality(spent[n]) = 1
    BY <2>1, FS_Singleton
  <2>3. QED
    BY <2>2
<1>3. QED
  BY <1>1, <1>2

\* clearOtp: a code serves one registration or one reset, unless another request held
\* its row when it was deleted.
THEOREM OtpServesOnce == AccountsSpec => []CodeServesOnce
BY SpentOnce, Inductive, PTL

-----------------------------------------------------------------------------
(* What requests hold of a user                                            *)

UserPcs == {"exists", "otp", "clear", "save", "update"}

\* The copy of a request differs from the row in the columns it has set only, save()
\* finds exactly these, and who changes the mobile may still change it.
CopyAgrees(r) ==
  r.user \notin raced =>
    /\ \A k \in Columns \ r.set : r.row[k] = users[r.user][k]
    /\ r.pc = "update" =>
         \A k \in Columns : k \in r.diff <=> r.row[k] # users[r.user][k]
    /\ "mobile" \in r.set => users[r.user].changed # month

UserCopyInv(r) ==
  r.pc \in UserPcs =>
    /\ {"pc", "op", "user", "set", "row"} \subseteq DOMAIN r
    /\ r.user \in Users /\ r.row \in User
    /\ r.pc = "update" => r.op # "register"
    /\ r.op # "register" => users[r.user] \in User /\ CopyAgrees(r)

UsersTyped ==
  /\ DOMAIN req = Clients
  /\ users \in [Users -> User \cup {None}]
  /\ intended = [u \in Users |-> intended[u]]
  /\ month \in 0..MaxMonths

UserInv ==
  /\ UsersTyped
  /\ \A c \in Clients : UserCopyInv(req[c])
  /\ ChangesHold

LEMMA NewUserType ==
  ASSUME NEW m \in Contacts, NEW p \in Passwords
  PROVE  NewUser(m, p) \in User
BY DEF NewUser, User

LEMMA UserInvInit == AccountsInit /\ RequestsInit => UserInv
<1> SUFFICES ASSUME AccountsInit, RequestsInit PROVE UserInv
  OBVIOUS
<1>1. users \in [Users -> User \cup {None}]
  BY NewUserType DEF AccountsInit
<1>2. UsersTyped
  BY <1>1, AccountsAssumption DEF UsersTyped, AccountsInit, RequestsInit
<1>3. ChangesHold
  BY DEF ChangesHold, AccountsInit
<1>4. \A c \in Clients : UserCopyInv(req[c])
  BY DEF UserCopyInv, UserPcs, RequestsInit, Idle
<1>5. QED
  BY <1>2, <1>3, <1>4 DEF UserInv

\* A request moves on, and the rows stay.
LEMMA HolderStep ==
  ASSUME UserInv, UNCHANGED <<userRows, month>>, NEW c \in Clients, NEW r,
         req' = [req EXCEPT ![c] = r], UserCopyInv(r)
  PROVE  UserInv'
<1>1. \A d \in Clients : req'[d] = IF d = c THEN r ELSE req[d]
  BY DEF UserInv, UsersTyped
<1>2. \A d \in Clients : UserCopyInv(req[d])'
  BY <1>1 DEF UserInv, UserCopyInv, CopyAgrees, userRows
<1>3. UsersTyped' /\ ChangesHold'
  BY DEF UserInv, UsersTyped, ChangesHold, userRows
<1>4. QED
  BY <1>2, <1>3 DEF UserInv

LEMMA HolderEnds ==
  ASSUME UserInv, UNCHANGED <<userRows, month>>, NEW c \in Clients,
         req' = [req EXCEPT ![c] = Idle]
  PROVE  UserInv'
<1>1. UserCopyInv(Idle)
  BY DEF UserCopyInv, UserPcs, Idle
<1>2. QED
  BY <1>1, HolderStep

\* A request with a row goes on with it.
LEMMA HolderGoes ==
  ASSUME UserInv, UNCHANGED <<userRows, month>>, NEW c \in Clients,
         NEW pc \in {"clear", "save"}, NEW r,
         req[c].pc \in UserPcs \ {"update"},
         DOMAIN r = DOMAIN req[c], r.pc = pc,
         r.op = req[c].op, r.user = req[c].user, r.set = req[c].set, r.row = req[c].row,
         req' = [req EXCEPT ![c] = r]
  PROVE  UserInv'
<1>1. UserCopyInv(req[c])
  BY DEF UserInv
<1>2. UserCopyInv(r)
  BY <1>1 DEF UserCopyInv, CopyAgrees, UserPcs
<1>3. QED
  BY <1>2, HolderStep

\* The row of a registered user with some columns set is a row.
LEMMA SetColumns ==
  ASSUME UserInv, NEW u \in Registered
  PROVE  /\ u \in Users /\ users[u] \in User /\ Row(u) \in User
         /\ \A p \in Passwords :
              /\ [Row(u) EXCEPT !.password = p] \in User
              /\ \A k \in Columns \ {"password"} : [Row(u) EXCEPT !.password = p][k] = users[u][k]
         /\ /\ [Row(u) EXCEPT !.other = ~@] \in User
            /\ \A k \in Columns \ {"other"} : [Row(u) EXCEPT !.other = ~@][k] = users[u][k]
<1>1. u \in Users /\ users[u] \in User /\ Row(u) = users[u]
  BY DEF Registered, UserInv, UsersTyped, Row
<1>2. QED
  BY <1>1 DEF User, Columns

LEMMA ArriveStep ==
  ASSUME UserInv, UNCHANGED <<userRows, month>>, NEW c \in Clients, NEW r, Arrive(c, r),
         UserCopyInv(r)
  PROVE  UserInv'
BY HolderStep DEF Arrive

LEMMA CallStep ==
  ASSUME UserInv, NEW c \in Clients,
         \/ \E u \in Users, m \in Contacts :
              \/ \E k \in Codes, p \in Passwords : Register(c, u, m, k, p)
              \/ \E padded \in BOOLEAN : UpdateProfile(c, u, m, padded)
         \/ \E u \in Users, p \in Passwords :
              UpdatePassword(c, u, p) \/ \E k \in Codes : ResetPassword(c, u, k, p)
         \/ \E u \in Users : UpdateOther(c, u)
  PROVE  UserInv'
<1>1. ASSUME NEW u \in Users, NEW m \in Contacts, NEW k \in Codes, NEW p \in Passwords,
             Register(c, u, m, k, p)
      PROVE  UserInv'
  <2>1. UserCopyInv(Cleared("register", u, m, k, NewUser(m, p)))
    BY NewUserType DEF UserCopyInv, Cleared
  <2>2. QED
    BY <1>1, <2>1, ArriveStep DEF Register
<1>2. ASSUME NEW u \in Users, NEW m \in Contacts, NEW padded \in BOOLEAN,
             UpdateProfile(c, u, m, padded)
      PROVE  UserInv'
  <2> DEFINE row == [Row(u) EXCEPT !.mobile = m, !.changed = month]
             r == [pc |-> "exists", op |-> "profile", user |-> u, padded |-> padded,
                   set |-> {"mobile", "changed"}, row |-> row]
  <2>1. users[u] \in User /\ Row(u) = users[u]
    BY <1>2, SetColumns DEF UpdateProfile, Row
  <2>2. month \in 0..MaxMonths /\ month # None
    BY AccountsAssumption DEF UserInv, UsersTyped
  <2>3. row \in User /\ \A k \in Columns \ {"mobile", "changed"} : row[k] = users[u][k]
    BY <2>1, <2>2 DEF User, Columns
  <2>4. users[u].changed # month
    BY <1>2, <2>1, <2>2 DEF UpdateProfile, Recent
  <2> HIDE DEF row
  <2>5. UserCopyInv(r)
    BY <2>1, <2>3, <2>4 DEF UserCopyInv, CopyAgrees
  <2>6. QED
    BY <1>2, <2>5, ArriveStep DEF UpdateProfile, row
<1>3. ASSUME NEW u \in Users, NEW p \in Passwords, UpdatePassword(c, u, p)
      PROVE  UserInv'
  <2> DEFINE row == [Row(u) EXCEPT !.password = p]
             r == [pc |-> "save", op |-> "password", user |-> u, set |-> {"password"}, row |-> row]
  <2>1. /\ users[u] \in User /\ row \in User
        /\ \A k \in Columns \ {"password"} : row[k] = users[u][k]
    BY <1>3, SetColumns DEF UpdatePassword
  <2> HIDE DEF row
  <2>2. UserCopyInv(r)
    BY <2>1 DEF UserCopyInv, CopyAgrees
  <2>3. QED
    BY <1>3, <2>2, ArriveStep DEF UpdatePassword, row
<1>4. ASSUME NEW u \in Users, NEW p \in Passwords, NEW k \in Codes, ResetPassword(c, u, k, p)
      PROVE  UserInv'
  <2> DEFINE row == [Row(u) EXCEPT !.password = p]
             r == Cleared("reset", u, Row(u).mobile, k, row)
  <2>1. /\ users[u] \in User /\ row \in User
        /\ \A j \in Columns \ {"password"} : row[j] = users[u][j]
    BY <1>4, SetColumns DEF ResetPassword
  <2> HIDE DEF row
  <2>2. UserCopyInv(r)
    BY <2>1 DEF UserCopyInv, CopyAgrees, Cleared
  <2>3. QED
    BY <1>4, <2>2, ArriveStep DEF ResetPassword, row
<1>5. ASSUME NEW u \in Users, UpdateOther(c, u)
      PROVE  UserInv'
  <2> DEFINE row == [Row(u) EXCEPT !.other = ~@]
             r == [pc |-> "save", op |-> "other", user |-> u, set |-> {"other"}, row |-> row]
  <2>1. /\ users[u] \in User /\ row \in User
        /\ \A k \in Columns \ {"other"} : row[k] = users[u][k]
    BY <1>5, SetColumns DEF UpdateOther
  <2> HIDE DEF row
  <2>2. UserCopyInv(r)
    BY <2>1 DEF UserCopyInv, CopyAgrees
  <2>3. QED
    BY <1>5, <2>2, ArriveStep DEF UpdateOther, row
<1>6. QED
  BY <1>1, <1>2, <1>3, <1>4, <1>5

\* The steps of a one-time password take the copy along, or have none.
LEMMA CodeStep ==
  ASSUME IInv, UserInv, NEW c \in Clients,
         \/ \E m \in Contacts : RequestOtp(c, m) \/ \E k \in Codes : ConsumeOtp(c, m, k)
         \/ IssueOtp(c) \/ SelectOtp(c) \/ SaveOtp(c) \/ FindOtp(c) \/ ClearOtp(c)
         \/ Abort(c) /\ UNCHANGED accountVars
  PROVE  UserInv'
<1>1. ASSUME NEW m \in Contacts, RequestOtp(c, m) PROVE UserInv'
  <2> DEFINE r == [pc |-> "issue", ref |-> m]
  <2>1. r.pc = "issue"
    OBVIOUS
  <2> HIDE DEF r
  <2>2. UserCopyInv(r)
    BY <2>1 DEF UserCopyInv, UserPcs
  <2>3. QED
    BY <1>1, <2>2, ArriveStep DEF RequestOtp, r
<1>2. ASSUME NEW m \in Contacts, NEW k \in Codes, ConsumeOtp(c, m, k) PROVE UserInv'
  <2>1. PICK o : Arrive(c, [pc |-> "consume", otp |-> o])
    BY <1>2 DEF ConsumeOtp
  <2> DEFINE r == [pc |-> "consume", otp |-> o]
  <2>2. r.pc = "consume"
    OBVIOUS
  <2> HIDE DEF r
  <2>3. UserCopyInv(r)
    BY <2>2 DEF UserCopyInv, UserPcs
  <2>4. QED
    BY <1>2, <2>1, <2>3, ArriveStep DEF ConsumeOtp, r
<1>3. CASE IssueOtp(c) \/ SaveOtp(c)
  BY <1>3, HolderEnds DEF IssueOtp, SaveOtp, Finish, Become
<1>4. CASE SelectOtp(c)
  <2>1. PICK pc \in {"validate", "revive"} :
          req' = [req EXCEPT ![c] = [req[c] EXCEPT !.pc = pc]]
    BY <1>4 DEF SelectOtp, Goto, Become
  <2> DEFINE r == [req[c] EXCEPT !.pc = pc]
  <2>2. "pc" \in DOMAIN req[c]
    BY DEF IInv, CodeSound
  <2>3. UserCopyInv(r)
    BY <2>2 DEF UserCopyInv, UserPcs
  <2>4. QED
    BY <1>4, <2>1, <2>3, HolderStep DEF SelectOtp
<1>5. CASE FindOtp(c)
  <2>1. CASE Finish(c)
    BY <1>5, <2>1, HolderEnds DEF FindOtp, Finish, Become
  <2>2. ASSUME NEW o, Become(c, [req[c] EXCEPT !.pc = "clear", !.otp = o])
        PROVE  UserInv'
    <3> DEFINE r == [req[c] EXCEPT !.pc = "clear", !.otp = o]
    <3>1. UserCopyInv(req[c]) /\ req[c].pc = "otp"
      BY <1>5 DEF UserInv, FindOtp
    <3>2. /\ DOMAIN r = DOMAIN req[c] /\ r.pc = "clear" /\ r.op = req[c].op
          /\ r.user = req[c].user /\ r.set = req[c].set /\ r.row = req[c].row
      BY <3>1 DEF UserCopyInv, UserPcs
    <3>3. req' = [req EXCEPT ![c] = r] /\ UNCHANGED <<userRows, month>>
      BY <1>5, <2>2 DEF FindOtp, Become
    <3> HIDE DEF r
    <3>4. QED
      BY <3>1, <3>2, <3>3, HolderGoes DEF UserPcs
  <2>3. QED
    BY <1>5, <2>1, <2>2 DEF FindOtp
<1>6. CASE ClearOtp(c)
  <2> DEFINE r == [req[c] EXCEPT !.pc = "save"]
  <2>1. UserCopyInv(req[c]) /\ req[c].pc = "clear"
    BY <1>6 DEF UserInv, ClearOtp
  <2>2. /\ DOMAIN r = DOMAIN req[c] /\ r.pc = "save" /\ r.op = req[c].op
        /\ r.user = req[c].user /\ r.set = req[c].set /\ r.row = req[c].row
    BY <2>1 DEF UserCopyInv, UserPcs
  <2>3. req' = [req EXCEPT ![c] = r] /\ UNCHANGED <<userRows, month>>
    BY <1>6 DEF ClearOtp, Goto, Become
  <2> HIDE DEF r
  <2>4. QED
    BY <2>1, <2>2, <2>3, HolderGoes DEF UserPcs
<1>7. CASE Abort(c) /\ UNCHANGED accountVars
  BY <1>7, HolderEnds DEF Abort, accountVars, userRows
<1>8. QED
  BY <1>1, <1>2, <1>3, <1>4, <1>5, <1>6, <1>7

LEMMA MobileExistsStep ==
  ASSUME UserInv, NEW c \in Clients, MobileExists(c)
  PROVE  UserInv'
<1>1. CASE Finish(c)
  BY <1>1, HolderEnds DEF MobileExists, Finish, Become
<1>2. CASE Goto(c, "save")
  <2> DEFINE r == [req[c] EXCEPT !.pc = "save"]
  <2>1. UserCopyInv(req[c]) /\ req[c].pc = "exists"
    BY DEF UserInv, MobileExists
  <2>2. /\ DOMAIN r = DOMAIN req[c] /\ r.pc = "save" /\ r.op = req[c].op
        /\ r.user = req[c].user /\ r.set = req[c].set /\ r.row = req[c].row
    BY <2>1 DEF UserCopyInv, UserPcs
  <2>3. req' = [req EXCEPT ![c] = r] /\ UNCHANGED <<userRows, month>>
    BY <1>2 DEF MobileExists, Goto, Become
  <2> HIDE DEF r
  <2>4. QED
    BY <2>1, <2>2, <2>3, HolderGoes DEF UserPcs
<1>3. QED
  BY <1>1, <1>2 DEF MobileExists

\* A new row is what the registration meant it to be, and nobody holds it.
LEMMA InsertUserStep ==
  ASSUME UserInv, NEW c \in Clients, InsertUser(c)
  PROVE  UserInv'
<1> DEFINE r == req[c]
<1>1. /\ UserCopyInv(r) /\ r.pc = "save" /\ r.user \in Users /\ r.row \in User
      /\ req' = [req EXCEPT ![c] = Idle] /\ UNCHANGED <<raced, month>>
  BY DEF UserInv, InsertUser, UserCopyInv, UserPcs, Finish, Become
<1>2. CASE users' = users
  <2>1. intended' = intended
    BY <1>2 DEF InsertUser
  <2>2. QED
    BY <1>1, <1>2, <2>1, HolderEnds DEF userRows
<1>3. CASE users' # users
  <2>1. /\ users' = [users EXCEPT ![r.user] = r.row]
        /\ intended' = [intended EXCEPT ![r.user] = r.row]
        /\ users[r.user] = None
    BY <1>1, <1>3 DEF InsertUser, Registered
  <2>2. \A d \in Clients : req'[d] = IF d = c THEN Idle ELSE req[d]
    BY <1>1 DEF UserInv, UsersTyped
  <2>3. ASSUME NEW d \in Clients PROVE UserCopyInv(req[d])'
    <3>1. CASE d = c
      BY <2>2, <3>1 DEF UserCopyInv, UserPcs, Idle
    <3>2. CASE d # c
      <4>1. req'[d] = req[d] /\ UserCopyInv(req[d])
        BY <2>2, <3>2 DEF UserInv
      <4>2. CASE req[d].pc \in UserPcs /\ req[d].op # "register"
        <5>1. req[d].user # r.user
          BY <2>1, <4>1, <4>2, AccountsAssumption DEF UserCopyInv
        <5>2. users'[req[d].user] = users[req[d].user]
          BY <2>1, <4>1, <4>2, <5>1 DEF UserCopyInv, UserInv, UsersTyped
        <5>3. QED
          BY <1>1, <4>1, <4>2, <5>2 DEF UserCopyInv, CopyAgrees
      <4>3. QED
        BY <4>1, <4>2 DEF UserCopyInv
    <3>3. QED
      BY <3>1, <3>2
  <2>4. UsersTyped'
    BY <1>1, <2>1 DEF UserInv, UsersTyped
  <2>5. ChangesHold'
    BY <1>1, <2>1 DEF UserInv, UsersTyped, ChangesHold
  <2>6. QED
    BY <2>3, <2>4, <2>5 DEF UserInv
<1>4. QED
  BY <1>2, <1>3

\* save() selects the row and finds what differs.
LEMMA SelectUserStep ==
  ASSUME UserInv, NEW c \in Clients, SelectUser(c)
  PROVE  UserInv'
<1> DEFINE q == req[c]
           diff == {k \in Columns : Row(q.user)[k] # q.row[k]}
           r == [pc |-> "update", op |-> q.op, user |-> q.user, set |-> q.set,
                 row |-> q.row, diff |-> diff]
<1>1. /\ req' = [req EXCEPT ![c] = r] /\ UNCHANGED <<userRows, month>>
      /\ q.pc = "save" /\ q.op # "register" /\ UserCopyInv(q)
  BY DEF SelectUser, Become, UserInv
<1>2. UserCopyInv(r)
  BY <1>1 DEF UserCopyInv, CopyAgrees, UserPcs, Row
<1> HIDE DEF r
<1>3. QED
  BY <1>1, <1>2, HolderStep

LEMMA MergeType ==
  ASSUME NEW old \in User, NEW new \in User, NEW cols
  PROVE  /\ Merge(old, new, cols) \in User
         /\ \A k \in Columns : Merge(old, new, cols)[k] = IF k \in cols THEN new[k] ELSE old[k]
<1> DEFINE row == Merge(old, new, cols)
<1>1. \A k \in Columns : row[k] = IF k \in cols THEN new[k] ELSE old[k]
  BY DEF Merge
<1>2. row = [mobile |-> row.mobile, password |-> row.password, changed |-> row.changed,
             other |-> row.other]
  BY DEF Merge, Columns
<1>3. /\ row.mobile \in Contacts /\ row.password \in Passwords
      /\ row.changed \in {None} \cup 0..MaxMonths /\ row.other \in BOOLEAN
  BY <1>1 DEF User, Columns
<1> HIDE DEF row
<1>4. row \in User
  BY <1>2, <1>3 DEF User
<1>5. QED
  BY <1>1, <1>4 DEF row

\* Where the copy was not overtaken, the columns that differ are those it has set.
LEMMA UpdateUserStep ==
  ASSUME UserInv, NEW c \in Clients, UpdateUser(c)
  PROVE  UserInv'
<1> DEFINE r == req[c]
           u == r.user
           row == Merge(Row(u), r.row, r.diff)
<1>1. /\ UserCopyInv(r) /\ r.pc = "update" /\ r.op # "register"
      /\ u \in Users /\ r.row \in User /\ users[u] \in User /\ CopyAgrees(r)
      /\ Row(u) = users[u]
      /\ req' = [req EXCEPT ![c] = Idle] /\ UNCHANGED month
  BY DEF UpdateUser, Finish, Become, UserInv, UserCopyInv, UserPcs, Row
<1>2. CASE UNCHANGED userRows
  BY <1>1, <1>2, HolderEnds
<1>3. CASE /\ users' = [users EXCEPT ![u] = row]
           /\ intended' = [intended EXCEPT ![u] = Merge(@, r.row, r.set)]
           /\ raced' = IF \E d \in Clients \ {c} : HoldsUser(d, u)
                       THEN raced \cup {u} ELSE raced
  <2>1. row \in User /\ \A k \in Columns : row[k] = IF k \in r.diff THEN r.row[k] ELSE users[u][k]
    BY <1>1, MergeType
  <2> HIDE DEF row
  <2>2. /\ users'[u] = row /\ users' \in [Users -> User \cup {None}]
        /\ \A v \in Users \ {u} : users'[v] = users[v]
    BY <1>1, <1>3, <2>1 DEF UserInv, UsersTyped
  <2>3. \A d \in Clients : req'[d] = IF d = c THEN Idle ELSE req[d]
    BY <1>1 DEF UserInv, UsersTyped
  <2>4. ASSUME NEW d \in Clients PROVE UserCopyInv(req[d])'
    <3>1. CASE d = c
      BY <2>3, <3>1 DEF UserCopyInv, UserPcs, Idle
    <3>2. CASE d # c
      <4>1. req'[d] = req[d] /\ UserCopyInv(req[d])
        BY <2>3, <3>2 DEF UserInv
      <4>2. CASE req[d].pc \in UserPcs /\ req[d].op # "register"
        <5>1. CASE req[d].user = u
          <6>1. u \in raced'
            BY <1>3, <3>2, <4>2, <5>1 DEF HoldsUser, UserPcs
          <6>2. QED
            BY <2>1, <2>2, <4>1, <4>2, <5>1, <6>1 DEF UserCopyInv, CopyAgrees
        <5>2. CASE req[d].user # u
          <6>1. /\ users'[req[d].user] = users[req[d].user]
                /\ req[d].user \notin raced' => req[d].user \notin raced
            BY <1>3, <2>2, <4>1, <4>2, <5>2 DEF UserCopyInv
          <6>2. QED
            BY <1>1, <4>1, <4>2, <6>1 DEF UserCopyInv, CopyAgrees
        <5>3. QED
          BY <5>1, <5>2
      <4>3. QED
        BY <4>1, <4>2 DEF UserCopyInv
    <3>3. QED
      BY <3>1, <3>2
  <2>5. intended' = [v \in Users |-> intended'[v]]
    BY <1>3 DEF UserInv, UsersTyped
  <2>6. ASSUME u \notin raced' PROVE users'[u] = intended'[u]
    <3>1. u \notin raced /\ intended[u] = users[u]
      BY <1>1, <1>3, <2>6 DEF UserInv, ChangesHold
    <3>2. intended'[u] = Merge(users[u], r.row, r.set)
      BY <1>1, <1>3, <3>1 DEF UserInv, UsersTyped
    <3>3. \A k \in Columns :
            Merge(users[u], r.row, r.set)[k] = IF k \in r.set THEN r.row[k] ELSE users[u][k]
      BY DEF Merge
    <3>4. /\ \A k \in Columns \ r.set : r.row[k] = users[u][k]
          /\ \A k \in Columns : k \in r.diff <=> r.row[k] # users[u][k]
      BY <1>1, <3>1 DEF CopyAgrees
    <3>5. \A k \in Columns : row[k] = Merge(users[u], r.row, r.set)[k]
      BY <2>1, <3>3, <3>4
    <3>6. row = Merge(users[u], r.row, r.set)
      BY <1>1, <3>5 DEF row, Merge
    <3>7. QED
      BY <2>2, <3>2, <3>6
  <2>7. ChangesHold'
    <3> SUFFICES ASSUME NEW v \in Users \ raced' PROVE users'[v] = intended'[v]
      BY DEF ChangesHold
    <3>1. CASE v = u
      BY <2>6, <3>1
    <3>2. CASE v # u
      BY <1>3, <2>2, <3>2 DEF UserInv, UsersTyped, ChangesHold
    <3>3. QED
      BY <3>1, <3>2
  <2>8. UsersTyped'
    BY <1>1, <2>2, <2>5 DEF UserInv, UsersTyped
  <2>9. QED
    BY <2>4, <2>7, <2>8 DEF UserInv
<1>4. QED
  BY <1>2, <1>3 DEF UpdateUser

LEMMA UserInvNext ==
  ASSUME IInv, UserInv, [AccountsNext]_<<accountVars, reqVars>>
  PROVE  UserInv'
<1>1. ASSUME NEW n, Expire(n) PROVE UserInv'
  BY <1>1 DEF Expire, reqVars, userRows, UserInv, UsersTyped, UserCopyInv, CopyAgrees, ChangesHold
<1>2. CASE MonthPasses
  <2>1. \A c \in Clients : req'[c] = Idle
    BY <1>2 DEF MonthPasses, reqVars, Quiescent
  <2>2. \A c \in Clients : UserCopyInv(req[c])'
    BY <2>1 DEF UserCopyInv, UserPcs, Idle
  <2>3. UsersTyped' /\ ChangesHold'
    BY <1>2, AccountsAssumption
       DEF MonthPasses, reqVars, userRows, UserInv, UsersTyped, ChangesHold
  <2>4. QED
    BY <2>2, <2>3 DEF UserInv
<1>3. CASE UNCHANGED <<accountVars, reqVars>>
  BY <1>3 DEF accountVars, reqVars, UserInv, UsersTyped, UserCopyInv, CopyAgrees, ChangesHold
<1>4. ASSUME NEW c \in Clients,
             InsertUser(c) \/ MobileExists(c) \/ SelectUser(c) \/ UpdateUser(c)
      PROVE  UserInv'
  BY <1>4, InsertUserStep, MobileExistsStep, SelectUserStep, UpdateUserStep
<1>5. QED
  BY <1>1, <1>2, <1>3, <1>4, CallStep, CodeStep DEF AccountsNext

\* users.service.ts: a change of password, mobile or profile is undone by a request
\* that held an older copy of the row across it, and by nothing else.
THEOREM ChangesAlwaysHold == AccountsSpec => []ChangesHold
<1>1. UserInv => ChangesHold
  BY DEF UserInv
<1>2. QED
  BY <1>1, InvInit, InvNext, UserInvInit, UserInvNext, PTL DEF AccountsSpec

\* A mobile that changes is one its request has set.
LEMMA MobileStep ==
  ASSUME UserInv, [AccountsNext]_<<accountVars, reqVars>>, NEW u \in Registered \ raced',
         users'[u].mobile # users[u].mobile
  PROVE  users[u].changed # month
<1>1. ASSUME UNCHANGED users PROVE FALSE
  BY <1>1
<1>2. ASSUME NEW c \in Clients, InsertUser(c) PROVE FALSE
  BY <1>2 DEF InsertUser, Registered, UserInv, UsersTyped
<1>3. ASSUME NEW c \in Clients, UpdateUser(c) PROVE users[u].changed # month
  <2> DEFINE r == req[c]
             row == Merge(Row(r.user), r.row, r.diff)
  <2>1. /\ users' = [users EXCEPT ![r.user] = row]
        /\ raced \subseteq raced'
    BY <1>1, <1>3 DEF UpdateUser, userRows
  <2>2. u = r.user /\ u \in Users /\ users'[u] = row
    BY <2>1 DEF Registered, UserInv, UsersTyped
  <2>3. /\ r.row \in User /\ users[u] \in User /\ CopyAgrees(r) /\ u \notin raced
    BY <1>3, <2>1, <2>2 DEF UpdateUser, UserInv, UserCopyInv, UserPcs
  <2>4. row.mobile = IF "mobile" \in r.diff THEN r.row.mobile ELSE users[u].mobile
    BY <2>2, <2>3 DEF Merge, Columns, Row
  <2>5. "mobile" \in r.set
    BY <2>2, <2>3, <2>4 DEF CopyAgrees, Columns
  <2>6. QED
    BY <2>2, <2>3, <2>5 DEF CopyAgrees
<1>4. ASSUME NEW c \in Clients,
             \/ \E m \in Contacts :
                  \/ RequestOtp(c, m)
                  \/ \E k \in Codes : ConsumeOtp(c, m, k)
                  \/ \E v \in Users, k \in Codes, p \in Passwords : Register(c, v, m, k, p)
                  \/ \E v \in Users, padded \in BOOLEAN : UpdateProfile(c, v, m, padded)
             \/ \E v \in Users, p \in Passwords :
                  UpdatePassword(c, v, p) \/ \E k \in Codes : ResetPassword(c, v, k, p)
             \/ \E v \in Users : UpdateOther(c, v)
      PROVE  UNCHANGED users
  BY <1>4 DEF RequestOtp, ConsumeOtp, Register, UpdateProfile, UpdatePassword, ResetPassword,
     UpdateOther, userRows
<1>5. ASSUME NEW c \in Clients,
             \/ IssueOtp(c) \/ SelectOtp(c) \/ SaveOtp(c) \/ FindOtp(c) \/ ClearOtp(c)
             \/ MobileExists(c) \/ SelectUser(c) \/ (Abort(c) /\ UNCHANGED accountVars)
      PROVE  UNCHANGED users
  BY <1>5 DEF IssueOtp, SelectOtp, SaveOtp, FindOtp, ClearOtp, MobileExists, SelectUser,
     userRows, accountVars
<1>6. CASE (\E n \in 1..MaxCalls : Expire(n)) \/ MonthPasses \/ UNCHANGED <<accountVars, reqVars>>
  BY <1>1, <1>6 DEF Expire, MonthPasses, userRows, accountVars
<1>7. QED
  BY <1>1, <1>2, <1>3, <1>4, <1>5, <1>6 DEF AccountsNext

\* updateProfile: the mobile of a user changes once in 30 days, unless two requests held
\* the row together.
THEOREM MobileChangesSettle == AccountsSpec => MobileSettles
<1>1. UserInv /\ [AccountsNext]_<<accountVars, reqVars>> =>
        [\A u \in Registered \ raced' :
           users'[u].mobile # users[u].mobile => users[u].changed # month]_users
  BY MobileStep
<1>2. QED
  BY <1>1, InvInit, InvNext, UserInvInit, UserInvNext, PTL DEF AccountsSpec, MobileSettles
=============================================================================
