------------------------------ MODULE Accounts ------------------------------
(***************************************************************************)
(* One-time passwords, registration, passwords and profiles: OtpService,   *)
(* RegisterUseCase, AuthService.resetPassword and UsersService.            *)
(*                                                                         *)
(* A user has one contact, the mobile; the email follows the same rules in *)
(* the code.  `other` stands for the columns that are only ever assigned:  *)
(* names, picture, address, push token.  A wrong code stands for a wrong   *)
(* type of code too.                                                       *)
(***************************************************************************)
EXTENDS Requests

CONSTANTS
  Users,       \* user ids
  Contacts,    \* mobiles, trimmed and in lower case
  Codes,       \* four-digit codes
  Passwords,   \* hashes of passwords
  MaxMonths    \* bound: periods of 30 days told apart

User == [mobile   : Contacts,
         password : Passwords,
         changed  : {None} \cup 0..MaxMonths,   \* lastMobileUpdate
         other    : BOOLEAN]

Columns == {"mobile", "password", "changed", "other"}

ASSUME AccountsAssumption ==
  /\ None \notin Users \cup Contacts \cup User \cup Nat
  /\ MaxMonths \in Nat

VARIABLES
  otps,       \* the rows of otps_entity; nr: the how-manieth code issued
  issued,     \* codes issued so far
  expired,    \* the codes whose 30 minutes are over
  users,      \* the rows of user
  month,      \* the current period of 30 days
  consumed,   \* history: codes POST /otp/consume has validated
  spent,      \* history: what each code was cleared for
  shared,     \* history: codes deleted while another request held their row
  intended,   \* history: what the handlers meant the rows of user to be
  raced       \* history: users written while another request held their row

accountVars == <<otps, issued, expired, users, month, consumed, spent, shared,
                 intended, raced>>

Otp == [nr : 1..MaxCalls, ref : Contacts, code : Codes, used : BOOLEAN]

NewUser(m, p) == [mobile |-> m, password |-> p, changed |-> None, other |-> FALSE]

Row(u) == users[u]
Registered == {u \in Users : users[u] # None}

\* What the request of c has read: a row of user, a row of otps_entity
HoldsUser(c, u) == /\ req[c].pc \in {"exists", "otp", "clear", "save", "update"}
                   /\ req[c].op # "register" /\ req[c].user = u
HoldsOtp(c, nr) == /\ req[c].pc \in {"consume", "validate", "revive", "clear"}
                   /\ req[c].otp.nr = nr

\* The instance starts at any time, with users registered before.
AccountsInit ==
  /\ otps = {} /\ issued = 0 /\ expired = {} /\ month = 0
  /\ users \in [Users -> {None} \cup {NewUser(m, p) : m \in Contacts, p \in Passwords}]
  /\ \A u, v \in Registered : Row(u).mobile = Row(v).mobile => u = v
  /\ consumed = {} /\ spent = [n \in 1..MaxCalls |-> {}] /\ shared = {}
  /\ intended = users /\ raced = {}

otpRows  == <<otps, issued, consumed, spent, shared>>
userRows == <<users, intended, raced>>

-----------------------------------------------------------------------------
(* createOtp: the old codes of the reference are deleted, a new one saved   *)

RequestOtp(c, m) ==
  /\ Arrive(c, [pc |-> "issue", ref |-> m])
  /\ otps' = {o \in otps : o.ref # m}
  /\ UNCHANGED <<issued, consumed, spent, shared, userRows, expired, month>>

IssueOtp(c) ==
  /\ req[c].pc = "issue"
  /\ issued' = issued + 1
  /\ \E k \in Codes :
       otps' = otps \cup {[nr |-> issued + 1, ref |-> req[c].ref, code |-> k,
                           used |-> FALSE]}
  /\ Finish(c)
  /\ UNCHANGED <<consumed, spent, shared, userRows, expired, month>>

\* Thirty minutes after it was issued
Expire(n) ==
  /\ n \in (1..issued) \ expired
  /\ expired' = expired \cup {n}
  /\ UNCHANGED <<otpRows, userRows, month, reqVars>>

-----------------------------------------------------------------------------
(* consumeOtp                                                               *)

Matching(m, k) == {o \in otps : o.ref = m /\ o.code = k}

Live(o) == o.nr \notin expired

ConsumeOtp(c, m, k) ==
  /\ \E o \in Matching(m, k) :
       ~o.used /\ Live(o) /\ Arrive(c, [pc |-> "consume", otp |-> o])
  /\ UNCHANGED <<otpRows, userRows, expired, month>>

\* save() selects the row by its id.  A row that is gone is inserted again.
SelectOtp(c) ==
  /\ req[c].pc = "consume"
  /\ Goto(c, IF \E o \in otps : o.nr = req[c].otp.nr THEN "validate" ELSE "revive")
  /\ UNCHANGED <<otpRows, userRows, expired, month>>

SaveOtp(c) ==
  LET o == req[c].otp
      saved == [o EXCEPT !.used = TRUE]
  IN
  /\ req[c].pc \in {"validate", "revive"}
  /\ otps' = IF req[c].pc = "revive" \/ \E x \in otps : x.nr = o.nr
             THEN {x \in otps : x.nr # o.nr} \cup {saved} ELSE otps
  /\ consumed' = consumed \cup {o.nr}
  /\ Finish(c)
  /\ UNCHANGED <<issued, spent, shared, userRows, expired, month>>

-----------------------------------------------------------------------------
(* clearOtp, on behalf of a registration or of a password reset             *)

\* mutant: any code that was sent will do
FindOtp_unused(c) ==
  LET found == Matching(req[c].ref, req[c].code) IN
  /\ req[c].pc = "otp"
  /\ IF found = {} THEN Finish(c)
     ELSE \E o \in found :
       IF Live(o) THEN Become(c, [req[c] EXCEPT !.pc = "clear", !.otp = o])
                  ELSE Finish(c)
  /\ UNCHANGED <<otpRows, userRows, expired, month>>

FindOtp(c) ==
  LET found == Matching(req[c].ref, req[c].code) IN
  /\ req[c].pc = "otp"
  /\ IF found = {} THEN Finish(c)
     ELSE \E o \in found :
       IF o.used /\ Live(o) THEN Become(c, [req[c] EXCEPT !.pc = "clear", !.otp = o])
                            ELSE Finish(c)
  /\ UNCHANGED <<otpRows, userRows, expired, month>>

\* Who is served by a code: the call, and for whom
Served(c) == [op |-> req[c].op, user |-> req[c].user, nth |-> req[c].nth]

\* mutant: the codes of the reference are left in the table
ClearOtp_kept(c) ==
  LET n == req[c].otp.nr IN
  /\ req[c].pc = "clear"
  /\ spent' = [spent EXCEPT ![n] = @ \cup {Served(c)}]
  /\ shared' = IF \E d \in Clients \ {c} : HoldsOtp(d, n) THEN shared \cup {n} ELSE shared
  /\ Goto(c, "save")
  /\ UNCHANGED <<otps, issued, consumed, userRows, expired, month>>

ClearOtp(c) ==
  LET n == req[c].otp.nr IN
  /\ req[c].pc = "clear"
  /\ otps' = {o \in otps : o.ref # req[c].ref}
  /\ spent' = [spent EXCEPT ![n] = @ \cup {Served(c)}]
  /\ shared' = IF \E d \in Clients \ {c} : HoldsOtp(d, n) THEN shared \cup {n} ELSE shared
  /\ Goto(c, "save")
  /\ UNCHANGED <<issued, consumed, userRows, expired, month>>

-----------------------------------------------------------------------------
(* RegisterUseCase.execute and AuthService.resetPassword                    *)

Taken(m) == \E u \in Registered : Row(u).mobile = m

Cleared(op, u, m, k, row) ==
  [pc |-> "otp", op |-> op, user |-> u, ref |-> m, code |-> k, otp |-> None,
   nth |-> calls, set |-> {"password"}, row |-> row]

Register(c, u, m, k, p) ==
  /\ u \notin Registered /\ ~Taken(m)
  /\ Arrive(c, Cleared("register", u, m, k, NewUser(m, p)))
  /\ UNCHANGED <<otpRows, userRows, expired, month>>

\* The user is read and the new password hashed into it before clearOtp.
ResetPassword(c, u, k, p) ==
  /\ u \in Registered
  /\ Arrive(c, Cleared("reset", u, Row(u).mobile, k, [Row(u) EXCEPT !.password = p]))
  /\ UNCHANGED <<otpRows, userRows, expired, month>>

\* save() of a new user: the mobile is unique, the second of two inserts throws.
InsertUser(c) ==
  LET r == req[c] IN
  /\ r.pc = "save" /\ r.op = "register"
  /\ users' = IF Taken(r.row.mobile) \/ r.user \in Registered THEN users
              ELSE [users EXCEPT ![r.user] = r.row]
  /\ intended' = IF users' = users THEN intended
                 ELSE [intended EXCEPT ![r.user] = r.row]
  /\ Finish(c)
  /\ UNCHANGED <<otpRows, raced, expired, month>>

-----------------------------------------------------------------------------
(* updatePassword, updateProfile, updateProfilePic, updateUserAddress and   *)
(* setPushNotificationToken read the user, assign columns and save it       *)

\* bcrypt compares and hashes between the read and the save.
UpdatePassword(c, u, p) ==
  /\ u \in Registered
  /\ Arrive(c, [pc |-> "save", op |-> "password", user |-> u, set |-> {"password"},
                row |-> [Row(u) EXCEPT !.password = p]])
  /\ UNCHANGED <<otpRows, userRows, expired, month>>

UpdateOther(c, u) ==
  /\ u \in Registered
  /\ Arrive(c, [pc |-> "save", op |-> "other", user |-> u, set |-> {"other"},
                row |-> [Row(u) EXCEPT !.other = ~@]])
  /\ UNCHANGED <<otpRows, userRows, expired, month>>

\* mutant: the mobile may be changed at any time
Recent_never(row) == FALSE

\* The mobile was changed less than 30 days ago.
Recent(row) == row.changed # None /\ row.changed = month

\* A padded input is another string than the mobile it becomes once trimmed.
UpdateProfile(c, u, m, padded) ==
  /\ u \in Registered
  /\ padded \/ m # Row(u).mobile
  /\ ~Recent(Row(u))
  /\ Arrive(c, [pc |-> "exists", op |-> "profile", user |-> u, padded |-> padded,
                set |-> {"mobile", "changed"},
                row |-> [Row(u) EXCEPT !.mobile = m, !.changed = month]])
  /\ UNCHANGED <<otpRows, userRows, expired, month>>

\* The input is looked for before it is trimmed.
MobileExists(c) ==
  /\ req[c].pc = "exists"
  /\ IF ~req[c].padded /\ Taken(req[c].row.mobile) THEN Finish(c) ELSE Goto(c, "save")
  /\ UNCHANGED <<otpRows, userRows, expired, month>>

\* mutant: the password is a column that save() leaves alone
SelectUser_hidden(c) ==
  LET r == req[c]
      diff == {k \in Columns \ {"password"} : Row(r.user)[k] # r.row[k]}
  IN
  /\ r.pc = "save" /\ r.op # "register"
  /\ Become(c, [pc |-> "update", op |-> r.op, user |-> r.user, set |-> r.set,
                row |-> r.row, diff |-> diff])
  /\ UNCHANGED <<otpRows, userRows, expired, month>>

\* save() of a known user selects it and updates the columns that differ from the
\* entity, those another request has changed since among them.
SelectUser(c) ==
  LET r == req[c]
      diff == {k \in Columns : Row(r.user)[k] # r.row[k]}
  IN
  /\ r.pc = "save" /\ r.op # "register"
  /\ Become(c, [pc |-> "update", op |-> r.op, user |-> r.user, set |-> r.set,
                row |-> r.row, diff |-> diff])
  /\ UNCHANGED <<otpRows, userRows, expired, month>>

Merge(old, new, cols) == [k \in Columns |-> IF k \in cols THEN new[k] ELSE old[k]]

UpdateUser(c) ==
  LET r == req[c]
      u == r.user
      row == Merge(Row(u), r.row, r.diff)
      clash == "mobile" \in r.diff /\ \E v \in Registered \ {u} : Row(v).mobile = r.row.mobile
  IN
  /\ r.pc = "update"
  /\ IF clash THEN UNCHANGED userRows
     ELSE /\ users' = [users EXCEPT ![u] = row]
          /\ intended' = [intended EXCEPT ![u] = Merge(@, r.row, r.set)]
          /\ raced' = IF \E d \in Clients \ {c} : HoldsUser(d, u)
                      THEN raced \cup {u} ELSE raced
  /\ Finish(c)
  /\ UNCHANGED <<otpRows, expired, month>>

MonthPasses ==
  /\ Quiescent /\ month < MaxMonths
  /\ month' = month + 1
  /\ UNCHANGED <<otpRows, userRows, expired, reqVars>>

AccountsNext ==
  \/ \E c \in Clients :
       \/ \E m \in Contacts :
            \/ RequestOtp(c, m)
            \/ \E k \in Codes : ConsumeOtp(c, m, k)
            \/ \E u \in Users, k \in Codes, p \in Passwords : Register(c, u, m, k, p)
            \/ \E u \in Users, padded \in BOOLEAN : UpdateProfile(c, u, m, padded)
       \/ \E u \in Users, p \in Passwords :
            UpdatePassword(c, u, p) \/ \E k \in Codes : ResetPassword(c, u, k, p)
       \/ \E u \in Users : UpdateOther(c, u)
       \/ IssueOtp(c) \/ SelectOtp(c) \/ SaveOtp(c) \/ FindOtp(c) \/ ClearOtp(c)
       \/ InsertUser(c) \/ MobileExists(c) \/ SelectUser(c) \/ UpdateUser(c)
       \/ Abort(c) /\ UNCHANGED accountVars
  \/ \E n \in 1..MaxCalls : Expire(n)
  \/ MonthPasses

AccountsSpec == AccountsInit /\ RequestsInit /\ [][AccountsNext]_<<accountVars, reqVars>>

-----------------------------------------------------------------------------
(* Properties                                                              *)

\* Nobody registers or resets a password with a code that has not been consumed:
\* whatever is re-sent, expires, fails or runs together, a code serves a call only
\* after POST /otp/consume has validated that very code.
ServedAfterConsume == \A n \in 1..MaxCalls : spent[n] # {} => n \in consumed

\* A code is good for one registration or one reset, unless another request held
\* its row when it was deleted: the holder may clear it a second time, or bring it
\* back by saving it.
CodeServesOnce ==
  \A n \in 1..MaxCalls : Cardinality(spent[n]) > 1 => n \in shared

\* A change of password, mobile or profile stays until the next change of that
\* column: save() writes whatever differs from the copy it was given, so only a
\* request that held an older copy of the row across the change can undo it.
ChangesHold == \A u \in Users \ raced : users[u] = intended[u]

\* The message of updateProfile: the mobile changes at most once in 30 days,
\* unless two requests held the row together.
MobileSettles ==
  [][\A u \in Registered \ raced' :
       users'[u].mobile # users[u].mobile => users[u].changed # month]_users
=============================================================================
