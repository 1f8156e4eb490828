-------------------------- MODULE WithdrawalOptions --------------------------
(***************************************************************************)
(* The bank accounts of one rider: WithdrawalOptionsService, and the       *)
(* option handleWeeklyPayouts takes, which is any the rider has.           *)
(***************************************************************************)
EXTENDS Requests

CONSTANT Banks   \* accounts: a bank and an account number, unique for the rider

VARIABLES
  options,   \* the rows: [id, bank, isDefault]
  paid,      \* history: the option the last payout took, decided and doubled then
  alone,     \* history: one request at most since all were idle
  decided,   \* history: the option the last request, alone and complete, made default
  doubled    \* history: requests have overlapped since the rider had no option

optionVars == <<options, paid, alone, decided, doubled>>

OptionRow == [id : 0..MaxCalls, bank : Banks, isDefault : BOOLEAN]

OptionsInit ==
  /\ options \in {{}} \cup {{[id |-> 0, bank |-> b, isDefault |-> TRUE]} : b \in Banks}
  /\ paid = [option |-> None, decided |-> None, doubled |-> FALSE]
  /\ alone = TRUE /\ doubled = FALSE
  /\ decided = IF options = {} THEN None ELSE 0

OptionAt(id) == {o \in options : o.id = id}

\* A request goes on alone, or in the company of others.
Enter(c, r) ==
  /\ Arrive(c, r)
  /\ alone' = Quiescent
  /\ decided' = IF Quiescent THEN decided ELSE None
  /\ doubled' = (~Quiescent \/ (doubled /\ options # {}))
  /\ UNCHANGED <<options, paid>>

\* The request of c ends, and id is the default from now on.
Leave(c, id) ==
  /\ Finish(c)
  /\ decided' = IF alone THEN id ELSE None
  /\ UNCHANGED <<alone, doubled, paid>>

Proceed(c, r) == Become(c, r) /\ UNCHANGED <<alone, decided, doubled, paid>>

-----------------------------------------------------------------------------
(* create: no option yet; the first one is the default.                     *)

\* mutant: an option is refused only if it is there already
CreateOption_more(c, b) ==
  /\ \A o \in options : o.bank # b
  /\ Enter(c, [pc |-> "count", id |-> calls + 1, bank |-> b])

CreateOption(c, b) ==
  /\ options = {}
  /\ Enter(c, [pc |-> "count", id |-> calls + 1, bank |-> b])

CountOptions(c) ==
  /\ req[c].pc = "count"
  /\ Proceed(c, [pc |-> "insertOption",
                 row |-> [id |-> req[c].id, bank |-> req[c].bank,
                          isDefault |-> options = {}]])
  /\ UNCHANGED options

Clash(row) == \E o \in options : o.id # row.id /\ o.bank = row.bank

InsertOption(c) ==
  LET row == req[c].row IN
  /\ req[c].pc = "insertOption"
  /\ IF Clash(row) \/ OptionAt(row.id) # {} THEN Leave(c, None) /\ UNCHANGED options
     ELSE options' = options \cup {row} /\ Leave(c, row.id)

-----------------------------------------------------------------------------
(* update, remove and setDefault find the option first.                     *)

UpdateOption(c, o, b) ==
  Enter(c, [pc |-> "selectOption", row |-> [o EXCEPT !.bank = b], means |-> decided])

RemoveOption(c, o) == Enter(c, [pc |-> "removeOption", row |-> o])

SetDefault(c, o) ==
  Enter(c, [pc |-> "unset", row |-> [o EXCEPT !.isDefault = TRUE], means |-> o.id])

DeleteOption(c) ==
  LET id == req[c].row.id IN
  /\ req[c].pc = "removeOption"
  /\ options' = options \ OptionAt(id)
  /\ Leave(c, IF decided = id THEN None ELSE decided)

\* mutant: the old default is left
Unset_kept(c) ==
  /\ req[c].pc = "unset"
  /\ Proceed(c, [req[c] EXCEPT !.pc = "selectOption"])
  /\ UNCHANGED options

Unset(c) ==
  /\ req[c].pc = "unset"
  /\ options' = {[o EXCEPT !.isDefault = FALSE] : o \in options}
  /\ Proceed(c, [req[c] EXCEPT !.pc = "selectOption"])

\* save(): the row is selected, and what differs is updated, or inserted if it is gone.
SelectOption(c) ==
  LET row == req[c].row
      old == OptionAt(row.id)
  IN
  /\ req[c].pc = "selectOption"
  /\ Proceed(c, IF old = {} THEN [pc |-> "insertOption", row |-> row]
                ELSE [pc |-> "updateOption", row |-> row, means |-> req[c].means,
                      cols |-> {k \in {"bank", "isDefault"} : \E o \in old : o[k] # row[k]}])
  /\ UNCHANGED options

UpdateRow(c) ==
  LET row == req[c].row
      cols == req[c].cols
      written(o) == [o EXCEPT !.bank = IF "bank" \in cols THEN row.bank ELSE @,
                              !.isDefault = IF "isDefault" \in cols THEN row.isDefault ELSE @]
  IN
  /\ req[c].pc = "updateOption"
  /\ IF "bank" \in cols /\ Clash(row) THEN Leave(c, None) /\ UNCHANGED options
     ELSE /\ options' = (options \ OptionAt(row.id)) \cup {written(o) : o \in OptionAt(row.id)}
          /\ Leave(c, req[c].means)

OptionRequestFails(c) ==
  /\ Abort(c)
  /\ decided' = None
  /\ UNCHANGED <<options, paid, alone, doubled>>

-----------------------------------------------------------------------------
\* The payout job: findOne without an order, whichever requests are served.
PayOut(o) ==
  /\ paid' = [option |-> o.id, decided |-> decided, doubled |-> doubled]
  /\ UNCHANGED <<options, alone, decided, doubled, reqVars>>

OptionsNext ==
  \/ \E c \in Clients :
       \/ \E b \in Banks : CreateOption(c, b) \/ \E o \in options : UpdateOption(c, o, b)
       \/ \E o \in options : RemoveOption(c, o) \/ SetDefault(c, o)
       \/ CountOptions(c) \/ InsertOption(c) \/ DeleteOption(c) \/ Unset(c)
       \/ SelectOption(c) \/ UpdateRow(c) \/ OptionRequestFails(c)
  \/ \E o \in options : PayOut(o)

OptionsSpec == OptionsInit /\ RequestsInit /\ [][OptionsNext]_<<optionVars, reqVars>>

-----------------------------------------------------------------------------
(* Properties                                                              *)

\* A request that ran alone and to its end leaves the one default it meant, whatever
\* overlapped or was cut off before it: a setDefault that was cut between clearing the
\* old default and saving the new one is repaired by the next, and of two first options
\* that were inserted together one stays.
DefaultDecided ==
  Quiescent /\ decided # None => {o.id : o \in {x \in options : x.isDefault}} = {decided}

\* Payouts go to the default option, though the job asks for any option ("pick default
\* withdrawal option (bank account) for rider, fallback to any"): a second option is
\* refused, so there is no other unless requests had overlapped.
PaysDefault ==
  paid.decided # None /\ ~paid.doubled => paid.option = paid.decided
=============================================================================
