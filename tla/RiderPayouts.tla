---------------------------- MODULE RiderPayouts ----------------------------
(***************************************************************************)
(* RiderPayoutsService.handleWeeklyPayouts: every week the whole balance   *)
(* of each rider who has at least MinPayout is transferred to their bank   *)
(* and then taken from the wallet that was read when the job began.        *)
(***************************************************************************)
EXTENDS WalletStore

\* mutant: no minimum
StartPayouts_all ==
  /\ req[Job].pc = "idle" /\ week < MaxWeeks
  /\ week' = week + 1
  /\ Becomes(Job, [Idle EXCEPT !.pc = "next", !.op = "payout",
       !.todo = {[user |-> u, value |-> balance[u], parts |-> parts[u]] :
                   u \in riders \cap wallets}])
  /\ UNCHANGED <<rows, money, bus, ledger, transfers, calls, faults>>

StartPayouts ==
  /\ req[Job].pc = "idle" /\ week < MaxWeeks
  /\ week' = week + 1
  /\ Becomes(Job, [Idle EXCEPT !.pc = "next", !.op = "payout",
       !.todo = {[user |-> u, value |-> balance[u], parts |-> parts[u]] :
                   u \in {v \in riders \cap wallets : balance[v] >= MinPayout}}])
  /\ UNCHANGED <<rows, money, bus, ledger, transfers, calls, faults>>

\* The next candidate of the list
NextPayout ==
  LET r == req[Job] IN
  /\ r.pc = "next"
  /\ \/ \E c \in r.todo :
          Becomes(Job, [r EXCEPT !.pc = "transfer", !.user = c.user, !.id = week,
                                 !.value = c.value, !.parts = c.parts,
                                 !.todo = @ \ {c}])
     \/ r.todo = {} /\ Becomes(Job, Idle)
  /\ UNCHANGED <<rows, money, bus, ledger, transfers, week, calls, faults>>

Transfer(r) == [user |-> r.user, id |-> r.id, amount |-> r.value]

\* recordTransaction of a payout that is given up
GiveUp(type, amount) ==
  LET r == req[Job] IN
  /\ Publish(r.user, [type |-> type, id |-> r.id, nth |-> 0, amount |-> amount,
                      status |-> "failed", cash |-> FALSE])
  /\ Finish(Job)

\* findOne found no withdrawal option.
NoOption ==
  /\ req[Job].pc = "transfer"
  /\ GiveUp("FAILED_PAYOUT", 0)
  /\ UNCHANGED <<rows, money, ledger, transfers, week, calls, faults>>

\* mutant: the payout is recorded before the wallet is debited
TransferSucceeds_recorded ==
  LET r == req[Job] IN
  /\ r.pc = "transfer"
  /\ transfers' = transfers \cup {Transfer(r)}
  /\ Publish(r.user, Row(Posting(r)))
  /\ Goto(Job, "select")
  /\ UNCHANGED <<rows, money, ledger, week, calls, faults>>

\* performExternalTransfer: the provider transfers and answers ...
TransferSucceeds ==
  LET r == req[Job] IN
  /\ r.pc = "transfer"
  /\ transfers' = transfers \cup {Transfer(r)}
  /\ Goto(Job, "select")
  /\ UNCHANGED <<rows, money, bus, ledger, week, calls, faults>>

\* ... or does not ...
TransferFails ==
  /\ req[Job].pc = "transfer"
  /\ GiveUp("ORDER_REWARD", req[Job].value)
  /\ UNCHANGED <<rows, money, ledger, transfers, week, calls, faults>>

\* mutant: the timeout is thrown, and the job goes on without a record
TransferTimesOut_thrown ==
  LET r == req[Job] IN
  /\ r.pc = "transfer"
  /\ transfers' = transfers \cup {Transfer(r)}
  /\ Finish(Job)
  /\ UNCHANGED <<rows, money, bus, ledger, week, calls, faults>>

\* ... or transfers, and the answer comes after the timeout of 20 s.
TransferTimesOut ==
  LET r == req[Job] IN
  /\ r.pc = "transfer"
  /\ transfers' = transfers \cup {Transfer(r)}
  /\ GiveUp("ORDER_REWARD", r.value)
  /\ UNCHANGED <<rows, money, ledger, week, calls, faults>>

StepPayouts ==
  NextPayout \/ NoOption \/ TransferSucceeds \/ TransferFails \/ TransferTimesOut
=============================================================================
