------------------------------ MODULE MCMoney -------------------------------
(* TLC instances of Money. *)
EXTENDS Money, TLC

CONSTANT Rebated   \* orders with an urgencyFee below zero that outweighs the rest

Priced(o, n) == IF o \in Rebated THEN -n ELSE n

MCTotal         == [o \in Orders |-> Priced(o, 3)]
MCFee           == [o \in Orders |-> Priced(o, 2)]
MCServiceCharge == [o \in Orders |-> Priced(o, 1)]

Symmetry == Permutations(Clients) \cup Permutations(Users)
=============================================================================
