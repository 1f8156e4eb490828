----------------------------- MODULE MCServices -----------------------------
(* The instance of Services for TLC.  Clients, passwords, files, users      *)
(* online, sockets, drivers, people, texts and bank accounts only matter up *)
(* to equality.  Components share no data, so they can share the values of  *)
(* such sets: a permutation then acts on whichever component runs.          *)
EXTENDS Services, TLC

CONSTANTS v1, v2, d1, d2, p1, p2, X, Y

\* A vehicle that asks for two documents and one that asks for the required one alone
MCAsked    == [v \in Vehicles |-> IF v = v1 THEN {d1, d2} ELSE {d1}]
MCRequired == [v \in Vehicles |-> {d1}]

\* Two spellings of one place
MCRounded == [p \in Places |-> p1]

\* Kilometres below, at, just above and far above 5 km, some with half cents
MCKilometres == {3335, 50000, 50040, 73350}
MCTrips    == {<<k>> : k \in MCKilometres} \cup {<<j, k>> : j, k \in MCKilometres}
MCTiesDown == {750, 2211550}
MCDegrees  == {-181, -180, -91, -90, 0, 3, 90, 91, 180, 181}

MCBudget ==
  [accounts |-> 4, vehicles |-> 3, documents |-> 2, presence |-> 4, selection |-> 2,
   lookups |-> 3, desk |-> 2, options |-> 4, pricing |-> 2]

\* Permuting X as well as Clients pays for itself, permuting Y no longer does.
Symmetry == Permutations(Clients) \cup Permutations(X)
=============================================================================
