-------------------------- MODULE MCOrderLifecycle --------------------------
(* Instances of OrderLifecycle for TLC.  The identities of clients, riders  *)
(* and destinations only matter up to equality, and start times only up to  *)
(* their order: Symmetry and View are used by every run without liveness.   *)
EXTENDS OrderViews, TLC

Symmetry ==
  Permutations(Clients) \cup Permutations(Riders) \cup Permutations(Destinations)

\* The state with its start times renumbered 0, 1, 2, ...
View ==
  LET used == Used
      Rank(t) == Cardinality({u \in used : u < t})
      Ranked(x) == [x EXCEPT !.at = Rank(@)]
  IN <<created, cash, orders, stops, delivered, gone, refused, faults,
       [o \in Orders |-> {Ranked(x) : x \in tracking[o]}],
       [o \in Orders |-> {Ranked(c) : c \in credits[o]}],
       [o \in Orders |-> {Ranked(c) : c \in charges[o]}],
       [q \in Procs |-> Ranked(req[q])]>>
=============================================================================
