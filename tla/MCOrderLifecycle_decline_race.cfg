SPECIFICATION Spec
CONSTANTS
  Orders = {o1}
  Riders = {r1, r2}
  Destinations = {d1}
  Clients = {c1, c2}
  Cron = Cron
  None = None
  Ops = {"create", "decline", "assign"}
  Posted = {}
  HasWallet = {r1, r2}
  Steady = {r1, r2}
  MaxTime = 7
  MaxFaults = 0
SYMMETRY Symmetry
VIEW View
INVARIANTS DeclineIsRespected
