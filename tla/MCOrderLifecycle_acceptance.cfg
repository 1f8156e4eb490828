SPECIFICATION Spec
CONSTANTS
  Orders = {o1}
  Riders = {r1}
  Destinations = {d1}
  Clients = {c1, c2}
  Cron = Cron
  None = None
  Ops = {"create", "track", "remove", "accept", "assign"}
  Posted = {"ACCEPTED", "CANCELLED"}
  HasWallet = {}
  Steady = {r1}
  MaxTime = 5
  MaxFaults = 0
SYMMETRY Symmetry
VIEW View
INVARIANTS IInv ChargeOnce
PROPERTIES CancelSettles
