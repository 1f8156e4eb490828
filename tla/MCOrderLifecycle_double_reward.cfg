SPECIFICATION Spec
CONSTANTS
  Orders = {o1}
  Riders = {r1}
  Destinations = {d1}
  Clients = {c1, c2}
  Cron = Cron
  None = None
  Ops = {"create", "track", "decline", "reward"}
  Posted = {"ACCEPTED", "PICKED_UP", "TRANSIT", "DELIVERED"}
  HasWallet = {r1}
  Steady = {r1}
  MaxTime = 7
  MaxFaults = 0
SYMMETRY Symmetry
VIEW View
INVARIANTS RewardOnce
