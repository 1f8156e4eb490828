SPECIFICATION FairSpec
CONSTANTS
  Orders = {o1}
  Riders = {r1}
  Destinations = {d1}
  Clients = {c1, c2}
  Cron = Cron
  None = None
  Ops = {"create", "track", "decline", "assign"}
  Posted = {"ACCEPTED"}
  HasWallet = {r1}
  Steady = {r1}
  MaxTime = 3
  MaxFaults = 1
PROPERTIES OrderIsAssigned RequestsEnd
