SPECIFICATION Spec
CONSTANTS
  Users = {u1}
  Clients = {c1, c2}
  Job = Job
  Orders = {o1}
  Payments = {p1}
  None = None
  Ops = {"register", "fund"}
  Rebated = {}
  Total <- MCTotal
  Fee <- MCFee
  ServiceCharge <- MCServiceCharge
  Paid = 4
  MinPayout = 2
  MaxWeeks = 0
  MaxRepeats = 2
  MaxCalls = 4
  MaxFaults = 0
SYMMETRY Symmetry
INVARIANTS DepositOnce
