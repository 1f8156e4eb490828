SPECIFICATION Spec
CONSTANTS
  Users = {u1, u2}
  Clients = {c1, c2}
  Job = Job
  Orders = {o1, o2}
  Payments = {p1}
  None = None
  Ops = {"register", "get", "order", "cash", "reward", "charge", "fund"}
  Rebated = {o2}
  Total <- MCTotal
  Fee <- MCFee
  ServiceCharge <- MCServiceCharge
  Paid = 4
  MinPayout = 2
  MaxWeeks = 2
  MaxRepeats = 2
  MaxCalls = 3
  MaxFaults = 1
SYMMETRY Symmetry
INVARIANTS TypeOK BalanceBounded ExactUnlessRaced NoOverdraft LedgerIsBacked LedgerIsComplete PayoutsTraced AccountBehindWallet
PROPERTIES DepositSettles
