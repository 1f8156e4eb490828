SPECIFICATION Spec
CONSTANTS
  Clients = {c1, c2}
  None = None
  MaxCalls = 4
  MaxFaults = 1
  Budget <- MCBudget
  X = {x1, x2}
  Y = {y1, y2}
  Users = {u1}
  Contacts = {m1, m2}
  Codes = {k1}
  Passwords = {x1, x2}
  MaxMonths = 1
  OtherNames = {n1}
  Vehicles = {v1, v2}
  v1 = v1
  v2 = v2
  d1 = d1
  d2 = d2
  Asked <- MCAsked
  Required <- MCRequired
  Files = {x1, x2}
  Online = {x1, x2}
  Sockets = {y1, y2}
  Drivers = {x1, x2, r3}
  MaxOrders = 1
  Limit = 2
  Radius = 1
  MaxPlace = 2
  Broken = Broken
  Places = {p1, p2}
  p1 = p1
  p2 = p2
  Rounded <- MCRounded
  ShortTtl = 1
  LongTtl = 2
  MaxPeriods = 1
  People = {x1, x2}
  Texts = {y1, y2}
  Banks = {x1, x2}
  Trips <- MCTrips
  BikeRate = 2010500
  VanRate = 3000000
  Percent = 750
  UrgencyFee = 1234500
  TiesDown <- MCTiesDown
  Degrees <- MCDegrees
  NotFinite = NotFinite
SYMMETRY Symmetry
INVARIANTS ServedAfterConsume CodeServesOnce ChangesHold UpWithDefaults StatusReflectsDocuments ApprovedAsRead PresenceFollowsSockets SelectsBestRider ServedFresh DeskHolds RatedOnce DefaultDecided PaysDefault ChargeAddsUp PickupNormalized
PROPERTIES MobileSettles
CHECK_DEADLOCK FALSE
