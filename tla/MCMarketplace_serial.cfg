SPECIFICATION SerialSpec
CONSTANTS
  Orders = {o1}
  Partners = {p1}
  Complaints = {k1}
  Tokens = {t1}
  None = None
  Observed = {"partner.approve"}
  ConfirmPaths = {"callback", "webhook"}
  OtherKinds = {}
  MaxPayouts = 1
  PayRequests = {r1}
  OrderRequests = {j1, j2}
  DeskRequests = {d1}
  MaxInFlight = 2
SYMMETRY Symmetry
INVARIANTS
  TypeOK

  
CHECK_DEADLOCK FALSE
