SPECIFICATION BoundedSpec
CONSTANTS
  Orders = {o1}
  Partners = {p1}
  Complaints = {}
  Tokens = {t1}
  None = None
  Observed = {}
  ConfirmPaths = {"webhook"}
  OtherKinds = {}
  MaxPayouts = 2
  PayRequests = {r1}
  OrderRequests = {j1}
  DeskRequests = {}
  MaxInFlight = 2
SYMMETRY Symmetry
INVARIANTS
  OnePayoutPerOrder
CHECK_DEADLOCK FALSE
