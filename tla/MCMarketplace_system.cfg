SPECIFICATION BoundedSpec
CONSTANTS
  Orders = {o1}
  Partners = {p1}
  Complaints = {k1}
  Tokens = {t1}
  None = None
  Observed = {}
  ConfirmPaths = {"webhook"}
  OtherKinds = {}
  MaxPayouts = 1
  PayRequests = {r1}
  OrderRequests = {j1}
  DeskRequests = {d1}
  MaxInFlight = 2
SYMMETRY Symmetry
INVARIANTS
  DoneIsEvidenced
  PayoutIsEarned
  RefundedIsReturned
  DisputedHasComplaint
  ReturnedHasComplaint
PROPERTIES
  ImplementsSettlement
CHECK_DEADLOCK FALSE
