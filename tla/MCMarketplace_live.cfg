SPECIFICATION FairBoundedSpec
CONSTANTS
  Orders = {o1}
  Partners = {p1}
  Complaints = {}
  Tokens = {t1}
  None = None
  Observed = {"order.confirm", "order_confirmed"}
  ConfirmPaths = {"callback", "webhook"}
  OtherKinds = {}
  MaxPayouts = 1
  PayRequests = {r1}
  OrderRequests = {j1}
  DeskRequests = {}
  MaxInFlight = 2
INVARIANTS
  ProcessedIsFinal
  WorkIsPaid
PROPERTIES
  PaidIsConfirmed
  UnpaidIsSettled
  ApprovalEnds
CHECK_DEADLOCK FALSE
