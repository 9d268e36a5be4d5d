SPECIFICATION BoundedSpec
CONSTRAINT SteadyEntries
CONSTANTS
  Visits = {v1}
  Plots = {p1}
  Plans = {"aylik", "tek"}
  Default = "aylik"
  Steady = {}
  MaxOrders = 2
  None = None
INVARIANTS
  ConfirmationIsTrue
