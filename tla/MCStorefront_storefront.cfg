SPECIFICATION BoundedSpec
CONSTRAINT SteadyEntries
CONSTANTS
  Visits = {v1, v2}
  Plots = {p1}
  Plans = {"aylik", "tek"}
  Default = "aylik"
  Steady = {v2}
  MaxOrders = 2
  None = None
INVARIANTS
  NumbersDiffer
PROPERTIES
  OrderedAsEntered
  RetryKeepsOrder
