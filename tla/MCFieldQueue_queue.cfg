SPECIFICATION Spec
CONSTANTS
  Keys = {1, 2}
  Clients = {"page", "worker"}
  Calls = {c1, c2}
  None = None
  Mishaps = {"session"}
  MaxWrites = 2
SYMMETRY Symmetry
INVARIANTS
  DoneOnce
  SyncedIsDone
PROPERTIES
  ImplementsDelivery
