SPECIFICATION FinishingSpec
CONSTANTS
  Keys = {1, 2}
  Clients = {"page", "worker"}
  Calls = {c1}
  None = None
  Mishaps = {"unsaved", "expire"}
  MaxWrites = 2
INVARIANTS
  TypeOK
  SyncedIsDone
PROPERTIES
  QueueDrains
