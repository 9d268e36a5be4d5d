SPECIFICATION BoundedSpec
CONSTANTS
  Events = {"task_completed"}
  Attempts = 2
  HasPhone = FALSE
  Contexts = {"page"}
  Referenced = FALSE
  MaxRows = 5
  MaxTaps = 2
  None = None
INVARIANTS
  TypeOK
  CompletedIsReported
  StartComesFirst
  SyncedIsReviewed
  SentIsSent
PROPERTIES
  SentIsLast
CHECK_DEADLOCK FALSE
