SPECIFICATION CalmSpec
CONSTANTS
  Events = {"task_completed"}
  Attempts = 1
  HasPhone = FALSE
  Contexts = {"page"}
  Referenced = FALSE
  MaxRows = 3
  MaxTaps = 2
  None = None
PROPERTIES
  PhotosAreSent
CHECK_DEADLOCK FALSE
