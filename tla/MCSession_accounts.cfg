SPECIFICATION FairSpec
CONSTANTS
  Devices = {d1, d2}
  Parts = {"page"}
  Jtis = {1, 2, 3, 4, 5, 6}
  StaffRoles = {"support_agent", "admin"}
  None = None
INVARIANTS
  TypeOK
  OneSession
PROPERTIES
  DecisionTakesHold
  OneBrowser
  NobodyNew
