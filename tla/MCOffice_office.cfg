SPECIFICATION BoundedSpec
CONSTANTS
  Admins = {a1, a2}
  Orders = {o1}
  Partners = {p1, p2}
  Complaints = {k1}
  Cemeteries = {c1}
  Staff = {s1}
  None = None
  MaxSent = 2
  MaxPermits = 1
SYMMETRY Symmetry
VIEW Unrecorded
INVARIANTS
  ReasonIsHis
  NotesFitOutcome
PROPERTIES
  DecidedAsSeen
CHECK_DEADLOCK FALSE
