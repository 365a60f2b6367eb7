SPECIFICATION Spec
CONSTANTS
  EventIDs = {e1, e2}
  Poison = Poison
  Endpoints = {p1}
  Replicas = {c1}
  MaxLog = 2
  MaxFaults = 0
  MaxErrors = 1
  None = None
SYMMETRY Symmetry
INVARIANTS CommittedIsHandled
CHECK_DEADLOCK FALSE
