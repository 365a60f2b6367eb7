SPECIFICATION FairSpec
CONSTANTS
  EventIDs = {e1, e2}
  Poison = Poison
  Endpoints = {p1, p2}
  Replicas = {c1, c2}
  MaxLog = 3
  MaxFaults = 2
  MaxErrors = 1
  None = None
INVARIANTS TypeOK SkippedOnlyByErrors
PROPERTIES EventsAreHandled
CHECK_DEADLOCK FALSE
