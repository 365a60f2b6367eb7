SPECIFICATION Spec
CONSTANTS
  Sessions = {s1}
  Keys = {k1}
  Payloads = {p1}
  Headers = {h1}
  UUIDs = {u1, u2}
  MaxRetries = 1
  MaxFaults = 0
  MaxDepartures = 0
  MaxAborts = 0
  None = None
INVARIANTS RetriesAreRecognised
