SPECIFICATION FairSpec
CONSTANTS
  Sessions = {s1, s2}
  Keys = {k1}
  Payloads = {p1, p2}
  Headers = {h1}
  UUIDs = {u1}
  MaxRetries = 2
  MaxFaults = 1
  MaxDepartures = 1
  MaxAborts = 1
  None = None
INVARIANTS TypeOK WorkIsExclusive SuccessIsStored
PROPERTIES CompletedIsDurable KeysAreReleased StrandedForGood
