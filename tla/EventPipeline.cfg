SPECIFICATION FairSpec
CONSTANTS
  EventIDs = {1}
  Endpoints = {p1}
  Publishers = {w1}
  Replicas = {r1}
  OutboxBatch = 1
  OutboxAttempts = 2
  WebhookBatch = 1
  WebhookAttempts = 2
  MaxFaults = 1
  MaxReplays = 1
  MaxErrors = 1
  Poison = Poison
  None = None
INVARIANTS PublishedIsInFlight
PROPERTIES KeepsPromise EventsReachEndpoints
