SPECIFICATION FairSpec
CONSTANTS
  EventIDs = {1, 2}
  Workers = {w1, w2}
  BatchSize = 1
  MaxAttempts = 2
  MaxFaults = 1
  MaxReplays = 1
  None = None
INVARIANTS TypeOK PublishedIsOnKafka DeadLetteredAtBudget AttemptsBounded
PROPERTIES SettledIsFinal EventsSettle
