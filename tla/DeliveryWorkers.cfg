SPECIFICATION FairSpec
CONSTANTS
  Deliveries = {d1, d2}
  Workers = {w1, w2}
  BatchSize = 2
  MaxAttempts = 2
  MaxFaults = 2
  None = None
INVARIANTS TypeOK DeliveredIsReceived DeadLetteredAtBudget
PROPERTIES DeliveriesSettle
