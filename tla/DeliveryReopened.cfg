SPECIFICATION Spec
CONSTANTS
  Deliveries = {d1}
  Workers = {w1, w2}
  BatchSize = 1
  MaxAttempts = 2
  MaxFaults = 0
  None = None
SYMMETRY Symmetry
PROPERTIES DeliveredIsFinal
