SPECIFICATION Spec
CONSTANTS
  AccountIDs = {1, 2, 3}
  Currencies = {"USD", "EUR"}
  Keys = {"k1"}
  TxIDs = {t1, t2, t3}
  Commands <- RetryCommands
  Seeded <- LastMissing
  BigIntMax = 3
  None = None
  Sessions = {s1, s2}
  LockIDs <- Slots
  KeyHash <- OwnLocks
  MaxRetries = 2
  RedisEnabled = TRUE
SYMMETRY Symmetry
INVARIANTS TypeOK RepliesAreDurable CacheAgreesWithTable PaymentsAreAtomic
PROPERTIES AppendOnly ImplementsAtomicLedger
