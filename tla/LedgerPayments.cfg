SPECIFICATION Spec
CONSTANTS
  AccountIDs = {1, 2, 3}
  Currencies = {"USD"}
  Keys = {"k1", "k2"}
  TxIDs = {t1, t2, t3, t4}
  Commands <- PaymentCommands
  Seeded <- AllSeeded
  BigIntMax = 1
  None = None
  Sessions = {s1, s2}
  LockIDs <- Slots
  KeyHash <- OwnLocks
  MaxRetries = 1
  RedisEnabled = FALSE
SYMMETRY Symmetry
INVARIANTS Inv NonNegativeBalances PaymentsAreAtomic ReversedAtMostOnce BalancesFitBigInt ReconciliationIsClean
PROPERTIES AppendOnly ImplementsAtomicLedger
