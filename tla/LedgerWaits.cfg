SPECIFICATION FairSpec
CONSTANTS
  AccountIDs = {1, 2, 3}
  Currencies = {"USD"}
  Keys = {"k1", "k2", "k3"}
  TxIDs = {t1}
  Commands <- WaitCommands
  Seeded <- AllSeeded
  BigIntMax = 3
  None = None
  Sessions = {s1, s2, s3}
  LockIDs = {1, 2}
  KeyHash <- CollidingLocks
  MaxRetries = 2
  RedisEnabled = FALSE
INVARIANTS NoDeadlock
PROPERTIES RequestsEnd
