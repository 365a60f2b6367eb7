SPECIFICATION Spec
CONSTANTS
  Migrators = {m1, m2}
  Versions = {1}
  MaxFaults = 1
INVARIANTS MigrationsAreAtomic
