CONSTANTS
  Threads = {t1, t2, t3}
  Keys = {k1, k2}
SPECIFICATION LiveSpec
INVARIANTS
  MutualExclusion
  RegistryMatchesGuards
  SleepersAreBlocked
PROPERTIES
  EveryRequestAdmitted
