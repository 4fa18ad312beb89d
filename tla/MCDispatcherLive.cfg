CONSTANTS
  Agents = {a1}
  Claims = {c1}
  Roots = {r1}
  MaxRecovered = 1
  Limit = 1
  None = none
SPECIFICATION FairSpec
PROPERTIES
  ShutdownReturns
CHECK_DEADLOCK FALSE
