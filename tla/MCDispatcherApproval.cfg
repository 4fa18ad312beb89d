CONSTANTS
  Agents = {a1}
  Claims = {c1}
  Roots = {r1}
  MaxRecovered = 0
  Limit = 1
  None = none
SPECIFICATION Spec
PROPERTIES
  ShutdownSparesApprovals
CHECK_DEADLOCK FALSE
