CONSTANTS
  Agents = {a1, a2}
  Claims = {c1, c2}
  Roots = {r1}
  MaxRecovered = 2
  Limit = 1
  None = none
SPECIFICATION Spec
SYMMETRY Symmetry
INVARIANTS
  TypeOK
  
  ShutdownLeavesNothingInFlight
  
PROPERTIES
  NoTurnBeyondLimit
CHECK_DEADLOCK FALSE
