CONSTANTS
  Root = Root
  a1 = a1
  a2 = a2
  Agents = {a1, a2}
  Parent <- FlatParent
  Ancestors <- FlatAncestors
  Approvers = {}
  Lease = 1
  MaxWakes = 2
  MaxScheduled = 2
  MaxClaims = 4
  MaxFaults = 1
SPECIFICATION LiveSpec
PROPERTIES
  EveryWakeSettles
