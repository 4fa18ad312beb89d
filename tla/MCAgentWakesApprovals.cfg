CONSTANTS
  Root = Root
  a1 = a1
  a2 = a2
  Agents = {a1, a2}
  Parent <- MCParent
  Ancestors <- MCAncestors
  Approvers = {a1, a2}
  Lease = 2
  MaxWakes = 2
  MaxScheduled = 1
  MaxClaims = 3
  MaxFaults = 1
SPECIFICATION Spec
INVARIANTS
  OutcomePreserved
  OneRuntimePerTurn
PROPERTIES
  TerminalIsFinal
  StoppedNeverCompletes
  LiveClaimNotStolen
