CONSTANTS
  Root = Root
  a1 = a1
  a2 = a2
  Agents = {a1, a2}
  Parent <- MCParent
  Ancestors <- MCAncestors
  Approvers = {}
  Lease = 1
  MaxWakes = 3
  MaxScheduled = 2
  MaxClaims = 2
  MaxFaults = 1
SPECIFICATION Spec
INVARIANTS
  TypeOK
  OneActiveWakePerAgent
  OpenTraceIsOwned
  ParentWokenExactlyOnce
  ClaimHasOneOwner
  StopCoversTree
PROPERTIES
  AdmittedNeverReplayed
  ImplementsTasks
