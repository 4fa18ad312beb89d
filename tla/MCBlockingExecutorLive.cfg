CONSTANTS
  Clients = {c1, c2}
  Workers = {w1}
  MaxJobs = 2
  MaxBytes = 2
  Sizes = {1}
  Closer = closer
SPECIFICATION LiveSpec
PROPERTIES
  ShutdownReturns
  EveryWaiterRetries
