CONSTANTS
  c1 = c1
  c2 = c2
  c3 = c3
  Conns <- MCConns
  Workloads <- MCWorkloads
  MaxSteps = 1
  MaxRounds = 2
SPECIFICATION Spec
INVARIANTS
  TokensReachTheirClient
