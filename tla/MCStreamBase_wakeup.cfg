SPECIFICATION Spec
CONSTANTS
  c1 = c1
  c2 = c2
  Callers <- MCCallers
  Program <- MCWakeupProgram
  Overlap = TRUE
  Policies <- MCMixed
  MaxAttempts = 0
  MaxCalls = 3
  MaxFaults = 1
PROPERTIES
  ConnectNotStranded
  ShutdownReturns
