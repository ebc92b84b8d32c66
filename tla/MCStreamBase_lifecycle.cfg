SPECIFICATION Spec
CONSTANTS
  c1 = c1
  c2 = c2
  Callers <- MCCallers
  Program <- MCLifecycleProgram
  Overlap = FALSE
  Policies <- MCLimited
  MaxAttempts = 2
  MaxCalls = 3
  MaxFaults = 2
INVARIANTS
  TypeOK
  AttemptsBounded
  CloseCancelsPending
  ShutdownIsFinal
