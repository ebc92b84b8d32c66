SPECIFICATION Spec
CONSTANTS
  c1 = c1
  c2 = c2
  Callers <- MCOneCaller
  Program <- MCSequentialProgram
  Overlap = FALSE
  Policies <- MCUnlimited
  MaxAttempts = 0
  MaxCalls = 2
  MaxFaults = 1
INVARIANTS
  DisconnectStaysClosed
