SPECIFICATION Spec
CONSTANTS
  c1 = c1
  c2 = c2
  Callers <- MCOneCaller
  Program <- MCConnectProgram
  Overlap = FALSE
  Policies <- MCUnlimited
  MaxAttempts = 0
  MaxCalls = 1
  MaxFaults = 4
INVARIANTS
  ReconnectOpensClosedSocket
  ReadyIsLive
  SessionShown
PROPERTIES
  ImplementsSession
  Reestablished
