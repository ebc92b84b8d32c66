SPECIFICATION Spec
CONSTANTS
  t1 = t1
  t2 = t2
  Threads <- MCThreads
  Program <- MCFixedProgram
  InitialRate <- MCDefault
  Rates <- MCNoRates
  RetryAfters <- MCRetryAfters
  Minute = 4
  Second = 2
  MaxCalls = 3
  MaxTime = 4
CHECK_DEADLOCK FALSE
INVARIANTS
  TypeOK
  SlotsSpaced
  BurstBound
  HonoursBarrier
  WaitTimeExact
PROPERTIES
  ImplementsPacer
