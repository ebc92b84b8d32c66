SPECIFICATION Spec
CONSTANTS
  c1 = c1
  c2 = c2
  t1 = t1
  t2 = t2
  Callers <- MCCallers
  Topics <- MCTopics
  Program <- MCOwnProgram
  MaxCalls = 4
  MaxDrops = 2
INVARIANTS
  TypeOK
  IntentCarried
PROPERTIES
  ImplementsSession
  NoTopicReturns
  EventuallyCarried
