SPECIFICATION Spec
CONSTANTS
  c1 = c1
  c2 = c2
  t1 = t1
  t2 = t2
  Callers <- MCOneCaller
  Topics <- MCOneTopic
  Program <- MCSingleProgram
  MaxCalls = 2
  MaxDrops = 1
INVARIANTS
  ServerMatchesIntent
