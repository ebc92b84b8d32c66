SPECIFICATION Spec
CONSTANTS
  Settings <- MCSettings
  Frames <- MCFrames
  MaxFrames = 3
  MaxSessions = 2
CHECK_DEADLOCK FALSE
INVARIANTS
  TypeOK
  HandedOverInOrder
  HandshakeDecides
