SPECIFICATION Spec
CONSTANTS
  one = one
  none = none
  NoKey = NoKey
  Scalars <- MCScalars
  TextTime <- MCTextTime
  ScalarKeys = TRUE
  MaxDepth = 4
  MaxObjects = 7
  MaxFrames = 2
CHECK_DEADLOCK FALSE
INVARIANTS
  TypeOK
PROPERTIES
  ReadsAsNested
