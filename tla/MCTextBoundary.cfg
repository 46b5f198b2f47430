SPECIFICATION Spec
CONSTANTS
  Alphabet <- MCAlphabet
  DynMarker <- MCDynMarker
  AndOr <- MCAndOr
  MCLength = 4
  MCCutLength = 3
  MCFamilies = {"scan"}
  Bodies <- MCBodies
INVARIANTS
  BoundariesMarked
CHECK_DEADLOCK FALSE
