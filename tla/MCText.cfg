SPECIFICATION Spec
CONSTANTS
  Alphabet <- MCAlphabet
  DynMarker <- MCDynMarker
  AndOr <- MCAndOr
  MCLength = 4
  MCCutLength = 3
  MCFamilies = {"scan", "wrap"}
  Bodies <- MCBodies
INVARIANTS
  TypeOK
  SpanMapsSound
  TracesBack
  PathSpansExact
PROPERTIES
  PromiseKept
  WrapsWhole
CHECK_DEADLOCK FALSE
