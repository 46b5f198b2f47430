SPECIFICATION Spec
CONSTANTS
  NodeCount = 5
  DepthLimit = 2
  MCLeafKinds = {"text", "column", "nested", "case"}
  Trees <- MCTrees
INVARIANTS
  TypeOK
  DepthCountsBodies
  WorklistBounded
  MappingsExact
PROPERTIES
  Termination
CHECK_DEADLOCK FALSE
