SPECIFICATION Spec
CONSTANTS
  NodeCount = 5
  BranchLimit = 4
  DepthLimit = 3
  Trees <- MCTrees
  MCFamilies = {"branching", "wrapping", "strays"}
INVARIANTS
  TypeOK
  DepthCountsLevels
  WaitingFrames
  WorklistBounded
  AlternativesWithinCap
  UnknownFlagIsScoped
  SideChannelsInDocumentOrder
PROPERTIES
  PromiseKept
  Termination
CHECK_DEADLOCK FALSE
