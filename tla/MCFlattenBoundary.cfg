SPECIFICATION Spec
CONSTANTS
  NodeCount = 5
  BranchLimit = 3
  DepthLimit = 3
  Trees <- MCTrees
  MCFamilies = {"boundary"}
INVARIANTS
  BoundaryIncludesReported
CHECK_DEADLOCK FALSE
