SPECIFICATION Spec
CONSTANTS
  Files <- MCFiles
  MaxInputBytes = 22
  MCTokens = 0
  MCContent = 0
  MCFamilies = {"marks"}
INVARIANTS
  DialectGuaranteed
CHECK_DEADLOCK FALSE
