SPECIFICATION Spec
CONSTANTS
  MCLength = 3
  Letter <- MCLetter
  Tags <- MCTags
INVARIANTS
  AttributesExact
CHECK_DEADLOCK FALSE
