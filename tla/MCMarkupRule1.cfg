SPECIFICATION Spec
CONSTANTS
  Docs <- MCDocs
  MCLength = 5
  MCShort = 0
  MCFamilies = {"tagged"}
INVARIANTS
  UnclosedTagImplicitlyClosed
CHECK_DEADLOCK FALSE
