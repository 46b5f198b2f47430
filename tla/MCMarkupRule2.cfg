SPECIFICATION Spec
CONSTANTS
  Docs <- MCDocs
  MCLength = 5
  MCShort = 0
  MCFamilies = {"statements"}
INVARIANTS
  OrphanIgnored
CHECK_DEADLOCK FALSE
