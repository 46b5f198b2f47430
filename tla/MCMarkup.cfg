SPECIFICATION Spec
CONSTANTS
  Docs <- MCDocs
  MCLength = 5
  MCShort = 4
  MCFamilies = {"nested", "faulty"}
INVARIANTS
  TypeOK
  ReaderAgrees
  SpansNest
  SubtreeReadToItsEnd
  StructureOrReport
  NoFalseAlarm
  StrayElementsReported
PROPERTIES
  Termination
CHECK_DEADLOCK FALSE
