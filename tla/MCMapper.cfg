SPECIFICATION Spec
CONSTANTS
  None = None
  Name = {"a", "b"}
  DatabaseId = {"x"}
  MCStatements = 3
  MCIncluders = 2
  Documents <- MCDocuments
INVARIANTS
  TypeOK
  DuplicatesReported
  DialectsApart
  ResultInDocumentOrder
  DanglingExact
  EachAnomalyOnce
CHECK_DEADLOCK FALSE
