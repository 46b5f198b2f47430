SPECIFICATION Spec
CONSTANTS
  Files <- MCFiles
  MaxInputBytes = 22
  MCTokens = 4
  MCContent = 3
  MCFamilies = {"roots", "encodings", "marks"}
INVARIANTS
  DialectsAgree
  DecoderReproduces
  TruthBelieved
  NothingKeptQuiet
PROPERTIES
  Termination
CHECK_DEADLOCK FALSE
