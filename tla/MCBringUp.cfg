\* Every bus of two drives and list of two entries over two names.
SPECIFICATION Spec
CONSTANTS
  Names = {"A", "B"}
  NoName = "none"
  Mistyped = "mistyped"
  Given <- SomeGiven
  MaxFound = 2
  MaxEntries = 2
  MaxLost = 1
INVARIANTS TypeOK WrittenOnlyIfMatched StartedAsConfigured
CHECK_DEADLOCK FALSE
