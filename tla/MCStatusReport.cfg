\* Three drives that fail and recover at any time.
SPECIFICATION Spec
CONSTANTS
  N = 3
  Codes <- TwoCodes
  NoError = "none"
  Known <- SomeKnown
  Garbage <- SomeMemory
  NoText = ""
  NotFound = "not found"
INVARIANTS TypeOK CodeWasHeld
