\* One drive in fault, and one after it that is not.
SPECIFICATION Spec
CONSTANTS
  N = 2
  Codes <- TwoCodes
  NoError = "none"
  Known <- SomeKnown
  Garbage <- OneCode
  NoText = ""
  NotFound = "not found"
INVARIANT FaultIsReported
