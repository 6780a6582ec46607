\* One drive, two spinner threads whose two calls overlap in every way, with
\* each other and with the start-up script.
SPECIFICATION Spec
CONSTANTS
  SlaveCount = 1
  Control = control
  Spinners = {s1, s2}
  Advertised <- ShippedServices
  MaxCalls = 2
  Garbage <- SomeGarbage
  ResetStep = 1
  ReadyStep = 2
  SwitchOnStep = 3
  EnableStep = 4
  LastStep = 4
SYMMETRY SpinnerSymmetry
INVARIANTS StopHolds
PROPERTY FrameCarriesStop
CHECK_DEADLOCK FALSE
