\* Two drives, one spinner thread that makes two calls, every position of them
\* in the start-up script.
SPECIFICATION Spec
CONSTANTS
  SlaveCount = 2
  Control = control
  Spinners = {s1}
  Advertised <- ShippedServices
  MaxCalls = 2
  Garbage <- OneGarbage
  ResetStep = 1
  ReadyStep = 2
  SwitchOnStep = 3
  EnableStep = 4
  LastStep = 4
INVARIANTS TypeOK StopHolds AgreeWhenIdle TargetsInitialised
PROPERTIES FrameCarriesStop StopOutlivesScript
CHECK_DEADLOCK FALSE
