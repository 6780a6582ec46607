\* Liveness and the refinement: two drives, one spinner thread that makes one call.
SPECIFICATION FairSpec
CONSTANTS
  SlaveCount = 2
  Control = control
  Spinners = {s1}
  Advertised <- ShippedServices
  MaxCalls = 1
  Garbage <- OneGarbage
  ResetStep = 2
  ReadyStep = 3
  SwitchOnStep = 5
  EnableStep = 6
  LastStep = 7
PROPERTIES StopReachesDrives StartupEnables ImplementsPowerUp
CHECK_DEADLOCK FALSE
