\* Two drives that miss every other frame, a fault and a service at any point.
SPECIFICATION Spec
CONSTANTS
  SlaveCount = 2
  Advertised <- ShippedServices
  Garbage <- SomeGarbage
  MaxMissed = 1
  MaxCalls = 2
  MaxFaults = 1
  ResetStep = 1
  ReadyStep = 3
  SwitchOnStep = 5
  EnableStep = 7
  LastStep = 8
INVARIANTS TypeOK StartupReachesOperation NoUnattendedRestart
PROPERTIES ImplementsPowerUp ResetOnEdge
CHECK_DEADLOCK FALSE
