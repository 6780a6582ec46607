\* A stop races with another command that modifies the words: its reply is not
\* honoured.
SPECIFICATION Spec
CONSTANTS
  SlaveCount = 1
  Control = control
  Spinners = {s1, s2}
  Advertised <- ShippedServices
  MaxCalls = 2
  Garbage <- SomeGarbage
  ResetStep = 1
  ReadyStep = 2
  SwitchOnStep = 3
  EnableStep = 4
  LastStep = 4
INVARIANT ReplyHonoured
CHECK_DEADLOCK FALSE
