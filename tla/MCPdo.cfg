\* The structures without torque, for one drive and two.
SPECIFICATION Spec
CONSTANTS
  N = 2
  Octet = 1
  Values <- SomeValues
  Memory <- SomeMemory
INVARIANTS TypeOK OutputsInPlace ReportTaken
