\* Two drives, three joints; drives at 1, -1 and -7.
SPECIFICATION Spec
CONSTANTS
  N = 2
  Joints = 3
  Octet = 1
  Bytes = 4
  Half = 8
  Factor = 3
  Positions <- SomePositions
  Garbage <- SomeGarbage
  Constructed = Constructed
INVARIANTS TypeOK ReadingNeverMixed PlannedWhenClean
