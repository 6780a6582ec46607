\* A cycle of a second and two fifths, so that both carries happen, and one below
\* the tolerance.
SPECIFICATION Spec
CONSTANTS
  NSEC_PER_SEC = 5
  Cycles <- SomeCycles
  Tolerance = 4
  ULONG = 128
  Garbage <- SomeGarbage
  StartTimes <- StartRange
  MaxNow = 40
  MaxEarly = 3
INVARIANTS TypeOK NoDrift AheadOnlyByInterrupts CheckIgnoresTiming
CHECK_DEADLOCK FALSE
