\* Every way the node starts, fails and stops; and that it stops.
SPECIFICATION FairSpec
CONSTANTS
  Spinners = {s1, s2}
INVARIANTS TypeOK StopsWithinACycle ServicesUseLiveMaster SocketGivenUp UpdaterEndsFirst
PROPERTIES CyclesUseLiveHardware ShutdownIsBounded ShutdownEnds
CHECK_DEADLOCK FALSE
