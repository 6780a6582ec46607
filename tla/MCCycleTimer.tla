---------------------------- MODULE MCCycleTimer ----------------------------
(* Instances of CycleTimer for TLC: a second of five nanoseconds. *)
EXTENDS CycleTimer

SomeGarbage == {[tv_sec |-> 0, tv_nsec |-> 0], [tv_sec |-> 2, tv_nsec |-> 4]}
StartRange  == 0 .. 5
SomeCycles  == {2, 7}

=============================================================================
