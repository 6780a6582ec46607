--------------------------- MODULE MCControlLoop ---------------------------
(* Instances of ControlLoop for TLC. *)
EXTENDS ControlLoopInv, TLC

\* The services manage_control advertises (controller_manager.h, 32-37).
ShippedServices ==
  {"fault_reset", "ready_to_switch_on", "switch_on", "enable_operation", "halt",
   "quick_stop"}

\* Uninitialised memory: all zeros, or a word that would enable and halt.
SomeGarbage == {{}, {0, 1, 3, 8}}
OneGarbage  == {{0, 1, 3, 8}}

SpinnerSymmetry == Permutations(Spinners)

=============================================================================
