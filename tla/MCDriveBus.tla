----------------------------- MODULE MCDriveBus -----------------------------
(* Instances of DriveBus for TLC. *)
EXTENDS DriveBus

\* The services manage_control advertises (controller_manager.h, 32-37).
ShippedServices ==
  {"fault_reset", "ready_to_switch_on", "switch_on", "enable_operation", "halt",
   "quick_stop"}

\* Uninitialised memory that would enable and reset.
SomeGarbage == {{0, 1, 2, 3, 7}}

=============================================================================
