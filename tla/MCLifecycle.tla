---------------------------- MODULE MCLifecycle ----------------------------
(* Lifecycle with the two spinner threads of the node. *)
EXTENDS Lifecycle

=============================================================================
