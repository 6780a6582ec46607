----------------------------- MODULE MCBringUp -----------------------------
(* Instances of BringUp for TLC. *)
EXTENDS BringUp

\* What the shipped ethercat.yaml gives of an entry, and all the settings.
Shipped   == Setting \ {"position_offset", "position_factor"}
SomeGiven == {Shipped, Setting}

=============================================================================
