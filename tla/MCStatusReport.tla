--------------------------- MODULE MCStatusReport --------------------------
(* Instances of StatusReport for TLC: two codes, one of them in the table. *)
EXTENDS StatusReport

TwoCodes   == {"c1", "c2"}
SomeKnown  == {"c1", "none"}
SomeMemory == {"junk", "c2"}
OneCode    == {"c1"}

=============================================================================
