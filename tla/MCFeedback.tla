----------------------------- MODULE MCFeedback -----------------------------
(* Instances of Feedback for TLC: int32 is four bytes of one bit, -8 .. 7. *)
EXTENDS Feedback

\* 1, -1 and -7, of which three times the last does not fit; and 4.
SomePositions == {{0}, {0, 1, 2, 3}, {0, 3}}
SomeGarbage   == {{2}}

=============================================================================
