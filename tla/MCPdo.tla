------------------------------- MODULE MCPdo -------------------------------
(* Pdo with bytes of one bit. *)
EXTENDS Pdo

\* Two words that complete each other, and memory that has bits of both.
SomeValues == {{0, 3}, {1, 2}}
SomeMemory == {{0, 1}}

=============================================================================
