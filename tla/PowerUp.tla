------------------------------ MODULE PowerUp ------------------------------
(***************************************************************************)
(* What the start-up of the arm promises, without threads, steps, bytes or *)
(* frames: the drives of the bus are sent the words of the CiA 402 state   *)
(* machine stage after stage, in their order and no others.  A drive may   *)
(* miss what is sent, once or for a whole stage, but none is ever sent the *)
(* word of a stage that is over.  Nothing is promised once an operator has *)
(* intervened.                                                             *)
(***************************************************************************)
EXTENDS ControlWord, Sequences

CONSTANT SlaveCount

VARIABLES
  stage,      \* the stage the start-up has reached
  sent,       \* the control word each drive was last sent
  operator    \* an operator has called a service

Slave == 1 .. SlaveCount

\* The word of each stage; stage 1 is Master::start.
Script ==
  << ReadyWord, Modified("fault_reset", ReadyWord), ReadyWord, SwitchOnWord, EnableWord >>

Init ==
  /\ stage = 0
  /\ sent = [i \in Slave |-> SdoResetWord]
  /\ operator = FALSE

Advance ==
  /\ stage < Len(Script)
  /\ stage' = stage + 1
  /\ UNCHANGED <<sent, operator>>

\* The drives in S receive the word of the stage.
Send(S) ==
  /\ ~operator
  /\ stage > 0
  /\ sent' = [i \in Slave |-> IF i \in S THEN Script[stage] ELSE sent[i]]
  /\ UNCHANGED <<stage, operator>>

Intervene ==
  /\ operator' = TRUE
  /\ UNCHANGED <<stage, sent>>

SendAny ==
  /\ operator
  /\ sent' \in [Slave -> Word]
  /\ UNCHANGED <<stage, operator>>

Next == Advance \/ Intervene \/ SendAny \/ \E S \in SUBSET Slave : Send(S)

Spec == Init /\ [][Next]_<<stage, sent, operator>>

=============================================================================
