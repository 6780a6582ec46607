--------------------------- MODULE ControlLoopInv ---------------------------
(***************************************************************************)
(* The inductive invariants behind the properties of ControlLoopProps.     *)
(***************************************************************************)
EXTENDS ControlLoopProps

(***************************************************************************)
(* Which thread runs what: a word is held in a register only in the middle *)
(* of a modifying command, the control thread runs a command exactly in    *)
(* the two states that say so and never one that stops, and only           *)
(* Master::start runs "start".                                             *)
(***************************************************************************)
ThreadInv ==
  /\ \A t \in Thread : loaded[t] # NoWord => op[t] \in ModifyOps /\ idx[t] \in Slave
  /\ pc \in {"start", "script"} <=> ~Idle(Control)
  /\ pc = "start" => op[Control] = "start"
  /\ op[Control] \notin StopOps
  /\ \A t \in Thread : op[t] = "start" => t = Control /\ pc = "start"

(***************************************************************************)
(* A graded stop command runs with no assigning command, and an ungraded   *)
(* one claims nothing; one that is alone has stopped the slaves behind it. *)
(***************************************************************************)
GradeInv ==
  \A t \in Thread : grade[t] # "none" =>
    /\ op[t] \in StopOps
    /\ \A u \in Thread : op[u] \notin AssignOps
    /\ grade[t] = "alone" =>
         /\ \A u \in Thread : op[u] \in {"none", op[t]}
         /\ \A i \in Slave : i < idx[t] => Stops(op[t], control_word[i])

(***************************************************************************)
(* A stop that holds is in every word, and in every word that a thread is  *)
(* about to write back.                                                    *)
(***************************************************************************)
HeldInv ==
  \A o \in StopOps : stop[o] = "held" =>
    /\ \A i \in Slave : Stops(o, control_word[i])
    /\ \A u \in Thread :
         /\ op[u] \notin AssignOps
         /\ loaded[u] # NoWord => Stops(o, Modified(op[u], loaded[u]))

StopInv == ThreadInv /\ GradeInv /\ HeldInv

(***************************************************************************)
(* A kept stop still holds and is in the part of the image already copied. *)
(***************************************************************************)
FrameInv ==
  \A o \in kept :
    /\ stop[o] = "held"
    /\ pc \in {"copy_low", "copy_high"} =>
         \A i \in Slave : i < slot => Stops(o, outputs[i].word)
    /\ pc = "copy_high" /\ o = "quick_stop" => QuickStopBit \notin outputs[slot].word
    /\ pc = "exchange" => \A i \in Slave : Stops(o, outputs[i].word)

(***************************************************************************)
(* Targets are written in Master::start, then copied, then sent.           *)
(***************************************************************************)
TargetInv ==
  /\ \A i \in Slave : pc # "start" \/ i < idx[Control] => target_position[i] = "zero"
  /\ pc \in {"copy_low", "copy_high"} =>
       \A i \in Slave : i < slot => outputs[i].target = "zero"
  /\ pc = "exchange" => \A i \in Slave : outputs[i].target = "zero"
  /\ TargetsInitialised

(***************************************************************************)
(* With one command at a time, the slaves behind the index have its result *)
(* and those ahead share the word it found.                                *)
(***************************************************************************)
AgreeInv ==
  serial =>
    /\ \A t, u \in Thread : ~Idle(t) /\ ~Idle(u) => t = u
    /\ AgreeWhenIdle
    /\ \A t \in Thread : op[t] \in AssignOps =>
         \A i \in Slave : i < idx[t] => control_word[i] = AssignedWord(op[t])
    /\ \A t \in Thread : op[t] \in ModifyOps =>
         \E w \in Word :
           /\ \A i \in Slave :
                control_word[i] = IF i < idx[t] THEN Modified(op[t], w) ELSE w
           /\ loaded[t] \in {NoWord, w}

(***************************************************************************)
(* While no service has been called every slave has the word of the stage, *)
(* or of the next stage behind the index of a command of the script, and   *)
(* so has the part of the image already copied.                            *)
(***************************************************************************)
StageWord(k) == Abstract!Script[k]

ScriptInv ==
  /\ pc = "start" => step = 0
  /\ pc = "script" => op[Control] = ScriptOp(step)
  /\ calls = 0 => \A t \in Spinners : Idle(t)

WordInv ==
  \A i \in Slave :
    /\ pc = "start" /\ i < idx[Control] => control_word[i] = StageWord(1)
    /\ pc = "script" =>
         control_word[i] = StageWord(IF i < idx[Control] THEN Stage + 1 ELSE Stage)
    /\ pc \notin {"start", "script"} => control_word[i] = StageWord(Stage)

ImageInv ==
  /\ pc \in {"copy_low", "copy_high"} =>
       \A i \in Slave : i < slot => outputs[i].word = StageWord(Stage)
  /\ pc = "copy_high" => outputs[slot].word \cap LowByte = StageWord(Stage) \cap LowByte
  /\ pc = "exchange" => \A i \in Slave : outputs[i].word = StageWord(Stage)

PowerInv ==
  /\ ScriptInv
  /\ calls = 0 =>
       /\ WordInv /\ ImageInv
       /\ pc = "script" => loaded[Control] \in {NoWord, StageWord(Stage)}

=============================================================================
