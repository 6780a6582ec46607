-------------------------- MODULE ControlLoopProps --------------------------
(***************************************************************************)
(* What the control loop and the services guarantee about each other.      *)
(***************************************************************************)
EXTENDS ControlLoop

TypeOK ==
  /\ control_word \in [Slave -> Word]
  /\ target_position \in [Slave -> Target]
  /\ outputs \in [Slave -> Pdo] /\ wire \in [Slave -> Pdo]
  /\ op \in [Thread -> MasterOps \cup {"none"}]
  /\ idx \in [Thread -> 1 .. SlaveCount + 1]
  /\ loaded \in [Thread -> Word \cup {NoWord}]
  /\ pc \in {"start", "create", "wait", "script", "copy_low", "copy_high",
             "exchange", "done"}
  /\ slot \in 1 .. SlaveCount + 1
  /\ pc \in {"copy_low", "copy_high"} => slot \in Slave
  /\ step \in 0 .. LastStep + 1
  /\ ros_ok \in BOOLEAN /\ calls \in 0 .. MaxCalls
  /\ serial \in BOOLEAN
  /\ grade \in [Thread -> {"none", "mixed", "alone"}]
  /\ stop \in [StopOps -> {"none", "raced", "held"}]
  /\ kept \subseteq StopOps

(***************************************************************************)
(* A halt or quick stop that no other kind of command overlapped is in     *)
(* effect on every slave from its reply until an assigning command is      *)
(* called, whatever other halts, quick stops and fault resets, and the     *)
(* control loop, do in between.                                            *)
(***************************************************************************)
StopHolds ==
  \A o \in StopOps : stop[o] = "held" => \A i \in Slave : Stops(o, control_word[i])

(***************************************************************************)
(* A stop that was in effect when a cycle of the loop began to copy the    *)
(* words is in the frame of that cycle, for every slave: neither the       *)
(* byte-wise copy nor a concurrent command can lose it.                    *)
(***************************************************************************)
FrameCarriesStop ==
  [][\A o \in kept : Deliver => \A i \in Slave : Stops(o, wire'[i].word)]_vars

(***************************************************************************)
(* Once the script has run its last command only an operator's call        *)
(* revokes a stop: the loop goes on for ever, but never enables the drives *)
(* a second time.  (Before, enable_operation of the script revokes it.)    *)
(***************************************************************************)
StopOutlivesScript ==
  [][\A o \in StopOps :
       stop[o] = "held" /\ step > EnableStep /\ stop'[o] # "held" => calls' > calls]_vars

(***************************************************************************)
(* As long as commands have been given one at a time, all the slaves have  *)
(* the same control word whenever none is under way: no command leaves a   *)
(* slave of the arm behind.                                                *)
(***************************************************************************)
AgreeWhenIdle ==
  serial /\ (\A t \in Thread : Idle(t)) =>
    \A i, j \in Slave : control_word[i] = control_word[j]

(***************************************************************************)
(* No drive is ever sent an uninitialised target position, although        *)
(* services may already run commands on the words while start() is still   *)
(* initialising them.                                                      *)
(***************************************************************************)
TargetsInitialised == \A i \in Slave : wire[i].target = "zero"

(***************************************************************************)
(* A stop in effect reaches all the drives, unless it is revoked or the    *)
(* loop ends.                                                              *)
(***************************************************************************)
StopReachesDrives ==
  \A o \in StopOps :
    stop[o] = "held" ~> \/ stop[o] # "held"
                        \/ pc = "done"
                        \/ \A i \in Slave : Stops(o, wire[i].word)

(***************************************************************************)
(* Left to itself the start-up script brings every drive to the word that  *)
(* enables operation.                                                      *)
(***************************************************************************)
StartupEnables ==
  <>(pc = "done" \/ calls > 0 \/ \A i \in Slave : wire[i].word = EnableWord)

(***************************************************************************)
(* The loop implements PowerUp.  The stage follows the script: the command *)
(* of a stage is complete before the copy of the cycle that counts it.     *)
(***************************************************************************)
Stage ==
  IF pc = "start" THEN 0
  ELSE IF step <= ResetStep THEN 1
  ELSE IF step <= ReadyStep THEN 2
  ELSE IF step <= SwitchOnStep THEN 3
  ELSE IF step <= EnableStep THEN 4
  ELSE 5

Abstract == INSTANCE PowerUp
  WITH stage <- Stage, sent <- [i \in Slave |-> wire[i].word], operator <- calls > 0

ImplementsPowerUp == Abstract!Spec

(***************************************************************************)
(* The reply `Quick Stop!' with success = true (asda_hardware_interface.cpp*)
(* lines 232-233, and 203-204 for halt): the stop is in effect once every  *)
(* command is over, given that nothing but halts, quick stops and resets   *)
(* overlapped it.                                                          *)
(***************************************************************************)
ReplyHonoured ==
  (\A t \in Thread : Idle(t)) =>
    \A o \in StopOps : stop[o] # "none" => \A i \in Slave : Stops(o, control_word[i])

=============================================================================
