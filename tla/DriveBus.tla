------------------------------ MODULE DriveBus ------------------------------
(***************************************************************************)
(* The drives behind the words: each runs the state machine of CiA 402 on  *)
(* the control words it receives, may miss frames, fail and be repaired.   *)
(* A command is here one step on one word common to all the slaves, which  *)
(* ControlLoop shows of commands that are given one at a time              *)
(* (AgreeWhenIdle); a frame carries it to some of the drives.              *)
(* The drives are not in the source: their transitions are those of the    *)
(* power drive system that the command names and words refer to.           *)
(***************************************************************************)
EXTENDS StartupScript

CONSTANTS
  SlaveCount,   \* ec_slavecount
  Advertised,   \* the commands advertised as services
  Garbage,      \* the words the uninitialised rx_pdo may hold
  MaxMissed,    \* frames in a row that a drive misses, or takes to act
  MaxCalls,     \* bound: service calls in a behaviour
  MaxFaults     \* bound: faults in a behaviour

ASSUME BusAssumption ==
  /\ SlaveCount \in Nat \ {0} /\ Garbage \subseteq Word
  /\ MaxCalls \in Nat /\ MaxFaults \in Nat /\ MaxMissed \in Nat
  /\ Advertised \subseteq MasterOps \ {"start"}

\* Every stage of the script lasts long enough for each drive to see it.
ASSUME GapAssumption ==
  /\ MaxMissed <= ResetStep /\ MaxMissed < ReadyStep - ResetStep
  /\ MaxMissed < SwitchOnStep - ReadyStep /\ MaxMissed < EnableStep - SwitchOnStep
  /\ MaxMissed <= LastStep - EnableStep

Slave      == 1 .. SlaveCount
DriveState == {"fault", "disabled", "ready", "on", "enabled", "stopping"}

VARIABLES
  word,     \* rx_pdo[i].control_word, the same for every i
  pc,       \* where the control thread is
  step,     \* step_execution_time
  drive,    \* the state of each drive
  last,     \* the word it acted on last
  missed,   \* frames it has missed since
  cause,    \* the cause of its fault is still there
  calls,    \* service calls made so far
  faults    \* faults so far
VARIABLES   \* history, read by no action
  excused,  \* drives with a fault that the script could not reset
  waiting,  \* drives that failed after the script, no enabling command since
  asked     \* failed drives without a cause when the last command, a reset, came

master  == <<word, pc, step>>
bus     == <<drive, last, missed, cause>>
history == <<excused, waiting, asked>>
vars    == <<master, bus, calls, faults, history>>

-----------------------------------------------------------------------------
(* The drive.                                                              *)

\* What a drive in state d does on a word that is no fault reset.
Command(d, w) ==
  IF 1 \notin w THEN {"disabled"}                                 \* disable voltage
  ELSE IF QuickStopBit \notin w THEN
    IF d \in {"enabled", "stopping"} THEN {"stopping"} ELSE {"disabled"}
  ELSE IF d = "stopping" THEN IF 3 \in w /\ SwitchOnBit \in w THEN {d, "enabled"} ELSE {d}
  ELSE IF SwitchOnBit \notin w THEN {"ready"}                     \* shutdown
  ELSE IF d = "disabled" THEN {d}
  ELSE IF d = "ready" THEN {"on"}                                 \* switch on
  ELSE IF 3 \in w THEN {"enabled"} ELSE {"on"}          \* enable, disable operation

\* A fault needs a rising edge from the word p it acted on last.  A drive with no
\* fault may ignore a word whose reset bit is set.
Reaction(d, p, w, c) ==
  IF d = "fault" THEN {IF FaultResetBit \in w \ p /\ ~c THEN "disabled" ELSE d}
  ELSE IF FaultResetBit \in w THEN Command(d, w) \cup {d}
  ELSE Command(d, w)

-----------------------------------------------------------------------------
\* Master::init wrote 0x0086 to every drive by SDO, and ignored the result.
Init ==
  /\ word \in Garbage
  /\ pc = "start" /\ step = 0
  /\ drive \in [Slave -> {"fault", "disabled"}]
  /\ cause \in [Slave -> BOOLEAN]
  /\ \A i \in Slave : cause[i] => drive[i] = "fault"
  /\ last = [i \in Slave |-> SdoResetWord]
  /\ missed = [i \in Slave |-> 0]
  /\ calls = 0 /\ faults = 0
  /\ excused = {} /\ waiting = {} /\ asked = {}

\* What a command makes of the word, on all the slaves; "none" is a cycle
\* without one.
Result(o, w) ==
  IF o \in AssignOps THEN AssignedWord(o)
  ELSE IF o \in ModifyOps THEN Modified(o, w)
  ELSE w

\* The loop at the head of Master::start.
Start ==
  /\ pc = "start" /\ pc' = "send"
  /\ word' = Result("start", word)
  /\ asked' = {}
  /\ UNCHANGED <<step, bus, calls, faults, excused, waiting>>

\* A cycle of control_loop up to its update().
Wake ==
  /\ pc = "wait" /\ pc' = "send"
  /\ word' = Result(ScriptOp(step), word)
  /\ step' = NextStep(step)
  /\ excused' = IF step = ResetStep THEN excused \cup {i \in Slave : cause[i]} ELSE excused
  /\ asked' = IF ScriptOp(step) = "none" THEN asked ELSE {}
  /\ UNCHANGED <<bus, calls, faults, waiting>>

\* update(): the drives in S receive the frame.
Send(S) ==
  /\ pc = "send" /\ pc' = "wait"
  /\ \A i \in Slave \ S : missed[i] < MaxMissed
  /\ drive' \in [Slave -> DriveState]
  /\ \A i \in Slave : drive'[i] \in IF i \in S THEN Reaction(drive[i], last[i], word, cause[i])
                                                ELSE {drive[i]}
  /\ last' = [i \in Slave |-> IF i \in S THEN word ELSE last[i]]
  /\ missed' = [i \in Slave |-> IF i \in S THEN 0 ELSE missed[i] + 1]
  /\ UNCHANGED <<word, step, cause, calls, faults, history>>

\* ros::ok() is false, or there is no thread.
End ==
  /\ pc = "wait" /\ pc' = "done"
  /\ UNCHANGED <<word, step, bus, calls, faults, history>>

\* A service, at any point.
ServiceCall(o) ==
  /\ calls < MaxCalls /\ calls' = calls + 1
  /\ word' = Result(o, word)
  /\ waiting' = IF 3 \in word' /\ o \in AssignOps THEN {} ELSE waiting
  /\ asked' = IF o = "fault_reset"
                THEN {i \in Slave : drive[i] = "fault" /\ ~cause[i]} ELSE {}
  /\ UNCHANGED <<pc, step, bus, faults, excused>>

Fault(i) ==
  /\ faults < MaxFaults /\ faults' = faults + 1
  /\ drive' = [drive EXCEPT ![i] = "fault"]
  /\ cause' = [cause EXCEPT ![i] = TRUE]
  /\ excused' = excused \cup {i}
  /\ waiting' = IF step > EnableStep THEN waiting \cup {i} ELSE waiting
  /\ asked' = asked \ {i}
  /\ UNCHANGED <<master, last, missed, calls>>

Repair(i) ==
  /\ cause[i]
  /\ cause' = [cause EXCEPT ![i] = FALSE]
  /\ UNCHANGED <<master, drive, last, missed, calls, faults, history>>

\* The drive has come to rest after a quick stop.
Rest(i) ==
  /\ drive[i] = "stopping"
  /\ drive' = [drive EXCEPT ![i] = "disabled"]
  /\ UNCHANGED <<master, last, missed, cause, calls, faults, history>>

Next ==
  \/ Start \/ Wake \/ End
  \/ \E S \in SUBSET Slave : Send(S)
  \/ \E o \in Advertised : ServiceCall(o)
  \/ \E i \in Slave : Fault(i) \/ Repair(i) \/ Rest(i)

Spec == Init /\ [][Next]_vars

-----------------------------------------------------------------------------
TypeOK ==
  /\ word \in Word
  /\ pc \in {"start", "send", "wait", "done"} /\ step \in 0 .. LastStep + 1
  /\ drive \in [Slave -> DriveState] /\ last \in [Slave -> Word]
  /\ missed \in [Slave -> 0 .. MaxMissed] /\ cause \in [Slave -> BOOLEAN]
  /\ calls \in Nat /\ faults \in Nat
  /\ excused \subseteq Slave /\ waiting \subseteq Slave /\ asked \subseteq Slave

(***************************************************************************)
(* The start-up works: unless an operator interferes, a drive with no      *)
(* fault that the script could not reset is enabled once the word of       *)
(* enable_operation has been sent for as long as a drive may miss frames,  *)
(* whatever it missed before, whether it was found failed or disabled, and *)
(* whatever happens to the other drives of the arm.                        *)
(***************************************************************************)
StartupReachesOperation ==
  pc = "wait" /\ step > EnableStep + MaxMissed /\ calls = 0 =>
    \A i \in Slave \ excused : drive[i] = "enabled"

(***************************************************************************)
(* A drive that fails after the script is not enabled again before an      *)
(* operator calls a command that enables, whatever resets, words still     *)
(* under way and cycles of the loop do.                                    *)
(***************************************************************************)
NoUnattendedRestart == \A i \in waiting : drive[i] # "enabled"

(***************************************************************************)
(* What each drive acts on follows the abstract start-up, also while it    *)
(* misses frames that the other drives of the arm receive.                 *)
(***************************************************************************)
Stage ==
  IF pc = "start" THEN 0
  ELSE IF step <= ResetStep THEN 1
  ELSE IF step <= ReadyStep THEN 2
  ELSE IF step <= SwitchOnStep THEN 3
  ELSE IF step <= EnableStep THEN 4
  ELSE 5

Abstract == INSTANCE PowerUp
  WITH stage <- Stage, sent <- last, operator <- calls > 0

ImplementsPowerUp == Abstract!Spec

(***************************************************************************)
(* What the reply `Fault Reset', success (asda_hardware_interface.cpp,     *)
(* 22-23) is worth: a drive whose cause is gone leaves its fault with the  *)
(* next frame that it receives, unless another command comes first, if and *)
(* only if the word it acted on last had no reset bit.  The bit stays set  *)
(* until a command assigns the word, so that of several resets in a row    *)
(* only the first is seen.                                                 *)
(***************************************************************************)
ResetOnEdge ==
  [][\A S \in SUBSET Slave : Send(S) =>
       \A i \in S \cap asked : drive[i] = "fault" =>
         (drive'[i] = "fault" <=> FaultResetBit \in last[i])]_vars

=============================================================================
