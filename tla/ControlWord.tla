---------------------------- MODULE ControlWord ----------------------------
(***************************************************************************)
(* The CiA 402 control word of a drive and what each command method of     *)
(* class Master does to it.  A word is the set of its bits that are 1, so  *)
(* that `|= mask' is union and `&= ~mask' is set difference.               *)
(***************************************************************************)
EXTENDS Naturals

Bit      == 0 .. 15
LowByte  == 0 .. 7
HighByte == 8 .. 15
Word     == SUBSET Bit

SwitchOnBit   == 0
QuickStopBit  == 2        \* 0 on the wire means: quick stop
FaultResetBit == 7
HaltBit       == 8

ReadyWord     == {1, 2}            \* 0x0006
SwitchOnWord  == {0, 1, 2}         \* 0x0007
EnableWord    == {0, 1, 2, 3}      \* 0x000F
HomingWord    == {0, 1, 2, 3, 4}   \* 0x001F
SdoResetWord  == {1, 2, 7}         \* 0x0086, written by SDO during init

(***************************************************************************)
(* Methods that assign a constant to the word of every slave: one store    *)
(* per slave.  "start" is the loop at the head of Master::start.           *)
(***************************************************************************)
AssignOps ==
  {"start", "ready_to_switch_on", "switch_on", "enable_operation", "start_homing",
   "start_cyclic_syncronous_position", "start_cyclic_syncronous_velocity"}

EnableOps ==
  {"enable_operation", "start_cyclic_syncronous_position",
   "start_cyclic_syncronous_velocity"}

AssignedWord(o) ==
  IF o = "switch_on" THEN SwitchOnWord
  ELSE IF o \in EnableOps THEN EnableWord
  ELSE IF o = "start_homing" THEN HomingWord
  ELSE ReadyWord

(***************************************************************************)
(* Methods that read the word, change one bit and write it back.           *)
(***************************************************************************)
ModifyOps == {"fault_reset", "switch_off", "halt", "quick_stop"}

\* Mutant: the reset writes 0x0086, as its SDO version does, instead of `|='.
ModifiedResetAssigns(o, w) ==
  IF o = "fault_reset" THEN SdoResetWord
  ELSE IF o = "halt" THEN w \cup {HaltBit}
  ELSE IF o = "quick_stop" THEN w \ {QuickStopBit}
  ELSE w \ {SwitchOnBit}

\* Mutant: `^=' instead of `|='.
ModifiedResetToggles(o, w) ==
  IF o = "fault_reset" THEN (w \cup {FaultResetBit}) \ (w \cap {FaultResetBit})
  ELSE IF o = "halt" THEN w \cup {HaltBit}
  ELSE IF o = "quick_stop" THEN w \ {QuickStopBit}
  ELSE w \ {SwitchOnBit}

Modified(o, w) ==
  IF o = "fault_reset" THEN w \cup {FaultResetBit}
  ELSE IF o = "halt" THEN w \cup {HaltBit}
  ELSE IF o = "quick_stop" THEN w \ {QuickStopBit}
  ELSE w \ {SwitchOnBit}

MasterOps == AssignOps \cup ModifyOps

(***************************************************************************)
(* The two commands that stop motion, and what each asks of a word.        *)
(***************************************************************************)
StopOps == {"halt", "quick_stop"}

Stops(o, w) ==
  \/ o = "halt" /\ HaltBit \in w
  \/ o = "quick_stop" /\ QuickStopBit \notin w

=============================================================================
