--------------------------- MODULE StartupScript ---------------------------
(***************************************************************************)
(* The start-up script of control_loop: which command runs at which step.  *)
(***************************************************************************)
EXTENDS ControlWord

CONSTANTS
  ResetStep, ReadyStep, SwitchOnStep, EnableStep, LastStep
                \* 50, 100, 200, 400 and 500 in control_loop

ASSUME StepAssumption   ==
  /\ {ResetStep, ReadyStep, SwitchOnStep, EnableStep, LastStep} \subseteq Nat \ {0}
  /\ ResetStep < ReadyStep /\ ReadyStep < SwitchOnStep
  /\ SwitchOnStep < EnableStep /\ EnableStep <= LastStep

\* Mutant: the steps of switch_on and enable_operation swapped.
ScriptOpSwapped(s) ==
  IF s = ResetStep THEN "fault_reset"
  ELSE IF s = ReadyStep THEN "ready_to_switch_on"
  ELSE IF s = SwitchOnStep THEN "enable_operation"
  ELSE IF s = EnableStep THEN "switch_on"
  ELSE "none"

\* Mutant: the last command tests `>=', as the branch of step 500 does.
ScriptOpRepeats(s) ==
  IF s = ResetStep THEN "fault_reset"
  ELSE IF s = ReadyStep THEN "ready_to_switch_on"
  ELSE IF s = SwitchOnStep THEN "switch_on"
  ELSE IF s >= EnableStep THEN "enable_operation"
  ELSE "none"

ScriptOp(s) ==
  IF s = ResetStep THEN "fault_reset"
  ELSE IF s = ReadyStep THEN "ready_to_switch_on"
  ELSE IF s = SwitchOnStep THEN "switch_on"
  ELSE IF s = EnableStep THEN "enable_operation"
  ELSE "none"

\* Mutant: the counter wraps at its end.
NextStepWraps(s) == IF s <= LastStep THEN s + 1 ELSE 0

\* Mutant: it does not saturate.
NextStepUnbounded(s) == s + 1

\* step_execution_time counts the cycles and saturates.
NextStep(s) == IF s <= LastStep THEN s + 1 ELSE s

=============================================================================
