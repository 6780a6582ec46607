---------------------------- MODULE ControlLoop ----------------------------
(***************************************************************************)
(* The process data of the EtherCAT master, shared without a lock by       *)
(*   - the control thread: ServoHW::start / Master::start on the main      *)
(*     thread, which then hands over to control_loop on its own thread;    *)
(*   - the spinner threads, which run the ROS services: each calls one     *)
(*     command method of Master on all the slaves.                         *)
(* A store is atomic; `control_word |= x' is a load and a store, and the   *)
(* serialisation of a word reads its two bytes separately.                 *)
(***************************************************************************)
EXTENDS StartupScript

CONSTANTS
  SlaveCount,   \* ec_slavecount, the drives found on the bus
  Control,      \* the control thread
  Spinners,     \* threads of ros::AsyncSpinner spinner(2, ...)
  Advertised,   \* the commands advertised as services
  MaxCalls,     \* bound: service calls in a behaviour
  Garbage       \* the words the uninitialised rx_pdo may hold

ASSUME ThreadAssumption == Control \notin Spinners
ASSUME SlaveAssumption  == SlaveCount \in Nat \ {0}
ASSUME WordAssumption   == Garbage \subseteq Word
ASSUME CallAssumption   ==
  MaxCalls \in Nat /\ Advertised \subseteq MasterOps \ {"start"}

Slave  == 1 .. SlaveCount
Thread == Spinners \cup {Control}
Target == {"zero", "indeterminate"}   \* what target_position can hold
Pdo    == [word : Word, target : Target]
NoWord == {16}                        \* nothing loaded: a word has no bit 16

VARIABLES
  control_word,     \* rx_pdo[i].control_word
  target_position,  \* rx_pdo[i].target_position
  outputs,          \* ec_slave[i].outputs, the process image
  wire,             \* what drive i has last been commanded
  op,               \* the command each thread is running, or "none"
  idx,              \* its loop index
  loaded,           \* the word it has read and not yet written back
  pc,               \* where the control thread is
  slot,             \* loop index of Master::update
  step,             \* step_execution_time
  ros_ok,           \* ros::ok()
  calls             \* service calls made so far
VARIABLES           \* history, read by no action
  serial,           \* no two commands have ever overlapped
  grade,            \* what has overlapped each thread's stop command
  stop,             \* what became of the last halt and quick_stop
  kept              \* stops that held when this cycle's copy began

shared  == <<control_word, target_position>>
image   == <<outputs, wire>>
running == <<op, idx, loaded>>
cycle   == <<pc, slot, step>>
history == <<serial, grade, stop, kept>>
vars    == <<shared, image, running, cycle, ros_ok, calls, history>>

Idle(t) == op[t] = "none"

-----------------------------------------------------------------------------
(***************************************************************************)
(* When manage_control has advertised the services and calls start() the   *)
(* spinners are already running, and nothing has written rx_pdo.           *)
(***************************************************************************)
Init ==
  /\ control_word \in [Slave -> Garbage]
  /\ target_position = [i \in Slave |-> "indeterminate"]
  /\ outputs = [i \in Slave |-> [word |-> {}, target |-> "indeterminate"]]
  /\ wire = [i \in Slave |-> [word |-> SdoResetWord, target |-> "zero"]]
  /\ op = [t \in Thread |-> IF t = Control THEN "start" ELSE "none"]
  /\ idx = [t \in Thread |-> 1]
  /\ loaded = [t \in Thread |-> NoWord]
  /\ pc = "start" /\ slot = 1 /\ step = 0
  /\ ros_ok = TRUE /\ calls = 0
  /\ serial = TRUE /\ kept = {}
  /\ grade = [t \in Thread |-> "none"]
  /\ stop = [o \in StopOps |-> "none"]

-----------------------------------------------------------------------------
(* The command methods, the same for every thread.                         *)

\* A stop command is "alone" while only stops of its own kind overlap it,
\* "mixed" once another modifying command does, nothing once an assigning
\* command does.
Grade(t, o) ==
  IF o \notin StopOps \/ \E u \in Thread : op[u] \in AssignOps THEN "none"
  ELSE IF \A u \in Thread : op[u] \in {"none", o} THEN "alone"
  ELSE "mixed"

Disturbed(u, o) ==
  IF o = op[u] \/ grade[u] = "none" THEN grade[u]
  ELSE IF o \in AssignOps THEN "none"
  ELSE "mixed"

\* The call.  An assigning command revokes every stop.
Enter(t, o) ==
  /\ op' = [op EXCEPT ![t] = o]
  /\ idx' = [idx EXCEPT ![t] = 1]
  /\ serial' = (serial /\ \A u \in Thread : Idle(u))
  /\ grade' = [u \in Thread |-> IF u = t THEN Grade(t, o) ELSE Disturbed(u, o)]
  /\ stop' = IF o \in AssignOps THEN [p \in StopOps |-> "none"] ELSE stop
  /\ kept' = IF o \in AssignOps THEN {} ELSE kept

Load(t) ==
  /\ op[t] \in ModifyOps
  /\ idx[t] \in Slave
  /\ loaded[t] = NoWord
  /\ loaded' = [loaded EXCEPT ![t] = control_word[idx[t]]]
  /\ UNCHANGED <<shared, image, op, idx, cycle, ros_ok, calls, history>>

StoreModified(t) ==
  /\ op[t] \in ModifyOps
  /\ idx[t] \in Slave
  /\ loaded[t] # NoWord
  /\ control_word' = [control_word EXCEPT ![idx[t]] = Modified(op[t], loaded[t])]
  /\ loaded' = [loaded EXCEPT ![t] = NoWord]
  /\ idx' = [idx EXCEPT ![t] = @ + 1]
  /\ UNCHANGED <<target_position, image, op, cycle, ros_ok, calls, history>>

\* Mutant: start() leaves the targets alone.
StoreAssignedNoTarget(t) ==
  /\ op[t] \in AssignOps
  /\ idx[t] \in Slave
  /\ control_word' = [control_word EXCEPT ![idx[t]] = AssignedWord(op[t])]
  /\ idx' = [idx EXCEPT ![t] = @ + 1]
  /\ UNCHANGED <<target_position, image, op, loaded, cycle, ros_ok, calls, history>>

StoreAssigned(t) ==
  /\ op[t] \in AssignOps
  /\ idx[t] \in Slave
  /\ control_word' = [control_word EXCEPT ![idx[t]] = AssignedWord(op[t])]
  /\ target_position' = IF op[t] = "start"
                          THEN [target_position EXCEPT ![idx[t]] = "zero"]
                          ELSE target_position
  /\ idx' = [idx EXCEPT ![t] = @ + 1]
  /\ UNCHANGED <<image, op, loaded, cycle, ros_ok, calls, history>>

Command(t) == Load(t) \/ StoreModified(t) \/ StoreAssigned(t)

\* Mutant: the loops over the slaves stop one short.
FinishedEarly(t) == ~Idle(t) /\ idx[t] >= SlaveCount

Finished(t) == ~Idle(t) /\ idx[t] > SlaveCount

Leave(t) ==
  /\ op' = [op EXCEPT ![t] = "none"]
  /\ idx' = [idx EXCEPT ![t] = 1]

-----------------------------------------------------------------------------
(* The services.                                                           *)

ServiceCall(t, o) ==
  /\ Idle(t)
  /\ calls < MaxCalls
  /\ calls' = calls + 1
  /\ Enter(t, o)
  /\ UNCHANGED <<shared, image, loaded, cycle, ros_ok>>

\* What the reply to a stop command is worth: it holds, or another modifying
\* command raced with it.
Replied(t) ==
  IF grade[t] = "alone" THEN "held"
  ELSE IF grade[t] = "mixed" /\ stop[op[t]] # "held" THEN "raced"
  ELSE stop[op[t]]

\* res.success = true: the command methods never fail.
ServiceReturn(t) ==
  /\ Finished(t)
  /\ Leave(t)
  /\ grade' = [grade EXCEPT ![t] = "none"]
  /\ stop' = IF op[t] \in StopOps THEN [stop EXCEPT ![op[t]] = Replied(t)] ELSE stop
  /\ UNCHANGED <<shared, image, loaded, cycle, ros_ok, calls, serial, kept>>

Service(t) ==
  \/ \E o \in Advertised : ServiceCall(t, o)
  \/ Command(t)
  \/ ServiceReturn(t)

-----------------------------------------------------------------------------
(* The control thread.                                                     *)

\* Mutant: the index of update() is not reset.
BeginUpdateFromSlot ==
  /\ pc' = "copy_low"
  /\ slot' = slot
  /\ step' = IF pc = "start" THEN step ELSE NextStep(step)

\* Every update() begins here; in the loop step_execution_time has just been
\* incremented, up to LastStep + 1.
BeginUpdate ==
  /\ pc' = "copy_low"
  /\ slot' = 1
  /\ step' = IF pc = "start" THEN step ELSE NextStep(step)

\* Master::start has written every slave, or control_loop has run the
\* command of this step.
CommandDone ==
  /\ pc \in {"start", "script"}
  /\ Finished(Control)
  /\ Leave(Control)
  /\ BeginUpdate
  /\ kept' = {o \in StopOps : stop[o] = "held"}
  /\ UNCHANGED <<shared, image, loaded, ros_ok, calls, serial, grade, stop>>

\* clock_nanosleep returns: a cycle with a command of the start-up script ...
WakeForCommand ==
  /\ pc = "wait"
  /\ ScriptOp(step) # "none"
  /\ pc' = "script"
  /\ Enter(Control, ScriptOp(step))
  /\ UNCHANGED <<shared, image, loaded, slot, step, ros_ok, calls>>

\* ... and a cycle without one.
WakeForUpdate ==
  /\ pc = "wait"
  /\ ScriptOp(step) = "none"
  /\ BeginUpdate
  /\ kept' = {o \in StopOps : stop[o] = "held"}
  /\ UNCHANGED <<shared, image, running, ros_ok, calls, serial, grade, stop>>

\* rx_pdo[slot] >> outputs: the low byte, then the high byte and the target.
\* Mutants: the low byte is or-ed into the image; the high byte is left out.
WithLowOrs(w, c)        == (c \cap LowByte) \cup w
WithHighTruncates(w, c) == w \cap LowByte

WithLow(w, c)  == (c \cap LowByte) \cup (w \cap HighByte)
WithHigh(w, c) == (c \cap HighByte) \cup (w \cap LowByte)

CopyLow ==
  /\ pc = "copy_low"
  /\ outputs' = [outputs EXCEPT ![slot].word = WithLow(@, control_word[slot])]
  /\ pc' = "copy_high"
  /\ UNCHANGED <<shared, wire, running, slot, step, ros_ok, calls, history>>

CopyHigh ==
  /\ pc = "copy_high"
  /\ outputs' = [outputs EXCEPT ![slot] =
                   [word   |-> WithHigh(@.word, control_word[slot]),
                    target |-> target_position[slot]]]
  /\ slot' = slot + 1
  /\ pc' = IF slot = SlaveCount THEN "exchange" ELSE "copy_low"
  /\ UNCHANGED <<shared, wire, running, step, ros_ok, calls, history>>

\* while (ros::ok()): the test comes before the sleep.
NextCycle == IF ros_ok THEN "wait" ELSE "done"

\* ec_send_processdata / ec_receive_processdata.  step is still 0 only for
\* the update() in Master::start, after which the thread is created.
EndUpdate ==
  /\ pc = "exchange"
  /\ pc' = IF step = 0 THEN "create" ELSE NextCycle
  /\ UNCHANGED <<shared, outputs, running, slot, step, ros_ok, calls, history>>

\* Mutant: only the first slave is sent its outputs.
DeliverFirst == EndUpdate /\ wire' = [wire EXCEPT ![1] = outputs[1]]

Deliver == EndUpdate /\ wire' = outputs

\* The frame is lost; its working counter is added to wkc and never read.
Lose == EndUpdate /\ wire' = wire

\* pthread_create succeeds, or some pthread call fails and no loop runs.
CreateThread ==
  /\ pc = "create"
  /\ pc' \in {NextCycle, "done"}
  /\ UNCHANGED <<shared, image, running, slot, step, ros_ok, calls, history>>

Loop ==
  \/ Command(Control) \/ CommandDone \/ WakeForCommand \/ WakeForUpdate
  \/ CopyLow \/ CopyHigh \/ Deliver \/ Lose \/ CreateThread

\* SIGINT or ros::shutdown().
Shutdown ==
  /\ ros_ok
  /\ ros_ok' = FALSE
  /\ UNCHANGED <<shared, image, running, cycle, calls, history>>

Next == Loop \/ Shutdown \/ \E t \in Spinners : Service(t)

\* The loop runs under SCHED_FIFO, priority 80, and blocks on nothing but the
\* clock and a receive with a timeout; a bus does not lose every frame.
Fairness == WF_vars(Loop) /\ SF_vars(Deliver)

Spec     == Init /\ [][Next]_vars
FairSpec == Spec /\ Fairness

=============================================================================
