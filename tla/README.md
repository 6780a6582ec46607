# Verification of manual_controller

`manual_controller` is a ROS node that drives a robot arm of Delta ASDA servo
drives over EtherCAT (SOEM). This directory holds TLA+ models of it, TLC runs
over small instances and TLAPS proofs for all values of the constants.

Paths below are relative to the repository; *master.h* is
`include/manual_controller/ethercat/master.h`, *asda.h* is
`include/manual_controller/hardware_interface/asda_hardware_interface.h`,
*asda.cpp* is `src/asda_hardware_interface.cpp`, *manager.h* is
`include/manual_controller/manager/controller_manager.h`.

## 1. The system

| component | source | state | operations |
|---|---|---|---|
| node | `src/controller.cpp`, manager.h | objects on the stack of `main`, socket, servers | read parameters, construct, `ServoHW::init`, advertise, `start`, plan once with MoveIt, publish until `ros::ok()` is false, `close` |
| control words | master.h 302-475 | `rx_pdo[i].control_word` | `start`, `fault_reset`, `ready_to_switch_on`, `switch_on`, `switch_off`, `enable_operation`, `start_homing`, `halt`, `quick_stop`: each a loop over the slaves |
| process data | master.h 435-453, rxpdo.h, txpdo.h | `rx_pdo`, `tx_pdo`, the process image, `wkc` | `update`: serialise, send, receive, deserialise |
| control loop | asda.h 559-660 | `step_execution_time`, deadlines `t`, `t_1` | sleep to the deadline, check the period, run the command of the step (50, 100, 200, 400), `update` |
| services | asda.cpp 4-242 | none of their own (`reset_controllers` is written only) | six advertised Trigger services (manager.h 32-37), one command each |
| drives (external) | addressed by the words | CiA 402 state, cause of a fault | act on a word, fail, are repaired, come to rest |
| time arithmetic | ethercat/time.h | none | `add_timespec`, `diff_timespec`, `to_nsec`, `to_sec` |
| slave configuration | master.h 15-69, 124-299; asda.h 95-132, 315-380 | the drives' object dictionary | read and compare names, SDO writes |
| joint states and pulses | asda.h 62-91, 134-154, 198-211 | `joint_positions`, `pulse`, `gear_ratio_list` | `joint_state_updater`, `position_to_pulse`, `pulse_to_position` |
| status report | manager.h 110-149, asda.cpp 245-271 | `status` (never written) | `generate_slave_status_msg`, `get_error_code`, `get_error_message` |
| MoveIt commander | `src/visualrobot_interface.cpp` | MoveIt's | constructor, `set_joint_position` |
| distributed clock | master.h 72-109 | `DCtime`, `integral` | `ec_sync`, `pi_sync` (never called) |
| deadband | `scripts/deadband.py` | none | filter joystick axes |

**Who runs what.** The main thread initialises the bus, advertises the
services, writes the first words (`Master::start`) and creates the control
thread (SCHED_FIFO, 80), which it never joins. Two spinner threads run the
services and the joint state callback; they are started before the hardware
object exists. All of them share `rx_pdo` and `tx_pdo` with no lock and no
atomics. The only channel to the drives is `update()`, and SDO transfers before
and beside it.

**What is hard.** Unlocked read-modify-writes of the words; words serialised a
byte at a time while being changed, and positions assembled a byte at a time
while being read; services that are callable before `rx_pdo` has ever been
written; a start-up sequence spread over 400 cycles that lost frames, faults of
single drives and operators may interfere with; pacing against absolute
deadlines; names, settings and drives that are matched by position in three
loops; error codes that change while they are read; a teardown during which the
control thread and callbacks still run; error paths between the opening of the
socket and the end of `main`. PROJECT.json lists each of them as a hazard at its
line.

**What makes each part correct.** A stop that was acknowledged is in every word
and in every frame until something revokes it; all the drives of the arm have
the same word; no uninitialised value reaches a drive; the start-up sends the
words of the CiA 402 sequence in order (ControlLoop). Every drive that can be
enabled is, and none starts again by itself (DriveBus). Deadlines are kept
without drift (CycleTimer). No callback runs on a `servo_hw` that is gone, no
cycle begins on a closed socket, and a failure gives up what was acquired; where
the code does not do so (after an error return of `manage_control` the control
thread runs on beside a `servo_hw` that main destroys) the model shows that there
is no other way to it (Lifecycle). The right drive gets the right settings
(BringUp). Each byte of the process data has one place (Pdo). The planner is
given positions that the drives reported (Feedback). A report describes one
drive (StatusReport).

## 2. The modules

| module | models | builds on |
|---|---|---|
| `ControlWord` | a word as the set of its 1 bits, and what each command does to it | |
| `StartupScript` | the steps of the script and their commands, the step counter | `ControlWord` |
| `ControlLoop` | the words, the image, the drives' side of the wire; spinners, control thread, lost frames | `StartupScript` |
| `ControlLoopProps` | its type invariant and properties, the refinement mapping | `ControlLoop`, `PowerUp` |
| `ControlLoopInv` | the inductive invariants | `ControlLoopProps` |
| `ControlLoopProofs` | the proofs, that of the refinement among them | `ControlLoopInv` |
| `PowerUp` | abstract specification of the start-up | `ControlWord` |
| `DriveBus`, `DriveBusProofs` | the CiA 402 state machines behind the words, missed frames, faults and repairs | `StartupScript`, `PowerUp` |
| `CycleTimer`, `CycleTimerProofs` | the deadlines, `time.h`, the period check | |
| `Lifecycle`, `LifecycleProofs` | the node from `main` to its exit | |
| `BringUp`, `BringUpProofs` | names, mapping, modes and settings of the drives | |
| `Pdo`, `PdoProofs` | the layout of the process data, byte by byte | |
| `Feedback`, `FeedbackProofs` | the positions, from the frame to MoveIt | |
| `StatusReport`, `StatusReportProofs` | the published report | |
| `MC*` | instances for TLC | |

The components meet in few places, and each model takes the other side of the
meeting as its environment. `DriveBus` composes the script and the services with
the drives; there a command is one step on one word, which `AgreeWhenIdle` of
`ControlLoop` justifies for commands given one at a time. Both `ControlLoop`
and `DriveBus` implement the same `PowerUp`. What `Lifecycle` calls `Update` is a
whole `update()`: `ControlLoop` has its sending half against the services,
`Feedback` its receiving half against the main thread, `Pdo` where each byte of
both goes. `BringUp` refines the stages `init_params` to `start` of `Lifecycle` by
what they write, and `StatusReport` the step `publish`.

### ControlLoop

| action | code |
|---|---|
| `ServiceCall`, `ServiceReturn` | a Trigger service and its reply, asda.cpp 4-242 |
| `Load`, `StoreModified` | the load and the store of `control_word \|= x` or `&= x`, one slave of the loop, master.h 326-334, 359-367, 456-475 |
| `StoreAssigned` | `control_word = x`, one slave of the loop; for `Master::start` also `target_position = 0` |
| `CommandDone` | the end of such a loop on the control thread, then `update()` begins |
| `WakeForCommand`, `WakeForUpdate` | the sleep ends, with or without a command of the script at this step, asda.h 575-653 |
| `CopyLow`, `CopyHigh` | `rx_pdo[i] >> outputs`: the low byte; the high byte and the target (no thread writes a target while one is copied) |
| `Deliver`, `Lose` | the frame reaches every drive or none, then `while (ros::ok())` |
| `CreateThread` | the pthread calls succeed or not, asda.h 390-449 |
| `Shutdown` | SIGINT (external) |

`rx_pdo` is an uninitialised member: `Init` starts from any word in `Garbage`
and from an indeterminate target. The step of the code increments up to 501 and
stays; `step` does the same up to `LastStep + 1`. `wire` is what each drive was
last commanded: the SDO word 0x0086 of `Master::init` until the first frame.
The history variables `serial`, `grade`, `stop` and `kept` observe which
commands overlapped and are read by no action. A stop is *alone* when only
commands of its own kind overlapped it, *mixed* when another command that
modifies the words did; a reply to one that was alone makes it *held*, until a
command that assigns the words is called.

Abstracted: the value of a target (zero or indeterminate; nothing else is ever
written, since `ServoHW::write` is never called), `wkc` (added up and never
read), `ec_writestate` and `ec_statecheck` (their results are ignored),
`reset_controllers` (never read), the timer (CycleTimer) and service calls after
a shutdown, which roscpp does not take but the model allows.

### PowerUp

The start-up as a reader would describe it: five stages, each with a word; any
of the drives are sent the word of the current stage, so that a drive may miss
some or all of them; stages only advance; nothing is promised once an operator
has called a service. `ImplementsPowerUp` maps the stage to the step of the script
and `sent` to the word that each drive received last. It is what rules out that
threads, bytes, loops and lost frames could send a drive half of two words, or
the word of a stage that is over. In `ControlLoop` a frame reaches every drive or
none; in `DriveBus` any set of them, and both implement the same specification.

### DriveBus

The drives are not in the source. `Command` and `Reaction` are the transitions of
the power drive system of CiA 402 that the words address: disable voltage,
quick stop, shutdown, switch on, enable and disable operation, and the fault
reset, which needs a rising edge of bit 7 from the word the drive acted on last.
A frame (`Send`) reaches any set of drives, and a drive may miss up to `MaxMissed`
frames in a row, which also stands for its reaction time; `Fault`, `Repair` and
`Rest` are the drive's own. `GapAssumption` says that each stage of the script is
longer than that, as 50, 50, 100, 200 and 100 cycles are.

### CycleTimer

`Sleep` is `add_timespec`; `Wake` the return of `clock_nanosleep` and the check.
It returns when the deadline has passed, or before it when a signal interrupts
it: the code ignores the result (asda.h 575), so the cycle goes on. At most
`MaxEarly` sleeps in a row are cut short, and `early` counts them.
`Update` the rest of the cycle; `Tick` lets time pass at any point. `t_off` stays 0
because `ec_sync` is never called. C's division and TLA+'s agree since the added
time is not negative. `t_cycle` and `to_nsec` are `unsigned long`: `OutOfTolerance`
compares modulo `ULONG`, for cycles above the tolerance and below it.

### Lifecycle

The main thread is a program counter over the steps that acquire, fail or give
up something. A failure that `ServoHW::init` meets by a return is `InitFails`, with or
without `close()` as in the code; `InitThrows` is the size of a `slaves` or a
`gear_ratio` that is no list, asked for outside any `try` (asda.h 318 and 136): the
process aborts there, the second time with the socket open. The three returns of `manage_control` after that are
`CreateThread`, `MoveIt` and `Close`. `CreateThread` has the three outcomes of
asda.h 390-449: success, true without a thread (`return 1`, line 407), false
with or without one (line 446 is reached when the thread already runs). The
teardown of `main` has its stages: `DestroyServers` when `manage_control` returns,
`DestroyMembers` the vectors and the master of `servo_hw`, `Unsubscribe` the
subscriber, which is declared first and so destroyed last, `Teardown` the spinner
and the node handle, `AtExit` what roscpp does after `main`, `Exit` the process.
Destroying the last `NodeHandle` shuts ROS down, but that of `main` is the last one
only if there was no `Commander`, which never deletes the two
`MoveGroupInterface`s that hold others (`visualrobot_interface.h` 36-49); with one,
`ros::ok()` falls in the handler that roscpp has registered with `atexit`
(external). The removal of a `ServiceServer` or of a
subscription waits for a callback under way, as roscpp's
`CallbackQueue::removeByID` does; a spinner takes no callback after a shutdown
(external). `StepsLeft` bounds the steps that
all the threads together can still take after a shutdown: those of `main` (one of
which may create the control thread), of the cycle under way, and of the
callbacks under way. `SpinnerAssumption`: there are finitely many spinner threads
(two in the code).

### BringUp

| action | code |
|---|---|
| `ReadName`, `NamesDone` | the loop over `device_name`, asda.h 318-331 |
| `Find`, `Check` | `ec_init`, `ec_config_init`, `network_configuration`, master.h 53-69, 124-154 |
| `Map`, `MapDone` | `ec_config_map` calling `slave_setup`, and the size of the IO map |
| `Modes`, `ModesDone` | the last loop of `Master::init` |
| `Config`, `ConfigThrows`, `ConfigDone` | the loop of `config_slaves`, asda.h 95-132, and the parameters read after it |
| `Start` | `Master::start` |

An object of a drive holds the *origin* of its value: the factory, `Master`, or an
entry of the file by its index, and then whether it is the setting given, a
period cut to a byte (`wrapped`) or the 0 that a missing setting converts to. So
`StartedAsConfigured` can be said of the entries and the drives without the
operator `Setup` that `Config` writes with. Each loop writes a function from objects to origins; any subset of
the writes may fail (`Write`), which the code never notices. The EtherCAT state
of the drives is left out, since `ec_statecheck` is called and its result used by
nothing.

### Pdo

`RxLayout` and `TxLayout` are the fields of `RxPDO2`, `RxPDO3`, `TxPDO2` and `TxPDO3`
as the code declares them, a width in bytes each; `operator>>` and `operator<<` are one step per
byte through the moving `data_ptr`: `Store` for the one, `Clear` and `Load` for the
other. What the drives expect is external and given the other way round: the
offset of each mapped object in the drive's part of `io_map` (`OutputAt`, `InputAt`)
and the size of the part, from the types that CiA 402 gives the objects
(UNSIGNED16 words, INTEGER32 positions and velocities). The other four structures
are left out: nothing uses them, and they give the torque objects, INTEGER16 in
CiA 402, four bytes, so that whether they fit depends on a mapping that the
repository does not have. `Frame` puts what the drives report at these offsets
(`InputByte`), or is lost. The properties compare the two: the code never
mentions an offset, and the drive's map never a pointer. `Memory` is what the
members of `Master` hold before anything was written to them; nothing is said of
`tx_pdo` before the first `update()` (phase `new`).

### Feedback

`Exchange`, `Reset` and `OrByte` are the receiving half of `update()` on the control
thread, a byte per step; `ReadPosition` is a turn of the loop of
`pulse_to_position` on the main thread at any moment between them; `Degrees` is
`actual_position * 360` in an int32. `SetJointPosition` has the outcomes of the
planner and the condition on the sizes (`visualrobot_interface.cpp` 6-50). The
real factors that follow (pulses per turn, gear ratio, radians) are left out:
they relate no two pieces of state.

### StatusReport

`Begin` copies the flags, which nothing has ever written; `Declare` is the
uninitialised `error_code` of each turn; `ReadCode` one SDO read of
`get_error_code`, which reads the codes of *all* the drives into one variable and
may fail; `Message` stores the code and looks its text up. `Drive` lets a drive
fail or recover between any two of them.

## 3. The runs

| run | instance | shows |
|---|---|---|
| `loop_slaves` | 2 drives, 1 spinner, 2 calls, steps 1 to 4 | `StopHolds`, `FrameCarriesStop`: no command, cycle or half-copied word loses a stop; `StopOutlivesScript`: once the script is over only a service revokes one; `AgreeWhenIdle`; `TargetsInitialised`; `TypeOK` |
| `loop_spinners` | 1 drive, 2 spinners, 2 calls | `StopHolds` and `FrameCarriesStop` when services overlap each other |
| `loop_live` | 2 drives, 1 spinner, 1 call, idle cycles between commands, fairness | `StopReachesDrives`, `StartupEnables` and the refinement `ImplementsPowerUp` |
| `drive_bus` | 2 drives that miss every other frame, 2 calls, 1 fault | `StartupReachesOperation`, `NoUnattendedRestart`, `ResetOnEdge`, `ImplementsPowerUp`, `TypeOK` |
| `cycle_timer` | a second of 5 ticks, cycles of 2 and of 7, tolerance 4, any lateness up to tick 40, 3 interrupted sleeps in a row | `NoDrift`, `AheadOnlyByInterrupts`, `CheckIgnoresTiming`, `TypeOK` |
| `lifecycle` | 2 spinners, fairness | `StopsWithinACycle`, `CyclesUseLiveHardware`, `ServicesUseLiveMaster`, `UpdaterEndsFirst`, `SocketGivenUp`, `ShutdownIsBounded`, `ShutdownEnds`, `TypeOK` |
| `bring_up` | every bus of 2 drives and list of 2 entries over 2 names, 1 lost write | `WrittenOnlyIfMatched`, `StartedAsConfigured`, `TypeOK` |
| `feedback` | 2 drives, 3 joints, an int32 of four 1-bit bytes | `ReadingNeverMixed`, `PlannedWhenClean`, `TypeOK` |
| `pdo` | the two pairs of structures, 1 and 2 drives, bytes of one bit, two complementary words | `OutputsInPlace`, `ReportTaken`, `TypeOK` |
| `status_report` | 3 drives, 2 codes, one of them in the table | `CodeWasHeld`, `TypeOK` |
| `reply_honoured` | 1 drive, 2 spinners | violated: see below |
| `fault_is_reported` | 2 drives | violated: see below |

**Bounds.** The steps 50, 100, 200, 400 and 500 of the code become 1 to 4, or 2,
3, 5, 6 and 7 in `loop_live` and 1, 3, 5, 7 and 8 in `drive_bus`, so that cycles
without a command lie before, between and after the commands. Only the order
of the steps and whether a cycle has a command enter the model; a cycle without
a command only copies and sends, so that more of them in a row add no behaviour
but repetition, except that a drive that misses `MaxMissed` frames needs stages
longer than that (`GapAssumption`). Two drives show a loop between two of its
iterations; the proofs cover the rest. Two calls give every pair of services, in
sequence on one spinner and overlapping on two; with the script they make
three threads in the words at once. `Garbage` has the word of all zeros and
one with the bits that matter set. The second and the longer cycle of
`cycle_timer` are small and coprime, with the cycle longer than a second, so that
both carries happen; the shorter one is below the tolerance, so that the unsigned
limit wraps; 40 ticks are five of the longer cycles, and three interrupted sleeps in a row
already put the loop two whole cycles ahead. `Lifecycle` has no bound: `late` stays at most 1. Two names suffice
to exchange two drives; one lost write to have any object of any loop wrong. In
`Feedback` a byte has one bit, so that the `int32` is -8 .. 7, and the factor 3
makes one of the positions overflow as 360 does; none of the steps looks into a
byte. `Pdo` has one-bit bytes for the same reason, and memory with bits of both its
words, so that a bit which is not cleared shows. Three drives in `status_report` lie before, at and after the one that fails.
Deadlock is checked in `feedback`, `pdo` and `status_report`, whose loops never
end; in the other runs the node, the bring-up or the bounded clock really stops.

**Fairness.** `loop_live` assumes `WF(Loop)`: the thread runs under SCHED_FIFO at
priority 80 and waits for nothing but the clock and a receive with a timeout
(`EC_TIMEOUTRET3`); and `SF(Deliver)`: a bus that carries frames again and
again does not lose every one of them. Nothing is assumed of the services,
and `StopReachesDrives` holds as well when a spinner stops in the middle of
a command. Both properties make an exception for a thread that has ended or
was never created. `lifecycle` assumes that the threads are scheduled, that a
callback under way ends, and that ROS, MoveIt and SOEM return from their calls or
time out; a `MoveGroupInterface` that waited for ever would break it. No fairness
is assumed of new calls, of the drives or of a shutdown.

**Violations.** Each states what the code or its documentation says:

- `ReplyHonoured`: "Quick Stop!", success (asda.cpp 232-233). A `fault_reset` that
  has loaded the word before the stop stores it back after: the operator
  was told that the arm stops, and no word says so. This is also why
  `StopHolds` speaks only of stops that were alone, and the script's
  `enable_operation` at step 400 is why it ends a stop at the next assigning
  command: an operator's halt before that step is revoked without notice.
- `FaultIsReported`: "error_code # code of delta error in decimal"
  (`msg/SlaveStatus.msg` 6). `get_error_code` reads all the drives into one
  variable, so that a report made while a drive is in fault has the code of the
  last drive, 0 if that one is healthy.

**What the properties leave open.** Some behaviour of the code is neither promised
nor refuted by a run, and shows in a precondition or an exception:

- The period check compares two deadlines, which are one cycle apart by
  construction: `CheckIgnoresTiming` says that it reports nothing at 10 kHz and
  below, however late a cycle is, and always above.
- A signal that interrupts the sleep sends the frame early
  (`AheadOnlyByInterrupts`: by one period for each, until one sleep is not
  interrupted).
- Of several fault resets in a row only the first gives a drive an edge
  (`ResetOnEdge`); each is answered with success.
- The node logs that it is started without a control thread after `return 1`
  (asda.h 407), and whatever state the drives have reached.
- After an error return of `manage_control` the socket stays open and the control
  thread runs on while main destroys `servo_hw`; a `gear_ratio` that is no list
  aborts the process with the socket open (`SocketGivenUp` and
  `CyclesUseLiveHardware` name these as their exceptions).
- One frame may be sent while or after `close()` runs (`StopsWithinACycle`: no more).
- `joint_state_updater` may run between the destruction of the vectors it writes
  and that of its subscriber (`UpdaterEndsFirst`: no later).
- An entry whose name cannot be read is skipped, which shifts the comparison of
  the names after it and not their settings (`WrittenOnlyIfMatched` asks that all
  names are readable); `position_window` is read and never written, a missing
  setting is written as 0, a period above 255 as another, the interpolation sub
  mode of the file not at all, and the results of the writes are ignored
  (`StartedAsConfigured` promises only the settings that the entry gives and the
  code writes as given).
- A position read while its drive is updated lacks its high bytes, one read
  before the drive has answered is what the image held, and one whose product
  with 360 does not fit an int32 wraps (`PlannedWhenClean` excepts all three),
  although the planner is to be given the current position (manager.h 49).
- With more drives than joints, and when a plan or its execution fails, nothing is
  executed and true is returned, against "true if everything is Ok"
  (`visualrobot_interface.cpp` 8). `PlannedWhenClean` speaks of what is asked for
  when anything is.
- The flags of the report, `in_error` among them, are never written.

## 4. The proofs

Assumptions: those named in the modules (`SlaveAssumption`, `StepAssumption`
and so on). They say that there is a drive, that the steps of the script
are in order (and in `DriveBus` far enough apart), that the garbage is a word,
that the control thread is not a spinner and that `start` is no service; for the
timer, that the second and the cycles are positive and that a cycle and the
tolerance fit the unsigned type; for the rest, that the widths are positive and
the special names distinct and the spinner threads finitely many.

- **Stops** (`StopsHold`). `StopHolds` is not inductive: a thread that holds an old
  word could undo a stop. `HeldInv` adds that every word in a thread's
  register still carries the stop once modified, and that no assigning command runs;
  `GradeInv` says what a stop command that is still running has achieved so far,
  and `ThreadInv` who may run what. The step that matters is a service's return.
  `StopsOutliveScript` follows with it.
- **Frames** (`FramesCarryStops`). `FrameInv`: a kept stop is in the part of the image
  already copied. Within a word the proof uses that quick stop is in the low
  byte and halt in the high byte, so that each is decided by one of the two
  reads.
- **Targets** (`TargetsAreInitialised`). `TargetInv` follows the value from the loop
  of `start` to the image and the wire.
- **Agreement** (`SlavesAgree`). `AgreeInv`: behind the index of the one command
  under way the slaves have its result, ahead of it the word it found.
- **Refinement** (`Refinement`, `BusImplementsPowerUp`). `PowerInv` gives every word,
  byte and register in terms of the stage while nobody has called a service; each
  step then maps to `Advance`, `Send`, `Intervene`, `SendAny` or a stutter.
- **Drives** (`DrivesReachOperation`, `DrivesWait`, `ResetsActOnEdges`). `StartupInv`
  counts the frames of a stage: a drive that has missed fewer than there were has
  received the word of the stage and so entered its state (`Arrived`), and until
  then is where the stage before left it (`Entered`); `GapAssumption` makes every
  drive arrive before the next stage. `WaitInv`: the word at hand does not both
  switch on and enable while a failed drive could follow it. `ResetInv`: while a
  reset is the last command its bit is in the word.
- **Timer** (`DeadlinesDoNotDrift`, `LoopRunsAheadByInterrupts`, `PeriodCheckIsBlind`). `AddTimespec` and
  `DiffTimespec` are about the two functions alone: `add_timespec` adds, carries as
  often as it must and keeps the result normalised, and `diff_timespec` subtracts.
  `CheckOfPeriod` is what the unsigned comparison makes of one cycle; then `t` is `start + cycles * t_cycle` and `t_1` one cycle
  less; and `PaceInv` says how far the loop may be ahead at each `pc`, which counts the
  interrupted sleeps from the deadline kept last.
- **Lifecycle** (`LoopStopsWithinACycle`, `CyclesAreSafe`, `ServicesAreSafe`,
  `UpdaterIsBounded`, `SocketIsGivenUp`). `LifeInv`: what is open, alive,
  advertised and subscribed at each stage of the main thread, and that a loop
  which has sent a late frame is about to test `ros::ok()`.
- **Shutdown** (`ShutdownProgresses`). `ShutdownIsBounded` is the safety half of
  `ShutdownEnds`: from `LifeInv`, every step after a shutdown makes `StepsLeft`
  smaller, for any number of spinners; a step of `main` counts four times, which pays
  for the thread it may create. That steps are taken until `main` has ended is
  fairness, and stays with TLC.
- **Bring-up** (`OnlyMatchedAreWritten`, `DrivesAreConfigured`). `NamesInv` relates the
  list given to `Master` to the entries read so far, `MatchInv` the comparison to what
  may have been written, and `LoopInv` says what is `Due` in each object of each
  drive from the loops that have passed it; `MeantOwn` compares that with what
  `StartedAsConfigured` says.
- **Feedback** (`ReadingsAreNeverMixed`, `CleanReadingsArePlanned`). `AssemblyInv`: the
  word being assembled is the low bytes of the current input, and any other
  is a whole report or a part of one; `ReadInv` and `TargetInv` carry that to the
  reading and to the planner.
- **Report** (`CodeIsOfADrive`). `CodeInv`: a filled variable holds
  a code that a drive has had since the report began.
- **Process data** (`OutputsArrive`, `ReportsTaken`). Of the outputs and of
  `tx_pdo` the properties say nothing while a loop runs. `PlaceInv`: `data_ptr` is the drive's offset of the byte that
  the loop is at, which needs that the code's widths tile the drive's part without
  gap or overlap (`RxTiles`, `TxTiles`). `OutputInv`: the bytes
  the loop has passed are in `io_map`; a later byte goes to another address, since
  parts and fields are apart (`Apart`). `InputInv`: the inputs are the last report, cut
  to the widths of the objects. `TakenInv`: the fields passed are that report, the
  field at hand its low bytes, the fields after it clear, which is what `operator<<`
  relies on when it ors. The parts of the drives are products, `(s - 1) * size`, so
  that it holds for any number of drives and any size of a byte without an
  induction. `BytesMakeTheWord`: the two operators are inverse on a field of any
  number of bytes.

Each component also has its type invariant proved, and so has every safety
invariant and action property of a passing run. Only model-checked are the three
liveness properties, `StopReachesDrives`, `StartupEnables` and `ShutdownEnds`, which
are out of the prover's reach since they rest on fairness. The two violated
properties are false.

## 5. Not modelled

- The distributed clock (`ec_sync`, `pi_sync`) is dead code; `t_off` stays 0.
- `ServoHW::read`, `write`, `init(double)`, the setters and configurations that
  nothing calls, and the pulses that only `write` would use.
- The real-valued factors of the conversions, and the filter of `deadband.py`.
- What happens past the ends of arrays: a tenth slave, a gear ratio list shorter
  than the bus. The models stay within them.
- The structures `RxPDO1`, `RxPDO4`, `TxPDO1` and `TxPDO4`, which nothing uses (see
  Pdo), and a `publish_frequency` of 0, for which `ros::Rate` has no period.
- `registry_idx.h` (constants), the values in the configuration files, the launch
  file; MoveIt, SOEM and roscpp beyond what the code sees of them.
