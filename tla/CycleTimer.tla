----------------------------- MODULE CycleTimer -----------------------------
(***************************************************************************)
(* The pace of control_loop: absolute deadlines on CLOCK_MONOTONIC, the    *)
(* timespec arithmetic of time.h and the check of the period.              *)
(***************************************************************************)
EXTENDS Integers

CONSTANTS
  NSEC_PER_SEC,   \* 1000000000
  Cycles,         \* what loop_hz may make of t_cycle
  Tolerance,      \* 100000 ns
  ULONG,          \* 2^64
  Garbage,        \* what the uninitialised t_1 may hold
  StartTimes,     \* when the loop may begin
  MaxNow,         \* bound: the clock stops here
  MaxEarly        \* bound on the interrupted sleeps in a row

Timespec == [tv_sec : Nat, tv_nsec : 0 .. NSEC_PER_SEC - 1]

ASSUME NsecAssumption    == NSEC_PER_SEC \in Nat \ {0}
ASSUME CycleAssumption   == Cycles \subseteq Nat \ {0} /\ Tolerance \in Nat
ASSUME ULongAssumption   == ULONG \in Nat /\ \A c \in Cycles : c + Tolerance < ULONG
ASSUME GarbageAssumption == Garbage \subseteq Timespec
ASSUME ClockAssumption   == StartTimes \subseteq Nat /\ MaxNow \in Nat /\ MaxEarly \in Nat

VARIABLES
  t_cycle,  \* ns between frames; t_off stays 0, ec_sync is never called
  now,      \* CLOCK_MONOTONIC, in ns
  t,        \* the deadline of the current cycle
  t_1,      \* that of the cycle before
  pc,
  warned,   \* the check of this cycle has logged the period
  start,    \* history: when the loop began
  cycles,   \* history: deadlines computed so far
  early     \* history: the sleeps in a row, to the last, that a signal has cut short

vars == <<t_cycle, now, t, t_1, pc, warned, start, cycles, early>>

-----------------------------------------------------------------------------
(* time.h                                                                  *)

to_nsec(ts) == ts.tv_sec * NSEC_PER_SEC + ts.tv_nsec

\* Mutant: the carry tests `>'.
add_timespec_gt(ts, addtime) ==
  LET nsec == ts.tv_nsec + (addtime % NSEC_PER_SEC)
      sec  == ts.tv_sec + addtime \div NSEC_PER_SEC
  IN  IF nsec > NSEC_PER_SEC
      THEN [tv_sec |-> sec + 1, tv_nsec |-> nsec % NSEC_PER_SEC]
      ELSE [tv_sec |-> sec, tv_nsec |-> nsec]

\* Mutant: the carry is dropped.
add_timespec_no_carry(ts, addtime) ==
  [tv_sec  |-> ts.tv_sec + addtime \div NSEC_PER_SEC,
   tv_nsec |-> (ts.tv_nsec + addtime) % NSEC_PER_SEC]

\* addtime is never negative here, so that C's division and TLA+'s agree.
add_timespec(ts, addtime) ==
  LET nsec == ts.tv_nsec + (addtime % NSEC_PER_SEC)
      sec  == ts.tv_sec + (addtime - (addtime % NSEC_PER_SEC)) \div NSEC_PER_SEC
  IN  IF nsec >= NSEC_PER_SEC
      THEN [tv_sec  |-> sec + (nsec - (nsec % NSEC_PER_SEC)) \div NSEC_PER_SEC,
            tv_nsec |-> nsec % NSEC_PER_SEC]
      ELSE [tv_sec |-> sec, tv_nsec |-> nsec]

\* Mutant: the borrow is not taken from the seconds.
diff_timespec_no_borrow(t1, t2) ==
  [tv_sec  |-> t1.tv_sec - t2.tv_sec,
   tv_nsec |-> (t1.tv_nsec - t2.tv_nsec) % NSEC_PER_SEC]

diff_timespec(t1, t2) ==
  IF t1.tv_nsec - t2.tv_nsec < 0
  THEN [tv_sec  |-> t1.tv_sec - t2.tv_sec - 1,
        tv_nsec |-> t1.tv_nsec - t2.tv_nsec + NSEC_PER_SEC]
  ELSE [tv_sec |-> t1.tv_sec - t2.tv_sec, tv_nsec |-> t1.tv_nsec - t2.tv_nsec]

-----------------------------------------------------------------------------
Init ==
  /\ t_cycle \in Cycles /\ now \in StartTimes
  /\ t = [tv_sec |-> now \div NSEC_PER_SEC, tv_nsec |-> now % NSEC_PER_SEC]
  /\ t_1 \in Garbage
  /\ pc = "loop" /\ warned = FALSE
  /\ start = now /\ cycles = 0 /\ early = 0

\* Mutant: the deadline is counted from the clock, not from the last deadline.
SleepFromNow ==
  /\ pc = "loop"
  /\ t' = add_timespec([tv_sec  |-> now \div NSEC_PER_SEC,
                        tv_nsec |-> now % NSEC_PER_SEC], t_cycle)
  /\ cycles' = cycles + 1
  /\ pc' = "sleep"
  /\ UNCHANGED <<t_cycle, now, t_1, warned, start, early>>

\* add_timespec, then clock_nanosleep begins.
Sleep ==
  /\ pc = "loop"
  /\ t' = add_timespec(t, t_cycle)
  /\ cycles' = cycles + 1
  /\ pc' = "sleep"
  /\ UNCHANGED <<t_cycle, now, t_1, warned, start, early>>

Unsigned(nsec) == nsec % ULONG

\* t_cycle and to_nsec are unsigned long: the negative period that garbage may
\* give is a huge one, and so is the lower limit of a cycle below Tolerance.
OutOfTolerance(period) ==
  \/ Unsigned(period) < Unsigned(t_cycle - Tolerance)
  \/ Unsigned(t_cycle + Tolerance) < Unsigned(period)

\* clock_nanosleep returns, at once when the deadline has passed, and before it
\* when a signal interrupts it: its result is not looked at. Then the check.
Wake ==
  /\ pc = "sleep"
  /\ \/ now >= to_nsec(t) /\ early' = 0
     \/ now < to_nsec(t) /\ early < MaxEarly /\ early' = early + 1
  /\ warned' = OutOfTolerance(to_nsec(diff_timespec(t, t_1)))
  /\ pc' = "update"
  /\ UNCHANGED <<t_cycle, now, t, t_1, start, cycles>>

\* The script and update() take any time; t_1 = t.
Update ==
  /\ pc = "update"
  /\ t_1' = t
  /\ pc' = "loop"
  /\ UNCHANGED <<t_cycle, now, t, warned, start, cycles, early>>

\* Time passes, whatever the thread does: preemption, a slow exchange.
Tick ==
  /\ now < MaxNow
  /\ now' = now + 1
  /\ UNCHANGED <<t_cycle, t, t_1, pc, warned, start, cycles, early>>

Next == Sleep \/ Wake \/ Update \/ Tick

Spec == Init /\ [][Next]_vars

-----------------------------------------------------------------------------
TypeOK ==
  /\ now \in Nat /\ start \in Nat /\ cycles \in Nat /\ early \in Nat
  /\ t \in Timespec /\ t_1 \in Timespec
  /\ pc \in {"loop", "sleep", "update"}
  /\ warned \in BOOLEAN /\ t_cycle \in Cycles

(***************************************************************************)
(* The deadlines do not drift: however late the cycles before it ran, and  *)
(* however often its sleeps were cut short, the n-th is n * t_cycle after  *)
(* the loop began.                                                         *)
(***************************************************************************)
NoDrift == to_nsec(t) = start + cycles * t_cycle

(***************************************************************************)
(* The loop runs ahead of the clock only by the sleeps that signals cut    *)
(* short since it last kept a deadline (asda_hardware_interface.h, 575,    *)
(* ignores EINTR): the n-th frame is sent no earlier than n periods after  *)
(* the loop began, less one for each of these, and one sleep that is not   *)
(* cut short brings the loop back to its deadlines, however many were.     *)
(***************************************************************************)
AheadOnlyByInterrupts ==
  pc = "update" => start + cycles * t_cycle <= now + early * t_cycle

(***************************************************************************)
(* The period that is checked (asda_hardware_interface.h, 578-583) is the  *)
(* one between two deadlines, t_cycle by construction: after the first     *)
(* cycle, whose t_1 is not initialised, the check says the same in every   *)
(* cycle whatever the timing is, never anything at 10 kHz and below, and   *)
(* always `out of tolerance' above, where t_cycle - 100000 wraps.          *)
(***************************************************************************)
CheckIgnoresTiming ==
  pc = "update" /\ cycles > 1 => (warned <=> t_cycle < Tolerance)

=============================================================================
