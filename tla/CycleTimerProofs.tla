-------------------------- MODULE CycleTimerProofs --------------------------
(***************************************************************************)
(* Proofs about CycleTimer for any second, period, tolerance and clock.    *)
(***************************************************************************)
EXTENDS CycleTimer, TLAPS

-----------------------------------------------------------------------------
(* The timespec arithmetic.                                                *)

LEMMA DivMod ==
  \A a \in Nat, n \in Nat \ {0} :
    /\ a % n \in 0 .. n - 1 /\ a \div n \in Nat
    /\ a = n * (a \div n) + (a % n)
  OBVIOUS

LEMMA DivExact ==
  \A k \in Nat, n \in Nat \ {0} : (n * k) \div n = k
  OBVIOUS

LEMMA Distribute ==
  \A s, q, x, y, n \in Int : (s + q) * n + (x + y) = (s * n + x) + (n * q + y)
  OBVIOUS

(***************************************************************************)
(* add_timespec adds any number of nanoseconds, with both carries, and     *)
(* keeps the result normalised as clock_nanosleep asks of a deadline.      *)
(***************************************************************************)
THEOREM AddTimespec ==
  ASSUME NEW ts \in Timespec, NEW d \in Nat
  PROVE  /\ add_timespec(ts, d) \in Timespec
         /\ to_nsec(add_timespec(ts, d)) = to_nsec(ts) + d
  <1> USE NsecAssumption
  <1> DEFINE N == NSEC_PER_SEC
             sec == ts.tv_sec
             nsec == ts.tv_nsec
             q == d \div N
             r == d % N
  <1>1. r \in 0 .. N - 1 /\ q \in Nat /\ d = N * q + r
    BY DivMod
  <1>2. sec \in Nat /\ nsec \in 0 .. N - 1
    BY DEF Timespec
  <1>3. (d - r) \div N = q
    BY <1>1, DivExact
  <1>4. (sec + q) * N + (nsec + r) = (sec * N + nsec) + d
    <2> HIDE DEF q, r, sec, nsec, N
    <2>1. N \in Nat
      BY NsecAssumption DEF N
    <2> QED
      BY <1>1, <1>2, <2>1, Distribute
  <1>5. CASE nsec + r >= N
    <2>1. (nsec + r) \div N = 1 /\ (nsec + r) % N = nsec + r - N
      BY <1>1, <1>2, <1>5
    <2>2. (nsec + r - ((nsec + r) % N)) \div N = 1
      BY <1>1, <1>2, <2>1
    <2>3. add_timespec(ts, d) = [tv_sec |-> sec + q + 1, tv_nsec |-> nsec + r - N]
      BY <1>1, <1>2, <1>3, <1>5, <2>1, <2>2 DEF add_timespec
    <2>4. sec + q + 1 \in Nat /\ nsec + r - N \in 0 .. N - 1
      BY <1>1, <1>2, <1>5
    <2>5. (sec + q + 1) * N + (nsec + r - N) = (sec + q) * N + (nsec + r)
      <3> HIDE DEF q, r, sec, nsec, N
      <3>1. N \in Nat
        BY NsecAssumption DEF N
      <3> QED
        BY <1>1, <1>2, <3>1
    <2>6. to_nsec(add_timespec(ts, d)) = (sec + q + 1) * N + (nsec + r - N)
      BY <2>3 DEF to_nsec
    <2> QED
      BY <1>4, <2>3, <2>4, <2>5, <2>6 DEF Timespec, to_nsec
  <1>6. CASE ~(nsec + r >= N)
    <2>1. add_timespec(ts, d) = [tv_sec |-> sec + q, tv_nsec |-> nsec + r]
      BY <1>3, <1>6 DEF add_timespec
    <2>2. sec + q \in Nat /\ nsec + r \in 0 .. N - 1
      BY <1>1, <1>2, <1>6
    <2>3. to_nsec(add_timespec(ts, d)) = (sec + q) * N + (nsec + r)
      BY <2>1 DEF to_nsec
    <2> QED
      BY <1>4, <2>1, <2>2, <2>3 DEF Timespec, to_nsec
  <1> QED
    BY <1>5, <1>6

(***************************************************************************)
(* diff_timespec is the difference of two times, whichever is the later    *)
(* and whether or not it borrows a second.                                 *)
(***************************************************************************)
THEOREM DiffTimespec ==
  ASSUME NEW a \in Timespec, NEW b \in Timespec
  PROVE  to_nsec(diff_timespec(a, b)) = to_nsec(a) - to_nsec(b)
  BY NsecAssumption DEF diff_timespec, to_nsec, Timespec

-----------------------------------------------------------------------------
(* The loop.                                                               *)

\* The two deadlines the check compares are one period apart.
PeriodInv ==
  /\ cycles = 0 => pc = "loop"
  /\ pc = "loop" /\ cycles > 0 => t_1 = t
  /\ pc = "sleep" /\ cycles > 1 => to_nsec(t) = to_nsec(t_1) + t_cycle

\* A deadline that is awaited is at most one period further ahead than it may be
\* when it is kept.
PaceInv ==
  /\ pc # "sleep" => start + cycles * t_cycle <= now + early * t_cycle
  /\ pc = "sleep" => start + cycles * t_cycle <= now + early * t_cycle + t_cycle

IInv == TypeOK /\ NoDrift /\ PeriodInv /\ PaceInv /\ CheckIgnoresTiming

LEMMA ModUnsigned ==
  \A u \in Nat, x \in Int :
    /\ 0 <= x /\ x < u => x % u = x
    /\ x < 0 /\ 0 <= x + u => x % u = x + u
  OBVIOUS

\* The period of every cycle but the first is t_cycle: only the constants
\* decide what the check finds.
LEMMA CheckOfPeriod ==
  ASSUME t_cycle \in Cycles
  PROVE  OutOfTolerance(t_cycle) <=> t_cycle < Tolerance
  <1> USE CycleAssumption, ULongAssumption DEF Unsigned
  <1>1. Unsigned(t_cycle) = t_cycle /\ Unsigned(t_cycle + Tolerance) = t_cycle + Tolerance
    BY ModUnsigned
  <1>2. CASE t_cycle < Tolerance
    <2>1. Unsigned(t_cycle - Tolerance) = t_cycle - Tolerance + ULONG
      BY <1>2, ModUnsigned
    <2> QED
      BY <1>1, <1>2, <2>1 DEF OutOfTolerance
  <1>3. CASE ~(t_cycle < Tolerance)
    <2>1. Unsigned(t_cycle - Tolerance) = t_cycle - Tolerance
      BY <1>3, ModUnsigned
    <2> QED
      BY <1>1, <1>3, <2>1 DEF OutOfTolerance
  <1> QED
    BY <1>2, <1>3

LEMMA InitInv == Init => IInv
  <1> SUFFICES ASSUME Init PROVE IInv
    OBVIOUS
  <1>1. now \in Nat /\ t_1 \in Timespec
    BY ClockAssumption, GarbageAssumption DEF Init
  <1>2. /\ now % NSEC_PER_SEC \in 0 .. NSEC_PER_SEC - 1 /\ now \div NSEC_PER_SEC \in Nat
        /\ now = NSEC_PER_SEC * (now \div NSEC_PER_SEC) + (now % NSEC_PER_SEC)
    BY <1>1, DivMod, NsecAssumption
  <1>3. t \in Timespec /\ to_nsec(t) = now
    BY <1>2, NsecAssumption DEF Init, Timespec, to_nsec
  <1>4. TypeOK
    BY <1>1, <1>3 DEF Init, TypeOK
  <1>5. t_cycle \in Nat /\ cycles * t_cycle = 0 /\ early * t_cycle = 0
    BY CycleAssumption DEF Init
  <1>6. NoDrift
    BY <1>1, <1>3, <1>5 DEF Init, NoDrift
  <1>7. PaceInv
    BY <1>1, <1>5 DEF Init, PaceInv
  <1> QED
    BY <1>4, <1>6, <1>7 DEF Init, IInv, PeriodInv, CheckIgnoresTiming

LEMMA StepInv == IInv /\ [Next]_vars => IInv'
  <1> SUFFICES ASSUME IInv, [Next]_vars PROVE IInv'
    OBVIOUS
  <1> USE CycleAssumption DEF IInv, TypeOK
  <1>1. CASE Sleep
    <2>1. t' \in Timespec /\ to_nsec(t') = to_nsec(t) + t_cycle
      BY <1>1, AddTimespec DEF Sleep
    <2>2. (cycles + 1) * t_cycle = cycles * t_cycle + t_cycle
      OBVIOUS
    <2>3. NoDrift'
      BY <1>1, <2>1, <2>2 DEF Sleep, NoDrift, to_nsec
    <2>4. PeriodInv'
      BY <1>1, <2>1 DEF Sleep, PeriodInv, to_nsec
    <2>5. PaceInv'
      BY <1>1, <2>2 DEF Sleep, PaceInv
    <2> QED
      BY <1>1, <2>1, <2>3, <2>4, <2>5 DEF Sleep, CheckIgnoresTiming
  <1>2. CASE Wake
    <2>1. ASSUME cycles > 1
          PROVE  OutOfTolerance(to_nsec(diff_timespec(t, t_1))) <=> t_cycle < Tolerance
      <3>1. to_nsec(t) = to_nsec(t_1) + t_cycle /\ to_nsec(t_1) \in Nat
        BY <1>2, <2>1, NsecAssumption DEF Wake, PeriodInv, to_nsec, Timespec
      <3>2. to_nsec(diff_timespec(t, t_1)) = t_cycle
        BY <3>1, DiffTimespec
      <3> QED
        BY <3>2, CheckOfPeriod
    <2>2. CheckIgnoresTiming'
      <3>1. /\ cycles' = cycles /\ t_cycle' = t_cycle
            /\ warned' = OutOfTolerance(to_nsec(diff_timespec(t, t_1)))
        BY <1>2 DEF Wake
      <3>2. cycles > 1 => (warned' <=> t_cycle < Tolerance)
        BY <2>1, <3>1
      <3> QED
        BY <3>1, <3>2 DEF CheckIgnoresTiming
    <2>3. NoDrift' /\ PeriodInv'
      BY <1>2 DEF Wake, NoDrift, PeriodInv, to_nsec
    <2>4. warned' \in BOOLEAN
      BY <1>2 DEF Wake, OutOfTolerance
    <2>5. PaceInv'
      <3>1. (early + 1) * t_cycle = early * t_cycle + t_cycle /\ 0 * t_cycle = 0
        OBVIOUS
      <3>2. CASE now >= to_nsec(t) /\ early' = 0
        BY <1>2, <3>1, <3>2 DEF Wake, PaceInv, NoDrift
      <3>3. CASE early' = early + 1
        BY <1>2, <3>1, <3>3 DEF Wake, PaceInv
      <3> QED
        BY <1>2, <3>2, <3>3 DEF Wake
    <2> QED
      BY <1>2, <2>2, <2>3, <2>4, <2>5 DEF Wake
  <1>3. CASE Update
    BY <1>3 DEF Update, NoDrift, PeriodInv, PaceInv, CheckIgnoresTiming, to_nsec
  <1>4. CASE Tick
    BY <1>4 DEF Tick, NoDrift, PeriodInv, PaceInv, CheckIgnoresTiming, to_nsec
  <1>5. CASE UNCHANGED vars
    BY <1>5 DEF vars, NoDrift, PeriodInv, PaceInv, CheckIgnoresTiming, to_nsec
  <1> QED
    BY <1>1, <1>2, <1>3, <1>4, <1>5 DEF Next

(***************************************************************************)
(* The deadlines stay normalised timespecs, and every variable its type.   *)
(***************************************************************************)
THEOREM TimerTyped == Spec => []TypeOK
  BY InitInv, StepInv, PTL DEF Spec, IInv

(***************************************************************************)
(* The deadlines never drift, however late a cycle is and however many     *)
(* signals the thread is sent.                                             *)
(***************************************************************************)
THEOREM DeadlinesDoNotDrift == Spec => []NoDrift
  BY InitInv, StepInv, PTL DEF Spec, IInv

(***************************************************************************)
(* A frame is early by one period at most for each of the interrupted      *)
(* sleeps in a row before it.                                              *)
(***************************************************************************)
THEOREM LoopRunsAheadByInterrupts == Spec => []AheadOnlyByInterrupts
  <1>1. IInv => AheadOnlyByInterrupts
    BY DEF IInv, PaceInv, AheadOnlyByInterrupts
  <1> QED
    BY <1>1, InitInv, StepInv, PTL DEF Spec

(***************************************************************************)
(* After its first cycle the check of the period depends on the constants  *)
(* only, never on when the loop ran.                                       *)
(***************************************************************************)
THEOREM PeriodCheckIsBlind == Spec => []CheckIgnoresTiming
  BY InitInv, StepInv, PTL DEF Spec, IInv

=============================================================================
