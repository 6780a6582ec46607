--------------------------- MODULE DriveBusProofs ---------------------------
(***************************************************************************)
(* Proofs about the drives behind the words, for any number of drives, any *)
(* frames they miss within the bound and any faults and services.          *)
(***************************************************************************)
EXTENDS DriveBus, Integers, Sequences, TLAPS

-----------------------------------------------------------------------------
(* The operators.                                                          *)

LEMMA ResultType == \A o, w : w \in Word => Result(o, w) \in Word
  BY DEF Result, AssignedWord, Modified, ReadyWord, SwitchOnWord, EnableWord, HomingWord,
         Word, Bit, HaltBit, QuickStopBit, SwitchOnBit, FaultResetBit

\* The commands of the script.
LEMMA ScriptResult ==
  ASSUME NEW s \in Nat, NEW w
  PROVE  Result(ScriptOp(s), w) = IF s = ResetStep THEN w \cup {7}
                                  ELSE IF s = ReadyStep THEN {1, 2}
                                  ELSE IF s = SwitchOnStep THEN {0, 1, 2}
                                  ELSE IF s = EnableStep THEN {0, 1, 2, 3}
                                  ELSE w
  BY StepAssumption
  DEF ScriptOp, Result, AssignOps, ModifyOps, EnableOps, AssignedWord, Modified, ReadyWord,
      SwitchOnWord, EnableWord, FaultResetBit

\* A service that does not enable sets neither bit 0 nor bit 3 where it finds the
\* other one.
LEMMA NeverBoth ==
  ASSUME NEW o \in MasterOps \ {"start"}, NEW w, ~(3 \in Result(o, w) /\ o \in AssignOps),
         ~(0 \in w /\ 3 \in w)
  PROVE  ~(0 \in Result(o, w) /\ 3 \in Result(o, w))
  BY DEF MasterOps, AssignOps, ModifyOps, Result, AssignedWord, Modified,
         HaltBit, QuickStopBit, SwitchOnBit, FaultResetBit

-----------------------------------------------------------------------------
(* Types.                                                                  *)

LEMMA TypeInit == Init => TypeOK
  BY BusAssumption, StepAssumption DEF Init, TypeOK, DriveState, SdoResetWord, Word, Bit

LEMMA TypeNext == TypeOK /\ [Next]_vars => TypeOK'
  <1> SUFFICES ASSUME TypeOK, [Next]_vars PROVE TypeOK'
    OBVIOUS
  <1> USE BusAssumption, StepAssumption DEF TypeOK
  <1>1. CASE Start
    BY <1>1, ResultType DEF Start, bus
  <1>2. CASE Wake
    <2>1. step' \in 0 .. LastStep + 1
      BY <1>2 DEF Wake, NextStep
    <2> QED
      BY <1>2, <2>1, ResultType DEF Wake, bus
  <1>3. CASE End
    BY <1>3 DEF End, bus, history
  <1>4. ASSUME NEW S \in SUBSET Slave, Send(S) PROVE TypeOK'
    <2>1. missed' \in [Slave -> 0 .. MaxMissed] /\ last' \in [Slave -> Word]
      BY <1>4 DEF Send
    <2> QED
      BY <1>4, <2>1 DEF Send, history
  <1>5. ASSUME NEW o \in Advertised, ServiceCall(o) PROVE TypeOK'
    BY <1>5, ResultType DEF ServiceCall, bus
  <1>6. ASSUME NEW i \in Slave, Fault(i) \/ Repair(i) \/ Rest(i) PROVE TypeOK'
    <2>1. /\ UNCHANGED <<word, pc, step, last, missed, calls>>
          /\ faults' \in Nat /\ drive' \in [Slave -> DriveState]
          /\ excused' \subseteq Slave /\ waiting' \subseteq Slave /\ asked' \subseteq Slave
      BY <1>6 DEF Fault, Repair, Rest, master, history, DriveState
    <2>2. cause' \in [Slave -> BOOLEAN]
      BY <1>6, Zenon DEF Fault, Repair, Rest
    <2> QED
      BY <2>1, <2>2
  <1>7. CASE UNCHANGED vars
    BY <1>7 DEF vars, master, bus, history
  <1> QED
    BY <1>1, <1>2, <1>3, <1>4, <1>5, <1>6, <1>7 DEF Next

(***************************************************************************)
(* Type correctness; a drive misses no more frames than MaxMissed.         *)
(***************************************************************************)
THEOREM DrivesTyped == Spec => []TypeOK
  BY TypeInit, TypeNext, PTL DEF Spec

-----------------------------------------------------------------------------
(* No restart without an operator.                                         *)

\* A drive that waits is at most switched on, and then the word at hand does not
\* both switch on and enable.
WaitInv ==
  \A i \in waiting :
    /\ step > EnableStep
    /\ drive[i] \in {"fault", "disabled", "ready", "on"}
    /\ drive[i] \in {"ready", "on"} => ~(0 \in word /\ 3 \in word)

LEMMA WaitInit == Init => WaitInv
  BY DEF Init, WaitInv

LEMMA WaitNext == TypeOK /\ WaitInv /\ [Next]_vars => WaitInv'
  <1> SUFFICES ASSUME TypeOK, WaitInv, [Next]_vars PROVE WaitInv'
    OBVIOUS
  <1> USE BusAssumption, StepAssumption DEF TypeOK, WaitInv
  <1>1. CASE Start
    BY <1>1 DEF Start, bus, Result, AssignOps, EnableOps, AssignedWord, ReadyWord
  <1>2. CASE Wake
    <2>1. ASSUME NEW i \in waiting PROVE word' = word /\ step' > EnableStep
      BY <1>2, ScriptResult DEF Wake, NextStep
    <2> QED
      BY <1>2, <2>1 DEF Wake, bus
  <1>3. CASE End
    BY <1>3 DEF End, bus, history
  <1>4. ASSUME NEW S \in SUBSET Slave, Send(S) PROVE WaitInv'
    <2>1. UNCHANGED <<word, step, waiting>>
      BY <1>4 DEF Send, history
    <2>2. ASSUME NEW i \in waiting
          PROVE  /\ drive'[i] \in {"fault", "disabled", "ready", "on"}
                 /\ drive'[i] \in {"ready", "on"} => ~(0 \in word /\ 3 \in word)
      <3>1. i \in Slave
        OBVIOUS
      <3>2. CASE i \notin S
        BY <1>4, <3>1, <3>2 DEF Send
      <3>3. CASE i \in S
        <4>1. drive'[i] \in Reaction(drive[i], last[i], word, cause[i])
          BY <1>4, <3>1, <3>3 DEF Send
        <4> QED
          BY <4>1 DEF Reaction, Command, SwitchOnBit
      <3> QED
        BY <3>2, <3>3
    <2> QED
      BY <2>1, <2>2
  <1>5. ASSUME NEW o \in Advertised, ServiceCall(o) PROVE WaitInv'
    <2>1. /\ UNCHANGED <<step, drive>> /\ word' = Result(o, word)
          /\ waiting' = IF 3 \in word' /\ o \in AssignOps THEN {} ELSE waiting
      BY <1>5 DEF ServiceCall, bus
    <2> QED
      BY <2>1, NeverBoth
  <1>6. ASSUME NEW j \in Slave, Fault(j) PROVE WaitInv'
    BY <1>6 DEF Fault, master
  <1>7. ASSUME NEW j \in Slave, Repair(j) PROVE WaitInv'
    BY <1>7 DEF Repair, master, history
  <1>8. ASSUME NEW j \in Slave, Rest(j) PROVE WaitInv'
    BY <1>8 DEF Rest, master, history
  <1>9. CASE UNCHANGED vars
    BY <1>9 DEF vars, master, bus, history
  <1> QED
    BY <1>1, <1>2, <1>3, <1>4, <1>5, <1>6, <1>7, <1>8, <1>9 DEF Next

(***************************************************************************)
(* A drive that fails after the script waits for an operator.              *)
(***************************************************************************)
THEOREM DrivesWait == Spec => []NoUnattendedRestart
  <1>1. WaitInv => NoUnattendedRestart
    BY DEF WaitInv, NoUnattendedRestart
  <1> QED
    BY <1>1, TypeInit, TypeNext, WaitInit, WaitNext, PTL DEF Spec

-----------------------------------------------------------------------------
(* What a reset is worth.                                                  *)

\* While a reset is the last command, its bit is in the word.
ResetInv ==
  /\ asked # {} => FaultResetBit \in word
  /\ \A i \in asked : ~cause[i]

LEMMA ResetInit == Init => ResetInv
  BY DEF Init, ResetInv

LEMMA ResetNext == TypeOK /\ ResetInv /\ [Next]_vars => ResetInv'
  <1> SUFFICES ASSUME TypeOK, ResetInv, [Next]_vars PROVE ResetInv'
    OBVIOUS
  <1> USE DEF TypeOK, ResetInv
  <1>1. CASE Start
    BY <1>1 DEF Start, bus
  <1>2. CASE Wake
    <2>1. CASE ScriptOp(step) = "none"
      BY <1>2, <2>1 DEF Wake, bus, Result, AssignOps, EnableOps, ModifyOps
    <2>2. CASE ScriptOp(step) # "none"
      BY <1>2, <2>2 DEF Wake, bus
    <2> QED
      BY <2>1, <2>2
  <1>3. CASE End
    BY <1>3 DEF End, bus, history
  <1>4. ASSUME NEW S \in SUBSET Slave, Send(S) PROVE ResetInv'
    BY <1>4 DEF Send, history
  <1>5. ASSUME NEW o \in Advertised, ServiceCall(o) PROVE ResetInv'
    <2>1. cause' = cause
      BY <1>5 DEF ServiceCall, bus
    <2>2. CASE o = "fault_reset"
      BY <1>5, <2>1, <2>2 DEF ServiceCall, Result, AssignOps, EnableOps, ModifyOps, Modified
    <2>3. CASE o # "fault_reset"
      BY <1>5, <2>3 DEF ServiceCall
    <2> QED
      BY <2>2, <2>3
  <1>6. ASSUME NEW j \in Slave, Fault(j) PROVE ResetInv'
    BY <1>6 DEF Fault, master
  <1>7. ASSUME NEW j \in Slave, Repair(j) PROVE ResetInv'
    BY <1>7 DEF Repair, master, history
  <1>8. ASSUME NEW j \in Slave, Rest(j) PROVE ResetInv'
    BY <1>8 DEF Rest, master, history
  <1>9. CASE UNCHANGED vars
    BY <1>9 DEF vars, master, bus, history
  <1> QED
    BY <1>1, <1>2, <1>3, <1>4, <1>5, <1>6, <1>7, <1>8, <1>9 DEF Next

LEMMA ResetStepActs ==
  ASSUME TypeOK, ResetInv, NEW S \in SUBSET Slave, Send(S), NEW i \in S \cap asked,
         drive[i] = "fault"
  PROVE  drive'[i] = "fault" <=> FaultResetBit \in last[i]
  <1>1. i \in Slave /\ ~cause[i] /\ FaultResetBit \in word
    BY DEF TypeOK, ResetInv
  <1>2. drive'[i] \in Reaction(drive[i], last[i], word, cause[i])
    BY <1>1 DEF Send
  <1>3. drive'[i] = IF FaultResetBit \in last[i] THEN "fault" ELSE "disabled"
    BY <1>1, <1>2 DEF Reaction
  <1> QED
    BY <1>3

(***************************************************************************)
(* A reset works on the edge of its bit, and on nothing else.              *)
(***************************************************************************)
THEOREM ResetsActOnEdges == Spec => ResetOnEdge
  <1>1. TypeOK /\ ResetInv /\ [Next]_vars
        => [\A S \in SUBSET Slave : Send(S) =>
              \A i \in S \cap asked : drive[i] = "fault" =>
                (drive'[i] = "fault" <=> FaultResetBit \in last[i])]_vars
    BY ResetStepActs
  <1> QED
    BY <1>1, TypeInit, TypeNext, ResetInit, ResetNext, PTL DEF Spec, ResetOnEdge

-----------------------------------------------------------------------------
(* The start-up.                                                           *)

\* Frames sent since the stage began.
Before(k) ==
  IF k = 1 THEN -1 ELSE IF k = 2 THEN ResetStep ELSE IF k = 3 THEN ReadyStep
  ELSE IF k = 4 THEN SwitchOnStep ELSE EnableStep

Frames == step - Before(Stage) - (IF pc = "wait" THEN 0 ELSE 1)

\* Where a drive is when stage k begins, and once it has had a frame of the stage.
Entered(k, d, l) ==
  /\ k \in {1, 2} => d \in {"fault", "disabled", "ready"}
  /\ k = 2 /\ d = "fault" => 7 \notin l
  /\ k = 3 => d \in {"disabled", "ready"}
  /\ k = 4 => d \in {"ready", "on"}
  /\ k = 5 => d \in {"on", "enabled"}

Arrived(k, d, l) ==
  /\ k = 1 => d \in {"fault", "disabled", "ready"} /\ 7 \notin l
  /\ k = 2 => d \in {"disabled", "ready"}
  /\ k = 3 => d = "ready"
  /\ k = 4 => d = "on"
  /\ k = 5 => d = "enabled"

WordOf(k) ==
  IF k = 2 THEN {1, 2, 7} ELSE IF k = 4 THEN {0, 1, 2} ELSE IF k = 5 THEN {0, 1, 2, 3}
  ELSE {1, 2}

StartupInv ==
  /\ pc = "start" => /\ step = 0 /\ \A i \in Slave : missed[i] = 0
                     /\ \A i \in Slave \ excused : drive[i] \in {"fault", "disabled"}
  /\ calls = 0 /\ pc \in {"send", "wait"} =>
       /\ word = WordOf(Stage)
       /\ \A i \in Slave \ excused :
            /\ Stage > 1 => ~cause[i]
            /\ Entered(Stage, drive[i], last[i])
            /\ missed[i] < Frames => Arrived(Stage, drive[i], last[i])

LEMMA StageRange == TypeOK => Stage \in 0 .. 5 /\ (pc # "start" => Stage \in 1 .. 5)
  BY DEF Stage

\* What a frame of stage k does to a drive that receives it.
LEMMA Received ==
  ASSUME NEW k \in 1 .. 5, NEW d, NEW l, NEW c, Entered(k, d, l), k > 1 => ~c,
         NEW e \in Reaction(d, l, WordOf(k), c)
  PROVE  Arrived(k, e, WordOf(k))
  <1> USE DEF Entered, Arrived, WordOf, Reaction, Command, FaultResetBit, QuickStopBit,
              SwitchOnBit
  <1>1. CASE k = 1
    BY <1>1
  <1>2. CASE k = 2
    BY <1>2
  <1>3. CASE k = 3
    BY <1>3
  <1>4. CASE k = 4
    BY <1>4
  <1>5. CASE k = 5
    BY <1>5
  <1> QED
    BY <1>1, <1>2, <1>3, <1>4, <1>5

LEMMA Stays ==
  ASSUME NEW k \in 1 .. 5, NEW d, NEW l, Arrived(k, d, l)
  PROVE  Entered(k, d, l)
  BY DEF Arrived, Entered

LEMMA Advances ==
  ASSUME NEW k \in 1 .. 4, NEW d, NEW l, Arrived(k, d, l)
  PROVE  Entered(k + 1, d, l)
  BY DEF Arrived, Entered

LEMMA StartupInit == Init => StartupInv
  BY DEF Init, StartupInv

LEMMA StartupWake ==
  ASSUME TypeOK, StartupInv, Wake
  PROVE  StartupInv'
  <1> USE BusAssumption, StepAssumption, GapAssumption DEF TypeOK
  <1>0. SUFFICES ASSUME calls = 0
                 PROVE  /\ word' = WordOf(Stage')
                        /\ \A i \in Slave \ excused' :
                             /\ Stage' > 1 => ~cause'[i]
                             /\ Entered(Stage', drive'[i], last'[i])
                             /\ missed'[i] < Frames' => Arrived(Stage', drive'[i], last'[i])
    BY DEF Wake, StartupInv
  <1>1. /\ pc = "wait" /\ pc' = "send" /\ step' = NextStep(step)
        /\ word' = Result(ScriptOp(step), word)
        /\ excused' = IF step = ResetStep THEN excused \cup {i \in Slave : cause[i]}
                      ELSE excused
        /\ UNCHANGED <<drive, last, missed, cause, calls>>
    BY DEF Wake, bus
  <1>2. Stage \in 1 .. 5
    BY <1>1, StageRange
  <1>3. /\ word = WordOf(Stage)
        /\ \A i \in Slave \ excused :
             /\ Stage > 1 => ~cause[i]
             /\ Entered(Stage, drive[i], last[i])
             /\ missed[i] < Frames => Arrived(Stage, drive[i], last[i])
    BY <1>0, <1>1 DEF StartupInv
  <1>4. \A i \in Slave \ excused' : i \in Slave \ excused /\ (step = ResetStep => ~cause[i])
    BY <1>1
  <1>5. CASE step \in {ResetStep, ReadyStep, SwitchOnStep, EnableStep}
    <2>1. Stage \in 1 .. 4 /\ Stage' = Stage + 1 /\ step' = step + 1
      BY <1>1, <1>5 DEF Stage, NextStep
    <2>2. word' = WordOf(Stage')
      <3>1. CASE step = ResetStep
        <4>1. Stage = 1 /\ word' = word \cup {7}
          BY <1>1, <3>1, ScriptResult DEF Stage
        <4> QED
          BY <1>3, <2>1, <4>1 DEF WordOf
      <3>2. CASE step = ReadyStep
        <4>1. Stage = 2 /\ word' = {1, 2}
          BY <1>1, <3>2, ScriptResult DEF Stage
        <4> QED
          BY <2>1, <4>1 DEF WordOf
      <3>3. CASE step = SwitchOnStep
        <4>1. Stage = 3 /\ word' = {0, 1, 2}
          BY <1>1, <3>3, ScriptResult DEF Stage
        <4> QED
          BY <2>1, <4>1 DEF WordOf
      <3>4. CASE step = EnableStep
        <4>1. Stage = 4 /\ word' = {0, 1, 2, 3}
          BY <1>1, <3>4, ScriptResult DEF Stage
        <4> QED
          BY <2>1, <4>1 DEF WordOf
      <3> QED
        BY <1>5, <3>1, <3>2, <3>3, <3>4
    <2>3. Frames \in Int /\ Frames > MaxMissed
      <3>1. Frames = step - Before(Stage)
        BY <1>1, <1>2 DEF Frames, Before
      <3>2. step = ResetStep => Stage = 1
        BY <1>1 DEF Stage
      <3>3. step = ReadyStep => Stage = 2
        BY <1>1 DEF Stage
      <3>4. step = SwitchOnStep => Stage = 3
        BY <1>1 DEF Stage
      <3>5. step = EnableStep => Stage = 4
        BY <1>1 DEF Stage
      <3> QED
        BY <1>5, <3>1, <3>2, <3>3, <3>4, <3>5 DEF Before
    <2>4. Frames' \in Int /\ Frames' <= 0
      <3>1. Frames' = step' - Before(Stage') - 1
        BY <1>1 DEF Frames
      <3>2. step = Before(Stage')
        BY <1>1, <1>5, <2>1 DEF Stage, Before
      <3> QED
        BY <2>1, <3>1, <3>2
    <2>5. ASSUME NEW i \in Slave \ excused'
          PROVE  ~cause[i] /\ Entered(Stage + 1, drive[i], last[i]) /\ ~(missed[i] < Frames')
      <3>1. missed[i] < Frames /\ ~(missed[i] < Frames')
        BY <1>4, <2>3, <2>4
      <3>2. Entered(Stage + 1, drive[i], last[i])
        BY <1>3, <1>4, <2>1, <3>1, Advances
      <3>3. ~cause[i]
        BY <1>1, <1>3, <1>4, <1>5 DEF Stage
      <3> QED
        BY <3>1, <3>2, <3>3
    <2> QED
      BY <1>1, <2>1, <2>2, <2>5
  <1>6. CASE step \notin {ResetStep, ReadyStep, SwitchOnStep, EnableStep}
    <2>1. Stage' = Stage /\ word' = word /\ excused' = excused
      BY <1>1, <1>6, ScriptResult DEF Stage, NextStep
    <2>2. Frames' <= Frames /\ Frames' \in Int /\ Frames \in Int
      BY <1>1, <1>2, <2>1 DEF Frames, Before, NextStep
    <2>3. \A i \in Slave : missed[i] < Frames' => missed[i] < Frames
      BY <2>2
    <2> QED
      BY <1>1, <1>3, <2>1, <2>3
  <1> QED
    BY <1>5, <1>6

LEMMA StartupSend ==
  ASSUME TypeOK, StartupInv, NEW S \in SUBSET Slave, Send(S)
  PROVE  StartupInv'
  <1> USE BusAssumption DEF TypeOK
  <1>0. SUFFICES ASSUME calls = 0
                 PROVE  /\ word' = WordOf(Stage')
                        /\ \A i \in Slave \ excused' :
                             /\ Stage' > 1 => ~cause'[i]
                             /\ Entered(Stage', drive'[i], last'[i])
                             /\ missed'[i] < Frames' => Arrived(Stage', drive'[i], last'[i])
    BY DEF Send, StartupInv
  <1>1. /\ pc = "send" /\ pc' = "wait" /\ UNCHANGED <<word, step, cause, calls, excused>>
        /\ Stage' = Stage /\ Stage \in 1 .. 5
    BY StageRange DEF Send, history, Stage
  <1>2. /\ word = WordOf(Stage)
        /\ \A i \in Slave \ excused :
             /\ Stage > 1 => ~cause[i]
             /\ Entered(Stage, drive[i], last[i])
             /\ missed[i] < Frames => Arrived(Stage, drive[i], last[i])
    BY <1>0, <1>1 DEF StartupInv
  <1>3. Frames \in Int /\ Frames' = Frames + 1
    BY <1>1, StepAssumption DEF Frames, Before
  <1>4. ASSUME NEW i \in Slave \ excused
        PROVE  /\ Entered(Stage, drive'[i], last'[i])
               /\ missed'[i] < Frames' => Arrived(Stage, drive'[i], last'[i])
    <2>1. CASE i \in S
      <3>1. last'[i] = word /\ drive'[i] \in Reaction(drive[i], last[i], word, cause[i])
        BY <2>1 DEF Send
      <3>2. Arrived(Stage, drive'[i], last'[i])
        BY <1>1, <1>2, <3>1, Received
      <3> QED
        BY <1>1, <3>2, Stays
    <2>2. CASE i \notin S
      <3>1. last'[i] = last[i] /\ drive'[i] = drive[i] /\ missed'[i] = missed[i] + 1
        BY <2>2 DEF Send
      <3>2. missed'[i] < Frames' => missed[i] < Frames
        BY <1>3, <3>1
      <3> QED
        BY <1>2, <3>1, <3>2
    <2> QED
      BY <2>1, <2>2
  <1> QED
    BY <1>1, <1>2, <1>4

LEMMA StartupNext == TypeOK /\ StartupInv /\ [Next]_vars => StartupInv'
  <1> SUFFICES ASSUME TypeOK, StartupInv, [Next]_vars PROVE StartupInv'
    OBVIOUS
  <1> USE BusAssumption, StepAssumption DEF TypeOK
  <1>1. CASE Start
    <2>1. /\ pc = "start" /\ pc' = "send" /\ word' = {1, 2}
          /\ UNCHANGED <<step, drive, last, missed, cause, calls, excused>>
      BY <1>1 DEF Start, bus, Result, AssignOps, EnableOps, AssignedWord, ReadyWord
    <2>2. step = 0 /\ Stage' = 1 /\ Frames' = 0
      BY <2>1 DEF StartupInv, Stage, Frames, Before
    <2>3. \A i \in Slave \ excused : /\ missed[i] = 0 /\ Entered(1, drive[i], last[i])
      BY <2>1 DEF StartupInv, Entered
    <2> QED
      BY <2>1, <2>2, <2>3 DEF StartupInv, WordOf
  <1>2. CASE Wake
    BY <1>2, StartupWake
  <1>3. CASE End
    BY <1>3 DEF End, StartupInv, bus, history
  <1>4. ASSUME NEW S \in SUBSET Slave, Send(S) PROVE StartupInv'
    BY <1>4, StartupSend
  <1>5. ASSUME NEW o \in Advertised, ServiceCall(o) PROVE StartupInv'
    BY <1>5 DEF ServiceCall, StartupInv, bus
  <1>6. ASSUME NEW j \in Slave, Fault(j) PROVE StartupInv'
    <2>1. /\ UNCHANGED <<word, pc, step, last, missed, calls>> /\ excused' = excused \cup {j}
          /\ \A i \in Slave \ {j} : drive'[i] = drive[i] /\ cause'[i] = cause[i]
          /\ Stage' = Stage /\ Frames' = Frames
      BY <1>6 DEF Fault, master, Stage, Frames
    <2> QED
      BY <2>1 DEF StartupInv
  <1>7. ASSUME NEW j \in Slave, Repair(j) PROVE StartupInv'
    <2>1. /\ UNCHANGED <<word, pc, step, drive, last, missed, calls, excused>>
          /\ \A i \in Slave : cause'[i] => cause[i]
          /\ Stage' = Stage /\ Frames' = Frames
      BY <1>7 DEF Repair, master, history, Stage, Frames
    <2> QED
      BY <2>1 DEF StartupInv
  <1>8. ASSUME NEW j \in Slave, Rest(j) PROVE StartupInv'
    <2>1. /\ UNCHANGED <<word, pc, step, last, missed, cause, calls, excused>>
          /\ \A i \in Slave \ {j} : drive'[i] = drive[i]
          /\ Stage' = Stage /\ Frames' = Frames
          /\ drive[j] = "stopping" /\ drive'[j] = "disabled"
      BY <1>8 DEF Rest, master, history, Stage, Frames
    <2>2. calls = 0 /\ pc \in {"send", "wait"} => j \in excused
      BY <2>1, StageRange DEF StartupInv, Entered
    <2> QED
      BY <2>1, <2>2 DEF StartupInv
  <1>9. CASE UNCHANGED vars
    BY <1>9 DEF vars, master, bus, history, StartupInv, Stage, Frames
  <1> QED
    BY <1>1, <1>2, <1>3, <1>4, <1>5, <1>6, <1>7, <1>8, <1>9 DEF Next

(***************************************************************************)
(* The start-up enables every drive whose fault it can reset, whatever     *)
(* frames the drives miss.                                                 *)
(***************************************************************************)
THEOREM DrivesReachOperation == Spec => []StartupReachesOperation
  <1>1. TypeOK /\ StartupInv => StartupReachesOperation
    <2> SUFFICES ASSUME TypeOK, StartupInv, pc = "wait", step > EnableStep + MaxMissed,
                        calls = 0, NEW i \in Slave \ excused
                 PROVE  drive[i] = "enabled"
      BY DEF StartupReachesOperation
    <2> USE BusAssumption, StepAssumption DEF TypeOK
    <2>1. Stage = 5 /\ Frames = step - EnableStep
      BY DEF Stage, Frames, Before
    <2>2. missed[i] < Frames
      BY <2>1
    <2>3. Arrived(5, drive[i], last[i])
      BY <2>1, <2>2 DEF StartupInv
    <2> QED
      BY <2>3 DEF Arrived
  <1> QED
    BY <1>1, TypeInit, TypeNext, StartupInit, StartupNext, PTL DEF Spec

-----------------------------------------------------------------------------
(* Refinement.                                                             *)

LEMMA ScriptWords ==
  /\ Len(Abstract!Script) = 5
  /\ \A k \in 1 .. 5 : Abstract!Script[k] = WordOf(k)
  BY DEF WordOf, Abstract!Script, Abstract!ReadyWord, Abstract!SwitchOnWord,
         Abstract!EnableWord, Abstract!Modified, Abstract!FaultResetBit

LEMMA RefineInit == Init => Abstract!Init
  BY DEF Init, Abstract!Init, Stage, Abstract!Slave, Slave, Abstract!SdoResetWord, SdoResetWord

LEMMA RefineNext ==
  TypeOK /\ StartupInv /\ [Next]_vars
    => [Abstract!Next]_<<Stage, last, calls > 0>>
  <1> SUFFICES ASSUME TypeOK, StartupInv, [Next]_vars
               PROVE  \/ Abstract!Next
                      \/ UNCHANGED <<Stage, last, calls > 0>>
    OBVIOUS
  <1> USE StepAssumption, BusAssumption DEF TypeOK
  <1>1. CASE Start
    <2>1. Stage = 0 /\ Stage' = 1 /\ UNCHANGED <<last, calls>>
      BY <1>1 DEF Start, Stage, StartupInv, bus
    <2>2. Abstract!Advance
      BY <2>1, ScriptWords DEF Abstract!Advance
    <2> QED
      BY <2>2 DEF Abstract!Next
  <1>2. CASE Wake
    <2>1. UNCHANGED <<last, calls>> /\ Stage' \in {Stage, Stage + 1} /\ Stage \in Nat
          /\ (Stage' # Stage => Stage < 5)
      BY <1>2 DEF Wake, Stage, NextStep, bus
    <2>2. Stage' # Stage => Abstract!Advance
      BY <2>1, ScriptWords DEF Abstract!Advance
    <2> QED
      BY <2>1, <2>2 DEF Abstract!Next
  <1>3. ASSUME NEW S \in SUBSET Slave, Send(S) PROVE Abstract!Next
    <2>1. /\ UNCHANGED <<calls, step, word>> /\ pc = "send"
          /\ last' = [i \in Slave |-> IF i \in S THEN word ELSE last[i]]
          /\ Stage' = Stage /\ Stage \in 1 .. 5
      BY <1>3, StageRange DEF Send, Stage
    <2>2. CASE calls = 0
      <3>1. word = Abstract!Script[Stage]
        BY <2>1, <2>2, ScriptWords DEF StartupInv
      <3>2. Abstract!Send(S)
        BY <2>1, <2>2, <3>1 DEF Abstract!Send, Abstract!Slave, Slave
      <3> QED
        BY <3>2 DEF Abstract!Next, Abstract!Slave, Slave
    <2>3. CASE calls # 0
      <3>1. last' \in [Slave -> Word] /\ calls > 0
        BY <2>1, <2>3
      <3>2. Abstract!SendAny
        BY <2>1, <3>1
        DEF Abstract!SendAny, Abstract!Slave, Slave, Abstract!Word, Abstract!Bit, Word, Bit
      <3> QED
        BY <3>2 DEF Abstract!Next
    <2> QED
      BY <2>2, <2>3
  <1>4. ASSUME NEW o \in Advertised, ServiceCall(o) PROVE Abstract!Next
    <2>1. UNCHANGED <<last, pc, step>> /\ calls' > 0
      BY <1>4 DEF ServiceCall, bus
    <2>2. Abstract!Intervene
      BY <2>1 DEF Abstract!Intervene, Stage
    <2> QED
      BY <2>2 DEF Abstract!Next
  <1>5. ASSUME UNCHANGED <<last, step, calls>>, pc' = pc \/ (pc = "wait" /\ pc' = "done")
        PROVE  UNCHANGED <<Stage, last, calls > 0>>
    BY <1>5 DEF Stage
  <1>6. CASE End
    BY <1>5, <1>6 DEF End, bus
  <1>7. ASSUME NEW j \in Slave, Fault(j) \/ Repair(j) \/ Rest(j)
        PROVE  UNCHANGED <<Stage, last, calls > 0>>
    BY <1>5, <1>7 DEF Fault, Repair, Rest, master
  <1>8. CASE UNCHANGED vars
    BY <1>5, <1>8 DEF vars, master, bus
  <1> QED
    BY <1>1, <1>2, <1>3, <1>4, <1>6, <1>7, <1>8 DEF Next

(***************************************************************************)
(* What each drive acts on, whatever frames it misses, implements the      *)
(* abstract start-up.                                                      *)
(***************************************************************************)
THEOREM BusImplementsPowerUp == Spec => ImplementsPowerUp
  <1>1. Init => Abstract!Init
    BY RefineInit
  <1>2. TypeOK /\ StartupInv /\ [Next]_vars
          => [Abstract!Next]_<<Stage, last, calls > 0>>
    BY RefineNext
  <1> QED
    BY <1>1, <1>2, TypeInit, TypeNext, StartupInit, StartupNext, PTL
    DEF Spec, ImplementsPowerUp, Abstract!Spec

=============================================================================
