------------------------- MODULE ControlLoopProofs -------------------------
(***************************************************************************)
(* Proofs about ControlLoop for any number of drives, of spinner threads   *)
(* and of calls; the last part, that it implements PowerUp.                *)
(***************************************************************************)
EXTENDS ControlLoopInv, Sequences, TLAPS

-----------------------------------------------------------------------------
(* What the commands do to one word.                                       *)

\* No command sets a bit that a word does not have.
LEMMA AssignedType == \A o \in AssignOps : AssignedWord(o) \in Word
  BY DEF AssignOps, EnableOps, AssignedWord, ReadyWord, SwitchOnWord, EnableWord, HomingWord, Word, Bit

LEMMA ModifiedType == \A o \in ModifyOps, w \in Word : Modified(o, w) \in Word
  BY DEF ModifyOps, Modified, FaultResetBit, HaltBit, QuickStopBit, SwitchOnBit, Word, Bit

\* A halt or a quick stop has its effect on the word it is applied to.
LEMMA StopsItself == \A o \in StopOps, w \in Word : Stops(o, Modified(o, w))
  BY DEF StopOps, Stops, Modified, HaltBit, QuickStopBit

\* No modifying command, a fault reset in particular, undoes a stop.
LEMMA ModifiedKeepsStop ==
  \A o \in StopOps, m \in ModifyOps, w \in Word : Stops(o, w) => Stops(o, Modified(m, w))
  BY DEF StopOps, ModifyOps, Stops, Modified, FaultResetBit, HaltBit, QuickStopBit, SwitchOnBit

\* Only NoWord has a bit 16.
LEMMA NoWordNotWord == NoWord \notin Word
  BY DEF NoWord, Word, Bit

\* The operations are those of one loop or the other.
LEMMA OpsDisjoint ==
  /\ AssignOps \cap ModifyOps = {} /\ StopOps \subseteq ModifyOps
  /\ "none" \notin MasterOps /\ "start" \in AssignOps
  BY DEF AssignOps, ModifyOps, StopOps, MasterOps

LEMMA ScriptOpType == \A s \in Nat : ScriptOp(s) \in MasterOps \cup {"none"}
  BY DEF ScriptOp, MasterOps, AssignOps, ModifyOps

-----------------------------------------------------------------------------
(* Type correctness.                                                       *)

LEMMA TypeInit == Init => TypeOK
  <1> SUFFICES ASSUME Init PROVE TypeOK
    OBVIOUS
  <1> USE SlaveAssumption, CallAssumption, StepAssumption
  <1>1. /\ control_word \in [Slave -> Word] /\ target_position \in [Slave -> Target]
    BY WordAssumption DEF Init, Target
  <1>2. outputs \in [Slave -> Pdo] /\ wire \in [Slave -> Pdo]
    BY DEF Init, Pdo, Target, Word, Bit, SdoResetWord
  <1>3. /\ op \in [Thread -> MasterOps \cup {"none"}]
        /\ idx \in [Thread -> 1 .. SlaveCount + 1]
        /\ loaded \in [Thread -> Word \cup {NoWord}]
    BY OpsDisjoint DEF Init, MasterOps
  <1>4. /\ pc = "start" /\ slot \in 1 .. SlaveCount + 1 /\ step \in 0 .. LastStep + 1
        /\ ros_ok \in BOOLEAN /\ calls \in 0 .. MaxCalls
    BY DEF Init
  <1>5. /\ serial \in BOOLEAN
        /\ grade \in [Thread -> {"none", "mixed", "alone"}]
        /\ stop \in [StopOps -> {"none", "raced", "held"}]
        /\ kept \subseteq StopOps
    BY DEF Init
  <1> QED
    BY <1>1, <1>2, <1>3, <1>4, <1>5 DEF TypeOK

\* The call of any command.
LEMMA EnterType ==
  ASSUME TypeOK, NEW t \in Thread, NEW o \in MasterOps, Enter(t, o)
  PROVE  /\ op' \in [Thread -> MasterOps \cup {"none"}]
         /\ idx' \in [Thread -> 1 .. SlaveCount + 1]
         /\ serial' \in BOOLEAN
         /\ grade' \in [Thread -> {"none", "mixed", "alone"}]
         /\ stop' \in [StopOps -> {"none", "raced", "held"}]
         /\ kept' \subseteq StopOps
  <1>1. op' \in [Thread -> MasterOps \cup {"none"}] /\ idx' \in [Thread -> 1 .. SlaveCount + 1]
    BY SlaveAssumption DEF Enter, TypeOK
  <1>2. serial' \in BOOLEAN
    BY DEF Enter, TypeOK
  <1>3. Grade(t, o) \in {"none", "mixed", "alone"}
    BY DEF Grade
  <1>4. \A u \in Thread : Disturbed(u, o) \in {"none", "mixed", "alone"}
    BY DEF Disturbed, TypeOK
  <1>5. grade' \in [Thread -> {"none", "mixed", "alone"}]
    BY <1>3, <1>4 DEF Enter
  <1>6. stop' \in [StopOps -> {"none", "raced", "held"}] /\ kept' \subseteq StopOps
    BY DEF Enter, TypeOK
  <1> QED
    BY <1>1, <1>2, <1>5, <1>6

LEMMA TypeNext == TypeOK /\ [Next]_vars => TypeOK'
  <1> SUFFICES ASSUME TypeOK, [Next]_vars PROVE TypeOK'
    OBVIOUS
  <1> USE SlaveAssumption, StepAssumption, CallAssumption
  <1>1. ASSUME NEW t \in Thread, Load(t) PROVE TypeOK'
    BY <1>1 DEF Load, TypeOK, shared, image, cycle, history
  <1>2. ASSUME NEW t \in Thread, StoreModified(t) PROVE TypeOK'
    <2>1. Modified(op[t], loaded[t]) \in Word
      BY <1>2, ModifiedType DEF StoreModified, TypeOK
    <2>2. control_word' \in [Slave -> Word] /\ loaded' \in [Thread -> Word \cup {NoWord}]
      BY <1>2, <2>1 DEF StoreModified, TypeOK
    <2>3. idx' \in [Thread -> 1 .. SlaveCount + 1]
      BY <1>2 DEF StoreModified, TypeOK, Slave
    <2> QED
      BY <1>2, <2>2, <2>3 DEF StoreModified, TypeOK, image, cycle, history
  <1>3. ASSUME NEW t \in Thread, StoreAssigned(t) PROVE TypeOK'
    <2>1. control_word' \in [Slave -> Word]
      BY <1>3, AssignedType DEF StoreAssigned, TypeOK
    <2>2. target_position' \in [Slave -> Target]
      BY <1>3 DEF StoreAssigned, TypeOK, Target
    <2>3. idx' \in [Thread -> 1 .. SlaveCount + 1]
      BY <1>3 DEF StoreAssigned, TypeOK, Slave
    <2> QED
      BY <1>3, <2>1, <2>2, <2>3 DEF StoreAssigned, TypeOK, image, cycle, history
  <1>4. ASSUME NEW t \in Thread, Command(t) PROVE TypeOK'
    BY <1>1, <1>2, <1>3, <1>4 DEF Command
  <1>5. ASSUME NEW t \in Spinners, NEW o \in Advertised, ServiceCall(t, o) PROVE TypeOK'
    <2>1. t \in Thread /\ o \in MasterOps
      BY DEF Thread
    <2>2. calls' \in 0 .. MaxCalls
      BY <1>5 DEF ServiceCall, TypeOK
    <2> QED
      BY <1>5, <2>1, <2>2, EnterType DEF ServiceCall, TypeOK, shared, image, cycle
  <1>6. ASSUME NEW t \in Spinners, ServiceReturn(t) PROVE TypeOK'
    <2>1. t \in Thread
      BY DEF Thread
    <2>2. op[t] \in StopOps => Replied(t) \in {"none", "raced", "held"}
      BY <2>1 DEF Replied, TypeOK
    <2>3. stop' \in [StopOps -> {"none", "raced", "held"}]
      BY <1>6, <2>2 DEF ServiceReturn, TypeOK
    <2> QED
      BY <1>6, <2>1, <2>3 DEF ServiceReturn, Leave, TypeOK, shared, image, cycle
  <1>7. BeginUpdate => slot' \in Slave /\ step' \in 0 .. LastStep + 1
    BY DEF BeginUpdate, NextStep, TypeOK, Slave
  <1>8. CASE CommandDone
    BY <1>7, <1>8 DEF CommandDone, BeginUpdate, Leave, TypeOK, shared, image, Thread, Slave
  <1>9. CASE WakeForCommand
    <2>1. Control \in Thread /\ ScriptOp(step) \in MasterOps
      BY <1>9, ScriptOpType DEF WakeForCommand, TypeOK, Thread
    <2> QED
      BY <1>9, <2>1, EnterType DEF WakeForCommand, TypeOK, shared, image
  <1>10. CASE WakeForUpdate
    BY <1>7, <1>10 DEF WakeForUpdate, BeginUpdate, TypeOK, shared, image, running, Slave
  <1>11. CASE CopyLow
    <2>1. outputs' \in [Slave -> Pdo]
      BY <1>11 DEF CopyLow, WithLow, TypeOK, Pdo, Word
    <2> QED
      BY <1>11, <2>1 DEF CopyLow, TypeOK, shared, running, history
  <1>12. CASE CopyHigh
    <2>1. outputs' \in [Slave -> Pdo]
      BY <1>12 DEF CopyHigh, WithHigh, TypeOK, Pdo, Word
    <2> QED
      BY <1>12, <2>1 DEF CopyHigh, TypeOK, shared, running, history, Slave
  <1>13. CASE Deliver \/ Lose
    BY <1>13 DEF Deliver, Lose, EndUpdate, NextCycle, TypeOK, shared, running, history
  <1>14. CASE CreateThread
    BY <1>14 DEF CreateThread, NextCycle, TypeOK, shared, image, running, history
  <1>15. CASE Shutdown
    BY <1>15 DEF Shutdown, TypeOK, shared, image, running, cycle, history
  <1>16. CASE UNCHANGED vars
    BY <1>16 DEF vars, TypeOK, shared, image, running, cycle, history
  <1> QED
    BY <1>4, <1>5, <1>6, <1>8, <1>9, <1>10, <1>11, <1>12, <1>13, <1>14, <1>15, <1>16
    DEF Next, Loop, Service, Thread

(***************************************************************************)
(* Every variable keeps its type.                                          *)
(***************************************************************************)
THEOREM TypeCorrect == Spec => []TypeOK
  BY TypeInit, TypeNext, PTL DEF Spec

-----------------------------------------------------------------------------
(* Which thread runs what.                                                 *)

LEMMA ThreadInit == Init => ThreadInv
  BY OpsDisjoint DEF Init, ThreadInv, Idle, Thread, StopOps

LEMMA ScriptOpNotStart == \A s \in Nat : ScriptOp(s) \notin StopOps \cup {"start"}
  BY DEF ScriptOp, StopOps

LEMMA ThreadNext == TypeOK /\ ThreadInv /\ [Next]_vars => ThreadInv'
  <1> SUFFICES ASSUME TypeOK, ThreadInv, [Next]_vars PROVE ThreadInv'
    OBVIOUS
  <1> USE OpsDisjoint, NoWordNotWord, SlaveAssumption DEF Slave
  <1>0. Control \in Thread
    BY DEF Thread
  <1>1. ASSUME NEW t \in Thread, Load(t) PROVE ThreadInv'
    BY <1>1 DEF Load, ThreadInv, Idle, cycle
  <1>2. ASSUME NEW t \in Thread, StoreModified(t) PROVE ThreadInv'
    BY <1>2 DEF StoreModified, ThreadInv, Idle, cycle, TypeOK
  <1>3. ASSUME NEW t \in Thread, StoreAssigned(t) PROVE ThreadInv'
    BY <1>3 DEF StoreAssigned, ThreadInv, Idle, cycle, TypeOK
  <1>4. ASSUME NEW t \in Thread, Command(t) PROVE ThreadInv'
    BY <1>1, <1>2, <1>3, <1>4 DEF Command
  <1>5. ASSUME NEW t \in Spinners, NEW o \in Advertised, ServiceCall(t, o) PROVE ThreadInv'
    BY <1>0, <1>5, ThreadAssumption, CallAssumption
    DEF ServiceCall, Enter, ThreadInv, Idle, cycle, TypeOK, Thread, MasterOps
  <1>6. ASSUME NEW t \in Spinners, ServiceReturn(t) PROVE ThreadInv'
    BY <1>0, <1>6, ThreadAssumption
    DEF ServiceReturn, Finished, Leave, ThreadInv, Idle, cycle, TypeOK, Thread
  <1>7. CASE CommandDone
    BY <1>0, <1>7
    DEF CommandDone, Finished, BeginUpdate, Leave, ThreadInv, Idle, TypeOK, Thread, StopOps
  <1>8. CASE WakeForCommand
    <2>1. ScriptOp(step) \in MasterOps /\ ScriptOp(step) \notin StopOps \cup {"start"}
      BY <1>8, ScriptOpType, ScriptOpNotStart, StepAssumption DEF WakeForCommand, TypeOK
    <2>2. /\ pc' = "script" /\ op' = [op EXCEPT ![Control] = ScriptOp(step)]
          /\ idx' = [idx EXCEPT ![Control] = 1] /\ UNCHANGED loaded
          /\ pc = "wait" /\ Idle(Control)
      BY <1>8 DEF WakeForCommand, Enter, ThreadInv
    <2> QED
      BY <1>0, <2>1, <2>2 DEF ThreadInv, Idle, TypeOK, MasterOps
  <1>9. CASE WakeForUpdate
    BY <1>9 DEF WakeForUpdate, BeginUpdate, ThreadInv, Idle, running
  <1>10. CASE CopyLow
    BY <1>10 DEF CopyLow, ThreadInv, Idle, running
  <1>11. CASE CopyHigh
    BY <1>11 DEF CopyHigh, ThreadInv, Idle, running
  <1>12. CASE Deliver \/ Lose
    BY <1>12 DEF Deliver, Lose, EndUpdate, NextCycle, ThreadInv, Idle, running
  <1>13. CASE CreateThread
    BY <1>13 DEF CreateThread, NextCycle, ThreadInv, Idle, running
  <1>14. CASE Shutdown
    BY <1>14 DEF Shutdown, ThreadInv, Idle, running, cycle
  <1>15. CASE UNCHANGED vars
    BY <1>15 DEF vars, ThreadInv, Idle, running, cycle
  <1> QED
    BY <1>0, <1>4, <1>5, <1>6, <1>7, <1>8, <1>9, <1>10, <1>11, <1>12, <1>13, <1>14, <1>15
    DEF Next, Loop, Service, Thread

-----------------------------------------------------------------------------
(* A stop holds once its reply is sent.                                    *)

\* The call of a command by a thread that runs none.
LEMMA StopEnter ==
  ASSUME TypeOK, StopInv, NEW t \in Thread, NEW o \in MasterOps, Idle(t), Enter(t, o),
         UNCHANGED <<control_word, loaded>>
  PROVE  GradeInv' /\ HeldInv'
  <1> USE OpsDisjoint DEF MasterOps
  <1>1. /\ op' = [op EXCEPT ![t] = o] /\ idx' = [idx EXCEPT ![t] = 1]
        /\ grade' = [u \in Thread |-> IF u = t THEN Grade(t, o) ELSE Disturbed(u, o)]
        /\ stop' = IF o \in AssignOps THEN [p \in StopOps |-> "none"] ELSE stop
    BY DEF Enter
  <1>2. GradeInv'
    <2> SUFFICES ASSUME NEW v \in Thread, grade'[v] # "none"
                 PROVE  /\ op'[v] \in StopOps
                        /\ \A u \in Thread : op'[u] \notin AssignOps
                        /\ grade'[v] = "alone" =>
                             /\ \A u \in Thread : op'[u] \in {"none", op'[v]}
                             /\ \A i \in Slave : i < idx'[v] => Stops(op'[v], control_word[i])
      BY DEF GradeInv, Stops
    <2>1. CASE v = t
      BY <1>1, <2>1 DEF Grade, TypeOK, Slave
    <2>2. CASE v # t
      BY <1>1, <2>2 DEF Disturbed, TypeOK, StopInv, GradeInv
    <2> QED
      BY <2>1, <2>2
  <1>3. loaded[t] = NoWord
    BY DEF StopInv, ThreadInv, Idle
  <1>4. HeldInv'
    <2> SUFFICES ASSUME NEW p \in StopOps, stop'[p] = "held"
                 PROVE  /\ \A i \in Slave : Stops(p, control_word[i])
                        /\ \A u \in Thread :
                             /\ op'[u] \notin AssignOps
                             /\ loaded[u] # NoWord => Stops(p, Modified(op'[u], loaded[u]))
      BY DEF HeldInv, Stops, Modified
    <2> QED
      BY <1>1, <1>3 DEF StopInv, HeldInv, TypeOK
  <1> QED
    BY <1>2, <1>4

\* The end of a command: no thread is worse off.
LEMMA StopLeave ==
  ASSUME TypeOK, StopInv, NEW t \in Thread, Leave(t), grade'[t] = "none",
         \A u \in Thread : u # t => grade'[u] = grade[u],
         UNCHANGED <<control_word, loaded>>
  PROVE  GradeInv'
  BY OpsDisjoint DEF MasterOps, Leave, TypeOK, StopInv, GradeInv, Stops, AssignOps

LEMMA StopStore ==
  ASSUME TypeOK, StopInv, NEW t \in Thread, StoreModified(t)
  PROVE  GradeInv' /\ HeldInv'
  <1> USE OpsDisjoint
  <1>1. /\ control_word' = [control_word EXCEPT ![idx[t]] = Modified(op[t], loaded[t])]
        /\ op[t] \in ModifyOps /\ idx[t] \in Slave /\ loaded[t] \in Word
        /\ loaded' = [loaded EXCEPT ![t] = NoWord] /\ idx' = [idx EXCEPT ![t] = @ + 1]
        /\ UNCHANGED <<op, grade, stop>>
    BY DEF StoreModified, TypeOK, history
  <1>2. GradeInv'
    <2> SUFFICES ASSUME NEW v \in Thread, grade[v] = "alone",
                        NEW i \in Slave, i < idx'[v]
                 PROVE  Stops(op[v], control_word'[i])
      BY <1>1 DEF GradeInv, StopInv
    <2>1. op[v] \in StopOps /\ op[t] = op[v]
      BY <1>1 DEF StopInv, GradeInv, MasterOps
    <2>2. CASE i = idx[t]
      BY <1>1, <2>1, <2>2, StopsItself DEF TypeOK
    <2>3. CASE i # idx[t]
      <3>1. i < idx[v]
        BY <1>1, <2>3 DEF TypeOK, Slave
      <3>2. control_word'[i] = control_word[i]
        BY <1>1, <2>3 DEF TypeOK
      <3> QED
        BY <3>1, <3>2 DEF StopInv, GradeInv
    <2> QED
      BY <2>2, <2>3
  <1>3. HeldInv'
    <2> SUFFICES ASSUME NEW o \in StopOps, stop[o] = "held"
                 PROVE  /\ \A i \in Slave : Stops(o, control_word'[i])
                        /\ \A u \in Thread :
                             /\ op[u] \notin AssignOps
                             /\ loaded'[u] # NoWord => Stops(o, Modified(op[u], loaded'[u]))
      BY <1>1 DEF HeldInv
    <2>1. Stops(o, Modified(op[t], loaded[t]))
      BY <1>1, NoWordNotWord DEF StopInv, HeldInv
    <2> QED
      BY <1>1, <2>1 DEF StopInv, HeldInv, TypeOK
  <1> QED
    BY <1>2, <1>3

LEMMA StopReturn ==
  ASSUME TypeOK, StopInv, NEW t \in Thread, ServiceReturn(t)
  PROVE  GradeInv' /\ HeldInv'
  <1> USE OpsDisjoint
  <1>1. /\ op' = [op EXCEPT ![t] = "none"] /\ idx[t] > SlaveCount /\ Leave(t)
        /\ grade' = [grade EXCEPT ![t] = "none"]
        /\ UNCHANGED <<control_word, loaded>>
        /\ stop' = IF op[t] \in StopOps THEN [stop EXCEPT ![op[t]] = Replied(t)] ELSE stop
    BY DEF ServiceReturn, Finished, Leave, shared
  <1>2. GradeInv'
    BY <1>1, StopLeave DEF TypeOK
  <1>3. HeldInv'
    <2> SUFFICES ASSUME NEW o \in StopOps, stop'[o] = "held"
                 PROVE  /\ \A i \in Slave : Stops(o, control_word[i])
                        /\ \A u \in Thread :
                             /\ op'[u] \notin AssignOps
                             /\ loaded[u] # NoWord => Stops(o, Modified(op'[u], loaded[u]))
      BY <1>1 DEF HeldInv, Stops
    <2>1. loaded[t] = NoWord
      BY <1>1, SlaveAssumption DEF StopInv, ThreadInv, Slave
    <2>2. CASE stop[o] = "held"
      BY <1>1, <2>1, <2>2 DEF StopInv, HeldInv, TypeOK, AssignOps
    <2>3. CASE stop[o] # "held"
      <3>1. o = op[t] /\ grade[t] = "alone"
        BY <1>1, <2>3 DEF Replied, TypeOK
      <3>2. \A u \in Thread : op[u] \in {"none", o}
        BY <3>1 DEF StopInv, GradeInv
      <3>3. \A i \in Slave : Stops(o, control_word[i])
        <4>1. \A i \in Slave : i < idx[t]
          BY <1>1, SlaveAssumption DEF Slave, TypeOK
        <4>2. \A i \in Slave : i < idx[t] => Stops(op[t], control_word[i])
          BY <3>1 DEF StopInv, GradeInv
        <4> QED
          BY <3>1, <4>1, <4>2
      <3>4. \A u \in Thread : loaded[u] # NoWord => Stops(o, Modified(op'[u], loaded[u]))
        BY <1>1, <2>1, <3>2, StopsItself DEF StopInv, ThreadInv, TypeOK, MasterOps
      <3> QED
        BY <1>1, <3>2, <3>3, <3>4 DEF TypeOK, AssignOps, StopOps
    <2> QED
      BY <2>2, <2>3
  <1> QED
    BY <1>2, <1>3

LEMMA StopInit == Init => GradeInv /\ HeldInv
  BY DEF Init, GradeInv, HeldInv

LEMMA StopNext == TypeOK /\ StopInv /\ [Next]_vars => GradeInv' /\ HeldInv'
  <1> SUFFICES ASSUME TypeOK, StopInv, [Next]_vars PROVE GradeInv' /\ HeldInv'
    OBVIOUS
  <1> USE OpsDisjoint
  <1>0. Control \in Thread
    BY DEF Thread
  <1>1. ASSUME NEW t \in Thread, Load(t) PROVE GradeInv' /\ HeldInv'
    <2>1. /\ loaded' = [loaded EXCEPT ![t] = control_word[idx[t]]]
          /\ op[t] \in ModifyOps /\ idx[t] \in Slave
          /\ UNCHANGED <<control_word, op, idx, grade, stop>>
      BY <1>1 DEF Load, shared, history
    <2>2. GradeInv'
      BY <2>1 DEF StopInv, GradeInv, Stops
    <2>3. \A o \in StopOps : stop[o] = "held" => Stops(o, Modified(op[t], loaded'[t]))
      BY <2>1, ModifiedKeepsStop DEF StopInv, HeldInv, TypeOK
    <2>4. HeldInv'
      BY <2>1, <2>3 DEF StopInv, HeldInv, TypeOK, Stops
    <2> QED
      BY <2>2, <2>4
  <1>2. ASSUME NEW t \in Thread, StoreAssigned(t) PROVE GradeInv' /\ HeldInv'
    <2>1. op[t] \in AssignOps /\ UNCHANGED <<op, grade, stop>>
      BY <1>2 DEF StoreAssigned, history
    <2>2. \A u \in Thread : grade[u] = "none"
      BY <2>1 DEF StopInv, GradeInv
    <2>3. \A o \in StopOps : stop[o] # "held"
      BY <2>1 DEF StopInv, HeldInv
    <2> QED
      BY <2>1, <2>2, <2>3 DEF GradeInv, HeldInv
  <1>3. ASSUME NEW t \in Thread, Command(t) PROVE GradeInv' /\ HeldInv'
    BY <1>1, <1>2, <1>3, StopStore DEF Command
  <1>4. ASSUME NEW t \in Spinners, NEW o \in Advertised, ServiceCall(t, o)
        PROVE  GradeInv' /\ HeldInv'
    BY <1>4, StopEnter, CallAssumption DEF ServiceCall, shared, Thread
  <1>5. ASSUME NEW t \in Spinners, ServiceReturn(t) PROVE GradeInv' /\ HeldInv'
    BY <1>5, StopReturn DEF Thread
  <1>6. CASE CommandDone
    <2>1. /\ Leave(Control) /\ idx[Control] > SlaveCount
          /\ UNCHANGED <<control_word, loaded, grade, stop>>
      BY <1>6 DEF CommandDone, Finished, shared
    <2>2. grade[Control] = "none"
      BY <1>0 DEF StopInv, ThreadInv, GradeInv
    <2>3. GradeInv'
      BY <1>0, <2>1, <2>2, StopLeave
    <2>4. loaded[Control] = NoWord
      BY <1>0, <2>1, SlaveAssumption DEF StopInv, ThreadInv, Slave
    <2>5. HeldInv'
      BY <2>1, <2>4 DEF Leave, StopInv, HeldInv, Stops, TypeOK, AssignOps
    <2> QED
      BY <2>3, <2>5
  <1>7. CASE WakeForCommand
    <2>1. ScriptOp(step) \in MasterOps
      BY <1>7, ScriptOpType, StepAssumption DEF WakeForCommand, TypeOK
    <2>2. Idle(Control)
      BY <1>7 DEF WakeForCommand, StopInv, ThreadInv
    <2> QED
      BY <1>0, <1>7, <2>1, <2>2, StopEnter DEF WakeForCommand, shared
  <1>8. ASSUME UNCHANGED <<control_word, op, idx, loaded, grade, stop>>
        PROVE  GradeInv' /\ HeldInv'
    BY <1>8 DEF StopInv, GradeInv, HeldInv, Stops
  <1>9. CASE WakeForUpdate \/ CopyLow \/ CopyHigh
    BY <1>8, <1>9 DEF WakeForUpdate, CopyLow, CopyHigh, shared, running, history
  <1>10. CASE Deliver \/ Lose \/ CreateThread \/ Shutdown \/ UNCHANGED vars
    BY <1>8, <1>10
    DEF Deliver, Lose, EndUpdate, CreateThread, Shutdown, vars, shared, running, history
  <1> QED
    BY <1>0, <1>3, <1>4, <1>5, <1>6, <1>7, <1>9, <1>10 DEF Next, Loop, Service, Thread

(***************************************************************************)
(* A halt or quick stop that no other kind of command overlapped is in     *)
(* every slave's word until an assigning command is called.                *)
(***************************************************************************)
THEOREM StopsHold == Spec => []StopHolds
  <1>1. Init => TypeOK /\ StopInv
    BY TypeInit, ThreadInit, StopInit DEF StopInv
  <1>2. TypeOK /\ StopInv /\ [Next]_vars => (TypeOK /\ StopInv)'
    BY TypeNext, ThreadNext, StopNext DEF StopInv
  <1>3. StopInv => StopHolds
    BY DEF StopInv, HeldInv, StopHolds
  <1> QED
    BY <1>1, <1>2, <1>3, PTL DEF Spec

-----------------------------------------------------------------------------
(* The frame of a cycle carries the stops that held when it began.         *)

LEMMA FrameInit == Init => FrameInv
  BY DEF Init, FrameInv

LEMMA FrameNext == TypeOK /\ StopInv /\ FrameInv /\ [Next]_vars => FrameInv'
  <1> SUFFICES ASSUME TypeOK, StopInv, FrameInv, [Next]_vars PROVE FrameInv'
    OBVIOUS
  <1>1. ASSUME NEW t \in Thread, Command(t) PROVE FrameInv'
    BY <1>1 DEF Command, Load, StoreModified, StoreAssigned, FrameInv, image, cycle, history
  <1>2. ASSUME NEW t \in Spinners, NEW o \in Advertised, ServiceCall(t, o) PROVE FrameInv'
    BY <1>2 DEF ServiceCall, Enter, FrameInv, image, cycle
  <1>3. ASSUME NEW t \in Spinners, ServiceReturn(t) PROVE FrameInv'
    <2>1. \A o \in StopOps : stop[o] = "held" => stop'[o] = "held"
      BY <1>3 DEF ServiceReturn, Replied, TypeOK
    <2> QED
      BY <1>3, <2>1 DEF ServiceReturn, FrameInv, TypeOK, image, cycle
  <1>4. CASE CommandDone \/ WakeForUpdate
    BY <1>4, SlaveAssumption DEF CommandDone, WakeForUpdate, BeginUpdate, FrameInv, Slave
  <1>5. CASE WakeForCommand
    BY <1>5 DEF WakeForCommand, Enter, FrameInv
  <1>6. CASE CopyLow
    <2>1. /\ outputs' = [outputs EXCEPT ![slot].word =
                            (control_word[slot] \cap LowByte) \cup (@ \cap HighByte)]
          /\ pc = "copy_low" /\ pc' = "copy_high" /\ slot \in Slave
          /\ UNCHANGED <<slot, stop, kept>>
      BY <1>6 DEF CopyLow, WithLow, TypeOK, history
    <2>2. \A i \in Slave : i < slot => outputs'[i] = outputs[i]
      BY <2>1 DEF TypeOK, Slave
    <2>3. ASSUME "quick_stop" \in kept PROVE QuickStopBit \notin outputs'[slot].word
      <3>1. QuickStopBit \notin control_word[slot]
        BY <2>1, <2>3 DEF FrameInv, StopInv, HeldInv, StopOps, Stops
      <3>2. outputs'[slot].word
              = (control_word[slot] \cap LowByte) \cup (outputs[slot].word \cap HighByte)
        BY <2>1 DEF TypeOK, Pdo
      <3> QED
        BY <3>1, <3>2 DEF QuickStopBit, HighByte
    <2> QED
      BY <2>1, <2>2, <2>3 DEF FrameInv
  <1>7. CASE CopyHigh
    <2>1. /\ pc = "copy_high" /\ slot \in Slave /\ slot' = slot + 1
          /\ pc' = (IF slot = SlaveCount THEN "exchange" ELSE "copy_low")
          /\ UNCHANGED <<stop, kept>>
      BY <1>7 DEF CopyHigh, TypeOK, history
    <2>2. /\ outputs'[slot].word
              = (control_word[slot] \cap HighByte) \cup (outputs[slot].word \cap LowByte)
          /\ \A i \in Slave : i < slot => outputs'[i] = outputs[i]
      BY <1>7, <2>1 DEF CopyHigh, WithHigh, TypeOK, Slave
    <2>3. ASSUME NEW o \in kept PROVE Stops(o, outputs'[slot].word)
      <3>1. o \in StopOps /\ Stops(o, control_word[slot])
        BY <2>1, <2>3 DEF TypeOK, FrameInv, StopInv, HeldInv
      <3>2. o = "quick_stop" => QuickStopBit \notin outputs[slot].word
        BY <2>1, <2>3 DEF FrameInv
      <3> QED
        BY <2>2, <3>1, <3>2 DEF StopOps, Stops, HaltBit, QuickStopBit, HighByte, LowByte
    <2>4. ASSUME NEW o \in kept, NEW i \in Slave, i < slot PROVE Stops(o, outputs'[i].word)
      BY <2>1, <2>2, <2>4 DEF FrameInv
    <2>5. ASSUME NEW o \in kept, NEW i \in Slave, i <= slot PROVE Stops(o, outputs'[i].word)
      BY <2>1, <2>3, <2>4, <2>5 DEF Slave
    <2>6. \A i \in Slave : (slot = SlaveCount \/ i < slot + 1) => i <= slot
      BY <2>1, SlaveAssumption DEF Slave
    <2> QED
      BY <2>1, <2>5, <2>6 DEF FrameInv
  <1>8. CASE Deliver \/ Lose \/ CreateThread
    BY <1>8
    DEF Deliver, Lose, EndUpdate, CreateThread, NextCycle, FrameInv, history
  <1>9. CASE Shutdown \/ UNCHANGED vars
    BY <1>9 DEF Shutdown, vars, FrameInv, image, cycle, history
  <1> QED
    BY <1>1, <1>2, <1>3, <1>4, <1>5, <1>6, <1>7, <1>8, <1>9
    DEF Next, Loop, Service, Thread

(***************************************************************************)
(* No frame loses a stop that held when its cycle began.                   *)
(***************************************************************************)
THEOREM FramesCarryStops == Spec => FrameCarriesStop
  <1>1. Init => TypeOK /\ StopInv /\ FrameInv
    BY TypeInit, ThreadInit, StopInit, FrameInit DEF StopInv
  <1>2. TypeOK /\ StopInv /\ FrameInv /\ [Next]_vars => (TypeOK /\ StopInv /\ FrameInv)'
    BY TypeNext, ThreadNext, StopNext, FrameNext DEF StopInv
  <1>3. TypeOK /\ FrameInv
          => [\A o \in kept : Deliver => \A i \in Slave : Stops(o, wire'[i].word)]_vars
    BY DEF Deliver, EndUpdate, FrameInv
  <1> QED
    BY <1>1, <1>2, <1>3, PTL DEF Spec, FrameCarriesStop

-----------------------------------------------------------------------------
(* After the script.                                                       *)

LEMMA OutlivesNext ==
  ASSUME TypeOK, [Next]_vars, NEW o \in StopOps,
         stop[o] = "held", step > EnableStep, stop'[o] # "held"
  PROVE  calls' > calls
  <1> USE DEF TypeOK
  <1>1. ScriptOp(step) = "none"
    BY StepAssumption DEF ScriptOp
  <1>2. stop' # stop
    OBVIOUS
  <1>3. ASSUME NEW t \in Spinners, NEW p \in Advertised, ServiceCall(t, p)
        PROVE  calls' > calls
    BY <1>3, CallAssumption DEF ServiceCall
  <1>4. ASSUME NEW t \in Spinners, ServiceReturn(t) PROVE FALSE
    BY <1>4 DEF ServiceReturn, Replied
  <1>5. ASSUME NEW t \in Thread, Command(t) PROVE FALSE
    BY <1>2, <1>5 DEF Command, Load, StoreModified, StoreAssigned, history
  <1>6. CASE WakeForCommand
    BY <1>1, <1>6 DEF WakeForCommand
  <1>7. CASE CommandDone \/ WakeForUpdate \/ CopyLow \/ CopyHigh
    BY <1>2, <1>7 DEF CommandDone, WakeForUpdate, CopyLow, CopyHigh, history
  <1>8. CASE Deliver \/ Lose \/ CreateThread \/ Shutdown \/ UNCHANGED vars
    BY <1>2, <1>8 DEF Deliver, Lose, EndUpdate, CreateThread, Shutdown, vars, history
  <1> QED
    BY <1>3, <1>4, <1>5, <1>6, <1>7, <1>8 DEF Next, Loop, Service, Thread

(***************************************************************************)
(* After the script only a service call revokes a stop.                    *)
(***************************************************************************)
THEOREM StopsOutliveScript == Spec => StopOutlivesScript
  <1>1. TypeOK /\ [Next]_vars =>
          [\A o \in StopOps :
             stop[o] = "held" /\ step > EnableStep /\ stop'[o] # "held" => calls' > calls]_vars
    BY OutlivesNext
  <1> QED
    BY <1>1, TypeCorrect, PTL DEF Spec, StopOutlivesScript

-----------------------------------------------------------------------------
(* Targets.                                                                *)

LEMMA TargetInit == Init => TargetInv
  BY SlaveAssumption, ThreadAssumption
  DEF Init, TargetInv, TargetsInitialised, Slave, Thread

LEMMA TargetNext == TypeOK /\ ThreadInv /\ TargetInv /\ [Next]_vars => TargetInv'
  <1> SUFFICES ASSUME TypeOK, ThreadInv, TargetInv, [Next]_vars PROVE TargetInv'
    OBVIOUS
  <1> USE SlaveAssumption DEF Slave, TargetsInitialised
  <1>0. Control \in Thread
    BY DEF Thread
  <1>1. ASSUME NEW t \in Thread, Load(t) PROVE TargetInv'
    BY <1>1 DEF Load, TargetInv, shared, image, cycle
  <1>2. ASSUME NEW t \in Thread, StoreModified(t) PROVE TargetInv'
    <2>1. pc = "start" => t # Control
      BY <1>2, OpsDisjoint DEF StoreModified, ThreadInv
    <2> QED
      BY <1>0, <1>2, <2>1 DEF StoreModified, TargetInv, TypeOK, image, cycle
  <1>3. ASSUME NEW t \in Thread, StoreAssigned(t) PROVE TargetInv'
    <2>1. /\ op[t] \in AssignOps /\ idx[t] \in Slave /\ idx' = [idx EXCEPT ![t] = @ + 1]
          /\ target_position' = IF op[t] = "start"
                                 THEN [target_position EXCEPT ![idx[t]] = "zero"]
                                 ELSE target_position
          /\ UNCHANGED <<outputs, wire, pc, slot>>
      BY <1>3 DEF StoreAssigned, image, cycle
    <2>2. op[t] = "start" <=> pc = "start" /\ t = Control
      BY DEF ThreadInv
    <2>3. \A i \in Slave : pc # "start" \/ i < idx'[Control] => target_position'[i] = "zero"
      BY <1>0, <2>1, <2>2 DEF TargetInv, TypeOK
    <2> QED
      BY <2>1, <2>3 DEF TargetInv
  <1>4. ASSUME NEW t \in Thread, Command(t) PROVE TargetInv'
    BY <1>1, <1>2, <1>3, <1>4 DEF Command
  <1>5. ASSUME NEW t \in Spinners, NEW o \in Advertised, ServiceCall(t, o) PROVE TargetInv'
    BY <1>0, <1>5, ThreadAssumption
    DEF ServiceCall, Enter, TargetInv, TypeOK, shared, image, cycle
  <1>6. ASSUME NEW t \in Spinners, ServiceReturn(t) PROVE TargetInv'
    BY <1>0, <1>6, ThreadAssumption
    DEF ServiceReturn, Leave, TargetInv, TypeOK, shared, image, cycle
  <1>7. CASE CommandDone
    <2>1. \A i \in Slave : target_position[i] = "zero"
      BY <1>0, <1>7 DEF CommandDone, Finished, TargetInv, TypeOK
    <2> QED
      BY <1>7, <2>1 DEF CommandDone, BeginUpdate, TargetInv, shared, image
  <1>8. CASE WakeForCommand
    BY <1>8 DEF WakeForCommand, TargetInv, shared, image
  <1>9. CASE WakeForUpdate
    BY <1>9 DEF WakeForUpdate, BeginUpdate, TargetInv, shared, image
  <1>10. CASE CopyLow
    BY <1>10 DEF CopyLow, TargetInv, TypeOK, Pdo, shared, running
  <1>11. CASE CopyHigh
    <2>1. /\ pc = "copy_high" /\ slot \in Slave /\ slot' = slot + 1
          /\ pc' = (IF slot = SlaveCount THEN "exchange" ELSE "copy_low")
          /\ UNCHANGED <<target_position, wire>>
      BY <1>11 DEF CopyHigh, TypeOK, shared
    <2>2. /\ outputs'[slot].target = target_position[slot]
          /\ \A i \in Slave : i < slot => outputs'[i] = outputs[i]
      BY <1>11, <2>1 DEF CopyHigh, TypeOK
    <2>3. \A i \in Slave : i <= slot => outputs'[i].target = "zero"
      BY <2>1, <2>2 DEF TargetInv
    <2> QED
      BY <2>1, <2>3 DEF TargetInv
  <1>12. CASE Deliver \/ Lose
    BY <1>12 DEF Deliver, Lose, EndUpdate, NextCycle, TargetInv, shared
  <1>13. CASE CreateThread
    BY <1>13 DEF CreateThread, NextCycle, TargetInv, shared, image
  <1>14. CASE Shutdown \/ UNCHANGED vars
    BY <1>14 DEF Shutdown, vars, TargetInv, shared, image, running, cycle
  <1> QED
    BY <1>0, <1>4, <1>5, <1>6, <1>7, <1>8, <1>9, <1>10, <1>11, <1>12, <1>13, <1>14
    DEF Next, Loop, Service, Thread

(***************************************************************************)
(* No drive is ever sent an uninitialised target.                          *)
(***************************************************************************)
THEOREM TargetsAreInitialised == Spec => []TargetsInitialised
  <1>1. Init => TypeOK /\ ThreadInv /\ TargetInv
    BY TypeInit, ThreadInit, TargetInit
  <1>2. TypeOK /\ ThreadInv /\ TargetInv /\ [Next]_vars => (TypeOK /\ ThreadInv /\ TargetInv)'
    BY TypeNext, ThreadNext, TargetNext
  <1>3. TargetInv => TargetsInitialised
    BY DEF TargetInv
  <1> QED
    BY <1>1, <1>2, <1>3, PTL DEF Spec

-----------------------------------------------------------------------------
(* The slaves agree when no command is under way.                          *)

LEMMA AgreeInit == Init => AgreeInv
  <1> SUFFICES ASSUME Init PROVE AgreeInv
    OBVIOUS
  <1>1. Control \in Thread /\ \A t \in Thread : Idle(t) <=> t # Control
    BY ThreadAssumption DEF Init, Idle, Thread
  <1>2. \A t \in Thread : op[t] \notin ModifyOps /\ idx[t] = 1
    BY OpsDisjoint DEF Init, MasterOps
  <1> QED
    BY <1>1, <1>2 DEF AgreeInv, AgreeWhenIdle, Slave

\* The call of a command by a thread that runs none.
LEMMA AgreeEnter ==
  ASSUME TypeOK, ThreadInv, AgreeInv, NEW t \in Thread, NEW o \in MasterOps,
         Idle(t), Enter(t, o), UNCHANGED <<control_word, loaded>>
  PROVE  AgreeInv'
  <1> SUFFICES ASSUME serial' PROVE AgreeInv'
    BY DEF AgreeInv
  <1>1. /\ serial /\ \A u \in Thread : Idle(u)
        /\ op' = [op EXCEPT ![t] = o] /\ idx' = [idx EXCEPT ![t] = 1]
    BY DEF Enter
  <1>2. \A u \in Thread : op'[u] = IF u = t THEN o ELSE "none"
    BY <1>1 DEF Idle, TypeOK
  <1>3. \A i \in Slave : control_word[i] = control_word[1] /\ control_word[1] \in Word
    BY <1>1, SlaveAssumption DEF AgreeInv, AgreeWhenIdle, TypeOK, Slave
  <1>4. loaded[t] = NoWord
    BY DEF ThreadInv, Idle, ModifyOps
  <1>5. \A u \in Thread : op'[u] \in AssignOps =>
          \A i \in Slave : i < idx'[u] => control_word'[i] = AssignedWord(op'[u])
    BY <1>1, <1>2, OpsDisjoint DEF TypeOK, Slave, MasterOps
  <1>6. ASSUME NEW u \in Thread, op'[u] \in ModifyOps
        PROVE  \E w \in Word :
                 /\ \A i \in Slave :
                      control_word'[i] = IF i < idx'[u] THEN Modified(op'[u], w) ELSE w
                 /\ loaded'[u] \in {NoWord, w}
    <2>1. u = t
      BY <1>2, <1>6, OpsDisjoint DEF MasterOps
    <2>2. /\ \A i \in Slave : ~(i < idx'[u]) /\ control_word'[i] = control_word[1]
          /\ loaded'[u] = NoWord
      BY <1>1, <1>3, <1>4, <2>1 DEF TypeOK, Slave
    <2>3. control_word[1] \in Word
      BY <1>3, SlaveAssumption DEF Slave
    <2> QED
      BY <2>2, <2>3
  <1>7. ~\A u \in Thread : Idle(u)'
    BY <1>2, OpsDisjoint DEF Idle
  <1>8. \A u, v \in Thread : ~Idle(u)' /\ ~Idle(v)' => u = v
    BY <1>2 DEF Idle
  <1> QED
    BY <1>5, <1>6, <1>7, <1>8 DEF AgreeInv, AgreeWhenIdle

\* The end of a command.
LEMMA AgreeLeave ==
  ASSUME TypeOK, ThreadInv, AgreeInv, NEW t \in Thread, Finished(t), Leave(t),
         UNCHANGED <<control_word, loaded, serial>>
  PROVE  AgreeInv'
  <1> SUFFICES ASSUME serial PROVE AgreeInv'
    BY DEF AgreeInv
  <1>1. /\ op' = [op EXCEPT ![t] = "none"] /\ idx[t] > SlaveCount
        /\ op[t] \in AssignOps \cup ModifyOps
    BY DEF Leave, Finished, Idle, TypeOK, MasterOps
  <1>2. \A u \in Thread : op'[u] = "none"
    BY <1>1 DEF AgreeInv, Finished, Idle, TypeOK
  <1>3. \A i \in Slave : i < idx[t]
    BY <1>1, SlaveAssumption DEF Slave, TypeOK
  <1>4. \A i, j \in Slave : control_word[i] = control_word[j]
    <2>1. CASE op[t] \in AssignOps
      BY <1>3, <2>1 DEF AgreeInv
    <2>2. CASE op[t] \in ModifyOps
      <3>1. PICK w \in Word : \A i \in Slave :
              control_word[i] = IF i < idx[t] THEN Modified(op[t], w) ELSE w
        BY <2>2 DEF AgreeInv
      <3> QED
        BY <1>3, <3>1
    <2> QED
      BY <1>1, <2>1, <2>2
  <1> QED
    BY <1>2, <1>4, OpsDisjoint DEF AgreeInv, AgreeWhenIdle, Idle, MasterOps

LEMMA AgreeLoad ==
  ASSUME TypeOK, AgreeInv, NEW t \in Thread, Load(t)
  PROVE  AgreeInv'
  <1> SUFFICES ASSUME serial PROVE AgreeInv'
    BY DEF AgreeInv, Load, history
  <1>1. /\ op[t] \in ModifyOps /\ idx[t] \in Slave
        /\ loaded' = [loaded EXCEPT ![t] = control_word[idx[t]]]
        /\ UNCHANGED <<control_word, op, idx, serial>>
    BY DEF Load, shared, history
  <1>2. \A u \in Thread : op[u] \in ModifyOps => u = t
    BY <1>1, OpsDisjoint DEF AgreeInv, Idle, MasterOps
  <1>3. PICK w \in Word : \A i \in Slave :
          control_word[i] = IF i < idx[t] THEN Modified(op[t], w) ELSE w
    BY <1>1 DEF AgreeInv
  <1>4. loaded'[t] = w
    BY <1>1, <1>3 DEF TypeOK, Slave
  <1> QED
    BY <1>1, <1>2, <1>3, <1>4 DEF AgreeInv, AgreeWhenIdle, Idle

LEMMA AgreeStoreModified ==
  ASSUME TypeOK, AgreeInv, NEW t \in Thread, StoreModified(t)
  PROVE  AgreeInv'
  <1> SUFFICES ASSUME serial PROVE AgreeInv'
    BY DEF AgreeInv, StoreModified, history
  <1>1. /\ op[t] \in ModifyOps /\ idx[t] \in Slave /\ loaded[t] # NoWord
        /\ control_word' = [control_word EXCEPT ![idx[t]] = Modified(op[t], loaded[t])]
        /\ loaded' = [loaded EXCEPT ![t] = NoWord] /\ idx' = [idx EXCEPT ![t] = @ + 1]
        /\ UNCHANGED <<op, serial>>
    BY DEF StoreModified, history
  <1>2. \A u \in Thread : op[u] # "none" => u = t
    BY <1>1, OpsDisjoint DEF AgreeInv, Idle, MasterOps
  <1>3. PICK w \in Word :
          /\ \A i \in Slave : control_word[i] = IF i < idx[t] THEN Modified(op[t], w) ELSE w
          /\ loaded[t] \in {NoWord, w}
    BY <1>1 DEF AgreeInv
  <1>4. idx'[t] = idx[t] + 1 /\ loaded'[t] = NoWord
    BY <1>1 DEF TypeOK
  <1>5. ASSUME NEW i \in Slave
        PROVE  control_word'[i] = IF i < idx'[t] THEN Modified(op[t], w) ELSE w
    <2>1. CASE i = idx[t]
      BY <1>1, <1>3, <1>4, <2>1 DEF TypeOK, Slave
    <2>2. CASE i # idx[t]
      <3>1. i < idx'[t] <=> i < idx[t]
        BY <1>1, <1>4, <2>2 DEF Slave
      <3> QED
        BY <1>1, <1>3, <2>2, <3>1 DEF TypeOK
    <2> QED
      BY <2>1, <2>2
  <1>6. "none" \notin AssignOps \cup ModifyOps /\ op[t] \notin AssignOps
    BY <1>1, OpsDisjoint DEF MasterOps
  <1> QED
    BY <1>1, <1>2, <1>4, <1>5, <1>6 DEF AgreeInv, AgreeWhenIdle, Idle

LEMMA AgreeStoreAssigned ==
  ASSUME TypeOK, AgreeInv, NEW t \in Thread, StoreAssigned(t)
  PROVE  AgreeInv'
  <1> SUFFICES ASSUME serial PROVE AgreeInv'
    BY DEF AgreeInv, StoreAssigned, history
  <1>1. /\ op[t] \in AssignOps /\ idx[t] \in Slave
        /\ control_word' = [control_word EXCEPT ![idx[t]] = AssignedWord(op[t])]
        /\ idx' = [idx EXCEPT ![t] = @ + 1] /\ UNCHANGED <<op, loaded, serial>>
    BY DEF StoreAssigned, history
  <1>2. \A u \in Thread : op[u] # "none" => u = t
    BY <1>1, OpsDisjoint DEF AgreeInv, Idle, MasterOps
  <1>3. ASSUME NEW i \in Slave, i < idx'[t] PROVE control_word'[i] = AssignedWord(op[t])
    <2>1. i = idx[t] \/ i < idx[t]
      BY <1>1, <1>3 DEF TypeOK, Slave
    <2> QED
      BY <1>1, <2>1 DEF AgreeInv, TypeOK
  <1>4. "none" \notin AssignOps \cup ModifyOps /\ op[t] \notin ModifyOps
    BY <1>1, OpsDisjoint DEF MasterOps
  <1> QED
    BY <1>1, <1>2, <1>3, <1>4 DEF AgreeInv, AgreeWhenIdle, Idle

LEMMA AgreeNext == TypeOK /\ ThreadInv /\ AgreeInv /\ [Next]_vars => AgreeInv'
  <1> SUFFICES ASSUME TypeOK, ThreadInv, AgreeInv, [Next]_vars PROVE AgreeInv'
    OBVIOUS
  <1>0. Control \in Thread
    BY DEF Thread
  <1>1. ASSUME NEW t \in Thread, Command(t) PROVE AgreeInv'
    BY <1>1, AgreeLoad, AgreeStoreModified, AgreeStoreAssigned DEF Command
  <1>2. ASSUME NEW t \in Spinners, NEW o \in Advertised, ServiceCall(t, o) PROVE AgreeInv'
    BY <1>2, AgreeEnter, CallAssumption DEF ServiceCall, shared, Thread
  <1>3. ASSUME NEW t \in Spinners, ServiceReturn(t) PROVE AgreeInv'
    BY <1>3, AgreeLeave DEF ServiceReturn, shared, Thread
  <1>4. CASE CommandDone
    BY <1>0, <1>4, AgreeLeave DEF CommandDone, shared
  <1>5. CASE WakeForCommand
    <2>1. ScriptOp(step) \in MasterOps /\ Idle(Control)
      BY <1>5, ScriptOpType, StepAssumption DEF WakeForCommand, TypeOK, ThreadInv
    <2> QED
      BY <1>0, <1>5, <2>1, AgreeEnter DEF WakeForCommand, shared
  <1>6. ASSUME UNCHANGED <<control_word, op, idx, loaded, serial>> PROVE AgreeInv'
    BY <1>6 DEF AgreeInv, AgreeWhenIdle, Idle
  <1>7. CASE WakeForUpdate \/ CopyLow \/ CopyHigh
    BY <1>6, <1>7 DEF WakeForUpdate, CopyLow, CopyHigh, shared, running, history
  <1>8. CASE Deliver \/ Lose \/ CreateThread \/ Shutdown \/ UNCHANGED vars
    BY <1>6, <1>8
    DEF Deliver, Lose, EndUpdate, CreateThread, Shutdown, vars, shared, running, history
  <1> QED
    BY <1>0, <1>1, <1>2, <1>3, <1>4, <1>5, <1>7, <1>8 DEF Next, Loop, Service, Thread

(***************************************************************************)
(* Commands given one at a time leave no slave behind.                     *)
(***************************************************************************)
THEOREM SlavesAgree == Spec => []AgreeWhenIdle
  <1>1. Init => TypeOK /\ ThreadInv /\ AgreeInv
    BY TypeInit, ThreadInit, AgreeInit
  <1>2. TypeOK /\ ThreadInv /\ AgreeInv /\ [Next]_vars => (TypeOK /\ ThreadInv /\ AgreeInv)'
    BY TypeNext, ThreadNext, AgreeNext
  <1>3. AgreeInv => AgreeWhenIdle
    BY DEF AgreeInv, AgreeWhenIdle
  <1> QED
    BY <1>1, <1>2, <1>3, PTL DEF Spec

-----------------------------------------------------------------------------
(* Towards the refinement: the stages and the steps of the script.         *)

LEMMA StageWords ==
  /\ StageWord(1) = ReadyWord /\ StageWord(2) = Modified("fault_reset", ReadyWord)
  /\ StageWord(3) = ReadyWord /\ StageWord(4) = SwitchOnWord /\ StageWord(5) = EnableWord
  /\ Len(Abstract!Script) = 5
  BY DEF StageWord, Abstract!Script, Abstract!ReadyWord, Abstract!SwitchOnWord,
         Abstract!EnableWord, Abstract!Modified, Abstract!FaultResetBit,
         ReadyWord, SwitchOnWord, EnableWord, Modified, FaultResetBit

LEMMA StageType == TypeOK => Stage \in 0 .. 5 /\ (Stage = 0 <=> pc = "start")
  BY DEF Stage

\* The command of a step of the script takes its stage's word to the next's.
LEMMA StageOp ==
  ASSUME TypeOK, pc # "start", ScriptOp(step) # "none"
  PROVE  /\ Stage \in 1 .. 4 /\ step <= LastStep
         /\ ScriptOp(step) \in AssignOps =>
              AssignedWord(ScriptOp(step)) = StageWord(Stage + 1)
         /\ ScriptOp(step) \in ModifyOps =>
              Modified(ScriptOp(step), StageWord(Stage)) = StageWord(Stage + 1)
  <1> USE StepAssumption DEF TypeOK
  <1>1. step \in {ResetStep, ReadyStep, SwitchOnStep, EnableStep}
    BY DEF ScriptOp
  <1>2. CASE step = ResetStep
    <2>1. Stage = 1 /\ ScriptOp(step) = "fault_reset" /\ step <= LastStep
      BY <1>2 DEF Stage, ScriptOp
    <2> QED
      BY <2>1, StageWords DEF AssignOps
  <1>3. CASE step = ReadyStep
    <2>1. Stage = 2 /\ ScriptOp(step) = "ready_to_switch_on" /\ step <= LastStep
      BY <1>3 DEF Stage, ScriptOp
    <2> QED
      BY <2>1, StageWords DEF ModifyOps, EnableOps, AssignedWord
  <1>4. CASE step = SwitchOnStep
    <2>1. Stage = 3 /\ ScriptOp(step) = "switch_on" /\ step <= LastStep
      BY <1>4 DEF Stage, ScriptOp
    <2> QED
      BY <2>1, StageWords DEF ModifyOps, EnableOps, AssignedWord
  <1>5. CASE step = EnableStep
    <2>1. Stage = 4 /\ ScriptOp(step) = "enable_operation" /\ step <= LastStep
      BY <1>5 DEF Stage, ScriptOp
    <2> QED
      BY <2>1, StageWords DEF ModifyOps, EnableOps, AssignedWord
  <1> QED
    BY <1>1, <1>2, <1>3, <1>4, <1>5

\* A cycle with no command does not change the stage; a command does, by one.
LEMMA StageUpdate ==
  ASSUME TypeOK, BeginUpdate,
         pc = "start" => step = 0,
         pc \in {"start", "script", "wait"},
         pc = "script" => ScriptOp(step) # "none",
         pc = "wait" => ScriptOp(step) = "none"
  PROVE  Stage' = IF pc = "wait" THEN Stage ELSE Stage + 1
  <1> USE StepAssumption DEF TypeOK
  <1>1. pc' = "copy_low" /\ step' = IF pc # "start" /\ step <= LastStep THEN step + 1 ELSE step
    BY DEF BeginUpdate, NextStep
  <1>2. CASE pc = "start"
    BY <1>1, <1>2 DEF Stage
  <1>3. CASE pc = "script"
    <2>1. step \in {ResetStep, ReadyStep, SwitchOnStep, EnableStep}
      BY <1>3 DEF ScriptOp
    <2> QED
      BY <1>1, <1>3, <2>1 DEF Stage
  <1>4. CASE pc = "wait"
    <2>1. step \notin {ResetStep, ReadyStep, SwitchOnStep, EnableStep}
      BY <1>4 DEF ScriptOp
    <2> QED
      BY <1>1, <1>4, <2>1 DEF Stage
  <1> QED
    BY <1>2, <1>3, <1>4

-----------------------------------------------------------------------------
(* The words follow the stage as long as no service is called.             *)

LEMMA ScriptInit == Init => ScriptInv
  BY ThreadAssumption DEF Init, ScriptInv, Idle, Thread

LEMMA ScriptNext == TypeOK /\ ThreadInv /\ ScriptInv /\ [Next]_vars => ScriptInv'
  <1> SUFFICES ASSUME TypeOK, ThreadInv, ScriptInv, [Next]_vars PROVE ScriptInv'
    OBVIOUS
  <1> USE ThreadAssumption DEF Thread
  <1>1. ASSUME NEW t \in Thread, Command(t) PROVE ScriptInv'
    <2>1. UNCHANGED <<op, pc, step, calls>>
      BY <1>1 DEF Command, Load, StoreModified, StoreAssigned, cycle
    <2> QED
      BY <2>1 DEF ScriptInv, Idle, ScriptOp
  <1>2. ASSUME NEW t \in Spinners, NEW o \in Advertised, ServiceCall(t, o) PROVE ScriptInv'
    <2>1. UNCHANGED <<pc, step>> /\ calls' # 0 /\ op'[Control] = op[Control]
      BY <1>2 DEF ServiceCall, Enter, TypeOK, cycle
    <2> QED
      BY <2>1 DEF ScriptInv, ScriptOp
  <1>3. ASSUME NEW t \in Spinners, ServiceReturn(t) PROVE ScriptInv'
    <2>1. UNCHANGED <<pc, step, calls>> /\ op' = [op EXCEPT ![t] = "none"]
      BY <1>3 DEF ServiceReturn, Leave, cycle
    <2> QED
      BY <2>1 DEF ScriptInv, ScriptOp, Idle, TypeOK
  <1>4. CASE CommandDone
    BY <1>4 DEF CommandDone, BeginUpdate, NextStep, Leave, ScriptInv, Idle, TypeOK
  <1>5. CASE WakeForCommand
    <2>1. UNCHANGED <<step, calls>> /\ op' = [op EXCEPT ![Control] = ScriptOp(step)]
          /\ pc' = "script"
      BY <1>5 DEF WakeForCommand, Enter
    <2> QED
      BY <2>1 DEF ScriptInv, ScriptOp, Idle, TypeOK
  <1>6. CASE WakeForUpdate
    BY <1>6 DEF WakeForUpdate, BeginUpdate, NextStep, ScriptInv, Idle, running
  <1>7. CASE CopyLow \/ CopyHigh
    BY <1>7 DEF CopyLow, CopyHigh, ScriptInv, Idle, running
  <1>8. CASE Deliver \/ Lose \/ CreateThread
    BY <1>8 DEF Deliver, Lose, EndUpdate, CreateThread, NextCycle, ScriptInv, Idle, running
  <1>9. CASE Shutdown \/ UNCHANGED vars
    BY <1>9 DEF Shutdown, vars, ScriptInv, ScriptOp, Idle, running, cycle
  <1> QED
    BY <1>1, <1>2, <1>3, <1>4, <1>5, <1>6, <1>7, <1>8, <1>9 DEF Next, Loop, Service

\* What holds before the first call, of the words, the image and the register.
WordsFollow ==
  /\ WordInv /\ ImageInv
  /\ pc = "script" => loaded[Control] \in {NoWord, StageWord(Stage)}

LEMMA WordsInit == Init => WordsFollow
  BY SlaveAssumption, ThreadAssumption
  DEF Init, WordsFollow, WordInv, ImageInv, Slave, Thread

LEMMA WordsNext ==
  ASSUME TypeOK, ThreadInv, ScriptInv, WordsFollow, calls = 0, calls' = 0, [Next]_vars
  PROVE  WordsFollow'
  <1> USE SlaveAssumption, StageType DEF Slave
  <1>0. Control \in Thread /\ \A t \in Spinners : Idle(t)
    BY DEF Thread, ScriptInv
  <1>1. pc = "script" => ScriptOp(step) # "none"
    BY DEF ScriptInv, ThreadInv, Idle
  <1>2. ASSUME UNCHANGED <<control_word, outputs, loaded, idx, pc, slot, step>>
        PROVE  WordsFollow'
    BY <1>2 DEF WordsFollow, WordInv, ImageInv, Stage
  <1>3. CASE Load(Control)
    <2>1. /\ loaded' = [loaded EXCEPT ![Control] = control_word[idx[Control]]]
          /\ idx[Control] \in Slave
          /\ UNCHANGED <<control_word, outputs, idx, pc, slot, step>>
      BY <1>3 DEF Load, shared, image, cycle
    <2>2. pc = "script" => loaded'[Control] = StageWord(Stage)
      BY <1>0, <2>1 DEF WordsFollow, WordInv, TypeOK
    <2> QED
      BY <2>1, <2>2 DEF WordsFollow, WordInv, ImageInv, Stage
  <1>4. CASE StoreModified(Control) \/ StoreAssigned(Control)
    <2>1. /\ UNCHANGED <<outputs, pc, slot, step>> /\ ~Idle(Control)
          /\ idx[Control] \in Slave /\ idx' = [idx EXCEPT ![Control] = @ + 1]
      BY <1>4, OpsDisjoint
      DEF StoreModified, StoreAssigned, Idle, image, cycle, MasterOps
    <2>2. /\ pc \in {"start", "script"}
          /\ pc = "start" => op[Control] = "start"
          /\ pc = "script" => op[Control] = ScriptOp(step)
      BY <2>1 DEF ThreadInv, ScriptInv
    <2>3. ASSUME pc = "start" PROVE control_word'[idx[Control]] = StageWord(1)
      BY <1>4, <2>1, <2>2, <2>3, OpsDisjoint, StageWords
      DEF StoreModified, StoreAssigned, AssignedWord, EnableOps, TypeOK
    <2>4. ASSUME pc = "script" PROVE control_word'[idx[Control]] = StageWord(Stage + 1)
      <3>1. CASE StoreModified(Control)
        <4>1. loaded[Control] = StageWord(Stage)
          BY <2>4, <3>1 DEF StoreModified, WordsFollow
        <4> QED
          BY <1>1, <2>1, <2>2, <2>4, <3>1, <4>1, StageOp DEF StoreModified, TypeOK
      <3>2. CASE StoreAssigned(Control)
        BY <1>1, <2>1, <2>2, <2>4, <3>2, StageOp DEF StoreAssigned, TypeOK
      <3> QED
        BY <1>4, <3>1, <3>2
    <2>5. \A i \in Slave : i # idx[Control] => control_word'[i] = control_word[i]
      BY <1>4, <2>1 DEF StoreModified, StoreAssigned, TypeOK
    <2>6. Stage' = Stage
      BY <2>1 DEF Stage
    <2>7. WordInv'
      <3>1. idx[Control] \in Slave /\ idx'[Control] = idx[Control] + 1
        BY <1>0, <2>1 DEF TypeOK
      <3>2. ASSUME NEW i \in Slave, pc = "start", i < idx'[Control]
            PROVE  control_word'[i] = StageWord(1)
        <4>1. i < idx[Control] \/ i = idx[Control]
          BY <3>1, <3>2
        <4> QED
          BY <2>3, <2>5, <3>2, <4>1 DEF WordsFollow, WordInv
      <3>3. ASSUME NEW i \in Slave, pc = "script", i < idx'[Control]
            PROVE  control_word'[i] = StageWord(Stage + 1)
        <4>1. i < idx[Control] \/ i = idx[Control]
          BY <3>1, <3>3
        <4> QED
          BY <2>4, <2>5, <3>1, <3>3, <4>1 DEF WordsFollow, WordInv
      <3>4. ASSUME NEW i \in Slave, pc = "script", ~(i < idx'[Control])
            PROVE  control_word'[i] = StageWord(Stage)
        <4>1. i # idx[Control] /\ ~(i < idx[Control])
          BY <3>1, <3>4
        <4> QED
          BY <2>5, <3>4, <4>1 DEF WordsFollow, WordInv
      <3> QED
        BY <2>1, <2>2, <2>6, <3>2, <3>3, <3>4 DEF WordInv
    <2>8. pc = "script" => loaded'[Control] \in {NoWord, StageWord(Stage)}
      BY <1>0, <1>4 DEF StoreModified, StoreAssigned, WordsFollow, TypeOK
    <2> QED
      BY <2>1, <2>2, <2>6, <2>7, <2>8 DEF WordsFollow, ImageInv
  <1>5. CASE Command(Control)
    BY <1>3, <1>4, <1>5 DEF Command
  <1>6. ASSUME NEW t \in Spinners, Service(t) PROVE WordsFollow'
    BY <1>0, <1>6, OpsDisjoint
    DEF Service, ServiceCall, Command, Load, StoreModified, StoreAssigned, ServiceReturn,
        Finished, Idle, MasterOps, TypeOK
  <1>7. CASE CommandDone
    <2>1. Stage' = Stage + 1
      BY <1>1, <1>7, StageUpdate DEF CommandDone, ScriptInv
    <2>2. /\ pc \in {"start", "script"} /\ idx[Control] > SlaveCount
          /\ pc' = "copy_low" /\ slot' = 1 /\ UNCHANGED control_word
      BY <1>7 DEF CommandDone, Finished, BeginUpdate, NextStep, shared
    <2>3. \A i \in Slave : i < idx[Control]
      BY <1>0, <2>2 DEF TypeOK
    <2>4. \A i \in Slave : control_word[i] = StageWord(Stage + 1)
      BY <2>2, <2>3 DEF WordsFollow, WordInv, Stage
    <2> QED
      BY <2>1, <2>2, <2>4 DEF WordsFollow, WordInv, ImageInv
  <1>8. CASE WakeForCommand
    <2>1. /\ pc = "wait" /\ pc' = "script" /\ idx' = [idx EXCEPT ![Control] = 1]
          /\ UNCHANGED <<control_word, loaded, step>> /\ Idle(Control)
      BY <1>8 DEF WakeForCommand, Enter, ThreadInv, shared
    <2>2. Stage' = Stage /\ loaded[Control] = NoWord
      BY <1>0, <2>1, OpsDisjoint DEF Stage, ThreadInv, Idle, MasterOps
    <2> QED
      BY <1>0, <2>1, <2>2 DEF WordsFollow, WordInv, ImageInv, TypeOK
  <1>9. CASE WakeForUpdate
    <2>1. Stage' = Stage
      BY <1>9, StageUpdate DEF WakeForUpdate
    <2> QED
      BY <1>9, <2>1 DEF WakeForUpdate, BeginUpdate, WordsFollow, WordInv, ImageInv, shared
  <1>10. CASE CopyLow
    <2>1. /\ pc = "copy_low" /\ pc' = "copy_high" /\ slot \in Slave
          /\ UNCHANGED <<control_word, slot, step>>
      BY <1>10 DEF CopyLow, TypeOK, shared
    <2>2. /\ outputs'[slot].word
              = (control_word[slot] \cap LowByte) \cup (outputs[slot].word \cap HighByte)
          /\ \A i \in Slave : i < slot => outputs'[i] = outputs[i]
      BY <1>10, <2>1 DEF CopyLow, WithLow, TypeOK, Pdo
    <2>3. Stage' = Stage
      BY <2>1 DEF Stage
    <2>4. control_word[slot] = StageWord(Stage)
      BY <2>1 DEF WordsFollow, WordInv
    <2>5. outputs'[slot].word \cap LowByte = StageWord(Stage) \cap LowByte
      BY <2>2, <2>4 DEF LowByte, HighByte
    <2>6. \A i \in Slave : i < slot => outputs'[i].word = StageWord(Stage)
      BY <2>1, <2>2 DEF WordsFollow, ImageInv
    <2>7. WordInv'
      BY <2>1, <2>3 DEF WordsFollow, WordInv
    <2> QED
      BY <2>1, <2>3, <2>5, <2>6, <2>7 DEF WordsFollow, ImageInv
  <1>11. CASE CopyHigh
    <2>1. /\ pc = "copy_high" /\ slot \in Slave /\ slot' = slot + 1
          /\ pc' = (IF slot = SlaveCount THEN "exchange" ELSE "copy_low")
          /\ UNCHANGED <<control_word, step>>
      BY <1>11 DEF CopyHigh, TypeOK, shared
    <2>2. /\ outputs'[slot].word
              = (control_word[slot] \cap HighByte) \cup (outputs[slot].word \cap LowByte)
          /\ \A i \in Slave : i < slot => outputs'[i] = outputs[i]
      BY <1>11, <2>1 DEF CopyHigh, WithHigh, TypeOK
    <2>3. Stage' = Stage
      BY <2>1 DEF Stage
    <2>4. control_word[slot] = StageWord(Stage) /\ control_word[slot] \in Word
      BY <2>1 DEF WordsFollow, WordInv, TypeOK
    <2>5. outputs[slot].word \cap LowByte = StageWord(Stage) \cap LowByte
      BY <2>1 DEF WordsFollow, ImageInv
    <2>6. outputs'[slot].word = StageWord(Stage)
      BY <2>2, <2>4, <2>5 DEF Word, Bit, LowByte, HighByte
    <2>7. \A i \in Slave : i <= slot => outputs'[i].word = StageWord(Stage)
      BY <2>1, <2>2, <2>6 DEF WordsFollow, ImageInv
    <2>8. WordInv'
      BY <2>1, <2>3 DEF WordsFollow, WordInv
    <2> QED
      BY <2>1, <2>3, <2>7, <2>8 DEF WordsFollow, ImageInv
  <1>12. CASE Deliver \/ Lose \/ CreateThread
    <2>1. /\ pc \in {"exchange", "create"} /\ pc' \in {"create", "wait", "done"}
          /\ UNCHANGED <<control_word, step>>
      BY <1>12 DEF Deliver, Lose, EndUpdate, CreateThread, NextCycle, shared
    <2> QED
      BY <2>1 DEF WordsFollow, WordInv, ImageInv, Stage
  <1>13. CASE Shutdown \/ UNCHANGED vars
    BY <1>2, <1>13 DEF Shutdown, vars, shared, image, running, cycle
  <1> QED
    BY <1>5, <1>6, <1>7, <1>8, <1>9, <1>10, <1>11, <1>12, <1>13 DEF Next, Loop

LEMMA PowerInit == Init => PowerInv
  BY ScriptInit, WordsInit DEF PowerInv, WordsFollow

LEMMA PowerNext == TypeOK /\ ThreadInv /\ PowerInv /\ [Next]_vars => PowerInv'
  <1> SUFFICES ASSUME TypeOK, ThreadInv, PowerInv, [Next]_vars PROVE PowerInv'
    OBVIOUS
  <1>1. ScriptInv'
    BY ScriptNext DEF PowerInv
  <1>2. calls' = 0 => calls = 0
    <2>1. calls' = calls \/ calls' = calls + 1
      BY DEF Next, Loop, Service, Command, Load, StoreModified, StoreAssigned, ServiceCall,
             ServiceReturn, CommandDone, WakeForCommand, WakeForUpdate, CopyLow, CopyHigh,
             Deliver, Lose, EndUpdate, CreateThread, Shutdown, vars
    <2> QED
      BY <2>1 DEF TypeOK
  <1>3. calls' = 0 => WordsFollow'
    BY <1>2, WordsNext DEF PowerInv, WordsFollow
  <1> QED
    BY <1>1, <1>3 DEF PowerInv, WordsFollow

-----------------------------------------------------------------------------
(* The refinement.                                                         *)

\* The word each drive was last sent: sent of PowerUp.
Sent == [i \in Slave |-> wire[i].word]

LEMMA RefineInit == Init => Abstract!Init
  BY SlaveAssumption
  DEF Init, Abstract!Init, Abstract!Slave, Slave, Stage, Abstract!SdoResetWord, SdoResetWord

LEMMA RefineStep ==
  TypeOK /\ ThreadInv /\ PowerInv /\ [Next]_vars
    => [Abstract!Next]_<<Stage, [i \in Slave |-> wire[i].word], calls > 0>>
  <1> DEFINE Mapped == <<Stage, Sent, calls > 0>>
  <1> SUFFICES ASSUME TypeOK, ThreadInv, PowerInv, [Next]_vars
               PROVE  Abstract!Next \/ UNCHANGED Mapped
    BY DEF Sent
  <1>1. ASSUME UNCHANGED <<wire, calls, pc, step>> PROVE UNCHANGED Mapped
    BY <1>1 DEF Sent, Stage
  <1>2. ASSUME NEW t \in Thread, Command(t) PROVE UNCHANGED Mapped
    BY <1>1, <1>2 DEF Command, Load, StoreModified, StoreAssigned, image, cycle
  <1>3. ASSUME NEW t \in Spinners, NEW o \in Advertised, ServiceCall(t, o)
        PROVE  Abstract!Intervene
    <2>1. calls' = calls + 1 /\ UNCHANGED <<wire, pc, step>>
      BY <1>3 DEF ServiceCall, image, cycle
    <2>2. (calls > 0)' = TRUE
      BY <2>1 DEF TypeOK
    <2> QED
      BY <2>1, <2>2 DEF Abstract!Intervene, Stage
  <1>4. ASSUME NEW t \in Spinners, ServiceReturn(t) PROVE UNCHANGED Mapped
    BY <1>1, <1>4 DEF ServiceReturn, image, cycle
  <1>5. pc = "script" => ScriptOp(step) # "none"
    BY DEF PowerInv, ScriptInv, ThreadInv, Idle
  <1>6. CASE CommandDone
    <2>1. Stage' = Stage + 1 /\ UNCHANGED <<wire, calls>>
      BY <1>5, <1>6, StageUpdate DEF CommandDone, PowerInv, ScriptInv, image
    <2>2. Stage < 5
      BY <1>5, <1>6, StageOp, StageType DEF CommandDone
    <2> QED
      BY <2>1, <2>2, StageWords DEF Abstract!Next, Abstract!Advance
  <1>7. CASE WakeForCommand
    BY <1>7 DEF WakeForCommand, Sent, Stage, image
  <1>8. CASE WakeForUpdate
    <2>1. Stage' = Stage /\ UNCHANGED <<wire, calls>>
      BY <1>8, StageUpdate DEF WakeForUpdate, image
    <2> QED
      BY <2>1 DEF Sent
  <1>9. CASE CopyLow \/ CopyHigh
    BY <1>9 DEF CopyLow, CopyHigh, Sent, Stage
  <1>10. CASE Lose \/ CreateThread
    BY <1>10 DEF Lose, EndUpdate, CreateThread, NextCycle, Sent, Stage, image
  <1>11. CASE Deliver
    <2>1. /\ wire' = outputs /\ pc = "exchange" /\ pc' \in {"create", "wait", "done"}
          /\ UNCHANGED <<step, calls>>
      BY <1>11 DEF Deliver, EndUpdate, NextCycle
    <2>2. UNCHANGED <<Stage, calls > 0>> /\ Stage > 0
      BY <2>1, StageType DEF Stage
    <2>3. CASE calls = 0
      <3>1. \A i \in Slave : outputs[i].word = Abstract!Script[Stage]
        BY <2>1, <2>3 DEF PowerInv, ImageInv, StageWord
      <3>2. Sent' = [i \in Slave |-> IF i \in Slave THEN Abstract!Script[Stage] ELSE Sent[i]]
        BY <2>1, <3>1 DEF Sent
      <3>3. ~(calls > 0)
        BY <2>3
      <3>4. Abstract!Send(Slave)
        BY <2>2, <3>2, <3>3 DEF Abstract!Send, Abstract!Slave, Slave, Sent
      <3>5. \E S \in SUBSET Abstract!Slave : Abstract!Send(S)
        BY <3>4 DEF Abstract!Slave, Slave
      <3> QED
        BY <3>5 DEF Abstract!Next
    <2>4. CASE calls # 0
      <3>1. calls > 0
        BY <2>4 DEF TypeOK
      <3>2. Sent' \in [Slave -> Word]
        BY <2>1 DEF Sent, TypeOK, Pdo
      <3> QED
        BY <2>2, <3>1, <3>2
        DEF Abstract!Next, Abstract!SendAny, Abstract!Slave, Slave, Sent,
            Abstract!Word, Abstract!Bit, Word, Bit
    <2> QED
      BY <2>3, <2>4
  <1>12. CASE Shutdown \/ UNCHANGED vars
    BY <1>1, <1>12 DEF Shutdown, vars, image, cycle
  <1> QED
    BY <1>2, <1>3, <1>4, <1>6, <1>7, <1>8, <1>9, <1>10, <1>11, <1>12
    DEF Next, Loop, Service, Thread, Abstract!Next

(***************************************************************************)
(* Until a service is called the drives are sent the words of the start-up *)
(* in their order, and no others.                                          *)
(***************************************************************************)
THEOREM Refinement == Spec => ImplementsPowerUp
  <1>1. Init => TypeOK /\ ThreadInv /\ PowerInv /\ Abstract!Init
    BY TypeInit, ThreadInit, PowerInit, RefineInit
  <1>2. TypeOK /\ ThreadInv /\ PowerInv /\ [Next]_vars => (TypeOK /\ ThreadInv /\ PowerInv)'
    BY TypeNext, ThreadNext, PowerNext
  <1> QED
    BY <1>1, <1>2, RefineStep, PTL DEF Spec, ImplementsPowerUp, Abstract!Spec

=============================================================================
