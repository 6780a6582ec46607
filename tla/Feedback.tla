------------------------------ MODULE Feedback ------------------------------
(***************************************************************************)
(* How the position of each drive reaches MoveIt: update() assembles       *)
(* tx_pdo[].actual_position byte by byte on the control thread while       *)
(* pulse_to_position reads it on the main thread, converts it to degrees   *)
(* in an int32, and set_joint_position hands it to the planner.  A word is *)
(* the set of its bits that are 1, so that `|=' is union.                  *)
(***************************************************************************)
EXTENDS Integers, Sequences, FiniteSetsExt

CONSTANTS
  N,            \* ec_slavecount
  Joints,       \* joints of the planning group
  Octet,        \* bits of a byte, 8
  Bytes,        \* bytes of an int32, 4
  Half,         \* 2^31
  Factor,       \* 360
  Positions,    \* words that a drive may report
  Garbage,      \* what io_map may hold before a drive has answered
  Constructed   \* a joint value of arm_current_state, taken by the constructor

Bits   == 0 .. Octet * Bytes - 1
Drives == 1 .. N

ASSUME SizeAssumption  == N \in Nat \ {0} /\ Joints \in Nat
ASSUME WidthAssumption == Octet \in Nat \ {0} /\ Bytes \in Nat \ {0} /\ Factor \in Nat
ASSUME HalfAssumption  == Half \in Nat \ {0} /\ Half = 2 ^ (Octet * Bytes - 1)
ASSUME WordAssumption  == Positions \subseteq SUBSET Bits /\ Garbage \subseteq SUBSET Bits

VARIABLES
  inputs,       \* the position in ec_slave[].inputs
  tx,           \* tx_pdo[].actual_position
  at,           \* the drive that update() is assembling, 0 between updates
  byte,         \* the store of it that comes next: 0 resets, k adds byte k - 1
  main,         \* where the main thread is
  joint_pos,    \* what pulse_to_position has read, a word per drive
  target,       \* the joint values MoveIt is asked to execute, <<>> if it is not
  seen,         \* history: what each drive has reported
  known,        \* history: drives whose position comes from an answer of theirs
  dirty         \* history: drives read during their update, or before they were known

vars == <<inputs, tx, at, byte, main, joint_pos, target, seen, known, dirty>>

-----------------------------------------------------------------------------
\* The bits of byte k, and a word of which only the first k bytes are there.
OctetAt(k) == {b \in Bits : Octet * k <= b /\ b < Octet * (k + 1)}
Low(w, k)  == {b \in w : b < Octet * k}

\* Two's complement.
Signed(w) == MapThenSumSet(LAMBDA b : IF b = Octet * Bytes - 1 THEN -Half ELSE 2 ^ b, w)

\* int32 arithmetic, which wraps in the code compiled for it.
Wrap(x) == ((x + Half) % (2 * Half)) - Half

\* actual_position * 360; the division by pulses per turn and gear ratio is real.
Degrees(w) == Wrap(Factor * Signed(w))

-----------------------------------------------------------------------------
Init ==
  /\ inputs \in [Drives -> Garbage] /\ tx \in [Drives -> Garbage]
  /\ at = 0 /\ byte = 0
  /\ main = "start" /\ joint_pos = <<>> /\ target = <<>>
  /\ seen = [d \in Drives |-> {}] /\ known = {} /\ dirty = {}

\* A frame: the drives of A answer, the others' part of io_map stays as it is.
Frame(A) ==
  /\ inputs' \in {w \in [Drives -> Positions \cup Garbage] :
                    \A d \in Drives : IF d \in A THEN w[d] \in Positions
                                      ELSE w[d] = inputs[d]}
  /\ seen' = [d \in Drives |-> IF d \in A THEN seen[d] \cup {inputs'[d]} ELSE seen[d]]

\* Master::start updates once, before there is a control thread.
Start ==
  /\ main = "start" /\ main' = "read"
  /\ \E A \in SUBSET Drives : Frame(A) /\ known' = A
  /\ tx' = inputs'
  /\ UNCHANGED <<at, byte, joint_pos, target, dirty>>

\* ec_send_processdata and ec_receive_processdata, on the control thread.
Exchange ==
  /\ main # "start" /\ at = 0
  /\ \E A \in SUBSET Drives : Frame(A)
  /\ at' = 1 /\ byte' = 0
  /\ UNCHANGED <<tx, main, joint_pos, target, known, dirty>>

\* Mutant: the field is not reset.
ResetNot ==
  /\ at # 0 /\ byte = 0
  /\ byte' = 1
  /\ UNCHANGED <<inputs, tx, at, main, joint_pos, target, seen, known, dirty>>

\* The field is set to 0 ...
Reset ==
  /\ at # 0 /\ byte = 0
  /\ tx' = [tx EXCEPT ![at] = {}]
  /\ byte' = 1
  /\ UNCHANGED <<inputs, at, main, joint_pos, target, seen, known, dirty>>

\* Mutant: the loop over the slaves counts to ec_slavecount inclusive.
OrByteTooFar ==
  /\ at # 0 /\ byte \in 1 .. Bytes
  /\ tx' = [tx EXCEPT ![at] = @ \cup (inputs[at] \cap OctetAt(byte - 1))]
  /\ IF byte < Bytes THEN byte' = byte + 1 /\ at' = at
     ELSE byte' = 0 /\ at' = at + 1
  /\ known' = IF byte = Bytes /\ seen[at] # {} THEN known \cup {at} ELSE known
  /\ UNCHANGED <<inputs, main, joint_pos, target, seen, dirty>>

\* Mutant: the last byte is left out.
OrByteShort ==
  /\ at # 0 /\ byte \in 1 .. Bytes
  /\ tx' = [tx EXCEPT ![at] = @ \cup (inputs[at] \cap OctetAt(byte - 1))]
  /\ IF byte < Bytes - 1 THEN byte' = byte + 1 /\ at' = at
     ELSE byte' = 0 /\ at' = (at + 1) % (N + 1)
  /\ known' = IF byte = Bytes /\ seen[at] # {} THEN known \cup {at} ELSE known
  /\ UNCHANGED <<inputs, main, joint_pos, target, seen, dirty>>

\* ... and its bytes are added, the lowest first.
OrByte ==
  /\ at # 0 /\ byte \in 1 .. Bytes
  /\ tx' = [tx EXCEPT ![at] = @ \cup (inputs[at] \cap OctetAt(byte - 1))]
  /\ IF byte < Bytes THEN byte' = byte + 1 /\ at' = at
     ELSE byte' = 0 /\ at' = (IF at = N THEN 0 ELSE at + 1)
  /\ known' = IF byte = Bytes /\ seen[at] # {} THEN known \cup {at} ELSE known
  /\ UNCHANGED <<inputs, main, joint_pos, target, seen, dirty>>

-----------------------------------------------------------------------------
\* A turn of the loop of pulse_to_position.
ReadPosition ==
  LET d == Len(joint_pos) + 1
  IN  /\ main = "read" /\ d \in Drives
      /\ joint_pos' = Append(joint_pos, tx[d])
      /\ dirty' = IF (d = at /\ byte # 0) \/ d \notin known THEN dirty \cup {d} ELSE dirty
      /\ UNCHANGED <<inputs, tx, at, byte, main, target, seen, known>>

\* set_joint_position: MoveIt may throw; nothing is planned for more drives than
\* joints, and no error of the planner or of the execution is returned.
SetJointPosition ==
  /\ main = "read" /\ Len(joint_pos) = N
  /\ \/ main' = "failed" /\ UNCHANGED target
     \/ main' = "planned" /\ UNCHANGED target
     \/ /\ main' = "planned" /\ Joints >= N
        /\ target' = [j \in 1 .. Joints |->
                        IF j <= N THEN Degrees(joint_pos[j]) ELSE Constructed]
  /\ UNCHANGED <<inputs, tx, at, byte, joint_pos, seen, known, dirty>>

Update == Exchange \/ Reset \/ OrByte

Next == Start \/ Update \/ ReadPosition \/ SetJointPosition

Spec == Init /\ [][Next]_vars

-----------------------------------------------------------------------------
Word   == SUBSET Bits
Angles == {Degrees(w) : w \in Word} \cup {Constructed}

TypeOK ==
  /\ inputs \in [Drives -> Word] /\ tx \in [Drives -> Word]
  /\ at \in 0 .. N /\ byte \in 0 .. Bytes
  /\ main \in {"start", "read", "planned", "failed"}
  /\ joint_pos \in Seq(Word) /\ Len(joint_pos) <= N
  /\ target = <<>> \/ target \in [1 .. Joints -> Angles]
  /\ seen \in [Drives -> SUBSET Positions]
  /\ known \subseteq Drives /\ dirty \subseteq Drives

(***************************************************************************)
(* A reading that meets the update of its drive may be torn, but it is the *)
(* low bytes of one report, with zeros above: it never has bytes of two,   *)
(* whatever the main thread reads in between.                              *)
(***************************************************************************)
ReadingNeverMixed ==
  \A d \in DOMAIN joint_pos :
    \E w \in seen[d] \cup Garbage, k \in 0 .. Bytes : joint_pos[d] = Low(w, k)

(***************************************************************************)
(* When MoveIt is asked for anything, it is asked for every drive, and a   *)
(* joint whose drive was not read during its own update is asked for the   *)
(* position in degrees that this drive has reported, if 360 times the      *)
(* pulses fits an int32.  What the code asks for when the product does not *)
(* fit, or that it asks for nothing and says it did, is not covered.       *)
(***************************************************************************)
PlannedWhenClean ==
  target # <<>> =>
    /\ N <= Joints
    /\ \A d \in Drives \ dirty :
         /\ joint_pos[d] \in seen[d]
         /\ Factor * Signed(joint_pos[d]) \in -Half .. Half - 1
              => target[d] = Factor * Signed(joint_pos[d])

=============================================================================
