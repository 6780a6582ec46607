--------------------------- MODULE FeedbackProofs --------------------------
(***************************************************************************)
(* Proofs about Feedback for any number of drives, joints, bytes and bits, *)
(* and any positions.                                                      *)
(***************************************************************************)
EXTENDS Feedback, TLAPS

-----------------------------------------------------------------------------
(* The inductive invariant.                                                *)

\* w is the low bytes of something the input buffer of drive d has held.
Part(d, w) == \E v \in seen[d] \cup Garbage, k \in 0 .. Bytes : w = Low(v, k)

\* The buffer holds the last report, and the field the bytes of it added so far.
AssemblyInv ==
  /\ at = 0 => byte = 0
  /\ at # 0 /\ byte # 0 => tx[at] = Low(inputs[at], byte - 1)
  /\ \A d \in Drives : /\ seen[d] = {} => inputs[d] \in Garbage
                       /\ seen[d] # {} => inputs[d] \in seen[d]
                       /\ Part(d, tx[d])
                       /\ d \in known /\ ~(d = at /\ byte # 0) => tx[d] \in seen[d]
  /\ \A d \in known : seen[d] # {}

\* What has been read was such a part, and a whole report where it was clean.
ReadInv ==
  \A d \in DOMAIN joint_pos :
    Part(d, joint_pos[d]) /\ (d \notin dirty => joint_pos[d] \in seen[d])

\* Nothing is read any more once the target is set.
TargetInv ==
  /\ main = "start" => at = 0 /\ joint_pos = <<>>
  /\ target # <<>> =>
       /\ main = "planned" /\ N <= Joints /\ Len(joint_pos) = N
       /\ \A d \in Drives : target[d] = Degrees(joint_pos[d])

FeedbackInv == TypeOK /\ AssemblyInv /\ ReadInv /\ TargetInv

-----------------------------------------------------------------------------
(* Words and their bytes.                                                  *)

LEMMA BitsRange == \A b \in Bits : b \in Nat /\ b < Octet * Bytes
  <1> DEFINE m == Octet * Bytes
  <1>1. m \in Nat
    BY WidthAssumption
  <1>2. Bits = 0 .. m - 1
    BY DEF Bits
  <1> HIDE DEF m
  <1>3. \A b \in Bits : b \in Nat /\ b < m
    BY <1>1, <1>2
  <1> QED
    BY <1>3 DEF m

LEMMA LowNone == \A w \in Word : Low(w, 0) = {}
  <1>1. Octet * 0 = 0
    BY WidthAssumption
  <1> QED
    BY <1>1, BitsRange DEF Low, Word

LEMMA LowAll == \A w \in Word : Low(w, Bytes) = w
  BY BitsRange DEF Low, Word

LEMMA LowNext ==
  ASSUME NEW w \in Word, NEW k \in Nat
  PROVE  Low(w, k) \cup (w \cap OctetAt(k)) = Low(w, k + 1)
  <1> DEFINE m == Octet * k
             n == Octet * (k + 1)
  <1>1. m \in Nat /\ n \in Nat /\ m <= n
    <2>1. n = m + Octet
      BY WidthAssumption
    <2> QED
      BY <2>1, WidthAssumption
  <1>2. \A b \in w : b \in Bits /\ b \in Int
    BY WidthAssumption DEF Word, Bits
  <1>3. Low(w, k) = {b \in w : b < m} /\ Low(w, k + 1) = {b \in w : b < n}
    BY DEF Low
  <1>4. w \cap OctetAt(k) = {b \in w : m <= b /\ b < n}
    BY <1>2 DEF OctetAt
  <1> HIDE DEF m, n
  <1> QED
    BY <1>1, <1>2, <1>3, <1>4

LEMMA Words == Positions \subseteq Word /\ Garbage \subseteq Word
  BY WordAssumption DEF Word

\* A product that fits is left as it is.
LEMMA WrapFits ==
  ASSUME NEW x \in -Half .. Half - 1 PROVE Wrap(x) = x
  <1>1. x + Half \in 0 .. 2 * Half - 1 /\ Half \in Nat \ {0} /\ x \in Int
    BY HalfAssumption
  <1> DEFINE a == x + Half
             n == 2 * Half
  <1>2. \A u, v \in Nat : u < v => u % v = u
    OBVIOUS
  <1>3. a \in Nat /\ n \in Nat /\ a < n
    BY <1>1
  <1>4. a % n = a
    BY <1>2, <1>3
  <1> QED
    BY <1>1, <1>4 DEF Wrap

-----------------------------------------------------------------------------
(* The frames.                                                             *)

\* What a frame does to the buffer and to what has been reported.
LEMMA Framed ==
  ASSUME TypeOK, AssemblyInv, NEW A \in SUBSET Drives, Frame(A)
  PROVE  /\ inputs' \in [Drives -> Word] /\ seen' \in [Drives -> SUBSET Positions]
         /\ \A d \in Drives : /\ seen[d] \subseteq seen'[d]
                              /\ d \in A => inputs'[d] \in seen'[d]
                              /\ seen'[d] = {} => inputs'[d] \in Garbage
                              /\ seen'[d] # {} => inputs'[d] \in seen'[d]
  <1>1. inputs' \in [Drives -> Positions \cup Garbage]
        /\ \A d \in Drives : IF d \in A THEN inputs'[d] \in Positions
                             ELSE inputs'[d] = inputs[d]
    BY DEF Frame
  <1>2. seen' = [d \in Drives |-> IF d \in A THEN seen[d] \cup {inputs'[d]} ELSE seen[d]]
    BY DEF Frame
  <1>3. inputs' \in [Drives -> Word]
    BY <1>1, Words
  <1>4. seen' \in [Drives -> SUBSET Positions]
    BY <1>1, <1>2 DEF TypeOK
  <1>5. ASSUME NEW d \in Drives
        PROVE  /\ seen[d] \subseteq seen'[d]
               /\ d \in A => inputs'[d] \in seen'[d]
               /\ seen'[d] = {} => inputs'[d] \in Garbage
               /\ seen'[d] # {} => inputs'[d] \in seen'[d]
    <2>1. CASE d \in A
      BY <1>1, <1>2, <2>1
    <2>2. CASE d \notin A
      BY <1>1, <1>2, <2>2 DEF AssemblyInv
    <2> QED
      BY <2>1, <2>2
  <1> QED
    BY <1>3, <1>4, <1>5

\* What was a part remains one.
LEMMA PartsLast ==
  ASSUME NEW d, NEW w, Part(d, w), seen[d] \subseteq seen'[d]
  PROVE  Part(d, w)'
  BY DEF Part

\* The buffer and its low bytes are parts.
LEMMA BufferParts ==
  ASSUME TypeOK, NEW d \in Drives, NEW k \in 0 .. Bytes,
         seen[d] = {} => inputs[d] \in Garbage, seen[d] # {} => inputs[d] \in seen[d]
  PROVE  Part(d, Low(inputs[d], k))
  BY DEF Part

-----------------------------------------------------------------------------
LEMMA InitFeedback == Init => FeedbackInv
  <1> SUFFICES ASSUME Init PROVE FeedbackInv
    OBVIOUS
  <1>1. TypeOK
    <2>1. inputs \in [Drives -> Word] /\ tx \in [Drives -> Word]
      BY Words DEF Init
    <2>2. joint_pos \in Seq(Word) /\ Len(joint_pos) <= N /\ 0 \in 0 .. N /\ 0 \in 0 .. Bytes
      BY SizeAssumption, WidthAssumption DEF Init
    <2> QED
      BY <2>1, <2>2 DEF Init, TypeOK
  <1>2. ASSUME NEW d \in Drives PROVE Part(d, tx[d])
    <2>1. tx[d] \in Garbage /\ tx[d] \in Word
      BY Words DEF Init
    <2>2. tx[d] = Low(tx[d], Bytes) /\ Bytes \in 0 .. Bytes
      BY <2>1, LowAll, WidthAssumption
    <2> QED
      BY <2>1, <2>2 DEF Part
  <1>3. AssemblyInv
    BY <1>2 DEF Init, AssemblyInv
  <1>4. ReadInv /\ TargetInv
    BY DEF Init, ReadInv, TargetInv
  <1> QED
    BY <1>1, <1>3, <1>4 DEF FeedbackInv

LEMMA StartFeedback == FeedbackInv /\ Start => FeedbackInv'
  <1> SUFFICES ASSUME FeedbackInv, Start PROVE FeedbackInv'
    OBVIOUS
  <1>1. /\ main = "start" /\ main' = "read" /\ tx' = inputs'
        /\ UNCHANGED <<at, byte, joint_pos, target, dirty>>
    BY DEF Start
  <1>2. PICK A \in SUBSET Drives : Frame(A) /\ known' = A
    BY DEF Start
  <1>3. TypeOK /\ AssemblyInv /\ at = 0 /\ byte = 0 /\ joint_pos = <<>> /\ target = <<>>
    BY <1>1 DEF FeedbackInv, TargetInv, AssemblyInv
  <1>4. /\ inputs' \in [Drives -> Word] /\ seen' \in [Drives -> SUBSET Positions]
        /\ \A d \in Drives : /\ d \in A => inputs'[d] \in seen'[d]
                             /\ seen'[d] = {} => inputs'[d] \in Garbage
                             /\ seen'[d] # {} => inputs'[d] \in seen'[d]
    BY <1>2, <1>3, Framed
  <1>5. TypeOK'
    BY <1>1, <1>2, <1>3, <1>4 DEF TypeOK
  <1>6. ASSUME NEW d \in Drives PROVE Part(d, tx[d])'
    <2>1. inputs'[d] = Low(inputs'[d], Bytes) /\ Bytes \in 0 .. Bytes
      BY <1>4, LowAll, WidthAssumption
    <2>2. inputs'[d] \in seen'[d] \cup Garbage
      BY <1>4
    <2> QED
      BY <1>1, <2>1, <2>2 DEF Part
  <1>7. AssemblyInv'
    BY <1>1, <1>2, <1>3, <1>4, <1>6 DEF AssemblyInv
  <1>8. ReadInv' /\ TargetInv'
    BY <1>1, <1>3 DEF ReadInv, TargetInv
  <1> QED
    BY <1>5, <1>7, <1>8 DEF FeedbackInv

LEMMA ExchangeFeedback == FeedbackInv /\ Exchange => FeedbackInv'
  <1> SUFFICES ASSUME FeedbackInv, Exchange PROVE FeedbackInv'
    OBVIOUS
  <1>1. /\ main # "start" /\ at = 0 /\ at' = 1 /\ byte' = 0
        /\ UNCHANGED <<tx, main, joint_pos, target, known, dirty>>
    BY DEF Exchange
  <1>2. PICK A \in SUBSET Drives : Frame(A)
    BY DEF Exchange
  <1>3. TypeOK /\ AssemblyInv /\ ReadInv /\ TargetInv
    BY DEF FeedbackInv
  <1>4. /\ inputs' \in [Drives -> Word] /\ seen' \in [Drives -> SUBSET Positions]
        /\ \A d \in Drives : /\ seen[d] \subseteq seen'[d]
                             /\ seen'[d] = {} => inputs'[d] \in Garbage
                             /\ seen'[d] # {} => inputs'[d] \in seen'[d]
    BY <1>2, <1>3, Framed
  <1>5. TypeOK'
    BY <1>1, <1>3, <1>4, SizeAssumption, WidthAssumption DEF TypeOK
  <1>6. ASSUME NEW d \in Drives PROVE Part(d, tx[d])'
    <2>1. Part(d, tx[d])
      BY <1>3 DEF AssemblyInv
    <2> QED
      BY <1>1, <1>4, <2>1 DEF Part
  <1>7. AssemblyInv'
    BY <1>1, <1>3, <1>4, <1>6 DEF AssemblyInv, TypeOK
  <1>8. ReadInv'
    <2> SUFFICES ASSUME NEW d \in DOMAIN joint_pos
                 PROVE  /\ Part(d, joint_pos[d])'
                        /\ d \notin dirty => joint_pos[d] \in seen'[d]
      BY <1>1 DEF ReadInv
    <2>1. d \in Drives
      <3>1. joint_pos \in Seq(Word) /\ Len(joint_pos) <= N /\ N \in Nat
        BY <1>3, SizeAssumption DEF TypeOK
      <3>2. DOMAIN joint_pos = 1 .. Len(joint_pos) /\ Len(joint_pos) \in Nat
        BY <3>1
      <3> QED
        BY <3>1, <3>2 DEF Drives
    <2>2. Part(d, joint_pos[d]) /\ (d \notin dirty => joint_pos[d] \in seen[d])
      BY <1>3 DEF ReadInv
    <2>3. seen[d] \subseteq seen'[d] /\ joint_pos' = joint_pos
      BY <1>1, <1>4, <2>1
    <2> QED
      BY <2>2, <2>3 DEF Part
  <1>9. TargetInv'
    BY <1>1, <1>3 DEF TargetInv
  <1> QED
    BY <1>5, <1>7, <1>8, <1>9 DEF FeedbackInv

LEMMA ResetFeedback == FeedbackInv /\ Reset => FeedbackInv'
  <1> SUFFICES ASSUME FeedbackInv, Reset PROVE FeedbackInv'
    OBVIOUS
  <1>1. /\ at # 0 /\ byte = 0 /\ tx' = [tx EXCEPT ![at] = {}] /\ byte' = 1
        /\ UNCHANGED <<inputs, at, main, joint_pos, target, seen, known, dirty>>
    BY DEF Reset
  <1>2. TypeOK /\ AssemblyInv /\ ReadInv /\ TargetInv /\ at \in Drives
    BY <1>1, SizeAssumption DEF FeedbackInv, TypeOK, Drives
  <1>3. tx' \in [Drives -> Word] /\ tx'[at] = {}
        /\ \A d \in Drives : d # at => tx'[d] = tx[d]
    BY <1>1, <1>2 DEF TypeOK, Word
  <1>4. TypeOK'
    BY <1>1, <1>2, <1>3, WidthAssumption DEF TypeOK
  <1>5. Low(inputs[at], 0) = {}
    BY <1>2, LowNone DEF TypeOK
  <1>6. Part(at, {})
    <2>1. 0 \in 0 .. Bytes
      BY WidthAssumption
    <2>2. Part(at, Low(inputs[at], 0))
      BY <1>2, <2>1, BufferParts DEF AssemblyInv
    <2> QED
      BY <1>5, <2>2
  <1>7. \A d, w : Part(d, w)' <=> Part(d, w)
    BY <1>1 DEF Part
  <1>8. \A d \in Drives : Part(d, tx'[d])
    BY <1>2, <1>3, <1>6 DEF AssemblyInv
  <1>9. AssemblyInv'
    <2>1. tx'[at] = Low(inputs[at], 1 - 1)
      BY <1>3, <1>5
    <2>2. \A d \in Drives : d \in known /\ d # at => tx'[d] \in seen[d]
      BY <1>2, <1>3 DEF AssemblyInv
    <2> QED
      BY <1>1, <1>2, <1>7, <1>8, <2>1, <2>2 DEF AssemblyInv
  <1>10. ReadInv' /\ TargetInv'
    BY <1>1, <1>2, <1>7 DEF ReadInv, TargetInv
  <1> QED
    BY <1>4, <1>9, <1>10 DEF FeedbackInv

LEMMA OrByteFeedback == FeedbackInv /\ OrByte => FeedbackInv'
  <1> SUFFICES ASSUME FeedbackInv, OrByte PROVE FeedbackInv'
    OBVIOUS
  <1>1. /\ at # 0 /\ byte \in 1 .. Bytes
        /\ tx' = [tx EXCEPT ![at] = tx[at] \cup (inputs[at] \cap OctetAt(byte - 1))]
        /\ byte < Bytes => byte' = byte + 1 /\ at' = at
        /\ ~(byte < Bytes) => byte' = 0 /\ at' = (IF at = N THEN 0 ELSE at + 1)
        /\ known' = (IF byte = Bytes /\ seen[at] # {} THEN known \cup {at} ELSE known)
        /\ UNCHANGED <<inputs, main, joint_pos, target, seen, dirty>>
    BY DEF OrByte
  <1>2. /\ TypeOK /\ AssemblyInv /\ ReadInv /\ TargetInv /\ at \in Drives
        /\ inputs[at] \in Word
    BY <1>1, SizeAssumption DEF FeedbackInv, TypeOK, Drives
  <1>3. tx[at] = Low(inputs[at], byte - 1) /\ byte - 1 \in Nat /\ (byte - 1) + 1 = byte
    BY <1>1, <1>2, WidthAssumption DEF AssemblyInv
  <1>4. tx[at] \cup (inputs[at] \cap OctetAt(byte - 1)) = Low(inputs[at], byte)
    BY <1>2, <1>3, LowNext
  <1>5. tx'[at] = Low(inputs[at], byte) /\ \A d \in Drives : d # at => tx'[d] = tx[d]
    BY <1>1, <1>2, <1>4 DEF TypeOK
  <1>6. Low(inputs[at], byte) \in Word
    BY <1>2 DEF Low, Word
  <1>7. TypeOK'
    <2>1. tx' \in [Drives -> Word]
      BY <1>1, <1>2, <1>4, <1>6 DEF TypeOK
    <2>2. at' \in 0 .. N /\ byte' \in 0 .. Bytes
      BY <1>1, <1>2, SizeAssumption, WidthAssumption DEF Drives
    <2>3. known' \subseteq Drives
      BY <1>1, <1>2 DEF TypeOK
    <2> QED
      BY <1>1, <1>2, <2>1, <2>2, <2>3 DEF TypeOK
  <1>8. Part(at, tx'[at])
    BY <1>1, <1>2, <1>5, BufferParts, WidthAssumption DEF AssemblyInv
  <1>9. \A d, w : Part(d, w)' <=> Part(d, w)
    BY <1>1 DEF Part
  <1>10. \A d \in Drives : Part(d, tx'[d])
    BY <1>2, <1>5, <1>8 DEF AssemblyInv
  <1>11. CASE byte < Bytes
    <2>1. byte' = byte + 1 /\ at' = at /\ known' = known /\ byte' # 0 /\ byte' - 1 = byte
          /\ byte # 0
      BY <1>1, <1>11
    <2>2. \A d \in Drives : d \in known /\ d # at => tx'[d] \in seen[d]
      BY <1>2, <1>5 DEF AssemblyInv
    <2> QED
      BY <1>1, <1>2, <1>5, <1>7, <1>9, <1>10, <2>1, <2>2
         DEF FeedbackInv, AssemblyInv, ReadInv, TargetInv
  <1>12. CASE ~(byte < Bytes)
    <2>1. byte = Bytes /\ byte' = 0
      BY <1>1, <1>12, WidthAssumption
    <2>2. tx'[at] = inputs[at]
      BY <1>2, <1>5, <2>1, LowAll
    <2>3. seen[at] # {} => tx'[at] \in seen[at]
      BY <1>2, <2>2 DEF AssemblyInv
    <2>4. \A d \in Drives : d \in known' => tx'[d] \in seen[d]
      <3> SUFFICES ASSUME NEW d \in Drives, d \in known' PROVE tx'[d] \in seen[d]
        OBVIOUS
      <3>1. CASE d = at
        <4>1. seen[at] # {}
          BY <1>1, <1>2, <3>1 DEF AssemblyInv
        <4> QED
          BY <2>3, <3>1, <4>1
      <3>2. CASE d # at
        BY <1>1, <1>2, <1>5, <3>2 DEF AssemblyInv
      <3> QED
        BY <3>1, <3>2
    <2>5. \A d \in known' : seen[d] # {}
      BY <1>1, <1>2 DEF AssemblyInv
    <2>6. AssemblyInv'
      BY <1>1, <1>2, <1>9, <1>10, <2>1, <2>4, <2>5 DEF AssemblyInv
    <2>7. ReadInv'
      BY <1>1, <1>2, <1>9 DEF ReadInv
    <2>8. TargetInv'
      BY <1>1, <1>2 DEF TargetInv
    <2> QED
      BY <1>7, <2>6, <2>7, <2>8 DEF FeedbackInv
  <1> QED
    BY <1>11, <1>12

LEMMA ReadFeedback == FeedbackInv /\ ReadPosition => FeedbackInv'
  <1> SUFFICES ASSUME FeedbackInv, ReadPosition PROVE FeedbackInv'
    OBVIOUS
  <1> DEFINE e == Len(joint_pos) + 1
  <1>1. /\ main = "read" /\ e \in Drives /\ joint_pos' = Append(joint_pos, tx[e])
        /\ dirty' = (IF (e = at /\ byte # 0) \/ e \notin known THEN dirty \cup {e} ELSE dirty)
        /\ UNCHANGED <<inputs, tx, at, byte, main, target, seen, known>>
    BY DEF ReadPosition
  <1>2. /\ TypeOK /\ AssemblyInv /\ ReadInv /\ TargetInv
        /\ joint_pos \in Seq(Word) /\ Len(joint_pos) \in Nat /\ tx[e] \in Word
    BY <1>1 DEF FeedbackInv, TypeOK
  <1>3. joint_pos' \in Seq(Word) /\ Len(joint_pos') = e /\ DOMAIN joint_pos' = 1 .. e
        /\ joint_pos'[e] = tx[e] /\ \A d \in 1 .. e - 1 : joint_pos'[d] = joint_pos[d]
    BY <1>1, <1>2
  <1>4. TypeOK'
    <2>1. Len(joint_pos') <= N
      BY <1>1, <1>3, SizeAssumption DEF Drives
    <2>2. dirty' \subseteq Drives
      BY <1>1, <1>2 DEF TypeOK
    <2> QED
      BY <1>1, <1>2, <1>3, <2>1, <2>2 DEF TypeOK
  <1>5. \A d, w : Part(d, w)' <=> Part(d, w)
    BY <1>1 DEF Part
  <1>6. AssemblyInv'
    BY <1>1, <1>2, <1>5 DEF AssemblyInv
  <1>7. ReadInv'
    <2> SUFFICES ASSUME NEW d \in DOMAIN joint_pos'
                 PROVE  /\ Part(d, joint_pos'[d])
                        /\ d \notin dirty' => joint_pos'[d] \in seen[d]
      BY <1>1, <1>5 DEF ReadInv
    <2>1. CASE d = e
      <3>1. Part(e, tx[e])
        BY <1>1, <1>2 DEF AssemblyInv
      <3>2. e \notin dirty' => tx[e] \in seen[e]
        BY <1>1, <1>2 DEF AssemblyInv
      <3> QED
        BY <1>3, <2>1, <3>1, <3>2
    <2>2. CASE d # e
      <3>1. d \in 1 .. e - 1 /\ d \in DOMAIN joint_pos
        BY <1>2, <1>3, <2>2
      <3> QED
        BY <1>1, <1>2, <1>3, <3>1 DEF ReadInv
    <2> QED
      BY <2>1, <2>2
  <1>8. TargetInv'
    BY <1>1, <1>2 DEF TargetInv
  <1> QED
    BY <1>4, <1>6, <1>7, <1>8 DEF FeedbackInv

LEMMA SetFeedback == FeedbackInv /\ SetJointPosition => FeedbackInv'
  <1> SUFFICES ASSUME FeedbackInv, SetJointPosition PROVE FeedbackInv'
    OBVIOUS
  <1>1. /\ main = "read" /\ Len(joint_pos) = N
        /\ UNCHANGED <<inputs, tx, at, byte, joint_pos, seen, known, dirty>>
        /\ main' \in {"failed", "planned"}
    BY DEF SetJointPosition
  <1>2. \/ target' = target
        \/ /\ main' = "planned" /\ Joints >= N
           /\ target' = [j \in 1 .. Joints |->
                           IF j <= N THEN Degrees(joint_pos[j]) ELSE Constructed]
    BY DEF SetJointPosition
  <1>3. TypeOK /\ AssemblyInv /\ ReadInv /\ TargetInv /\ target = <<>>
    BY <1>1 DEF FeedbackInv, TargetInv
  <1>4. \A j \in 1 .. N : joint_pos[j] \in Word
    BY <1>1, <1>3 DEF TypeOK
  <1>5. TypeOK'
    <2>1. CASE target' = target
      BY <1>1, <1>3, <2>1 DEF TypeOK
    <2>2. CASE target' # target
      <3>1. target' = [j \in 1 .. Joints |->
                         IF j <= N THEN Degrees(joint_pos[j]) ELSE Constructed]
        BY <1>2, <2>2
      <3>2. \A j \in 1 .. Joints :
              (IF j <= N THEN Degrees(joint_pos[j]) ELSE Constructed) \in Angles
        BY <1>4, SizeAssumption DEF Angles
      <3>3. target' \in [1 .. Joints -> Angles]
        BY <3>1, <3>2, Zenon
      <3> QED
        BY <1>1, <1>3, <3>3 DEF TypeOK
    <2> QED
      BY <2>1, <2>2
  <1>6. AssemblyInv' /\ ReadInv'
    BY <1>1, <1>3 DEF AssemblyInv, ReadInv, Part
  <1>7. TargetInv'
    <2>1. CASE target' = target
      BY <1>1, <1>3, <2>1 DEF TargetInv
    <2>2. CASE target' # target
      <3>1. /\ main' = "planned" /\ Joints >= N
            /\ target' = [j \in 1 .. Joints |->
                            IF j <= N THEN Degrees(joint_pos[j]) ELSE Constructed]
        BY <1>2, <2>2
      <3>2. \A d \in Drives : target'[d] = Degrees(joint_pos[d])
        BY <3>1, SizeAssumption DEF Drives
      <3>3. \A d \in Drives : target'[d] = Degrees(joint_pos'[d])
        BY <1>1, <3>2
      <3>4. N <= Joints
        BY <3>1, SizeAssumption
      <3> QED
        BY <1>1, <3>1, <3>3, <3>4 DEF TargetInv
    <2> QED
      BY <2>1, <2>2
  <1> QED
    BY <1>5, <1>6, <1>7 DEF FeedbackInv

LEMMA StutterFeedback == FeedbackInv /\ UNCHANGED vars => FeedbackInv'
  <1> SUFFICES ASSUME FeedbackInv, UNCHANGED vars PROVE FeedbackInv'
    OBVIOUS
  <1>1. /\ UNCHANGED <<inputs, tx, at, byte, main, joint_pos, target, seen, known, dirty>>
    BY DEF vars
  <1>2. TypeOK'
    BY <1>1 DEF FeedbackInv, TypeOK
  <1>3. AssemblyInv' /\ ReadInv' /\ TargetInv'
    BY <1>1 DEF FeedbackInv, AssemblyInv, ReadInv, TargetInv, Part
  <1> QED
    BY <1>2, <1>3 DEF FeedbackInv

LEMMA FedBack == Spec => []FeedbackInv
  <1>1. FeedbackInv /\ [Next]_vars => FeedbackInv'
    BY StartFeedback, ExchangeFeedback, ResetFeedback, OrByteFeedback, ReadFeedback,
       SetFeedback, StutterFeedback DEF Next, Update
  <1> QED
    BY InitFeedback, <1>1, PTL DEF Spec

-----------------------------------------------------------------------------
(***************************************************************************)
(* The types.                                                              *)
(***************************************************************************)
THEOREM FeedbackTyped == Spec => []TypeOK
  <1>1. FeedbackInv => TypeOK
    BY DEF FeedbackInv
  <1> QED
    BY FedBack, <1>1, PTL

(***************************************************************************)
(* No reading has bytes of two reports, however many bytes a position has. *)
(***************************************************************************)
THEOREM ReadingsAreNeverMixed == Spec => []ReadingNeverMixed
  <1>1. FeedbackInv => ReadingNeverMixed
    BY DEF FeedbackInv, ReadInv, Part, ReadingNeverMixed
  <1> QED
    BY FedBack, <1>1, PTL

(***************************************************************************)
(* MoveIt is asked for reported positions in degrees, as far as these fit  *)
(* an int32 and the reading met no update and came after a first answer.   *)
(***************************************************************************)
THEOREM CleanReadingsArePlanned == Spec => []PlannedWhenClean
  <1>1. FeedbackInv => PlannedWhenClean
    <2> SUFFICES ASSUME FeedbackInv, target # <<>> PROVE PlannedWhenClean
      BY DEF PlannedWhenClean
    <2>1. N <= Joints /\ Len(joint_pos) = N /\ joint_pos \in Seq(Word)
          /\ \A d \in Drives : target[d] = Degrees(joint_pos[d])
      BY DEF FeedbackInv, TargetInv, TypeOK
    <2>2. ASSUME NEW d \in Drives \ dirty
          PROVE  /\ joint_pos[d] \in seen[d]
                 /\ Factor * Signed(joint_pos[d]) \in -Half .. Half - 1
                      => target[d] = Factor * Signed(joint_pos[d])
      <3>1. joint_pos[d] \in seen[d]
        BY <2>1, <2>2 DEF FeedbackInv, ReadInv, Drives
      <3>2. ASSUME Factor * Signed(joint_pos[d]) \in -Half .. Half - 1
            PROVE  target[d] = Factor * Signed(joint_pos[d])
        BY <2>1, <2>2, <3>2, WrapFits DEF Degrees
      <3> QED
        BY <3>1, <3>2
    <2> QED
      BY <2>1, <2>2 DEF PlannedWhenClean
  <1> QED
    BY FedBack, <1>1, PTL

=============================================================================
