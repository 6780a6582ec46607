------------------------ MODULE StatusReportProofs -------------------------
(***************************************************************************)
(* Proofs about StatusReport for any number of drives and any codes.       *)
(***************************************************************************)
EXTENDS StatusReport, TLAPS

-----------------------------------------------------------------------------
(* The inductive invariant.                                                *)

Flagged == flags.fault \/ flags.warning

\* Where the two loops are.
IndexInv ==
  /\ pc = "codes" => slave <= N /\ inner <= N
  /\ pc = "message" => slave <= N
  /\ pc = "publish" /\ Flagged => slave > N

\* What a read has filled is a code of a drive.
CodeInv ==
  /\ pc # "sleep" => \A d \in Drives : code[d] \in held[d]
  /\ pc \in {"codes", "message"} /\ filled => \E d \in Drives : error_code \in held[d]
  /\ pc \in {"drives", "publish"} /\ slave > 1 /\ filled =>
       \E d \in Drives : msg.error_code \in held[d]

StatusInv == TypeOK /\ IndexInv /\ CodeInv

-----------------------------------------------------------------------------
LEMMA InitStatus == Init => StatusInv
  <1> SUFFICES ASSUME Init PROVE StatusInv
    OBVIOUS
  <1>1. msg \in Report
    BY DEF Init, Empty, Report, Code
  <1>2. filled \in BOOLEAN
    BY Zenon DEF Init
  <1>3. TypeOK
    BY <1>1, <1>2, DriveAssumption DEF Init, TypeOK, Code
  <1>4. IndexInv /\ CodeInv
    BY <1>3, DriveAssumption DEF Init, IndexInv, CodeInv, TypeOK
  <1> QED
    BY <1>3, <1>4 DEF StatusInv

LEMMA BeginStatus == StatusInv /\ Begin => StatusInv'
  <1> SUFFICES ASSUME StatusInv, Begin PROVE StatusInv'
    OBVIOUS
  <1>1. /\ msg' = [Empty EXCEPT !.in_error = flags.fault] /\ slave' = 1
        /\ pc' = (IF Flagged THEN "drives" ELSE "publish")
        /\ held' = [d \in Drives |-> {code[d]}]
        /\ UNCHANGED <<code, flags, inner, error_code, filled>>
    BY DEF Begin, Flagged
  <1>2. TypeOK
    BY DEF StatusInv
  <1>3. flags.fault \in BOOLEAN
    BY <1>2 DEF TypeOK
  <1>4. msg' \in Report
    BY <1>1, <1>3, Zenon DEF Empty, Report, Code
  <1>5. TypeOK'
    BY <1>1, <1>2, <1>4, DriveAssumption DEF TypeOK
  <1>6. IndexInv' /\ CodeInv'
    BY <1>1, <1>2, DriveAssumption DEF IndexInv, CodeInv, Flagged, TypeOK
  <1> QED
    BY <1>5, <1>6 DEF StatusInv

LEMMA DeclareStatus == StatusInv /\ Declare => StatusInv'
  <1> SUFFICES ASSUME StatusInv, Declare PROVE StatusInv'
    OBVIOUS
  <1>1. /\ pc = "drives" /\ slave <= N /\ error_code' \in Garbage /\ filled' = FALSE
        /\ inner' = 1 /\ pc' = "codes" /\ UNCHANGED <<code, flags, slave, msg, held>>
    BY DEF Declare
  <1>2. TypeOK'
    <2>1. filled' \in BOOLEAN
      BY <1>1, Zenon
    <2> QED
      BY <1>1, <2>1, DriveAssumption DEF StatusInv, TypeOK, Code
  <1>3. IndexInv' /\ CodeInv'
    BY <1>1, DriveAssumption DEF StatusInv, IndexInv, CodeInv
  <1> QED
    BY <1>2, <1>3 DEF StatusInv

LEMMA ReadCodeStatus == StatusInv /\ ReadCode => StatusInv'
  <1> SUFFICES ASSUME StatusInv, ReadCode PROVE StatusInv'
    OBVIOUS
  <1>1. /\ pc = "codes" /\ inner <= N /\ inner' = inner + 1
        /\ pc' = (IF inner = N THEN "message" ELSE "codes")
        /\ UNCHANGED <<code, flags, slave, msg, held>>
    BY DEF ReadCode
  <1>2. \/ error_code' = code[inner] /\ filled' = TRUE
        \/ UNCHANGED <<error_code, filled>>
    BY DEF ReadCode
  <1>3. TypeOK /\ IndexInv /\ CodeInv /\ inner \in Drives
    BY <1>1, DriveAssumption DEF StatusInv, TypeOK, Drives
  <1>4. filled' \in BOOLEAN
    BY <1>2, <1>3, Zenon DEF TypeOK
  <1>5. error_code' \in Code
    BY <1>2, <1>3 DEF TypeOK, Code
  <1>6. TypeOK'
    BY <1>1, <1>3, <1>4, <1>5, DriveAssumption DEF TypeOK
  <1>7. IndexInv'
    BY <1>1, <1>3, DriveAssumption DEF IndexInv, TypeOK
  <1>8. filled' => \E d \in Drives : error_code' \in held'[d]
    <2>1. CASE error_code' = code[inner]
      BY <1>1, <1>3, <2>1 DEF CodeInv
    <2>2. CASE UNCHANGED <<error_code, filled>>
      BY <1>1, <1>3, <2>2 DEF CodeInv
    <2> QED
      BY <1>2, <2>1, <2>2
  <1>9. CodeInv'
    BY <1>1, <1>3, <1>8 DEF CodeInv
  <1> QED
    BY <1>6, <1>7, <1>9 DEF StatusInv

LEMMA MessageStatus == StatusInv /\ Message => StatusInv'
  <1> SUFFICES ASSUME StatusInv, Message PROVE StatusInv'
    OBVIOUS
  <1>1. /\ pc = "message" /\ slave' = slave + 1 /\ pc' = "drives"
        /\ UNCHANGED <<code, flags, inner, error_code, filled, held>>
    BY DEF Message
  <1>2. TypeOK /\ IndexInv /\ CodeInv /\ error_code \in Code
    BY DEF StatusInv, TypeOK
  <1>3. msg'.error_code = error_code /\ msg' \in Report
    BY <1>2 DEF TypeOK, Report, Message
  <1>4. TypeOK'
    BY <1>1, <1>2, <1>3, DriveAssumption DEF TypeOK, IndexInv
  <1>5. IndexInv'
    BY <1>1 DEF IndexInv
  <1>6. CodeInv'
    BY <1>1, <1>2, <1>3 DEF CodeInv
  <1> QED
    BY <1>4, <1>5, <1>6 DEF StatusInv

LEMMA OthersStatus ==
  StatusInv /\ (Reported \/ Publish \/ UNCHANGED vars) => StatusInv'
  <1> SUFFICES ASSUME StatusInv, Reported \/ Publish \/ UNCHANGED vars PROVE StatusInv'
    OBVIOUS
  <1>1. UNCHANGED <<code, flags, slave, inner, error_code, msg, filled, held>>
    BY DEF Reported, Publish, vars
  <1>2. \/ pc = "drives" /\ pc' = "publish" /\ slave > N
        \/ pc = "publish" /\ pc' = "sleep"
        \/ pc' = pc
    BY DEF Reported, Publish, vars
  <1>3. TypeOK'
    BY <1>1, <1>2 DEF StatusInv, TypeOK
  <1>4. IndexInv'
    BY <1>1, <1>2 DEF StatusInv, IndexInv, Flagged
  <1>5. CodeInv'
    BY <1>1, <1>2 DEF StatusInv, CodeInv
  <1> QED
    BY <1>3, <1>4, <1>5 DEF StatusInv

LEMMA DriveStatus ==
  ASSUME NEW d \in Drives, StatusInv, Drive(d) PROVE StatusInv'
  <1>1. PICK c \in Codes \cup {NoError} :
          /\ code' = [code EXCEPT ![d] = c]
          /\ held' = [held EXCEPT ![d] = @ \cup {c}]
    BY DEF Drive
  <1>2. UNCHANGED <<flags, pc, slave, inner, error_code, msg, filled>>
    BY DEF Drive
  <1>3. TypeOK /\ IndexInv /\ CodeInv
    BY DEF StatusInv
  <1>4. TypeOK'
    BY <1>1, <1>2, <1>3 DEF TypeOK
  <1>5. IndexInv'
    BY <1>2, <1>3 DEF IndexInv, Flagged
  <1>6. \A e \in Drives : held[e] \subseteq held'[e]
        /\ (code[e] \in held[e] => code'[e] \in held'[e])
    BY <1>1, <1>3 DEF TypeOK
  <1>7. CodeInv'
    <2>1. pc # "sleep" => \A e \in Drives : code'[e] \in held'[e]
      BY <1>3, <1>6 DEF CodeInv
    <2> QED
      BY <1>2, <1>3, <1>6, <2>1 DEF CodeInv
  <1> QED
    BY <1>4, <1>5, <1>7 DEF StatusInv

LEMMA Status == Spec => []StatusInv
  <1>1. StatusInv /\ [Next]_vars => StatusInv'
    BY BeginStatus, DeclareStatus, ReadCodeStatus, MessageStatus, OthersStatus, DriveStatus
       DEF Next, Main
  <1> QED
    BY InitStatus, <1>1, PTL DEF Spec

-----------------------------------------------------------------------------
(***************************************************************************)
(* The types.                                                              *)
(***************************************************************************)
THEOREM ReportsTyped == Spec => []TypeOK
  <1>1. StatusInv => TypeOK
    BY DEF StatusInv
  <1> QED
    BY Status, <1>1, PTL

(***************************************************************************)
(* The code of a report was that of a drive, unless all the last reads     *)
(* failed.                                                                 *)
(***************************************************************************)
THEOREM CodeIsOfADrive == Spec => []CodeWasHeld
  <1>1. StatusInv => CodeWasHeld
    BY DriveAssumption
       DEF StatusInv, TypeOK, IndexInv, CodeInv, CodeWasHeld, Flagged
  <1> QED
    BY Status, <1>1, PTL

=============================================================================
