---------------------------- MODULE StatusReport ---------------------------
(***************************************************************************)
(* The report that manage_control publishes: generate_slave_status_msg     *)
(* copies flags that nothing has written, reads the error codes of the     *)
(* drives by SDO and looks their text up, while the drives fail and        *)
(* recover.  A failed read leaves the variable it was to fill.             *)
(***************************************************************************)
EXTENDS Integers

CONSTANTS
  N,          \* ec_slavecount
  Codes,      \* error codes of a drive in fault
  NoError,    \* 0, the code of a drive that is in none
  Known,      \* the keys of error_codes, NoError among them
  Garbage,    \* what the uninitialised error_code may hold
  NoText,     \* "", the message of a report without a code
  NotFound    \* "Deleta Servo Error Message Not Found!"

Drives == 1 .. N
Code   == Codes \cup {NoError} \cup Garbage

ASSUME DriveAssumption == N \in Nat \ {0}
ASSUME CodeAssumption  == NoError \notin Codes /\ NotFound \notin Code /\ NoError \in Known

VARIABLES
  code,         \* the error code register of each drive
  flags,        \* servo_hw.status, of it fault and warning
  pc,           \* of main: the sleep, the loop over the drives, that of
                \* get_error_code, the message, the publication
  slave,        \* index of the first loop
  inner,        \* of the second
  error_code,   \* the local variable, filled by reference
  msg,          \* the message being made, or published last
  filled,       \* history: a read has succeeded since error_code was declared
  held          \* history: the codes each drive has had since the report began

vars == <<code, flags, pc, slave, inner, error_code, msg, filled, held>>

Empty == [in_error |-> FALSE, error_code |-> NoError, error_message |-> NoText]

Init ==
  /\ code = [d \in Drives |-> NoError]
  /\ flags \in [fault : BOOLEAN, warning : BOOLEAN]    \* uninitialised
  /\ pc = "sleep" /\ slave = 1 /\ inner = 1 /\ error_code \in Garbage
  /\ msg = Empty /\ filled = FALSE
  /\ held = [d \in Drives |-> {}]

\* The sleep of ros::Rate ends; flags that are false end the report.
Begin ==
  /\ pc = "sleep"
  /\ msg' = [Empty EXCEPT !.in_error = flags.fault]
  /\ pc' = IF flags.fault \/ flags.warning THEN "drives" ELSE "publish"
  /\ slave' = 1
  /\ held' = [d \in Drives |-> {code[d]}]
  /\ UNCHANGED <<code, flags, inner, error_code, filled>>

\* Mutant: the loop runs to slave_count() inclusive.
DeclareTooFar ==
  /\ pc = "drives" /\ slave <= N + 1
  /\ error_code' \in Garbage /\ filled' = FALSE
  /\ inner' = 1 /\ pc' = "codes"
  /\ UNCHANGED <<code, flags, slave, msg, held>>

\* `uint16 error_code;' and the call of get_error_code ...
Declare ==
  /\ pc = "drives" /\ slave <= N
  /\ error_code' \in Garbage /\ filled' = FALSE
  /\ inner' = 1 /\ pc' = "codes"
  /\ UNCHANGED <<code, flags, slave, msg, held>>

\* Mutant: get_error_code takes error_code by value.
ReadCodeByValue ==
  /\ pc = "codes" /\ inner <= N
  /\ filled' \in {TRUE, filled}
  /\ inner' = inner + 1
  /\ pc' = IF inner = N THEN "message" ELSE "codes"
  /\ UNCHANGED <<code, flags, slave, error_code, msg, held>>

\* ... which reads those of all drives into it, whichever it was called for.
ReadCode ==
  /\ pc = "codes" /\ inner <= N
  /\ \/ error_code' = code[inner] /\ filled' = TRUE
     \/ UNCHANGED <<error_code, filled>>
  /\ inner' = inner + 1
  /\ pc' = IF inner = N THEN "message" ELSE "codes"
  /\ UNCHANGED <<code, flags, slave, msg, held>>

\* The code is stored and its text looked up; a text is named by its code.
Message ==
  /\ pc = "message"
  /\ msg' = [msg EXCEPT !.error_code = error_code,
                        !.error_message = IF error_code \in Known THEN error_code
                                          ELSE NotFound]
  /\ slave' = slave + 1 /\ pc' = "drives"
  /\ UNCHANGED <<code, flags, inner, error_code, filled, held>>

Reported ==
  /\ pc = "drives" /\ slave > N
  /\ pc' = "publish"
  /\ UNCHANGED <<code, flags, slave, inner, error_code, msg, filled, held>>

Publish ==
  /\ pc = "publish"
  /\ pc' = "sleep"
  /\ UNCHANGED <<code, flags, slave, inner, error_code, msg, filled, held>>

\* A drive fails, fails in another way, or is reset.
Drive(d) ==
  /\ \E c \in (Codes \cup {NoError}) \ {code[d]} :
       /\ code' = [code EXCEPT ![d] = c]
       /\ held' = [held EXCEPT ![d] = @ \cup {c}]
  /\ UNCHANGED <<flags, pc, slave, inner, error_code, msg, filled>>

Main == Begin \/ Declare \/ ReadCode \/ Message \/ Reported \/ Publish
Next == Main \/ \E d \in Drives : Drive(d)
Spec == Init /\ [][Next]_vars

-----------------------------------------------------------------------------
Report == [in_error : BOOLEAN, error_code : Code, error_message : Known \cup {NoText, NotFound}]

TypeOK ==
  /\ code \in [Drives -> Codes \cup {NoError}]
  /\ flags \in [fault : BOOLEAN, warning : BOOLEAN]
  /\ pc \in {"sleep", "drives", "codes", "message", "publish"}
  /\ slave \in 1 .. N + 1 /\ inner \in 1 .. N + 1
  /\ error_code \in Code /\ msg \in Report
  /\ filled \in BOOLEAN /\ held \in [Drives -> SUBSET (Codes \cup {NoError})]

(***************************************************************************)
(* The code of a report is one that a drive has had while the report was   *)
(* made, unless every read for the last drive failed.                      *)
(***************************************************************************)
CodeWasHeld ==
  /\ pc = "publish" /\ (flags.fault \/ flags.warning) /\ filled
  => \E d \in Drives : msg.error_code \in held[d]

(***************************************************************************)
(* "error_code # code of delta error in decimal" (msg/SlaveStatus.msg, 6): *)
(* while a drive is in fault a report that says so has an error's code.    *)
(***************************************************************************)
FaultIsReported ==
  /\ pc = "publish" /\ msg.in_error /\ (\E d \in Drives : held[d] \subseteq Codes)
  => msg.error_code \in Codes

=============================================================================
