------------------------------ MODULE BringUp ------------------------------
(***************************************************************************)
(* How the drives of the bus are identified, mapped and configured before  *)
(* the control loop starts: ServoHW::init, Master::init, config_slaves and *)
(* Master::start.  A parameter of the drive is where its value comes from, *)
(* not the value.  The result of an SDO write is added up and never looked *)
(* at.  Nor is that of ec_statecheck: no step depends on the EtherCAT      *)
(* state of a drive, so the model has none.                                *)
(***************************************************************************)
EXTENDS Integers, Sequences, SequencesExt, FiniteSets

CONSTANTS
  Names,        \* device names
  NoName,       \* the empty name: a missing device_name, an ec_slave not found
  Mistyped,     \* a device_name that is no string
  Given,        \* the sets of settings that an entry of the file may give
  MaxFound,     \* bound: drives on the bus
  MaxEntries,   \* bound: entries of ethercat/slaves
  MaxLost       \* bound: SDO writes that fail

\* The settings of an entry, what slave_setup and the last loop of Master::init
\* write, and what config_slaves does.
Setting == {"position_window", "interpolation_time_period", "following_error_window",
            "position_offset", "position_factor", "quickstop_deceleration"}
Mapping == {"pdo_assignment", "sync_type"}
Mode    == {"control_word", "mode_of_operation", "interpolation_sub_mode",
            "interpolation_time_period"}
Written == (Setting \ {"position_window"}) \cup {"interpolation_sub_mode"}
Object  == Setting \cup Mapping \cup Mode

\* Where the value of an object comes from: the drive itself, Master, or an entry
\* of the file, by its index: a setting given, a period that does not fit the uint8
\* it is passed as, or the 0 that a missing setting converts to.
Factory == <<"factory", 0>>
Master  == <<"master", 0>>
Origin  == {Factory, Master} \cup {"file", "wrapped", "zero"} \X (Nat \ {0})

Entry == [name : Names \cup {NoName, Mistyped}, given : Given,
          bad : BOOLEAN,    \* a setting has the wrong type
          wide : BOOLEAN]   \* the period is above 255

ASSUME NameAssumption  == NoName \notin Names /\ Mistyped \notin Names \cup {NoName}
ASSUME GivenAssumption == Given \subseteq SUBSET Setting
ASSUME BoundAssumption == MaxFound \in Nat /\ MaxEntries \in Nat /\ MaxLost \in Nat

VARIABLES
  bus,      \* the names of the drives found, ec_slave[1 + i].name
  yaml,     \* the list ethercat/slaves
  pc,       \* where main is
  slaves,   \* the names Master is given
  i,        \* index of the loop main is in
  od,       \* the object dictionary of each drive
  lost,     \* SDO writes that have failed
  failed    \* history: the objects of each drive a write to which failed

vars == <<bus, yaml, pc, slaves, i, od, lost, failed>>

Found == DOMAIN bus

-----------------------------------------------------------------------------
Init ==
  /\ bus \in SeqOf(Names, MaxFound) /\ yaml \in SeqOf(Entry, MaxEntries)
  /\ pc = "names" /\ slaves = <<>> /\ i = 1
  /\ od = [k \in Found |-> [o \in Object |-> Factory]]
  /\ lost = 0 /\ failed = [k \in Found |-> {}]

\* Mutant: what could not be read is kept.
ReadNameKeeps ==
  /\ pc = "names" /\ i \in DOMAIN yaml
  /\ slaves' = Append(slaves, yaml[i].name)
  /\ i' = i + 1
  /\ UNCHANGED <<bus, yaml, pc, od, lost, failed>>

\* An entry of the loop over device_name: one whose name has the wrong type is
\* logged and skipped.
ReadName ==
  /\ pc = "names" /\ i \in DOMAIN yaml
  /\ slaves' = IF yaml[i].name = Mistyped THEN slaves ELSE Append(slaves, yaml[i].name)
  /\ i' = i + 1
  /\ UNCHANGED <<bus, yaml, pc, od, lost, failed>>

NamesDone ==
  /\ pc = "names" /\ i \notin DOMAIN yaml
  /\ pc' = "find" /\ i' = 1
  /\ UNCHANGED <<bus, yaml, slaves, od, lost, failed>>

\* ec_init and ec_config_init; the state check after it is ignored.
Find ==
  /\ pc = "find"
  /\ \/ bus # <<>> /\ pc' = "check"
     \/ pc' = "failed"
  /\ UNCHANGED <<bus, yaml, slaves, i, od, lost, failed>>

NameAt(k) == IF k \in Found THEN bus[k] ELSE NoName

\* Mutant: the comparison of the comment above it, of a name with itself.
network_configuration_itself == \A k \in DOMAIN slaves : NameAt(k) = NameAt(k)

network_configuration == \A k \in DOMAIN slaves : NameAt(k) = slaves[k]

\* "Mismatch of network units!"
Check ==
  /\ pc = "check"
  /\ pc' = IF network_configuration THEN "map" ELSE "failed"
  /\ UNCHANGED <<bus, yaml, slaves, i, od, lost, failed>>

\* SDO writes of the objects f gives an origin, to slave k; those in L fail.
Write(k, f, L) ==
  /\ lost' = lost + Cardinality(L) /\ lost' <= MaxLost
  /\ IF k \in Found
       THEN /\ od' = [od EXCEPT ![k] = [o \in Object |->
                        IF o \in DOMAIN f \ L THEN f[o] ELSE @[o]]]
            /\ failed' = [failed EXCEPT ![k] = @ \cup L]
       ELSE UNCHANGED <<od, failed>>

\* ec_config_map calls slave_setup for each slave on its way to SAFE_OP.
slave_setup == [o \in Mapping |-> Master]

Map ==
  /\ pc = "map" /\ i \in Found
  /\ \E L \in SUBSET DOMAIN slave_setup : Write(i, slave_setup, L)
  /\ i' = i + 1
  /\ UNCHANGED <<bus, yaml, pc, slaves>>

\* The IO map is checked, the second state check is not.
MapDone ==
  /\ pc = "map" /\ i \notin Found
  /\ pc' \in {"modes", "failed"} /\ i' = 1
  /\ UNCHANGED <<bus, yaml, slaves, od, lost, failed>>

\* The last loop of Master::init, for every drive found.
mode_settings == [o \in Mode |-> Master]

Modes ==
  /\ pc = "modes" /\ i \in Found
  /\ \E L \in SUBSET DOMAIN mode_settings : Write(i, mode_settings, L)
  /\ i' = i + 1
  /\ UNCHANGED <<bus, yaml, pc, slaves>>

ModesDone ==
  /\ pc = "modes" /\ i \notin Found
  /\ pc' = "config" /\ i' = 1
  /\ UNCHANGED <<bus, yaml, slaves, od, lost, failed>>

\* What entry k writes; the sub mode is not that of the file.
Setup(k) ==
  LET e == yaml[k]
  IN  [o \in Written |-> IF o = "interpolation_sub_mode" THEN Master
                         ELSE IF o \notin e.given THEN <<"zero", k>>
                         ELSE IF o = "interpolation_time_period" /\ e.wide THEN <<"wrapped", k>>
                         ELSE <<"file", k>>]

\* Mutant: the slave of an entry is counted from 0.
ConfigFromZero ==
  /\ pc = "config" /\ i \in DOMAIN yaml /\ ~yaml[i].bad
  /\ \E L \in SUBSET Written : Write(i - 1, Setup(i), L)
  /\ i' = i + 1
  /\ UNCHANGED <<bus, yaml, pc, slaves>>

\* An entry of config_slaves.
Config ==
  /\ pc = "config" /\ i \in DOMAIN yaml /\ ~yaml[i].bad
  /\ \E L \in SUBSET Written : Write(i, Setup(i), L)
  /\ i' = i + 1
  /\ UNCHANGED <<bus, yaml, pc, slaves>>

\* A setting of the wrong type: the exception ends the initialisation.
ConfigThrows ==
  /\ pc = "config" /\ i \in DOMAIN yaml /\ yaml[i].bad
  /\ pc' = "failed"
  /\ UNCHANGED <<bus, yaml, slaves, i, od, lost, failed>>

\* The rest of ServoHW::init reads two parameters, or fails.
ConfigDone ==
  /\ pc = "config" /\ i \notin DOMAIN yaml
  /\ pc' \in {"start", "failed"} /\ i' = 1
  /\ UNCHANGED <<bus, yaml, slaves, od, lost, failed>>

\* Master::start asks every slave for OPERATIONAL and returns true.
Start ==
  /\ pc = "start" /\ pc' = "started"
  /\ UNCHANGED <<bus, yaml, slaves, i, od, lost, failed>>

Next ==
  \/ ReadName \/ NamesDone \/ Find \/ Check \/ Map \/ MapDone \/ Modes \/ ModesDone
  \/ Config \/ ConfigThrows \/ ConfigDone \/ Start

Spec == Init /\ [][Next]_vars

-----------------------------------------------------------------------------
TypeOK ==
  /\ bus \in SeqOf(Names, MaxFound) /\ yaml \in SeqOf(Entry, MaxEntries)
  /\ slaves \in Seq(Names \cup {NoName})
  /\ pc \in {"names", "find", "check", "map", "modes", "config", "start", "started",
             "failed"}
  /\ i \in Nat \ {0} /\ lost \in 0 .. MaxLost
  /\ od \in [Found -> [Object -> Origin]] /\ failed \in [Found -> SUBSET Object]

(***************************************************************************)
(* As long as every device_name of the file can be read, no drive is       *)
(* written to unless every listed drive has been found at its position: a  *)
(* bus with a drive missing or two exchanged is left as it is.             *)
(***************************************************************************)
WrittenOnlyIfMatched ==
  /\ \A k \in DOMAIN yaml : yaml[k].name # Mistyped
  /\ \E k \in Found : \E o \in Object : od[k][o] # Factory
  => \A k \in DOMAIN yaml : NameAt(k) = yaml[k].name

(***************************************************************************)
(* When the master is started, every drive found, but for the writes to it *)
(* that failed, has the mapping and the mode of Master::init, listed or    *)
(* not; a setting that its own entry gives, the interpolation period too,  *)
(* which Master::init had written before; and nothing of the entry of      *)
(* another drive.  It is not promised what becomes of a setting that the   *)
(* entry does not give or of a period above 255, and two settings of the   *)
(* file never arrive: the position window is read and not written, and the *)
(* interpolation sub mode is always Master's.                              *)
(***************************************************************************)
StartedAsConfigured ==
  pc \in {"start", "started"} =>
    /\ \A k \in DOMAIN yaml : ~yaml[k].bad
    /\ \A k \in Found : \A o \in Object \ failed[k] :
         /\ o \in (Mapping \cup Mode) \ Setting => od[k][o] = Master
         /\ k \notin DOMAIN yaml /\ o \in Mode => od[k][o] = Master
         /\ /\ k \in DOMAIN yaml /\ o \in yaml[k].given \ {"position_window"}
            /\ o = "interpolation_time_period" => ~yaml[k].wide
            => od[k][o] = <<"file", k>>
         /\ od[k][o] \in {Factory, Master} \cup {"file", "wrapped", "zero"} \X {k}

=============================================================================
