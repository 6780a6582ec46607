--------------------------- MODULE BringUpProofs ---------------------------
(***************************************************************************)
(* Proofs about BringUp for any bus, any list of entries and any number of *)
(* SDO writes that fail.                                                   *)
(***************************************************************************)
EXTENDS BringUp, FiniteSetTheorems, TLAPS

-----------------------------------------------------------------------------
(* The inductive invariant.                                                *)

Readable == \A k \in DOMAIN yaml : yaml[k].name # Mistyped

\* The names read so far are those of the entries, one for one.
NamesInv ==
  Readable =>
    /\ pc = "names" => Len(slaves) = i - 1 /\ i - 1 <= Len(yaml)
    /\ pc # "names" => Len(slaves) = Len(yaml)
    /\ \A k \in DOMAIN slaves : slaves[k] = yaml[k].name

\* Nothing is written before the names have been compared.
MatchInv ==
  /\ pc \in {"map", "modes", "config", "start", "started"} /\ Readable
       => \A k \in DOMAIN yaml : NameAt(k) = yaml[k].name
  /\ pc \in {"names", "find", "check"}
       => \A k \in Found : \A o \in Object : od[k][o] = Factory

\* What each loop of the start-up leaves in a drive.
Mapped(o) == IF o \in Mapping THEN Master ELSE Factory
Moded(o)  == IF o \in Mapping \cup Mode THEN Master ELSE Factory

\* What the last loop leaves: the settings of the entry of drive k on top of those.
Meant(k, o) == IF o \in Written /\ k \in DOMAIN yaml THEN Setup(k)[o] ELSE Moded(o)

\* What object o of drive k holds while the loops are under way.
Due(k, o) ==
  IF pc \in {"names", "find", "check"} THEN Factory
  ELSE IF pc = "map" THEN IF k < i THEN Mapped(o) ELSE Factory
  ELSE IF pc = "modes" THEN IF k < i THEN Moded(o) ELSE Mapped(o)
  ELSE IF pc = "config" THEN IF k < i THEN Meant(k, o) ELSE Moded(o)
  ELSE Meant(k, o)

\* The loops have done their work as far as the index has come.
LoopInv ==
  /\ pc # "failed" =>
       \A k \in Found : \A o \in Object : od[k][o] = Due(k, o) \/ o \in failed[k]
  /\ pc \in {"find", "check"} => i = 1
  /\ pc = "config" => \A k \in DOMAIN yaml : k < i => ~yaml[k].bad
  /\ pc \in {"start", "started"} => \A k \in DOMAIN yaml : ~yaml[k].bad

-----------------------------------------------------------------------------
(* The sequences and the writes.                                           *)

\* A bounded sequence is a sequence.
LEMMA ShortIsSeq ==
  ASSUME NEW S, NEW n \in Nat, NEW s \in SeqOf(S, n)
  PROVE  s \in Seq(S) /\ Len(s) \in Nat /\ DOMAIN s = 1 .. Len(s)
  <1>1. PICK m \in 0 .. n : s \in [1 .. m -> S]
    BY Zenon DEF SeqOf
  <1>2. s \in Seq(S)
    BY <1>1
  <1> QED
    BY <1>2

\* There are finitely many objects.
LEMMA FiniteObject == IsFiniteSet(Object)
  <1> DEFINE A == {} \cup {"position_window"} \cup {"interpolation_time_period"}
             B == A \cup {"following_error_window"} \cup {"position_offset"}
             C == B \cup {"position_factor"} \cup {"quickstop_deceleration"}
             D == C \cup {"mode_of_operation"} \cup {"pdo_assignment"}
             E == D \cup {"control_word"} \cup {"interpolation_sub_mode"} \cup {"sync_type"}
  <1>1. IsFiniteSet(A)
    BY FS_EmptySet, FS_AddElement, Zenon
  <1>2. IsFiniteSet(B)
    BY <1>1, FS_AddElement, Zenon
  <1>3. IsFiniteSet(C)
    BY <1>2, FS_AddElement, Zenon
  <1>4. IsFiniteSet(D)
    BY <1>3, FS_AddElement, Zenon
  <1>5. IsFiniteSet(E)
    BY <1>4, FS_AddElement, Zenon
  <1>6. Object = E
    BY SMT DEF Object, Setting, Mapping, Mode
  <1> QED
    BY <1>5, <1>6, Zenon

LEMMA Domains ==
  ASSUME TypeOK
  PROVE  /\ Len(bus) \in Nat /\ Found = 1 .. Len(bus)
         /\ Len(yaml) \in Nat /\ DOMAIN yaml = 1 .. Len(yaml)
         /\ Len(slaves) \in Nat /\ DOMAIN slaves = 1 .. Len(slaves)
  <1>1. bus \in SeqOf(Names, MaxFound) /\ yaml \in SeqOf(Entry, MaxEntries)
        /\ slaves \in Seq(Names \cup {NoName})
    BY DEF TypeOK
  <1>2. Len(bus) \in Nat /\ DOMAIN bus = 1 .. Len(bus)
    BY <1>1, ShortIsSeq, BoundAssumption
  <1>3. Len(yaml) \in Nat /\ DOMAIN yaml = 1 .. Len(yaml)
    BY <1>1, ShortIsSeq, BoundAssumption
  <1> QED
    BY <1>1, <1>2, <1>3 DEF Found

LEMMA EntryTyped ==
  ASSUME TypeOK, NEW k \in DOMAIN yaml
  PROVE  yaml[k] \in Entry
  <1>1. yaml \in Seq(Entry) /\ DOMAIN yaml = 1 .. Len(yaml)
    BY ShortIsSeq, BoundAssumption DEF TypeOK
  <1> QED
    BY <1>1

\* What a write does, object by object, and that it keeps the types.
LEMMA Writes ==
  ASSUME TypeOK, NEW n \in Nat, NEW f, NEW L \in SUBSET DOMAIN f, Write(n, f, L),
         DOMAIN f \subseteq Object, \A o \in DOMAIN f : f[o] \in Origin,
         UNCHANGED bus
  PROVE  /\ lost' \in 0 .. MaxLost
         /\ od' \in [Found -> [Object -> Origin]] /\ failed' \in [Found -> SUBSET Object]
         /\ \A k \in Found : k # n => od'[k] = od[k] /\ failed'[k] = failed[k]
         /\ n \in Found => failed'[n] = failed[n] \cup L
         /\ n \in Found =>
              \A o \in Object :
                od'[n][o] = IF o \in DOMAIN f \ L THEN f[o] ELSE od[n][o]
  <1>1. /\ lost \in 0 .. MaxLost
        /\ od \in [Found -> [Object -> Origin]] /\ failed \in [Found -> SUBSET Object]
    BY DEF TypeOK
  <1>2. lost' \in 0 .. MaxLost
    <2>1. DOMAIN f \subseteq Object /\ L \subseteq Object
      OBVIOUS
    <2>2. IsFiniteSet(L)
      BY <2>1, FiniteObject, FS_Subset
    <2>3. Cardinality(L) \in Nat
      BY <2>2, FS_CardinalityType
    <2> QED
      BY <1>1, <2>3, BoundAssumption DEF Write
  <1>3. CASE n \notin Found
    BY <1>1, <1>2, <1>3 DEF Write
  <1>4. CASE n \in Found
    <2> DEFINE w == [o \in Object |-> IF o \in DOMAIN f \ L THEN f[o] ELSE od[n][o]]
    <2>1. od' = [od EXCEPT ![n] = w]
      BY <1>4 DEF Write
    <2>2. failed' = [failed EXCEPT ![n] = @ \cup L]
      BY <1>4 DEF Write
    <2>3. w \in [Object -> Origin]
      BY <1>1, <1>4
    <2>4. L \subseteq Object
      OBVIOUS
    <2>5. \A o \in Object : w[o] = IF o \in DOMAIN f \ L THEN f[o] ELSE od[n][o]
      OBVIOUS
    <2> HIDE DEF w
    <2>6. od' \in [Found -> [Object -> Origin]] /\ od'[n] = w
      BY <1>1, <1>4, <2>1, <2>3
    <2>7. failed' \in [Found -> SUBSET Object] /\ failed'[n] = failed[n] \cup L
      BY <1>1, <1>4, <2>2, <2>4
    <2>8. \A k \in Found : k # n => od'[k] = od[k] /\ failed'[k] = failed[k]
      BY <1>1, <2>1, <2>2
    <2> QED
      BY <1>2, <2>5, <2>6, <2>7, <2>8
  <1> QED
    BY <1>3, <1>4

\* The settings of an entry all have an origin, and are those it is written with.
LEMMA Settings ==
  ASSUME NEW k \in Nat \ {0}
  PROVE  /\ DOMAIN Setup(k) = Written /\ Written \subseteq Object
         /\ \A o \in Written : Setup(k)[o] \in Origin
  <1>1. DOMAIN Setup(k) = Written
    BY DEF Setup
  <1>2. Written \subseteq Object
    BY DEF Written, Object, Setting, Mapping, Mode
  <1>3. Master \in Origin /\ \A v \in {"file", "wrapped", "zero"} : <<v, k>> \in Origin
    BY DEF Origin
  <1>4. \A o \in Written : Setup(k)[o] \in {Master, <<"file", k>>, <<"wrapped", k>>, <<"zero", k>>}
    BY DEF Setup
  <1> QED
    BY <1>1, <1>2, <1>3, <1>4

-----------------------------------------------------------------------------
(* The types.                                                              *)

LEMMA InitTyped == Init => TypeOK
  <1> SUFFICES ASSUME Init PROVE TypeOK
    OBVIOUS
  <1>1. od \in [Found -> [Object -> Origin]] /\ failed \in [Found -> SUBSET Object]
    BY DEF Init, Origin
  <1> QED
    BY <1>1, BoundAssumption DEF Init, TypeOK

\* The steps that write nothing.
LEMMA QuietTyped ==
  TypeOK /\ (\/ ReadName \/ NamesDone \/ Find \/ Check \/ MapDone \/ ModesDone
             \/ ConfigThrows \/ ConfigDone \/ Start \/ UNCHANGED vars)
    => TypeOK'
  <1> SUFFICES ASSUME TypeOK,
                      \/ ReadName \/ NamesDone \/ Find \/ Check \/ MapDone \/ ModesDone
                      \/ ConfigThrows \/ ConfigDone \/ Start \/ UNCHANGED vars
               PROVE  TypeOK'
    OBVIOUS
  <1> USE DEF TypeOK, Found
  <1>1. CASE ReadName
    <2>1. yaml[i] \in Entry
      BY <1>1, EntryTyped DEF ReadName
    <2>2. yaml[i].name # Mistyped => yaml[i].name \in Names \cup {NoName}
      BY <2>1 DEF Entry
    <2>3. slaves' \in Seq(Names \cup {NoName})
      BY <1>1, <2>2 DEF ReadName
    <2> QED
      BY <1>1, <2>3 DEF ReadName
  <1>2. CASE NamesDone
    BY <1>2 DEF NamesDone
  <1>3. CASE Find
    BY <1>3 DEF Find
  <1>4. CASE Check
    BY <1>4 DEF Check
  <1>5. CASE MapDone
    BY <1>5 DEF MapDone
  <1>6. CASE ModesDone
    BY <1>6 DEF ModesDone
  <1>7. CASE ConfigThrows
    BY <1>7 DEF ConfigThrows
  <1>8. CASE ConfigDone
    BY <1>8 DEF ConfigDone
  <1>9. CASE Start
    BY <1>9 DEF Start
  <1>10. CASE UNCHANGED vars
    BY <1>10 DEF vars
  <1> QED
    BY <1>1, <1>2, <1>3, <1>4, <1>5, <1>6, <1>7, <1>8, <1>9, <1>10

\* What a turn of one of the writing loops does to the drives.
Turn(f, L) ==
  /\ lost' \in 0 .. MaxLost
  /\ od' \in [Found -> [Object -> Origin]] /\ failed' \in [Found -> SUBSET Object]
  /\ \A k \in Found : k # i => od'[k] = od[k] /\ failed'[k] = failed[k]
  /\ i \in Found => failed'[i] = failed[i] \cup L
  /\ i \in Found =>
       \A o \in Object : od'[i][o] = IF o \in DOMAIN f \ L THEN f[o] ELSE od[i][o]
  /\ i \in Nat \ {0} /\ i' = i + 1
  /\ UNCHANGED <<bus, yaml, pc, slaves>>

LEMMA MapTurn ==
  ASSUME TypeOK, Map
  PROVE  pc = "map" /\ i \in Found /\ \E L : Turn(slave_setup, L)
  <1>1. /\ pc = "map" /\ i \in Found /\ i \in Nat \ {0} /\ i' = i + 1
        /\ UNCHANGED <<bus, yaml, pc, slaves>>
    BY DEF Map, TypeOK
  <1>2. PICK L \in SUBSET DOMAIN slave_setup : Write(i, slave_setup, L)
    BY DEF Map
  <1>3. DOMAIN slave_setup \subseteq Object
        /\ \A o \in DOMAIN slave_setup : slave_setup[o] \in Origin
    BY DEF slave_setup, Object, Mapping, Origin
  <1>4. Turn(slave_setup, L)
    BY <1>1, <1>2, <1>3, Writes DEF Turn
  <1> QED
    BY <1>1, <1>4

LEMMA ModesTurn ==
  ASSUME TypeOK, Modes
  PROVE  pc = "modes" /\ i \in Found /\ \E L : Turn(mode_settings, L)
  <1>1. /\ pc = "modes" /\ i \in Found /\ i \in Nat \ {0} /\ i' = i + 1
        /\ UNCHANGED <<bus, yaml, pc, slaves>>
    BY DEF Modes, TypeOK
  <1>2. PICK L \in SUBSET DOMAIN mode_settings : Write(i, mode_settings, L)
    BY DEF Modes
  <1>3. DOMAIN mode_settings \subseteq Object
        /\ \A o \in DOMAIN mode_settings : mode_settings[o] \in Origin
    BY DEF mode_settings, Object, Mode, Origin
  <1>4. Turn(mode_settings, L)
    BY <1>1, <1>2, <1>3, Writes DEF Turn
  <1> QED
    BY <1>1, <1>4

LEMMA ConfigTurn ==
  ASSUME TypeOK, Config
  PROVE  /\ pc = "config" /\ i \in DOMAIN yaml /\ ~yaml[i].bad
         /\ \E L : Turn(Setup(i), L)
  <1>1. /\ pc = "config" /\ i \in DOMAIN yaml /\ ~yaml[i].bad
        /\ i \in Nat \ {0} /\ i' = i + 1
        /\ UNCHANGED <<bus, yaml, pc, slaves>>
    BY DEF Config, TypeOK
  <1> DEFINE f == Setup(i)
  <1>2. PICK L \in SUBSET Written : Write(i, f, L)
    BY DEF Config
  <1>3. DOMAIN f = Written /\ DOMAIN f \subseteq Object
        /\ \A o \in DOMAIN f : f[o] \in Origin
    BY <1>1, Settings
  <1> HIDE DEF f
  <1>4. Turn(f, L)
    BY <1>1, <1>2, <1>3, Writes DEF Turn
  <1> QED
    BY <1>1, <1>4 DEF f

LEMMA TurnTyped ==
  ASSUME TypeOK, NEW f, NEW L, Turn(f, L) PROVE TypeOK'
  <1>1. Found' = Found
    BY DEF Turn, Found
  <1> QED
    BY <1>1 DEF Turn, TypeOK

LEMMA NextTyped == TypeOK /\ [Next]_vars => TypeOK'
  <1>1. TypeOK /\ (Map \/ Modes \/ Config) => TypeOK'
    BY MapTurn, ModesTurn, ConfigTurn, TurnTyped, Zenon
  <1> QED
    BY <1>1, QuietTyped DEF Next

(***************************************************************************)
(* The types, of any start-up.                                             *)
(***************************************************************************)
THEOREM BringUpTyped == Spec => []TypeOK
  BY InitTyped, NextTyped, PTL DEF Spec

-----------------------------------------------------------------------------
(* The names.                                                              *)

LEMMA InitNames == Init => NamesInv
  <1> SUFFICES ASSUME Init PROVE NamesInv
    OBVIOUS
  <1>1. Len(yaml) \in Nat
    BY ShortIsSeq, BoundAssumption DEF Init
  <1> QED
    BY <1>1 DEF Init, NamesInv

LEMMA NextNames == TypeOK /\ NamesInv /\ [Next]_vars => NamesInv'
  <1> SUFFICES ASSUME TypeOK, NamesInv, [Next]_vars PROVE NamesInv'
    OBVIOUS
  <1>1. /\ Len(yaml) \in Nat /\ DOMAIN yaml = 1 .. Len(yaml) /\ i \in Nat \ {0}
        /\ slaves \in Seq(Names \cup {NoName}) /\ DOMAIN slaves = 1 .. Len(slaves)
    BY Domains DEF TypeOK
  <1>2. CASE ReadName
    <2> SUFFICES ASSUME Readable' PROVE NamesInv'
      BY DEF NamesInv
    <2>1. pc = "names" /\ pc' = "names" /\ i \in 1 .. Len(yaml) /\ i' = i + 1 /\ yaml' = yaml
      BY <1>1, <1>2 DEF ReadName
    <2>2. Readable /\ yaml[i].name # Mistyped
      BY <1>1, <2>1 DEF Readable
    <2>3. slaves' = Append(slaves, yaml[i].name) /\ Len(slaves) = i - 1
          /\ \A k \in DOMAIN slaves : slaves[k] = yaml[k].name
      BY <1>2, <2>1, <2>2 DEF ReadName, NamesInv
    <2>4. yaml[i].name \in Names \cup {NoName}
      BY <1>1, <2>1, <2>2, EntryTyped DEF Entry
    <2>5. /\ Len(slaves') = i /\ DOMAIN slaves' = 1 .. i /\ slaves'[i] = yaml[i].name
          /\ \A k \in 1 .. i - 1 : slaves'[k] = slaves[k]
      BY <1>1, <2>3, <2>4
    <2>6. \A k \in DOMAIN slaves' : slaves'[k] = yaml[k].name
      BY <1>1, <2>3, <2>5
    <2> QED
      BY <1>1, <2>1, <2>5, <2>6 DEF NamesInv
  <1>3. CASE NamesDone
    <2>1. pc = "names" /\ pc' = "find" /\ yaml' = yaml /\ slaves' = slaves
          /\ ~(i \in 1 .. Len(yaml))
      BY <1>1, <1>3 DEF NamesDone
    <2>2. (Readable' <=> Readable) /\ Len(slaves') = Len(slaves)
      BY <2>1 DEF Readable
    <2>3. i > Len(yaml) /\ i \in Int /\ Len(yaml) \in Int
      BY <1>1, <2>1
    <2>4. ASSUME Readable PROVE Len(slaves) = Len(yaml)
      <3>1. Len(slaves) = i - 1 /\ i - 1 <= Len(yaml)
        BY <2>1, <2>4 DEF NamesInv
      <3> QED
        BY <2>3, <3>1
    <2>5. Readable => Len(slaves) = Len(yaml)
      BY <2>4
    <2> QED
      BY <2>1, <2>2, <2>5 DEF NamesInv
  <1>4. CASE ~ReadName /\ ~NamesDone
    <2>1. UNCHANGED <<yaml, slaves>> /\ (pc = "names" <=> pc' = "names")
          /\ (pc = "names" => i' = i)
      <3>1. CASE Find \/ Check \/ MapDone \/ ModesDone \/ ConfigThrows \/ ConfigDone \/ Start
                 \/ UNCHANGED vars
        BY <3>1 DEF Find, Check, MapDone, ModesDone, ConfigThrows, ConfigDone, Start, vars
      <3>2. CASE Map \/ Modes \/ Config
        BY <3>2 DEF Map, Modes, Config
      <3> QED
        BY <1>4, <3>1, <3>2 DEF Next
    <2> QED
      BY <2>1 DEF NamesInv, Readable
  <1> QED
    BY <1>2, <1>3, <1>4

-----------------------------------------------------------------------------
(* The comparison.                                                         *)

LEMMA InitMatch == Init => MatchInv /\ WrittenOnlyIfMatched
  BY DEF Init, MatchInv, WrittenOnlyIfMatched

\* When the names agree, they are those of the entries.
LEMMA Compared ==
  ASSUME TypeOK, NamesInv, Readable, pc # "names", network_configuration
  PROVE  \A k \in DOMAIN yaml : NameAt(k) = yaml[k].name
  <1>1. DOMAIN yaml = DOMAIN slaves
    BY Domains DEF NamesInv
  <1> QED
    BY <1>1 DEF NamesInv, network_configuration

LEMMA NextMatch ==
  TypeOK /\ NamesInv /\ MatchInv /\ WrittenOnlyIfMatched /\ [Next]_vars
    => MatchInv' /\ WrittenOnlyIfMatched'
  <1> SUFFICES ASSUME TypeOK, NamesInv, MatchInv, WrittenOnlyIfMatched, [Next]_vars
               PROVE  MatchInv' /\ WrittenOnlyIfMatched'
    OBVIOUS
  <1>1. UNCHANGED <<bus, yaml>>
    <2>1. CASE ReadName \/ NamesDone \/ Find \/ Check \/ MapDone \/ ModesDone
      BY <2>1 DEF ReadName, NamesDone, Find, Check, MapDone, ModesDone
    <2>2. CASE ConfigThrows \/ ConfigDone \/ Start \/ UNCHANGED vars
      BY <2>2 DEF ConfigThrows, ConfigDone, Start, vars
    <2>3. CASE Map \/ Modes \/ Config
      BY <2>3 DEF Map, Modes, Config
    <2> QED
      BY <2>1, <2>2, <2>3 DEF Next
  <1>2. Found' = Found /\ (Readable' <=> Readable) /\ \A k : NameAt(k)' = NameAt(k)
    BY <1>1 DEF Found, Readable, NameAt
  <1>3. CASE Check
    <2>1. pc = "check" /\ od' = od /\ pc' \in {"map", "failed"}
          /\ (pc' = "map" => network_configuration)
      BY <1>3 DEF Check
    <2>2. pc' = "map" /\ Readable => \A k \in DOMAIN yaml : NameAt(k) = yaml[k].name
      BY <2>1, Compared
    <2> QED
      BY <1>1, <1>2, <2>1, <2>2 DEF MatchInv, WrittenOnlyIfMatched, Readable
  <1>4. CASE Map \/ Modes \/ Config
    <2>1. pc \in {"map", "modes", "config"} /\ pc' = pc
      BY <1>4 DEF Map, Modes, Config
    <2>2. Readable => \A k \in DOMAIN yaml : NameAt(k) = yaml[k].name
      BY <2>1 DEF MatchInv
    <2> QED
      BY <1>1, <1>2, <2>1, <2>2 DEF MatchInv, WrittenOnlyIfMatched, Readable
  <1>5. CASE ~Check /\ ~(Map \/ Modes \/ Config)
    <2>1. /\ od' = od
          /\ pc' \in {"map", "modes", "config", "start", "started"}
               => pc \in {"map", "modes", "config", "start", "started"}
          /\ pc' \in {"names", "find", "check"} => pc \in {"names", "find", "check"}
      <3>1. CASE ReadName \/ NamesDone \/ Find \/ MapDone \/ ModesDone
        BY <3>1 DEF ReadName, NamesDone, Find, MapDone, ModesDone
      <3>2. CASE ConfigThrows \/ ConfigDone \/ Start \/ UNCHANGED vars
        BY <3>2 DEF ConfigThrows, ConfigDone, Start, vars
      <3> QED
        BY <1>5, <3>1, <3>2 DEF Next
    <2> QED
      BY <1>1, <1>2, <2>1 DEF MatchInv, WrittenOnlyIfMatched, Readable
  <1> QED
    BY <1>3, <1>4, <1>5

-----------------------------------------------------------------------------
(* The loops.                                                              *)

LEMMA InitLoop == Init => LoopInv
  BY DEF Init, LoopInv, Due, Found

\* A turn of a loop whose drives hold Before(o) to its left and After(o) behind it.
LEMMA TurnMeets ==
  ASSUME TypeOK, NEW f, NEW L, Turn(f, L), NEW b, NEW a,
         \A o \in Object : i \in Found => (od[i][o] = b[o] \/ o \in failed[i]),
         \A o \in Object : o \in DOMAIN f => a[o] = f[o],
         \A o \in Object : o \notin DOMAIN f => a[o] = b[o]
  PROVE  i \in Found => \A o \in Object : od'[i][o] = a[o] \/ o \in failed'[i]
  <1> SUFFICES ASSUME i \in Found, NEW o \in Object
               PROVE  od'[i][o] = a[o] \/ o \in failed'[i]
    OBVIOUS
  <1>1. failed'[i] = failed[i] \cup L
        /\ od'[i][o] = IF o \in DOMAIN f \ L THEN f[o] ELSE od[i][o]
    BY DEF Turn
  <1> QED
    BY <1>1

LEMMA MapLoop == TypeOK /\ LoopInv /\ Map => LoopInv'
  <1> SUFFICES ASSUME TypeOK, LoopInv, Map PROVE LoopInv'
    OBVIOUS
  <1>1. PICK L : Turn(slave_setup, L)
    BY MapTurn
  <1>2. pc = "map" /\ pc' = "map" /\ i \in Found /\ i \in Nat \ {0} /\ i' = i + 1
        /\ Found' = Found
    BY <1>1, MapTurn DEF Turn, Found
  <1> DEFINE b == [o \in Object |-> Factory]
             a == [o \in Object |-> Mapped(o)]
  <1>3. \A o \in Object : od'[i][o] = Mapped(o) \/ o \in failed'[i]
    <2>1. \A o \in Object : b[o] = Factory /\ a[o] = Mapped(o)
      OBVIOUS
    <2>2. \A o \in Object : od[i][o] = b[o] \/ o \in failed[i]
      BY <1>2 DEF LoopInv, Due
    <2>3. \A o \in Object : /\ o \in DOMAIN slave_setup => a[o] = slave_setup[o]
                            /\ o \notin DOMAIN slave_setup => a[o] = b[o]
      BY DEF slave_setup, Mapped
    <2> HIDE DEF a, b
    <2> QED
      BY <1>1, <1>2, <2>1, <2>2, <2>3, TurnMeets
  <1>4. \A k \in Found : k # i => od'[k] = od[k] /\ failed'[k] = failed[k]
    BY <1>1 DEF Turn
  <1>5. Found = 1 .. Len(bus) /\ Len(bus) \in Nat
    BY Domains
  <1>6. ASSUME NEW k \in Found, NEW o \in Object
        PROVE  od'[k][o] = Due(k, o)' \/ o \in failed'[k]
    <2>1. k \in Nat /\ Due(k, o)' = (IF k < i + 1 THEN Mapped(o) ELSE Factory)
      BY <1>2, <1>5 DEF Due, Mapped
    <2>2. CASE k = i
      BY <1>2, <1>3, <2>1, <2>2
    <2>3. CASE k # i
      <3>1. od[k][o] = (IF k < i THEN Mapped(o) ELSE Factory) \/ o \in failed[k]
        BY <1>2 DEF LoopInv, Due
      <3> QED
        BY <1>2, <1>4, <2>1, <2>3, <3>1
    <2> QED
      BY <2>2, <2>3
  <1> QED
    BY <1>2, <1>6 DEF LoopInv

LEMMA ModesLoop == TypeOK /\ LoopInv /\ Modes => LoopInv'
  <1> SUFFICES ASSUME TypeOK, LoopInv, Modes PROVE LoopInv'
    OBVIOUS
  <1>1. PICK L : Turn(mode_settings, L)
    BY ModesTurn
  <1>2. pc = "modes" /\ pc' = "modes" /\ i \in Found /\ i \in Nat \ {0} /\ i' = i + 1
        /\ Found' = Found
    BY <1>1, ModesTurn DEF Turn, Found
  <1> DEFINE b == [o \in Object |-> Mapped(o)]
             a == [o \in Object |-> Moded(o)]
  <1>3. \A o \in Object : od'[i][o] = Moded(o) \/ o \in failed'[i]
    <2>1. \A o \in Object : b[o] = Mapped(o) /\ a[o] = Moded(o)
      OBVIOUS
    <2>2. \A o \in Object : od[i][o] = b[o] \/ o \in failed[i]
      BY <1>2 DEF LoopInv, Due
    <2>3. \A o \in Object : /\ o \in DOMAIN mode_settings => a[o] = mode_settings[o]
                            /\ o \notin DOMAIN mode_settings => a[o] = b[o]
      BY DEF mode_settings, Mapped, Moded
    <2> HIDE DEF a, b
    <2> QED
      BY <1>1, <1>2, <2>1, <2>2, <2>3, TurnMeets
  <1>4. \A k \in Found : k # i => od'[k] = od[k] /\ failed'[k] = failed[k]
    BY <1>1 DEF Turn
  <1>5. Found = 1 .. Len(bus) /\ Len(bus) \in Nat
    BY Domains
  <1>6. ASSUME NEW k \in Found, NEW o \in Object
        PROVE  od'[k][o] = Due(k, o)' \/ o \in failed'[k]
    <2>1. k \in Nat /\ Due(k, o)' = (IF k < i + 1 THEN Moded(o) ELSE Mapped(o))
      BY <1>2, <1>5 DEF Due, Moded, Mapped
    <2>2. CASE k = i
      BY <1>2, <1>3, <2>1, <2>2
    <2>3. CASE k # i
      <3>1. od[k][o] = (IF k < i THEN Moded(o) ELSE Mapped(o)) \/ o \in failed[k]
        BY <1>2 DEF LoopInv, Due
      <3> QED
        BY <1>2, <1>4, <2>1, <2>3, <3>1
    <2> QED
      BY <2>2, <2>3
  <1> QED
    BY <1>2, <1>6 DEF LoopInv

LEMMA ConfigLoop == TypeOK /\ LoopInv /\ Config => LoopInv'
  <1> SUFFICES ASSUME TypeOK, LoopInv, Config PROVE LoopInv'
    OBVIOUS
  <1>1. PICK L : Turn(Setup(i), L)
    BY ConfigTurn
  <1>2. /\ pc = "config" /\ pc' = "config" /\ i \in Nat \ {0} /\ i' = i + 1
        /\ Found' = Found /\ yaml' = yaml /\ i \in DOMAIN yaml /\ ~yaml[i].bad
    BY <1>1, ConfigTurn DEF Turn, Found
  <1> DEFINE f == Setup(i)
             b == [o \in Object |-> Moded(o)]
             a == [o \in Object |-> Meant(i, o)]
  <1>3. i \in Found => \A o \in Object : od'[i][o] = Meant(i, o) \/ o \in failed'[i]
    <2>1. \A o \in Object : b[o] = Moded(o) /\ a[o] = Meant(i, o)
      OBVIOUS
    <2>2. i \in Found => \A o \in Object : od[i][o] = b[o] \/ o \in failed[i]
      BY <1>2 DEF LoopInv, Due
    <2>3. DOMAIN f = Written
      BY <1>2, Settings
    <2>4. \A o \in Object : /\ o \in DOMAIN f => a[o] = f[o]
                            /\ o \notin DOMAIN f => a[o] = b[o]
      <3> HIDE DEF f
      <3> QED
        BY <1>2, <2>1, <2>3 DEF Meant, Moded, f
    <2> HIDE DEF a, b, f
    <2> QED
      BY <1>1, <2>1, <2>2, <2>4, TurnMeets DEF f
  <1>4. \A k \in Found : k # i => od'[k] = od[k] /\ failed'[k] = failed[k]
    BY <1>1 DEF Turn
  <1>5. Found = 1 .. Len(bus) /\ Len(bus) \in Nat
    BY Domains
  <1>6. ASSUME NEW k \in Found, NEW o \in Object
        PROVE  od'[k][o] = Due(k, o)' \/ o \in failed'[k]
    <2>0. Meant(k, o)' = Meant(k, o)
      BY <1>2 DEF Meant, Setup
    <2>1. k \in Nat /\ Due(k, o)' = (IF k < i + 1 THEN Meant(k, o) ELSE Moded(o))
      BY <1>2, <1>5, <2>0 DEF Due, Moded
    <2>2. CASE k = i
      BY <1>2, <1>3, <2>1, <2>2
    <2>3. CASE k # i
      <3>1. od[k][o] = (IF k < i THEN Meant(k, o) ELSE Moded(o)) \/ o \in failed[k]
        BY <1>2 DEF LoopInv, Due
      <3> QED
        BY <1>2, <1>4, <2>1, <2>3, <3>1
    <2> QED
      BY <2>2, <2>3
  <1>7. \A k \in DOMAIN yaml : k < i + 1 => ~yaml[k].bad
    BY <1>2, Domains DEF LoopInv
  <1> QED
    BY <1>2, <1>6, <1>7 DEF LoopInv

\* The ends of the loops: the index has passed every drive, and every entry.
LEMMA QuietLoop ==
  TypeOK /\ MatchInv /\ LoopInv /\ (\/ ReadName \/ NamesDone \/ Find \/ Check \/ MapDone
                        \/ ModesDone \/ ConfigThrows \/ ConfigDone \/ Start \/ UNCHANGED vars)
    => LoopInv'
  <1> SUFFICES ASSUME TypeOK, MatchInv, LoopInv,
                      \/ ReadName \/ NamesDone \/ Find \/ Check \/ MapDone
                      \/ ModesDone \/ ConfigThrows \/ ConfigDone \/ Start \/ UNCHANGED vars
               PROVE  LoopInv'
    OBVIOUS
  <1>1. UNCHANGED <<bus, yaml, od, failed>>
    BY DEF ReadName, NamesDone, Find, Check, MapDone, ModesDone, ConfigThrows, ConfigDone,
           Start, vars
  <1>2. /\ Found' = Found /\ Found = 1 .. Len(bus) /\ Len(bus) \in Nat
        /\ DOMAIN yaml = 1 .. Len(yaml) /\ Len(yaml) \in Nat /\ i \in Nat \ {0}
    BY <1>1, Domains DEF Found, TypeOK
  <1>3. \A k, o : Meant(k, o)' = Meant(k, o)
    BY <1>1 DEF Meant, Setup
  <1>4. CASE ReadName \/ NamesDone \/ Find
    <2>1. pc \in {"names", "find"} /\ pc' \in {"names", "find", "check", "failed"}
      BY <1>4 DEF ReadName, NamesDone, Find
    <2> QED
      BY <1>1, <1>2, <1>4, <2>1 DEF LoopInv, MatchInv, Due, ReadName, NamesDone, Find
  <1>5. CASE Check
    <2>1. pc = "check" /\ pc' \in {"map", "failed"} /\ i' = i
      BY <1>5 DEF Check
    <2>2. \A k \in Found : \A o \in Object : od[k][o] = Factory
      BY <2>1 DEF MatchInv
    <2> QED
      BY <1>1, <1>2, <2>1, <2>2 DEF LoopInv, MatchInv, Due
  <1>6. CASE MapDone
    <2>1. pc = "map" /\ pc' \in {"modes", "failed"} /\ i' = 1 /\ i \notin Found
      BY <1>6 DEF MapDone
    <2>2. \A k \in Found : k < i /\ ~(k < i')
      BY <1>2, <2>1
    <2>3. \A k \in Found : \A o \in Object : od[k][o] = Mapped(o) \/ o \in failed[k]
      BY <2>1, <2>2 DEF LoopInv, Due
    <2>4. pc' = "modes" => \A k \in Found, o \in Object : Due(k, o)' = Mapped(o)
      BY <2>2 DEF Due, Mapped
    <2> QED
      BY <1>1, <1>2, <2>1, <2>3, <2>4 DEF LoopInv
  <1>7. CASE ModesDone
    <2>1. pc = "modes" /\ pc' = "config" /\ i' = 1 /\ i \notin Found
      BY <1>7 DEF ModesDone
    <2>2. \A k \in Found : k < i /\ ~(k < i')
      BY <1>2, <2>1
    <2>3. \A k \in Found : \A o \in Object : od[k][o] = Moded(o) \/ o \in failed[k]
      BY <2>1, <2>2 DEF LoopInv, Due
    <2>4. \A k \in Found, o \in Object : Due(k, o)' = Moded(o)
      BY <2>1, <2>2 DEF Due, Moded
    <2>5. \A k \in DOMAIN yaml : ~(k < i')
      BY <1>2, <2>1
    <2> QED
      BY <1>1, <1>2, <2>1, <2>3, <2>4, <2>5 DEF LoopInv
  <1>8. CASE ConfigThrows
    BY <1>8 DEF ConfigThrows, LoopInv
  <1>9. CASE ConfigDone
    <2>1. pc = "config" /\ pc' \in {"start", "failed"} /\ i \notin DOMAIN yaml
      BY <1>9 DEF ConfigDone
    <2>2. \A k \in DOMAIN yaml : k < i
      BY <1>2, <2>1
    <2>3. \A k \in Found, o \in Object : Due(k, o) = Meant(k, o)
      BY <2>1, <2>2 DEF Due, Meant, Moded
    <2>4. pc' = "start" => \A k \in Found, o \in Object : Due(k, o)' = Meant(k, o)
      <3>1. pc' = "start" => \A k, o : Due(k, o)' = Meant(k, o)'
        BY DEF Due
      <3> QED
        BY <1>3, <3>1
    <2> QED
      BY <1>1, <1>2, <2>1, <2>2, <2>3, <2>4 DEF LoopInv
  <1>10. CASE Start
    <2>1. pc = "start" /\ pc' = "started"
      BY <1>10 DEF Start
    <2>2. \A k, o : Due(k, o)' = Meant(k, o)' /\ Due(k, o) = Meant(k, o)
      BY <2>1 DEF Due
    <2> QED
      BY <1>1, <1>2, <1>3, <2>1, <2>2 DEF LoopInv
  <1>11. CASE UNCHANGED vars
    <2>1. UNCHANGED <<pc, i>>
      BY <1>11 DEF vars
    <2>2. \A k, o : Due(k, o)' = Due(k, o)
      BY <1>3, <2>1 DEF Due, Mapped, Moded
    <2> QED
      BY <1>1, <1>2, <2>1, <2>2 DEF LoopInv
  <1> QED
    BY <1>4, <1>5, <1>6, <1>7, <1>8, <1>9, <1>10, <1>11

LEMMA NextLoop == TypeOK /\ MatchInv /\ LoopInv /\ [Next]_vars => LoopInv'
  BY MapLoop, ModesLoop, ConfigLoop, QuietLoop DEF Next

-----------------------------------------------------------------------------
BringUpInv == TypeOK /\ NamesInv /\ MatchInv /\ WrittenOnlyIfMatched /\ LoopInv

LEMMA BroughtUp == Spec => []BringUpInv
  <1>1. Init => BringUpInv
    BY InitTyped, InitNames, InitMatch, InitLoop DEF BringUpInv
  <1>2. BringUpInv /\ [Next]_vars => BringUpInv'
    BY NextTyped, NextNames, NextMatch, NextLoop DEF BringUpInv
  <1> QED
    BY <1>1, <1>2, PTL DEF Spec

(***************************************************************************)
(* No drive is written to before every listed drive has been found at its  *)
(* position, for any bus and any readable list.                            *)
(***************************************************************************)
THEOREM OnlyMatchedAreWritten == Spec => []WrittenOnlyIfMatched
  <1>1. BringUpInv => WrittenOnlyIfMatched
    BY DEF BringUpInv
  <1> QED
    BY BroughtUp, <1>1, PTL

\* What Meant is for the settings of the file, those of Master and the rest.
LEMMA MeantOwn ==
  BringUpInv => \A k \in Found, o \in Object :
    /\ o \in (Mapping \cup Mode) \ Setting => Meant(k, o) = Master
    /\ k \notin DOMAIN yaml /\ o \in Mode => Meant(k, o) = Master
    /\ /\ k \in DOMAIN yaml /\ o \in yaml[k].given \ {"position_window"}
       /\ o = "interpolation_time_period" => ~yaml[k].wide
       => Meant(k, o) = <<"file", k>>
    /\ Meant(k, o) \in {Factory, Master} \cup {"file", "wrapped", "zero"} \X {k}
  <1> SUFFICES ASSUME BringUpInv, NEW k \in Found, NEW o \in Object
               PROVE  /\ o \in (Mapping \cup Mode) \ Setting => Meant(k, o) = Master
                      /\ k \notin DOMAIN yaml /\ o \in Mode => Meant(k, o) = Master
                      /\ /\ k \in DOMAIN yaml /\ o \in yaml[k].given \ {"position_window"}
                         /\ o = "interpolation_time_period" => ~yaml[k].wide
                         => Meant(k, o) = <<"file", k>>
                      /\ Meant(k, o) \in {Factory, Master} \cup {"file", "wrapped", "zero"} \X {k}
    OBVIOUS
  <1>1. o \in Written /\ o # "interpolation_sub_mode" <=> o \in Setting \ {"position_window"}
    BY DEF Written, Setting
  <1>2. o \in Written => Setup(k)[o] =
          IF o = "interpolation_sub_mode" THEN Master
          ELSE IF o \notin yaml[k].given THEN <<"zero", k>>
          ELSE IF o = "interpolation_time_period" /\ yaml[k].wide THEN <<"wrapped", k>>
          ELSE <<"file", k>>
    BY DEF Setup
  <1>3. Moded(o) \in {Factory, Master} /\ (o \in Mapping \cup Mode => Moded(o) = Master)
    BY DEF Moded
  <1>4. "interpolation_sub_mode" \in Mode \ Setting
    BY DEF Mode, Setting
  <1>5. k \in DOMAIN yaml => yaml[k].given \subseteq Setting
    <2>1. BringUpInv => TypeOK
      BY DEF BringUpInv
    <2> QED
      BY <2>1, EntryTyped, GivenAssumption DEF Entry
  <1>6. {<<"file", k>>, <<"wrapped", k>>, <<"zero", k>>} \subseteq {"file", "wrapped", "zero"} \X {k}
    OBVIOUS
  <1>7. CASE o \in Written /\ k \in DOMAIN yaml
    <2>1. Meant(k, o) = Setup(k)[o]
      BY <1>7 DEF Meant
    <2> QED
      BY <1>1, <1>2, <1>4, <1>5, <1>6, <1>7, <2>1
  <1>8. CASE ~(o \in Written /\ k \in DOMAIN yaml)
    <2>1. Meant(k, o) = Moded(o)
      BY <1>8 DEF Meant
    <2> QED
      BY <1>1, <1>3, <1>5, <1>8, <2>1
  <1> QED
    BY <1>7, <1>8

(***************************************************************************)
(* A drive that is started has Master's mapping and mode and the settings  *)
(* that its own entry gives, and nothing of another entry, whatever the    *)
(* bus, the file and the SDO writes that failed, which are excepted.       *)
(***************************************************************************)
THEOREM DrivesAreConfigured == Spec => []StartedAsConfigured
  <1>1. BringUpInv => StartedAsConfigured
    <2> SUFFICES ASSUME BringUpInv, pc \in {"start", "started"} PROVE StartedAsConfigured
      BY DEF StartedAsConfigured
    <2>1. /\ \A k \in DOMAIN yaml : ~yaml[k].bad
          /\ \A k \in Found : \A o \in Object : od[k][o] = Meant(k, o) \/ o \in failed[k]
      BY DEF BringUpInv, LoopInv, Due
    <2>2. ASSUME NEW k \in Found, NEW o \in Object
          PROVE  /\ o \in (Mapping \cup Mode) \ Setting => Meant(k, o) = Master
                 /\ k \notin DOMAIN yaml /\ o \in Mode => Meant(k, o) = Master
                 /\ /\ k \in DOMAIN yaml /\ o \in yaml[k].given \ {"position_window"}
                    /\ o = "interpolation_time_period" => ~yaml[k].wide
                    => Meant(k, o) = <<"file", k>>
                 /\ Meant(k, o) \in {Factory, Master} \cup {"file", "wrapped", "zero"} \X {k}
      BY <2>2, MeantOwn
    <2> QED
      BY <2>1, <2>2 DEF StartedAsConfigured
  <1> QED
    BY BroughtUp, <1>1, PTL

=============================================================================
