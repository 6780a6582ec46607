-------------------------------- MODULE Pdo --------------------------------
(***************************************************************************)
(* The process data of the drives: operator>> lays the fields of each      *)
(* rx_pdo out in io_map, byte by byte through a pointer that it moves on,  *)
(* and operator<< puts the fields of tx_pdo together again.  A word is the *)
(* set of its bits that are 1.                                             *)
(***************************************************************************)
EXTENDS Integers, Sequences

CONSTANTS
  N,        \* drives of the bus, at most
  Octet,    \* bits of a byte, 8
  Values,   \* what fields may hold, before they are cut to their width
  Memory    \* what they hold before anything has been written to them

ASSUME PdoAssumption == N \in Nat \ {0} /\ Octet \in Nat \ {0}

\* RxPDO2, RxPDO3 and TxPDO2, TxPDO3: a position, or a velocity with it.
Kind == {2, 3}

\* The bytes of their fields.
RxLayout == [n \in Kind |-> <<2, 4>>]
TxLayout == [n \in Kind |-> IF n = 2 THEN <<2, 4>> ELSE <<2, 4, 4>>]

\* What the drives map, by the types that CiA 402 gives the objects: the offset of
\* each in their part of io_map, and the size of the part.  Controlword 6040h and
\* statusword 6041h are UNSIGNED16; target position 607Ah, target velocity 60FFh,
\* position actual 6064h and velocity actual 606Ch are INTEGER32.
OutputAt   == [n \in Kind |-> <<0, 2>>]
OutputSize == [n \in Kind |-> 6]
InputAt    == [n \in Kind |-> IF n = 2 THEN <<0, 2>> ELSE <<0, 2, 6>>]
InputSize  == [n \in Kind |-> IF n = 2 THEN 6 ELSE 10]

VARIABLES
  kind,     \* which of the structures
  drives,   \* ec_slavecount
  rx, tx,   \* a word per drive and field
  io_map,   \* a byte per address
  phase,    \* of update(): "new" before its first call, "idle", "out", "frame", "in"
  slave, field, byte,   \* where its loop is; field 0 is the reset of a tx_pdo
  data_ptr,
  reported  \* the words of the last frame that the drives have answered

vars == <<kind, drives, rx, tx, io_map, phase, slave, field, byte, data_ptr, reported>>

-----------------------------------------------------------------------------
\* ec_slave[].outputs and .inputs: all outputs, then all inputs.
Outputs(s) == (s - 1) * OutputSize[kind]
Inputs(s)  == drives * OutputSize[kind] + (s - 1) * InputSize[kind]
Addresses  == 0 .. Inputs(drives + 1) - 1

\* The bytes of the objects that lie at the offsets at, in a part of that size.
Widths(at, size) ==
  [f \in DOMAIN at |-> (IF f = Len(at) THEN size ELSE at[f + 1]) - at[f]]

OutputWidths == Widths(OutputAt[kind], OutputSize[kind])
InputWidths  == Widths(InputAt[kind], InputSize[kind])

\* The words over V of a structure whose fields have widths l.
Cut(l, w)   == [f \in DOMAIN l |-> w[f] \cap (0 .. Octet * l[f] - 1)]
Words(l, V) == {Cut(l, w) : w \in [DOMAIN l -> V]}

\* Mutant: the shifts of an int32 begin at 8.
ShiftedTooFar(c, k) == {b + Octet * (k + 1) : b \in c}

\* (w >> 8 * k) & 0xFF, and (0xFF & c) << 8 * k.
OctetOf(w, k) == {b \in 0 .. Octet - 1 : b + Octet * k \in w}
Shifted(c, k) == {b + Octet * k : b \in c}

\* The map m has the words w, of widths l, at offsets at from address a on.
Holds(m, a, at, l, w) ==
  \A f \in DOMAIN at : \A k \in 0 .. l[f] - 1 : m[a + at[f] + k] = OctetOf(w[f], k)

\* The byte at address a, among the inputs, when drive t reports the words w[t].
InputByte(w, a) ==
  LET s == CHOOSE t \in 1 .. drives : Inputs(t) <= a /\ a < Inputs(t + 1)
      f == CHOOSE g \in DOMAIN InputAt[kind] :
             LET at == Inputs(s) + InputAt[kind][g]
             IN  at <= a /\ a < at + InputWidths[g]
  IN  OctetOf(w[s][f], a - Inputs(s) - InputAt[kind][f])

-----------------------------------------------------------------------------
\* Nothing of it is initialised; what the inputs hold are some words or other.
Init ==
  /\ kind \in Kind /\ drives \in 1 .. N
  /\ rx \in [1 .. drives -> Words(RxLayout[kind], Memory)]
  /\ tx \in [1 .. drives -> Words(TxLayout[kind], Memory)]
  /\ reported \in [1 .. drives -> Words(InputWidths, Memory)]
  /\ io_map = [a \in Addresses |-> IF a < Inputs(1) THEN {} ELSE InputByte(reported, a)]
  /\ phase = "new" /\ slave = 1 /\ field = 1 /\ byte = 0 /\ data_ptr = 0

\* Anything may have been commanded when update() is called.
Command ==
  /\ phase \in {"new", "idle"}
  /\ rx' \in [1 .. drives -> Words(RxLayout[kind], Values)]
  /\ phase' = "out" /\ slave' = 1 /\ field' = 1 /\ byte' = 0 /\ data_ptr' = Outputs(1)
  /\ UNCHANGED <<kind, drives, tx, io_map, reported>>

\* The next byte of layout l, or the next field, or the next drive, whose
\* structure begins with field f0 at address base.
Advance(l, f0, base, then) ==
  IF byte + 1 < l[field]
    THEN byte' = byte + 1 /\ data_ptr' = data_ptr + 1 /\ UNCHANGED <<phase, slave, field>>
  ELSE IF field < Len(l)
    THEN /\ field' = field + 1 /\ byte' = 0 /\ data_ptr' = data_ptr + 1
         /\ UNCHANGED <<phase, slave>>
  ELSE IF slave < drives
    THEN /\ slave' = slave + 1 /\ field' = f0 /\ byte' = 0
         /\ data_ptr' = base
         /\ UNCHANGED phase
  ELSE phase' = then /\ slave' = 1 /\ field' = 0 /\ byte' = 0 /\ data_ptr' = Inputs(1)

\* Mutant: the bytes are stored the highest first.
StoreBigEndian ==
  /\ phase = "out"
  /\ io_map' = [io_map EXCEPT ![data_ptr] =
                  OctetOf(rx[slave][field], RxLayout[kind][field] - 1 - byte)]
  /\ Advance(RxLayout[kind], 1, Outputs(slave + 1), "frame")
  /\ UNCHANGED <<kind, drives, rx, tx, reported>>

\* A statement of operator>>.
Store ==
  /\ phase = "out"
  /\ io_map' = [io_map EXCEPT ![data_ptr] = OctetOf(rx[slave][field], byte)]
  /\ Advance(RxLayout[kind], 1, Outputs(slave + 1), "frame")
  /\ UNCHANGED <<kind, drives, rx, tx, reported>>

\* The drives put what they report into the frame, or it is lost.
Frame ==
  /\ phase = "frame" /\ phase' = "in"
  /\ \/ UNCHANGED <<io_map, reported>>
     \/ /\ reported' \in [1 .. drives -> Words(InputWidths, Values)]
        /\ io_map' = [a \in Addresses |-> IF a < Inputs(1) THEN io_map[a]
                                          ELSE InputByte(reported', a)]
  /\ UNCHANGED <<kind, drives, rx, tx, slave, field, byte, data_ptr>>

\* Mutant: the fields keep their bits.
ClearNot ==
  /\ phase = "in" /\ field = 0
  /\ field' = 1
  /\ UNCHANGED <<kind, drives, rx, tx, io_map, phase, slave, byte, data_ptr, reported>>

\* The head of operator<<: every field is set to 0.
Clear ==
  /\ phase = "in" /\ field = 0
  /\ tx' = [tx EXCEPT ![slave] = [f \in DOMAIN TxLayout[kind] |-> {}]]
  /\ field' = 1
  /\ UNCHANGED <<kind, drives, rx, io_map, phase, slave, byte, data_ptr, reported>>

\* A statement of its rest.
Load ==
  /\ phase = "in" /\ field # 0
  /\ tx' = [tx EXCEPT ![slave][field] = @ \cup Shifted(io_map[data_ptr], byte)]
  /\ Advance(TxLayout[kind], 0, Inputs(slave + 1), "idle")
  /\ UNCHANGED <<kind, drives, rx, io_map, reported>>

Next == Command \/ Store \/ Frame \/ Clear \/ Load

Spec == Init /\ [][Next]_vars

-----------------------------------------------------------------------------
TypeOK ==
  /\ kind \in Kind /\ drives \in 1 .. N
  /\ rx \in [1 .. drives -> [DOMAIN RxLayout[kind] -> SUBSET (0 .. 4 * Octet - 1)]]
  /\ tx \in [1 .. drives -> [DOMAIN TxLayout[kind] -> SUBSET (0 .. 4 * Octet - 1)]]
  /\ reported \in [1 .. drives -> [DOMAIN InputAt[kind] -> SUBSET (0 .. 4 * Octet - 1)]]
  /\ io_map \in [Addresses -> SUBSET (0 .. Octet - 1)]
  /\ phase \in {"new", "idle", "out", "frame", "in"}
  /\ slave \in 1 .. drives /\ field \in 0 .. 3 /\ byte \in 0 .. 3
  /\ data_ptr \in Addresses

(***************************************************************************)
(* When the frame is sent, io_map holds the words of every drive where the *)
(* drive has mapped them and the low byte first; the inputs, and so what   *)
(* the drives last reported, have not been written to.                     *)
(***************************************************************************)
OutputsInPlace ==
  /\ phase = "frame" => \A s \in 1 .. drives :
       Holds(io_map, Outputs(s), OutputAt[kind], OutputWidths, rx[s])
  /\ \A s \in 1 .. drives :
       Holds(io_map, Inputs(s), InputAt[kind], InputWidths, reported[s])

(***************************************************************************)
(* Between updates tx_pdo is what the drives reported last, in the fields  *)
(* they have mapped, and nothing of the reports before.                    *)
(***************************************************************************)
ReportTaken == phase = "idle" => tx = reported

=============================================================================
