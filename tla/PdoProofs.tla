----------------------------- MODULE PdoProofs -----------------------------
(***************************************************************************)
(* Proofs about Pdo for any number of drives, of bits of a byte, and any   *)
(* words: the copy of the structures into io_map and out of it.            *)
(***************************************************************************)
EXTENDS Pdo, TLAPS

-----------------------------------------------------------------------------
(* The inductive invariant.                                                *)

\* The low bytes of a word, the first k of them.
Low(w, k) == {b \in w : b < Octet * k}

\* The widths l of the code's fields are those of a drive's objects, which lie at
\* the offsets at, one after the other, in a part of that size.
Tiles(l, at, size) ==
  /\ Len(l) \in 1 .. 3 /\ Len(at) = Len(l) /\ size \in Nat
  /\ DOMAIN l = 1 .. Len(l) /\ DOMAIN at = 1 .. Len(l) /\ DOMAIN Widths(at, size) = 1 .. Len(l)
  /\ at[1] = 0
  /\ \A f \in 1 .. Len(l) : /\ at[f] \in Nat /\ l[f] \in {2, 4} /\ Widths(at, size)[f] = l[f]
                            /\ at[f] + l[f] = IF f = Len(l) THEN size ELSE at[f + 1]
                            /\ at[f] + l[f] <= size
  /\ \A f, g \in 1 .. Len(l) : f < g => at[f] + l[f] <= at[g]

\* The loop has been at byte k of field f of drive s.
Passed(s, f, k) ==
  \/ s < slave
  \/ s = slave /\ f < field
  \/ s = slave /\ f = field /\ k < byte

\* Where the loop is, and that data_ptr is where the drive has that byte.
PlaceInv ==
  /\ phase = "out" => /\ field \in DOMAIN RxLayout[kind] /\ byte < RxLayout[kind][field]
                      /\ data_ptr = Outputs(slave) + OutputAt[kind][field] + byte
  /\ phase = "frame" => slave = 1 /\ field = 0
  /\ phase \in {"frame", "in"} /\ field = 0 => byte = 0 /\ data_ptr = Inputs(slave)
  /\ phase = "in" /\ field # 0 =>
       /\ field \in DOMAIN TxLayout[kind] /\ byte < TxLayout[kind][field]
       /\ data_ptr = Inputs(slave) + InputAt[kind][field] + byte

\* The bytes that the loop has passed are stored.
OutputInv ==
  \A s \in 1 .. drives : \A f \in DOMAIN OutputAt[kind] : \A k \in 0 .. OutputWidths[f] - 1 :
    phase = "frame" \/ (phase = "out" /\ Passed(s, f, k))
      => io_map[Outputs(s) + OutputAt[kind][f] + k] = OctetOf(rx[s][f], k)

\* The inputs are what the drives reported, in words of the widths they have.
InputInv ==
  /\ \A s \in 1 .. drives : \A f \in DOMAIN InputAt[kind] :
       reported[s][f] \subseteq 0 .. Octet * InputWidths[f] - 1
  /\ \A s \in 1 .. drives : Holds(io_map, Inputs(s), InputAt[kind], InputWidths, reported[s])

\* The fields that the loop has passed are what was reported, the field it is at
\* the low bytes of that, and the fields after it are clear.
TakenInv ==
  /\ phase = "in" => \A s \in 1 .. drives : \A f \in DOMAIN TxLayout[kind] :
       /\ s < slave \/ (s = slave /\ f < field) => tx[s][f] = reported[s][f]
       /\ s = slave /\ f = field => tx[s][f] = Low(reported[s][f], byte)
       /\ s = slave /\ field # 0 /\ f > field => tx[s][f] = {}
  /\ phase = "idle" => \A s \in 1 .. drives : \A f \in DOMAIN TxLayout[kind] :
       tx[s][f] = reported[s][f]

PdoInv == TypeOK /\ PlaceInv /\ OutputInv /\ InputInv /\ TakenInv

-----------------------------------------------------------------------------
(* The layouts: what each structure has is what the drive has mapped.      *)

LEMMA RxTiles == \A n \in Kind : Tiles(RxLayout[n], OutputAt[n], OutputSize[n])
  <1> SUFFICES ASSUME NEW n \in Kind PROVE Tiles(RxLayout[n], OutputAt[n], OutputSize[n])
    OBVIOUS
  <1>1. RxLayout[n] = <<2, 4>> /\ OutputAt[n] = <<0, 2>> /\ OutputSize[n] = 6
    BY DEF RxLayout, OutputAt, OutputSize
  <1> QED
    BY <1>1 DEF Tiles, Widths

LEMMA TxTiles == \A n \in Kind : Tiles(TxLayout[n], InputAt[n], InputSize[n])
  <1> SUFFICES ASSUME NEW n \in Kind PROVE Tiles(TxLayout[n], InputAt[n], InputSize[n])
    OBVIOUS
  <1>1. CASE n = 2
    <2>1. TxLayout[n] = <<2, 4>> /\ InputAt[n] = <<0, 2>> /\ InputSize[n] = 6
      BY <1>1 DEF TxLayout, InputAt, InputSize
    <2> QED
      BY <2>1 DEF Tiles, Widths
  <1>2. CASE n # 2
    <2>1. TxLayout[n] = <<2, 4, 4>> /\ InputAt[n] = <<0, 2, 6>> /\ InputSize[n] = 10
      BY <1>2 DEF TxLayout, InputAt, InputSize
    <2> QED
      BY <2>1 DEF Tiles, Widths
  <1> QED
    BY <1>1, <1>2

\* The two layouts of the structure in use.
LEMMA Layouts ==
  ASSUME kind \in Kind
  PROVE  /\ Tiles(RxLayout[kind], OutputAt[kind], OutputSize[kind])
         /\ Tiles(TxLayout[kind], InputAt[kind], InputSize[kind])
         /\ DOMAIN OutputWidths = DOMAIN RxLayout[kind] /\ DOMAIN InputWidths = DOMAIN TxLayout[kind]
         /\ DOMAIN OutputAt[kind] = DOMAIN RxLayout[kind] /\ DOMAIN InputAt[kind] = DOMAIN TxLayout[kind]
         /\ \A f \in DOMAIN RxLayout[kind] : OutputWidths[f] = RxLayout[kind][f]
         /\ \A f \in DOMAIN TxLayout[kind] : InputWidths[f] = TxLayout[kind][f]
  <1>1. Tiles(RxLayout[kind], OutputAt[kind], OutputSize[kind])
    BY RxTiles
  <1>2. Tiles(TxLayout[kind], InputAt[kind], InputSize[kind])
    BY TxTiles
  <1>3. /\ DOMAIN OutputWidths = DOMAIN RxLayout[kind] /\ DOMAIN OutputAt[kind] = DOMAIN RxLayout[kind]
        /\ \A f \in DOMAIN RxLayout[kind] : OutputWidths[f] = RxLayout[kind][f]
    BY <1>1 DEF Tiles, OutputWidths
  <1>4. /\ DOMAIN InputWidths = DOMAIN TxLayout[kind] /\ DOMAIN InputAt[kind] = DOMAIN TxLayout[kind]
        /\ \A f \in DOMAIN TxLayout[kind] : InputWidths[f] = TxLayout[kind][f]
    BY <1>2 DEF Tiles, InputWidths
  <1> QED
    BY <1>1, <1>2, <1>3, <1>4

-----------------------------------------------------------------------------
(* The parts of io_map.                                                    *)

\* The parts lie one after the other, the outputs before the inputs.
LEMMA Parts ==
  ASSUME kind \in Kind, drives \in Nat \ {0}
  PROVE  /\ OutputSize[kind] \in 6 .. 10 /\ InputSize[kind] \in 6 .. 10
         /\ Outputs(1) = 0 /\ Outputs(drives + 1) = Inputs(1)
         /\ \A s \in 1 .. drives + 1 : Outputs(s) \in Nat /\ Inputs(s) \in Nat
         /\ \A s \in 1 .. drives : /\ Outputs(s + 1) = Outputs(s) + OutputSize[kind]
                                    /\ Inputs(s + 1) = Inputs(s) + InputSize[kind]
         /\ \A s, t \in 1 .. drives + 1 : s < t => /\ Outputs(s) + OutputSize[kind] <= Outputs(t)
                                                   /\ Inputs(s) + InputSize[kind] <= Inputs(t)
  <1>1. \/ OutputSize[kind] = 6 /\ InputSize[kind] = 6
        \/ OutputSize[kind] = 6 /\ InputSize[kind] = 10
    BY DEF OutputSize, InputSize, Kind
  <1>2. CASE OutputSize[kind] = 6 /\ InputSize[kind] = 6
    BY <1>2, SMTT(20) DEF Outputs, Inputs
  <1>3. CASE OutputSize[kind] = 6 /\ InputSize[kind] = 10
    BY <1>3, SMTT(20) DEF Outputs, Inputs
  <1> QED
    BY <1>1, <1>2, <1>3

\* A byte of an object is in its part; two of them are at two addresses.
LEMMA InPart ==
  ASSUME NEW l, NEW at, NEW size, Tiles(l, at, size),
         NEW f \in 1 .. Len(l), NEW k \in 0 .. l[f] - 1
  PROVE  /\ at[f] + k \in 0 .. size - 1
         /\ \A g \in 1 .. Len(l) : \A j \in 0 .. l[g] - 1 :
              at[g] + j = at[f] + k => g = f /\ j = k
  <1>1. /\ Len(l) \in Nat /\ size \in Nat
        /\ \A g \in 1 .. Len(l) : at[g] \in Nat /\ l[g] \in Nat /\ at[g] + l[g] <= size
        /\ \A g, h \in 1 .. Len(l) : g < h => at[g] + l[g] <= at[h]
    <2>1. /\ Len(l) \in 1 .. 3 /\ size \in Nat
          /\ \A g \in 1 .. Len(l) : at[g] \in Nat /\ l[g] \in {2, 4} /\ at[g] + l[g] <= size
          /\ \A g, h \in 1 .. Len(l) : g < h => at[g] + l[g] <= at[h]
      BY Zenon DEF Tiles
    <2> QED
      BY <2>1
  <1>2. at[f] + k \in 0 .. size - 1
    <2>1. at[f] \in Nat /\ l[f] \in Nat /\ at[f] + l[f] <= size
      BY <1>1
    <2>2. k \in Nat /\ k < l[f]
      BY <2>1
    <2> QED
      BY <1>1, <2>1, <2>2
  <1>3. ASSUME NEW g \in 1 .. Len(l), NEW j \in 0 .. l[g] - 1, at[g] + j = at[f] + k
        PROVE  g = f /\ j = k
    <2>1. /\ at[f] \in Nat /\ l[f] \in Nat /\ k \in Nat /\ k < l[f]
          /\ at[g] \in Nat /\ l[g] \in Nat /\ j \in Nat /\ j < l[g]
          /\ g \in Nat /\ f \in Nat
      BY <1>1
    <2>2. ~(f < g)
      <3>1. f < g => at[f] + l[f] <= at[g]
        BY <1>1
      <3> QED
        BY <1>3, <2>1, <3>1
    <2>3. ~(g < f)
      <3>1. g < f => at[g] + l[g] <= at[f]
        BY <1>1
      <3> QED
        BY <1>3, <2>1, <3>1
    <2>4. g = f
      BY <2>1, <2>2, <2>3
    <2> QED
      BY <1>3, <2>1, <2>4
  <1> QED
    BY <1>2, <1>3

\* The same of the parts: drives and offsets.
LEMMA Apart ==
  ASSUME kind \in Kind, drives \in Nat \ {0},
         NEW s \in 1 .. drives, NEW t \in 1 .. drives
  PROVE  /\ \A i, j \in 0 .. OutputSize[kind] - 1 :
              Outputs(s) + i = Outputs(t) + j => s = t /\ i = j
         /\ \A i, j \in 0 .. InputSize[kind] - 1 :
              Inputs(s) + i = Inputs(t) + j => s = t /\ i = j
         /\ \A i \in 0 .. OutputSize[kind] - 1 :
              Outputs(s) + i \in Nat /\ Outputs(s) + i < Inputs(1) /\ Outputs(s) + i \in Addresses
         /\ \A j \in 0 .. InputSize[kind] - 1 :
              /\ Inputs(s) + j \in Addresses /\ ~(Inputs(s) + j < Inputs(1))
              /\ Inputs(s) <= Inputs(s) + j /\ Inputs(s) + j < Inputs(s + 1)
         /\ Inputs(s) \in Addresses
  <1>1. /\ OutputSize[kind] \in 6 .. 10 /\ InputSize[kind] \in 6 .. 10
        /\ s \in 1 .. drives + 1 /\ t \in 1 .. drives + 1
        /\ 1 \in 1 .. drives + 1 /\ drives + 1 \in 1 .. drives + 1
    BY Parts
  <1>2. /\ Outputs(s) \in Nat /\ Outputs(t) \in Nat /\ Inputs(s) \in Nat /\ Inputs(t) \in Nat
        /\ Inputs(1) \in Nat /\ Inputs(drives + 1) \in Nat
    BY <1>1, Parts
  <1>3. /\ s < t => /\ Outputs(s) + OutputSize[kind] <= Outputs(t)
                    /\ Inputs(s) + InputSize[kind] <= Inputs(t)
        /\ t < s => /\ Outputs(t) + OutputSize[kind] <= Outputs(s)
                    /\ Inputs(t) + InputSize[kind] <= Inputs(s)
    BY <1>1, Parts
  <1>4. /\ Outputs(s) + OutputSize[kind] <= Inputs(1)
        /\ Inputs(s) + InputSize[kind] <= Inputs(drives + 1)
        /\ Inputs(1) <= Inputs(s) /\ Inputs(1) <= Inputs(drives + 1)
        /\ Inputs(s + 1) = Inputs(s) + InputSize[kind]
    <2>1. s < drives + 1 /\ (1 < s \/ s = 1) /\ 1 < drives + 1
      OBVIOUS
    <2> QED
      BY <1>1, <1>2, <2>1, Parts
  <1>5. \A a \in Nat : a < Inputs(drives + 1) => a \in Addresses
    BY <1>2 DEF Addresses
  <1>6. s < t \/ t < s \/ s = t
    OBVIOUS
  <1>7. ASSUME NEW i \in 0 .. OutputSize[kind] - 1, NEW j \in 0 .. OutputSize[kind] - 1,
               Outputs(s) + i = Outputs(t) + j
        PROVE  s = t /\ i = j
    <2>1. i \in Nat /\ j \in Nat /\ i < OutputSize[kind] /\ j < OutputSize[kind]
      BY <1>1
    <2>2. ~(s < t) /\ ~(t < s)
      BY <1>1, <1>2, <1>3, <1>7, <2>1
    <2> QED
      BY <1>2, <1>6, <1>7, <2>1, <2>2
  <1>8. ASSUME NEW i \in 0 .. InputSize[kind] - 1, NEW j \in 0 .. InputSize[kind] - 1,
               Inputs(s) + i = Inputs(t) + j
        PROVE  s = t /\ i = j
    <2>1. i \in Nat /\ j \in Nat /\ i < InputSize[kind] /\ j < InputSize[kind]
      BY <1>1
    <2>2. ~(s < t) /\ ~(t < s)
      BY <1>1, <1>2, <1>3, <1>8, <2>1
    <2> QED
      BY <1>2, <1>6, <1>8, <2>1, <2>2
  <1>9. ASSUME NEW i \in 0 .. OutputSize[kind] - 1
        PROVE  Outputs(s) + i \in Nat /\ Outputs(s) + i < Inputs(1) /\ Outputs(s) + i \in Addresses
    <2>1. i \in Nat /\ i < OutputSize[kind] /\ OutputSize[kind] \in Nat
      BY <1>1
    <2> QED
      BY <1>2, <1>4, <1>5, <2>1
  <1>10. ASSUME NEW j \in 0 .. InputSize[kind] - 1
         PROVE  /\ Inputs(s) + j \in Addresses /\ ~(Inputs(s) + j < Inputs(1))
                /\ Inputs(s) <= Inputs(s) + j /\ Inputs(s) + j < Inputs(s + 1)
    <2>1. j \in Nat /\ j < InputSize[kind] /\ InputSize[kind] \in Nat
      BY <1>1
    <2> QED
      BY <1>2, <1>4, <1>5, <2>1
  <1>11. Inputs(s) \in Addresses
    BY <1>1, <1>2, <1>4, <1>5
  <1> QED
    BY <1>7, <1>8, <1>9, <1>10, <1>11

\* No two bytes of the outputs have one address, and none that of an input.
LEMMA OutputPlaces ==
  ASSUME kind \in Kind, drives \in Nat \ {0},
         NEW s \in 1 .. drives, NEW f \in DOMAIN RxLayout[kind], NEW k \in 0 .. RxLayout[kind][f] - 1
  PROVE  /\ Outputs(s) + OutputAt[kind][f] + k \in Addresses
         /\ Outputs(s) + OutputAt[kind][f] + k < Inputs(1)
         /\ \A t \in 1 .. drives : \A g \in DOMAIN RxLayout[kind] : \A j \in 0 .. RxLayout[kind][g] - 1 :
              Outputs(t) + OutputAt[kind][g] + j = Outputs(s) + OutputAt[kind][f] + k
                => t = s /\ g = f /\ j = k
  <1> DEFINE l == RxLayout[kind]
             at == OutputAt[kind]
             size == OutputSize[kind]
  <1>1. Tiles(l, at, size) /\ DOMAIN l = 1 .. Len(l)
    BY Layouts DEF Tiles
  <1>2. \A g \in DOMAIN l : at[g] \in Nat /\ l[g] \in Nat
    <2>1. \A g \in DOMAIN l : at[g] \in Nat /\ l[g] \in {2, 4}
      BY <1>1, Zenon DEF Tiles
    <2> QED
      BY <2>1
  <1> HIDE DEF l, at, size
  <1>3. \A t \in 1 .. drives : Outputs(t) \in Nat
    BY Parts DEF size
  <1>4. \A g \in DOMAIN l : \A j \in 0 .. l[g] - 1 : j \in Nat /\ at[g] + j \in 0 .. size - 1
    BY <1>1, <1>2, InPart
  <1>5. \A t \in 1 .. drives : \A g \in DOMAIN l : \A j \in 0 .. l[g] - 1 :
          Outputs(t) + at[g] + j = Outputs(t) + (at[g] + j)
    BY <1>2, <1>3, <1>4
  <1>6. Outputs(s) + (at[f] + k) \in Addresses /\ Outputs(s) + (at[f] + k) < Inputs(1)
    BY <1>4, Apart DEF size, l
  <1>7. ASSUME NEW t \in 1 .. drives, NEW g \in DOMAIN l, NEW j \in 0 .. l[g] - 1,
               Outputs(t) + at[g] + j = Outputs(s) + at[f] + k
        PROVE  t = s /\ g = f /\ j = k
    <2>1. f \in DOMAIN l /\ k \in 0 .. l[f] - 1
      BY DEF l
    <2>2. Outputs(t) + (at[g] + j) = Outputs(s) + (at[f] + k)
      BY <1>5, <1>7, <2>1
    <2>3. t = s /\ at[g] + j = at[f] + k
      BY <1>4, <2>1, <2>2, Apart DEF size
    <2> QED
      BY <1>1, <2>1, <2>3, InPart
  <1>8. Outputs(s) + at[f] + k = Outputs(s) + (at[f] + k)
    BY <1>5 DEF l
  <1> QED
    BY <1>6, <1>7, <1>8 DEF l, at

\* Nor two bytes of the inputs.
LEMMA InputPlaces ==
  ASSUME kind \in Kind, drives \in Nat \ {0},
         NEW s \in 1 .. drives, NEW f \in DOMAIN TxLayout[kind], NEW k \in 0 .. TxLayout[kind][f] - 1
  PROVE  /\ Inputs(s) + InputAt[kind][f] + k \in Addresses
         /\ /\ Inputs(s) <= Inputs(s) + InputAt[kind][f] + k
            /\ Inputs(s) + InputAt[kind][f] + k < Inputs(s + 1)
            /\ ~(Inputs(s) + InputAt[kind][f] + k < Inputs(1))
         /\ \A t \in 1 .. drives : \A g \in DOMAIN TxLayout[kind] : \A j \in 0 .. TxLayout[kind][g] - 1 :
              Inputs(t) + InputAt[kind][g] + j = Inputs(s) + InputAt[kind][f] + k
                => t = s /\ g = f /\ j = k
  <1> DEFINE l == TxLayout[kind]
             at == InputAt[kind]
             size == InputSize[kind]
  <1>1. Tiles(l, at, size) /\ DOMAIN l = 1 .. Len(l)
    BY Layouts DEF Tiles
  <1>2. \A g \in DOMAIN l : at[g] \in Nat /\ l[g] \in Nat
    <2>1. \A g \in DOMAIN l : at[g] \in Nat /\ l[g] \in {2, 4}
      BY <1>1, Zenon DEF Tiles
    <2> QED
      BY <2>1
  <1> HIDE DEF l, at, size
  <1>3. \A t \in 1 .. drives : Inputs(t) \in Nat
    BY Parts DEF size
  <1>4. \A g \in DOMAIN l : \A j \in 0 .. l[g] - 1 : j \in Nat /\ at[g] + j \in 0 .. size - 1
    BY <1>1, <1>2, InPart
  <1>5. \A t \in 1 .. drives : \A g \in DOMAIN l : \A j \in 0 .. l[g] - 1 :
          Inputs(t) + at[g] + j = Inputs(t) + (at[g] + j)
    BY <1>2, <1>3, <1>4
  <1>6. Inputs(s) + (at[f] + k) \in Addresses /\ Inputs(s) <= Inputs(s) + (at[f] + k)
        /\ Inputs(s) + (at[f] + k) < Inputs(s + 1) /\ ~(Inputs(s) + (at[f] + k) < Inputs(1))
    BY <1>4, Apart DEF size, l
  <1>7. ASSUME NEW t \in 1 .. drives, NEW g \in DOMAIN l, NEW j \in 0 .. l[g] - 1,
               Inputs(t) + at[g] + j = Inputs(s) + at[f] + k
        PROVE  t = s /\ g = f /\ j = k
    <2>1. f \in DOMAIN l /\ k \in 0 .. l[f] - 1
      BY DEF l
    <2>2. Inputs(t) + (at[g] + j) = Inputs(s) + (at[f] + k)
      BY <1>5, <1>7, <2>1
    <2>3. t = s /\ at[g] + j = at[f] + k
      BY <1>4, <2>1, <2>2, Apart DEF size
    <2> QED
      BY <1>1, <2>1, <2>3, InPart
  <1>8. Inputs(s) + at[f] + k = Inputs(s) + (at[f] + k)
    BY <1>5 DEF l
  <1> QED
    BY <1>6, <1>7, <1>8 DEF l, at

\* Of the words w, the byte at the place of byte k of field f of drive s is it.
LEMMA InputByteAt ==
  ASSUME kind \in Kind, drives \in Nat \ {0}, NEW w,
         NEW s \in 1 .. drives, NEW f \in DOMAIN InputAt[kind], NEW k \in 0 .. InputWidths[f] - 1
  PROVE  InputByte(w, Inputs(s) + InputAt[kind][f] + k) = OctetOf(w[s][f], k)
  <1> DEFINE at == InputAt[kind]
             l == TxLayout[kind]
             a == Inputs(s) + at[f] + k
             S(t) == Inputs(t) <= a /\ a < Inputs(t + 1)
             F(g) == Inputs(s) + at[g] <= a /\ a < Inputs(s) + at[g] + InputWidths[g]
  <1>1. /\ f \in DOMAIN l /\ k \in 0 .. l[f] - 1 /\ DOMAIN at = DOMAIN l
        /\ \A g \in DOMAIN l : InputWidths[g] = l[g]
    BY Layouts
  <1>2. Tiles(l, at, InputSize[kind]) /\ DOMAIN l = 1 .. Len(l)
    BY Layouts DEF Tiles
  <1>3. /\ \A g \in DOMAIN l : g \in Nat /\ at[g] \in Nat /\ l[g] \in Nat
        /\ \A g, h \in DOMAIN l : g < h => at[g] + l[g] <= at[h]
    <2>1. /\ \A g \in DOMAIN l : at[g] \in Nat /\ l[g] \in {2, 4}
          /\ \A g, h \in DOMAIN l : g < h => at[g] + l[g] <= at[h]
          /\ Len(l) \in 1 .. 3
      BY <1>2, Zenon DEF Tiles
    <2> QED
      BY <1>2, <2>1
  <1>4. S(s)
    BY <1>1, InputPlaces
  <1>5. \A t \in 1 .. drives : S(t) => t = s
    <2> SUFFICES ASSUME NEW t \in 1 .. drives, S(t) PROVE t = s
      OBVIOUS
    <2>1. /\ s \in 1 .. drives + 1 /\ t \in 1 .. drives + 1
          /\ s + 1 \in 1 .. drives + 1 /\ t + 1 \in 1 .. drives + 1
      OBVIOUS
    <2>2. /\ Inputs(s) \in Nat /\ Inputs(t) \in Nat /\ InputSize[kind] \in Nat
          /\ Inputs(s + 1) = Inputs(s) + InputSize[kind]
          /\ Inputs(t + 1) = Inputs(t) + InputSize[kind]
          /\ s < t => Inputs(s) + InputSize[kind] <= Inputs(t)
          /\ t < s => Inputs(t) + InputSize[kind] <= Inputs(s)
      BY <2>1, Parts
    <2>3. a \in Nat
      BY <1>1, <1>3, <2>2
    <2> HIDE DEF a
    <2>4. ~(s < t)
      BY <1>4, <2>2, <2>3
    <2>5. ~(t < s)
      BY <1>4, <2>2, <2>3
    <2> QED
      BY <2>4, <2>5
  <1>6. Inputs(s) \in Nat /\ k \in Nat /\ k < l[f]
    BY <1>1, <1>3, Parts
  <1>7. F(f)
    BY <1>1, <1>3, <1>6
  <1>8. \A g \in DOMAIN at : F(g) => g = f
    <2> SUFFICES ASSUME NEW g \in DOMAIN l, F(g) PROVE g = f
      BY <1>1
    <2>1. /\ f \in Nat /\ at[f] \in Nat /\ l[f] \in Nat /\ InputWidths[g] = l[g]
          /\ g \in Nat /\ at[g] \in Nat /\ l[g] \in Nat
      BY <1>1, <1>3
    <2>2. ~(f < g)
      <3>1. f < g => at[f] + l[f] <= at[g]
        BY <1>1, <1>3
      <3> QED
        BY <1>6, <2>1, <3>1
    <2>3. ~(g < f)
      <3>1. g < f => at[g] + l[g] <= at[f]
        BY <1>1, <1>3
      <3> QED
        BY <1>6, <2>1, <3>1
    <2> QED
      BY <2>1, <2>2, <2>3
  <1>9. s = CHOOSE t \in 1 .. drives : S(t)
    <2> HIDE DEF S
    <2> QED
      BY <1>4, <1>5
  <1>10. f = CHOOSE g \in DOMAIN at : F(g)
    <2> HIDE DEF F
    <2> QED
      BY <1>1, <1>7, <1>8
  <1>11. a - Inputs(s) - at[f] = k
    BY <1>1, <1>3, <1>6
  <1>12. InputByte(w, a) = OctetOf(w[s][f], a - Inputs(s) - at[f])
    BY <1>9, <1>10 DEF InputByte
  <1> QED
    BY <1>11, <1>12

-----------------------------------------------------------------------------
(* Words and their bytes.                                                  *)

\* The words of a structure, of fields of 1, 2 or 4 bytes.
LEMMA WordsCut ==
  ASSUME NEW D, NEW l, NEW V, \A f \in DOMAIN l : l[f] \in {2, 4}, NEW w \in [D -> Words(l, V)]
  PROVE  /\ w \in [D -> [DOMAIN l -> SUBSET (0 .. 4 * Octet - 1)]]
         /\ \A s \in D : \A f \in DOMAIN l : w[s][f] \subseteq 0 .. Octet * l[f] - 1
  <1>1. \A n \in {2, 4} : 0 .. Octet * n - 1 \subseteq 0 .. 4 * Octet - 1
    <2>1. Octet \in Nat
      BY PdoAssumption
    <2> QED
      BY <2>1
  <1>2. ASSUME NEW s \in D
        PROVE  \E v \in [DOMAIN l -> V] : w[s] = [f \in DOMAIN l |-> v[f] \cap (0 .. Octet * l[f] - 1)]
    BY DEF Words, Cut
  <1>3. ASSUME NEW s \in D
        PROVE  /\ w[s] \in [DOMAIN l -> SUBSET (0 .. 4 * Octet - 1)]
               /\ \A f \in DOMAIN l : w[s][f] \subseteq 0 .. Octet * l[f] - 1
    <2>1. PICK v \in [DOMAIN l -> V] : w[s] = [f \in DOMAIN l |-> v[f] \cap (0 .. Octet * l[f] - 1)]
      BY <1>2
    <2>2. \A f \in DOMAIN l : w[s][f] \subseteq 0 .. Octet * l[f] - 1
      BY <2>1
    <2>3. \A f \in DOMAIN l : w[s][f] \subseteq 0 .. 4 * Octet - 1
      BY <1>1, <2>2
    <2>4. w[s] \in [DOMAIN l -> SUBSET (0 .. 4 * Octet - 1)]
      BY <2>1, <2>3
    <2> QED
      BY <2>2, <2>4
  <1>4. w \in [D -> [DOMAIN l -> SUBSET (0 .. 4 * Octet - 1)]]
    BY <1>3
  <1> QED
    BY <1>3, <1>4

LEMMA LowNone == \A w \in SUBSET Nat : Low(w, 0) = {}
  <1>1. Octet * 0 = 0
    BY PdoAssumption
  <1>2. ASSUME NEW w \in SUBSET Nat, NEW b \in w PROVE ~(b < Octet * 0)
    BY <1>1, b \in Nat
  <1> QED
    BY <1>2 DEF Low

LEMMA LowAll ==
  ASSUME NEW n \in Nat, NEW w \in SUBSET (0 .. Octet * n - 1)
  PROVE  Low(w, n) = w
  <1> DEFINE m == Octet * n
  <1>1. m \in Nat
    BY PdoAssumption
  <1>2. Low(w, n) = {b \in w : b < m} /\ w \subseteq 0 .. m - 1
    BY DEF Low
  <1> HIDE DEF m
  <1>3. \A b \in w : b < m
    BY <1>1, <1>2
  <1> QED
    BY <1>2, <1>3

\* A byte that is put in its place joins the bytes below it.
LEMMA LowNext ==
  ASSUME NEW k \in Nat, NEW w \in SUBSET Nat
  PROVE  Low(w, k) \cup Shifted(OctetOf(w, k), k) = Low(w, k + 1)
  <1> DEFINE m == Octet * k
             n == Octet * (k + 1)
  <1>1. m \in Nat /\ n = m + Octet /\ Octet \in Nat
    BY PdoAssumption
  <1>2. Low(w, k) = {b \in w : b < m} /\ Low(w, k + 1) = {b \in w : b < n}
    BY DEF Low
  <1>3. OctetOf(w, k) = {b \in 0 .. Octet - 1 : b + m \in w}
    BY DEF OctetOf
  <1>4. Shifted(OctetOf(w, k), k) = {b + m : b \in OctetOf(w, k)}
    BY DEF Shifted
  <1> HIDE DEF m, n
  <1>5. ASSUME NEW b \in w, m <= b, b < n PROVE b \in Shifted(OctetOf(w, k), k)
    <2>1. b - m \in 0 .. Octet - 1 /\ (b - m) + m = b
      BY <1>1, <1>5
    <2>2. b - m \in OctetOf(w, k)
      BY <1>3, <2>1
    <2> QED
      BY <1>4, <2>1, <2>2
  <1>6. ASSUME NEW b \in Shifted(OctetOf(w, k), k) PROVE b \in w /\ b < n
    <2>1. PICK c \in OctetOf(w, k) : b = c + m
      BY <1>4
    <2> QED
      BY <1>1, <1>3, <2>1
  <1>7. Low(w, k + 1) \subseteq Low(w, k) \cup Shifted(OctetOf(w, k), k)
    <2> SUFFICES ASSUME NEW b \in w, b < n PROVE b \in Low(w, k) \cup Shifted(OctetOf(w, k), k)
      BY <1>2
    <2>1. b < m \/ m <= b
      BY <1>1
    <2> QED
      BY <1>2, <1>5, <2>1
  <1>8. Low(w, k) \cup Shifted(OctetOf(w, k), k) \subseteq Low(w, k + 1)
    <2>1. \A b \in w : b < m => b < n
      BY <1>1
    <2> QED
      BY <1>2, <1>6, <2>1
  <1> QED
    BY <1>7, <1>8

(***************************************************************************)
(* A field of any number of bytes is what operator<< makes of the bytes    *)
(* that operator>> cuts it into, whatever the number of bits of a byte.    *)
(***************************************************************************)
THEOREM BytesMakeTheWord ==
  ASSUME NEW n \in Nat, NEW w \in SUBSET (0 .. Octet * n - 1)
  PROVE  UNION {Shifted(OctetOf(w, k), k) : k \in 0 .. n - 1} = w
  <1>1. Octet \in Nat /\ Octet > 0 /\ Octet * n \in Nat
    BY PdoAssumption
  <1>2. ASSUME NEW b \in w
        PROVE  \E k \in 0 .. n - 1 : b \in Shifted(OctetOf(w, k), k)
    <2> DEFINE k == b \div Octet
               r == b % Octet
    <2>1. b \in Nat /\ b < Octet * n
      BY <1>1
    <2>2. k \in Nat /\ r \in 0 .. Octet - 1 /\ b = Octet * k + r
      BY <1>1, <2>1
    <2> HIDE DEF k, r
    <2>3. k < n
      <3> SUFFICES ASSUME ~(k < n) PROVE FALSE
        OBVIOUS
      <3>1. PICK d \in Nat : k = n + d
        BY <2>2, k - n \in Nat, k = n + (k - n)
      <3>2. Octet * k = Octet * n + Octet * d /\ Octet * d \in Nat /\ Octet * k \in Nat
        BY <1>1, <3>1
      <3> QED
        BY <1>1, <2>1, <2>2, <3>2
    <2>4. r \in OctetOf(w, k)
      <3>1. r + Octet * k = b
        BY <1>1, <2>2
      <3> QED
        BY <2>2, <3>1 DEF OctetOf
    <2>5. b \in Shifted(OctetOf(w, k), k)
      <3>1. b = r + Octet * k
        BY <1>1, <2>2
      <3> QED
        BY <2>4, <3>1 DEF Shifted
    <2> QED
      BY <2>2, <2>3, <2>5
  <1>3. \A k \in 0 .. n - 1 : Shifted(OctetOf(w, k), k) \subseteq w
    BY DEF Shifted, OctetOf
  <1> QED
    BY <1>2, <1>3

LEMMA OctetBits == \A w, k : OctetOf(w, k) \in SUBSET (0 .. Octet - 1)
  BY DEF OctetOf

\* No bit of the fields lies above what their type has.
LEMMA ShiftedBits ==
  ASSUME NEW c \in SUBSET (0 .. Octet - 1), NEW k \in 0 .. 3
  PROVE  Shifted(c, k) \in SUBSET (0 .. 4 * Octet - 1)
  <1>1. Octet \in Nat
    BY PdoAssumption
  <1>2. \A b \in 0 .. Octet - 1 : b + Octet * k \in 0 .. 4 * Octet - 1
    <2>1. k = 0 \/ k = 1 \/ k = 2 \/ k = 3
      OBVIOUS
    <2> QED
      BY <1>1, <2>1
  <1> QED
    BY <1>2 DEF Shifted

-----------------------------------------------------------------------------
(* The loop and its pointer.                                               *)

\* The loop is at the last byte of the last drive.
Last(l) == field = Len(l) /\ byte + 1 = l[field] /\ slave = drives

\* A byte further, at the next field or, with field f0 and address base, the next drive.
Further(l, at, f0, base) ==
  \/ /\ slave' = slave /\ field' = field /\ byte' = byte + 1 /\ byte + 1 < l[field]
     /\ data_ptr' = data_ptr + 1
  \/ /\ slave' = slave /\ field' = field + 1 /\ field + 1 \in DOMAIN l /\ byte' = 0
     /\ byte + 1 = l[field] /\ data_ptr' = data_ptr + 1 /\ at[field + 1] = at[field] + byte + 1
  \/ /\ slave' = slave + 1 /\ slave < drives /\ field' = f0 /\ byte' = 0
     /\ byte + 1 = l[field] /\ field = Len(l) /\ data_ptr' = base

LEMMA Advanced ==
  ASSUME drives \in Nat \ {0}, slave \in 1 .. drives, NEW l, NEW at, NEW size, Tiles(l, at, size),
         NEW f0, NEW base, NEW then, field \in DOMAIN l, byte \in 0 .. l[field] - 1,
         Advance(l, f0, base, then)
  PROVE  /\ Last(l) => /\ phase' = then /\ slave' = 1 /\ field' = 0 /\ byte' = 0
                       /\ data_ptr' = Inputs(1)
         /\ ~Last(l) => phase' = phase /\ Further(l, at, f0, base)
  <1>1. /\ Len(l) \in Nat /\ DOMAIN l = 1 .. Len(l) /\ l[field] \in Nat /\ at[field] \in Nat
        /\ at[field] + l[field] = IF field = Len(l) THEN size ELSE at[field + 1]
    <2>1. /\ Len(l) \in 1 .. 3 /\ DOMAIN l = 1 .. Len(l) /\ l[field] \in {2, 4} /\ at[field] \in Nat
          /\ at[field] + l[field] = IF field = Len(l) THEN size ELSE at[field + 1]
      BY Zenon DEF Tiles
    <2> QED
      BY <2>1
  <1>2. field \in Nat /\ byte \in Nat /\ byte < l[field] /\ slave \in Nat
    BY <1>1
  <1>3. CASE byte + 1 < l[field]
    <2>1. /\ byte' = byte + 1 /\ data_ptr' = data_ptr + 1 /\ phase' = phase
          /\ slave' = slave /\ field' = field
      BY <1>3 DEF Advance
    <2> QED
      BY <1>1, <1>2, <1>3, <2>1 DEF Last, Further
  <1>4. CASE ~(byte + 1 < l[field]) /\ field < Len(l)
    <2>1. /\ field' = field + 1 /\ byte' = 0 /\ data_ptr' = data_ptr + 1 /\ phase' = phase
          /\ slave' = slave
      BY <1>4 DEF Advance
    <2>2. field + 1 \in DOMAIN l /\ field # Len(l) /\ byte + 1 = l[field]
      BY <1>1, <1>2, <1>4
    <2>3. at[field + 1] = at[field] + byte + 1
      BY <1>1, <1>2, <2>2
    <2> QED
      BY <2>1, <2>2, <2>3 DEF Last, Further
  <1>5. CASE ~(byte + 1 < l[field]) /\ ~(field < Len(l))
    <2>1. byte + 1 = l[field] /\ field = Len(l)
      BY <1>1, <1>2, <1>5
    <2>2. CASE slave < drives
      <3>1. slave' = slave + 1 /\ field' = f0 /\ byte' = 0 /\ data_ptr' = base /\ phase' = phase
        BY <1>5, <2>2 DEF Advance
      <3> QED
        BY <1>2, <2>1, <2>2, <3>1 DEF Last, Further
    <2>3. CASE ~(slave < drives)
      <3>1. phase' = then /\ slave' = 1 /\ field' = 0 /\ byte' = 0 /\ data_ptr' = Inputs(1)
        BY <1>5, <2>3 DEF Advance
      <3>2. Last(l)
        BY <1>2, <2>1, <2>3 DEF Last
      <3> QED
        BY <3>1, <3>2
    <2> QED
      BY <2>2, <2>3
  <1> QED
    BY <1>3, <1>4, <1>5

\* After it the loop has passed the bytes it had, and the one it was at.
LEMMA PassedNext ==
  ASSUME drives \in Nat \ {0}, slave \in 1 .. drives, NEW l, NEW at, NEW size, Tiles(l, at, size),
         NEW f0 \in {0, 1}, NEW base, field \in DOMAIN l, byte \in 0 .. l[field] - 1,
         Last(l) \/ Further(l, at, f0, base),
         NEW s \in 1 .. drives, NEW f \in DOMAIN l, NEW k \in 0 .. l[f] - 1
  PROVE  /\ Last(l) => Passed(s, f, k) \/ (s = slave /\ f = field /\ k = byte)
         /\ Further(l, at, f0, base) /\ Passed(s, f, k)'
              => Passed(s, f, k) \/ (s = slave /\ f = field /\ k = byte)
  <1>1. /\ Len(l) \in Nat /\ DOMAIN l = 1 .. Len(l) /\ \A g \in DOMAIN l : l[g] \in Nat
    <2>1. Len(l) \in 1 .. 3 /\ DOMAIN l = 1 .. Len(l) /\ \A g \in DOMAIN l : l[g] \in {2, 4}
      BY Zenon DEF Tiles
    <2> QED
      BY <2>1
  <1>2. /\ field \in Nat /\ byte \in Nat /\ byte < l[field] /\ slave \in Nat /\ l[field] \in Nat
        /\ s \in Nat /\ s <= drives /\ s >= 1 /\ f \in Nat /\ f <= Len(l) /\ f >= 1
        /\ k \in Nat /\ k < l[f] /\ l[f] \in Nat
    BY <1>1
  <1>3. ASSUME Last(l) PROVE Passed(s, f, k) \/ (s = slave /\ f = field /\ k = byte)
    <2>1. CASE s = slave /\ f = field
      BY <1>2, <1>3, <2>1 DEF Last, Passed
    <2>2. CASE s = slave /\ f # field
      BY <1>1, <1>2, <1>3, <2>2 DEF Last, Passed
    <2>3. CASE s # slave
      BY <1>2, <1>3, <2>3 DEF Last, Passed
    <2> QED
      BY <2>1, <2>2, <2>3
  <1>4. ASSUME Further(l, at, f0, base), Passed(s, f, k)'
        PROVE  Passed(s, f, k) \/ (s = slave /\ f = field /\ k = byte)
    <2>1. CASE s = slave
      <3>1. CASE f = field
        BY <1>2, <1>4, <2>1, <3>1 DEF Further, Passed
      <3>2. CASE f # field
        BY <1>1, <1>2, <1>4, <2>1, <3>2 DEF Further, Passed
      <3> QED
        BY <3>1, <3>2
    <2>2. CASE s # slave
      BY <1>1, <1>2, <1>4, <2>2 DEF Further, Passed
    <2> QED
      BY <2>1, <2>2
  <1> QED
    BY <1>3, <1>4

\* And data_ptr is where it has to be: p is where the part of the drive begins.
LEMMA PlaceNext ==
  ASSUME drives \in Nat \ {0}, slave \in 1 .. drives, NEW l, NEW at, NEW size, Tiles(l, at, size),
         NEW f0, NEW base, field \in DOMAIN l, byte \in 0 .. l[field] - 1,
         NEW p \in Nat, data_ptr = p + at[field] + byte, Further(l, at, f0, base)
  PROVE  \/ /\ slave' = slave /\ field' \in DOMAIN l /\ byte' \in 0 .. l[field'] - 1
            /\ data_ptr' = p + at[field'] + byte'
         \/ /\ slave' = slave + 1 /\ slave + 1 \in 1 .. drives /\ field' = f0 /\ byte' = 0
            /\ data_ptr' = base
  <1>1. \A g \in DOMAIN l : l[g] \in Nat \ {0} /\ at[g] \in Nat
    <2>1. DOMAIN l = 1 .. Len(l) /\ \A g \in DOMAIN l : l[g] \in {2, 4} /\ at[g] \in Nat
      BY Zenon DEF Tiles
    <2> QED
      BY <2>1
  <1>2. byte \in Nat /\ l[field] \in Nat /\ at[field] \in Nat
    BY <1>1
  <1>3. CASE slave' = slave /\ field' = field
    <2>1. byte' = byte + 1 /\ byte + 1 < l[field] /\ data_ptr' = data_ptr + 1
      BY <1>2, <1>3 DEF Further
    <2> QED
      BY <1>2, <1>3, <2>1
  <1>4. CASE slave' = slave /\ field' = field + 1 /\ field' # field
    <2>1. /\ field + 1 \in DOMAIN l /\ byte' = 0 /\ data_ptr' = data_ptr + 1
          /\ at[field + 1] = at[field] + byte + 1
      BY <1>4 DEF Further
    <2>2. field' \in DOMAIN l /\ l[field'] \in Nat \ {0} /\ at[field'] = at[field] + byte + 1
      BY <1>1, <1>4, <2>1
    <2> QED
      BY <1>2, <1>4, <2>1, <2>2
  <1>5. CASE slave' = slave + 1 /\ slave' # slave
    BY <1>5 DEF Further
  <1>6. slave + 1 # slave
    OBVIOUS
  <1> QED
    BY <1>3, <1>4, <1>5, <1>6 DEF Further

-----------------------------------------------------------------------------
(* Types and places.                                                       *)

\* The map of the bus does not change.
LEMMA Still ==
  ASSUME UNCHANGED <<kind, drives>>
  PROVE  /\ Addresses' = Addresses /\ OutputWidths' = OutputWidths /\ InputWidths' = InputWidths
         /\ \A s : Outputs(s)' = Outputs(s) /\ Inputs(s)' = Inputs(s)
  BY DEF Addresses, OutputWidths, InputWidths, Outputs, Inputs

LEMMA DrivesType == TypeOK => kind \in Kind /\ drives \in Nat \ {0} /\ slave \in 1 .. drives
  BY PdoAssumption DEF TypeOK

LEMMA LayoutDomains ==
  ASSUME kind \in Kind
  PROVE  /\ DOMAIN RxLayout[kind] \subseteq 1 .. 3 /\ 1 \in DOMAIN RxLayout[kind]
         /\ DOMAIN TxLayout[kind] \subseteq 1 .. 3 /\ 1 \in DOMAIN TxLayout[kind]
         /\ \A f \in DOMAIN RxLayout[kind] : RxLayout[kind][f] \in {2, 4}
         /\ \A f \in DOMAIN TxLayout[kind] : TxLayout[kind][f] \in {2, 4}
         /\ OutputAt[kind][1] = 0 /\ InputAt[kind][1] = 0
  <1>1. \A l, at, size : Tiles(l, at, size) =>
          /\ DOMAIN l \subseteq 1 .. 3 /\ 1 \in DOMAIN l /\ at[1] = 0
          /\ \A f \in DOMAIN l : l[f] \in {2, 4}
    <2>1. ASSUME NEW l, NEW at, NEW size, Tiles(l, at, size)
          PROVE  /\ Len(l) \in 1 .. 3 /\ DOMAIN l = 1 .. Len(l) /\ at[1] = 0
                 /\ \A f \in DOMAIN l : l[f] \in {2, 4}
      BY <2>1, Zenon DEF Tiles
    <2>2. \A n \in 1 .. 3 : 1 .. n \subseteq 1 .. 3 /\ 1 \in 1 .. n
      OBVIOUS
    <2> QED
      BY <2>1, <2>2
  <1> QED
    BY <1>1, Layouts

\* The words of a structure of the program, and those the drives report.
LEMMA RxWords ==
  ASSUME kind \in Kind, NEW V, NEW w \in [1 .. drives -> Words(RxLayout[kind], V)]
  PROVE  w \in [1 .. drives -> [DOMAIN RxLayout[kind] -> SUBSET (0 .. 4 * Octet - 1)]]
  BY LayoutDomains, WordsCut

LEMMA TxWords ==
  ASSUME kind \in Kind, NEW V, NEW w \in [1 .. drives -> Words(TxLayout[kind], V)]
  PROVE  w \in [1 .. drives -> [DOMAIN TxLayout[kind] -> SUBSET (0 .. 4 * Octet - 1)]]
  BY LayoutDomains, WordsCut

LEMMA ReportWords ==
  ASSUME kind \in Kind, NEW V, NEW w \in [1 .. drives -> Words(InputWidths, V)]
  PROVE  /\ w \in [1 .. drives -> [DOMAIN InputAt[kind] -> SUBSET (0 .. 4 * Octet - 1)]]
         /\ \A s \in 1 .. drives : \A f \in DOMAIN InputAt[kind] :
              w[s][f] \subseteq 0 .. Octet * InputWidths[f] - 1
  <1>1. /\ DOMAIN InputWidths = DOMAIN InputAt[kind]
        /\ \A f \in DOMAIN InputWidths : InputWidths[f] \in {2, 4}
    BY Layouts, LayoutDomains
  <1> QED
    BY <1>1, WordsCut

\* A frame that returns leaves the words it brings where the drives have them.
LEMMA Reports ==
  ASSUME kind \in Kind, drives \in Nat \ {0}, NEW w, NEW n \in [Addresses -> SUBSET (0 .. Octet - 1)],
         NEW m, m = [a \in Addresses |-> IF a < Inputs(1) THEN n[a] ELSE InputByte(w, a)]
  PROVE  /\ m \in [Addresses -> SUBSET (0 .. Octet - 1)]
         /\ \A s \in 1 .. drives : Holds(m, Inputs(s), InputAt[kind], InputWidths, w[s])
  <1>1. \A a : InputByte(w, a) \in SUBSET (0 .. Octet - 1)
    BY OctetBits DEF InputByte
  <1>2. m \in [Addresses -> SUBSET (0 .. Octet - 1)]
    BY <1>1
  <1>3. ASSUME NEW s \in 1 .. drives, NEW f \in DOMAIN InputAt[kind], NEW k \in 0 .. InputWidths[f] - 1
        PROVE  m[Inputs(s) + InputAt[kind][f] + k] = OctetOf(w[s][f], k)
    <2>1. f \in DOMAIN TxLayout[kind] /\ InputWidths[f] = TxLayout[kind][f]
      BY Layouts
    <2>2. /\ Inputs(s) + InputAt[kind][f] + k \in Addresses
          /\ ~(Inputs(s) + InputAt[kind][f] + k < Inputs(1))
      BY <2>1, InputPlaces
    <2>3. InputByte(w, Inputs(s) + InputAt[kind][f] + k) = OctetOf(w[s][f], k)
      BY InputByteAt
    <2> QED
      BY <2>2, <2>3
  <1> QED
    BY <1>2, <1>3 DEF Holds

\* Where data_ptr is is an address.
LEMMA PlaceAddress ==
  kind \in Kind /\ drives \in Nat \ {0} /\ slave \in 1 .. drives /\ byte \in Nat
    /\ PlaceInv /\ phase \in {"out", "frame", "in"} => data_ptr \in Addresses
  <1> SUFFICES ASSUME kind \in Kind, drives \in Nat \ {0}, slave \in 1 .. drives, byte \in Nat,
                      PlaceInv, phase \in {"out", "frame", "in"}
               PROVE  data_ptr \in Addresses
    OBVIOUS
  <1>1. CASE phase = "out"
    <2>1. /\ field \in DOMAIN RxLayout[kind] /\ RxLayout[kind][field] \in Nat
          /\ byte < RxLayout[kind][field] /\ data_ptr = Outputs(slave) + OutputAt[kind][field] + byte
      <3>1. field \in DOMAIN RxLayout[kind] /\ RxLayout[kind][field] \in {2, 4}
        BY <1>1, LayoutDomains DEF PlaceInv
      <3> QED
        BY <1>1, <3>1 DEF PlaceInv
    <2>2. byte \in 0 .. RxLayout[kind][field] - 1
      BY <2>1
    <2> QED
      BY <2>1, <2>2, OutputPlaces
  <1>2. CASE phase \in {"frame", "in"} /\ field = 0
    BY <1>2, Apart DEF PlaceInv
  <1>3. CASE phase = "in" /\ field # 0
    <2>1. /\ field \in DOMAIN TxLayout[kind] /\ TxLayout[kind][field] \in Nat
          /\ byte < TxLayout[kind][field] /\ data_ptr = Inputs(slave) + InputAt[kind][field] + byte
      <3>1. field \in DOMAIN TxLayout[kind] /\ TxLayout[kind][field] \in {2, 4}
        BY <1>3, LayoutDomains DEF PlaceInv
      <3> QED
        BY <1>3, <3>1 DEF PlaceInv
    <2>2. byte \in 0 .. TxLayout[kind][field] - 1
      BY <2>1
    <2> QED
      BY <2>1, <2>2, InputPlaces
  <1>4. phase = "frame" => field = 0
    BY DEF PlaceInv
  <1> QED
    BY <1>1, <1>2, <1>3, <1>4

LEMMA PlaceAddressNext ==
  (kind \in Kind /\ drives \in Nat \ {0} /\ slave \in 1 .. drives /\ byte \in Nat
    /\ PlaceInv /\ phase \in {"out", "frame", "in"} => data_ptr \in Addresses)'
  BY PlaceAddress, PTL

LEMMA PdoInit == Init => PdoInv
  <1> SUFFICES ASSUME Init PROVE PdoInv
    OBVIOUS
  <1>1. /\ kind \in Kind /\ drives \in 1 .. N /\ drives \in Nat \ {0}
        /\ phase = "new" /\ slave = 1 /\ field = 1 /\ byte = 0 /\ data_ptr = 0
    BY PdoAssumption DEF Init
  <1>2. /\ rx \in [1 .. drives -> [DOMAIN RxLayout[kind] -> SUBSET (0 .. 4 * Octet - 1)]]
        /\ tx \in [1 .. drives -> [DOMAIN TxLayout[kind] -> SUBSET (0 .. 4 * Octet - 1)]]
    BY <1>1, RxWords, TxWords DEF Init
  <1>3. /\ reported \in [1 .. drives -> [DOMAIN InputAt[kind] -> SUBSET (0 .. 4 * Octet - 1)]]
        /\ \A s \in 1 .. drives : \A f \in DOMAIN InputAt[kind] :
             reported[s][f] \subseteq 0 .. Octet * InputWidths[f] - 1
    BY <1>1, ReportWords DEF Init
  <1>4. /\ io_map \in [Addresses -> SUBSET (0 .. Octet - 1)]
        /\ \A s \in 1 .. drives : Holds(io_map, Inputs(s), InputAt[kind], InputWidths, reported[s])
    <2> DEFINE n == [a \in Addresses |-> {}]
    <2>1. n \in [Addresses -> SUBSET (0 .. Octet - 1)]
      OBVIOUS
    <2>2. io_map = [a \in Addresses |-> IF a < Inputs(1) THEN n[a] ELSE InputByte(reported, a)]
      BY DEF Init
    <2> HIDE DEF n
    <2> QED
      BY <1>1, <2>1, <2>2, Reports
  <1>5. data_ptr \in Addresses
    <2>1. 1 \in 1 .. drives /\ 0 \in 0 .. OutputSize[kind] - 1 /\ Outputs(1) + 0 = 0
      BY <1>1, Parts
    <2> QED
      BY <1>1, <2>1, Apart
  <1>6. TypeOK
    BY <1>1, <1>2, <1>3, <1>4, <1>5 DEF TypeOK
  <1>7. PlaceInv /\ OutputInv /\ TakenInv
    BY <1>1 DEF PlaceInv, OutputInv, TakenInv
  <1>8. InputInv
    BY <1>3, <1>4 DEF InputInv
  <1> QED
    BY <1>6, <1>7, <1>8 DEF PdoInv

\* A step of the loop over the outputs, and one over the inputs.
LEMMA StoreStep ==
  ASSUME TypeOK, PlaceInv, Store
  PROVE  /\ drives \in Nat \ {0} /\ kind \in Kind /\ slave \in 1 .. drives
         /\ Tiles(RxLayout[kind], OutputAt[kind], OutputSize[kind])
         /\ field \in DOMAIN RxLayout[kind] /\ byte \in 0 .. RxLayout[kind][field] - 1
         /\ data_ptr = Outputs(slave) + OutputAt[kind][field] + byte /\ Outputs(slave) \in Nat
         /\ Last(RxLayout[kind]) => /\ phase' = "frame" /\ slave' = 1 /\ field' = 0 /\ byte' = 0
                                    /\ data_ptr' = Inputs(1)
         /\ ~Last(RxLayout[kind]) =>
              phase' = "out" /\ Further(RxLayout[kind], OutputAt[kind], 1, Outputs(slave + 1))
  <1>1. drives \in Nat \ {0} /\ kind \in Kind /\ slave \in 1 .. drives /\ byte \in 0 .. 3
    BY DrivesType DEF TypeOK
  <1>2. Tiles(RxLayout[kind], OutputAt[kind], OutputSize[kind])
    BY <1>1, Layouts
  <1>3. /\ phase = "out" /\ field \in DOMAIN RxLayout[kind] /\ byte < RxLayout[kind][field]
        /\ data_ptr = Outputs(slave) + OutputAt[kind][field] + byte
    BY DEF Store, PlaceInv
  <1>4. byte \in 0 .. RxLayout[kind][field] - 1
    <2>1. RxLayout[kind][field] \in {2, 4}
      BY <1>1, <1>3, LayoutDomains
    <2> QED
      BY <1>1, <1>3, <2>1
  <1>5. Outputs(slave) \in Nat
    <2>1. slave \in 1 .. drives + 1
      BY <1>1
    <2> QED
      BY <1>1, <2>1, Parts
  <1>6. Advance(RxLayout[kind], 1, Outputs(slave + 1), "frame")
    BY DEF Store
  <1> QED
    BY <1>1, <1>2, <1>3, <1>4, <1>5, <1>6, Advanced

LEMMA LoadStep ==
  ASSUME TypeOK, PlaceInv, Load
  PROVE  /\ drives \in Nat \ {0} /\ kind \in Kind /\ slave \in 1 .. drives
         /\ Tiles(TxLayout[kind], InputAt[kind], InputSize[kind])
         /\ field \in DOMAIN TxLayout[kind] /\ byte \in 0 .. TxLayout[kind][field] - 1
         /\ data_ptr = Inputs(slave) + InputAt[kind][field] + byte /\ Inputs(slave) \in Nat
         /\ Last(TxLayout[kind]) => /\ phase' = "idle" /\ slave' = 1 /\ field' = 0 /\ byte' = 0
                                    /\ data_ptr' = Inputs(1)
         /\ ~Last(TxLayout[kind]) =>
              phase' = "in" /\ Further(TxLayout[kind], InputAt[kind], 0, Inputs(slave + 1))
  <1>1. drives \in Nat \ {0} /\ kind \in Kind /\ slave \in 1 .. drives /\ byte \in 0 .. 3
    BY DrivesType DEF TypeOK
  <1>2. Tiles(TxLayout[kind], InputAt[kind], InputSize[kind])
    BY <1>1, Layouts
  <1>3. /\ phase = "in" /\ field \in DOMAIN TxLayout[kind] /\ byte < TxLayout[kind][field]
        /\ data_ptr = Inputs(slave) + InputAt[kind][field] + byte
    BY DEF Load, PlaceInv
  <1>4. byte \in 0 .. TxLayout[kind][field] - 1
    <2>1. TxLayout[kind][field] \in {2, 4}
      BY <1>1, <1>3, LayoutDomains
    <2> QED
      BY <1>1, <1>3, <2>1
  <1>5. Inputs(slave) \in Nat
    <2>1. slave \in 1 .. drives + 1
      BY <1>1
    <2> QED
      BY <1>1, <2>1, Parts
  <1>6. Advance(TxLayout[kind], 0, Inputs(slave + 1), "idle")
    BY DEF Load
  <1> QED
    BY <1>1, <1>2, <1>3, <1>4, <1>5, <1>6, Advanced

LEMMA MapStill == [Next]_vars => UNCHANGED <<kind, drives>>
  BY DEF Next, vars, Command, Store, Frame, Clear, Load

LEMMA PlaceStep == TypeOK /\ PlaceInv /\ [Next]_vars => PlaceInv' /\ slave' \in 1 .. drives
                                                      /\ field' \in 0 .. 3 /\ byte' \in 0 .. 3
  <1> SUFFICES ASSUME TypeOK, PlaceInv, [Next]_vars
               PROVE  PlaceInv' /\ slave' \in 1 .. drives /\ field' \in 0 .. 3 /\ byte' \in 0 .. 3
    OBVIOUS
  <1>1. /\ kind' = kind /\ drives' = drives /\ \A s : Outputs(s)' = Outputs(s) /\ Inputs(s)' = Inputs(s)
    BY MapStill, Still
  <1>2. /\ kind \in Kind /\ drives \in Nat \ {0} /\ slave \in 1 .. drives
        /\ field \in 0 .. 3 /\ byte \in 0 .. 3 /\ 1 \in 1 .. drives
    BY DrivesType DEF TypeOK
  <1>3. /\ DOMAIN RxLayout[kind] \subseteq 1 .. 3 /\ 1 \in DOMAIN RxLayout[kind]
        /\ DOMAIN TxLayout[kind] \subseteq 1 .. 3 /\ 1 \in DOMAIN TxLayout[kind]
        /\ \A f \in DOMAIN RxLayout[kind] : RxLayout[kind][f] \in 1 .. 4
        /\ \A f \in DOMAIN TxLayout[kind] : TxLayout[kind][f] \in 1 .. 4
        /\ OutputAt[kind][1] = 0 /\ InputAt[kind][1] = 0
    <2>1. \A n \in {2, 4} : n \in 1 .. 4
      OBVIOUS
    <2> QED
      BY <1>2, <2>1, LayoutDomains
  <1>4. CASE Command
    <2>1. phase' = "out" /\ slave' = 1 /\ field' = 1 /\ byte' = 0 /\ data_ptr' = Outputs(1)
      BY <1>4 DEF Command
    <2>2. Outputs(1) = Outputs(1) + 0 + 0
      BY <1>2, Parts
    <2> QED
      BY <1>1, <1>2, <1>3, <2>1, <2>2 DEF PlaceInv
  <1>5. CASE Store
    <2>1. CASE Last(RxLayout[kind])
      <3>1. /\ phase' = "frame" /\ slave' = 1 /\ field' = 0 /\ byte' = 0 /\ data_ptr' = Inputs(1)
        BY <1>5, <2>1, StoreStep
      <3> QED
        BY <1>1, <1>2, <3>1 DEF PlaceInv
    <2>2. CASE ~Last(RxLayout[kind])
      <3>1. /\ phase' = "out"
            /\ \/ /\ slave' = slave /\ field' \in DOMAIN RxLayout[kind]
                  /\ byte' \in 0 .. RxLayout[kind][field'] - 1
                  /\ data_ptr' = Outputs(slave) + OutputAt[kind][field'] + byte'
               \/ /\ slave' = slave + 1 /\ slave + 1 \in 1 .. drives /\ field' = 1 /\ byte' = 0
                  /\ data_ptr' = Outputs(slave + 1)
        BY <1>5, <2>2, StoreStep, PlaceNext
      <3>2. CASE /\ slave' = slave /\ field' \in DOMAIN RxLayout[kind]
                 /\ byte' \in 0 .. RxLayout[kind][field'] - 1
                 /\ data_ptr' = Outputs(slave) + OutputAt[kind][field'] + byte'
        <4>1. byte' \in 0 .. 3 /\ byte' < RxLayout[kind][field']
          BY <1>3, <3>2
        <4> QED
          BY <1>1, <1>2, <1>3, <3>1, <3>2, <4>1 DEF PlaceInv
      <3>3. CASE /\ slave' = slave + 1 /\ slave + 1 \in 1 .. drives /\ field' = 1 /\ byte' = 0
                 /\ data_ptr' = Outputs(slave + 1)
        <4>1. Outputs(slave + 1) = Outputs(slave + 1) + 0 + 0
          <5>1. slave + 1 \in 1 .. drives + 1
            BY <1>2, <3>3
          <5> QED
            BY <1>2, <5>1, Parts
        <4> QED
          BY <1>1, <1>2, <1>3, <3>1, <3>3, <4>1 DEF PlaceInv
      <3> QED
        BY <3>1, <3>2, <3>3
    <2> QED
      BY <2>1, <2>2
  <1>6. CASE Frame
    BY <1>1, <1>2, <1>6 DEF Frame, PlaceInv
  <1>7. CASE Clear
    <2>1. /\ phase = "in" /\ phase' = "in" /\ slave' = slave /\ field' = 1 /\ byte' = 0
          /\ data_ptr' = Inputs(slave)
      BY <1>7 DEF Clear, PlaceInv
    <2>2. Inputs(slave) = Inputs(slave) + 0 + 0
      <3>1. slave \in 1 .. drives + 1
        BY <1>2
      <3> QED
        BY <1>2, <3>1, Parts
    <2> QED
      BY <1>1, <1>2, <1>3, <2>1, <2>2 DEF PlaceInv
  <1>8. CASE Load
    <2>1. CASE Last(TxLayout[kind])
      <3>1. /\ phase' = "idle" /\ slave' = 1 /\ field' = 0 /\ byte' = 0
        BY <1>8, <2>1, LoadStep
      <3> QED
        BY <1>1, <1>2, <3>1 DEF PlaceInv
    <2>2. CASE ~Last(TxLayout[kind])
      <3>1. /\ phase' = "in"
            /\ \/ /\ slave' = slave /\ field' \in DOMAIN TxLayout[kind]
                  /\ byte' \in 0 .. TxLayout[kind][field'] - 1
                  /\ data_ptr' = Inputs(slave) + InputAt[kind][field'] + byte'
               \/ /\ slave' = slave + 1 /\ slave + 1 \in 1 .. drives /\ field' = 0 /\ byte' = 0
                  /\ data_ptr' = Inputs(slave + 1)
        BY <1>8, <2>2, LoadStep, PlaceNext
      <3>2. CASE /\ slave' = slave /\ field' \in DOMAIN TxLayout[kind]
                 /\ byte' \in 0 .. TxLayout[kind][field'] - 1
                 /\ data_ptr' = Inputs(slave) + InputAt[kind][field'] + byte'
        <4>1. byte' \in 0 .. 3 /\ byte' < TxLayout[kind][field'] /\ field' # 0
          BY <1>3, <3>2
        <4> QED
          BY <1>1, <1>2, <1>3, <3>1, <3>2, <4>1 DEF PlaceInv
      <3>3. CASE /\ slave' = slave + 1 /\ slave + 1 \in 1 .. drives /\ field' = 0 /\ byte' = 0
                 /\ data_ptr' = Inputs(slave + 1)
        BY <1>1, <1>2, <3>1, <3>3 DEF PlaceInv
      <3> QED
        BY <3>1, <3>2, <3>3
    <2> QED
      BY <2>1, <2>2
  <1>9. CASE UNCHANGED vars
    BY <1>1, <1>2, <1>9 DEF vars, PlaceInv
  <1> QED
    BY <1>4, <1>5, <1>6, <1>7, <1>8, <1>9 DEF Next

LEMMA TypeNext == TypeOK /\ PlaceInv /\ [Next]_vars => TypeOK'
  <1> SUFFICES ASSUME TypeOK, PlaceInv, [Next]_vars PROVE TypeOK'
    OBVIOUS
  <1>1. /\ kind' = kind /\ drives' = drives /\ Addresses' = Addresses
        /\ kind \in Kind /\ drives \in Nat \ {0} /\ slave \in 1 .. drives
    BY MapStill, Still, DrivesType
  <1>2. PlaceInv' /\ slave' \in 1 .. drives /\ field' \in 0 .. 3 /\ byte' \in 0 .. 3
    BY PlaceStep
  <1>3. phase' \in {"new", "idle", "out", "frame", "in"}
    BY StoreStep, LoadStep DEF Next, vars, Command, Frame, Clear, TypeOK
  <1>4. data_ptr' \in Addresses
    <2>1. CASE phase' \in {"out", "frame", "in"}
      <3>1. (kind \in Kind /\ drives \in Nat \ {0} /\ slave \in 1 .. drives /\ byte \in Nat)'
        BY <1>1, <1>2
      <3> QED
        BY <1>1, <1>2, <2>1, <3>1, PlaceAddressNext
    <2>2. CASE phase' = "idle"
      <3>1. 1 \in 1 .. drives
        BY <1>1
      <3>2. data_ptr' = Inputs(1) \/ data_ptr' = data_ptr
        BY <2>2, StoreStep, LoadStep DEF Next, vars, Command, Frame, Clear
      <3> QED
        BY <1>1, <3>1, <3>2, Apart DEF TypeOK
    <2>3. CASE phase' = "new"
      <3>1. data_ptr' = data_ptr
        BY <2>3, StoreStep, LoadStep DEF Next, vars, Command, Frame, Clear
      <3> QED
        BY <3>1 DEF TypeOK
    <2> QED
      BY <1>3, <2>1, <2>2, <2>3
  <1>5. rx' \in [1 .. drives -> [DOMAIN RxLayout[kind] -> SUBSET (0 .. 4 * Octet - 1)]]
    <2>1. rx' = rx \/ rx' \in [1 .. drives -> Words(RxLayout[kind], Values)]
      BY DEF Next, vars, Command, Store, Frame, Clear, Load
    <2> QED
      BY <1>1, <2>1, RxWords DEF TypeOK
  <1>6. io_map' \in [Addresses -> SUBSET (0 .. Octet - 1)]
    <2>1. CASE Store
      BY <2>1, OctetBits DEF Store, TypeOK
    <2>2. CASE Frame
      <3>1. \A w, a : InputByte(w, a) \in SUBSET (0 .. Octet - 1)
        BY OctetBits DEF InputByte
      <3>2. \/ io_map' = io_map
            \/ io_map' = [a \in Addresses |-> IF a < Inputs(1) THEN io_map[a] ELSE InputByte(reported', a)]
        BY <2>2 DEF Frame
      <3> QED
        BY <3>1, <3>2 DEF TypeOK
    <2>3. CASE io_map' = io_map
      BY <2>3 DEF TypeOK
    <2> QED
      BY <2>1, <2>2, <2>3 DEF Next, vars, Command, Clear, Load
  <1>7. reported' \in [1 .. drives -> [DOMAIN InputAt[kind] -> SUBSET (0 .. 4 * Octet - 1)]]
    <2>1. reported' = reported \/ reported' \in [1 .. drives -> Words(InputWidths, Values)]
      BY DEF Next, vars, Command, Store, Frame, Clear, Load
    <2> QED
      BY <1>1, <2>1, ReportWords DEF TypeOK
  <1>8. tx' \in [1 .. drives -> [DOMAIN TxLayout[kind] -> SUBSET (0 .. 4 * Octet - 1)]]
    <2>1. CASE Clear
      BY <2>1 DEF Clear, TypeOK
    <2>2. CASE Load
      <3>1. /\ field \in DOMAIN TxLayout[kind] /\ slave \in 1 .. drives
            /\ io_map[data_ptr] \in SUBSET (0 .. Octet - 1) /\ byte \in 0 .. 3
        BY <2>2, LoadStep DEF TypeOK
      <3>2. Shifted(io_map[data_ptr], byte) \in SUBSET (0 .. 4 * Octet - 1)
        BY <3>1, ShiftedBits
      <3>3. tx' = [tx EXCEPT ![slave][field] = @ \cup Shifted(io_map[data_ptr], byte)]
        BY <2>2 DEF Load
      <3> QED
        BY <3>1, <3>2, <3>3 DEF TypeOK
    <2>3. CASE tx' = tx
      BY <2>3 DEF TypeOK
    <2> QED
      BY <2>1, <2>2, <2>3 DEF Next, vars, Command, Store, Frame
  <1> QED
    BY <1>1, <1>2, <1>3, <1>4, <1>5, <1>6, <1>7, <1>8 DEF TypeOK

-----------------------------------------------------------------------------
(* The bytes stored, the reports, and what is made of them.                *)

LEMMA OutputNext == TypeOK /\ PlaceInv /\ OutputInv /\ [Next]_vars => OutputInv'
  <1> SUFFICES ASSUME TypeOK, PlaceInv, OutputInv, [Next]_vars PROVE OutputInv'
    OBVIOUS
  <1>1. /\ kind' = kind /\ drives' = drives /\ OutputWidths' = OutputWidths
        /\ \A s : Outputs(s)' = Outputs(s)
    BY MapStill, Still
  <1>2. /\ kind \in Kind /\ drives \in Nat \ {0} /\ DOMAIN OutputAt[kind] = DOMAIN RxLayout[kind]
        /\ \A f \in DOMAIN RxLayout[kind] : OutputWidths[f] = RxLayout[kind][f]
    BY DrivesType, Layouts
  <1> SUFFICES ASSUME NEW s \in 1 .. drives, NEW f \in DOMAIN RxLayout[kind],
                      NEW k \in 0 .. RxLayout[kind][f] - 1,
                      phase' = "frame" \/ (phase' = "out" /\ Passed(s, f, k)')
               PROVE  io_map'[Outputs(s) + OutputAt[kind][f] + k] = OctetOf(rx'[s][f], k)
    BY <1>1, <1>2 DEF OutputInv
  <1>3. phase = "frame" \/ (phase = "out" /\ Passed(s, f, k))
          => io_map[Outputs(s) + OutputAt[kind][f] + k] = OctetOf(rx[s][f], k)
    BY <1>2 DEF OutputInv
  <1>4. CASE Command
    <2>1. phase' = "out" /\ slave' = 1 /\ field' = 1 /\ byte' = 0
      BY <1>4 DEF Command
    <2>2. s \in 1 .. drives /\ f \in 1 .. 3 /\ k \in Nat
      <3>1. f \in 1 .. 3 /\ RxLayout[kind][f] \in {2, 4}
        BY <1>2, LayoutDomains
      <3> QED
        BY <3>1
    <2> QED
      BY <1>2, <2>1, <2>2 DEF Passed
  <1>5. CASE Store
    <2> DEFINE a == Outputs(s) + OutputAt[kind][f] + k
    <2>1. /\ phase = "out" /\ rx' = rx
          /\ io_map' = [io_map EXCEPT ![data_ptr] = OctetOf(rx[slave][field], byte)]
      BY <1>5 DEF Store
    <2>2. Passed(s, f, k) \/ (s = slave /\ f = field /\ k = byte)
      BY <1>5, StoreStep, PassedNext
    <2>3. a \in Addresses /\ io_map \in [Addresses -> SUBSET (0 .. Octet - 1)]
      BY <1>2, OutputPlaces DEF TypeOK
    <2>4. CASE s = slave /\ f = field /\ k = byte
      <3>1. a = data_ptr
        BY <1>5, <2>4, StoreStep
      <3> QED
        BY <2>1, <2>3, <2>4, <3>1
    <2>5. CASE ~(s = slave /\ f = field /\ k = byte)
      <3>1. a # data_ptr
        BY <1>2, <1>5, <2>5, StoreStep, OutputPlaces
      <3>2. io_map'[a] = io_map[a]
        BY <2>1, <2>3, <3>1
      <3> QED
        BY <1>3, <2>1, <2>2, <2>5, <3>2
    <2> QED
      BY <2>4, <2>5
  <1>6. CASE Frame \/ Clear
    BY <1>6 DEF Frame, Clear
  <1>7. CASE Load
    <2>1. phase' \in {"in", "idle"}
      BY <1>7, LoadStep
    <2> QED
      BY <2>1
  <1>8. CASE UNCHANGED vars
    BY <1>3, <1>8 DEF vars, Passed
  <1> QED
    BY <1>4, <1>5, <1>6, <1>7, <1>8 DEF Next

LEMMA InputNext == TypeOK /\ PlaceInv /\ InputInv /\ [Next]_vars => InputInv'
  <1> SUFFICES ASSUME TypeOK, PlaceInv, InputInv, [Next]_vars PROVE InputInv'
    OBVIOUS
  <1>1. /\ kind' = kind /\ drives' = drives /\ InputWidths' = InputWidths
        /\ \A s : Inputs(s)' = Inputs(s)
    BY MapStill, Still
  <1>2. /\ kind \in Kind /\ drives \in Nat \ {0} /\ DOMAIN InputAt[kind] = DOMAIN TxLayout[kind]
        /\ \A f \in DOMAIN TxLayout[kind] : InputWidths[f] = TxLayout[kind][f]
    BY DrivesType, Layouts
  <1>3. CASE Store
    <2>1. reported' = reported /\ io_map' = [io_map EXCEPT ![data_ptr] = OctetOf(rx[slave][field], byte)]
      BY <1>3 DEF Store
    <2>2. data_ptr < Inputs(1)
      BY <1>3, StoreStep, OutputPlaces
    <2>3. ASSUME NEW s \in 1 .. drives, NEW f \in DOMAIN InputAt[kind], NEW k \in 0 .. InputWidths[f] - 1
          PROVE  io_map'[Inputs(s) + InputAt[kind][f] + k] = OctetOf(reported[s][f], k)
      <3> DEFINE a == Inputs(s) + InputAt[kind][f] + k
      <3>1. a \in Addresses /\ ~(a < Inputs(1)) /\ io_map \in [Addresses -> SUBSET (0 .. Octet - 1)]
        BY <1>2, InputPlaces DEF TypeOK
      <3>2. a # data_ptr
        BY <2>2, <3>1
      <3>3. io_map'[a] = io_map[a]
        BY <2>1, <3>1, <3>2
      <3> QED
        BY <3>3 DEF InputInv, Holds
    <2> QED
      BY <1>1, <2>1, <2>3 DEF InputInv, Holds
  <1>4. CASE UNCHANGED <<io_map, reported>>
    BY <1>1, <1>4 DEF InputInv, Holds
  <1>5. CASE Frame /\ ~UNCHANGED <<io_map, reported>>
    <2>1. /\ reported' \in [1 .. drives -> Words(InputWidths, Values)]
          /\ io_map' = [a \in Addresses |-> IF a < Inputs(1) THEN io_map[a] ELSE InputByte(reported', a)]
          /\ io_map \in [Addresses -> SUBSET (0 .. Octet - 1)]
      BY <1>5 DEF Frame, TypeOK
    <2>2. \A s \in 1 .. drives : Holds(io_map', Inputs(s), InputAt[kind], InputWidths, reported'[s])
      BY <1>2, <2>1, Reports
    <2>3. \A s \in 1 .. drives : \A f \in DOMAIN InputAt[kind] :
            reported'[s][f] \subseteq 0 .. Octet * InputWidths[f] - 1
      BY <1>2, <2>1, ReportWords
    <2> QED
      BY <1>1, <2>2, <2>3 DEF InputInv, Holds
  <1> QED
    BY <1>3, <1>4, <1>5 DEF Next, vars, Command, Clear, Load

\* The byte at data_ptr joins the field, and no other field is touched.
LEMMA Loaded ==
  ASSUME TypeOK, PlaceInv, InputInv, TakenInv, Load
  PROVE  /\ tx'[slave][field] = Low(reported[slave][field], byte + 1)
         /\ byte + 1 = TxLayout[kind][field] => tx'[slave][field] = reported[slave][field]
         /\ \A s \in 1 .. drives : \A f \in DOMAIN TxLayout[kind] :
              ~(s = slave /\ f = field) => tx'[s][f] = tx[s][f]
  <1> DEFINE w == reported[slave][field]
  <1>1. /\ kind \in Kind /\ drives \in Nat \ {0} /\ slave \in 1 .. drives /\ field \in DOMAIN TxLayout[kind]
        /\ byte \in 0 .. TxLayout[kind][field] - 1 /\ byte \in Nat
        /\ data_ptr = Inputs(slave) + InputAt[kind][field] + byte
    BY LoadStep DEF TypeOK
  <1>2. /\ DOMAIN InputAt[kind] = DOMAIN TxLayout[kind] /\ InputWidths[field] = TxLayout[kind][field]
        /\ TxLayout[kind][field] \in {2, 4}
    BY <1>1, Layouts, LayoutDomains
  <1>3. tx' = [tx EXCEPT ![slave][field] = @ \cup Shifted(io_map[data_ptr], byte)]
    BY DEF Load
  <1>4. io_map[data_ptr] = OctetOf(w, byte)
    BY <1>1, <1>2 DEF InputInv, Holds
  <1>5. tx[slave][field] = Low(w, byte)
    BY <1>1 DEF Load, TakenInv
  <1>6. w \in SUBSET Nat /\ w \in SUBSET (0 .. Octet * TxLayout[kind][field] - 1)
    <2>1. w \in SUBSET (0 .. 4 * Octet - 1)
      BY <1>1, <1>2 DEF TypeOK
    <2>2. 0 .. 4 * Octet - 1 \subseteq Nat
      BY PdoAssumption
    <2>3. w \in SUBSET (0 .. Octet * TxLayout[kind][field] - 1)
      BY <1>1, <1>2 DEF InputInv
    <2> QED
      BY <2>1, <2>2, <2>3
  <1>7. tx'[slave][field] = tx[slave][field] \cup Shifted(io_map[data_ptr], byte)
    BY <1>1, <1>3 DEF TypeOK
  <1>8. tx'[slave][field] = Low(w, byte + 1)
    BY <1>1, <1>4, <1>5, <1>6, <1>7, LowNext
  <1>9. byte + 1 = TxLayout[kind][field] => tx'[slave][field] = w
    BY <1>2, <1>6, <1>8, LowAll
  <1>10. \A s \in 1 .. drives : \A f \in DOMAIN TxLayout[kind] :
           ~(s = slave /\ f = field) => tx'[s][f] = tx[s][f]
    BY <1>1, <1>3 DEF TypeOK
  <1> QED
    BY <1>8, <1>9, <1>10

LEMMA TakenNext == TypeOK /\ PlaceInv /\ InputInv /\ TakenInv /\ [Next]_vars => TakenInv'
  <1> SUFFICES ASSUME TypeOK, PlaceInv, InputInv, TakenInv, [Next]_vars PROVE TakenInv'
    OBVIOUS
  <1> DEFINE l == TxLayout[kind]
  <1>1. kind' = kind /\ drives' = drives
    BY MapStill
  <1>2. /\ kind \in Kind /\ drives \in Nat \ {0} /\ slave \in 1 .. drives
        /\ DOMAIN l \subseteq 1 .. 3 /\ DOMAIN InputAt[kind] = DOMAIN l
    BY DrivesType, LayoutDomains, Layouts
  <1>3. ASSUME NEW s \in 1 .. drives, NEW f \in DOMAIN l
        PROVE  Low(reported[s][f], 0) = {}
    <2>1. reported[s][f] \in SUBSET (0 .. 4 * Octet - 1)
      BY <1>2 DEF TypeOK
    <2>2. 0 .. 4 * Octet - 1 \subseteq Nat
      BY PdoAssumption
    <2> QED
      BY <2>1, <2>2, LowNone
  <1>4. CASE Command \/ Store
    <2>1. phase' \in {"out", "frame"}
      BY <1>4, StoreStep DEF Command
    <2> QED
      BY <2>1 DEF TakenInv
  <1>5. CASE Frame
    <2>1. phase' = "in" /\ slave' = 1 /\ field' = 0
      BY <1>5 DEF Frame, PlaceInv
    <2>2. \A s \in 1 .. drives : \A f \in DOMAIN l : ~(s < 1) /\ ~(f < 0) /\ f # 0
      BY <1>2
    <2> QED
      BY <1>1, <2>1, <2>2 DEF TakenInv
  <1>6. CASE Clear
    <2>1. /\ phase = "in" /\ phase' = "in" /\ slave' = slave /\ field' = 1 /\ byte' = 0 /\ field = 0
          /\ reported' = reported /\ tx' = [tx EXCEPT ![slave] = [f \in DOMAIN l |-> {}]]
      BY <1>6 DEF Clear, PlaceInv
    <2>2. ASSUME NEW s \in 1 .. drives, NEW f \in DOMAIN l
          PROVE  /\ f \in Nat /\ f >= 1 /\ s \in Nat
                 /\ s = slave => tx'[s][f] = {}
                 /\ s # slave => tx'[s][f] = tx[s][f]
      <3>1. f \in Nat /\ f >= 1 /\ s \in Nat
        BY <1>2
      <3>2. DOMAIN tx = 1 .. drives
        BY DEF TypeOK
      <3> QED
        BY <2>1, <3>1, <3>2
    <2>3. ASSUME NEW s \in 1 .. drives, NEW f \in DOMAIN l
          PROVE  /\ s < slave' \/ (s = slave' /\ f < field') => tx'[s][f] = reported'[s][f]
                 /\ s = slave' /\ f = field' => tx'[s][f] = Low(reported'[s][f], byte')
                 /\ s = slave' /\ field' # 0 /\ f > field' => tx'[s][f] = {}
      <3>1. ASSUME s < slave \/ (s = slave /\ f < 1) PROVE tx'[s][f] = reported'[s][f]
        <4>1. s < slave /\ s # slave
          BY <1>2, <2>2, <3>1
        <4> QED
          BY <2>1, <2>2, <4>1 DEF TakenInv
      <3>2. s = slave => tx'[s][f] = Low(reported'[s][f], 0)
        BY <1>3, <2>1, <2>2
      <3> QED
        BY <2>1, <2>2, <3>1, <3>2
    <2> QED
      BY <1>1, <2>1, <2>3 DEF TakenInv
  <1>7. CASE Load
    <2>1. /\ Len(l) \in Nat /\ DOMAIN l = 1 .. Len(l) /\ field \in DOMAIN l /\ field # 0 /\ byte \in Nat
          /\ phase = "in" /\ reported' = reported
      <3>1. Len(l) \in 1 .. 3 /\ DOMAIN l = 1 .. Len(l)
        BY <1>7, LoadStep, Zenon DEF Tiles
      <3> QED
        BY <1>7, <3>1, LoadStep DEF Load, TypeOK
    <2> DEFINE Now(s, f) ==
                 /\ s < slave \/ (s = slave /\ f < field) => tx'[s][f] = reported[s][f]
                 /\ s = slave /\ f = field => tx'[s][f] = Low(reported[s][f], byte + 1)
                 /\ s = slave /\ f = field /\ byte + 1 = l[field] => tx'[s][f] = reported[s][f]
                 /\ s = slave /\ f > field => tx'[s][f] = {}
    <2>2. ASSUME NEW s \in 1 .. drives, NEW f \in DOMAIN l
          PROVE  Now(s, f) /\ s \in Nat /\ f \in Nat /\ f >= 1 /\ f <= Len(l)
      <3>1. s \in Nat /\ f \in Nat /\ f >= 1 /\ f <= Len(l) /\ slave \in Nat /\ field \in Nat
        BY <1>2, <2>1
      <3>2. CASE s = slave /\ f = field
        BY <1>7, <3>1, <3>2, Loaded
      <3>3. CASE ~(s = slave /\ f = field)
        <4>1. tx'[s][f] = tx[s][f]
          BY <1>7, <3>3, Loaded
        <4> QED
          BY <2>1, <3>1, <3>3, <4>1 DEF TakenInv
      <3> QED
        BY <3>1, <3>2, <3>3
    <2> HIDE DEF Now
    <2>3. CASE Last(l)
      <3>1. phase' = "idle"
        BY <1>7, <2>3, LoadStep
      <3>2. ASSUME NEW s \in 1 .. drives, NEW f \in DOMAIN l PROVE tx'[s][f] = reported[s][f]
        <4>1. Now(s, f) /\ s \in Nat /\ s <= drives /\ f \in Nat /\ f <= Len(l)
          BY <1>2, <2>2
        <4>2. s < slave \/ (s = slave /\ f < field) \/ (s = slave /\ f = field)
          BY <1>2, <2>1, <2>3, <4>1 DEF Last
        <4> QED
          BY <2>3, <4>1, <4>2 DEF Now, Last
      <3> QED
        BY <1>1, <2>1, <3>1, <3>2 DEF TakenInv
    <2>4. CASE ~Last(l)
      <3>1. phase' = "in" /\ Further(l, InputAt[kind], 0, Inputs(slave + 1))
        BY <1>7, <2>4, LoadStep
      <3>2. ASSUME NEW s \in 1 .. drives, NEW f \in DOMAIN l
            PROVE  /\ s < slave' \/ (s = slave' /\ f < field') => tx'[s][f] = reported[s][f]
                   /\ s = slave' /\ f = field' => tx'[s][f] = Low(reported[s][f], byte')
                   /\ s = slave' /\ field' # 0 /\ f > field' => tx'[s][f] = {}
        <4>1. /\ Now(s, f) /\ s \in Nat /\ s <= drives /\ f \in Nat /\ f >= 1 /\ f <= Len(l)
              /\ slave \in Nat /\ field \in Nat
          BY <1>2, <2>1, <2>2
        <4>2. CASE slave' = slave /\ field' = field /\ byte' = byte + 1
          BY <4>1, <4>2 DEF Now
        <4>3. CASE slave' = slave /\ field' = field + 1 /\ byte' = 0 /\ byte + 1 = l[field]
          <5>1. f < field + 1 => f < field \/ f = field
            BY <4>1
          <5>2. f = field + 1 \/ f > field + 1 => f > field
            BY <4>1
          <5> QED
            BY <1>3, <4>1, <4>3, <5>1, <5>2 DEF Now
        <4>4. CASE /\ slave' = slave + 1 /\ field' = 0 /\ byte' = 0
                   /\ byte + 1 = l[field] /\ field = Len(l)
          <5>1. s < slave + 1 => s < slave \/ (s = slave /\ f < field) \/ (s = slave /\ f = field)
            BY <4>1, <4>4
          <5>2. ~(f < 0) /\ f # 0
            BY <4>1
          <5> QED
            BY <4>1, <4>4, <5>1, <5>2 DEF Now
        <4> QED
          BY <3>1, <4>2, <4>3, <4>4 DEF Further
      <3> QED
        BY <1>1, <2>1, <3>1, <3>2 DEF TakenInv
    <2> QED
      BY <2>3, <2>4
  <1>8. CASE UNCHANGED vars
    BY <1>8 DEF vars, TakenInv
  <1> QED
    BY <1>4, <1>5, <1>6, <1>7, <1>8 DEF Next

-----------------------------------------------------------------------------
(* The theorems.                                                           *)

LEMMA PdoNext == PdoInv /\ [Next]_vars => PdoInv'
  BY TypeNext, PlaceStep, OutputNext, InputNext, TakenNext DEF PdoInv

LEMMA PdoInvariant == Spec => []PdoInv
  BY PdoInit, PdoNext, PTL DEF Spec

(***************************************************************************)
(* The pointer of the loops of update() never leaves io_map, and no byte   *)
(* sets a bit that its field does not have.                                *)
(***************************************************************************)
THEOREM PdoTyped == Spec => []TypeOK
  <1>1. PdoInv => TypeOK
    BY DEF PdoInv
  <1> QED
    BY <1>1, PdoInvariant, PTL

(***************************************************************************)
(* When the frame goes out every drive finds its own words in it, byte by  *)
(* byte where it has mapped them, and what the drives reported is intact.  *)
(***************************************************************************)
THEOREM OutputsArrive == Spec => []OutputsInPlace
  <1>1. PdoInv => OutputsInPlace
    BY DEF PdoInv, OutputInv, InputInv, OutputsInPlace, Holds
  <1> QED
    BY <1>1, PdoInvariant, PTL

(***************************************************************************)
(* Between updates the program reads exactly what each drive reported last *)
(***************************************************************************)
THEOREM ReportsTaken == Spec => []ReportTaken
  <1>1. PdoInv => ReportTaken
    <2> SUFFICES ASSUME PdoInv, phase = "idle" PROVE tx = reported
      BY DEF ReportTaken
    <2>1. /\ kind \in Kind /\ DOMAIN InputAt[kind] = DOMAIN TxLayout[kind]
          /\ tx \in [1 .. drives -> [DOMAIN TxLayout[kind] -> SUBSET (0 .. 4 * Octet - 1)]]
          /\ reported \in [1 .. drives -> [DOMAIN TxLayout[kind] -> SUBSET (0 .. 4 * Octet - 1)]]
      BY Layouts DEF PdoInv, TypeOK
    <2>2. \A s \in 1 .. drives : \A f \in DOMAIN TxLayout[kind] : tx[s][f] = reported[s][f]
      BY DEF PdoInv, TakenInv
    <2> DEFINE R == [DOMAIN TxLayout[kind] -> SUBSET (0 .. 4 * Octet - 1)]
    <2>3. \A s \in 1 .. drives : tx[s] = reported[s]
      BY <2>1, <2>2
    <2>4. tx \in [1 .. drives -> R] /\ reported \in [1 .. drives -> R]
      BY <2>1
    <2> HIDE DEF R
    <2>5. tx = [s \in 1 .. drives |-> tx[s]] /\ reported = [s \in 1 .. drives |-> reported[s]]
      BY <2>4
    <2>6. [s \in 1 .. drives |-> tx[s]] = [s \in 1 .. drives |-> reported[s]]
      BY <2>3
    <2> QED
      BY <2>5, <2>6, Zenon
  <1> QED
    BY <1>1, PdoInvariant, PTL

=============================================================================
