---------------------------- MODULE SamplesProofs ----------------------------
(***************************************************************************)
(* Proofs about DataBus and Samples: what a word keeps on its way over the *)
(* pins, for every word, and what a buffer keeps on its way to the host,   *)
(* for every length of it and every set of values and of status bytes.     *)
(***************************************************************************)
EXTENDS Samples, SequenceTheorems, TLAPS

-----------------------------------------------------------------------------
(***************************************************************************)
(* Where each bit is: at the pins, in the tangled word, and put in order.  *)
(***************************************************************************)
BitNames == {0, 1, 2, 3, 4, 5, 6, 7, 8, 9, 10, 11, 12, 13, 14, 15}

LEMMA BitsListed == Bits = BitNames
BY DEF Bits, BitNames

LEMMA ShiftedBit ==
  ASSUME NEW w, NEW terms, NEW b
  PROVE  b \in Shifted(w, terms) <=> b \in Bits /\ \E t \in terms : t[1] \in w /\ b = t[1] + t[2]
BY DEF Shifted

LEMMA WrittenToA ==
  ASSUME NEW w, NEW p
  PROVE  p \in Shifted(w, WriteShiftA) <=>
           \/ (p = 12 /\ 3 \in w) \/ (p = 11 /\ 4 \in w) \/ (p = 9 /\ 5 \in w) \/ (p = 8 /\ 6 \in w)
           \/ (p = 10 /\ 7 \in w) \/ (p = 4 /\ 9 \in w) \/ (p = 1 /\ 10 \in w) \/ (p = 0 /\ 11 \in w)
           \/ (p = 6 /\ 12 \in w) \/ (p = 7 /\ 13 \in w) \/ (p = 15 /\ 15 \in w)
<1>1. (\E t \in WriteShiftA : t[1] \in w /\ p = t[1] + t[2]) <=>
           \/ (3 \in w /\ p = 3 + 9) \/ (4 \in w /\ p = 4 + 7) \/ (5 \in w /\ p = 5 + 4)
           \/ (6 \in w /\ p = 6 + 2) \/ (7 \in w /\ p = 7 + 3) \/ (9 \in w /\ p = 9 + (-5))
           \/ (10 \in w /\ p = 10 + (-9)) \/ (11 \in w /\ p = 11 + (-11)) \/ (12 \in w /\ p = 12 + (-6))
           \/ (13 \in w /\ p = 13 + (-6)) \/ (15 \in w /\ p = 15 + 0)
  BY DEF WriteShiftA
<1>2. p \in Shifted(w, WriteShiftA) <=>
        p \in Bits /\ \E t \in WriteShiftA : t[1] \in w /\ p = t[1] + t[2]
  BY ShiftedBit
<1> QED  BY <1>1, <1>2 DEF Bits

LEMMA WrittenToC ==
  ASSUME NEW w, NEW p
  PROVE  p \in Shifted(w, WriteShiftC) <=>
           \/ (p = 8 /\ 0 \in w) \/ (p = 6 /\ 1 \in w) \/ (p = 5 /\ 2 \in w)
           \/ (p = 1 /\ 8 \in w) \/ (p = 7 /\ 14 \in w)
<1>1. (\E t \in WriteShiftC : t[1] \in w /\ p = t[1] + t[2]) <=>
           \/ (0 \in w /\ p = 0 + 8) \/ (1 \in w /\ p = 1 + 5) \/ (2 \in w /\ p = 2 + 3)
           \/ (8 \in w /\ p = 8 + (-7)) \/ (14 \in w /\ p = 14 + (-7))
  BY DEF WriteShiftC
<1>2. p \in Shifted(w, WriteShiftC) <=>
        p \in Bits /\ \E t \in WriteShiftC : t[1] \in w /\ p = t[1] + t[2]
  BY ShiftedBit
<1> QED  BY <1>1, <1>2 DEF Bits

LEMMA PinOfBit ==
  /\ DATAPINS[0] = <<"C", 8>> /\ DATAPINS[1] = <<"C", 6>> /\ DATAPINS[2] = <<"C", 5>>
  /\ DATAPINS[3] = <<"A", 12>> /\ DATAPINS[4] = <<"A", 11>> /\ DATAPINS[5] = <<"A", 9>>
  /\ DATAPINS[6] = <<"A", 8>> /\ DATAPINS[7] = <<"A", 10>> /\ DATAPINS[8] = <<"C", 1>>
  /\ DATAPINS[9] = <<"A", 4>> /\ DATAPINS[10] = <<"A", 1>> /\ DATAPINS[11] = <<"A", 0>>
  /\ DATAPINS[12] = <<"A", 6>> /\ DATAPINS[13] = <<"A", 7>> /\ DATAPINS[14] = <<"C", 7>>
  /\ DATAPINS[15] = <<"A", 15>>
BY DEF DATAPINS, Bits

LEMMA PinsOfA ==
  ASSUME NEW w \in SUBSET Bits, NEW p
  PROVE  p \in PinsOf("A", w) <=>
           \/ (p = 12 /\ 3 \in w) \/ (p = 11 /\ 4 \in w) \/ (p = 9 /\ 5 \in w) \/ (p = 8 /\ 6 \in w)
           \/ (p = 10 /\ 7 \in w) \/ (p = 4 /\ 9 \in w) \/ (p = 1 /\ 10 \in w) \/ (p = 0 /\ 11 \in w)
           \/ (p = 6 /\ 12 \in w) \/ (p = 7 /\ 13 \in w) \/ (p = 15 /\ 15 \in w)
<1>1. p \in PinsOf("A", w) <=> \E b \in w : DATAPINS[b][1] = "A" /\ p = DATAPINS[b][2]
  BY DEF PinsOf
<1>2. \A b \in w : b \in BitNames
  BY BitsListed
<1>3. ASSUME NEW b \in w, DATAPINS[b][1] = "A", p = DATAPINS[b][2]
      PROVE
           \/ (p = 12 /\ 3 \in w) \/ (p = 11 /\ 4 \in w) \/ (p = 9 /\ 5 \in w) \/ (p = 8 /\ 6 \in w)
           \/ (p = 10 /\ 7 \in w) \/ (p = 4 /\ 9 \in w) \/ (p = 1 /\ 10 \in w) \/ (p = 0 /\ 11 \in w)
           \/ (p = 6 /\ 12 \in w) \/ (p = 7 /\ 13 \in w) \/ (p = 15 /\ 15 \in w)
  BY <1>2, <1>3, PinOfBit DEF BitNames
<1>4. ASSUME NEW b \in w, DATAPINS[b][1] = "A"
      PROVE  DATAPINS[b][2] \in PinsOf("A", w)
  BY <1>4 DEF PinsOf
<1>5. /\ 3 \in w => 12 \in PinsOf("A", w)
      /\ 4 \in w => 11 \in PinsOf("A", w)
      /\ 5 \in w => 9 \in PinsOf("A", w)
      /\ 6 \in w => 8 \in PinsOf("A", w)
      /\ 7 \in w => 10 \in PinsOf("A", w)
      /\ 9 \in w => 4 \in PinsOf("A", w)
      /\ 10 \in w => 1 \in PinsOf("A", w)
      /\ 11 \in w => 0 \in PinsOf("A", w)
      /\ 12 \in w => 6 \in PinsOf("A", w)
      /\ 13 \in w => 7 \in PinsOf("A", w)
      /\ 15 \in w => 15 \in PinsOf("A", w)
  BY <1>4, PinOfBit
<1> QED  BY <1>1, <1>3, <1>5

LEMMA PinsOfC ==
  ASSUME NEW w \in SUBSET Bits, NEW p
  PROVE  p \in PinsOf("C", w) <=>
           \/ (p = 8 /\ 0 \in w) \/ (p = 6 /\ 1 \in w) \/ (p = 5 /\ 2 \in w)
           \/ (p = 1 /\ 8 \in w) \/ (p = 7 /\ 14 \in w)
<1>1. p \in PinsOf("C", w) <=> \E b \in w : DATAPINS[b][1] = "C" /\ p = DATAPINS[b][2]
  BY DEF PinsOf
<1>2. \A b \in w : b \in BitNames
  BY BitsListed
<1> QED  BY <1>1, <1>2, PinOfBit DEF BitNames

\* write puts each bit on the pin that DATAPINS gives it.
LEMMA WriteIsWired ==
  ASSUME NEW w \in SUBSET Bits
  PROVE  /\ Shifted(w, WriteShiftA) \cap PORT_A_MASK = PinsOf("A", w)
         /\ Shifted(w, WriteShiftC) \cap PORT_C_MASK = PinsOf("C", w)
<1>1. \A p : p \in Shifted(w, WriteShiftA) <=> p \in PinsOf("A", w)
  BY WrittenToA, PinsOfA
<1>2. \A p : p \in Shifted(w, WriteShiftC) <=> p \in PinsOf("C", w)
  BY WrittenToC, PinsOfC
<1>3. \A p \in PinsOf("A", w) : p \in PORT_A_MASK
  BY PinsOfA DEF PORT_A_MASK
<1>4. \A p \in PinsOf("C", w) : p \in PORT_C_MASK
  BY PinsOfC DEF PORT_C_MASK
<1> QED  BY <1>1, <1>2, <1>3, <1>4

\* The word that read makes of the pins, tangled.
Tangled(w) == PackPins(PinsOf("A", w), PinsOf("C", w))

LEMMA ReadFromC ==
  ASSUME NEW c, NEW q
  PROVE  q \in Shifted(c, ReadShiftC) <=>
           \/ (q = 2 /\ 1 \in c) \/ (q = 3 /\ 8 \in c) \/ (q = 5 /\ 5 \in c)
           \/ (q = 13 /\ 6 \in c) \/ (q = 14 /\ 7 \in c)
<1>1. (\E t \in ReadShiftC : t[1] \in c /\ q = t[1] + t[2]) <=>
           \/ (1 \in c /\ q = 1 + 1) \/ (8 \in c /\ q = 8 + (-5)) \/ (5 \in c /\ q = 5 + 0)
           \/ (6 \in c /\ q = 6 + 7) \/ (7 \in c /\ q = 7 + 7)
  BY DEF ReadShiftC
<1>2. q \in Shifted(c, ReadShiftC) <=>
        q \in Bits /\ \E t \in ReadShiftC : t[1] \in c /\ q = t[1] + t[2]
  BY ShiftedBit
<1> QED  BY <1>1, <1>2 DEF Bits

\* No two bits share a position of the tangled word.
LEMMA TangledBit ==
  ASSUME NEW w \in SUBSET Bits
  PROVE  /\ Tangled(w) \subseteq Bits
         /\ (3 \in Tangled(w) <=> 0 \in w) /\ (13 \in Tangled(w) <=> 1 \in w)
         /\ (5 \in Tangled(w) <=> 2 \in w) /\ (12 \in Tangled(w) <=> 3 \in w)
         /\ (11 \in Tangled(w) <=> 4 \in w) /\ (9 \in Tangled(w) <=> 5 \in w)
         /\ (8 \in Tangled(w) <=> 6 \in w) /\ (10 \in Tangled(w) <=> 7 \in w)
         /\ (2 \in Tangled(w) <=> 8 \in w) /\ (4 \in Tangled(w) <=> 9 \in w)
         /\ (1 \in Tangled(w) <=> 10 \in w) /\ (0 \in Tangled(w) <=> 11 \in w)
         /\ (6 \in Tangled(w) <=> 12 \in w) /\ (7 \in Tangled(w) <=> 13 \in w)
         /\ (14 \in Tangled(w) <=> 14 \in w) /\ (15 \in Tangled(w) <=> 15 \in w)
<1>. DEFINE a == PinsOf("A", w)
            c == PinsOf("C", w)
<1>1. \A q : q \in Tangled(w) <=>
        (q \in a /\ q \in PORT_A_MASK) \/ q \in Shifted(c \cap PORT_C_MASK, ReadShiftC)
  BY DEF Tangled, PackPins
<1>2. c \cap PORT_C_MASK = c
  BY PinsOfC DEF PORT_C_MASK
<1>3. \A q \in a : q \in PORT_A_MASK
  BY PinsOfA DEF PORT_A_MASK
<1>4. \A q : q \in Tangled(w) <=> q \in a \/ q \in Shifted(c, ReadShiftC)
  BY <1>1, <1>2, <1>3
<1>5. \A q : q \in Shifted(c, ReadShiftC) <=>
           \/ (q = 2 /\ 1 \in c) \/ (q = 3 /\ 8 \in c) \/ (q = 5 /\ 5 \in c)
           \/ (q = 13 /\ 6 \in c) \/ (q = 14 /\ 7 \in c)
  BY ReadFromC
<1>6. /\ (1 \in c <=> 8 \in w) /\ (8 \in c <=> 0 \in w) /\ (5 \in c <=> 2 \in w)
      /\ (6 \in c <=> 1 \in w) /\ (7 \in c <=> 14 \in w)
  BY PinsOfC
<1>7. \A q : q \in a <=>
           \/ (q = 12 /\ 3 \in w) \/ (q = 11 /\ 4 \in w) \/ (q = 9 /\ 5 \in w) \/ (q = 8 /\ 6 \in w)
           \/ (q = 10 /\ 7 \in w) \/ (q = 4 /\ 9 \in w) \/ (q = 1 /\ 10 \in w) \/ (q = 0 /\ 11 \in w)
           \/ (q = 6 /\ 12 \in w) \/ (q = 7 /\ 13 \in w) \/ (q = 15 /\ 15 \in w)
  BY PinsOfA
<1>. HIDE DEF a, c
<1>8. Tangled(w) \subseteq Bits
  BY <1>4, <1>5, <1>7 DEF Bits
<1>9. \A q \in {2, 3, 5, 13, 14} : q \notin a
  BY <1>7
<1>10. \A q \in BitNames \ {2, 3, 5, 13, 14} : q \notin Shifted(c, ReadShiftC)
  BY <1>5 DEF BitNames
<1>11. /\ (3 \in Tangled(w) <=> 0 \in w) /\ (13 \in Tangled(w) <=> 1 \in w)
       /\ (5 \in Tangled(w) <=> 2 \in w) /\ (2 \in Tangled(w) <=> 8 \in w)
       /\ (14 \in Tangled(w) <=> 14 \in w)
  BY <1>4, <1>5, <1>6, <1>9
<1>12. \A q \in BitNames \ {2, 3, 5, 13, 14} : q \in Tangled(w) <=> q \in a
  BY <1>4, <1>10
<1>13. /\ (12 \in a <=> 3 \in w) /\ (11 \in a <=> 4 \in w) /\ (9 \in a <=> 5 \in w)
       /\ (8 \in a <=> 6 \in w) /\ (10 \in a <=> 7 \in w) /\ (4 \in a <=> 9 \in w)
       /\ (1 \in a <=> 10 \in w) /\ (0 \in a <=> 11 \in w) /\ (6 \in a <=> 12 \in w)
       /\ (7 \in a <=> 13 \in w) /\ (15 \in a <=> 15 \in w)
  BY <1>7
<1>14. BitNames \ {2, 3, 5, 13, 14} = {0, 1, 4, 6, 7, 8, 9, 10, 11, 12, 15}
  BY DEF BitNames
<1> QED  BY <1>8, <1>11, <1>12, <1>13, <1>14

\* decode_loop takes each bit from its position.
LEMMA UntangledBit ==
  ASSUME NEW raw
  PROVE  /\ untangle(raw) \subseteq Bits
         /\ (0 \in untangle(raw) <=> 3 \in raw) /\ (1 \in untangle(raw) <=> 13 \in raw)
         /\ (2 \in untangle(raw) <=> 5 \in raw) /\ (3 \in untangle(raw) <=> 12 \in raw)
         /\ (4 \in untangle(raw) <=> 11 \in raw) /\ (5 \in untangle(raw) <=> 9 \in raw)
         /\ (6 \in untangle(raw) <=> 8 \in raw) /\ (7 \in untangle(raw) <=> 10 \in raw)
         /\ (8 \in untangle(raw) <=> 2 \in raw) /\ (9 \in untangle(raw) <=> 4 \in raw)
         /\ (10 \in untangle(raw) <=> 1 \in raw) /\ (11 \in untangle(raw) <=> 0 \in raw)
         /\ (12 \in untangle(raw) <=> 6 \in raw) /\ (13 \in untangle(raw) <=> 7 \in raw)
         /\ (14 \in untangle(raw) <=> 14 \in raw) /\ (15 \in untangle(raw) <=> 15 \in raw)
<1>1. \A b : b \in untangle(raw) <=> b \in Bits /\ 15 - UntangleOrder[16 - b] \in raw
  BY DEF untangle
<1>2. \A b \in Bits : b \in untangle(raw) <=> 15 - UntangleOrder[16 - b] \in raw
  BY <1>1
<1>3. /\ UntangleOrder[1] = 0 /\ UntangleOrder[2] = 1 /\ UntangleOrder[3] = 8
      /\ UntangleOrder[4] = 9 /\ UntangleOrder[5] = 15 /\ UntangleOrder[6] = 14
      /\ UntangleOrder[7] = 11 /\ UntangleOrder[8] = 13 /\ UntangleOrder[9] = 5
      /\ UntangleOrder[10] = 7 /\ UntangleOrder[11] = 6 /\ UntangleOrder[12] = 4
      /\ UntangleOrder[13] = 3 /\ UntangleOrder[14] = 10 /\ UntangleOrder[15] = 2
      /\ UntangleOrder[16] = 12
  BY DEF UntangleOrder
<1>4. \A b \in BitNames : b \in Bits
  BY BitsListed
<1>5. \A b \in BitNames : b \in untangle(raw) <=> 15 - UntangleOrder[16 - b] \in raw
  BY <1>2, <1>4
<1>6. untangle(raw) \subseteq Bits
  BY <1>1
<1> QED  BY <1>3, <1>5, <1>6 DEF BitNames

LEMMA WordRecovered ==
  ASSUME NEW w \in SUBSET Bits
  PROVE  untangle(Tangled(w)) = w
<1>. DEFINE u == untangle(Tangled(w))
<1>1. u \subseteq BitNames /\ w \subseteq BitNames
  BY UntangledBit, BitsListed
<1>2. \A b \in BitNames : b \in u <=> b \in w
  BY TangledBit, UntangledBit DEF BitNames
<1> QED  BY <1>1, <1>2

LEMMA DetangledBit ==
  ASSUME NEW raw, NEW b
  PROVE  b \in detangle(raw) <=>
           \/ (b = 11 /\ 0 \in raw) \/ (b = 10 /\ 1 \in raw) \/ (b = 8 /\ 2 \in raw)
           \/ (b = 0 /\ 3 \in raw) \/ (b = 9 /\ 4 \in raw) \/ (b = 2 /\ 5 \in raw)
           \/ (b = 12 /\ 6 \in raw) \/ (b = 13 /\ 7 \in raw) \/ (b = 6 /\ 8 \in raw)
           \/ (b = 5 /\ 9 \in raw) \/ (b = 7 /\ 10 \in raw) \/ (b = 4 /\ 11 \in raw)
           \/ (b = 3 /\ 12 \in raw) \/ (b = 12 /\ 13 \in raw) \/ (b = 14 /\ 14 \in raw)
           \/ (b = 15 /\ 15 \in raw)
<1>1. (\E t \in DetangleShift : t[1] \in raw /\ b = t[1] + t[2]) <=>
           \/ (0 \in raw /\ b = 0 + 11) \/ (1 \in raw /\ b = 1 + 9) \/ (2 \in raw /\ b = 2 + 6)
           \/ (3 \in raw /\ b = 3 + (-3)) \/ (4 \in raw /\ b = 4 + 5) \/ (5 \in raw /\ b = 5 + (-3))
           \/ (6 \in raw /\ b = 6 + 6) \/ (7 \in raw /\ b = 7 + 6) \/ (8 \in raw /\ b = 8 + (-2))
           \/ (9 \in raw /\ b = 9 + (-4)) \/ (10 \in raw /\ b = 10 + (-3)) \/ (11 \in raw /\ b = 11 + (-7))
           \/ (12 \in raw /\ b = 12 + (-9)) \/ (13 \in raw /\ b = 13 + (-1)) \/ (14 \in raw /\ b = 14 + 0)
           \/ (15 \in raw /\ b = 15 + 0)
  BY DEF DetangleShift
<1>2. b \in Shifted(raw, DetangleShift) <=>
        b \in Bits /\ \E t \in DetangleShift : t[1] \in raw /\ b = t[1] + t[2]
  BY ShiftedBit
<1> QED  BY <1>1, <1>2 DEF Bits, detangle

\* detangle takes each bit but 1 and 12 from its position.
LEMMA AlmostRecovered ==
  ASSUME NEW w \in SUBSET Bits
  PROVE  /\ detangle(Tangled(w)) \subseteq Bits
         /\ \A b \in BitNames \ {1, 12} : b \in detangle(Tangled(w)) <=> b \in w
         /\ detangle(Tangled(w)) \ {1, 12} = w \ {1, 12}
<1>. DEFINE d == detangle(Tangled(w))
<1>1. d \subseteq Bits
  BY DEF detangle, Shifted
<1>2. \A b \in {0, 2, 3, 4, 5, 6, 7, 8, 9, 10, 11, 13, 14, 15} : b \in d <=> b \in w
  BY TangledBit, DetangledBit
<1>3. BitNames \ {1, 12} = {0, 2, 3, 4, 5, 6, 7, 8, 9, 10, 11, 13, 14, 15}
  BY DEF BitNames
<1>. HIDE DEF d
<1>4. d \ {1, 12} = w \ {1, 12}
  BY <1>1, <1>2, <1>3, BitsListed
<1> QED  BY <1>1, <1>2, <1>3, <1>4 DEF d

LEMMA MaskedBit ==
  ASSUME NEW w, NEW mask, NEW right \in Nat, NEW x
  PROVE  x \in Masked(w, mask, right) <=>
           x \in Bits /\ x + right \in Bits /\ x + right \in w /\ x + right \in mask
<1>. DEFINE terms == { <<b, -right>> : b \in Bits }
<1>1. x \in Masked(w, mask, right) <=>
        x \in Bits /\ \E t \in terms : t[1] \in w \cap mask /\ x = t[1] + t[2]
  BY ShiftedBit DEF Masked
<1>2. (\E t \in terms : t[1] \in w \cap mask /\ x = t[1] + t[2]) <=>
        \E b \in Bits : b \in w \cap mask /\ x = b + (-right)
  <2>1. ASSUME NEW t \in terms, t[1] \in w \cap mask, x = t[1] + t[2]
        PROVE  \E b \in Bits : b \in w \cap mask /\ x = b + (-right)
    <3>1. PICK b \in Bits : t = <<b, -right>>
      OBVIOUS
    <3>2. t[1] = b /\ t[2] = -right
      BY <3>1
    <3>. HIDE DEF terms
    <3> QED  BY <2>1, <3>2
  <2>2. ASSUME NEW b \in Bits, b \in w \cap mask, x = b + (-right)
        PROVE  \E t \in terms : t[1] \in w \cap mask /\ x = t[1] + t[2]
    <3>1. <<b, -right>> \in terms
      OBVIOUS
    <3>2. <<b, -right>>[1] = b /\ <<b, -right>>[2] = -right
      OBVIOUS
    <3>. HIDE DEF terms
    <3> QED  BY <2>2, <3>1, <3>2
  <2>. HIDE DEF terms
  <2> QED  BY <2>1, <2>2
<1>. HIDE DEF terms
<1>3. ASSUME x \in Bits
      PROVE  (\E b \in Bits : b \in w \cap mask /\ x = b + (-right)) <=>
               x + right \in Bits /\ x + right \in w /\ x + right \in mask
  <2>1. \A b \in Bits : x = b + (-right) <=> b = x + right
    BY <1>3 DEF Bits
  <2> QED  BY <2>1
<1> QED  BY <1>1, <1>2, <1>3

\* A column of one bit.
LEMMA ColumnOfOne ==
  ASSUME NEW w \in SUBSET Bits, NEW b \in Bits
  PROVE  Masked(w, {b}, b) = IF b \in w THEN {0} ELSE {}
<1>1. b \in Nat /\ 0 \in Bits /\ 0 + b = b
  BY DEF Bits
<1>2. \A x \in Bits : x + b = b <=> x = 0
  BY DEF Bits
<1>3. \A x : x \in Masked(w, {b}, b) <=> x \in Bits /\ x + b \in Bits /\ x + b \in w /\ x + b \in {b}
  BY <1>1, MaskedBit
<1>4. \A x : x \in Masked(w, {b}, b) <=> x = 0 /\ b \in w
  BY <1>1, <1>2, <1>3
<1> QED  BY <1>4

LEMMA ColumnOfTwo ==
  ASSUME NEW w \in SUBSET Bits
  PROVE  Masked(w, {14, 15}, 14) =
           (IF 14 \in w THEN {0} ELSE {}) \cup (IF 15 \in w THEN {1} ELSE {})
<1>1. \A x : x \in Masked(w, {14, 15}, 14) <=>
        x \in Bits /\ x + 14 \in Bits /\ x + 14 \in w /\ x + 14 \in {14, 15}
  BY MaskedBit
<1>2. \A x : x \in Masked(w, {14, 15}, 14) <=> (x = 0 /\ 14 \in w) \/ (x = 1 /\ 15 \in w)
  BY <1>1 DEF Bits
<1> QED  BY <1>2

\* The columns that ColumnsShown names, cut from any word but for its bits 1 and 12.
LEMMA ColumnsCut ==
  ASSUME NEW w \in SUBSET Bits
  PROVE  LET table == StatusTable(detangle(Tangled(w)))
             Flag(b) == IF b \in w THEN {0} ELSE {}
         IN  /\ table.part_no = (IF 14 \in w THEN {0} ELSE {})
                                  \cup (IF 15 \in w THEN {1} ELSE {})
             /\ table.low_pwr = Flag(9) /\ table.overrange = Flag(8)
             /\ table.download_ok = Flag(7) /\ table.user_ok = Flag(6)
             /\ table.user_en = Flag(5)
<1>. DEFINE d == detangle(Tangled(w))
<1>1. /\ d \in SUBSET Bits
      /\ \A b \in {5, 6, 7, 8, 9, 14, 15} : b \in Bits /\ (b \in d <=> b \in w)
  BY AlmostRecovered, BitsListed DEF BitNames
<1>. HIDE DEF d
<1>2. /\ StatusTable(d).part_no = Masked(d, {14, 15}, 14)
      /\ StatusTable(d).low_pwr = Masked(d, {9}, 9)
      /\ StatusTable(d).overrange = Masked(d, {8}, 8)
      /\ StatusTable(d).download_ok = Masked(d, {7}, 7)
      /\ StatusTable(d).user_ok = Masked(d, {6}, 6)
      /\ StatusTable(d).user_en = Masked(d, {5}, 5)
  BY DEF StatusTable
<1>3. \A b \in {5, 6, 7, 8, 9} : Masked(d, {b}, b) = IF b \in w THEN {0} ELSE {}
  <2>. SUFFICES ASSUME NEW b \in {5, 6, 7, 8, 9}
                PROVE  Masked(d, {b}, b) = IF b \in w THEN {0} ELSE {}
    OBVIOUS
  <2>1. d \in SUBSET Bits /\ b \in Bits /\ (b \in d <=> b \in w)
    BY <1>1
  <2>2. Masked(d, {b}, b) = IF b \in d THEN {0} ELSE {}
    BY <2>1, ColumnOfOne
  <2> QED  BY <2>1, <2>2
<1>4. Masked(d, {14, 15}, 14) =
        (IF 14 \in w THEN {0} ELSE {}) \cup (IF 15 \in w THEN {1} ELSE {})
  BY <1>1, ColumnOfTwo
<1> QED  BY <1>2, <1>3, <1>4 DEF d

-----------------------------------------------------------------------------
(***************************************************************************)
(* The bus: what the pins mean, as long as somebody drives them.           *)
(***************************************************************************)
BusInv ==
  /\ word \subseteq Bits
  /\ driver \in {"mcu", "adc"} => (port_a = PinsOf("A", word) /\ port_c = PinsOf("C", word))
  /\ received # NoWord => (driver = "adc" /\ received = Tangled(word))

LEMMA BusInit == Init => BusInv
BY DEF Init, BusInv

LEMMA BusWritten ==
  ASSUME NEW w \in SUBSET Bits, write(w)
  PROVE  BusInv'
<1>1. /\ word' = w /\ received' = NoWord
      /\ port_a' = PinsOf("A", w) /\ port_c' = PinsOf("C", w)
  BY WriteIsWired DEF write
<1> QED  BY <1>1 DEF BusInv

LEMMA BusDriven ==
  ASSUME NEW w \in SUBSET Bits, AdcDrives(w)
  PROVE  BusInv'
BY DEF AdcDrives, BusInv

LEMMA BusRead ==
  ASSUME BusInv, read
  PROVE  BusInv' /\ received' = Tangled(word)
<1>1. port_a = PinsOf("A", word) /\ port_c = PinsOf("C", word)
  BY DEF BusInv, read
<1>2. received' = Tangled(word)
  BY <1>1 DEF read, Tangled
<1>3. UNCHANGED <<port_a, port_c, driver, word>> /\ driver = "adc"
  BY DEF read
<1> QED  BY <1>2, <1>3 DEF BusInv

LEMMA BusKept ==
  ASSUME BusInv, UNCHANGED busVars
  PROVE  BusInv'
BY DEF BusInv, busVars

LEMMA BusStep ==
  ASSUME BusInv, BusNext
  PROVE  BusInv'
<1>1. CASE \E w \in SUBSET Bits : write(w)
  BY <1>1, BusWritten
<1>2. CASE \E w \in SUBSET Bits : AdcDrives(w)
  BY <1>2, BusDriven
<1>3. CASE read
  BY <1>3, BusRead
<1>4. CASE Release
  BY <1>4 DEF Release, BusInv
<1> QED  BY <1>1, <1>2, <1>3, <1>4 DEF BusNext

LEMMA BusMeans ==
  ASSUME BusInv
  PROVE  WrittenAsWired /\ HostRecoversWord /\ DetangleElsewhere /\ ColumnsShown
<1>1. word \in SUBSET Bits
  BY DEF BusInv
<1>2. WrittenAsWired
  BY DEF BusInv, WrittenAsWired
<1>3. HostRecoversWord
  BY <1>1, WordRecovered DEF BusInv, HostRecoversWord
<1>4. DetangleElsewhere
  BY <1>1, AlmostRecovered DEF BusInv, DetangleElsewhere
<1>5. ColumnsShown
  <2>1. received # NoWord => received = Tangled(word)
    BY DEF BusInv
  <2> QED  BY <1>1, <2>1, ColumnsCut DEF ColumnsShown
<1> QED  BY <1>2, <1>3, <1>4, <1>5

-----------------------------------------------------------------------------
(***************************************************************************)
(* A sample of 32 bits is two words, and comes apart and together again.   *)
(***************************************************************************)
Bits32 == 0 .. 31

LEMMA MovedBit ==
  ASSUME NEW bits, \A b \in bits : b \in Int, NEW by \in Int, NEW x \in Int
  PROVE  x \in MoveBits(bits, by) <=> x - by \in bits
<1>1. x \in MoveBits(bits, by) <=> \E b \in bits : x = b + by
  BY DEF MoveBits
<1>2. \A b \in bits : x = b + by <=> b = x - by
  OBVIOUS
<1> QED  BY <1>1, <1>2

LEMMA MovedBits ==
  ASSUME NEW bits, \A b \in bits : b \in Int, NEW by \in Int
  PROVE  \A x \in MoveBits(bits, by) : x \in Int /\ x - by \in bits
BY DEF MoveBits

LEMMA WordsOfSample ==
  ASSUME NEW d \in SUBSET Bits32
  PROVE  /\ MostSignificant(d) \in SUBSET Bits
         /\ LeastSignificant(d) \in SUBSET Bits
         /\ concatenate(MostSignificant(d), LeastSignificant(d)) = d
<1>. DEFINE high == { b \in d : b > 15 }
            m == MostSignificant(d)
            l == LeastSignificant(d)
<1>1. (\A b \in high : b \in Int) /\ -16 \in Int
  BY DEF Bits32
<1>2. \A x \in m : x \in Int /\ x - (-16) \in high
  BY <1>1, MovedBits DEF MostSignificant
<1>3. m \in SUBSET Bits
  BY <1>2 DEF Bits, Bits32
<1>4. l \in SUBSET Bits
  BY DEF LeastSignificant
<1>5. \A x \in Int : x \in m <=> x - (-16) \in high
  BY <1>1, MovedBit DEF MostSignificant
<1>6. \A x \in Int : x \in MoveBits(m, 16) <=> x - 16 \in m
  <2>1. \A b \in m : b \in Int
    BY <1>2
  <2> QED  BY <2>1, MovedBit
<1>7. \A x \in MoveBits(m, 16) : x \in Int
  <2>1. \A b \in m : b \in Int
    BY <1>2
  <2> QED  BY <2>1, MovedBits
<1>8. \A x \in Int : x \in MoveBits(m, 16) <=> x \in high
  <2>. SUFFICES ASSUME NEW x \in Int
                PROVE  x \in MoveBits(m, 16) <=> x \in high
    OBVIOUS
  <2>1. x - 16 \in Int /\ (x - 16) - (-16) = x
    OBVIOUS
  <2>. HIDE DEF m, high
  <2> QED  BY <1>5, <1>6, <2>1
<1>9. \A x : x \in MoveBits(m, 16) <=> x \in high
  <2>. HIDE DEF m
  <2> QED  BY <1>1, <1>7, <1>8
<1>10. \A x \in d : x \in Bits \/ x > 15
  BY DEF Bits, Bits32
<1>11. concatenate(m, l) = MoveBits(m, 16) \cup (d \cap Bits)
  BY DEF concatenate, LeastSignificant
<1>12. concatenate(m, l) = high \cup (d \cap Bits)
  <2>. HIDE DEF m, l
  <2> QED  BY <1>9, <1>11
<1>13. concatenate(m, l) = d
  <2>. HIDE DEF m, l
  <2> QED  BY <1>10, <1>12
<1> QED  BY <1>3, <1>4, <1>13

LEMMA SampleOfWords ==
  ASSUME NEW m \in SUBSET Bits, NEW l \in SUBSET Bits
  PROVE  /\ concatenate(m, l) \in SUBSET Bits32
         /\ MostSignificant(concatenate(m, l)) = m
         /\ LeastSignificant(concatenate(m, l)) = l
<1>. DEFINE up == MoveBits(m, 16)
            d == concatenate(m, l)
            high == { b \in d : b > 15 }
<1>1. \A b \in m : b \in Int
  BY DEF Bits
<1>2. \A x \in up : x \in Int /\ x - 16 \in m
  BY <1>1, MovedBits
<1>3. \A x \in Int : x \in up <=> x - 16 \in m
  BY <1>1, MovedBit
<1>4. \A x \in up : x \in 16 .. 31
  <2>. HIDE DEF up
  <2> QED  BY <1>2 DEF Bits
<1>5. d = up \cup l
  BY DEF concatenate
<1>6. (\A x \in up : x \in Int /\ x > 15 /\ x \in 0 .. 31 /\ x \notin Bits)
  <2>. HIDE DEF up
  <2> QED  BY <1>4 DEF Bits
<1>7. \A x \in l : x \in 0 .. 31 /\ ~(x > 15) /\ x \in Bits
  BY DEF Bits
<1>8. \A x : x \in d <=> x \in up \/ x \in l
  BY <1>5
<1>. HIDE DEF up, d
<1>9. d \in SUBSET Bits32
  BY <1>6, <1>7, <1>8 DEF Bits32
<1>10. high = up
  BY <1>6, <1>7, <1>8
<1>11. LeastSignificant(d) = l
  BY <1>6, <1>7, <1>8 DEF LeastSignificant
<1>12. MostSignificant(d) = MoveBits(up, -16)
  BY <1>10 DEF MostSignificant
<1>13. MoveBits(up, -16) = m
  <2>1. \A x \in up : x \in Int
    BY <1>2
  <2>2. \A x \in MoveBits(up, -16) : x \in Int
    BY <2>1, MovedBits
  <2>3. \A x \in Int : x \in MoveBits(up, -16) <=> x - (-16) \in up
    BY <2>1, MovedBit
  <2>4. \A x \in Int : x - (-16) \in Int /\ (x - (-16)) - 16 = x
    OBVIOUS
  <2>5. \A x \in Int : x \in MoveBits(up, -16) <=> x \in m
    BY <1>3, <2>3, <2>4
  <2> QED  BY <1>1, <2>2, <2>5
<1> QED  BY <1>9, <1>11, <1>12, <1>13 DEF d

\* The two reads and the host's two untangled strings give the word again.
LEMMA SampleRecovered ==
  ASSUME NEW d \in SUBSET Bits32, NEW msb \in SUBSET Bits,
         untangle(msb) = MostSignificant(d)
  PROVE  LET raw == concatenate(msb, Tangled(LeastSignificant(d)))
         IN  raw \in SUBSET Bits32 /\ untangle_sample(raw) = d
<1>. DEFINE lsb == Tangled(LeastSignificant(d))
            raw == concatenate(msb, lsb)
<1>1. LeastSignificant(d) \in SUBSET Bits
  BY WordsOfSample
<1>2. lsb \in SUBSET Bits /\ untangle(lsb) = LeastSignificant(d)
  BY <1>1, TangledBit, WordRecovered
<1>. HIDE DEF lsb
<1>3. raw \in SUBSET Bits32 /\ MostSignificant(raw) = msb /\ LeastSignificant(raw) = lsb
  BY <1>2, SampleOfWords
<1>. HIDE DEF raw
<1>4. untangle_sample(raw) = concatenate(untangle(msb), untangle(lsb))
  BY <1>3 DEF untangle_sample
<1>5. untangle_sample(raw) = concatenate(MostSignificant(d), LeastSignificant(d))
  BY <1>2, <1>4
<1>6. untangle_sample(raw) = d
  BY <1>5, WordsOfSample
<1> QED  BY <1>3, <1>6 DEF raw, lsb

-----------------------------------------------------------------------------
(***************************************************************************)
(* Numbers of 24 bits.  Both recursive functions have a closed form in the *)
(* powers of two, which shows that they exist; then they are unfolded.     *)
(***************************************************************************)
TwoTo ==
  <<1, 2, 4, 8, 16, 32, 64, 128, 256,
    512, 1024, 2048, 4096, 8192, 16384, 32768, 65536, 131072,
    262144, 524288, 1048576, 2097152, 4194304, 8388608, 16777216>>

\* What a number loses to the right when it is shifted by k: floor(n / 2^k).
FloorBy(n, k) == n \div TwoTo[k + 1]

LEMMA FloorSteps ==
  ASSUME NEW n \in Int
  PROVE  /\ FloorBy(n, 0) = n
         /\ \A k \in 1 .. 24 : FloorBy(n, k) = FloorBy(n, k - 1) \div 2
<1>1. /\ n \div 1 = n
      /\ n \div 2 = (n \div 1) \div 2
      /\ n \div 4 = (n \div 2) \div 2
      /\ n \div 8 = (n \div 4) \div 2
      /\ n \div 16 = (n \div 8) \div 2
      /\ n \div 32 = (n \div 16) \div 2
      /\ n \div 64 = (n \div 32) \div 2
      /\ n \div 128 = (n \div 64) \div 2
      /\ n \div 256 = (n \div 128) \div 2
      /\ n \div 512 = (n \div 256) \div 2
      /\ n \div 1024 = (n \div 512) \div 2
      /\ n \div 2048 = (n \div 1024) \div 2
      /\ n \div 4096 = (n \div 2048) \div 2
      /\ n \div 8192 = (n \div 4096) \div 2
      /\ n \div 16384 = (n \div 8192) \div 2
      /\ n \div 32768 = (n \div 16384) \div 2
      /\ n \div 65536 = (n \div 32768) \div 2
      /\ n \div 131072 = (n \div 65536) \div 2
      /\ n \div 262144 = (n \div 131072) \div 2
      /\ n \div 524288 = (n \div 262144) \div 2
      /\ n \div 1048576 = (n \div 524288) \div 2
      /\ n \div 2097152 = (n \div 1048576) \div 2
      /\ n \div 4194304 = (n \div 2097152) \div 2
      /\ n \div 8388608 = (n \div 4194304) \div 2
      /\ n \div 16777216 = (n \div 8388608) \div 2
  OBVIOUS
<1>2. /\ FloorBy(n, 0) = n \div 1
      /\ FloorBy(n, 1) = n \div 2
      /\ FloorBy(n, 2) = n \div 4
      /\ FloorBy(n, 3) = n \div 8
      /\ FloorBy(n, 4) = n \div 16
      /\ FloorBy(n, 5) = n \div 32
      /\ FloorBy(n, 6) = n \div 64
      /\ FloorBy(n, 7) = n \div 128
      /\ FloorBy(n, 8) = n \div 256
      /\ FloorBy(n, 9) = n \div 512
      /\ FloorBy(n, 10) = n \div 1024
      /\ FloorBy(n, 11) = n \div 2048
      /\ FloorBy(n, 12) = n \div 4096
      /\ FloorBy(n, 13) = n \div 8192
      /\ FloorBy(n, 14) = n \div 16384
      /\ FloorBy(n, 15) = n \div 32768
      /\ FloorBy(n, 16) = n \div 65536
      /\ FloorBy(n, 17) = n \div 131072
      /\ FloorBy(n, 18) = n \div 262144
      /\ FloorBy(n, 19) = n \div 524288
      /\ FloorBy(n, 20) = n \div 1048576
      /\ FloorBy(n, 21) = n \div 2097152
      /\ FloorBy(n, 22) = n \div 4194304
      /\ FloorBy(n, 23) = n \div 8388608
      /\ FloorBy(n, 24) = n \div 16777216
  BY DEF FloorBy, TwoTo
<1>3. \A k \in 1 .. 24 : k \in {1, 2, 3, 4, 5, 6, 7, 8, 9, 10, 11, 12, 13, 14, 15, 16, 17, 18, 19, 20, 21, 22, 23, 24}
  OBVIOUS
<1>4. \A k \in {1, 2, 3, 4, 5, 6, 7, 8, 9, 10, 11, 12, 13, 14, 15, 16, 17, 18, 19, 20, 21, 22, 23, 24} : FloorBy(n, k) = FloorBy(n, k - 1) \div 2
  BY <1>1, <1>2
<1> QED  BY <1>1, <1>2, <1>3, <1>4

LEMMA ShiftsUnfold ==
  ASSUME NEW n \in Int
  PROVE  LET by == RightShifts(n)
         IN  by = [k \in 0 .. 24 |-> IF k = 0 THEN n ELSE by[k - 1] \div 2]
<1>. DEFINE by == RightShifts(n)
            Step(g) == [k \in 0 .. 24 |-> IF k = 0 THEN n ELSE g[k - 1] \div 2]
            closed == [k \in 0 .. 24 |-> FloorBy(n, k)]
<1>1. closed = Step(closed)
  <2>1. \A k \in 0 .. 24 : closed[k] = FloorBy(n, k)
    OBVIOUS
  <2>2. \A k \in 0 .. 24 : k # 0 => (k \in 1 .. 24 /\ k - 1 \in 0 .. 24)
    OBVIOUS
  <2>. HIDE DEF closed
  <2>3. \A k \in 0 .. 24 : k # 0 => closed[k - 1] = FloorBy(n, k - 1)
    BY <2>1, <2>2
  <2>4. \A k \in 0 .. 24 : k # 0 => FloorBy(n, k) = closed[k - 1] \div 2
    BY <2>2, <2>3, FloorSteps
  <2>5. \A k \in 0 .. 24 : FloorBy(n, k) = IF k = 0 THEN n ELSE closed[k - 1] \div 2
    BY <2>4, FloorSteps
  <2> QED  BY <2>5 DEF closed
<1>2. \E g : g = Step(g)
  BY <1>1
<1>3. by = CHOOSE g : g = Step(g)
  BY DEF RightShifts
<1>. HIDE DEF by, Step
<1>4. by = Step(by)
  BY <1>2, <1>3
<1> QED  BY <1>4 DEF by, Step

\* Induction up to 24, written out.
LEMMA AgreeTo24 ==
  ASSUME NEW f, NEW g, f[0] = g[0],
         \A k \in 1 .. 24 : f[k - 1] = g[k - 1] => f[k] = g[k]
  PROVE  \A k \in 0 .. 24 : f[k] = g[k]
<1>1. /\ (f[0] = g[0] => f[1] = g[1])
      /\ (f[1] = g[1] => f[2] = g[2])
      /\ (f[2] = g[2] => f[3] = g[3])
      /\ (f[3] = g[3] => f[4] = g[4])
      /\ (f[4] = g[4] => f[5] = g[5])
      /\ (f[5] = g[5] => f[6] = g[6])
      /\ (f[6] = g[6] => f[7] = g[7])
      /\ (f[7] = g[7] => f[8] = g[8])
  <2>1. \A k \in 1 .. 8 : f[k - 1] = g[k - 1] => f[k] = g[k]
    OBVIOUS
  <2> QED  BY <2>1
<1>2. /\ (f[8] = g[8] => f[9] = g[9])
      /\ (f[9] = g[9] => f[10] = g[10])
      /\ (f[10] = g[10] => f[11] = g[11])
      /\ (f[11] = g[11] => f[12] = g[12])
      /\ (f[12] = g[12] => f[13] = g[13])
      /\ (f[13] = g[13] => f[14] = g[14])
      /\ (f[14] = g[14] => f[15] = g[15])
      /\ (f[15] = g[15] => f[16] = g[16])
  <2>1. \A k \in 9 .. 16 : f[k - 1] = g[k - 1] => f[k] = g[k]
    OBVIOUS
  <2> QED  BY <2>1
<1>3. /\ (f[16] = g[16] => f[17] = g[17])
      /\ (f[17] = g[17] => f[18] = g[18])
      /\ (f[18] = g[18] => f[19] = g[19])
      /\ (f[19] = g[19] => f[20] = g[20])
      /\ (f[20] = g[20] => f[21] = g[21])
      /\ (f[21] = g[21] => f[22] = g[22])
      /\ (f[22] = g[22] => f[23] = g[23])
      /\ (f[23] = g[23] => f[24] = g[24])
  <2>1. \A k \in 17 .. 24 : f[k - 1] = g[k - 1] => f[k] = g[k]
    OBVIOUS
  <2> QED  BY <2>1
<1>4. \A k \in 0 .. 24 : k \in {0, 1, 2, 3, 4, 5, 6, 7, 8, 9, 10, 11, 12, 13, 14, 15, 16, 17, 18, 19, 20, 21, 22, 23, 24}
  OBVIOUS
<1> QED  BY <1>1, <1>2, <1>3, <1>4

LEMMA ShiftsAreFloors ==
  ASSUME NEW n \in Int
  PROVE  \A k \in 0 .. 24 : RightShifts(n)[k] = FloorBy(n, k)
<1>. DEFINE by == RightShifts(n)
            floor == [k \in 0 .. 24 |-> FloorBy(n, k)]
<1>1. by = [k \in 0 .. 24 |-> IF k = 0 THEN n ELSE by[k - 1] \div 2]
  BY ShiftsUnfold
<1>. HIDE DEF by
<1>2. by[0] = n /\ \A k \in 1 .. 24 : by[k] = by[k - 1] \div 2
  <2>1. \A k \in 0 .. 24 : by[k] = IF k = 0 THEN n ELSE by[k - 1] \div 2
    BY <1>1
  <2>2. 0 \in 0 .. 24 /\ \A k \in 1 .. 24 : k \in 0 .. 24 /\ k # 0
    OBVIOUS
  <2> QED  BY <2>1, <2>2
<1>3. /\ \A k \in 0 .. 24 : floor[k] = FloorBy(n, k)
      /\ 0 \in 0 .. 24 /\ \A k \in 1 .. 24 : k \in 0 .. 24 /\ k - 1 \in 0 .. 24
  OBVIOUS
<1>. HIDE DEF floor
<1>4. floor[0] = n /\ \A k \in 1 .. 24 : floor[k] = floor[k - 1] \div 2
  BY <1>3, FloorSteps
<1>5. \A k \in 0 .. 24 : by[k] = floor[k]
  BY <1>2, <1>4, AgreeTo24
<1> QED  BY <1>3, <1>5 DEF by

LEMMA BitOfValue ==
  ASSUME NEW n \in Values, NEW b \in 0 .. 23
  PROVE  b \in BitsOf[n] <=> FloorBy(n, b) % 2 = 1
<1>1. n \in Int /\ b \in 0 .. 24
  BY ValuesAssumption, SMT
<1>2. BitsOf[n] = { c \in 0 .. 23 : RightShifts(n)[c] % 2 = 1 }
  BY DEF BitsOf
<1>3. RightShifts(n)[b] = FloorBy(n, b)
  BY <1>1, ShiftsAreFloors
<1> QED  BY <1>2, <1>3

\* What the first k digits of a value amount to.
Amount(n, k) == IF n < 0 THEN FloorBy(n, 24 - k) + TwoTo[k + 1] ELSE FloorBy(n, 24 - k)

LEMMA Doubles == TwoTo[1] = 1 /\ \A k \in 1 .. 24 : TwoTo[k + 1] = 2 * TwoTo[k]
<1>1. \A k \in 1 .. 24 : k \in {1, 2, 3, 4, 5, 6, 7, 8, 9, 10, 11, 12, 13, 14, 15, 16, 17, 18, 19, 20, 21, 22, 23, 24}
  OBVIOUS
<1>2. \A k \in {1, 2, 3, 4, 5, 6, 7, 8, 9, 10, 11, 12, 13, 14, 15, 16, 17, 18, 19, 20, 21, 22, 23, 24} : TwoTo[k + 1] = 2 * TwoTo[k]
  BY DEF TwoTo
<1> QED  BY <1>1, <1>2 DEF TwoTo

LEMMA FloorsAreIntegers ==
  ASSUME NEW n \in Int
  PROVE  \A k \in 0 .. 24 : FloorBy(n, k) \in Int /\ TwoTo[k + 1] \in Nat
<1>1. \A k \in 0 .. 24 : k \in {0, 1, 2, 3, 4, 5, 6, 7, 8, 9, 10, 11, 12, 13, 14, 15, 16, 17, 18, 19, 20, 21, 22, 23, 24}
  OBVIOUS
<1>2. \A k \in {0, 1, 2, 3, 4, 5, 6, 7, 8, 9, 10, 11, 12, 13, 14, 15, 16, 17, 18, 19, 20, 21, 22, 23, 24} : TwoTo[k + 1] \in Nat \ {0}
  BY DEF TwoTo
<1>3. \A k \in 0 .. 24 : TwoTo[k + 1] \in Nat \ {0}
  BY <1>1, <1>2
<1> QED  BY <1>3 DEF FloorBy

LEMMA AmountSteps ==
  ASSUME NEW n \in Values
  PROVE  /\ Amount(n, 0) = 0
         /\ \A k \in 1 .. 24 :
              Amount(n, k) = 2 * Amount(n, k - 1) + (IF 24 - k \in BitsOf[n] THEN 1 ELSE 0)
         /\ Amount(n, 24) = IF n < 0 THEN n + 16777216 ELSE n
<1>1. n \in Int /\ -8388608 <= n /\ n <= 8388607
  BY ValuesAssumption, SMT
<1>0. n \in Int
  BY <1>1, SMT
<1>2. FloorBy(n, 24) = IF n < 0 THEN -1 ELSE 0
  <2>1. FloorBy(n, 24) = n \div 16777216
    BY SMT DEF FloorBy, TwoTo
  <2> QED  BY <1>1, <2>1, SMT
<1>3. TwoTo[0 + 1] = 1 /\ TwoTo[24 + 1] = 16777216
  BY SMT DEF TwoTo
<1>4. Amount(n, 0) = 0
  <2>1. FloorBy(n, 24 - 0) = IF n < 0 THEN -1 ELSE 0
    <3>1. 24 - 0 = 24
      OBVIOUS
    <3> QED  BY <1>2, <3>1
  <2>2. TwoTo[0 + 1] = 1
    BY <1>3, SMT
  <2> QED  BY <1>1, <2>1, <2>2, SMT DEF Amount
<1>5. Amount(n, 24) = IF n < 0 THEN n + 16777216 ELSE n
  <2>1. FloorBy(n, 24 - 24) = n
    <3>1. 24 - 24 = 0
      OBVIOUS
    <3> QED  BY <1>1, <3>1, FloorSteps, SMT
  <2>2. TwoTo[24 + 1] = 16777216
    BY <1>3, SMT
  <2> QED  BY <1>1, <2>1, <2>2, SMT DEF Amount
<1>6. ASSUME NEW k \in 1 .. 24
      PROVE  Amount(n, k) = 2 * Amount(n, k - 1) + (IF 24 - k \in BitsOf[n] THEN 1 ELSE 0)
  <2>. DEFINE low == FloorBy(n, 24 - k)
              high == FloorBy(n, 24 - (k - 1))
  <2>1. 24 - k \in 0 .. 23 /\ 24 - (k - 1) \in 1 .. 24 /\ (24 - (k - 1)) - 1 = 24 - k
        /\ 24 - k \in 0 .. 24 /\ k - 1 \in 0 .. 24 /\ k \in 0 .. 24 /\ (k - 1) + 1 = k
    OBVIOUS
  <2>2. high = low \div 2
    <3>. DEFINE j == 24 - (k - 1)
    <3>1. FloorBy(n, j) = FloorBy(n, j - 1) \div 2
      <4>1. j \in 1 .. 24
        BY <2>1
      <4>. HIDE DEF j
      <4> QED  BY <1>0, <4>1, FloorSteps
    <3> QED  BY <2>1, <3>1
  <2>3. 24 - k \in BitsOf[n] <=> low % 2 = 1
    BY <2>1, BitOfValue
  <2>4. low \in Int /\ TwoTo[k] \in Nat /\ TwoTo[k + 1] = 2 * TwoTo[k]
    <3>1. low \in Int
      BY <1>0, <2>1, FloorsAreIntegers
    <3>2. TwoTo[(k - 1) + 1] \in Nat
      BY <1>0, <2>1, FloorsAreIntegers
    <3> QED  BY <2>1, <3>1, <3>2, Doubles
  <2>5. Amount(n, k) = IF n < 0 THEN low + TwoTo[k + 1] ELSE low
    BY DEF Amount
  <2>6. Amount(n, k - 1) = IF n < 0 THEN high + TwoTo[k] ELSE high
    BY <2>1 DEF Amount
  <2>. HIDE DEF low, high
  <2>7. low = 2 * high + (low % 2) /\ (low % 2 = 0 \/ low % 2 = 1)
    BY <2>2, <2>4
  <2>8. low = 2 * high + (IF 24 - k \in BitsOf[n] THEN 1 ELSE 0)
    BY <2>3, <2>7
  <2>9. high \in Int
    BY <2>2, <2>4
  <2>10. CASE 24 - k \in BitsOf[n]
    <3>1. low = 2 * high + 1
      BY <2>8, <2>10
    <3> QED  BY <2>4, <2>5, <2>6, <2>9, <2>10, <3>1
  <2>11. CASE 24 - k \notin BitsOf[n]
    <3>1. low = 2 * high
      BY <2>8, <2>9, <2>11
    <3> QED  BY <2>4, <2>5, <2>6, <2>9, <2>11, <3>1
  <2> QED  BY <2>10, <2>11
<1> QED  BY <1>4, <1>5, <1>6, SMT

LEMMA DigitsUnfold ==
  ASSUME NEW n \in Values
  PROVE  LET upto == DigitsRead(BitsOf[n])
         IN  upto = [k \in 0 .. 24 |->
               IF k = 0 THEN 0
               ELSE 2 * upto[k - 1] + (IF 24 - k \in BitsOf[n] THEN 1 ELSE 0)]
<1>. DEFINE upto == DigitsRead(BitsOf[n])
            Step(g) == [k \in 0 .. 24 |->
               IF k = 0 THEN 0 ELSE 2 * g[k - 1] + (IF 24 - k \in BitsOf[n] THEN 1 ELSE 0)]
            closed == [k \in 0 .. 24 |-> Amount(n, k)]
<1>1. closed = Step(closed)
  <2>1. \A k \in 0 .. 24 : closed[k] = Amount(n, k)
    OBVIOUS
  <2>2. \A k \in 0 .. 24 : k # 0 => (k \in 1 .. 24 /\ k - 1 \in 0 .. 24)
    OBVIOUS
  <2>. HIDE DEF closed
  <2>3. \A k \in 0 .. 24 : k # 0 => closed[k - 1] = Amount(n, k - 1)
    BY <2>1, <2>2
  <2>4. \A k \in 0 .. 24 : k # 0 =>
          Amount(n, k) = 2 * closed[k - 1] + (IF 24 - k \in BitsOf[n] THEN 1 ELSE 0)
    BY <2>2, <2>3, AmountSteps
  <2>5. \A k \in 0 .. 24 :
          Amount(n, k) = IF k = 0 THEN 0
                         ELSE 2 * closed[k - 1] + (IF 24 - k \in BitsOf[n] THEN 1 ELSE 0)
    BY <2>4, AmountSteps
  <2> QED  BY <2>5 DEF closed
<1>2. \E g : g = Step(g)
  BY <1>1
<1>3. upto = CHOOSE g : g = Step(g)
  BY DEF DigitsRead
<1>. HIDE DEF upto, Step
<1>4. upto = Step(upto)
  BY <1>2, <1>3
<1> QED  BY <1>4 DEF upto, Step

\* The 24 digits of a value read without a sign.
LEMMA NumberOfValue ==
  ASSUME NEW n \in Values
  PROVE  NumberOf(BitsOf[n]) = IF n < 0 THEN n + 16777216 ELSE n
<1>. DEFINE upto == DigitsRead(BitsOf[n])
            amount == [k \in 0 .. 24 |-> Amount(n, k)]
            Digit(k) == IF 24 - k \in BitsOf[n] THEN 1 ELSE 0
<1>1. upto = [k \in 0 .. 24 |-> IF k = 0 THEN 0 ELSE 2 * upto[k - 1] + Digit(k)]
  BY DigitsUnfold
<1>. HIDE DEF upto
<1>2. upto[0] = 0 /\ \A k \in 1 .. 24 : upto[k] = 2 * upto[k - 1] + Digit(k)
  <2>. HIDE DEF Digit
  <2>1. \A k \in 0 .. 24 : upto[k] = IF k = 0 THEN 0 ELSE 2 * upto[k - 1] + Digit(k)
    BY <1>1
  <2>2. 0 \in 0 .. 24 /\ \A k \in 1 .. 24 : k \in 0 .. 24 /\ k # 0
    OBVIOUS
  <2> QED  BY <2>1, <2>2
<1>3. /\ \A k \in 0 .. 24 : amount[k] = Amount(n, k)
      /\ 0 \in 0 .. 24 /\ 24 \in 0 .. 24
      /\ \A k \in 1 .. 24 : k \in 0 .. 24 /\ k - 1 \in 0 .. 24
  OBVIOUS
<1>4. \A k \in 1 .. 24 : Amount(n, k) = 2 * Amount(n, k - 1) + Digit(k)
  BY AmountSteps
<1>. HIDE DEF amount, Digit
<1>5. amount[0] = 0 /\ \A k \in 1 .. 24 : amount[k] = 2 * amount[k - 1] + Digit(k)
  BY <1>3, <1>4, AmountSteps
<1>6. \A k \in 0 .. 24 : upto[k] = amount[k]
  BY <1>2, <1>5, AgreeTo24
<1>7. NumberOf(BitsOf[n]) = Amount(n, 24)
  BY <1>3, <1>6 DEF NumberOf, upto
<1> QED  BY <1>7, AmountSteps, SMT

\* The digit 23 is the sign.
LEMMA SignOfValue ==
  ASSUME NEW n \in Values
  PROVE  23 \in BitsOf[n] <=> n < 0
<1>1. n \in Int /\ -8388608 <= n /\ n <= 8388607
  BY ValuesAssumption, SMT
<1>2. FloorBy(n, 23) = n \div 8388608
  BY SMT DEF FloorBy, TwoTo
<1>3. FloorBy(n, 23) = IF n < 0 THEN -1 ELSE 0
  BY <1>1, <1>2, SMT
<1>4. 23 \in BitsOf[n] <=> FloorBy(n, 23) % 2 = 1
  BY BitOfValue
<1> QED  BY <1>3, <1>4

Results == [value : Values, status : Statuses]

LEMMA SampleWord ==
  ASSUME NEW s \in Results
  PROVE  DataWord(s) \in SUBSET Bits32 /\ decode_status(DataWord(s)) = s.status
<1>. DEFINE n == BitsOf[s.value]
            up == MoveBits(n, 8)
<1>0. s.value \in Values
  BY DEF Results
<1>1. \A b \in n : b \in 0 .. 24 - 1
  BY <1>0 DEF BitsOf
<1>. HIDE DEF n
<1>2. \A x \in up : x \in Int /\ x - 8 \in n
  <2>1. \A b \in n : b \in Int
    BY <1>1
  <2> QED  BY <2>1, MovedBits
<1>. HIDE DEF up
<1>3. \A x \in up : x \in 8 .. 31
  BY <1>1, <1>2
<1>4. s.status \in SUBSET (0 .. 7)
  BY StatusesAssumption DEF Results
<1>5. DataWord(s) = up \cup s.status
  BY DEF DataWord, up, n
<1>6. DataWord(s) \in SUBSET Bits32
  BY <1>3, <1>4, <1>5 DEF Bits32
<1>7. (up \cup s.status) \cap (0 .. 7) = s.status
  BY <1>3, <1>4
<1> QED  BY <1>5, <1>6, <1>7 DEF decode_status

LEMMA DecodedValue ==
  ASSUME NEW s \in Results
  PROVE  decode_value(DataWord(s)) = s.value
<1>. DEFINE n == BitsOf[s.value]
            up == MoveBits(n, 8)
            d == up \cup s.status
            high == { b \in d : b > 7 }
            positive == { b \in d : b \in 8 .. 30 }
<1>1. s.value \in Values /\ s.status \in SUBSET (0 .. 7)
  BY StatusesAssumption DEF Results
<1>2. \A b \in n : b \in Int /\ b \in 0 .. 23
  BY <1>1 DEF BitsOf
<1>3. DataWord(s) = d
  BY DEF DataWord
<1>4. NumberOf(n) = (IF s.value < 0 THEN s.value + 16777216 ELSE s.value)
  BY <1>1, NumberOfValue
<1>5. 23 \in n <=> s.value < 0
  BY <1>1, SignOfValue
<1>. HIDE DEF n
<1>6. /\ \A x \in up : x \in Int /\ x - 8 \in n
      /\ \A x \in Int : x \in up <=> x - 8 \in n
  BY <1>2, MovedBit, MovedBits
<1>. HIDE DEF up
<1>7. \A x \in up : x \in 8 .. 31 /\ x \in Int /\ x > 7
  BY <1>2, <1>6
<1>8. \A x \in s.status : ~(x > 7) /\ x \notin 8 .. 30 /\ x # 31
  BY <1>1
<1>9. high = up
  BY <1>7, <1>8
<1>10. MoveBits(up, -8) = n
  <2>1. \A x \in up : x \in Int
    BY <1>7
  <2>2. \A x \in MoveBits(up, -8) : x \in Int
    BY <2>1, MovedBits
  <2>3. \A x \in Int : x \in MoveBits(up, -8) <=> x - (-8) \in up
    BY <2>1, MovedBit
  <2>4. \A x \in Int : x - (-8) \in Int /\ (x - (-8)) - 8 = x
    OBVIOUS
  <2>5. \A x \in Int : x \in MoveBits(up, -8) <=> x \in n
    BY <1>6, <2>3, <2>4
  <2> QED  BY <1>2, <2>2, <2>5
<1>11. 31 \in d <=> s.value < 0
  <2>1. 31 \in Int /\ 31 - 8 = 23
    OBVIOUS
  <2>2. 31 \in up <=> 23 \in n
    BY <1>6, <2>1
  <2>3. 31 \notin s.status
    BY <1>8
  <2> QED  BY <1>5, <2>2, <2>3
<1>12. s.value >= 0 => positive = up
  <2>. SUFFICES ASSUME s.value >= 0
                PROVE  positive = up
    OBVIOUS
  <2>1. 31 \notin up
    <3>1. s.value \in Int
      BY <1>1, ValuesAssumption, SMT
    <3>2. ~(s.value < 0)
      BY <3>1
    <3> QED  BY <1>11, <3>2
  <2>2. \A x \in up : x \in 8 .. 30
    BY <1>7, <2>1
  <2> QED  BY <1>8, <2>2
<1>13. decode_value(d) = IF 31 \in d THEN NumberOf(MoveBits(high, -8)) - 16777216
                                     ELSE NumberOf(MoveBits(positive, -8))
  BY SMT DEF decode_value
<1>. HIDE DEF d, high, positive
<1>14. s.value \in Int
  BY <1>1, ValuesAssumption, SMT
<1>15. CASE s.value < 0
  <2>1. decode_value(d) = NumberOf(n) - 16777216
    BY <1>9, <1>10, <1>11, <1>13, <1>15, SMT
  <2> QED  BY <1>3, <1>4, <1>14, <1>15, <2>1, SMT
<1>16. CASE ~(s.value < 0)
  <2>1. s.value >= 0
    BY <1>14, <1>16
  <2>2. decode_value(d) = NumberOf(n)
    BY <1>10, <1>11, <1>12, <1>13, <1>16, <2>1, SMT
  <2> QED  BY <1>3, <1>4, <1>14, <1>16, <2>2, SMT
<1> QED  BY <1>15, <1>16

-----------------------------------------------------------------------------
(***************************************************************************)
(* The samples on their way.  What was read of the buffer so far untangles *)
(* to what was converted; the sample under way is one that is not read.    *)
(***************************************************************************)
Word(i) == DataWord(converted[i])
LastWord == Word(Len(converted))

\* The buffer as the host understands it.
Shown ==
  /\ Len(converted) = BufferLength
  /\ decoded = [i \in 1 .. BufferLength |-> decode_value(Word(i))]
  /\ accumulated_status = UNION { converted[i].status : i \in 1 .. BufferLength }

BufferTypes ==
  /\ converted \in Seq(Results)
  /\ Len(converted) <= BufferLength
  /\ tangled \in Seq(SUBSET Bits32)
  /\ word_pc \in {"idle", "msb", "between", "lsb"}

ReadSoFar ==
  /\ Len(tangled) <= Len(converted)
  /\ \A i \in 1 .. Len(tangled) : untangle_sample(tangled[i]) = Word(i)

UnderWay ==
  /\ word_pc # "idle" => Len(tangled) + 1 = Len(converted)
  /\ word_pc = "msb" => (driver = "adc" /\ word = MostSignificant(LastWord))
  /\ word_pc \in {"between", "lsb"} =>
       (MSB_16 \in SUBSET Bits /\ untangle(MSB_16) = MostSignificant(LastWord))
  /\ word_pc = "lsb" => (driver = "adc" /\ word = LeastSignificant(LastWord))
  /\ word_pc = "idle" => (Len(tangled) = Len(converted) \/ (tangled = <<>> /\ Shown))

SamplesInv == BusInv /\ BufferTypes /\ ReadSoFar /\ UnderWay

LEMMA SamplesInvInit == SamplesInit => SamplesInv
<1>. SUFFICES ASSUME SamplesInit
              PROVE  SamplesInv
  OBVIOUS
<1>1. BusInv
  BY BusInit DEF SamplesInit
<1>2. converted = <<>> /\ tangled = <<>> /\ word_pc = "idle"
  BY DEF SamplesInit
<1>3. Len(<<>>) = 0 /\ <<>> \in Seq(Results) /\ <<>> \in Seq(SUBSET Bits32)
  OBVIOUS
<1>4. BufferTypes
  BY <1>2, <1>3, BufferAssumption DEF BufferTypes
<1>5. ReadSoFar
  BY <1>2, <1>3 DEF ReadSoFar
<1>6. UnderWay
  BY <1>2 DEF UnderWay
<1> QED  BY <1>1, <1>4, <1>5, <1>6 DEF SamplesInv

LEMMA RegisterWordKeeps ==
  ASSUME SamplesInv, RegisterWord
  PROVE  SamplesInv'
<1>1. /\ word_pc' = "idle" /\ word_pc = "idle"
      /\ UNCHANGED <<converted, tangled, decoded, accumulated_status>>
  BY DEF RegisterWord, sampleVars
<1>2. BusInv'
  BY BusStep DEF SamplesInv, RegisterWord
<1>3. BufferTypes'
  BY <1>1 DEF SamplesInv, BufferTypes
<1>4. ReadSoFar'
  BY <1>1 DEF SamplesInv, ReadSoFar, Word
<1>5. UnderWay'
  <2>1. Len(tangled) = Len(converted) \/ (tangled = <<>> /\ Shown)
    BY <1>1 DEF SamplesInv, UnderWay
  <2>2. Shown => Shown'
    BY <1>1 DEF Shown, Word
  <2> QED  BY <1>1, <2>1, <2>2 DEF UnderWay
<1> QED  BY <1>2, <1>3, <1>4, <1>5 DEF SamplesInv

LEMMA PresentMSBKeeps ==
  ASSUME SamplesInv, PresentMSB
  PROVE  SamplesInv'
<1>1. PICK v \in Values, st \in Statuses :
        /\ converted' = Append(converted, [value |-> v, status |-> st])
        /\ AdcDrives(MostSignificant(DataWord([value |-> v, status |-> st])))
  BY DEF PresentMSB
<1>. DEFINE s == [value |-> v, status |-> st]
<1>2. s \in Results
  BY DEF Results
<1>3. converted' = Append(converted, s) /\ AdcDrives(MostSignificant(DataWord(s)))
  BY <1>1
<1>. HIDE DEF s
<1>4. /\ word_pc = "idle" /\ Len(converted) < BufferLength
      /\ word_pc' = "msb" /\ tangled' = tangled
  BY DEF PresentMSB
<1>5. converted \in Seq(Results) /\ tangled \in Seq(SUBSET Bits32)
  BY DEF SamplesInv, BufferTypes
<1>6. /\ converted' \in Seq(Results) /\ Len(converted') = Len(converted) + 1
      /\ converted'[Len(converted) + 1] = s
      /\ \A i \in 1 .. Len(converted) : converted'[i] = converted[i]
  BY <1>2, <1>3, <1>5, AppendProperties
<1>7. Len(converted) \in Nat /\ Len(tangled) \in Nat /\ BufferLength \in Nat
  BY <1>5, BufferAssumption
<1>8. Len(tangled) = Len(converted)
  BY <1>4, <1>7 DEF SamplesInv, UnderWay, Shown
<1>9. MostSignificant(DataWord(s)) \in SUBSET Bits
  BY <1>2, SampleWord, WordsOfSample
<1>10. BusInv'
  BY <1>3, <1>9, BusDriven
<1>11. BufferTypes'
  BY <1>4, <1>5, <1>6, <1>7 DEF BufferTypes
<1>12. ReadSoFar'
  <2>1. \A i \in 1 .. Len(tangled) : untangle_sample(tangled[i]) = Word(i)
    BY DEF SamplesInv, ReadSoFar
  <2>2. \A i \in 1 .. Len(tangled) : Word(i)' = Word(i)
    BY <1>6, <1>8 DEF Word
  <2> QED  BY <1>4, <1>6, <1>7, <1>8, <2>1, <2>2 DEF ReadSoFar
<1>13. UnderWay'
  <2>1. LastWord' = DataWord(s)
    BY <1>6 DEF LastWord, Word
  <2>2. driver' = "adc" /\ word' = MostSignificant(DataWord(s))
    BY <1>3 DEF AdcDrives
  <2> QED  BY <1>4, <1>6, <1>8, <2>1, <2>2 DEF UnderWay
<1> QED  BY <1>10, <1>11, <1>12, <1>13 DEF SamplesInv

LEMMA ReadMSBKeeps ==
  ASSUME SamplesInv, ReadMSB
  PROVE  SamplesInv'
<1>1. /\ word_pc = "msb" /\ word_pc' = "between" /\ MSB_16' = received'
      /\ UNCHANGED <<converted, tangled>>
  BY DEF ReadMSB
<1>2. BusInv' /\ received' = Tangled(word)
  BY BusRead DEF SamplesInv, ReadMSB
<1>3. word = MostSignificant(LastWord) /\ Len(tangled) + 1 = Len(converted)
  BY <1>1 DEF SamplesInv, UnderWay
<1>4. word \in SUBSET Bits
  BY DEF SamplesInv, BusInv
<1>5. MSB_16' \in SUBSET Bits /\ untangle(MSB_16') = MostSignificant(LastWord)
  BY <1>1, <1>2, <1>3, <1>4, TangledBit, WordRecovered
<1>6. LastWord' = LastWord
  BY <1>1 DEF LastWord, Word
<1>7. BufferTypes'
  BY <1>1 DEF SamplesInv, BufferTypes
<1>8. ReadSoFar'
  BY <1>1 DEF SamplesInv, ReadSoFar, Word
<1>9. UnderWay'
  BY <1>1, <1>3, <1>5, <1>6 DEF UnderWay
<1> QED  BY <1>2, <1>7, <1>8, <1>9 DEF SamplesInv

LEMMA LastWordIsWord ==
  ASSUME SamplesInv, word_pc # "idle"
  PROVE  LastWord \in SUBSET Bits32
<1>1. converted \in Seq(Results) /\ tangled \in Seq(SUBSET Bits32)
  BY DEF SamplesInv, BufferTypes
<1>2. Len(tangled) + 1 = Len(converted)
  BY DEF SamplesInv, UnderWay
<1>3. Len(converted) \in 1 .. Len(converted)
  BY <1>1, <1>2
<1>4. converted[Len(converted)] \in Results
  BY <1>1, <1>3
<1> QED  BY <1>4, SampleWord DEF LastWord, Word

LEMMA PresentLSBKeeps ==
  ASSUME SamplesInv, PresentLSB
  PROVE  SamplesInv'
<1>1. /\ word_pc = "between" /\ word_pc' = "lsb"
      /\ UNCHANGED <<converted, tangled, MSB_16>>
      /\ AdcDrives(LeastSignificant(LastWord))
  BY DEF PresentLSB, LastWord, Word
<1>2. LeastSignificant(LastWord) \in SUBSET Bits
  BY <1>1, LastWordIsWord, WordsOfSample
<1>3. BusInv'
  BY <1>1, <1>2, BusDriven
<1>4. /\ Len(tangled) + 1 = Len(converted)
      /\ MSB_16 \in SUBSET Bits /\ untangle(MSB_16) = MostSignificant(LastWord)
  BY <1>1 DEF SamplesInv, UnderWay
<1>5. LastWord' = LastWord
  BY <1>1 DEF LastWord, Word
<1>6. driver' = "adc" /\ word' = LeastSignificant(LastWord)
  BY <1>1 DEF AdcDrives
<1>7. BufferTypes'
  BY <1>1 DEF SamplesInv, BufferTypes
<1>8. ReadSoFar'
  BY <1>1 DEF SamplesInv, ReadSoFar, Word
<1>9. UnderWay'
  BY <1>1, <1>4, <1>5, <1>6 DEF UnderWay
<1> QED  BY <1>3, <1>7, <1>8, <1>9 DEF SamplesInv

LEMMA ReadLSBKeeps ==
  ASSUME SamplesInv, ReadLSB
  PROVE  SamplesInv'
<1>1. /\ word_pc = "lsb" /\ word_pc' = "idle" /\ UNCHANGED converted
      /\ tangled' = Append(tangled, concatenate(MSB_16, received'))
  BY DEF ReadLSB
<1>2. BusInv' /\ received' = Tangled(word)
  BY BusRead DEF SamplesInv, ReadLSB
<1>3. /\ word = LeastSignificant(LastWord) /\ Len(tangled) + 1 = Len(converted)
      /\ MSB_16 \in SUBSET Bits /\ untangle(MSB_16) = MostSignificant(LastWord)
  BY <1>1 DEF SamplesInv, UnderWay
<1>. DEFINE raw == concatenate(MSB_16, Tangled(LeastSignificant(LastWord)))
<1>4. raw \in SUBSET Bits32 /\ untangle_sample(raw) = LastWord
  <2>1. LastWord \in SUBSET Bits32
    BY <1>1, LastWordIsWord
  <2> QED  BY <1>3, <2>1, SampleRecovered
<1>5. tangled' = Append(tangled, raw)
  BY <1>1, <1>2, <1>3
<1>. HIDE DEF raw
<1>6. converted \in Seq(Results) /\ tangled \in Seq(SUBSET Bits32)
  BY DEF SamplesInv, BufferTypes
<1>7. /\ tangled' \in Seq(SUBSET Bits32) /\ Len(tangled') = Len(tangled) + 1
      /\ tangled'[Len(tangled) + 1] = raw
      /\ \A i \in 1 .. Len(tangled) : tangled'[i] = tangled[i]
  BY <1>4, <1>5, <1>6, AppendProperties
<1>8. Len(tangled) \in Nat /\ Len(converted) \in Nat
  BY <1>6
<1>9. BufferTypes'
  BY <1>1, <1>7 DEF SamplesInv, BufferTypes
<1>10. ReadSoFar'
  <2>1. \A i \in 1 .. Len(tangled) : untangle_sample(tangled[i]) = Word(i)
    BY DEF SamplesInv, ReadSoFar
  <2>2. \A i \in 1 .. Len(tangled) : untangle_sample(tangled'[i]) = Word(i)
    BY <1>7, <2>1
  <2>3. untangle_sample(tangled'[Len(tangled) + 1]) = Word(Len(tangled) + 1)
    BY <1>3, <1>4, <1>7 DEF LastWord
  <2>4. \A i \in 1 .. Len(tangled') : i \in 1 .. Len(tangled) \/ i = Len(tangled) + 1
    BY <1>7, <1>8
  <2>5. \A i \in 1 .. Len(tangled') : untangle_sample(tangled'[i]) = Word(i)
    BY <2>2, <2>3, <2>4
  <2>6. \A i : Word(i)' = Word(i)
    BY <1>1 DEF Word
  <2>7. Len(tangled') <= Len(converted')
    BY <1>1, <1>3, <1>7, <1>8
  <2> QED  BY <2>5, <2>6, <2>7 DEF ReadSoFar
<1>11. UnderWay'
  BY <1>1, <1>3, <1>7 DEF UnderWay
<1> QED  BY <1>2, <1>9, <1>10, <1>11 DEF SamplesInv

LEMMA DecodeKeeps ==
  ASSUME SamplesInv, decode_loop
  PROVE  SamplesInv'
<1>1. /\ Len(tangled) = BufferLength /\ tangled' = <<>>
      /\ UNCHANGED <<busVars, converted, word_pc, MSB_16>>
  BY DEF decode_loop
<1>2. converted \in Seq(Results) /\ tangled \in Seq(SUBSET Bits32)
  BY DEF SamplesInv, BufferTypes
<1>3. Len(converted) <= BufferLength /\ Len(tangled) <= Len(converted)
  BY DEF SamplesInv, BufferTypes, ReadSoFar
<1>4. /\ Len(converted) \in Nat /\ Len(tangled) \in Nat /\ BufferLength \in Nat
      /\ BufferLength # 0
  BY <1>2, BufferAssumption
<1>5. Len(converted) = BufferLength
  BY <1>1, <1>3, <1>4
<1>6. word_pc = "idle"
  <2>1. word_pc # "idle" => Len(tangled) + 1 = Len(converted)
    BY DEF SamplesInv, UnderWay
  <2> QED  BY <1>1, <1>4, <1>5, <2>1
<1>7. DOMAIN tangled = 1 .. BufferLength
  BY <1>1, <1>2
<1>8. \A i \in 1 .. BufferLength : untangle_sample(tangled[i]) = Word(i)
  BY <1>1 DEF SamplesInv, ReadSoFar
<1>9. \A i \in 1 .. BufferLength : decode_status(Word(i)) = converted[i].status
  <2>. SUFFICES ASSUME NEW i \in 1 .. BufferLength
                PROVE  decode_status(Word(i)) = converted[i].status
    OBVIOUS
  <2>1. converted[i] \in Results
    BY <1>2, <1>5
  <2> QED  BY <2>1, SampleWord DEF Word
<1>10. decoded' = [i \in 1 .. BufferLength |-> decode_value(Word(i))]
  <2>1. decoded' = [i \in 1 .. BufferLength |-> decode_value(untangle_sample(tangled[i]))]
    BY <1>7 DEF decode_loop
  <2> QED  BY <1>8, <2>1
<1>11. accumulated_status' = UNION { converted[i].status : i \in 1 .. BufferLength }
  <2>1. accumulated_status' =
          UNION { decode_status(untangle_sample(tangled[i])) : i \in 1 .. BufferLength }
    BY <1>7 DEF decode_loop
  <2>2. \A i \in 1 .. BufferLength :
          decode_status(untangle_sample(tangled[i])) = converted[i].status
    BY <1>8, <1>9
  <2> QED  BY <2>1, <2>2
<1>12. Shown'
  BY <1>1, <1>5, <1>10, <1>11 DEF Shown, Word
<1>13. BusInv'
  BY <1>1, BusKept DEF SamplesInv
<1>14. Len(<<>>) = 0 /\ <<>> \in Seq(SUBSET Bits32)
  OBVIOUS
<1>15. BufferTypes'
  BY <1>1, <1>6, <1>14 DEF SamplesInv, BufferTypes
<1>16. ReadSoFar'
  BY <1>1, <1>4, <1>14 DEF ReadSoFar
<1>17. UnderWay'
  BY <1>1, <1>6, <1>12 DEF UnderWay
<1> QED  BY <1>13, <1>15, <1>16, <1>17 DEF SamplesInv

LEMMA NextBufferKeeps ==
  ASSUME SamplesInv, NextBuffer
  PROVE  SamplesInv'
<1>1. /\ word_pc = "idle" /\ word_pc' = "idle"
      /\ tangled = <<>> /\ tangled' = <<>> /\ converted' = <<>>
      /\ UNCHANGED busVars
  BY DEF NextBuffer
<1>2. Len(<<>>) = 0 /\ <<>> \in Seq(Results) /\ <<>> \in Seq(SUBSET Bits32)
  OBVIOUS
<1>3. BusInv'
  BY <1>1, BusKept DEF SamplesInv
<1>4. BufferTypes'
  BY <1>1, <1>2, BufferAssumption DEF BufferTypes
<1>5. ReadSoFar'
  BY <1>1, <1>2 DEF ReadSoFar
<1>6. UnderWay'
  BY <1>1 DEF UnderWay
<1> QED  BY <1>3, <1>4, <1>5, <1>6 DEF SamplesInv

LEMMA SamplesStutter ==
  ASSUME SamplesInv, UNCHANGED <<busVars, sampleVars>>
  PROVE  SamplesInv'
<1>1. UNCHANGED <<converted, word_pc, MSB_16, tangled, decoded, accumulated_status>>
  BY DEF sampleVars
<1>2. UNCHANGED <<driver, word>>
  BY DEF busVars
<1>3. BusInv'
  BY BusKept DEF SamplesInv
<1>4. BufferTypes'
  BY <1>1 DEF SamplesInv, BufferTypes
<1>5. ReadSoFar'
  BY <1>1 DEF SamplesInv, ReadSoFar, Word
<1>6. LastWord' = LastWord /\ (Shown' <=> Shown)
  BY <1>1 DEF LastWord, Shown, Word
<1>7. UnderWay'
  BY <1>1, <1>2, <1>6 DEF SamplesInv, UnderWay
<1> QED  BY <1>3, <1>4, <1>5, <1>7 DEF SamplesInv

\* The inductive invariant.
LEMMA SamplesInvariant == SamplesSpec => []SamplesInv
<1>1. SamplesInv /\ [SamplesNext]_<<busVars, sampleVars>> => SamplesInv'
  BY RegisterWordKeeps, PresentMSBKeeps, ReadMSBKeeps, PresentLSBKeeps, ReadLSBKeeps,
     DecodeKeeps, NextBufferKeeps, SamplesStutter DEF SamplesNext
<1> QED  BY SamplesInvInit, <1>1, PTL DEF SamplesSpec

-----------------------------------------------------------------------------
\* The words that the controller writes are on the pins that DATAPINS names.
THEOREM WordsWrittenAsWired == SamplesSpec => []WrittenAsWired
BY SamplesInvariant, BusMeans, PTL DEF SamplesInv

\* decode_loop undoes what read did to any word of sixteen bits.
THEOREM HostUndoesTheTangle == SamplesSpec => []HostRecoversWord
BY SamplesInvariant, BusMeans, PTL DEF SamplesInv

\* detangle puts every bit but 1 and 12 where it was, in any word.
THEOREM DetangleKeepsTheOthers == SamplesSpec => []DetangleElsewhere
BY SamplesInvariant, BusMeans, PTL DEF SamplesInv

\* The columns of read_status_register that the two bits and the ! leave alone
\* show the register, whatever is in it.
THEOREM StatusColumnsShown == SamplesSpec => []ColumnsShown
BY SamplesInvariant, BusMeans, PTL DEF SamplesInv

LEMMA JustDecodedIsShown ==
  ASSUME SamplesInv, JustDecoded
  PROVE  Shown
<1>1. Len(converted) = BufferLength /\ tangled = <<>> /\ word_pc = "idle"
  BY DEF JustDecoded
<1>2. Len(<<>>) = 0
  OBVIOUS
<1>3. Len(tangled) # Len(converted)
  BY <1>1, <1>2, BufferAssumption
<1> QED  BY <1>1, <1>3 DEF SamplesInv, UnderWay

\* The host's numbers are the converter's results, in the order of the conversions,
\* for every result of 24 bits and buffers of any length: neither the two reads of
\* read_data_word, nor the tangle, nor the two's complement of decode_loop changes one.
THEOREM EveryValueSurvives == SamplesSpec => []ValuesSurvive
<1>1. SamplesInv => ValuesSurvive
  <2>. SUFFICES ASSUME SamplesInv, JustDecoded
                PROVE  decoded = [i \in 1 .. BufferLength |-> converted[i].value]
    BY DEF ValuesSurvive
  <2>1. /\ Len(converted) = BufferLength
        /\ decoded = [i \in 1 .. BufferLength |-> decode_value(Word(i))]
    BY JustDecodedIsShown DEF Shown
  <2>2. converted \in Seq(Results)
    BY DEF SamplesInv, BufferTypes
  <2>3. \A i \in 1 .. BufferLength : converted[i] \in Results
    BY <2>1, <2>2
  <2>4. \A i \in 1 .. BufferLength : decode_value(Word(i)) = converted[i].value
    BY <2>3, DecodedValue DEF Word
  <2> QED  BY <2>1, <2>4
<1> QED  BY SamplesInvariant, <1>1, PTL

\* accumulated_status is the union of the status bytes of the last buffer, whatever
\* they are and however many samples it has, and holds nothing of the one before.
THEOREM StatusOfOneBuffer == SamplesSpec => []StatusAccumulates
<1>1. SamplesInv => StatusAccumulates
  BY JustDecodedIsShown DEF StatusAccumulates, Shown
<1> QED  BY SamplesInvariant, <1>1, PTL

=============================================================================
