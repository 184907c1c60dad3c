------------------------------ MODULE DataBus -------------------------------
(***************************************************************************)
(* The parallel data bus between microcontroller and AD7760: class         *)
(* DataBusClass of pins.cpp.  The sixteen bits of a word are spread over   *)
(* pins of the ports A and C; write scatters a word over the pins, read    *)
(* packs the pins into a tangled word, detangle puts the bits of a tangled *)
(* word into order, and the host (decode_loop) does the same with the      *)
(* samples, which the microcontroller leaves tangled.                      *)
(*                                                                         *)
(* A word is the set of its bits that are 1; a shift adds to them.         *)
(***************************************************************************)
EXTENDS Integers

Bits == 0 .. 15

\* A term (word & (1 << bit)) << by is the pair of bit and by, negative for >>.
\* The bits that the terms move out of w; what leaves 16 bits is lost.
Shifted(w, terms) == { t[1] + t[2] : t \in { u \in terms : u[1] \in w } } \cap Bits

\* pins.h: PORT_A_MASK, PORT_C_MASK.
PORT_A_MASK == {0, 1, 4, 6, 7, 8, 9, 10, 11, 12, 15}
PORT_C_MASK == {1, 5, 6, 7, 8}

\* pins.h, DATAPINS: the pin that carries each bit, from LSB to MSB.
DATAPINS ==
  LET C(p) == <<"C", p>>
      A(p) == <<"A", p>>
      pins == << C(8), C(6), C(5), A(12), A(11), A(9), A(8), A(10),
                 C(1), A(4), A(1), A(0), A(6), A(7), C(7), A(15) >>
  IN [b \in Bits |-> pins[b + 1]]

\* Mutant: bit 14 is moved to pc06, the pin of bit 1.
WriteShiftC_shared_pin == {<<0, 8>>, <<1, 5>>, <<2, 3>>, <<8, -7>>, <<14, -8>>}

\* DataBusClass::write: the shifts of the terms that make up each port.
WriteShiftA ==
  {<<3, 9>>, <<4, 7>>, <<5, 4>>, <<6, 2>>, <<7, 3>>, <<9, -5>>, <<10, -9>>,
   <<11, -11>>, <<12, -6>>, <<13, -6>>, <<15, 0>>}
WriteShiftC == {<<0, 8>>, <<1, 5>>, <<2, 3>>, <<8, -7>>, <<14, -7>>}

\* DataBusClass::read: port A stays in place, port C fills the gaps.
ReadShiftC == {<<1, 1>>, <<8, -5>>, <<5, 0>>, <<6, 7>>, <<7, 7>>}

PackPins(a, c) == (a \cap PORT_A_MASK) \cup Shifted(c \cap PORT_C_MASK, ReadShiftC)

\* Mutant: pa12 is moved one position too far.
DetangleShift_off_by_one ==
  {<<0, 11>>, <<1, 9>>, <<2, 6>>, <<3, -3>>, <<4, 5>>, <<5, -3>>, <<6, 6>>,
   <<7, 6>>, <<8, -2>>, <<9, -4>>, <<10, -3>>, <<11, -7>>, <<12, -10>>,
   <<13, -1>>, <<14, 0>>, <<15, 0>>}

\* DataBusClass::detangle.  Position 13 goes to bit 12, not to bit 1.
DetangleShift ==
  {<<0, 11>>, <<1, 9>>, <<2, 6>>, <<3, -3>>, <<4, 5>>, <<5, -3>>, <<6, 6>>,
   <<7, 6>>, <<8, -2>>, <<9, -4>>, <<10, -3>>, <<11, -7>>, <<12, -9>>,
   <<13, -1>>, <<14, 0>>, <<15, 0>>}

detangle(raw_input) == Shifted(raw_input, DetangleShift)

\* Mutant: the higher bits are not masked out.
Masked_shifts_only(w, mask, right) == Shifted(w, { <<b, -right>> : b \in Bits })

Masked(w, mask, right) == Shifted(w \cap mask, { <<b, -right>> : b \in Bits })
Not(w)                 == IF w = {} THEN {0} ELSE {}

\* read_status_register: the columns of the table it prints, each a mask and a
\* shift; the ! before the mask of the two bypass columns binds before >>.
StatusTable(w) ==
  [part_no     |-> Masked(w, {14, 15}, 14),
   die_no      |-> Masked(w, 11 .. 13, 11),
   low_pwr     |-> Masked(w, {9}, 9),
   overrange   |-> Masked(w, {8}, 8),
   download_ok |-> Masked(w, {7}, 7),
   user_ok     |-> Masked(w, {6}, 6),
   user_en     |-> Masked(w, {5}, 5),
   byp_filt_3  |-> Masked(Not(w \cap {4}), Bits, 4),
   byp_filt_1  |-> Masked(Not(w \cap {3}), Bits, 3),
   dec_rate    |-> { (IF 0 \in w THEN 1 ELSE 0) + (IF 1 \in w THEN 2 ELSE 0)
                       + (IF 2 \in w THEN 4 ELSE 0) }]

\* Mutant: two neighbouring characters swapped.
UntangleOrder_swapped ==
  <<0, 1, 8, 9, 15, 14, 11, 13, 7, 5, 6, 4, 3, 10, 2, 12>>

\* decode_loop: the characters of format(sample, '032b') that make up the
\* untangled string, for the first word; the second is offset by 16.
UntangleOrder == <<0, 1, 8, 9, 15, 14, 11, 13, 5, 7, 6, 4, 3, 10, 2, 12>>

\* Character k of a 16-bit string shows bit 15-k.
untangle(raw) == { b \in Bits : 15 - UntangleOrder[16 - b] \in raw }

-----------------------------------------------------------------------------
VARIABLES
  port_a, port_c,  \* the pins of the bus that are high
  driver,          \* who drives the bus: "none", "mcu" or "adc"
  word,            \* the word that its driver means
  received         \* what read returned last

busVars == <<port_a, port_c, driver, word, received>>

NoWord == {-1}

Init ==
  /\ port_a = {}
  /\ port_c = {}
  /\ driver = "none"
  /\ word = {}
  /\ received = NoWord

\* The controller puts a word on its pins.
write(w) ==
  /\ port_a' = Shifted(w, WriteShiftA) \cap PORT_A_MASK
  /\ port_c' = Shifted(w, WriteShiftC) \cap PORT_C_MASK
  /\ driver' = "mcu"
  /\ word' = w
  /\ received' = NoWord

PinsOf(port, w) == { DATAPINS[b][2] : b \in { i \in w : DATAPINS[i][1] = port } }

\* The converter drives a word onto the same wires.
AdcDrives(w) ==
  /\ port_a' = PinsOf("A", w)
  /\ port_c' = PinsOf("C", w)
  /\ driver' = "adc"
  /\ word' = w
  /\ received' = NoWord

read ==
  /\ driver = "adc"
  /\ received = NoWord
  /\ received' = PackPins(port_a, port_c)
  /\ UNCHANGED <<port_a, port_c, driver, word>>

\* After each word the lines go idle.
Release ==
  /\ driver # "none"
  /\ port_a' = {}
  /\ port_c' = {}
  /\ driver' = "none"
  /\ word' = {}
  /\ received' = NoWord

BusNext ==
  \/ driver = "none" /\ \E w \in SUBSET Bits : write(w) \/ AdcDrives(w)
  \/ read
  \/ Release

Spec == Init /\ [][BusNext]_busVars

-----------------------------------------------------------------------------
\* A word that the controller writes reaches the converter whole: each of
\* its sixteen bits is on the pin that DATAPINS gives it, none on another.
WrittenAsWired ==
  driver = "mcu" => port_a = PinsOf("A", word) /\ port_c = PinsOf("C", word)

\* The samples survive the whole way, pins, tangled word, host: no two bits
\* share a position of the tangled word and the order in which decode_loop
\* picks its characters is the inverse of what read did, for every word.
HostRecoversWord == received # NoWord => untangle(received) = word

\* The table that R prints shows the register that the converter put on the bus:
\* for every word, each column that is cut from it without the bits 1 and 12,
\* which detangle loses, and without a !, which precedes the shift.
ColumnsShown ==
  received # NoWord =>
    LET table == StatusTable(detangle(received))
        Flag(b) == IF b \in word THEN {0} ELSE {}
    IN  /\ table.part_no = (IF 14 \in word THEN {0} ELSE {})
                             \cup (IF 15 \in word THEN {1} ELSE {})
        /\ table.low_pwr = Flag(9) /\ table.overrange = Flag(8)
        /\ table.download_ok = Flag(7) /\ table.user_ok = Flag(6)
        /\ table.user_en = Flag(5)

\* A register that the microcontroller reads itself: all but the bits 1 and
\* 12 are where the converter put them, for every register value.
DetangleElsewhere ==
  received # NoWord => detangle(received) \ {1, 12} = word \ {1, 12}

\* The comments of detangle say of each position of the tangled word which
\* bit it is ("pc06 in pos 13 to bit 1"): a register that the microcontroller
\* itself reads is the one that the converter put on the bus.
DetangleRecoversWord == received # NoWord => detangle(received) = word
=============================================================================
