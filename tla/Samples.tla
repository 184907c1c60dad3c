------------------------------ MODULE Samples -------------------------------
(***************************************************************************)
(* The way of a sample's value and status from the converter to the host's *)
(* numbers: read_data_word of adc.cpp reads two words from the bus and     *)
(* concatenates them, data_tx prints them, and decode_loop of adc_comms.py *)
(* puts the bits into order, interprets 24 of them as a number in two's    *)
(* complement and accumulates the 8 status bits of the whole buffer.       *)
(***************************************************************************)
EXTENDS DataBus, Sequences

CONSTANTS
  Values,        \* the conversion results tried, numbers of 24 bits
  Statuses,      \* the status bytes tried, as sets of bits
  BufferLength,  \* how many samples make up a buffer
  MaxBuffers     \* bound: how many buffers are transferred

ASSUME ValuesAssumption ==
  \A n \in Values : n \in Int /\ -8388608 <= n /\ n <= 8388607
ASSUME StatusesAssumption == Statuses \subseteq SUBSET (0 .. 7)
ASSUME BufferAssumption == BufferLength \in Nat \ {0} /\ MaxBuffers \in Nat

VARIABLES
  converted,   \* the results of this buffer, as the converter means them
  word_pc,     \* where read_data_word is: "idle", "msb", "between", "lsb"
  MSB_16,      \* its static local
  tangled,     \* the samples of this buffer, as read_data_word returns them
  decoded,     \* the last decoded buffer
  accumulated_status,
  buffers      \* how many were decoded

sampleVars == <<converted, word_pc, MSB_16, tangled, decoded,
                accumulated_status, buffers>>

SamplesInit ==
  /\ Init
  /\ converted = <<>>
  /\ word_pc = "idle"
  /\ MSB_16 = {}
  /\ tangled = <<>>
  /\ decoded = <<>>
  /\ accumulated_status = {}
  /\ buffers = 0

-----------------------------------------------------------------------------
\* A number of 24 bits shifted right, with its sign, by 0 to 24 bits.
RightShifts(n) ==
  LET by[k \in 0 .. 24] == IF k = 0 THEN n ELSE by[k - 1] \div 2
  IN by

\* The bits of each value in two's complement.
BitsOf ==
  [n \in Values |-> LET by == RightShifts(n) IN { b \in 0 .. 23 : by[b] % 2 = 1 }]

\* int(string, BIN): what the first k digits of a string of 24 amount to.
DigitsRead(bits) ==
  LET upto[k \in 0 .. 24] ==
        IF k = 0 THEN 0 ELSE 2 * upto[k - 1] + (IF 24 - k \in bits THEN 1 ELSE 0)
  IN upto

NumberOf(bits) == DigitsRead(bits)[24]

MoveBits(bits, by) == { b + by : b \in bits }

\* The 32 bits that the converter presents: 24 of the result, 8 of status.
DataWord(s) == MoveBits(BitsOf[s.value], 8) \cup s.status

MostSignificant(w)  == MoveBits({ b \in w : b > 15 }, -16)
LeastSignificant(w) == w \cap Bits

concatenate(msb, lsb) == MoveBits(msb, 16) \cup lsb

untangle_sample(raw) ==
  concatenate(untangle(MostSignificant(raw)), untangle(LeastSignificant(raw)))

\* Mutant: the sign bit is taken to weigh -2^23 on top of its own weight.
decode_value_wrong_weight(u) ==
  IF 31 \in u THEN NumberOf(MoveBits({ b \in u : b > 7 }, -8)) - 8388608
              ELSE NumberOf(MoveBits({ b \in u : b \in 8 .. 30 }, -8))

\* One untangled sample as a number, before it is scaled.
decode_value(u) ==
  IF 31 \in u THEN NumberOf(MoveBits({ b \in u : b > 7 }, -8)) - 16777216
              ELSE NumberOf(MoveBits({ b \in u : b \in 8 .. 30 }, -8))

decode_status(u) == u \cap (0 .. 7)

-----------------------------------------------------------------------------
\* Before an acquisition the bus carries the words of the registers.
RegisterWord ==
  /\ word_pc = "idle"
  /\ converted = <<>>
  /\ buffers = 0
  /\ BusNext
  /\ UNCHANGED sampleVars

\* read_data_word: the first of two reads.
PresentMSB ==
  /\ word_pc = "idle"
  /\ Len(converted) < BufferLength
  /\ \E v \in Values, st \in Statuses :
       LET s == [value |-> v, status |-> st]
       IN converted' = Append(converted, s)
            /\ AdcDrives(MostSignificant(DataWord(s)))
  /\ word_pc' = "msb"
  /\ UNCHANGED <<MSB_16, tangled, decoded, accumulated_status, buffers>>

ReadMSB ==
  /\ word_pc = "msb"
  /\ read
  /\ MSB_16' = received'
  /\ word_pc' = "between"
  /\ UNCHANGED <<converted, tangled, decoded, accumulated_status, buffers>>

PresentLSB ==
  /\ word_pc = "between"
  /\ AdcDrives(LeastSignificant(DataWord(converted[Len(converted)])))
  /\ word_pc' = "lsb"
  /\ UNCHANGED <<converted, MSB_16, tangled, decoded, accumulated_status,
                 buffers>>

\* The second read; the two words are concatenated and stored.
ReadLSB ==
  /\ word_pc = "lsb"
  /\ read
  /\ tangled' = Append(tangled, concatenate(MSB_16, received'))
  /\ word_pc' = "idle"
  /\ UNCHANGED <<converted, MSB_16, decoded, accumulated_status, buffers>>

\* Mutant: the status of the buffer before is not forgotten.
decode_loop_keep_status ==
  /\ Len(tangled) = BufferLength
  /\ buffers < MaxBuffers
  /\ buffers' = buffers + 1
  /\ decoded' = [i \in DOMAIN tangled |-> decode_value(untangle_sample(tangled[i]))]
  /\ accumulated_status' = accumulated_status \cup
       UNION { decode_status(untangle_sample(tangled[i])) : i \in DOMAIN tangled }
  /\ tangled' = <<>>
  /\ UNCHANGED <<busVars, converted, word_pc, MSB_16>>

\* The whole buffer was transferred and is decoded.
decode_loop ==
  /\ Len(tangled) = BufferLength
  /\ buffers < MaxBuffers
  /\ buffers' = buffers + 1
  /\ decoded' = [i \in DOMAIN tangled |-> decode_value(untangle_sample(tangled[i]))]
  /\ accumulated_status' =
       UNION { decode_status(untangle_sample(tangled[i])) : i \in DOMAIN tangled }
  /\ tangled' = <<>>
  /\ UNCHANGED <<busVars, converted, word_pc, MSB_16>>

\* The next acquisition fills the buffer anew.
NextBuffer ==
  /\ word_pc = "idle"
  /\ Len(converted) = BufferLength
  /\ tangled = <<>>
  /\ buffers < MaxBuffers
  /\ converted' = <<>>
  /\ UNCHANGED <<busVars, word_pc, MSB_16, tangled, decoded,
                 accumulated_status, buffers>>

SamplesNext ==
  \/ RegisterWord \/ PresentMSB \/ ReadMSB \/ PresentLSB \/ ReadLSB \/ decode_loop \/ NextBuffer

SamplesSpec == SamplesInit /\ [][SamplesNext]_<<busVars, sampleVars>>

-----------------------------------------------------------------------------
JustDecoded == buffers > 0 /\ tangled = <<>> /\ Len(converted) = BufferLength
                 /\ word_pc = "idle"

\* The host's numbers are the converter's, sample by sample and with their
\* sign, at the ends of the range of 24 bits and around zero too.
ValuesSurvive ==
  JustDecoded => decoded = [i \in 1 .. BufferLength |-> converted[i].value]

\* accumulated_status is the union of the status bytes of this buffer alone.
StatusAccumulates ==
  JustDecoded =>
    accumulated_status = UNION { converted[i].status : i \in 1 .. BufferLength }
=============================================================================
