------------------------------ MODULE Firmware ------------------------------
(***************************************************************************)
(* The microcontroller program of the Iridium ADC: main.cpp, adc.cpp and   *)
(* communications.cpp, with the parts of the AD7760 converter and of the   *)
(* UART that the program can observe.                                      *)
(*                                                                         *)
(* Three activities share the processor:                                   *)
(*   - the main loop polls data_ready and transmits the buffer (data_tx);  *)
(*   - the DRDY interrupt (EXTI line of notDataReady) runs collect_samples;*)
(*   - the UART receive interrupt runs control_signals.                    *)
(* Both interrupts keep their reset priority, so neither preempts the      *)
(* other, and both preempt the main loop between any two of its steps.     *)
(* An interrupt handler is one step, except for the commands D and L: they *)
(* block in a second getc until another character arrives.  A character    *)
(* or a DRDY edge that arrives while a handler runs is one that arrives    *)
(* after its step, or, for an edge that needs the ADC powered up inside    *)
(* the handler, one that EdgeWhilePowered adds to the step.                *)
(*                                                                         *)
(* A sample is represented by the number of the acquisition it was         *)
(* collected for and by whether the converter was running when the bus     *)
(* was read; the value itself is abstracted.                               *)
(***************************************************************************)
EXTENDS Naturals, Sequences

CONSTANTS
  N,            \* NUMBER_OF_SAMPLES, the size of sample_array
  TxLength,     \* samples transmitted for each argument character of L
  Chars,        \* the characters the host may put on the serial line
  MaxAcq,       \* bound: how many S characters the host may send
  NoChar,       \* no character (empty UART data register)
  ChipDefault,  \* Control Register 1 after a reset of the ADC
  Garbled       \* a line that was mixed with the output of a handler

LengthCodes == {"0", "1", "2", "3"}
Commands    == {"P", "R", "S", "T", "D", "L", "F", "G", "V"}

ASSUME NAssumption        == N \in Nat \ {0}
ASSUME TxLengthAssumption == TxLength \in [LengthCodes -> 1 .. N]
ASSUME MaxAcqAssumption   == MaxAcq \in Nat
ASSUME NoCharAssumption   == NoChar \notin Chars \cup Commands

VARIABLES
  notReset,             \* level of the ADC's reset pin
  control_reg_1_state,  \* the program's copy of Control Register 1
  control_reg_2_state,  \* the program's copy of Control Register 2
  adc,                  \* the converter's registers
  irq_enabled,          \* edge trigger and interrupt of notDataReady
  exti_pending,         \* the EXTI pending bit of the DRDY line
  sample_index,         \* static local of collect_samples
  sample_array,
  acq,                  \* history: number of start_sampling calls
  data_ready,
  number_of_samples_to_TX,
  main_pc,              \* where the main loop is
  tx_index,
  frame,                \* history: the samples sent since the last "start"
  torn,                 \* history: a handler printed into this sample's line
  rx,                   \* the UART receive data register
  awaiting              \* the command whose argument getc is waiting for

regVars  == <<notReset, control_reg_1_state, control_reg_2_state>>
bufVars  == <<sample_index, sample_array, acq>>
mainVars == <<main_pc, tx_index, frame>>
vars == <<regVars, adc, irq_enabled, exti_pending, bufVars, data_ready,
          number_of_samples_to_TX, mainVars, torn, rx, awaiting>>

-----------------------------------------------------------------------------
LOW  == 0
HIGH == 1

\* Control Register 1: the bits of filters 3 and 1, and DEC[2:0].
ControlReg1 == [filters : BOOLEAN, dec : 0 .. 5]
DefaultReg1 == [filters |-> TRUE, dec |-> 5]

\* Control Register 2 but for PD: 0x0000, or LPWR and the 1 that bit 1 needs.
ControlReg2 == {"zero", "lpwr"}

AdcRegisters ==
  [cr1 : ControlReg1 \cup {ChipDefault}, cr2 : ControlReg2 \cup {"default"},
   pd : BOOLEAN, offset : {"default", "0x23F0"}]

Sample == [acq : Nat, live : BOOLEAN]

ASSUME GarbledAssumption == Garbled \notin Sample

\* The converter converts, and pulses DRDY, out of reset and powered up.
Converting(rst, a) == rst = HIGH /\ ~a.pd

\* A register write reaches the converter unless it is held in reset.
WriteReg1(rst, a, value) ==
  IF rst = HIGH THEN [a EXCEPT !.cr1 = value] ELSE a

WriteReg2(rst, a, value, pd) ==
  IF rst = HIGH THEN [a EXCEPT !.cr2 = value, !.pd = pd] ELSE a

WriteOffset(rst, a) ==
  IF rst = HIGH THEN [a EXCEPT !.offset = "0x23F0"] ELSE a

power_up(a)   == WriteReg2(notReset, a, control_reg_2_state, FALSE)
power_down(a) == WriteReg2(notReset, a, control_reg_2_state, TRUE)

\* Reading a register writes the program's copy to Control Register 1, with
\* a read bit that the next read clears; the ADC is powered up meanwhile.
read_register(a) ==
  power_down(WriteReg1(notReset, power_up(a), control_reg_1_state))

\* An edge of DRDY can become pending while a handler has the ADC powered up.
EdgeWhilePowered ==
  exti_pending' \in {exti_pending, exti_pending \/ (irq_enabled /\ notReset = HIGH)}

\* printf in a handler: mixes with the line the main loop is printing.  That
\* spoils a sample; in a "start" or "stop" line the host looks for the word.
print_in_handler == torn' = (torn \/ main_pc = "line")

-----------------------------------------------------------------------------
(***************************************************************************)
(* Start-up.  The order in which the static objects of adc.cpp and         *)
(* pins.cpp are constructed is unspecified.  With the pins first,          *)
(* ADC_Class pulses the reset line and writes PD.  With the ADC first, its *)
(* constructor runs on pin objects that do not exist yet, and the later    *)
(* DigitalOut(PC_11) drives the reset line low: the ADC stays in reset.    *)
(***************************************************************************)
Chip(cr2) == [cr1 |-> ChipDefault, cr2 |-> cr2, pd |-> TRUE, offset |-> "default"]

BootStates == { [rst |-> HIGH, chip |-> Chip("zero")],
                [rst |-> LOW,  chip |-> Chip("default")] }

ZeroArray == [i \in 0 .. N-1 |-> [acq |-> 0, live |-> FALSE]]

Init ==
  /\ \E b \in BootStates : notReset = b.rst /\ adc = b.chip
  /\ control_reg_1_state = [filters |-> FALSE, dec |-> 0]
  /\ control_reg_2_state = "zero"
  /\ irq_enabled = FALSE
  /\ exti_pending = FALSE
  /\ sample_index = 0
  /\ sample_array = ZeroArray
  /\ acq = 0
  /\ data_ready = 0
  /\ number_of_samples_to_TX = 0
  /\ main_pc = "poll"
  /\ tx_index = 0
  /\ frame = <<>>
  /\ torn = FALSE
  /\ rx = NoChar
  /\ awaiting = NoChar

(***************************************************************************)
(* The host's serial break: the board's debugger resets the                *)
(* microcontroller, which starts from zeroed memory.                       *)
(***************************************************************************)
ResetWithIndex(index) ==
  /\ \E b \in BootStates : notReset' = b.rst /\ adc' = b.chip
  /\ control_reg_1_state' = [filters |-> FALSE, dec |-> 0]
  /\ control_reg_2_state' = "zero"
  /\ irq_enabled' = FALSE
  /\ exti_pending' = FALSE
  /\ sample_index' = index
  /\ sample_array' = ZeroArray
  /\ data_ready' = 0
  /\ number_of_samples_to_TX' = 0
  /\ main_pc' = "poll"
  /\ tx_index' = 0
  /\ frame' = <<>>
  /\ torn' = FALSE
  /\ rx' = NoChar
  /\ awaiting' = NoChar
  /\ UNCHANGED acq

\* Mutant: the static local of collect_samples survives the reset.
HostBreak_keeps_index == ResetWithIndex(sample_index)

HostBreak == ResetWithIndex(0)

-----------------------------------------------------------------------------
(***************************************************************************)
(* The main loop.  It runs only while no handler does, that is, while no   *)
(* getc is waiting.                                                        *)
(***************************************************************************)
MainStep(from, to) ==
  /\ awaiting = NoChar
  /\ main_pc = from
  /\ main_pc' = to
  /\ UNCHANGED <<regVars, adc, irq_enabled, exti_pending, bufVars,
                 number_of_samples_to_TX, rx, awaiting>>

\* if(data_ready == 1): data_tx begins to print "start".
MainPoll ==
  /\ data_ready = 1
  /\ MainStep("poll", "start")
  /\ UNCHANGED <<data_ready, tx_index, frame, torn>>

MainStart ==
  /\ MainStep("start", "for")
  /\ tx_index' = 0
  /\ frame' = <<>>
  /\ UNCHANGED <<data_ready, torn>>

\* The loop test; sample_array[tx_index] is read and its line begun.
MainLoad ==
  /\ tx_index < number_of_samples_to_TX
  /\ MainStep("for", "line")
  /\ frame' = Append(frame, sample_array[tx_index])
  /\ UNCHANGED <<data_ready, tx_index, torn>>

MainLine ==
  /\ MainStep("line", "for")
  /\ tx_index' = tx_index + 1
  /\ frame' = IF torn THEN [frame EXCEPT ![Len(frame)] = Garbled] ELSE frame
  /\ torn' = FALSE
  /\ UNCHANGED data_ready

MainEndFor ==
  /\ ~(tx_index < number_of_samples_to_TX)
  /\ MainStep("for", "stop")
  /\ UNCHANGED <<data_ready, tx_index, frame, torn>>

\* "stop" is out, data_tx returns.
MainStop ==
  /\ MainStep("stop", "clear")
  /\ UNCHANGED <<data_ready, tx_index, frame, torn>>

\* Mutant: the flag is left set.
MainClear_keep ==
  /\ MainStep("clear", "poll")
  /\ UNCHANGED <<data_ready, tx_index, frame, torn>>

\* data_ready = 0
MainClear ==
  /\ MainStep("clear", "poll")
  /\ data_ready' = 0
  /\ UNCHANGED <<tx_index, frame, torn>>

Main == MainPoll \/ MainStart \/ MainLoad \/ MainLine \/ MainEndFor
          \/ MainStop \/ MainClear

-----------------------------------------------------------------------------
(***************************************************************************)
(* DRDY.  The edge trigger latches at most one pending edge.               *)
(***************************************************************************)
DrdyEdge ==
  /\ irq_enabled
  /\ Converting(notReset, adc)
  /\ exti_pending' = TRUE
  /\ UNCHANGED <<regVars, adc, irq_enabled, bufVars, data_ready,
                 number_of_samples_to_TX, mainVars, torn, rx, awaiting>>

\* The DRDY interrupt is taken and its pending bit cleared.
ExtiIrq ==
  /\ awaiting = NoChar
  /\ irq_enabled
  /\ exti_pending
  /\ UNCHANGED <<regVars, acq, number_of_samples_to_TX, mainVars, torn, rx,
                 awaiting>>

\* The line is low again when it is looked at: there is no fall callback.
DrdyMissed ==
  /\ ExtiIrq
  /\ exti_pending' = FALSE
  /\ UNCHANGED <<adc, irq_enabled, sample_index, sample_array, data_ready>>

\* collect_samples with room in the buffer: read_data_word.
StoreSample(room, index) ==
  /\ ExtiIrq
  /\ room
  /\ exti_pending' = FALSE
  /\ sample_array' = [sample_array EXCEPT
        ![index] = [acq |-> acq, live |-> Converting(notReset, adc)]]
  /\ sample_index' = sample_index + 1
  /\ UNCHANGED <<adc, irq_enabled, data_ready>>

\* Mutants: <= for < against NUMBER_OF_SAMPLES; the index incremented first.
CollectSample_past_end     == StoreSample(sample_index <= N, sample_index)
CollectSample_preincrement == StoreSample(sample_index < N, sample_index + 1)

CollectSample == StoreSample(sample_index < N, sample_index)

\* Mutant: stop_sampling does nothing.
StopSampling_nothing == UNCHANGED <<irq_enabled, adc>>

StopSampling == irq_enabled' = FALSE /\ adc' = power_down(adc)

\* collect_samples with the buffer full: stop_sampling.  disable_irq leaves
\* an edge pending that came after the bit was cleared.
HandOver(full) ==
  /\ ExtiIrq
  /\ full
  /\ exti_pending' \in {FALSE, Converting(notReset, adc)}
  /\ StopSampling
  /\ sample_index' = 0
  /\ data_ready' = 1
  /\ UNCHANGED sample_array

\* Mutant: the buffer is declared ready one sample early.
CollectDone_early == HandOver(~(sample_index < N - 1))

CollectDone == HandOver(~(sample_index < N))

Drdy == DrdyEdge \/ DrdyMissed \/ CollectSample \/ CollectDone

-----------------------------------------------------------------------------
(***************************************************************************)
(* control_signals.  The interrupt is taken for the character in rx; each  *)
(* command below is the whole handler.                                     *)
(***************************************************************************)
Receive(c) ==
  /\ awaiting = NoChar
  /\ rx = c
  /\ rx' = NoChar

\* What no command but S changes.
UNCHANGED_buffers ==
  UNCHANGED <<sample_index, sample_array, data_ready, mainVars>>

\* P: setup.  The registers are written before the reset line is raised.
setup ==
  /\ Receive("P")
  /\ control_reg_2_state' = "lpwr"
  /\ control_reg_1_state' = DefaultReg1
  /\ notReset' = HIGH
  /\ adc' = WriteReg2(HIGH,
              WriteReg1(notReset,
               WriteReg2(notReset, adc, "lpwr", FALSE), DefaultReg1),
              "lpwr", TRUE)
  /\ EdgeWhilePowered
  /\ UNCHANGED_buffers
  /\ UNCHANGED <<irq_enabled, acq, number_of_samples_to_TX, torn, awaiting>>

\* R, G, V: read_status_register, read_gain_register, read_overrange_register.
ReadRegister ==
  /\ \E c \in {"R", "G", "V"} : Receive(c)
  /\ adc' = read_register(adc)
  /\ EdgeWhilePowered
  /\ print_in_handler
  /\ UNCHANGED_buffers
  /\ UNCHANGED <<regVars, irq_enabled, acq, number_of_samples_to_TX, awaiting>>

\* F: overwrite the offset register, then read_offset_register.
WriteAndReadOffset ==
  /\ Receive("F")
  /\ adc' = read_register(power_down(WriteOffset(notReset, power_up(adc))))
  /\ EdgeWhilePowered
  /\ print_in_handler
  /\ UNCHANGED_buffers
  /\ UNCHANGED <<regVars, irq_enabled, acq, number_of_samples_to_TX, awaiting>>

\* S: start_sampling.  sample_index is not reset.
start_sampling ==
  /\ Receive("S")
  /\ adc' = power_up(adc)
  /\ irq_enabled' = TRUE
  /\ acq' = acq + 1
  /\ EdgeWhilePowered
  /\ UNCHANGED_buffers
  /\ UNCHANGED <<regVars, number_of_samples_to_TX, torn, awaiting>>

\* Mutant: what is ready is thrown away.
stop_sampling_clears ==
  /\ Receive("T")
  /\ StopSampling
  /\ data_ready' = 0
  /\ UNCHANGED <<regVars, exti_pending, bufVars, number_of_samples_to_TX, mainVars,
                 torn, awaiting>>

\* T: stop_sampling.  Neither sample_index nor the pending edge is cleared.
stop_sampling ==
  /\ Receive("T")
  /\ StopSampling
  /\ UNCHANGED_buffers
  /\ UNCHANGED <<regVars, exti_pending, acq, number_of_samples_to_TX, torn,
                 awaiting>>

\* D, L: the second getc blocks in the interrupt handler.
AwaitArgument ==
  /\ \E c \in {"D", "L"} : Receive(c) /\ awaiting' = c
  /\ UNCHANGED_buffers
  /\ UNCHANGED <<regVars, adc, irq_enabled, exti_pending, acq,
                 number_of_samples_to_TX, torn>>

ReceiveArgument(command) ==
  /\ awaiting = command
  /\ rx # NoChar
  /\ rx' = NoChar
  /\ awaiting' = NoChar

\* The decimation of an argument of D; every other character means 5.
DecimationOf(c) ==
  CASE c = "0" -> 0 [] c = "1" -> 1 [] c = "2" -> 2
    [] c = "3" -> 3 [] c = "4" -> 4 [] OTHER -> 5

\* Mutant: the new value goes to the converter but not into the copy.
change_decimation_rate_chip_only ==
  /\ ReceiveArgument("D")
  /\ adc' = power_down(WriteReg1(notReset, power_up(adc),
              [control_reg_1_state EXCEPT !.dec = DecimationOf(rx)]))
  /\ EdgeWhilePowered
  /\ UNCHANGED_buffers
  /\ UNCHANGED <<regVars, irq_enabled, acq, number_of_samples_to_TX, torn>>

\* Mutant: the converter is left powered up.
change_decimation_rate_left_on ==
  /\ ReceiveArgument("D")
  /\ control_reg_1_state' = [control_reg_1_state EXCEPT !.dec = DecimationOf(rx)]
  /\ adc' = WriteReg1(notReset, power_up(adc), control_reg_1_state')
  /\ EdgeWhilePowered
  /\ UNCHANGED_buffers
  /\ UNCHANGED <<notReset, control_reg_2_state, irq_enabled, acq,
                 number_of_samples_to_TX, torn>>

\* D with its argument: change_decimation_rate.
change_decimation_rate ==
  /\ ReceiveArgument("D")
  /\ control_reg_1_state' = [control_reg_1_state EXCEPT !.dec = DecimationOf(rx)]
  /\ adc' = power_down(WriteReg1(notReset, power_up(adc), control_reg_1_state'))
  /\ EdgeWhilePowered
  /\ UNCHANGED_buffers
  /\ UNCHANGED <<notReset, control_reg_2_state, irq_enabled, acq,
                 number_of_samples_to_TX, torn>>

\* The length of an argument of L; every other character means 1024.
LengthOf(c) == TxLength[IF c \in LengthCodes THEN c ELSE "0"]

ChangeLength ==
  /\ ReceiveArgument("L")
  /\ number_of_samples_to_TX' = LengthOf(rx)
  /\ UNCHANGED_buffers
  /\ UNCHANGED <<regVars, adc, irq_enabled, exti_pending, acq, torn>>

\* Any other character: default.
IgnoreChar ==
  /\ \E c \in Chars \ Commands : Receive(c)
  /\ UNCHANGED_buffers
  /\ UNCHANGED <<regVars, adc, irq_enabled, exti_pending, acq,
                 number_of_samples_to_TX, torn, awaiting>>

Argument == change_decimation_rate \/ ChangeLength

Command ==
  \/ setup \/ ReadRegister \/ WriteAndReadOffset \/ start_sampling
  \/ stop_sampling \/ AwaitArgument \/ IgnoreChar

-----------------------------------------------------------------------------
(***************************************************************************)
(* The serial line from the host.  A character that arrives while another  *)
(* is still in the data register is lost (overrun).                        *)
(***************************************************************************)
HostSends(c) ==
  /\ c = "S" => acq + (IF rx = "S" THEN 1 ELSE 0) < MaxAcq
  /\ rx' = IF rx = NoChar THEN c ELSE rx
  /\ UNCHANGED <<regVars, adc, irq_enabled, exti_pending, bufVars, data_ready,
                 number_of_samples_to_TX, mainVars, torn, awaiting>>

\* A host that may send anything at any time.
AnyHost == (\E c \in Chars : HostSends(c)) \/ HostBreak

Mcu == Main \/ Drdy \/ Command \/ Argument

Next == Mcu \/ AnyHost

Spec == Init /\ [][Next]_vars

(***************************************************************************)
(* Fairness.  The processor and the converter do not stop; main runs again *)
(* and again between the handlers; a late DRDY interrupt may find the line *)
(* low, but not for ever; and a host that has sent D or L goes on to send  *)
(* an argument.  Nothing else is required of the host.                     *)
(***************************************************************************)
McuFairness ==
  /\ SF_vars(Main)
  /\ WF_vars(DrdyEdge)
  /\ SF_vars(CollectSample \/ CollectDone)
  /\ WF_vars(Command)
  /\ WF_vars(Argument)

HostFairness == WF_vars(awaiting # NoChar /\ \E c \in Chars : HostSends(c))

FairSpec == Spec /\ McuFairness /\ HostFairness

-----------------------------------------------------------------------------
TypeOK ==
  /\ notReset \in {LOW, HIGH}
  /\ control_reg_1_state \in ControlReg1
  /\ control_reg_2_state \in ControlReg2
  /\ adc \in AdcRegisters
  /\ irq_enabled \in BOOLEAN
  /\ exti_pending \in BOOLEAN
  /\ sample_index \in 0 .. N
  /\ sample_array \in [0 .. N-1 -> Sample]
  /\ acq \in Nat
  /\ data_ready \in {0, 1}
  /\ number_of_samples_to_TX \in 0 .. N
  /\ main_pc \in {"poll", "start", "for", "line", "stop", "clear"}
  /\ tx_index \in 0 .. N
  /\ frame \in Seq(Sample \cup {Garbled})
  /\ torn \in BOOLEAN
  /\ rx \in Chars \cup {NoChar}
  /\ awaiting \in {NoChar, "D", "L"}

\* The converter draws power only for an acquisition: whatever commands
\* arrive and wherever they interrupt (register reads, setup, a change of
\* decimation in the middle of sampling), once the handler has returned the
\* ADC is powered up only if the DRDY interrupt is enabled
\* ("power down when not being used", stop_sampling).
PoweredOnlyToSample == ~adc.pd => irq_enabled

\* The program's copy of Control Register 1 is never silently out of date:
\* the converter holds the copy or has not been written since its reset.
CopyMatchesChip == adc.cr1 \in {ChipDefault, control_reg_1_state}

\* No sample sits in the buffer behind one of a later acquisition, however
\* S, T and the register commands are interleaved with the sampling.
BufferInOrder ==
  \A i, j \in 0 .. N-1 :
    /\ i < j /\ j < sample_index => sample_array[i].acq <= sample_array[j].acq
    /\ i < sample_index /\ sample_index <= j
         => sample_array[j].acq <= sample_array[i].acq

\* The buffer that collect_samples declares ready is in acquisition order
\* from end to end, even when T and S cut an acquisition in two.
HandedOverInOrder ==
  [][data_ready = 0 /\ data_ready' = 1 =>
       \A i, j \in 0 .. N-1 :
         i < j => sample_array'[i].acq <= sample_array'[j].acq]_vars

Sampling == irq_enabled /\ Converting(notReset, adc)

\* Sampling does not go on for ever: the edges fill the buffer and
\* collect_samples stops it, unless a command or a reset did so before.
SamplingEnds == []<>~Sampling

\* A buffer declared ready does not stay so: whatever arrives while data_tx
\* runs, it comes to its end and main clears the flag.
ReadyIsCleared == []<>(data_ready = 0)

\* A full buffer of one acquisition.
FullBufferOf(a) ==
  /\ sample_index = 0
  /\ \A i \in 0 .. N-1 : sample_array[i].acq = a

IsTransmitted(a) ==
  /\ main_pc = "stop" /\ frame # <<>>
  /\ \A k \in 1 .. Len(frame) : frame[k] = Garbled \/ frame[k].acq = a

\* A buffer that is declared ready while main polls is printed, to its "stop" and
\* with no sample of another acquisition, unless another acquisition or a reset
\* overwrites it: no command between the hand-over and the poll, or in the
\* middle of data_tx, takes the flag away.  While main is in data_tx for the
\* buffer before it is another matter: AcquisitionSent.
ReadyIsSent ==
  \A a \in 1 .. MaxAcq :
    (main_pc = "poll" /\ data_ready = 1 /\ number_of_samples_to_TX > 0 /\ FullBufferOf(a))
      ~> (IsTransmitted(a) \/ ~FullBufferOf(a))

-----------------------------------------------------------------------------
(***************************************************************************)
(* What the documentation and the comments say, and the code does not do.  *)
(***************************************************************************)
IsSent(a) == \E k \in 1 .. Len(frame) : frame[k] # Garbled /\ frame[k].acq = a

\* development.md, Control flow, 3: "After the preprogrammed number of
\* samples is taken, the controller begins sending the data back to the host
\* computer."  So, once a first frame went out, a full buffer of another
\* acquisition a that is ready gets sent too, unless yet another acquisition
\* overwrites it first.
AcquisitionSent ==
  \A a \in 1 .. MaxAcq :
    (data_ready = 1 /\ frame # <<>> /\ FullBufferOf(a))
      ~> (IsSent(a) \/ ~FullBufferOf(a))
=============================================================================
