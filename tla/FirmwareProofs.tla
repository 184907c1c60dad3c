--------------------------- MODULE FirmwareProofs ---------------------------
(***************************************************************************)
(* Proofs about Firmware, for every size of the buffer, every length table *)
(* and every set of characters that the host may send.                     *)
(***************************************************************************)
EXTENDS Firmware, SequenceTheorems, TLAPS

-----------------------------------------------------------------------------
(***************************************************************************)
(* What the helpers return.                                                *)
(***************************************************************************)
LEMMA DecimationType == \A c : DecimationOf(c) \in 0 .. 5
BY DEF DecimationOf

LEMMA LengthType == \A c : LengthOf(c) \in 1 .. N
BY TxLengthAssumption DEF LengthOf, LengthCodes

LEMMA Write1Effects ==
  ASSUME NEW a \in AdcRegisters, NEW rst \in {LOW, HIGH}, NEW v \in ControlReg1
  PROVE  /\ WriteReg1(rst, a, v) \in AdcRegisters
         /\ rst = LOW  => WriteReg1(rst, a, v) = a
         /\ rst = HIGH => WriteReg1(rst, a, v).cr1 = v
         /\ WriteReg1(rst, a, v).pd = a.pd
BY DEF AdcRegisters, WriteReg1, LOW, HIGH

LEMMA Write2Effects ==
  ASSUME NEW a \in AdcRegisters, NEW rst \in {LOW, HIGH},
         NEW v \in ControlReg2, NEW pd \in BOOLEAN
  PROVE  /\ WriteReg2(rst, a, v, pd) \in AdcRegisters
         /\ rst = LOW  => WriteReg2(rst, a, v, pd) = a
         /\ rst = HIGH => WriteReg2(rst, a, v, pd).pd = pd
         /\ WriteReg2(rst, a, v, pd).cr1 = a.cr1
<1>1. WriteReg2(rst, a, v, pd) \in AdcRegisters
  BY DEF AdcRegisters, ControlReg2, WriteReg2
<1>2. rst = LOW => WriteReg2(rst, a, v, pd) = a
  BY DEF WriteReg2, LOW, HIGH
<1>3. rst = HIGH => WriteReg2(rst, a, v, pd).pd = pd
  BY DEF WriteReg2, AdcRegisters
<1>4. WriteReg2(rst, a, v, pd).cr1 = a.cr1
  BY DEF WriteReg2, AdcRegisters
<1> QED
  BY <1>1, <1>2, <1>3, <1>4

LEMMA WriteOffsetEffects ==
  ASSUME NEW a \in AdcRegisters, NEW rst \in {LOW, HIGH}
  PROVE  /\ WriteOffset(rst, a) \in AdcRegisters
         /\ WriteOffset(rst, a).pd = a.pd /\ WriteOffset(rst, a).cr1 = a.cr1
BY DEF AdcRegisters, WriteOffset

LEMMA DefaultType ==
  /\ DefaultReg1 \in ControlReg1
  /\ "zero" \in ControlReg2
  /\ "lpwr" \in ControlReg2
BY DEF DefaultReg1, ControlReg1, ControlReg2

LEMMA ChipType ==
  \A cr2 \in ControlReg2 \cup {"default"} : Chip(cr2) \in AdcRegisters
BY DEF Chip, AdcRegisters

-----------------------------------------------------------------------------
(***************************************************************************)
(* Type correctness.  It needs the loop of data_tx: while a line is being  *)
(* printed the index is still inside the buffer, even if L shortens the    *)
(* transmission meanwhile, and the frame holds the sample of that line.    *)
(***************************************************************************)
LineInv == main_pc = "line" => tx_index < N /\ Len(frame) > 0

TypeInv == TypeOK /\ LineInv

LEMMA InitTypes == Init => TypeInv
<1> SUFFICES ASSUME Init PROVE TypeInv
  OBVIOUS
<1>1. notReset \in {LOW, HIGH} /\ adc \in AdcRegisters
  BY ChipType DEF Init, BootStates, ControlReg2
<1>2. control_reg_1_state \in ControlReg1 /\ control_reg_2_state \in ControlReg2
  BY DEF Init, ControlReg1, ControlReg2
<1>3. sample_array \in [0 .. N-1 -> Sample]
  BY DEF Init, ZeroArray, Sample
<1> QED
  BY <1>1, <1>2, <1>3, NAssumption DEF Init, TypeInv, TypeOK, LineInv

LEMMA BreakTypes == TypeInv /\ HostBreak => TypeInv'
<1> SUFFICES ASSUME TypeInv, HostBreak PROVE TypeInv'
  OBVIOUS
<1>1. notReset' \in {LOW, HIGH} /\ adc' \in AdcRegisters
  BY ChipType DEF HostBreak, ResetWithIndex, BootStates, ControlReg2
<1>2. control_reg_1_state' \in ControlReg1 /\ control_reg_2_state' \in ControlReg2
  BY DEF HostBreak, ResetWithIndex, ControlReg1, ControlReg2
<1>3. sample_array' \in [0 .. N-1 -> Sample]
  BY DEF HostBreak, ResetWithIndex, ZeroArray, Sample
<1>4. /\ main_pc' = "poll" /\ sample_index' \in 0 .. N /\ tx_index' \in 0 .. N
      /\ number_of_samples_to_TX' \in 0 .. N /\ frame' \in Seq(Sample \cup {Garbled})
  BY NAssumption DEF HostBreak, ResetWithIndex
<1> QED
  BY <1>1, <1>2, <1>3, <1>4 DEF HostBreak, ResetWithIndex, TypeInv, TypeOK, LineInv

LEMMA MainTypes == TypeInv /\ Main => TypeInv'
<1> SUFFICES ASSUME TypeInv, Main PROVE TypeInv'
  OBVIOUS
<1> USE NAssumption DEF TypeInv, TypeOK, LineInv, MainStep, regVars, bufVars
<1>1. CASE MainPoll
  BY <1>1 DEF MainPoll
<1>2. CASE MainStart
  BY <1>2 DEF MainStart
<1>3. CASE MainLoad
  <2>1. sample_array[tx_index] \in Sample
    BY <1>3 DEF MainLoad
  <2>2. frame' \in Seq(Sample \cup {Garbled})
    BY <2>1, <1>3, AppendProperties DEF MainLoad
  <2>3. Len(frame') > 0
    <3>1. frame' = Append(frame, sample_array[tx_index])
      BY <1>3 DEF MainLoad
    <3>2. Len(frame') = Len(frame) + 1 /\ Len(frame) \in Nat
      BY <2>1, <3>1, AppendProperties, LenProperties
    <3> QED
      BY <3>2
  <2> QED
    BY <1>3, <2>2, <2>3 DEF MainLoad
<1>4. CASE MainLine
  <2>1. frame' \in Seq(Sample \cup {Garbled})
    <3>1. Len(frame) \in 1 .. Len(frame)
      BY <1>4, LenProperties DEF MainLine
    <3> QED
      BY <1>4, <3>1, ExceptSeq DEF MainLine
  <2>2. main_pc' = "for" /\ tx_index' \in 0 .. N /\ torn' = FALSE
    BY <1>4 DEF MainLine
  <2>3. UNCHANGED <<regVars, adc, irq_enabled, exti_pending, bufVars, data_ready,
                    number_of_samples_to_TX, rx, awaiting>>
    BY <1>4 DEF MainLine
  <2> QED
    BY <2>1, <2>2, <2>3
<1>5. CASE MainEndFor
  BY <1>5 DEF MainEndFor
<1>6. CASE MainStop
  BY <1>6 DEF MainStop
<1>7. CASE MainClear
  BY <1>7 DEF MainClear
<1> QED
  BY <1>1, <1>2, <1>3, <1>4, <1>5, <1>6, <1>7 DEF Main

LEMMA DrdyTypes == TypeInv /\ Drdy => TypeInv'
<1> SUFFICES ASSUME TypeInv, Drdy PROVE TypeInv'
  OBVIOUS
<1> USE DEF TypeInv, TypeOK, LineInv, ExtiIrq, regVars, bufVars, mainVars
<1>1. CASE DrdyEdge
  BY <1>1 DEF DrdyEdge
<1>2. CASE DrdyMissed
  BY <1>2 DEF DrdyMissed
<1>3. CASE CollectSample
  <2>1. [acq |-> acq, live |-> Converting(notReset, adc)] \in Sample
    BY DEF Sample, Converting
  <2>2. sample_array' \in [0 .. N-1 -> Sample] /\ sample_index' \in 0 .. N
    BY <1>3, <2>1, NAssumption DEF CollectSample, StoreSample
  <2> QED
    BY <1>3, <2>2 DEF CollectSample, StoreSample
<1>4. CASE CollectDone
  <2>1. adc' \in AdcRegisters
    BY <1>4, Write2Effects DEF CollectDone, HandOver, StopSampling, power_down
  <2>2. exti_pending' \in BOOLEAN
    BY <1>4 DEF CollectDone, HandOver, StopSampling, Converting
  <2> QED
    BY <1>4, <2>1, <2>2, NAssumption DEF CollectDone, HandOver, StopSampling
<1> QED
  BY <1>1, <1>2, <1>3, <1>4 DEF Drdy

LEMMA CommandTypes == TypeInv /\ (Command \/ Argument) => TypeInv'
<1> SUFFICES ASSUME TypeInv, Command \/ Argument PROVE TypeInv'
  OBVIOUS
<1>e. EdgeWhilePowered => exti_pending' \in BOOLEAN
  BY DEF EdgeWhilePowered, TypeInv, TypeOK
<1>p. print_in_handler => torn' \in BOOLEAN
  BY DEF print_in_handler, TypeInv, TypeOK
<1>u. power_up(adc) \in AdcRegisters /\ power_down(adc) \in AdcRegisters
  BY Write2Effects DEF TypeInv, TypeOK, power_up, power_down
<1>r. \A a \in AdcRegisters : read_register(a) \in AdcRegisters
  BY Write1Effects, Write2Effects
     DEF TypeInv, TypeOK, power_up, power_down, read_register
<1> USE DEF TypeInv, TypeOK, LineInv, Receive, ReceiveArgument,
            UNCHANGED_buffers, regVars, mainVars
<1>1. CASE setup
  <2>1. adc' \in AdcRegisters
    BY <1>1, Write1Effects, Write2Effects, DefaultType DEF setup, HIGH
  <2> QED
    BY <1>1, <1>e, <2>1, DefaultType DEF setup
<1>2. CASE ReadRegister
  BY <1>2, <1>e, <1>p, <1>r DEF ReadRegister
<1>3. CASE WriteAndReadOffset
  <2>1. power_down(WriteOffset(notReset, power_up(adc))) \in AdcRegisters
    BY <1>u, Write2Effects, WriteOffsetEffects DEF power_down
  <2> QED
    BY <1>3, <1>e, <1>p, <1>r, <2>1 DEF WriteAndReadOffset
<1>4. CASE start_sampling
  BY <1>4, <1>e, <1>u DEF start_sampling
<1>5. CASE stop_sampling
  BY <1>5, <1>u DEF stop_sampling, StopSampling
<1>6. CASE AwaitArgument
  BY <1>6 DEF AwaitArgument
<1>7. CASE IgnoreChar
  BY <1>7 DEF IgnoreChar
<1>8. CASE change_decimation_rate
  <2>1. control_reg_1_state' \in ControlReg1
    BY <1>8, DecimationType DEF change_decimation_rate, ControlReg1
  <2>2. adc' \in AdcRegisters
    BY <1>8, <1>u, <2>1, Write1Effects, Write2Effects
       DEF change_decimation_rate, power_down
  <2> QED
    BY <1>8, <1>e, <2>1, <2>2 DEF change_decimation_rate
<1>9. CASE ChangeLength
  BY <1>9, LengthType DEF ChangeLength
<1> QED
  BY <1>1, <1>2, <1>3, <1>4, <1>5, <1>6, <1>7, <1>8, <1>9 DEF Command, Argument

LEMMA SendTypes == TypeInv /\ (\E c \in Chars : HostSends(c)) => TypeInv'
BY DEF TypeInv, TypeOK, LineInv, HostSends, regVars, bufVars, mainVars

LEMMA StepTypes == TypeInv /\ [Next]_vars => TypeInv'
<1> SUFFICES ASSUME TypeInv, [Next]_vars PROVE TypeInv'
  OBVIOUS
<1>1. CASE Next
  BY <1>1, MainTypes, DrdyTypes, CommandTypes, SendTypes, BreakTypes
     DEF Next, Mcu, AnyHost
<1>2. CASE UNCHANGED vars
  BY <1>2 DEF TypeInv, TypeOK, LineInv, vars, regVars, bufVars, mainVars
<1> QED
  BY <1>1, <1>2

\* TypeOK for every instance: whatever the host sends, no index of collect_samples
\* or data_tx leaves the buffer at a time when it is used.
THEOREM TypesCorrect == Spec => []TypeOK
<1>1. TypeInv => TypeOK
  BY DEF TypeInv
<1> QED
  BY <1>1, InitTypes, StepTypes, PTL DEF Spec

-----------------------------------------------------------------------------
(***************************************************************************)
(* Power and the copy of Control Register 1.  No write reaches an ADC that *)
(* is held in reset: there power_down has no effect, and what the copy     *)
(* says need not be true.  The invariant therefore says of that time that  *)
(* the ADC is as its reset left it.                                        *)
(***************************************************************************)
InReset == notReset = LOW => adc.pd /\ adc.cr1 = ChipDefault

PowerInv == TypeInv /\ InReset /\ PoweredOnlyToSample /\ CopyMatchesChip

\* After power_down the converter is powered down, in reset or not.
LEMMA PowerDownEffects ==
  ASSUME TypeInv, InReset, NEW a \in AdcRegisters, notReset = LOW => a.pd
  PROVE  power_down(a).pd /\ power_down(a).cr1 = a.cr1
<1>1. notReset \in {LOW, HIGH} /\ control_reg_2_state \in ControlReg2
  BY DEF TypeInv, TypeOK
<1>2. power_down(a) = WriteReg2(notReset, a, control_reg_2_state, TRUE)
  BY DEF power_down
<1>3. CASE notReset = LOW
  BY <1>1, <1>2, <1>3, Write2Effects
<1>4. CASE notReset = HIGH
  <2>1. power_down(a).pd = TRUE
    BY <1>1, <1>4 DEF power_down, WriteReg2, AdcRegisters
  <2>2. power_down(a).cr1 = a.cr1
    BY <1>4 DEF power_down, WriteReg2, AdcRegisters
  <2> QED
    BY <2>1, <2>2
<1> QED
  BY <1>1, <1>3, <1>4

LEMMA ReadRegisterEffects ==
  ASSUME TypeInv, InReset, NEW a \in AdcRegisters,
         notReset = LOW => a.pd /\ a.cr1 = ChipDefault
  PROVE  /\ read_register(a).pd
         /\ notReset = LOW  => read_register(a).cr1 = ChipDefault
         /\ notReset = HIGH => read_register(a).cr1 = control_reg_1_state
<1> DEFINE up   == power_up(a)
           read == WriteReg1(notReset, up, control_reg_1_state)
<1>1. up \in AdcRegisters /\ read \in AdcRegisters
  BY Write1Effects, Write2Effects DEF TypeInv, TypeOK, power_up
<1>t. /\ notReset \in {LOW, HIGH} /\ control_reg_1_state \in ControlReg1
      /\ control_reg_2_state \in ControlReg2
  BY DEF TypeInv, TypeOK
<1>u. notReset = LOW => up = a
  BY <1>t, Write2Effects DEF power_up
<1>2. notReset = LOW => read = a
  BY <1>1, <1>t, <1>u, Write1Effects
<1>3. notReset = HIGH => read.cr1 = control_reg_1_state
  BY <1>1, <1>t, Write1Effects
<1>4. read_register(a) = power_down(read)
  BY DEF read_register
<1>5. power_down(read).pd /\ power_down(read).cr1 = read.cr1
  BY <1>1, <1>2, PowerDownEffects
<1> QED
  BY <1>2, <1>3, <1>4, <1>5

LEMMA BootPower ==
  \A b \in BootStates : b.chip.pd /\ b.chip.cr1 = ChipDefault
BY DEF BootStates, Chip

LEMMA InitPower == Init => PowerInv
BY InitTypes, BootPower
   DEF Init, PowerInv, InReset, PoweredOnlyToSample, CopyMatchesChip

LEMMA CommandPower == PowerInv /\ (Command \/ Argument) => PowerInv'
<1> SUFFICES ASSUME PowerInv, Command \/ Argument
             PROVE  InReset' /\ PoweredOnlyToSample' /\ CopyMatchesChip'
  BY CommandTypes DEF PowerInv
<1>t. TypeInv /\ InReset /\ adc \in AdcRegisters /\ notReset \in {LOW, HIGH}
  BY DEF PowerInv, TypeInv, TypeOK
<1>c. control_reg_1_state \in ControlReg1 /\ control_reg_2_state \in ControlReg2
  BY DEF PowerInv, TypeInv, TypeOK
<1>u. /\ power_up(adc) \in AdcRegisters
      /\ power_up(adc).cr1 = adc.cr1
      /\ notReset = LOW => power_up(adc) = adc
  BY <1>t, <1>c, Write2Effects DEF power_up
<1>d. power_down(adc).pd /\ power_down(adc).cr1 = adc.cr1
  BY <1>t, PowerDownEffects DEF InReset
<1> USE DEF PowerInv, InReset, PoweredOnlyToSample, CopyMatchesChip, regVars
<1>1. CASE setup
  <2> DEFINE on   == WriteReg2(notReset, adc, "lpwr", FALSE)
             rate == WriteReg1(notReset, on, DefaultReg1)
  <2>1. on \in AdcRegisters /\ rate \in AdcRegisters
    BY <1>t, Write1Effects, Write2Effects, DefaultType
  <2>2. adc' = WriteReg2(HIGH, rate, "lpwr", TRUE)
    BY <1>1 DEF setup
  <2>3. adc'.pd /\ adc'.cr1 = rate.cr1
    BY <2>1, <2>2, Write2Effects, DefaultType
  <2>4. rate.cr1 \in {ChipDefault, DefaultReg1}
    <3>1. on.cr1 = adc.cr1 /\ (notReset = LOW => on = adc)
      BY <1>t, Write2Effects, DefaultType
    <3>2. /\ notReset = LOW => rate = on
          /\ notReset = HIGH => rate.cr1 = DefaultReg1
      BY <1>t, <2>1, Write1Effects, DefaultType
    <3> QED
      BY <1>t, <3>1, <3>2
  <2>5. notReset' # LOW /\ control_reg_1_state' = DefaultReg1
    BY <1>1 DEF setup, LOW, HIGH
  <2> QED
    BY <2>3, <2>4, <2>5
<1>2. CASE ReadRegister
  BY <1>2, <1>t, ReadRegisterEffects DEF ReadRegister
<1>3. CASE WriteAndReadOffset
  <2> DEFINE off == WriteOffset(notReset, power_up(adc))
  <2>1. off \in AdcRegisters /\ off.pd = power_up(adc).pd /\ off.cr1 = adc.cr1
    BY <1>t, <1>c, <1>u, WriteOffsetEffects
  <2>2. power_down(off) \in AdcRegisters
    BY <1>t, <1>c, <2>1, Write2Effects DEF power_down
  <2>3. power_down(off).pd /\ power_down(off).cr1 = adc.cr1
    BY <1>t, <1>u, <2>1, PowerDownEffects
  <2> QED
    BY <1>3, <1>t, <2>2, <2>3, ReadRegisterEffects DEF WriteAndReadOffset
<1>4. CASE start_sampling
  BY <1>4, <1>t, <1>u DEF start_sampling
<1>5. CASE stop_sampling
  BY <1>5, <1>t, <1>d DEF stop_sampling, StopSampling
<1>6. CASE AwaitArgument
  BY <1>6 DEF AwaitArgument
<1>7. CASE IgnoreChar
  BY <1>7 DEF IgnoreChar
<1>8. CASE change_decimation_rate
  <2> DEFINE rate == WriteReg1(notReset, power_up(adc), control_reg_1_state')
  <2>1. control_reg_1_state' \in ControlReg1
    BY <1>8, <1>c, DecimationType DEF change_decimation_rate, ControlReg1
  <2>2. rate \in AdcRegisters
    BY <1>t, <1>u, <2>1, Write1Effects
  <2>3. /\ notReset = LOW => rate = adc
        /\ notReset = HIGH => rate.cr1 = control_reg_1_state'
    BY <1>t, <1>u, <2>1, Write1Effects
  <2>4. power_down(rate).pd /\ power_down(rate).cr1 = rate.cr1
    BY <1>t, <2>2, <2>3, PowerDownEffects
  <2>5. adc' = power_down(rate) /\ UNCHANGED notReset
    BY <1>8 DEF change_decimation_rate
  <2> QED
    BY <1>8, <1>t, <2>3, <2>4, <2>5 DEF change_decimation_rate
<1>9. CASE ChangeLength
  BY <1>9 DEF ChangeLength
<1> QED
  BY <1>1, <1>2, <1>3, <1>4, <1>5, <1>6, <1>7, <1>8, <1>9 DEF Command, Argument

LEMMA StepPower == PowerInv /\ [Next]_vars => PowerInv'
<1> SUFFICES ASSUME PowerInv, [Next]_vars
             PROVE  InReset' /\ PoweredOnlyToSample' /\ CopyMatchesChip'
  BY StepTypes DEF PowerInv
<1>t. TypeInv /\ InReset /\ adc \in AdcRegisters /\ (notReset = LOW => adc.pd)
  BY DEF PowerInv, TypeInv, TypeOK, InReset
<1> USE DEF InReset, PoweredOnlyToSample, CopyMatchesChip, regVars
<1>1. CASE Main
  BY <1>1 DEF PowerInv, Main, MainPoll, MainStart, MainLoad, MainLine, MainEndFor,
              MainStop, MainClear, MainStep
<1>2. CASE Drdy
  <2>1. CASE CollectDone
    BY <2>1, <1>t, PowerDownEffects DEF PowerInv, CollectDone, HandOver, StopSampling, ExtiIrq
  <2>2. CASE DrdyEdge \/ DrdyMissed \/ CollectSample
    BY <2>2 DEF PowerInv, DrdyEdge, DrdyMissed, CollectSample, StoreSample, ExtiIrq
  <2> QED
    BY <1>2, <2>1, <2>2 DEF Drdy
<1>3. CASE Command \/ Argument
  BY <1>3, CommandPower DEF PowerInv
<1>4. CASE HostBreak
  BY <1>4, BootPower DEF HostBreak, ResetWithIndex
<1>5. CASE \E c \in Chars : HostSends(c)
  BY <1>5 DEF PowerInv, HostSends
<1>6. CASE UNCHANGED vars
  BY <1>6 DEF PowerInv, vars
<1> QED
  BY <1>1, <1>2, <1>3, <1>4, <1>5, <1>6 DEF Next, Mcu, AnyHost

\* PoweredOnlyToSample for every instance: no interleaving of commands with
\* the sampling leaves the converter powered up without its interrupt.
THEOREM NeverLeftOn == Spec => []PoweredOnlyToSample
<1>1. PowerInv => PoweredOnlyToSample
  BY DEF PowerInv
<1> QED
  BY <1>1, InitPower, StepPower, PTL DEF Spec

\* CopyMatchesChip for every instance: whichever way the program started and
\* whatever was written while the ADC was in reset.
THEOREM CopyNeverStale == Spec => []CopyMatchesChip
<1>1. PowerInv => CopyMatchesChip
  BY DEF PowerInv
<1> QED
  BY <1>1, InitPower, StepPower, PTL DEF Spec

-----------------------------------------------------------------------------
(***************************************************************************)
(* The order of the samples.  Both parts of BufferInOrder need that the    *)
(* buffer holds nothing of an acquisition that is yet to start.            *)
(***************************************************************************)
NoneFromFuture == \A i \in 0 .. N-1 : sample_array[i].acq <= acq

OrderInv == TypeInv /\ NoneFromFuture /\ BufferInOrder

LEMMA ZeroOrder == \A i \in 0 .. N-1 : ZeroArray[i].acq = 0
BY DEF ZeroArray

LEMMA InitOrder == Init => OrderInv
BY InitTypes, ZeroOrder DEF Init, OrderInv, NoneFromFuture, BufferInOrder

\* The steps that leave the buffer and its index alone.
LEMMA SameBufferOrder ==
  ASSUME OrderInv, UNCHANGED <<sample_index, sample_array>>,
         acq' \in Nat, acq <= acq'
  PROVE  NoneFromFuture' /\ BufferInOrder'
<1>1. acq \in Nat /\ \A i \in 0 .. N-1 : sample_array[i].acq \in Nat
  BY DEF OrderInv, TypeInv, TypeOK, Sample
<1> QED
  BY <1>1 DEF OrderInv, NoneFromFuture, BufferInOrder

LEMMA CollectSampleOrder ==
  OrderInv /\ CollectSample => NoneFromFuture' /\ BufferInOrder'
<1> SUFFICES ASSUME OrderInv, CollectSample
             PROVE  NoneFromFuture' /\ BufferInOrder'
  OBVIOUS
<1>1. /\ acq \in Nat /\ acq' = acq
      /\ sample_index \in 0 .. N-1 /\ sample_index' = sample_index + 1
  BY NAssumption DEF OrderInv, TypeInv, TypeOK, CollectSample, StoreSample, ExtiIrq
<1>2. \A i \in 0 .. N-1 : sample_array[i].acq \in Nat
  BY DEF OrderInv, TypeInv, TypeOK, Sample
<1>3. \A i \in 0 .. N-1 :
        sample_array'[i].acq = IF i = sample_index THEN acq ELSE sample_array[i].acq
  BY <1>1 DEF OrderInv, TypeInv, TypeOK, CollectSample, StoreSample
<1>4. NoneFromFuture'
  BY <1>1, <1>3 DEF OrderInv, NoneFromFuture
<1>5. BufferInOrder'
  <2> SUFFICES ASSUME NEW i \in 0 .. N-1, NEW j \in 0 .. N-1
               PROVE  /\ i < j /\ j < sample_index'
                           => sample_array'[i].acq <= sample_array'[j].acq
                      /\ i < sample_index' /\ sample_index' <= j
                           => sample_array'[j].acq <= sample_array'[i].acq
    BY DEF BufferInOrder
  <2>1. sample_array[i].acq <= acq /\ sample_array[j].acq <= acq
    BY DEF OrderInv, NoneFromFuture
  <2>2. /\ i < j /\ j < sample_index => sample_array[i].acq <= sample_array[j].acq
        /\ i < sample_index /\ sample_index <= j
             => sample_array[j].acq <= sample_array[i].acq
    BY DEF OrderInv, BufferInOrder
  <2> QED
    BY <1>1, <1>2, <1>3, <2>1, <2>2
<1> QED
  BY <1>4, <1>5

LEMMA StepOrder == OrderInv /\ [Next]_vars => OrderInv'
<1> SUFFICES ASSUME OrderInv, [Next]_vars PROVE NoneFromFuture' /\ BufferInOrder'
  BY StepTypes DEF OrderInv
<1>t. acq \in Nat
  BY DEF OrderInv, TypeInv, TypeOK
<1>1. CASE CollectSample
  BY <1>1, CollectSampleOrder
<1>2. CASE CollectDone
  <2>1. sample_index' = 0 /\ UNCHANGED <<sample_array, acq>>
    BY <1>2 DEF CollectDone, HandOver, StopSampling, ExtiIrq
  <2> QED
    BY <2>1 DEF OrderInv, NoneFromFuture, BufferInOrder
<1>3. CASE HostBreak
  <2>1. sample_index' = 0 /\ sample_array' = ZeroArray /\ acq' = acq
    BY <1>3 DEF HostBreak, ResetWithIndex
  <2>2. \A i \in 0 .. N-1 : sample_array'[i].acq = 0
    BY <2>1, ZeroOrder
  <2> QED
    BY <1>t, <2>1, <2>2 DEF NoneFromFuture, BufferInOrder
<1>4. CASE start_sampling
  <2>1. UNCHANGED <<sample_index, sample_array>> /\ acq' = acq + 1
    BY <1>4 DEF start_sampling, UNCHANGED_buffers
  <2> QED
    BY <1>t, <2>1, SameBufferOrder
<1>5. CASE \/ Main \/ DrdyEdge \/ DrdyMissed \/ setup \/ ReadRegister
           \/ WriteAndReadOffset \/ stop_sampling \/ AwaitArgument \/ IgnoreChar
           \/ Argument \/ (\E c \in Chars : HostSends(c)) \/ UNCHANGED vars
  <2>1. UNCHANGED <<sample_index, sample_array, acq>>
    BY <1>5 DEF Main, MainPoll, MainStart, MainLoad, MainLine, MainEndFor,
       MainStop, MainClear, MainStep, DrdyEdge, DrdyMissed, ExtiIrq, setup,
       ReadRegister, WriteAndReadOffset, stop_sampling, AwaitArgument, IgnoreChar,
       Argument, change_decimation_rate, ChangeLength, HostSends, vars, bufVars,
       UNCHANGED_buffers
  <2> QED
    BY <1>t, <2>1, SameBufferOrder
<1> QED
  BY <1>1, <1>2, <1>3, <1>4, <1>5 DEF Next, Mcu, AnyHost, Drdy, Command

\* BufferInOrder for every instance.
THEOREM BufferAlwaysInOrder == Spec => []BufferInOrder
<1>1. OrderInv => BufferInOrder
  BY DEF OrderInv
<1> QED
  BY <1>1, InitOrder, StepOrder, PTL DEF Spec

\* HandedOverInOrder for every instance: only collect_samples sets data_ready,
\* and it does so when every sample is behind the index.
THEOREM HandOverAlwaysInOrder == Spec => HandedOverInOrder
<1> DEFINE InOrderStep ==
      data_ready = 0 /\ data_ready' = 1 =>
        \A i, j \in 0 .. N-1 :
          i < j => sample_array'[i].acq <= sample_array'[j].acq
<1>1. OrderInv /\ [Next]_vars => InOrderStep
  <2> SUFFICES ASSUME OrderInv, [Next]_vars, data_ready = 0, data_ready' = 1
               PROVE  \A i, j \in 0 .. N-1 :
                        i < j => sample_array'[i].acq <= sample_array'[j].acq
    OBVIOUS
  <2>1. CollectDone
    BY DEF Next, Mcu, AnyHost, Main, MainPoll, MainStart, MainLoad, MainLine,
       MainEndFor, MainStop, MainClear, Drdy, DrdyEdge, DrdyMissed, CollectSample,
       StoreSample, Command, setup, ReadRegister, WriteAndReadOffset, start_sampling,
       stop_sampling, StopSampling, AwaitArgument, IgnoreChar, Argument, change_decimation_rate,
       ChangeLength, HostSends, HostBreak, ResetWithIndex, vars, UNCHANGED_buffers
  <2>2. sample_index = N /\ sample_array' = sample_array
    BY <2>1, NAssumption DEF CollectDone, HandOver, StopSampling, OrderInv, TypeInv, TypeOK
  <2> QED
    BY <2>2, NAssumption DEF OrderInv, BufferInOrder
<1>2. OrderInv /\ [Next]_vars => [InOrderStep]_vars
  BY <1>1
<1> QED
  BY <1>2, InitOrder, StepOrder, PTL DEF Spec, HandedOverInOrder
=============================================================================
