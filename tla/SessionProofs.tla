---------------------------- MODULE SessionProofs ----------------------------
(***************************************************************************)
(* Proofs about Session, for every size of the buffer, every length table, *)
(* every set of arguments that the host uses and any number of sessions.   *)
(***************************************************************************)
EXTENDS Session, FirmwareProofs

-----------------------------------------------------------------------------
(***************************************************************************)
(* The inductive invariant says of every state of the host which commands  *)
(* are on their way and how far the microcontroller has come with them.    *)
(***************************************************************************)
Now       == [acq |-> acq, live |-> TRUE]
Fresh(n)  == [i \in 1 .. n |-> Now]
Wanted    == LengthOf(sample_code)

Chosen    == decimation \in Decimations /\ sample_code \in Lengths
SetUp     == notReset = HIGH /\ control_reg_1_state.filters = TRUE
RateSet   == /\ notReset = HIGH
             /\ control_reg_1_state =
                  [filters |-> TRUE, dec |-> DecimationOf(decimation)]
             /\ adc.cr1 = control_reg_1_state
LengthSet == number_of_samples_to_TX = Wanted

\* The UART holds rx, and getc waits for the argument of a.
Line(c, a) == rx = c /\ awaiting = a
Calm       == Line(NoChar, NoChar)

\* Nothing is sampled and nothing is to be sent.
Resting ==
  /\ ~irq_enabled
  /\ main_pc = "poll"
  /\ data_ready = 0
  /\ sample_index = 0
  /\ wire = <<>>

\* What is left of the script says what the board has done of it.
ScriptInv ==
  LET d == decimation
      l == sample_code
  IN \/ script = <<"P", "D", d, "L", l, "R">> /\ Calm
     \/ script = <<"D", d, "L", l, "R">>
          /\ (Line("P", NoChar) \/ (Calm /\ SetUp))
     \/ script = <<d, "L", l, "R">>
          /\ SetUp /\ (Line("D", NoChar) \/ Line(NoChar, "D"))
     \/ script = <<"L", l, "R">>
          /\ SetUp /\ (Line(d, "D") \/ (Calm /\ RateSet))
     \/ script = <<l, "R">>
          /\ RateSet /\ (Line("L", NoChar) \/ Line(NoChar, "L"))
     \/ script = <<"R">>
          /\ RateSet /\ (Line(l, "L") \/ (Calm /\ LengthSet))
     \/ script = <<>>
          /\ RateSet /\ LengthSet /\ (Line("R", NoChar) \/ Calm)

\* How much of the frame data_tx has printed.
Printing ==
  /\ main_pc \in {"for", "line", "stop", "clear"} => tx_index \in 0 .. Wanted
  /\ main_pc = "for"  => frame = Fresh(tx_index)
  /\ main_pc = "line" => tx_index < Wanted /\ frame = Fresh(tx_index + 1)
  /\ main_pc \in {"stop", "clear"} => frame = Fresh(Wanted)

Requested == Line("S", NoChar) /\ Resting

Collecting ==
  /\ Calm
  /\ irq_enabled /\ Converting(notReset, adc)
  /\ main_pc = "poll" /\ data_ready = 0 /\ wire = <<>>
  /\ \A i \in 0 .. sample_index - 1 : sample_array[i] = Now

Transmitting ==
  /\ Calm
  /\ ~irq_enabled
  /\ data_ready = 1 /\ sample_index = 0
  /\ \A i \in 0 .. N-1 : sample_array[i] = Now
  /\ Printing
  /\ wire = IF main_pc = "clear" THEN <<frame>> ELSE <<>>

Transmitted ==
  /\ Calm
  /\ ~irq_enabled
  /\ main_pc = "poll" /\ data_ready = 0 /\ sample_index = 0
  /\ frame = Fresh(Wanted)
  /\ wire = <<frame>>

\* collect_frame was quicker than data_ready = 0.
Clearing ==
  /\ Calm
  /\ ~irq_enabled
  /\ main_pc = "clear" /\ data_ready = 1 /\ sample_index = 0
  /\ frame = Fresh(Wanted)
  /\ wire = <<>>

HostInv ==
  /\ host = "closed"  => Calm /\ Resting /\ script = <<>>
  /\ host = "script"  => Chosen /\ Resting /\ ScriptInv
  /\ host = "reading" => (\E c \in ReadCommands \cup {NoChar} : Line(c, NoChar))
                           /\ Resting
  /\ host = "idle"    => (Calm /\ Resting) \/ Clearing
  /\ host = "waiting" => Requested \/ Collecting \/ Transmitting \/ Transmitted
  /\ host \in {"idle", "reading", "waiting"} => Chosen /\ RateSet /\ LengthSet /\ script = <<>>

HostTypeOK ==
  /\ host \in {"closed", "script", "idle", "reading", "waiting"}
  /\ script \in Seq(Chars)
  /\ decimation \in Decimations \cup {NoChar}
  /\ sample_code \in Lengths \cup {NoChar}
  /\ input_data \in Seq(Sample)

SessionInv == PowerInv /\ torn = FALSE /\ HostTypeOK /\ HostInv

-----------------------------------------------------------------------------
(***************************************************************************)
(* What the commands do to the registers of an ADC out of reset.           *)
(***************************************************************************)
LEMMA DistinctChars ==
  /\ NoChar \notin {"P", "R", "S", "T", "D", "L", "F", "G", "V"}
  /\ \A c \in Decimations \cup Lengths \cup ReadCommands : c \in Chars /\ c # NoChar
BY NoCharAssumption, DecimationsAssumption, LengthsAssumption, ReadAssumption
   DEF Commands

\* Types, and that every step of a session is a step of Firmware.
LEMMA Types ==
  ASSUME SessionInv
  PROVE  /\ notReset \in {LOW, HIGH} /\ adc \in AdcRegisters
         /\ control_reg_1_state \in ControlReg1 /\ control_reg_2_state \in ControlReg2
         /\ sample_index \in 0 .. N /\ sample_array \in [0 .. N-1 -> Sample]
         /\ tx_index \in 0 .. N /\ irq_enabled \in BOOLEAN /\ data_ready \in {0, 1}
         /\ rx \in Chars \cup {NoChar} /\ acq \in Nat
         /\ frame \in Seq(Sample \cup {Garbled})
BY DEF SessionInv, PowerInv, TypeInv, TypeOK

LEMMA WrittenWhileOn ==
  ASSUME SessionInv, notReset = HIGH, NEW v \in ControlReg1
  PROVE  power_down(WriteReg1(notReset, power_up(adc), v)).cr1 = v
<1> DEFINE w == WriteReg1(notReset, power_up(adc), v)
<1>1. /\ adc \in AdcRegisters /\ control_reg_2_state \in ControlReg2
      /\ notReset \in {LOW, HIGH}
  BY Types
<1>2. power_up(adc) \in AdcRegisters
  BY <1>1, Write2Effects DEF power_up
<1>3. w \in AdcRegisters /\ w.cr1 = v
  BY <1>1, <1>2, Write1Effects
<1>4. power_down(w).cr1 = w.cr1
  <2> HIDE DEF w
  <2> QED
    BY <1>3 DEF power_down, WriteReg2, AdcRegisters
<1> QED
  BY <1>3, <1>4

\* R, F, G and V write the copy back to Control Register 1.
LEMMA ReadKeepsRate ==
  ASSUME SessionInv, RateSet, ReadRegister \/ WriteAndReadOffset, UNCHANGED decimation
  PROVE  RateSet' /\ irq_enabled' = irq_enabled
<1>t. TypeInv /\ InReset /\ adc \in AdcRegisters /\ notReset \in {LOW, HIGH}
  BY DEF SessionInv, PowerInv, TypeInv, TypeOK
<1>c. control_reg_2_state \in ControlReg2
  BY Types
<1>h. notReset = HIGH /\ notReset # LOW
  BY DEF RateSet, LOW, HIGH
<1>1. \A a \in AdcRegisters : read_register(a).cr1 = control_reg_1_state
  BY <1>t, <1>h, ReadRegisterEffects
<1>2. power_down(WriteOffset(notReset, power_up(adc))) \in AdcRegisters
  <2>1. power_up(adc) \in AdcRegisters
    BY <1>t, <1>c, Write2Effects DEF power_up
  <2>2. WriteOffset(notReset, power_up(adc)) \in AdcRegisters
    BY <1>t, <2>1, WriteOffsetEffects
  <2> QED
    BY <1>t, <1>c, <2>2, Write2Effects DEF power_down
<1>3. adc'.cr1 = control_reg_1_state
  <2>1. CASE ReadRegister
    BY <2>1, <1>t, <1>1 DEF ReadRegister
  <2>2. CASE WriteAndReadOffset
    BY <2>2, <1>1, <1>2 DEF WriteAndReadOffset
  <2> QED
    BY <2>1, <2>2
<1> QED
  BY <1>3 DEF RateSet, ReadRegister, WriteAndReadOffset, regVars

-----------------------------------------------------------------------------
(***************************************************************************)
(* The microcontroller when it rests: it can only take a character.        *)
(***************************************************************************)
LEMMA RestingTakes ==
  ASSUME SessionInv, Resting, McuStep
  PROVE  /\ Command \/ Argument
         /\ wire' = wire /\ UNCHANGED <<host, script, decimation, sample_code>>
<1>1. ~Main
  BY DEF Resting, Main, MainPoll, MainStart, MainLoad, MainLine, MainEndFor, MainStop,
         MainClear, MainStep
<1>2. ~Drdy
  BY DEF Resting, Drdy, DrdyEdge, DrdyMissed, CollectSample, StoreSample, CollectDone,
         HandOver, ExtiIrq
<1> QED
  BY <1>1, <1>2 DEF McuStep, Mcu, Resting

LEMMA RestingStays ==
  ASSUME SessionInv, Resting, McuStep, ~start_sampling
  PROVE  Resting' /\ torn' = FALSE
<1>1. (Command \/ Argument) /\ wire' = wire
  BY RestingTakes
<1>2. torn = FALSE /\ main_pc = "poll"
  BY DEF SessionInv, Resting
<1>3. UNCHANGED_buffers
  BY <1>1 DEF Command, Argument, setup, ReadRegister, WriteAndReadOffset, start_sampling,
              stop_sampling, AwaitArgument, IgnoreChar, change_decimation_rate, ChangeLength
<1>4. ~irq_enabled'
  BY <1>1 DEF Resting, Command, Argument, setup, ReadRegister, WriteAndReadOffset,
     stop_sampling, StopSampling, AwaitArgument, IgnoreChar, change_decimation_rate,
     ChangeLength
<1>5. torn' = FALSE
  BY <1>1, <1>2 DEF Command, Argument, setup, ReadRegister, WriteAndReadOffset,
     stop_sampling, AwaitArgument, IgnoreChar, change_decimation_rate, ChangeLength,
     print_in_handler
<1> QED
  BY <1>1, <1>3, <1>4, <1>5 DEF Resting, UNCHANGED_buffers, mainVars

\* Without a character there is nothing to do.
LEMMA CalmWaits ==
  ASSUME Calm PROVE ~Command /\ ~Argument
<1>1. ~Command
  BY DistinctChars, NoCharAssumption DEF Calm, Line, Command, setup, ReadRegister,
     WriteAndReadOffset, start_sampling, stop_sampling, AwaitArgument, IgnoreChar, Receive
<1>2. ~Argument
  BY DEF Calm, Line, Argument, change_decimation_rate, ChangeLength, ReceiveArgument
<1> QED
  BY <1>1, <1>2

\* What is done with the characters of the script.
LEMMA TakeP ==
  ASSUME SessionInv, Resting, McuStep, Line("P", NoChar)
  PROVE  ~start_sampling /\ Calm' /\ SetUp'
<1>1. setup
  BY RestingTakes, DistinctChars DEF Line, Commands, Command, Argument, ReadRegister,
     WriteAndReadOffset, start_sampling, stop_sampling, AwaitArgument, IgnoreChar, Receive,
     change_decimation_rate, ChangeLength, ReceiveArgument
<1> QED
  BY <1>1 DEF setup, start_sampling, Receive, Line, Calm, SetUp, DefaultReg1

LEMMA TakeDorL ==
  ASSUME SessionInv, Resting, McuStep, NEW c \in {"D", "L"}, Line(c, NoChar)
  PROVE  ~start_sampling /\ Line(NoChar, c)' /\ (SetUp => SetUp') /\ (RateSet => RateSet')
<1>1. AwaitArgument
  BY RestingTakes, DistinctChars DEF Line, Commands, Command, Argument, ReadRegister,
     WriteAndReadOffset, start_sampling, stop_sampling, setup, IgnoreChar, Receive,
     change_decimation_rate, ChangeLength, ReceiveArgument
<1>2. UNCHANGED decimation
  BY RestingTakes
<1> QED
  BY <1>1, <1>2 DEF AwaitArgument, start_sampling, Receive, Line, SetUp, RateSet, regVars

LEMMA TakeRate ==
  ASSUME SessionInv, Resting, McuStep, Chosen, SetUp, Line(decimation, "D")
  PROVE  ~start_sampling /\ Calm' /\ SetUp' /\ RateSet'
<1>1. change_decimation_rate
  BY RestingTakes, DistinctChars DEF Line, Command, Argument, setup, ReadRegister,
     WriteAndReadOffset, start_sampling, stop_sampling, AwaitArgument, IgnoreChar, Receive,
     ChangeLength, ReceiveArgument
<1>2. rx = decimation /\ UNCHANGED decimation
  BY RestingTakes DEF Line
<1>3. /\ control_reg_1_state' \in ControlReg1
      /\ control_reg_1_state' = [filters |-> TRUE, dec |-> DecimationOf(decimation)]
  BY <1>1, <1>2, Types, DecimationType DEF change_decimation_rate, SetUp, ControlReg1
<1>4. adc'.cr1 = control_reg_1_state'
  BY <1>1, <1>3, WrittenWhileOn DEF change_decimation_rate, SetUp
<1>5. Calm' /\ UNCHANGED notReset
  BY <1>1 DEF change_decimation_rate, ReceiveArgument, Calm, Line
<1> QED
  BY <1>1, <1>2, <1>3, <1>4, <1>5, DistinctChars
     DEF SetUp, RateSet, Line, start_sampling, Receive

LEMMA TakeLength ==
  ASSUME SessionInv, Resting, McuStep, Chosen, RateSet, Line(sample_code, "L")
  PROVE  ~start_sampling /\ Calm' /\ RateSet' /\ LengthSet'
<1>1. ChangeLength
  BY RestingTakes, DistinctChars DEF Line, Command, Argument, setup, ReadRegister,
     WriteAndReadOffset, start_sampling, stop_sampling, AwaitArgument, IgnoreChar, Receive,
     change_decimation_rate, ReceiveArgument
<1>2. rx = sample_code /\ UNCHANGED <<decimation, sample_code>>
  BY RestingTakes DEF Line
<1>3. Calm' /\ RateSet'
  BY <1>1, <1>2 DEF ChangeLength, ReceiveArgument, Calm, Line, RateSet, regVars
<1>4. LengthSet'
  BY <1>1, <1>2 DEF ChangeLength, LengthSet, Wanted
<1> QED
  BY <1>1, <1>3, <1>4, DistinctChars DEF Line, start_sampling, Receive

LEMMA TakeRead ==
  ASSUME SessionInv, Resting, McuStep, RateSet, LengthSet,
         NEW c \in {"R", "F", "G", "V"}, Line(c, NoChar)
  PROVE  ~start_sampling /\ Calm' /\ RateSet' /\ LengthSet'
<1>1. ReadRegister \/ WriteAndReadOffset
  BY RestingTakes, DistinctChars DEF Line, Commands, Command, Argument, setup,
     start_sampling, stop_sampling, AwaitArgument, IgnoreChar, Receive,
     change_decimation_rate, ChangeLength, ReceiveArgument
<1>2. UNCHANGED <<decimation, sample_code>>
  BY RestingTakes
<1>3. Calm' /\ LengthSet'
  BY <1>1, <1>2 DEF ReadRegister, WriteAndReadOffset, Receive, Calm, Line, LengthSet, Wanted
<1> QED
  BY <1>1, <1>2, <1>3, ReadKeepsRate DEF Line, start_sampling, Receive

LEMMA TakeS ==
  ASSUME SessionInv, Requested, McuStep, RateSet
  PROVE  Collecting' /\ torn' = FALSE /\ RateSet'
           /\ UNCHANGED number_of_samples_to_TX
<1>1. start_sampling /\ wire' = wire /\ UNCHANGED decimation
  BY RestingTakes, DistinctChars DEF Requested, Line, Commands, Command, Argument, setup,
     ReadRegister, WriteAndReadOffset, stop_sampling, AwaitArgument, IgnoreChar, Receive,
     change_decimation_rate, ChangeLength, ReceiveArgument
<1>2. /\ adc \in AdcRegisters /\ control_reg_2_state \in ControlReg2
      /\ notReset = HIGH /\ notReset \in {LOW, HIGH}
  BY Types DEF RateSet
<1>3. adc' = WriteReg2(notReset, adc, control_reg_2_state, FALSE)
  BY <1>1 DEF start_sampling, power_up
<1>4. adc'.pd = FALSE /\ adc'.cr1 = adc.cr1
  BY <1>2, <1>3, Write2Effects
<1>5. RateSet' /\ Converting(notReset, adc)'
  BY <1>1, <1>2, <1>4 DEF start_sampling, regVars, RateSet, Converting
<1>6. torn' = FALSE
  BY <1>1 DEF start_sampling, SessionInv
<1>7. /\ Calm' /\ irq_enabled' /\ sample_index' = 0
      /\ main_pc' = "poll" /\ data_ready' = 0 /\ wire' = <<>>
      /\ UNCHANGED number_of_samples_to_TX
  BY <1>1 DEF start_sampling, UNCHANGED_buffers, mainVars, Receive, Requested, Resting,
     Line, Calm
<1> QED
  BY <1>5, <1>6, <1>7 DEF Collecting

-----------------------------------------------------------------------------
(***************************************************************************)
(* The steps of the microcontroller by the state of the host.              *)
(***************************************************************************)
LEMMA ScriptStep ==
  ASSUME SessionInv, host = "script", McuStep
  PROVE  HostInv' /\ torn' = FALSE
<1>1. Chosen /\ Resting /\ ScriptInv
  BY DEF SessionInv, HostInv
<1>2. UNCHANGED <<host, script, decimation, sample_code>> /\ Chosen'
  BY <1>1 DEF McuStep, Chosen
<1> DEFINE d == decimation
           l == sample_code
<1>3. ~start_sampling /\ ScriptInv'
  <2>0. ~Calm
    BY <1>1, RestingTakes, CalmWaits
  <2>1. CASE script = <<"D", d, "L", l, "R">> /\ Line("P", NoChar)
    BY <1>1, <1>2, <2>1, TakeP DEF ScriptInv
  <2>2. CASE script = <<d, "L", l, "R">> /\ SetUp /\ Line("D", NoChar)
    BY <1>1, <1>2, <2>2, TakeDorL DEF ScriptInv
  <2>3. CASE script = <<d, "L", l, "R">> /\ SetUp /\ Line(NoChar, "D")
    BY <1>1, <2>3, RestingTakes, DistinctChars DEF Line, Command, Argument, setup,
       ReadRegister, WriteAndReadOffset, start_sampling, stop_sampling, AwaitArgument,
       IgnoreChar, Receive, change_decimation_rate, ChangeLength, ReceiveArgument
  <2>4. CASE script = <<"L", l, "R">> /\ SetUp /\ Line(d, "D")
    BY <1>1, <1>2, <2>4, TakeRate DEF ScriptInv
  <2>5. CASE script = <<l, "R">> /\ RateSet /\ Line("L", NoChar)
    BY <1>1, <1>2, <2>5, TakeDorL DEF ScriptInv
  <2>6. CASE script = <<l, "R">> /\ RateSet /\ Line(NoChar, "L")
    BY <1>1, <2>6, RestingTakes, DistinctChars DEF Line, Command, Argument, setup,
       ReadRegister, WriteAndReadOffset, start_sampling, stop_sampling, AwaitArgument,
       IgnoreChar, Receive, change_decimation_rate, ChangeLength, ReceiveArgument
  <2>7. CASE script = <<"R">> /\ RateSet /\ Line(l, "L")
    BY <1>1, <1>2, <2>7, TakeLength DEF ScriptInv
  <2>8. CASE script = <<>> /\ RateSet /\ LengthSet /\ Line("R", NoChar)
    BY <1>1, <1>2, <2>8, TakeRead DEF ScriptInv
  <2> QED
    BY <1>1, <2>0, <2>1, <2>2, <2>3, <2>4, <2>5, <2>6, <2>7, <2>8 DEF ScriptInv
<1>4. Resting' /\ torn' = FALSE
  BY <1>1, <1>3, RestingStays
<1> QED
  BY <1>2, <1>3, <1>4 DEF HostInv

LEMMA ReadingStep ==
  ASSUME SessionInv, host = "reading", McuStep
  PROVE  HostInv' /\ torn' = FALSE
<1>1. Chosen /\ RateSet /\ LengthSet /\ Resting /\ script = <<>>
  BY DEF SessionInv, HostInv
<1>2. PICK c \in ReadCommands \cup {NoChar} : Line(c, NoChar)
  BY DEF SessionInv, HostInv
<1>3. c # NoChar
  BY <1>1, <1>2, RestingTakes, CalmWaits DEF Calm
<1>4. c \in {"R", "F", "G", "V"}
  BY <1>2, <1>3, ReadAssumption
<1>5. ~start_sampling /\ Calm' /\ RateSet' /\ LengthSet'
  BY <1>1, <1>2, <1>4, TakeRead
<1>6. Resting' /\ torn' = FALSE
  BY <1>1, <1>5, RestingStays
<1>7. UNCHANGED <<host, script, decimation, sample_code>>
  BY DEF McuStep
<1> QED
  BY <1>1, <1>5, <1>6, <1>7 DEF HostInv, Chosen, Calm

\* With its UART empty the board runs main or serves DRDY.
LEMMA CalmStep ==
  ASSUME SessionInv, Calm, McuStep
  PROVE  /\ Main \/ (irq_enabled /\ Drdy)
         /\ Calm'
         /\ UNCHANGED <<notReset, control_reg_1_state, number_of_samples_to_TX, acq>>
         /\ UNCHANGED <<host, script, decimation, sample_code>>
         /\ Main => UNCHANGED <<irq_enabled, adc, sample_index, sample_array>>
<1>1. Main \/ Drdy
  BY CalmWaits DEF McuStep, Mcu
<1>2. Drdy => irq_enabled
  BY DEF Drdy, DrdyEdge, DrdyMissed, CollectSample, StoreSample, CollectDone, HandOver, ExtiIrq
<1>3. CASE Main
  BY <1>3 DEF Main, MainPoll, MainStart, MainLoad, MainLine, MainEndFor, MainStop,
     MainClear, MainStep, regVars, bufVars, Calm, Line, McuStep
<1>4. CASE Drdy /\ ~Main
  BY <1>2, <1>4 DEF Drdy, DrdyEdge, DrdyMissed, CollectSample, StoreSample, CollectDone,
     HandOver, ExtiIrq, regVars, bufVars, Calm, Line, McuStep
<1> QED
  BY <1>1, <1>3, <1>4

LEMMA IdleStep ==
  ASSUME SessionInv, host = "idle", McuStep
  PROVE  HostInv' /\ torn' = FALSE
<1>1. Chosen /\ RateSet /\ LengthSet /\ script = <<>>
  BY DEF SessionInv, HostInv
<1>2. Clearing
  BY RestingTakes, CalmWaits DEF SessionInv, HostInv
<1>3. MainClear
  BY <1>2, CalmStep DEF Clearing, Main, MainPoll, MainStart, MainLoad, MainLine,
     MainEndFor, MainStop, MainStep
<1>4. /\ Calm' /\ Main
      /\ UNCHANGED <<notReset, control_reg_1_state, number_of_samples_to_TX>>
      /\ UNCHANGED <<host, script, decimation, sample_code, irq_enabled, adc, sample_index>>
  BY <1>2, <1>3, CalmStep DEF Clearing, Main
<1>5. Resting' /\ torn' = FALSE
  BY <1>2, <1>3, <1>4 DEF Clearing, MainClear, MainStep, McuStep, SessionInv, Resting
<1>6. Chosen' /\ RateSet' /\ LengthSet'
  BY <1>1, <1>4 DEF Chosen, RateSet, LengthSet, Wanted
<1> QED
  BY <1>4, <1>5, <1>6, <1>1 DEF HostInv

LEMMA FreshFrames ==
  /\ Fresh(0) = <<>>
  /\ \A n \in Nat : Append(Fresh(n), Now) = Fresh(n + 1)
<1>1. Fresh(0) = <<>>
  BY DEF Fresh
<1>2. ASSUME NEW n \in Nat PROVE Append(Fresh(n), Now) = Fresh(n + 1)
  <2>1. Len(Fresh(n)) = n
    BY DEF Fresh
  <2> QED
    BY <2>1 DEF Fresh
<1> QED
  BY <1>1, <1>2

LEMMA CollectingStep ==
  ASSUME SessionInv, Collecting, McuStep
  PROVE  Collecting' \/ Transmitting'
<1>1. /\ irq_enabled /\ Drdy /\ ~Main /\ Calm'
      /\ UNCHANGED <<notReset, number_of_samples_to_TX, acq>>
  <2>1. ~Main
    BY DEF Collecting, Main, MainPoll, MainStart, MainLoad, MainLine, MainEndFor, MainStop,
           MainClear, MainStep
  <2> QED
    BY <2>1, CalmStep DEF Collecting
<1>2. UNCHANGED <<main_pc, wire>>
  BY <1>1 DEF Collecting, McuStep, Drdy, DrdyEdge, DrdyMissed, CollectSample, StoreSample,
     CollectDone, HandOver, ExtiIrq, mainVars
<1>t. /\ sample_index \in 0 .. N /\ sample_array \in [0 .. N-1 -> Sample]
      /\ N \in Nat \ {0} /\ irq_enabled \in BOOLEAN
  BY Types, NAssumption
<1>3. CASE DrdyEdge \/ DrdyMissed
  <2>1. UNCHANGED <<irq_enabled, adc, sample_index, sample_array, data_ready>>
    BY <1>3 DEF DrdyEdge, DrdyMissed, ExtiIrq, bufVars
  <2> QED
    BY <1>1, <1>2, <2>1 DEF Collecting, Converting, Now
<1>4. CASE CollectSample
  <2>1. /\ sample_index < N /\ sample_index' = sample_index + 1
        /\ sample_array' = [sample_array EXCEPT ![sample_index] = Now]
        /\ UNCHANGED <<irq_enabled, adc, data_ready>>
    BY <1>4 DEF CollectSample, StoreSample, Collecting, Now
  <2>2. ASSUME NEW i \in 0 .. sample_index' - 1 PROVE sample_array'[i] = Now'
    <3>1. Now' = Now /\ i \in 0 .. N-1 /\ (i = sample_index \/ i \in 0 .. sample_index - 1)
      BY <1>1, <1>t, <2>1 DEF Now
    <3>2. sample_array'[i] = IF i = sample_index THEN Now ELSE sample_array[i]
      BY <1>t, <2>1, <3>1
    <3> QED
      BY <3>1, <3>2 DEF Collecting
  <2> QED
    BY <1>1, <1>2, <2>1, <2>2 DEF Collecting, Converting
<1>5. CASE CollectDone
  <2>1. /\ ~(sample_index < N) /\ sample_index' = 0 /\ data_ready' = 1
        /\ irq_enabled' = FALSE /\ UNCHANGED sample_array
    BY <1>5 DEF CollectDone, HandOver, StopSampling
  <2>2. \A i \in 0 .. N-1 : sample_array'[i] = Now'
    BY <1>1, <1>t, <2>1 DEF Collecting, Now
  <2>3. Printing' /\ wire' = <<>> /\ main_pc' = "poll"
    BY <1>2 DEF Collecting, Printing
  <2> QED
    BY <1>1, <2>1, <2>2, <2>3 DEF Transmitting
<1> QED
  BY <1>1, <1>3, <1>4, <1>5 DEF Drdy

LEMMA TransmittingStep ==
  ASSUME SessionInv, Transmitting, LengthSet, McuStep
  PROVE  (Transmitting' \/ Transmitted') /\ torn' = FALSE
<1>1. /\ Main /\ Calm'
      /\ UNCHANGED <<irq_enabled, acq, sample_index, sample_array, number_of_samples_to_TX>>
      /\ UNCHANGED sample_code
  BY CalmStep DEF Transmitting
<1>2. /\ Wanted' = Wanted /\ Wanted \in 1 .. N /\ number_of_samples_to_TX = Wanted
      /\ N \in Nat /\ tx_index \in 0 .. N /\ torn = FALSE
      /\ \A n : Fresh(n)' = Fresh(n)
  BY <1>1, Types, LengthType, NAssumption DEF Wanted, LengthSet, SessionInv, Fresh, Now
<1>3. ASSUME UNCHANGED <<data_ready, wire>>, main_pc' # "clear", main_pc # "clear",
             Printing'
      PROVE  Transmitting'
  BY <1>1, <1>3 DEF Transmitting, Now
<1>4. CASE MainPoll
  <2>1. UNCHANGED <<data_ready, wire, torn>> /\ main_pc = "poll" /\ main_pc' = "start"
    BY <1>4 DEF MainPoll, MainStep, McuStep
  <2>2. Printing'
    BY <2>1 DEF Printing
  <2> QED
    BY <1>2, <1>3, <2>1, <2>2
<1>5. CASE MainStart
  <2>1. UNCHANGED <<data_ready, wire, torn>> /\ main_pc = "start" /\ main_pc' = "for"
    BY <1>5 DEF MainStart, MainStep, McuStep
  <2>2. tx_index' = 0 /\ frame' = Fresh(0)
    BY <1>5, FreshFrames DEF MainStart
  <2>3. Printing'
    BY <1>2, <2>1, <2>2 DEF Printing
  <2> QED
    BY <1>2, <1>3, <2>1, <2>3
<1>6. CASE MainLoad
  <2>1. /\ UNCHANGED <<data_ready, wire, torn, tx_index>>
        /\ main_pc = "for" /\ main_pc' = "line" /\ tx_index < Wanted
    BY <1>2, <1>6 DEF MainLoad, MainStep, McuStep
  <2>2. sample_array[tx_index] = Now
    BY <1>2, <2>1 DEF Transmitting
  <2>3. frame' = Fresh(tx_index + 1)
    <3>1. frame = Fresh(tx_index) /\ frame' = Append(frame, Now)
      BY <1>6, <2>1, <2>2 DEF MainLoad, Transmitting, Printing
    <3>2. tx_index \in Nat
      BY <1>2
    <3> QED
      BY <3>1, <3>2, FreshFrames
  <2>4. Printing'
    BY <1>2, <2>1, <2>3 DEF Printing, Transmitting
  <2> QED
    BY <1>2, <1>3, <2>1, <2>4
<1>7. CASE MainLine
  <2>1. /\ UNCHANGED <<data_ready, wire, frame>> /\ torn' = FALSE
        /\ tx_index' = tx_index + 1 /\ main_pc = "line" /\ main_pc' = "for"
    BY <1>2, <1>7 DEF MainLine, MainStep, McuStep
  <2>2. tx_index < Wanted /\ frame = Fresh(tx_index + 1)
    BY <2>1 DEF Transmitting, Printing
  <2>3. Printing'
    BY <1>2, <2>1, <2>2 DEF Printing
  <2> QED
    BY <1>3, <2>1, <2>3
<1>8. CASE MainEndFor
  <2>1. /\ UNCHANGED <<data_ready, wire, torn, tx_index, frame>>
        /\ main_pc = "for" /\ main_pc' = "stop" /\ ~(tx_index < Wanted)
    BY <1>2, <1>8 DEF MainEndFor, MainStep, McuStep
  <2>2. tx_index \in 0 .. Wanted /\ frame = Fresh(tx_index)
    BY <2>1 DEF Transmitting, Printing
  <2>3. tx_index = Wanted
    BY <1>2, <2>1, <2>2
  <2>4. Printing'
    BY <1>2, <2>1, <2>2, <2>3 DEF Printing
  <2> QED
    BY <1>2, <1>3, <2>1, <2>4
<1>9. CASE MainStop
  <2>1. /\ UNCHANGED <<data_ready, torn, tx_index, frame>>
        /\ main_pc = "stop" /\ main_pc' = "clear" /\ wire' = Append(wire, frame)
    BY <1>9 DEF MainStop, MainStep, McuStep
  <2>2. Printing'
    BY <1>2, <2>1 DEF Transmitting, Printing
  <2>3. wire' = <<frame'>>
    BY <2>1 DEF Transmitting
  <2> QED
    BY <1>1, <1>2, <2>1, <2>2, <2>3 DEF Transmitting, Now
<1>10. CASE MainClear
  <2>1. /\ UNCHANGED <<torn, frame, wire>> /\ data_ready' = 0
        /\ main_pc = "clear" /\ main_pc' = "poll"
    BY <1>10 DEF MainClear, MainStep, McuStep
  <2> QED
    BY <1>1, <1>2, <2>1 DEF Transmitting, Transmitted, Printing
<1> QED
  BY <1>1, <1>4, <1>5, <1>6, <1>7, <1>8, <1>9, <1>10 DEF Main

LEMMA WaitingStep ==
  ASSUME SessionInv, host = "waiting", McuStep
  PROVE  HostInv' /\ torn' = FALSE
<1>1. Chosen /\ RateSet /\ LengthSet /\ script = <<>>
  BY DEF SessionInv, HostInv
<1>2. UNCHANGED <<host, script, decimation, sample_code>> /\ Chosen'
  BY <1>1 DEF McuStep, Chosen
<1>3. ~Transmitted
  <2>1. Transmitted => Main
    BY CalmStep DEF Transmitted
  <2> QED
    BY <2>1 DEF Transmitted, Main, MainPoll, MainStart, MainLoad, MainLine, MainEndFor,
       MainStop, MainClear, MainStep
<1>4. CASE Requested
  <2>1. Collecting' /\ torn' = FALSE /\ RateSet' /\ LengthSet'
    BY <1>1, <1>2, <1>4, TakeS DEF LengthSet, Wanted
  <2> QED
    BY <1>1, <1>2, <2>1 DEF HostInv
<1>5. CASE Collecting
  <2>1. /\ Collecting' \/ Transmitting'
        /\ UNCHANGED <<notReset, control_reg_1_state, number_of_samples_to_TX>>
    BY <1>5, CollectingStep, CalmStep DEF Collecting
  <2>2. adc'.cr1 = adc.cr1 /\ torn' = torn
    <3>1. Drdy
      BY <1>5, CalmStep DEF Collecting, Main, MainPoll, MainStart, MainLoad, MainLine,
         MainEndFor, MainStop, MainClear, MainStep
    <3>2. power_down(adc).cr1 = adc.cr1
      BY Types, Write2Effects DEF power_down
    <3> QED
      BY <3>1, <3>2 DEF Drdy, DrdyEdge, DrdyMissed, CollectSample, StoreSample, CollectDone,
         HandOver, StopSampling, ExtiIrq
  <2>3. RateSet' /\ LengthSet' /\ torn' = FALSE
    BY <1>1, <1>2, <2>1, <2>2 DEF RateSet, LengthSet, Wanted, SessionInv
  <2> QED
    BY <1>1, <1>2, <2>1, <2>3 DEF HostInv
<1>6. CASE Transmitting
  <2>1. (Transmitting' \/ Transmitted') /\ torn' = FALSE
    BY <1>1, <1>6, TransmittingStep
  <2>2. UNCHANGED <<notReset, control_reg_1_state, number_of_samples_to_TX, adc>>
    BY <1>6, CalmStep DEF Transmitting
  <2>3. RateSet' /\ LengthSet'
    BY <1>1, <1>2, <2>2 DEF RateSet, LengthSet, Wanted
  <2> QED
    BY <1>1, <1>2, <2>1, <2>3 DEF HostInv
<1> QED
  BY <1>3, <1>4, <1>5, <1>6 DEF SessionInv, HostInv

-----------------------------------------------------------------------------
(***************************************************************************)
(* The steps of the host.                                                  *)
(***************************************************************************)
LEMMA ClosedStep == SessionInv /\ host = "closed" => ~McuStep
BY RestingTakes, CalmWaits DEF SessionInv, HostInv

LEMMA McuKeepsInv == SessionInv /\ McuStep => HostInv' /\ torn' = FALSE /\ HostTypeOK'
<1> SUFFICES ASSUME SessionInv, McuStep PROVE HostInv' /\ torn' = FALSE /\ HostTypeOK'
  OBVIOUS
<1>1. HostTypeOK'
  BY DEF SessionInv, HostTypeOK, McuStep
<1>2. host \in {"closed", "script", "idle", "reading", "waiting"}
  BY DEF SessionInv, HostTypeOK
<1> QED
  BY <1>1, <1>2, ClosedStep, ScriptStep, IdleStep, ReadingStep, WaitingStep

\* What the host sends reaches the UART.
LEMMA Written ==
  ASSUME NEW c, write(c)
  PROVE  /\ rx = NoChar /\ rx' = c
         /\ UNCHANGED <<notReset, control_reg_1_state, adc, irq_enabled, sample_index,
                        sample_array, acq, data_ready, number_of_samples_to_TX, main_pc,
                        tx_index, frame, torn, awaiting>>
BY DEF write, HostSends, regVars, bufVars, mainVars

LEMMA ReconfigureInv ==
  ASSUME SessionInv, Reconfigure
  PROVE  HostInv' /\ torn' = FALSE /\ HostTypeOK'
<1>1. PICK d \in Decimations, l \in Lengths :
         decimation' = d /\ sample_code' = l /\ script' = <<"P", "D", d, "L", l, "R">>
  BY DEF Reconfigure
<1>2. Chosen' /\ script' \in Seq(Chars)
  BY <1>1, DistinctChars, CommandsAssumption DEF Chosen
<1>3. Calm' /\ Resting' /\ torn' = FALSE /\ host' = "script" /\ UNCHANGED input_data
  BY DEF Reconfigure, HostBreak, ResetWithIndex, Calm, Line, Resting
<1>4. ScriptInv'
  BY <1>1, <1>3 DEF ScriptInv
<1> QED
  BY <1>1, <1>2, <1>3, <1>4 DEF HostInv, HostTypeOK, SessionInv

LEMMA WriteScriptInv ==
  ASSUME SessionInv, WriteScript
  PROVE  HostInv' /\ torn' = FALSE /\ HostTypeOK'
<1>1. Chosen /\ Resting /\ ScriptInv /\ host = "script"
  BY DEF SessionInv, HostInv, WriteScript
<1>2. /\ rx = NoChar /\ rx' = Head(script) /\ script' = Tail(script) /\ script # <<>>
      /\ UNCHANGED <<notReset, control_reg_1_state, adc, irq_enabled, sample_index,
                     data_ready, number_of_samples_to_TX, main_pc, torn, awaiting>>
      /\ UNCHANGED <<host, decimation, sample_code, wire, input_data>>
  BY Written DEF WriteScript
<1>3. Chosen' /\ Resting' /\ torn' = FALSE
  BY <1>1, <1>2 DEF Chosen, Resting, SessionInv
<1>4. HostTypeOK'
  BY <1>2 DEF SessionInv, HostTypeOK
<1>5. (SetUp => SetUp') /\ (RateSet => RateSet') /\ (LengthSet => LengthSet')
  BY <1>2 DEF SetUp, RateSet, LengthSet, Wanted
<1> DEFINE d == decimation
           l == sample_code
<1>6. d # NoChar /\ l # NoChar /\ NoChar \notin {"P", "D", "L", "R"}
  BY <1>1, DistinctChars DEF Chosen
<1>7. ScriptInv'
  <2>1. CASE script = <<"P", "D", d, "L", l, "R">> /\ Calm
    <3>1. rx' = "P" /\ script' = <<"D", d, "L", l, "R">>
      BY <1>2, <2>1
    <3> QED
      BY <1>2, <2>1, <3>1 DEF ScriptInv, Calm, Line
  <2>2. CASE script = <<"D", d, "L", l, "R">> /\ Calm /\ SetUp
    <3>1. rx' = "D" /\ script' = <<d, "L", l, "R">>
      BY <1>2, <2>2
    <3> QED
      BY <1>2, <1>5, <2>2, <3>1 DEF ScriptInv, Calm, Line
  <2>3. CASE script = <<d, "L", l, "R">> /\ SetUp /\ Line(NoChar, "D")
    <3>1. rx' = d /\ script' = <<"L", l, "R">>
      BY <1>2, <2>3
    <3> QED
      BY <1>2, <1>5, <2>3, <3>1 DEF ScriptInv, Line
  <2>4. CASE script = <<"L", l, "R">> /\ Calm /\ RateSet
    <3>1. rx' = "L" /\ script' = <<l, "R">>
      BY <1>2, <2>4
    <3> QED
      BY <1>2, <1>5, <2>4, <3>1 DEF ScriptInv, Calm, Line
  <2>5. CASE script = <<l, "R">> /\ RateSet /\ Line(NoChar, "L")
    <3>1. rx' = l /\ script' = <<"R">>
      BY <1>2, <2>5
    <3> QED
      BY <1>2, <1>5, <2>5, <3>1 DEF ScriptInv, Line
  <2>6. CASE script = <<"R">> /\ RateSet /\ Calm /\ LengthSet
    <3>1. rx' = "R" /\ script' = <<>>
      BY <1>2, <2>6
    <3> QED
      BY <1>2, <1>5, <2>6, <3>1 DEF ScriptInv, Calm, Line
  <2> QED
    BY <1>1, <1>2, <1>6, <2>1, <2>2, <2>3, <2>4, <2>5, <2>6 DEF ScriptInv, Line, Calm
<1> QED
  BY <1>1, <1>2, <1>3, <1>4, <1>7 DEF HostInv

\* What collect_frame finds.
LEMMA WireHoldsFrame ==
  ASSUME SessionInv, host = "waiting", wire # <<>>
  PROVE  /\ Calm /\ ~irq_enabled /\ sample_index = 0
         /\ wire = <<frame>> /\ frame = Fresh(Wanted)
         /\ \/ main_pc = "clear" /\ data_ready = 1
            \/ main_pc = "poll" /\ data_ready = 0
<1>1. Transmitting \/ Transmitted
  BY DEF SessionInv, HostInv, Requested, Resting, Collecting
<1>2. CASE Transmitting
  <2>1. main_pc = "clear"
    BY <1>2 DEF Transmitting
  <2> QED
    BY <1>2, <2>1 DEF Transmitting, Printing
<1>3. CASE Transmitted
  BY <1>3 DEF Transmitted
<1> QED
  BY <1>1, <1>2, <1>3

\* A frame of samples only is not shortened.
LEMMA FreshIsReadable ==
  ASSUME SessionInv
  PROVE  Fresh(Wanted) \in Seq(Sample) /\ hexadecimal(Fresh(Wanted)) = Fresh(Wanted)
<1>1. Now \in Sample /\ Now # Garbled
  <2>1. Now \in Sample
    BY Types DEF Now, Sample
  <2> QED
    BY <2>1, GarbledAssumption
<1>2. Wanted \in Nat
  BY LengthType, NAssumption DEF Wanted
<1>3. Fresh(Wanted) \in Seq(Sample) /\ Len(Fresh(Wanted)) = Wanted
  BY <1>1, <1>2 DEF Fresh
<1>4. \A k \in 1 .. Len(Fresh(Wanted)) : Fresh(Wanted)[k] # Garbled
  BY <1>1, <1>3 DEF Fresh
<1> QED
  BY <1>3, <1>4 DEF hexadecimal

LEMMA HostKeepsInv == SessionInv /\ HostStep => HostInv' /\ torn' = FALSE /\ HostTypeOK'
<1> SUFFICES ASSUME SessionInv, HostStep PROVE HostInv' /\ torn' = FALSE /\ HostTypeOK'
  OBVIOUS
<1>0. torn = FALSE /\ HostTypeOK /\ HostInv
  BY DEF SessionInv
<1>1. CASE Reconfigure
  BY <1>1, ReconfigureInv
<1>2. CASE WriteScript
  BY <1>2, WriteScriptInv
<1>3. CASE StatusRead
  <2>1. /\ host' = "idle" /\ script = <<>> /\ rx = NoChar
        /\ UNCHANGED <<vars, script, decimation, sample_code, wire, input_data>>
    BY <1>3 DEF StatusRead
  <2>2. Chosen /\ Resting /\ RateSet /\ LengthSet /\ Calm
    BY <1>0, <1>3, <2>1, DistinctChars DEF HostInv, ScriptInv, StatusRead, Line, Calm
  <2>3. Chosen' /\ Resting' /\ RateSet' /\ LengthSet' /\ Calm'
    BY <2>1, <2>2 DEF vars, regVars, bufVars, mainVars, Chosen, Resting, RateSet, LengthSet,
       Wanted, Calm, Line
  <2> QED
    BY <1>0, <2>1, <2>3 DEF HostInv, HostTypeOK, vars
<1>4. CASE RequestRegister
  <2>1. PICK c \in ReadCommands : write(c)
    BY <1>4 DEF RequestRegister
  <2>2. /\ host = "idle" /\ host' = "reading" /\ main_pc = "poll"
        /\ UNCHANGED <<script, decimation, sample_code, wire, input_data>>
    BY <1>4 DEF RequestRegister
  <2>3. Resting /\ Calm /\ Chosen /\ RateSet /\ LengthSet /\ script = <<>>
    BY <1>0, <2>2 DEF HostInv, Clearing
  <2>4. /\ Line(c, NoChar)' /\ Chosen' /\ Resting' /\ RateSet' /\ LengthSet'
        /\ torn' = FALSE
    BY <1>0, <2>1, <2>2, <2>3, Written
       DEF Chosen, Resting, RateSet, LengthSet, Wanted, Calm, Line
  <2> QED
    BY <1>0, <2>2, <2>3, <2>4 DEF HostInv, HostTypeOK
<1>5. CASE RegisterRead
  <2>1. /\ host = "reading" /\ host' = "idle" /\ rx = NoChar
        /\ UNCHANGED <<vars, script, decimation, sample_code, wire, input_data>>
    BY <1>5 DEF RegisterRead
  <2>2. Resting /\ Calm /\ Chosen /\ RateSet /\ LengthSet /\ script = <<>>
    BY <1>0, <2>1 DEF HostInv, Line, Calm
  <2>3. Chosen' /\ Resting' /\ RateSet' /\ LengthSet' /\ Calm'
    BY <2>1, <2>2 DEF vars, regVars, bufVars, mainVars, Chosen, Resting, RateSet, LengthSet,
       Wanted, Calm, Line
  <2> QED
    BY <1>0, <2>1, <2>2, <2>3 DEF HostInv, HostTypeOK, vars
<1>6. CASE start_acquisition
  <2>1. /\ host = "idle" /\ host' = "waiting" /\ main_pc = "poll" /\ write("S")
        /\ UNCHANGED <<script, decimation, sample_code, wire, input_data>>
    BY <1>6 DEF start_acquisition
  <2>2. Resting /\ Calm /\ Chosen /\ RateSet /\ LengthSet /\ script = <<>>
    BY <1>0, <2>1 DEF HostInv, Clearing
  <2>3. /\ Line("S", NoChar)' /\ Chosen' /\ Resting' /\ RateSet' /\ LengthSet'
        /\ torn' = FALSE
    BY <1>0, <2>1, <2>2, Written
       DEF Chosen, Resting, RateSet, LengthSet, Wanted, Calm, Line
  <2> QED
    BY <1>0, <2>1, <2>2, <2>3 DEF HostInv, HostTypeOK, Requested
<1>7. CASE collect_frame
  <2>1. /\ host = "waiting" /\ host' = "idle" /\ wire # <<>> /\ wire' = Tail(wire)
        /\ input_data' = hexadecimal(Head(wire))
        /\ UNCHANGED <<vars, script, decimation, sample_code>>
    BY <1>7 DEF collect_frame
  <2>2. /\ Calm /\ ~irq_enabled /\ sample_index = 0
        /\ wire = <<frame>> /\ frame = Fresh(Wanted)
        /\ \/ main_pc = "clear" /\ data_ready = 1
           \/ main_pc = "poll" /\ data_ready = 0
    BY <2>1, WireHoldsFrame
  <2>3. wire' = <<>> /\ input_data' \in Seq(Sample)
    BY <2>1, <2>2, FreshIsReadable
  <2>4. Chosen /\ RateSet /\ LengthSet /\ script = <<>>
    BY <1>0, <2>1 DEF HostInv
  <2>5. Chosen' /\ RateSet' /\ LengthSet' /\ Calm' /\ torn' = FALSE
    BY <1>0, <2>1, <2>2, <2>4 DEF vars, regVars, Chosen, RateSet, LengthSet, Wanted, Calm, Line
  <2>6. (Calm /\ Resting)' \/ Clearing'
    BY <2>1, <2>2, <2>3, <2>5
       DEF vars, bufVars, mainVars, Resting, Clearing, Calm, Line, Fresh, Now, Wanted
  <2> QED
    BY <1>0, <2>1, <2>3, <2>4, <2>5, <2>6 DEF HostInv, HostTypeOK
<1> QED
  BY <1>1, <1>2, <1>3, <1>4, <1>5, <1>6, <1>7 DEF HostStep

-----------------------------------------------------------------------------
(***************************************************************************)
(* The invariant, and what it says.                                        *)
(***************************************************************************)
LEMMA InitSession == SessionInit => SessionInv
<1> SUFFICES ASSUME SessionInit PROVE SessionInv
  OBVIOUS
<1>1. PowerInv
  BY InitPower DEF SessionInit
<1>2. torn = FALSE /\ HostTypeOK
  BY DEF SessionInit, Init, HostTypeOK
<1>3. HostInv
  BY DEF SessionInit, Init, HostInv, Calm, Line, Resting
<1> QED
  BY <1>1, <1>2, <1>3 DEF SessionInv

\* The host of a session is one of the hosts that Firmware allows.
LEMMA SessionIsFirmware == SessionInv /\ SessionNext => [Next]_vars
<1> SUFFICES ASSUME SessionInv, SessionNext PROVE [Next]_vars
  OBVIOUS
<1>1. CASE McuStep
  BY <1>1 DEF McuStep, Next
<1>2. CASE Reconfigure
  BY <1>2 DEF Reconfigure, Next, AnyHost
<1>3. CASE WriteScript
  <2>1. Head(script) \in Chars
    BY <1>3 DEF SessionInv, HostTypeOK, WriteScript
  <2> QED
    BY <1>3, <2>1 DEF WriteScript, write, Next, AnyHost
<1>4. CASE RequestRegister
  BY <1>4, DistinctChars DEF RequestRegister, write, Next, AnyHost
<1>5. CASE start_acquisition
  BY <1>5, CommandsAssumption DEF start_acquisition, write, Next, AnyHost
<1>6. CASE StatusRead \/ RegisterRead \/ collect_frame
  BY <1>6 DEF StatusRead, RegisterRead, collect_frame
<1> QED
  BY <1>1, <1>2, <1>3, <1>4, <1>5, <1>6 DEF SessionNext, HostStep

LEMMA StepSession == SessionInv /\ [SessionNext]_sessionVars => SessionInv'
<1> SUFFICES ASSUME SessionInv, [SessionNext]_sessionVars PROVE SessionInv'
  OBVIOUS
<1>1. CASE SessionNext
  <2>1. PowerInv'
    BY <1>1, SessionIsFirmware, StepPower DEF SessionInv
  <2> QED
    BY <1>1, <2>1, McuKeepsInv, HostKeepsInv DEF SessionNext, SessionInv
<1>2. CASE UNCHANGED sessionVars
  <2>1. UNCHANGED vars /\ UNCHANGED hostVars
    BY <1>2 DEF sessionVars
  <2>2. PowerInv'
    BY <2>1, StepPower DEF SessionInv
  <2>3. HostTypeOK' /\ torn' = FALSE
    BY <2>1 DEF SessionInv, HostTypeOK, hostVars, vars
  <2>4. HostInv'
    BY <2>1 DEF SessionInv, HostInv, hostVars, vars, regVars, bufVars, mainVars, Chosen,
       SetUp, RateSet, LengthSet, Wanted, Line, Calm, Resting, ScriptInv, Printing, Requested,
       Collecting, Converting, Transmitting, Transmitted, Clearing, Fresh, Now
  <2> QED
    BY <2>2, <2>3, <2>4 DEF SessionInv
<1> QED
  BY <1>1, <1>2

\* SessionTypeOK for every instance.
THEOREM SessionTypesCorrect == SessionSpec => []SessionTypeOK
<1>1. SessionInv => SessionTypeOK
  <2> SUFFICES ASSUME SessionInv PROVE SessionTypeOK
    OBVIOUS
  <2>1. frame \in Seq(Sample \cup {Garbled})
    BY Types
  <2>2. wire = <<>> \/ wire = <<frame>>
    BY DEF SessionInv, HostTypeOK, HostInv, Resting, Requested, Collecting, Transmitting,
           Transmitted, Clearing
  <2>3. wire \in Seq(Seq(Sample \cup {Garbled}))
    <3> DEFINE Frames == Seq(Sample \cup {Garbled})
    <3>1. frame \in Frames
      BY <2>1
    <3> HIDE DEF Frames
    <3>2. <<>> \in Seq(Frames) /\ <<frame>> \in Seq(Frames)
      BY <3>1
    <3> QED
      BY <2>2, <3>2 DEF Frames
  <2> QED
    BY <2>3 DEF SessionInv, PowerInv, TypeInv, HostTypeOK, SessionTypeOK
<1> QED
  BY <1>1, InitSession, StepSession, PTL DEF SessionSpec

\* FrameFresh for every instance: whatever the size of the buffer, the lengths
\* and the number of acquisitions, and wherever the host resets the board.
THEOREM FramesAlwaysFresh == SessionSpec => []FrameFresh
<1>1. SessionInv => FrameFresh
  <2> SUFFICES ASSUME SessionInv, main_pc = "clear" PROVE frame = Fresh(Wanted)
    BY DEF FrameFresh, Fresh, Wanted, Now
  <2>1. Clearing \/ Transmitting
    BY DEF SessionInv, HostTypeOK, HostInv, Resting, Requested, Collecting, Transmitted
  <2> QED
    BY <2>1 DEF Clearing, Transmitting, Printing
<1> QED
  BY <1>1, InitSession, StepSession, PTL DEF SessionSpec

\* RateHonoured for every instance: the converter samples only when the script
\* has been sent to its end, and then it is out of reset and has the rate.
THEOREM RateAlwaysHonoured == SessionSpec => []RateHonoured
<1>1. SessionInv => RateHonoured
  <2> SUFFICES ASSUME SessionInv, irq_enabled
               PROVE  adc.cr1 = [filters |-> TRUE, dec |-> DecimationOf(decimation)]
    BY DEF RateHonoured
  <2>1. host = "waiting"
    BY DEF SessionInv, HostTypeOK, HostInv, Resting, Clearing
  <2> QED
    BY <2>1 DEF SessionInv, HostInv, RateSet
<1> QED
  BY <1>1, InitSession, StepSession, PTL DEF SessionSpec

-----------------------------------------------------------------------------
(***************************************************************************)
(* The refinement of Acquisition, but for its fairness.                    *)
(***************************************************************************)
\* The microcontroller begins an acquisition when it was asked to, and else
\* does nothing that Acquisition can see.
LEMMA McuRefines == SessionInv /\ McuStep => Abstract!Begin \/ UNCHANGED Abstract!vars
<1> SUFFICES ASSUME SessionInv, McuStep PROVE Abstract!Begin \/ UNCHANGED Abstract!vars
  OBVIOUS
<1>1. UNCHANGED <<host, script, decimation, sample_code, input_data>>
  BY DEF McuStep
<1>2. CASE host = "waiting" /\ Requested
  <2>1. Calm' /\ RateSet
    BY <1>2, TakeS DEF SessionInv, HostInv, Collecting
  <2>2. rx = "S" /\ rx' # "S"
    BY <1>2, <2>1, DistinctChars DEF Requested, Line, Calm
  <2>3. start_sampling
    BY <1>2, RestingTakes, DistinctChars DEF Requested, Line, Commands, Command, Argument,
       setup, ReadRegister, WriteAndReadOffset, stop_sampling, AwaitArgument, IgnoreChar,
       Receive, change_decimation_rate, ChangeLength, ReceiveArgument
  <2>4. acq' = acq + 1
    BY <2>3 DEF start_sampling
  <2> QED
    BY <1>1, <1>2, <2>2, <2>4 DEF Abstract!Begin, Phase, ConfiguredLength
<1>3. CASE ~(host = "waiting" /\ Requested)
  <2>1. ~Line("S", NoChar)
    <3>1. host = "closed" => ~Line("S", NoChar)
      BY DistinctChars DEF SessionInv, HostInv, Calm, Line
    <3>2. host = "script" => ~Line("S", NoChar)
      BY DistinctChars DEF SessionInv, HostInv, ScriptInv, Calm, Line
    <3>3. host = "reading" => ~Line("S", NoChar)
      BY DistinctChars, ReadAssumption DEF SessionInv, HostInv, Line
    <3>4. host = "idle" => ~Line("S", NoChar)
      BY DistinctChars DEF SessionInv, HostInv, Clearing, Calm, Line
    <3>5. host = "waiting" => ~Line("S", NoChar)
      BY <1>3, DistinctChars DEF SessionInv, HostInv, Collecting, Transmitting,
         Transmitted, Calm, Line
    <3> QED
      BY <3>1, <3>2, <3>3, <3>4, <3>5 DEF SessionInv, HostTypeOK
  <2>2. ~start_sampling
    BY <2>1 DEF start_sampling, Receive, Line
  <2>3. acq' = acq
    <3>1. CASE Main
      BY <3>1 DEF Main, MainPoll, MainStart, MainLoad, MainLine, MainEndFor, MainStop,
         MainClear, MainStep, bufVars
    <3>2. CASE Drdy
      BY <3>2 DEF Drdy, DrdyEdge, DrdyMissed, CollectSample, StoreSample, CollectDone,
         HandOver, ExtiIrq, bufVars
    <3>3. CASE Command \/ Argument
      BY <2>2, <3>3 DEF Command, Argument, setup, ReadRegister, WriteAndReadOffset,
         stop_sampling, AwaitArgument, IgnoreChar, change_decimation_rate, ChangeLength
    <3> QED
      BY <3>1, <3>2, <3>3 DEF McuStep, Mcu
  <2>4. host = "waiting" => rx # "S" /\ rx' # "S"
    <3>1. host = "waiting" => Calm
      BY <1>3 DEF SessionInv, HostInv, Collecting, Transmitting, Transmitted
    <3> QED
      BY <3>1, CalmStep, DistinctChars DEF Calm, Line
  <2> QED
    BY <1>1, <2>3, <2>4 DEF Abstract!vars, Phase, ConfiguredLength
<1> QED
  BY <1>2, <1>3

\* The steps of the host.
LEMMA HostRefines ==
  SessionInv /\ HostStep =>
    \/ Abstract!Configure \/ Abstract!Configured \/ Abstract!Request
    \/ Abstract!Answer \/ UNCHANGED Abstract!vars
<1> SUFFICES ASSUME SessionInv, HostStep
             PROVE  \/ Abstract!Configure \/ Abstract!Configured \/ Abstract!Request
                    \/ Abstract!Answer \/ UNCHANGED Abstract!vars
  OBVIOUS
<1> USE DEF Phase, ConfiguredLength
<1>1. CASE Reconfigure
  <2>1. PICK l \in Lengths : sample_code' = l
    BY <1>1 DEF Reconfigure
  <2>2. /\ host \in {"closed", "idle", "waiting"} /\ host' = "script"
        /\ UNCHANGED <<acq, input_data>>
    BY <1>1 DEF Reconfigure, HostBreak, ResetWithIndex
  <2>3. ConfiguredLength' \in { LengthOf(x) : x \in Lengths }
    BY <2>1, DistinctChars DEF LengthOf
  <2> QED
    BY <2>2, <2>3 DEF Abstract!Configure
<1>2. CASE WriteScript
  <2>1. UNCHANGED <<host, sample_code, input_data, acq>> /\ host = "script"
    BY <1>2, Written DEF WriteScript
  <2> QED
    BY <2>1 DEF Abstract!vars
<1>3. CASE StatusRead
  BY <1>3 DEF StatusRead, vars, bufVars, Abstract!Configured
<1>4. CASE RequestRegister
  <2>1. /\ UNCHANGED <<sample_code, input_data, acq>>
        /\ host = "idle" /\ host' = "reading"
    BY <1>4, Written DEF RequestRegister
  <2> QED
    BY <2>1 DEF Abstract!vars
<1>5. CASE RegisterRead
  BY <1>5 DEF RegisterRead, vars, bufVars, Abstract!vars
<1>6. CASE start_acquisition
  <2>1. /\ UNCHANGED <<sample_code, input_data, acq>> /\ rx' = "S"
        /\ host = "idle" /\ host' = "waiting"
    BY <1>6, Written DEF start_acquisition
  <2> QED
    BY <2>1 DEF Abstract!Request
<1>7. CASE collect_frame
  <2>1. /\ host = "waiting" /\ host' = "idle" /\ wire # <<>>
        /\ input_data' = hexadecimal(Head(wire)) /\ UNCHANGED <<acq, sample_code>>
    BY <1>7 DEF collect_frame, vars, bufVars
  <2>2. Calm /\ wire = <<frame>> /\ frame = Fresh(Wanted)
    BY <2>1, WireHoldsFrame
  <2>3. input_data' = Fresh(Wanted) /\ rx # "S"
    BY <2>1, <2>2, FreshIsReadable, DistinctChars DEF Calm, Line
  <2>4. sample_code # NoChar
    BY <2>1, DistinctChars DEF SessionInv, HostInv, Chosen
  <2> QED
    BY <2>1, <2>3, <2>4 DEF Abstract!Answer, Fresh, Wanted, Now
<1> QED
  BY <1>1, <1>2, <1>3, <1>4, <1>5, <1>6, <1>7 DEF HostStep

\* The safety part of ImplementsAcquisition for every instance: each step of
\* the firmware and of the host program is one of Acquisition or is none, so
\* that every answer is the frame of the request it follows.
THEOREM AnswersAreAcquisitions ==
  SessionSpec => Abstract!Init /\ [][Abstract!Next]_(Abstract!vars)
<1>1. SessionInit => Abstract!Init
  BY DEF SessionInit, Init, Abstract!Init, Phase, ConfiguredLength
<1>2. SessionInv /\ [SessionNext]_sessionVars => [Abstract!Next]_(Abstract!vars)
  <2>1. UNCHANGED sessionVars => UNCHANGED Abstract!vars
    BY DEF sessionVars, hostVars, vars, bufVars, Abstract!vars, Phase, ConfiguredLength
  <2> QED
    BY <2>1, McuRefines, HostRefines DEF SessionNext, Abstract!Next
<1> QED
  BY <1>1, <1>2, InitSession, StepSession, PTL DEF SessionSpec
=============================================================================
