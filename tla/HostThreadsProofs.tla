-------------------------- MODULE HostThreadsProofs ---------------------------
(***************************************************************************)
(* Proof that configurers leave the board, the host and the browser in     *)
(* agreement, for any number of threads of either kind, whatever rates and *)
(* lengths there are to select, and wherever the port raises exceptions.   *)
(***************************************************************************)
EXTENDS HostThreads, TLAPS

\* All that can be on the line is an S.
OnlyAcquirers ==
  /\ awaiting = "none"
  /\ rx.by \subseteq Acquirers
  /\ rx = NoChar \/ (rx.char = "S" /\ rx.by # {})

\* All that can be on the line is c's.
OnlyMine(c) ==
  /\ \A a \in Acquirers : acq_pc[a] \notin Starting
  /\ rx.by \subseteq {c}

\* What the board still has in the UART, or waits for.
Sent(c, char)         == rx = [char |-> char, by |-> {c}] /\ awaiting = "none"
Taken(want)           == rx = NoChar /\ awaiting = want
Argument(c, char, of) == rx = [char |-> char, by |-> {c}] /\ awaiting = of

RateSet(c)   == board_rate = new_rate[c]
LengthSet(c) == board_length = new_length[c]
HostSet(c)   == sample_rate = new_rate[c] /\ number_of_samples = new_length[c]

\* How far the board has followed the configuration at each of its steps.
Followed(c) ==
  /\ config_pc[c] = "D"      => Sent(c, "P") \/ Taken("none")
  /\ config_pc[c] = "rate"   => Sent(c, "D") \/ Taken("D")
  /\ config_pc[c] = "L"      =>
       Argument(c, new_rate[c], "D") \/ (Taken("none") /\ RateSet(c))
  /\ config_pc[c] = "length" => RateSet(c) /\ (Sent(c, "L") \/ Taken("L"))
  /\ config_pc[c] \in {"set", "R"} =>
       /\ RateSet(c)
       /\ Argument(c, new_length[c], "L") \/ (Taken("none") /\ LengthSet(c))
  /\ config_pc[c] \in {"status", "lift"} =>
       RateSet(c) /\ LengthSet(c) /\ (Sent(c, "R") \/ Taken("none"))
  /\ config_pc[c] = "lift"   => Taken("none")
  /\ config_pc[c] \in {"R", "status", "lift"} => HostSet(c)

\* A configuration under way has been given its arguments.
TypeInv ==
  /\ TypeOK
  /\ \A c \in Configurers :
       UnderWay(c) => new_rate[c] \in Rates /\ new_length[c] \in Lengths

\* A configuration that is under way with nothing to disturb it.
Undisturbed(c) ==
  /\ \A d \in Configurers : UnderWay(d) => d = c
  /\ unsent = "none"
  /\ selected_rate = new_rate[c] /\ selected_length = new_length[c]
  /\ config_pc[c] # "compare" => stop_loops
  /\ config_pc[c] = "P" => OnlyAcquirers
  /\ config_pc[c] \notin {"compare", "reset", "P"} => OnlyMine(c)
  /\ Followed(c)

Certain == ~doubt /\ ~failed

\* No configuration has gone as far as to stop the acquisitions.
NoneStops == \A c \in Configurers : config_pc[c] \in {"idle", "raised", "compare"}

Agreed ==
  /\ board_rate = sample_rate /\ board_length = number_of_samples
  /\ OnlyAcquirers
  /\ unsent \in {"none", "S"}
  /\ ~stop_loops

HostSelected == sample_rate = selected_rate /\ number_of_samples = selected_length

ConfigInv ==
  /\ TypeInv
  /\ SomeUnderWay /\ spoiled => doubt
  /\ ~spoiled => \A c \in Configurers : UnderWay(c) => Undisturbed(c)
  /\ Certain /\ NoneStops => Agreed
  /\ Certain /\ ~SomeUnderWay => HostSelected
-----------------------------------------------------------------------------
(***************************************************************************)
(* Types.                                                                  *)
(***************************************************************************)
LEMMA InitTypes == Init => TypeInv
<1>. SUFFICES ASSUME Init PROVE TypeInv
  OBVIOUS
<1>1. TypeOK
  BY DEF Init, TypeOK, ConfigPcs, Writes, AcqPcs, Starting, NoChar, Chars
<1>2. \A c \in Configurers : ~UnderWay(c)
  BY DEF Init, UnderWay
<1> QED  BY <1>1, <1>2 DEF TypeInv

LEMMA BoardTypes ==
  ASSUME TypeInv, control_signals
  PROVE  TypeInv'
<1>. USE DEF TypeInv, TypeOK, control_signals, flagVars, hostVars, userVars, argVars, histVars
<1>1. rx' \in [char : Chars, by : SUBSET (Acquirers \cup Configurers)]
  BY DEF NoChar, Chars
<1>2. awaiting' \in {"none", "D", "L"}
  OBVIOUS
<1>3. board_rate' \in Digits \cup {"unset"}
  BY DEF RateOf, Digits
<1>4. board_length' \in Digits \cup {"unset"}
  BY DEF LengthOf, Digits
<1>5. TypeOK'
  BY <1>1, <1>2, <1>3, <1>4
<1>6. UNCHANGED <<config_pc, new_rate, new_length>>
  OBVIOUS
<1> QED  BY <1>5, <1>6 DEF UnderWay

\* What is sent is a character, and its sender is a thread.
LEMMA SendTypes ==
  ASSUME TypeOK, NEW char \in Chars, NEW by \in SUBSET (Acquirers \cup Configurers),
         Send(char, by)
  PROVE  rx' \in [char : Chars, by : SUBSET (Acquirers \cup Configurers)]
  BY DEF TypeOK, Send

LEMMA WriteRaisesTypes ==
  ASSUME TypeOK, NEW char \in Chars, NEW by \in SUBSET (Acquirers \cup Configurers),
         WriteRaises(char, by)
  PROVE  /\ rx' \in [char : Chars, by : SUBSET (Acquirers \cup Configurers)]
         /\ unsent' \in Chars
<1>1. CASE UNCHANGED <<rx, unsent>>
  BY <1>1 DEF TypeOK
<1>2. CASE unsent' = char /\ (Send(char, by) \/ UNCHANGED rx)
  BY <1>2, SendTypes DEF TypeOK
<1> QED  BY <1>1, <1>2 DEF WriteRaises

LEMMA AcquirerTypes ==
  ASSUME TypeInv, NEW a \in Acquirers, acquire_data(a)
  PROVE  TypeInv'
<1>1. UNCHANGED <<awaiting, board_rate, board_length, stop_loops, hostVars, userVars,
                  config_pc, argVars, failed>>
  BY DEF acquire_data, AcqRuns, LoopRaises, TestFlags, SetRunning, start_sampling,
         start_flushes, LoopEnds, ReadRaises, StartRaises, decode_loop, AcqStep
<1>2. "S" \in Chars /\ {a} \in SUBSET (Acquirers \cup Configurers)
  BY DEF Chars
<1>3. TypeOK
  BY DEF TypeInv
<1>4. /\ rx' \in [char : Chars, by : SUBSET (Acquirers \cup Configurers)]
      /\ unsent' \in Chars
  <2>1. CASE UNCHANGED <<rx, unsent>>
    BY <1>3, <2>1 DEF TypeOK
  <2>2. CASE start_sampling(a)
    BY <1>2, <1>3, <2>2, SendTypes DEF start_sampling, TypeOK
  <2>3. CASE start_flushes(a)
    <3>1. unsent \in Chars /\ "none" \in Chars
      BY <1>3 DEF TypeOK, Chars
    <3> QED  BY <1>2, <1>3, <2>3, <3>1, SendTypes DEF start_flushes, SendUnsent
  <2>4. CASE StartRaises(a)
    BY <1>2, <1>3, <2>4, WriteRaisesTypes DEF StartRaises
  <2> QED
    BY <2>1, <2>2, <2>3, <2>4
    DEF acquire_data, AcqRuns, LoopRaises, TestFlags, SetRunning, LoopEnds, ReadRaises,
        decode_loop
<1>5. acq_pc' \in [Acquirers -> AcqPcs]
  <2>1. acq_pc \in [Acquirers -> AcqPcs]
    BY <1>3 DEF TypeOK
  <2>2. \E to \in AcqPcs : acq_pc' = [acq_pc EXCEPT ![a] = to]
    BY DEF acquire_data, AcqRuns, LoopRaises, TestFlags, SetRunning, start_sampling,
           start_flushes, LoopEnds, ReadRaises, StartRaises, decode_loop, AcqStep, AcqPcs,
           Starting
  <2> QED  BY <2>1, <2>2
<1>6. loop_running' \in BOOLEAN
  BY <1>3
  DEF TypeOK, acquire_data, AcqRuns, LoopRaises, TestFlags, SetRunning, start_sampling,
      start_flushes, LoopEnds, ReadRaises, StartRaises, decode_loop
<1>7. failures' \in Nat
  BY <1>3
  DEF TypeOK, acquire_data, AcqRuns, LoopRaises, Fails, TestFlags, SetRunning,
      start_sampling, start_flushes, LoopEnds, decode_loop
<1>8. spoiled' \in BOOLEAN /\ doubt' \in BOOLEAN
  <2>1. CASE UNCHANGED <<spoiled, doubt>>
    BY <1>3, <2>1 DEF TypeOK
  <2>2. CASE StartRaises(a)
    BY <1>3, <2>2 DEF StartRaises, TypeOK
  <2> QED
    BY <2>1, <2>2
    DEF acquire_data, AcqRuns, LoopRaises, TestFlags, SetRunning, start_sampling,
        start_flushes, LoopEnds, ReadRaises, decode_loop
<1>9. TypeOK'
  BY <1>1, <1>3, <1>4, <1>5, <1>6, <1>7, <1>8 DEF TypeOK, hostVars, userVars, argVars
<1> QED  BY <1>1, <1>9 DEF TypeInv, UnderWay, argVars

-----------------------------------------------------------------------------
LEMMA SelectTypes ==
  ASSUME TypeInv, NEW c \in Configurers, NEW r \in Rates, NEW l \in Lengths, Select(c, r, l)
  PROVE  TypeInv'
<1>. USE DEF Select
<1>1. TypeOK
  BY DEF TypeInv
<1>2. config_pc' \in [Configurers -> ConfigPcs]
  BY <1>1 DEF TypeOK, ConfigPcs
<1>3. /\ new_rate' \in [Configurers -> Rates \cup {"unset"}]
      /\ new_length' \in [Configurers -> Lengths \cup {"unset"}]
  BY <1>1 DEF TypeOK
<1>4. selected_rate' \in Digits \cup {"unset"} /\ selected_length' \in Digits \cup {"unset"}
  BY RatesAssumption, LengthsAssumption DEF Digits
<1>5. spoiled' \in BOOLEAN /\ doubt' \in BOOLEAN
  BY <1>1 DEF TypeOK
<1>6. UNCHANGED <<rx, awaiting, board_rate, board_length, unsent, stop_loops, loop_running,
                  sample_rate, number_of_samples, acq_pc, failures, failed>>
  BY DEF boardVars, flagVars, hostVars
<1>7. TypeOK'
  BY <1>1, <1>2, <1>3, <1>4, <1>5, <1>6 DEF TypeOK
<1>8. \A d \in Configurers :
        UnderWay(d)' => new_rate'[d] \in Rates /\ new_length'[d] \in Lengths
  <2>. SUFFICES ASSUME NEW d \in Configurers, UnderWay(d)'
                PROVE  new_rate'[d] \in Rates /\ new_length'[d] \in Lengths
    OBVIOUS
  <2>1. CASE d = c
    BY <1>1, <2>1 DEF TypeOK
  <2>2. CASE d # c
    <3>1. config_pc'[d] = config_pc[d] /\ new_rate'[d] = new_rate[d]
            /\ new_length'[d] = new_length[d]
      BY <1>1, <2>2 DEF TypeOK
    <3> QED  BY <3>1 DEF TypeInv, UnderWay
  <2> QED  BY <2>1, <2>2
<1> QED  BY <1>7, <1>8 DEF TypeInv

\* What the steps of a configuration change.
ConfigActs(c) == update_properties(c) \/ ConfigRaises(c)

LEMMA ActsAreSteps ==
  ASSUME NEW c \in Configurers, ConfigActs(c)
  PROVE  /\ \E to \in ConfigPcs : ConfigStep(c, config_pc[c], to)
         /\ UnderWay(c)
<1>1. CASE write(c)
  <2>1. config_pc[c] \in Writes
    BY <1>1 DEF write, Writing
  <2>2. After(config_pc[c]) \in ConfigPcs
    BY <2>1 DEF After, Writes, ConfigPcs
  <2> QED  BY <1>1, <2>1, <2>2 DEF write, UnderWay, Writes
<1>2. CASE write_flushes(c)
  BY <1>2 DEF write_flushes, Writing, UnderWay, Writes, ConfigPcs
<1>3. CASE ConfigRaises(c)
  BY <1>3 DEF ConfigRaises, ResetRaises, ConfigWriteRaises, StatusRaises, Writing, ConfigStep,
              UnderWay, Writes, ConfigPcs
<1>4. CASE AlreadySet(c) \/ MustSet(c) \/ reset(c) \/ SetParameters(c) \/ status(c)
             \/ Configured(c)
  BY <1>4 DEF AlreadySet, MustSet, reset, SetParameters, status, Configured, ConfigStep,
              UnderWay, Writes, ConfigPcs
<1> QED  BY <1>1, <1>2, <1>3, <1>4 DEF ConfigActs, update_properties

LEMMA CharTypes ==
  ASSUME TypeInv, NEW c \in Configurers, config_pc[c] \in Writes
  PROVE  CharAt(c) \in Chars
<1>1. new_rate[c] \in Digits /\ new_length[c] \in Digits
  BY RatesAssumption, LengthsAssumption DEF TypeInv, UnderWay, Writes, Digits
<1> QED  BY <1>1 DEF CharAt, Chars, Writes

LEMMA ConfigurerTypes ==
  ASSUME TypeInv, NEW c \in Configurers, ConfigActs(c)
  PROVE  TypeInv'
<1>1. TypeOK
  BY DEF TypeInv
<1>2. PICK to \in ConfigPcs : ConfigStep(c, config_pc[c], to)
  BY ActsAreSteps
<1>3. UnderWay(c)
  BY ActsAreSteps
<1>4. /\ config_pc' = [config_pc EXCEPT ![c] = to]
      /\ UNCHANGED <<loop_running, selected_rate, selected_length, acq_pc, new_rate,
                     new_length, spoiled>>
  BY <1>2 DEF ConfigStep, userVars, argVars
<1>5. config_pc' \in [Configurers -> ConfigPcs]
  BY <1>1, <1>4 DEF TypeOK
<1>6. /\ rx' \in [char : Chars, by : SUBSET (Acquirers \cup Configurers)]
      /\ unsent' \in Chars
  <2>1. CASE UNCHANGED <<rx, unsent>>
    BY <1>1, <2>1 DEF TypeOK
  <2>2. CASE send_break /\ UNCHANGED unsent
    BY <1>1, <2>2 DEF TypeOK, send_break, NoChar, Chars
  <2>3. CASE write(c)
    <3>1. CharAt(c) \in Chars
      BY <2>3, CharTypes DEF write, Writing
    <3>2. Send(CharAt(c), {c}) /\ UNCHANGED unsent
      BY <2>3 DEF write
    <3>3. {c} \in SUBSET (Acquirers \cup Configurers)
      OBVIOUS
    <3>4. unsent \in Chars
      BY <1>1 DEF TypeOK
    <3> QED  BY <1>1, <3>1, <3>2, <3>3, <3>4, SendTypes
  <2>4. CASE write_flushes(c)
    <3>1. unsent \in Chars /\ "none" \in Chars
      BY <1>1 DEF TypeOK, Chars
    <3>2. Send(unsent, {}) /\ unsent' = "none"
      BY <2>4 DEF write_flushes, SendUnsent
    <3>3. {} \in SUBSET (Acquirers \cup Configurers)
      OBVIOUS
    <3> QED  BY <1>1, <3>1, <3>2, <3>3, SendTypes
  <2>5. CASE ConfigWriteRaises(c)
    <3>1. CharAt(c) \in Chars
      BY <2>5, CharTypes DEF ConfigWriteRaises, Writing
    <3>2. WriteRaises(CharAt(c), {c})
      BY <2>5 DEF ConfigWriteRaises
    <3> QED  BY <1>1, <3>1, <3>2, WriteRaisesTypes
  <2> QED
    BY <2>1, <2>2, <2>3, <2>4, <2>5
    DEF ConfigActs, update_properties, ConfigRaises, AlreadySet, MustSet, reset,
        SetParameters, status, Configured, ResetRaises, StatusRaises, boardVars
<1>7. /\ awaiting' \in {"none", "D", "L"}
      /\ board_rate' \in Digits \cup {"unset"} /\ board_length' \in Digits \cup {"unset"}
  <2>1. CASE UNCHANGED <<awaiting, board_rate, board_length>>
    BY <1>1, <2>1 DEF TypeOK
  <2>2. CASE send_break
    BY <2>2 DEF send_break
  <2> QED
    BY <2>1, <2>2
    DEF ConfigActs, update_properties, ConfigRaises, AlreadySet, MustSet, reset, write,
        write_flushes, SetParameters, status, Configured, ResetRaises, ConfigWriteRaises,
        StatusRaises, boardVars
<1>8. /\ sample_rate' \in Digits \cup {"unset"}
      /\ number_of_samples' \in Digits \cup {"unset"}
  <2>1. CASE UNCHANGED hostVars
    BY <1>1, <2>1 DEF TypeOK, hostVars
  <2>2. CASE SetParameters(c)
    <3>1. sample_rate' = new_rate[c] /\ number_of_samples' = new_length[c]
      BY <2>2 DEF SetParameters
    <3>2. new_rate[c] \in Rates /\ new_length[c] \in Lengths
      BY <1>3 DEF TypeInv
    <3> QED  BY <3>1, <3>2, RatesAssumption, LengthsAssumption DEF Digits
  <2> QED
    BY <2>1, <2>2
    DEF ConfigActs, update_properties, ConfigRaises, AlreadySet, MustSet, reset, write,
        write_flushes, status, Configured
<1>9. /\ stop_loops' \in BOOLEAN /\ failures' \in Nat
      /\ doubt' \in BOOLEAN /\ failed' \in BOOLEAN
  <2>. /\ stop_loops \in BOOLEAN /\ failures \in Nat
       /\ spoiled \in BOOLEAN /\ doubt \in BOOLEAN /\ failed \in BOOLEAN
    BY <1>1 DEF TypeOK
  <2>1. CASE UNCHANGED <<stop_loops, failures, doubt, failed>>
    BY <2>1
  <2>2. CASE MustSet(c)
    BY <2>2 DEF MustSet
  <2>3. CASE Configured(c)
    BY <2>3 DEF Configured
  <2>4. CASE ConfigRaises(c)
    BY <2>4 DEF ConfigRaises, Fails
  <2> QED
    BY <2>1, <2>2, <2>3, <2>4
    DEF ConfigActs, update_properties, AlreadySet, reset, write, write_flushes,
        SetParameters, status
<1>10. TypeOK'
  BY <1>1, <1>4, <1>5, <1>6, <1>7, <1>8, <1>9 DEF TypeOK
<1>11. \A d \in Configurers : UnderWay(d)' => UnderWay(d)
  BY <1>1, <1>3, <1>4 DEF TypeOK, UnderWay
<1> QED  BY <1>4, <1>10, <1>11 DEF TypeInv

-----------------------------------------------------------------------------
(***************************************************************************)
(* The invariant: the start, the board, and a thread that acquires.        *)
(***************************************************************************)
LEMMA InitConfig == Init => ConfigInv
<1>. SUFFICES ASSUME Init PROVE ConfigInv
  OBVIOUS
<1>1. TypeInv
  BY InitTypes
<1>2. \A c \in Configurers : ~UnderWay(c)
  BY DEF Init, UnderWay
<1>3. Agreed /\ HostSelected
  BY DEF Init, Agreed, HostSelected, OnlyAcquirers, NoChar
<1> QED  BY <1>1, <1>2, <1>3 DEF ConfigInv, SomeUnderWay

\* The digits that can be selected are arguments that the board has.
LEMMA Arguments ==
  ASSUME TypeInv, NEW c \in Configurers, UnderWay(c)
  PROVE  /\ RateOf(new_rate[c]) = new_rate[c]
         /\ LengthOf(new_length[c]) = new_length[c]
<1>1. new_rate[c] \in Digits
  BY RatesAssumption DEF TypeInv
<1>2. new_length[c] \in {"0", "1", "2", "3"}
  BY LengthsAssumption DEF TypeInv
<1> QED  BY <1>1, <1>2 DEF RateOf, LengthOf

\* The board takes an S, and nothing comes of it.
LEMMA BoardIgnoresS ==
  ASSUME OnlyAcquirers, control_signals
  PROVE  OnlyAcquirers' /\ UNCHANGED <<board_rate, board_length>>
<1>1. rx.char = "S" /\ awaiting = "none"
  BY DEF OnlyAcquirers, control_signals
<1>2. rx' = NoChar /\ awaiting' = "none"
  BY <1>1 DEF control_signals
<1>3. UNCHANGED <<board_rate, board_length>>
  BY <1>1 DEF control_signals
<1> QED  BY <1>2, <1>3 DEF OnlyAcquirers, NoChar

\* The board follows the configuration.
LEMMA BoardFollows ==
  ASSUME TypeInv, NEW c \in Configurers, UnderWay(c), Followed(c), control_signals
  PROVE  Followed(c)'
<1>. DEFINE at == config_pc[c]
            R == new_rate[c]
            L == new_length[c]
<1>1. UNCHANGED <<config_pc, new_rate, new_length, sample_rate, number_of_samples>>
  BY DEF control_signals, hostVars, argVars
<1>2. rx # NoChar /\ rx' = NoChar
  BY DEF control_signals
<1>3. RateOf(R) = R /\ LengthOf(L) = L /\ R \in Digits /\ L \in Digits
  BY Arguments, RatesAssumption, LengthsAssumption DEF TypeInv, Digits
<1>4. CASE at = "D"
  <2>1. rx.char = "P" /\ awaiting = "none"
    BY <1>2, <1>4 DEF Followed, Sent, Taken
  <2>2. awaiting' = "none"
    BY <2>1 DEF control_signals
  <2> QED  BY <1>1, <1>2, <1>4, <2>2 DEF Followed, Taken
<1>5. CASE at = "rate"
  <2>1. rx.char = "D" /\ awaiting = "none"
    BY <1>2, <1>5 DEF Followed, Sent, Taken
  <2>2. awaiting' = "D"
    BY <2>1 DEF control_signals
  <2> QED  BY <1>1, <1>2, <1>5, <2>2 DEF Followed, Taken
<1>6. CASE at = "L"
  <2>1. rx.char = R /\ awaiting = "D"
    BY <1>2, <1>6 DEF Followed, Argument, Taken
  <2>2. awaiting' = "none" /\ board_rate' = R
    BY <1>3, <2>1 DEF control_signals
  <2> QED  BY <1>1, <1>2, <1>6, <2>2 DEF Followed, Taken, RateSet
<1>7. CASE at = "length"
  <2>1. rx.char = "L" /\ awaiting = "none" /\ board_rate = R
    BY <1>2, <1>7 DEF Followed, Sent, Taken, RateSet
  <2>2. awaiting' = "L" /\ board_rate' = R
    BY <2>1 DEF control_signals
  <2> QED  BY <1>1, <1>2, <1>7, <2>2 DEF Followed, Taken, RateSet
<1>8. CASE at \in {"set", "R"}
  <2>1. rx.char = L /\ awaiting = "L" /\ board_rate = R
    BY <1>2, <1>8 DEF Followed, Argument, Taken, RateSet
  <2>2. awaiting' = "none" /\ board_rate' = R /\ board_length' = L
    BY <1>3, <2>1 DEF control_signals
  <2>3. at = "R" => HostSet(c)
    BY DEF Followed
  <2> QED  BY <1>1, <1>2, <1>8, <2>2, <2>3 DEF Followed, Taken, RateSet, LengthSet, HostSet
<1>9. CASE at \in {"status", "lift"}
  <2>1. rx.char = "R" /\ awaiting = "none" /\ board_rate = R /\ board_length = L /\ HostSet(c)
          /\ at # "lift"
    BY <1>2, <1>9 DEF Followed, Sent, Taken, RateSet, LengthSet
  <2>2. awaiting' = "none" /\ board_rate' = R /\ board_length' = L
    BY <2>1 DEF control_signals
  <2> QED  BY <1>1, <1>2, <1>9, <2>1, <2>2 DEF Followed, Taken, RateSet, LengthSet, HostSet
<1>10. CASE at \notin {"D", "rate", "L", "length", "set", "R", "status", "lift"}
  BY <1>1, <1>10 DEF Followed
<1> QED  BY <1>4, <1>5, <1>6, <1>7, <1>8, <1>9, <1>10

LEMMA BoardKeepsConfig ==
  ASSUME ConfigInv, control_signals
  PROVE  ConfigInv'
<1>1. UNCHANGED <<unsent, stop_loops, sample_rate, number_of_samples, selected_rate,
                  selected_length, acq_pc, config_pc, new_rate, new_length, spoiled, doubt,
                  failed>>
  BY DEF control_signals, flagVars, hostVars, userVars, argVars, histVars
<1>2. TypeInv'
  BY BoardTypes DEF ConfigInv
<1>3. (SomeUnderWay <=> SomeUnderWay') /\ \A c \in Configurers : UnderWay(c) <=> UnderWay(c)'
  BY <1>1 DEF SomeUnderWay, UnderWay
<1>4. ASSUME NEW c \in Configurers, UnderWay(c), Undisturbed(c)
      PROVE  Undisturbed(c)'
  <2>1. Followed(c)'
    BY <1>4, BoardFollows DEF ConfigInv, Undisturbed
  <2>2. config_pc[c] = "P" => OnlyAcquirers'
    BY <1>4, BoardIgnoresS DEF Undisturbed
  <2>3. OnlyMine(c) => OnlyMine(c)'
    BY <1>1 DEF OnlyMine, control_signals, NoChar
  <2> QED  BY <1>1, <1>3, <1>4, <2>1, <2>2, <2>3 DEF Undisturbed
<1>5. Agreed => Agreed'
  BY <1>1, BoardIgnoresS DEF Agreed
<1>6. (NoneStops' => NoneStops) /\ (Certain' => Certain) /\ (HostSelected => HostSelected')
  BY <1>1 DEF NoneStops, Certain, HostSelected
<1> QED  BY <1>1, <1>2, <1>3, <1>4, <1>5, <1>6 DEF ConfigInv

LEMMA SendsS ==
  ASSUME OnlyAcquirers, NEW a \in Acquirers, Send("S", {a}), UNCHANGED awaiting
  PROVE  OnlyAcquirers'
<1>1. rx' = [char |-> "S", by |-> rx.by \cup {a}]
  BY DEF OnlyAcquirers, Send
<1>2. rx.by \subseteq Acquirers
  BY DEF OnlyAcquirers
<1> QED  BY <1>1, <1>2 DEF OnlyAcquirers

LEMMA AcquirerKeepsConfig ==
  ASSUME ConfigInv, NEW a \in Acquirers, acquire_data(a)
  PROVE  ConfigInv'
<1>1. UNCHANGED <<awaiting, board_rate, board_length, stop_loops, sample_rate,
                  number_of_samples, selected_rate, selected_length, config_pc, new_rate,
                  new_length, failed>>
  BY DEF acquire_data, AcqRuns, LoopRaises, TestFlags, SetRunning, start_sampling,
         start_flushes, LoopEnds, ReadRaises, StartRaises, decode_loop, AcqStep, hostVars,
         userVars, argVars
<1>2. TypeInv'
  BY AcquirerTypes DEF ConfigInv
<1>3. (SomeUnderWay <=> SomeUnderWay') /\ \A c \in Configurers : UnderWay(c) <=> UnderWay(c)'
  BY <1>1 DEF SomeUnderWay, UnderWay
<1>4. (NoneStops <=> NoneStops') /\ (HostSelected => HostSelected')
  BY <1>1 DEF NoneStops, HostSelected
<1>5. acq_pc \in [Acquirers -> AcqPcs]
  BY DEF ConfigInv, TypeInv, TypeOK
<1>6. CASE start_sampling(a)
  <2>1. Send("S", {a}) /\ UNCHANGED <<unsent, spoiled, doubt>> /\ acq_pc[a] \in Starting
    BY <1>6 DEF start_sampling, AcqStep, Starting
  <2>2. OnlyAcquirers => OnlyAcquirers'
    BY <1>1, <2>1, SendsS
  <2>3. \A c \in Configurers : OnlyMine(c) => FALSE
    BY <2>1 DEF OnlyMine
  <2>4. ASSUME NEW c \in Configurers, Undisturbed(c) PROVE Undisturbed(c)'
    <3>1. config_pc[c] \in {"compare", "reset", "P"}
      BY <2>3, <2>4 DEF Undisturbed
    <3>2. Followed(c)'
      BY <1>1, <3>1 DEF Followed
    <3> QED  BY <1>1, <1>3, <2>1, <2>2, <2>4, <3>1, <3>2 DEF Undisturbed
  <2>5. Agreed => Agreed'
    BY <1>1, <2>1, <2>2 DEF Agreed
  <2>6. Certain' => Certain
    BY <1>1, <2>1 DEF Certain
  <2> QED  BY <1>2, <1>3, <1>4, <2>1, <2>4, <2>5, <2>6 DEF ConfigInv
<1>7. CASE start_flushes(a)
  <2>1. unsent # "none" /\ Send(unsent, {a}) /\ unsent' = "none" /\ UNCHANGED <<spoiled, doubt>>
    BY <1>7 DEF start_flushes, SendUnsent
  <2>2. \A c \in Configurers : ~Undisturbed(c)
    BY <2>1 DEF Undisturbed
  <2>3. Agreed => Agreed'
    <3>1. SUFFICES ASSUME Agreed PROVE Agreed'
      OBVIOUS
    <3>2. Send("S", {a}) /\ OnlyAcquirers
      BY <2>1, <3>1 DEF Agreed
    <3>3. OnlyAcquirers'
      BY <1>1, <3>2, SendsS
    <3> QED  BY <1>1, <2>1, <3>1, <3>3 DEF Agreed
  <2>4. Certain' => Certain
    BY <1>1, <2>1 DEF Certain
  <2> QED  BY <1>2, <1>3, <1>4, <2>1, <2>2, <2>3, <2>4 DEF ConfigInv
<1>8. CASE StartRaises(a)
  <2>1. WriteRaises("S", {a}) /\ spoiled' /\ doubt' = (doubt \/ SomeUnderWay)
    BY <1>8 DEF StartRaises
  <2>2. Certain' => Certain
    <3>1. doubt \in BOOLEAN
      BY DEF ConfigInv, TypeInv, TypeOK
    <3> QED  BY <1>1, <2>1, <3>1 DEF Certain
  <2>3. Agreed => Agreed'
    <3>1. SUFFICES ASSUME Agreed PROVE Agreed'
      OBVIOUS
    <3>2. OnlyAcquirers'
      BY <1>1, <2>1, <3>1, SendsS DEF Agreed, WriteRaises, OnlyAcquirers
    <3>3. unsent' \in {"none", "S"}
      BY <2>1, <3>1 DEF Agreed, WriteRaises
    <3> QED  BY <1>1, <3>1, <3>2, <3>3 DEF Agreed
  <2>4. SomeUnderWay' /\ spoiled' => doubt'
    BY <1>3, <2>1
  <2> QED  BY <1>2, <1>3, <1>4, <2>1, <2>2, <2>3, <2>4 DEF ConfigInv
<1>9. CASE TestFlags(a)
  <2>1. ~stop_loops /\ UNCHANGED <<rx, unsent, spoiled, doubt>>
    BY <1>9 DEF TestFlags
  <2>2. ASSUME NEW c \in Configurers, Undisturbed(c) PROVE Undisturbed(c)'
    <3>1. config_pc[c] = "compare"
      BY <2>1, <2>2 DEF Undisturbed
    <3>2. Followed(c)'
      BY <1>1, <3>1 DEF Followed
    <3> QED  BY <1>1, <1>3, <2>1, <2>2, <3>1, <3>2 DEF Undisturbed
  <2>3. (Agreed => Agreed') /\ (Certain' => Certain)
    BY <1>1, <2>1 DEF Agreed, Certain, OnlyAcquirers
  <2> QED  BY <1>2, <1>3, <1>4, <2>1, <2>2, <2>3 DEF ConfigInv
<1>10. CASE SetRunning(a) \/ LoopEnds(a) \/ decode_loop(a) \/ ReadRaises(a)
  <2>1. UNCHANGED <<rx, unsent, spoiled, doubt>>
    BY <1>10 DEF SetRunning, LoopEnds, decode_loop, ReadRaises
  <2>2. \E to \in AcqPcs : /\ acq_pc' = [acq_pc EXCEPT ![a] = to]
                           /\ to \in Starting => acq_pc[a] \in Starting
    BY <1>10 DEF SetRunning, LoopEnds, decode_loop, ReadRaises, AcqStep, Starting, AcqPcs
  <2>3. \A b \in Acquirers : acq_pc'[b] \in Starting => acq_pc[b] \in Starting
    BY <1>5, <2>2
  <2>4. ASSUME NEW c \in Configurers, Undisturbed(c) PROVE Undisturbed(c)'
    <3>1. Followed(c)'
      BY <1>1, <2>1, <2>4
      DEF Undisturbed, Followed, Sent, Taken, Argument, RateSet, LengthSet, HostSet
    <3>2. (OnlyAcquirers => OnlyAcquirers') /\ (OnlyMine(c) => OnlyMine(c)')
      BY <1>1, <2>1, <2>3 DEF OnlyAcquirers, OnlyMine
    <3> QED  BY <1>1, <1>3, <2>1, <2>4, <3>1, <3>2 DEF Undisturbed
  <2>5. (Agreed => Agreed') /\ (Certain' => Certain)
    BY <1>1, <2>1 DEF Agreed, Certain, OnlyAcquirers
  <2> QED  BY <1>2, <1>3, <1>4, <2>1, <2>4, <2>5 DEF ConfigInv
<1> QED
  BY <1>6, <1>7, <1>8, <1>9, <1>10 DEF acquire_data, AcqRuns, LoopRaises

-----------------------------------------------------------------------------
(***************************************************************************)
(* The invariant: the user, and the steps of a configuration.              *)
(***************************************************************************)
LEMMA SelectKeepsConfig ==
  ASSUME ConfigInv, NEW c \in Configurers, NEW r \in Rates, NEW l \in Lengths, Select(c, r, l)
  PROVE  ConfigInv'
<1>1. /\ ~UnderWay(c)
      /\ config_pc' = [config_pc EXCEPT ![c] = "compare"]
      /\ new_rate' = [new_rate EXCEPT ![c] = r]
      /\ new_length' = [new_length EXCEPT ![c] = l]
      /\ selected_rate' = r /\ selected_length' = l
      /\ spoiled' = (SomeUnderWay \/ unsent # "none")
      /\ doubt' = (doubt \/ spoiled')
      /\ UNCHANGED <<rx, awaiting, board_rate, board_length, unsent, stop_loops,
                     sample_rate, number_of_samples, failed>>
  BY DEF Select, boardVars, flagVars, hostVars
<1>2. /\ config_pc \in [Configurers -> ConfigPcs] /\ DOMAIN new_rate = Configurers
      /\ DOMAIN new_length = Configurers /\ doubt \in BOOLEAN
  BY DEF ConfigInv, TypeInv, TypeOK
<1>3. TypeInv'
  BY SelectTypes DEF ConfigInv
<1>4. config_pc'[c] = "compare" /\ new_rate'[c] = r /\ new_length'[c] = l
  BY <1>1, <1>2
<1>5. \A d \in Configurers \ {c} : config_pc'[d] = config_pc[d]
  BY <1>1, <1>2
<1>6. SomeUnderWay'
  BY <1>4 DEF SomeUnderWay, UnderWay
<1>7. ASSUME ~spoiled', NEW d \in Configurers, UnderWay(d)' PROVE Undisturbed(d)'
  <2>1. ~SomeUnderWay /\ unsent = "none"
    BY <1>1, <1>7
  <2>2. \A e \in Configurers : UnderWay(e)' => e = c
    BY <1>5, <2>1 DEF SomeUnderWay, UnderWay
  <2>3. d = c
    BY <1>7, <2>2
  <2>4. Followed(c)'
    BY <1>4 DEF Followed
  <2>5. Undisturbed(c)'
    BY <1>1, <1>4, <2>1, <2>2, <2>4 DEF Undisturbed
  <2> QED  BY <2>3, <2>5
<1>8. NoneStops' => NoneStops
  <2>1. config_pc[c] \in {"idle", "raised"}
    BY <1>1 DEF UnderWay
  <2> QED  BY <1>5, <2>1 DEF NoneStops
<1>9. Certain' => Certain
  BY <1>1, <1>2 DEF Certain
<1>10. Agreed => Agreed'
  BY <1>1 DEF Agreed, OnlyAcquirers
<1>11. spoiled' => doubt'
  BY <1>1
<1> QED  BY <1>3, <1>6, <1>7, <1>8, <1>9, <1>10, <1>11 DEF ConfigInv

\* What no step of a configuration touches.
LEMMA ConfigurerLeaves ==
  ASSUME TypeInv, NEW c \in Configurers, ConfigActs(c)
  PROVE  /\ UNCHANGED <<selected_rate, selected_length, acq_pc, new_rate, new_length, spoiled>>
         /\ \A d \in Configurers \ {c} : config_pc'[d] = config_pc[d]
         /\ \A d \in Configurers \ {c} : UnderWay(d)' <=> UnderWay(d)
         /\ UnderWay(c)
<1>1. PICK to \in ConfigPcs : ConfigStep(c, config_pc[c], to)
  BY ActsAreSteps
<1>2. /\ config_pc' = [config_pc EXCEPT ![c] = to]
      /\ UNCHANGED <<selected_rate, selected_length, acq_pc, new_rate, new_length, spoiled>>
  BY <1>1 DEF ConfigStep, userVars, argVars
<1>3. \A d \in Configurers \ {c} : config_pc'[d] = config_pc[d]
  BY <1>2 DEF TypeInv, TypeOK
<1> QED  BY <1>2, <1>3, ActsAreSteps DEF UnderWay

\* A step after which the configuration is still on its way.
LEMMA ConfigurerGoes ==
  ASSUME ConfigInv, NEW c \in Configurers, ConfigActs(c), UNCHANGED <<doubt, failed>>,
         config_pc'[c] \notin {"idle", "raised", "compare"},
         Undisturbed(c) => Undisturbed(c)'
  PROVE  ConfigInv'
<1>1. TypeInv /\ TypeInv'
  BY ConfigurerTypes DEF ConfigInv
<1>2. /\ UNCHANGED spoiled /\ UnderWay(c)
      /\ \A d \in Configurers \ {c} : UnderWay(d)' <=> UnderWay(d)
  BY <1>1, ConfigurerLeaves
<1>3. SomeUnderWay /\ SomeUnderWay' /\ ~NoneStops'
  BY <1>2 DEF SomeUnderWay, UnderWay, NoneStops
<1>4. spoiled => doubt'
  BY <1>2, <1>3 DEF ConfigInv
<1>5. ASSUME ~spoiled, NEW d \in Configurers, UnderWay(d)' PROVE Undisturbed(d)'
  <2>1. Undisturbed(c)
    BY <1>2, <1>5 DEF ConfigInv
  <2>2. d = c
    BY <1>2, <1>5, <2>1 DEF Undisturbed
  <2> QED  BY <2>1, <2>2
<1> QED  BY <1>1, <1>2, <1>3, <1>4, <1>5 DEF ConfigInv

\* A step by which the configuration ends, for good or for bad.
LEMMA ConfigurerEnds ==
  ASSUME ConfigInv, NEW c \in Configurers, ConfigActs(c),
         config_pc'[c] \in {"idle", "raised"},
         spoiled /\ SomeUnderWay' /\ doubt => doubt',
         Certain' => Agreed',
         Certain' /\ ~SomeUnderWay' => HostSelected'
  PROVE  ConfigInv'
<1>1. TypeInv /\ TypeInv'
  BY ConfigurerTypes DEF ConfigInv
<1>2. /\ UNCHANGED spoiled /\ UnderWay(c)
      /\ \A d \in Configurers \ {c} : UnderWay(d)' <=> UnderWay(d)
  BY <1>1, ConfigurerLeaves
<1>3. SomeUnderWay
  BY <1>2 DEF SomeUnderWay
<1>4. ASSUME ~spoiled, NEW d \in Configurers, UnderWay(d)' PROVE FALSE
  <2>1. Undisturbed(c) /\ d # c
    BY <1>2, <1>4 DEF ConfigInv, UnderWay
  <2> QED  BY <1>2, <1>4, <2>1 DEF Undisturbed
<1>5. SomeUnderWay' /\ spoiled' => doubt'
  BY <1>2, <1>3 DEF ConfigInv
<1> QED  BY <1>1, <1>2, <1>4, <1>5 DEF ConfigInv

\* The step of a configuration that nothing disturbs.
LEMMA UndisturbedStep ==
  ASSUME TypeInv, NEW c \in Configurers, ConfigActs(c), Undisturbed(c), UNCHANGED unsent,
         config_pc'[c] # "compare" => stop_loops',
         config_pc'[c] = "P" => OnlyAcquirers',
         config_pc'[c] \notin {"compare", "reset", "P"} => OnlyMine(c)',
         Followed(c)'
  PROVE  Undisturbed(c)'
<1>1. \A d \in Configurers : UnderWay(d)' => d = c
  BY ConfigurerLeaves DEF Undisturbed
<1>2. UNCHANGED <<selected_rate, selected_length, new_rate, new_length>>
  BY ConfigurerLeaves
<1> QED  BY <1>1, <1>2 DEF Undisturbed

LEMMA MustSetKeeps ==
  ASSUME ConfigInv, NEW c \in Configurers, MustSet(c)
  PROVE  ConfigInv'
<1>1. config_pc' = [config_pc EXCEPT ![c] = "reset"] /\ stop_loops'
        /\ UNCHANGED <<unsent, doubt, failed>>
  BY DEF MustSet, ConfigStep
<1>2. TypeInv /\ config_pc'[c] = "reset" /\ ConfigActs(c)
  BY <1>1 DEF ConfigInv, TypeInv, TypeOK, ConfigActs, update_properties
<1>3. Followed(c)'
  BY <1>2 DEF Followed
<1>4. Undisturbed(c) => Undisturbed(c)'
  BY <1>1, <1>2, <1>3, UndisturbedStep
<1> QED  BY <1>1, <1>2, <1>4, ConfigurerGoes

LEMMA ResetKeeps ==
  ASSUME ConfigInv, NEW c \in Configurers, reset(c)
  PROVE  ConfigInv'
<1>1. config_pc' = [config_pc EXCEPT ![c] = "P"] /\ config_pc[c] = "reset" /\ send_break
        /\ UNCHANGED <<unsent, stop_loops, doubt, failed>>
  BY DEF reset, ConfigStep
<1>2. TypeInv /\ config_pc'[c] = "P" /\ ConfigActs(c)
  BY <1>1 DEF ConfigInv, TypeInv, TypeOK, ConfigActs, update_properties
<1>3. Followed(c)'
  BY <1>2 DEF Followed
<1>4. OnlyAcquirers'
  BY <1>1 DEF send_break, OnlyAcquirers, NoChar
<1>5. Undisturbed(c) => Undisturbed(c)'
  <2>1. Undisturbed(c) => stop_loops'
    BY <1>1 DEF Undisturbed
  <2> QED  BY <1>1, <1>2, <1>3, <1>4, <2>1, UndisturbedStep
<1> QED  BY <1>1, <1>2, <1>5, ConfigurerGoes

\* When a configuration that nothing disturbs writes, the board has taken all
\* there was.
LEMMA WritesToFree ==
  ASSUME NEW c \in Configurers, Undisturbed(c), write(c)
  PROVE  /\ rx = NoChar
         /\ \A a \in Acquirers : acq_pc[a] \notin Starting
<1>1. Pacing(c) /\ Prompt(c) /\ config_pc[c] \in Writes
  BY DEF write, Writing
<1>2. CASE config_pc[c] = "P"
  <2>1. stop_loops /\ OnlyAcquirers
    BY <1>2 DEF Undisturbed
  <2>2. (\A a \in Acquirers : acq_pc[a] \notin Starting) /\ rx.by \cap Acquirers = {}
    BY <1>1, <1>2, <2>1 DEF Prompt
  <2>3. rx.by = {}
    BY <2>1, <2>2 DEF OnlyAcquirers
  <2> QED  BY <2>1, <2>2, <2>3 DEF OnlyAcquirers
<1>3. CASE config_pc[c] # "P"
  <2>1. OnlyMine(c) /\ Followed(c)
    BY <1>1, <1>3 DEF Undisturbed, Writes
  <2>2. rx.by = {}
    BY <1>1, <2>1 DEF OnlyMine, Pacing
  <2> QED
    BY <1>1, <1>3, <2>1, <2>2 DEF Followed, Sent, Taken, Argument, OnlyMine, Writes
<1> QED  BY <1>2, <1>3

LEMMA WriteFollows ==
  ASSUME NEW c \in Configurers, Undisturbed(c), write(c), config_pc'[c] = After(config_pc[c])
  PROVE  Followed(c)'
<1>. DEFINE at == config_pc[c]
            R == new_rate[c]
            L == new_length[c]
<1>1. UNCHANGED <<awaiting, board_rate, board_length, sample_rate, number_of_samples, new_rate,
                  new_length>>
  BY DEF write, ConfigStep, hostVars, argVars
<1>2. rx = NoChar
  BY WritesToFree
<1>3. rx' = [char |-> CharAt(c), by |-> {c}]
  BY <1>2 DEF write, Send, NoChar
<1>4. at \in Writes /\ Followed(c)
  BY DEF write, Writing, Undisturbed
<1>5. rx # [char |-> "P", by |-> {c}] /\ rx # [char |-> "D", by |-> {c}]
        /\ rx # [char |-> "L", by |-> {c}] /\ rx # [char |-> R, by |-> {c}]
        /\ rx # [char |-> L, by |-> {c}]
  BY <1>2 DEF NoChar
<1>6. CASE at = "P"
  <2>1. awaiting = "none"
    BY <1>6 DEF Undisturbed, OnlyAcquirers
  <2>2. config_pc'[c] = "D" /\ CharAt(c) = "P"
    BY <1>6 DEF After, CharAt
  <2> QED  BY <1>1, <1>3, <2>1, <2>2 DEF Followed, Sent
<1>7. CASE at = "D"
  <2>1. awaiting = "none"
    BY <1>4, <1>7 DEF Followed, Sent, Taken
  <2>2. config_pc'[c] = "rate" /\ CharAt(c) = "D"
    BY <1>7 DEF After, CharAt
  <2> QED  BY <1>1, <1>3, <2>1, <2>2 DEF Followed, Sent
<1>8. CASE at = "rate"
  <2>1. awaiting = "D"
    BY <1>4, <1>5, <1>8 DEF Followed, Sent, Taken
  <2>2. config_pc'[c] = "L" /\ CharAt(c) = R
    BY <1>8 DEF After, CharAt
  <2> QED  BY <1>1, <1>3, <2>1, <2>2 DEF Followed, Argument
<1>9. CASE at = "L"
  <2>1. awaiting = "none" /\ board_rate = R
    BY <1>4, <1>5, <1>9 DEF Followed, Argument, Taken, RateSet
  <2>2. config_pc'[c] = "length" /\ CharAt(c) = "L"
    BY <1>9 DEF After, CharAt
  <2> QED  BY <1>1, <1>3, <2>1, <2>2 DEF Followed, Sent, RateSet
<1>10. CASE at = "length"
  <2>1. awaiting = "L" /\ board_rate = R
    BY <1>4, <1>5, <1>10 DEF Followed, Sent, Taken, RateSet
  <2>2. config_pc'[c] = "set" /\ CharAt(c) = L
    BY <1>10 DEF After, CharAt
  <2> QED  BY <1>1, <1>3, <2>1, <2>2 DEF Followed, Argument, RateSet
<1>11. CASE at = "R"
  <2>1. awaiting = "none" /\ board_rate = R /\ board_length = L /\ HostSet(c)
    BY <1>4, <1>5, <1>11 DEF Followed, Argument, Taken, RateSet, LengthSet
  <2>2. config_pc'[c] = "status" /\ CharAt(c) = "R"
    BY <1>11 DEF After, CharAt
  <2> QED  BY <1>1, <1>3, <2>1, <2>2 DEF Followed, Sent, RateSet, LengthSet, HostSet
<1> QED  BY <1>4, <1>6, <1>7, <1>8, <1>9, <1>10, <1>11 DEF Writes

LEMMA WriteKeeps ==
  ASSUME ConfigInv, NEW c \in Configurers, write(c)
  PROVE  ConfigInv'
<1>1. /\ config_pc' = [config_pc EXCEPT ![c] = After(config_pc[c])]
      /\ config_pc[c] \in Writes /\ Send(CharAt(c), {c})
      /\ UNCHANGED <<unsent, stop_loops, acq_pc, doubt, failed>>
  BY DEF write, Writing, ConfigStep
<1>2. TypeInv /\ config_pc'[c] = After(config_pc[c]) /\ ConfigActs(c)
  BY <1>1 DEF ConfigInv, TypeInv, TypeOK, ConfigActs, update_properties
<1>3. config_pc'[c] \in {"D", "rate", "L", "length", "set", "status"}
  BY <1>1, <1>2 DEF After, Writes
<1>4. Undisturbed(c) => Undisturbed(c)'
  <2>1. SUFFICES ASSUME Undisturbed(c) PROVE Undisturbed(c)'
    OBVIOUS
  <2>2. rx = NoChar /\ \A a \in Acquirers : acq_pc[a] \notin Starting
    BY <2>1, WritesToFree
  <2>3. OnlyMine(c)'
    <3>1. rx'.by = {c}
      BY <1>1, <2>2 DEF Send, NoChar
    <3> QED  BY <1>1, <2>2, <3>1 DEF OnlyMine
  <2>4. Followed(c)'
    BY <1>2, <2>1, WriteFollows
  <2>5. stop_loops'
    BY <1>1, <2>1 DEF Undisturbed, Writes
  <2> QED  BY <1>1, <1>2, <1>3, <2>1, <2>3, <2>4, <2>5, UndisturbedStep
<1> QED  BY <1>1, <1>2, <1>3, <1>4, ConfigurerGoes

LEMMA FlushKeeps ==
  ASSUME ConfigInv, NEW c \in Configurers, write_flushes(c)
  PROVE  ConfigInv'
<1>1. /\ config_pc' = [config_pc EXCEPT ![c] = config_pc[c]] /\ config_pc[c] \in Writes
      /\ unsent # "none" /\ UNCHANGED <<doubt, failed>>
  BY DEF write_flushes, Writing, ConfigStep, SendUnsent
<1>2. config_pc'[c] = config_pc[c] /\ ConfigActs(c)
  BY <1>1 DEF ConfigInv, TypeInv, TypeOK, ConfigActs, update_properties
<1>3. ~Undisturbed(c)
  BY <1>1 DEF Undisturbed
<1> QED  BY <1>1, <1>2, <1>3, ConfigurerGoes DEF Writes

LEMMA SetParametersKeeps ==
  ASSUME ConfigInv, NEW c \in Configurers, SetParameters(c)
  PROVE  ConfigInv'
<1>1. /\ config_pc' = [config_pc EXCEPT ![c] = "R"] /\ config_pc[c] = "set"
      /\ sample_rate' = new_rate[c] /\ number_of_samples' = new_length[c]
      /\ UNCHANGED <<rx, awaiting, board_rate, board_length, unsent, stop_loops, acq_pc,
                     new_rate, new_length, doubt, failed>>
  BY DEF SetParameters, ConfigStep, boardVars, argVars
<1>2. TypeInv /\ config_pc'[c] = "R" /\ ConfigActs(c)
  BY <1>1 DEF ConfigInv, TypeInv, TypeOK, ConfigActs, update_properties
<1>3. Undisturbed(c) => Undisturbed(c)'
  <2>1. SUFFICES ASSUME Undisturbed(c) PROVE Undisturbed(c)'
    OBVIOUS
  <2>2. Followed(c)'
    BY <1>1, <1>2, <2>1
    DEF Undisturbed, Followed, RateSet, LengthSet, HostSet, Taken, Argument
  <2>3. OnlyMine(c)' /\ stop_loops'
    BY <1>1, <2>1 DEF Undisturbed, OnlyMine
  <2> QED  BY <1>1, <1>2, <2>1, <2>2, <2>3, UndisturbedStep
<1> QED  BY <1>1, <1>2, <1>3, ConfigurerGoes

LEMMA StatusKeeps ==
  ASSUME ConfigInv, NEW c \in Configurers, status(c)
  PROVE  ConfigInv'
<1>1. /\ config_pc' = [config_pc EXCEPT ![c] = "lift"] /\ config_pc[c] = "status"
      /\ c \notin rx.by
      /\ UNCHANGED <<rx, awaiting, board_rate, board_length, unsent, stop_loops, acq_pc,
                     sample_rate, number_of_samples, new_rate, new_length, doubt, failed>>
  BY DEF status, ConfigStep, Pacing, boardVars, hostVars, argVars
<1>2. TypeInv /\ config_pc'[c] = "lift" /\ ConfigActs(c)
  BY <1>1 DEF ConfigInv, TypeInv, TypeOK, ConfigActs, update_properties
<1>3. Undisturbed(c) => Undisturbed(c)'
  <2>1. SUFFICES ASSUME Undisturbed(c) PROVE Undisturbed(c)'
    OBVIOUS
  <2>2. Taken("none")
    BY <1>1, <2>1 DEF Undisturbed, Followed, Sent, Taken
  <2>3. Followed(c)'
    BY <1>1, <1>2, <2>1, <2>2
    DEF Undisturbed, Followed, RateSet, LengthSet, HostSet, Taken
  <2>4. OnlyMine(c)' /\ stop_loops'
    BY <1>1, <2>1 DEF Undisturbed, OnlyMine
  <2> QED  BY <1>1, <1>2, <2>1, <2>3, <2>4, UndisturbedStep
<1> QED  BY <1>1, <1>2, <1>3, ConfigurerGoes

LEMMA AlreadySetKeeps ==
  ASSUME ConfigInv, NEW c \in Configurers, AlreadySet(c)
  PROVE  ConfigInv'
<1>1. /\ config_pc' = [config_pc EXCEPT ![c] = "idle"] /\ config_pc[c] = "compare"
      /\ new_rate[c] = sample_rate /\ new_length[c] = number_of_samples
      /\ UNCHANGED <<rx, awaiting, board_rate, board_length, unsent, stop_loops, sample_rate,
                     number_of_samples, selected_rate, selected_length, doubt, failed>>
  BY DEF AlreadySet, ConfigStep, boardVars, hostVars, userVars
<1>2. TypeInv /\ config_pc'[c] = "idle" /\ ConfigActs(c)
  BY <1>1 DEF ConfigInv, TypeInv, TypeOK, ConfigActs, update_properties
<1>3. /\ UNCHANGED spoiled /\ UnderWay(c)
      /\ \A d \in Configurers \ {c} : config_pc'[d] = config_pc[d]
  BY <1>2, ConfigurerLeaves
<1>4. Certain' => Certain
  BY <1>1 DEF Certain
<1>5. Certain' => Agreed'
  <2>1. SUFFICES ASSUME Certain' PROVE Agreed'
    OBVIOUS
  <2>2. CASE NoneStops
    <3>1. Agreed
      BY <1>4, <2>1, <2>2 DEF ConfigInv
    <3> QED  BY <1>1, <3>1 DEF Agreed, OnlyAcquirers
  <2>3. CASE ~NoneStops
    <3>1. PICK d \in Configurers : config_pc[d] \notin {"idle", "raised", "compare"}
      BY <2>3 DEF NoneStops
    <3>2. UnderWay(d) /\ d # c
      BY <1>1, <3>1 DEF UnderWay
    <3>3. spoiled
      BY <1>3, <3>2 DEF ConfigInv, Undisturbed
    <3>4. doubt
      BY <1>3, <3>3 DEF ConfigInv, SomeUnderWay
    <3> QED  BY <1>4, <2>1, <3>4 DEF Certain
  <2> QED  BY <2>2, <2>3
<1>6. Certain' => HostSelected'
  <2>1. SUFFICES ASSUME Certain' PROVE HostSelected'
    OBVIOUS
  <2>2. ~spoiled
    BY <1>3, <1>4, <2>1 DEF ConfigInv, SomeUnderWay, Certain
  <2>3. Undisturbed(c)
    BY <1>3, <2>2 DEF ConfigInv
  <2> QED  BY <1>1, <2>3 DEF Undisturbed, HostSelected
<1> QED  BY <1>1, <1>2, <1>5, <1>6, ConfigurerEnds

LEMMA ConfiguredKeeps ==
  ASSUME ConfigInv, NEW c \in Configurers, Configured(c)
  PROVE  ConfigInv'
<1>1. /\ config_pc' = [config_pc EXCEPT ![c] = "idle"] /\ config_pc[c] = "lift"
      /\ ~stop_loops' /\ doubt' = (doubt /\ spoiled)
      /\ UNCHANGED <<rx, awaiting, board_rate, board_length, unsent, sample_rate,
                     number_of_samples, selected_rate, selected_length>>
  BY DEF Configured, ConfigStep, boardVars, hostVars, userVars
<1>2. TypeInv /\ config_pc'[c] = "idle" /\ ConfigActs(c)
  BY <1>1 DEF ConfigInv, TypeInv, TypeOK, ConfigActs, update_properties
<1>3. UnderWay(c)
  BY <1>1 DEF UnderWay
<1>4. Certain' => Agreed' /\ HostSelected'
  <2>1. SUFFICES ASSUME Certain' PROVE Agreed' /\ HostSelected'
    OBVIOUS
  <2>2. ~(doubt /\ spoiled)
    BY <1>1, <2>1 DEF Certain
  <2>3. ~spoiled
    BY <1>3, <2>2 DEF ConfigInv, SomeUnderWay
  <2>4. Undisturbed(c)
    BY <1>3, <2>3 DEF ConfigInv
  <2>5. RateSet(c) /\ LengthSet(c) /\ HostSet(c) /\ Taken("none")
    BY <1>1, <2>4 DEF Undisturbed, Followed
  <2>6. selected_rate = new_rate[c] /\ selected_length = new_length[c] /\ unsent = "none"
    BY <2>4 DEF Undisturbed
  <2>7. OnlyAcquirers'
    BY <1>1, <2>5 DEF Taken, OnlyAcquirers, NoChar
  <2>8. Agreed'
    BY <1>1, <2>5, <2>6, <2>7 DEF Agreed, RateSet, LengthSet, HostSet
  <2>9. HostSelected'
    BY <1>1, <2>5, <2>6 DEF HostSelected, HostSet
  <2> QED  BY <2>8, <2>9
<1>5. spoiled /\ SomeUnderWay' /\ doubt => doubt'
  BY <1>1
<1> QED  BY <1>1, <1>2, <1>4, <1>5, ConfigurerEnds

LEMMA RaisesKeeps ==
  ASSUME ConfigInv, NEW c \in Configurers, ConfigRaises(c)
  PROVE  ConfigInv'
<1>1. \E from \in ConfigPcs : ConfigStep(c, from, "raised")
  BY DEF ConfigRaises, ResetRaises, ConfigWriteRaises, StatusRaises, ConfigStep, Writing,
         ConfigPcs, Writes
<1>2. config_pc'[c] = "raised" /\ ConfigActs(c)
  BY <1>1 DEF ConfigStep, ConfigInv, TypeInv, TypeOK, ConfigActs
<1>3. failed' /\ UNCHANGED doubt
  BY DEF ConfigRaises
<1>4. ~Certain'
  BY <1>3 DEF Certain
<1> QED  BY <1>2, <1>3, <1>4, ConfigurerEnds

LEMMA StutterKeeps == ConfigInv /\ UNCHANGED threadVars => ConfigInv'
<1>. SUFFICES ASSUME ConfigInv, UNCHANGED threadVars PROVE ConfigInv'
  OBVIOUS
<1>1. UNCHANGED <<rx, awaiting, board_rate, board_length, unsent, stop_loops, loop_running,
                  sample_rate, number_of_samples, selected_rate, selected_length, acq_pc,
                  config_pc, new_rate, new_length, failures, spoiled, doubt, failed>>
  BY DEF threadVars, boardVars, flagVars, hostVars, userVars, argVars, histVars
<1>2. TypeInv'
  BY <1>1 DEF ConfigInv, TypeInv, TypeOK, UnderWay
<1>3. ASSUME NEW c \in Configurers, Undisturbed(c) PROVE Undisturbed(c)'
  <2>1. Followed(c)'
    BY <1>1, <1>3
    DEF Undisturbed, Followed, Sent, Taken, Argument, RateSet, LengthSet, HostSet
  <2>2. (OnlyAcquirers => OnlyAcquirers') /\ (OnlyMine(c) => OnlyMine(c)')
    BY <1>1 DEF OnlyAcquirers, OnlyMine
  <2> QED  BY <1>1, <1>3, <2>1, <2>2 DEF Undisturbed, UnderWay
<1>4. /\ SomeUnderWay' <=> SomeUnderWay
      /\ \A c \in Configurers : UnderWay(c)' <=> UnderWay(c)
  BY <1>1 DEF SomeUnderWay, UnderWay
<1>5. (Certain' => Certain) /\ (NoneStops' => NoneStops) /\ (HostSelected => HostSelected')
  BY <1>1 DEF Certain, NoneStops, HostSelected
<1>6. Agreed => Agreed'
  BY <1>1 DEF Agreed, OnlyAcquirers
<1> QED  BY <1>1, <1>2, <1>3, <1>4, <1>5, <1>6 DEF ConfigInv

LEMMA NextKeepsConfig == ConfigInv /\ [Next]_threadVars => ConfigInv'
<1>. SUFFICES ASSUME ConfigInv, [Next]_threadVars PROVE ConfigInv'
  OBVIOUS
<1>1. CASE control_signals
  BY <1>1, BoardKeepsConfig
<1>2. CASE \E a \in Acquirers : acquire_data(a)
  BY <1>2, AcquirerKeepsConfig
<1>3. ASSUME NEW c \in Configurers, update_properties(c) PROVE ConfigInv'
  BY <1>3, AlreadySetKeeps, MustSetKeeps, ResetKeeps, WriteKeeps, FlushKeeps,
     SetParametersKeeps, StatusKeeps, ConfiguredKeeps
  DEF update_properties
<1>4. ASSUME NEW c \in Configurers, ConfigRaises(c) PROVE ConfigInv'
  BY <1>4, RaisesKeeps
<1>5. ASSUME NEW c \in Configurers, NEW r \in Rates, NEW l \in Lengths, Select(c, r, l)
      PROVE  ConfigInv'
  BY <1>5, SelectKeepsConfig
<1>6. CASE UNCHANGED threadVars
  BY <1>6, StutterKeeps
<1> QED  BY <1>1, <1>2, <1>3, <1>4, <1>5, <1>6 DEF Next

LEMMA InvAgrees == ConfigInv => ConfigAgrees
<1>. SUFFICES ASSUME ConfigInv, ~SomeUnderWay, ~doubt, ~failed
              PROVE  /\ board_rate = sample_rate /\ sample_rate = selected_rate
                     /\ board_length = number_of_samples
                     /\ number_of_samples = selected_length
                     /\ awaiting = "none" /\ ~stop_loops
  BY DEF ConfigAgrees
<1>1. NoneStops
  BY DEF NoneStops, SomeUnderWay, UnderWay
<1>2. Agreed /\ HostSelected
  BY <1>1 DEF ConfigInv, Certain
<1> QED  BY <1>2 DEF Agreed, HostSelected, OnlyAcquirers

-----------------------------------------------------------------------------
(***************************************************************************)
(* However many callbacks of either kind the browser and the timer start,  *)
(* at whatever times, whatever they find in the UART and wherever the port *)
(* raises exceptions: when no configuration is under way, the board, the   *)
(* host and the browser agree and acquisitions may start, unless the last  *)
(* that was disturbed, or that failed, has had no other after it that came *)
(* to its end with nothing beside it (update_properties and                *)
(* modify_sample_properties against control_signals).                      *)
(***************************************************************************)
THEOREM ConfigurationAgrees == Spec => []ConfigAgrees
<1>1. Init => ConfigInv
  BY InitConfig
<1>2. ConfigInv /\ [Next]_threadVars => ConfigInv'
  BY NextKeepsConfig
<1>3. ConfigInv => ConfigAgrees
  BY InvAgrees
<1> QED  BY <1>1, <1>2, <1>3, PTL DEF Spec
=============================================================================
