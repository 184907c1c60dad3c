------------------------------ MODULE Session -------------------------------
(***************************************************************************)
(* The firmware in a session with the host program: class SerialComms of   *)
(* adc_comms.py, used by one thread.  The host resets the board with a     *)
(* serial break, sends the configuration (modify_sample_properties), and   *)
(* then asks for acquisitions (acquisition_loop) or reads registers, one   *)
(* at a time.                                                              *)
(*                                                                         *)
(* Two timing assumptions replace the clock:                               *)
(*   Pacing: write sleeps 0.1 s after every character, and of the commands *)
(*     none runs much longer, so the host never sends while the UART still *)
(*     holds the previous character;                                       *)
(*   Turnaround: by the time that the host has read the line "stop" and    *)
(*     sends the next character, main has done its last assignment,        *)
(*     data_ready = 0, and is polling again.                               *)
(***************************************************************************)
EXTENDS Firmware

CONSTANTS
  Decimations,   \* the arguments of D that the host uses
  Lengths,       \* the arguments of L that the host uses
  ReadCommands   \* the register commands that the host uses when idle

ASSUME CommandsAssumption    == {"P", "D", "L", "R", "S"} \subseteq Chars
ASSUME DecimationsAssumption == Decimations \subseteq Chars
ASSUME LengthsAssumption     == Lengths \subseteq Chars \cap LengthCodes
ASSUME ReadAssumption        == ReadCommands \subseteq Chars \cap {"R", "F", "G", "V"}

VARIABLES
  host,           \* "closed", "script", "idle", "reading" or "waiting"
  script,         \* the characters that modify_sample_properties has to send
  decimation,     \* the argument of D of the last configuration
  sample_code,    \* the argument of L of the last configuration
  wire,           \* the complete frames that the host has not read
  input_data      \* the last data_buffer of acquisition_loop

hostVars    == <<host, script, decimation, sample_code, wire, input_data>>
sessionVars == <<vars, hostVars>>

SessionInit ==
  /\ Init
  /\ host = "closed"
  /\ script = <<>>
  /\ decimation = NoChar
  /\ sample_code = NoChar
  /\ wire = <<>>
  /\ input_data = <<>>

-----------------------------------------------------------------------------
\* data_tx completes its line "stop": the whole frame is on its way.
McuStep ==
  /\ Mcu
  /\ wire' = IF main_pc = "stop" /\ main_pc' = "clear"
             THEN Append(wire, frame) ELSE wire
  /\ UNCHANGED <<host, script, decimation, sample_code, input_data>>

\* SerialComms.write.
write(c) == rx = NoChar /\ HostSends(c)

\* modify_sample_properties: stop_loops ends the acquisition under way, reset
\* sends the break and drops what was received.
Reconfigure ==
  /\ host \in {"closed", "idle", "waiting"}
  /\ HostBreak
  /\ \E d \in Decimations, l \in Lengths :
       /\ decimation' = d
       /\ sample_code' = l
       /\ script' = <<"P", "D", d, "L", l, "R">>
  /\ host' = "script"
  /\ wire' = <<>>
  /\ UNCHANGED input_data

WriteScript ==
  /\ host = "script"
  /\ script # <<>>
  /\ write(Head(script))
  /\ script' = Tail(script)
  /\ UNCHANGED <<host, decimation, sample_code, wire, input_data>>

\* status has read its lines, the answer to the R that ends the script.
StatusRead ==
  /\ host = "script"
  /\ script = <<>>
  /\ rx = NoChar
  /\ host' = "idle"
  /\ UNCHANGED <<vars, script, decimation, sample_code, wire, input_data>>

\* The register commands that adc_comms.py sends when run on its own.
RequestRegister ==
  /\ host = "idle"
  /\ main_pc = "poll"      \* Turnaround
  /\ \E c \in ReadCommands : write(c)
  /\ host' = "reading"
  /\ UNCHANGED <<script, decimation, sample_code, wire, input_data>>

RegisterRead ==
  /\ host = "reading"
  /\ rx = NoChar
  /\ host' = "idle"
  /\ UNCHANGED <<vars, script, decimation, sample_code, wire, input_data>>

\* acquisition_loop: start_sampling.
start_acquisition ==
  /\ host = "idle"
  /\ main_pc = "poll"      \* Turnaround
  /\ write("S")
  /\ host' = "waiting"
  /\ UNCHANGED <<script, decimation, sample_code, wire, input_data>>

\* The lines of a frame but for those that are not hexadecimal, which
\* acquisition_loop logs and drops.
hexadecimal(lines) ==
  IF \A k \in 1 .. Len(lines) : lines[k] # Garbled
  THEN lines
  ELSE SelectSeq(lines, LAMBDA s : s # Garbled)

\* acquisition_loop: the lines from "start" to "stop".
collect_frame ==
  /\ host = "waiting"
  /\ wire # <<>>
  /\ wire' = Tail(wire)
  /\ input_data' = hexadecimal(Head(wire))
  /\ host' = "idle"
  /\ UNCHANGED <<vars, script, decimation, sample_code>>

HostStep ==
  \/ Reconfigure \/ WriteScript \/ StatusRead \/ RequestRegister
  \/ RegisterRead \/ start_acquisition \/ collect_frame

SessionNext == McuStep \/ HostStep

SessionSpec == SessionInit /\ [][SessionNext]_sessionVars

\* The microcontroller's fairness, and a host program that goes on with what
\* it has begun; it need never begin anything.
SessionFairness ==
  /\ McuFairness
  /\ WF_sessionVars(WriteScript)
  /\ WF_sessionVars(StatusRead)
  /\ WF_sessionVars(RegisterRead)
  /\ WF_sessionVars(collect_frame)

FairSession == SessionSpec /\ SessionFairness

-----------------------------------------------------------------------------
SessionTypeOK ==
  /\ TypeOK
  /\ host \in {"closed", "script", "idle", "reading", "waiting"}
  /\ script \in Seq(Chars)
  /\ decimation \in Decimations \cup {NoChar}
  /\ sample_code \in Lengths \cup {NoChar}
  /\ wire \in Seq(Seq(Sample \cup {Garbled}))
  /\ input_data \in Seq(Sample)

\* Every complete frame that data_tx prints has exactly the configured number
\* of samples, each of the running acquisition and read while the converter
\* was converting, none spoiled: through any sequence of configurations,
\* register reads and resets, also in the middle of sampling or sending.
FrameFresh ==
  main_pc = "clear" =>
    frame = [i \in 1 .. LengthOf(sample_code) |-> [acq |-> acq, live |-> TRUE]]

\* Samples are only ever taken at the decimation rate and with the filters
\* that the host configured last, although the first Control Register 1 that
\* setup writes may be lost on an ADC still in reset.
RateHonoured ==
  irq_enabled =>
    adc.cr1 = [filters |-> TRUE, dec |-> DecimationOf(decimation)]

\* The abstract session: the frame that was asked for is begun when the
\* microcontroller takes the S out of the UART.
Phase ==
  CASE host = "closed"  -> "off"
    [] host = "script"  -> "configuring"
    [] host = "waiting" -> IF rx = "S" THEN "requested" ELSE "sampling"
    [] OTHER            -> "idle"

ConfiguredLength == IF sample_code = NoChar THEN 0 ELSE LengthOf(sample_code)

Abstract == INSTANCE Acquisition WITH
  Lengths <- { LengthOf(l) : l \in Lengths },
  phase   <- Phase,
  length  <- ConfiguredLength,
  count   <- acq,
  answer  <- input_data

\* Firmware and host program together keep the promise of Acquisition, its
\* liveness included: no request goes unanswered, and no answer is stale,
\* short or from another request.
ImplementsAcquisition == Abstract!Spec
=============================================================================
