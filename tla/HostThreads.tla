----------------------------- MODULE HostThreads ------------------------------
(***************************************************************************)
(* The callback threads of pc_data.py and what they share: the flags       *)
(* stop_loops and loop_running, the host's sample_rate and                 *)
(* number_of_samples, and the serial line to the board, whose commands are *)
(* single characters of which D and L take the next one, whoever sent it,  *)
(* as their argument.                                                      *)
(*                                                                         *)
(* An acquirer is a thread that the timer starts in acquire_data.  A       *)
(* configurer is a thread that a selection of the user starts in           *)
(* update_properties.                                                      *)
(*                                                                         *)
(* Any operation on the port can end its callback by an exception; there   *)
(* is no try: the flags stay as they are.                                  *)
(*                                                                         *)
(* Timing assumptions, each a conjunct of the action it restricts:         *)
(*   Pacing: write sleeps 0.1 s, in which the board takes what the UART    *)
(*     holds;                                                              *)
(*   Prompt: reset takes 0.2 s, in which an acquirer that tested           *)
(*     stop_loops before it was set has sent its S, and the board has      *)
(*     taken it, unless another configurer has cleared stop_loops since.   *)
(***************************************************************************)
EXTENDS Naturals

CONSTANTS
  Acquirers, Configurers,   \* the threads
  Rates,                    \* the arguments of D the user can select
  Lengths,                  \* the arguments of L the user can select
  MaxFailures               \* bound: how often an operation on the port fails

Digits == {"0", "1", "2", "3", "4", "5"}

ASSUME ThreadsAssumption == Acquirers \cap Configurers = {}
ASSUME RatesAssumption   == Rates \subseteq Digits
ASSUME BoundAssumption   == MaxFailures \in Nat
ASSUME LengthsAssumption == Lengths \subseteq {"0", "1", "2", "3"}

VARIABLES
  rx,                                \* the UART: a character, and who wrote since
  unsent,                            \* what a write that failed left in sio
  awaiting,                          \* "D" or "L" while it waits for its argument
  board_rate, board_length,          \* the decimation, number_of_samples_to_TX
  stop_loops, loop_running,
  sample_rate, number_of_samples,    \* the host's, as arguments of D and L
  selected_rate, selected_length,    \* the values in the browser
  acq_pc, config_pc,
  new_rate, new_length,              \* the arguments of each configurer
  failures,                          \* history: how often an operation failed
  spoiled, doubt, failed             \* history, see below

boardVars  == <<rx, awaiting, board_rate, board_length>>
flagVars   == <<stop_loops, loop_running>>
hostVars   == <<sample_rate, number_of_samples>>
userVars   == <<selected_rate, selected_length>>
argVars    == <<new_rate, new_length>>
histVars   == <<failures, spoiled, doubt, failed>>
threadVars == <<boardVars, unsent, flagVars, hostVars, userVars, acq_pc, config_pc,
                argVars, histVars>>

NoChar == [char |-> "none", by |-> {}]

\* A callback of the configurer runs.
UnderWay(c) == config_pc[c] \notin {"idle", "raised"}

SomeUnderWay == \E c \in Configurers : UnderWay(c)

Init ==
  /\ rx = NoChar /\ awaiting = "none" /\ unsent = "none"
  /\ board_rate = "unset" /\ board_length = "unset"
  /\ stop_loops = FALSE /\ loop_running = FALSE
  /\ sample_rate = "unset" /\ number_of_samples = "unset"
  /\ failures = 0
  /\ selected_rate = "unset" /\ selected_length = "unset"
  /\ acq_pc = [a \in Acquirers |-> "idle"]
  /\ config_pc = [c \in Configurers |-> "idle"]
  /\ new_rate = [c \in Configurers |-> "unset"]
  /\ new_length = [c \in Configurers |-> "unset"]
  /\ spoiled = FALSE /\ doubt = FALSE /\ failed = FALSE

(***************************************************************************)
(* History variables, which no action tests:                               *)
(*   spoiled: the configuration under way had another beside it, or a      *)
(*     character left in sio before it or by an acquirer during it;        *)
(*   doubt: there was such a configuration, and no other came to its end   *)
(*     since;                                                              *)
(*   failed: one ended by an exception, and none came to its end since.    *)
(***************************************************************************)
-----------------------------------------------------------------------------
(***************************************************************************)
(* The board, as far as the host configures it.                            *)
(***************************************************************************)
\* The arguments as control_signals reads them: its switches have a default.
RateOf(c)   == IF c \in Digits THEN c ELSE "5"
LengthOf(c) == IF c \in {"1", "2", "3"} THEN c ELSE "0"

\* setup writes DEFAULT_DECIMATION_RATE; S, T, R and an unknown character
\* change nothing that is modelled here.
control_signals ==
  /\ rx # NoChar
  /\ rx' = NoChar
  /\ awaiting' = IF awaiting = "none" /\ rx.char \in {"D", "L"} THEN rx.char ELSE "none"
  /\ board_rate' = CASE awaiting = "D"                        -> RateOf(rx.char)
                     [] awaiting = "none" /\ rx.char = "P"    -> "5"
                     [] OTHER                                 -> board_rate
  /\ board_length' = IF awaiting = "L" THEN LengthOf(rx.char) ELSE board_length
  /\ UNCHANGED <<unsent, flagVars, hostVars, userVars, acq_pc, config_pc, argVars, histVars>>

\* write: a character that finds the UART full is lost.
Send(c, by) ==
  rx' = [char |-> IF rx = NoChar THEN c ELSE rx.char, by |-> rx.by \cup by]

\* sio keeps the character of a write that failed, sends it with the next one
\* and right before it, whether or not the board takes it in between.
SendUnsent(by) ==
  /\ unsent # "none"
  /\ Send(unsent, by)
  /\ unsent' = "none"

\* A write ends by an exception: c was not written at all, or sio keeps it and
\* it may have been sent all the same.  Bound: sio keeps one character.
WriteRaises(c, by) ==
  \/ UNCHANGED <<rx, unsent>>
  \/ unsent = "none" /\ unsent' = c /\ (Send(c, by) \/ UNCHANGED rx)

-----------------------------------------------------------------------------
(***************************************************************************)
(* acquire_data.                                                           *)
(***************************************************************************)
AcqStep(a, from, to) ==
  /\ acq_pc[a] = from
  /\ acq_pc' = [acq_pc EXCEPT ![a] = to]
  /\ UNCHANGED <<awaiting, board_rate, board_length, stop_loops, hostVars, userVars,
                 config_pc, argVars, failed>>

\* An operation on the port fails.
Fails ==
  /\ failures < MaxFailures
  /\ failures' = failures + 1

\* Mutant: a configuration does not keep acquisitions from starting.
TestFlags_running_only(a) ==
  /\ ~loop_running
  /\ acq_pc[a] \in {"idle", "raised"}
  /\ AcqStep(a, acq_pc[a], "tested")
  /\ UNCHANGED <<rx, unsent, loop_running, failures, spoiled, doubt>>

TestFlags(a) ==
  /\ ~stop_loops /\ ~loop_running
  /\ acq_pc[a] \in {"idle", "raised"}
  /\ AcqStep(a, acq_pc[a], "tested")
  /\ UNCHANGED <<rx, unsent, loop_running, failures, spoiled, doubt>>

SetRunning(a) ==
  /\ AcqStep(a, "tested", "starting")
  /\ loop_running' = TRUE
  /\ UNCHANGED <<rx, unsent, failures, spoiled, doubt>>

\* acquisition_loop: start_sampling.
start_sampling(a) ==
  /\ acq_pc[a] = "flushed" \/ (acq_pc[a] = "starting" /\ unsent = "none")
  /\ AcqStep(a, acq_pc[a], "reading")
  /\ Send("S", {a})
  /\ UNCHANGED <<unsent, loop_running, failures, spoiled, doubt>>

start_flushes(a) ==
  /\ AcqStep(a, "starting", "flushed")
  /\ SendUnsent({a})
  /\ UNCHANGED <<loop_running, failures, spoiled, doubt>>

\* acquisition_loop comes back, with a buffer or without one; SerialLines
\* tells when.
LoopEnds(a) ==
  /\ AcqStep(a, "reading", "decoding")
  /\ UNCHANGED <<rx, unsent, loop_running, failures, spoiled, doubt>>

\* A SerialException or UnicodeDecodeError of readline ends the callback.
ReadRaises(a) ==
  /\ AcqStep(a, "reading", "raised")
  /\ UNCHANGED <<rx, unsent, loop_running, spoiled, doubt>>

\* A SerialException of write ends the callback.
StartRaises(a) ==
  /\ AcqStep(a, "starting", "raised")
  /\ WriteRaises("S", {a})
  /\ spoiled' = TRUE
  /\ doubt' = (doubt \/ SomeUnderWay)
  /\ UNCHANGED loop_running

LoopRaises(a) == Fails /\ (ReadRaises(a) \/ StartRaises(a))

\* Mutant: the callback ends without clearing its flag.
decode_loop_still_running(a) ==
  /\ AcqStep(a, "decoding", "idle")
  /\ UNCHANGED <<rx, unsent, loop_running, failures, spoiled, doubt>>

\* decode_loop, and the end of the callback.
decode_loop(a) ==
  /\ AcqStep(a, "decoding", "idle")
  /\ loop_running' = FALSE
  /\ UNCHANGED <<rx, unsent, failures, spoiled, doubt>>

AcqRuns(a) ==
  \/ SetRunning(a) \/ start_sampling(a) \/ start_flushes(a) \/ LoopEnds(a)
  \/ decode_loop(a)

acquire_data(a) == TestFlags(a) \/ AcqRuns(a) \/ LoopRaises(a)

-----------------------------------------------------------------------------
(***************************************************************************)
(* update_properties and modify_sample_properties.                         *)
(***************************************************************************)
\* The user selects values and the browser starts a callback with them, in a
\* thread that has nothing to do, whatever the others do.
Select(c, r, l) ==
  /\ ~UnderWay(c)
  /\ config_pc' = [config_pc EXCEPT ![c] = "compare"]
  /\ new_rate' = [new_rate EXCEPT ![c] = r]
  /\ new_length' = [new_length EXCEPT ![c] = l]
  /\ selected_rate' = r
  /\ selected_length' = l
  /\ spoiled' = (SomeUnderWay \/ unsent # "none")
  /\ doubt' = (doubt \/ spoiled')
  /\ UNCHANGED <<boardVars, unsent, flagVars, hostVars, acq_pc, failures, failed>>

ConfigStep(c, from, to) ==
  /\ config_pc[c] = from
  /\ config_pc' = [config_pc EXCEPT ![c] = to]
  /\ UNCHANGED <<loop_running, userVars, acq_pc, argVars, spoiled>>

\* "Requires board reset so only do if necessary."
AlreadySet(c) ==
  /\ new_rate[c] = sample_rate /\ new_length[c] = number_of_samples
  /\ ConfigStep(c, "compare", "idle")
  /\ UNCHANGED <<boardVars, unsent, stop_loops, hostVars, failures, doubt, failed>>

\* Mutant: acquisitions are not stopped.
MustSet_goes_on(c) ==
  /\ new_rate[c] # sample_rate \/ new_length[c] # number_of_samples
  /\ ConfigStep(c, "compare", "reset")
  /\ UNCHANGED <<boardVars, unsent, stop_loops, hostVars, failures, doubt, failed>>

MustSet(c) ==
  /\ new_rate[c] # sample_rate \/ new_length[c] # number_of_samples
  /\ ConfigStep(c, "compare", "reset")
  /\ stop_loops' = TRUE
  /\ UNCHANGED <<boardVars, unsent, hostVars, failures, doubt, failed>>

\* The break restarts the board, with zeroed memory.
send_break ==
  /\ rx' = NoChar
  /\ awaiting' = "none"
  /\ board_rate' = "unset"
  /\ board_length' = "unset"

reset(c) ==
  /\ ConfigStep(c, "reset", "P")
  /\ send_break
  /\ UNCHANGED <<unsent, stop_loops, hostVars, failures, doubt, failed>>

\* The writes and what follows each.
Writes == {"P", "D", "rate", "L", "length", "R"}

After(pc) ==
  CASE pc = "P"      -> "D"
    [] pc = "D"      -> "rate"
    [] pc = "rate"   -> "L"
    [] pc = "L"      -> "length"
    [] pc = "length" -> "set"
    [] pc = "R"      -> "status"

CharAt(c) ==
  CASE config_pc[c] = "rate"   -> new_rate[c]
    [] config_pc[c] = "length" -> new_length[c]
    [] OTHER                   -> config_pc[c]

Pacing(c) == c \notin rx.by

Starting == {"tested", "starting", "flushed"}

Prompt(c) ==
  config_pc[c] = "P" /\ stop_loops =>
    /\ \A a \in Acquirers : acq_pc[a] \notin Starting
    /\ rx.by \cap Acquirers = {}

Writing(c) == Pacing(c) /\ Prompt(c) /\ config_pc[c] \in Writes

write(c) ==
  /\ Writing(c)
  /\ unsent = "none"
  /\ ConfigStep(c, config_pc[c], After(config_pc[c]))
  /\ Send(CharAt(c), {c})
  /\ UNCHANGED <<awaiting, board_rate, board_length, unsent, stop_loops, hostVars,
                 failures, doubt, failed>>

write_flushes(c) ==
  /\ Writing(c)
  /\ ConfigStep(c, config_pc[c], config_pc[c])
  /\ SendUnsent({})
  /\ UNCHANGED <<awaiting, board_rate, board_length, stop_loops, hostVars, failures, doubt, failed>>

\* "Update the internal parameters."
SetParameters(c) ==
  /\ ConfigStep(c, "set", "R")
  /\ sample_rate' = new_rate[c]
  /\ number_of_samples' = new_length[c]
  /\ UNCHANGED <<boardVars, unsent, stop_loops, failures, doubt, failed>>

\* status reads lines until the board is silent.
status(c) ==
  /\ Pacing(c)
  /\ ConfigStep(c, "status", "lift")
  /\ UNCHANGED <<boardVars, unsent, stop_loops, hostVars, failures, doubt, failed>>

\* Mutant: stop_loops stays set.
Configured_still_stopped(c) ==
  /\ ConfigStep(c, "lift", "idle")
  /\ doubt' = (doubt /\ spoiled)
  /\ failed' = FALSE
  /\ UNCHANGED <<boardVars, unsent, stop_loops, hostVars, failures>>

Configured(c) ==
  /\ ConfigStep(c, "lift", "idle")
  /\ stop_loops' = FALSE
  /\ doubt' = (doubt /\ spoiled)
  /\ failed' = FALSE
  /\ UNCHANGED <<boardVars, unsent, hostVars, failures>>

update_properties(c) ==
  \/ AlreadySet(c) \/ MustSet(c) \/ reset(c) \/ write(c) \/ write_flushes(c)
  \/ SetParameters(c) \/ status(c) \/ Configured(c)

\* An exception of send_break, reset_input_buffer, write, read or readline ends
\* the callback with stop_loops set.
ResetRaises(c) ==
  /\ ConfigStep(c, "reset", "raised")
  /\ send_break \/ UNCHANGED boardVars
  /\ UNCHANGED unsent

ConfigWriteRaises(c) ==
  /\ Writing(c)
  /\ ConfigStep(c, config_pc[c], "raised")
  /\ WriteRaises(CharAt(c), {c})
  /\ UNCHANGED <<awaiting, board_rate, board_length>>

StatusRaises(c) ==
  /\ Pacing(c)
  /\ ConfigStep(c, "status", "raised")
  /\ UNCHANGED <<boardVars, unsent>>

ConfigRaises(c) ==
  /\ Fails
  /\ ResetRaises(c) \/ ConfigWriteRaises(c) \/ StatusRaises(c)
  /\ failed' = TRUE
  /\ UNCHANGED <<stop_loops, hostVars, doubt>>

-----------------------------------------------------------------------------
Next ==
  \/ control_signals
  \/ \E a \in Acquirers : acquire_data(a)
  \/ \E c \in Configurers :
       \/ update_properties(c)
       \/ ConfigRaises(c)
       \/ \E r \in Rates, l \in Lengths : Select(c, r, l)

Spec == Init /\ [][Next]_threadVars

\* Threads go on, and the board takes what it is sent; nothing need be begun,
\* and nothing need fail.
Fairness ==
  /\ WF_threadVars(control_signals)
  /\ \A a \in Acquirers : WF_threadVars(AcqRuns(a))
  /\ \A c \in Configurers : WF_threadVars(update_properties(c))

FairSpec == Spec /\ Fairness

-----------------------------------------------------------------------------
Chars     == Digits \cup {"none", "P", "D", "L", "R", "S"}
AcqPcs    == {"idle", "reading", "decoding", "raised"} \cup Starting
ConfigPcs == {"idle", "compare", "reset", "set", "status", "lift", "raised"} \cup Writes

TypeOK ==
  /\ rx \in [char : Chars, by : SUBSET (Acquirers \cup Configurers)]
  /\ awaiting \in {"none", "D", "L"}
  /\ unsent \in Chars
  /\ failures \in Nat
  /\ {spoiled, doubt, failed} \subseteq BOOLEAN
  /\ stop_loops \in BOOLEAN /\ loop_running \in BOOLEAN
  /\ {board_rate, sample_rate, selected_rate} \subseteq Digits \cup {"unset"}
  /\ {board_length, number_of_samples, selected_length} \subseteq Digits \cup {"unset"}
  /\ acq_pc \in [Acquirers -> AcqPcs]
  /\ config_pc \in [Configurers -> ConfigPcs]
  /\ new_rate \in [Configurers -> Rates \cup {"unset"}]
  /\ new_length \in [Configurers -> Lengths \cup {"unset"}]

\* Whenever no configuration is under way, the board decimates and transmits
\* what the host believes and what the user selected, and acquisitions may
\* start: no S of an acquisition that was starting became an argument of D or L,
\* and no command was lost while the board was busy.  Not so after an exception
\* or after configurations that met, until one comes to its end undisturbed; then
\* it is so again, whatever mixture the others left.
ConfigAgrees ==
  ~SomeUnderWay /\ ~doubt /\ ~failed =>
    /\ board_rate = sample_rate /\ sample_rate = selected_rate
    /\ board_length = number_of_samples /\ number_of_samples = selected_length
    /\ awaiting = "none"
    /\ ~stop_loops

\* Again and again an acquisition can be started: neither overlapping callbacks
\* nor the configurations that stop them leave a flag set for ever, unless the
\* last of the acquisitions, or of the configurations, has ended by an exception.
MayStartAgain ==
  []<>( /\ stop_loops => failed
        /\ loop_running => \E a \in Acquirers : acq_pc[a] = "raised" )

-----------------------------------------------------------------------------
\* pc_data.py, acquire_data: "Prevent starting a serial connection when
\* something is already active, including another threaded instance of this
\* function."
StartsAlone ==
  \A a, b \in Acquirers :
    acq_pc[a] = "reading" /\ acq_pc[b] = "reading" => a = b
=============================================================================
