---------------------------- MODULE SerialLines -----------------------------
(***************************************************************************)
(* Class SerialComms of adc_comms.py, line by line: the thread that runs   *)
(* acquisition_loop and decode_loop, the thread that runs                  *)
(* modify_sample_properties, and between them and the board a serial line  *)
(* that may lose a character of the host, or lose or spoil a line of the   *)
(* board.                                                                  *)
(*                                                                         *)
(* Received lines wait in two places: in the operating system (os_buffer), *)
(* which reset_input_buffer empties, and inside the TextIOWrapper sio      *)
(* (sio_buffer), which only sio.read empties.                              *)
(*                                                                         *)
(* Timing assumptions, each a conjunct of the action that it restricts:    *)
(*   Silence: a read gives up after 0.5 s, and the board, once it has a    *)
(*     command, is never silent for so long before it has answered;        *)
(*   Noticed: modify_sample_properties takes more than a second to get to  *)
(*     its flush of sio, and the other thread looks at stop_loops after    *)
(*     every read, that is, at least every 0.5 s.                          *)
(* The start of an acquisition, from the test of stop_loops to the S, is   *)
(* one step here; HostThreads looks into it, and into what an exception    *)
(* leaves that ends an acquisition.                                        *)
(***************************************************************************)
EXTENDS Naturals, Sequences

CONSTANTS
  Lengths,    \* the values of number_of_samples that the user can choose
  MaxAcq,     \* bound: acquisitions
  MaxConfig,  \* bound: calls of modify_sample_properties
  Faults,     \* what can go wrong: a subset of {"lose S", "lose line", "spoil line"}
  MaxFaults   \* bound: how often something goes wrong

ASSUME LengthsAssumption == Lengths \subseteq Nat \ {0}
ASSUME BoundsAssumption  == MaxAcq \in Nat /\ MaxConfig \in Nat /\ MaxFaults \in Nat
ASSUME FaultsAssumption  == Faults \subseteq {"lose S", "lose line", "spoil line"}

VARIABLES
  rx,                 \* an S is in the UART of the board
  board_length,       \* number_of_samples_to_TX
  tx,                 \* the lines that the board has yet to print
  acq,                \* history: the S characters sent
  os_buffer, sio_buffer,
  faults,             \* history: how often something went wrong
  number_of_samples, stop_loops,
  loop_pc,            \* the acquiring thread
  turn, limit,        \* its loop counter, nn or kk, and the end of its range
  asked,              \* history: number_of_samples when it sent the S
  cur_line, data_buffer,
  input_data_queue, decoded_data_queue,   \* deques of length 1
  config_pc,          \* the configuring thread
  new_length,         \* its argument
  configs,            \* history: how many configurations were begun
  status_table

boardVars  == <<rx, board_length, tx>>
bufferVars == <<os_buffer, sio_buffer>>
loopVars   == <<loop_pc, turn, limit, asked, cur_line, data_buffer, input_data_queue,
                decoded_data_queue>>
configVars == <<config_pc, new_length, configs, status_table>>
lineVars   == <<boardVars, acq, bufferVars, faults, number_of_samples, stop_loops,
                loopVars, configVars>>

\* A line says what it is, whose answer it belongs to and where it stands in it.
Line(kind, of, i) == [kind |-> kind, of |-> of, i |-> i]

Empty == Line("empty", 0, 0)   \* readline without a line

\* data_tx, and the three lines of read_status_register.
FrameOf(a, n) ==
  <<Line("start", a, 0)>> \o [i \in 1 .. n |-> Line("data", a, i)]
    \o <<Line("stop", a, n + 1)>>
StatusOf(c) == [i \in 1 .. 3 |-> Line("text", c, i)]

Init ==
  /\ rx = FALSE
  /\ board_length = 0
  /\ tx = <<>>
  /\ acq = 0
  /\ os_buffer = <<>>
  /\ sio_buffer = <<>>
  /\ faults = 0
  /\ number_of_samples = 0
  /\ stop_loops = FALSE
  /\ loop_pc = "idle"
  /\ turn = 0
  /\ limit = 0
  /\ asked = 0
  /\ cur_line = Empty
  /\ data_buffer = <<>>
  /\ input_data_queue = <<>>
  /\ decoded_data_queue = <<>>
  /\ config_pc = "idle"
  /\ new_length = 0
  /\ configs = 0
  /\ status_table = <<>>

-----------------------------------------------------------------------------
(***************************************************************************)
(* The board and the line.                                                 *)
(***************************************************************************)
\* The board samples and has a frame to print, after what it is printing.
BoardTakesS ==
  /\ rx
  /\ rx' = FALSE
  /\ tx' = tx \o FrameOf(acq, board_length)
  /\ UNCHANGED <<board_length, acq, bufferVars, faults, number_of_samples,
                 stop_loops, loopVars, configVars>>

Transmit(received) ==
  /\ tx # <<>>
  /\ tx' = Tail(tx)
  /\ os_buffer' = os_buffer \o received
  /\ UNCHANGED <<rx, board_length, acq, sio_buffer, number_of_samples, stop_loops,
                 loopVars, configVars>>

BoardPrints == tx # <<>> /\ Transmit(<<Head(tx)>>) /\ UNCHANGED faults

Fault(kind) ==
  /\ kind \in Faults
  /\ faults < MaxFaults
  /\ faults' = faults + 1

LineLost == Fault("lose line") /\ Transmit(<<>>)

\* Neither hexadecimal nor "start" nor "stop" any more.
LineSpoiled ==
  /\ Fault("spoil line")
  /\ tx # <<>>
  /\ Transmit(<<[Head(tx) EXCEPT !.kind = "bad"]>>)

CharacterLost ==
  /\ Fault("lose S")
  /\ rx
  /\ rx' = FALSE
  /\ UNCHANGED <<board_length, tx, acq, bufferVars, number_of_samples, stop_loops,
                 loopVars, configVars>>

Board == BoardTakesS \/ BoardPrints \/ LineLost \/ LineSpoiled \/ CharacterLost

Quiet == ~rx /\ tx = <<>>

\* SerialComms.readline: a line of sio's, or all that the operating system
\* has, or, after 0.5 s, nothing.
readline(line) ==
  \/ /\ sio_buffer # <<>>
     /\ line = Head(sio_buffer)
     /\ sio_buffer' = Tail(sio_buffer)
     /\ UNCHANGED os_buffer
  \/ /\ sio_buffer = <<>>
     /\ os_buffer # <<>>
     /\ line = Head(os_buffer)
     /\ sio_buffer' = Tail(os_buffer)
     /\ os_buffer' = <<>>
  \/ /\ sio_buffer = <<>>
     /\ os_buffer = <<>>
     /\ Quiet                  \* Silence
     /\ line = Empty
     /\ UNCHANGED bufferVars

\* The line that readline returns.
NextLine ==
  IF sio_buffer # <<>> THEN Head(sio_buffer)
  ELSE IF os_buffer # <<>> THEN Head(os_buffer) ELSE Empty

-----------------------------------------------------------------------------
(***************************************************************************)
(* The acquiring thread.                                                   *)
(***************************************************************************)
LoopStep(from, to) ==
  /\ loop_pc = from
  /\ loop_pc' = to
  /\ UNCHANGED <<board_length, tx, faults, number_of_samples, stop_loops, configVars>>

\* Mutant: the samples go to the global data_buffer, which nothing empties.
start_sampling_global ==
  /\ acq < MaxAcq
  /\ ~stop_loops
  /\ LoopStep("idle", "find")
  /\ rx' = TRUE
  /\ acq' = acq + 1
  /\ turn' = 0
  /\ limit' = number_of_samples * 6
  /\ asked' = number_of_samples
  /\ data_buffer' = data_buffer
  /\ UNCHANGED <<bufferVars, cur_line, input_data_queue, decoded_data_queue>>

\* acquisition_loop: start_sampling.
start_sampling ==
  /\ acq < MaxAcq
  /\ ~stop_loops
  /\ LoopStep("idle", "find")
  /\ rx' = TRUE
  /\ acq' = acq + 1
  /\ turn' = 0
  /\ limit' = number_of_samples * 6
  /\ asked' = number_of_samples
  /\ data_buffer' = <<>>
  /\ UNCHANGED <<bufferVars, cur_line, input_data_queue, decoded_data_queue>>

\* The rest of the loop neither writes nor touches the decoded queue.
UNCHANGED_in_loop == UNCHANGED <<rx, acq, asked, decoded_data_queue>>

\* "start" was never found, or stop_loops is set.
GiveUp ==
  /\ \/ loop_pc = "find" /\ (turn = limit \/ stop_loops)
     \/ /\ loop_pc = "collect" /\ cur_line.kind # "stop"
        /\ turn < limit /\ stop_loops
  /\ LoopStep(loop_pc, "decode")
  /\ UNCHANGED_in_loop
  /\ UNCHANGED <<bufferVars, turn, limit, cur_line, data_buffer, input_data_queue>>

\* Mutant: the search for "start" has no limit.
FindStart_forever ==
  /\ turn < limit
  /\ ~stop_loops
  /\ readline(NextLine)
  /\ LoopStep("find", IF NextLine.kind = "start" THEN "first" ELSE "find")
  /\ turn' = turn
  /\ UNCHANGED_in_loop
  /\ UNCHANGED <<limit, cur_line, data_buffer, input_data_queue>>

FindStart ==
  /\ turn < limit
  /\ ~stop_loops
  /\ readline(NextLine)
  /\ LoopStep("find", IF NextLine.kind = "start" THEN "first" ELSE "find")
  /\ turn' = turn + 1
  /\ UNCHANGED_in_loop
  /\ UNCHANGED <<limit, cur_line, data_buffer, input_data_queue>>

\* Mutant: the loop ends one line early.
FirstLine_short ==
  /\ LoopStep("first", "collect")
  /\ readline(NextLine)
  /\ cur_line' = NextLine
  /\ turn' = 0
  /\ limit' = number_of_samples - 1
  /\ UNCHANGED_in_loop
  /\ UNCHANGED <<data_buffer, input_data_queue>>

\* The line after "start".
FirstLine ==
  /\ LoopStep("first", "collect")
  /\ readline(NextLine)
  /\ cur_line' = NextLine
  /\ turn' = 0
  /\ limit' = number_of_samples * 2
  /\ UNCHANGED_in_loop
  /\ UNCHANGED <<data_buffer, input_data_queue>>

\* Mutant: the next line is read before the last is converted.
CollectLine_reads_first ==
  /\ turn < limit
  /\ cur_line.kind # "stop"
  /\ ~stop_loops
  /\ LoopStep("collect", "collect")
  /\ data_buffer' = IF NextLine.kind = "data" THEN Append(data_buffer, NextLine)
                                              ELSE data_buffer
  /\ readline(NextLine)
  /\ cur_line' = NextLine
  /\ turn' = turn + 1
  /\ UNCHANGED_in_loop
  /\ UNCHANGED <<limit, input_data_queue>>

\* A line that is not hexadecimal is logged and dropped.
CollectLine ==
  /\ turn < limit
  /\ cur_line.kind # "stop"
  /\ ~stop_loops
  /\ LoopStep("collect", "collect")
  /\ data_buffer' = IF cur_line.kind = "data" THEN Append(data_buffer, cur_line)
                                              ELSE data_buffer
  /\ readline(NextLine)
  /\ cur_line' = NextLine
  /\ turn' = turn + 1
  /\ UNCHANGED_in_loop
  /\ UNCHANGED <<limit, input_data_queue>>

\* "stop", or more lines than any frame has.
HandOver ==
  /\ cur_line.kind = "stop" \/ turn = limit
  /\ LoopStep("collect", "decode")
  /\ input_data_queue' = <<data_buffer>>
  /\ UNCHANGED_in_loop
  /\ UNCHANGED <<bufferVars, turn, limit, cur_line, data_buffer>>

\* Mutant: the queue of decoded buffers has no limit.
decode_loop_grows ==
  /\ LoopStep("decode", "idle")
  /\ input_data_queue' = <<>>
  /\ decoded_data_queue' = decoded_data_queue \o input_data_queue
  /\ UNCHANGED <<rx, acq, bufferVars, turn, limit, asked, cur_line, data_buffer>>

\* decode_loop: an empty queue is passed over.
decode_loop ==
  /\ LoopStep("decode", "idle")
  /\ input_data_queue' = <<>>
  /\ decoded_data_queue' = IF input_data_queue = <<>> THEN decoded_data_queue
                                                      ELSE input_data_queue
  /\ UNCHANGED <<rx, acq, bufferVars, turn, limit, asked, cur_line, data_buffer>>

Loop == GiveUp \/ FindStart \/ FirstLine \/ CollectLine \/ HandOver \/ decode_loop

-----------------------------------------------------------------------------
(***************************************************************************)
(* The configuring thread: modify_sample_properties.                       *)
(***************************************************************************)
ConfigStep(from, to) ==
  /\ config_pc = from
  /\ config_pc' = to
  /\ UNCHANGED <<acq, faults, loopVars>>

\* Also after an exception: what it left is not looked at.
Configure ==
  /\ configs < MaxConfig
  /\ config_pc \in {"idle", "raised"}
  /\ ConfigStep(config_pc, "reset")
  /\ stop_loops' = TRUE
  /\ new_length' \in Lengths
  /\ configs' = configs + 1
  /\ status_table' = <<>>
  /\ UNCHANGED <<boardVars, bufferVars, number_of_samples>>

\* The break restarts the board.
send_break ==
  /\ rx' = FALSE
  /\ tx' = <<>>
  /\ board_length' = 0

\* The break and reset_input_buffer.
reset ==
  /\ ConfigStep("reset", "write")
  /\ send_break
  /\ os_buffer' = <<>>
  /\ UNCHANGED <<sio_buffer, number_of_samples, stop_loops, new_length, configs,
                 status_table>>

\* P, D and L with their arguments, and the internal parameters.
WriteProperties ==
  /\ ConfigStep("write", "flush")
  /\ board_length' = new_length
  /\ number_of_samples' = new_length
  /\ UNCHANGED <<rx, tx, bufferVars, stop_loops, new_length, configs, status_table>>

Noticed == loop_pc = "idle"

\* Mutant: sio is not emptied before the R.
Flush_nothing ==
  /\ Noticed
  /\ Quiet
  /\ ConfigStep("flush", "ask")
  /\ UNCHANGED <<boardVars, bufferVars, number_of_samples, stop_loops, new_length,
                 configs, status_table>>

\* status: sio.read consumes all there is, until nothing comes any more.
Flush ==
  /\ Noticed
  /\ Quiet
  /\ ConfigStep("flush", "ask")
  /\ sio_buffer' = <<>>
  /\ os_buffer' = <<>>
  /\ UNCHANGED <<boardVars, number_of_samples, stop_loops, new_length, configs,
                 status_table>>

\* The board answers R.
SendStatus == tx' = tx \o StatusOf(configs) /\ UNCHANGED <<rx, board_length>>

\* status: R.
AskStatus ==
  /\ ConfigStep("ask", "status")
  /\ SendStatus
  /\ UNCHANGED <<bufferVars, number_of_samples, stop_loops, new_length, configs,
                 status_table>>

\* status reads four lines.
ReadStatus ==
  /\ Len(status_table) < 4
  /\ ConfigStep("status", "status")
  /\ readline(NextLine)
  /\ status_table' = Append(status_table, NextLine)
  /\ UNCHANGED <<boardVars, number_of_samples, stop_loops, new_length, configs>>

\* Mutant: stop_loops stays set.
Configured_still_stopped ==
  /\ Len(status_table) = 4
  /\ ConfigStep("status", "idle")
  /\ UNCHANGED <<boardVars, bufferVars, number_of_samples, stop_loops, new_length,
                 configs, status_table>>

Configured ==
  /\ Len(status_table) = 4
  /\ ConfigStep("status", "idle")
  /\ stop_loops' = FALSE
  /\ UNCHANGED <<boardVars, bufferVars, number_of_samples, new_length, configs,
                 status_table>>

Config ==
  reset \/ WriteProperties \/ Flush \/ AskStatus \/ ReadStatus \/ Configured

\* What an exception finds done of the operation that raises it.
ResetRaises ==
  /\ config_pc = "reset"
  /\ send_break \/ UNCHANGED boardVars
  /\ UNCHANGED os_buffer

\* P, D, L or an argument was not written: the length is set or it is not.
WriteRaises ==
  /\ config_pc = "write"
  /\ board_length' \in {board_length, new_length}
  /\ UNCHANGED <<rx, tx, os_buffer>>

AskRaises ==
  /\ config_pc = "ask"
  /\ SendStatus \/ UNCHANGED boardVars
  /\ UNCHANGED os_buffer

\* SerialException or UnicodeDecodeError: what was taken from the operating
\* system is lost, what sio has of earlier reads stays.
ReadRaises ==
  /\ (config_pc = "flush" /\ Noticed) \/ config_pc = "status"
  /\ os_buffer' \in {os_buffer, <<>>}
  /\ UNCHANGED boardVars

\* There is no try: stop_loops stays set.
ConfigRaises ==
  /\ ResetRaises \/ WriteRaises \/ AskRaises \/ ReadRaises
  /\ ConfigStep(config_pc, "raised")
  /\ UNCHANGED <<sio_buffer, number_of_samples, stop_loops, new_length, configs,
                 status_table>>

Next == Board \/ start_sampling \/ Loop \/ Configure \/ Config \/ ConfigRaises

Spec == Init /\ [][Next]_lineVars

\* The threads and the board go on; nothing need be begun and nothing need
\* go wrong.
FairSpec ==
  /\ Spec
  /\ WF_lineVars(BoardTakesS)
  /\ WF_lineVars(BoardPrints)
  /\ WF_lineVars(Loop)
  /\ WF_lineVars(Config)

-----------------------------------------------------------------------------
LineType == [kind : {"start", "data", "stop", "text", "bad", "empty"}, of : Nat, i : Nat]

TypeOK ==
  /\ rx \in BOOLEAN /\ stop_loops \in BOOLEAN
  /\ {board_length, number_of_samples, new_length, asked} \subseteq Lengths \cup {0}
  /\ {acq, faults, turn, limit, configs} \subseteq Nat
  /\ {tx, os_buffer, sio_buffer, data_buffer, status_table} \subseteq Seq(LineType)
  /\ cur_line \in LineType
  /\ input_data_queue \in Seq(Seq(LineType)) /\ Len(input_data_queue) <= 1
  /\ decoded_data_queue \in Seq(Seq(LineType)) /\ Len(decoded_data_queue) <= 1
  /\ loop_pc \in {"idle", "find", "first", "collect", "decode"}
  /\ config_pc \in {"idle", "reset", "write", "flush", "ask", "status", "raised"}

\* A buffer that goes to decode_loop holds samples of the acquisition just
\* asked for only, each once and in their order, whatever was lost, spoiled or
\* left over in either buffer by an acquisition that was stopped or given up.
BufferFromOneFrame ==
  \A b \in { input_data_queue[k] : k \in DOMAIN input_data_queue } :
    \A k \in DOMAIN b :
      /\ b[k].of = acq
      /\ k > 1 => b[k-1].i < b[k].i

\* As long as nothing went wrong on the line, a buffer that is handed over is
\* the whole frame: no line of it is taken by a search or a limit that ends
\* too early, through any number of stopped acquisitions and configurations.
CleanFrameWhole ==
  faults = 0 =>
    \A b \in { input_data_queue[k] : k \in DOMAIN input_data_queue } :
      Len(b) = asked

\* The table that modify_sample_properties returns holds answers to its own R
\* only, although lines of the acquisition that it stopped may be in either
\* buffer when it begins.
StatusOwnLines ==
  \A k \in DOMAIN status_table :
    \/ status_table[k].kind = "empty"
    \/ status_table[k].of = configs /\ status_table[k].kind \in {"text", "bad"}

\* Once configured, the host asks for samples only when the board has printed
\* all of its last answer: nothing is left that the new one could follow.
AsksWhenQuiet ==
  [][acq' = acq + 1 /\ number_of_samples > 0 => Quiet]_lineVars

\* acquisition_loop comes back, also when the S, "start" or "stop" is lost.
LoopReturns == loop_pc # "idle" ~> loop_pc = "idle"

\* A configuration comes to its end and lets the acquisitions go on, also one
\* that finds what another left that an exception ended; only an exception of
\* its own leaves them stopped.
StopIsLifted == stop_loops ~> (~stop_loops \/ config_pc = "raised")
=============================================================================
