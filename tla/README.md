# Iridium ADC: a verification project

The Iridium ADC is a data acquisition system. A Nucleo board (STM32F446, mbed OS)
drives an AD7760 converter over a 16-bit parallel bus and sends the samples over
a serial line (UART, 1.5 Mbaud) to a Python program that shows them in time and
frequency domain. This directory holds TLA+ modules of that program, the TLC
runs that check them, and proofs that TLAPS checks.

Paths below are relative to the repository's `src/` directory unless they start
with `docs/`.

## 1. Inventory

| Component | Source | State | Operations |
|---|---|---|---|
| Main loop | `main.cpp` | where `main` is | poll `data_ready`, `data_tx`, clear the flag |
| ADC control | `adc.cpp` | `control_reg_1_state`, `control_reg_2_state`, `sample_array`, `sample_index` (static local), `data_ready`, the interrupt enable | constructor, `setup`, power up/down, start/stop sampling, change decimation, read four registers, `collect_samples` |
| Commands and transmission | `communications.cpp` | `number_of_samples_to_TX` | `control_signals` (P R S T D L F G V), `data_tx` |
| Pins and data bus | `pins.cpp`, `pins.h` | levels and direction of 16 + 5 pins | `write`, `read`, `detangle` |
| Host serial program | `adc_comms.py` | port, `number_of_samples`, `sample_rate`, `stop_loops`, `loop_running`, two queues of length 1 | `reset`, `setup`, `modify_sample_properties`, `acquisition_loop`, `decode_loop`, `status` |
| Host user interface | `pc_data.py` | `freq_mag_history`, `window_map`, `freq_axis`, timer interval | Dash callbacks, each in a server thread |
| Serial monitor | `serial monitor.py` | none | forwards keys and lines |
| Vendored or not a program | mbed OS, `ecad`, `esim`, `hardware`, `docs`, `test-sim` | | |

How they interact:

- The host sends single characters; the UART receive interrupt runs
  `control_signals`. D and L read their argument with a second, blocking `getc`
  *inside* the interrupt handler.
- `start_sampling` enables the interrupt of the DRDY pin; each edge runs
  `collect_samples`, which fills `sample_array` and at the end stops the sampling
  and sets `data_ready`.
- `main` polls `data_ready`, prints `start`, the samples and `stop`, and clears
  the flag. The flag and the array are shared without any lock.
- Both interrupts have the same priority: a handler runs to its end (100 ms when
  it powers up the ADC), and `main` can be interrupted between any two of its steps.
- A serial break resets the board; the ADC keeps no state over it that the
  constructor does not write again.

What is hard: the interrupts against the main loop; commands in the middle of
sampling; what a reset, a static constructor that ran too early or a command
before P leaves in the chip; the copy of Control Register 1 against the chip;
an edge left pending; a character lost; progress; and three bit orders.

Correctness, per component:

- *Firmware*: the converter is powered only to sample; the register copy is not
  stale; a ready buffer is sent whole and not overwritten; samples are in order;
  sampling and sending come to an end; a reset forgets everything.
- *Firmware with the host program*: one request, one frame, of the configured
  length and rate, of fresh samples only; no request unanswered.
- *Data bus*: every word survives the pins, both ways and in every bit order.
- *Host program*: numbers and status bits are those of the converter; one
  acquisition at a time; a failure does not block the next one.
- *User interface*: windows, axes and averages belong to the buffer they are
  applied to; each buffer is averaged once.

The list of hazards, each at its line, is in `PROJECT.json`.

## 2. Plan

| Order | Module | Content | State |
|---|---|---|---|
| 1 | `Firmware` | main loop, DRDY interrupt, commands, AD7760 registers, any host | done |
| 2 | `FirmwareProofs` | types, power, register copy, order of samples | done |
| 3 | `Acquisition`, `Session` | abstract request/answer; firmware under `SerialComms`, refinement | done |
| 4 | `DataBus`, `Samples` | pins, bit orders, printed status table; values and status to the host's numbers | done |
| 5 | `AdcBus` | every register access pin by pin, against the one step `Firmware` takes for it | done |
| 6 | `DataReady`, `Exti` | what `Firmware` assumes of the DRDY interrupt; the mbed OS driver that provides it | done |
| 7 | `SerialLines` | lines, read timeouts, buffers and queues of the host, faults of the line | done |
| 8 | `HostThreads`, `HostThreadsProofs` | callback threads, their flags, two-character commands interleaved with S | done |
| 9 | `Display` | averages, windows, spectrum and axis after a change of the properties | done |
| 10 | `SessionProofs` | `FrameFresh`, `RateHonoured`, the safety half of the refinement | done |
| 11 | `SerialLinesProofs` | the buffers and the status table, for any lengths and faults | done |
| 12 | `ExtiProofs` | the driver's flags, and the safety half of the refinement | done |
| 13 | `AdcBusProofs` | one driver of the bus, whole register accesses, what is read | done |
| 14 | `SamplesProofs` | every word, every value, every status byte, buffers of any length | done |
| 15 | `System` | `Firmware` with the threads of `HostThreads` on one line | left |

Modules that are proved about hold no `RECURSIVE` operator. How the parts fit
together: `Session` composes `Firmware` with the host and shows that the two
implement `Acquisition`; `Exti` implements `DataReady`, whose two variables are
those of the same name in `Firmware`; `AdcBus` carries the registers of `Firmware`
along (`regs`) and compares them with the chip's after each job; `Samples` extends
`DataBus`. `SerialLines` and `HostThreads` look at one program from two sides:
the first at the lines between two threads and the board, with the start of an
acquisition as one step, the second at the statements of that start and at single
characters, with the lines left out.

## 3. Modules

### Firmware

One action per step that another activity can observe. `Main` has seven (poll,
the three prints, the loop test, the loop's end, the clearing of the flag). A
command is one action because no interrupt preempts it; D and L are two, with
the wait for the argument (`awaiting`) between them, during which neither `main`
nor the DRDY interrupt can run. DRDY is an edge (`DrdyEdge`) that sets the EXTI
pending bit, and an interrupt that takes it: `CollectSample`, `CollectDone`, or
`DrdyMissed` when the driver finds the line low again and calls nothing.
`EdgeWhilePowered` adds the edge that can become pending while a command has
the ADC powered up; `CollectDone` can leave one pending.

The AD7760 is its Control Registers 1 (filters and decimation) and 2 (but for
PD), the bit PD and the offset register. A write to an ADC in reset is lost. The
chip's reset value of Control Register 1 is a value of its own (`ChipDefault`).
A register read writes the program's copy of Control Register 1 on the way.

Start-up: C++ does not say whether the static objects of `adc.cpp` or of
`pins.cpp` are constructed first, so `Init` has both outcomes (`BootStates`).
`HostBreak` is the reset by the debugger of the board: zeroed memory and again
either order.

Abstractions: a sample is the number of the acquisition that took it and whether
the converter was converting at the bus read; its value is the business of
`Samples`. `acq`, `frame` and `torn` are history variables. A character in the
UART's data register is lost if another is there (`HostSends`). `offset` keeps only
whether F wrote it.

### Session and Acquisition

`Session` runs `Firmware` under the script of `SerialComms`, used by one thread:
break, P, D and its argument, L and its argument, R, and then acquisitions and
register reads; it can configure anew while it waits for an answer. Two timing
assumptions replace the clock, as conjuncts of the host's actions: *Pacing* (0.1 s
after each character, so the UART is empty at the next) and *Turnaround* (`main`
is polling again when the host has read `stop` and answers: a few instructions
against 7 microseconds of one character on the line). Without Turnaround the
finding `firmware_lost` would be possible here too.

The rate that the converter samples with is decided by the program's copy of Control
Register 1, not by D's write: the R that ends every configuration writes the copy
again. `RateHonoured` therefore breaks when D misses the copy, and survives when D
misses the chip.

`Acquisition` is what this promises: `Configure`, `Request`, `Begin`, `Answer`. The
refinement mapping is the instance `Abstract` at the end of `Session`.

### DataBus and Samples

A word is the set of its 1 bits. The shifts of `write`, `read` and `detangle` are
sets of terms, a bit and how far it goes, as the code writes them, and the
wiring (`DATAPINS`) and the host's character order are translated on their own, so
that they can disagree. `StatusTable` is the table of `read_status_register`, a
mask and a shift per column. `Samples` adds the two reads of `read_data_word`, the
concatenation, and `decode_loop` with its sign and its accumulated status; the
scale factor is left out. A value's bits come from shifting it right, and the host
reads a string of digits from the left (`DigitsRead`, Python's `int`). `RegisterWord` lets any word be written or read on the
bus before the first acquisition, so that one run covers both.

### AdcBus

A *call* (a command, the constructor, `collect_samples`) is a sequence of *jobs*, a
job a sequence of accesses: a level of a pin, a direction of the bus, a word into
the output latch, a read. One job is what `Firmware` takes for one step. The chip
takes a word at the rising edge of chip select while the read line is high, first
an address and then a value, and counts the two halves of a sample. A `Break` may
cut a job anywhere. Assumptions about the AD7760, which is external: an address
that names no register is ignored; in reset it drives nothing and forgets half an
access; a bus that nobody drives keeps zero. The waits of four clock cycles and the
sync pin, which only ever goes high, are left out.

### DataReady and Exti

`DataReady` is the interrupt that `Firmware` assumes: armed, disarmed, one edge
remembered, served only while armed. `Exti` is the driver below it:
`InterruptIn::rise`, `enable_irq`, `disable_irq` and `handle_interrupt_in` of
`gpio_irq_api.c` as sequences of register accesses, with the DRDY pin rising and
falling between any two of them. The NVIC and the EXTI are external; only the
behaviour that the driver relies on is there (a flag, a mask, a latch).

### SerialLines

`acquisition_loop`, `decode_loop` and `modify_sample_properties` as two threads,
read by read. A line is what it says, whose answer it belongs to and its place in
it. It waits in the operating system's buffer, which `reset_input_buffer` empties, or
in the `TextIOWrapper`, which only a read empties; `readline` moves everything from
the first to the second. Faults, at most `MaxFaults`: an S, or a line, lost; a line
spoiled. Two timing assumptions: *Silence*, a read gives up only when the board has
nothing to say (0.5 s against at most 0.2 s of the longest command); *Noticed*,
by the time `modify_sample_properties` has written its properties (more than a
second) the other thread has seen `stop_loops` (at most one read, 0.5 s, later).
Each operation of a configuration can raise an exception, with its effect done, not
done or half done (`ConfigRaises`); the callback then ends with `stop_loops` set, and
a later configuration begins with whatever it left. An exception in the acquiring
thread is left to `HostThreads`. The numbers are the business of `Samples`, so a data line is its place in the frame.

### HostThreads

The flags `stop_loops` and `loop_running`, the parameters of the host, the selected
values, and the characters between them and the board's `control_signals`. Each
statement of `acquire_data` that tests or sets a flag is a step, and each character
that `modify_sample_properties` writes. Any number of threads of either kind run at
any times: `Select` starts a configuration whether or not another is under way.

Every operation on the port can end its callback by an exception, for an acquirer
(`LoopRaises`) and for a configurer (`ConfigRaises`); there is no `try` in the code, so
`loop_running` or `stop_loops` stays set. A write that fails was sent, not sent, or is
kept by `sio` (`unsent`), which sends it in front of the next character.
`failures` counts the exceptions, up to `MaxFailures`.

Timing assumptions: *Pacing*, as in `Session`, but per thread, so two threads can overrun
the UART; and *Prompt*, an acquirer that passed the test of the flags before
`stop_loops` was set has sent its S, and the board taken it, before `reset` is done
(0.2 s). Prompt asks nothing once another configurer has lifted `stop_loops`.

Three history variables say when `ConfigAgrees` promises something: `spoiled`, the
configuration under way had another beside it or a kept character to meet; `doubt`,
there was such a one and none came to its end undisturbed since; `failed`, one ended by
an exception and none came to its end since. So one configuration that runs to its end
alone must put everything right, whatever mixture was there before.

### Display

`freq_domain_update` and `update_properties`, a statement a step, over the globals
they share. A buffer is the settings it was acquired with; a spectrum is the
buffer it comes from and how often it was transformed. What raises an exception in
the code (no buffer, no window, arrays of different sizes) draws nothing.

## 4. Runs

Passing:

| Run | Instance | What it shows |
|---|---|---|
| `firmware_any` | buffer of 2, frames of 1, 2 acquisitions; P R F S T D L and another character in any order, also as arguments; resets at any time (320 000 states) | `PoweredOnlyToSample`, `CopyMatchesChip`, `BufferInOrder`, `HandedOverInOrder`, `SamplingEnds`, `ReadyIsCleared`, `ReadyIsSent` |
| `session_script` | buffer of 3, frames of 1 to 3, 2 rates, 3 acquisitions, 2 kinds of register read | `FrameFresh`, `RateHonoured`, `ImplementsAcquisition` with its liveness |
| `samples_edges` | all 65536 words in both directions; 9 values at the ends of the range and around zero, 2 status bytes, two buffers of two | `WrittenAsWired`, `HostRecoversWord`, `DetangleElsewhere`, `ColumnsShown`, `ValuesSurvive`, `StatusAccumulates` |
| `adcbus_jobs` | 2 rates, any sequence of calls, a break at any access | `NoContention`, `JobsAreAtomic`, `ReadsWhatWasAsked` |
| `exti_driver` | the whole of `Exti`, which has no constants | `ArmedAsAWhole`, `NoSpuriousInterrupt`, `ImplementsDataReady` with its liveness |
| `serial_lines` | frames of 1 and 2, 3 acquisitions, 2 configurations, 2 faults of any kind, an exception in any configuration | `BufferFromOneFrame`, `CleanFrameWhole`, `StatusOwnLines`, `AsksWhenQuiet`, `LoopReturns`, `StopIsLifted` |
| `host_threads` | 2 acquirers and 1 configurer, 2 rates and 2 lengths, one of each the default of the board, 2 exceptions; 1 acquirer and 2 configurers with 1 exception; the same with 2 rates, without exceptions | `ConfigAgrees`, `MayStartAgain` |
| `display_recovers` | 1 drawer, 2 rates, 2 lengths, averages of 1 and 2, 3 changes | `DisplayRecovers` |

Violations, each a disagreement between a comment or the documentation and the code:

| Run | Says | Does |
|---|---|---|
| `firmware_lost` | `docs/project definition/development.md.html`:230, after the samples are taken the controller begins sending | an acquisition that completes during `data_tx` has its flag cleared and is never sent |
| `databus_detangle` | `pins.cpp`:84, position 13 to bit 1 | shifted by `13 - 12`, to bit 12: register reads lose bit 1 |
| `threads_alone` | `pc_data.py`:260, prevent another threaded instance | the test of `loop_running` and its assignment are two steps; two callbacks read the one port |
| `display_spectrum` | `pc_data.py`:347, compute the frequency magnitude | a thread applies its window to the global array after another has transformed it and before that one stores it: what is stored was never transformed |

### Bounds

A buffer of two suffices for it to be cut by T and continued by S, for first and last
index to differ, and for a frame shorter than the buffer; `Session` takes three, so
that there is also a middle one and a frame that is neither the shortest nor the
whole. In `firmware_any`, R stands for G and V, which run the same steps. Two
acquisitions are what every interference needs (an old one and a new one); the
third in `Session` follows a read or a reset. `MaxAcq` bounds only the S characters
that the host sends; everything else in `Firmware` is finite. `serial_lines` needs a
stopped or spoiled acquisition, a configuration and an acquisition after it, twice;
with two faults the start and the stop of one frame can both be lost. Two acquirers
give the races over `loop_running`, two configurers those over `stop_loops` and the
port. All of that at once is too many states, so a behaviour of `host_threads` keeps to
one of three bounds (`MCBounds`): acquirers that meet; configurers that meet, of which
one fails; configurers that meet with different selections. The last two have a length
that is not the default, so that one that was not set shows. What falls between them
(both kinds of meetings at once, more exceptions) is left to the proof for
`ConfigAgrees`, and is not checked for `MayStartAgain`. The first change of `Display` sets the
properties, the other two change them while buffers, windows and spectra of the
last are still about. What section 5 proves does not depend on these bounds.

### Fairness

`McuFairness`: `main` is strongly fair, since D and L take the processor from it
for a while again and again; this is where a host is excluded that keeps the
receive interrupt busy for ever, which the 0.1 s after each character justify. The
converter's edges are weakly fair while it converts (`DrdyEdge`). The interrupt is
strongly fair in `CollectSample \/ CollectDone`: one edge may be missed, not all. A
pending receive interrupt is taken. `HostFairness`: who has sent D or L sends one
more character. In `Session` the host goes on with a script or an answer it has
begun, and need never begin anything.

In `Exti` a handler goes on, and the interrupt is strongly fair: the UART interrupt
shares its priority and can be taken first, but the host leaves room between its
characters. In `SerialLines` the board, the line and both threads go on; no fault
need happen and no acquisition need begin. In `HostThreads` a thread that runs goes
on and the board takes what it is sent; no callback need start, and none need end
with an exception. Fairness of a configurer is that of its regular steps, so an
exception can cut it at any place, and is never what makes it go on. In `Display` the timer's callback comes again and again, and
each thread goes on; the user need never change anything, and `MaxUpdates` is what
makes "stopped changing" true.

## 5. Proofs

| Theorem | Property | Invariant |
|---|---|---|
| `TypesCorrect` | `TypeOK` of `Firmware` | `TypeInv`: with `LineInv`, the index is inside the buffer while its line is printed even when L shortens the transmission |
| `NeverLeftOn`, `CopyNeverStale` | `PoweredOnlyToSample`, `CopyMatchesChip` | `PowerInv`: with `InReset`. In reset `power_down` has no effect, so the two hold only because the reset itself left the chip powered down with its default register |
| `BufferAlwaysInOrder`, `HandOverAlwaysInOrder` | `BufferInOrder`, `HandedOverInOrder` | `OrderInv`: with `NoneFromFuture`, no sample is of an acquisition that has not started |
| `SessionTypesCorrect`, `FramesAlwaysFresh`, `RateAlwaysHonoured` | `SessionTypeOK`, `FrameFresh`, `RateHonoured` | `SessionInv` |
| `AnswersAreAcquisitions` | the safety half of `ImplementsAcquisition` | `SessionInv` |
| `ConfigurationAgrees` | `ConfigAgrees` | `ConfigInv`: what the line holds at each step of a configuration that nothing disturbs |
| `LinesTypesCorrect` | `TypeOK` of `SerialLines` | inductive as it stands |
| `BuffersFromOneFrame`, `CleanFramesWhole`, `StatusAnswersOwn`, `AsksOnlyWhenQuiet` | `BufferFromOneFrame`, `CleanFrameWhole`, `StatusOwnLines`, `AsksWhenQuiet` | `LinesInv`: what is in the pipe, for each place of each thread |
| `AlwaysArmedAsAWhole`, `NeverSpurious` | `ArmedAsAWhole`, `NoSpuriousInterrupt` | `DriverInv` |
| `DriverIsDataReady` | the safety half of `ImplementsDataReady` | `DriverInv` |
| `BusHasOneDriver`, `JobsAreWhole`, `ReadsReturnWhatWasAsked` | `NoContention`, `JobsAreAtomic`, `ReadsWhatWasAsked` | `BusInv`: how far the running job is, and which may follow |
| `WordsWrittenAsWired`, `HostUndoesTheTangle`, `DetangleKeepsTheOthers`, `StatusColumnsShown` | `WrittenAsWired`, `HostRecoversWord`, `DetangleElsewhere`, `ColumnsShown` | `BusInv` of `SamplesProofs`: what the pins mean |
| `EveryValueSurvives`, `StatusOfOneBuffer` | `ValuesSurvive`, `StatusAccumulates` | `SamplesInv` |

Every safety property that a passing run checks is stated by one of these theorems. The
argument is the same for each: the initial states satisfy the invariant, each
action preserves it (one step per action, one lemma per group of actions), it
implies the property. TLC checked the inductive invariants on small instances first.

`FirmwareProofs` holds for every buffer size `N`, table `TxLength`, set of
characters and bound `MaxAcq`. It assumes that `N` is a positive natural and that
`TxLength` maps into `1 .. N`, both true of the code's constants (16384; 1024 to
16384). The lemmas `Write1Effects`, `Write2Effects` and `WriteOffsetEffects` say
what a register write does in reset and out of it; `PowerDownEffects` and
`ReadRegisterEffects` build on them.

`SessionProofs` builds on `FirmwareProofs`: every step of a session is a step of
`Firmware` (`SessionIsFirmware`), so `PowerInv` holds. It assumes besides that the
commands of the script and the arguments are characters, that no character is no
character, and that a spoiled line is no sample. `SessionInv` goes through the states
of the host: what is left of the script says what the board has done of it
(`ScriptInv`), and a request is taken through `Requested`, `Collecting`,
`Transmitting` and `Transmitted`, with the buffer full of samples of now up to the
index, and the frame full up to the line that is being printed. `Clearing` is the host
that collected its frame before `main` cleared the flag. Why it is needed: that a
frame is fresh depends on the index being 0 when the S is taken, and that on no
acquisition being under way, which only the host's state says. The refinement follows
from the same invariant: a request begins with the step that takes the S, the frame
that `collect_frame` finds is the last one printed, and no line of it is dropped
(`FreshIsReadable`).

`HostThreadsProofs` holds for any number of acquirers and of configurers, any selectable
values and any number of exceptions; it assumes only that the two kinds of threads are
different ones and that what is selected is an argument that the board knows. A
configuration that nothing disturbs (`Undisturbed`) is alone, finds nothing kept in
`sio`, and has `stop_loops` set from its first step to its last: so all that can be in the
UART before its P is an S (`OnlyAcquirers`), and after it only its own character
(`OnlyMine`), and the board has followed it up to the character before (`Followed`).
`ConfigInv` says that every configuration is so unless `spoiled`, that one that is
spoiled leaves `doubt`, and what agrees between two configurations (`Agreed`,
`HostSelected`). Why `doubt` and `failed` are needed: after two configurations that met,
or one that an exception cut, board and host may hold any values.
`ConfigurerGoes` and `ConfigurerEnds` say once what a step means for the *other*
configurers, so the lemma of each step is about its own thread.

`SerialLinesProofs` assumes only that the lengths are positive naturals
(`LengthsAssumption`); the number of faults, of acquisitions and of configurations is
free. It looks at the two buffers of the host and the line as one sequence (`Pipe`),
since `readline` only moves lines along it. `LoopInv` says for each place of the
acquiring thread what the pipe holds: lines of the acquisition it asked for, in
ascending order and above the one it has (`Frames`, `Above`), all of them while there
was no fault (`Whole`), and nothing at all between two acquisitions (`Drained`). That
last one is why the frames of two acquisitions never meet, and it holds only because
`modify_sample_properties` first stops the loop, then lets the board fall silent, and
empties the buffers last: this is `ConfigInv`. The length of the pipe together with
the turns already made bounds the turns still needed, so neither of the two limits
ends a search too early. An exception in a configuration leaves at most what was there
before it (`RaisesInv`): the break only cuts the pipe (`CutKeepsLoop`), no S is on its way
when the length of the board is in doubt, and `stop_loops` keeps the loop from
starting until a configuration has emptied everything.

`ExtiProofs` has no constants. `ControlInv` says for each sequence of register accesses
that can be left (`Starting`, `Stopping`, `Handling`) what the accesses before it have
done. The other half is that an interrupt pending in the NVIC still has its flag: the
flag is cleared only by the handler, and while the handler runs the NVIC does not latch
it again. Each access is then a step of `DataReady` or none, whatever the pin does.

`AdcBusProofs` holds for any set `Decimations`. `BusInv` says that the accesses left are
those of one job from its position `n` on, what `n` accesses have done to pins,
direction and chip (`At`), and that the jobs queued behind it fit (`Chain`): a sample is
read only with the bus an input and the chip at the first half. A converter in reset
ignores its pins, so there the invariant keeps only what the end of the reset relies on.
Each kind of job goes through its accesses one by one; a break leads from any position
to the same state.

`SamplesProofs` first says where each of the sixteen bits is, on the pins, in the tangled
word and in order, and derives what holds of every word (`WriteIsWired`, `WordRecovered`,
`AlmostRecovered`, `ColumnsCut`). `SampleRecovered` puts two words together into one
sample. For the numbers, `RightShifts` and `DigitsRead` are recursive functions on
`0 .. 24`; a closed form in the powers of two shows that they exist (`ShiftsUnfold`,
`DigitsUnfold`), and an induction written out to 24 that they are this closed form
(`AgreeTo24`). `SamplesInv` says what of a sample has been read at each place of
`read_data_word`, and that a decoded buffer is the one that was converted. Assumed: the
values have 24 bits, the status bytes 8, and a buffer has at least one sample.

Only model-checked: liveness (`SamplingEnds`, `ReadyIsCleared`, `ReadyIsSent`,
`LoopReturns`, `StopIsLifted`, `MayStartAgain`, `DisplayRecovers`) and the fairness of the two
refinements, which are out of the prover's reach. `Display` has no safety property of
its own; what it stores and draws is checked through `DisplayRecovers`.

## 6. Not modelled

- The time-domain graph, the statistics, the button texts and the timer's period of
  `pc_data.py`. The first two share a state: `time_domain_update` sets `rms_mag` and
  `statistics_display` shows it, on the same trigger and in another thread, so the
  number shown may be of the buffer before. Nothing that is modelled depends on it.
- A host that never sends the argument of D or L: the board waits in its receive
  interrupt for ever. `HostFairness` assumes that the argument comes, so
  `ReadyIsCleared` and `ReadyIsSent` do not speak of that case.
- An exception that ends an acquisition, in `SerialLines`: what it does to the flags and
  to the line of characters is in `HostThreads`, what it leaves in the buffers is not.
- Clock time. The 100 ms of `power_up`, the 0.1 s of `write` and the rate of DRDY appear
  as the timing assumptions of section 3 and as the choice of `DrdyMissed`.
- The serial driver of mbed OS and pySerial: what the program can see of them is in the
  definitions marked external. A line that a timeout splits in two is a spoiled line.
- mbed OS is vendored, 1.1 million lines for hundreds of boards, of which the program
  uses three drivers; it is the reason why the share of the repository's lines that
  the modules cover is so small. Of it only the interrupt driver is modelled.
- `serial monitor.py`, which forwards keys and lines and keeps no state, and the
  build settings.
- The analog part, boards, housing, simulations and documents.

## 7. Disagreements without a run of their own

Seen while the modules were written; each follows from a definition of the module
named.

- `docs/project definition/development.md.html`:228, "At power on or after receiving
  reset, the initial state is written to the ADC including the sample rate". Nothing is
  written before P and D; an S before them samples with the registers of the reset
  (`Firmware`, `start_sampling`).
- `adc.cpp`:20, "reset to start in a defined state". With the static objects of
  `adc.cpp` constructed before those of `pins.cpp` the ADC is left in reset until P
  (`Firmware`, `BootStates`).
- `adc.cpp`:41, "Write 1 to this bit". The constructor's `power_down` writes it 0, and
  so does every command before P (`Firmware`, `ControlReg2`).
- `adc.cpp`:134 and 135, the two filter columns of the status table are 0 for every
  register value, because `!(x) >> 4` negates before it shifts (`DataBus`,
  `StatusTable`).
- `adc_comms.py`:110, "signal not received correctly. retransmit the same signal". The
  line is dropped and nothing is sent again; the buffer is one sample short
  (`SerialLines`, `CollectLine`).
- `pc_data.py`:263 to 267, an exception between the two assignments leaves `loop_running`
  set, and no acquisition starts any more until another callback that was already
  running clears it (`HostThreads`, `LoopRaises`).
- `adc_comms.py`:46 to 48, `status` "will also pick out the decimation rate and update
  the sample rate"; it only returns the lines (`HostThreads`, `status`).
- `adc_comms.py`:167 to 203, an exception in any operation of a configuration leaves
  `stop_loops` set, and no acquisition starts any more until another configuration comes
  to its end. One that comes after `SetParameters` (in the R or the reading of the
  status, lines 201, 51 to 56) leaves the host with the new parameters: the same selection again is then
  taken for one that is set already, and only another one helps (`HostThreads`,
  `StatusRaises` and `AlreadySet`).
- `adc_comms.py`:66, a write that fails is not a write that did not happen: `sio` keeps the
  character and sends it in front of the next (`HostThreads`, `SendUnsent`).
- `pc_data.py`:180, "Send a control signal to the MCU to change the sample rate or number
  of samples". The host's parameters change only at the end of a configuration, so a
  second callback meanwhile (the number of averages changes, say) passes the test at 184
  and configures beside the first. It resets the board under it, characters of the two
  meet in the UART, and the board may take the L of the one as the argument of the
  other's: both end as if all were set, and the board has the default length
  (`HostThreads`, `Select` and `MustSet`).
- `pc_data.py`:342, a buffer and a window of different lengths is called a problem and
  logged; it happens after each change of the length until the next buffer has come
  (`Display`, `NoSpectrum`).
