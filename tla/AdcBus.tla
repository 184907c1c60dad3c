-------------------------------- MODULE AdcBus --------------------------------
(***************************************************************************)
(* How adc.cpp reads and writes the registers of the AD7760: one level of  *)
(* a control pin, one direction of the data bus, one word on it at a time. *)
(* A job is what Firmware takes for one step: a register write, a register *)
(* read, a data word, a level of the reset line; a call is a sequence of   *)
(* jobs.  The module checks that a job does what Firmware says it does,    *)
(* whichever jobs, and whichever break in the middle of one, came before.  *)
(*                                                                         *)
(* Nothing else uses the bus: the calls come from one interrupt at a time, *)
(* or from the constructor before main.                                    *)
(***************************************************************************)
EXTENDS Sequences

CONSTANT Decimations   \* the arguments of change_decimation_rate

VARIABLES
  pins,     \* levels, direction of the bus, and the word in its output latch
  chip,     \* the AD7760 at its pins
  jobs,     \* the jobs that the running call has yet to do
  ops,      \* the accesses that the running job has yet to do
  got,      \* what the reads of the last job found on the bus
  job,      \* the last job
  copy1, copy2,   \* control_reg_1_state, control_reg_2_state
  regs      \* the registers as Firmware has them: every job one step

busVars == <<pins, chip, jobs, ops, got, job, copy1, copy2, regs>>

\* A word on the bus: an address, or a value of Control Register 1 (decimation;
\* flag: the next read is of a register) or 2 (flag: power down).
Word(kind, value, flag) == [kind |-> kind, value |-> value, flag |-> flag]

Zero       == Word("zero", "0", FALSE)   \* also what a bus left alone keeps
Address(r) == Word("address", r, FALSE)
Reg1(d, f) == Word("reg1", d, f)
Reg2(b, f) == Word("reg2", b, f)
Offset     == Word("offset", "23F0", FALSE)

\* The registers after a reset of the AD7760.
Default1 == Reg1("default", FALSE)
Default2 == Reg2("default", TRUE)

ChipInReset ==
  [address |-> "none", cr1 |-> Default1, cr2 |-> Default2, offset |-> Zero, next |-> "MSB"]

-----------------------------------------------------------------------------
(***************************************************************************)
(* The code, as the accesses of each job and the jobs of each call.        *)
(***************************************************************************)
Pin(p, level) == <<"pin", p, level>>
Output        == <<"output">>
Input         == <<"input">>
Put(w)        == <<"put", w>>
Get           == <<"get">>

Pulse == <<Pin("cs", 0), Pin("cs", 1)>>
Fetch == <<Pin("rd", 0), Pin("cs", 0), Get, Pin("cs", 1), Pin("rd", 1)>>

\* Mutant: the bus stays an output.
write_control_register_drives(r, w) ==
  <<Output, Put(Address(r))>> \o Pulse \o <<Put(w)>> \o Pulse \o <<Put(Zero)>>

write_control_register(r, w) ==
  <<Output, Put(Address(r))>> \o Pulse \o <<Put(w)>> \o Pulse \o <<Put(Zero), Input>>

\* Mutant: the read line stays low.
read_adc_reg_rd_low(w) ==
  <<Pin("rd", 1), Pin("cs", 1), Output>> \o write_control_register("1", w) \o Pulse
    \o <<Input, Pin("rd", 0), Pin("cs", 0), Get, Pin("cs", 1)>>

read_adc_reg(w) ==
  <<Pin("rd", 1), Pin("cs", 1), Output>> \o write_control_register("1", w) \o Pulse
    \o <<Input>> \o Fetch

\* Mutant: chip select stays low between the two words.
read_data_word_one_select ==
  <<Pin("rd", 0), Pin("cs", 0), Get, Pin("rd", 1), Pin("rd", 0), Get, Pin("cs", 1),
    Pin("rd", 1)>>

read_data_word == Fetch \o Fetch

Job(name, w) == [name |-> name, word |-> w]

Accesses(j) ==
  CASE j.name = "write1" -> write_control_register("1", j.word)
    [] j.name = "write2" -> write_control_register("2", j.word)
    [] j.name = "write3" -> write_control_register("3", j.word)
    [] j.name = "read"   -> read_adc_reg(j.word)
    [] j.name = "data"   -> read_data_word
    [] j.name = "output" -> <<Output>>
    [] j.name = "idle"   -> <<Input, Pin("rd", 1), Pin("cs", 1)>>
    [] j.name = "lift"   -> <<Pin("reset", 1)>>
    [] j.name = "reset"  -> <<Pin("reset", 0)>>
    [] j.name = "open"   -> <<Input, Pin("reset", 1), Pin("cs", 1), Pin("rd", 1)>>

Simple(name) == Job(name, Zero)

power_up(c2)   == <<Job("write2", Reg2(c2, FALSE))>>
power_down(c2) == <<Job("write2", Reg2(c2, TRUE))>>

\* ADC_Class::ADC_Class, when the pins have been constructed before.
Constructor == <<Simple("open"), Simple("reset"), Simple("lift")>> \o power_down("0")

setup ==
  <<Simple("output"), Job("write2", Reg2("set", FALSE)), Job("write1", Reg1("5", FALSE)),
    Simple("idle"), Simple("lift")>> \o power_down("set")

read_register == power_up(copy2) \o <<Job("read", Reg1(copy1, TRUE))>> \o power_down(copy2)

\* The command F writes the offset register and reads it.
write_offset ==
  power_up(copy2) \o <<Job("write3", Offset)>> \o power_down(copy2) \o read_register

change_decimation_rate(d) ==
  power_up(copy2) \o <<Job("write1", Reg1(d, FALSE))>> \o power_down(copy2)

-----------------------------------------------------------------------------
(***************************************************************************)
(* The converter at its pins.                                              *)
(***************************************************************************)
InReset(p)  == p.reset = 0
ChipDrives(p) == ~InReset(p) /\ p.cs = 0 /\ p.rd = 0
OnBus(p)    == IF p.drive THEN p.word ELSE Zero

\* A rising edge of chip select with the read line high takes a word: first an
\* address (one that names no register is ignored), then the value.
Written(c, w) ==
  IF c.address = "none"
  THEN [c EXCEPT !.address = IF w.kind = "address" THEN w.value ELSE "none"]
  ELSE [c EXCEPT !.address = "none",
                 !.cr1  = IF c.address = "1" THEN w ELSE @,
                 !.cr2  = IF c.address = "2" THEN w ELSE @,
                 !.offset = IF c.address = "3" THEN w ELSE @,
                 !.next = IF c.address = "1" /\ w.flag THEN "register" ELSE @]

\* With the read line low, it ends a read.
Fetched(c) == [c EXCEPT !.next = IF @ = "MSB" THEN "LSB" ELSE "MSB"]

SetPin(p, level) ==
  /\ pins' = [pins EXCEPT ![p] = level]
  /\ chip' = IF InReset(pins') THEN ChipInReset
             ELSE IF p # "cs" \/ pins.cs = 1 \/ level = 0 THEN chip
             ELSE IF pins.rd = 1 THEN Written(chip, OnBus(pins)) ELSE Fetched(chip)

-----------------------------------------------------------------------------
ResetRegisters == [cr1 |-> Default1, cr2 |-> Default2, offset |-> Zero]

\* The static constructors of pins.cpp leave every control pin low.
PinsLow == [cs |-> 0, rd |-> 0, reset |-> 0, drive |-> FALSE, word |-> Zero]

\* The constructor of ADC_Class comes after them, or it came before them and
\* reached no pin.
\* After a break, at any time, in the middle of a register access too.
Break ==
  /\ pins' = PinsLow
  /\ chip' = ChipInReset
  /\ jobs' \in {Constructor, <<>>}
  /\ ops' = <<>>
  /\ got' = <<>>
  /\ job' = Simple("none")
  /\ copy1' = "0" /\ copy2' = "0"
  /\ regs' = ResetRegisters

Init ==
  /\ pins = PinsLow
  /\ chip = ChipInReset
  /\ jobs \in {Constructor, <<>>}
  /\ ops = <<>>
  /\ got = <<>>
  /\ job = Simple("none")
  /\ copy1 = "0" /\ copy2 = "0"
  /\ regs = ResetRegisters

Call(sequence) ==
  /\ jobs = <<>> /\ ops = <<>>
  /\ jobs' = sequence
  /\ UNCHANGED <<pins, chip, ops, got, job, regs>>

CallSetup == Call(setup) /\ copy1' = "5" /\ copy2' = "set"

CallChangeDecimation ==
  \E d \in Decimations :
    /\ Call(change_decimation_rate(d))
    /\ copy1' = d
    /\ UNCHANGED copy2

\* R, G and V; F.
CallReadRegister == Call(read_register) /\ UNCHANGED <<copy1, copy2>>

CallWriteOffset == Call(write_offset) /\ UNCHANGED <<copy1, copy2>>

\* start_sampling and stop_sampling.
CallPower ==
  /\ \/ Call(power_up(copy2))
     \/ Call(power_down(copy2))
  /\ UNCHANGED <<copy1, copy2>>

\* collect_samples reads a word; a new one has its first half next.
CallDataWord ==
  /\ jobs = <<>> /\ ops = <<>>
  /\ jobs' = <<Simple("data")>>
  /\ chip' = IF chip.next = "LSB" THEN [chip EXCEPT !.next = "MSB"] ELSE chip
  /\ UNCHANGED <<pins, ops, got, job, copy1, copy2, regs>>

\* The effect of a job as Firmware has it: on an ADC in reset there is none.
Registers(r, j) ==
  IF InReset(pins) THEN ResetRegisters
  ELSE [cr1 |-> IF j.name \in {"write1", "read"} THEN j.word ELSE r.cr1,
        cr2 |-> IF j.name = "write2" THEN j.word ELSE r.cr2,
        offset |-> IF j.name = "write3" THEN j.word ELSE r.offset]

StartJob ==
  /\ ops = <<>> /\ jobs # <<>>
  /\ ops' = Accesses(Head(jobs))
  /\ job' = Head(jobs)
  /\ jobs' = Tail(jobs)
  /\ got' = <<>>
  /\ regs' = Registers(regs, Head(jobs))
  /\ UNCHANGED <<pins, chip, copy1, copy2>>

Access ==
  /\ ops # <<>>
  /\ ops' = Tail(ops)
  /\ LET op == Head(ops)
     IN  \/ op[1] = "pin" /\ SetPin(op[2], op[3]) /\ UNCHANGED got
         \/ op[1] = "output" /\ pins' = [pins EXCEPT !.drive = TRUE] /\ UNCHANGED <<chip, got>>
         \/ op[1] = "input" /\ pins' = [pins EXCEPT !.drive = FALSE] /\ UNCHANGED <<chip, got>>
         \/ op[1] = "put" /\ pins' = [pins EXCEPT !.word = op[2]] /\ UNCHANGED <<chip, got>>
         \/ /\ op[1] = "get"
            /\ got' = Append(got, IF ChipDrives(pins) THEN chip.next ELSE "nothing")
            /\ UNCHANGED <<pins, chip>>
  /\ UNCHANGED <<jobs, job, copy1, copy2, regs>>

Next ==
  \/ Break \/ CallSetup \/ CallChangeDecimation \/ CallReadRegister \/ CallWriteOffset
  \/ CallPower \/ CallDataWord \/ StartJob \/ Access

Spec == Init /\ [][Next]_busVars

-----------------------------------------------------------------------------
\* The microcontroller and the converter never drive the bus at once, whatever
\* job the last one was left by and wherever a break cut it off.
NoContention == ~(pins.drive /\ ChipDrives(pins))

\* A job, whole, is the one step that Firmware takes for it: the registers of
\* the chip are what Firmware says, and no half of an access is left over.
JobsAreAtomic ==
  ops = <<>> =>
    /\ \A r \in {"cr1", "cr2", "offset"} : chip[r] = regs[r]
    /\ chip.address = "none"

\* A read returns what was asked for: the register, or the two halves of the
\* word in their order, and never a register where a sample is due.
ReadsWhatWasAsked ==
  ops = <<>> /\ pins.reset = 1 =>
    /\ job.name = "read" => got = <<"register">>
    /\ job.name = "data" => got = <<"MSB", "LSB">>
=============================================================================
