------------------------------ MODULE AdcBusProofs ------------------------------
(***************************************************************************)
(* Proofs about AdcBus: a job is one step of Firmware, a read returns what *)
(* it asked for, and the bus has one driver at a time, for every set of    *)
(* decimations and after any sequence of calls and breaks.                 *)
(***************************************************************************)
EXTENDS AdcBus, SequenceTheorems, TLAPS

-----------------------------------------------------------------------------
(***************************************************************************)
(* The inductive invariant: where the running job is, and which jobs may   *)
(* follow it.                                                              *)
(***************************************************************************)
Texts == {"0", "1", "2", "3", "5", "set", "default", "23F0"} \cup Decimations
Words == [kind : {"zero", "address", "reg1", "reg2", "offset"}, value : Texts, flag : BOOLEAN]

Pins == [cs : {0, 1}, rd : {0, 1}, reset : {0, 1}, drive : BOOLEAN, word : Words]
Fields == {"cr1", "cr2", "offset"}
Chips == [address : Texts \cup {"none"}, cr1 : Words, cr2 : Words, offset : Words,
          next : {"MSB", "LSB", "register"}]
RegisterSets == [cr1 : Words, cr2 : Words, offset : Words]

Writes   == {"write1", "write2", "write3"}
JobNames == Writes \cup {"read", "data", "output", "idle", "lift", "reset", "open"}
Jobs     == { j \in [name : JobNames, word : Words] :
                /\ j.name = "write1" => ~j.word.flag
                /\ j.name = "read" => j.word.flag }

TypeInv ==
  /\ pins \in Pins /\ chip \in Chips /\ regs \in RegisterSets
  /\ copy1 \in Texts /\ copy2 \in Texts
  /\ jobs \in Seq(Jobs)
  /\ job \in Jobs \cup {Simple("none")}

\* Which job may follow which in a call.
Fits(j, k) ==
  /\ k.name \notin {"data", "open", "output"}
  /\ k.name = "lift" => j.name \in {"idle", "reset"}
  /\ k.name = "reset" => j.name = "open"

Chain(s) ==
  /\ \A k \in 1 .. Len(s) - 1 : Fits(s[k], s[k + 1])
  /\ s # <<>> => s[Len(s)].name # "output"

\* The register that a job writes, and the address of it.
Target(j) ==
  IF j.name \in {"write1", "read"} THEN "cr1" ELSE IF j.name = "write2" THEN "cr2" ELSE "offset"
Number(j) == IF Target(j) = "cr1" THEN "1" ELSE IF Target(j) = "cr2" THEN "2" ELSE "3"

Agree(f)     == chip[f] = regs[f]
Halves       == {"MSB", "LSB"}
Selects(s, n) == pins.cs = IF n \in s THEN 0 ELSE 1
Reads(s, n)   == pins.rd = IF n \in s THEN 0 ELSE 1

\* Out of reset, n accesses of write_control_register after the start.
InWrite(n) ==
  /\ Selects({3, 6}, n) /\ pins.rd = 1
  /\ n \in 1 .. 8 => pins.drive
  /\ n \in 2 .. 4 => pins.word = Address(Number(job))
  /\ n \in 5 .. 7 => pins.word = job.word
  /\ chip.address = IF n \in 4 .. 6 THEN Number(job) ELSE "none"
  /\ \A f \in Fields : f # Target(job) \/ n > 6 => Agree(f)
  /\ regs[Target(job)] = job.word

InRead(n) ==
  /\ n < 3 => InWrite(0)
  /\ n \in 3 .. 12 => InWrite(n - 3)
  /\ n > 12 => /\ Selects({13, 17, 18}, n) /\ Reads(16 .. 19, n)
               /\ chip.address = "none"
               /\ \A f \in Fields : Agree(f)
  /\ chip.next \in IF n < 10 THEN Halves ELSE IF n < 19 THEN {"register"} ELSE Halves
  /\ got = IF n < 18 THEN <<>> ELSE <<"register">>

InData(n) ==
  /\ Selects({2, 3, 7, 8}, n) /\ Reads((1 .. 4) \cup (6 .. 9), n)
  /\ chip.address = "none"
  /\ \A f \in Fields : Agree(f)
  /\ chip.next = IF n \in 4 .. 8 THEN "LSB" ELSE "MSB"
  /\ got = IF n < 3 THEN <<>> ELSE IF n < 8 THEN <<"MSB">> ELSE <<"MSB", "LSB">>

Settled ==
  /\ pins.cs = 1 /\ pins.rd = 1
  /\ chip.address = "none" /\ chip.next \in Halves
  /\ \A f \in Fields : Agree(f)

\* What n accesses of the running job have done: to the direction of the bus,
\* to the pins before a reset or its end, and to a converter that is not in reset.
DriveAt(n) ==
  pins.drive => \/ job.name \in Writes /\ n < 9
                \/ job.name = "read" /\ n < 12
                \/ job.name = "output"
                \/ job.name = "idle" /\ n = 0
                \/ job.name = "open" /\ n = 0

PinsAt(n) ==
  /\ job.name = "idle" => (n > 1 => pins.rd = 1) /\ (n > 2 => pins.cs = 1)
  /\ job.name \in {"lift", "reset"} => pins.cs = 1 /\ pins.rd = 1
  /\ job.name = "open" =>
       /\ pins.reset = IF n < 2 THEN 0 ELSE 1
       /\ pins.cs = IF n < 3 THEN 0 ELSE 1
       /\ pins.rd = IF n < 4 THEN 0 ELSE 1
  /\ job.name \in {"open", "reset"} => regs = ResetRegisters

ChipAt(n) ==
  /\ job.name \in Writes => InWrite(n) /\ chip.next \in Halves
  /\ job.name = "read" => InRead(n)
  /\ job.name = "data" => InData(n)
  /\ job.name \in {"output", "idle", "lift", "reset"} => Settled
  /\ job.name = "open" => /\ chip.address = "none" /\ chip.next \in Halves
                          /\ \A f \in Fields : Agree(f)

At(n) ==
  /\ DriveAt(n)
  /\ PinsAt(n)
  /\ pins.reset = 0 => chip = ChipInReset /\ regs = ResetRegisters
  /\ pins.reset = 1 => ChipAt(n)

\* What a job needs when it starts.
CanStart(j) ==
  /\ j.name = "data" => ~pins.drive /\ (pins.reset = 1 => chip.next = "MSB")
  /\ j.name \in {"lift", "reset"} => pins.cs = 1 /\ pins.rd = 1 /\ ~pins.drive
  /\ j.name = "reset" => regs = ResetRegisters
  /\ j.name = "open" => pins = PinsLow /\ regs = ResetRegisters

\* The running job, n accesses on, and the job that the call has next.
Length(j)  == Len(Accesses(j))
Rest(j, n) == SubSeq(Accesses(j), n + 1, Length(j))
Follows(j, s) == IF s = <<>> THEN j.name # "output" ELSE Fits(j, s[1])

Running ==
  /\ job \in Jobs
  /\ \E n \in 0 .. Length(job) - 1 : ops = Rest(job, n) /\ At(n)
  /\ Follows(job, jobs)

Between ==
  /\ ops = <<>>
  /\ pins.reset = 0 => chip = ChipInReset /\ regs = ResetRegisters
  /\ pins.reset = 1 => Settled
  /\ IF jobs = <<>> THEN ~pins.drive ELSE CanStart(jobs[1])
  /\ pins.reset = 1 /\ job.name = "read" => got = <<"register">>
  /\ pins.reset = 1 /\ job.name = "data" => got = <<"MSB", "LSB">>

BusInv == TypeInv /\ Chain(jobs) /\ (Running \/ Between)

-----------------------------------------------------------------------------
(***************************************************************************)
(* The accesses of each job, one by one.                                   *)
(***************************************************************************)
AccessSet ==
  {Output, Input, Get} \cup { Pin(p, level) : p \in {"cs", "rd", "reset"}, level \in {0, 1} }
    \cup { Put(w) : w \in Words }

LEMMA AccessesKnown ==
  /\ Output \in AccessSet /\ Input \in AccessSet /\ Get \in AccessSet
  /\ \A level \in {0, 1} : /\ Pin("cs", level) \in AccessSet
                           /\ Pin("rd", level) \in AccessSet
                           /\ Pin("reset", level) \in AccessSet
  /\ \A w \in Words : Put(w) \in AccessSet
BY DEF AccessSet

LEMMA WordsKnown ==
  /\ Zero \in Words /\ Address("1") \in Words /\ Address("2") \in Words
  /\ Address("3") \in Words /\ Offset \in Words
  /\ \A v \in Texts, f \in BOOLEAN : Reg1(v, f) \in Words /\ Reg2(v, f) \in Words
BY DEF Zero, Address, Offset, Reg1, Reg2, Word, Words, Texts

Joins(c, a, b) == c = a \o b
LEMMA Joined ==
  ASSUME NEW S, NEW a \in Seq(S), NEW b \in Seq(S), NEW c, Joins(c, a, b)
  PROVE  /\ c \in Seq(S) /\ Len(c) = Len(a) + Len(b)
         /\ \A i \in 1 .. Len(a) : c[i] = a[i]
         /\ \A i \in 1 .. Len(b) : c[Len(a) + i] = b[i]
<1>1. /\ c \in Seq(S) /\ Len(c) = Len(a) + Len(b)
      /\ \A i \in 1 .. Len(a) + Len(b) : c[i] = IF i <= Len(a) THEN a[i] ELSE b[i - Len(a)]
  BY ConcatProperties DEF Joins
<1>0. Len(a) \in Nat /\ Len(b) \in Nat
  BY LenProperties
<1>2. \A i \in 1 .. Len(a) : c[i] = a[i]
  BY <1>1, <1>0
<1>3. \A i \in 1 .. Len(b) : c[Len(a) + i] = b[i]
  <2>1. SUFFICES ASSUME NEW i \in 1 .. Len(b) PROVE c[Len(a) + i] = b[i]
    OBVIOUS
  <2>2. Len(a) + i \in 1 .. Len(a) + Len(b) /\ ~(Len(a) + i <= Len(a)) /\ (Len(a) + i) - Len(a) = i
    BY <1>0
  <2> QED  BY <1>1, <2>2
<1> QED  BY <1>1, <1>2, <1>3

LEMMA WriteIsTyped ==
  ASSUME NEW r \in {"1", "2", "3"}, NEW w \in Words
  PROVE  LET s == write_control_register(r, w)
         IN  /\ s \in Seq(AccessSet) /\ Len(s) = 9
             /\ s[1] = Output /\ s[2] = Put(Address(r)) /\ s[3] = Pin("cs", 0)
             /\ s[4] = Pin("cs", 1) /\ s[5] = Put(w) /\ s[6] = Pin("cs", 0)
             /\ s[7] = Pin("cs", 1) /\ s[8] = Put(Zero) /\ s[9] = Input
<1>. DEFINE s == write_control_register(r, w)
<1>1. /\ Put(Address(r)) \in AccessSet /\ Put(w) \in AccessSet /\ Put(Zero) \in AccessSet
      /\ Pin("cs", 0) \in AccessSet /\ Pin("cs", 1) \in AccessSet
      /\ Output \in AccessSet /\ Input \in AccessSet
  BY AccessesKnown, WordsKnown
<1>2. s \in Seq(AccessSet) /\ Len(s) = 9
  BY <1>1 DEF write_control_register, Pulse
<1>3. /\ s[1] = Output /\ s[2] = Put(Address(r)) /\ s[3] = Pin("cs", 0)
      /\ s[4] = Pin("cs", 1) /\ s[5] = Put(w) /\ s[6] = Pin("cs", 0)
      /\ s[7] = Pin("cs", 1) /\ s[8] = Put(Zero) /\ s[9] = Input
  BY <1>1 DEF write_control_register, Pulse
<1> QED  BY <1>2, <1>3

LEMMA ReadIsTyped ==
  ASSUME NEW w \in Words
  PROVE  LET s == read_adc_reg(w)
         IN  /\ s \in Seq(AccessSet) /\ Len(s) = 20
             /\ s[1] = Pin("rd", 1) /\ s[2] = Pin("cs", 1) /\ s[3] = Output
             /\ \A n \in 1 .. 9 : s[3 + n] = write_control_register("1", w)[n]
             /\ s[13] = Pin("cs", 0) /\ s[14] = Pin("cs", 1) /\ s[15] = Input
             /\ s[16] = Pin("rd", 0) /\ s[17] = Pin("cs", 0) /\ s[18] = Get
             /\ s[19] = Pin("cs", 1) /\ s[20] = Pin("rd", 1)
<1>. DEFINE write == write_control_register("1", w)
            before == <<Pin("rd", 1), Pin("cs", 1), Output>>
            turn == <<Input>>
<1>1. write \in Seq(AccessSet) /\ Len(write) = 9
  BY WriteIsTyped
<1>. HIDE DEF write
<1>2. Output \in AccessSet /\ Input \in AccessSet /\ Get \in AccessSet
      /\ Pin("cs", 0) \in AccessSet /\ Pin("cs", 1) \in AccessSet
      /\ Pin("rd", 0) \in AccessSet /\ Pin("rd", 1) \in AccessSet
  BY AccessesKnown
<1>3. read_adc_reg(w) = before \o write \o Pulse \o turn \o Fetch
  BY DEF read_adc_reg, write
<1>4. /\ Pulse \in Seq(AccessSet) /\ Len(Pulse) = 2
      /\ Fetch \in Seq(AccessSet) /\ Len(Fetch) = 5
      /\ turn \in Seq(AccessSet) /\ Len(turn) = 1
      /\ before \in Seq(AccessSet) /\ Len(before) = 3
  BY <1>2 DEF Pulse, Fetch
<1>5. /\ Pulse[1] = Pin("cs", 0) /\ Pulse[2] = Pin("cs", 1) /\ turn[1] = Input
      /\ before[1] = Pin("rd", 1) /\ before[2] = Pin("cs", 1) /\ before[3] = Output
      /\ Fetch[1] = Pin("rd", 0) /\ Fetch[2] = Pin("cs", 0) /\ Fetch[3] = Get
      /\ Fetch[4] = Pin("cs", 1) /\ Fetch[5] = Pin("rd", 1)
  BY DEF Pulse, Fetch
<1>. DEFINE t == before \o write
            u == t \o Pulse
            v == u \o turn
            z == v \o Fetch
<1>. HIDE DEF before, turn
<1>t. t = before \o write /\ u = t \o Pulse /\ v = u \o turn /\ z = v \o Fetch
  OBVIOUS
<1>j. Joins(t, before, write) /\ Joins(u, t, Pulse) /\ Joins(v, u, turn) /\ Joins(z, v, Fetch)
  BY <1>t DEF Joins
<1>. HIDE DEF t, u, v, z
<1>6. /\ t \in Seq(AccessSet) /\ Len(t) = 12
      /\ \A i \in 1 .. 3 : t[i] = before[i]
      /\ \A i \in 1 .. 9 : t[3 + i] = write[i]
  <2>1. before \in Seq(AccessSet) /\ write \in Seq(AccessSet)
    BY <1>1, <1>4
  <2>2. /\ t \in Seq(AccessSet) /\ Len(t) = Len(before) + Len(write)
        /\ \A i \in 1 .. Len(before) : t[i] = before[i]
        /\ \A i \in 1 .. Len(write) : t[Len(before) + i] = write[i]
    BY <2>1, <1>j, Joined
  <2>3. Len(before) = 3 /\ Len(write) = 9
    BY <1>1, <1>4
  <2> QED  BY <2>2, <2>3
<1>7. /\ u \in Seq(AccessSet) /\ Len(u) = 14
      /\ \A i \in 1 .. 12 : u[i] = t[i]
      /\ \A i \in 1 .. 2 : u[12 + i] = Pulse[i]
  <2>1. t \in Seq(AccessSet) /\ Pulse \in Seq(AccessSet)
    BY <1>6, <1>4
  <2>2. /\ u \in Seq(AccessSet) /\ Len(u) = Len(t) + Len(Pulse)
        /\ \A i \in 1 .. Len(t) : u[i] = t[i]
        /\ \A i \in 1 .. Len(Pulse) : u[Len(t) + i] = Pulse[i]
    BY <2>1, <1>j, Joined
  <2>3. Len(t) = 12 /\ Len(Pulse) = 2
    BY <1>6, <1>4
  <2> QED  BY <2>2, <2>3
<1>8. /\ v \in Seq(AccessSet) /\ Len(v) = 15
      /\ \A i \in 1 .. 14 : v[i] = u[i]
      /\ \A i \in 1 .. 1 : v[14 + i] = turn[i]
  <2>1. u \in Seq(AccessSet) /\ turn \in Seq(AccessSet)
    BY <1>7, <1>4
  <2>2. /\ v \in Seq(AccessSet) /\ Len(v) = Len(u) + Len(turn)
        /\ \A i \in 1 .. Len(u) : v[i] = u[i]
        /\ \A i \in 1 .. Len(turn) : v[Len(u) + i] = turn[i]
    BY <2>1, <1>j, Joined
  <2>3. Len(u) = 14 /\ Len(turn) = 1
    BY <1>7, <1>4
  <2> QED  BY <2>2, <2>3
<1>9. /\ z \in Seq(AccessSet) /\ Len(z) = 20
      /\ \A i \in 1 .. 15 : z[i] = v[i]
      /\ \A i \in 1 .. 5 : z[15 + i] = Fetch[i]
  <2>1. v \in Seq(AccessSet) /\ Fetch \in Seq(AccessSet)
    BY <1>8, <1>4
  <2>2. /\ z \in Seq(AccessSet) /\ Len(z) = Len(v) + Len(Fetch)
        /\ \A i \in 1 .. Len(v) : z[i] = v[i]
        /\ \A i \in 1 .. Len(Fetch) : z[Len(v) + i] = Fetch[i]
    BY <2>1, <1>j, Joined
  <2>3. Len(v) = 15 /\ Len(Fetch) = 5
    BY <1>8, <1>4
  <2> QED  BY <2>2, <2>3
<1>10. read_adc_reg(w) = z
  BY <1>3, <1>t
<1>11. \A i \in 1 .. 12 : z[i] = t[i]
  <2>1. SUFFICES ASSUME NEW i \in 1 .. 12 PROVE z[i] = t[i]
    OBVIOUS
  <2>2. i \in 1 .. 12 /\ i \in 1 .. 14 /\ i \in 1 .. 15
    OBVIOUS
  <2>3. u[i] = t[i]
    BY <2>2, <1>7
  <2>4. v[i] = u[i]
    BY <2>2, <1>8
  <2>5. z[i] = v[i]
    BY <2>2, <1>9
  <2> QED  BY <2>3, <2>4, <2>5
<1>12. /\ z[13] = Pin("cs", 0) /\ z[14] = Pin("cs", 1) /\ z[15] = Input
  <2>1. 12 + 1 = 13 /\ 12 + 2 = 14 /\ 14 + 1 = 15
    OBVIOUS
  <2>2. u[13] = Pulse[1] /\ u[14] = Pulse[2] /\ v[15] = turn[1]
    BY <2>1, <1>7, <1>8
  <2> QED  BY <2>2, <1>5, <1>8, <1>9
<1>13. z[1] = before[1] /\ z[2] = before[2] /\ z[3] = before[3]
  BY <1>6, <1>11
<1>14. \A n \in 1 .. 9 : z[3 + n] = write[n]
  <2>1. SUFFICES ASSUME NEW n \in 1 .. 9 PROVE z[3 + n] = write[n]
    OBVIOUS
  <2>2. 3 + n \in 1 .. 12
    OBVIOUS
  <2> QED  BY <2>2, <1>6, <1>11
<1>15. /\ z[16] = Fetch[1] /\ z[17] = Fetch[2] /\ z[18] = Fetch[3]
       /\ z[19] = Fetch[4] /\ z[20] = Fetch[5]
  <2>1. /\ 15 + 1 = 16 /\ 15 + 2 = 17 /\ 15 + 3 = 18 /\ 15 + 4 = 19 /\ 15 + 5 = 20
    OBVIOUS
  <2> QED  BY <1>9, <2>1
<1> QED  BY <1>5, <1>9, <1>10, <1>12, <1>13, <1>14, <1>15 DEF write

LEMMA DataIsTyped ==
  LET s == read_data_word
  IN  /\ s \in Seq(AccessSet) /\ Len(s) = 10
      /\ s[1] = Pin("rd", 0) /\ s[2] = Pin("cs", 0) /\ s[3] = Get
      /\ s[4] = Pin("cs", 1) /\ s[5] = Pin("rd", 1)
      /\ s[6] = Pin("rd", 0) /\ s[7] = Pin("cs", 0) /\ s[8] = Get
      /\ s[9] = Pin("cs", 1) /\ s[10] = Pin("rd", 1)
<1>1. /\ Pin("cs", 0) \in AccessSet /\ Pin("cs", 1) \in AccessSet
      /\ Pin("rd", 0) \in AccessSet /\ Pin("rd", 1) \in AccessSet /\ Get \in AccessSet
  BY AccessesKnown
<1> QED  BY <1>1 DEF read_data_word, Fetch

LEMMA AccessesByName ==
  ASSUME NEW j \in Jobs
  PROVE  /\ j.name \in Writes => Accesses(j) = write_control_register(Number(j), j.word)
         /\ j.name = "read" => Accesses(j) = read_adc_reg(j.word)
         /\ j.name = "data" => Accesses(j) = read_data_word
         /\ j.name = "output" => Accesses(j) = <<Output>>
         /\ j.name = "idle" => Accesses(j) = <<Input, Pin("rd", 1), Pin("cs", 1)>>
         /\ j.name = "lift" => Accesses(j) = <<Pin("reset", 1)>>
         /\ j.name = "reset" => Accesses(j) = <<Pin("reset", 0)>>
         /\ j.name = "open" =>
              Accesses(j) = <<Input, Pin("reset", 1), Pin("cs", 1), Pin("rd", 1)>>
<1>1. /\ j.name = "write1" => Accesses(j) = write_control_register("1", j.word)
      /\ j.name = "write2" => Accesses(j) = write_control_register("2", j.word)
      /\ j.name = "write3" => Accesses(j) = write_control_register("3", j.word)
  BY DEF Accesses
<1>2. /\ j.name = "write1" => Number(j) = "1"
      /\ j.name = "write2" => Number(j) = "2"
      /\ j.name = "write3" => Number(j) = "3"
  BY DEF Number, Target
<1>3. j.name \in Writes => Accesses(j) = write_control_register(Number(j), j.word)
  BY <1>1, <1>2 DEF Writes
<1>4. /\ j.name = "read" => Accesses(j) = read_adc_reg(j.word)
      /\ j.name = "data" => Accesses(j) = read_data_word
  BY DEF Accesses
<1>5. /\ j.name = "output" => Accesses(j) = <<Output>>
      /\ j.name = "idle" => Accesses(j) = <<Input, Pin("rd", 1), Pin("cs", 1)>>
      /\ j.name = "lift" => Accesses(j) = <<Pin("reset", 1)>>
      /\ j.name = "reset" => Accesses(j) = <<Pin("reset", 0)>>
      /\ j.name = "open" =>
           Accesses(j) = <<Input, Pin("reset", 1), Pin("cs", 1), Pin("rd", 1)>>
  BY DEF Accesses
<1> QED  BY <1>3, <1>4, <1>5

LEMMA JobsTyped ==
  ASSUME NEW j \in Jobs
  PROVE  /\ j.name \in JobNames /\ j.word \in Words
         /\ Number(j) \in {"1", "2", "3"} /\ Target(j) \in Fields
         /\ Address(Number(j)) \in Words
<1>1. j.name \in JobNames /\ j.word \in Words
  BY DEF Jobs
<1>2. Number(j) \in {"1", "2", "3"} /\ Target(j) \in Fields
  BY DEF Number, Target, Fields
<1> QED  BY <1>1, <1>2, WordsKnown

\* The n-th access of a job whose accesses are typed.
LEMMA AccessesTyped ==
  ASSUME NEW j \in Jobs
  PROVE  /\ Accesses(j) \in Seq(AccessSet)
         /\ j.name \in Writes => Len(Accesses(j)) = 9
         /\ j.name = "read" => Len(Accesses(j)) = 20
         /\ j.name = "data" => Len(Accesses(j)) = 10
         /\ j.name = "idle" => Len(Accesses(j)) = 3
         /\ j.name = "open" => Len(Accesses(j)) = 4
         /\ j.name \in {"output", "lift", "reset"} => Len(Accesses(j)) = 1
<1>1. j.name \in JobNames /\ j.word \in Words /\ Number(j) \in {"1", "2", "3"}
  BY JobsTyped
<1>2. CASE j.name \in Writes
  <2>1. Accesses(j) \in Seq(AccessSet) /\ Len(Accesses(j)) = 9
    BY <1>1, <1>2, AccessesByName, WriteIsTyped
  <2> QED  BY <1>2, <2>1 DEF Writes
<1>3. CASE j.name = "read"
  <2>1. Accesses(j) \in Seq(AccessSet) /\ Len(Accesses(j)) = 20
    BY <1>1, <1>3, AccessesByName, ReadIsTyped
  <2> QED  BY <1>3, <2>1 DEF Writes
<1>4. CASE j.name = "data"
  <2>1. Accesses(j) \in Seq(AccessSet) /\ Len(Accesses(j)) = 10
    BY <1>4, AccessesByName, DataIsTyped
  <2> QED  BY <1>4, <2>1 DEF Writes
<1>5. CASE j.name \in {"output", "idle", "lift", "reset", "open"}
  <2>1. /\ Output \in AccessSet /\ Input \in AccessSet
        /\ Pin("cs", 1) \in AccessSet /\ Pin("rd", 1) \in AccessSet
        /\ Pin("reset", 0) \in AccessSet /\ Pin("reset", 1) \in AccessSet
    BY AccessesKnown
  <2>2. /\ <<Output>> \in Seq(AccessSet)
        /\ <<Input, Pin("rd", 1), Pin("cs", 1)>> \in Seq(AccessSet)
        /\ <<Pin("reset", 1)>> \in Seq(AccessSet) /\ <<Pin("reset", 0)>> \in Seq(AccessSet)
        /\ <<Input, Pin("reset", 1), Pin("cs", 1), Pin("rd", 1)>> \in Seq(AccessSet)
    BY <2>1
  <2>3. Accesses(j) \in Seq(AccessSet)
    BY <1>5, <2>2, AccessesByName
  <2>4. /\ j.name = "idle" => Len(Accesses(j)) = 3
        /\ j.name = "open" => Len(Accesses(j)) = 4
        /\ j.name \in {"output", "lift", "reset"} => Len(Accesses(j)) = 1
    BY AccessesByName
  <2> QED  BY <1>5, <2>3, <2>4 DEF Writes
<1> QED  BY <1>1, <1>2, <1>3, <1>4, <1>5 DEF JobNames

LEMMA LengthsPositive ==
  ASSUME NEW j \in Jobs
  PROVE  Length(j) \in Nat /\ Length(j) > 0
<1>1. j.name \in Writes \cup {"read", "data", "output", "idle", "lift", "reset", "open"}
  BY JobsTyped DEF JobNames
<1>2. /\ j.name \in Writes => Length(j) = 9
      /\ j.name = "read" => Length(j) = 20
      /\ j.name = "data" => Length(j) = 10
      /\ j.name = "idle" => Length(j) = 3
      /\ j.name = "open" => Length(j) = 4
      /\ j.name \in {"output", "lift", "reset"} => Length(j) = 1
  BY AccessesTyped DEF Length
<1> QED  BY <1>1, <1>2

LEMMA RestGoes ==
  ASSUME NEW j \in Jobs
  PROVE  /\ Rest(j, 0) = Accesses(j) /\ Rest(j, Length(j)) = <<>>
         /\ \A n \in 0 .. Length(j) - 1 :
              /\ Rest(j, n) # <<>>
              /\ Head(Rest(j, n)) = Accesses(j)[n + 1]
              /\ Tail(Rest(j, n)) = Rest(j, n + 1)
<1>. DEFINE s == Accesses(j)
<1>1. s \in Seq(AccessSet) /\ Len(s) \in Nat
  BY AccessesTyped, LenProperties
<1>. HIDE DEF s
<1>2. SubSeq(s, 0 + 1, Len(s)) = s
  BY <1>1, SubSeqFull
<1>3. SubSeq(s, Len(s) + 1, Len(s)) = <<>>
  BY <1>1, SubSeqEmpty
<1>4. ASSUME NEW n \in 0 .. Len(s) - 1
      PROVE  /\ SubSeq(s, n + 1, Len(s)) # <<>>
             /\ Head(SubSeq(s, n + 1, Len(s))) = s[n + 1]
             /\ Tail(SubSeq(s, n + 1, Len(s))) = SubSeq(s, (n + 1) + 1, Len(s))
  <2>1. n + 1 \in 1 .. Len(s) /\ Len(s) \in (n + 1) .. Len(s) /\ n + 1 \in Int /\ Len(s) \in Int
        /\ n + 1 <= Len(s)
    BY <1>1
  <2>2. /\ Head(SubSeq(s, n + 1, Len(s))) = s[n + 1]
        /\ Tail(SubSeq(s, n + 1, Len(s))) = SubSeq(s, (n + 1) + 1, Len(s))
    BY <1>1, <2>1, HeadTailOfSubSeq
  <2>3. \A i \in n + 1 .. Len(s) : s[i] \in AccessSet
    <3>1. \A i \in 1 .. Len(s) : s[i] \in AccessSet
      BY <1>1, ElementOfSeq
    <3> QED  BY <2>1, <3>1
  <2>. DEFINE from == n + 1
              to == Len(s)
              q == SubSeq(s, from, to)
  <2>4. from \in Int /\ to \in Int /\ from <= to
    BY <2>1
  <2>5. \A i \in from .. to : s[i] \in AccessSet
    BY <2>3
  <2>. HIDE DEF from, to
  <2>6. q \in Seq(AccessSet) /\ Len(q) = IF from <= to THEN to - from + 1 ELSE 0
    BY <2>4, <2>5, SubSeqProperties
  <2>. HIDE DEF q
  <2>7. Len(q) # 0
    BY <2>4, <2>6
  <2>8. q # <<>>
    BY <2>6, <2>7
  <2> QED  BY <2>2, <2>8 DEF q, from, to
<1> QED  BY <1>2, <1>3, <1>4 DEF Rest, Length, s

-----------------------------------------------------------------------------
(***************************************************************************)
(* What one access does.                                                   *)
(***************************************************************************)
LevelsSame == pins'.cs = pins.cs /\ pins'.rd = pins.rd /\ pins'.reset = pins.reset
DriveSame  == (pins'.drive => pins.drive) /\ (pins.drive => pins'.drive)

LEMMA PinsTyped ==
  ASSUME pins \in Pins
  PROVE  /\ pins.cs \in {0, 1} /\ pins.rd \in {0, 1} /\ pins.reset \in {0, 1}
         /\ pins.drive \in BOOLEAN /\ pins.word \in Words
BY DEF Pins

LEMMA OutputDoes ==
  ASSUME pins \in Pins, Access, Head(ops) = Output
  PROVE  /\ pins' \in Pins /\ LevelsSame /\ pins'.drive /\ pins'.word = pins.word
         /\ chip' = chip /\ got' = got
<1>1. pins' = [pins EXCEPT !.drive = TRUE] /\ chip' = chip /\ got' = got
  BY DEF Access, Output
<1> QED  BY <1>1 DEF Pins, LevelsSame

LEMMA InputDoes ==
  ASSUME pins \in Pins, Access, Head(ops) = Input
  PROVE  /\ pins' \in Pins /\ LevelsSame /\ ~pins'.drive /\ pins'.word = pins.word
         /\ chip' = chip /\ got' = got
<1>1. pins' = [pins EXCEPT !.drive = FALSE] /\ chip' = chip /\ got' = got
  BY DEF Access, Input
<1> QED  BY <1>1 DEF Pins, LevelsSame

LEMMA PutDoes ==
  ASSUME pins \in Pins, Access, NEW w \in Words, Head(ops) = Put(w)
  PROVE  /\ pins' \in Pins /\ LevelsSame /\ DriveSame /\ pins'.word = w
         /\ chip' = chip /\ got' = got
<1>1. pins' = [pins EXCEPT !.word = w] /\ chip' = chip /\ got' = got
  BY DEF Access, Put
<1>2. pins' \in Pins /\ LevelsSame /\ pins'.word = w
  BY <1>1 DEF Pins, LevelsSame
<1>3. DriveSame
  BY <1>1 DEF Pins, DriveSame
<1> QED  BY <1>1, <1>2, <1>3

LEMMA GetDoes ==
  ASSUME pins \in Pins, Access, Head(ops) = Get
  PROVE  /\ pins' = pins /\ chip' = chip
         /\ got' = Append(got, IF ChipDrives(pins) THEN chip.next ELSE "nothing")
BY DEF Access, Get

LEMMA PinDoes ==
  ASSUME pins \in Pins, Access, NEW p \in {"cs", "rd", "reset"}, NEW level \in {0, 1},
         Head(ops) = Pin(p, level)
  PROVE  /\ SetPin(p, level) /\ got' = got
         /\ pins' \in Pins /\ DriveSame /\ pins'.word = pins.word
         /\ pins'.cs = IF p = "cs" THEN level ELSE pins.cs
         /\ pins'.rd = IF p = "rd" THEN level ELSE pins.rd
         /\ pins'.reset = IF p = "reset" THEN level ELSE pins.reset
<1>1. SetPin(p, level) /\ got' = got
  BY DEF Access, Pin
<1>2. pins' = [pins EXCEPT ![p] = level]
  BY <1>1 DEF SetPin
<1>3. CASE p = "cs"
  <2>1. pins' = [pins EXCEPT !.cs = level]
    BY <1>2, <1>3
  <2>2. pins' \in Pins /\ pins'.word = pins.word /\ pins'.cs = level /\ pins'.rd = pins.rd
        /\ pins'.reset = pins.reset
    BY <2>1 DEF Pins
  <2>3. DriveSame
    BY <2>1 DEF Pins, DriveSame
  <2> QED  BY <1>1, <1>3, <2>2, <2>3
<1>4. CASE p = "rd"
  <2>1. pins' = [pins EXCEPT !.rd = level]
    BY <1>2, <1>4
  <2>2. pins' \in Pins /\ pins'.word = pins.word /\ pins'.cs = pins.cs /\ pins'.rd = level
        /\ pins'.reset = pins.reset
    BY <2>1 DEF Pins
  <2>3. DriveSame
    BY <2>1 DEF Pins, DriveSame
  <2> QED  BY <1>1, <1>4, <2>2, <2>3
<1>5. CASE p = "reset"
  <2>1. pins' = [pins EXCEPT !.reset = level]
    BY <1>2, <1>5
  <2>2. pins' \in Pins /\ pins'.word = pins.word /\ pins'.cs = pins.cs /\ pins'.rd = pins.rd
        /\ pins'.reset = level
    BY <2>1 DEF Pins
  <2>3. DriveSame
    BY <2>1 DEF Pins, DriveSame
  <2> QED  BY <1>1, <1>5, <2>2, <2>3
<1> QED  BY <1>3, <1>4, <1>5

\* The converter at a level of each pin.
LEMMA SelectDoes ==
  ASSUME pins \in Pins, Access, NEW level \in {0, 1}, Head(ops) = Pin("cs", level),
         pins.reset = 1
  PROVE  /\ level = 0 \/ pins.cs = 1 => chip' = chip
         /\ level = 1 /\ pins.cs = 0 /\ pins.rd = 1 => chip' = Written(chip, OnBus(pins))
         /\ level = 1 /\ pins.cs = 0 /\ pins.rd = 0 => chip' = Fetched(chip)
<1>1. SetPin("cs", level) /\ pins'.reset = pins.reset
  BY PinDoes
<1>2. ~InReset(pins')
  BY <1>1 DEF InReset
<1>3. pins.cs \in {0, 1} /\ pins.rd \in {0, 1}
  BY PinsTyped
<1> QED  BY <1>1, <1>2, <1>3 DEF SetPin

LEMMA ReadLineDoes ==
  ASSUME pins \in Pins, Access, NEW level \in {0, 1}, Head(ops) = Pin("rd", level),
         pins.reset = 1
  PROVE  chip' = chip
<1>1. SetPin("rd", level) /\ pins'.reset = pins.reset
  BY PinDoes
<1>2. ~InReset(pins')
  BY <1>1 DEF InReset
<1> QED  BY <1>1, <1>2 DEF SetPin

LEMMA ResetDoes ==
  ASSUME pins \in Pins, Access, NEW level \in {0, 1}, Head(ops) = Pin("reset", level)
  PROVE  /\ level = 0 => chip' = ChipInReset
         /\ level = 1 => chip' = chip
<1>1. SetPin("reset", level) /\ pins'.reset = level
  BY PinDoes
<1> QED  BY <1>1 DEF SetPin, InReset

LEMMA InResetDoes ==
  ASSUME pins \in Pins, Access, Head(ops) \in AccessSet, Head(ops) # Pin("reset", 1),
         pins.reset = 0, chip = ChipInReset
  PROVE  pins'.reset = 0 /\ chip' = ChipInReset
<1>1. CASE Head(ops) = Output
  BY <1>1, OutputDoes DEF LevelsSame
<1>2. CASE Head(ops) = Input
  BY <1>2, InputDoes DEF LevelsSame
<1>3. CASE Head(ops) = Get
  BY <1>3, GetDoes
<1>4. ASSUME NEW w \in Words, Head(ops) = Put(w)
      PROVE  pins'.reset = 0 /\ chip' = ChipInReset
  BY <1>4, PutDoes DEF LevelsSame
<1>5. ASSUME NEW p \in {"cs", "rd", "reset"}, NEW level \in {0, 1}, Head(ops) = Pin(p, level)
      PROVE  pins'.reset = 0 /\ chip' = ChipInReset
  <2>1. SetPin(p, level) /\ pins'.reset = IF p = "reset" THEN level ELSE pins.reset
    BY <1>5, PinDoes
  <2>2. p = "reset" => level = 0
    BY <1>5
  <2>3. pins'.reset = 0
    BY <2>1, <2>2
  <2> QED  BY <2>1, <2>3 DEF SetPin, InReset
<1>6. \/ Head(ops) \in {Output, Input, Get}
      \/ \E w \in Words : Head(ops) = Put(w)
      \/ \E p \in {"cs", "rd", "reset"}, level \in {0, 1} : Head(ops) = Pin(p, level)
  BY DEF AccessSet
<1> QED  BY <1>1, <1>2, <1>3, <1>4, <1>5, <1>6

LEMMA AddressTaken ==
  ASSUME NEW c \in Chips, NEW w \in Words, c.address = "none", w.kind = "address"
  PROVE  /\ Written(c, w).address = w.value /\ Written(c, w).next = c.next
         /\ \A f \in Fields : Written(c, w)[f] = c[f]
<1>1. Written(c, w) = [c EXCEPT !.address = w.value]
  BY DEF Written
<1> QED  BY <1>1 DEF Chips, Fields

LEMMA ValueTaken ==
  ASSUME NEW c \in Chips, NEW w \in Words, NEW j \in Jobs, c.address = Number(j)
  PROVE  /\ Written(c, w).address = "none"
         /\ Written(c, w)[Target(j)] = w
         /\ \A f \in Fields : f # Target(j) => Written(c, w)[f] = c[f]
         /\ Written(c, w).next =
              IF Target(j) = "cr1" /\ w.flag THEN "register" ELSE c.next
<1>1. Number(j) # "none"
  BY DEF Number
<1>2. Written(c, w) = [c EXCEPT !.address = "none",
                                !.cr1  = IF c.address = "1" THEN w ELSE @,
                                !.cr2  = IF c.address = "2" THEN w ELSE @,
                                !.offset = IF c.address = "3" THEN w ELSE @,
                                !.next = IF c.address = "1" /\ w.flag THEN "register" ELSE @]
  BY <1>1 DEF Written
<1>3. CASE Target(j) = "cr1"
  <2>1. c.address = "1"
    BY <1>3 DEF Number
  <2>2. Written(c, w) = [c EXCEPT !.address = "none", !.cr1 = w,
                                  !.cr2 = c.cr2, !.offset = c.offset,
                                  !.next = IF w.flag THEN "register" ELSE c.next]
    BY <1>2, <2>1 DEF Chips
  <2> QED  BY <1>3, <2>2 DEF Chips, Fields
<1>4. CASE Target(j) = "cr2"
  <2>1. c.address = "2"
    BY <1>4 DEF Number
  <2>2. Written(c, w) = [c EXCEPT !.address = "none", !.cr1 = c.cr1,
                                  !.cr2 = w, !.offset = c.offset, !.next = c.next]
    BY <1>2, <2>1 DEF Chips
  <2> QED  BY <1>4, <2>2 DEF Chips, Fields
<1>5. CASE Target(j) = "offset"
  <2>1. c.address = "3"
    BY <1>5 DEF Number
  <2>2. Written(c, w) = [c EXCEPT !.address = "none", !.cr1 = c.cr1,
                                  !.cr2 = c.cr2, !.offset = w, !.next = c.next]
    BY <1>2, <2>1 DEF Chips
  <2> QED  BY <1>5, <2>2 DEF Chips, Fields
<1> QED  BY <1>3, <1>4, <1>5, JobsTyped DEF Fields

LEMMA WordFetched ==
  ASSUME NEW c \in Chips
  PROVE  /\ Fetched(c).address = c.address
         /\ \A f \in Fields : Fetched(c)[f] = c[f]
         /\ Fetched(c).next = IF c.next = "MSB" THEN "LSB" ELSE "MSB"
BY DEF Fetched, Chips, Fields

LEMMA ChipTyped ==
  ASSUME NEW c \in Chips
  PROVE  /\ \A w \in Words : Written(c, w) \in Chips
         /\ Fetched(c) \in Chips
         /\ ChipInReset \in Chips
<1>1. ASSUME NEW w \in Words
      PROVE  Written(c, w) \in Chips
  <2>1. w.value \in Texts
    BY DEF Words
  <2>2. CASE c.address = "none"
    BY <2>1, <2>2 DEF Written, Chips
  <2>3. CASE c.address # "none"
    <3>1. Written(c, w) = [c EXCEPT !.address = "none",
                                    !.cr1  = IF c.address = "1" THEN w ELSE @,
                                    !.cr2  = IF c.address = "2" THEN w ELSE @,
                                    !.offset = IF c.address = "3" THEN w ELSE @,
                                    !.next = IF c.address = "1" /\ w.flag THEN "register" ELSE @]
      BY <2>3 DEF Written
    <3> QED  BY <3>1 DEF Chips
  <2> QED  BY <2>2, <2>3
<1>2. Fetched(c) \in Chips
  BY DEF Fetched, Chips
<1>3. ChipInReset \in Chips
  <2>1. Default1 \in Words /\ Default2 \in Words /\ Zero \in Words
    BY WordsKnown DEF Default1, Default2, Texts
  <2> QED  BY <2>1 DEF ChipInReset, Chips
<1> QED  BY <1>1, <1>2, <1>3

LEMMA AccessTyped ==
  ASSUME pins \in Pins, chip \in Chips, Access, Head(ops) \in AccessSet
  PROVE  pins' \in Pins /\ chip' \in Chips
<1>1. CASE Head(ops) = Output
  BY <1>1, OutputDoes
<1>2. CASE Head(ops) = Input
  BY <1>2, InputDoes
<1>3. CASE Head(ops) = Get
  BY <1>3, GetDoes
<1>4. ASSUME NEW w \in Words, Head(ops) = Put(w)
      PROVE  pins' \in Pins /\ chip' \in Chips
  BY <1>4, PutDoes
<1>5. ASSUME NEW p \in {"cs", "rd", "reset"}, NEW level \in {0, 1}, Head(ops) = Pin(p, level)
      PROVE  pins' \in Pins /\ chip' \in Chips
  <2>1. SetPin(p, level) /\ pins' \in Pins
    BY <1>5, PinDoes
  <2>2. chip' \in {ChipInReset, chip, Written(chip, OnBus(pins)), Fetched(chip)}
    BY <2>1 DEF SetPin
  <2>3. OnBus(pins) \in Words
    BY PinsTyped, WordsKnown DEF OnBus
  <2> QED  BY <2>1, <2>2, <2>3, ChipTyped
<1>6. \/ Head(ops) \in {Output, Input, Get}
      \/ \E w \in Words : Head(ops) = Put(w)
      \/ \E p \in {"cs", "rd", "reset"}, level \in {0, 1} : Head(ops) = Pin(p, level)
  BY DEF AccessSet
<1> QED  BY <1>1, <1>2, <1>3, <1>4, <1>5, <1>6

-----------------------------------------------------------------------------
(***************************************************************************)
(* Out of reset, one access of a write.                                    *)
(***************************************************************************)
LEMMA WriteGoesOn ==
  ASSUME pins \in Pins, chip \in Chips, job \in Jobs, UNCHANGED <<job, regs>>, Access,
         NEW n \in 0 .. 8, InWrite(n), pins.reset = 1,
         Head(ops) = write_control_register(Number(job), job.word)[n + 1]
  PROVE  /\ InWrite(n + 1)' /\ pins'.reset = 1 /\ got' = got
         /\ chip'.next =
              IF n = 6 /\ Target(job) = "cr1" /\ job.word.flag THEN "register" ELSE chip.next
<1>. DEFINE number == Number(job)
            target == Target(job)
            word == job.word
<1>1. /\ number \in {"1", "2", "3"} /\ word \in Words /\ target \in Fields
      /\ Address(number) \in Words /\ Zero \in Words
  BY JobsTyped, WordsKnown
<1>2. number' = number /\ target' = target /\ word' = word /\ regs' = regs
  BY DEF Number, Target
<1>3. number # "none"
  BY <1>1
<1>4. /\ Address(number).kind = "address" /\ Address(number).value = number
  BY DEF Address, Word
<1>5. LET s == write_control_register(number, word)
      IN  /\ s[1] = Output /\ s[2] = Put(Address(number)) /\ s[3] = Pin("cs", 0)
          /\ s[4] = Pin("cs", 1) /\ s[5] = Put(word) /\ s[6] = Pin("cs", 0)
          /\ s[7] = Pin("cs", 1) /\ s[8] = Put(Zero) /\ s[9] = Input
  BY <1>1, WriteIsTyped
<1>6. /\ pins.cs = IF n \in {3, 6} THEN 0 ELSE 1
      /\ pins.rd = 1
      /\ n \in 1 .. 8 => pins.drive
      /\ n \in 2 .. 4 => pins.word = Address(number)
      /\ n \in 5 .. 7 => pins.word = word
      /\ chip.address = IF n \in 4 .. 6 THEN number ELSE "none"
      /\ \A f \in Fields : f # target \/ n > 6 => chip[f] = regs[f]
      /\ regs[target] = word
  BY DEF InWrite, Selects, Agree
<1>7. ASSUME /\ pins'.cs = IF n + 1 \in {3, 6} THEN 0 ELSE 1
             /\ pins'.rd = 1
             /\ n + 1 \in 1 .. 8 => pins'.drive
             /\ n + 1 \in 2 .. 4 => pins'.word = Address(number)
             /\ n + 1 \in 5 .. 7 => pins'.word = word
             /\ chip'.address = IF n + 1 \in 4 .. 6 THEN number ELSE "none"
             /\ \A f \in Fields : f # target \/ n + 1 > 6 => chip'[f] = regs[f]
             /\ regs[target] = word
      PROVE  InWrite(n + 1)'
  BY <1>2, <1>7 DEF InWrite, Selects, Agree
<1>18. Head(ops) = write_control_register(number, word)[n + 1]
  OBVIOUS
<1>. HIDE DEF number, target, word
<1>8. CASE n = 0
  <2>1. Head(ops) = Output
    BY <1>5, <1>18, <1>8
  <2>2. /\ LevelsSame /\ pins'.drive /\ pins'.word = pins.word /\ chip' = chip /\ got' = got
    BY <2>1, OutputDoes
  <2> QED  BY <1>6, <1>7, <1>8, <2>2 DEF LevelsSame
<1>9. CASE n = 1
  <2>1. Head(ops) = Put(Address(number))
    BY <1>5, <1>18, <1>9
  <2>2. /\ LevelsSame /\ DriveSame /\ pins'.word = Address(number) /\ chip' = chip /\ got' = got
    BY <1>1, <2>1, PutDoes
  <2> QED  BY <1>6, <1>7, <1>9, <2>2 DEF LevelsSame, DriveSame
<1>10. CASE n = 2
  <2>1. Head(ops) = Pin("cs", 0)
    BY <1>5, <1>18, <1>10
  <2>2. /\ pins'.cs = 0 /\ pins'.rd = pins.rd /\ pins'.reset = pins.reset
        /\ DriveSame /\ pins'.word = pins.word /\ got' = got
    BY <2>1, PinDoes
  <2>3. chip' = chip
    BY <2>1, SelectDoes
  <2> QED  BY <1>6, <1>7, <1>10, <2>2, <2>3 DEF DriveSame
<1>11. CASE n = 3
  <2>1. Head(ops) = Pin("cs", 1)
    BY <1>5, <1>18, <1>11
  <2>2. /\ pins'.cs = 1 /\ pins'.rd = pins.rd /\ pins'.reset = pins.reset
        /\ DriveSame /\ pins'.word = pins.word /\ got' = got
    BY <2>1, PinDoes
  <2>3. chip' = Written(chip, Address(number))
    <3>1. pins.cs = 0 /\ OnBus(pins) = Address(number)
      BY <1>6, <1>11 DEF OnBus
    <3> QED  BY <1>6, <2>1, <3>1, SelectDoes
  <2>4. chip.address = "none"
    BY <1>6, <1>11
  <2>5. /\ chip'.address = number /\ chip'.next = chip.next
        /\ \A f \in Fields : chip'[f] = chip[f]
    BY <1>1, <1>4, <2>3, <2>4, AddressTaken
  <2> QED  BY <1>6, <1>7, <1>11, <2>2, <2>5 DEF DriveSame
<1>12. CASE n = 4
  <2>1. Head(ops) = Put(word)
    BY <1>5, <1>18, <1>12
  <2>2. /\ LevelsSame /\ DriveSame /\ pins'.word = word /\ chip' = chip /\ got' = got
    BY <1>1, <2>1, PutDoes
  <2> QED  BY <1>6, <1>7, <1>12, <2>2 DEF LevelsSame, DriveSame
<1>13. CASE n = 5
  <2>1. Head(ops) = Pin("cs", 0)
    BY <1>5, <1>18, <1>13
  <2>2. /\ pins'.cs = 0 /\ pins'.rd = pins.rd /\ pins'.reset = pins.reset
        /\ DriveSame /\ pins'.word = pins.word /\ got' = got
    BY <2>1, PinDoes
  <2>3. chip' = chip
    BY <2>1, SelectDoes
  <2> QED  BY <1>6, <1>7, <1>13, <2>2, <2>3 DEF DriveSame
<1>14. CASE n = 6
  <2>1. Head(ops) = Pin("cs", 1)
    BY <1>5, <1>18, <1>14
  <2>2. /\ pins'.cs = 1 /\ pins'.rd = pins.rd /\ pins'.reset = pins.reset
        /\ DriveSame /\ pins'.word = pins.word /\ got' = got
    BY <2>1, PinDoes
  <2>3. chip' = Written(chip, word)
    <3>1. pins.cs = 0 /\ OnBus(pins) = word
      BY <1>6, <1>14 DEF OnBus
    <3> QED  BY <1>6, <2>1, <3>1, SelectDoes
  <2>4. chip.address = Number(job)
    BY <1>6, <1>14 DEF number
  <2>5. /\ chip'.address = "none" /\ chip'[target] = word
        /\ \A f \in Fields : f # target => chip'[f] = chip[f]
        /\ chip'.next = IF target = "cr1" /\ word.flag THEN "register" ELSE chip.next
    BY <1>1, <2>3, <2>4, ValueTaken DEF target
  <2>6. \A f \in Fields : chip'[f] = regs[f]
    BY <1>6, <2>5
  <2>7. InWrite(n + 1)'
    BY <1>6, <1>7, <1>14, <2>2, <2>5, <2>6 DEF DriveSame
  <2> QED  BY <1>14, <2>2, <2>5, <2>7 DEF target, word
<1>15. CASE n = 7
  <2>1. Head(ops) = Put(Zero)
    BY <1>5, <1>18, <1>15
  <2>2. /\ LevelsSame /\ DriveSame /\ chip' = chip /\ got' = got
    BY <1>1, <2>1, PutDoes
  <2> QED  BY <1>6, <1>7, <1>15, <2>2 DEF LevelsSame, DriveSame
<1>16. CASE n = 8
  <2>1. Head(ops) = Input
    BY <1>5, <1>18, <1>16
  <2>2. /\ LevelsSame /\ chip' = chip /\ got' = got
    BY <2>1, InputDoes
  <2> QED  BY <1>6, <1>7, <1>16, <2>2 DEF LevelsSame
<1>17. n \in {0, 1, 2, 3, 4, 5, 6, 7, 8}
  OBVIOUS
<1> QED  BY <1>8, <1>9, <1>10, <1>11, <1>12, <1>13, <1>14, <1>15, <1>16, <1>17

-----------------------------------------------------------------------------
(***************************************************************************)
(* One access of each job.                                                 *)
(***************************************************************************)
StepFrom(n) ==
  /\ pins \in Pins /\ chip \in Chips /\ job \in Jobs
  /\ n \in 0 .. Length(job) - 1
  /\ At(n)
  /\ Access
  /\ Head(ops) = Accesses(job)[n + 1]

LEMMA StepKeeps ==
  ASSUME NEW n, StepFrom(n)
  PROVE  /\ job' = job /\ regs' = regs
         /\ Head(ops) \in AccessSet
         /\ pins' \in Pins /\ chip' \in Chips
         /\ pins.reset \in {0, 1} /\ pins'.reset \in {0, 1}
<1>1. job' = job /\ regs' = regs
  BY DEF StepFrom, Access
<1>2. Head(ops) \in AccessSet
  <2>1. job \in Jobs /\ n \in 0 .. Length(job) - 1 /\ Head(ops) = Accesses(job)[n + 1]
    BY DEF StepFrom
  <2>2. Accesses(job) \in Seq(AccessSet)
    BY <2>1, AccessesTyped
  <2>3. Length(job) \in Nat
    BY <2>1, LengthsPositive
  <2>4. n + 1 \in 1 .. Len(Accesses(job))
    BY <2>1, <2>3 DEF Length
  <2> QED  BY <2>1, <2>2, <2>4, ElementOfSeq
<1>3. pins' \in Pins /\ chip' \in Chips
  BY <1>2, AccessTyped DEF StepFrom
<1>4. pins.reset \in {0, 1} /\ pins'.reset \in {0, 1}
  BY <1>3 DEF StepFrom, Pins
<1> QED  BY <1>1, <1>2, <1>3, <1>4

LEMMA ResetGoesOn ==
  ASSUME NEW n, StepFrom(n), Head(ops) # Pin("reset", 1), pins.reset = 0
  PROVE  pins'.reset = 0 /\ chip' = ChipInReset /\ regs' = ResetRegisters
<1>1. chip = ChipInReset /\ regs = ResetRegisters /\ pins \in Pins /\ Access
  BY DEF StepFrom, At
<1>2. Head(ops) \in AccessSet /\ regs' = regs
  BY StepKeeps
<1> QED  BY <1>1, <1>2, InResetDoes

LEMMA PinsDiffer ==
  /\ \A level \in {0, 1} : /\ Pin("cs", level) # Pin("reset", 1)
                           /\ Pin("rd", level) # Pin("reset", 1)
  /\ Pin("reset", 0) # Pin("reset", 1)
  /\ Output # Pin("reset", 1) /\ Input # Pin("reset", 1) /\ Get # Pin("reset", 1)
  /\ \A w : Put(w) # Pin("reset", 1)
BY DEF Pin, Output, Input, Get, Put

LEMMA WriteSteps ==
  ASSUME NEW n, StepFrom(n), job.name \in Writes
  PROVE  At(n + 1)'
<1>. DEFINE s == write_control_register(Number(job), job.word)
<1>1. /\ pins \in Pins /\ chip \in Chips /\ job \in Jobs /\ Access /\ job' = job /\ regs' = regs
      /\ At(n) /\ pins.reset \in {0, 1} /\ pins'.reset \in {0, 1}
  BY StepKeeps DEF StepFrom
<1>2. n \in 0 .. 8
  BY <1>1, AccessesTyped DEF StepFrom, Length
<1>3. Head(ops) = s[n + 1]
  BY <1>1, AccessesByName DEF StepFrom
<1>4. /\ s[1] = Output /\ s[2] = Put(Address(Number(job))) /\ s[3] = Pin("cs", 0)
      /\ s[4] = Pin("cs", 1) /\ s[5] = Put(job.word) /\ s[6] = Pin("cs", 0)
      /\ s[7] = Pin("cs", 1) /\ s[8] = Put(Zero) /\ s[9] = Input
  BY <1>1, JobsTyped, WriteIsTyped
<1>. HIDE DEF s
<1>5. Head(ops) # Pin("reset", 1)
  BY <1>2, <1>3, <1>4, PinsDiffer
<1>6. job.word.flag => Target(job) # "cr1"
  BY <1>1 DEF Jobs, Target, Writes
<1>7. DriveAt(n + 1)'
  <2>1. CASE n = 8
    <3>1. ~pins'.drive
      BY <1>1, <1>3, <1>4, <2>1, InputDoes
    <3> QED  BY <3>1 DEF DriveAt
  <2>2. CASE n # 8
    <3>1. n + 1 < 9
      BY <1>2, <2>2
    <3> QED  BY <1>1, <3>1 DEF DriveAt
  <2> QED  BY <2>1, <2>2
<1>8. PinsAt(n + 1)'
  BY <1>1 DEF PinsAt, Writes
<1>9. CASE pins.reset = 0
  <2>1. pins'.reset = 0 /\ chip' = ChipInReset /\ regs' = ResetRegisters
    BY <1>5, <1>9, ResetGoesOn
  <2> QED  BY <1>7, <1>8, <2>1 DEF At
<1>10. CASE pins.reset = 1
  <2>1. InWrite(n) /\ chip.next \in Halves
    BY <1>1, <1>10 DEF At, ChipAt
  <2>2. InWrite(n + 1)' /\ pins'.reset = 1 /\ chip'.next = chip.next
    <3>1. Head(ops) = write_control_register(Number(job), job.word)[n + 1]
      BY <1>3 DEF s
    <3> QED  BY <1>1, <1>2, <1>6, <1>10, <2>1, <3>1, WriteGoesOn
  <2>3. ChipAt(n + 1)'
    BY <1>1, <2>1, <2>2 DEF ChipAt, Writes, Halves
  <2> QED  BY <1>7, <1>8, <2>2, <2>3 DEF At
<1> QED  BY <1>1, <1>9, <1>10

\* A word that is no address is ignored where an address is due.
LEMMA NothingTaken ==
  ASSUME NEW c \in Chips, c.address = "none"
  PROVE  /\ Written(c, Zero).address = "none" /\ Written(c, Zero).next = c.next
         /\ \A f \in Fields : Written(c, Zero)[f] = c[f]
<1>1. Written(c, Zero) = [c EXCEPT !.address = "none"]
  BY DEF Written, Zero, Word
<1> QED  BY <1>1 DEF Chips, Fields

\* Out of reset, one access of a register read.  The bus is left alone when the
\* converter is selected after the write.
LEMMA ReadGoesOn ==
  ASSUME pins \in Pins, chip \in Chips, job \in Jobs, UNCHANGED <<job, regs>>, Access,
         NEW n \in 0 .. 19, InRead(n), pins.reset = 1, job.name = "read",
         n > 11 => ~pins.drive,
         Head(ops) = read_adc_reg(job.word)[n + 1]
  PROVE  InRead(n + 1)' /\ pins'.reset = 1
<1>. DEFINE s == read_adc_reg(job.word)
<1>1. /\ job.word \in Words /\ job.word.flag /\ Target(job) = "cr1" /\ Number(job) = "1"
      /\ Target(job) \in Fields
  BY JobsTyped DEF Jobs, Target, Number
<1>2. /\ s[1] = Pin("rd", 1) /\ s[2] = Pin("cs", 1) /\ s[3] = Output
      /\ \A k \in 1 .. 9 : s[3 + k] = write_control_register("1", job.word)[k]
      /\ s[13] = Pin("cs", 0) /\ s[14] = Pin("cs", 1) /\ s[15] = Input
      /\ s[16] = Pin("rd", 0) /\ s[17] = Pin("cs", 0) /\ s[18] = Get
      /\ s[19] = Pin("cs", 1) /\ s[20] = Pin("rd", 1)
  BY <1>1, ReadIsTyped
<1>3. Head(ops) = s[n + 1]
  OBVIOUS
<1>. HIDE DEF s
<1>4. job' = job /\ regs' = regs
  OBVIOUS
<1>5. CASE n \in 0 .. 2
  <2>1. /\ pins.cs = 1 /\ pins.rd = 1 /\ chip.address = "none"
        /\ \A f \in Fields : f # Target(job) => chip[f] = regs[f]
        /\ regs[Target(job)] = job.word
        /\ chip.next \in Halves /\ got = <<>>
    BY <1>5 DEF InRead, InWrite, Selects, Agree
  <2>2. /\ pins'.cs = 1 /\ pins'.rd = 1 /\ pins'.reset = 1 /\ chip' = chip /\ got' = got
    <3>1. CASE n = 0
      <4>1. Head(ops) = Pin("rd", 1)
        BY <1>2, <1>3, <3>1
      <4> QED  BY <2>1, <4>1, PinDoes, ReadLineDoes
    <3>2. CASE n = 1
      <4>1. Head(ops) = Pin("cs", 1)
        BY <1>2, <1>3, <3>2
      <4> QED  BY <2>1, <4>1, PinDoes, SelectDoes
    <3>3. CASE n = 2
      <4>1. Head(ops) = Output
        BY <1>2, <1>3, <3>3
      <4> QED  BY <2>1, <4>1, OutputDoes DEF LevelsSame
    <3> QED  BY <1>5, <3>1, <3>2, <3>3
  <2>3. InWrite(0)'
    BY <1>4, <2>1, <2>2 DEF InWrite, Selects, Agree, Target, Number
  <2>4. CASE n + 1 < 3
    BY <1>5, <2>1, <2>2, <2>3, <2>4 DEF InRead, Halves
  <2>5. CASE n + 1 = 3
    <3>1. InWrite(n + 1 - 3)'
      BY <2>3, <2>5
    <3> QED  BY <1>5, <2>1, <2>2, <2>5, <3>1 DEF InRead, Halves
  <2> QED  BY <1>5, <2>2, <2>4, <2>5
<1>6. CASE n \in 3 .. 11
  <2>1. /\ InWrite(n - 3) /\ got = <<>>
        /\ chip.next \in IF n < 10 THEN Halves ELSE {"register"}
    BY <1>6 DEF InRead
  <2>2. /\ n - 3 \in 0 .. 8 /\ (n - 3) + 1 \in 1 .. 9
        /\ n + 1 = 3 + ((n - 3) + 1) /\ (n - 3) + 1 = (n + 1) - 3
    BY <1>6
  <2>3. Head(ops) = write_control_register(Number(job), job.word)[(n - 3) + 1]
    BY <1>1, <1>2, <1>3, <2>2
  <2>4. /\ InWrite((n - 3) + 1)' /\ pins'.reset = 1 /\ got' = got
        /\ chip'.next = IF n - 3 = 6 THEN "register" ELSE chip.next
    BY <1>1, <1>4, <2>1, <2>2, <2>3, WriteGoesOn
  <2>5. chip'.next \in IF n + 1 < 10 THEN Halves ELSE {"register"}
    BY <1>6, <2>1, <2>4
  <2>6. InWrite((n + 1) - 3)'
    BY <2>2, <2>4
  <2> QED  BY <1>6, <2>1, <2>4, <2>5, <2>6 DEF InRead
<1>7. CASE n = 12
  <2>1. /\ pins.cs = 1 /\ pins.rd = 1 /\ chip.address = "none"
        /\ \A f \in Fields : chip[f] = regs[f]
        /\ chip.next = "register" /\ got = <<>>
    <3>1. InWrite(9) /\ chip.next = "register" /\ got = <<>>
      BY <1>7 DEF InRead
    <3> QED  BY <3>1 DEF InWrite, Selects, Agree
  <2>2. Head(ops) = Pin("cs", 0)
    BY <1>2, <1>3, <1>7
  <2>3. /\ pins'.cs = 0 /\ pins'.rd = 1 /\ pins'.reset = 1 /\ chip' = chip /\ got' = got
    BY <2>1, <2>2, PinDoes, SelectDoes
  <2> QED  BY <1>4, <1>7, <2>1, <2>3 DEF InRead, Selects, Reads, Agree
<1>8. CASE n \in 13 .. 19
  <2>1. /\ pins.cs = IF n \in {13, 17, 18} THEN 0 ELSE 1
        /\ pins.rd = IF n \in 16 .. 19 THEN 0 ELSE 1
        /\ chip.address = "none"
        /\ \A f \in Fields : chip[f] = regs[f]
        /\ chip.next = IF n < 19 THEN "register" ELSE chip.next
        /\ n = 19 => chip.next \in Halves
        /\ got = IF n < 18 THEN <<>> ELSE <<"register">>
    BY <1>8 DEF InRead, Selects, Reads, Agree
  <2>2. ASSUME /\ pins'.cs = IF n + 1 \in {13, 17, 18} THEN 0 ELSE 1
               /\ pins'.rd = IF n + 1 \in 16 .. 19 THEN 0 ELSE 1
               /\ chip'.address = "none"
               /\ \A f \in Fields : chip'[f] = regs[f]
               /\ n + 1 < 19 => chip'.next = "register"
               /\ n + 1 >= 19 => chip'.next \in Halves
               /\ got' = IF n + 1 < 18 THEN <<>> ELSE <<"register">>
        PROVE  InRead(n + 1)'
    BY <1>4, <1>8, <2>2 DEF InRead, Selects, Reads, Agree, Halves
  <2>3. CASE n = 13
    <3>1. Head(ops) = Pin("cs", 1)
      BY <1>2, <1>3, <2>3
    <3>2. /\ pins'.cs = 1 /\ pins'.rd = pins.rd /\ pins'.reset = 1 /\ got' = got
      BY <3>1, PinDoes
    <3>3. OnBus(pins) = Zero
      BY <2>3 DEF OnBus
    <3>4. chip' = Written(chip, Zero)
      BY <2>1, <2>3, <3>1, <3>3, SelectDoes
    <3>5. /\ chip'.address = "none" /\ chip'.next = chip.next
          /\ \A f \in Fields : chip'[f] = chip[f]
      BY <2>1, <3>4, NothingTaken
    <3> QED  BY <2>1, <2>2, <2>3, <3>2, <3>5
  <2>4. CASE n = 14
    <3>1. Head(ops) = Input
      BY <1>2, <1>3, <2>4
    <3>2. LevelsSame /\ chip' = chip /\ got' = got
      BY <3>1, InputDoes
    <3> QED  BY <2>1, <2>2, <2>4, <3>2 DEF LevelsSame
  <2>5. CASE n = 15
    <3>1. Head(ops) = Pin("rd", 0)
      BY <1>2, <1>3, <2>5
    <3>2. /\ pins'.cs = pins.cs /\ pins'.rd = 0 /\ pins'.reset = 1 /\ got' = got
          /\ chip' = chip
      BY <3>1, PinDoes, ReadLineDoes
    <3> QED  BY <2>1, <2>2, <2>5, <3>2
  <2>6. CASE n = 16
    <3>1. Head(ops) = Pin("cs", 0)
      BY <1>2, <1>3, <2>6
    <3>2. /\ pins'.cs = 0 /\ pins'.rd = pins.rd /\ pins'.reset = 1 /\ got' = got
          /\ chip' = chip
      BY <3>1, PinDoes, SelectDoes
    <3> QED  BY <2>1, <2>2, <2>6, <3>2
  <2>7. CASE n = 17
    <3>1. Head(ops) = Get
      BY <1>2, <1>3, <2>7
    <3>2. ChipDrives(pins)
      BY <2>1, <2>7 DEF ChipDrives, InReset
    <3>3. /\ pins' = pins /\ chip' = chip /\ got' = Append(<<>>, "register")
      BY <2>1, <2>7, <3>1, <3>2, GetDoes
    <3>4. got' = <<"register">>
      BY <3>3
    <3> QED  BY <2>1, <2>2, <2>7, <3>3, <3>4
  <2>8. CASE n = 18
    <3>1. Head(ops) = Pin("cs", 1)
      BY <1>2, <1>3, <2>8
    <3>2. /\ pins'.cs = 1 /\ pins'.rd = pins.rd /\ pins'.reset = 1 /\ got' = got
      BY <3>1, PinDoes
    <3>3. chip' = Fetched(chip)
      BY <2>1, <2>8, <3>1, SelectDoes
    <3>4. /\ chip'.address = "none" /\ chip'.next = "MSB"
          /\ \A f \in Fields : chip'[f] = chip[f]
      BY <2>1, <2>8, <3>3, WordFetched
    <3> QED  BY <2>1, <2>2, <2>8, <3>2, <3>4 DEF Halves
  <2>9. CASE n = 19
    <3>1. Head(ops) = Pin("rd", 1)
      BY <1>2, <1>3, <2>9
    <3>2. /\ pins'.cs = pins.cs /\ pins'.rd = 1 /\ pins'.reset = 1 /\ got' = got
          /\ chip' = chip
      BY <3>1, PinDoes, ReadLineDoes
    <3> QED  BY <2>1, <2>2, <2>9, <3>2
  <2>10. n \in {13, 14, 15, 16, 17, 18, 19}
    BY <1>8
  <2>11. pins'.reset = 1
    <3>1. Head(ops) \in {Pin("cs", 1), Input, Pin("rd", 0), Pin("cs", 0), Get, Pin("rd", 1)}
      BY <1>2, <1>3, <2>10
    <3> QED  BY <3>1, PinDoes, InputDoes, GetDoes DEF LevelsSame
  <2> QED  BY <2>3, <2>4, <2>5, <2>6, <2>7, <2>8, <2>9, <2>10, <2>11
<1>9. n \in 0 .. 2 \/ n \in 3 .. 11 \/ n = 12 \/ n \in 13 .. 19
  OBVIOUS
<1> QED  BY <1>5, <1>6, <1>7, <1>8, <1>9

LEMMA ReadSteps ==
  ASSUME NEW n, StepFrom(n), job.name = "read"
  PROVE  At(n + 1)'
<1>. DEFINE s == read_adc_reg(job.word)
<1>1. /\ pins \in Pins /\ chip \in Chips /\ job \in Jobs /\ Access /\ job' = job /\ regs' = regs
      /\ At(n) /\ pins.reset \in {0, 1} /\ pins'.reset \in {0, 1}
  BY StepKeeps DEF StepFrom
<1>2. n \in 0 .. 19
  <2>1. Length(job) = 20
    BY <1>1, AccessesTyped DEF Length
  <2> QED  BY <2>1 DEF StepFrom
<1>3. Head(ops) = s[n + 1]
  BY <1>1, AccessesByName DEF StepFrom
<1>4. /\ s[1] = Pin("rd", 1) /\ s[2] = Pin("cs", 1) /\ s[3] = Output
      /\ s[13] = Pin("cs", 0) /\ s[14] = Pin("cs", 1) /\ s[15] = Input
      /\ s[16] = Pin("rd", 0) /\ s[17] = Pin("cs", 0) /\ s[18] = Get
      /\ s[19] = Pin("cs", 1) /\ s[20] = Pin("rd", 1)
  BY <1>1, JobsTyped, ReadIsTyped
<1>5. /\ s[4] = Output /\ s[5] = Put(Address("1")) /\ s[6] = Pin("cs", 0)
      /\ s[7] = Pin("cs", 1) /\ s[8] = Put(job.word) /\ s[9] = Pin("cs", 0)
      /\ s[10] = Pin("cs", 1) /\ s[11] = Put(Zero) /\ s[12] = Input
  <2>1. \A k \in 1 .. 9 : s[3 + k] = write_control_register("1", job.word)[k]
    BY <1>1, JobsTyped, ReadIsTyped
  <2>2. /\ 3 + 1 = 4 /\ 3 + 2 = 5 /\ 3 + 3 = 6 /\ 3 + 4 = 7 /\ 3 + 5 = 8
        /\ 3 + 6 = 9 /\ 3 + 7 = 10 /\ 3 + 8 = 11 /\ 3 + 9 = 12
    OBVIOUS
  <2>. HIDE DEF s
  <2>. DEFINE t == write_control_register("1", job.word)
  <2>3. /\ t[1] = Output /\ t[2] = Put(Address("1")) /\ t[3] = Pin("cs", 0)
        /\ t[4] = Pin("cs", 1) /\ t[5] = Put(job.word) /\ t[6] = Pin("cs", 0)
        /\ t[7] = Pin("cs", 1) /\ t[8] = Put(Zero) /\ t[9] = Input
    BY <1>1, JobsTyped, WriteIsTyped
  <2>4. \A k \in 1 .. 9 : s[3 + k] = t[k]
    BY <2>1
  <2>. HIDE DEF t
  <2>5. /\ s[4] = t[1] /\ s[5] = t[2] /\ s[6] = t[3] /\ s[7] = t[4] /\ s[8] = t[5]
        /\ s[9] = t[6] /\ s[10] = t[7] /\ s[11] = t[8] /\ s[12] = t[9]
    BY <2>2, <2>4
  <2> QED  BY <2>3, <2>5
<1>. HIDE DEF s
<1>6. Head(ops) # Pin("reset", 1)
  <2>1. n \in {0, 1, 2, 3, 4, 5, 6, 7, 8, 9, 10, 11, 12, 13, 14, 15, 16, 17, 18, 19}
    BY <1>2
  <2> QED  BY <2>1, <1>3, <1>4, <1>5, PinsDiffer
<1>7. DriveAt(n + 1)'
  <2>1. CASE n < 11
    <3>1. n + 1 < 12
      BY <1>2, <2>1
    <3> QED  BY <1>1, <3>1 DEF DriveAt
  <2>2. CASE n = 11
    <3>1. ~pins'.drive
      BY <1>1, <1>3, <1>5, <2>2, InputDoes
    <3> QED  BY <3>1 DEF DriveAt
  <2>3. CASE n > 11
    <3>1. ~pins.drive
      BY <1>1, <1>2, <2>3 DEF At, DriveAt, Writes
    <3>2. Head(ops) \in {Pin("cs", 0), Pin("cs", 1), Pin("rd", 0), Pin("rd", 1), Input, Get}
      <4>1. n \in {12, 13, 14, 15, 16, 17, 18, 19}
        BY <1>2, <2>3
      <4> QED  BY <4>1, <1>3, <1>4
    <3>3. ~pins'.drive
      BY <1>1, <3>1, <3>2, PinDoes, InputDoes, GetDoes DEF DriveSame
    <3> QED  BY <3>3 DEF DriveAt
  <2> QED  BY <1>2, <2>1, <2>2, <2>3
<1>8. PinsAt(n + 1)'
  BY <1>1 DEF PinsAt
<1>9. CASE pins.reset = 0
  <2>1. pins'.reset = 0 /\ chip' = ChipInReset /\ regs' = ResetRegisters
    BY <1>6, <1>9, ResetGoesOn
  <2> QED  BY <1>7, <1>8, <2>1 DEF At
<1>10. CASE pins.reset = 1
  <2>1. InRead(n)
    BY <1>1, <1>10 DEF At, ChipAt
  <2>2. n > 11 => ~pins.drive
    BY <1>1, <1>2 DEF At, DriveAt, Writes
  <2>3. Head(ops) = read_adc_reg(job.word)[n + 1]
    BY <1>3 DEF s
  <2>4. InRead(n + 1)' /\ pins'.reset = 1
    BY <1>1, <1>2, <1>10, <2>1, <2>2, <2>3, ReadGoesOn
  <2>5. ChipAt(n + 1)'
    BY <1>1, <2>4 DEF ChipAt, Writes
  <2> QED  BY <1>7, <1>8, <2>4, <2>5 DEF At
<1> QED  BY <1>1, <1>9, <1>10

LEMMA BothHalves == Append(<<"MSB">>, "LSB") = <<"MSB", "LSB">>
<1>. DEFINE one == Append(<<"MSB">>, "LSB")
            two == <<"MSB", "LSB">>
<1>1. "MSB" \in Halves /\ "LSB" \in Halves
  BY DEF Halves
<1>2. <<"MSB">> \in Seq(Halves) /\ Len(<<"MSB">>) = 1
  BY <1>1
<1>3. one \in Seq(Halves) /\ Len(one) = 2 /\ one[1] = "MSB" /\ one[2] = "LSB"
  BY <1>1, <1>2, AppendProperties
<1>4. two \in Seq(Halves) /\ Len(two) = 2 /\ two[1] = "MSB" /\ two[2] = "LSB"
  BY <1>1
<1>. HIDE DEF one, two
<1>5. \A i \in 1 .. Len(one) : one[i] = two[i]
  <2>1. \A i \in 1 .. 2 : i = 1 \/ i = 2
    OBVIOUS
  <2> QED  BY <1>3, <1>4, <2>1
<1>6. one = two
  BY <1>3, <1>4, <1>5, SeqEqual
<1> QED  BY <1>6 DEF one, two

\* Out of reset, one access of the read of a data word.
LEMMA DataGoesOn ==
  ASSUME pins \in Pins, chip \in Chips, job \in Jobs, UNCHANGED <<job, regs>>, Access,
         NEW n \in {0, 1, 2, 3, 4, 5, 6, 7, 8, 9}, InData(n), pins.reset = 1,
         Head(ops) = read_data_word[n + 1]
  PROVE  InData(n + 1)'
<1>. DEFINE s == read_data_word
<1>0. n \in {0, 1, 2, 3, 4, 5, 6, 7, 8, 9} /\ Head(ops) = s[n + 1]
  OBVIOUS
<1>1. /\ s[1] = Pin("rd", 0) /\ s[2] = Pin("cs", 0) /\ s[3] = Get
      /\ s[4] = Pin("cs", 1) /\ s[5] = Pin("rd", 1)
      /\ s[6] = Pin("rd", 0) /\ s[7] = Pin("cs", 0) /\ s[8] = Get
      /\ s[9] = Pin("cs", 1) /\ s[10] = Pin("rd", 1)
  BY DataIsTyped
<1>. HIDE DEF s
<1>2. /\ pins.cs = IF n \in {2, 3, 7, 8} THEN 0 ELSE 1
      /\ pins.rd = IF n \in {1, 2, 3, 4, 6, 7, 8, 9} THEN 0 ELSE 1
      /\ chip.address = "none"
      /\ \A f \in Fields : chip[f] = regs[f]
      /\ chip.next = IF n \in {4, 5, 6, 7, 8} THEN "LSB" ELSE "MSB"
      /\ got = IF n \in {0, 1, 2} THEN <<>>
               ELSE IF n \in {3, 4, 5, 6, 7} THEN <<"MSB">> ELSE <<"MSB", "LSB">>
  BY <1>0 DEF InData, Selects, Reads, Agree
<1>3. ASSUME /\ pins'.cs = IF n + 1 \in {2, 3, 7, 8} THEN 0 ELSE 1
             /\ pins'.rd = IF n + 1 \in {1, 2, 3, 4, 6, 7, 8, 9} THEN 0 ELSE 1
             /\ chip'.address = "none"
             /\ \A f \in Fields : chip'[f] = regs[f]
             /\ chip'.next = IF n + 1 \in {4, 5, 6, 7, 8} THEN "LSB" ELSE "MSB"
             /\ got' = IF n + 1 \in {0, 1, 2} THEN <<>>
                       ELSE IF n + 1 \in {3, 4, 5, 6, 7} THEN <<"MSB">> ELSE <<"MSB", "LSB">>
      PROVE  InData(n + 1)'
  BY <1>0, <1>3 DEF InData, Selects, Reads, Agree
<1>4. CASE n \in {0, 5}
  <2>1. Head(ops) = Pin("rd", 0)
    BY <1>0, <1>1, <1>4
  <2>2. pins'.cs = pins.cs /\ pins'.rd = 0 /\ got' = got /\ chip' = chip
    BY <2>1, PinDoes, ReadLineDoes
  <2> QED  BY <1>2, <1>3, <1>4, <2>2
<1>5. CASE n \in {1, 6}
  <2>1. Head(ops) = Pin("cs", 0)
    BY <1>0, <1>1, <1>5
  <2>2. pins'.cs = 0 /\ pins'.rd = pins.rd /\ got' = got /\ chip' = chip
    BY <2>1, PinDoes, SelectDoes
  <2> QED  BY <1>2, <1>3, <1>5, <2>2
<1>6. CASE n \in {2, 7}
  <2>1. Head(ops) = Get
    BY <1>0, <1>1, <1>6
  <2>2. ChipDrives(pins)
    BY <1>2, <1>6 DEF ChipDrives, InReset
  <2>3. pins' = pins /\ chip' = chip /\ got' = Append(got, chip.next)
    BY <2>1, <2>2, GetDoes
  <2>4. got' = IF n = 2 THEN <<"MSB">> ELSE <<"MSB", "LSB">>
    <3>1. CASE n = 2
      <4>1. got' = Append(<<>>, "MSB")
        BY <1>2, <2>3, <3>1
      <4> QED  BY <3>1, <4>1
    <3>2. CASE n = 7
      <4>1. got' = Append(<<"MSB">>, "LSB")
        BY <1>2, <2>3, <3>2
      <4> QED  BY <3>2, <4>1, BothHalves
    <3> QED  BY <1>6, <3>1, <3>2
  <2> QED  BY <1>2, <1>3, <1>6, <2>3, <2>4
<1>7. CASE n \in {3, 8}
  <2>1. Head(ops) = Pin("cs", 1)
    BY <1>0, <1>1, <1>7
  <2>2. pins'.cs = 1 /\ pins'.rd = pins.rd /\ got' = got
    BY <2>1, PinDoes
  <2>3. chip' = Fetched(chip)
    BY <1>2, <1>7, <2>1, SelectDoes
  <2>4. /\ chip'.address = "none" /\ chip'.next = IF chip.next = "MSB" THEN "LSB" ELSE "MSB"
        /\ \A f \in Fields : chip'[f] = chip[f]
    BY <1>2, <2>3, WordFetched
  <2> QED  BY <1>2, <1>3, <1>7, <2>2, <2>4
<1>8. CASE n \in {4, 9}
  <2>1. Head(ops) = Pin("rd", 1)
    BY <1>0, <1>1, <1>8
  <2>2. pins'.cs = pins.cs /\ pins'.rd = 1 /\ got' = got /\ chip' = chip
    BY <2>1, PinDoes, ReadLineDoes
  <2> QED  BY <1>2, <1>3, <1>8, <2>2
<1> QED  BY <1>0, <1>4, <1>5, <1>6, <1>7, <1>8

LEMMA DataSteps ==
  ASSUME NEW n, StepFrom(n), job.name = "data"
  PROVE  At(n + 1)'
<1>. DEFINE s == read_data_word
<1>1. /\ pins \in Pins /\ chip \in Chips /\ job \in Jobs /\ Access /\ job' = job /\ regs' = regs
      /\ At(n) /\ pins.reset \in {0, 1} /\ pins'.reset \in {0, 1}
  BY StepKeeps DEF StepFrom
<1>2. n \in {0, 1, 2, 3, 4, 5, 6, 7, 8, 9}
  <2>1. Length(job) = 10
    BY <1>1, AccessesTyped DEF Length
  <2> QED  BY <2>1 DEF StepFrom
<1>3. Head(ops) = s[n + 1]
  BY <1>1, AccessesByName DEF StepFrom
<1>4. /\ s[1] = Pin("rd", 0) /\ s[2] = Pin("cs", 0) /\ s[3] = Get
      /\ s[4] = Pin("cs", 1) /\ s[5] = Pin("rd", 1)
      /\ s[6] = Pin("rd", 0) /\ s[7] = Pin("cs", 0) /\ s[8] = Get
      /\ s[9] = Pin("cs", 1) /\ s[10] = Pin("rd", 1)
  BY DataIsTyped
<1>. HIDE DEF s
<1>5. /\ Head(ops) # Pin("reset", 1)
      /\ Head(ops) \in {Pin("cs", 0), Pin("cs", 1), Pin("rd", 0), Pin("rd", 1), Get}
  <2>1. Head(ops) \in {Pin("cs", 0), Pin("cs", 1), Pin("rd", 0), Pin("rd", 1), Get}
    BY <1>2, <1>3, <1>4
  <2> QED  BY <2>1, PinsDiffer
<1>6. DriveAt(n + 1)'
  <2>1. ~pins.drive
    BY <1>1 DEF At, DriveAt, Writes
  <2>2. ~pins'.drive
    BY <1>1, <1>5, <2>1, PinDoes, GetDoes DEF DriveSame
  <2> QED  BY <2>2 DEF DriveAt
<1>7. PinsAt(n + 1)'
  BY <1>1 DEF PinsAt
<1>8. CASE pins.reset = 0
  <2>1. pins'.reset = 0 /\ chip' = ChipInReset /\ regs' = ResetRegisters
    BY <1>5, <1>8, ResetGoesOn
  <2> QED  BY <1>6, <1>7, <2>1 DEF At
<1>9. CASE pins.reset = 1
  <2>1. InData(n)
    BY <1>1, <1>9 DEF At, ChipAt
  <2>2. Head(ops) = read_data_word[n + 1]
    BY <1>3 DEF s
  <2>3. InData(n + 1)'
    BY <1>1, <1>2, <1>9, <2>1, <2>2, DataGoesOn
  <2>4. pins'.reset = 1
    BY <1>1, <1>5, <1>9, PinDoes, GetDoes
  <2>5. ChipAt(n + 1)'
    BY <1>1, <2>3 DEF ChipAt, Writes
  <2> QED  BY <1>6, <1>7, <2>4, <2>5 DEF At
<1> QED  BY <1>1, <1>8, <1>9

\* The jobs of one access, and the levels set before the reset line is lifted.
LEMMA OtherSteps ==
  ASSUME NEW n, StepFrom(n), job.name \in {"output", "idle", "lift", "reset", "open"}
  PROVE  At(n + 1)'
<1>1. /\ pins \in Pins /\ chip \in Chips /\ job \in Jobs /\ Access /\ job' = job /\ regs' = regs
      /\ At(n) /\ pins.reset \in {0, 1} /\ pins'.reset \in {0, 1}
      /\ Head(ops) = Accesses(job)[n + 1]
  BY StepKeeps DEF StepFrom
<1>2. CASE job.name = "output"
  <2>1. n = 0 /\ Head(ops) = Output
    <3>1. Length(job) = 1 /\ Accesses(job) = <<Output>>
      BY <1>1, <1>2, AccessesTyped, AccessesByName DEF Length
    <3>2. n = 0
      BY <3>1 DEF StepFrom
    <3> QED  BY <1>1, <3>1, <3>2
  <2>2. LevelsSame /\ chip' = chip
    BY <1>1, <2>1, OutputDoes
  <2>3. DriveAt(n + 1)' /\ PinsAt(n + 1)'
    BY <1>1, <1>2 DEF DriveAt, PinsAt
  <2>4. pins.reset = 1 => ChipAt(n + 1)'
    BY <1>1, <1>2, <2>2 DEF At, ChipAt, Settled, Agree, Halves, LevelsSame, Writes
  <2> QED  BY <1>1, <2>2, <2>3, <2>4 DEF At, LevelsSame
<1>3. CASE job.name = "idle"
  <2>1. /\ n \in {0, 1, 2}
        /\ Head(ops) = IF n = 0 THEN Input ELSE IF n = 1 THEN Pin("rd", 1) ELSE Pin("cs", 1)
    <3>1. Length(job) = 3 /\ Accesses(job) = <<Input, Pin("rd", 1), Pin("cs", 1)>>
      BY <1>1, <1>3, AccessesTyped, AccessesByName DEF Length
    <3>2. n \in {0, 1, 2}
      BY <3>1 DEF StepFrom
    <3> QED  BY <1>1, <3>1, <3>2
  <2>2. Head(ops) # Pin("reset", 1)
    BY <2>1, PinsDiffer
  <2>3. ~pins'.drive
    <3>1. n > 0 => ~pins.drive
      BY <1>1, <1>3, <2>1 DEF At, DriveAt, Writes
    <3> QED  BY <1>1, <2>1, <3>1, InputDoes, PinDoes DEF DriveSame
  <2>4. /\ n + 1 > 1 => pins'.rd = 1
        /\ n + 1 > 2 => pins'.cs = 1
    <3>1. n > 1 => pins.rd = 1
      BY <1>1, <1>3, <2>1 DEF At, PinsAt
    <3> QED  BY <1>1, <2>1, <3>1, PinDoes
  <2>5. DriveAt(n + 1)' /\ PinsAt(n + 1)'
    BY <1>1, <1>3, <2>3, <2>4 DEF DriveAt, PinsAt
  <2>6. CASE pins.reset = 0
    <3>1. pins'.reset = 0 /\ chip' = ChipInReset /\ regs' = ResetRegisters
      BY <2>2, <2>6, ResetGoesOn
    <3> QED  BY <2>5, <3>1 DEF At
  <2>7. CASE pins.reset = 1
    <3>1. Settled
      BY <1>1, <1>3, <2>7 DEF At, ChipAt
    <3>2. pins'.cs = 1 /\ pins'.rd = 1 /\ pins'.reset = 1 /\ chip' = chip
      BY <1>1, <2>1, <2>7, <3>1, InputDoes, PinDoes, SelectDoes, ReadLineDoes
         DEF Settled, LevelsSame
    <3>3. ChipAt(n + 1)'
      BY <1>1, <1>3, <3>1, <3>2 DEF ChipAt, Settled, Agree, Halves, Writes
    <3> QED  BY <2>5, <3>2, <3>3 DEF At
  <2> QED  BY <1>1, <2>6, <2>7
<1>4. CASE job.name = "lift"
  <2>1. n = 0 /\ Head(ops) = Pin("reset", 1)
    <3>1. Length(job) = 1 /\ Accesses(job) = <<Pin("reset", 1)>>
      BY <1>1, <1>4, AccessesTyped, AccessesByName DEF Length
    <3>2. n = 0
      BY <3>1 DEF StepFrom
    <3> QED  BY <1>1, <3>1, <3>2
  <2>2. /\ pins'.reset = 1 /\ pins'.cs = pins.cs /\ pins'.rd = pins.rd /\ DriveSame
        /\ chip' = chip
    BY <1>1, <2>1, PinDoes, ResetDoes
  <2>3. pins.cs = 1 /\ pins.rd = 1 /\ ~pins.drive
    BY <1>1, <1>4 DEF At, PinsAt, DriveAt, Writes
  <2>4. DriveAt(n + 1)' /\ PinsAt(n + 1)'
    BY <1>1, <1>4, <2>2, <2>3 DEF DriveAt, PinsAt, DriveSame
  <2>5. Settled
    <3>1. CASE pins.reset = 1
      BY <1>1, <1>4, <3>1 DEF At, ChipAt
    <3>2. CASE pins.reset = 0
      <4>1. chip = ChipInReset /\ regs = ResetRegisters
        BY <1>1, <3>2 DEF At
      <4> QED  BY <2>3, <4>1 DEF Settled, Agree, Halves, Fields, ChipInReset, ResetRegisters
    <3> QED  BY <1>1, <3>1, <3>2
  <2>6. ChipAt(n + 1)'
    BY <1>1, <1>4, <2>2, <2>5 DEF ChipAt, Settled, Agree, Halves, Writes
  <2> QED  BY <2>2, <2>4, <2>6 DEF At
<1>5. CASE job.name = "reset"
  <2>1. n = 0 /\ Head(ops) = Pin("reset", 0)
    <3>1. Length(job) = 1 /\ Accesses(job) = <<Pin("reset", 0)>>
      BY <1>1, <1>5, AccessesTyped, AccessesByName DEF Length
    <3>2. n = 0
      BY <3>1 DEF StepFrom
    <3> QED  BY <1>1, <3>1, <3>2
  <2>2. /\ pins'.reset = 0 /\ pins'.cs = pins.cs /\ pins'.rd = pins.rd /\ DriveSame
        /\ chip' = ChipInReset
    BY <1>1, <2>1, PinDoes, ResetDoes
  <2>3. pins.cs = 1 /\ pins.rd = 1 /\ ~pins.drive /\ regs = ResetRegisters
    BY <1>1, <1>5 DEF At, PinsAt, DriveAt, Writes
  <2>4. DriveAt(n + 1)' /\ PinsAt(n + 1)'
    BY <1>1, <1>5, <2>2, <2>3 DEF DriveAt, PinsAt, DriveSame
  <2> QED  BY <1>1, <2>2, <2>3, <2>4 DEF At
<1>6. CASE job.name = "open"
  <2>1. /\ n \in {0, 1, 2, 3}
        /\ Head(ops) = IF n = 0 THEN Input ELSE IF n = 1 THEN Pin("reset", 1)
                       ELSE IF n = 2 THEN Pin("cs", 1) ELSE Pin("rd", 1)
    <3>1. /\ Length(job) = 4
          /\ Accesses(job) = <<Input, Pin("reset", 1), Pin("cs", 1), Pin("rd", 1)>>
      BY <1>1, <1>6, AccessesTyped, AccessesByName DEF Length
    <3>2. n \in {0, 1, 2, 3}
      BY <3>1 DEF StepFrom
    <3> QED  BY <1>1, <3>1, <3>2
  <2>2. /\ pins.reset = IF n < 2 THEN 0 ELSE 1
        /\ pins.cs = IF n < 3 THEN 0 ELSE 1
        /\ pins.rd = 0
        /\ regs = ResetRegisters
    BY <1>1, <1>6, <2>1 DEF At, PinsAt
  <2>3. chip.address = "none" /\ chip.next \in Halves /\ \A f \in Fields : chip[f] = regs[f]
    <3>1. CASE n < 2
      <4>1. chip = ChipInReset
        BY <1>1, <2>2, <3>1 DEF At
      <4> QED  BY <2>2, <4>1 DEF Halves, Fields, ChipInReset, ResetRegisters
    <3>2. CASE n >= 2
      BY <1>1, <1>6, <2>1, <2>2, <3>2 DEF At, ChipAt, Agree
    <3> QED  BY <2>1, <3>1, <3>2
  <2>4. ~pins'.drive
    <3>1. n > 0 => ~pins.drive
      BY <1>1, <1>6, <2>1 DEF At, DriveAt, Writes
    <3> QED  BY <1>1, <2>1, <3>1, InputDoes, PinDoes DEF DriveSame
  <2>5. /\ pins'.reset = IF n + 1 < 2 THEN 0 ELSE 1
        /\ pins'.cs = IF n + 1 < 3 THEN 0 ELSE 1
        /\ pins'.rd = IF n + 1 < 4 THEN 0 ELSE 1
    BY <1>1, <2>1, <2>2, InputDoes, PinDoes DEF LevelsSame
  <2>6. chip' = IF n = 2 THEN Fetched(chip) ELSE chip
    <3>1. CASE n = 0
      BY <1>1, <2>1, <3>1, InputDoes
    <3>2. CASE n = 1
      BY <1>1, <2>1, <3>2, ResetDoes
    <3>3. CASE n = 2
      <4>1. Head(ops) = Pin("cs", 1) /\ pins.reset = 1 /\ pins.cs = 0 /\ pins.rd = 0
        BY <2>1, <2>2, <3>3
      <4> QED  BY <1>1, <3>3, <4>1, SelectDoes
    <3>4. CASE n = 3
      <4>1. Head(ops) = Pin("rd", 1) /\ pins.reset = 1
        BY <2>1, <2>2, <3>4
      <4> QED  BY <1>1, <3>4, <4>1, ReadLineDoes
    <3> QED  BY <2>1, <3>1, <3>2, <3>3, <3>4
  <2>7. /\ chip'.address = "none" /\ chip'.next \in Halves
        /\ \A f \in Fields : chip'[f] = regs[f]
    <3>1. CASE n = 2
      BY <1>1, <2>3, <2>6, <3>1, WordFetched DEF Halves
    <3>2. CASE n # 2
      BY <2>3, <2>6, <3>2
    <3> QED  BY <3>1, <3>2
  <2>8. DriveAt(n + 1)' /\ PinsAt(n + 1)'
    BY <1>1, <1>6, <2>2, <2>4, <2>5 DEF DriveAt, PinsAt
  <2>9. pins'.reset = 0 => chip' = ChipInReset /\ regs' = ResetRegisters
    <3>1. pins'.reset = 0 => n = 0
      BY <2>1, <2>5
    <3>2. n = 0 => chip = ChipInReset
      BY <1>1, <2>2 DEF At
    <3> QED  BY <1>1, <2>2, <2>6, <3>1, <3>2
  <2>10. ChipAt(n + 1)'
    BY <1>1, <1>6, <2>7 DEF ChipAt, Agree, Halves, Writes
  <2> QED  BY <2>8, <2>9, <2>10 DEF At
<1> QED  BY <1>2, <1>3, <1>4, <1>5, <1>6

LEMMA AccessSteps ==
  ASSUME NEW n, StepFrom(n)
  PROVE  At(n + 1)'
<1>1. job.name \in Writes \cup {"read", "data", "output", "idle", "lift", "reset", "open"}
  BY JobsTyped DEF StepFrom, JobNames
<1> QED  BY <1>1, WriteSteps, ReadSteps, DataSteps, OtherSteps

-----------------------------------------------------------------------------
(***************************************************************************)
(* The last access of a job, and the start of the next one.                *)
(***************************************************************************)
LEMMA LastAccess ==
  ASSUME job \in Jobs, UNCHANGED <<job, jobs>>, At(Length(job))', pins' \in Pins,
         Follows(job, jobs), ops' = <<>>
  PROVE  Between'
<1>1. job.name \in Writes \cup {"read", "data", "output", "idle", "lift", "reset", "open"}
  BY JobsTyped DEF JobNames
<1>2. /\ job.name \in Writes => Length(job) = 9
      /\ job.name = "read" => Length(job) = 20
      /\ job.name = "data" => Length(job) = 10
      /\ job.name = "idle" => Length(job) = 3
      /\ job.name = "open" => Length(job) = 4
      /\ job.name \in {"output", "lift", "reset"} => Length(job) = 1
  BY AccessesTyped DEF Length
<1>3. /\ DriveAt(Length(job))' /\ PinsAt(Length(job))'
      /\ pins'.reset = 0 => chip' = ChipInReset /\ regs' = ResetRegisters
      /\ pins'.reset = 1 => ChipAt(Length(job))'
  BY DEF At
<1>4. job.name # "output" => ~pins'.drive
  BY <1>2, <1>3 DEF DriveAt
<1>5. pins'.reset = 1 =>
        /\ Settled'
        /\ job.name = "read" => got' = <<"register">>
        /\ job.name = "data" => got' = <<"MSB", "LSB">>
  <2>1. SUFFICES ASSUME pins'.reset = 1
                 PROVE  /\ Settled'
                        /\ job.name = "read" => got' = <<"register">>
                        /\ job.name = "data" => got' = <<"MSB", "LSB">>
    OBVIOUS
  <2>2. CASE job.name \in Writes
    <3>1. InWrite(9)' /\ chip'.next \in Halves
      BY <1>2, <1>3, <2>1, <2>2 DEF ChipAt, Halves
    <3> QED  BY <2>2, <3>1 DEF InWrite, Selects, Agree, Settled, Halves, Writes
  <2>3. CASE job.name = "read"
    <3>1. InRead(20)'
      BY <1>2, <1>3, <2>1, <2>3 DEF ChipAt
    <3> QED  BY <2>3, <3>1 DEF InRead, Selects, Reads, Agree, Settled, Halves
  <2>4. CASE job.name = "data"
    <3>1. InData(10)'
      BY <1>2, <1>3, <2>1, <2>4 DEF ChipAt
    <3> QED  BY <2>4, <3>1 DEF InData, Selects, Reads, Agree, Settled, Halves
  <2>5. CASE job.name \in {"output", "idle", "lift", "reset"}
    BY <1>3, <2>1, <2>5 DEF ChipAt
  <2>6. CASE job.name = "open"
    <3>1. pins'.cs = 1 /\ pins'.rd = 1
      BY <1>2, <1>3, <2>6 DEF PinsAt
    <3>2. /\ chip'.address = "none" /\ chip'.next \in Halves
          /\ (\A f \in Fields : Agree(f))'
      BY <1>3, <2>1, <2>6 DEF ChipAt, Halves
    <3> QED  BY <2>6, <3>1, <3>2 DEF Settled, Halves
  <2> QED  BY <1>1, <2>2, <2>3, <2>4, <2>5, <2>6
<1>6. IF jobs = <<>> THEN ~pins'.drive ELSE CanStart(jobs[1])'
  <2>1. CASE jobs = <<>>
    BY <1>4, <2>1 DEF Follows
  <2>2. CASE jobs # <<>>
    <3>. DEFINE k == jobs[1]
    <3>1. Fits(job, k)
      BY <2>2 DEF Follows
    <3>2. k.name \notin {"data", "open"}
      BY <3>1 DEF Fits
    <3>3. k.name = "lift" => pins'.cs = 1 /\ pins'.rd = 1 /\ ~pins'.drive
      <4>1. k.name = "lift" => job.name \in {"idle", "reset"}
        BY <3>1 DEF Fits
      <4> QED  BY <4>1, <1>2, <1>3, <1>4 DEF PinsAt
    <3>4. k.name = "reset" =>
            pins'.cs = 1 /\ pins'.rd = 1 /\ ~pins'.drive /\ regs' = ResetRegisters
      <4>1. k.name = "reset" => job.name = "open"
        BY <3>1 DEF Fits
      <4> QED  BY <4>1, <1>2, <1>3, <1>4 DEF PinsAt
    <3>5. k' = k
      OBVIOUS
    <3>. HIDE DEF k
    <3>6. CanStart(k)'
      BY <3>2, <3>3, <3>4, <3>5 DEF CanStart
    <3> QED  BY <2>2, <3>6 DEF k
  <2> QED  BY <2>1, <2>2
<1> QED  BY <1>3, <1>5, <1>6 DEF Between

LEMMA JobStarts ==
  ASSUME pins \in Pins, chip \in Chips, regs \in RegisterSets, NEW j \in Jobs,
         Between, jobs # <<>>, j = jobs[1],
         job' = j, got' = <<>>, regs' = Registers(regs, j), UNCHANGED <<pins, chip>>
  PROVE  At(0)' /\ regs' \in RegisterSets
<1>1. /\ CanStart(j)
      /\ pins.reset = 0 => chip = ChipInReset /\ regs = ResetRegisters
      /\ pins.reset = 1 => Settled
      /\ pins.reset \in {0, 1}
  BY PinsTyped DEF Between
<1>2. j.name \in Writes \cup {"read", "data", "output", "idle", "lift", "reset", "open"}
  BY JobsTyped DEF JobNames
<1>3. j.word \in Words
  BY JobsTyped
<1>4. pins.reset = 0 => regs' = ResetRegisters
  BY DEF Registers, InReset
<1>5. pins.reset = 1 =>
        /\ regs'.cr1 = IF j.name \in {"write1", "read"} THEN j.word ELSE regs.cr1
        /\ regs'.cr2 = IF j.name = "write2" THEN j.word ELSE regs.cr2
        /\ regs'.offset = IF j.name = "write3" THEN j.word ELSE regs.offset
  BY DEF Registers, InReset
<1>6. regs' \in RegisterSets
  <2>1. ResetRegisters \in RegisterSets
    BY WordsKnown DEF ResetRegisters, RegisterSets, Default1, Default2, Texts
  <2> QED  BY <1>3, <2>1 DEF Registers, RegisterSets
<1>7. DriveAt(0)'
  BY <1>1, <1>2 DEF DriveAt, CanStart
<1>8. PinsAt(0)'
  <2>1. j.name \in {"lift", "reset"} => pins.cs = 1 /\ pins.rd = 1
    BY <1>1 DEF CanStart
  <2>2. j.name = "open" => pins.reset = 0 /\ pins.cs = 0 /\ pins.rd = 0
    BY <1>1 DEF CanStart, PinsLow
  <2>3. j.name \in {"open", "reset"} => regs' = ResetRegisters
    BY <1>1 DEF CanStart, PinsLow, Registers, InReset, ResetRegisters
  <2> QED  BY <2>1, <2>2, <2>3 DEF PinsAt
<1>9. CASE pins.reset = 0
  BY <1>1, <1>4, <1>7, <1>8, <1>9 DEF At
<1>10. CASE pins.reset = 1
  <2>1. /\ pins.cs = 1 /\ pins.rd = 1
        /\ chip.address = "none" /\ chip.next \in Halves
        /\ \A f \in Fields : chip[f] = regs[f]
    BY <1>1, <1>10 DEF Settled, Agree
  <2>2. j.name \in Writes \cup {"read"} => InWrite(0)'
    <3>1. j.name \in Writes \cup {"read"} =>
            /\ regs'[Target(j)] = j.word
            /\ \A f \in Fields : f # Target(j) => regs'[f] = regs[f]
      BY <1>5, <1>10 DEF Writes, Target, Fields
    <3> QED  BY <2>1, <3>1 DEF InWrite, Selects, Agree, Target
  <2>3. j.name \notin Writes \cup {"read"} => \A f \in Fields : regs'[f] = regs[f]
    BY <1>5, <1>10 DEF Writes, Fields
  <2>4. j.name = "read" => InRead(0)'
    BY <2>1, <2>2 DEF InRead, Halves
  <2>5. j.name = "data" => InData(0)'
    <3>1. j.name = "data" => chip.next = "MSB"
      BY <1>1, <1>10 DEF CanStart
    <3> QED  BY <2>1, <2>3, <3>1 DEF InData, Selects, Reads, Agree, Writes
  <2>6. j.name \in {"output", "idle", "lift", "reset"} => Settled'
    BY <2>1, <2>3 DEF Settled, Agree, Halves, Writes
  <2>7. j.name # "open"
    BY <1>1, <1>10 DEF CanStart, PinsLow
  <2>8. ChipAt(0)'
    <3>1. job'.name \in Writes => InWrite(0)' /\ chip'.next \in Halves'
      BY <2>1, <2>2 DEF Halves
    <3>2. /\ job'.name = "read" => InRead(0)'
          /\ job'.name = "data" => InData(0)'
          /\ job'.name \in {"output", "idle", "lift", "reset"} => Settled'
          /\ job'.name # "open"
      BY <2>4, <2>5, <2>6, <2>7
    <3> QED  BY <3>1, <3>2 DEF ChipAt, Writes
  <2> QED  BY <1>6, <1>7, <1>8, <1>10, <2>8 DEF At
<1> QED  BY <1>1, <1>6, <1>9, <1>10

-----------------------------------------------------------------------------
(***************************************************************************)
(* The jobs of each call.                                                  *)
(***************************************************************************)
\* Jobs that may follow any job and come first in a call.
Plain == { j \in Jobs : j.name \in Writes \cup {"read"} }

LEMMA PlainKnown ==
  ASSUME NEW v \in Texts, NEW f \in BOOLEAN
  PROVE  /\ Job("write2", Reg2(v, f)) \in Plain
         /\ Job("write1", Reg1(v, FALSE)) \in Plain
         /\ Job("read", Reg1(v, TRUE)) \in Plain
         /\ Job("write3", Offset) \in Plain
<1>1. /\ Reg2(v, f) \in Words /\ Reg1(v, FALSE) \in Words /\ Reg1(v, TRUE) \in Words
      /\ Offset \in Words
  BY WordsKnown
<1>2. ~Reg1(v, FALSE).flag /\ Reg1(v, TRUE).flag
  BY DEF Reg1, Word
<1> QED  BY <1>1, <1>2 DEF Plain, Jobs, Job, JobNames, Writes

LEMMA PlainChain ==
  ASSUME NEW s \in Seq(Plain)
  PROVE  /\ s \in Seq(Jobs) /\ Chain(s)
         /\ s # <<>> => s[1].name \in Writes \cup {"read"}
<1>1. Len(s) \in Nat /\ \A i \in 1 .. Len(s) : s[i] \in Plain
  BY LenProperties, ElementOfSeq
<1>2. \A i \in 1 .. Len(s) : s[i] \in Jobs /\ s[i].name \in Writes \cup {"read"}
  BY <1>1 DEF Plain
<1>3. s \in Seq(Jobs)
  <2>1. Plain \subseteq Jobs
    BY DEF Plain
  <2> QED  BY <2>1, <1>2, LenProperties
<1>4. s # <<>> => Len(s) > 0
  BY <1>1, EmptySeq
<1>5. \A k \in 1 .. Len(s) - 1 : Fits(s[k], s[k + 1])
  <2>1. SUFFICES ASSUME NEW k \in 1 .. Len(s) - 1 PROVE Fits(s[k], s[k + 1])
    OBVIOUS
  <2>2. k + 1 \in 1 .. Len(s)
    BY <1>1
  <2>3. s[k + 1].name \in Writes \cup {"read"}
    BY <1>2, <2>2
  <2> QED  BY <2>3 DEF Fits, Writes
<1>6. s # <<>> => s[Len(s)].name # "output" /\ s[1].name \in Writes \cup {"read"}
  <2>1. SUFFICES ASSUME s # <<>>
                 PROVE  s[Len(s)].name # "output" /\ s[1].name \in Writes \cup {"read"}
    OBVIOUS
  <2>2. Len(s) \in 1 .. Len(s) /\ 1 \in 1 .. Len(s)
    BY <1>1, <1>4, <2>1
  <2> QED  BY <1>2, <2>2 DEF Writes
<1> QED  BY <1>3, <1>5, <1>6 DEF Chain

LEMMA OnePlain ==
  ASSUME NEW j \in Plain
  PROVE  <<j>> \in Seq(Plain)
OBVIOUS

LEMMA PowerPlain ==
  ASSUME NEW v \in Texts
  PROVE  power_up(v) \in Seq(Plain) /\ power_down(v) \in Seq(Plain)
<1>1. Job("write2", Reg2(v, FALSE)) \in Plain /\ Job("write2", Reg2(v, TRUE)) \in Plain
  BY PlainKnown
<1> QED  BY <1>1, OnePlain DEF power_up, power_down

LEMMA CallsPlain ==
  ASSUME copy1 \in Texts, copy2 \in Texts
  PROVE  /\ read_register \in Seq(Plain) /\ write_offset \in Seq(Plain)
         /\ \A d \in Decimations : change_decimation_rate(d) \in Seq(Plain)
<1>1. power_up(copy2) \in Seq(Plain) /\ power_down(copy2) \in Seq(Plain)
  BY PowerPlain
<1>2. /\ <<Job("read", Reg1(copy1, TRUE))>> \in Seq(Plain)
      /\ <<Job("write3", Offset)>> \in Seq(Plain)
  <2>1. Job("read", Reg1(copy1, TRUE)) \in Plain /\ Job("write3", Offset) \in Plain
    BY PlainKnown
  <2> QED  BY <2>1, OnePlain
<1>3. ASSUME NEW a \in Seq(Plain), NEW b \in Seq(Plain)
      PROVE  a \o b \in Seq(Plain)
  BY ConcatProperties
<1>4. read_register \in Seq(Plain)
  BY <1>1, <1>2, <1>3 DEF read_register
<1>5. write_offset \in Seq(Plain)
  BY <1>1, <1>2, <1>3, <1>4 DEF write_offset
<1>6. ASSUME NEW d \in Decimations
      PROVE  change_decimation_rate(d) \in Seq(Plain)
  <2>1. Job("write1", Reg1(d, FALSE)) \in Plain
    BY PlainKnown DEF Texts
  <2>2. <<Job("write1", Reg1(d, FALSE))>> \in Seq(Plain)
    BY <2>1, OnePlain
  <2> QED  BY <1>1, <1>3, <2>2 DEF change_decimation_rate
<1> QED  BY <1>4, <1>5, <1>6

LEMMA SimpleKnown ==
  ASSUME NEW name \in {"data", "output", "idle", "lift", "reset", "open"}
  PROVE  Simple(name) \in Jobs /\ Simple(name).name = name
<1>1. Zero \in Words
  BY WordsKnown
<1> QED  BY <1>1 DEF Simple, Job, Jobs, JobNames

LEMMA SetupChain == setup \in Seq(Jobs) /\ Chain(setup) /\ setup[1].name = "output"
<1>. DEFINE two == Job("write2", Reg2("set", FALSE))
            one == Job("write1", Reg1("5", FALSE))
            down == Job("write2", Reg2("set", TRUE))
<1>1. /\ two \in Jobs /\ two.name = "write2" /\ one \in Jobs /\ one.name = "write1"
      /\ down \in Jobs /\ down.name = "write2"
  <2>1. "set" \in Texts /\ "5" \in Texts
    BY DEF Texts
  <2>2. two \in Plain /\ one \in Plain /\ down \in Plain
    BY <2>1, PlainKnown
  <2> QED  BY <2>2 DEF Plain, Job
<1>2. /\ Simple("output") \in Jobs /\ Simple("idle") \in Jobs /\ Simple("lift") \in Jobs
      /\ Simple("output").name = "output" /\ Simple("idle").name = "idle"
      /\ Simple("lift").name = "lift"
  BY SimpleKnown
<1>3. setup = <<Simple("output"), two, one, Simple("idle"), Simple("lift")>> \o <<down>>
  BY DEF setup, power_down
<1>. HIDE DEF two, one, down
<1>4. setup \in Seq(Jobs) /\ Len(setup) = 6
  BY <1>1, <1>2, <1>3
<1>5. /\ setup[1] = Simple("output") /\ setup[2] = two /\ setup[3] = one
      /\ setup[4] = Simple("idle") /\ setup[5] = Simple("lift") /\ setup[6] = down
  BY <1>3
<1>6. /\ Fits(setup[1], setup[2]) /\ Fits(setup[2], setup[3]) /\ Fits(setup[3], setup[4])
      /\ Fits(setup[4], setup[5]) /\ Fits(setup[5], setup[6])
  BY <1>1, <1>2, <1>5 DEF Fits
<1>7. \A k \in 1 .. 6 - 1 : Fits(setup[k], setup[k + 1])
  <2>1. \A k \in 1 .. 6 - 1 : k \in {1, 2, 3, 4, 5}
    OBVIOUS
  <2> QED  BY <1>6, <2>1
<1>8. setup[6].name # "output"
  BY <1>1, <1>5
<1>9. Chain(setup)
  BY <1>4, <1>7, <1>8 DEF Chain
<1> QED  BY <1>2, <1>4, <1>5, <1>9

LEMMA ConstructorChain ==
  Constructor \in Seq(Jobs) /\ Chain(Constructor) /\ Constructor[1].name = "open"
<1>. DEFINE down == Job("write2", Reg2("0", TRUE))
<1>1. down \in Jobs /\ down.name = "write2"
  <2>1. down \in Plain
    BY PlainKnown DEF Texts
  <2> QED  BY <2>1 DEF Plain, Job
<1>2. /\ Simple("open") \in Jobs /\ Simple("reset") \in Jobs /\ Simple("lift") \in Jobs
      /\ Simple("open").name = "open" /\ Simple("reset").name = "reset"
      /\ Simple("lift").name = "lift"
  BY SimpleKnown
<1>3. Constructor = <<Simple("open"), Simple("reset"), Simple("lift")>> \o <<down>>
  BY DEF Constructor, power_down
<1>. HIDE DEF down
<1>4. Constructor \in Seq(Jobs) /\ Len(Constructor) = 4
  BY <1>1, <1>2, <1>3
<1>5. /\ Constructor[1] = Simple("open") /\ Constructor[2] = Simple("reset")
      /\ Constructor[3] = Simple("lift") /\ Constructor[4] = down
  BY <1>3
<1>6. /\ Fits(Constructor[1], Constructor[2]) /\ Fits(Constructor[2], Constructor[3])
      /\ Fits(Constructor[3], Constructor[4])
  BY <1>1, <1>2, <1>5 DEF Fits
<1>7. \A k \in 1 .. 4 - 1 : Fits(Constructor[k], Constructor[k + 1])
  <2>1. \A k \in 1 .. 4 - 1 : k \in {1, 2, 3}
    OBVIOUS
  <2> QED  BY <1>6, <2>1
<1>8. Constructor[4].name # "output"
  BY <1>1, <1>5
<1>9. Chain(Constructor)
  BY <1>4, <1>7, <1>8 DEF Chain
<1> QED  BY <1>2, <1>4, <1>5, <1>9

LEMMA TailChain ==
  ASSUME NEW s \in Seq(Jobs), s # <<>>, Chain(s)
  PROVE  /\ Head(s) = s[1] /\ Head(s) \in Jobs
         /\ Tail(s) \in Seq(Jobs) /\ Chain(Tail(s)) /\ Follows(Head(s), Tail(s))
<1>. DEFINE t == Tail(s)
<1>1. /\ Head(s) \in Jobs /\ t \in Seq(Jobs) /\ Len(t) = Len(s) - 1
      /\ \A i \in 1 .. Len(t) : t[i] = s[i + 1]
  BY HeadTailProperties
<1>2. Head(s) = s[1]
  OBVIOUS
<1>3. Len(s) \in Nat /\ Len(s) > 0
  BY LenProperties, EmptySeq
<1>. HIDE DEF t
<1>4. /\ \A k \in 1 .. Len(s) - 1 : Fits(s[k], s[k + 1])
      /\ s[Len(s)].name # "output"
  BY DEF Chain
<1>5. \A k \in 1 .. Len(t) - 1 : Fits(t[k], t[k + 1])
  <2>1. SUFFICES ASSUME NEW k \in 1 .. Len(t) - 1 PROVE Fits(t[k], t[k + 1])
    OBVIOUS
  <2>2. k \in 1 .. Len(t) /\ k + 1 \in 1 .. Len(t) /\ k + 1 \in 1 .. Len(s) - 1
    BY <1>1, <1>3
  <2>3. t[k] = s[k + 1] /\ t[k + 1] = s[(k + 1) + 1]
    BY <1>1, <2>2
  <2>4. Fits(s[k + 1], s[(k + 1) + 1])
    BY <1>4, <2>2
  <2> QED  BY <2>3, <2>4
<1>6. t # <<>> => Len(t) > 0
  BY <1>1, LenProperties, EmptySeq
<1>7. t # <<>> => t[Len(t)].name # "output"
  <2>1. SUFFICES ASSUME t # <<>> PROVE t[Len(t)].name # "output"
    OBVIOUS
  <2>2. Len(t) \in 1 .. Len(t) /\ Len(t) + 1 = Len(s)
    BY <1>1, <1>3, <1>6, <2>1
  <2> QED  BY <1>1, <1>4, <2>2
<1>8. Follows(Head(s), t)
  <2>1. CASE t = <<>>
    <3>1. Len(s) = 1
      BY <1>1, <1>3, <2>1, EmptySeq
    <3> QED  BY <1>2, <1>4, <2>1, <3>1 DEF Follows
  <2>2. CASE t # <<>>
    <3>1. 1 \in 1 .. Len(t) /\ 1 \in 1 .. Len(s) - 1 /\ 1 + 1 = 2
      BY <1>1, <1>3, <1>6, <2>2
    <3>2. t[1] = s[2] /\ Fits(s[1], s[2])
      BY <1>1, <1>4, <3>1
    <3> QED  BY <1>2, <2>2, <3>2 DEF Follows
  <2> QED  BY <2>1, <2>2
<1>9. Chain(t)
  BY <1>5, <1>7 DEF Chain
<1> QED  BY <1>1, <1>2, <1>8, <1>9 DEF t

-----------------------------------------------------------------------------
(***************************************************************************)
(* The invariant is inductive.                                             *)
(***************************************************************************)
LEMMA RunningNotDone == Running => ops # <<>>
<1>1. SUFFICES ASSUME Running PROVE ops # <<>>
  OBVIOUS
<1>2. job \in Jobs /\ \E n \in 0 .. Length(job) - 1 : ops = Rest(job, n)
  BY <1>1 DEF Running
<1> QED  BY <1>2, RestGoes

\* The state without the pins' history: at the start and after every break.
Fresh ==
  /\ pins = PinsLow /\ chip = ChipInReset
  /\ jobs \in {Constructor, <<>>} /\ ops = <<>>
  /\ job = Simple("none")
  /\ copy1 = "0" /\ copy2 = "0"
  /\ regs = ResetRegisters

LEMMA FreshHolds == Fresh => BusInv
<1>1. SUFFICES ASSUME Fresh PROVE BusInv
  OBVIOUS
<1>2. Zero \in Words /\ Default1 \in Words /\ Default2 \in Words
  BY WordsKnown DEF Default1, Default2, Texts
<1>3. pins \in Pins /\ chip \in Chips /\ regs \in RegisterSets
  BY <1>1, <1>2 DEF Fresh, Pins, Chips, RegisterSets, PinsLow, ChipInReset, ResetRegisters
<1>4. copy1 \in Texts /\ copy2 \in Texts
  BY <1>1 DEF Fresh, Texts
<1>5. jobs \in Seq(Jobs) /\ Chain(jobs) /\ (jobs # <<>> => jobs[1].name = "open")
  <2>1. CASE jobs = Constructor
    BY <2>1, ConstructorChain
  <2>2. CASE jobs = <<>>
    <3>1. <<>> \in Seq(Jobs) /\ Len(<<>>) = 0
      BY EmptySeq
    <3> QED  BY <2>2, <3>1 DEF Chain
  <2> QED  BY <1>1, <2>1, <2>2 DEF Fresh
<1>6. TypeInv
  BY <1>1, <1>3, <1>4, <1>5 DEF TypeInv, Fresh
<1>7. /\ pins.reset = 0 /\ ~pins.drive /\ pins = PinsLow
      /\ chip = ChipInReset /\ regs = ResetRegisters
  BY <1>1 DEF Fresh, PinsLow
<1>8. Between
  <2>1. IF jobs = <<>> THEN ~pins.drive ELSE CanStart(jobs[1])
    BY <1>5, <1>7 DEF CanStart
  <2>2. ops = <<>> /\ pins.reset # 1
    BY <1>1, <1>7 DEF Fresh
  <2> QED  BY <1>7, <2>1, <2>2 DEF Between
<1> QED  BY <1>5, <1>6, <1>8 DEF BusInv

LEMMA BreakHolds == Break => BusInv'
<1>1. Break => Fresh'
  BY DEF Break, Fresh
<1>2. (Fresh => BusInv)'
  BY FreshHolds, PTL
<1> QED  BY <1>1, <1>2

LEMMA CallHolds ==
  ASSUME BusInv, NEW s \in Seq(Jobs), Chain(s),
         s # <<>> => s[1].name \in Writes \cup {"read", "output"},
         Call(s), copy1' \in Texts, copy2' \in Texts
  PROVE  BusInv'
<1>1. /\ TypeInv /\ jobs = <<>> /\ ops = <<>> /\ jobs' = s
      /\ UNCHANGED <<pins, chip, ops, got, job, regs>>
  BY DEF BusInv, Call
<1>2. Between
  BY <1>1, RunningNotDone DEF BusInv
<1>3. TypeInv' /\ Chain(jobs)'
  BY <1>1 DEF TypeInv, Chain
<1>4. IF jobs' = <<>> THEN ~pins'.drive ELSE CanStart(jobs[1])'
  <2>1. ~pins.drive
    BY <1>1, <1>2 DEF Between
  <2>2. jobs' # <<>> => CanStart(jobs[1])'
    BY <1>1 DEF CanStart, Writes
  <2> QED  BY <1>1, <2>1, <2>2
<1>5. Between'
  <2>1. /\ ops' = <<>>
        /\ pins'.reset = 0 => chip' = ChipInReset /\ regs' = ResetRegisters
        /\ pins'.reset = 1 /\ job'.name = "read" => got' = <<"register">>
        /\ pins'.reset = 1 /\ job'.name = "data" => got' = <<"MSB", "LSB">>
    BY <1>1, <1>2 DEF Between
  <2>2. pins'.reset = 1 => Settled'
    BY <1>1, <1>2 DEF Between, Settled, Agree, Halves
  <2> QED  BY <1>4, <2>1, <2>2 DEF Between
<1> QED  BY <1>3, <1>5 DEF BusInv

LEMMA DataWordHolds ==
  ASSUME BusInv, CallDataWord
  PROVE  BusInv'
<1>1. /\ TypeInv /\ jobs = <<>> /\ ops = <<>>
      /\ jobs' = <<Simple("data")>>
      /\ chip' = IF chip.next = "LSB" THEN [chip EXCEPT !.next = "MSB"] ELSE chip
      /\ UNCHANGED <<pins, ops, got, job, copy1, copy2, regs>>
  BY DEF BusInv, CallDataWord
<1>2. Between
  BY <1>1, RunningNotDone DEF BusInv
<1>3. chip \in Chips
  BY <1>1 DEF TypeInv
<1>4. /\ chip' \in Chips /\ chip'.address = chip.address
      /\ \A f \in Fields : chip'[f] = chip[f]
      /\ chip'.next = IF chip.next = "LSB" THEN "MSB" ELSE chip.next
  BY <1>1, <1>3 DEF Chips, Fields
<1>5. jobs' \in Seq(Jobs) /\ Len(jobs') = 1 /\ jobs'[1] = Simple("data")
      /\ Simple("data").name = "data"
  <2>1. Simple("data") \in Jobs /\ Simple("data").name = "data"
    BY SimpleKnown
  <2> QED  BY <1>1, <2>1
<1>6. TypeInv'
  BY <1>1, <1>4, <1>5 DEF TypeInv
<1>7. Chain(jobs)'
  BY <1>5 DEF Chain
<1>8. ~pins.drive
  BY <1>1, <1>2 DEF Between
<1>9. pins'.reset = 0 => chip' = ChipInReset /\ regs' = ResetRegisters
  <2>1. pins.reset = 0 => chip = ChipInReset /\ regs = ResetRegisters
    BY <1>2 DEF Between
  <2> QED  BY <1>1, <2>1 DEF ChipInReset
<1>10. pins'.reset = 1 => Settled' /\ chip'.next = "MSB"
  <2>1. pins.reset = 1 => Settled
    BY <1>2 DEF Between
  <2> QED  BY <1>1, <1>4, <2>1 DEF Settled, Agree, Halves
<1>11. CanStart(jobs[1])'
  BY <1>1, <1>5, <1>8, <1>10 DEF CanStart
<1>12. jobs' # <<>>
  BY <1>1
<1>13. Between'
  <2>1. /\ ops' = <<>>
        /\ pins'.reset = 1 /\ job'.name = "read" => got' = <<"register">>
        /\ pins'.reset = 1 /\ job'.name = "data" => got' = <<"MSB", "LSB">>
    BY <1>1, <1>2 DEF Between
  <2> QED  BY <1>9, <1>10, <1>11, <1>12, <2>1 DEF Between
<1> QED  BY <1>6, <1>7, <1>13 DEF BusInv

LEMMA StartHolds ==
  ASSUME BusInv, StartJob
  PROVE  BusInv'
<1>. DEFINE j == Head(jobs)
<1>1. /\ TypeInv /\ Chain(jobs) /\ ops = <<>> /\ jobs # <<>>
      /\ ops' = Accesses(j) /\ job' = j /\ jobs' = Tail(jobs) /\ got' = <<>>
      /\ regs' = Registers(regs, j) /\ UNCHANGED <<pins, chip, copy1, copy2>>
  BY DEF BusInv, StartJob
<1>2. Between
  BY <1>1, RunningNotDone DEF BusInv
<1>3. jobs \in Seq(Jobs) /\ pins \in Pins /\ chip \in Chips /\ regs \in RegisterSets
  BY <1>1 DEF TypeInv
<1>4. /\ j = jobs[1] /\ j \in Jobs
      /\ Tail(jobs) \in Seq(Jobs) /\ Chain(Tail(jobs)) /\ Follows(j, Tail(jobs))
  BY <1>1, <1>3, TailChain
<1>. HIDE DEF j
<1>5. At(0)' /\ regs' \in RegisterSets
  BY <1>1, <1>2, <1>3, <1>4, JobStarts
<1>6. TypeInv'
  BY <1>1, <1>4, <1>5 DEF TypeInv
<1>7. Chain(jobs)'
  BY <1>1, <1>4 DEF Chain
<1>8. Running'
  <2>1. 0 \in 0 .. Length(j) - 1 /\ Rest(j, 0) = Accesses(j)
    BY <1>4, LengthsPositive, RestGoes
  <2>2. job' \in Jobs /\ ops' = Rest(j, 0)
    BY <1>1, <1>4, <2>1
  <2>3. Rest(job, 0)' = Rest(j, 0) /\ Length(job)' = Length(j)
    BY <1>1 DEF Rest, Length, Accesses
  <2>4. Follows(job, jobs)'
    BY <1>1, <1>4 DEF Follows
  <2>5. \E n \in 0 .. Length(job)' - 1 : ops' = Rest(job, n)' /\ At(n)'
    BY <1>5, <2>1, <2>2, <2>3
  <2> QED  BY <2>2, <2>4, <2>5 DEF Running
<1> QED  BY <1>6, <1>7, <1>8 DEF BusInv

LEMMA AccessHolds ==
  ASSUME BusInv, Access
  PROVE  BusInv'
<1>1. /\ TypeInv /\ Chain(jobs) /\ ops # <<>> /\ ops' = Tail(ops)
      /\ UNCHANGED <<jobs, job, copy1, copy2, regs>>
  BY DEF BusInv, Access
<1>2. Running
  BY <1>1 DEF BusInv, Between
<1>3. job \in Jobs /\ Follows(job, jobs)
  BY <1>2 DEF Running
<1>4. PICK n \in 0 .. Length(job) - 1 : ops = Rest(job, n) /\ At(n)
  BY <1>2 DEF Running
<1>5. Length(job) \in Nat /\ Length(job) > 0
  BY <1>3, LengthsPositive
<1>6. /\ Head(ops) = Accesses(job)[n + 1]
      /\ ops' = Rest(job, n + 1)
      /\ Rest(job, Length(job)) = <<>>
  BY <1>1, <1>3, <1>4, RestGoes
<1>7. StepFrom(n)
  BY <1>1, <1>3, <1>4, <1>6 DEF StepFrom, TypeInv
<1>8. At(n + 1)' /\ pins' \in Pins /\ chip' \in Chips
  BY <1>7, AccessSteps, StepKeeps
<1>9. TypeInv'
  BY <1>1, <1>8 DEF TypeInv
<1>10. Chain(jobs)'
  BY <1>1 DEF Chain
<1>11. CASE n + 1 = Length(job)
  <2>1. At(Length(job))' /\ ops' = <<>>
    BY <1>1, <1>6, <1>8, <1>11 DEF Length, Accesses
  <2>2. Between'
    BY <1>1, <1>3, <1>8, <2>1, LastAccess
  <2> QED  BY <1>9, <1>10, <2>2 DEF BusInv
<1>12. CASE n + 1 # Length(job)
  <2>1. n + 1 \in 0 .. Length(job) - 1
    BY <1>4, <1>5, <1>12
  <2>2. Rest(job, n + 1)' = Rest(job, n + 1) /\ Length(job)' = Length(job)
    BY <1>1 DEF Rest, Length, Accesses
  <2>3. Follows(job, jobs)'
    BY <1>1, <1>3 DEF Follows
  <2>4. \E k \in 0 .. Length(job)' - 1 : ops' = Rest(job, k)' /\ At(k)'
    BY <1>6, <1>8, <2>1, <2>2
  <2>5. Running'
    BY <1>1, <1>3, <2>3, <2>4 DEF Running
  <2> QED  BY <1>9, <1>10, <2>5 DEF BusInv
<1> QED  BY <1>11, <1>12

LEMMA BusInvariant == Spec => []BusInv
<1>1. Init => BusInv
  BY FreshHolds DEF Init, Fresh
<1>2. BusInv /\ [Next]_busVars => BusInv'
  <2>1. SUFFICES ASSUME BusInv, [Next]_busVars PROVE BusInv'
    OBVIOUS
  <2>2. copy1 \in Texts /\ copy2 \in Texts
    BY <2>1 DEF BusInv, TypeInv
  <2>3. CASE Break
    BY <2>3, BreakHolds
  <2>4. CASE CallSetup
    <3>1. Call(setup) /\ copy1' = "5" /\ copy2' = "set"
      BY <2>4 DEF CallSetup
    <3>2. copy1' \in Texts /\ copy2' \in Texts
      BY <3>1 DEF Texts
    <3> QED  BY <2>1, <3>1, <3>2, SetupChain, CallHolds
  <2>5. CASE CallChangeDecimation
    <3>1. PICK d \in Decimations :
            Call(change_decimation_rate(d)) /\ copy1' = d /\ copy2' = copy2
      BY <2>5 DEF CallChangeDecimation
    <3>2. copy1' \in Texts /\ copy2' \in Texts
      BY <2>2, <3>1 DEF Texts
    <3>3. change_decimation_rate(d) \in Seq(Plain)
      BY <2>2, CallsPlain
    <3> QED  BY <2>1, <3>1, <3>2, <3>3, PlainChain, CallHolds
  <2>6. CASE CallReadRegister
    <3>1. Call(read_register) /\ copy1' \in Texts /\ copy2' \in Texts
      BY <2>2, <2>6 DEF CallReadRegister
    <3>2. read_register \in Seq(Plain)
      BY <2>2, CallsPlain
    <3> QED  BY <2>1, <3>1, <3>2, PlainChain, CallHolds
  <2>7. CASE CallWriteOffset
    <3>1. Call(write_offset) /\ copy1' \in Texts /\ copy2' \in Texts
      BY <2>2, <2>7 DEF CallWriteOffset
    <3>2. write_offset \in Seq(Plain)
      BY <2>2, CallsPlain
    <3> QED  BY <2>1, <3>1, <3>2, PlainChain, CallHolds
  <2>8. CASE CallPower
    <3>1. /\ Call(power_up(copy2)) \/ Call(power_down(copy2))
          /\ copy1' \in Texts /\ copy2' \in Texts
      BY <2>2, <2>8 DEF CallPower
    <3>2. power_up(copy2) \in Seq(Plain) /\ power_down(copy2) \in Seq(Plain)
      BY <2>2, PowerPlain
    <3>3. CASE Call(power_up(copy2))
      BY <2>1, <3>1, <3>2, <3>3, PlainChain, CallHolds
    <3>4. CASE Call(power_down(copy2))
      BY <2>1, <3>1, <3>2, <3>4, PlainChain, CallHolds
    <3> QED  BY <3>1, <3>3, <3>4
  <2>9. CASE CallDataWord
    BY <2>1, <2>9, DataWordHolds
  <2>10. CASE StartJob
    BY <2>1, <2>10, StartHolds
  <2>11. CASE Access
    BY <2>1, <2>11, AccessHolds
  <2>12. CASE UNCHANGED busVars
    <3>1. UNCHANGED <<pins, chip, jobs, ops, got, job, copy1, copy2, regs>>
      BY <2>12 DEF busVars
    <3>2. TypeInv' /\ Chain(jobs)'
      BY <2>1, <3>1 DEF BusInv, TypeInv, Chain
    <3>3. Settled => Settled'
      BY <3>1 DEF Settled, Agree, Halves
    <3>4. CASE Between
      <4>1. jobs # <<>> => CanStart(jobs[1])'
        BY <3>1, <3>4 DEF Between, CanStart
      <4>2. Between'
        BY <3>1, <3>3, <3>4, <4>1 DEF Between
      <4> QED  BY <3>2, <4>2 DEF BusInv
    <3>5. CASE Running
      <4>1. PICK n \in 0 .. Length(job) - 1 : ops = Rest(job, n) /\ At(n)
        BY <3>5 DEF Running
      <4>2. /\ Length(job)' = Length(job) /\ Rest(job, n)' = Rest(job, n)
            /\ (Follows(job, jobs) => Follows(job, jobs)')
        BY <3>1 DEF Length, Rest, Accesses, Follows
      <4>3. DriveAt(n)' /\ PinsAt(n)'
        BY <3>1, <4>1 DEF At, DriveAt, PinsAt
      <4>4. /\ \A k : InWrite(k) => InWrite(k)'
            /\ InRead(n) => InRead(n)'
            /\ InData(n) => InData(n)'
        BY <3>1 DEF InWrite, InRead, InData, Selects, Reads, Agree, Halves, Target, Number
      <4>5. ChipAt(n) => ChipAt(n)'
        BY <3>1, <3>3, <4>4 DEF ChipAt, Agree, Halves
      <4>6. At(n)'
        BY <3>1, <4>1, <4>3, <4>5 DEF At
      <4>7. Running'
        BY <3>1, <3>5, <4>1, <4>2, <4>6 DEF Running
      <4> QED  BY <3>2, <4>7 DEF BusInv
    <3> QED  BY <2>1, <3>4, <3>5 DEF BusInv
  <2> QED
    BY <2>1, <2>3, <2>4, <2>5, <2>6, <2>7, <2>8, <2>9, <2>10, <2>11, <2>12 DEF Next
<1> QED  BY <1>1, <1>2, PTL DEF Spec

-----------------------------------------------------------------------------
(***************************************************************************)
(* The theorems.                                                           *)
(***************************************************************************)
LEMMA DriverIsAlone == BusInv => NoContention
<1>1. SUFFICES ASSUME BusInv, pins.drive, ChipDrives(pins) PROVE FALSE
  BY DEF NoContention
<1>2. /\ pins \in Pins /\ pins.reset # 0 /\ pins.cs = 0 /\ pins.rd = 0
  BY <1>1 DEF BusInv, TypeInv, ChipDrives, InReset
<1>3. pins.reset = 1
  BY <1>2, PinsTyped
<1>4. Running
  BY <1>1, <1>2, <1>3 DEF BusInv, Between, Settled
<1>5. PICK n \in 0 .. Length(job) - 1 : At(n)
  BY <1>4 DEF Running
<1>6. n \in Nat
  <2>1. Length(job) \in Nat
    BY <1>4, LengthsPositive DEF Running
  <2> QED  BY <2>1
<1>7. DriveAt(n) /\ PinsAt(n) /\ ChipAt(n)
  BY <1>3, <1>5 DEF At
<1>8. CASE job.name \in Writes
  BY <1>2, <1>7, <1>8 DEF ChipAt, InWrite
<1>9. CASE job.name = "read"
  <2>1. n < 12 /\ InRead(n)
    BY <1>1, <1>7, <1>9 DEF DriveAt, ChipAt, Writes
  <2>2. InWrite(0) \/ InWrite(n - 3)
    BY <1>6, <2>1 DEF InRead
  <2> QED  BY <1>2, <2>2 DEF InWrite
<1>10. CASE job.name \in {"output", "idle"}
  BY <1>2, <1>7, <1>10 DEF ChipAt, Settled
<1>11. CASE job.name = "open"
  BY <1>1, <1>2, <1>3, <1>7, <1>11 DEF DriveAt, PinsAt, Writes
<1> QED  BY <1>1, <1>7, <1>8, <1>9, <1>10, <1>11 DEF DriveAt

\* The microcontroller never drives the bus while the converter does: wherever
\* adc.cpp selects the converter with the read line low, an earlier access has
\* made the port an input, and a break in the middle of any access leaves the
\* converter in reset, where it drives nothing.
THEOREM BusHasOneDriver == Spec => []NoContention
BY BusInvariant, DriverIsAlone, PTL

\* After each register access of adc.cpp, whole, the registers of the converter
\* hold what Firmware takes the access to have done in one step.
THEOREM JobsAreWhole == Spec => []JobsAreAtomic
<1>1. BusInv => JobsAreAtomic
  <2>1. SUFFICES ASSUME BusInv, ops = <<>>
                 PROVE  /\ \A r \in {"cr1", "cr2", "offset"} : chip[r] = regs[r]
                        /\ chip.address = "none"
    BY DEF JobsAreAtomic
  <2>2. Between /\ pins.reset \in {0, 1}
    BY <2>1, RunningNotDone, PinsTyped DEF BusInv, TypeInv
  <2>3. CASE pins.reset = 0
    BY <2>2, <2>3 DEF Between, ChipInReset, ResetRegisters
  <2>4. CASE pins.reset = 1
    BY <2>2, <2>4 DEF Between, Settled, Agree, Fields
  <2> QED  BY <2>2, <2>3, <2>4
<1> QED  BY <1>1, BusInvariant, PTL

\* read_adc_reg returns the register it asked for, read_data_word the two halves
\* of one sample in their order, whatever calls and breaks came before.
THEOREM ReadsReturnWhatWasAsked == Spec => []ReadsWhatWasAsked
<1>1. BusInv => ReadsWhatWasAsked
  BY RunningNotDone DEF BusInv, Between, ReadsWhatWasAsked
<1> QED  BY <1>1, BusInvariant, PTL
=============================================================================
