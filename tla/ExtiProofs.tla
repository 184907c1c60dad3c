------------------------------ MODULE ExtiProofs ------------------------------
(***************************************************************************)
(* Proofs about Exti.  The system is finite and TLC checks all of it; what *)
(* the proofs add is the reason, point by point of the driver's code.      *)
(***************************************************************************)
EXTENDS Exti, SequenceTheorems, TLAPS

-----------------------------------------------------------------------------
(***************************************************************************)
(* The inductive invariant: what the accesses that a handler has yet to do *)
(* say about the registers.                                                *)
(***************************************************************************)
\* As gpio_irq_init leaves it, as enable leaves it, as disable leaves it.
Untouched == /\ ~reg.trigger /\ ~reg.event /\ reg.unmasked /\ reg.nvic_enabled
             /\ ~reg.flag
Armed     == /\ reg.trigger /\ reg.event /\ reg.unmasked /\ reg.nvic_enabled
             /\ reg.rise
Disarmed  == ~reg.trigger /\ ~reg.unmasked /\ ~reg.nvic_enabled

AtRest == todo = <<>> /\ (Untouched \/ Armed \/ Disarmed)

Starting ==
  \/ todo = rise \o gpio_irq_enable
  \/ todo = <<"trigger", "event">> \o gpio_irq_enable /\ reg.rise
  \/ todo = <<"event">> \o gpio_irq_enable /\ reg.rise /\ reg.trigger
  \/ todo = gpio_irq_enable /\ reg.rise /\ reg.trigger /\ reg.event
  \/ /\ todo \in {<<"restore", "nvic_enable">>, <<"nvic_enable">>}
     /\ reg.rise /\ reg.trigger /\ reg.event /\ reg.unmasked

Stopping ==
  \/ todo = gpio_irq_disable
  \/ todo = <<"mask", "nvic_disable", "nvic_clear">> /\ ~reg.trigger
  \/ todo = <<"nvic_disable", "nvic_clear">> /\ ~reg.trigger /\ ~reg.unmasked
  \/ todo = <<"nvic_clear">> /\ Disarmed

\* Until it is taken, the flag that was served keeps the NVIC from latching.
Handling ==
  \/ /\ todo \in { handle_interrupt_in(callback) : callback \in Callbacks }
     /\ Armed /\ reg.flag /\ ~reg.nvic_pending
  \/ /\ todo \in { <<"take", "level">> \o callback : callback \in Callbacks }
     /\ Armed /\ reg.flag /\ ~reg.nvic_pending
  \/ /\ todo \in { <<"level">> \o callback : callback \in Callbacks }
     /\ Armed

ControlInv ==
  \/ running = "none" /\ AtRest
  \/ running = "uart" /\ (Starting \/ Stopping \/ AtRest)
  \/ running = "exti" /\ (Handling \/ Stopping \/ AtRest)

\* An interrupt is pending in the NVIC only with its flag, which the first
\* access of the handler finds.
DriverInv ==
  /\ level \in BOOLEAN
  /\ reg \in Registers
  /\ reg.nvic_pending => reg.flag
  /\ ControlInv

-----------------------------------------------------------------------------
(***************************************************************************)
(* The accesses one after the other.                                       *)
(***************************************************************************)
AccessNames ==
  {"set_rise", "trigger", "event", "unmask", "restore", "untrigger", "mask", "nvic_enable",
   "nvic_disable", "nvic_clear", "look", "take", "level"}

\* In t the next access is one, and after it there is rest.
Goes(t, one, rest) == t # <<>> /\ Head(t) = one /\ Tail(t) = rest

LEMMA OneThenRest ==
  ASSUME NEW S, NEW one \in S, NEW rest \in Seq(S)
  PROVE  Goes(<<one>> \o rest, one, rest)
<1>. DEFINE whole == <<one>> \o rest
<1>1. <<one>> \in Seq(S) /\ Len(<<one>>) = 1 /\ <<one>>[1] = one
  OBVIOUS
<1>2. /\ whole \in Seq(S) /\ Len(rest) \in Nat /\ Len(whole) = 1 + Len(rest)
      /\ \A i \in 1 .. 1 + Len(rest) : whole[i] = IF i <= 1 THEN one ELSE rest[i - 1]
  <2>1. /\ whole \in Seq(S) /\ Len(whole) = Len(<<one>>) + Len(rest)
        /\ \A i \in 1 .. Len(<<one>>) + Len(rest) :
             whole[i] = IF i <= Len(<<one>>) THEN <<one>>[i] ELSE rest[i - Len(<<one>>)]
    BY <1>1, ConcatProperties
  <2>2. Len(rest) \in Nat
    BY LenProperties
  <2> QED  BY <1>1, <2>1, <2>2
<1>. HIDE DEF whole
<1>3. whole # <<>> /\ whole[1] = one
  BY <1>2, EmptySeq
<1>4. /\ Head(whole) = one
      /\ Tail(whole) \in Seq(S) /\ Len(Tail(whole)) = Len(rest)
      /\ \A i \in 1 .. Len(rest) : Tail(whole)[i] = whole[i + 1]
  BY <1>2, <1>3, HeadTailProperties
<1>5. \A i \in 1 .. Len(rest) : Tail(whole)[i] = rest[i]
  BY <1>2, <1>4
<1>6. Tail(whole) = rest
  BY <1>4, <1>5, SeqEqual
<1> QED  BY <1>3, <1>4, <1>6 DEF Goes, whole

LEMMA StartGoes ==
  /\ Goes(rise \o gpio_irq_enable, "set_rise", <<"trigger", "event">> \o gpio_irq_enable)
  /\ Goes(<<"trigger", "event">> \o gpio_irq_enable, "trigger", <<"event">> \o gpio_irq_enable)
  /\ Goes(<<"event">> \o gpio_irq_enable, "event", gpio_irq_enable)
  /\ Goes(gpio_irq_enable, "unmask", <<"restore", "nvic_enable">>)
  /\ Goes(<<"restore", "nvic_enable">>, "restore", <<"nvic_enable">>)
  /\ Goes(<<"nvic_enable">>, "nvic_enable", <<>>)
<1>1. Goes(rise \o gpio_irq_enable, "set_rise", <<"trigger", "event">> \o gpio_irq_enable)
  BY DEF Goes, rise, gpio_irq_enable
<1>2. Goes(<<"trigger", "event">> \o gpio_irq_enable, "trigger", <<"event">> \o gpio_irq_enable)
  BY DEF Goes, gpio_irq_enable
<1>3. Goes(<<"event">> \o gpio_irq_enable, "event", gpio_irq_enable)
  <2>1. gpio_irq_enable \in Seq(AccessNames) /\ "event" \in AccessNames
    BY DEF gpio_irq_enable, AccessNames
  <2> QED  BY <2>1, OneThenRest
<1>4. Goes(gpio_irq_enable, "unmask", <<"restore", "nvic_enable">>)
  BY DEF Goes, gpio_irq_enable
<1>5. /\ Goes(<<"restore", "nvic_enable">>, "restore", <<"nvic_enable">>)
      /\ Goes(<<"nvic_enable">>, "nvic_enable", <<>>)
  BY DEF Goes
<1> QED  BY <1>1, <1>2, <1>3, <1>4, <1>5

LEMMA StopGoes ==
  /\ Goes(gpio_irq_disable, "untrigger", <<"mask", "nvic_disable", "nvic_clear">>)
  /\ Goes(<<"mask", "nvic_disable", "nvic_clear">>, "mask", <<"nvic_disable", "nvic_clear">>)
  /\ Goes(<<"nvic_disable", "nvic_clear">>, "nvic_disable", <<"nvic_clear">>)
  /\ Goes(<<"nvic_clear">>, "nvic_clear", <<>>)
BY DEF Goes, gpio_irq_disable

LEMMA HandlingGoes ==
  ASSUME NEW callback \in Callbacks
  PROVE  /\ Goes(handle_interrupt_in(callback), "look", <<"take", "level">> \o callback)
         /\ Goes(<<"take", "level">> \o callback, "take", <<"level">> \o callback)
         /\ Goes(<<"level">> \o callback, "level", callback)
<1>1. callback \in Seq(AccessNames) /\ "level" \in AccessNames
  <2>1. stop_sampling \in Seq(AccessNames) /\ <<>> \in Seq(AccessNames)
    BY EmptySeq DEF stop_sampling, gpio_irq_disable, AccessNames
  <2> QED  BY <2>1 DEF Callbacks, AccessNames
<1>2. Goes(<<"level">> \o callback, "level", callback)
  BY <1>1, OneThenRest
<1>3. Goes(<<"take", "level">> \o callback, "take", <<"level">> \o callback)
  BY DEF Goes, Callbacks, stop_sampling, gpio_irq_disable
<1>4. Goes(handle_interrupt_in(callback), "look", <<"take", "level">> \o callback)
  BY DEF Goes, Callbacks, stop_sampling, gpio_irq_disable, handle_interrupt_in
<1> QED  BY <1>2, <1>3, <1>4

-----------------------------------------------------------------------------
(***************************************************************************)
(* One access.                                                             *)
(***************************************************************************)
LEMMA EffectTypes ==
  ASSUME reg \in Registers, NEW access \in AccessNames
  PROVE  Effect(reg, access) \in Registers
<1>1. CASE access = "restore"
  <2>1. Effect(reg, access) = [reg EXCEPT !.trigger = @ \/ reg.event]
    BY <1>1 DEF Effect
  <2> QED  BY <2>1 DEF Registers
<1>2. CASE access \in {"set_rise", "trigger", "event", "unmask"}
  BY <1>2 DEF Effect, Registers
<1>3. CASE access \in {"untrigger", "mask", "nvic_enable", "nvic_disable"}
  BY <1>3 DEF Effect, Registers
<1>4. CASE access \in {"nvic_clear", "look", "take", "level"}
  BY <1>4 DEF Effect, Registers
<1> QED  BY <1>1, <1>2, <1>3, <1>4 DEF AccessNames

\* new is r after an access, but for the pending bit of the NVIC.
Changed(new, r, access) ==
  /\ r.rise \/ access = "set_rise" => new.rise
  /\ r.event \/ access = "event" => new.event
  /\ r.trigger /\ access # "untrigger" => new.trigger
  /\ access = "trigger" => new.trigger
  /\ ~r.trigger /\ access \notin {"trigger", "restore"} => ~new.trigger
  /\ ~r.trigger /\ ~r.event /\ access # "trigger" => ~new.trigger
  /\ access = "untrigger" => ~new.trigger
  /\ r.unmasked /\ access # "mask" => new.unmasked
  /\ access = "unmask" => new.unmasked
  /\ ~r.unmasked /\ access # "unmask" => ~new.unmasked
  /\ access = "mask" => ~new.unmasked
  /\ r.nvic_enabled /\ access # "nvic_disable" => new.nvic_enabled
  /\ access = "nvic_enable" => new.nvic_enabled
  /\ ~r.nvic_enabled /\ access # "nvic_enable" => ~new.nvic_enabled
  /\ access = "nvic_disable" => ~new.nvic_enabled
  /\ r.flag /\ access # "take" => new.flag
  /\ ~r.flag => ~new.flag
  /\ access = "take" => ~new.flag

LEMMA EffectOf ==
  ASSUME reg \in Registers, NEW access \in AccessNames
  PROVE  /\ Changed(Effect(reg, access), reg, access)
         /\ Effect(reg, access).nvic_pending => reg.nvic_pending
<1>1. CASE access = "restore"
  <2>1. Effect(reg, access) = [reg EXCEPT !.trigger = @ \/ reg.event]
    BY <1>1 DEF Effect
  <2> QED  BY <1>1, <2>1 DEF Registers, Changed
<1>2. CASE access = "set_rise"
  <2>1. Effect(reg, access) = [reg EXCEPT !.rise = TRUE]
    BY <1>2 DEF Effect
  <2> QED  BY <1>2, <2>1 DEF Registers, Changed
<1>3. CASE access = "trigger"
  <2>1. Effect(reg, access) = [reg EXCEPT !.trigger = TRUE]
    BY <1>3 DEF Effect
  <2> QED  BY <1>3, <2>1 DEF Registers, Changed
<1>4. CASE access = "event"
  <2>1. Effect(reg, access) = [reg EXCEPT !.event = TRUE]
    BY <1>4 DEF Effect
  <2> QED  BY <1>4, <2>1 DEF Registers, Changed
<1>5. CASE access = "unmask"
  <2>1. Effect(reg, access) = [reg EXCEPT !.unmasked = TRUE]
    BY <1>5 DEF Effect
  <2> QED  BY <1>5, <2>1 DEF Registers, Changed
<1>6. CASE access = "untrigger"
  <2>1. Effect(reg, access) = [reg EXCEPT !.trigger = FALSE]
    BY <1>6 DEF Effect
  <2> QED  BY <1>6, <2>1 DEF Registers, Changed
<1>7. CASE access = "mask"
  <2>1. Effect(reg, access) = [reg EXCEPT !.unmasked = FALSE]
    BY <1>7 DEF Effect
  <2> QED  BY <1>7, <2>1 DEF Registers, Changed
<1>8. CASE access = "nvic_enable"
  <2>1. Effect(reg, access) = [reg EXCEPT !.nvic_enabled = TRUE]
    BY <1>8 DEF Effect
  <2> QED  BY <1>8, <2>1 DEF Registers, Changed
<1>9. CASE access = "nvic_disable"
  <2>1. Effect(reg, access) = [reg EXCEPT !.nvic_enabled = FALSE]
    BY <1>9 DEF Effect
  <2> QED  BY <1>9, <2>1 DEF Registers, Changed
<1>10. CASE access = "nvic_clear"
  <2>1. Effect(reg, access) = [reg EXCEPT !.nvic_pending = FALSE]
    BY <1>10 DEF Effect
  <2> QED  BY <1>10, <2>1 DEF Registers, Changed
<1>11. CASE access = "take"
  <2>1. Effect(reg, access) = [reg EXCEPT !.flag = FALSE]
    BY <1>11 DEF Effect
  <2> QED  BY <1>11, <2>1 DEF Registers, Changed
<1>12. CASE access \in {"look", "level"}
  <2>1. Effect(reg, access) = reg
    BY <1>12 DEF Effect
  <2> QED  BY <1>12, <2>1 DEF Registers, Changed
<1> QED
  BY <1>1, <1>2, <1>3, <1>4, <1>5, <1>6, <1>7, <1>8, <1>9, <1>10, <1>11, <1>12 DEF AccessNames

\* The NVIC latches an input that rises; nothing else comes of it.
LEMMA LatchedOf ==
  ASSUME NEW r \in Registers
  PROVE  /\ Latched(r) \in Registers
         /\ Latched(r) = [r EXCEPT !.nvic_pending = Latched(r).nvic_pending]
         /\ Latched(r).nvic_pending => r.nvic_pending \/ (r.flag /\ ~Asserted(reg))
<1>1. CASE Asserted(r) /\ ~Asserted(reg)
  <2>1. Latched(r) = [r EXCEPT !.nvic_pending = TRUE]
    BY <1>1 DEF Latched
  <2>2. r.flag
    BY <1>1 DEF Asserted
  <2> QED  BY <1>1, <2>1, <2>2 DEF Registers
<1>2. CASE ~(Asserted(r) /\ ~Asserted(reg))
  <2>1. Latched(r) = r
    BY <1>2 DEF Latched
  <2>2. r = [r EXCEPT !.nvic_pending = r.nvic_pending]
    BY DEF Registers
  <2>3. Latched(r) = [r EXCEPT !.nvic_pending = Latched(r).nvic_pending]
    BY <2>1, <2>2
  <2> QED  BY <2>1, <2>3
<1> QED  BY <1>1, <1>2

LEMMA AccessChanges ==
  ASSUME reg \in Registers, NEW access \in AccessNames, reg' = Latched(Effect(reg, access)),
         reg.nvic_pending => reg.flag
  PROVE  /\ reg' \in Registers /\ Changed(reg', reg, access)
         /\ (access = "take" => ~reg.nvic_pending) => (reg'.nvic_pending => reg'.flag)
<1>. DEFINE r == Effect(reg, access)
<1>1. r \in Registers /\ Changed(r, reg, access) /\ (r.nvic_pending => reg.nvic_pending)
  BY EffectTypes, EffectOf
<1>2. reg' = Latched(r)
  OBVIOUS
<1>. HIDE DEF r
<1>3. /\ reg' \in Registers /\ reg' = [r EXCEPT !.nvic_pending = reg'.nvic_pending]
      /\ reg'.nvic_pending => r.nvic_pending \/ (r.flag /\ ~Asserted(reg))
  BY <1>1, <1>2, LatchedOf
<1>4. /\ reg'.rise = r.rise /\ reg'.event = r.event /\ reg'.trigger = r.trigger
      /\ reg'.unmasked = r.unmasked /\ reg'.nvic_enabled = r.nvic_enabled
      /\ reg'.flag = r.flag
  BY <1>1, <1>3 DEF Registers
<1>5. Changed(reg', reg, access)
  BY <1>1, <1>4 DEF Changed
<1>6. ASSUME access = "take" => ~reg.nvic_pending, reg'.nvic_pending  PROVE r.flag
  <2>1. CASE r.nvic_pending
    BY <1>1, <1>6, <2>1 DEF Changed
  <2> QED  BY <1>3, <1>6, <2>1
<1> QED  BY <1>3, <1>4, <1>5, <1>6

LEMMA StartingGoes ==
  ASSUME Starting
  PROVE  \E one \in AccessNames \ {"look", "level"} : \E rest : Goes(todo, one, rest)
<1>1. ASSUME NEW one \in AccessNames \ {"look", "level"}, NEW rest, Goes(todo, one, rest)
      PROVE  \E o \in AccessNames \ {"look", "level"} : \E r : Goes(todo, o, r)
  BY <1>1
<1>2. CASE todo = rise \o gpio_irq_enable
  BY <1>1, <1>2, StartGoes DEF AccessNames
<1>3. CASE todo = <<"trigger", "event">> \o gpio_irq_enable
  BY <1>1, <1>3, StartGoes DEF AccessNames
<1>4. CASE todo = <<"event">> \o gpio_irq_enable
  BY <1>1, <1>4, StartGoes DEF AccessNames
<1>5. CASE todo = gpio_irq_enable
  BY <1>1, <1>5, StartGoes DEF AccessNames
<1>6. CASE todo = <<"restore", "nvic_enable">>
  BY <1>1, <1>6, StartGoes DEF AccessNames
<1>7. CASE todo = <<"nvic_enable">>
  BY <1>1, <1>7, StartGoes DEF AccessNames
<1> QED  BY <1>2, <1>3, <1>4, <1>5, <1>6, <1>7 DEF Starting

LEMMA StoppingGoes ==
  ASSUME Stopping
  PROVE  \E one \in AccessNames \ {"look", "level"} : \E rest : Goes(todo, one, rest)
<1>1. ASSUME NEW one \in AccessNames \ {"look", "level"}, NEW rest, Goes(todo, one, rest)
      PROVE  \E o \in AccessNames \ {"look", "level"} : \E r : Goes(todo, o, r)
  BY <1>1
<1>2. CASE todo = gpio_irq_disable
  BY <1>1, <1>2, StopGoes DEF AccessNames
<1>3. CASE todo = <<"mask", "nvic_disable", "nvic_clear">>
  BY <1>1, <1>3, StopGoes DEF AccessNames
<1>4. CASE todo = <<"nvic_disable", "nvic_clear">>
  BY <1>1, <1>4, StopGoes DEF AccessNames
<1>5. CASE todo = <<"nvic_clear">>
  BY <1>1, <1>5, StopGoes DEF AccessNames
<1> QED  BY <1>2, <1>3, <1>4, <1>5 DEF Stopping

\* Which access comes next says where in the code the handler is.
LEMMA AtAccess ==
  ASSUME DriverInv, todo # <<>>, running \in {"uart", "exti"}
  PROVE  \/ running = "uart" /\ Starting
         \/ Stopping
         \/ running = "exti" /\ Handling
BY DEF DriverInv, ControlInv, AtRest

LEMMA AccessInv ==
  ASSUME DriverInv, DriverAccess
  PROVE  DriverInv'
<1>. DEFINE access == Head(todo)
<1>0. /\ reg' = Latched(Effect(reg, access)) /\ todo' = Tail(todo) /\ todo # <<>>
      /\ running \in {"uart", "exti"} /\ running' = running /\ level' = level
      /\ access # "look" /\ access # "level" /\ access \in AccessNames
      /\ reg \in Registers /\ level \in BOOLEAN /\ (reg.nvic_pending => reg.flag)
  BY DEF DriverAccess, Step, DriverInv, AccessNames
<1>. HIDE DEF access
<1>1. /\ reg' \in Registers /\ Changed(reg', reg, access)
      /\ (access = "take" => ~reg.nvic_pending) => (reg'.nvic_pending => reg'.flag)
  BY <1>0, AccessChanges
<1>2. ASSUME NEW one, NEW rest, Goes(todo, one, rest)
      PROVE  access = one /\ todo' = rest
  BY <1>0, <1>2 DEF Goes, access
<1>3. CASE running = "uart" /\ Starting
  <2>1. access # "take" /\ (Starting \/ AtRest)'
    <3>1. CASE todo = rise \o gpio_irq_enable
      <4>1. access = "set_rise" /\ todo' = <<"trigger", "event">> \o gpio_irq_enable
        BY <1>2, <3>1, StartGoes
      <4> QED  BY <1>1, <4>1 DEF Changed, Starting
    <3>2. CASE todo = <<"trigger", "event">> \o gpio_irq_enable /\ reg.rise
      <4>1. access = "trigger" /\ todo' = <<"event">> \o gpio_irq_enable
        BY <1>2, <3>2, StartGoes
      <4>2. reg'.rise /\ reg'.trigger
        BY <1>1, <3>2, <4>1 DEF Changed
      <4> QED  BY <4>1, <4>2 DEF Starting
    <3>3. CASE todo = <<"event">> \o gpio_irq_enable /\ reg.rise /\ reg.trigger
      <4>1. access = "event" /\ todo' = gpio_irq_enable
        BY <1>2, <3>3, StartGoes
      <4>2. reg'.rise /\ reg'.trigger /\ reg'.event
        BY <1>1, <3>3, <4>1 DEF Changed
      <4> QED  BY <4>1, <4>2 DEF Starting
    <3>4. CASE todo = gpio_irq_enable /\ reg.rise /\ reg.trigger /\ reg.event
      <4>1. access = "unmask" /\ todo' = <<"restore", "nvic_enable">>
        BY <1>2, <3>4, StartGoes
      <4>2. reg'.rise /\ reg'.trigger /\ reg'.event /\ reg'.unmasked
        BY <1>1, <3>4, <4>1 DEF Changed
      <4> QED  BY <4>1, <4>2 DEF Starting
    <3>5. CASE /\ todo = <<"restore", "nvic_enable">>
               /\ reg.rise /\ reg.trigger /\ reg.event /\ reg.unmasked
      <4>1. access = "restore" /\ todo' = <<"nvic_enable">>
        BY <1>2, <3>5, StartGoes
      <4> QED  BY <1>1, <3>5, <4>1 DEF Changed, Starting
    <3>6. CASE /\ todo = <<"nvic_enable">>
               /\ reg.rise /\ reg.trigger /\ reg.event /\ reg.unmasked
      <4>1. access = "nvic_enable" /\ todo' = <<>>
        BY <1>2, <3>6, StartGoes
      <4>2. reg'.rise /\ reg'.trigger /\ reg'.event /\ reg'.unmasked /\ reg'.nvic_enabled
        BY <1>1, <3>6, <4>1 DEF Changed
      <4> QED  BY <4>1, <4>2 DEF AtRest, Armed
    <3> QED  BY <1>3, <3>1, <3>2, <3>3, <3>4, <3>5, <3>6 DEF Starting
  <2> QED  BY <1>0, <1>1, <1>3, <2>1 DEF DriverInv, ControlInv
<1>4. CASE Stopping
  <2>1. access # "take" /\ (Stopping \/ AtRest)'
    <3>1. CASE todo = gpio_irq_disable
      <4>1. access = "untrigger" /\ todo' = <<"mask", "nvic_disable", "nvic_clear">>
        BY <1>2, <3>1, StopGoes
      <4> QED  BY <1>1, <4>1 DEF Changed, Stopping
    <3>2. CASE todo = <<"mask", "nvic_disable", "nvic_clear">> /\ ~reg.trigger
      <4>1. access = "mask" /\ todo' = <<"nvic_disable", "nvic_clear">>
        BY <1>2, <3>2, StopGoes
      <4> QED  BY <1>1, <3>2, <4>1 DEF Changed, Stopping
    <3>3. CASE todo = <<"nvic_disable", "nvic_clear">> /\ ~reg.trigger /\ ~reg.unmasked
      <4>1. access = "nvic_disable" /\ todo' = <<"nvic_clear">>
        BY <1>2, <3>3, StopGoes
      <4> QED  BY <1>1, <3>3, <4>1 DEF Changed, Stopping, Disarmed
    <3>4. CASE todo = <<"nvic_clear">> /\ Disarmed
      <4>1. access = "nvic_clear" /\ todo' = <<>>
        BY <1>2, <3>4, StopGoes
      <4> QED  BY <1>1, <3>4, <4>1 DEF Changed, AtRest, Disarmed
    <3> QED  BY <1>4, <3>1, <3>2, <3>3, <3>4 DEF Stopping
  <2> QED  BY <1>0, <1>1, <2>1 DEF DriverInv, ControlInv
<1>5. CASE running = "exti" /\ Handling
  <2>1. PICK callback \in Callbacks :
          /\ todo = <<"take", "level">> \o callback
          /\ Armed /\ reg.flag /\ ~reg.nvic_pending
    BY <1>0, <1>2, <1>5, HandlingGoes DEF Handling
  <2>2. access = "take" /\ todo' = <<"level">> \o callback
    BY <1>2, <2>1, HandlingGoes
  <2>3. Armed'
    BY <1>1, <2>1, <2>2 DEF Changed, Armed
  <2>4. Handling'
    BY <2>2, <2>3 DEF Handling
  <2> QED  BY <1>0, <1>1, <1>5, <2>1, <2>2, <2>4 DEF DriverInv, ControlInv
<1> QED  BY <1>0, <1>3, <1>4, <1>5, AtAccess

-----------------------------------------------------------------------------
(***************************************************************************)
(* The other steps.                                                        *)
(***************************************************************************)
LEMMA EdgeInv ==
  ASSUME DriverInv, PinRises \/ PinFalls
  PROVE  DriverInv'
<1>1. CASE PinFalls
  BY <1>1 DEF PinFalls, DriverInv, ControlInv, AtRest, Untouched, Armed, Disarmed, Starting,
              Stopping, Handling
<1>2. CASE PinRises
  <2>0. reg \in Registers /\ (reg.nvic_pending => reg.flag)
    BY DEF DriverInv
  <2>. DEFINE r == [reg EXCEPT !.flag = @ \/ reg.trigger]
  <2>1. /\ r \in Registers /\ r.flag = (reg.flag \/ reg.trigger)
        /\ r.nvic_pending = reg.nvic_pending
        /\ r.rise = reg.rise /\ r.event = reg.event /\ r.trigger = reg.trigger
        /\ r.unmasked = reg.unmasked /\ r.nvic_enabled = reg.nvic_enabled
    BY <2>0 DEF Registers
  <2>2. reg' = Latched(r) /\ UNCHANGED <<running, todo>> /\ level' = TRUE
    BY <1>2 DEF PinRises
  <2>. HIDE DEF r
  <2>3. /\ reg' \in Registers /\ reg'.flag = (reg.flag \/ reg.trigger)
        /\ reg'.nvic_pending => reg'.flag
        /\ reg'.rise = reg.rise /\ reg'.event = reg.event /\ reg'.trigger = reg.trigger
        /\ reg'.unmasked = reg.unmasked /\ reg'.nvic_enabled = reg.nvic_enabled
        /\ reg.flag /\ reg.unmasked => reg'.nvic_pending = reg.nvic_pending
    BY <2>0, <2>1, <2>2 DEF Latched, Asserted, Registers
  <2>4. /\ Untouched => Untouched'
        /\ Armed => Armed'
        /\ Disarmed => Disarmed'
    BY <2>0, <2>3 DEF Untouched, Armed, Disarmed, Registers
  <2>5. Starting => Starting'
    BY <2>2, <2>3 DEF Starting
  <2>6. Stopping => Stopping'
    BY <2>2, <2>3, <2>4 DEF Stopping
  <2>7. Handling => Handling'
    BY <2>0, <2>2, <2>3, <2>4 DEF Handling, Armed, Registers
  <2>8. ControlInv'
    BY <2>2, <2>4, <2>5, <2>6, <2>7 DEF DriverInv, ControlInv, AtRest
  <2> QED  BY <2>2, <2>3, <2>8 DEF DriverInv
<1> QED  BY <1>1, <1>2

LEMMA TakeInv ==
  ASSUME DriverInv, TakeUart \/ TakeExti
  PROVE  DriverInv'
<1>1. CASE TakeUart
  <2>1. Starting' \/ Stopping' \/ AtRest'
    <3>1. CASE todo' = <<>>
      BY <1>1, <3>1 DEF TakeUart, DriverInv, ControlInv, AtRest, Untouched, Armed, Disarmed
    <3> QED  BY <1>1, <3>1 DEF TakeUart, start_sampling, stop_sampling, Starting, Stopping
  <2> QED  BY <1>1, <2>1 DEF TakeUart, DriverInv, ControlInv
<1>2. CASE TakeExti
  <2>1. /\ AtRest /\ reg.nvic_enabled /\ reg.nvic_pending /\ reg.flag
        /\ reg' = [reg EXCEPT !.nvic_pending = FALSE]
        /\ running' = "exti" /\ level' = level /\ reg \in Registers
    BY <1>2 DEF TakeExti, DriverInv, ControlInv
  <2>2. Armed
    BY <2>1 DEF AtRest, Untouched, Disarmed
  <2>3. reg' \in Registers /\ reg'.flag /\ ~reg'.nvic_pending /\ Armed'
    BY <2>1, <2>2 DEF Registers, Armed
  <2>4. Handling'
    BY <1>2, <2>3 DEF TakeExti, Handling
  <2> QED  BY <2>1, <2>3, <2>4 DEF DriverInv, ControlInv
<1> QED  BY <1>1, <1>2

LEMMA LookInv ==
  ASSUME DriverInv, LookAtFlag \/ LookAtLevel
  PROVE  DriverInv'
<1>0. /\ UNCHANGED <<reg, level>> /\ todo # <<>> /\ running \in {"uart", "exti"}
      /\ Head(todo) \in {"look", "level"}
  BY DEF LookAtFlag, LookAtLevel, Step
<1>1. running = "exti" /\ Handling
  <2>1. ASSUME NEW one, NEW rest, Goes(todo, one, rest)  PROVE one \in {"look", "level"}
    BY <1>0, <2>1 DEF Goes
  <2>2. ~Starting
    BY <2>1, StartingGoes
  <2>3. ~Stopping
    BY <2>1, StoppingGoes
  <2> QED  BY <1>0, <2>2, <2>3, AtAccess
<1>2. Armed => Armed'
  BY <1>0 DEF Armed
<1>3. PICK callback \in Callbacks :
        \/ todo = handle_interrupt_in(callback) /\ Armed /\ reg.flag /\ ~reg.nvic_pending
        \/ todo = <<"take", "level">> \o callback
        \/ todo = <<"level">> \o callback /\ Armed
  BY <1>1 DEF Handling
<1>4. CASE LookAtFlag
  <2>1. todo' = Tail(todo) /\ Head(todo) = "look" /\ running' = IF reg.flag THEN running ELSE "error"
    BY <1>4 DEF LookAtFlag, Step
  <2>2. todo = handle_interrupt_in(callback) /\ Armed /\ reg.flag /\ ~reg.nvic_pending
    BY <1>3, <2>1, HandlingGoes DEF Goes
  <2>3. todo' = <<"take", "level">> \o callback /\ running' = "exti"
    BY <1>1, <2>1, <2>2, HandlingGoes DEF Goes
  <2>4. Handling'
    BY <1>0, <1>2, <2>2, <2>3 DEF Handling
  <2> QED  BY <1>0, <2>3, <2>4 DEF DriverInv, ControlInv
<1>5. CASE LookAtLevel
  <2>1. /\ Head(todo) = "level" /\ running' = running
        /\ todo' = IF level /\ reg.rise THEN Tail(todo) ELSE <<>>
    BY <1>5 DEF LookAtLevel, Step
  <2>2. todo = <<"level">> \o callback /\ Armed
    BY <1>3, <2>1, HandlingGoes DEF Goes
  <2>3. todo' \in {callback, <<>>}
    BY <2>1, <2>2, HandlingGoes DEF Goes
  <2>4. Stopping' \/ AtRest'
    BY <1>2, <2>2, <2>3 DEF Callbacks, stop_sampling, Stopping, AtRest
  <2> QED  BY <1>0, <1>1, <2>1, <2>4 DEF DriverInv, ControlInv
<1> QED  BY <1>4, <1>5

LEMMA ReturnInv ==
  ASSUME DriverInv, Return
  PROVE  DriverInv'
<1>1. /\ todo = <<>> /\ running \in {"uart", "exti"} /\ running' = "none"
      /\ reg' = [reg EXCEPT !.nvic_pending = @ \/ (running = "exti" /\ Asserted(reg))]
      /\ UNCHANGED <<level, todo>> /\ reg \in Registers /\ (reg.nvic_pending => reg.flag)
  BY DEF Return, DriverInv
<1>2. AtRest
  <2>1. ASSUME NEW one, NEW rest, Goes(todo, one, rest)  PROVE FALSE
    BY <1>1, <2>1 DEF Goes
  <2>2. ~Starting
    BY <2>1, StartingGoes
  <2>3. ~Stopping
    BY <2>1, StoppingGoes
  <2>4. ~Handling
    BY <2>1, HandlingGoes DEF Handling
  <2> QED  BY <1>1, <2>2, <2>3, <2>4 DEF DriverInv, ControlInv
<1>3. /\ reg' \in Registers /\ (reg'.nvic_pending => reg'.flag)
      /\ Untouched' = Untouched /\ Armed' = Armed /\ Disarmed' = Disarmed
  BY <1>1 DEF Asserted, Registers, Untouched, Armed, Disarmed
<1>4. AtRest'
  BY <1>1, <1>2, <1>3 DEF AtRest
<1> QED  BY <1>1, <1>3, <1>4 DEF DriverInv, ControlInv

-----------------------------------------------------------------------------
(***************************************************************************)
(* The invariant, and what follows from it.                                *)
(***************************************************************************)
LEMMA InitDriver ==
  ASSUME Init
  PROVE  DriverInv
<1>1. /\ reg \in Registers /\ ~reg.nvic_pending /\ Untouched
      /\ level \in BOOLEAN /\ running = "none" /\ todo = <<>>
  BY DEF Init, Registers, Untouched
<1> QED  BY <1>1 DEF DriverInv, ControlInv, AtRest

LEMMA StepDriver ==
  ASSUME DriverInv, [Next]_extiVars
  PROVE  DriverInv'
<1>1. CASE UNCHANGED extiVars
  BY <1>1 DEF extiVars, DriverInv, ControlInv, AtRest, Untouched, Armed, Disarmed, Starting,
              Stopping, Handling
<1> QED  BY <1>1, EdgeInv, TakeInv, LookInv, AccessInv, ReturnInv DEF Next, Handler

LEMMA DriverInvariant == Spec => []DriverInv
<1>1. Init => DriverInv
  BY InitDriver
<1>2. DriverInv /\ [Next]_extiVars => DriverInv'
  BY StepDriver
<1> QED  BY <1>1, <1>2, PTL DEF Spec

\* At rest the interrupt is as gpio_irq_init, enable or disable left it.
THEOREM AlwaysArmedAsAWhole == Spec => []ArmedAsAWhole
<1>1. DriverInv => ArmedAsAWhole
  BY DEF DriverInv, ControlInv, AtRest, Untouched, Armed, Disarmed, ArmedAsAWhole
<1> QED  BY <1>1, DriverInvariant, PTL

\* The handler always finds the flag that it was called for.
THEOREM NeverSpurious == Spec => []NoSpuriousInterrupt
<1>1. DriverInv => NoSpuriousInterrupt
  BY DEF DriverInv, ControlInv, NoSpuriousInterrupt
<1> QED  BY <1>1, DriverInvariant, PTL

-----------------------------------------------------------------------------
(***************************************************************************)
(* The driver implements DataReady, step by step.                          *)
(***************************************************************************)
LEMMA AccessArms ==
  ASSUME DriverInv, DriverAccess
  PROVE  [Abstract!Next]_<<reg.trigger, reg.flag>>
<1>. DEFINE access == Head(todo)
<1>0. /\ reg' = Latched(Effect(reg, access)) /\ access \in AccessNames /\ todo # <<>>
      /\ running \in {"uart", "exti"} /\ reg \in Registers /\ reg' \in Registers
      /\ (reg.nvic_pending => reg.flag)
      /\ access # "look" /\ access # "level"
  BY AccessInv DEF DriverAccess, Step, DriverInv, AccessNames
<1>. HIDE DEF access
<1>1. Changed(reg', reg, access)
  BY <1>0, AccessChanges
<1>2. CASE access = "take"
  <2>1. Armed /\ reg.flag
    <3>1. ASSUME NEW one, NEW rest, Goes(todo, one, rest)  PROVE one = "take"
      BY <1>2, <3>1 DEF Goes, access
    <3>2. ~(running = "uart" /\ Starting)
      BY <3>1, StartGoes DEF Starting
    <3>3. ~Stopping
      BY <3>1, StopGoes DEF Stopping
    <3>4. Handling
      BY <1>0, <3>2, <3>3, AtAccess
    <3> QED  BY <3>1, <3>4, HandlingGoes DEF Handling
  <2>2. reg.trigger = TRUE /\ reg'.trigger = TRUE /\ reg.flag = TRUE /\ reg'.flag = FALSE
    BY <1>0, <1>1, <1>2, <2>1 DEF Changed, Armed, Registers
  <2> QED  BY <2>2 DEF Abstract!Next, Abstract!Serve
<1>3. CASE access # "take"
  <2>1. reg'.flag = reg.flag
    BY <1>0, <1>1, <1>3 DEF Changed, Registers
  <2>2. reg'.trigger \in BOOLEAN
    BY <1>0 DEF Registers
  <2> QED  BY <2>1, <2>2 DEF Abstract!Next, Abstract!Arm, Abstract!Disarm
<1> QED  BY <1>2, <1>3

LEMMA EdgeArms ==
  ASSUME DriverInv, PinRises
  PROVE  [Abstract!Next]_<<reg.trigger, reg.flag>>
<1>. DEFINE r == [reg EXCEPT !.flag = @ \/ reg.trigger]
<1>1. /\ reg \in Registers /\ r \in Registers /\ reg' = Latched(r)
      /\ r.trigger = reg.trigger /\ r.flag = (reg.flag \/ reg.trigger)
  BY DEF DriverInv, PinRises, Registers
<1>. HIDE DEF r
<1>2. Latched(r) = [r EXCEPT !.nvic_pending = Latched(r).nvic_pending]
  BY <1>1, LatchedOf
<1>3. reg'.trigger = r.trigger /\ reg'.flag = r.flag
  BY <1>1, <1>2 DEF Registers
<1>4. CASE reg.trigger
  <2>1. reg.trigger = TRUE /\ reg'.trigger = TRUE /\ reg'.flag = TRUE
    BY <1>1, <1>3, <1>4 DEF Registers
  <2> QED  BY <2>1 DEF Abstract!Next, Abstract!Edge
<1>5. CASE ~reg.trigger
  <2>1. reg'.flag = reg.flag /\ reg'.trigger = reg.trigger
    BY <1>1, <1>3, <1>5 DEF Registers
  <2> QED  BY <2>1
<1> QED  BY <1>4, <1>5

\* The safety half of ImplementsDataReady: an edge is remembered once and
\* served only while the interrupt is armed.
THEOREM DriverIsDataReady ==
  Spec => Abstract!Init /\ [][Abstract!Next]_<<reg.trigger, reg.flag>>
<1>1. Init => Abstract!Init
  BY DEF Init, Abstract!Init
<1>2. DriverInv /\ [Next]_extiVars => [Abstract!Next]_<<reg.trigger, reg.flag>>
  <2>. SUFFICES ASSUME DriverInv, [Next]_extiVars
                PROVE  [Abstract!Next]_<<reg.trigger, reg.flag>>
    OBVIOUS
  <2>1. CASE \/ PinFalls \/ TakeUart \/ TakeExti \/ LookAtFlag \/ LookAtLevel \/ Return
             \/ UNCHANGED extiVars
    <3>1. reg'.trigger = reg.trigger /\ reg'.flag = reg.flag
      BY <2>1 DEF PinFalls, TakeUart, TakeExti, LookAtFlag, LookAtLevel, Return, extiVars,
                  DriverInv, Registers
    <3> QED  BY <3>1
  <2> QED  BY <2>1, AccessArms, EdgeArms DEF Next, Handler
<1> QED  BY <1>1, <1>2, DriverInvariant, PTL DEF Spec
=============================================================================
