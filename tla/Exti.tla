-------------------------------- MODULE Exti --------------------------------
(***************************************************************************)
(* The interrupt of the pin notDataReady as mbed OS drives it: class       *)
(* InterruptIn and the STM32 driver gpio_irq_api.c below it, one register  *)
(* access at a time, against edges that arrive between any two of them.    *)
(*                                                                         *)
(* rise, enable_irq and disable_irq are only called from interrupt         *)
(* handlers: control_signals (UART) and collect_samples (this interrupt).  *)
(* Both have one priority, so one handler runs at a time and a driver call *)
(* is interleaved with the hardware alone.                                 *)
(***************************************************************************)
EXTENDS Sequences

VARIABLES
  level,    \* the DRDY pin is high
  reg,      \* the registers and the driver's memory of the pin, see Registers
  running,  \* the handler that runs: "none", "uart", "exti" or "error"
  todo      \* the accesses that it has yet to do

extiVars == <<level, reg, running, todo>>

Registers ==
  [trigger      : BOOLEAN,   \* EXTI: a rising edge sets the flag
   flag         : BOOLEAN,   \* EXTI: the pending flag of the line
   unmasked     : BOOLEAN,   \* EXTI: the flag goes on to the NVIC
   nvic_enabled : BOOLEAN,
   nvic_pending : BOOLEAN,
   event        : BOOLEAN,   \* obj->event has IRQ_RISE
   rise         : BOOLEAN]   \* _rise is set

\* InterruptIn::rise with a function, and gpio_irq_set.
rise == <<"set_rise", "trigger", "event">>

\* Mutant: enabling forgets an old edge, once it is unmasked.
gpio_irq_enable_forgets == <<"unmask", "take", "restore", "nvic_enable">>

gpio_irq_enable == <<"unmask", "restore", "nvic_enable">>

\* Mutant: the line stays unmasked in the EXTI.
gpio_irq_disable_unmasked == <<"untrigger", "nvic_disable", "nvic_clear">>

gpio_irq_disable == <<"untrigger", "mask", "nvic_disable", "nvic_clear">>

\* start_sampling and stop_sampling of adc.cpp, as far as they use the pin.
start_sampling == rise \o gpio_irq_enable
stop_sampling  == gpio_irq_disable

\* Mutant: the flag is cleared when the handler is done.
handle_interrupt_in_late(callback) == <<"look", "level">> \o callback \o <<"take">>

\* handle_interrupt_in: the flag is looked at and cleared, the level decides
\* which edge it was, and _irq_handler runs the callback of that edge.
handle_interrupt_in(callback) == <<"look", "take", "level">> \o callback

\* collect_samples stores a sample, or stops the sampling.
Callbacks == { <<>>, stop_sampling }

\* gpio_irq_init has enabled the interrupt, with no edge selected.
Init ==
  /\ level \in BOOLEAN
  /\ reg = [trigger |-> FALSE, flag |-> FALSE, unmasked |-> TRUE,
            nvic_enabled |-> TRUE, nvic_pending |-> FALSE,
            event |-> FALSE, rise |-> FALSE]
  /\ running = "none"
  /\ todo = <<>>

-----------------------------------------------------------------------------
\* The NVIC's input from the EXTI.
Asserted(r) == r.flag /\ r.unmasked

\* The NVIC latches its input when it rises.
Latched(r) ==
  IF Asserted(r) /\ ~Asserted(reg) THEN [r EXCEPT !.nvic_pending = TRUE] ELSE r

Effect(r, access) ==
  CASE access = "set_rise"     -> [r EXCEPT !.rise = TRUE]
    [] access = "trigger"      -> [r EXCEPT !.trigger = TRUE]
    [] access = "event"        -> [r EXCEPT !.event = TRUE]
    [] access = "unmask"       -> [r EXCEPT !.unmasked = TRUE]
    [] access = "restore"      -> [r EXCEPT !.trigger = @ \/ r.event]
    [] access = "untrigger"    -> [r EXCEPT !.trigger = FALSE]
    [] access = "mask"         -> [r EXCEPT !.unmasked = FALSE]
    [] access = "nvic_enable"  -> [r EXCEPT !.nvic_enabled = TRUE]
    [] access = "nvic_disable" -> [r EXCEPT !.nvic_enabled = FALSE]
    [] access = "nvic_clear"   -> [r EXCEPT !.nvic_pending = FALSE]
    [] access = "take"         -> [r EXCEPT !.flag = FALSE]
    [] OTHER                   -> r

\* The converter raises and lowers its pin at any time.
PinRises ==
  /\ ~level
  /\ level' = TRUE
  /\ reg' = Latched([reg EXCEPT !.flag = @ \/ reg.trigger])
  /\ UNCHANGED <<running, todo>>

PinFalls == level /\ level' = FALSE /\ UNCHANGED <<reg, running, todo>>

\* control_signals with S, with T, or with a command that leaves the pin alone.
TakeUart ==
  /\ running = "none"
  /\ running' = "uart"
  /\ todo' \in {start_sampling, stop_sampling, <<>>}
  /\ UNCHANGED <<level, reg>>

TakeExti ==
  /\ running = "none"
  /\ reg.nvic_enabled
  /\ reg.nvic_pending
  /\ running' = "exti"
  /\ \E callback \in Callbacks : todo' = handle_interrupt_in(callback)
  /\ reg' = [reg EXCEPT !.nvic_pending = FALSE]
  /\ UNCHANGED level

Step(access) ==
  /\ running \in {"uart", "exti"}
  /\ todo # <<>>
  /\ Head(todo) = access
  /\ UNCHANGED level

\* No flag: error("Unexpected Spurious interrupt"), which does not return.
LookAtFlag ==
  /\ Step("look")
  /\ todo' = Tail(todo)
  /\ running' = IF reg.flag THEN running ELSE "error"
  /\ UNCHANGED reg

\* The level is low: IRQ_FALL, for which there is no callback.
LookAtLevel ==
  /\ Step("level")
  /\ todo' = IF level /\ reg.rise THEN Tail(todo) ELSE <<>>
  /\ UNCHANGED <<reg, running>>

DriverAccess ==
  /\ \E access \in {"set_rise", "trigger", "event", "unmask", "restore", "untrigger",
                    "mask", "nvic_enable", "nvic_disable", "nvic_clear", "take"} :
       Step(access) /\ reg' = Latched(Effect(reg, access))
  /\ todo' = Tail(todo)
  /\ UNCHANGED running

\* On return the NVIC looks at its input again.
Return ==
  /\ running \in {"uart", "exti"}
  /\ todo = <<>>
  /\ running' = "none"
  /\ reg' = [reg EXCEPT !.nvic_pending = @ \/ (running = "exti" /\ Asserted(reg))]
  /\ UNCHANGED <<level, todo>>

Handler == LookAtFlag \/ LookAtLevel \/ DriverAccess \/ Return

Next == PinRises \/ PinFalls \/ TakeUart \/ TakeExti \/ Handler

\* A handler goes on, and the host leaves room between its characters.
Spec == Init /\ [][Next]_extiVars /\ WF_extiVars(Handler) /\ SF_extiVars(TakeExti)

-----------------------------------------------------------------------------
\* Between two handlers the interrupt is armed or disarmed as a whole: edge
\* selection, mask, NVIC and callback agree, whatever the order of S and T and
\* wherever collect_samples stopped the sampling.
ArmedAsAWhole ==
  running = "none" =>
    /\ reg \in Registers
    /\ reg.trigger => reg.unmasked /\ reg.nvic_enabled /\ reg.rise /\ reg.event
    /\ reg.event /\ ~reg.trigger => ~reg.unmasked /\ ~reg.nvic_enabled

\* The driver never meets an interrupt without its flag, the fatal
\* error("Unexpected Spurious interrupt"): not with an edge between any two
\* accesses of enable, disable and the handler, nor with one that was latched
\* before a stop and is unmasked by the next start.
NoSpuriousInterrupt == running # "error"

\* The driver is the DataReady that the firmware expects: an edge is served
\* only between start_sampling and stop_sampling and in the end it is served,
\* an edge that is latched when the sampling stops is kept for the next start.
Abstract == INSTANCE DataReady WITH
  irq_enabled <- reg.trigger, exti_pending <- reg.flag

ImplementsDataReady == Abstract!Spec
=============================================================================
