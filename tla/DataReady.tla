----------------------------- MODULE DataReady ------------------------------
(***************************************************************************)
(* What the firmware may expect of the interrupt on notDataReady, the DRDY *)
(* pin of the converter: armed by start_sampling and disarmed by           *)
(* stop_sampling, it remembers at most one edge, it serves an edge only    *)
(* while it is armed, and an edge that it remembers outlives a disarming.  *)
(* Firmware uses the two variables as irq_enabled and exti_pending.        *)
(***************************************************************************)
VARIABLES
  irq_enabled,   \* the interrupt is armed
  exti_pending   \* an edge was seen and not served

vars == <<irq_enabled, exti_pending>>

Init == irq_enabled = FALSE /\ exti_pending = FALSE

Arm    == irq_enabled' = TRUE /\ UNCHANGED exti_pending
Disarm == irq_enabled' = FALSE /\ UNCHANGED exti_pending

Edge ==
  /\ irq_enabled
  /\ exti_pending' = TRUE
  /\ UNCHANGED irq_enabled

Serve ==
  /\ irq_enabled
  /\ exti_pending
  /\ exti_pending' = FALSE
  /\ UNCHANGED irq_enabled

Next == Arm \/ Disarm \/ Edge \/ Serve

\* A remembered edge is served unless the interrupt is disarmed.
Spec == Init /\ [][Next]_vars /\ WF_vars(Serve)
=============================================================================
