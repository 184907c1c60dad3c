------------------------------- MODULE MCAdcBus -------------------------------
(***************************************************************************)
(* AdcBus with the default decimation rate and another one.                *)
(***************************************************************************)
EXTENDS AdcBus

MCDecimations == {"0", "5"}
=============================================================================
