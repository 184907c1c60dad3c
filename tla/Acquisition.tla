---------------------------- MODULE Acquisition -----------------------------
(***************************************************************************)
(* What the host asks of the microcontroller over the serial line: after a *)
(* configuration, every request for samples is answered by one frame, of   *)
(* the length configured and with nothing in it but samples that the       *)
(* running converter delivered for this very request.                      *)
(***************************************************************************)
EXTENDS Naturals, Sequences

CONSTANTS Lengths   \* the frame lengths that can be configured

VARIABLES
  phase,    \* "off", "configuring", "idle", "requested" or "sampling"
  length,   \* the frame length configured last
  count,    \* how many acquisitions were begun
  answer    \* the last frame the host received

vars == <<phase, length, count, answer>>

Init == phase = "off" /\ length = 0 /\ count = 0 /\ answer = <<>>

\* The host resets and configures the board, giving up what it asked for.
Configure ==
  /\ phase # "configuring"
  /\ phase' = "configuring"
  /\ length' \in Lengths
  /\ UNCHANGED <<count, answer>>

Configured ==
  /\ phase = "configuring"
  /\ phase' = "idle"
  /\ UNCHANGED <<length, count, answer>>

Request ==
  /\ phase = "idle"
  /\ phase' = "requested"
  /\ UNCHANGED <<length, count, answer>>

Begin ==
  /\ phase = "requested"
  /\ phase' = "sampling"
  /\ count' = count + 1
  /\ UNCHANGED <<length, answer>>

Answer ==
  /\ phase = "sampling"
  /\ phase' = "idle"
  /\ answer' = [i \in 1 .. length |-> [acq |-> count, live |-> TRUE]]
  /\ UNCHANGED <<length, count>>

Next == Configure \/ Configured \/ Request \/ Begin \/ Answer

\* Every configuration completes and every request is answered, unless the
\* host configures anew.
Spec == Init /\ [][Next]_vars
          /\ WF_vars(Configured) /\ WF_vars(Begin) /\ WF_vars(Answer)
=============================================================================
