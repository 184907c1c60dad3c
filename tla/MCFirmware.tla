----------------------------- MODULE MCFirmware -----------------------------
(***************************************************************************)
(* Firmware on a small instance, with a host that may send anything.       *)
(***************************************************************************)
EXTENDS Firmware

\* Every command, R standing for G and V too, and a character that is none
\* and is also an argument of D or L; so is every command out of place.
MCAnyChars == {"P", "R", "F", "S", "T", "D", "L", "x"}

\* The characters of an ordinary session.
MCSessionChars == {"P", "S", "L", "1"}

\* Length code 0 is one sample, the others are the whole buffer.
MCTxLength == [c \in LengthCodes |-> IF c = "0" THEN 1 ELSE N]
=============================================================================
