--------------------------- MODULE MCSerialLines ----------------------------
(***************************************************************************)
(* SerialLines with frames of one and of two samples.                      *)
(***************************************************************************)
EXTENDS SerialLines

MCLengths == {1, 2}
MCFaults  == {"lose S", "lose line", "spoil line"}
=============================================================================
