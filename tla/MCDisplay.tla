------------------------------ MODULE MCDisplay -------------------------------
(***************************************************************************)
(* Display with two rates and two lengths, and averages of one and two.    *)
(***************************************************************************)
EXTENDS Display

CONSTANTS d1, d2

MCRates    == {"slow", "fast"}
MCLengths  == {1, 2}
MCAverages == {1, 2}
=============================================================================
