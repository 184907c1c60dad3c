----------------------------- MODULE MCSamples ------------------------------
(***************************************************************************)
(* Samples with the values at which a sign or a width goes wrong.          *)
(***************************************************************************)
EXTENDS Samples

MCValues == {-(2^23), -(2^23) + 1, -(2^16), -1, 0, 1, 2^15, 2^22, 2^23 - 1}

\* The status of a good sample and one with every bit set.
MCStatuses == {{4}, 0 .. 7}
=============================================================================
