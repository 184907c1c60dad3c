----------------------------- MODULE MCSession ------------------------------
(***************************************************************************)
(* Session on a small instance: two decimation rates, frames of one, two   *)
(* and three samples from a buffer of three, three acquisitions.           *)
(***************************************************************************)
EXTENDS Session

MCTxLength ==
  [c \in LengthCodes |-> CASE c = "0" -> 1 [] c = "1" -> 2 [] OTHER -> N]
MCChars == {"P", "D", "L", "R", "S", "F", "G", "V", "0", "1", "2", "5"}
MCDecimations == {"1", "5"}
MCLengths == {"0", "1", "2"}
MCReadCommands == {"F", "V"}
=============================================================================
