CONSTANTS
  N = 3
  MaxAcq = 3
  Chars <- MCChars
  TxLength <- MCTxLength
  Decimations <- MCDecimations
  Lengths <- MCLengths
  ReadCommands <- MCReadCommands
  NoChar = NoChar
  ChipDefault = ChipDefault
  Garbled = Garbled
SPECIFICATION FairSession
INVARIANTS
  SessionTypeOK
  FrameFresh
  RateHonoured
PROPERTIES
  ImplementsAcquisition
