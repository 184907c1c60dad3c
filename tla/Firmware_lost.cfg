\* An acquisition whose ready flag is cleared before it is sent.
CONSTANTS
  N = 1
  MaxAcq = 2
  Chars <- MCSessionChars
  TxLength <- MCTxLength
  NoChar = NoChar
  ChipDefault = ChipDefault
  Garbled = Garbled
SPECIFICATION FairSpec
PROPERTIES
  AcquisitionSent
