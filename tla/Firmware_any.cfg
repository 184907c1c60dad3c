\* The firmware under an arbitrary host: two acquisitions, two samples each.
CONSTANTS
  N = 2
  MaxAcq = 2
  Chars <- MCAnyChars
  TxLength <- MCTxLength
  NoChar = NoChar
  ChipDefault = ChipDefault
  Garbled = Garbled
SPECIFICATION FairSpec
INVARIANTS
  TypeOK
  PoweredOnlyToSample
  CopyMatchesChip
  BufferInOrder
PROPERTIES
  HandedOverInOrder
  SamplingEnds
  ReadyIsCleared
  ReadyIsSent
