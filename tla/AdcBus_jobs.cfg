CONSTANTS
  Decimations <- MCDecimations
SPECIFICATION Spec
INVARIANTS
  NoContention
  JobsAreAtomic
  ReadsWhatWasAsked
