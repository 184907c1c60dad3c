SPECIFICATION Spec
INVARIANTS
  ArmedAsAWhole
  NoSpuriousInterrupt
PROPERTIES
  ImplementsDataReady
