\* The microcontroller's own decoding of a register it reads.
SPECIFICATION Spec
INVARIANTS
  DetangleRecoversWord
