CONSTANTS
  a1 = a1  a2 = a2  c1 = c1  c2 = c2
  Acquirers = {a1, a2}
  Configurers = {c1, c2}
  Rates <- MCRates
  Lengths <- MCLengths
  MaxFailures = 2
SPECIFICATION MCSpec
CHECK_DEADLOCK FALSE
INVARIANTS
  ConfigAgrees
PROPERTIES
  MayStartAgain
