CONSTANTS
  d1 = d1  d2 = d2
  Rates <- MCRates
  SampleLengths <- MCLengths
  Averages <- MCAverages
  Drawers = {d1, d2}
  MaxUpdates = 1
SPECIFICATION Spec
INVARIANTS
  StoredIsSpectrum
