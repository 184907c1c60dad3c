CONSTANTS
  d1 = d1  d2 = d2
  Rates <- MCRates
  SampleLengths <- MCLengths
  Averages <- MCAverages
  Drawers = {d1}
  MaxUpdates = 3
SPECIFICATION FairSpec
PROPERTIES
  DisplayRecovers
