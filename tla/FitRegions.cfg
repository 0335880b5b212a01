CONSTANTS
  Bins = 9
  Samples = 1
  Centres <- MCCentres
  Shapes = {narrow}
  Centroid <- MCCentroid
  Visible <- MCVisible
  Ranges <- MCRanges
  MaxActs = 4
SPECIFICATION RegionsSpec
INVARIANTS KeysAreIds ShownIsCurrent LoadGivesBack
PROPERTY HistoryIsKept
CHECK_DEADLOCK FALSE
