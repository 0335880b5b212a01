CONSTANTS
  a = a
  b = b
  Channels <- MCTwo
  Rate = 2
  MaxTime = 2
  MaxUpdates = 6
SPECIFICATION TimesSpec
INVARIANT TimesAreTrue
SYMMETRY Symmetry
CHECK_DEADLOCK FALSE
