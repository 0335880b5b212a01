CONSTANTS
  Parts = 2
  MaxEdits = 3
SPECIFICATION Spec
INVARIANTS NothingIsLost ResultIsShown
PROPERTY BusyEnds
CHECK_DEADLOCK FALSE
