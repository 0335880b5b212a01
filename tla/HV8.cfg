CONSTANTS
  Channels = {1, 2}
  Volts = {0, 5}
  Attempts = 2
  MaxCalls = 3
  MaxMishaps = 1
  MaxLate = 2
SPECIFICATION Spec
INVARIANTS WantedIsSet VoltagesAreTrue ReadIsItsOwn
CHECK_DEADLOCK FALSE
