SPECIFICATION TaskSpec
CONSTANTS
  MaxTasks = 3
  MaxStops = 2
  Buffer = 2
INVARIANTS OneTaskPerStop ResultStays
PROPERTIES Settles
CHECK_DEADLOCK FALSE
