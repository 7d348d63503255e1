SPECIFICATION LifeSpec
CONSTANTS
  MaxFlows = 3
  Seeds = 2
  MaxFaults = 2
INVARIANTS SyncAfterRegistration NoStreamLeftOpen FinalStatus GracefulStop
PROPERTIES ProcessEnds
CHECK_DEADLOCK FALSE
