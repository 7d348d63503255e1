SPECIFICATION StoreSpec
CONSTANTS
  Threads <- MCThreads
  Names <- MCNames
  Program <- MCProgram
  None = "none"
  NoValue <- MCNoValue
  MaxRestarts = 1
  MaxFaults = 1
INVARIANTS CheckpointSurvives NoLostUpdate SavedIsOnDisk
CHECK_DEADLOCK FALSE
