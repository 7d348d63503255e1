SPECIFICATION CheckSpec
CONSTANTS
  k1 = k1
  k2 = k2
  w1 = w1
  w2 = w2
  Keys <- MCKeys
  Workers <- MCWorkers
  Data <- MCData
  Modes = {"full", "length", "outline", "smart"}
  Capacity = 1
  BatchSize = 2
  Chunk = 2
  Threshold = 2
  MaxFaults = 1
  MaxRepeats = 1
INVARIANTS CleanMeansSame NoFalseAlarm 
PROPERTIES RunReturns
CHECK_DEADLOCK FALSE
