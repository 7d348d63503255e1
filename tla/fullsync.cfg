CONSTANTS
  f1 = f1
  f2 = f2
  f3 = f3
  Flows = {f1, f2, f3}
  Keys <- EndedKeys
  DirectEOF = {f3}
  TokenFlows = {f1, f2, f3}
  MaxBreaks = 1
  MaxCloses = 1
SPECIFICATION Spec
CHECK_DEADLOCK FALSE
INVARIANTS
  BarrierClosedOnce
  HalfEndedBeforeStable
  SuccessMeansFlushed
  CompleteUnlessCut
  TokensVerified
PROPERTIES
  Terminates
