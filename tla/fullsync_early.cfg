CONSTANTS
  f1 = f1
  f2 = f2
  f3 = f3
  Flows = {f1, f2}
  Keys <- OneKey
  DirectEOF = {}
  TokenFlows = {f1, f2}
  MaxBreaks = 0
  MaxCloses = 0
SPECIFICATION SafeSpec
CHECK_DEADLOCK FALSE
INVARIANT AllEndedBeforeStable
