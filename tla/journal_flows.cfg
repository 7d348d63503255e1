SPECIFICATION SafeSpec
CONSTANTS
  f1 = f1
  f2 = f2
  Flows <- TwoFlows
  Journals <- ShortOnly
  ChanCap = 1
  MaxFaults = 1
INVARIANTS CheckpointCovered FinalCoversRead
PROPERTIES ReplayInOrder
SYMMETRY FlowSymmetry
CHECK_DEADLOCK FALSE
