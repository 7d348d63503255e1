SPECIFICATION Spec
CONSTANTS
  f1 = f1
  f2 = f2
  Flows <- OneFlow
  Journals <- AnyJournal
  ChanCap = 1
  MaxFaults = 1
INVARIANTS AckLeadsByMarkers
PROPERTIES AckMonotone RecordsReplayed AckDelivered StopReturns
CHECK_DEADLOCK FALSE
