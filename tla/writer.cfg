CONSTANTS
  n1 = n1
  n2 = n2
  Nodes = {n1, n2}
  NoAddr = NoAddr
  MaxEntries = 4
  ChannelBuffer = 2
  MaxConcurrentWrites = 2
  MaxPipelineSize = 1
  MasterAddr <- MCMasterAddr
  Pipelined <- MCPipelined
  InitialQPS = 1
  InitialBatchSize = 2
  ConfigUpdates <- MCUpdates
  MaxUpdates = 1
SPECIFICATION Spec
CHECK_DEADLOCK FALSE
INVARIANTS
  Conservation
  NoDropUnlessReconfigured
PROPERTIES
  ImplementsSink
  EntriesSettle
