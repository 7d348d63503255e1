SPECIFICATION InlineSpec
CONSTANTS
  n1 = n1
  n2 = n2
  k1 = k1
  k2 = k2
  k3 = k3
  Keys = {k1, k2, k3}
  EmptyKey = EmptyKey
  Streams <- MCStreams
  Parts <- MCParts
  Now = 2000
  ParseValue <- parseValue
  Nodes = {n1, n2}
  NoAddr = NoAddr
  MaxEntries = 3
  ChannelBuffer = 1
  MaxConcurrentWrites = 2
  MaxPipelineSize = 1
  MasterAddr <- MCAllRouted
  Pipelined <- MCPipelined
  InitialQPS = 0
  InitialBatchSize = 2
  ConfigUpdates <- MCNoUpdates
  MaxUpdates = 0
INVARIANTS OnlyRacesAreStale EntriesAsSent ValuesAsSent
CHECK_DEADLOCK FALSE
