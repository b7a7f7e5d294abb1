SPECIFICATION Spec
CONSTANTS
  writer = writer
  reader = reader
  NoSocket = NoSocket
  NoRequest = NoRequest
  NoConfig = NoConfig
  Keep = Keep
  NoModule = NoModule
  NoEntry = NoEntry
  NoFile = NoFile
  Truncated = Truncated
  Absent = Absent
  Invalid = Invalid
  Sockets <- MCSockets
  Writers <- MCWriters
  Ports <- MCPorts
  Values <- MCValues
  Unparsable = {}
  Pins <- MCPins
  Addrs <- MCAddrs
  Commands <- MCCommands
  TypeCodes <- MCTypeCodes
  SafeOutputs <- MCSafeOutputs
  Lists <- MCLists
  Requests <- MCRequests
  Names = {"main"}
  ConfigFileName = "main"
  Writable = {"main"}
  InitialFiles <- MCFiles
INVARIANTS
  TypeOK
  SocketsConnected
  EventsReachSubscribers
PROPERTIES
  ActiveModulesStay
  ModuleChangesAnnounced
  ReadersOnlySubscribe
  
  ImplementsLeases
