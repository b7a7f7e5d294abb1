SPECIFICATION Spec
CONSTANTS
  c1 = c1
  c2 = c2
  c3 = c3
  NoSocket = NoSocket
  NoRequest = NoRequest
  NoConfig = NoConfig
  Keep = Keep
  NoModule = NoModule
  NoEntry = NoEntry
  NoFile = NoFile
  Truncated = Truncated
  Absent = Absent
  Invalid = Invalid
  Sockets <- MCSockets
  Writers <- MCSockets
  Ports <- MCPorts
  Values <- MCValues
  Unparsable = {}
  Pins = {}
  Addrs <- MCAddrs
  Commands <- MCCommands
  TypeCodes = {}
  SafeOutputs = {}
  Lists <- MCLists
  Requests <- MCRequests
  Names = {"main"}
  ConfigFileName = "main"
  Writable = {"main"}
  InitialFiles <- MCFiles
INVARIANTS
  OutputsSettled
  OwnersConnected
  UnownedAtRest
  LampsShowOutputs
PROPERTIES
  Isolation
  DisconnectReleases
  OutputChangesAnnounced
  ImplementsLeases
SYMMETRY MCSymmetry
