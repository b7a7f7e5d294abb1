SPECIFICATION Spec
CONSTANTS
  c1 = c1
  NoSocket = NoSocket
  NoRequest = NoRequest
  NoConfig = NoConfig
  Keep = Keep
  NoModule = NoModule
  NoEntry = NoEntry
  NoFile = NoFile
  Truncated = Truncated
  Absent = Absent
  Invalid = Invalid
  Sockets <- MCSockets
  Writers <- MCSockets
  Ports <- MCPorts
  Values <- MCValues
  Unparsable = {}
  Pins = {}
  Addrs <- MCAddrs
  Commands <- MCNoStop
  TypeCodes <- MCTypeCodes
  SafeOutputs = {Invalid}
  Lists = {}
  Requests <- MCRequests
  Names = {"main"}
  ConfigFileName = "main"
  Writable = {"main"}
  InitialFiles <- MCOneFile
PROPERTY
  DisconnectKeepsRunning
