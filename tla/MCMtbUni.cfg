SPECIFICATION Spec
CONSTANTS
  c1 = c1
  c2 = c2
  NoSocket = NoSocket
  NoRequest = NoRequest
  NoConfig = NoConfig
  NoData = NoData
  Keep = Keep
  Sockets <- MCSockets
  Ports <- MCPorts
  Values <- MCValues
  Activations = 2
  MaxPending = 2
  MaxStimuli = 4
INVARIANTS
  TypeOK
  NothingStranded
  OwedToRequester
PROPERTIES
  ForgottenByOverwriting
  AlwaysSettles
CHECK_DEADLOCK FALSE
