SPECIFICATION Spec
CONSTANTS
  NoFile = NoFile
  Ports <- MCPorts
  SafePorts <- MCSafePorts
  Outputs <- MCOutputs
  Delays <- MCDelays
  Firmwares <- MCFirmwares
  NoFirmware = NoFirmware
  BlockSize = 2
  BlocksPerPage = 2
INVARIANTS
  ReadsBack
  FrameCarriesOutputs
  FirmwareJoined
PROPERTIES
  LoadRestores
