SPECIFICATION Spec
CONSTANTS
  NoFile = NoFile
  History = 2
  Future = 2
  Messages = 9
  Seconds <- MCSeconds
CHECK_DEADLOCK FALSE
INVARIANTS
  HistoryIsLatest
  FilesContiguous
  NeighboursStored
PROPERTIES
  FilesOnlyGrow
