SPECIFICATION Spec
CONSTANTS
  c1 = c1
  Clients <- MCClients
  MaxLines = 4
CHECK_DEADLOCK FALSE
INVARIANTS
  HandledInOrder
  WaitOnlyBehindInvalid
PROPERTIES
  RequestsHandled
