SPECIFICATION Spec
CONSTANTS
  Clients = {c1, c2}
  None = None
  Room = 3
  Requests = {"query", "subscribe", "restart"}
  MaxRequests = 2
  MaxEvents = 0
CHECK_DEADLOCK FALSE
INVARIANTS NeverInTheMiddle
