SPECIFICATION Spec
CONSTANTS
  Clients = {c1, c2}
  None = None
  Room = 3
  Requests = {"query", "subscribe", "tick", "restart"}
  MaxRequests = 2
  MaxEvents = 2
CHECK_DEADLOCK FALSE
INVARIANTS CallbacksFollow
PROPERTIES OnlyStuckTimesOut ServesClients
