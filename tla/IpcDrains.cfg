SPECIFICATION FairSpec
CONSTANTS
  Clients = {c1, c2}
  None = None
  Room = 3
  Requests = {"subscribe", "tick", "restart"}
  MaxRequests = 2
  MaxEvents = 0
CHECK_DEADLOCK FALSE
PROPERTIES Drains
