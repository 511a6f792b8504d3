SPECIFICATION LayoutSpec
CONSTANTS
  o1 = o1
  ws1 = ws1
  ws2 = ws2
  k1 = k1
  k2 = k2
  x1 = x1
  x2 = x2
  x3 = x3
  x4 = x4
  x5 = x5
  x6 = x6
  x7 = x7
  Outputs = {o1}
  Workspaces = {ws1, ws2}
  Splits = {s1}
  Floats = {f1}
  Windows = {w1, w2, w3}
  Clients = {c1, c2}
  Placeholders = {x1, x2, x3, x4, x5, x6, x7}
  Classes = {k1, k2}
  XWindows <- Windows2
  NoCon = NoCon
  Scratch = NoCon
  UrgencyDelay = TRUE
  RightOf <- Edge
  InitialOn <- Shown
  Scenarios <- Desks
  Files <- AllFiles
  MaxRestarts = 1
  MaxAppends = 1
  MaxQueue = 2
SYMMETRY Interchangeable
CHECK_DEADLOCK FALSE
INVARIANTS WaitsWithPlaceholder
PROPERTIES RestartKeepsTree NoWindowLost
