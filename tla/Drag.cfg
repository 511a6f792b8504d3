SPECIFICATION DragSpec
CONSTANTS
  o1 = o1
  o2 = o2
  ws1 = ws1
  ws2 = ws2
  Outputs = {o1, o2}
  Workspaces = {ws1, ws2}
  Splits = {s1}
  Floats = {f1}
  Windows = {w1, w2, w3}
  NoCon = NoCon
  Scratch = NoCon
  UrgencyDelay = TRUE
  RightOf <- Side
  InitialOn <- Shown
  Scenarios <- Drags
SYMMETRY Interchangeable
CHECK_DEADLOCK FALSE
INVARIANTS DragKeepsTree
PROPERTIES DropKeepsFocus
