SPECIFICATION Spec
CONSTANTS
  o1 = o1
  o2 = o2
  ws1 = ws1
  ws2 = ws2
  ws3 = ws3
  Outputs = {o1, o2}
  Workspaces = {ws1, ws2}
  Splits = {s1, s2}
  Floats = {}
  Windows = {w1, w2, w3}
  NoCon = NoCon
  Scratch = NoCon
  UrgencyDelay = FALSE
  RightOf <- Side
  InitialOn <- Shown
  Scenarios <- Tiling
SYMMETRY Interchangeable
CHECK_DEADLOCK FALSE
INVARIANTS TilingStands SwapUndoes
PROPERTIES FocusStays
