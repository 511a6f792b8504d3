SPECIFICATION Spec
CONSTANTS
  o1 = o1
  o2 = o2
  ws1 = ws1
  ws2 = ws2
  ws3 = ws3
  Outputs = {o1, o2, pseudo}
  Workspaces = {ws1, ws2, ws3, scratch}
  Splits = {s1}
  Floats = {f1, f2}
  Windows = {w1, w2, w3}
  NoCon = NoCon
  Scratch = scratch
  UrgencyDelay = TRUE
  RightOf <- Side
  InitialOn <- Shown
  Scenarios <- FloatingAndCovering
SYMMETRY Interchangeable
CHECK_DEADLOCK FALSE
INVARIANTS CoveringStands
PROPERTIES MoveLeavesFocus UrgencyFollows
