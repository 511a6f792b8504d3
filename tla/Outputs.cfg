SPECIFICATION Spec
CONSTANTS
  A = A
  B = B
  C = C
  Root = root
  Outs = {A, B, C, root}
  n1 = n1
  n2 = n2
  n3 = n3
  n4 = n4
  n5 = n5
  web = web
  two = two
  Names = {n1, n2, n3, n4, n5, web, two}
  Digits = {n1, n2, n3, n4, n5}
  Num <- Numbers
  Windows = {w1, w2}
  None = none
  Order <- Listed
  Scenarios <- Sessions
SYMMETRY Interchangeable
CHECK_DEADLOCK FALSE
INVARIANTS SessionStands WorkspacesReached
PROPERTIES AssignmentsHonoured
