SPECIFICATION Spec
CONSTANTS
 w1 = w1
 w2 = w2
 Windows = {w1, w2}
 Frames = {c1, c2, c3}
 NoCon = none
 Workspaces = {1, 2}
 Floating = {w2}
 IgnoreWidth = 8
 Plans <- ManyPlans
INVARIANTS IgnoreOwed ServerFollows FocusFollows
PROPERTIES LifeSpec
CHECK_DEADLOCK FALSE
