SPECIFICATION Spec
CONSTANTS
 o1 = o1
 o2 = o2
 Outputs = {o1, o2}
 NoOutput = none
 Icons = {t1}
 Workspaces = {1, 2}
 NoWorkspace = 0
 Handled = {o1, o2}
 PipeSize = 2
 Plans <- Many
INVARIANTS ChildrenServed BarsShowI3 TrayFollows
PROPERTIES NoRevival
CHECK_DEADLOCK FALSE
