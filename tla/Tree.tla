-------------------------------- MODULE Tree --------------------------------
(***************************************************************************)
(* The window manager's main loop over the container tree: one action per  *)
(* X11 event or command that changes the tree, each the whole handler.     *)
(* i3 is single-threaded, so a handler is one step; what interleaves are   *)
(* the handlers of events that clients, the user and timers cause.         *)
(***************************************************************************)
EXTENDS ConMove

CONSTANTS
  InitialOn,    \* the workspace each output shows at startup
  Scenarios     \* what can happen, one of them for a whole behaviour:
                \* kinds       the kinds of events and commands that occur
                \* byCriteria  commands may name a window, not only the focused one
                \* outputs     where the focus is at first
                \* workspaces  the workspaces that are named

Kinds == {"assign", "dialog", "urgent", "request", "workspace", "output", "focus",
          "level", "mouse", "move", "direction", "swap", "float", "fullscreen", "global",
          "split", "layout", "kill",
          "towards", "sibling", "scratchpad", "toggle", "activate", "pager"}

ASSUME TreeAssumption ==
  /\ InitialOn \in [Outputs -> Workspaces]
  /\ \A o, p \in Outputs : o # p => InitialOn[o] # InitialOn[p]
  /\ \A s \in Scenarios : /\ s.kinds \subseteq Kinds
                          /\ s.byCriteria \in BOOLEAN
                          /\ s.outputs \subseteq Outputs
                          /\ s.workspaces \subseteq Workspaces

VARIABLES tree, scenario
vars == <<tree, scenario>>

TypeOK == tree \in Trees

\* after randr_init(): every output has one workspace, which it shows
Init ==
  scenario \in Scenarios /\ \E o \in scenario.outputs :
    tree = [parent |-> [c \in AllCons |->
                          TheOne({p \in Outputs : InitialOn[p] = c})],
            nodes |-> [c \in AllCons |-> IF c \in Outputs THEN <<InitialOn[c]>> ELSE << >>],
            floating |-> [c \in AllCons |-> << >>],
            focus |-> [c \in AllCons |-> IF c \in Outputs THEN <<InitialOn[c]>> ELSE << >>],
            layout |-> [c \in AllCons |-> "splith"],
            fs |-> [c \in AllCons |->
                      IF \E p \in Outputs : InitialOn[p] = c THEN "output" ELSE "none"],
            urgent |-> [c \in AllCons |-> FALSE],
            timer |-> [c \in AllCons |-> FALSE],
            scratch |-> [c \in AllCons |-> FALSE],
            focused |-> InitialOn[o]]

-----------------------------------------------------------------------------
(* What the commands work on *)

Open == Windows \cap Alive(tree)
Named == {tree.focused} \cup (IF scenario.byCriteria THEN Open ELSE {})
SplitLeft == FreeSplits(tree) # {}      \* bounds of the model: the pools
FloatLeft == FreeFloats(tree) # {}

Asks(kind) == kind \in scenario.kinds
Do(kind, t) == Asks(kind) /\ tree' = t

-----------------------------------------------------------------------------
(* Windows come and go *)

\* tree_open_con(NULL): beside the focused container
PlaceOf(t, c) == IF c \in Workspaces THEN c ELSE t.parent[c]
CurrentPlace(t) ==
  IF IsFloating(t, t.focused)
    THEN PlaceOf(t, DescendTiling(t, Workspace(t, t.focused)))
    ELSE PlaceOf(t, t.focused)

\* under a fullscreen container a new one comes second in the focus stack
Second(s, x) == IF Head(s) = x THEN s ELSE After(Remove(s, x), Head(s), x)

\* manage_window() once it knows where the window goes
Manage(t, w, place, dialog, urgent) ==
  LET opened == Attach(t, w, place)
      ws == Workspace(opened, w)
      fs == FullscreenCovering(opened, ws)
      takesFocus == /\ fs = NoCon
                    /\ Visible(opened, ws)
                    /\ OutputOf(t, t.focused) = OutputOf(opened, ws)
      stacked == IF fs = NoCon THEN opened
                 ELSE [opened EXCEPT !.focus[place] = Second(@, w)]
      floated(u) == IF dialog THEN FloatingEnable(u, w) ELSE u
      active(u) == IF takesFocus THEN Activate(u, w) ELSE u
  IN  SetUrgency(active(floated(stacked)), w, urgent)

Hints == IF "urgent" \in scenario.kinds THEN BOOLEAN ELSE {FALSE}
Dialogs == IF "dialog" \in scenario.kinds /\ FloatLeft THEN BOOLEAN ELSE {FALSE}

MapWindow(w) ==
  /\ w \notin Open
  /\ \E dialog \in Dialogs, hint \in Hints :
       tree' = Manage(tree, w, CurrentPlace(tree), dialog, hint)

\* with "assign [..] workspace ws"
MapAssigned(w, ws) ==
  /\ w \notin Open
  /\ LET t == WorkspaceGet(tree, ws) IN
     \E dialog \in Dialogs, hint \in Hints :
       Do("assign", Manage(t, w, PlaceOf(t, DescendTiling(t, ws)), dialog,
                           hint \/ ~Visible(t, ws)))

\* UnmapNotify or DestroyNotify from the client
UnmapWindow(w) == w \in Open /\ tree' = CloseAndTidy(tree, w)

\* the client sets or clears the hint in WM_HINTS or _NET_WM_STATE
UrgencyHint(w, urgent) == w \in Open /\ Do("urgent", SetUrgency(tree, w, urgent))

\* _NET_WM_STATE_FULLSCREEN
ClientFullscreen(w) ==
  w \in Open /\ Do("request", ToggleFullscreen(tree, w, "output"))

\* workspace_defer_update_urgent_hint_cb()
TimerFires(c) ==
  /\ tree.timer[c]
  /\ tree' = ClearUrgency([tree EXCEPT !.timer[c] = FALSE], c)

-----------------------------------------------------------------------------
(* Focus *)

\* _NET_ACTIVE_WINDOW: a pager's request shows the workspace first; a client's may,
\* with focus_on_window_activation, focus the window, make it urgent or do nothing
ActivateRequest(w) ==
  IF Asks("activate") THEN {tree, WorkspaceShow(tree, Workspace(tree, w))} ELSE {}
UrgencyRequest(w) ==
  w \in Open /\ ~OnScratch(tree, w) /\ Asks("activate") /\ Do("urgent", SetUrgency(tree, w, TRUE))

\* the focus command with criteria, a click
FocusWindow(w) ==
  /\ w \in Open
  /\ ~OnScratch(tree, w)
  /\ \E t \in ActivateRequest(w) \cup IF Asks("focus") THEN {tree} ELSE {} :
       tree' = ActivateUnblock(t, w)

\* focus left|right|up|down; next and prev are two of these
FocusDirection(c, d) ==
  /\ c \in Named
  /\ ~OnScratch(tree, c)
  /\ \E wrapping \in Wrappings : Do("towards", TreeNext(tree, c, d, wrapping))

\* focus next|prev sibling
FocusSiblingCommand(c, d) ==
  LET siblings == tree.nodes[tree.parent[c]] IN
  /\ c \in Named
  /\ ~OnScratch(tree, c)
  /\ Do("sibling", FocusSibling(tree, c, Sibling(siblings, c, d)))

LevelUp(t) ==
  LET up == t.parent[t.focused]
  IN  Activate(t, IF IsFloating(t, t.focused) THEN t.parent[up] ELSE up)

\* a floating container is passed over for what it holds
LevelDown(t) ==
  LET child == First(t.focus[t.focused])
  IN  Activate(t, IF child \in Floats THEN Head(t.focus[child]) ELSE child)

\* focus parent: not past a workspace and not out of a fullscreen container
FocusParent ==
  /\ tree.focused \notin Workspaces
  /\ PermitsFocusing(tree, tree.parent[tree.focused])
  /\ Do("level", LevelUp(tree))

\* focus child
FocusChild == tree.focus[tree.focused] # << >> /\ Do("level", LevelDown(tree))

\* cmd_focus_window_mode()
FocusMode(toFloating) ==
  LET ws == Workspace(tree, tree.focused)
      kind(c) == (c \in Floats) = toFloating
      first == First(SelectSeq(tree.focus[ws], kind))
  IN  first # NoCon /\ Do("focus", ActivateUnblock(tree, DescendFocused(tree, first)))

\* _NET_CURRENT_DESKTOP: the index of a workspace there is
DesktopRequest(ws) == IF Asks("activate") /\ ws \in Alive(tree) THEN {tree} ELSE {}

\* workspace <name>
WorkspaceCommand(ws) ==
  LET named == WorkspaceGet(DisableFullscreen(tree, GlobalFullscreen(tree)), ws)
  IN  \E t \in DesktopRequest(ws) \cup IF Asks("workspace") THEN {named} ELSE {} :
        tree' = WorkspaceShow(t, ws)

\* the outputs there are to see
Screens == {o \in Outputs : InitialOn[o] # Scratch}

FocusOutput(o) ==
  LET ws == VisibleOn(tree, o)
  IN  ws # NoCon /\ Do("output", WorkspaceShow(tree, ws))

\* con_is_hidden(): behind another tab
Hidden(t, c) ==
  \E x \in Upwards(t, c) \ Workspaces :
    /\ t.parent[x] \notin Outputs \cup {NoCon}
    /\ t.layout[t.parent[x]] \in {"stacked", "tabbed"}
    /\ Head(t.focus[t.parent[x]]) # x

OnScreen(t, c) ==
  LET ws == Workspace(t, c)
      fs == FullscreenCovering(t, ws)
  IN  ws # Scratch /\ Visible(t, ws) /\ fs \in Upwards(t, c) \cup {NoCon} /\ ~Hidden(t, c)

\* handle_enter_notify() of a window or a frame the pointer can reach
EnterWindow(c) ==
  /\ "mouse" \in scenario.kinds
  /\ c \in Alive(tree) \ (Outputs \cup Workspaces \cup {tree.focused})
  /\ OnScreen(tree, c)
  /\ LET ws == Workspace(tree, c)
         t == IF ws = Workspace(tree, tree.focused) THEN tree ELSE WorkspaceShow(tree, ws)
     IN  tree' = Focus(t, DescendFocused(t, c))

\* check_crossing_screen_boundary(), where the root window is not covered
EnterOutput(o) ==
  LET next == DescendFocused(tree, o)
      ws == Workspace(tree, next)
  IN  /\ FullscreenCovering(tree, ws) = NoCon
      /\ Do("mouse", Focus(WorkspaceShow(tree, ws), next))

-----------------------------------------------------------------------------
(* Commands that change the tree *)

\* _NET_WM_DESKTOP
MoveRequest(c, ws) == Asks("pager") /\ c \in Open /\ ws \in Alive(tree)

\* move container to workspace; nothing is moved off an empty workspace
MoveToWorkspaceCommand(c, ws) ==
  /\ (Asks("move") /\ c \in Named) \/ MoveRequest(c, ws)
  /\ c \in Workspaces => SplitLeft /\ Below(tree, c) # {}
  /\ tree' = MoveToWorkspace(WorkspaceGet(tree, ws), c, ws)

\* move left|right|up|down; a floating container keeps its place in the tree
MoveDirection(c, d) ==
  /\ c \in Named
  /\ SplitLeft
  /\ ~IsFloating(tree, c)
  /\ Do("direction", TreeMove(tree, c, d))

SwapCommand(c, w) ==
  /\ c \in Named \ (Workspaces \cup Floats)
  /\ w \in Open
  /\ Do("swap", Swap(tree, c, w))

FloatingCommand(c) ==
  /\ c \in Named
  /\ FloatLeft \/ IsFloating(tree, c)
  /\ Do("float", ToggleFloating(tree, c))

\* fullscreen enable|disable, and toggle, which is one of the two
FullscreenCommand(c, mode) ==
  /\ c \in Named
  /\ mode = "global" => "global" \in scenario.kinds
  /\ \/ Do("fullscreen", EnableFullscreen(tree, c, mode))
     \/ Do("fullscreen", DisableFullscreen(tree, c))

SplitCommand(c, layout) ==
  /\ c \in Named
  /\ Cardinality(FreeSplits(tree)) > IF c \in Workspaces THEN 1 ELSE 0
  /\ Do("split", TreeSplit(tree, c, layout))

\* layout toggle: the next of the layouts it names after the current one, else
\* the first; "split" is the other orientation or, from a layout that has none,
\* the one the container had last (either)
Toggles == {<<"split">>, <<"stacked", "tabbed", "splith", "splitv">>,
            <<"stacked", "tabbed", "split">>, <<"splitv", "tabbed">>}

Toggled(current, names, last) ==
  LET split == CASE current = "splith" -> "splitv" [] current = "splitv" -> "splith"
                 [] OTHER -> last
      listed == [i \in DOMAIN names |-> IF names[i] = "split" THEN split ELSE names[i]]
      next == {i \in 2..Len(names) : listed[i - 1] = current}
  IN  listed[IF next = {} THEN 1 ELSE Min(next)]

LayoutToggle(c, last) ==
  LET parent == IF c \in Workspaces THEN c ELSE tree.parent[c]
  IN  {Toggled(tree.layout[parent], names, last) : names \in Toggles}

\* on an empty workspace the command sets a default that is not modelled
LayoutCommand(c, layout) ==
  /\ c \in Named
  /\ SplitLeft
  /\ c \in Workspaces => Split(tree, c)
  /\ \/ Asks("layout")
     \/ Asks("toggle") /\ \E last \in {"splith", "splitv"} : layout \in LayoutToggle(c, last)
  /\ tree' = SetLayout(tree, c, layout)

\* move scratchpad
MoveScratchpad(c) ==
  /\ c \in Named
  /\ Cardinality(FreeFloats(tree)) >= IF c \in Workspaces THEN Len(tree.nodes[c]) ELSE 1
  /\ Do("scratchpad", ScratchpadMove(tree, c))

\* scratchpad show, with criteria that match a window or without; the focus command
\* and a pager's activation do the same with a window on the scratchpad
ShowScratchpad(c) ==
  /\ Scratch # NoCon
  /\ \E t \in ScratchpadShow(tree, c) :
       /\ \/ Asks("scratchpad")
          \/ c # NoCon /\ OnScratch(tree, c) /\ (Asks("focus") \/ Asks("activate"))
       /\ tree' = t

\* con_close() with KILL_WINDOW; the windows close later, if at all
KillCommand(c) ==
  LET victims == IF c \in Workspaces THEN tree.focus[c] ELSE <<c>>
  IN  c \in Named /\ Do("kill", FoldLeft(AskToClose, tree, victims))

\* _NET_CLOSE_WINDOW; the window closes later, if at all
CloseRequest(w) == w \in Open /\ Do("pager", AskToClose(tree, w))

-----------------------------------------------------------------------------
ClientEvent ==
  \/ \E w \in Windows :
       \/ MapWindow(w) \/ UnmapWindow(w) \/ ClientFullscreen(w)
       \/ UrgencyRequest(w) \/ CloseRequest(w)
       \/ \E ws \in scenario.workspaces : MapAssigned(w, ws)
  \/ \E w \in Windows, urgent \in BOOLEAN : UrgencyHint(w, urgent)

FocusEvent ==
  \/ \E w \in Windows : FocusWindow(w)
  \/ \E c \in AllCons : EnterWindow(c)
  \/ \E ws \in scenario.workspaces : WorkspaceCommand(ws)
  \/ \E o \in Screens : FocusOutput(o) \/ EnterOutput(o)
  \/ \E c \in Named, d \in Directions : FocusDirection(c, d) \/ FocusSiblingCommand(c, d)
  \/ \E c \in Open \cup {NoCon} : ShowScratchpad(c)
  \/ \E b \in BOOLEAN : FocusMode(b)
  \/ FocusParent \/ FocusChild

TreeCommand ==
  \E c \in Named \cup Open :
    \/ FloatingCommand(c) \/ KillCommand(c) \/ MoveScratchpad(c)
    \/ \E ws \in scenario.workspaces : MoveToWorkspaceCommand(c, ws)
    \/ \E d \in Directions : MoveDirection(c, d)
    \/ \E w \in Windows : SwapCommand(c, w)
    \/ \E mode \in {"output", "global"} : FullscreenCommand(c, mode)
    \/ \E layout \in {"splith", "splitv"} : SplitCommand(c, layout)
    \/ \E layout \in Layouts : LayoutCommand(c, layout)

Next ==
  /\ ClientEvent \/ FocusEvent \/ TreeCommand \/ \E c \in AllCons : TimerFires(c)
  /\ UNCHANGED scenario

Spec == Init /\ [][Next]_vars

-----------------------------------------------------------------------------
(* Properties *)

AllDistinct(s) == Cardinality(ToSet(s)) = Len(s)

\* The lists and the parent pointers agree: every container but an output is
\* in exactly one list, that of its parent, and in the parent's focus stack;
\* every path upwards ends at an output; a freed container is in no list.
WellLinked ==
  \A c \in AllCons :
    LET children == ToSet(tree.nodes[c]) \cup ToSet(tree.floating[c]) IN
    /\ children = {x \in AllCons : tree.parent[x] = c}
    /\ ToSet(tree.nodes[c]) = children \ Floats
    /\ ToSet(tree.focus[c]) = children
    /\ AllDistinct(tree.nodes[c]) /\ AllDistinct(tree.floating[c]) /\ AllDistinct(tree.focus[c])
    /\ c \in Alive(tree) \ Outputs => Workspace(tree, c) # NoCon

\* con_on_remove_child() leaves no container empty: a split container has
\* children, a floating one exactly one, and only they and workspaces have any.
NoEmptyContainer ==
  \A c \in Alive(tree) :
    /\ c \in Splits => Split(tree, c)
    /\ c \in Floats => Len(tree.nodes[c]) = 1 /\ tree.parent[c] \in Workspaces
    /\ c \in Windows => Leaf(tree, c)

\* Every handler leaves a tree: of its type, linked and without empty containers.
WellFormed == TypeOK /\ WellLinked /\ NoEmptyContainer

\* Every output shows exactly one workspace, the head of its focus stack (a client
\* that asks for fullscreen on a hidden workspace breaks this), and a workspace
\* that is not shown and has no windows has been closed.
WorkspacesShown ==
  /\ \A ws \in Workspaces \cap Alive(tree) : Visible(tree, ws) \/ Below(tree, ws) # {}
  /\ "request" \notin scenario.kinds => \A o \in Outputs :
       /\ Cardinality({ws \in ToSet(tree.nodes[o]) : tree.fs[ws] = "output"}) = 1
       /\ Head(tree.focus[o]) = VisibleOn(tree, o)

\* The scratchpad holds floating containers only, each marked as one of its own.
ScratchpadFloats ==
  Scratch # NoCon => /\ Leaf(tree, Scratch)
                     /\ \A f \in ToSet(tree.floating[Scratch]) : tree.scratch[f]

\* Whatever floats, moves, closes or becomes fullscreen, the tree is well formed,
\* every output shows one workspace and the scratchpad holds what it can show.
TreeStands == WellFormed /\ WorkspacesShown /\ ScratchpadFloats

\* The focused container is at the head of every focus stack above it, and
\* so is on a workspace that is shown: switching away and back returns to it.
FocusPath ==
  \A x \in Upwards(tree, tree.focused) \ Outputs :
    Head(tree.focus[tree.parent[x]]) = x /\ (x \in Workspaces => Visible(tree, x))

\* Whatever is opened, moved, swapped, laid out and closed, the tree is well
\* formed, and every focus stack leads to the focused window.
TilingStands == WellFormed /\ FocusPath

\* A floating container is never focused, only what it holds.
NoFloatFocused == tree.focused \notin Floats

\* The focused container is not obscured: a fullscreen container that covers
\* its workspace contains it.
FocusNotObscured ==
  FullscreenCovering(tree, Workspace(tree, tree.focused))
    \in Upwards(tree, tree.focused) \cup {NoCon}

\* At most one container is globally fullscreen, and at most one on each
\* workspace fills its output.
OneFullscreen ==
  /\ Cardinality({c \in AllCons : tree.fs[c] = "global"}) <= 1
  /\ \A ws \in Workspaces : Cardinality({c \in Below(tree, ws) : tree.fs[c] = "output"}) <= 1

\* What has the focus can be seen: it is no floating container around a window,
\* not on the scratchpad and not behind a fullscreen container, of which there is one.
FocusSeen ==
  NoFloatFocused /\ FocusNotObscured /\ OneFullscreen /\ ~OnScratch(tree, tree.focused)

\* Both together, for every order of floating, covering and the scratchpad.
CoveringStands == TreeStands /\ FocusSeen

\* A workspace is urgent exactly when a window on it is.
UrgencyShown ==
  \A ws \in Workspaces :
    tree.urgent[ws] <=> \E w \in Below(tree, ws) \cap Windows : tree.urgent[w]

\* con_swap() is undone by swapping again: every container is back where it
\* was among its siblings, and the same one is focused.
SwapUndoes ==
  \A w, x \in Open : w # x =>
    LET again == Swap(Swap(tree, x, w), x, w)
    IN  again.nodes = tree.nodes /\ again.focused = tree.focused

\* When a window closes the focus stays where it is; if the focused container
\* goes with it, the focus stays on the workspace.
FocusStays ==
  [][(Alive(tree) \cap Windows) \ Alive(tree)' # {}
       => IF tree.focused \in Alive(tree)' THEN tree'.focused = tree.focused
          ELSE Workspace(tree', tree'.focused) = Workspace(tree, tree.focused)]_tree

\* Moving a container to another workspace leaves the focus on the current
\* one, and where it is unless the focused container is moved or the focused
\* workspace was empty and gets the container.  So does moving to the scratchpad.
MoveLeavesFocus ==
  [][/\ \A c \in AllCons, ws \in Workspaces :
          MoveToWorkspaceCommand(c, ws)
            => IF c \in Upwards(tree, tree.focused) \/ ws = tree.focused
                 THEN Workspace(tree', tree'.focused) = Workspace(tree, tree.focused)
                 ELSE tree'.focused = tree.focused
     /\ \A c \in Named : MoveScratchpad(c)
          => Workspace(tree', tree'.focused) = Workspace(tree, tree.focused)]_tree

\* An urgent window shows on its workspace until somebody has looked at it: its
\* urgency ends when it is focused or asked to close, by its own hint or by the
\* timer, and not on the way of something else.
UrgencyFollows ==
  [][/\ UrgencyShown'
     /\ \A w \in Open : tree.urgent[w] /\ w \in Alive(tree)' /\ ~tree'.urgent[w]
          => \/ w = tree'.focused
             \/ UrgencyHint(w, FALSE)
             \/ TimerFires(w) \/ CloseRequest(w)
             \/ \E c \in Upwards(tree, w) : KillCommand(c)]_tree
=============================================================================
