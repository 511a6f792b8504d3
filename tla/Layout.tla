-------------------------------- MODULE Layout --------------------------------
(***************************************************************************)
(* Layouts that are loaded and saved (restore_layout.c, manage.c,          *)
(* assignments.c, match.c and the restart): append_layout adds containers  *)
(* that wait for windows and have placeholder windows until these come;    *)
(* an inplace restart writes the tree, loads it in the new process and     *)
(* manages all windows again.  A leaf of Con.tla is a container here, and  *)
(* the window it has, if any, is a client's or a placeholder.              *)
(***************************************************************************)
EXTENDS Tree, LayoutFile

CONSTANTS
  Clients,        \* windows of clients
  Placeholders,   \* the ids that placeholder windows get, one after another
  Files,          \* the texts that append_layout can load
  MaxRestarts,    \* bound of the model
  MaxAppends,     \* bound of the model
  MaxQueue        \* bound of the model: events i3 has not handled

ASSUME LayoutAssumption ==
  /\ Clients \cap Placeholders = {} /\ XWindows = Clients \cup Placeholders
  /\ {MaxRestarts, MaxAppends, MaxQueue} \subseteq Nat

\* scenario also has  files     the files that are appended, of Files
\*                    classes   what the windows of clients are at first
\*                    rule      for_window: [class, workspace] or NoRule
\*                    hurried   commands come before the events of the last one are handled
\*                    closes, changes, marks   whether these happen
NoRule == [class |-> NoCon, workspace |-> NoCon]

VARIABLE desk
layoutVars == <<tree, scenario, desk>>

\* holds con->window, states the list state_head, since managed_since in
\* seconds; live, class, connection and queue are the X server's
Now == desk @@ [tree |-> tree]

\* what is left when a handler returns: a freed container has no mark, no
\* swallow list and no window
Becomes(s) ==
  LET alive == Alive(s.tree) IN
  /\ tree' = s.tree
  /\ desk' = [f \in DOMAIN desk |->
       CASE f = "marked" -> IF s.marked \in alive THEN s.marked ELSE NoCon
         [] f = "holds" -> [c \in Windows |-> IF c \in alive THEN s.holds[c] ELSE NoCon]
         [] f = "swallows" -> [c \in Windows |-> IF c \in alive THEN s.swallows[c] ELSE << >>]
         [] f = "states" -> {[st EXCEPT !.con = IF @ \in alive THEN @ ELSE NoCon] : st \in s.states}
         [] OTHER -> s[f]]
  /\ UNCHANGED scenario

Holder(s, x) == TheOne({c \in Windows : s.holds[c] = x})
Held(s) == {s.holds[c] : c \in Windows} \ {NoCon}

LayoutInit ==
  /\ Init
  /\ \E class \in [Clients -> scenario.classes] :
       desk = [holds |-> [c \in Windows |-> NoCon], swallows |-> [c \in Windows |-> << >>],
               states |-> {}, marked |-> NoCon, pending |-> << >>,
               known |-> class, swallowed |-> {}, ran |-> {}, mapped |-> {},
               since |-> [x \in XWindows |-> 0], now |-> 0,
               live |-> {}, class |-> class, connection |-> "up", queue |-> << >>,
               restarts |-> 0, appends |-> 0]

-----------------------------------------------------------------------------
(* Matching *)

\* match_matches_window(); a placeholder window has no class
MatchesWindow(s, m, x) ==
  /\ m.id # NoCon => m.id = x
  /\ m.class # NoCon => x \in Clients /\ s.known[x] = m.class

RECURSIVE SearchOrder(_, _)
SearchOrder(t, c) ==
  <<c>> \o FlattenSeq([i \in DOMAIN t.nodes[c] |-> SearchOrder(t, t.nodes[c][i])])
        \o FlattenSeq([i \in DOMAIN t.floating[c] |-> SearchOrder(t, t.floating[c][i])])

Everywhere(t) == FlattenSeq([i \in DOMAIN SetToSeq(Outputs) |-> SearchOrder(t, SetToSeq(Outputs)[i])])

\* con_for_window()
FirstMatch(s, c, x) == SelectInSeq(s.swallows[c], LAMBDA m : MatchesWindow(s, m, x))
ConForWindow(s, x) ==
  First(SelectSeq(Everywhere(s.tree), LAMBDA c : c \in Windows /\ FirstMatch(s, c, x) # 0))

-----------------------------------------------------------------------------
(* Placeholder windows *)

Opens(s, c) == c \in Windows /\ Leaf(s.tree, c) /\ s.holds[c] = NoCon /\ s.swallows[c] # << >>

\* an id that nothing refers to
FreshId(s) ==
  CHOOSE p \in Placeholders :
    /\ p \notin s.live \cup Held(s) \cup {st.window : st \in s.states}
    /\ \A c \in Windows : \A i \in DOMAIN s.swallows[c] : s.swallows[c][i].id # p
    /\ \A i \in DOMAIN s.queue : s.queue[i].window # p
Event(kind, x) == [kind |-> kind, window |-> x]

\* open_placeholder_window(), which maps it: the event comes to i3 in turn
WithPlaceholder(s, c, p) ==
  [s EXCEPT !.live = IF s.connection = "up" THEN @ \cup {p} ELSE @,
            !.queue = IF s.connection = "up" THEN Append(@, Event("map", p)) ELSE @,
            !.states = @ \cup {[window |-> p, con |-> c]},
            !.swallows[c] = <<[EmptyMatch EXCEPT !.id = p]>> \o @]
OpenPlaceholder(s, c) == IF Opens(s, c) THEN WithPlaceholder(s, c, FreshId(s)) ELSE s

\* restore_open_placeholder_windows()
RECURSIVE OpenPlaceholders(_, _)
OpenPlaceholders(s, cons) ==
  IF cons = << >> THEN s ELSE OpenPlaceholders(OpenPlaceholder(s, Head(cons)), Tail(cons))

\* a window takes the place of another: restore_kill_placeholder() knows only
\* windows of state_head
\* (and a version that forgets _remove_matches())
ReplaceKeepingMatches(s, c) ==
  [s EXCEPT !.states = {st \in @ : st.window # s.holds[c]},
            !.live = @ \ ({s.holds[c]} \cap Placeholders)]
Replace(s, c) ==
  LET p == s.holds[c] IN
  IF p = NoCon \/ ~\E st \in s.states : st.window = p THEN s
  ELSE [s EXCEPT !.states = {st \in @ : st.window # p}, !.live = @ \ {p},
                 !.swallows[c] = << >>]

-----------------------------------------------------------------------------
(* manage_window() *)

\* for_window rules, each once for a window
RunAssignments(s, x) ==
  LET rule == scenario.rule IN
  IF x \in s.ran \cup Placeholders \/ rule = NoRule \/ s.known[x] # rule.class THEN s
  ELSE [s EXCEPT !.ran = @ \cup {x},
                 !.tree = MoveToWorkspace(WorkspaceGet(@, rule.workspace), Holder(s, x),
                                          rule.workspace)]

\* where no container waits for it; an empty container in focus takes it
Beside(s, x, c) == [s EXCEPT !.tree = Attach(@, c, CurrentPlace(@)), !.holds[c] = x]
Opened(s, x) ==
  IF s.tree.focused \in Windows /\ s.holds[s.tree.focused] = NoCon
    THEN [s EXCEPT !.holds[s.tree.focused] = x]
    ELSE Beside(s, x, CHOOSE w \in Windows : w \notin Alive(s.tree))

Swallow(s, c, x) ==
  [Replace([s EXCEPT !.swallows[c] = RemoveAt(@, FirstMatch(s, c, x)),
                     !.swallowed = @ \cup {x}], c)
     EXCEPT !.holds[c] = x]

\* a window that was fullscreen before the restart still is
FullscreenAgain(t, c) ==
  IF FullscreenCovering(t, Workspace(t, c)) = c THEN t
  ELSE ToggleFullscreen(MoveToWorkspace(t, c, VisibleOn(t, OutputOf(t, c))), c, "output")

\* under a fullscreen container a window comes second in the focus stack
InFocusStack(t, c, wasFullscreen) ==
  IF wasFullscreen THEN FullscreenAgain(t, c)
  ELSE IF FullscreenCovering(t, Workspace(t, c)) = NoCon THEN t
  ELSE [t EXCEPT !.focus[t.parent[c]] = Second(@, c)]

TakesFocus(t, c, wasFullscreen) ==
  /\ FullscreenCovering(t, Workspace(t, c)) = NoCon \/ wasFullscreen
  /\ Visible(t, Workspace(t, c)) /\ OutputOf(t, t.focused) = OutputOf(t, c)

\* the focus only if the rules have left it on a workspace that is shown
Focused(s, c, focus) ==
  IF focus /\ Visible(s.tree, Workspace(s.tree, c)) THEN [s EXCEPT !.tree = Activate(@, c)] ELSE s
Settled(s, x, c, wasFullscreen, byRestart) ==
  Focused(RunAssignments([s EXCEPT !.tree = InFocusStack(@, c, wasFullscreen)], x), c,
          x \in Clients /\ ~byRestart /\ TakesFocus(s.tree, c, wasFullscreen))
Settle(s, x, wasFullscreen, byRestart) == Settled(s, x, Holder(s, x), wasFullscreen, byRestart)

\* struct Window: nothing has swallowed it, no rule has run for it
NewWindow(s, x) ==
  IF x \in Placeholders THEN s
  ELSE [s EXCEPT !.known[x] = s.class[x], !.swallowed = @ \ {x}, !.ran = @ \ {x}]

Taken(s, c, x) == IF c = NoCon THEN Opened(s, x) ELSE Swallow(s, c, x)
Place(s, x, c, wasFullscreen) ==
  LET byRestart == c # NoCon /\ s.swallows[c][FirstMatch(s, c, x)].restart
  IN  Settle([Taken(s, c, x) EXCEPT !.since[x] = s.now], x, wasFullscreen, byRestart)

ManageNew(s, x, wasFullscreen) == Place(s, x, ConForWindow(s, x), wasFullscreen)

\* the window may have gone since it asked to be mapped
ManageWindow(s, x, wasFullscreen) ==
  IF x \notin s.live \/ x \in Held(s) THEN s ELSE ManageNew(NewWindow(s, x), x, wasFullscreen)

\* remanage_window(): a placeholder that came in a later second takes no window
Merged(s, x, old, c) ==
  [Replace(s, c) EXCEPT
     !.holds[c] = x, !.holds[old] = NoCon, !.swallows[old] = << >>,
     !.tree = CloseAndTidy(SetUrgency(@, c, @.urgent[old]), old),
     !.marked = IF @ = old THEN c ELSE @]
Refused(s, x, old, c) ==
  \/ x \in s.swallowed \/ c \in {NoCon, old}
  \/ s.holds[c] = NoCon \/ s.since[s.holds[c]] > s.since[x]
RemanageIn(s, x, old, c) ==
  IF Refused(s, x, old, c) THEN RunAssignments(s, x)
  ELSE [RunAssignments(Merged(s, x, old, c), x) EXCEPT !.swallowed = @ \cup {x}]
Remanage(s, x) == RemanageIn(s, x, Holder(s, x), ConForWindow(s, x))

-----------------------------------------------------------------------------
(* i3's events *)

Closed(s, x) ==
  LET c == Holder(s, x) IN
  IF c = NoCon THEN s
  ELSE [s EXCEPT !.tree = CloseAndTidy(@, c), !.holds[c] = NoCon, !.swallows[c] = << >>]

Changed(s, x) ==
  IF x \notin Held(s) THEN s ELSE Remanage([s EXCEPT !.known[x] = s.class[x]], x)

RoomFor(s, x) ==
  ConForWindow(NewWindow(s, x), x) # NoCon \/ \E c \in Windows : c \notin Alive(s.tree)

Handled(s, e) ==
  CASE e.kind = "map" -> ManageWindow(s, e.window, FALSE)
    [] e.kind = "gone" -> Closed(s, e.window)
    [] e.kind = "property" -> Changed(s, e.window)
Handle ==
  /\ desk.queue # << >>
  /\ Head(desk.queue).kind = "map" => RoomFor(Now, Head(desk.queue).window)  \* bound: the pool
  /\ \E s \in {Handled([Now EXCEPT !.queue = Tail(@)], Head(desk.queue))} : Becomes(s)

\* restore_xcb_prepare_cb(): the first call finds the connection broken, the
\* next one replaces it
Reconnect ==
  /\ desk.connection = "broken"
  /\ \A i \in DOMAIN desk.queue : desk.queue[i].kind = "gone" => desk.queue[i].window \in Clients
  /\ desk' = [desk EXCEPT !.connection = "up", !.states = {}]
  /\ UNCHANGED <<tree, scenario>>

-----------------------------------------------------------------------------
(* Commands *)

Ready == scenario.hurried \/ (desk.queue = << >> /\ desk.connection = "up")

CountOf(text, pool) == Cardinality({i \in DOMAIN text : text[i] = Token("start_map", pool)})

\* cmd_append_layout(): a container with children or a window is not appended
\* to, which leaves the workspace
Loaded(s, p) ==
  [s EXCEPT !.tree = p.t, !.swallows = p.swallows, !.marked = p.marked, !.pending = p.pending]
\* placeholders for all below c, and a version that does not descend
WithPlaceholdersOnTop(s, c) == OpenPlaceholders(s, s.tree.nodes[c])
WithPlaceholders(s, c) == OpenPlaceholders(s, Tail(SearchOrder(s.tree, c)))
AppendLayout(text) ==
  LET ws == Workspace(tree, tree.focused) IN
  /\ Ready /\ desk.appends < MaxAppends
  /\ CountOf(text, "leaf") <= Cardinality(Windows \ Alive(tree))      \* bounds: the pools
  /\ CountOf(text, "split") <= Cardinality(FreeSplits(tree))
  /\ \E p \in {AppendJson(tree, desk.swallows, desk.marked, desk.pending, ws, text)} :
       \E s \in {WithPlaceholders(Loaded([Now EXCEPT !.appends = @ + 1], p), ws)} : Becomes(s)

MarkCommand ==
  LET c == tree.focused IN
  /\ c \in (CASE scenario.marks = "none" -> {} [] scenario.marks = "leaf" -> Windows
              [] scenario.marks = "all" -> Windows \cup Splits)
  /\ Becomes([Now EXCEPT !.marked = c])

UserCommand ==
  /\ FocusEvent \/ TreeCommand
  /\ UNCHANGED scenario
  /\ desk' = [desk EXCEPT !.marked = IF @ \in Alive(tree') THEN @ ELSE NoCon]

-----------------------------------------------------------------------------
(* i3_restart(), and main() of the new process up to its event loop *)

NoTree == [parent |-> [c \in AllCons |-> NoCon], nodes |-> [c \in AllCons |-> << >>],
           floating |-> [c \in AllCons |-> << >>], focus |-> [c \in AllCons |-> << >>],
           layout |-> [c \in AllCons |-> "splith"], fs |-> [c \in AllCons |-> "none"],
           urgent |-> [c \in AllCons |-> FALSE], timer |-> [c \in AllCons |-> FALSE],
           scratch |-> [c \in AllCons |-> FALSE],
           focused |-> NoCon]

\* tree_restore(): all that survives is in the text
NewProcess(s, gone) ==
  [s EXCEPT !.holds = [c \in Windows |-> NoCon], !.states = {}, !.swallowed = {}, !.ran = {},
            !.live = @ \ (gone \cup Placeholders), !.queue = << >>, !.connection = "up",
            !.restarts = @ + 1]
Saved(s) == Each(SetToSeq(Outputs), LAMBDA o : DumpNode(s, o))
Restored(s, text) ==
  Loaded(s, AppendJson(NoTree, [c \in Windows |-> << >>], NoCon, << >>, NoCon, text))
AllPlaceholders(s) == OpenPlaceholders(s, Everywhere(s.tree))

RECURSIVE ManageEach(_, _, _)
ManageEach(s, xs, fullscreen) ==
  IF xs = << >> THEN s
  ELSE ManageEach(ManageWindow(s, Head(xs), Head(xs) \in fullscreen), Tail(xs), fullscreen)

\* the server is grabbed: first the placeholders ask to be mapped, then
\* manage_existing_windows() takes the others in their stacking order
PlaceholdersMapped(s) ==
  ManageEach([s EXCEPT !.queue = << >>], [i \in DOMAIN s.queue |-> s.queue[i].window], {})
Restart(gone, order) ==
  LET fullscreen == {x \in Held(Now) : tree.fs[Holder(Now, x)] # "none"} IN
  /\ Ready /\ desk.restarts < MaxRestarts
  /\ \E text \in {Saved(Now)} :
     \E s \in {AllPlaceholders(Restored(NewProcess(Now, gone), text))} :
     \E managed \in {ManageEach(PlaceholdersMapped(s), order, fullscreen)} : Becomes(managed)

-----------------------------------------------------------------------------
(* Clients, and the user who kills a placeholder window *)

Room == Len(desk.queue) < MaxQueue
Queued(x) == \E i \in DOMAIN desk.queue : desk.queue[i].window = x
Send(kind, x) == Append(desk.queue, Event(kind, x))

OpenWindow(x) ==
  /\ Room /\ x \notin desk.mapped                    \* bound of the model: once
  /\ desk' = [desk EXCEPT !.live = @ \cup {x}, !.queue = Send("map", x), !.mapped = @ \cup {x}]
  /\ UNCHANGED <<tree, scenario>>

CloseWindow(x) ==
  /\ scenario.closes /\ Room /\ x \in desk.live
  /\ desk' = [desk EXCEPT !.live = @ \ {x}, !.queue = Send("gone", x)]
  /\ UNCHANGED <<tree, scenario>>

ChangeClass(x, class) ==
  /\ scenario.changes /\ Room /\ x \in desk.live /\ desk.class[x] # class
  /\ class \notin scenario.classes                  \* bound of the model: never back
  /\ desk' = [desk EXCEPT !.class[x] = class, !.queue = Send("property", x)]
  /\ UNCHANGED <<tree, scenario>>

\* that is their connection, and so all of them; those the user sees, when all
\* are mapped
KillPlaceholder(p) ==
  LET all == SetToSeq(desk.live \cap Placeholders) IN
  /\ scenario.closes /\ p \in desk.live /\ desk.live \cap Placeholders \subseteq Held(Now)
  /\ desk' = [desk EXCEPT !.live = @ \ Placeholders, !.connection = "broken",
                 !.queue = @ \o [i \in DOMAIN all |-> Event("gone", all[i])]]
  /\ UNCHANGED <<tree, scenario>>

Tick ==
  /\ scenario.changes /\ desk.now = 0
  /\ desk' = [desk EXCEPT !.now = 1]
  /\ UNCHANGED <<tree, scenario>>

LayoutNext ==
  \/ Handle \/ Reconnect \/ MarkCommand \/ UserCommand \/ Tick
  \/ \E text \in scenario.files : AppendLayout(text)
  \/ \E x \in Clients : OpenWindow(x) \/ CloseWindow(x)
  \/ \E x \in Clients, class \in Classes : ChangeClass(x, class)
  \/ \E p \in Placeholders : KillPlaceholder(p)
  \/ \E gone \in SUBSET (Held(Now) \cap Clients) :
       \E order \in SetToSeqs((Held(Now) \cap Clients) \ gone) : Restart(gone, order)

LayoutSpec == LayoutInit /\ [][LayoutNext]_layoutVars

-----------------------------------------------------------------------------
(* Properties *)

Waits(s, c) == {s.swallows[c][i].class : i \in DOMAIN s.swallows[c]} \ {NoCon}

\* An inplace restart keeps the tree: every container is where it was, with its
\* layout, its mark and what it waits for, and every window that is still there
\* is in the same container.  Two exceptions: a window that some container still
\* waits for or a rule places elsewhere goes there, and focus stacks under a
\* fullscreen container change.
Disputed ==
  \E c \in Windows : LET x == desk.holds[c] IN
    /\ x \in Clients
    /\ \/ \E d \in Windows : desk.known[x] \in Waits(desk, d)
       \/ /\ desk.known[x] = scenario.rule.class
          /\ Workspace(tree, c) # scenario.rule.workspace
RestartKeepsTree ==
  [][desk'.restarts > desk.restarts /\ ~Disputed =>
       /\ tree'.nodes = tree.nodes /\ tree'.floating = tree.floating
       /\ tree'.fs = tree.fs /\ tree'.focused = tree.focused
       /\ \A c \in Alive(tree) : tree'.layout[c] = tree.layout[c]
       /\ \A ws \in Workspaces : FullscreenCovering(tree, ws) = NoCon =>
            \A c \in {ws} \cup Below(tree, ws) : tree'.focus[c] = tree.focus[c]
       /\ desk'.marked = desk.marked
       /\ \A c \in Windows :
            IF desk.holds[c] \in desk'.live THEN desk'.holds[c] = desk.holds[c]
            ELSE c \in Alive(tree) =>
                   desk'.holds[c] \in Placeholders /\ Waits(desk', c) = Waits(desk, c)]_layoutVars

\* A managed window stays managed as long as its client shows it: no other
\* window takes its place in a container.
NoWindowLost ==
  [][\A x \in Held(desk) \cap Clients : x \in desk'.live => x \in Held(desk')]_layoutVars

\* A container waits for a window exactly as long as it has a placeholder, or
\* will have when the window is mapped: the first swallowed window wins.
WaitsWithPlaceholder ==
  \A c \in Windows \cap Alive(tree) :
    /\ desk.holds[c] \in Clients => desk.swallows[c] = << >>
    /\ Waits(desk, c) # {} => \E st \in desk.states :
         st.con = c /\ (desk.holds[c] = st.window \/ Queued(st.window))
=============================================================================
