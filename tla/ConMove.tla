------------------------------ MODULE ConMove -------------------------------
(***************************************************************************)
(* The functions of i3 that move containers about in the tree of Con.tla:  *)
(* showing a workspace, fullscreen, moving to another workspace, floating, *)
(* splitting, layouts, the scratchpad, moving and focusing in a direction. *)
(* Each is an operator from trees to trees, made of those of Con.tla in    *)
(* the order of the code.                                                  *)
(***************************************************************************)
EXTENDS Con

CONSTANT RightOf    \* get_output_next(D_RIGHT), NoCon at the edge; one row

ASSUME RightOfAssumption == RightOf \in [Outputs -> Outputs \cup {NoCon}]

Directions == {"left", "right", "up", "down"}

-----------------------------------------------------------------------------
(* Workspaces *)

\* workspace_get(): a new one opens on the output of the focused container
WorkspaceGet(t, ws) ==
  IF t.parent[ws] # NoCon THEN t ELSE AttachLast(t, ws, OutputOf(t, t.focused))

\* A workspace that is shown while its next container is urgent keeps the
\* urgency until the timer ends.
FocusShown(t, ws) ==
  LET next == DescendFocused(t, ws) IN
  IF t.urgent[next] /\ UrgencyDelay
    THEN [Focus([t EXCEPT !.urgent[next] = FALSE], next) EXCEPT
            !.urgent[next] = TRUE, !.urgent[ws] = TRUE, !.timer[next] = TRUE]
    ELSE Focus(t, next)

MarkShown(t, ws) ==
  [t EXCEPT !.fs = [c \in ToSet(t.nodes[t.parent[ws]]) |->
                      IF c = ws THEN "output" ELSE "none"] @@ @]

LeftOpen(t, old, ws) == t

\* an empty workspace is closed when another one is shown instead
Left(t, old, ws) ==
  IF old # NoCon /\ old # ws /\ Below(t, old) = {} THEN CloseAndTidy(t, old) ELSE t

WorkspaceShow(t, ws) ==
  LET old == Final(SelectSeq(t.nodes[t.parent[ws]], LAMBDA x : t.fs[x] = "output"))
  IN  IF ws = Scratch THEN t
      ELSE IF ws = Workspace(t, t.focused) THEN MarkShown(t, ws)
      ELSE Left(FocusShown(MarkShown(t, ws), ws), old, ws)

UnblockNever(t, c) == t

\* a fullscreen container that hides con ends being fullscreen
Unblock(t, c) ==
  LET fs == FullscreenCovering(t, Workspace(t, c))
  IN  IF fs \notin {NoCon, c} /\ ~HasParent(t, c, fs) THEN [t EXCEPT !.fs[fs] = "none"]
      ELSE t

\* con_activate_unblock()
ActivateUnblock(t, c) ==
  LET ws == Workspace(t, c)
      follow(u) == IF ws = Workspace(t, t.focused) THEN u
                   ELSE Activate(WorkspaceShow(Activate(u, t.focused), ws), c)
  IN  follow(Activate(Unblock(t, c), c))

-----------------------------------------------------------------------------
(* Fullscreen *)

\* not of a workspace, whose mode says that it is shown
DisableFullscreen(t, c) ==
  IF c \in Workspaces \cup {NoCon} THEN t ELSE [t EXCEPT !.fs[c] = "none"]

ClearWay(t, ws) == DisableFullscreen(t, FullscreenCovering(t, ws))

EnableFullscreen(t, c, mode) ==
  LET ws == Workspace(t, c)
      elsewhere == ws # Workspace(t, t.focused)
      shown(u) == IF elsewhere /\ mode = "global" THEN WorkspaceShow(u, ws) ELSE u
      back(u) == IF elsewhere /\ mode = "output" THEN Activate(u, t.focused) ELSE u
  IN  IF c \in Workspaces \/ t.fs[c] = mode THEN t
      ELSE [back(Activate(shown(ClearWay(t, ws)), c)) EXCEPT !.fs[c] = mode]

ToggleFullscreen(t, c, mode) ==
  IF t.fs[c] = "none" THEN EnableFullscreen(t, c, mode) ELSE DisableFullscreen(t, c)

-----------------------------------------------------------------------------
(* New containers around old ones *)

\* A new split container takes the tiling children of the workspace, in their
\* order and in that of the focus stack, and is attached at the tail of both.
Wrap(t, ws, layout) ==
  LET s == NewSplit(t)
      tiling == ToSet(t.nodes[ws])
  IN  [t EXCEPT
        !.parent = (s :> ws) @@ [c \in tiling |-> s] @@ @,
        !.nodes[s] = t.nodes[ws],
        !.nodes[ws] = <<s>>,
        !.focus[s] = SelectSeq(t.focus[ws], LAMBDA c : c \in tiling),
        !.focus[ws] = Append(SelectSeq(@, LAMBDA c : c \notin tiling), s),
        !.layout[s] = layout]

Encapsulate(t, ws) == Wrap(t, ws, t.layout[ws])

SplitAlone(t, c, layout) ==
  LET p == t.parent[c]
      s == NewSplit(t)
  IN  IF Len(t.nodes[p]) = 1 /\ t.layout[p] \in {"splith", "splitv"}
        THEN [t EXCEPT !.layout[p] = layout]
        ELSE [t EXCEPT
               !.nodes[p] = ReplaceAll(@, c, s), !.focus[p] = ReplaceAll(@, c, s),
               !.parent[s] = p, !.parent[c] = s, !.layout[s] = layout,
               !.nodes[s] = <<c>>, !.focus[s] = <<c>>]

\* tree_split()
TreeSplit(t, c, layout) ==
  IF IsFloating(t, c) THEN t
  ELSE IF c \notin Workspaces THEN SplitAlone(t, c, layout)
  ELSE IF Len(t.nodes[c]) < 2 THEN [t EXCEPT !.layout[c] = layout]
  ELSE LET wrapped == Encapsulate(t, c)
       IN  SplitAlone(wrapped, Head(wrapped.nodes[c]), layout)

Redundant(t, c) ==
  /\ c \in Splits
  /\ Len(t.nodes[c]) = 1
  /\ LET child == Head(t.nodes[c]) IN
     /\ Split(t, child)
     /\ {t.layout[c], t.layout[child]} = {"splith", "splitv"}
     /\ Orientation(t, child) = Orientation(t, t.parent[c])

\* the grandchildren take the place of con; the one focused in the child is
\* moved to the head of the focus stack if con was there
Dissolve(t, c) ==
  LET p == t.parent[c]
      child == Head(t.nodes[c])
      moving == t.nodes[child]
      stack == t.focus[p] \o moving
      at == Index(t.nodes[p], c)
  IN  Close([t EXCEPT
        !.parent = [x \in ToSet(moving) |-> p] @@ @,
        !.nodes[p] = SubSeq(@, 1, at - 1) \o moving \o SubSeq(@, at, Len(@)),
        !.nodes[child] = << >>,
        !.focus[p] = IF Head(@) = c THEN ToHead(stack, Head(t.focus[child])) ELSE stack,
        !.focus[child] = << >>], c)

\* tree_flatten()
RECURSIVE Flatten(_, _)
Flatten(t, c) ==
  IF Redundant(t, c) THEN Dissolve(t, c)
  ELSE FoldLeft(Flatten, t, t.nodes[c] \o t.floating[c])

FlattenAll(t) == FoldLeft(Flatten, t, SetToSeq(Outputs))

\* con_set_layout() for a container whose layout is to change
SetLayoutOf(t, c, layout) ==
  LET p == t.parent[c]
      child == Head(t.nodes[c])
      lone == c \notin Workspaces /\ p \notin Workspaces
              /\ Len(t.nodes[c]) = 1 /\ Len(t.nodes[p]) = 1
  IN  IF c \in Workspaces /\ Split(t, c) THEN FlattenAll(Wrap(t, c, layout))
      ELSE IF lone
        THEN [Close(AttachLast(Detach(t, child), child, p), c) EXCEPT !.layout[p] = layout]
        ELSE [t EXCEPT !.layout[c] = layout]

SetLayout(t, c, layout) ==
  SetLayoutOf(t, IF c \in Workspaces THEN c ELSE t.parent[c], layout)

-----------------------------------------------------------------------------
(* insert_con_into() *)

\* NoCon for the root, whose focus stack begins with the output of the focus
LowestCommon(t, a, b) ==
  LET common == Upwards(t, a) \cap Upwards(t, b)
  IN  TheOne({x \in common : common \subseteq Upwards(t, x)})
FocusStack(t, p) ==
  LET o == OutputOf(t, t.focused) IN
  IF p = NoCon THEN <<o>> \o SetToSeq(Outputs \ {o}) ELSE t.focus[p]

ChildContaining(t, ancestor, c) ==
  CHOOSE x \in Upwards(t, c) : t.parent[x] = ancestor

FocusedDescendant(t, c, ancestor) ==
  \A x \in Upwards(t, c) \ Upwards(t, ancestor) : Head(t.focus[t.parent[x]]) = x

PrecedeNot(s, x, y) == s

\* put y in front of x in the focus stack
Precede(s, x, y) == LET r == Remove(s, y) IN Before(r, x, y)

InsertInto(t, c, target, place) ==
  LET p == t.parent[target]
      lca == LowestCommon(t, c, p)
      mine == ChildContaining(t, lca, c)
      its == ChildContaining(t, lca, target)
      carries == FocusedDescendant(t, c, mine)
      before == IF mine = its THEN carries
                ELSE Index(FocusStack(t, lca), mine) < Index(FocusStack(t, lca), its)
      reordered == IF carries /\ before /\ mine # its /\ lca # NoCon
                     THEN [t EXCEPT !.focus[lca] = Precede(@, mine, its)] ELSE t
      out == Detach(reordered, c)
      in == [out EXCEPT
              !.parent[c] = p,
              !.focus[p] = IF p = lca THEN IF before THEN Before(@, target, c)
                                                     ELSE After(@, target, c)
                           ELSE IF before THEN <<c>> \o @ ELSE Append(@, c),
              !.nodes[p] = IF place = "before" THEN Before(@, target, c)
                                               ELSE After(@, target, c)]
  IN  IF lca = c THEN t ELSE OnRemoveChild(in, t.parent[c])

-----------------------------------------------------------------------------
(* Floating *)

\* where the new floating container goes in the focus stack of the workspace:
\* just before the child that contained con if con was focused in it, else
\* just after; a focused con goes to the head
FloatFocus(t, ws, c, f) ==
  LET top == ChildContaining(t, ws, c)
      stack == t.focus[ws]
  IN  IF c = t.focused THEN <<f>> \o stack
      ELSE IF FocusedDescendant(t, c, top) THEN Before(stack, top, f)
      ELSE After(stack, top, f)

\* floating_enable()
FloatingEnable(t, c) ==
  LET ws == Workspace(t, c)
      f == NewFloat(t)
      p == t.parent[c]
      added == [t EXCEPT !.parent[f] = ws, !.floating[ws] = <<f>> \o @,
                         !.focus[ws] = FloatFocus(t, ws, c, f)]
      tidy(u) == IF p \in Splits \cup Floats /\ Leaf(u, p) THEN CloseAndTidy(u, p) ELSE u
      in(u) == [u EXCEPT !.parent[c] = f, !.nodes[f] = <<c>>, !.focus[f] = <<c>>]
      active(u) == IF c = t.focused THEN Activate(u, c) ELSE u
  IN  active(in(tidy(Unlink(added, c))))

\* floating_disable()
FloatingDisable(t, c) ==
  LET ws == Workspace(t, c)
      target == DescendTiling(t, ws)
  IN  IF target \in Workspaces
        THEN Attach(Close(Unlink(t, c), t.parent[c]), c, target)
        ELSE InsertInto(t, c, target, "after")

\* toggle_floating_mode()
ToggleFloating(t, c) ==
  IF c \in Workspaces \cup Floats \/ (IsFloating(t, c) /\ OnScratch(t, c)) THEN t
  ELSE IF IsFloating(t, c) THEN FloatingDisable(t, c) ELSE FloatingEnable(t, c)

-----------------------------------------------------------------------------
(* Moving to another place: _con_move_to_con() *)

\* step 6: con gets the focus of its new workspace, and the workspace that
\* was shown on that output gets it back
FocusBack(t, shown, current, focused) ==
  IF shown = current /\ focused \notin Workspaces THEN Activate(t, focused)
  ELSE IF Workspace(t, t.focused) # shown THEN Focus(t, DescendFocused(t, shown))
  ELSE t
FocusThere(t, c, shown, current, focused) ==
  FocusBack(Activate(t, DescendFocused(t, c)), shown, current, focused)

ShowAgainNot(t, current, next) == t

\* step 7: back to the current workspace
ActivateIn(t, c) == Activate(t, DescendFocused(t, c))
ShowAgain(t, current, next) ==
  IF next = NoCon THEN WorkspaceShow(t, current) ELSE ActivateIn(WorkspaceShow(t, current), next)

\* step 9: of a container that is urgent
UrgentAgain(t, c, source, urgent) ==
  IF urgent THEN SetUrgency(UpdateWorkspace(t, source), c, TRUE) ELSE t

Transfer(t, c, target, behindFocused) ==
  LET source == Workspace(t, c)
      dest == Workspace(t, target)
      current == Workspace(t, t.focused)
      shown == Head(t.focus[OutputOf(t, dest)])
      last == DescendFocused(t, source)
      next == IF source # current \/ dest = source THEN NoCon
              ELSE IF c \in Upwards(t, last) THEN NextFocused(t, c) ELSE last
      above == IF target \in Workspaces THEN target ELSE t.parent[target]
      place == IF c \in Floats \/ above \in Floats THEN dest ELSE above
      covering == FullscreenBelow(t, dest)
      bringsFs == \E x \in {c} \cup Below(t, c) : t.fs[x] # "none"
      detached == Detach(IF bringsFs THEN DisableFullscreen(t, covering) ELSE t, c)
      moved == IF behindFocused THEN Attach(detached, c, place)
               ELSE AttachAfter(detached, c, place, target)
      there == IF dest # Scratch /\ (covering = NoCon \/ bringsFs)
                 THEN FocusThere(moved, c, shown, current, t.focused) ELSE moved
  IN  OnRemoveChild(UrgentAgain(ShowAgain(there, current, next), c, source, t.urgent[c]), t.parent[c])

MoveToCon(t, c, target) == Transfer(t, c, target, TRUE)

\* con_move_to_workspace(): of a workspace, first the floating windows and
\* then a container with all the others
MoveOneToWorkspace(t, c, ws) ==
  IF Workspace(t, c) = ws \/ ~PermitsFocusing(t, ws) THEN t
  ELSE MoveToCon(t, IF IsFloating(t, c) THEN t.parent[c] ELSE c, DescendFocused(t, ws))

RECURSIVE MoveToWorkspace(_, _, _)
MoveToWorkspace(t, c, ws) ==
  IF c \notin Workspaces THEN MoveOneToWorkspace(t, c, ws)
  ELSE IF c = ws \/ ~PermitsFocusing(t, ws) THEN t
  ELSE LET target == DescendFocused(t, ws)
           others(u) == MoveToCon(u, Head(u.nodes[c]), target)
           rest(u) == IF Leaf(u, c) THEN u ELSE others(Encapsulate(u, c))
       IN  rest(FoldLeft(LAMBDA u, f : MoveToWorkspace(u, f, ws), t, t.floating[c]))

-----------------------------------------------------------------------------
(* The scratchpad *)

\* scratchpad_move() of anything but a workspace: its floating container goes
\* to the scratchpad, a new one if it has none
FloatOne(t, c) == IF InsideFloating(t, c) = NoCon THEN FloatingEnable(t, c) ELSE t
ToScratchpad(t, f) == [MoveOneToWorkspace(t, f, Scratch) EXCEPT !.scratch[f] = TRUE]
FloatToScratchpad(t, c) == ToScratchpad(t, InsideFloating(t, c))
ScratchpadMoveOne(t, c) ==
  IF OnScratch(t, c) THEN t ELSE FloatToScratchpad(FloatOne(DisableFullscreen(t, c), c), c)

\* of a workspace, what it holds one after another
RECURSIVE ScratchpadMove(_, _)
ScratchpadMove(t, c) ==
  IF c \in Workspaces THEN FoldLeft(ScratchpadMove, t, t.focus[c]) ELSE ScratchpadMoveOne(t, c)

InScratchpad(t, c) ==
  InsideFloating(t, c) # NoCon /\ t.scratch[InsideFloating(t, c)]

\* what scratchpad_show() hides: the focused window, or the one that matches
\* the criteria, if it is a scratchpad window on the focused workspace
ToHide(t, c) ==
  IF c = NoCon THEN IF InScratchpad(t, t.focused) THEN t.focused ELSE NoCon
  ELSE IF t.scratch[t.parent[c]] /\ Workspace(t, c) = Workspace(t, t.focused) THEN c ELSE NoCon

\* what it brings to the focused workspace: the window that matches, or one that
\* is shown on another workspace, whichever is the oldest, or the first of the scratchpad
ToFetch(t, c) ==
  LET elsewhere == {x \in Alive(t) : /\ InScratchpad(t, x) /\ ~OnScratch(t, x)
                                     /\ Workspace(t, x) # Workspace(t, t.focused)}
  IN  IF c # NoCon THEN {f \in {t.parent[c]} : t.scratch[f]}
      ELSE IF elsewhere # {} THEN elsewhere
      ELSE {First(t.floating[Scratch])} \ {NoCon}

Fetch(t, x, ws) ==
  ActivateIn(WorkspaceShow(MoveOneToWorkspace(t, InsideFloating(t, x), ws), ws), x)

\* the first of the other scratchpad windows of the focused workspace
OtherScratchpad(t) ==
  LET mine == InsideFloating(t, t.focused)
  IN  First(SelectSeq(t.floating[Workspace(t, t.focused)], LAMBDA f : t.scratch[f] /\ f # mine))
HideOrFetch(t, c) ==
  IF ToHide(t, c) # NoCon THEN {ScratchpadMove(t, ToHide(t, c))}
  ELSE IF c = NoCon /\ OtherScratchpad(t) # NoCon THEN {Activate(t, DescendTiling(t, OtherScratchpad(t)))}
  ELSE IF ToFetch(t, c) = {} THEN {t}
  ELSE {Fetch(t, x, Workspace(t, t.focused)) : x \in ToFetch(t, c)}

\* scratchpad_show() of a window, or of NoCon without criteria: then it first looks
\* for another scratchpad window on the focused workspace.  The trees it can end in.
ScratchpadShow(t, c) ==
  HideOrFetch(IF c = NoCon /\ ToHide(t, c) # NoCon THEN t
              ELSE DisableFullscreen(t, FullscreenAbove(t, t.focused)), c)

\* con_move_to_target(): beside a tiling container
MoveToTarget(t, c, target) ==
  LET beside == IF Split(t, target) THEN Head(t.focus[target]) ELSE target
  IN  IF OnScratch(t, target) THEN ScratchpadMove(t, c)
      ELSE IF IsFloating(t, target) \/ (target \in Workspaces /\ Leaf(t, target))
        THEN MoveToWorkspace(t, c, Workspace(t, target))
      ELSE IF beside \in {c} \cup Below(t, c) \/ ~PermitsFocusing(t, Workspace(t, target)) THEN t
      ELSE Transfer(t, IF IsFloating(t, c) THEN t.parent[c] ELSE c, beside, FALSE)

-----------------------------------------------------------------------------
(* Moving in a direction *)

Along(d) == IF d \in {"left", "right"} THEN "horiz" ELSE "vert"
Sibling(s, c, d) == IF d \in {"left", "up"} THEN PrevOf(s, c) ELSE NextOf(s, c)
OutputNext(o, d) ==
  CASE d = "right" -> RightOf[o]
    [] d = "left" -> TheOne({p \in Outputs : RightOf[p] = o})
    [] OTHER -> NoCon

\* con_parent_with_orientation()
RECURSIVE ParentOriented(_, _, _)
ParentOriented(t, c, o) ==
  LET p == t.parent[c] IN
  IF p \in Floats \cup Outputs THEN NoCon
  ELSE IF Orientation(t, p) = o THEN p ELSE ParentOriented(t, p, o)

\* con_descend_direction(): moving right, the leftmost container
RECURSIVE DescendDirection(_, _, _)
DescendDirection(t, c, d) ==
  LET most == IF Orientation(t, c) # Along(d) THEN FirstTiling(t, c)
              ELSE IF d \in {"right", "down"} THEN First(t.nodes[c]) ELSE Final(t.nodes[c])
  IN  IF most = NoCon THEN c ELSE DescendDirection(t, most, d)

\* attach_to_workspace()
AttachToWorkspace(t, c, ws, d) ==
  LET in == [Detach(t, c) EXCEPT
              !.parent[c] = ws,
              !.nodes[ws] = IF d \in {"right", "down"} THEN <<c>> \o @ ELSE Append(@, c),
              !.focus[ws] = Append(@, c)]
  IN  OnRemoveChild(in, t.parent[c])

\* move_to_output_directed()
MoveToOutput(t, c, d) ==
  LET o == OutputNext(OutputOf(t, c), d)
      old == Workspace(t, c)
      ws == VisibleOn(t, o)
      follow(u) == IF t.focused # c THEN u
                   ELSE Focus(WorkspaceShow([Focus(u, c) EXCEPT !.focused = old], ws), c)
  IN  IF o = NoCon THEN t ELSE FlattenAll(follow(AttachToWorkspace(t, c, ws, d)))

\* ws_force_orientation()
ForceOrientation(t, ws, o) ==
  [Encapsulate(t, ws) EXCEPT !.layout[ws] = SplitLayout(o)]

IntoBranch(t, c, branch, d) ==
  LET target == DescendDirection(t, branch, d)
      after == Orientation(t, t.parent[target]) # Along(d) \/ d \in {"left", "up"}
  IN  FlattenAll(InsertInto(t, c, target, IF after THEN "after" ELSE "before"))

\* to the child of same next to the one that contains con, or beside the latter
MoveBeyond(t, c, d, same) ==
  LET above == ChildContaining(t, same, c)
      next == Sibling(t.nodes[same], above, d)
      p == t.parent[c]
  IN  IF ~PermitsFocusing(t, same) THEN t
      ELSE IF next # NoCon /\ Split(t, next) THEN IntoBranch(t, c, next, d)
      ELSE IF next = NoCon /\ t.parent[p] \in Workspaces /\ Len(t.nodes[p]) = 1
        THEN MoveToOutput(t, c, d)
      ELSE FlattenAll(InsertInto(t, c, above, IF d \in {"left", "up"} THEN "before" ELSE "after"))

\* the loop of tree_move(); same is the parent with the orientation of d
RECURSIVE MoveWithin(_, _, _, _)
MoveWithin(t, c, d, same) ==
  LET o == Along(d)
      ws == Workspace(t, c)
      p == t.parent[c]
      next == Sibling(t.nodes[p], c, d)
      forced == ForceOrientation(t, ws, o)
  IN  IF same = NoCon
        THEN IF InsideFloating(t, c) # NoCon THEN FlattenAll(AttachToWorkspace(t, c, ws, d))
             ELSE MoveWithin(forced, c, d, ParentOriented(forced, c, o))
      ELSE IF same # p THEN MoveBeyond(t, c, d, same)
      ELSE IF next = NoCon
        THEN IF p = ws THEN MoveToOutput(t, c, d)
             ELSE MoveWithin(t, c, d, ParentOriented(t, p, o))
      ELSE IF Split(t, next) THEN IntoBranch(t, c, next, d)
      ELSE [t EXCEPT !.nodes[p] = [i \in DOMAIN @ |->
              IF @[i] = c THEN next ELSE IF @[i] = next THEN c ELSE @[i]]]

TreeMove(t, c, d) ==
  IF c \in Workspaces \/ t.fs[c] = "global" THEN t
  ELSE IF t.fs[c] = "output" \/ (t.parent[c] \in Workspaces /\ Len(t.nodes[t.parent[c]]) = 1)
    THEN MoveToOutput(t, c, d)
  ELSE MoveWithin(t, c, d, ParentOriented(t, c, Along(d)))

-----------------------------------------------------------------------------
(* Focusing in a direction *)

Wrappings == {"off", "on", "workspace", "force"}     \* config.focus_wrapping

Backwards(d) == d \in {"left", "up"}
EdgeOf(s, d) == IF Backwards(d) THEN Last(s) ELSE Head(s)

\* get_tree_next_workspace()
NextWorkspace(t, ws, d) ==
  LET o == OutputNext(OutputOf(t, ws), d) IN
  IF o = NoCon \/ GlobalFullscreen(t) \in Below(t, ws) THEN NoCon ELSE VisibleOn(t, o)

\* get_tree_next(): wrap is the first container to wrap to met on the way up
RECURSIVE NextOutwards(_, _, _, _, _)
NextOutwards(t, c, d, wrapping, wrap) ==
  LET p == t.parent[c]
      next == Sibling(t.nodes[p], c, d)
      edge == EdgeOf(t.nodes[p], d)
      outside == NextWorkspace(t, Workspace(t, c), d)
      row == Len(t.nodes[p]) > 1 /\ Orientation(t, p) = Along(d)
      wraps == row /\ wrap = NoCon /\ wrapping # "off" /\ PermitsFocusing(t, edge)
      float == Sibling(t.floating[p], c, d)
  IN  IF c \in Workspaces \/ t.fs[c] = "output"
        THEN IF wrapping = "workspace" \/ outside = NoCon THEN wrap ELSE outside
      ELSE IF t.fs[c] = "global" THEN wrap
      ELSE IF c \in Floats
        THEN IF Along(d) = "vert" THEN NoCon
             ELSE IF float = NoCon THEN EdgeOf(t.floating[p], d) ELSE float
      ELSE IF row /\ next # NoCon /\ PermitsFocusing(t, next) THEN next
      ELSE IF row /\ wrapping = "force"
        THEN IF next = NoCon /\ PermitsFocusing(t, edge) THEN edge ELSE NoCon
      ELSE NextOutwards(t, p, d, wrapping, IF wraps THEN edge ELSE wrap)

\* what is focused on a workspace that is reached: what is fullscreen there or
\* else what was focused of the tiling containers, if there are any
Landing(t, ws) ==
  LET last == DescendFocused(t, ws)
      tiling == DescendTiling(t, ws)
  IN  IF t.fs[last] = "none" /\ tiling # ws THEN tiling ELSE last

\* a floating container gets on top, and those above it below all others
Rotated(t, f) ==
  [t EXCEPT !.floating[t.parent[f]] =
     LET i == Index(@, f) IN SubSeq(@, i + 1, Len(@)) \o SubSeq(@, 1, i)]

FocusOn(t, next) ==
  LET arrived(u) == Activate(u, IF next \in Workspaces THEN Landing(t, next)
                                ELSE DescendFocused(u, next))
      raised == IF next \in Floats THEN Rotated(t, next) ELSE t
  IN  IF next = NoCon THEN t ELSE arrived(WorkspaceShow(raised, Workspace(t, next)))

\* tree_next()
TreeNext(t, c, d, wrapping) ==
  FocusOn(t, IF c \in Workspaces THEN NextWorkspace(t, c, d)
             ELSE NextOutwards(t, c, d, wrapping, NoCon))

\* focus next|prev sibling; a workspace itself gets the focus
FocusSibling(t, c, next) ==
  IF next = NoCon \/ ~PermitsFocusing(t, next) THEN t
  ELSE IF next \in Workspaces THEN Focus(WorkspaceShow(t, next), next)
  ELSE Activate(t, next)

-----------------------------------------------------------------------------
(* con_swap() *)

ExchangedAtHead(s, x, y) ==
  LET s1 == IF x \in ToSet(s) THEN <<y>> \o Remove(s, x) ELSE s
  IN  IF y \in ToSet(s) THEN <<x>> \o Remove(s1, y) ELSE s1

Exchanged(s, x, y) ==
  [i \in DOMAIN s |-> IF s[i] = x THEN y ELSE IF s[i] = y THEN x ELSE s[i]]

\* takes a fullscreen mode over
Adopt(t, c, mode) ==
  IF mode = "none" THEN DisableFullscreen(t, c) ELSE EnableFullscreen(t, c, mode)

Swap(t, x, y) ==
  LET ws == Workspace(t, x)
      parents == {t.parent[x], t.parent[y]}
      restore ==
        IF ws = Workspace(t, y) /\ ws = Workspace(t, t.focused) THEN t.focused
        ELSE IF x \in Upwards(t, t.focused) THEN y
        ELSE IF y \in Upwards(t, t.focused) THEN x ELSE NoCon
      swapped == [t EXCEPT
        !.parent[x] = t.parent[y], !.parent[y] = t.parent[x],
        !.nodes = [c \in parents |-> Exchanged(t.nodes[c], x, y)] @@ @,
        !.focus = [c \in parents |-> Exchanged(t.focus[c], x, y)] @@ @]
      focused == IF restore = NoCon THEN swapped ELSE Focus(swapped, restore)
      urgent1 == SetUrgency(focused, x, focused.urgent[x])
      urgent2 == SetUrgency(urgent1, y, urgent1.urgent[y])
  IN  IF x = y \/ HasParent(t, x, y) \/ HasParent(t, y, x) THEN t
      ELSE Adopt(Adopt(urgent2, y, urgent2.fs[x]), x, urgent2.fs[y])
=============================================================================
