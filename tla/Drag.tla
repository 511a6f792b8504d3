-------------------------------- MODULE Drag --------------------------------
(***************************************************************************)
(* Clicks and drags over the container tree (click.c, drag.c,              *)
(* tiling_drag.c, resize.c, floating.c).  A drag is a handler that runs    *)
(* the event loop again: until the button is released, a key is pressed or *)
(* a window of the workspace disappears, other handlers run in it and the  *)
(* containers it has pointers to may go.  Where the pointer is, is chosen. *)
(***************************************************************************)
EXTENDS Tree

\* scenario also has  clicks  what the user clicks on: "inside", "decoration", "border"
\*                    dragging  config.tiling_drag: "off", "modifier", "titlebar", "both"
\*                    directions  the sides of a target that the pointer comes to
\*                    windows     how many windows there are at most
VARIABLE drag    \* the locals of the handler that drags, or what ended i3
dragVars == <<tree, scenario, drag>>

Idle == [kind |-> "none"]
\* undefined behaviour and failed assertions end a behaviour
Undefined == {"freed", "assertion"}
Dragging == drag.kind \in {"tiling", "floating", "resize", "sizing"}

-----------------------------------------------------------------------------
(* Drop targets *)

IsDropTarget(t, c) ==
  /\ c \in Windows \cap Alive(t)
  /\ ~IsFloating(t, c) /\ ~Hidden(t, c)
  /\ Visible(t, Workspace(t, c))
  /\ FullscreenCovering(t, Workspace(t, c)) \in {c, NoCon}

HasDropTargets(t) ==
  Cardinality({c \in Windows : IsDropTarget(t, c)})
    + Cardinality({o \in Outputs : VisibleOn(t, o) # NoCon /\ Leaf(t, VisibleOn(t, o))}) > 1

\* find_drop_target(): elsewhere on an output it is what is focused there
DropTargets(t) ==
  {c \in Windows : IsDropTarget(t, c)} \cup {DescendTiling(t, Head(t.focus[o])) : o \in Outputs}

Opposite(d) == CASE d = "left" -> "right" [] d = "right" -> "left" [] d = "up" -> "down" [] OTHER -> "up"
OnSideOfParent(t, c, d) ==
  LET p == t.parent[c] IN
  \/ Orientation(t, p) # Along(d)
  \/ t.layout[p] \in {"stacked", "tabbed"}
  \/ DescendDirection(t, p, Opposite(d)) = c

RECURSIVE Outermost(_, _, _)
Outermost(t, c, d) ==
  IF t.parent[c] \notin Workspaces /\ OnSideOfParent(t, t.parent[c], d)
    THEN Outermost(t, t.parent[c], d) ELSE c

-----------------------------------------------------------------------------
(* The start of a drag *)

TilingDrag(t, c) ==
  [kind |-> "tiling", con |-> c, target |-> NoCon, dir |-> "left", type |-> "center",
   setFocus |-> c = t.focused, setFs |-> t.fs[c] # "none", gone |-> {}]
FloatingDrag(t, f, kind) == [kind |-> kind, con |-> f, from |-> OutputOf(t, f), gone |-> {}]

\* resize_find_tiling_participants()
RECURSIVE Participants(_, _, _)
Participants(t, c, d) ==
  LET p == t.parent[c]
      other == Sibling(t.nodes[p], c, d)
  IN  IF c \in Workspaces \cup Floats THEN <<c, NoCon>>
      ELSE IF Orientation(t, p) # Along(d) \/ t.layout[p] \in {"stacked", "tabbed"} \/ other = NoCon
        THEN Participants(t, p, d)
      ELSE <<c, other>>

\* tiling_resize_for_border(), up to the drag
ResizeForBorder(t, c, d) ==
  LET found == Participants(t, c, d) IN
  IF found[2] = NoCon \/ t.fs[found[1]] # t.fs[found[2]] THEN Idle
  ELSE [kind |-> "resize", con |-> NoCon, first |-> found[1], second |-> found[2],
        moved |-> FALSE, gone |-> {}]

-----------------------------------------------------------------------------
(* route_click() *)

Borders(dest) == IF dest = "decoration" THEN {"up"} ELSE Directions
Starts(t, d) == tree' = t /\ drag' = d /\ UNCHANGED scenario

RECURSIVE Innermost(_, _)
Innermost(t, c) == IF t.focus[c] = << >> THEN c ELSE Innermost(t, Head(t.focus[c]))

\* scrolling on a tab goes to the next one that may be focused
Scroll(c, dest) ==
  LET t == WorkspaceShow(tree, Workspace(tree, c))
      p == t.parent[c]
      current == Head(t.focus[p])
  IN  /\ dest = "decoration" /\ t.layout[p] \in {"stacked", "tabbed"}
      /\ \E d \in {"left", "right"} :
           LET next == Sibling(t.nodes[p], current, d)
               to == IF next # NoCon /\ PermitsFocusing(t, next) THEN next ELSE current
           IN  Starts(Activate(t, DescendFocused(t, to)), Idle)

\* a click on the tab of what is focused focuses the whole tab
Clicked(c, dest) ==
  IF /\ dest = "decoration" /\ tree.layout[tree.parent[c]] \in {"stacked", "tabbed"}
     /\ tree.focused = c \/ ~HasParent(tree, tree.focused, c)
    THEN Innermost(tree, c) ELSE c

FocusClicked(c, dest) ==
  LET ws == Workspace(tree, c)
      t == IF ws = Workspace(tree, tree.focused) THEN tree ELSE WorkspaceShow(tree, ws)
  IN  Activate(t, Clicked(c, dest))

ClickFloating(t, f, c, dest, button, mod) ==
  LET resize == \E d \in Borders(dest) : ResizeForBorder(t, c, d) # Idle
      edge == dest \in {"border", "decoration"}
  IN  IF mod THEN Starts(t, FloatingDrag(t, f, IF button = "left" THEN "floating" ELSE "sizing"))
      ELSE \/ edge /\ \E d \in Borders(dest) :
                 /\ ResizeForBorder(t, c, d).kind # "none"
                 /\ Starts(t, ResizeForBorder(t, c, d))
           \/ edge /\ (dest = "border" \/ ~resize)
                /\ Starts(t, FloatingDrag(t, f, IF dest = "decoration" /\ button = "left" THEN "floating" ELSE "sizing"))
           \/ ~edge /\ Starts(t, Idle)

ClickTiling(t, c, dest, button, mod) ==
  LET mayDrag == \/ scenario.dragging = "titlebar" /\ dest = "decoration"
                 \/ scenario.dragging = "both" /\ (mod \/ dest = "decoration")
      mayResize == dest # "inside" \/ (mod /\ button = "right")
  IN  IF button = "left" /\ mayDrag /\ HasDropTargets(t) THEN Starts(t, TilingDrag(t, c))
      ELSE IF mayResize THEN \E d \in Borders(dest) : Starts(t, ResizeForBorder(t, c, d))
      ELSE Starts(t, Idle)

RouteClick(c, dest, button, mod) ==
  \E f \in {InsideFloating(tree, c)}, t \in {FocusClicked(c, dest)} :
      IF mod /\ button = "left" /\ f = NoCon /\ scenario.dragging \in {"modifier", "both"} /\ HasDropTargets(tree)
        THEN Starts(tree, TilingDrag(tree, c))
      ELSE IF f # NoCon /\ FullscreenCovering(t, Workspace(tree, c)) # c
        THEN ClickFloating(t, f, c, dest, button, mod)
      ELSE ClickTiling(t, c, dest, button, mod)

\* of split containers only the tabs can be clicked on
Click(c, dest) ==
  /\ drag = Idle /\ dest \in scenario.clicks
  /\ c \in (Windows \cup Splits) \cap Alive(tree) /\ Visible(tree, Workspace(tree, c))
  /\ FullscreenCovering(tree, Workspace(tree, c)) \in Upwards(tree, c) \cup {NoCon}
  /\ Hidden(tree, c) => dest = "decoration"
  /\ c \in Splits => dest = "decoration" /\ tree.layout[tree.parent[c]] \in {"stacked", "tabbed"}
  /\ \/ Scroll(c, dest)
     \/ \E button \in {"left", "right"}, mod \in BOOLEAN : RouteClick(c, dest, button, mod)

-----------------------------------------------------------------------------
(* drag_pointer() *)

Refs(d) == CASE d.kind = "tiling" -> {d.con, d.target}
             [] d.kind = "resize" -> {d.first, d.second}
             [] OTHER -> {d.con}
Lost(d, t) == [d EXCEPT !.gone = @ \cup (Refs(d) \ (Alive(t) \cup {NoCon}))]

\* con_exists(): a new container in the place of an old one is another
Exists(c) == c \notin drag.gone

\* drag_callback(); only the last motion matters, and it is the only one that is a step
MotionTiling ==
  /\ drag.kind = "tiling" /\ Exists(drag.con) /\ drag.target = NoCon
  /\ \E c \in DropTargets(tree), d \in scenario.directions, type \in {"parent", "sibling", "center"} :
       /\ c \in Workspaces => type = "center"
       /\ type = "parent" => OnSideOfParent(tree, c, d)
       /\ drag' = [drag EXCEPT !.dir = IF type = "center" THEN @ ELSE d, !.type = type,
                     !.target = IF type = "parent" THEN Outermost(tree, c, d) ELSE c]
  /\ UNCHANGED <<tree, scenario>>

\* floating_maybe_reassign_ws() when the pointer takes it to another output
Reassign(t, f, o) ==
  LET ws == Head(t.focus[o])
      inner == DescendFocused(t, f)
      follow(u) == IF t.focused \in Upwards(t, inner) THEN Activate(WorkspaceShow(u, ws), inner) ELSE u
  IN  IF OutputOf(t, f) = o THEN t ELSE follow(MoveToWorkspace(t, f, ws))

MotionFloating ==
  /\ drag.kind = "floating" /\ Exists(drag.con)
  /\ \E o \in Outputs : tree' = Reassign(tree, drag.con, o)
  /\ UNCHANGED <<drag, scenario>>

MotionResize == drag.kind = "resize" /\ drag' = [drag EXCEPT !.moved = TRUE] /\ UNCHANGED <<tree, scenario>>

-----------------------------------------------------------------------------
(* The end of a drag *)

DropCenter(t, d) == MoveToTarget(t, d.con, d.target)
DropSwap(t, d) == Swap(t, d.con, d.target)
\* what con_swap() does not do; a drop in the centre is never on the container itself
RefusesSwap(t, d) ==
  d.target \in Workspaces \/ HasParent(t, d.con, d.target) \/ HasParent(t, d.target, d.con)

Place(d) == IF d.dir \in {"left", "up"} THEN "before" ELSE "after"

DropSibling(t, d) ==
  LET p == t.parent[d.target]
      layout == SplitLayout(Along(d.dir))
      in(u) == InsertInto(u, d.con, d.target, Place(d))
  IN  in(IF Orientation(t, p) = Along(d.dir) THEN t
         ELSE IF t.parent[d.con] = p /\ Len(t.nodes[p]) = 2 THEN [t EXCEPT !.layout[p] = layout]
         ELSE TreeSplit(t, d.target, layout))

DropParent(t, d) ==
  LET siblings == t.nodes[t.parent[d.target]]
      target == IF t.layout[t.parent[d.target]] \notin {"stacked", "tabbed"} THEN d.target
                ELSE IF Place(d) = "before" THEN Head(siblings) ELSE Last(siblings)
      back(u, focused) == IF u.focused = focused THEN u ELSE Activate(u, focused)
      moved(u) == back(TreeMove(u, d.con, d.dir), u.focused)
  IN  moved(IF d.con = target THEN t ELSE InsertInto(t, d.con, target, Place(d)))

ManagedNot(t, d) ==
  LET t2 == IF d.setFs THEN EnableFullscreen(t, d.con, "output") ELSE t
  IN  IF d.setFocus THEN Focus(WorkspaceShow(t2, Workspace(t, d.con)), d.con) ELSE t2

\* "Manage fullscreen status"
Managed(t, d) ==
  LET fs == FullscreenCovering(t, Workspace(t, d.con))
      here == Workspace(t, t.focused) = Workspace(t, d.con)
      yields == fs # NoCon /\ ~(d.setFocus /\ d.setFs)
      setFs == d.setFs /\ ~yields
      setFocus == ~yields /\ (d.setFocus \/ (d.setFs /\ here))
      covered(u) == IF setFs THEN EnableFullscreen(u, d.con, "output") ELSE u
      focus(u) == IF setFocus THEN Focus(WorkspaceShow(u, Workspace(t, d.con)), d.con) ELSE u
  IN  focus(covered(IF fs # NoCon /\ d.setFocus /\ d.setFs THEN DisableFullscreen(t, fs) ELSE t))

\* what the three ways of dropping leave; with the modifier the centre swaps
Drops(t, d) ==
  LET u == DisableFullscreen(t, d.con) IN
  CASE d.type = "center" -> {DropCenter(u, d)} \cup (IF RefusesSwap(u, d) THEN {} ELSE {DropSwap(u, d)})
    [] FreeSplits(t) = {} -> {}                       \* bound of the model: the pool
    [] d.type = "sibling" -> {DropSibling(u, d)}
    [] OTHER -> {DropParent(u, d)}

FinishDrop(t, d) ==
  IF (d.setFocus \/ d.setFs) /\ FullscreenCovering(t, Workspace(t, d.con)) = d.con
    THEN Starts(t, [kind |-> "assertion"])
    ELSE Starts(Managed(t, d), Idle)

\* the rest of tiling_drag()
EndTiling(t, d, result) ==
  IF result = "revert" \/ d.target \in {NoCon} \cup d.gone \/ (d.target = d.con /\ d.type # "parent")
    THEN Starts(t, Idle)
  ELSE IF d.con \in d.gone THEN Starts(t, [kind |-> "freed"])
  ELSE \/ \E u \in Drops(t, d) : FinishDrop(u, d)
       \/ d.type = "center" /\ RefusesSwap(t, d) /\ Starts(DisableFullscreen(t, d.con), Idle)

\* the rest of resize_graphical_handler(); percentages are not modelled
EndResize(t, d, result) ==
  Starts(t, IF result # "revert" /\ d.moved /\ d.gone # {} THEN [kind |-> "freed"] ELSE Idle)

\* the rest of floating_drag_window() and floating_resize_window()
EndFloating(t, d, result) ==
  IF d.con \in d.gone \/ result # "revert" THEN Starts(t, Idle)
  ELSE Starts(Reassign(t, d.con, d.from), Idle)

\* drain_drag_events(): the end of a window on the workspace of the focus ends the drag
WithFocus(w) == Workspace(tree, w) = Workspace(tree, tree.focused)
EndDrag ==
  /\ Dragging
  /\ \E e \in {[result |-> r, tree |-> tree] : r \in {"success", "revert"}}
               \cup {[result |-> "abort", tree |-> CloseAndTidy(tree, w)] : w \in {x \in Open : WithFocus(x)}} :
       \E d \in {Lost(drag, e.tree)} :
         \/ d.kind = "tiling" /\ EndTiling(e.tree, d, e.result)
         \/ d.kind = "resize" /\ EndResize(e.tree, d, e.result)
         \/ d.kind \in {"floating", "sizing"} /\ EndFloating(e.tree, d, e.result)

UnmapElsewhere(w) ==
  /\ Dragging /\ w \in Open /\ ~WithFocus(w)
  /\ \E t \in {CloseAndTidy(tree, w)} : Starts(t, Lost(drag, t))

-----------------------------------------------------------------------------
DragInit == Init /\ drag = Idle

\* the handlers of Tree, at any time but for UnmapNotify, which a drag looks at itself
Handler ==
  /\ drag.kind \notin Undefined
  /\ Next /\ (Dragging => \A w \in Windows : ~UnmapWindow(w))
  /\ Cardinality(Open') <= scenario.windows
  /\ drag' = IF Dragging THEN Lost(drag, tree') ELSE drag

DragNext ==
  \/ Handler
  \/ \E c \in Windows \cup Splits, dest \in scenario.clicks : Click(c, dest)
  \/ MotionTiling \/ MotionFloating \/ MotionResize \/ EndDrag
  \/ \E w \in Windows : UnmapElsewhere(w)

DragSpec == DragInit /\ [][DragNext]_dragVars

-----------------------------------------------------------------------------
(* Properties *)

\* A click and all that is done during a drag leave a tree.
DragKeepsTree == WellFormed

\* A drop leaves a focused window alone, or focuses what is dropped: when that had the focus or
\* was fullscreen as the drag began, or when its target has the focus. When what is dropped has it
\* and loses it, it got it during the drag or is hidden there, and the focus stays on the workspace.
\* What the drop focuses is not behind a fullscreen window.
DropKeepsFocus ==
  [][drag.kind = "tiling" /\ drag' = Idle /\ Open \subseteq Alive(tree)' /\ tree.focused \notin Workspaces
       => /\ \/ tree'.focused = tree.focused
             \/ /\ tree'.focused = drag.con
                /\ drag.setFocus \/ drag.setFs \/ drag.target \in Upwards(tree, tree.focused)
             \/ /\ drag.con \in Upwards(tree, tree.focused)
                /\ Workspace(tree', tree'.focused) = Workspace(tree, tree.focused)
          /\ tree'.focused = drag.con /\ tree.focused # drag.con => FocusNotObscured']_dragVars
=============================================================================
