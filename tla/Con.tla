--------------------------------- MODULE Con --------------------------------
(***************************************************************************)
(* The container tree of i3 and the functions of con.c, tree.c, floating.c *)
(* and workspace.c that change it.  Each of them is an operator from trees *)
(* to trees, so that a handler can call several of them one after another, *)
(* as the code does; the handlers themselves are the actions of Tree.tla.  *)
(*                                                                         *)
(* The root and the "content" container of an output are not modelled: a   *)
(* workspace hangs directly below its output.  Dock areas, sticky windows  *)
(* and geometry are left out.                                              *)
(***************************************************************************)
EXTENDS Naturals, FiniteSets, SequencesExt, TLC

CONSTANTS
  Outputs,        \* CT_OUTPUT
  Workspaces,     \* CT_WORKSPACE, by name
  Splits,         \* CT_CON without a window: the pool new ones are taken from
  Floats,         \* CT_FLOATING_CON: the pool new ones are taken from
  Windows,        \* CT_CON with a window
  NoCon,          \* NULL
  Scratch,        \* the workspace __i3_scratch on an output of its own, NoCon without one
  UrgencyDelay    \* workspace_urgency_timer > 0

AllCons == Outputs \cup Workspaces \cup Splits \cup Floats \cup Windows

ASSUME ConAssumption ==
  /\ NoCon \notin AllCons
  /\ UrgencyDelay \in BOOLEAN
  /\ Scratch \in Workspaces \cup {NoCon}
  /\ \A A, B \in {Outputs, Workspaces, Splits, Floats, Windows} :
       A # B => A \cap B = {}

Layouts == {"splith", "splitv", "stacked", "tabbed"}
Modes == {"none", "output", "global"}

\* struct Con, one field per function
Trees ==
  [parent : [AllCons -> AllCons \cup {NoCon}],
   nodes : [AllCons -> Seq(AllCons)], floating : [AllCons -> Seq(AllCons)],
   focus : [AllCons -> Seq(AllCons)], layout : [AllCons -> Layouts],
   fs : [AllCons -> Modes], urgent : [AllCons -> BOOLEAN], timer : [AllCons -> BOOLEAN],
   scratch : [AllCons -> BOOLEAN],       \* scratchpad_state is not SCRATCHPAD_NONE
   focused : AllCons]

-----------------------------------------------------------------------------
(* TAILQ *)

Index(s, x) == CHOOSE i \in DOMAIN s : s[i] = x
First(s) == IF s = << >> THEN NoCon ELSE Head(s)
Final(s) == IF s = << >> THEN NoCon ELSE Last(s)
NextOf(s, x) == IF Last(s) = x THEN NoCon ELSE s[Index(s, x) + 1]
PrevOf(s, x) == IF Head(s) = x THEN NoCon ELSE s[Index(s, x) - 1]
Before(s, x, y) == InsertAt(s, Index(s, x), y)
After(s, x, y) == InsertAt(s, Index(s, x) + 1, y)
ToHead(s, x) == <<x>> \o Remove(s, x)
ToTail(s, x) == Remove(s, x) \o <<x>>

-----------------------------------------------------------------------------
(* Where a container is *)

Alive(t) == Outputs \cup {c \in AllCons : t.parent[c] # NoCon}

\* con, its parent, and so on up to the output
RECURSIVE Upwards(_, _)
Upwards(t, c) ==
  IF c = NoCon THEN {}
  ELSE {c} \cup Upwards(t, t.parent[c])

HasParent(t, c, p) == p \in Upwards(t, t.parent[c])

TheOne(S) == IF S = {} THEN NoCon ELSE CHOOSE c \in S : TRUE

Workspace(t, c) == TheOne(Upwards(t, c) \cap Workspaces)
OutputOf(t, c) == TheOne(Upwards(t, c) \cap Outputs)
InsideFloating(t, c) == TheOne(Upwards(t, c) \cap Floats)
OnScratch(t, c) == Scratch \in Upwards(t, c)
IsFloating(t, c) == t.parent[c] \in Floats
Leaf(t, c) == t.nodes[c] = << >>
Split(t, c) == ~Leaf(t, c)
Orientation(t, c) == IF t.layout[c] \in {"splitv", "stacked"} THEN "vert" ELSE "horiz"
SplitLayout(o) == IF o = "vert" THEN "splitv" ELSE "splith"

RECURSIVE Below(_, _)
Below(t, c) ==
  LET children == ToSet(t.nodes[c]) \cup ToSet(t.floating[c])
  IN  children \cup UNION {Below(t, x) : x \in children}

\* the workspace of an output that has fullscreen_mode CF_OUTPUT
Visible(t, ws) ==
  First(SelectSeq(t.nodes[t.parent[ws]], LAMBDA w : t.fs[w] = "output")) = ws

VisibleOn(t, o) == TheOne({ws \in ToSet(t.nodes[o]) : Visible(t, ws)})

\* con_get_fullscreen_con() searches breadth-first; there never are two to
\* choose from.
FullscreenBelow(t, c) == TheOne({x \in Below(t, c) : t.fs[x] = "output"})
GlobalFullscreen(t) == TheOne({x \in AllCons : t.fs[x] = "global"})

FullscreenCovering(t, ws) ==
  IF GlobalFullscreen(t) # NoCon THEN GlobalFullscreen(t)
  ELSE FullscreenBelow(t, ws)

\* the closest container around focused that is fullscreen; its workspace
\* is one when it is visible
RECURSIVE FullscreenAbove(_, _)
FullscreenAbove(t, c) ==
  IF c = NoCon \/ t.fs[c] # "none" THEN c ELSE FullscreenAbove(t, t.parent[c])

PermitsFocusing(t, c) ==
  LET fs == FullscreenAbove(t, t.focused) IN
  \/ fs \in Workspaces \cup {NoCon}
  \/ c = fs
  \/ t.fs[fs] = "output" /\ Workspace(t, c) # Workspace(t, fs)
  \/ HasParent(t, c, fs)

RECURSIVE DescendFocused(_, _)
DescendFocused(t, c) ==
  IF c = t.focused \/ t.focus[c] = << >> THEN c
  ELSE DescendFocused(t, Head(t.focus[c]))

FirstTiling(t, c) == First(SelectSeq(t.focus[c], LAMBDA x : x \notin Floats))

RECURSIVE DescendTiling(_, _)
DescendTiling(t, c) ==
  IF c = t.focused \/ FirstTiling(t, c) = NoCon THEN c
  ELSE DescendTiling(t, FirstTiling(t, c))

\* follows the focus stack but never into con
RECURSIVE DescendExcept(_, _, _)
DescendExcept(t, c, con) ==
  IF t.focus[c] = << >> \/ First(t.focus[c]) = con THEN c
  ELSE DescendExcept(t, Head(t.focus[c]), con)

NextFocused(t, c) ==
  LET con == IF IsFloating(t, c) THEN t.parent[c] ELSE c
      stack == t.focus[t.parent[con]]
      sibling == IF Head(stack) # con THEN Head(stack)
                 ELSE IF Last(stack) # con THEN stack[2] ELSE t.parent[con]
      from(next) == IF con \in Floats /\ next # t.parent[con] THEN DescendFocused(t, next)
                    ELSE next
  IN  from(DescendExcept(t, sibling, con))

-----------------------------------------------------------------------------
(* Linking *)

\* _con_attach(); behind one that is not in the list of the parent con gets into no list
AttachAfter(t, c, p, current) ==
  [t EXCEPT
     !.parent[c] = p,
     !.floating[p] = IF c \in Floats THEN Append(@, c) ELSE @,
     !.nodes[p] = IF c \in Floats THEN @
                  ELSE IF current = NoCon THEN Append(@, c)
                  ELSE IF current \in ToSet(@) THEN After(@, current, c) ELSE @,
     !.focus[p] = Append(@, c)]

\* con_attach() behind the focused tiling container, and at the end of the list
Attach(t, c, p) == AttachAfter(t, c, p, FirstTiling(t, p))
AttachLast(t, c, p) == AttachAfter(t, c, p, NoCon)

DetachTiling(t, c) ==
  LET p == t.parent[c]
  IN  [t EXCEPT !.nodes[p] = Remove(@, c), !.focus[p] = Remove(@, c)]

Detach(t, c) ==
  LET p == t.parent[c] IN
  [t EXCEPT !.floating[p] = Remove(@, c), !.nodes[p] = Remove(@, c),
            !.focus[p] = Remove(@, c)]

Unlink(t, c) == [Detach(t, c) EXCEPT !.parent[c] = NoCon]

\* con_free(), and what con_new() sets for the next use
Free(t, c) ==
  [t EXCEPT !.parent[c] = NoCon, !.layout[c] = "splith", !.fs[c] = "none",
            !.urgent[c] = FALSE, !.timer[c] = FALSE, !.scratch[c] = FALSE]

FreeSplits(t) == {s \in Splits : t.parent[s] = NoCon}
NewSplit(t) == CHOOSE s \in FreeSplits(t) : TRUE
FreeFloats(t) == {f \in Floats : t.parent[f] = NoCon}
NewFloat(t) == CHOOSE f \in FreeFloats(t) : TRUE

-----------------------------------------------------------------------------
(* Urgency *)

RECURSIVE HasUrgentChild(_, _)
HasUrgentChild(t, c) ==
  IF Leaf(t, c) THEN t.urgent[c]
  ELSE \E x \in ToSet(t.nodes[c]) : HasUrgentChild(t, x)

\* con_update_parents_urgency()
UpdateParents(t, c) ==
  IF c \in Workspaces THEN t
  ELSE LET above == Upwards(t, t.parent[c]) \ (Workspaces \cup Outputs)
       IN  [t EXCEPT !.urgent =
             [p \in above |-> t.urgent[c] \/ (t.urgent[p] /\ HasUrgentChild(t, p))] @@ @]

\* workspace_update_urgent_flag()
UpdateWorkspace(t, ws) ==
  [t EXCEPT !.urgent[ws] = \E x \in Below(t, ws) : t.urgent[x]]

SetUrgencyAlone(t, c, urgent) ==
  IF (urgent /\ t.focused = c) \/ t.timer[c] THEN t ELSE [t EXCEPT !.urgent[c] = urgent]

SetUrgency(t, c, urgent) ==
  IF urgent /\ t.focused = c THEN t
  ELSE LET flagged == IF t.timer[c] THEN t ELSE [t EXCEPT !.urgent[c] = urgent]
       IN  UpdateWorkspace(UpdateParents(flagged, c), Workspace(t, c))

ClearUrgency(t, c) == IF t.urgent[c] THEN SetUrgency(t, c, FALSE) ELSE t

-----------------------------------------------------------------------------
(* Focus *)

Refreshed(t, ws) == IF Leaf(t, ws) /\ t.urgent[ws] THEN UpdateWorkspace(t, ws) ELSE t
Looked(t, c) == IF Leaf(t, c) THEN ClearUrgency(t, c) ELSE t

\* con_focus(): to the head of every focus stack on the way up.  The urgency
\* of a leaf is cleared; a workspace without tiling children is a leaf too.
Focus(t, c) ==
  LET path == Upwards(t, c)
      child(p) == CHOOSE x \in path : t.parent[x] = p
  IN  Looked(Refreshed([t EXCEPT
        !.focus = [p \in path \ {c} |-> ToHead(t.focus[p], child(p))] @@ @,
        !.focused = c], Workspace(t, c)), c)

Raise(t, c) ==
  LET f == InsideFloating(t, c) IN
  IF f = NoCon THEN t ELSE [t EXCEPT !.floating[t.parent[f]] = ToTail(@, f)]

Activate(t, c) == Raise(Focus(t, c), c)

-----------------------------------------------------------------------------
(* Closing *)

Quiet(t, c) == IF t.timer[c] THEN UpdateWorkspace(t, Workspace(t, c)) ELSE t
ActivateNext(t, next) == IF next = NoCon THEN t ELSE Activate(t, next)
CloseAlone(t, c) ==
  ActivateNext(Free(Quiet(Detach(t, c), c), c), IF c = t.focused THEN NextFocused(t, c) ELSE NoCon)

\* tree_close_internal(con, DONT_KILL_WINDOW, true)
RECURSIVE Close(_, _), CloseEach(_, _)
CloseEach(t, s) == IF s = << >> THEN t ELSE CloseEach(Close(t, Head(s)), Tail(s))
CloseAlways(t, c) ==
  LET closed(u) == Activate(Free(Detach(u, c), c), NextFocused(u, c))
  IN  closed(CloseEach(ClearUrgency(t, c), t.nodes[c]))

Close(t, c) ==
  CloseAlone(CloseEach(ClearUrgency(t, c), t.nodes[c]), c)

\* con_on_remove_child(), which closes an empty container and calls itself
\* for the parent
RECURSIVE OnRemoveChild(_, _)
OnRemoveChild(t, p) ==
  LET empty == IF p \in Workspaces THEN t.focus[p] = << >> /\ ~Visible(t, p) ELSE Leaf(t, p)
      updated == IF p \in Workspaces THEN t
                 ELSE UpdateParents([t EXCEPT !.urgent[p] = HasUrgentChild(t, p)], p)
  IN  IF p \in Outputs THEN t
      ELSE IF empty THEN OnRemoveChild(Close(updated, p), t.parent[p]) ELSE updated

CloseOnly(t, c) == Close(t, c)

\* tree_close_internal(con, DONT_KILL_WINDOW, false)
CloseAndTidy(t, c) == OnRemoveChild(Close(t, c), t.parent[c])

\* tree_close_internal(con, KILL_WINDOW, false): the windows are asked to close
RECURSIVE AskToClose(_, _)
AskToClose(t, c) == FoldLeft(AskToClose, ClearUrgency(t, c), t.nodes[c])
=============================================================================
