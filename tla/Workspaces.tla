----------------------------- MODULE Workspaces -----------------------------
(***************************************************************************)
(* Workspaces on outputs: workspace.c with what con.c, ewmh.c and the      *)
(* workspace commands do to them.  A state s is a record of the Output     *)
(* structures and of the tree down to the windows, as operators on records *)
(* so that one handler can chain them; Outputs.tla has the actions.        *)
(* Split and floating containers are in Con.tla: a workspace holds windows.*)
(***************************************************************************)
EXTENDS Integers, FiniteSets, SequencesExt, FiniteSetsExt, Functions

CONSTANTS
  Outs,      \* names of outputs, among them
  Root,      \* "xroot-0", the output that covers the root window
  Names,     \* names of workspaces
  Num,       \* ws_name_to_number(): the number a name starts with, or -1
  Digits,    \* the names that are a number and nothing else
  Windows,
  None

ASSUME WorkspacesAssumption ==
  /\ Root \in Outs /\ Digits \subseteq Names
  /\ Num \in [Names -> Nat \cup {-1}]
  /\ \A n \in Digits : Num[n] # -1

\* scalloc(): an Output without a container
NoOutput == [active |-> FALSE, changed |-> FALSE, disable |-> FALSE, primary |-> FALSE,
             con |-> FALSE, x |-> 0, w |-> 0]

\* i3 before randr_init(): no outputs, a tree without content
Blank ==
  [known |-> << >>, out |-> [o \in Outs |-> NoOutput],
   cons |-> << >>, focusOut |-> << >>,
   nodes |-> [o \in Outs |-> << >>], focus |-> [o \in Outs |-> << >>],
   wins |-> [n \in Names |-> << >>], shown |-> {}, all |-> << >>,
   focused |-> None, prev |-> None, freed |-> FALSE,
   pub |-> [names |-> << >>, current |-> 0, wm |-> [w \in Windows |-> 0]]]

-----------------------------------------------------------------------------
(* The tree *)

ToHead(q, e) == <<e>> \o Remove(q, e)
First(q) == IF q = << >> THEN None ELSE q[1]
Existing(s) == UNION {ToSet(s.nodes[o]) : o \in Outs}
OutOf(s, ws) == CHOOSE o \in Outs : ws \in ToSet(s.nodes[o])

\* con_get_workspace(): nothing for the content container of an output
WsOf(s, c) ==
  IF c \in Names THEN c
  ELSE IF c \in Windows THEN CHOOSE n \in Names : c \in ToSet(s.wins[n])
  ELSE None
Current(s) == WsOf(s, s.focused)
CurrentOut(s) == IF s.focused \in Outs THEN s.focused ELSE OutOf(s, Current(s))

\* con_descend_focused()
Descend(s, ws) == IF s.wins[ws] = << >> THEN ws ELSE Head(s.wins[ws])

\* con_focus(), of a window, of a workspace, of a content container
Focus(s, c) ==
  IF c \in Outs THEN [s EXCEPT !.focusOut = ToHead(@, c), !.focused = c]
  ELSE LET ws == WsOf(s, c)
           o == OutOf(s, ws)
       IN  [s EXCEPT !.wins[ws] = IF c \in Windows THEN ToHead(@, c) ELSE @,
                     !.focus[o] = ToHead(@, ws), !.focusOut = ToHead(@, o), !.focused = c]

\* con_get_fullscreen_con(): the first one that is found
Visible(s, ws) ==
  LET o == OutOf(s, ws)
  IN  ws = First(SelectSeq(s.nodes[o], LAMBDA n : n \in s.shown))

\* the numbered workspaces in their order, then the others in theirs
InsertSorted(q, ws) ==
  LET smaller == {i \in DOMAIN q : \A j \in 1 .. i : Num[q[j]] \in 0 .. Num[ws]}
  IN  IF Num[ws] = -1 THEN Append(q, ws)
      ELSE InsertAt(q, 1 + Cardinality(smaller), ws)
Attach(s, ws, o) ==
  [s EXCEPT !.nodes[o] = InsertSorted(@, ws), !.focus[o] = Append(@, ws)]
Detach(s, ws) ==
  LET o == OutOf(s, ws)
  IN  [s EXCEPT !.nodes[o] = Remove(@, ws), !.focus[o] = Remove(@, ws)]

-----------------------------------------------------------------------------
(* What pagers and bars are told *)

Desktops(s) == FlattenSeq([i \in DOMAIN s.cons |-> s.nodes[s.cons[i]]])
Index(s, ws) == CHOOSE i \in DOMAIN Desktops(s) : Desktops(s)[i] = ws

UpdateCurrentDesktop(s) ==
  IF Current(s) \in Existing(s) THEN [s EXCEPT !.pub.current = Index(s, Current(s))] ELSE s

UpdateWmDesktop(s) ==
  [s EXCEPT !.pub.wm = [w \in Windows |->
     IF \E n \in Existing(s) : w \in ToSet(s.wins[n]) THEN Index(s, WsOf(s, w)) ELSE @[w]]]

UpdateDesktopProperties(s) ==
  UpdateWmDesktop([UpdateCurrentDesktop(s) EXCEPT !.pub.names = Desktops(s)])

-----------------------------------------------------------------------------
(* Workspaces come and go *)

\* tree_close_internal() of a workspace without windows that is not focused
Close(s, ws) ==
  UpdateDesktopProperties([Detach(s, ws) EXCEPT !.shown = @ \ {ws}, !.all = Remove(@, ws)])

\* con_on_remove_child() of a workspace
OnRemoveChild(s, ws) ==
  IF s.wins[ws] = << >> /\ ~Visible(s, ws) THEN Close(s, ws) ELSE s

\* get_output_by_name(), of active outputs
ByName(s, o) == o \in ToSet(s.known) /\ s.out[o].active

\* get_assigned_output(): an assignment by name before the first one by number
Assigned(s, assignments, name, num) ==
  LET named == SelectSeq(assignments, LAMBDA a : a.ws = name /\ ByName(s, a.to))
      numbered == SelectSeq(assignments, LAMBDA a :
                    a.ws # name /\ num # -1 /\ a.ws \in Digits /\ Num[a.ws] = num /\ ByName(s, a.to))
  IN  IF named # << >> THEN Head(named).to
      ELSE IF numbered # << >> THEN Head(numbered).to ELSE None

\* get_existing_workspace_by_name() or _by_num()
Taken(s, n) == IF Num[n] = -1 THEN n \in Existing(s) ELSE \E m \in Existing(s) : Num[m] = Num[n]

WorkspaceGet(s, assignments, n) ==
  LET to == Assigned(s, assignments, n, Num[n])
  IN  IF n \in Existing(s) THEN s
      ELSE UpdateDesktopProperties(
             [Attach(s, n, IF to # None THEN to ELSE CurrentOut(s)) EXCEPT !.all = Append(@, n)])

\* the first free name of a binding, or the first free number
FreeName(s, plan, o) ==
  LET mayHold(to) == to \in {o, None}
      bound == SelectSeq(plan.bindings, LAMBDA n :
                 mayHold(Assigned(s, plan.assignments, n, -1)) /\ ~Taken(s, n))
      free == {n \in Digits : ~Taken(s, n) /\ mayHold(Assigned(s, plan.assignments, None, Num[n]))}
  IN  IF bound # << >> THEN Head(bound)
      ELSE CHOOSE n \in free : \A m \in free : Num[n] <= Num[m]

CreateWorkspaceOnOutput(s, plan, o) ==
  LET ws == FreeName(s, plan, o)
  IN  [Attach(s, ws, o) EXCEPT !.shown = @ \cup {ws}, !.all = Append(@, ws)]

-----------------------------------------------------------------------------
(* Showing a workspace *)

\* previous_workspace_name, whether or not the workspace that is left will be closed
RememberFull(s) == IF Current(s) = None \/ s.wins[Current(s)] = << >> THEN s.prev ELSE Current(s)
Remember(s) == IF Current(s) = None THEN s.prev ELSE Current(s)

ShowOnly(s, ws) == [s EXCEPT !.shown = (@ \ ToSet(s.nodes[OutOf(s, ws)])) \cup {ws}]
CloseEmpty(s, old) == IF old # None /\ s.wins[old] = << >> THEN Close(s, old) ELSE s

WorkspaceShow(s, ws) ==
  LET showing == SelectSeq(s.nodes[OutOf(s, ws)], LAMBDA n : n \in s.shown)
      old == IF showing = << >> \/ Last(showing) = ws THEN None ELSE Last(showing)
  IN  IF ws = Current(s) THEN ShowOnly(s, ws)
      ELSE UpdateCurrentDesktop(
             CloseEmpty(Focus([ShowOnly(s, ws) EXCEPT !.prev = Remember(s)], Descend(s, ws)), old))

-----------------------------------------------------------------------------
(* Moving a workspace to another output *)

\* the last workspace of an output is replaced before it leaves
Replace(s, plan, ws) ==
  LET from == OutOf(s, ws)
      mine == SelectSeq(plan.assignments, LAMBDA a :
                Assigned(s, plan.assignments, a.ws, -1) = from /\ ~Taken(s, a.ws))
  IN  IF Len(s.nodes[from]) # 1 THEN s
      ELSE IF mine # << >> THEN WorkspaceGet(s, plan.assignments, Head(mine).ws)
      ELSE CreateWorkspaceOnOutput(s, plan, from)

\* another workspace is shown in its place, it is shown where it comes to, and the workspace
\* that was there closes if it is empty
Leave(s, ws, o, visible) ==
  IF visible THEN WorkspaceShow(Detach(s, ws), First(Remove(s.focus[o], ws))) ELSE Detach(s, ws)
Arrive(s, ws, visible) == UpdateDesktopProperties(IF visible THEN WorkspaceShow(s, ws) ELSE s)
DropEmpty(s, o, before) ==
  IF before # None /\ before \in ToSet(s.nodes[o]) THEN OnRemoveChild(s, before) ELSE s

MoveToOutput(s, plan, ws, o) ==
  LET from == OutOf(s, ws)
      there == Attach(Leave(Replace(s, plan, ws), ws, from, Visible(s, ws)), ws, o)
  IN  IF from = o THEN s
      ELSE DropEmpty(Arrive(there, ws, Visible(s, ws)), o, First(s.focus[o]))

-----------------------------------------------------------------------------
(* Which workspace is next *)

Numbered(q) == SelectSeq(q, LAMBDA n : Num[n] # -1)
Named(q) == SelectSeq(q, LAMBDA n : Num[n] = -1)
Behind(q, ws) == IF ws \in ToSet(q) THEN SubSeq(q, IndexFirstSubSeq(<<ws>>, q) + 1, Len(q)) ELSE << >>
Lowest(q) == SelectSeq(q, LAMBDA n : \A m \in ToSet(q) : Num[n] <= Num[m])

\* among numbers: another name of the same number, or the first of the next number
Following(q, ws) ==
  LET same == SelectSeq(Behind(q, ws), LAMBDA n : Num[n] = Num[ws])
      above == Lowest(SelectSeq(q, LAMBDA n : Num[n] > Num[ws]))
  IN  IF same # << >> THEN Head(same) ELSE First(above)

WorkspaceNextOnOutput(s) ==
  LET ws == Current(s)
      q == s.nodes[CurrentOut(s)]
      named == IF Num[ws] = -1 THEN Behind(q, ws) ELSE Named(q)
      next == IF Num[ws] = -1 THEN None ELSE Following(Numbered(q), ws)
  IN  IF next # None THEN next
      ELSE IF named # << >> THEN Head(named)
      ELSE IF Num[Head(q)] # -1 THEN Head(Lowest(Numbered(q))) ELSE Head(q)

\* workspace_next() takes the outputs in the tree's order
WorkspaceNext(s) ==
  LET ws == Current(s)
      all == Desktops(s)
      sibling == Behind(s.nodes[CurrentOut(s)], ws)
      later == Named(Behind(all, ws))
      \* first_opposite: from a named first workspace no number is ever smaller
      opposite == IF Num[ws] = -1
                    THEN IF Num[Head(all)] = -1 THEN Head(all) ELSE Head(Lowest(Numbered(all)))
                    ELSE First(Named(all))
      next == IF Num[ws] # -1 THEN Following(Numbered(all), ws)
              ELSE IF sibling # << >> THEN Head(sibling) ELSE First(later)
  IN  CASE next # None -> next
        [] opposite # None -> opposite
        [] OTHER -> Head(Lowest(Numbered(all)))

\* among numbers, backwards
Preceding(q, ws) ==
  LET r == Reverse(q)
      same == SelectSeq(Behind(r, ws), LAMBDA n : Num[n] = Num[ws])
      below == SelectSeq(r, LAMBDA n : Num[n] < Num[ws])
      highest == SelectSeq(below, LAMBDA n : \A m \in ToSet(below) : Num[m] <= Num[n])
  IN  IF same # << >> THEN Head(same) ELSE First(highest)
Highest(q) == Head(SelectSeq(Reverse(q), LAMBDA n : \A m \in ToSet(q) : Num[m] <= Num[n]))

WorkspacePrevOnOutput(s) ==
  LET ws == Current(s)
      q == s.nodes[CurrentOut(s)]
      named == IF Num[ws] = -1 THEN Named(Behind(Reverse(q), ws)) ELSE Named(Reverse(q))
      prev == IF Num[ws] = -1 THEN None ELSE Preceding(Numbered(q), ws)
  IN  IF prev # None THEN prev
      ELSE IF named # << >> THEN Head(named) ELSE Highest(q)

WorkspacePrev(s) ==
  LET ws == Current(s)
      all == Desktops(s)
      earlier == Named(Behind(Reverse(all), ws))
      prev == IF Num[ws] # -1 THEN Preceding(Numbered(all), ws) ELSE First(earlier)
      opposite == IF Num[ws] = -1 THEN Highest(all) ELSE First(Named(Reverse(all)))
  IN  CASE prev # None -> prev
        [] opposite # None -> opposite
        [] OTHER -> Highest(all)
=============================================================================
