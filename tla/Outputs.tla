------------------------------- MODULE Outputs -------------------------------
(***************************************************************************)
(* Outputs that come and go (randr.c, fake_outputs.c, xinerama.c, main.c)  *)
(* under the workspace commands: the X server changes its configuration,   *)
(* i3 hears of it later and asks for the configuration of then.  Outputs   *)
(* are in a row: the rectangle of one is its x and its width.              *)
(***************************************************************************)
EXTENDS Workspaces

CONSTANTS
  Order,      \* the order in which the server lists its outputs
  Scenarios   \* records: randr      "1.4", "1.5", "fake" or "none"
              \*          configs    configurations of the server, records of
                             \* at       [outputs that are on -> [x, w : Nat]]
                             \* primary  an output or None
              \*          assignments, bindings, auto (back and forth)
              \*          names      the names the user uses
              \*          kinds      the kinds of events and commands
              \*          open       bound: windows at one time
              \*          changes    bound: restarts and changes of the configuration

VARIABLES
  s,         \* i3: see Workspaces; s.freed when it has used a workspace that was closed
  x,         \* the configuration of the server
  pending,   \* an event about it is in i3's queue
  phase,     \* "starting" until the loop runs, "running"
  missed,    \* history: an event of a change was thrown away
  changes,   \* restarts and changes that may still happen
  plan
vars == <<s, x, pending, phase, missed, changes, plan>>

-----------------------------------------------------------------------------
(* Asking the server *)

Insert(t, o, primary) == [t EXCEPT !.known = IF primary THEN <<o>> \o @ ELSE Append(@, o)]
OnlyIfNew(t, o, primary) == IF o \in ToSet(t.known) THEN t ELSE Insert(t, o, primary)
Moved(t, o, at) == t.out[o].x # at.x \/ t.out[o].w # at.w

\* handle_output(): every output is listed, also those that are off
HandleOutput(t, c, o) ==
  LET existing == o \in ToSet(t.known)
      u == OnlyIfNew([t EXCEPT !.out[o].primary = (c.primary = o)], o, c.primary = o)
  IN  IF o \notin DOMAIN c.at
        THEN [u EXCEPT !.out[o].disable = @ \/ u.out[o].active]
        ELSE [u EXCEPT !.out[o].x = c.at[o].x, !.out[o].w = c.at[o].w, !.out[o].active = TRUE,
                       !.out[o].changed = @ \/ (existing /\ Moved(t, o, c.at[o]))]
RandrQueryOutputs14(t, c) == FoldLeft(LAMBDA u, o : HandleOutput(u, c, o), t, Order)

\* one monitor of the reply of RandR 1.5, which lists those that are on
HandleMonitor(t, c, o) ==
  LET u == OnlyIfNew(t, o, c.primary = o)
  IN  [u EXCEPT !.out[o].x = c.at[o].x, !.out[o].w = c.at[o].w, !.out[o].active = TRUE,
                !.out[o].disable = FALSE, !.out[o].primary = (c.primary = o),
                !.out[o].changed = Moved(t, o, c.at[o])]
RandrQueryOutputs15(t, c) ==
  LET all == [t EXCEPT !.out = [o \in Outs |-> [@[o] EXCEPT !.disable = o \in ToSet(t.known) \ {Root}]]]
  IN  FoldLeft(LAMBDA u, o : HandleMonitor(u, c, o), all,
               SelectSeq(Order, LAMBDA o : o \in DOMAIN c.at))

-----------------------------------------------------------------------------
(* What i3 makes of the answer *)

\* without an output the one that covers the root window is used
UseRoot(t) ==
  LET on == {o \in ToSet(t.known) \ {Root} : t.out[o].active /\ ~t.out[o].disable}
  IN  IF on = {} THEN [t EXCEPT !.out[Root].active = TRUE]
      ELSE [t EXCEPT !.out[Root].disable = @ \/ t.out[Root].active]

\* an output at the place of an earlier one is disabled, which takes the smaller mode
Clone(t, o, p) ==
  LET w == IF t.out[p].w < t.out[o].w THEN t.out[p].w ELSE t.out[o].w
  IN  IF t.out[p].active /\ ~t.out[p].disable /\ t.out[p].x = t.out[o].x
        THEN [t EXCEPT !.out[o].w = w, !.out[o].changed = @ \/ w # t.out[o].w,
                       !.out[p].w = w, !.out[p].disable = TRUE]
        ELSE t
Clones(t) ==
  FoldLeft(LAMBDA u, o : IF u.out[o].active /\ ~u.out[o].disable
                           THEN FoldLeft(LAMBDA v, p : Clone(v, o, p), u, Behind(u.known, o))
                           ELSE u, t, t.known)

\* a container of that name may be there, from before a restart
OutputInitCon(t, o) ==
  LET u == [t EXCEPT !.out[o].con = TRUE]
  IN  IF o \in ToSet(t.cons) THEN u
      ELSE [u EXCEPT !.cons = Append(@, o), !.focusOut = Append(@, o)]

InitCons(t) ==
  FoldLeft(LAMBDA u, o : IF u.out[o].active /\ ~u.out[o].con
                           THEN [OutputInitCon(u, o) EXCEPT !.out[o].changed = FALSE] ELSE u,
           t, t.known)

GetFirstOutput(t) ==
  LET on == SelectSeq(t.known, LAMBDA o : t.out[o].active)
      primary == SelectSeq(on, LAMBDA o : t.out[o].primary)
  IN  IF primary # << >> THEN Head(primary) ELSE Head(on)

MoveContentBlindly(t, o) ==
  LET first == GetFirstOutput(t)
      moved == FoldLeft(LAMBDA u, ws : Attach(Detach(u, ws), ws, first), t, t.nodes[o])
  IN  [moved EXCEPT !.cons = Remove(@, o), !.focusOut = Remove(@, o)]

\* move_content(): empty workspaces that are not focused go, the others move
Refocus(t, next) == IF next = None THEN t ELSE WorkspaceShow(Focus(t, next), WsOf(t, next))
MoveContent(t, o) ==
  LET first == GetFirstOutput(t)
      carry(u, ws) == IF ws # t.focused /\ u.wins[ws] = << >> THEN Close(u, ws)
                      ELSE Attach(Detach(u, ws), ws, first)
      moved == Refocus(FoldLeft(carry, t, t.nodes[o]), t.focused)
  IN  [moved EXCEPT !.cons = Remove(@, o), !.focusOut = Remove(@, o)]

StaleCons(t) ==
  FoldLeft(LAMBDA u, o : IF ByName(u, o) THEN u ELSE MoveContent(u, o), t, t.cons)

RandrDisableOutput(t, o) ==
  LET u == [t EXCEPT !.out[o].active = FALSE, !.out[o].con = FALSE,
                     !.out[o].disable = FALSE, !.out[o].changed = FALSE]
  IN  IF t.out[o].con THEN MoveContent(u, o) ELSE u

\* output_change_mode() corrects rectangles only
DisableAndChange(t) ==
  FoldLeft(LAMBDA u, o : IF u.out[o].disable THEN RandrDisableOutput(u, o)
                         ELSE [u EXCEPT !.out[o].changed = FALSE], t, t.known)

\* the existing workspaces that are assigned to an output
BringByName(t, o) ==
  FoldLeft(LAMBDA u, ws : IF Assigned(u, plan.assignments, ws, -1) = o THEN MoveToOutput(u, plan, ws, o) ELSE u,
           t, t.all)
Bring(t, o) ==
  FoldLeft(LAMBDA u, ws : IF Assigned(u, plan.assignments, ws, Num[ws]) = o THEN MoveToOutput(u, plan, ws, o) ELSE u,
           t, t.all)

\* init_ws_for_output(): these, or an assigned name, or a free one
Serve(t, o) ==
  LET as == plan.assignments
      mine == SelectSeq(as, LAMBDA a : Assigned(t, as, a.ws, -1) = o)
  IN  IF t.shown \cap ToSet(t.nodes[o]) # {} THEN t
      ELSE IF t.nodes[o] # << >> THEN WorkspaceShow(t, Head(t.nodes[o]))
      ELSE IF mine # << >> THEN WorkspaceShow(WorkspaceGet(t, as, Head(mine).ws), Head(mine).ws)
      ELSE WorkspaceShow(CreateWorkspaceOnOutput(t, plan, o), FreeName(t, plan, o))
\* what follows is undefined if the workspace that had the focus was closed above
ShowAgain(t, before) ==
  IF before = None THEN t
  ELSE IF before \in Existing(t) THEN WorkspaceShow(t, before) ELSE [t EXCEPT !.freed = TRUE]
InitWsForOutput(t, o) == ShowAgain(Serve([Bring(t, o) EXCEPT !.focused = o], o), Current(t))

InitWorkspaces(t) ==
  FoldLeft(LAMBDA u, o : IF u.out[o].active /\ u.nodes[o] = << >> THEN InitWsForOutput(u, o) ELSE u,
           t, t.known)

FocusPrimary(t) ==
  FoldLeft(LAMBDA u, o : IF u.out[o].primary /\ u.out[o].con
                           THEN WorkspaceShow(u, Head(u.focus[o])) ELSE u, t, t.known)

RandrQueryOutputs(t, c) ==
  LET asked == IF plan.randr = "1.5" THEN RandrQueryOutputs15(t, c) ELSE RandrQueryOutputs14(t, c)
  IN  UpdateDesktopProperties(
        FocusPrimary(InitWorkspaces(DisableAndChange(StaleCons(InitCons(Clones(UseRoot(asked))))))))

-----------------------------------------------------------------------------
(* Starting *)

\* fake_outputs_init(), query_screens(): the first one at a place counts
FakeOutputs(t, c) ==
  LET add(u, o) ==
        LET same == SelectSeq(u.known, LAMBDA p : u.out[p].x = c.at[o].x)
            new == [NoOutput EXCEPT !.active = TRUE, !.x = c.at[o].x, !.w = c.at[o].w]
            named == [Insert(u, o, c.at[o].x = 0) EXCEPT !.out[o] = new]
        IN  IF same # << >>
              THEN [u EXCEPT !.out[Head(same)].primary = (c.primary = o)]
              ELSE [InitWsForOutput(OutputInitCon(named, o), o) EXCEPT !.out[o].primary = (c.primary = o)]
  IN  FoldLeft(add, t, SelectSeq(Order, LAMBDA o : o \in DOMAIN c.at))

\* randr_init(), xinerama_init() without their extension
RootOnly(t) ==
  LET u == OutputInitCon([t EXCEPT !.known = <<Root>>, !.out[Root].active = TRUE], Root)
  IN  IF t.nodes[Root] # << >> THEN u ELSE InitWsForOutput(u, Root)

\* the output under the pointer is focused at the end, or the first one
Served(t, c) ==
  CASE plan.randr = "none" -> RootOnly(t)
    [] plan.randr = "fake" -> FakeOutputs(t, c)
    [] OTHER -> RandrQueryOutputs([t EXCEPT !.known = <<Root>>], c)
UnderPointer(t, c) == {p \in DOMAIN c.at : t.out[p].active} \cup {GetFirstOutput(t)}
Start(t, o) == UpdateDesktopProperties(Focus(t, Descend(t, Head(t.focus[o]))))

Init ==
  /\ plan \in Scenarios
  /\ x \in plan.configs
  /\ \E t \in {Served(Blank, x)} : \E o \in UnderPointer(t, x) : s = Start(t, o)
  /\ pending = FALSE /\ phase = "starting" /\ missed = FALSE
  /\ changes = plan.changes

Running == phase = "running" /\ ~s.freed

\* events that came before the loop are dropped
EnterLoop ==
  /\ phase = "starting" /\ ~s.freed /\ phase' = "running"
  /\ pending' = FALSE /\ missed' = (missed \/ pending)
  /\ UNCHANGED <<s, x, changes, plan>>

\* a restart keeps the tree, the windows in it and the name for back and forth
Kept == [s EXCEPT !.known = << >>, !.out = [o \in Outs |-> NoOutput], !.all = Desktops(s),
                  !.pub.current = 0]
Restart ==
  /\ "restart" \in plan.kinds /\ Running
  /\ changes > 0 /\ changes' = changes - 1
  /\ \E t \in {Served(Kept, x)} : \E o \in UnderPointer(t, x) : s' = Start(t, o)
  /\ phase' = "starting" /\ pending' = FALSE /\ missed' = FALSE
  /\ UNCHANGED <<x, plan>>

-----------------------------------------------------------------------------
(* The server *)

ServerChanges ==
  /\ plan.randr \in {"1.4", "1.5"}
  /\ changes > 0 /\ changes' = changes - 1
  /\ x' \in plan.configs \ {x}
  /\ pending' = TRUE
  /\ UNCHANGED <<s, phase, missed, plan>>

\* handle_screen_change() sees the configuration of now
HandleScreenChange ==
  /\ Running /\ pending
  /\ s' = RandrQueryOutputs(s, x)
  /\ pending' = FALSE /\ missed' = FALSE
  /\ UNCHANGED <<x, phase, changes, plan>>

-----------------------------------------------------------------------------
(* Commands and windows *)

Do(kind, t) ==
  /\ kind \in plan.kinds /\ Running
  /\ s' = t
  /\ UNCHANGED <<x, pending, phase, missed, changes, plan>>

\* workspace back_and_forth
BackAndForth(t) ==
  IF t.prev = None THEN t ELSE WorkspaceShow(WorkspaceGet(t, plan.assignments, t.prev), t.prev)

\* workspace <name>, the name of the current one with auto back and forth
WorkspaceName(n) ==
  Do("name", IF n = Current(s) THEN IF plan.auto THEN BackAndForth(s) ELSE s
             ELSE WorkspaceShow(WorkspaceGet(s, plan.assignments, n), n))
WorkspaceNumber(n) ==
  LET having == SelectSeq(Desktops(s), LAMBDA m : Num[m] = Num[n])
  IN  /\ n \in Digits
      /\ Do("number", IF having = << >> THEN WorkspaceShow(WorkspaceGet(s, plan.assignments, n), n)
                      ELSE IF Head(having) = Current(s) /\ plan.auto THEN BackAndForth(s)
                      ELSE WorkspaceShow(s, Head(having)))
WorkspaceRelative ==
  \E ws \in {WorkspaceNext(s), WorkspacePrev(s), WorkspaceNextOnOutput(s), WorkspacePrevOnOutput(s)} :
    Do("relative", WorkspaceShow(s, ws))
WorkspaceBackAndForth == Do("back", BackAndForth(s))

\* get_output_next() and its wrapping
OutputNext(t, o, right, farthest) ==
  LET beyond == {p \in ToSet(t.known) : t.out[p].active /\
                   IF right THEN t.out[p].x > t.out[o].x ELSE t.out[p].x < t.out[o].x}
      before(p, q) == IF right # farthest THEN t.out[p].x <= t.out[q].x ELSE t.out[p].x >= t.out[q].x
  IN  {p \in beyond : \A q \in beyond : before(p, q)}
OutputNextWrap(t, o, right) ==
  LET next == OutputNext(t, o, right, FALSE)
      wrapped == OutputNext(t, o, ~right, TRUE)
  IN  IF next # {} THEN next ELSE IF wrapped # {} THEN wrapped ELSE {o}

\* user_output_names_find_next() for a direction, a name, or all names ("next")
Targets(o) ==
  LET active == SelectSeq(s.known, LAMBDA p : s.out[p].active)
      later == Behind(active, o)
  IN  UNION {OutputNextWrap(s, o, right) : right \in BOOLEAN}
      \cup ToSet(active)
      \cup {IF later = << >> THEN Head(active) ELSE Head(later)}

MoveWorkspaceToOutput == 
  \E o \in Targets(CurrentOut(s)) : Do("output", MoveToOutput(s, plan, Current(s), o))

\* con_move_to_workspace() of a window: it gets the focus for a moment, the workspace that
\* was shown there and the one that was focused get it back
FocusBack(t, was, ws, old) ==
  IF WsOf(was, was.focused) = old /\ was.focused \notin Names THEN Focus(t, was.focused)
  ELSE IF ws # old THEN Focus(t, Descend(t, old)) ELSE t
FocusNext(t, from, next) ==
  IF from \notin Existing(t) THEN t
  ELSE Focus(t, IF next = None THEN Descend(t, from) ELSE next)
RemoveFrom(t, from) == IF from \in Existing(t) THEN OnRemoveChild(t, from) ELSE t

MoveWindow(t, w, ws) ==
  LET from == WsOf(t, w)
      old == Head(t.focus[OutOf(t, ws)])
      next == IF Head(t.wins[from]) # w THEN Head(t.wins[from]) ELSE First(Remove(t.wins[from], w))
      moved == Focus([t EXCEPT !.wins[from] = Remove(@, w), !.wins[ws] = Append(@, w)], w)
      shown == WorkspaceShow(FocusBack(moved, t, ws, old), Current(t))
  IN  IF from = ws THEN t
      ELSE UpdateWmDesktop(RemoveFrom(
             IF from = Current(t) THEN FocusNext(shown, from, next) ELSE shown, from))

MoveWindowToWorkspace(w) ==
  \/ \E n \in plan.names :
       \* maybe_auto_back_and_forth_workspace()
       LET to == IF plan.auto /\ n = Current(s) /\ s.prev # None THEN s.prev ELSE n
       IN  Do("move", MoveWindow(WorkspaceGet(WorkspaceGet(s, plan.assignments, n), plan.assignments, to), w, to))
  \/ \E ws \in {WorkspaceNext(s), WorkspacePrev(s)} : Do("move", MoveWindow(s, w, ws))

\* con_move_to_output(): to the workspace it shows
MoveWindowToOutput(w) ==
  \E o \in Targets(OutOf(s, WsOf(s, w))) :
    Do("moveout", MoveWindow(s, w, CHOOSE ws \in ToSet(s.nodes[o]) : Visible(s, ws)))

\* rename workspace <old> to <new>: its place in the order and its output are those of the
\* new name; a workspace that was focused itself must still be where it was
NewName(t, ws, n) ==
  LET sub(c) == IF c = ws THEN n ELSE c
      each(q) == [i \in DOMAIN q |-> sub(q[i])]
  IN  [t EXCEPT !.wins = [@ EXCEPT ![n] = t.wins[ws], ![ws] = << >>],
                !.shown = {sub(c) : c \in @}, !.focused = sub(@), !.prev = sub(@), !.all = each(@),
                !.focus = [o \in Outs |-> each(@[o])], !.nodes = [o \in Outs |-> each(@[o])]]
Sorted(t, n) == Attach(Detach(t, n), n, OutOf(t, n))
ToAssigned(t, n) ==
  LET to == Assigned(t, plan.assignments, n, Num[n])
  IN  IF to = None THEN t ELSE MoveToOutput(t, plan, n, to)
FocusAgain(t, was, at) ==
  IF was \in Names /\ was \notin ToSet(t.nodes[at]) THEN t
  ELSE Focus(WorkspaceShow(t, WsOf(t, was)), was)
Renamed(t, n) ==
  UpdateDesktopProperties(
    FocusAgain(ToAssigned(Sorted(t, n), n), t.focused, CurrentOut(t)))

RenameWorkspace ==
  \E ws \in Existing(s), n \in plan.names :
    n \notin Existing(s) /\ Do("rename", Renamed(NewName(s, ws, n), n))

Open == UNION {ToSet(s.wins[n]) : n \in Names}
MapWindow(w) ==
  /\ Cardinality(Open) < plan.open
  /\ \A n \in Names : w \notin ToSet(s.wins[n])
  /\ Do("windows", UpdateWmDesktop(Focus([s EXCEPT !.wins[Current(s)] = Append(@, w)], w)))

FocusLeft(t, w, ws) ==
  IF w = t.focused THEN Focus([t EXCEPT !.focused = ws], Descend(t, ws)) ELSE t
UnmapWindow(w) ==
  LET ws == WsOf(s, w)
  IN  Do("windows", OnRemoveChild(FocusLeft([s EXCEPT !.wins[ws] = Remove(@, w)], w, ws), ws))

\* con_activate_unblock()
FocusWindow(w) == Do("focus", Focus(WorkspaceShow(s, WsOf(s, w)), w))

Next ==
  \/ EnterLoop \/ Restart \/ ServerChanges \/ HandleScreenChange
  \/ WorkspaceRelative \/ WorkspaceBackAndForth \/ MoveWorkspaceToOutput \/ RenameWorkspace
  \/ \E n \in plan.names : WorkspaceName(n) \/ WorkspaceNumber(n)
  \/ \E w \in Windows : MapWindow(w)
  \/ \E w \in Open : UnmapWindow(w) \/ FocusWindow(w) \/ MoveWindowToWorkspace(w) \/ MoveWindowToOutput(w)

Spec == Init /\ [][Next]_vars

-----------------------------------------------------------------------------
(* Properties *)

TypeOK ==
  /\ plan \in Scenarios /\ x \in plan.configs
  /\ phase \in {"starting", "running"} /\ {pending, missed} \subseteq BOOLEAN
  /\ ToSet(s.known) \cup ToSet(s.cons) \subseteq Outs
  /\ Existing(s) \cup s.shown \subseteq Names
  /\ s.focused \in Names \cup Windows \cup Outs /\ s.prev \in Names \cup {None}

\* randr_query_outputs(): whatever the server did, the containers are those of the active
\* outputs, each has a workspace and shows the one that is first in its focus stack, the
\* focus is on a shown one, no window is outside of them, and once i3 has seen the
\* last configuration there is one output at each place in it and nowhere else.
OutputsServed ==
  LET served == ToSet(s.cons)
      places == {x.at[o].x : o \in DOMAIN x.at}
      few == \A c \in plan.configs : Cardinality(DOMAIN c.at) < 3
      seen == phase = "running" /\ ~pending /\ ~missed
  IN  ~s.freed =>
      /\ TypeOK
      /\ served = {o \in Outs : s.out[o].active} /\ served = {o \in Outs : s.out[o].con}
      /\ ToSet(s.focusOut) = served /\ Len(s.focusOut) = Len(s.cons)
      /\ \A o \in Outs :
           /\ ToSet(s.focus[o]) = ToSet(s.nodes[o]) /\ IsInjective(s.nodes[o])
           /\ o \in served <=> s.nodes[o] # << >>
           \* with a third output the first may show two: see the README
           /\ o \in served => LET on == s.shown \cap ToSet(s.nodes[o])
                             IN  on # {} /\ (few => on = {Head(s.focus[o])})
      /\ ToSet(s.all) = Existing(s)
      /\ s.focused \in Names \cup Windows /\ Current(s) \in s.shown
      /\ \A n \in Names : s.wins[n] # << >> => n \in Existing(s)
      /\ (seen /\ plan.randr # "none") =>
           /\ IF places = {} THEN served = {Root} ELSE served \subseteq DOMAIN x.at
           /\ places # {} => /\ {s.out[o].x : o \in served} = places
                            /\ Cardinality(served) = Cardinality(places)

\* ewmh.c: when a handler is done the desktops that pagers see are the workspaces in
\* their order, the current desktop is the one with the focus and every window is on
\* the desktop of its workspace.
DesktopsFollow ==
  ~s.freed =>
  /\ s.pub.names = Desktops(s)
  /\ s.pub.current = Index(s, Current(s))
  /\ \A w \in Open : s.pub.wm[w] = Index(s, WsOf(s, w))

\* workspace_next(), workspace_prev() and their variants for one output: the one reaches every
\* workspace of the output, or of all outputs unless the first workspace has no
\* number, and comes back; the other undoes it.
Cycles ==
  LET at(n) == [s EXCEPT !.focused = n]
      Round(q, ws, next(_), prev(_)) ==
        LET walk == FoldLeft(LAMBDA r, n : Append(r, next(at(Last(r)))), <<ws>>, q)
        IN  ToSet(walk) = ToSet(q) /\ Last(walk) = ws /\ prev(at(walk[2])) = ws
  IN  ~s.freed => \A ws \in Existing(s) :
        /\ Round(s.nodes[OutOf(s, ws)], ws, WorkspaceNextOnOutput, WorkspacePrevOnOutput)
        /\ Num[Head(Desktops(s))] # -1 => Round(Desktops(s), ws, WorkspaceNext, WorkspacePrev)

\* What windows and pagers are shown on follows the outputs and the workspaces.
SessionStands == OutputsServed /\ DesktopsFollow

\* workspace_back_and_forth(): done twice it comes back, also to a workspace that was
\* closed in between because it was empty.
BackAndForthReturns ==
  (Running /\ s.prev # None) =>
    Current(BackAndForth(BackAndForth(s))) = Current(s)

\* The commands that need no name reach every workspace and come back.
WorkspacesReached == Cycles /\ BackAndForthReturns

\* init_ws_for_output() keeps a pointer to the workspace that has the focus while it moves
\* others, which closes workspaces that are empty.
FocusOutlivesMoves == ~s.freed

\* init_ws_for_output(): an output that comes on has the workspaces that are assigned to it.
AssignmentsHonoured ==
  [][~s'.freed => \A o \in ToSet(s'.cons) \ ToSet(s.cons), ws \in Existing(s) :
       (HandleScreenChange /\ Assigned(s', plan.assignments, ws, Num[ws]) = o) =>
         ws \notin Existing(s') \/ OutOf(s', ws) = o]_vars

=============================================================================
