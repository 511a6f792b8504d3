------------------------------ MODULE Windows ------------------------------
(***************************************************************************)
(* Windows between their clients, the X server and i3: manage.c, the       *)
(* handlers of MapRequest, UnmapNotify, DestroyNotify and FocusIn, and     *)
(* restarts, over XPush.  i3's requests are on their way (u.wire) while    *)
(* clients do as they like; i3 acts on an event that may be long outdated. *)
(* A handler is cut into several actions exactly where it waits for a      *)
(* reply of the server.                                                    *)
(***************************************************************************)
EXTENDS XPush

CONSTANTS Plans     \* what a behaviour may spend: [user, client, restart, sticky, existing]

VARIABLES x, u, left, story, taken
vars == <<x, u, left, story, taken>>
Idle == u.pc = "idle"
Spend(who) == left[who] > 0 /\ left' = [left EXCEPT ![who] = @ - 1]

\* For the properties only: what the clients did with each window and i3 has not
\* gone past, and whether a client gave the input focus to itself.
History == <<story, taken>>
Did(w, what) == [story EXCEPT ![w] = Append(@, what)]
Past(w, what) ==
  LET at == SelectInSeq(story[w], LAMBDA e : e = what)
  IN  IF at = 0 THEN story ELSE [story EXCEPT ![w] = SubSeq(@, at + 1, Len(@))]

NewI3(ws) ==
  [con |-> [c \in Frames |-> FreshCon], order |-> << >>, old |-> << >>, focusStack |-> << >>,
   focused |-> NoCon, focusedId |-> NoCon, visible |-> ws, wire |-> << >>,
   pc |-> "idle", managing |-> NoCon]

Init ==
  \E plan \in Plans : \E ws \in Workspaces :
    /\ x = [window |-> [w \in Windows |-> [alive |-> TRUE, mapped |-> w \in plan.existing,
                                           parent |-> Root, mask |-> "none"]],
            frame |-> [f \in Frames |-> [exists |-> FALSE, mapped |-> FALSE, mask |-> "full"]],
            stack |-> << >>, focus |-> PointerRoot,
            queue |-> SeqMap(LAMBDA w : Event("exists", w), SetToSeq(plan.existing))]
    /\ u = NewI3(ws)
    /\ left = [user |-> plan.user, client |-> plan.client,
               restart |-> plan.restart, sticky |-> plan.sticky]
    /\ story = [w \in Windows |-> IF w \in plan.existing THEN <<"show">> ELSE << >>]
    /\ taken = FALSE

XServe ==
  /\ u.wire # << >>
  /\ x' = Serve(x, Head(u.wire)) /\ u' = [u EXCEPT !.wire = Tail(@)]
  /\ story' = IF Head(u.wire).op = "kill" THEN Did(Head(u.wire).id, "hide") ELSE story
  /\ UNCHANGED <<left, taken>>

-----------------------------------------------------------------------------
(* Events *)

Handle(type, id) ==
  /\ Idle /\ x.queue # << >> /\ Head(x.queue) = Event(type, id)
  /\ x' = [x EXCEPT !.queue = Tail(@)]
  /\ UNCHANGED <<left, taken>>

Dec(n) == IF n > 0 THEN n - 1 ELSE 0
Waiting(v, pc) == [v EXCEPT !.pc = pc]

Meant(w) == \A c \in ConOf(u, w) : u.con[c].ignore = 0
UnmapOf(w) ==
  LET c == CHOOSE d \in ConOf(u, w) : TRUE
  IN  IF Meant(w) THEN TreeRender(TreeClose(u, c)) ELSE [u EXCEPT !.con[c].ignore = @ - 1]

\* handle_unmap_notify_event(), also for DestroyNotify; it ends with a round trip
HandleUnmapWindow ==
  \E w \in Windows :
    /\ Handle("unmap", w)
    /\ u' = IF ConOf(u, w) = {} THEN u ELSE Waiting(UnmapOf(w), "sync")
    /\ story' = IF ConOf(u, w) # {} /\ Meant(w) THEN Past(w, "hide") ELSE story

HandleUnmapFrame ==
  \E c \in Frames :
    /\ Handle("unmap", c)
    /\ u' = IF c \notin ToSet(u.order) THEN u
            ELSE Waiting([u EXCEPT !.con[c].ignore = Dec(@)], "sync")
    /\ UNCHANGED story

Sync ==
  /\ u.pc = "sync" /\ u.wire = << >>
  /\ u' = Waiting(u, "idle")
  /\ UNCHANGED <<x, left, History>>

HandleFocusIn ==
  \/ /\ Handle("focus", Root) /\ UNCHANGED story
     /\ u' = XPushChanges([u EXCEPT !.focusedId = NoCon])
  \/ \E w \in Windows :
       /\ Handle("focus", w) /\ UNCHANGED story
       /\ u' = LET c == CHOOSE d \in ConOf(u, w) : TRUE
               IN  IF \/ ConOf(u, w) = {}
                      \/ u.focusedId = w /\ w \notin Floating THEN u
                   ELSE TreeRender([ActivateUnblock(u, c) EXCEPT !.focusedId = w])

-----------------------------------------------------------------------------
(* manage_window(): asks for the attributes, then sets a temporary event mask *)
(* and waits whether that worked, then reparents and waits again              *)

Worth(w, existing) ==
  /\ x.window[w].alive
  /\ existing => x.window[w].mapped
  /\ ConOf(u, w) = {}

HandleMapRequest ==
  \E w \in Windows : \E existing \in BOOLEAN :
    /\ Handle(IF existing THEN "exists" ELSE "map", w)
    /\ u.wire = << >>
    /\ u' = IF ~Worth(w, existing) THEN u
            ELSE [Send(u, <<Request("mask", w, "temp")>>)
                    EXCEPT !.pc = "selected", !.managing = w]
    /\ story' = Past(w, "show")

\* the container of a window: the focused one if it is empty, else a new one
FreeFrames ==
  {f \in Frames : /\ f \notin ToSet(u.order) /\ ~x.frame[f].exists
                  /\ ~\E i \in DOMAIN x.queue : x.queue[i].id = f
                  /\ ~\E i \in DOMAIN u.wire : f \in {u.wire[i].id, u.wire[i].arg}}
Place(w) ==
  IF u.focused # NoCon /\ u.con[u.focused].win = NoCon THEN {<<u, u.focused>>}
  ELSE {<<XConInit(u, f, u.visible), f>> : f \in FreeFrames}

\* no event is wanted of the unmapping that reparenting a mapped window is
IntoFrameHeard(w, c) == <<Request("reparent", w, c)>>
IntoFrame(w, c) == <<Request("mask", w, "none"), Request("reparent", w, c)>>

ManageReparent ==
  /\ u.pc = "selected" /\ u.wire = << >>
  /\ LET w == u.managing
         owned(v, c) == [XReinit(v, c) EXCEPT !.con[c].win = w]
         raised(v, c) == IF w \in Floating THEN XRaiseCon(v, c) ELSE v
         moved(v, c) == [Send(v, IntoFrame(w, c)) EXCEPT !.pc = "reparented"]
     IN  IF x.window[w].mask # "temp" THEN u' = [u EXCEPT !.pc = "idle", !.managing = NoCon]
         ELSE \E p \in Place(w) : u' = moved(raised(owned(p[1], p[2]), p[2]), p[2])
  /\ UNCHANGED <<x, left, History>>

ManageFinish ==
  /\ u.pc = "reparented" /\ u.wire = << >>
  /\ LET w == u.managing
         c == CHOOSE d \in ConOf(u, w) : TRUE
         done(v) == [v EXCEPT !.pc = "idle", !.managing = NoCon]
         chosen(v) == Send(v, <<Request("mask", w, "child")>>)
         focus(v) == IF v.con[c].shown THEN ConActivate(v, c) ELSE v
     IN  u' = IF ~x.window[w].alive THEN done(u)
              ELSE done(TreeRender(focus(RenderCon(chosen(u)))))
  /\ UNCHANGED <<x, left, History>>

-----------------------------------------------------------------------------
(* Commands *)

Command(v) == Idle /\ Spend("user") /\ u' = v /\ UNCHANGED <<x, History>>

SwitchTo == \E ws \in Workspaces \ {u.visible} : Command(TreeRender(WorkspaceShow(u, ws)))

\* con_move_to_workspace() of the focused container
MoveTo ==
  \E ws \in Workspaces \ {u.visible} :
    /\ u.focused # NoCon
    /\ LET c == u.focused
           moved(v) == [v EXCEPT !.con[c].ws = ws]
           next(v) == ConActivate(v, DescendFocused(v, v.visible))
       IN  Command(TreeRender(next(moved(u))))

FocusCmd == \E c \in Attached(u) \ {u.focused} : Command(TreeRender(ActivateUnblock(u, c)))

KillCmd ==
  /\ u.focused # NoCon /\ u.con[u.focused].win # NoCon
  /\ LET w == u.con[u.focused].win
     IN  Command(TreeRender(Send(u, <<Request("kill", w, NoCon)>>)))

\* "open", and its container made a member of the one sticky group
OpenSticky ==
  /\ left.sticky > 0 /\ Idle
  /\ \E f \in FreeFrames :
       LET joined(v) == [v EXCEPT !.con[f].sticky = TRUE]
       IN  u' = TreeRender(ConActivate(joined(XConInit(u, f, u.visible)), f))
  /\ Spend("sticky") /\ UNCHANGED <<x, History>>

\* i3-restart: restore_geometry() reparents every window to the root window, the
\* connection is closed, which maps the windows of the save set, and the new i3
\* finds the windows that are mapped
Restart ==
  /\ Idle /\ Spend("restart")
  /\ LET managed == {w \in Windows : ConOf(u, w) # {}}
         served == FoldLeft(Serve, x, u.wire)
         back(y) == [y EXCEPT !.window = [w \in Windows |->
                       IF w \in managed /\ @[w].alive
                       THEN [@[w] EXCEPT !.parent = Root, !.mask = "none", !.mapped = TRUE]
                       ELSE [@[w] EXCEPT !.mask = "none"]]]
         closed(y) == [y EXCEPT !.frame = [f \in Frames |->
                         [exists |-> FALSE, mapped |-> FALSE, mask |-> "full"]],
                       !.stack = << >>,
                       !.focus = IF @ \in managed \cup Frames \cup {EwmhWindow}
                                 THEN PointerRoot ELSE @]
         found(y) == SetToSeq({w \in Windows : y.window[w].alive /\ y.window[w].mapped})
         again(y) == [y EXCEPT !.queue = SeqMap(LAMBDA w : Event("exists", w), found(y))]
     IN  /\ x' = again(closed(back(served)))
         /\ u' = NewI3(u.visible)
         /\ story' = [w \in Windows |-> IF w \in ToSet(found(back(served))) THEN <<"show">> ELSE << >>]
         /\ taken' = FALSE

-----------------------------------------------------------------------------
(* Clients *)

Client(y) == Spend("client") /\ x' = y /\ UNCHANGED <<u>>
Alive(w) == x.window[w].alive

ClientMap ==
  \E w \in Windows :
    /\ Alive(w) /\ Client(AskToMap(x, w))
    /\ story' = Did(w, "show") /\ UNCHANGED taken

Hid(w) == story' = Did(w, "hide") /\ UNCHANGED taken
ClientUnmap == \E w \in Windows : Alive(w) /\ x.window[w].mapped /\ Client(UnmapWindow(x, w)) /\ Hid(w)
ClientWithdraw == \E w \in Windows : Alive(w) /\ Client(Withdraw(x, w)) /\ Hid(w)
ClientDestroy == \E w \in Windows : Alive(w) /\ Client(DestroyWindow(x, w)) /\ Hid(w)

ClientFocus ==
  \E w \in Windows :
    /\ Alive(w) /\ Client(TakeFocus(x, w)) /\ taken' = TRUE /\ UNCHANGED story

Next ==
  \/ XServe \/ Sync
  \/ HandleUnmapWindow \/ HandleUnmapFrame \/ HandleFocusIn
  \/ HandleMapRequest \/ ManageReparent \/ ManageFinish
  \/ SwitchTo \/ MoveTo \/ FocusCmd \/ KillCmd \/ OpenSticky \/ Restart
  \/ ClientMap \/ ClientUnmap \/ ClientWithdraw \/ ClientDestroy \/ ClientFocus

Spec == Init /\ [][Next]_vars

-----------------------------------------------------------------------------
(* Properties *)

\* Every record is of the shape that x.c, data.h and the server give it.
TypeOK ==
  /\ x \in Servers
  /\ u.con \in [Frames -> Containers]
  /\ ToSet(u.order) = ToSet(u.old) /\ Attached(u) \subseteq ToSet(u.order)
  /\ u.focused \in ToSet(u.order) \cup {NoCon}
  /\ u.pc \in {"idle", "sync", "selected", "reparented"}
  /\ u.managing \in Windows \cup {NoCon}

CountOf(s, Test(_)) == Cardinality({i \in DOMAIN s : Test(s[i])})

\* Con.ignore_unmap is not above the unmaps i3 itself has under way for the frame,
\* except by the one that the reparenting of a sticky container adds without an
\* event: an unmap counted too often makes i3 overlook a client's withdrawal.
IgnoreOwed ==
  \A c \in Attached(u) :
    u.con[c].ignore <= CountOf(u.wire, LAMBDA r : r.op = "unmap" /\ r.id = c)
                       + CountOf(x.queue, LAMBDA e : e.type = "unmap" /\ e.id = c)
                       + CountOf(u.focusStack, LAMBDA d : u.con[d].sticky)

\* i3's record of the server (con_state, old_state_head) is right once its requests
\* have been executed: which frames are mapped, the stacking order, and which window
\* is in which frame (as long as that lives and is not just being taken in).
Settled == Idle /\ u.wire = << >>
FramesFollow ==
  /\ Settled => \A c \in ToSet(u.order) : x.frame[c].mapped = u.con[c].mapped
  /\ \A w \in Windows :
       /\ Cardinality(ConOf(u, w)) <= 1
       /\ \A c \in ConOf(u, w) : Settled /\ x.window[w].alive => x.window[w].parent = c
StackFollows == Settled => x.stack = Reverse(u.old)
ServerFollows == TypeOK /\ FramesFollow /\ StackFollows

\* When everything is handled, the input focus is on the window that is focused
\* in the tree if that is viewable, unless a client took it to itself.
Quiet == Settled /\ x.queue = << >>
FocusFollows ==
  Quiet /\ ~taken /\ FocusShown(u) /\ Viewable(x, ToFocus(u)) => x.focus = ToFocus(u)

\* data.h:650 says that ignore_unmap counts the UnmapNotify events of the frame,
\* "caused by i3 itself"; no container keeps a window that its client withdrew.
NoGhost ==
  Quiet => \A w \in Windows : ConOf(u, w) # {} /\ x.window[w].alive => x.window[w].mapped

\* The containers come and go as the clients ask: a window is managed because it
\* was to be shown, and let go because it was taken away after that.
Life == INSTANCE WindowLife WITH
          asked <- IF u.pc = "selected" THEN {u.managing} ELSE {},
          managed <- {w \in Windows : ConOf(u, w) # {}}
LifeSpec == Life!Spec
=============================================================================
