------------------------------- MODULE XPush -------------------------------
(***************************************************************************)
(* x.c: i3's record of what the X server shows (con_state), and            *)
(* x_push_changes(), which sends the difference between it and the tree of *)
(* containers.  Of the tree only this matters here: which workspace a      *)
(* container is on, whether that one is shown, and the focus order.        *)
(* Every operator maps i3's state u to the state after the call; requests  *)
(* are appended to u.wire.                                                 *)
(***************************************************************************)
EXTENDS XServer, FiniteSets

CONSTANTS
  NoCon,         \* no container, no window
  Workspaces,
  Floating,      \* the windows that float: raised when focused
  IgnoreWidth    \* bits of Con.ignore_unmap

ASSUME PushAssumption ==
  /\ NoCon \notin Frames \cup Windows
  /\ Floating \subseteq Windows
  /\ IgnoreWidth \in Nat \ {0}

IgnoreRange == 0 .. 2 ^ IgnoreWidth - 1

\* struct Con: win (window), ws, shown (mapped), ignore (ignore_unmap), sticky
\* (sticky_group); struct con_state: the rest
Containers ==
  [win : Windows \cup {NoCon}, ws : Workspaces \cup {NoCon}, shown : BOOLEAN,
   ignore : IgnoreRange, sticky : BOOLEAN,
   mapped : BOOLEAN, childMapped : BOOLEAN, unmapNow : BOOLEAN, initial : BOOLEAN,
   needReparent : BOOLEAN, oldFrame : Frames \cup {NoCon}]

FreshCon ==
  [win |-> NoCon, ws |-> NoCon, shown |-> FALSE, ignore |-> 0, sticky |-> FALSE,
   mapped |-> FALSE, childMapped |-> FALSE, unmapNow |-> FALSE, initial |-> TRUE,
   needReparent |-> FALSE, oldFrame |-> NoCon]

Send(u, rs) == [u EXCEPT !.wire = @ \o rs]
SeqMap(Op(_), s) == [i \in 1 .. Len(s) |-> Op(s[i])]

Attached(u) == ToSet(u.focusStack)                 \* reachable from croot
ConOf(u, w) == {c \in Frames : u.con[c].win = w}   \* con_by_window_id()
DescendFocused(u, ws) ==
  LET here == SelectSeq(u.focusStack, LAMBDA c : u.con[c].ws = ws)
  IN  IF here = << >> THEN NoCon ELSE Head(here)

-----------------------------------------------------------------------------
(* Frames come and go, rise, get their windows *)

\* x_con_init(): a frame on top of both lists
XConInit(u, c, ws) ==
  [Send(u, <<Request("create", c, NoCon)>>)
     EXCEPT !.con[c] = [FreshCon EXCEPT !.ws = ws],
            !.order = <<c>> \o @, !.old = <<c>> \o @, !.focusStack = Append(@, c)]

XReinit(u, c) == [u EXCEPT !.con[c].initial = TRUE, !.con[c].childMapped = FALSE]

XReparentChild(u, c, old) ==
  [u EXCEPT !.con[c].needReparent = TRUE, !.con[c].oldFrame = old]

XConKill(u, c) ==
  [Send(u, <<Request("destroy", c, NoCon)>>)
     EXCEPT !.order = Remove(@, c), !.old = Remove(@, c), !.con[c] = FreshCon,
            !.focusedId = IF @ = c THEN NoCon ELSE @]

XRaiseCon(u, c) == [u EXCEPT !.order = <<c>> \o Remove(@, c)]

-----------------------------------------------------------------------------
(* x_push_changes() *)

\* the frames that are mapped, from the bottom
MaskFrames(u, mask) ==
  LET frames == SelectSeq(Reverse(u.order), LAMBDA c : u.con[c].mapped)
  IN  Send(u, SeqMap(LAMBDA c : Request("mask", c, mask), frames))

\* From the bottom of the stack up: nothing is sent until a frame is new or has
\* another one above it than last time; from there on everything is sent.
Before(s, c) ==
  LET i == SelectInSeq(s, LAMBDA d : d = c) IN IF i = 1 THEN NoCon ELSE s[i - 1]
OrderChangedLate(u, i) ==
  \E j \in i + 1 .. Len(u.order) : Before(u.order, u.order[j]) # Before(u.old, u.order[j])
OrderChanged(u, i) ==
  \E j \in i .. Len(u.order) : Before(u.order, u.order[j]) # Before(u.old, u.order[j])
Restack(u) ==
  LET upwards == [i \in 1 .. Len(u.order) |-> Len(u.order) + 1 - i]
      sent == SelectSeq(upwards, LAMBDA i :
                /\ i > 1
                /\ u.con[u.order[i]].initial \/ OrderChanged(u, i))
      old(v) == [v EXCEPT !.con = [c \in Frames |->
                   IF c \in ToSet(u.order) THEN [@[c] EXCEPT !.initial = FALSE] ELSE @[c]]]
  IN  old(Send(u, SeqMap(LAMBDA i : Request("above", u.order[i - 1], u.order[i]), sent)))

\* the events of the reparenting itself are masked, and counted all the same
PushReparent(u, c) ==
  IF ~u.con[c].needReparent \/ u.con[c].win = NoCon THEN u
  ELSE [Send(u, <<Request("mask", u.con[c].oldFrame, "none"),
                  Request("mask", u.con[c].win, "none"),
                  Request("reparent", u.con[c].win, c),
                  Request("mask", u.con[c].oldFrame, "full"),
                  Request("mask", u.con[c].win, "child")>>)
          EXCEPT !.con[c].needReparent = FALSE, !.con[c].oldFrame = NoCon,
                 !.con[c].ignore = (@ + 1) % (2 ^ IgnoreWidth)]

PushMap(u, c) ==
  LET k == u.con[c]
      newChild == k.win # NoCon /\ ~k.childMapped
  IN  IF ~k.shown \/ (k.mapped /\ ~newChild) THEN u
      ELSE [Send(u, (IF newChild THEN <<Request("map", k.win, NoCon),
                                        Request("mask", k.win, "child")>>
                                 ELSE << >>)
                    \o <<Request("map", c, NoCon), Request("mask", c, "full")>>)
              EXCEPT !.con[c].mapped = TRUE, !.con[c].childMapped = @ \/ newChild]

\* x_push_node(); a container without a window has nothing to show
PushNode(u, c) ==
  LET empty(v) == IF v.con[c].win = NoCon THEN [v EXCEPT !.con[c].shown = FALSE] ELSE v
      note(v) == [v EXCEPT !.con[c].unmapNow = v.con[c].mapped /\ ~v.con[c].shown]
  IN  note(PushMap(PushReparent(empty(u), c), c))

\* x_push_node_unmaps()
PushNodeUnmapsAgain(u, c) ==     \* con_state.mapped is left as it was
  IF ~u.con[c].unmapNow THEN u
  ELSE [Send(u, <<Request("unmap", c, NoCon)>>)
          EXCEPT !.con[c].ignore = IF u.con[c].win = NoCon THEN @
                                   ELSE (@ + 1) % (2 ^ IgnoreWidth)]
PushNodeUnmaps(u, c) ==
  IF ~u.con[c].unmapNow THEN u
  ELSE [Send(u, <<Request("unmap", c, NoCon)>>)
          EXCEPT !.con[c].mapped = FALSE,
                 !.con[c].ignore = IF u.con[c].win = NoCon THEN @
                                   ELSE (@ + 1) % (2 ^ IgnoreWidth)]

\* focused = NoCon: a workspace is focused, whose frame is never mapped
ToFocus(u) ==
  IF u.focused # NoCon /\ u.con[u.focused].win # NoCon THEN u.con[u.focused].win ELSE u.focused
FocusShown(u) == u.focused # NoCon /\ u.con[u.focused].shown

PushFocus(u) ==
  LET id == ToFocus(u)
      set == IF id \in Windows
             THEN <<Request("mask", id, "nofocus"), Request("focus", id, NoCon),
                    Request("mask", id, "child")>>
             ELSE <<Request("focus", id, NoCon)>>
      focused == IF id # NoCon /\ u.focusedId = id THEN u
                 ELSE IF ~FocusShown(u) THEN [u EXCEPT !.focusedId = NoCon]
                 ELSE [Send(u, set) EXCEPT !.focusedId = id]
      fallback(v) == IF v.focusedId # NoCon THEN v
                     ELSE [Send(v, <<Request("focus", EwmhWindow, NoCon)>>)
                             EXCEPT !.focusedId = EwmhWindow]
  IN  fallback(focused)

XPushChangesEarly(u) ==     \* the focus is set before anything is mapped
  LET nodes(v) == FoldLeft(PushNode, v, v.focusStack)
      unmaps(v) == FoldLeft(PushNodeUnmaps, v, v.focusStack)
      save(v) == [v EXCEPT !.old = v.order]
  IN  save(unmaps(MaskFrames(nodes(PushFocus(Restack(MaskFrames(u, "redirect")))), "full")))
XPushChanges(u) ==
  LET nodes(v) == FoldLeft(PushNode, v, v.focusStack)
      unmaps(v) == FoldLeft(PushNodeUnmaps, v, v.focusStack)
      save(v) == [v EXCEPT !.old = v.order]
  IN  save(unmaps(PushFocus(MaskFrames(nodes(Restack(MaskFrames(u, "redirect"))), "full"))))

-----------------------------------------------------------------------------
(* What of the tree is needed *)

\* render_con(): the shown workspace's containers are mapped, the others not
RenderCon(u) ==
  [u EXCEPT !.con = [c \in Frames |->
     IF c \notin Attached(u) THEN @[c]
     ELSE [@[c] EXCEPT !.shown = u.con[c].win # NoCon /\ u.con[c].ws = u.visible]]]
TreeRender(u) == XPushChanges(RenderCon(u))

ConActivate(u, c) ==
  LET front(v) == [v EXCEPT !.focused = c, !.focusStack = <<c>> \o Remove(@, c)]
  IN  IF c = NoCon THEN [u EXCEPT !.focused = NoCon]
      ELSE IF u.con[c].win \in Floating THEN XRaiseCon(front(u), c) ELSE front(u)

\* workspace_reassign_sticky(): the window of the group moves to where it is seen
StickySource(u, c) == {d \in Attached(u) \ {c} : u.con[d].sticky /\ u.con[d].win # NoCon}
XMoveWin(u, src, c) ==
  [u EXCEPT !.con[c].win = u.con[src].win, !.con[c].shown = TRUE,
            !.con[src].win = NoCon, !.con[src].shown = FALSE]
ReassignSticky(u, c) ==
  IF ~u.con[c].sticky \/ StickySource(u, c) = {} THEN u
  ELSE LET src == CHOOSE d \in StickySource(u, c) : TRUE
       IN  XReparentChild(XMoveWin(u, src, c), c, src)

WorkspaceShow(u, ws) ==
  LET sticky(v) == FoldLeft(ReassignSticky, v,
                            SelectSeq(v.focusStack, LAMBDA c : v.con[c].ws = ws))
      shown(v) == [v EXCEPT !.visible = ws, !.focused = DescendFocused(v, ws)]
  IN  IF u.visible = ws THEN u ELSE shown(sticky(u))

ActivateUnblock(u, c) ==
  IF u.con[c].ws = u.visible THEN ConActivate(u, c)
  ELSE ConActivate(WorkspaceShow(ConActivate(u, c), u.con[c].ws), c)

\* tree_close_internal() of a window's container: the window goes back to the
\* root window, the tree is rendered while the frame is still there, then it goes
TreeClose(u, c) ==
  LET w == u.con[c].win
      next == DescendFocused([u EXCEPT !.focusStack = Remove(@, c)], u.con[c].ws)
      unparent == [Send(u, <<Request("mask", w, "none"), Request("unmap", w, NoCon),
                             Request("reparent", w, Root)>>)
                     EXCEPT !.con[c].win = NoCon, !.focusStack = Remove(@, c)]
      refocus(v) == IF u.focused = c THEN ConActivate(v, next) ELSE v
  IN  refocus(XConKill(TreeRender(unparent), c))
=============================================================================
