------------------------------ MODULE XServer ------------------------------
(***************************************************************************)
(* The X server as i3 uses it: clients' windows, i3's frames around them,  *)
(* which of them are mapped, the stacking order, the input focus, and the  *)
(* queue of events to i3.  It executes one request of one client at a time *)
(* (Serve: those of i3; the rest: those of the clients).                   *)
(*                                                                         *)
(* Of an event mask only what the window manager's correctness rests on is *)
(* kept.  A frame is "full" (FRAME_EVENT_MASK, with or without EnterNotify)*)
(* or "redirect" (SUBSTRUCTURE_REDIRECT only) or "none".  A window is "child"*)
(* (CHILD_EVENT_MASK), "nofocus" (without FOCUS_CHANGE), "temp" (what      *)
(* manage_window() sets first) or "none".                                  *)
(***************************************************************************)
EXTENDS Naturals, Sequences, SequencesExt

CONSTANTS Windows, Frames

Root == "root"
PointerRoot == "pointer root"
EwmhWindow == "ewmh"

FrameMasks == {"full", "redirect", "none"}
WindowMasks == {"child", "nofocus", "temp", "none"}
Notified == {"child", "nofocus", "temp"}       \* the masks with STRUCTURE_NOTIFY

Servers ==
  [window : [Windows -> [alive : BOOLEAN, mapped : BOOLEAN,
                         parent : Frames \cup {Root}, mask : WindowMasks]],
   frame : [Frames -> [exists : BOOLEAN, mapped : BOOLEAN, mask : FrameMasks]],
   stack : Seq(Frames),
   focus : Windows \cup Frames \cup {PointerRoot, EwmhWindow},
   queue : Seq([type : {"map", "unmap", "focus", "exists"},
                id : Windows \cup Frames \cup {Root}])]

Event(type, id) == [type |-> type, id |-> id]
Emit(x, es) == [x EXCEPT !.queue = @ \o es]

InFrame(x, w) == x.window[w].parent \in Frames
Viewable(x, id) ==
  \/ id = EwmhWindow
  \/ id \in Frames /\ x.frame[id].mapped
  \/ id \in Windows /\ x.window[id].mapped
     /\ (InFrame(x, id) => x.frame[x.window[id].parent].mapped)

\* revert-to is PointerRoot: the root window hears of it
Revert(x) ==
  IF x.focus = PointerRoot \/ Viewable(x, x.focus) THEN x
  ELSE Emit([x EXCEPT !.focus = PointerRoot], <<Event("focus", Root)>>)

\* UnmapNotify goes to who selected StructureNotify on the window, and to who
\* selected SubstructureNotify on its parent: i3 may get it twice
Notices(x, w) ==
  (IF x.window[w].mask \in Notified THEN <<Event("unmap", w)>> ELSE << >>)
  \o (IF InFrame(x, w) /\ x.frame[x.window[w].parent].mask = "full"
      THEN <<Event("unmap", w)>> ELSE << >>)

UnmapWindow(x, w) ==
  IF ~x.window[w].mapped THEN x
  ELSE Revert(Emit([x EXCEPT !.window[w].mapped = FALSE], Notices(x, w)))

DestroyWindow(x, w) ==
  LET gone(y) == Emit([y EXCEPT !.window[w].alive = FALSE], Notices(y, w))
  IN  gone(UnmapWindow(x, w))

UnmapFrame(x, f) ==
  IF ~x.frame[f].mapped THEN x
  ELSE Revert(Emit([x EXCEPT !.frame[f].mapped = FALSE],
                   IF x.frame[f].mask = "full" THEN <<Event("unmap", f)>> ELSE << >>))

\* of a mapped window: unmapped, moved, mapped again
Reparent(x, w, p) ==
  LET moved(y) == [y EXCEPT !.window[w].parent = p]
      again(y) == IF x.window[w].mapped THEN [y EXCEPT !.window[w].mapped = TRUE] ELSE y
  IN  again(moved(UnmapWindow(x, w)))

SetFocus(x, id) == IF Viewable(x, id) THEN [x EXCEPT !.focus = id] ELSE x   \* BadMatch

Above(s, a, b) ==
  LET rest == Remove(s, a)
  IN  InsertAt(rest, SelectInSeq(rest, LAMBDA f : f = b) + 1, a)

\* the identifier of a destroyed frame is not used again while it is on its way
Forget(x, f) == [x EXCEPT !.frame[f] = [exists |-> FALSE, mapped |-> FALSE, mask |-> "full"],
                          !.stack = Remove(@, f)]

Request(op, id, arg) == [op |-> op, id |-> id, arg |-> arg]

Serve(x, r) ==
  CASE r.op = "create" ->
         [x EXCEPT !.frame[r.id] = [exists |-> TRUE, mapped |-> FALSE, mask |-> "full"],
                   !.stack = Append(@, r.id)]
    [] r.op = "destroy" -> Revert(Forget(UnmapFrame(x, r.id), r.id))
    [] r.op = "mask" /\ r.id \in Frames -> [x EXCEPT !.frame[r.id].mask = r.arg]
    [] r.op = "focus" -> SetFocus(x, r.id)
    [] r.op = "above" -> [x EXCEPT !.stack = Above(@, r.id, r.arg)]
    [] r.op = "map" /\ r.id \in Frames -> [x EXCEPT !.frame[r.id].mapped = TRUE]
    [] r.op = "unmap" /\ r.id \in Frames -> UnmapFrame(x, r.id)
    [] OTHER ->                                   \* about a client's window
         IF ~x.window[r.id].alive THEN x
         ELSE CASE r.op = "mask" -> [x EXCEPT !.window[r.id].mask = r.arg]
                [] r.op = "map" -> [x EXCEPT !.window[r.id].mapped = TRUE]
                [] r.op = "unmap" -> UnmapWindow(x, r.id)
                [] r.op = "reparent" -> Reparent(x, r.id, r.arg)
                [] r.op = "kill" -> DestroyWindow(x, r.id)

-----------------------------------------------------------------------------
(* Requests of the clients *)

\* redirected to i3, which selected it on the root window and on the frames
AskToMap(x, w) ==
  IF x.window[w].mapped THEN x
  ELSE IF InFrame(x, w) /\ x.frame[x.window[w].parent].mask = "none"
       THEN [x EXCEPT !.window[w].mapped = TRUE]
       ELSE Emit(x, <<Event("map", w)>>)

\* XWithdrawWindow() adds the synthetic UnmapNotify of ICCCM 4.1.4
Withdraw(x, w) == Emit(UnmapWindow(x, w), <<Event("unmap", w)>>)

TakeFocus(x, w) ==
  IF ~Viewable(x, w) \/ x.focus = w THEN x
  ELSE Emit([x EXCEPT !.focus = w],
            IF x.window[w].mask = "child" THEN <<Event("focus", w)>> ELSE << >>)
=============================================================================
