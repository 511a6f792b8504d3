------------------------------- MODULE BarX -------------------------------
(***************************************************************************)
(* i3bar's windows (xcb.c): one bar per active output, shown or hidden by  *)
(* mode, hidden_state, modifier and urgency, and the tray.  s.x is the X   *)
(* server's side: its requests take effect when i3bar makes them, its      *)
(* events wait in s.x.queue.                                               *)
(***************************************************************************)
EXTENDS BarChild, FiniteSetsExt

CONSTANTS Outputs, NoOutput, Icons

NoBar == [active |-> FALSE, win |-> FALSE, mapped |-> FALSE, watch |-> FALSE, visible |-> FALSE,
          docked |-> << >>]

Event(type, of, value) == [type |-> type, of |-> of, value |-> value]
Emit(s, event) == [s EXCEPT !.x.queue = Append(@, event)]
Active(s) == {o \in Outputs : s.out[o].active}
Tell(s, messages) == [s EXCEPT !.icon = [t \in Icons |-> [@[t] EXCEPT !.inbox = @ \o messages]]]

\* a bar that i3 manages may lie under a fullscreen window
Obscured(s, o) == s.config.mode = "dock" /\ o \in s.x.covered
MapBar(s, o) ==
  IF ~s.out[o].win \/ s.out[o].mapped THEN s
  ELSE LET mapped == [s EXCEPT !.out[o].mapped = TRUE]
       IN  IF s.out[o].watch THEN Emit(mapped, Event("visibility", o, ~Obscured(s, o))) ELSE mapped
UnmapBar(s, o) == [s EXCEPT !.out[o].mapped = FALSE]

\* a walk over the outputs changes windows, clients and the events that wait
Walked(s, r) == [s EXCEPT !.out = r.out, !.icon = r.icon, !.x = r.x]

HideBars(s) ==
  IF s.config.mode = "dock" \/ (s.config.mode = "hide" /\ s.config.hidden = "show") THEN s
  ELSE StopChildren(Walked(s, FoldSet(LAMBDA o, r : UnmapBar(r, o), s, Active(s))))
UnhideBarsOnly(s) ==
  IF s.config.mode # "hide" THEN s
  ELSE Walked(s, FoldSet(LAMBDA o, r : MapBar(r, o), s, {o \in Outputs : s.out[o].win}))
UnhideBars(s) ==
  IF s.config.mode # "hide" THEN s
  ELSE Walked(ContChildren(s), FoldSet(LAMBDA o, r : MapBar(r, o), s, {o \in Outputs : s.out[o].win}))

UnmapIcon(s, t) ==
  IF s.icon[t].mapped THEN Emit([s EXCEPT !.icon[t].mapped = FALSE], Event("unmap", t, TRUE)) ELSE s
MapIcon(s, t) ==
  IF s.icon[t].mapped THEN s ELSE Emit([s EXCEPT !.icon[t].mapped = TRUE], Event("map", t, TRUE))

KickTrayClients(s, o) ==
  IF s.out[o].docked = << >> THEN s
  ELSE LET windows == {t \in Icons : s.icon[t].alive
                                     /\ \E j \in DOMAIN s.out[o].docked : s.out[o].docked[j].win = t}
           freed == FoldSet(LAMBDA t, r : [UnmapIcon(r, t) EXCEPT !.icon[t].parent = NoOutput],
                            s, windows)
       IN  Tell([freed EXCEPT !.out[o].docked = << >>], <<"gone", "manager">>)

\* events of a window that no longer exists name no bar
Stale(o, queue) == [j \in DOMAIN queue |-> IF queue[j].of = o THEN [queue[j] EXCEPT !.of = NoOutput]
                                           ELSE queue[j]]
DestroyWindowOnly(s, o) ==
  [s EXCEPT !.out[o].win = FALSE, !.out[o].mapped = FALSE, !.x.queue = Stale(o, @)]
DestroyWindow(s, o) ==
  IF ~s.out[o].win THEN s
  ELSE [KickTrayClients(s, o) EXCEPT !.out[o].win = FALSE, !.out[o].mapped = FALSE,
                                     !.x.queue = Stale(o, @)]

GetTrayOutput(s) ==
  IF s.config.tray = "none" \/ Active(s) = {} THEN NoOutput
  ELSE CHOOSE o \in Active(s) : TRUE

InitTray(s) == Tell([s EXCEPT !.selwin = TRUE], <<"manager">>)

CreateBar(s, o) ==
  LET dock == s.config.mode = "dock"
      made == [s EXCEPT !.out[o].win = TRUE, !.out[o].watch = dock, !.out[o].visible = dock \/ @]
  IN  IF dock THEN MapBar(made, o) ELSE made

RemapBar(s, o) == IF s.config.mode = "dock" THEN MapBar(UnmapBar(s, o), o) ELSE UnmapBar(s, o)
\* with each bar that is remapped, and twice is as good as once
ChildrenRemapped(s) ==
  LET r == [s EXCEPT !.xkb = (s.config.mode = "hide")]
  IN  IF s.config.mode = "dock" THEN ContChildren(r) ELSE StopChildren(r)

ReconfigWindows(s, redraw) ==
  LET bar(o, r) == CASE ~r.out[o].active -> DestroyWindow(r, o)
                     [] r.out[o].active /\ ~r.out[o].win -> CreateBar(r, o)
                     [] r.out[o].win /\ redraw -> RemapBar(r, o)
                     [] OTHER -> r
      remapped == redraw /\ \E o \in Active(s) : s.out[o].win
      bars == Walked(IF remapped THEN ChildrenRemapped(s) ELSE s, FoldSet(bar, s, Outputs))
      tray == [bars EXCEPT !.trayOut = GetTrayOutput(bars)]
  IN  CASE tray.trayOut # NoOutput /\ ~tray.selwin -> InitTray(tray)
        [] tray.trayOut = NoOutput /\ tray.selwin  -> Tell([tray EXCEPT !.selwin = FALSE], <<"gone">>)
        [] OTHER -> tray

Asked(s) == \/ \E b \in s.buttons : b.urgent /\ b.on \in Active(s)
            \/ s.binding /\ Active(s) # {}
DrawBars(s, unhide) ==
  LET drawn == IF \E o \in Active(s) : ~s.out[o].win THEN ReconfigWindows(s, FALSE) ELSE s
  IN  IF s.modPressed \/ s.config.hidden = "show" \/ unhide \/ Asked(s) THEN UnhideBars(drawn)
      ELSE IF s.config.mode = "hide" THEN HideBars(drawn) ELSE drawn

-----------------------------------------------------------------------------
(* The tray: handlers of ClientMessage and of the clients' own windows *)

Docked(s, t, o) == {j \in DOMAIN s.out[o].docked : s.out[o].docked[j].win = t}
Records(s, t) == UNION {{o} \X Docked(s, t, o) : o \in Active(s)}

HandleClientMessage(s, t) ==
  IF ~s.icon[t].alive \/ s.trayOut = NoOutput THEN s
  ELSE LET o == s.trayOut
           docked == [s EXCEPT !.icon[t].parent = o,
                               !.out[o].docked = Append(@, [win |-> t, mapped |-> FALSE])]
       IN  DrawBars(IF s.icon[t].wants THEN MapIcon(docked, t) ELSE docked, FALSE)

WithRecord(s, t, do(_, _)) ==
  IF Records(s, t) = {} THEN s
  ELSE LET r == CHOOSE q \in Records(s, t) : TRUE IN DrawBars(do(r[1], r[2]), FALSE)
HandleDestroyNotify(s, t) ==
  WithRecord(s, t, LAMBDA o, j : [s EXCEPT !.out[o].docked = RemoveAt(@, j)])
HandleMapNotify(s, t, mapped) ==
  WithRecord(s, t, LAMBDA o, j : [s EXCEPT !.out[o].docked[j].mapped = mapped])
HandlePropertyNotify(s, t) ==
  LET shown == \E r \in Records(s, t) : s.out[r[1]].docked[r[2]].mapped
  IN  CASE Records(s, t) = {} \/ ~s.icon[t].alive -> s
        [] Records(s, t) # {} /\ shown /\ ~s.icon[t].wants -> UnmapIcon(s, t)
        [] Records(s, t) # {} /\ ~shown /\ s.icon[t].wants -> MapIcon(s, t)
        [] OTHER -> s
=============================================================================
