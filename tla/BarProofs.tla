------------------------------ MODULE BarProofs ------------------------------
(***************************************************************************)
(* Proofs about i3bar and its children, for any outputs, tray clients,     *)
(* workspaces and configurations.  Nothing is assumed of the windows: what *)
(* i3bar does to its children and asks of i3 is right whatever is on       *)
(* display.                                                                *)
(***************************************************************************)
EXTENDS Bar, SequenceTheorems, TLAPS

Children == [alive : BOOLEAN, version : {"unknown", "flat", "json"}, stopped : BOOLEAN,
             stop : BOOLEAN, cont : BOOLEAN, click : BOOLEAN, clickInit : BOOLEAN]

\* The fields of i3bar's record that the proofs are about are there.
Shaped(r) ==
  /\ {"child", "proc", "pc", "toI3", "toWrite"} \subseteq DOMAIN r
  /\ r.child \in [Kids -> Children]
  /\ r.proc = [k \in Kids |-> r.proc[k]]
  /\ \A k \in Kids : {"state", "in"} \subseteq DOMAIN r.proc[k]

\* What i3bar remembers of a child is true: a process that is stopped was stopped by it, and
\* one that it may stop it may continue.
Kept(r) ==
  /\ \A k \in Kids :
       /\ r.child[k].stop <=> r.child[k].cont
       /\ r.child[k].stopped => r.child[k].stop
       /\ r.proc[k].state = "stops" => r.child[k].stopped
       /\ r.proc[k].state # "none" => r.child[k].alive
  /\ r.child["status"].version = "unknown" => ~r.child["status"].stop

\* What the status command got of the list of clicks, and what is still to be written to it.
Streams(r) ==
  LET in == r.proc["status"].in
      begun == r.child["status"].clickInit
  IN  /\ in \in Seq({"open", "click"}) /\ \A n \in DOMAIN in : in[n] = "open" <=> n = 1
      /\ r.pc \notin {"writing", "killed"} => r.toWrite = << >>
      /\ ~begun => in = << >> /\ r.toWrite = << >>
      /\ begun /\ in = << >> => r.toWrite = <<"open", "click">>
      /\ begun /\ in # << >> => r.toWrite \in {<< >>, <<"click">>}

Sound(r) == Shaped(r) /\ Kept(r) /\ Streams(r)

\* No child has been started yet.
Unborn(r) ==
  \A k \in Kids : /\ ~r.child[k].alive /\ ~r.child[k].stop
                  /\ ~r.child[k].click /\ ~r.child[k].clickInit

\* What most of i3bar does: nothing that concerns requests and waiting, and its children are
\* treated as they should be.
Harmless(r, q) ==
  /\ Sound(q) /\ q.pc = r.pc /\ q.toI3 = r.toI3
  /\ Unborn(r) => Unborn(q)

\* nothing of all this changes
Same(r, q) ==
  /\ {"child", "proc", "pc", "toI3", "toWrite"} \subseteq DOMAIN q
  /\ q.child = r.child /\ q.proc = r.proc /\ q.pc = r.pc /\ q.toI3 = r.toI3
  /\ q.toWrite = r.toWrite

LEMMA SameIsHarmless ==
  ASSUME NEW r, NEW q, Sound(r), Same(r, q)
  PROVE  Harmless(r, q)
BY DEF Sound, Shaped, Kept, Streams, Harmless, Same, Unborn

LEMMA HarmlessTwice ==
  ASSUME NEW r, NEW q, NEW p, Harmless(r, q), Harmless(q, p)
  PROVE  Harmless(r, p)
BY DEF Harmless

-----------------------------------------------------------------------------
(* Signals *)

\* Child k as c, its process as p, and the rest as it was.
Became(r, q, k, c, p) ==
  /\ {"child", "proc", "pc", "toI3", "toWrite"} \subseteq DOMAIN q
  /\ q.child = [r.child EXCEPT ![k] = c] /\ q.proc = [r.proc EXCEPT ![k] = p]

\* What has to be seen to when one child changes.
Fits(c, p) ==
  /\ c \in Children /\ {"state", "in"} \subseteq DOMAIN p
  /\ c.stop <=> c.cont
  /\ c.stopped => c.stop
  /\ p.state = "stops" => c.stopped
  /\ p.state # "none" => c.alive

LEMMA OneChild ==
  ASSUME NEW r, Sound(r), NEW k \in Kids, NEW q, NEW c, NEW p, Became(r, q, k, c, p), Fits(c, p),
         k = "status" /\ c.version = "unknown" => ~c.stop
  PROVE  /\ Shaped(q) /\ Kept(q)
         /\ q.child[k] = c /\ q.proc[k] = p
         /\ \A j \in Kids : j # k => q.child[j] = r.child[j] /\ q.proc[j] = r.proc[j]
<1>1. /\ q.child[k] = c /\ q.proc[k] = p
      /\ \A j \in Kids : j # k => q.child[j] = r.child[j] /\ q.proc[j] = r.proc[j]
  BY DEF Became, Sound, Shaped
<1>2. Shaped(q)
  <2>1. q.child \in [Kids -> Children]
    BY DEF Became, Sound, Shaped, Fits
  <2>2. q.proc = [j \in Kids |-> q.proc[j]] /\ \A j \in Kids : {"state", "in"} \subseteq DOMAIN q.proc[j]
    BY <1>1 DEF Became, Sound, Shaped, Fits
  <2> QED BY <2>1, <2>2 DEF Shaped, Became
<1>3. Kept(q)
  <2>1. ASSUME NEW j \in Kids
        PROVE  /\ q.child[j].stop <=> q.child[j].cont
               /\ q.child[j].stopped => q.child[j].stop
               /\ q.proc[j].state = "stops" => q.child[j].stopped
               /\ q.proc[j].state # "none" => q.child[j].alive
    BY <1>1 DEF Sound, Kept, Fits
  <2>2. q.child["status"].version = "unknown" => ~q.child["status"].stop
    BY <1>1 DEF Sound, Kept, Kids
  <2> QED BY <2>1, <2>2 DEF Kept
<1> QED BY <1>1, <1>2, <1>3

\* Nothing written or read, so nothing else of the clicks.
LEMMA SameStream ==
  ASSUME NEW r, Streams(r), NEW q, q.toWrite = r.toWrite, q.pc = r.pc,
         q.proc["status"].in = r.proc["status"].in,
         q.child["status"].clickInit = r.child["status"].clickInit
  PROVE  Streams(q)
BY DEF Streams

\* A signal: the process may change its state, i3bar's record of it that it was stopped, and
\* both tell the same in the end.
LEMMA SignalHarmless ==
  ASSUME NEW r, Sound(r), NEW k \in Kids, NEW q, NEW stopped \in BOOLEAN, NEW state,
         Became(r, q, k, [r.child[k] EXCEPT !.stopped = stopped], [r.proc[k] EXCEPT !.state = state]),
         q.toWrite = r.toWrite, q.pc = r.pc, q.toI3 = r.toI3,
         stopped => r.child[k].stop,
         state = "stops" => stopped,
         state # "none" => r.proc[k].state # "none"
  PROVE  Harmless(r, q)
<1> DEFINE c == [r.child[k] EXCEPT !.stopped = stopped]
           p == [r.proc[k] EXCEPT !.state = state]
<1>1. /\ c \in Children /\ c.stopped = stopped /\ c.stop = r.child[k].stop /\ c.cont = r.child[k].cont
      /\ c.alive = r.child[k].alive /\ c.version = r.child[k].version
      /\ c.clickInit = r.child[k].clickInit /\ c.click = r.child[k].click
  BY DEF Sound, Shaped, Children
<1>2. {"state", "in"} \subseteq DOMAIN p /\ p.state = state /\ p.in = r.proc[k].in
  BY DEF Sound, Shaped
<1>3. Became(r, q, k, c, p)
  OBVIOUS
<1> HIDE DEF c, p
<1>4. Fits(c, p)
  BY <1>1, <1>2 DEF Sound, Kept, Fits
<1>5. k = "status" /\ c.version = "unknown" => ~c.stop
  BY <1>1 DEF Sound, Kept
<1>6. /\ Shaped(q) /\ Kept(q) /\ q.child[k] = c /\ q.proc[k] = p
      /\ \A j \in Kids : j # k => q.child[j] = r.child[j] /\ q.proc[j] = r.proc[j]
  BY <1>3, <1>4, <1>5, OneChild
<1>7. Streams(q)
  <2>1. /\ q.proc["status"].in = r.proc["status"].in
        /\ q.child["status"].clickInit = r.child["status"].clickInit
    BY <1>1, <1>2, <1>6 DEF Kids
  <2> QED BY <2>1, SameStream DEF Sound
<1>8. Unborn(r) => Unborn(q)
  BY <1>1, <1>6 DEF Unborn
<1> QED BY <1>6, <1>7, <1>8 DEF Harmless, Sound

\* A child that i3bar stops is one that it can continue, whether or not the signal reaches
\* the process (stop_child()).
LEMMA StopChildHarmless ==
  ASSUME NEW r, Sound(r), NEW k \in Kids
  PROVE  Harmless(r, StopChild(r, k))
<1> DEFINE q == StopChild(r, k)
           state == Signalled(r.proc[k].state, "SIGSTOP")
<1>1. CASE ~(r.child[k].stop /\ ~r.child[k].stopped)
  <2>1. q = r
    BY <1>1 DEF StopChild
  <2>2. Same(r, r)
    BY DEF Same, Sound, Shaped
  <2> QED BY <2>1, <2>2, SameIsHarmless
<1>2. CASE r.child[k].stop /\ ~r.child[k].stopped
  <2>1. q = [[r EXCEPT !.child[k].stopped = TRUE] EXCEPT !.proc[k].state = Signalled(@, "SIGSTOP")]
    BY <1>2 DEF StopChild, Killpg
  <2>2. /\ Became(r, q, k, [r.child[k] EXCEPT !.stopped = TRUE], [r.proc[k] EXCEPT !.state = state])
        /\ q.pc = r.pc /\ q.toI3 = r.toI3 /\ q.toWrite = r.toWrite
    BY <2>1 DEF Sound, Shaped, Became
  <2>3. state # "none" => r.proc[k].state # "none"
    BY DEF Signalled
  <2> HIDE DEF q, state
  <2>4. Harmless(r, q)
    BY <1>2, <2>2, <2>3, SignalHarmless
  <2> QED BY <2>4 DEF q
<1> QED BY <1>1, <1>2

\* A child that is continued is not stopped afterwards, unless i3bar may not continue it
\* (cont_child()).
LEMMA ContChildHarmless ==
  ASSUME NEW r, Sound(r), NEW k \in Kids
  PROVE  /\ Harmless(r, ContChild(r, k))
         /\ ContChild(r, k).proc[k].state # "stops"
         /\ \A j \in Kids : r.proc[j].state # "stops" => ContChild(r, k).proc[j].state # "stops"
         /\ ContChild(r, k).toWrite = r.toWrite
<1> DEFINE q == ContChild(r, k)
           state == Signalled(r.proc[k].state, "SIGCONT")
<1>1. CASE ~(r.child[k].alive /\ r.child[k].cont /\ r.child[k].stopped)
  <2>1. q = r
    BY <1>1 DEF ContChild
  <2>2. Same(r, r)
    BY DEF Same, Sound, Shaped
  <2>3. r.proc[k].state # "stops"
    BY <1>1 DEF Sound, Kept
  <2> QED BY <2>1, <2>2, <2>3, SameIsHarmless
<1>2. CASE r.child[k].alive /\ r.child[k].cont /\ r.child[k].stopped
  <2>1. q = [[r EXCEPT !.child[k].stopped = FALSE] EXCEPT !.proc[k].state = Signalled(@, "SIGCONT")]
    BY <1>2 DEF ContChild, Killpg
  <2>2. /\ Became(r, q, k, [r.child[k] EXCEPT !.stopped = FALSE], [r.proc[k] EXCEPT !.state = state])
        /\ q.pc = r.pc /\ q.toI3 = r.toI3 /\ q.toWrite = r.toWrite
    BY <2>1 DEF Sound, Shaped, Became
  <2>3. (state # "none" => r.proc[k].state # "none") /\ state # "stops"
    BY DEF Signalled
  <2> HIDE DEF q, state
  <2>4. Harmless(r, q)
    BY <2>2, <2>3, SignalHarmless
  <2>5. \A j \in Kids : q.proc[j].state = IF j = k THEN state ELSE r.proc[j].state
    BY <2>2 DEF Became, Sound, Shaped
  <2> QED BY <2>2, <2>3, <2>4, <2>5 DEF q
<1> QED BY <1>1, <1>2

\* stop_children()
LEMMA StopChildrenHarmless ==
  ASSUME NEW r, Sound(r)
  PROVE  Harmless(r, StopChildren(r))
<1>1. Harmless(r, StopChild(r, "status"))
  BY StopChildHarmless DEF Kids
<1>2. Harmless(StopChild(r, "status"), StopChild(StopChild(r, "status"), "ws"))
  BY <1>1, StopChildHarmless DEF Kids, Harmless
<1> QED BY <1>1, <1>2, HarmlessTwice DEF StopChildren

\* cont_children()
LEMMA ContChildrenHarmless ==
  ASSUME NEW r, Sound(r)
  PROVE  /\ Harmless(r, ContChildren(r))
         /\ \A k \in Kids : ContChildren(r).proc[k].state # "stops"
         /\ ContChildren(r).toWrite = r.toWrite
<1> DEFINE p == ContChild(r, "status")
           q == ContChild(p, "ws")
<1>1. Harmless(r, p) /\ p.proc["status"].state # "stops" /\ p.toWrite = r.toWrite
  BY ContChildHarmless DEF Kids
<1> HIDE DEF p
<1>2. /\ Harmless(p, q) /\ q.proc["ws"].state # "stops" /\ q.toWrite = p.toWrite
      /\ \A j \in Kids : p.proc[j].state # "stops" => q.proc[j].state # "stops"
  BY <1>1, ContChildHarmless DEF Kids, Harmless
<1> HIDE DEF q
<1>3. Harmless(r, q) /\ \A k \in Kids : q.proc[k].state # "stops"
  BY <1>1, <1>2, HarmlessTwice DEF Kids
<1> QED BY <1>1, <1>2, <1>3 DEF ContChildren, p, q

-----------------------------------------------------------------------------
(* Windows and the tray *)

LEMMA Self ==
  ASSUME NEW r, Sound(r)
  PROVE  Same(r, r) /\ Harmless(r, r)
BY SameIsHarmless DEF Same, Sound, Shaped

LEMMA WalkedSame ==
  ASSUME NEW r, NEW q, Sound(r)
  PROVE  Same(r, Walked(r, q))
BY DEF Same, Walked, Sound, Shaped

\* Requests to the X server and messages to tray clients do not reach the children.
LEMMA EmitSame ==
  ASSUME NEW r, NEW e, Sound(r)
  PROVE  Same(r, Emit(r, e))
BY DEF Same, Emit, Sound, Shaped

LEMMA TellSame ==
  ASSUME NEW r, NEW m, Sound(r)
  PROVE  Same(r, Tell(r, m))
BY DEF Same, Tell, Sound, Shaped

LEMMA IconSame ==
  ASSUME NEW r, NEW t, Sound(r)
  PROVE  Same(r, MapIcon(r, t)) /\ Same(r, UnmapIcon(r, t))
<1>1. Same(r, [r EXCEPT !.icon[t].mapped = TRUE]) /\ Same(r, [r EXCEPT !.icon[t].mapped = FALSE])
  BY DEF Same, Sound, Shaped
<1>2. Sound([r EXCEPT !.icon[t].mapped = TRUE]) /\ Sound([r EXCEPT !.icon[t].mapped = FALSE])
  BY <1>1, SameIsHarmless DEF Harmless
<1>3. \A q, e : Same(r, q) /\ Sound(q) => Same(r, Emit(q, e))
  BY EmitSame DEF Same
<1> QED BY <1>1, <1>2, <1>3, Self DEF MapIcon, UnmapIcon

\* hide_bars()
LEMMA HideBarsHarmless ==
  ASSUME NEW r, Sound(r)
  PROVE  Harmless(r, HideBars(r))
<1>1. PICK q : HideBars(r) = r \/ HideBars(r) = StopChildren(Walked(r, q))
  BY DEF HideBars
<1>2. Harmless(r, Walked(r, q))
  BY WalkedSame, SameIsHarmless
<1>3. Harmless(Walked(r, q), StopChildren(Walked(r, q)))
  BY <1>2, StopChildrenHarmless DEF Harmless
<1> QED BY <1>1, <1>2, <1>3, HarmlessTwice, Self

\* unhide_bars()
LEMMA UnhideBarsHarmless ==
  ASSUME NEW r, Sound(r)
  PROVE  Harmless(r, UnhideBars(r))
<1>1. PICK q : UnhideBars(r) = r \/ UnhideBars(r) = Walked(ContChildren(r), q)
  BY DEF UnhideBars
<1>2. Harmless(r, ContChildren(r))
  BY ContChildrenHarmless
<1>3. Harmless(ContChildren(r), Walked(ContChildren(r), q))
  BY <1>2, WalkedSame, SameIsHarmless DEF Harmless
<1> QED BY <1>1, <1>2, <1>3, HarmlessTwice, Self

\* reconfig_windows()
LEMMA ReconfigWindowsHarmless ==
  ASSUME NEW r, Sound(r), NEW redraw
  PROVE  Harmless(r, ReconfigWindows(r, redraw))
<1>1. Harmless(r, ChildrenRemapped(r))
  <2> DEFINE q == [r EXCEPT !.xkb = (r.config.mode = "hide")]
  <2>1. Harmless(r, q)
    <3>1. Same(r, q)
      BY DEF Same, Sound, Shaped
    <3> QED BY <3>1, SameIsHarmless
  <2>2. Harmless(q, ContChildren(q)) /\ Harmless(q, StopChildren(q))
    BY <2>1, ContChildrenHarmless, StopChildrenHarmless DEF Harmless
  <2>3. ChildrenRemapped(r) \in {ContChildren(q), StopChildren(q)}
    BY DEF ChildrenRemapped
  <2> HIDE DEF q
  <2> QED BY <2>1, <2>2, <2>3, HarmlessTwice
<1>2. PICK bars, tray, p :
        /\ p \in {r, ChildrenRemapped(r)}
        /\ tray = [Walked(p, bars) EXCEPT !.trayOut = GetTrayOutput(Walked(p, bars))]
        /\ ReconfigWindows(r, redraw) \in
             {InitTray(tray), Tell([tray EXCEPT !.selwin = FALSE], <<"gone">>), tray}
  BY DEF ReconfigWindows
<1>3. Harmless(r, p)
  BY <1>1, <1>2, Self
<1>4. Harmless(p, Walked(p, bars))
  BY <1>3, WalkedSame, SameIsHarmless DEF Harmless
<1>5. Harmless(Walked(p, bars), tray)
  <2>1. Same(Walked(p, bars), tray)
    BY <1>2, <1>4 DEF Same, Harmless, Sound, Shaped
  <2> QED BY <1>4, <2>1, SameIsHarmless DEF Harmless
<1>6. Harmless(tray, ReconfigWindows(r, redraw))
  <2>1. Sound(tray)
    BY <1>5 DEF Harmless
  <2>2. \A v : Same(tray, [tray EXCEPT !.selwin = v]) /\ Sound([tray EXCEPT !.selwin = v])
    <3> TAKE v
    <3>1. Same(tray, [tray EXCEPT !.selwin = v])
      BY <2>1 DEF Same, Sound, Shaped
    <3> QED BY <2>1, <3>1, SameIsHarmless DEF Harmless
  <2>3. \A v, m : Harmless(tray, Tell([tray EXCEPT !.selwin = v], m))
    BY <2>1, <2>2, TellSame, SameIsHarmless DEF Same
  <2> QED BY <1>2, <2>1, <2>3, Self DEF InitTray
<1> QED BY <1>3, <1>4, <1>5, <1>6, HarmlessTwice

\* draw_bars()
LEMMA DrawBarsHarmless ==
  ASSUME NEW r, Sound(r), NEW unhide
  PROVE  Harmless(r, DrawBars(r, unhide))
<1>1. PICK drawn : /\ drawn \in {r, ReconfigWindows(r, FALSE)}
                   /\ DrawBars(r, unhide) \in {drawn, UnhideBars(drawn), HideBars(drawn)}
  BY DEF DrawBars
<1>2. Harmless(r, drawn)
  BY <1>1, Self, ReconfigWindowsHarmless
<1>3. Harmless(drawn, DrawBars(r, unhide))
  BY <1>1, <1>2, UnhideBarsHarmless, HideBarsHarmless, Self DEF Harmless
<1> QED BY <1>2, <1>3, HarmlessTwice

-----------------------------------------------------------------------------
(* Starting, ending and talking to children *)

\* Any signal but SIGSTOP: it ends a process or lets it run.
LEMMA SigtermHarmless ==
  ASSUME NEW r, Sound(r), NEW k \in Kids
  PROVE  /\ Harmless(r, Killpg(r, k, "SIGTERM"))
         /\ \A j \in Kids : r.proc[j].state # "stops" => Killpg(r, k, "SIGTERM").proc[j].state # "stops"
         /\ Killpg(r, k, "SIGTERM").toWrite = r.toWrite
<1> DEFINE q == Killpg(r, k, "SIGTERM")
           state == Signalled(r.proc[k].state, "SIGTERM")
           p == [r.proc[k] EXCEPT !.state = state]
<1>1. /\ Became(r, q, k, r.child[k], p)
      /\ q.child = r.child /\ q.pc = r.pc /\ q.toI3 = r.toI3 /\ q.toWrite = r.toWrite
  <2>1. q.child = r.child /\ q.proc = [r.proc EXCEPT ![k] = p]
    BY DEF Killpg, Sound, Shaped
  <2>2. r.child = [r.child EXCEPT ![k] = r.child[k]]
    BY DEF Sound, Shaped
  <2>3. {"child", "proc", "pc", "toI3", "toWrite"} \subseteq DOMAIN q
    BY DEF Killpg, Sound, Shaped
  <2>4. q.pc = r.pc /\ q.toI3 = r.toI3 /\ q.toWrite = r.toWrite
    BY DEF Killpg, Sound, Shaped
  <2> HIDE DEF q, p
  <2> QED BY <2>1, <2>2, <2>3, <2>4 DEF Became
<1>2. state = "stops" => r.proc[k].state = "stops"
  BY DEF Signalled
<1>3. state # "none" => r.proc[k].state # "none"
  BY DEF Signalled
<1>4. {"state", "in"} \subseteq DOMAIN p /\ p.state = state /\ p.in = r.proc[k].in
  BY DEF Sound, Shaped
<1> HIDE DEF q, p, state
<1>5. Fits(r.child[k], p)
  BY <1>2, <1>3, <1>4 DEF Fits, Sound, Shaped, Kept
<1>6. k = "status" /\ r.child[k].version = "unknown" => ~r.child[k].stop
  BY DEF Sound, Kept
<1>7. /\ Shaped(q) /\ Kept(q) /\ q.proc[k] = p
      /\ \A j \in Kids : j # k => q.proc[j] = r.proc[j]
  BY <1>1, <1>5, <1>6, OneChild
<1>8. Streams(q)
  <2>1. q.proc["status"].in = r.proc["status"].in
    BY <1>4, <1>7 DEF Kids
  <2> QED BY <1>1, <2>1, SameStream DEF Sound
<1>9. Harmless(r, q)
  BY <1>1, <1>7, <1>8 DEF Harmless, Sound, Unborn
<1>10. \A j \in Kids : r.proc[j].state # "stops" => q.proc[j].state # "stops"
  BY <1>2, <1>4, <1>7
<1> QED BY <1>1, <1>9, <1>10 DEF q

\* kill_and_wait(): the child is continued before it is told to end, so that it can.
LEMMA KillAndWaitHarmless ==
  ASSUME NEW r, Sound(r), NEW k \in Kids
  PROVE  Harmless(r, KillAndWait(r, k)) /\ KillAndWait(r, k).proc[k].state # "stops"
<1>1. Harmless(r, ContChild(r, k)) /\ ContChild(r, k).proc[k].state # "stops"
  BY ContChildHarmless
<1>2. Sound(ContChild(r, k))
  BY <1>1 DEF Harmless
<1> QED BY <1>1, <1>2, SigtermHarmless, HarmlessTwice DEF KillAndWait

\* Requests and waiting are as they were.
Aside(r, q) == q.pc = r.pc /\ q.toI3 = r.toI3

\* cleanup() after the process has ended: nothing is left to be written to it, for i3bar
\* does not do anything else while it writes.
LEMMA CleanupSound ==
  ASSUME NEW r, Sound(r), NEW k \in Kids, r.pc \notin {"writing", "killed"}
  PROVE  LET q == Cleanup(r, k)
         IN  /\ Sound(q) /\ Aside(r, q)
             /\ k = "status" => ~q.child["status"].stop /\ ~q.child["status"].clickInit
<1> DEFINE q == Cleanup(r, k)
<1>1. Became(r, q, k, NoChild, NoProc) /\ Aside(r, q) /\ q.toWrite = r.toWrite
  BY DEF Cleanup, Became, Aside, Sound, Shaped
<1>2. NoChild \in Children /\ NoChild.version = "unknown" /\ ~NoChild.stop /\ ~NoChild.cont
      /\ ~NoChild.stopped /\ ~NoChild.clickInit
  BY DEF NoChild, Children
<1>3. {"state", "in"} \subseteq DOMAIN NoProc /\ NoProc.state = "none" /\ NoProc.in = << >>
  BY DEF NoProc
<1>4. Fits(NoChild, NoProc)
  BY <1>2, <1>3 DEF Fits
<1> HIDE DEF q
<1>5. /\ Shaped(q) /\ Kept(q) /\ q.child[k] = NoChild /\ q.proc[k] = NoProc
      /\ \A j \in Kids : j # k => q.child[j] = r.child[j] /\ q.proc[j] = r.proc[j]
  BY <1>1, <1>2, <1>4, OneChild
<1>6. Streams(q)
  <2>1. CASE k = "status"
    <3>1. q.toWrite = << >> /\ q.proc["status"].in = << >> /\ ~q.child["status"].clickInit
      BY <1>1, <1>2, <1>3, <1>5, <2>1 DEF Sound, Streams
    <3> QED BY <3>1 DEF Streams
  <2>2. CASE k # "status"
    <3>1. /\ q.proc["status"].in = r.proc["status"].in
          /\ q.child["status"].clickInit = r.child["status"].clickInit
      BY <1>5, <2>2 DEF Kids
    <3> QED BY <1>1, <3>1, SameStream DEF Sound, Aside
  <2> QED BY <2>1, <2>2
<1> QED BY <1>1, <1>2, <1>5, <1>6 DEF Sound, q

\* start_child(): the new process is told nothing of the list before it.
LEMMA StartChildSound ==
  ASSUME NEW r, Sound(r), NEW command, ~r.child["status"].stop, ~r.child["status"].clickInit
  PROVE  Sound(StartChild(r, command)) /\ Aside(r, StartChild(r, command))
<1> DEFINE q == StartChild(r, command)
           c == [r.child["status"] EXCEPT !.alive = TRUE, !.version = "unknown"]
           p == [NoProc EXCEPT !.state = "young"]
<1>1. CASE command = "none"
  BY <1>1 DEF StartChild, Aside
<1>2. CASE command # "none"
  <2>1. q = [r EXCEPT !.child["status"] = c, !.proc["status"] = p]
    BY <1>2 DEF StartChild, Sound, Shaped, Kids
  <2>2. Became(r, q, "status", c, p) /\ Aside(r, q) /\ q.toWrite = r.toWrite
    BY <2>1 DEF Became, Aside, Sound, Shaped
  <2>3. /\ c \in Children /\ c.alive /\ c.stop = r.child["status"].stop
        /\ c.cont = r.child["status"].cont /\ c.stopped = r.child["status"].stopped
        /\ c.clickInit = r.child["status"].clickInit
    BY DEF Sound, Shaped, Children, Kids
  <2>4. {"state", "in"} \subseteq DOMAIN p /\ p.state = "young" /\ p.in = << >>
    BY DEF NoProc
  <2>5. "status" \in Kids
    BY DEF Kids
  <2> HIDE DEF q, c, p
  <2>6. Fits(c, p)
    BY <2>3, <2>4, <2>5 DEF Fits, Sound, Kept
  <2>7. Shaped(q) /\ Kept(q) /\ q.child["status"] = c /\ q.proc["status"] = p
    BY <2>2, <2>3, <2>5, <2>6, OneChild
  <2>8. Streams(q)
    BY <2>2, <2>3, <2>4, <2>7 DEF Sound, Streams, Aside
  <2> QED BY <2>2, <2>7, <2>8 DEF Sound, q
<1> QED BY <1>1, <1>2

\* start_ws_child()
LEMMA StartWsChildSound ==
  ASSUME NEW r, Sound(r), NEW command
  PROVE  Sound(StartWsChild(r, command)) /\ Aside(r, StartWsChild(r, command))
<1> DEFINE q == StartWsChild(r, command)
           c == [r.child["ws"] EXCEPT !.alive = TRUE, !.stop = TRUE, !.cont = TRUE]
           p == [NoProc EXCEPT !.state = "young"]
<1>1. CASE command = "none"
  BY <1>1 DEF StartWsChild, Aside
<1>2. CASE command # "none"
  <2>1. q = [r EXCEPT !.child["ws"] = c, !.proc["ws"] = p]
    BY <1>2 DEF StartWsChild, Sound, Shaped, Kids
  <2>2. Became(r, q, "ws", c, p) /\ Aside(r, q) /\ q.toWrite = r.toWrite
    BY <2>1 DEF Became, Aside, Sound, Shaped
  <2>3. c \in Children /\ c.alive /\ c.stop /\ c.cont
    BY DEF Sound, Shaped, Children, Kids
  <2>4. {"state", "in"} \subseteq DOMAIN p /\ p.state = "young"
    BY DEF NoProc
  <2>5. {"status", "ws"} = Kids
    BY DEF Kids
  <2> HIDE DEF q, c, p
  <2>6. Fits(c, p)
    BY <2>3, <2>4 DEF Fits
  <2>7. /\ Shaped(q) /\ Kept(q)
        /\ q.child["status"] = r.child["status"] /\ q.proc["status"] = r.proc["status"]
    BY <2>2, <2>5, <2>6, OneChild
  <2>8. Streams(q)
    BY <2>2, <2>7, SameStream DEF Sound, Aside
  <2> QED BY <2>2, <2>7, <2>8 DEF Sound, q
<1> QED BY <1>1, <1>2

\* parse_json_header(): only the first line of a child that it could not have stopped yet.
LEMMA HeaderSound ==
  ASSUME NEW r, Sound(r), NEW kind, r.child["status"].version = "unknown"
  PROVE  Sound(ParseJsonHeader(r, kind)) /\ Aside(r, ParseJsonHeader(r, kind))
<1> DEFINE q == ParseJsonHeader(r, kind)
           signals == kind # "busy"
           flat == ChildInit(r.child["status"])
           json == [flat EXCEPT !.version = "json", !.stop = signals, !.cont = signals,
                                !.click = (kind = "json")]
           c == IF kind = "flat" THEN flat ELSE json
<1>1. "status" \in Kids /\ r.child["status"] \in Children
  BY DEF Kids, Sound, Shaped
<1>2. /\ flat \in Children /\ flat.version = "flat" /\ flat.stop /\ flat.cont
      /\ flat.alive = r.child["status"].alive /\ flat.stopped = r.child["status"].stopped
      /\ flat.clickInit = r.child["status"].clickInit
  BY <1>1 DEF ChildInit, Children
<1>3. q = [r EXCEPT !.child["status"] = c]
  BY <1>1 DEF ParseJsonHeader, Sound, Shaped
<1> HIDE DEF flat
<1>4. /\ json \in Children /\ json.version = "json" /\ (json.stop <=> json.cont)
      /\ json.alive = r.child["status"].alive /\ json.stopped = r.child["status"].stopped
      /\ json.clickInit = r.child["status"].clickInit
  BY <1>2 DEF Children
<1> HIDE DEF json
<1>5. /\ c \in Children /\ c.version # "unknown" /\ (c.stop <=> c.cont)
      /\ c.alive = r.child["status"].alive /\ c.stopped = r.child["status"].stopped
      /\ c.clickInit = r.child["status"].clickInit
  BY <1>2, <1>4
<1> HIDE DEF c
<1>6. /\ Became(r, q, "status", c, r.proc["status"]) /\ q.proc = r.proc /\ Aside(r, q)
      /\ q.toWrite = r.toWrite
  <2>1. q.proc = r.proc /\ q.child = [r.child EXCEPT !["status"] = c]
    BY <1>3 DEF Sound, Shaped
  <2>2. /\ {"child", "proc", "pc", "toI3", "toWrite"} \subseteq DOMAIN q
        /\ q.pc = r.pc /\ q.toI3 = r.toI3 /\ q.toWrite = r.toWrite
    BY <1>3 DEF Sound, Shaped
  <2>3. r.proc = [r.proc EXCEPT !["status"] = r.proc["status"]]
    BY DEF Sound, Shaped
  <2> HIDE DEF q
  <2> QED BY <2>1, <2>2, <2>3 DEF Became, Aside
<1> HIDE DEF q
<1>7. Fits(c, r.proc["status"])
  BY <1>1, <1>5 DEF Fits, Sound, Shaped, Kept
<1>8. Shaped(q) /\ Kept(q) /\ q.child["status"] = c
  BY <1>1, <1>5, <1>6, <1>7, OneChild
<1>9. Streams(q)
  BY <1>5, <1>6, <1>8, SameStream DEF Sound, Aside
<1> QED BY <1>6, <1>8, <1>9 DEF Sound, q

\* send_block_clicked(): the list is opened once for each process.
LEMMA SendBlockClickedSound ==
  ASSUME NEW r, Sound(r), r.pc = "idle"
  PROVE  LET q == SendBlockClicked(r)
         IN  /\ Sound(q) /\ q.toI3 = r.toI3 /\ q.pc \in {"idle", "writing"}
             /\ Unborn(r) => Unborn(q)
<1> DEFINE q == SendBlockClicked(r)
           c == [r.child["status"] EXCEPT !.clickInit = TRUE]
           w == IF r.child["status"].clickInit THEN <<"click">> ELSE <<"open", "click">>
<1>0. "status" \in Kids /\ r.child["status"] \in Children
  BY DEF Kids, Sound, Shaped
<1>1. CASE ~r.child["status"].click
  BY <1>1 DEF SendBlockClicked
<1>2. CASE r.child["status"].click
  <2>1. q = [r EXCEPT !.pc = "writing", !.child["status"].clickInit = TRUE, !.toWrite = w]
    BY <1>2 DEF SendBlockClicked
  <2>2. /\ q.child = [r.child EXCEPT !["status"] = c] /\ q.proc = r.proc
        /\ q.toI3 = r.toI3 /\ q.pc = "writing" /\ q.toWrite = w
        /\ {"child", "proc", "pc", "toI3", "toWrite"} \subseteq DOMAIN q
    BY <2>1 DEF Sound, Shaped
  <2>3. r.proc = [r.proc EXCEPT !["status"] = r.proc["status"]]
    BY DEF Sound, Shaped
  <2>4. /\ c \in Children /\ c.clickInit /\ c.stop = r.child["status"].stop
        /\ c.cont = r.child["status"].cont /\ c.stopped = r.child["status"].stopped
        /\ c.alive = r.child["status"].alive /\ c.version = r.child["status"].version
    BY <1>0 DEF Children
  <2> HIDE DEF q, c
  <2>6. Became(r, q, "status", c, r.proc["status"])
    BY <2>2, <2>3 DEF Became
  <2>7. Fits(c, r.proc["status"])
    BY <1>0, <2>4 DEF Fits, Sound, Shaped, Kept
  <2>8. Shaped(q) /\ Kept(q) /\ q.child["status"] = c
    BY <1>0, <2>4, <2>6, <2>7, OneChild DEF Sound, Kept
  <2>9. Streams(q)
    <3>1. /\ q.proc["status"].in = r.proc["status"].in /\ q.child["status"].clickInit
          /\ r.toWrite = << >>
      BY <2>2, <2>4, <2>8 DEF Sound, Streams
    <3>2. r.proc["status"].in = << >> <=> ~r.child["status"].clickInit
      <4>1. <<"open", "click">> # << >>
        OBVIOUS
      <4> QED BY <3>1, <4>1 DEF Sound, Streams
    <3>3. /\ q.proc["status"].in \in Seq({"open", "click"})
          /\ \A n \in DOMAIN q.proc["status"].in : q.proc["status"].in[n] = "open" <=> n = 1
      BY <3>1 DEF Sound, Streams
    <3>4. q.proc["status"].in = << >> => q.toWrite = <<"open", "click">>
      BY <2>2, <3>1, <3>2
    <3>5. q.proc["status"].in # << >> => q.toWrite = <<"click">>
      BY <2>2, <3>1, <3>2
    <3> QED BY <2>2, <3>1, <3>3, <3>4, <3>5 DEF Streams
  <2> QED BY <1>0, <1>2, <2>2, <2>8, <2>9 DEF Sound, Unborn, q
<1> QED BY <1>1, <1>2

-----------------------------------------------------------------------------
(* Requests *)

IsSeq(t) == \E S : t \in Seq(S)
Requests == {"get_outputs", "get_workspaces", "subscribe", "focus"}

\* What i3bar asks of i3 it asks behind what it asked before, and it never asks for a
\* workspace by name.
Further(t, u) ==
  IsSeq(t) => /\ IsSeq(u) /\ Len(t) <= Len(u)
              /\ \A n \in 1 .. Len(t) : u[n] = t[n]
              /\ \A n \in Len(t) + 1 .. Len(u) : u[n].type \in Requests

LEMMA SeqLength ==
  ASSUME NEW t, IsSeq(t)
  PROVE  Len(t) \in Nat /\ DOMAIN t = 1 .. Len(t) /\ (t = << >> <=> Len(t) = 0)
BY EmptySeq, LenProperties DEF IsSeq

LEMMA AppendSeq ==
  ASSUME NEW t, NEW e, IsSeq(t)
  PROVE  /\ IsSeq(Append(t, e)) /\ Len(Append(t, e)) = Len(t) + 1
         /\ \A n \in 1 .. Len(t) : Append(t, e)[n] = t[n]
         /\ Append(t, e)[Len(t) + 1] = e
<1>1. PICK S : t \in Seq(S)
  BY DEF IsSeq
<1>2. t \in Seq(S \cup {e})
  BY <1>1
<1>3. /\ Append(t, e) \in Seq(S \cup {e}) /\ Len(Append(t, e)) = Len(t) + 1
      /\ \A n \in 1 .. Len(t) : Append(t, e)[n] = t[n]
      /\ Append(t, e)[Len(t) + 1] = e
  BY <1>2, AppendProperties
<1> QED BY <1>3 DEF IsSeq

LEMMA TailSeq ==
  ASSUME NEW t, IsSeq(t), t # << >>
  PROVE  /\ IsSeq(Tail(t)) /\ Len(t) \in Nat \ {0} /\ Len(Tail(t)) = Len(t) - 1
         /\ \A n \in 1 .. Len(t) - 1 : Tail(t)[n] = t[n + 1]
         /\ Head(t) = t[1]
<1>1. PICK S : t \in Seq(S)
  BY DEF IsSeq
<1>2. /\ Tail(t) \in Seq(S) /\ Len(Tail(t)) = Len(t) - 1
      /\ \A n \in 1 .. Len(Tail(t)) : Tail(t)[n] = t[n + 1]
  BY <1>1, HeadTailProperties
<1> QED BY <1>1, <1>2, SeqLength DEF IsSeq

LEMMA FurtherTwice ==
  ASSUME NEW t, NEW u, NEW v, Further(t, u), Further(u, v)
  PROVE  Further(t, v)
<1> SUFFICES ASSUME IsSeq(t)
             PROVE  /\ IsSeq(v) /\ Len(t) <= Len(v)
                    /\ \A n \in 1 .. Len(t) : v[n] = t[n]
                    /\ \A n \in Len(t) + 1 .. Len(v) : v[n].type \in Requests
  BY DEF Further
<1>1. IsSeq(u) /\ IsSeq(v) /\ Len(t) <= Len(u) /\ Len(u) <= Len(v)
  BY DEF Further
<1>2. Len(t) \in Nat /\ Len(u) \in Nat /\ Len(v) \in Nat
  BY <1>1, SeqLength
<1>3. ASSUME NEW n \in 1 .. Len(t) PROVE v[n] = t[n]
  <2>1. n \in 1 .. Len(u) /\ u[n] = t[n]
    BY <1>1, <1>2 DEF Further
  <2> QED BY <1>1, <2>1 DEF Further
<1>4. ASSUME NEW n \in Len(t) + 1 .. Len(v) PROVE v[n].type \in Requests
  <2>1. CASE n \in 1 .. Len(u)
    <3>1. v[n] = u[n] /\ n \in Len(t) + 1 .. Len(u)
      BY <1>1, <1>2, <2>1 DEF Further
    <3> QED BY <3>1 DEF Further
  <2>2. CASE n \in Len(u) + 1 .. Len(v)
    BY <1>1, <2>2 DEF Further
  <2> QED BY <1>1, <1>2, <2>1, <2>2
<1> QED BY <1>1, <1>2, <1>3, <1>4

\* What a handler does that need not treat any child: it may ask for more.
Forwards(r, q) == Sound(q) /\ q.pc = r.pc /\ Further(r.toI3, q.toI3)

LEMMA HarmlessHandled ==
  ASSUME NEW r, NEW q, Harmless(r, q)
  PROVE  Forwards(r, q)
<1>1. Further(r.toI3, r.toI3)
  <2> SUFFICES ASSUME IsSeq(r.toI3)
               PROVE  \A n \in Len(r.toI3) + 1 .. Len(r.toI3) : r.toI3[n].type \in Requests
    BY SeqLength DEF Further
  <2> QED BY SeqLength
<1> QED BY <1>1 DEF Harmless, Forwards

LEMMA HandledTwice ==
  ASSUME NEW r, NEW q, NEW p, Forwards(r, q), Forwards(q, p)
  PROVE  Forwards(r, p)
BY FurtherTwice DEF Forwards

LEMMA SendMsgHandled ==
  ASSUME NEW r, Sound(r), NEW type \in Requests, NEW value
  PROVE  LET q == SendMsg(r, type, value)
         IN  Forwards(r, q) /\ q.child = r.child
<1> DEFINE q == SendMsg(r, type, value)
<1>1. /\ q.child = r.child /\ q.proc = r.proc /\ q.pc = r.pc /\ q.toWrite = r.toWrite
      /\ q.toI3 = Append(r.toI3, Msg(type, value))
      /\ {"child", "proc", "pc", "toI3", "toWrite"} \subseteq DOMAIN q
  BY DEF SendMsg, Sound, Shaped
<1> HIDE DEF q
<1>2. Sound(q)
  BY <1>1 DEF Sound, Shaped, Kept, Streams
<1>3. Further(r.toI3, q.toI3)
  <2> SUFFICES ASSUME IsSeq(r.toI3)
               PROVE  /\ IsSeq(q.toI3) /\ Len(r.toI3) <= Len(q.toI3)
                      /\ \A n \in 1 .. Len(r.toI3) : q.toI3[n] = r.toI3[n]
                      /\ \A n \in Len(r.toI3) + 1 .. Len(q.toI3) : q.toI3[n].type \in Requests
    BY DEF Further
  <2>1. /\ IsSeq(q.toI3) /\ Len(q.toI3) = Len(r.toI3) + 1
        /\ \A n \in 1 .. Len(r.toI3) : q.toI3[n] = r.toI3[n]
        /\ q.toI3[Len(r.toI3) + 1] = Msg(type, value)
    BY <1>1, AppendSeq
  <2>2. Len(r.toI3) \in Nat
    BY SeqLength
  <2>3. Msg(type, value).type \in Requests
    BY DEF Msg
  <2> QED BY <2>1, <2>2, <2>3
<1> QED BY <1>1, <1>2, <1>3 DEF Forwards, q

\* Workspaces, outputs and modes are not about children.
LEMMA OtherFieldsSame ==
  ASSUME NEW r, Sound(r), NEW v
  PROVE  /\ Same(r, FreeWorkspaces(r)) /\ Same(r, ParseWorkspaces(r, v)) /\ Same(r, RepeatLastWsJson(r))
         /\ Same(r, ParseOutputs(r, v)) /\ Same(r, InitXcbLate(r)) /\ Same(r, ErrorButtons(r))
<1>1. Same(r, FreeWorkspaces(r))
  BY DEF Same, Sound, Shaped, FreeWorkspaces
<1>2. \A w : Same(r, ParseWorkspaces(r, w))
  BY DEF Same, Sound, Shaped, ParseWorkspaces
<1>3. Same(r, RepeatLastWsJson(r))
  BY <1>2, Self DEF RepeatLastWsJson
<1>4. Same(r, ParseOutputs(r, v))
  BY DEF Same, Sound, Shaped, ParseOutputs
<1>5. Same(r, InitXcbLate(r))
  <2>1. Same(r, [r EXCEPT !.xkb = TRUE])
    BY DEF Same, Sound, Shaped
  <2> QED BY <2>1, Self DEF InitXcbLate
<1>6. Same(r, ErrorButtons(r))
  BY DEF Same, Sound, Shaped, ErrorButtons
<1> QED BY <1>1, <1>2, <1>3, <1>4, <1>5, <1>6

LEMMA FreeOutputsHarmless ==
  ASSUME NEW r, Sound(r)
  PROVE  Harmless(r, FreeOutputs(r))
<1>1. PICK q : FreeOutputs(r) = Walked(FreeWorkspaces(r), q)
  BY DEF FreeOutputs
<1>2. Harmless(r, FreeWorkspaces(r))
  BY OtherFieldsSame, SameIsHarmless
<1>3. Harmless(FreeWorkspaces(r), Walked(FreeWorkspaces(r), q))
  BY <1>2, WalkedSame, SameIsHarmless DEF Harmless
<1> QED BY <1>1, <1>2, <1>3, HarmlessTwice

LEMMA WorkspacesAgainHandled ==
  ASSUME NEW r, Sound(r)
  PROVE  Forwards(r, WorkspacesAgain(r))
<1>1. Forwards(r, SendMsg(r, "get_workspaces", 0))
  BY SendMsgHandled DEF Requests
<1>2. Forwards(r, RepeatLastWsJson(r))
  BY OtherFieldsSame, SameIsHarmless, HarmlessHandled
<1> QED BY <1>1, <1>2 DEF WorkspacesAgain

\* got_output_reply(), got_workspace_reply(), got_mode_event()
LEMMA RepliesHandled ==
  ASSUME Sound(s), NEW value
  PROVE  /\ Forwards(s, GotOutputReply(value)) /\ Forwards(s, GotWorkspaceReply(value))
         /\ Forwards(s, GotModeEvent(value))
<1>1. Forwards(s, GotOutputReply(value))
  <2> DEFINE free == FreeOutputs(s)
             parsed == ParseOutputs(free, value)
             r == ReconfigWindows(parsed, FALSE)
             again == WorkspacesAgain(r)
  <2>1. Harmless(s, free)
    BY FreeOutputsHarmless
  <2> HIDE DEF free
  <2>2. Harmless(free, parsed)
    BY <2>1, OtherFieldsSame, SameIsHarmless DEF Harmless
  <2> HIDE DEF parsed
  <2>3. Harmless(parsed, r)
    BY <2>2, ReconfigWindowsHarmless DEF Harmless
  <2>4. Forwards(s, r)
    BY <2>1, <2>2, <2>3, HarmlessTwice, HarmlessHandled
  <2> HIDE DEF r
  <2>5. Forwards(r, again)
    BY <2>4, WorkspacesAgainHandled DEF Forwards
  <2> HIDE DEF again
  <2>6. Forwards(again, DrawBars(again, FALSE))
    BY <2>5, DrawBarsHarmless, HarmlessHandled DEF Forwards
  <2> QED BY <2>4, <2>5, <2>6, HandledTwice DEF GotOutputReply, again, r, parsed, free
<1>2. Forwards(s, GotWorkspaceReply(value))
  <2>1. Harmless(s, ParseWorkspaces(s, value))
    BY OtherFieldsSame, SameIsHarmless
  <2>2. Harmless(ParseWorkspaces(s, value), DrawBars(ParseWorkspaces(s, value), FALSE))
    BY <2>1, DrawBarsHarmless DEF Harmless
  <2> QED BY <2>1, <2>2, HarmlessTwice, HarmlessHandled DEF GotWorkspaceReply
<1>3. Forwards(s, GotModeEvent(value))
  <2> DEFINE r == ParseModeJson(value)
  <2>1. Same(s, r)
    BY DEF Same, Sound, Shaped, ParseModeJson, SetCurrentMode
  <2>2. Harmless(s, r)
    BY <2>1, SameIsHarmless
  <2> HIDE DEF r
  <2>3. Harmless(r, DrawBars(r, FALSE))
    BY <2>2, DrawBarsHarmless DEF Harmless
  <2> QED BY <2>2, <2>3, HarmlessTwice, HarmlessHandled DEF GotModeEvent, r
<1> QED BY <1>1, <1>2, <1>3

-----------------------------------------------------------------------------
(* The configuration, and waiting for a child *)

\* i3bar does not wait for a process that is stopped, nor leaves one behind.
Waits(r) ==
  /\ r.pc = "killStatus" => r.proc["status"].state # "stops"
  /\ r.pc = "killWs" => r.proc["ws"].state # "stops"
  /\ r.pc = "exited" => \A k \in Kids : r.proc[k].state # "stops"

Done(r, q) == Sound(q) /\ Further(r.toI3, q.toI3) /\ Waits(q)

LEMMA HandledDone ==
  ASSUME NEW r, NEW q, NEW p, Forwards(r, q), Done(q, p)
  PROVE  Done(r, p)
BY FurtherTwice DEF Forwards, Done

LEMMA IdleDone ==
  ASSUME NEW r, NEW q, Forwards(r, q), r.pc \in {"idle", "writing", "killed"}
  PROVE  Done(r, q)
BY DEF Forwards, Done, Waits

\* Going on to another part of the program, with nothing left to write.
LEMMA PcSound ==
  ASSUME NEW r, Sound(r), r.pc \notin {"writing", "killed"}, NEW v
  PROVE  LET q == [r EXCEPT !.pc = v]
         IN  Sound(q) /\ q.pc = v /\ q.proc = r.proc /\ q.child = r.child /\ Further(r.toI3, q.toI3)
<1> DEFINE q == [r EXCEPT !.pc = v]
<1>1. /\ q.child = r.child /\ q.proc = r.proc /\ q.pc = v /\ q.toWrite = r.toWrite /\ q.toI3 = r.toI3
      /\ {"child", "proc", "pc", "toI3", "toWrite"} \subseteq DOMAIN q
  BY DEF Sound, Shaped
<1> HIDE DEF q
<1>2. Sound(q)
  BY <1>1 DEF Sound, Shaped, Kept, Streams
<1>3. Further(r.toI3, r.toI3)
  BY Self, HarmlessHandled DEF Forwards
<1> QED BY <1>1, <1>2, <1>3 DEF q

\* The end of got_bar_config_update().
LEMMA UpdateEndDone ==
  ASSUME NEW r, Sound(r), r.pc \notin {"writing", "killed"}, NEW restart
  PROVE  Done(r, UpdateEnd(r, restart)) /\ UpdateEnd(r, restart).pc = "idle"
<1> DEFINE p == IF restart THEN StartWsChild(r, r.config.wscmd) ELSE r
           q == [p EXCEPT !.pc = "idle"]
<1>1. Sound(p) /\ Aside(r, p)
  BY StartWsChildSound DEF Aside
<1> HIDE DEF p
<1>2. Sound(q) /\ q.pc = "idle" /\ Further(p.toI3, q.toI3)
  BY <1>1, PcSound DEF Aside
<1> HIDE DEF q
<1>3. Forwards(q, DrawBars(q, FALSE))
  BY <1>2, DrawBarsHarmless, HarmlessHandled
<1>4. Further(r.toI3, DrawBars(q, FALSE).toI3)
  BY <1>1, <1>2, <1>3, FurtherTwice DEF Aside, Forwards
<1> QED BY <1>2, <1>3, <1>4 DEF UpdateEnd, Done, Waits, Forwards, p, q

\* i3bar kills a child and waits for its end, which is not far: it has been continued.
LEMMA KillDone ==
  ASSUME NEW r, Sound(r), r.pc \notin {"writing", "killed"}
  PROVE  /\ Done(r, [KillAndWait(r, "status") EXCEPT !.pc = "killStatus"])
         /\ Done(r, [KillAndWait(r, "ws") EXCEPT !.pc = "killWs"])
<1>0. "status" \in Kids /\ "ws" \in Kids
  BY DEF Kids
<1>1. ASSUME NEW k \in Kids, NEW v
      PROVE  LET q == [KillAndWait(r, k) EXCEPT !.pc = v]
             IN  Sound(q) /\ q.pc = v /\ q.proc[k].state # "stops" /\ Further(r.toI3, q.toI3)
  <2> DEFINE p == KillAndWait(r, k)
             q == [p EXCEPT !.pc = v]
  <2>1. Harmless(r, p) /\ p.proc[k].state # "stops"
    BY KillAndWaitHarmless
  <2> HIDE DEF p
  <2>2. Sound(p) /\ p.pc \notin {"writing", "killed"} /\ p.toI3 = r.toI3
    BY <2>1 DEF Harmless
  <2>3. Sound(q) /\ q.pc = v /\ q.proc = p.proc /\ Further(p.toI3, q.toI3)
    BY <2>2, PcSound
  <2> HIDE DEF q
  <2> QED BY <2>1, <2>2, <2>3 DEF p, q
<1> QED BY <1>0, <1>1 DEF Done, Waits

LEMMA UpdateWsDone ==
  ASSUME NEW r, Sound(r), r.pc \notin {"writing", "killed"}, NEW restart
  PROVE  Done(r, UpdateWs(r, restart))
<1> DEFINE clean == Cleanup(r, "status")
           q == IF restart THEN StartChild(clean, r.config.cmd) ELSE r
           free == FreeWorkspaces(q)
<1>1. /\ Sound(clean) /\ Aside(r, clean)
      /\ ~clean.child["status"].stop /\ ~clean.child["status"].clickInit
  BY CleanupSound DEF Kids
<1> HIDE DEF clean
<1>2. Sound(q) /\ Aside(r, q)
  BY <1>1, StartChildSound DEF Aside
<1> HIDE DEF q
<1>3. Harmless(q, free)
  BY <1>2, OtherFieldsSame, SameIsHarmless
<1> HIDE DEF free
<1>4. /\ Sound(free) /\ Aside(r, free) /\ free.pc \notin {"writing", "killed"}
      /\ q.pc \notin {"writing", "killed"}
  BY <1>2, <1>3 DEF Harmless, Aside
<1>5. \A p : Aside(r, p) => (\A x : Done(p, x) => Done(r, x))
  BY DEF Aside, Done
<1>6. PICK p, again :
        /\ p \in {q, free}
        /\ UpdateWs(r, restart) \in {[KillAndWait(free, "ws") EXCEPT !.pc = "killWs"], UpdateEnd(p, again)}
  BY SMTT(30) DEF UpdateWs, q, free, clean
<1>7. Done(r, [KillAndWait(free, "ws") EXCEPT !.pc = "killWs"])
  BY <1>4, <1>5, KillDone
<1>8. Done(r, UpdateEnd(p, again))
  BY <1>2, <1>4, <1>5, <1>6, UpdateEndDone
<1> QED BY <1>6, <1>7, <1>8

\* got_bar_config_update() up to where it may wait.
LEMMA GotBarConfigUpdateDone ==
  ASSUME Sound(s), s.pc = "idle", NEW config
  PROVE  Done(s, GotBarConfigUpdate(config))
<1> DEFINE sent == SendMsg(s, "get_outputs", 0)
           changed == [sent EXCEPT !.old = s.config, !.config = config]
           moded == IF s.config.mode # config.mode THEN ReconfigWindows(changed, TRUE) ELSE changed
           r == InitXcbLate(moded)
<1>1. Forwards(s, sent)
  BY SendMsgHandled DEF Requests
<1> HIDE DEF sent
<1>2. Forwards(sent, changed)
  <2>1. Same(sent, changed)
    BY <1>1 DEF Forwards, Same, Sound, Shaped
  <2> QED BY <1>1, <2>1, SameIsHarmless, HarmlessHandled DEF Forwards
<1> HIDE DEF changed
<1>3. Forwards(changed, moded)
  BY <1>2, ReconfigWindowsHarmless, Self, HarmlessHandled DEF Forwards
<1> HIDE DEF moded
<1>4. Forwards(moded, r)
  BY <1>3, OtherFieldsSame, SameIsHarmless, HarmlessHandled DEF Forwards
<1> HIDE DEF r
<1>5. Forwards(s, r)
  BY <1>1, <1>2, <1>3, <1>4, HandledTwice
<1>6. Sound(r) /\ r.pc = "idle"
  BY <1>5 DEF Forwards
<1>7. PICK again : GotBarConfigUpdate(config) \in
                     {[KillAndWait(r, "status") EXCEPT !.pc = "killStatus"], UpdateWs(r, again)}
  BY DEF GotBarConfigUpdate, r, moded, changed, sent
<1>8. Done(r, GotBarConfigUpdate(config))
  BY <1>6, <1>7, KillDone, UpdateWsDone
<1> QED BY <1>5, <1>8, HandledDone

\* got_bar_config() starts the children; it is called once, before there are any.
LEMMA GotBarConfigDone ==
  ASSUME Sound(s), s.pc = "idle", Unborn(s), NEW config
  PROVE  Done(s, GotBarConfig(config))
<1> DEFINE sent == SendMsg(s, "get_outputs", 0)
           asked == [sent EXCEPT !.config = config]
           subscribed == SubscribeEvents(asked)
           workspaces == AskWorkspaces(subscribed)
           late == InitXcbLate(workspaces)
           status == StartChild(late, config.cmd)
           q == StartWsChild(status, config.wscmd)
<1>1. Forwards(s, sent) /\ sent.child = s.child
  BY SendMsgHandled DEF Requests
<1> HIDE DEF sent
<1>2. Forwards(sent, asked) /\ asked.child = s.child
  <2>1. Same(sent, asked)
    BY <1>1 DEF Forwards, Same, Sound, Shaped
  <2> QED BY <1>1, <2>1, SameIsHarmless, HarmlessHandled DEF Forwards, Same
<1> HIDE DEF asked
<1>3. Forwards(asked, subscribed) /\ subscribed.child = s.child
  BY <1>2, SendMsgHandled DEF SubscribeEvents, Requests, Forwards
<1> HIDE DEF subscribed
<1>4. Forwards(subscribed, workspaces) /\ workspaces.child = s.child
  <2>1. Forwards(subscribed, subscribed)
    BY <1>3, Self, HarmlessHandled DEF Forwards
  <2> QED BY <1>3, <2>1, SendMsgHandled DEF AskWorkspaces, Requests, Forwards
<1> HIDE DEF workspaces
<1>5. Forwards(workspaces, late) /\ late.child = s.child
  BY <1>4, OtherFieldsSame, SameIsHarmless, HarmlessHandled DEF Forwards, Same
<1> HIDE DEF late
<1>6. Forwards(s, late)
  BY <1>1, <1>2, <1>3, <1>4, <1>5, HandledTwice
<1>7. Sound(status) /\ Aside(late, status)
  <2>1. ~late.child["status"].stop /\ ~late.child["status"].clickInit
    BY <1>5 DEF Unborn, Kids
  <2> QED BY <1>5, <2>1, StartChildSound DEF Forwards
<1> HIDE DEF status
<1>8. Sound(q) /\ Aside(status, q)
  BY <1>7, StartWsChildSound
<1> HIDE DEF q
<1>9. Done(s, q)
  BY <1>6, <1>7, <1>8 DEF Forwards, Aside, Done, Waits
<1>10. GotBarConfig(config) = q
  BY DEF GotBarConfig, q, status, late, workspaces, subscribed, asked, sent
<1> QED BY <1>9, <1>10

Answers == {"outputs", "workspaces", "workspace", "output", "mode", "barconfig"}

\* got_data(): whatever i3 says, after the configuration or with it.
LEMMA GotDataDone ==
  ASSUME Sound(s), GotData,
         \/ Head(i.toBar).type \in Answers
         \/ Head(i.toBar).type = "bar_config" /\ Unborn(s)
  PROVE  Done(s, s')
<1> DEFINE m == Head(i.toBar)
<1>0. s.pc = "idle"
  BY DEF GotData, Idle
<1>1. CASE m.type = "bar_config"
  <2>1. s' = GotBarConfig(m.value)
    BY <1>1 DEF GotData
  <2> QED BY <1>0, <1>1, <2>1, GotBarConfigDone DEF Answers
<1>2. CASE m.type = "barconfig"
  <2>1. s' = GotBarConfigUpdate(m.value)
    BY <1>2 DEF GotData
  <2> QED BY <1>0, <2>1, GotBarConfigUpdateDone
<1>3. CASE m.type \in {"outputs", "workspaces", "mode"}
  <2>1. s' \in {GotOutputReply(m.value), GotWorkspaceReply(m.value), GotModeEvent(m.value)}
    BY <1>3 DEF GotData
  <2> QED BY <1>0, <2>1, RepliesHandled, IdleDone
<1>4. CASE m.type \in {"workspace", "output"}
  <2>1. s' \in {SendMsg(s, "get_workspaces", 0), SendMsg(s, "get_outputs", 0)}
    BY <1>4 DEF GotData
  <2> QED BY <1>0, <2>1, SendMsgHandled, IdleDone DEF Requests
<1> QED BY <1>1, <1>2, <1>3, <1>4 DEF Answers

LEMMA WaitedDone ==
  ASSUME Sound(s), Waited
  PROVE  Done(s, s')
<1>1. CASE s.pc = "killStatus"
  <2>1. s' = UpdateWs(s, TRUE)
    BY <1>1 DEF Waited
  <2> QED BY <1>1, <2>1, UpdateWsDone
<1>2. CASE s.pc = "killWs"
  <2>1. s' = UpdateEnd(Cleanup(s, "ws"), TRUE)
    BY <1>2 DEF Waited
  <2>2. Sound(Cleanup(s, "ws")) /\ Aside(s, Cleanup(s, "ws"))
    BY <1>2, CleanupSound DEF Kids
  <2>3. Done(Cleanup(s, "ws"), s')
    BY <1>2, <2>1, <2>2, UpdateEndDone DEF Aside
  <2> QED BY <2>2, <2>3 DEF Aside, Done
<1> QED BY <1>1, <1>2 DEF Waited

-----------------------------------------------------------------------------
(* The other steps *)

\* A step that is not about the configuration starts no children and waits for none.
Ordinary(r, q) ==
  /\ Done(r, q)
  /\ Unborn(r) => Unborn(q)
  /\ q.pc \in {"killStatus", "killWs"} => q.pc = r.pc

LEMMA HarmlessOrdinary ==
  ASSUME NEW r, NEW q, Harmless(r, q), r.pc = "idle"
  PROVE  Ordinary(r, q)
<1>1. Done(r, q)
  BY HarmlessHandled, IdleDone
<1> QED BY <1>1 DEF Ordinary, Harmless

LEMMA SameOrdinary ==
  ASSUME NEW r, NEW q, Sound(r), Waits(r), Same(r, q)
  PROVE  Ordinary(r, q)
<1>1. Harmless(r, q)
  BY SameIsHarmless
<1>2. Waits(q)
  BY DEF Same, Waits
<1> QED BY <1>1, <1>2, HarmlessHandled DEF Ordinary, Done, Forwards, Harmless

LEMMA OrdinaryThenSame ==
  ASSUME NEW r, NEW q, NEW p, Ordinary(r, q), Same(q, p)
  PROVE  Ordinary(r, p)
<1>1. Harmless(q, p) /\ Waits(p)
  BY SameIsHarmless DEF Ordinary, Done, Same, Waits
<1> QED BY <1>1, FurtherTwice, HarmlessHandled DEF Ordinary, Done, Forwards, Harmless

\* Nothing but process k, now p.
OnlyProcess(r, q, k, p) ==
  /\ {"child", "proc", "pc", "toI3", "toWrite"} \subseteq DOMAIN q
  /\ q.child = r.child /\ q.proc = [r.proc EXCEPT ![k] = p]
  /\ q.pc = r.pc /\ q.toI3 = r.toI3 /\ q.toWrite = r.toWrite

\* A process goes on by itself: it does not come to life, does not stop, and what it was
\* told stays.
LEMMA ProcessOrdinary ==
  ASSUME NEW r, Sound(r), NEW k \in Kids, NEW p, NEW q, OnlyProcess(r, q, k, p),
         {"state", "in"} \subseteq DOMAIN p, p.in = r.proc[k].in,
         p.state = "stops" => r.proc[k].state = "stops",
         p.state # "none" => r.proc[k].state # "none"
  PROVE  Harmless(r, q) /\ (Waits(r) => Ordinary(r, q))
<1>1. Became(r, q, k, r.child[k], p)
  <2>1. r.child = [r.child EXCEPT ![k] = r.child[k]]
    BY DEF Sound, Shaped
  <2> QED BY <2>1 DEF Became, OnlyProcess
<1>2. Fits(r.child[k], p)
  BY DEF Fits, Sound, Shaped, Kept
<1>3. k = "status" /\ r.child[k].version = "unknown" => ~r.child[k].stop
  BY DEF Sound, Kept
<1>4. /\ Shaped(q) /\ Kept(q) /\ q.proc[k] = p
      /\ \A j \in Kids : j # k => q.proc[j] = r.proc[j]
  BY <1>1, <1>2, <1>3, OneChild
<1>5. Streams(q)
  <2>1. q.proc["status"].in = r.proc["status"].in
    BY <1>4 DEF Kids
  <2> QED BY <2>1, SameStream DEF Sound, OnlyProcess
<1>6. Harmless(r, q)
  BY <1>4, <1>5 DEF Harmless, Sound, Unborn, OnlyProcess
<1>7. Waits(r) => Waits(q)
  BY <1>4 DEF Waits, Kids, OnlyProcess
<1> QED BY <1>6, <1>7, HarmlessHandled DEF Ordinary, Done, Forwards, Harmless

\* sig_child_cb()
LEMMA ChildSigOrdinary ==
  ASSUME Sound(s), ChildSig
  PROVE  Ordinary(s, s')
<1>1. PICK k \in Kids, r \in {ErrorButtons(s), s} : s' = DrawBars(Cleanup(r, k), FALSE)
  BY DEF ChildSig
<1>2. s.pc = "idle"
  BY DEF ChildSig, Idle
<1>3. Harmless(s, r)
  BY <1>1, OtherFieldsSame, SameIsHarmless, Self
<1> DEFINE q == Cleanup(r, k)
<1>4. Sound(q) /\ Aside(r, q) /\ (Unborn(r) => Unborn(q))
  <2>1. Sound(q) /\ Aside(r, q)
    BY <1>2, <1>3, CleanupSound DEF Harmless
  <2>2. q.child = [r.child EXCEPT ![k] = NoChild]
    BY <1>3 DEF Cleanup, Harmless, Sound, Shaped
  <2> HIDE DEF q
  <2>3. Unborn(r) => Unborn(q)
    BY <1>3, <2>2 DEF Unborn, NoChild, Harmless, Sound, Shaped
  <2> QED BY <2>1, <2>3
<1> HIDE DEF q
<1>5. Harmless(s, q)
  BY <1>3, <1>4 DEF Harmless, Aside
<1>6. Harmless(q, DrawBars(q, FALSE))
  BY <1>4, DrawBarsHarmless
<1> QED BY <1>1, <1>2, <1>5, <1>6, HarmlessTwice, HarmlessOrdinary DEF q

LEMMA ReadJsonInputHarmless ==
  ASSUME NEW r, Sound(r), NEW urgent
  PROVE  Harmless(r, ReadJsonInput(r, urgent))
<1>1. PICK v : ReadJsonInput(r, urgent) = DrawBars([r EXCEPT !.hasUrgent = v], v)
  BY DEF ReadJsonInput
<1>2. Harmless(r, [r EXCEPT !.hasUrgent = v])
  <2>1. Same(r, [r EXCEPT !.hasUrgent = v])
    BY DEF Same, Sound, Shaped
  <2> QED BY <2>1, SameIsHarmless
<1>3. Harmless([r EXCEPT !.hasUrgent = v], DrawBars([r EXCEPT !.hasUrgent = v], v))
  BY <1>2, DrawBarsHarmless DEF Harmless
<1> QED BY <1>1, <1>2, <1>3, HarmlessTwice

\* stdin_io_first_line_cb(): the first line comes while the version is not known.
LEMMA FirstLineHandled ==
  ASSUME NEW r, Sound(r), NEW kind, NEW urgent, r.child["status"].version = "unknown"
  PROVE  Sound(FirstLine(r, kind, urgent)) /\ Aside(r, FirstLine(r, kind, urgent))
<1> DEFINE q == ParseJsonHeader(r, kind)
<1>1. Sound(q) /\ Aside(r, q)
  BY HeaderSound
<1> HIDE DEF q
<1>2. Harmless(q, q) /\ Harmless(q, StopChildren(q))
  BY <1>1, Self, StopChildrenHarmless
<1>3. \A p : Harmless(q, p) => Harmless(q, ReadJsonInput(p, urgent))
  BY HarmlessTwice, ReadJsonInputHarmless DEF Harmless
<1>4. FirstLine(r, kind, urgent) \in {q, ReadJsonInput(q, urgent), ReadJsonInput(StopChildren(q), urgent)}
  BY DEF FirstLine, q
<1> QED BY <1>1, <1>2, <1>3, <1>4 DEF Harmless, Aside

\* A line of a child's output.
LEMMA ChildOutputOrdinary ==
  ASSUME Sound(s), Waits(s), ChildOutput
  PROVE  Ordinary(s, s')
<1>1. PICK k \in Kids :
        /\ s.pc = "idle" /\ s.child[k].alive
        /\ LET line == Head(s.proc[k].lines)
               r == [s EXCEPT !.proc[k].lines = Tail(@)]
           IN  s' = IF k = "ws" THEN WsLine(r, line) ELSE StatusLine(r, line)
  BY DEF ChildOutput, Idle
<1> DEFINE line == Head(s.proc[k].lines)
           p == [s.proc[k] EXCEPT !.lines = Tail(@)]
           r == [s EXCEPT !.proc[k].lines = Tail(@)]
<1>2. Harmless(s, r) /\ r.child = s.child
  <2>1. OnlyProcess(s, r, k, p)
    BY DEF OnlyProcess, Sound, Shaped
  <2>2. {"state", "in"} \subseteq DOMAIN p /\ p.in = s.proc[k].in /\ p.state = s.proc[k].state
    BY DEF Sound, Shaped
  <2> HIDE DEF p, r
  <2> QED BY <2>1, <2>2, ProcessOrdinary DEF OnlyProcess
<1>3. s' = IF k = "ws" THEN WsLine(r, line) ELSE StatusLine(r, line)
  BY <1>1
<1> HIDE DEF r, line
<1>4. ~Unborn(s) /\ Sound(r) /\ r.pc = "idle"
  BY <1>1, <1>2 DEF Unborn, Harmless
<1>5. Sound(s') /\ Aside(r, s')
  <2>1. CASE k = "ws"
    <3>1. PICK q : q = [r EXCEPT !.lastWs = <<line>>] /\ s' = DrawBars(ParseWorkspaces(q, line), FALSE)
      BY <1>3, <2>1 DEF WsLine
    <3>2. Same(r, q)
      BY <1>4, <3>1 DEF Same, Sound, Shaped
    <3>3. Harmless(r, q)
      BY <1>4, <3>2, SameIsHarmless
    <3>4. Harmless(q, ParseWorkspaces(q, line))
      BY <3>3, OtherFieldsSame, SameIsHarmless DEF Harmless
    <3>5. Harmless(ParseWorkspaces(q, line), s')
      BY <3>1, <3>4, DrawBarsHarmless DEF Harmless
    <3> QED BY <3>3, <3>4, <3>5 DEF Harmless, Aside
  <2>2. CASE k # "ws"
    <3>1. s' = StatusLine(r, line)
      BY <1>3, <2>2
    <3>2. CASE r.child["status"].version = "unknown"
      <4>1. s' = FirstLine(r, r.proc["status"].kind, line)
        BY <3>1, <3>2 DEF StatusLine
      <4> QED BY <1>4, <3>2, <4>1, FirstLineHandled
    <3>3. CASE r.child["status"].version # "unknown"
      <4>1. s' \in {ReadJsonInput(r, line), DrawBars(r, FALSE)}
        BY <3>1, <3>3 DEF StatusLine
      <4>2. Harmless(r, ReadJsonInput(r, line)) /\ Harmless(r, DrawBars(r, FALSE))
        BY <1>4, ReadJsonInputHarmless, DrawBarsHarmless
      <4>3. Harmless(r, s')
        BY <4>1, <4>2
      <4> QED BY <4>3 DEF Harmless, Aside
    <3> QED BY <3>2, <3>3
  <2> QED BY <2>1, <2>2
<1>6. Further(s.toI3, s'.toI3)
  <2>1. Harmless(s', s') /\ s'.toI3 = s.toI3
    BY <1>2, <1>5, Self DEF Harmless, Aside
  <2> QED BY <2>1, HarmlessHandled DEF Forwards
<1> QED BY <1>2, <1>4, <1>5, <1>6 DEF Ordinary, Done, Waits, Harmless, Aside

\* The processes go on whatever i3bar does.
LEMMA ProcessesOrdinary ==
  ASSUME Sound(s), Waits(s), ProcStarts \/ ProcWrites \/ ProcReads \/ ProcDies
  PROVE  Ordinary(s, s')
<1>1. ASSUME NEW k \in Kids, NEW p,
             s' = [s EXCEPT !.proc = [s.proc EXCEPT ![k] = p]],
             {"state", "in"} \subseteq DOMAIN p, p.in = s.proc[k].in,
             p.state = "stops" => s.proc[k].state = "stops",
             p.state # "none" => s.proc[k].state # "none"
      PROVE  Ordinary(s, s')
  <2>1. OnlyProcess(s, s', k, p)
    BY <1>1 DEF OnlyProcess, Sound, Shaped
  <2> QED BY <1>1, <2>1, ProcessOrdinary
<1>2. CASE ProcStarts
  <2>1. PICK k \in Kids : s.proc[k].state = "young" /\ s' = [s EXCEPT !.proc[k].state = "runs"]
    BY <1>2 DEF ProcStarts
  <2> DEFINE p == [s.proc[k] EXCEPT !.state = "runs"]
  <2>2. s' = [s EXCEPT !.proc = [s.proc EXCEPT ![k] = p]]
    BY <2>1 DEF Sound, Shaped
  <2>3. {"state", "in"} \subseteq DOMAIN p /\ p.in = s.proc[k].in /\ p.state = "runs"
    BY DEF Sound, Shaped
  <2> HIDE DEF p
  <2> QED BY <1>1, <2>1, <2>2, <2>3
<1>3. CASE ProcDies
  <2>1. PICK k \in Kids : s.proc[k].state \in {"young", "runs"} /\ s' = [s EXCEPT !.proc[k].state = "dead"]
    BY <1>3 DEF ProcDies
  <2> DEFINE p == [s.proc[k] EXCEPT !.state = "dead"]
  <2>2. s' = [s EXCEPT !.proc = [s.proc EXCEPT ![k] = p]]
    BY <2>1 DEF Sound, Shaped
  <2>3. {"state", "in"} \subseteq DOMAIN p /\ p.in = s.proc[k].in /\ p.state = "dead"
    BY DEF Sound, Shaped
  <2> HIDE DEF p
  <2> QED BY <1>1, <2>1, <2>2, <2>3
<1>4. CASE ProcReads
  <2> DEFINE p == [s.proc["status"] EXCEPT !.read = @ + 1]
  <2>1. s' = [s EXCEPT !.proc = [s.proc EXCEPT !["status"] = p]]
    BY <1>4 DEF ProcReads, Sound, Shaped
  <2>2. "status" \in Kids
    BY DEF Kids
  <2>3. /\ {"state", "in"} \subseteq DOMAIN p /\ p.in = s.proc["status"].in
        /\ p.state = s.proc["status"].state
    BY <2>2 DEF Sound, Shaped
  <2> HIDE DEF p
  <2> QED BY <1>1, <2>1, <2>2, <2>3
<1>5. CASE ProcWrites
  <2> DEFINE Written(k, lines, kind) ==
        {[s EXCEPT !.proc[k].lines = lines], [s EXCEPT !.proc[k].lines = lines, !.proc[k].kind = kind]}
  <2>1. PICK k \in Kids : \E lines, kind : s' \in Written(k, lines, kind)
    <3>1. CASE s' = [s EXCEPT !.proc["ws"].lines = <<Snapshot(i)>>]
      <4>1. "ws" \in Kids
        BY DEF Kids
      <4>2. s' \in Written("ws", <<Snapshot(i)>>, "json")
        BY <3>1
      <4> HIDE DEF Written
      <4> QED BY <4>1, <4>2
    <3>2. CASE \E kind \in {"json", "busy", "flat"} : \E urgent \in {FALSE, "urgent" \in left.ops} :
                 s' = [s EXCEPT !.proc["status"].lines = <<urgent>>, !.proc["status"].kind = kind]
      <4>1. "status" \in Kids
        BY DEF Kids
      <4>2. \E lines, kind : s' \in Written("status", lines, kind)
        BY <3>2
      <4> HIDE DEF Written
      <4> QED BY <4>1, <4>2
    <3> QED BY <1>5, <3>1, <3>2 DEF ProcWrites
  <2>0. PICK lines, kind : s' \in Written(k, lines, kind)
    BY <2>1
  <2> DEFINE p == [s.proc[k] EXCEPT !.lines = lines]
             q == [p EXCEPT !.kind = kind]
  <2>2. \/ s' = [s EXCEPT !.proc = [s.proc EXCEPT ![k] = p]]
        \/ s' = [s EXCEPT !.proc = [s.proc EXCEPT ![k] = q]]
    BY <2>0 DEF Sound, Shaped
  <2>3. /\ {"state", "in"} \subseteq DOMAIN p /\ p.in = s.proc[k].in /\ p.state = s.proc[k].state
        /\ {"state", "in"} \subseteq DOMAIN q /\ q.in = s.proc[k].in /\ q.state = s.proc[k].state
    BY DEF Sound, Shaped
  <2> HIDE DEF p, q
  <2> QED BY <1>1, <2>2, <2>3
<1> QED BY <1>2, <1>3, <1>4, <1>5

\* kill_children_at_exit()
LEMMA ExitOrdinary ==
  ASSUME Sound(s), Exit
  PROVE  Ordinary(s, s')
<1> DEFINE cont == ContChildren(s)
           ended(q, k) == IF q.child[k].alive THEN Killpg(q, k, "SIGTERM") ELSE q
           status == ended(cont, "status")
           ws == ended(status, "ws")
<1>1. /\ Harmless(s, cont) /\ \A k \in Kids : cont.proc[k].state # "stops"
  BY ContChildrenHarmless
<1>2. ASSUME NEW q, Harmless(s, q), \A j \in Kids : q.proc[j].state # "stops", NEW k \in Kids
      PROVE  Harmless(s, ended(q, k)) /\ \A j \in Kids : ended(q, k).proc[j].state # "stops"
  BY <1>2, SigtermHarmless, HarmlessTwice DEF Harmless
<1> HIDE DEF cont, ended
<1>3. Harmless(s, status) /\ \A j \in Kids : status.proc[j].state # "stops"
  BY <1>1, <1>2 DEF Kids
<1> HIDE DEF status
<1>4. Harmless(s, ws) /\ \A j \in Kids : ws.proc[j].state # "stops"
  BY <1>2, <1>3 DEF Kids
<1> HIDE DEF ws
<1>5. s.pc = "idle" /\ s' = [ws EXCEPT !.pc = "exited"]
  BY DEF Exit, Idle, AtExit, ws, status, ended, cont
<1>6. /\ Sound(s') /\ s'.pc = "exited" /\ s'.proc = ws.proc /\ s'.child = ws.child
      /\ Further(ws.toI3, s'.toI3)
  BY <1>4, <1>5, PcSound DEF Harmless
<1> QED BY <1>4, <1>6 DEF Ordinary, Done, Waits, Harmless, Unborn

\* The list is opened, and then a click goes behind what was written.
LEMMA ListGoesOn ==
  /\ Append(<< >>, "open") = <<"open">>
  /\ Head(<<"open", "click">>) = "open" /\ Tail(<<"open", "click">>) = <<"click">>
  /\ Head(<<"click">>) = "click" /\ Tail(<<"click">>) = << >>
  /\ \A in \in Seq({"open", "click"}) :
       in # << >> /\ (\A n \in DOMAIN in : in[n] = "open" <=> n = 1)
         => LET q == Append(in, "click")
            IN  /\ q \in Seq({"open", "click"}) /\ q # << >>
                /\ \A n \in DOMAIN q : q[n] = "open" <=> n = 1
<1>1. Append(<< >>, "open") = <<"open">>
  OBVIOUS
<1>2. Head(<<"open", "click">>) = "open" /\ Tail(<<"open", "click">>) = <<"click">>
  OBVIOUS
<1>3. Head(<<"click">>) = "click" /\ Tail(<<"click">>) = << >>
  OBVIOUS
<1>4. ASSUME NEW in \in Seq({"open", "click"}), in # << >>,
             \A n \in DOMAIN in : in[n] = "open" <=> n = 1
      PROVE  LET q == Append(in, "click")
             IN  /\ q \in Seq({"open", "click"}) /\ q # << >>
                 /\ \A n \in DOMAIN q : q[n] = "open" <=> n = 1
  <2>1. Len(in) \in Nat \ {0} /\ DOMAIN in = 1 .. Len(in)
    BY <1>4
  <2>2. /\ Append(in, "click") \in Seq({"open", "click"}) /\ Len(Append(in, "click")) = Len(in) + 1
        /\ \A n \in 1 .. Len(in) : Append(in, "click")[n] = in[n]
        /\ Append(in, "click")[Len(in) + 1] = "click"
    BY AppendProperties
  <2>3. DOMAIN Append(in, "click") = 1 .. Len(in) + 1
    BY <2>1, <2>2
  <2> QED BY <1>4, <2>1, <2>2, <2>3
<1> QED BY <1>1, <1>2, <1>3, <1>4

\* writeall(): what is written is what the list of clicks goes on with.
LEMMA WriteOutputOrdinary ==
  ASSUME Sound(s), WriteOutput
  PROVE  Ordinary(s, s')
<1> DEFINE in == s.proc["status"].in
<1>0. Further(s.toI3, s.toI3) /\ "status" \in Kids /\ s.pc = "writing"
  BY Self, HarmlessHandled DEF Forwards, Kids, WriteOutput
<1>1. CASE s' = [s EXCEPT !.pc = "killed"]
  <2>1. /\ s'.child = s.child /\ s'.proc = s.proc /\ s'.toWrite = s.toWrite /\ s'.toI3 = s.toI3
        /\ s'.pc = "killed" /\ {"child", "proc", "pc", "toI3", "toWrite"} \subseteq DOMAIN s'
    BY <1>1 DEF Sound, Shaped
  <2>2. Sound(s')
    BY <2>1 DEF Sound, Shaped, Kept, Streams
  <2> QED BY <1>0, <2>1, <2>2 DEF Ordinary, Done, Waits, Unborn
<1>2. CASE s.toWrite = << >> /\ s' = [s EXCEPT !.pc = "idle"]
  <2>1. /\ s'.child = s.child /\ s'.proc = s.proc /\ s'.toWrite = << >> /\ s'.toI3 = s.toI3
        /\ s'.pc = "idle" /\ {"child", "proc", "pc", "toI3", "toWrite"} \subseteq DOMAIN s'
    BY <1>2 DEF Sound, Shaped
  <2>2. Sound(s')
    BY <1>2, <2>1 DEF Sound, Shaped, Kept, Streams
  <2> QED BY <1>0, <2>1, <2>2 DEF Ordinary, Done, Waits, Unborn
<1>3. CASE /\ s.toWrite # << >>
           /\ s' = [s EXCEPT !.proc["status"].in = Append(@, Head(s.toWrite)), !.toWrite = Tail(@)]
  <2> DEFINE q == [s.proc["status"] EXCEPT !.in = Append(@, Head(s.toWrite))]
  <2>1. /\ s'.child = s.child /\ s'.proc = [s.proc EXCEPT !["status"] = q]
        /\ s'.toWrite = Tail(s.toWrite) /\ s'.toI3 = s.toI3
        /\ s'.pc = s.pc /\ {"child", "proc", "pc", "toI3", "toWrite"} \subseteq DOMAIN s'
    BY <1>3 DEF Sound, Shaped
  <2>2. /\ {"state", "in"} \subseteq DOMAIN q /\ q.state = s.proc["status"].state
        /\ q.in = Append(in, Head(s.toWrite))
    BY <1>0 DEF Sound, Shaped
  <2>3. Shaped(s') /\ Kept(s') /\ s'.proc["status"] = q
    <3>1. Became(s, s', "status", s.child["status"], q)
      <4>1. s.child = [s.child EXCEPT !["status"] = s.child["status"]]
        BY DEF Sound, Shaped
      <4> HIDE DEF q
      <4> QED BY <2>1, <4>1 DEF Became
    <3> HIDE DEF q
    <3>2. Fits(s.child["status"], q)
      BY <1>0, <2>2 DEF Fits, Sound, Shaped, Kept
    <3> QED BY <1>0, <3>1, <3>2, OneChild DEF Sound, Kept
  <2> HIDE DEF q
  <2>4. in \in Seq({"open", "click"}) /\ s.child["status"].clickInit
    BY <1>3 DEF Sound, Streams
  <2>5. ASSUME in = << >> PROVE Streams(s')
    <3>1. s.toWrite = <<"open", "click">>
      BY <2>4, <2>5 DEF Sound, Streams
    <3>2. q.in = <<"open">> /\ Tail(s.toWrite) = <<"click">>
      BY <2>2, <2>5, <3>1, ListGoesOn
    <3>3. /\ q.in \in Seq({"open", "click"}) /\ q.in # << >>
          /\ \A n \in DOMAIN q.in : q.in[n] = "open" <=> n = 1
      BY <3>2
    <3>4. /\ s'.proc["status"].in = q.in /\ s'.child["status"].clickInit
          /\ s'.pc = "writing" /\ s'.toWrite = <<"click">>
      BY <1>0, <2>1, <2>3, <2>4, <3>2
    <3> QED BY <3>3, <3>4 DEF Streams
  <2>6. ASSUME in # << >> PROVE Streams(s')
    <3>1. s.toWrite = <<"click">>
      BY <1>3, <2>4, <2>6 DEF Sound, Streams
    <3>2. q.in = Append(in, "click") /\ Tail(s.toWrite) = << >>
      BY <2>2, <3>1, ListGoesOn
    <3>3. /\ q.in \in Seq({"open", "click"}) /\ q.in # << >>
          /\ \A n \in DOMAIN q.in : q.in[n] = "open" <=> n = 1
      <4>1. \A n \in DOMAIN in : in[n] = "open" <=> n = 1
        BY DEF Sound, Streams
      <4> QED BY <2>4, <2>6, <3>2, <4>1, ListGoesOn
    <3>4. /\ s'.proc["status"].in = q.in /\ s'.child["status"].clickInit
          /\ s'.pc = "writing" /\ s'.toWrite = << >>
      BY <1>0, <2>1, <2>3, <2>4, <3>2
    <3> QED BY <3>3, <3>4 DEF Streams
  <2>7. Streams(s')
    BY <2>5, <2>6
  <2> QED BY <1>0, <2>1, <2>3, <2>7 DEF Ordinary, Done, Waits, Sound, Unborn
<1> QED BY <1>1, <1>2, <1>3 DEF WriteOutput

-----------------------------------------------------------------------------
(* X events *)

\* The user and the clients of the tray do nothing to i3bar but through its events.
LEMMA XServerOrdinary ==
  ASSUME Sound(s), Waits(s), Modifier \/ Fullscreen \/ Click \/ IconHears \/ IconChanges
  PROVE  Ordinary(s, s')
<1>1. ASSUME NEW r, Same(s, r), NEW e
      PROVE  Same(s, r) /\ Same(s, Emit(r, e))
  BY <1>1, EmitSame, SameIsHarmless DEF Same, Harmless
<1>2. CASE Modifier
  <2>1. PICK r : r = [s EXCEPT !.x.mod = ~@] /\ s' \in {r, Emit(r, Event("xkb", NoOutput, r.x.mod))}
    BY <1>2 DEF Modifier
  <2>2. Same(s, r)
    BY <2>1 DEF Same, Sound, Shaped
  <2> QED BY <1>1, <2>1, <2>2, SameOrdinary
<1>3. CASE Fullscreen
  <2>1. PICK o, r : /\ r = [s EXCEPT !.x.covered = (@ \ {o}) \cup ({o} \ @)]
                    /\ s' \in {r, Emit(r, Event("visibility", o, ~Obscured(r, o)))}
    BY <1>3 DEF Fullscreen
  <2>2. Same(s, r)
    BY <2>1 DEF Same, Sound, Shaped
  <2> QED BY <1>1, <2>1, <2>2, SameOrdinary
<1>4. CASE Click
  <2>1. PICK o, where : s' = Emit(s, Event("button", o, where))
    BY <1>4 DEF Click
  <2> QED BY <2>1, Self, EmitSame, SameOrdinary
<1>5. CASE IconHears
  <2>1. PICK t, r :
          /\ t \in Icons
          /\ r = [s EXCEPT !.icon[t].inbox = Tail(@), !.icon[t].aware = (Head(s.icon[t].inbox) = "manager")]
          /\ s' \in {r, Emit(r, Event("dock", t, TRUE))}
    BY <1>5 DEF IconHears
  <2>2. Same(s, r)
    BY <2>1 DEF Same, Sound, Shaped
  <2> QED BY <1>1, <2>1, <2>2, SameOrdinary
<1>6. CASE IconChanges
  <2>1. PICK t \in Icons :
          s' \in {Emit([s EXCEPT !.icon[t].wants = ~@], Event("property", t, TRUE)),
                  Emit([s EXCEPT !.icon[t].alive = FALSE, !.icon[t].inbox = << >>,
                                 !.icon[t].parent = NoOutput, !.icon[t].mapped = FALSE],
                       Event("destroy", t, TRUE))}
    BY <1>6 DEF IconChanges
  <2>2. /\ Same(s, [s EXCEPT !.icon[t].wants = ~@])
        /\ Same(s, [s EXCEPT !.icon[t].alive = FALSE, !.icon[t].inbox = << >>,
                             !.icon[t].parent = NoOutput, !.icon[t].mapped = FALSE])
    BY DEF Same, Sound, Shaped
  <2> QED BY <1>1, <2>1, <2>2, SameOrdinary
<1> QED BY <1>2, <1>3, <1>4, <1>5, <1>6

\* The handlers of the modifier, of visibility and of the tray leave children and requests in
\* order.
LEMMA XHandlersHarmless ==
  ASSUME Sound(s), NEW u, NEW v
  PROVE  /\ Harmless(s, XkbState(u)) /\ Harmless(s, HandleVisibilityNotify(u, v))
         /\ Harmless(s, HandleClientMessage(s, u)) /\ Harmless(s, HandleDestroyNotify(s, u))
         /\ Harmless(s, HandleMapNotify(s, u, v)) /\ Harmless(s, HandlePropertyNotify(s, u))
<1>1. Harmless(s, XkbState(u))
  <2>1. PICK r, q : /\ r = [s EXCEPT !.modPressed = u] /\ q = [r EXCEPT !.activated = FALSE]
                    /\ XkbState(u) \in {s, r, UnhideBars(q), HideBars(r)}
    BY DEF XkbState
  <2>2. Harmless(s, r)
    <3>1. Same(s, r)
      BY <2>1 DEF Same, Sound, Shaped
    <3> QED BY <3>1, SameIsHarmless
  <2>3. Harmless(s, q)
    <3>1. Same(s, q)
      BY <2>1 DEF Same, Sound, Shaped
    <3> QED BY <3>1, SameIsHarmless
  <2>4. Harmless(q, UnhideBars(q)) /\ Harmless(r, HideBars(r))
    BY <2>2, <2>3, UnhideBarsHarmless, HideBarsHarmless DEF Harmless
  <2> QED BY <2>1, <2>2, <2>3, <2>4, Self, HarmlessTwice
<1>2. Harmless(s, HandleVisibilityNotify(u, v))
  <2>1. PICK r : /\ r \in {s, [s EXCEPT !.out[u].visible = v]}
                 /\ HandleVisibilityNotify(u, v) \in {ContChildren(r), StopChildren(r)}
    BY DEF HandleVisibilityNotify
  <2>2. Harmless(s, [s EXCEPT !.out[u].visible = v])
    <3>1. Same(s, [s EXCEPT !.out[u].visible = v])
      BY DEF Same, Sound, Shaped
    <3> QED BY <3>1, SameIsHarmless
  <2>3. Harmless(s, r)
    BY <2>1, <2>2, Self
  <2>4. Harmless(r, ContChildren(r)) /\ Harmless(r, StopChildren(r))
    BY <2>3, ContChildrenHarmless, StopChildrenHarmless DEF Harmless
  <2> QED BY <2>1, <2>3, <2>4, HarmlessTwice
<1>3. ASSUME NEW r, Same(s, r)
      PROVE  Harmless(s, DrawBars(r, FALSE)) /\ Harmless(s, DrawBars(MapIcon(r, u), FALSE))
  <2>1. Harmless(s, r)
    BY <1>3, SameIsHarmless
  <2>2. Harmless(s, MapIcon(r, u))
    BY <2>1, IconSame, SameIsHarmless, HarmlessTwice DEF Harmless
  <2>3. Harmless(r, DrawBars(r, FALSE)) /\ Harmless(MapIcon(r, u), DrawBars(MapIcon(r, u), FALSE))
    BY <2>1, <2>2, DrawBarsHarmless DEF Harmless
  <2> QED BY <2>1, <2>2, <2>3, HarmlessTwice
<1>4. Harmless(s, HandleClientMessage(s, u))
  <2>1. PICK o, r : /\ r = [s EXCEPT !.icon[u].parent = o,
                                     !.out[o].docked = Append(@, [win |-> u, mapped |-> FALSE])]
                    /\ HandleClientMessage(s, u) \in
                         {s, DrawBars(r, FALSE), DrawBars(MapIcon(r, u), FALSE)}
    BY DEF HandleClientMessage
  <2>2. Same(s, r)
    BY <2>1 DEF Same, Sound, Shaped
  <2> QED BY <1>3, <2>1, <2>2, Self
<1>5. Harmless(s, HandleDestroyNotify(s, u))
  <2>1. PICK o, j : HandleDestroyNotify(s, u) \in
                      {s, DrawBars([s EXCEPT !.out[o].docked = RemoveAt(@, j)], FALSE)}
    BY DEF HandleDestroyNotify, WithRecord
  <2>2. Same(s, [s EXCEPT !.out[o].docked = RemoveAt(@, j)])
    BY DEF Same, Sound, Shaped
  <2> QED BY <1>3, <2>1, <2>2, Self
<1>6. Harmless(s, HandleMapNotify(s, u, v))
  <2>1. PICK o, j : HandleMapNotify(s, u, v) \in
                      {s, DrawBars([s EXCEPT !.out[o].docked[j].mapped = v], FALSE)}
    BY DEF HandleMapNotify, WithRecord
  <2>2. Same(s, [s EXCEPT !.out[o].docked[j].mapped = v])
    BY DEF Same, Sound, Shaped
  <2> QED BY <1>3, <2>1, <2>2, Self
<1>7. Harmless(s, HandlePropertyNotify(s, u))
  BY Self, IconSame, SameIsHarmless DEF HandlePropertyNotify
<1> QED BY <1>1, <1>2, <1>4, <1>5, <1>6, <1>7

\* handle_button()
LEMMA HandleButtonOrdinary ==
  ASSUME Sound(s), s.pc = "idle", NEW o, NEW where, NEW r \in HandleButton(o, where)
  PROVE  Ordinary(s, r)
<1>1. PICK w : r \in {s, SendBlockClicked(s), FocusWorkspace(w)}
  BY DEF HandleButton
<1>2. Ordinary(s, s)
  BY Self, HarmlessOrdinary
<1>3. Ordinary(s, SendBlockClicked(s))
  <2>1. /\ Sound(SendBlockClicked(s)) /\ SendBlockClicked(s).toI3 = s.toI3
        /\ SendBlockClicked(s).pc \in {"idle", "writing"}
        /\ Unborn(s) => Unborn(SendBlockClicked(s))
    BY SendBlockClickedSound
  <2>2. Further(s.toI3, s.toI3)
    BY Self, HarmlessHandled DEF Forwards
  <2> QED BY <2>1, <2>2 DEF Ordinary, Done, Waits
<1>4. Ordinary(s, FocusWorkspace(w))
  <2> DEFINE q == SendMsg(s, "focus", w)
  <2>1. Forwards(s, q) /\ q.child = s.child
    BY SendMsgHandled DEF Requests
  <2>2. Done(s, q)
    BY <2>1, IdleDone
  <2> HIDE DEF q
  <2>3. Ordinary(s, q)
    BY <2>1, <2>2 DEF Ordinary, Unborn, Forwards
  <2> QED BY <2>3 DEF FocusWorkspace, q
<1> QED BY <1>1, <1>2, <1>3, <1>4

LEMMA HandleXEventOrdinary ==
  ASSUME Sound(s), HandleXEvent
  PROVE  Ordinary(s, s')
<1> DEFINE e == Head(s.x.queue)
<1>1. s.pc = "idle"
  BY DEF HandleXEvent, Idle
<1>2. PICK r :
        /\ s' = [r EXCEPT !.x.queue = Tail(@)]
        /\ \/ r \in {s, XkbState(e.value), HandleVisibilityNotify(e.of, e.value),
                     HandleClientMessage(s, e.of), HandleDestroyNotify(s, e.of),
                     HandleMapNotify(s, e.of, e.type = "map"), HandlePropertyNotify(s, e.of)}
           \/ r \in HandleButton(e.of, e.value)
  BY DEF HandleXEvent
<1>3. Ordinary(s, r)
  BY <1>1, <1>2, Self, XHandlersHarmless, HarmlessOrdinary, HandleButtonOrdinary
<1>4. Same(r, s')
  BY <1>2, <1>3 DEF Same, Ordinary, Done, Sound, Shaped
<1> QED BY <1>3, <1>4, OrdinaryThenSame

-----------------------------------------------------------------------------
(* i3's side *)

\* What i3 does on its own: it publishes what was subscribed to, and nothing else.
Published(j, q) ==
  /\ {"toBar", "subs", "at"} \subseteq DOMAIN q /\ q.subs = j.subs
  /\ \/ q.toBar = j.toBar
     \/ j.subs # {} /\ \E type \in Answers : \E value : q.toBar = Append(j.toBar, Msg(type, value))

LEMMA PublishPublished ==
  ASSUME NEW j, {"toBar", "subs", "at"} \subseteq DOMAIN j, NEW type \in Answers, NEW value
  PROVE  Published(j, Publish(j, type, value)) /\ Publish(j, type, value).at = j.at
<1>1. CASE type \in j.subs
  <2>1. Publish(j, type, value) = [j EXCEPT !.toBar = Append(@, Msg(type, value))]
    BY <1>1 DEF Publish
  <2> QED BY <1>1, <2>1 DEF Published
<1>2. CASE type \notin j.subs
  BY <1>2 DEF Published, Publish
<1> QED BY <1>1, <1>2

LEMMA I3Publishes ==
  ASSUME {"toBar", "subs", "at"} \subseteq DOMAIN i,
         I3Workspaces \/ I3Outputs \/ I3Mode \/ I3BarConfig
  PROVE  Published(i, i') /\ s' = s
<1> SUFFICES Published(i, i')
  BY DEF I3Workspaces, I3Outputs, I3Mode, I3BarConfig
<1>1. ASSUME NEW j, {"toBar", "subs", "at"} \subseteq DOMAIN j, j.toBar = i.toBar, j.subs = i.subs,
             NEW type \in Answers, NEW value, i' = Publish(j, type, value)
      PROVE  Published(i, i')
  BY <1>1, PublishPublished DEF Published
<1>2. \A w : LET j == Focused(i, w)
            IN  {"toBar", "subs", "at"} \subseteq DOMAIN j /\ j.toBar = i.toBar /\ j.subs = i.subs
  BY DEF Focused
<1>3. \A w, o : LET j == Appear(i, w, o)
               IN  {"toBar", "subs", "at"} \subseteq DOMAIN j /\ j.toBar = i.toBar /\ j.subs = i.subs
  BY DEF Focused, Appear
<1>4. "workspace" \in Answers /\ "output" \in Answers /\ "mode" \in Answers /\ "barconfig" \in Answers
  BY DEF Answers
<1>5. CASE I3Workspaces
  <2>1. CASE \E w, o : i' = Publish(Appear(i, w, o), "workspace", 0)
    BY <1>1, <1>3, <1>4, <2>1
  <2>2. CASE \E w : i' = Publish([i EXCEPT !.at[w] = NoOutput, !.urgent = @ \ {w}], "workspace", 0)
    BY <1>1, <1>4, <2>2
  <2>3. CASE \E w : i' = Publish(Focused(i, w), "workspace", 0)
    BY <1>1, <1>2, <1>4, <2>3
  <2>4. CASE \E w : i' = Publish([i EXCEPT !.urgent = (@ \ {w}) \cup ({w} \ @)], "workspace", 0)
    BY <1>1, <1>4, <2>4
  <2> QED BY <1>5, <2>1, <2>2, <2>3, <2>4 DEF I3Workspaces
<1>6. CASE I3Outputs
  <2>1. CASE \E o, w : i' = Publish([i EXCEPT !.act = @ \cup {o}, !.at[w] = o, !.shown[o] = w], "output", 0)
    BY <1>1, <1>4, <2>1
  <2>2. CASE \E o, other : i' = Publish(Unplugged(i, o, other), "output", 0)
    <3>1. PICK o, other : i' = Publish(Unplugged(i, o, other), "output", 0)
      BY <2>2
    <3>2. LET j == Unplugged(i, o, other)
          IN  {"toBar", "subs", "at"} \subseteq DOMAIN j /\ j.toBar = i.toBar /\ j.subs = i.subs
      BY DEF Unplugged
    <3> QED BY <1>1, <1>4, <3>1, <3>2
  <2> QED BY <1>6, <2>1, <2>2 DEF I3Outputs
<1>7. CASE I3Mode
  <2>1. PICK mode : i' = Publish([i EXCEPT !.mode = mode], "mode", mode)
    BY <1>7 DEF I3Mode
  <2> QED BY <1>1, <1>4, <2>1
<1>8. CASE I3BarConfig
  <2>1. PICK c : i' = Publish([i EXCEPT !.config = c], "barconfig", c)
    BY <1>8 DEF I3BarConfig
  <2> QED BY <1>1, <1>4, <2>1
<1> QED BY <1>5, <1>6, <1>7, <1>8

\* No request but one that names a workspace opens any.
LEMMA ServedAt ==
  ASSUME NEW j, {"toBar", "subs", "at"} \subseteq DOMAIN j, NEW m, m.type \in Requests
  PROVE  LET q == Served(j, m)
         IN  /\ {"toBar", "subs", "at"} \subseteq DOMAIN q /\ q.at = j.at
             /\ \/ q.toBar = j.toBar
                \/ \E type \in Answers : \E value : q.toBar = Append(j.toBar, Msg(type, value))
<1> DEFINE q == Served(j, m)
<1>1. ASSUME NEW type \in Answers, NEW value, q = [j EXCEPT !.toBar = Append(@, Msg(type, value))]
      PROVE  /\ {"toBar", "subs", "at"} \subseteq DOMAIN q /\ q.at = j.at
             /\ q.toBar = Append(j.toBar, Msg(type, value))
  BY <1>1
<1>2. CASE m.type = "get_outputs"
  <2>1. q = [j EXCEPT !.toBar = Append(@, Msg("outputs", j.act))]
    BY <1>2 DEF Served
  <2> HIDE DEF q
  <2> QED BY <1>1, <2>1 DEF Answers, q
<1>3. CASE m.type = "get_workspaces"
  <2>1. q = [j EXCEPT !.toBar = Append(@, Msg("workspaces", Snapshot(j)))]
    BY <1>3 DEF Served
  <2> HIDE DEF q
  <2> QED BY <1>1, <2>1 DEF Answers, q
<1>4. CASE m.type = "subscribe"
  <2>1. q = [j EXCEPT !.subs = m.value]
    BY <1>4 DEF Served
  <2> HIDE DEF q
  <2>2. {"toBar", "subs", "at"} \subseteq DOMAIN q /\ q.at = j.at /\ q.toBar = j.toBar
    BY <2>1
  <2> QED BY <2>2 DEF q
<1>5. CASE m.type = "focus"
  <2>1. q \in {Publish(Focused(j, m.value), "workspace", 0), j}
    BY <1>5 DEF Served
  <2> HIDE DEF q
  <2> DEFINE f == Focused(j, m.value)
  <2>2. /\ {"toBar", "subs", "at"} \subseteq DOMAIN f /\ f.toBar = j.toBar /\ f.at = j.at
    BY DEF Focused
  <2> HIDE DEF f
  <2>3. Published(f, Publish(f, "workspace", 0)) /\ Publish(f, "workspace", 0).at = f.at
    BY <2>2, PublishPublished DEF Answers
  <2> QED BY <2>1, <2>2, <2>3 DEF Published, q, f
<1> QED BY <1>2, <1>3, <1>4, <1>5 DEF Requests

-----------------------------------------------------------------------------
(* The invariant *)

OnlyRequests(t) == IsSeq(t) /\ \A n \in 1 .. Len(t) : t[n].type \in Requests
OnlyAnswers(t) == IsSeq(t) /\ \A n \in 1 .. Len(t) : t[n].type \in Answers
Before(r) == Unborn(r) /\ r.pc \notin {"killStatus", "killWs"}

\* The configuration has not been asked for, is on its way, or has been read: it is read once,
\* and until then there are no children. No request names a workspace.
Unasked ==
  /\ Before(s) /\ i.subs = {} /\ i.toBar = << >>
  /\ IsSeq(s.toI3) /\ s.toI3 # << >> /\ s.toI3[1].type = "get_bar_config"
  /\ \A n \in 2 .. Len(s.toI3) : s.toI3[n].type \in Requests
Answered ==
  /\ Before(s) /\ OnlyRequests(s.toI3)
  /\ IsSeq(i.toBar) /\ i.toBar # << >> /\ i.toBar[1].type = "bar_config"
  /\ \A n \in 2 .. Len(i.toBar) : i.toBar[n].type \in Answers
Configured == OnlyRequests(s.toI3) /\ OnlyAnswers(i.toBar)

BarInv ==
  /\ Sound(s) /\ Waits(s)
  /\ {"toBar", "subs", "at"} \subseteq DOMAIN i
  /\ "user" \in DOMAIN left /\ left.user \in Nat
  /\ Unasked \/ Answered \/ Configured

LEMMA BarInvInit ==
  ASSUME Init
  PROVE  BarInv
<1>1. PICK plan \in Plans :
        /\ s = [config |-> NoConfig, old |-> NoConfig, known |-> FALSE,
                out |-> [q \in Outputs |-> NoBar], buttons |-> {}, lastWs |-> << >>,
                child |-> [k \in Kids |-> NoChild], proc |-> [k \in Kids |-> NoProc],
                binding |-> FALSE, activated |-> FALSE, modPressed |-> FALSE, xkb |-> FALSE,
                hasUrgent |-> FALSE, trayOut |-> NoOutput, selwin |-> FALSE,
                icon |-> [t \in Icons |-> [alive |-> TRUE, wants |-> TRUE, parent |-> NoOutput,
                                           mapped |-> FALSE, aware |-> FALSE, inbox |-> << >>]],
                x |-> [queue |-> << >>, covered |-> {}, mod |-> FALSE],
                pc |-> "idle", toWrite |-> << >>, toI3 |-> <<Msg("get_bar_config", 0)>>]
        /\ {"toBar", "subs", "at"} \subseteq DOMAIN i /\ i.subs = {} /\ i.toBar = << >>
        /\ left = [ops |-> plan.ops, configs |-> plan.configs, user |-> plan.user, kid |-> plan.kid,
                   icon |-> plan.icon]
  BY DEF Init
<1>2. /\ {"child", "proc", "pc", "toI3", "toWrite"} \subseteq DOMAIN s
      /\ s.child = [k \in Kids |-> NoChild] /\ s.proc = [k \in Kids |-> NoProc]
      /\ s.pc = "idle" /\ s.toWrite = << >> /\ s.toI3 = <<Msg("get_bar_config", 0)>>
  BY <1>1
<1>3. /\ NoChild \in Children /\ NoChild.version = "unknown" /\ ~NoChild.stop /\ ~NoChild.cont
      /\ ~NoChild.alive /\ ~NoChild.stopped /\ ~NoChild.click /\ ~NoChild.clickInit
  BY DEF NoChild, Children
<1>4. {"state", "in"} \subseteq DOMAIN NoProc /\ NoProc.state = "none" /\ NoProc.in = << >>
  BY DEF NoProc
<1>5. Sound(s)
  <2>1. Shaped(s)
    BY <1>2, <1>3, <1>4 DEF Shaped
  <2>2. Kept(s)
    BY <1>2, <1>3, <1>4 DEF Kept, Kids
  <2>3. Streams(s)
    <3>1. /\ s.proc["status"].in = << >> /\ ~s.child["status"].clickInit /\ s.toWrite = << >>
      BY <1>2, <1>3, <1>4 DEF Kids
    <3> QED BY <3>1 DEF Streams
  <2> QED BY <2>1, <2>2, <2>3 DEF Sound
<1>6. Waits(s) /\ Before(s)
  BY <1>2, <1>3 DEF Waits, Before, Unborn
<1>7. /\ IsSeq(s.toI3) /\ s.toI3 # << >> /\ Len(s.toI3) = 1 /\ s.toI3[1].type = "get_bar_config"
  <2>1. ASSUME NEW m, m.type = "get_bar_config", s.toI3 = <<m>>
        PROVE  /\ s.toI3 \in Seq({m}) /\ s.toI3 # << >> /\ Len(s.toI3) = 1
               /\ s.toI3[1].type = "get_bar_config"
    BY <2>1
  <2>2. Msg("get_bar_config", 0).type = "get_bar_config"
    BY DEF Msg
  <2> QED BY <1>2, <2>1, <2>2 DEF IsSeq
<1>8. Unasked
  BY <1>1, <1>6, <1>7 DEF Unasked
<1>9. "user" \in DOMAIN left /\ left.user \in Nat
  BY <1>1, BarAssumption
<1> QED BY <1>1, <1>5, <1>6, <1>8, <1>9 DEF BarInv

\* A step that asks i3 for more leaves the conversation where it is.
LEMMA FurtherRequests ==
  ASSUME NEW t, NEW u, Further(t, u)
  PROVE  /\ OnlyRequests(t) => OnlyRequests(u)
         /\ (/\ IsSeq(t) /\ t # << >> /\ t[1].type = "get_bar_config"
             /\ \A n \in 2 .. Len(t) : t[n].type \in Requests)
            => /\ IsSeq(u) /\ u # << >> /\ u[1].type = "get_bar_config"
               /\ \A n \in 2 .. Len(u) : u[n].type \in Requests
<1>1. ASSUME IsSeq(t)
      PROVE  /\ IsSeq(u) /\ Len(t) \in Nat /\ Len(u) \in Nat /\ Len(t) <= Len(u)
             /\ (t = << >> <=> Len(t) = 0) /\ (u = << >> <=> Len(u) = 0)
  BY <1>1, SeqLength DEF Further
<1>2. ASSUME OnlyRequests(t) PROVE OnlyRequests(u)
  <2>1. ASSUME NEW n \in 1 .. Len(u) PROVE u[n].type \in Requests
    <3>1. n \in 1 .. Len(t) \/ n \in Len(t) + 1 .. Len(u)
      BY <1>1, <1>2 DEF OnlyRequests
    <3> QED BY <1>2, <3>1 DEF OnlyRequests, Further
  <2> QED BY <1>1, <1>2, <2>1 DEF OnlyRequests
<1>3. ASSUME IsSeq(t), t # << >>, t[1].type = "get_bar_config",
             \A n \in 2 .. Len(t) : t[n].type \in Requests
      PROVE  /\ IsSeq(u) /\ u # << >> /\ u[1].type = "get_bar_config"
             /\ \A n \in 2 .. Len(u) : u[n].type \in Requests
  <2>1. u[1] = t[1] /\ u # << >>
    BY <1>1, <1>3 DEF Further
  <2>2. ASSUME NEW n \in 2 .. Len(u) PROVE u[n].type \in Requests
    <3>1. n \in 2 .. Len(t) \/ n \in Len(t) + 1 .. Len(u)
      BY <1>1, <1>3
    <3>2. n \in 2 .. Len(t) => u[n] = t[n]
      BY <1>1, <1>3 DEF Further
    <3> QED BY <1>3, <3>1, <3>2 DEF Further
  <2> QED BY <1>1, <1>3, <2>1, <2>2
<1> QED BY <1>2, <1>3

\* An answer more.
LEMMA MoreAnswers ==
  ASSUME NEW t, NEW u, NEW type \in Answers, NEW value, u = Append(t, Msg(type, value))
  PROVE  /\ OnlyAnswers(t) => OnlyAnswers(u)
         /\ (/\ IsSeq(t) /\ t # << >> /\ t[1].type = "bar_config"
             /\ \A n \in 2 .. Len(t) : t[n].type \in Answers)
            => /\ IsSeq(u) /\ u # << >> /\ u[1].type = "bar_config"
               /\ \A n \in 2 .. Len(u) : u[n].type \in Answers
<1>1. ASSUME IsSeq(t)
      PROVE  /\ IsSeq(u) /\ Len(t) \in Nat /\ Len(u) = Len(t) + 1
             /\ (t = << >> <=> Len(t) = 0) /\ (u = << >> <=> Len(u) = 0)
             /\ \A n \in 1 .. Len(t) : u[n] = t[n]
             /\ u[Len(t) + 1].type \in Answers
  <2>1. Msg(type, value).type = type
    BY DEF Msg
  <2> QED BY <1>1, <2>1, SeqLength, AppendSeq
<1>2. ASSUME OnlyAnswers(t) PROVE OnlyAnswers(u)
  BY <1>1, <1>2 DEF OnlyAnswers
<1>3. ASSUME IsSeq(t), t # << >>, t[1].type = "bar_config",
             \A n \in 2 .. Len(t) : t[n].type \in Answers
      PROVE  /\ IsSeq(u) /\ u # << >> /\ u[1].type = "bar_config"
             /\ \A n \in 2 .. Len(u) : u[n].type \in Answers
  BY <1>1, <1>3
<1> QED BY <1>2, <1>3

LEMMA LeftKept ==
  ASSUME "user" \in DOMAIN left, left.user \in Nat, Next
  PROVE  "user" \in DOMAIN left' /\ left'.user \in Nat
<1>1. ASSUME NEW who, NEW op, May(who, op)
      PROVE  "user" \in DOMAIN left' /\ left'.user \in Nat
  BY <1>1 DEF May
<1>2. CASE \/ I3Serves \/ GotData \/ Waited \/ ChildSig \/ ChildOutput \/ WriteOutput
           \/ ProcStarts \/ ProcReads \/ IconHears \/ HandleXEvent
  BY <1>2 DEF I3Serves, GotData, Waited, ChildSig, ChildOutput, WriteOutput, ProcStarts, ProcReads,
              IconHears, HandleXEvent
<1>3. CASE I3Workspaces \/ I3Outputs \/ I3Mode \/ I3BarConfig
  BY <1>1, <1>3 DEF I3Workspaces, I3Outputs, I3Mode, I3BarConfig
<1>4. CASE ProcWrites \/ ProcDies \/ Exit
  BY <1>1, <1>4 DEF ProcWrites, ProcDies, Exit
<1>5. CASE Modifier \/ Fullscreen \/ Click \/ IconChanges
  BY <1>1, <1>5 DEF Modifier, Fullscreen, Click, IconChanges
<1> QED BY <1>2, <1>3, <1>4, <1>5 DEF Next

\* The steps that i3bar takes without a word from i3.
LEMMA NextOrdinary ==
  ASSUME Sound(s), Waits(s),
         \/ ChildSig \/ ChildOutput \/ WriteOutput \/ Exit
         \/ ProcStarts \/ ProcWrites \/ ProcReads \/ ProcDies
         \/ Modifier \/ Fullscreen \/ Click \/ IconHears \/ IconChanges \/ HandleXEvent
  PROVE  Ordinary(s, s') /\ i' = i
<1>1. Ordinary(s, s')
  BY ChildSigOrdinary, ChildOutputOrdinary, WriteOutputOrdinary, ExitOrdinary, ProcessesOrdinary,
     XServerOrdinary, HandleXEventOrdinary
<1>2. i' = i
  BY DEF ChildSig, ChildOutput, WriteOutput, Exit, ProcStarts, ProcWrites, ProcReads, ProcDies,
         Modifier, Fullscreen, Click, IconHears, IconChanges, HandleXEvent
<1> QED BY <1>1, <1>2

\* A request is taken from the head of what i3bar sent.
LEMMA I3ServesKeeps ==
  ASSUME BarInv, I3Serves
  PROVE  /\ Sound(s') /\ Waits(s') /\ {"toBar", "subs", "at"} \subseteq DOMAIN i'
         /\ i'.at = i.at
         /\ (Unasked \/ Answered \/ Configured)'
<1> DEFINE m == Head(s.toI3)
<1>1. /\ s'.child = s.child /\ s'.proc = s.proc /\ s'.pc = s.pc /\ s'.toWrite = s.toWrite
      /\ {"child", "proc", "pc", "toI3", "toWrite"} \subseteq DOMAIN s'
      /\ s'.toI3 = Tail(s.toI3) /\ s.toI3 # << >> /\ i' = Served(i, m)
  BY DEF I3Serves, BarInv, Sound, Shaped
<1>2. Sound(s') /\ Waits(s') /\ (Before(s) => Before(s'))
  <2>1. Sound(s')
    BY <1>1 DEF BarInv, Sound, Shaped, Kept, Streams
  <2>2. Waits(s') /\ (Before(s) => Before(s'))
    BY <1>1 DEF BarInv, Waits, Before, Unborn
  <2> QED BY <2>1, <2>2
<1>3. ASSUME IsSeq(s.toI3), \A n \in 2 .. Len(s.toI3) : s.toI3[n].type \in Requests
      PROVE  OnlyRequests(s'.toI3) /\ m = s.toI3[1]
  <2>1. /\ IsSeq(s'.toI3) /\ Len(s.toI3) \in Nat \ {0} /\ Len(s'.toI3) = Len(s.toI3) - 1
        /\ \A n \in 1 .. Len(s.toI3) - 1 : s'.toI3[n] = s.toI3[n + 1]
        /\ m = s.toI3[1]
    BY <1>1, <1>3, TailSeq
  <2> QED BY <1>3, <2>1 DEF OnlyRequests
<1>4. ASSUME Unasked
      PROVE  Answered' /\ {"toBar", "subs", "at"} \subseteq DOMAIN i' /\ i'.at = i.at
  <2>1. OnlyRequests(s'.toI3) /\ m.type = "get_bar_config"
    BY <1>3, <1>4 DEF Unasked
  <2>2. i' = [i EXCEPT !.toBar = Append(@, Msg("bar_config", i.config))]
    BY <1>1, <2>1 DEF Served
  <2>3. /\ {"toBar", "subs", "at"} \subseteq DOMAIN i' /\ i'.at = i.at
        /\ i'.toBar = Append(<< >>, Msg("bar_config", i.config))
    BY <1>4, <2>2 DEF Unasked, BarInv
  <2>4. /\ IsSeq(i'.toBar) /\ i'.toBar # << >> /\ Len(i'.toBar) = 1
        /\ i'.toBar[1].type = "bar_config"
    <3>1. ASSUME NEW v, v.type = "bar_config", i'.toBar = Append(<< >>, v)
          PROVE  /\ i'.toBar \in Seq({v}) /\ i'.toBar # << >> /\ Len(i'.toBar) = 1
                 /\ i'.toBar[1].type = "bar_config"
      BY <3>1
    <3>2. Msg("bar_config", i.config).type = "bar_config"
      BY DEF Msg
    <3> QED BY <2>3, <3>1, <3>2 DEF IsSeq
  <2> QED BY <1>2, <1>4, <2>1, <2>3, <2>4 DEF Unasked, Answered
<1>5. ASSUME Answered \/ Configured
      PROVE  /\ (Answered \/ Configured)' /\ {"toBar", "subs", "at"} \subseteq DOMAIN i'
             /\ i'.at = i.at
  <2>1. OnlyRequests(s.toI3)
    BY <1>5 DEF Answered, Configured
  <2>2. Len(s.toI3) \in Nat /\ s.toI3 # << >> /\ Len(s.toI3) # 0
    BY <1>1, <2>1, SeqLength DEF OnlyRequests
  <2>3. OnlyRequests(s'.toI3) /\ m = s.toI3[1]
    BY <1>3, <2>1, <2>2 DEF OnlyRequests
  <2>4. m.type \in Requests
    BY <2>1, <2>2, <2>3 DEF OnlyRequests
  <2>5. /\ {"toBar", "subs", "at"} \subseteq DOMAIN i' /\ i'.at = i.at
        /\ \/ i'.toBar = i.toBar
           \/ \E type \in Answers : \E value : i'.toBar = Append(i.toBar, Msg(type, value))
    BY <1>1, <2>4, ServedAt DEF BarInv
  <2>6. CASE Answered
    <3>1. /\ IsSeq(i'.toBar) /\ i'.toBar # << >> /\ i'.toBar[1].type = "bar_config"
          /\ \A n \in 2 .. Len(i'.toBar) : i'.toBar[n].type \in Answers
      BY <2>5, <2>6, MoreAnswers DEF Answered
    <3> QED BY <1>2, <2>3, <2>5, <2>6, <3>1 DEF Answered
  <2>7. CASE Configured
    <3>1. OnlyAnswers(i'.toBar)
      BY <2>5, <2>7, MoreAnswers DEF Configured
    <3> QED BY <2>3, <2>5, <3>1 DEF Configured
  <2> QED BY <1>5, <2>6, <2>7
<1> QED BY <1>2, <1>4, <1>5 DEF BarInv

\* The configuration is the first of the answers, and stays that.
ConfigFirst(t) ==
  /\ IsSeq(t) /\ t # << >> /\ t[1].type = "bar_config"
  /\ \A n \in 2 .. Len(t) : t[n].type \in Answers
LEMMA ConfigStaysFirst ==
  ASSUME NEW t, NEW u, NEW type \in Answers, NEW value, u = Append(t, Msg(type, value)),
         ConfigFirst(t)
  PROVE  ConfigFirst(u)
BY MoreAnswers DEF ConfigFirst

\* The configuration and the children come with the first answer.
LEMMA GotDataKeeps ==
  ASSUME BarInv, GotData
  PROVE  Sound(s') /\ Waits(s') /\ {"toBar", "subs", "at"} \subseteq DOMAIN i' /\ i'.at = i.at
         /\ Configured'
<1>1. /\ i.toBar # << >> /\ i'.toBar = Tail(i.toBar) /\ i'.at = i.at
      /\ {"toBar", "subs", "at"} \subseteq DOMAIN i'
  BY DEF GotData, BarInv
<1>2. Answered \/ Configured
  BY <1>1 DEF BarInv, Unasked
<1>3. /\ IsSeq(i.toBar) /\ OnlyRequests(s.toI3)
      /\ \A n \in 2 .. Len(i.toBar) : i.toBar[n].type \in Answers
      /\ \/ i.toBar[1].type \in Answers
         \/ i.toBar[1].type = "bar_config" /\ Unborn(s)
  <2>1. CASE Answered
    BY <2>1 DEF Answered, Before
  <2>2. CASE Configured
    <3>1. Len(i.toBar) \in Nat \ {0}
      BY <1>1, <2>2, SeqLength DEF Configured, OnlyAnswers
    <3> QED BY <2>2, <3>1 DEF Configured, OnlyAnswers
  <2> QED BY <1>2, <2>1, <2>2
<1>4. /\ IsSeq(i'.toBar) /\ Len(i.toBar) \in Nat \ {0} /\ Len(i'.toBar) = Len(i.toBar) - 1
      /\ \A n \in 1 .. Len(i.toBar) - 1 : i'.toBar[n] = i.toBar[n + 1]
      /\ Head(i.toBar) = i.toBar[1]
  BY <1>1, <1>3, TailSeq
<1>5. OnlyAnswers(i'.toBar)
  BY <1>3, <1>4 DEF OnlyAnswers
<1>6. Done(s, s')
  BY <1>3, <1>4, GotDataDone DEF BarInv
<1>7. OnlyRequests(s'.toI3)
  BY <1>3, <1>6, FurtherRequests DEF Done
<1> QED BY <1>1, <1>5, <1>6, <1>7 DEF Done, Configured

LEMMA BarInvStep ==
  ASSUME BarInv, [Next]_vars
  PROVE  BarInv'
<1>1. CASE UNCHANGED vars
  BY <1>1 DEF vars, BarInv, Sound, Shaped, Kept, Streams, Waits, Unasked, Answered, Configured,
              Before, Unborn, OnlyRequests, OnlyAnswers
<1>2. CASE Next
  <2>1. "user" \in DOMAIN left' /\ left'.user \in Nat
    BY <1>2, LeftKept DEF BarInv
  <2>2. CASE I3Serves
    BY <2>1, <2>2, I3ServesKeeps DEF BarInv
  <2>3. CASE I3Workspaces \/ I3Outputs \/ I3Mode \/ I3BarConfig
    <3>1. Published(i, i') /\ s' = s
      BY <2>3, I3Publishes DEF BarInv
    <3>2. Sound(s') /\ Waits(s') /\ (Before(s) => Before(s'))
      BY <3>1 DEF BarInv
    <3>3. Unasked => Unasked'
      BY <3>1, <3>2 DEF Unasked, Published
    <3>4. Answered => Answered'
      <4> SUFFICES ASSUME Answered PROVE Answered'
        OBVIOUS
      <4>1. CASE i'.toBar = i.toBar
        BY <3>1, <3>2, <4>1 DEF Answered
      <4>2. CASE \E type \in Answers : \E value : i'.toBar = Append(i.toBar, Msg(type, value))
        <5>1. PICK type \in Answers : \E value : i'.toBar = Append(i.toBar, Msg(type, value))
          BY <4>2
        <5>2. PICK value : i'.toBar = Append(i.toBar, Msg(type, value))
          BY <5>1
        <5>3. Before(s') /\ OnlyRequests(s'.toI3)
              /\ IsSeq(i.toBar) /\ i.toBar # << >> /\ i.toBar[1].type = "bar_config"
              /\ \A n \in 2 .. Len(i.toBar) : i.toBar[n].type \in Answers
          BY <3>1, <3>2 DEF Answered
        <5>4. ConfigFirst(i.toBar)
          BY <5>3 DEF ConfigFirst
        <5>5. ConfigFirst(i'.toBar)
          BY <5>2, <5>4, ConfigStaysFirst
        <5> QED BY <5>3, <5>5 DEF Answered, ConfigFirst
      <4> QED BY <3>1, <4>1, <4>2 DEF Published
    <3>5. Configured => Configured'
      BY <3>1, MoreAnswers DEF Configured, Published
    <3>6. {"toBar", "subs", "at"} \subseteq DOMAIN i'
      BY <3>1 DEF Published
    <3>7. Unasked' \/ Answered' \/ Configured'
      BY <3>3, <3>4, <3>5 DEF BarInv
    <3> QED BY <2>1, <3>2, <3>6, <3>7 DEF BarInv
  <2>4. CASE GotData
    BY <2>1, <2>4, GotDataKeeps DEF BarInv
  <2>5. CASE Waited
    <3>1. Done(s, s')
      BY <2>5, WaitedDone DEF BarInv
    <3>2. s.pc \in {"killStatus", "killWs"} /\ i' = i
      BY <2>5 DEF Waited
    <3>3. Configured
      BY <3>2 DEF BarInv, Unasked, Answered, Before
    <3>4. Configured'
      BY <3>1, <3>2, <3>3, FurtherRequests DEF Configured, Done
    <3> QED BY <2>1, <3>1, <3>2, <3>4 DEF BarInv, Done
  <2>6. CASE \/ ChildSig \/ ChildOutput \/ WriteOutput \/ Exit
             \/ ProcStarts \/ ProcWrites \/ ProcReads \/ ProcDies
             \/ Modifier \/ Fullscreen \/ Click \/ IconHears \/ IconChanges \/ HandleXEvent
    <3>1. Ordinary(s, s') /\ i' = i
      BY <2>6, NextOrdinary DEF BarInv
    <3>2. Further(s.toI3, s'.toI3) /\ Sound(s') /\ Waits(s') /\ (Before(s) => Before(s'))
      BY <3>1 DEF Ordinary, Done, Before
    <3>3. Unasked => Unasked'
      BY <3>1, <3>2, FurtherRequests DEF Unasked
    <3>4. Answered => Answered'
      BY <3>1, <3>2, FurtherRequests DEF Answered
    <3>5. Configured => Configured'
      BY <3>1, <3>2, FurtherRequests DEF Configured
    <3> QED BY <2>1, <3>1, <3>2, <3>3, <3>4, <3>5 DEF BarInv
  <2> QED BY <1>2, <2>2, <2>3, <2>4, <2>5, <2>6 DEF Next
<1> QED BY <1>1, <1>2

\* Only the user opens workspaces: all that i3bar sends is requests that name none, or
\* commands that i3 ignores when the workspace is gone.
LEMMA StepOpenedByUser ==
  ASSUME BarInv, Next
  PROVE  OpenedByUser
<1>1. ASSUME i'.at = i.at PROVE OpenedByUser
  BY <1>1 DEF OpenedByUser, Existing
<1>2. ASSUME NEW op, May("user", op) PROVE OpenedByUser
  <2>1. left'.user = left.user - 1
    BY <1>2 DEF May, BarInv
  <2> QED BY <2>1 DEF OpenedByUser, BarInv
<1>3. CASE I3Serves
  BY <1>1, <1>3, I3ServesKeeps
<1>4. CASE I3Workspaces \/ I3Outputs \/ I3Mode \/ I3BarConfig
  BY <1>2, <1>4 DEF I3Workspaces, I3Outputs, I3Mode, I3BarConfig
<1>5. CASE GotData
  BY <1>1, <1>5, GotDataKeeps
<1>6. CASE Waited
  BY <1>1, <1>6 DEF Waited
<1>7. CASE \/ ChildSig \/ ChildOutput \/ WriteOutput \/ Exit
           \/ ProcStarts \/ ProcWrites \/ ProcReads \/ ProcDies
           \/ Modifier \/ Fullscreen \/ Click \/ IconHears \/ IconChanges \/ HandleXEvent
  BY <1>1, <1>7, NextOrdinary DEF BarInv
<1> QED BY <1>3, <1>4, <1>5, <1>6, <1>7 DEF Next

-----------------------------------------------------------------------------
(* The theorems *)

LEMMA BarInvHolds == Spec => []BarInv
<1>1. BarInv /\ [Next]_vars => BarInv'
  BY BarInvStep
<1> QED BY <1>1, BarInvInit, PTL DEF Spec

\* Whatever the user, i3, the children and the tray do, i3bar never waits for a process that
\* it has stopped nor leaves one stopped behind (kill_and_wait(), kill_children_at_exit()), and
\* every status command that is told of clicks reads one opening and then clicks
\* (send_block_clicked()). Both are parts of ChildrenServed.
THEOREM ChildrenNeverForsaken == Spec => [](NeverWaitsForStopped /\ ClickStream)
<1>1. BarInv => NeverWaitsForStopped /\ ClickStream
  BY DEF BarInv, Sound, Streams, Waits, NeverWaitsForStopped, ClickStream
<1> QED BY <1>1, BarInvHolds, PTL

\* A click on a button that is out of date never brings a closed workspace back, for any
\* workspaces and any order of clicks, answers and events (handle_button()).
THEOREM NothingRevived == Spec => NoRevival
<1>1. BarInv /\ [Next]_vars => [OpenedByUser]_vars
  BY StepOpenedByUser
<1> QED BY <1>1, BarInvHolds, PTL DEF Spec, NoRevival
=============================================================================
