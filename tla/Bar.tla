-------------------------------- MODULE Bar --------------------------------
(***************************************************************************)
(* i3bar: its connection to i3 (ipc.c, outputs.c, workspaces.c, mode.c),   *)
(* the X events it handles and the life of its children, over BarX and     *)
(* BarChild.  i3 is the environment: requests and answers are two FIFOs,   *)
(* and anything may change at i3 between two requests.                     *)
(***************************************************************************)
EXTENDS BarX

CONSTANTS Workspaces, NoWorkspace, Handled, PipeSize, Plans

ASSUME BarAssumption ==
  /\ PipeSize \in Nat \ {0}
  /\ \A plan \in Plans : plan.user \in Nat /\ plan.kid \in Nat /\ plan.icon \in Nat

VARIABLES s, i, left, missed
vars == <<s, i, left, missed>>

Idle == s.pc = "idle"
May(who, op) == op \in left.ops /\ left[who] > 0 /\ left' = [left EXCEPT ![who] = @ - 1]

Msg(type, value) == [type |-> type, value |-> value]
Config(mode, hidden, cmd, wscmd, tray) ==
  [mode |-> mode, hidden |-> hidden, cmd |-> cmd, wscmd |-> wscmd, tray |-> tray]
NoConfig == Config("dock", "hide", "none", "none", "none")

Init ==
  \E plan \in Plans :
    /\ s = [config |-> NoConfig, old |-> NoConfig, known |-> FALSE,
            out |-> [q \in Outputs |-> NoBar], buttons |-> {}, lastWs |-> << >>,
            child |-> [k \in Kids |-> NoChild], proc |-> [k \in Kids |-> NoProc],
            binding |-> FALSE, activated |-> FALSE, modPressed |-> FALSE, xkb |-> FALSE,
            hasUrgent |-> FALSE, trayOut |-> NoOutput, selwin |-> FALSE,
            icon |-> [t \in Icons |-> [alive |-> TRUE, wants |-> TRUE, parent |-> NoOutput,
                                       mapped |-> FALSE, aware |-> FALSE, inbox |-> << >>]],
            x |-> [queue |-> << >>, covered |-> {}, mod |-> FALSE],
            pc |-> "idle", toWrite |-> << >>, toI3 |-> <<Msg("get_bar_config", 0)>>]
    /\ LET o == plan.output
           w == CHOOSE v \in Workspaces : TRUE
       IN  i = [act |-> {o}, at |-> [v \in Workspaces |-> IF v = w THEN o ELSE NoOutput],
                shown |-> [q \in Outputs |-> IF q = o THEN w ELSE NoWorkspace], focus |-> w,
                urgent |-> {}, mode |-> "default", config |-> plan.config, subs |-> {}, toBar |-> << >>]
    /\ left = [ops |-> plan.ops, configs |-> plan.configs, user |-> plan.user, kid |-> plan.kid,
               icon |-> plan.icon]
    /\ missed = {}

-----------------------------------------------------------------------------
(* i3, as i3bar sees it *)

Existing(j) == {w \in Workspaces : j.at[w] # NoOutput}
Snapshot(j) ==
  {[ws |-> w, on |-> j.at[w], urgent |-> w \in j.urgent, shown |-> j.shown[j.at[w]] = w,
    focused |-> j.focus = w] : w \in Existing(j)}
Publish(j, type, value) ==
  IF type \in j.subs THEN [j EXCEPT !.toBar = Append(@, Msg(type, value))] ELSE j
Focused(j, w) == [j EXCEPT !.shown[j.at[w]] = w, !.focus = w, !.urgent = @ \ {w}]
Appear(j, w, o) == Focused([j EXCEPT !.at[w] = o], w)

Served(j, m) ==
  LET answer(type, value) == [j EXCEPT !.toBar = Append(@, Msg(type, value))]
  IN  CASE m.type = "get_bar_config" -> answer("bar_config", j.config)
        [] m.type = "get_outputs"    -> answer("outputs", j.act)
        [] m.type = "get_workspaces" -> answer("workspaces", Snapshot(j))
        [] m.type = "subscribe"      -> [j EXCEPT !.subs = m.value]
        [] m.type = "focus" /\ m.value \in Existing(j) -> Publish(Focused(j, m.value), "workspace", 0)
        [] m.type = "workspace" /\ m.value \notin Existing(j) ->
             Publish(Appear(j, m.value, CHOOSE o \in j.act : TRUE), "workspace", 0)
        [] OTHER -> j

I3Serves ==
  /\ s.toI3 # << >>
  /\ i' = Served(i, Head(s.toI3))
  /\ s' = [s EXCEPT !.toI3 = Tail(@)]
  /\ missed' = IF Head(s.toI3).type = "get_outputs" THEN missed \ {"output"} ELSE missed
  /\ UNCHANGED left

\* a change that i3bar asked too late to be told of
Changes(type) == missed' = IF type \in i.subs THEN missed ELSE missed \cup {type}

I3Workspaces ==
  /\ \/ /\ May("user", "open")
        /\ \E w \in Workspaces \ Existing(i) : \E o \in i.act :
             i' = Publish(Appear(i, w, o), "workspace", 0)
     \/ /\ May("user", "close")
        /\ \E w \in Existing(i) :
             /\ i.shown[i.at[w]] # w
             /\ i' = Publish([i EXCEPT !.at[w] = NoOutput, !.urgent = @ \ {w}], "workspace", 0)
     \/ /\ May("user", "show")
        /\ \E w \in Existing(i) \ {i.focus} : i' = Publish(Focused(i, w), "workspace", 0)
     \/ /\ May("user", "urgent")
        /\ \E w \in Existing(i) \ {i.focus} :
             i' = Publish([i EXCEPT !.urgent = (@ \ {w}) \cup ({w} \ @)], "workspace", 0)
  /\ UNCHANGED <<s, missed>>

Unplugged(j, o, other) ==
  [j EXCEPT !.act = @ \ {o}, !.shown[o] = NoWorkspace,
            !.at = [w \in Workspaces |-> IF @[w] = o THEN other ELSE @[w]],
            !.focus = IF j.at[@] = o THEN j.shown[other] ELSE @]
I3Outputs ==
  /\ May("user", "outputs") /\ Changes("output") /\ UNCHANGED s
  /\ \/ \E o \in Outputs \ i.act : \E w \in Workspaces \ Existing(i) :
          i' = Publish([i EXCEPT !.act = @ \cup {o}, !.at[w] = o, !.shown[o] = w], "output", 0)
     \/ \E o \in i.act : \E other \in i.act \ {o} : i' = Publish(Unplugged(i, o, other), "output", 0)

I3Mode ==
  /\ May("user", "mode") /\ Changes("mode") /\ UNCHANGED s
  /\ LET mode == IF i.mode = "default" THEN "resize" ELSE "default"
     IN  i' = Publish([i EXCEPT !.mode = mode], "mode", mode)

\* what the commands `bar mode` and `bar hidden_state` make of a configuration:
\* something that is named, or toggled, from any mode but hide to that
CmdBarMode(config) ==
  {[config EXCEPT !.mode = m] :
     m \in {"dock", "hide", "invisible", IF config.mode = "hide" THEN "dock" ELSE "hide"}}
CmdBarHiddenState(config) == {[config EXCEPT !.hidden = h] : h \in {"hide", "show"}}

\* a reload, or a command that changes something
I3BarConfig ==
  /\ UNCHANGED <<s, missed>>
  /\ \/ /\ May("user", "config")
        /\ \E c \in left.configs \ {i.config} : i' = Publish([i EXCEPT !.config = c], "barconfig", c)
     \/ /\ May("user", "command")
        /\ \E c \in (CmdBarMode(i.config) \cup CmdBarHiddenState(i.config)) \ {i.config} :
             i' = Publish([i EXCEPT !.config = c], "barconfig", c)

-----------------------------------------------------------------------------
(* Answers and events of i3 *)

I3ProvidesWorkspaces(r) == r.config.wscmd = "none"
SendMsg(r, type, value) == [r EXCEPT !.toI3 = Append(@, Msg(type, value))]
SubscribeEvents(r) ==
  SendMsg(r, "subscribe", {"output", "mode", "barconfig"} \cup
                          (IF I3ProvidesWorkspaces(r) THEN {"workspace"} ELSE {}))
AskWorkspaces(r) == IF I3ProvidesWorkspaces(r) THEN SendMsg(r, "get_workspaces", 0) ELSE r
InitXcbLate(r) == IF r.config.mode = "hide" THEN [r EXCEPT !.xkb = TRUE] ELSE r

FreeWorkspaces(r) == [r EXCEPT !.buttons = {}]
ParseWorkspaces(r, snapshot) ==
  [r EXCEPT !.buttons = IF r.known THEN {b \in snapshot : b.on \in Handled} ELSE {}]
RepeatLastWsJson(r) == IF r.lastWs = << >> THEN r ELSE ParseWorkspaces(r, Head(r.lastWs))
FreeOutputs(r) ==
  Walked(FreeWorkspaces(r), FoldSet(LAMBDA o, q : DestroyWindow(q, o), r, Outputs))
ParseOutputs(r, act) ==
  [r EXCEPT !.known = TRUE,
            !.out = [o \in Outputs |-> [NoBar EXCEPT !.active = o \in act \cap Handled]]]

\* the buttons went with the outputs
WorkspacesAgainFromScript(r) == RepeatLastWsJson(r)
WorkspacesAgain(r) ==
  IF I3ProvidesWorkspaces(r) THEN SendMsg(r, "get_workspaces", 0) ELSE RepeatLastWsJson(r)

GotBarConfig(config) ==
  LET asked == [SendMsg(s, "get_outputs", 0) EXCEPT !.config = config]
  IN  StartWsChild(StartChild(InitXcbLate(AskWorkspaces(SubscribeEvents(asked))), config.cmd),
                   config.wscmd)
GotOutputReply(act) ==
  LET r == ReconfigWindows(ParseOutputs(FreeOutputs(s), act), FALSE)
  IN  DrawBars(WorkspacesAgain(r), FALSE)
GotWorkspaceReply(snapshot) == DrawBars(ParseWorkspaces(s, snapshot), FALSE)
SetCurrentMode(named) == [s EXCEPT !.binding = named, !.activated = named]
ParseModeJson(name) == SetCurrentMode(name # "default")
GotModeEvent(name) == DrawBars(ParseModeJson(name), FALSE)

\* got_bar_config_update() in three parts: it may wait for each child it kills
UpdateEnd(r, restart) ==
  DrawBars([(IF restart THEN StartWsChild(r, r.config.wscmd) ELSE r) EXCEPT !.pc = "idle"], FALSE)
UpdateWs(r, restart) ==
  LET q == IF restart THEN StartChild(Cleanup(r, "status"), r.config.cmd) ELSE r
      again == ~q.child["ws"].alive \/ q.old.wscmd # q.config.wscmd
  IN  IF again /\ q.child["ws"].alive
      THEN [KillAndWait(FreeWorkspaces(q), "ws") EXCEPT !.pc = "killWs"]
      ELSE UpdateEnd(IF again THEN FreeWorkspaces(q) ELSE q, again)
GotBarConfigUpdate(config) ==
  LET changed == [SendMsg(s, "get_outputs", 0) EXCEPT !.old = s.config, !.config = config]
      mode == IF s.config.mode # config.mode THEN ReconfigWindows(changed, TRUE) ELSE changed
      r == InitXcbLate(mode)
      again == ~r.child["status"].alive \/ r.old.cmd # config.cmd
  IN  IF again /\ r.child["status"].alive
      THEN [KillAndWait(r, "status") EXCEPT !.pc = "killStatus"]
      ELSE UpdateWs(r, again)

GotData ==
  /\ Idle /\ i.toBar # << >>
  /\ LET m == Head(i.toBar)
     IN  s' = CASE m.type = "bar_config" -> GotBarConfig(m.value)
                [] m.type = "outputs"    -> GotOutputReply(m.value)
                [] m.type = "workspaces" -> GotWorkspaceReply(m.value)
                [] m.type = "workspace"  -> SendMsg(s, "get_workspaces", 0)
                [] m.type = "output"     -> SendMsg(s, "get_outputs", 0)
                [] m.type = "mode"       -> GotModeEvent(m.value)
                [] m.type = "barconfig"  -> GotBarConfigUpdate(m.value)
  /\ i' = [i EXCEPT !.toBar = Tail(@)]
  /\ UNCHANGED <<left, missed>>

Waited ==
  /\ \/ s.pc = "killStatus" /\ s.proc["status"].state = "dead" /\ s' = UpdateWs(s, TRUE)
     \/ s.pc = "killWs" /\ s.proc["ws"].state = "dead" /\ s' = UpdateEnd(Cleanup(s, "ws"), TRUE)
  /\ UNCHANGED <<i, left, missed>>

-----------------------------------------------------------------------------
(* Children *)

ErrorButtons(r) ==
  [r EXCEPT !.buttons = {[ws |-> NoWorkspace, on |-> o, urgent |-> TRUE, shown |-> TRUE, focused |-> FALSE] :
                           o \in IF r.known THEN Handled ELSE {}}]
ChildSig ==
  \E k \in Kids :
    /\ Idle /\ s.child[k].alive /\ s.proc[k].state = "dead"
    /\ s' = DrawBars(Cleanup(IF k = "ws" THEN ErrorButtons(s) ELSE s, k), FALSE)
    /\ UNCHANGED <<i, left, missed>>

ReadJsonInput(r, urgent) == LET seen == r.hasUrgent \/ urgent IN DrawBars([r EXCEPT !.hasUrgent = seen], seen)
FirstLine(r, kind, urgent) ==
  LET q == ParseJsonHeader(r, kind)
  IN  CASE kind = "flat" -> q
        [] kind # "flat" /\ r.config.mode = "dock" -> ReadJsonInput(q, urgent)
        [] OTHER -> ReadJsonInput(StopChildren(q), urgent)
StatusLine(r, line) ==
  CASE r.child["status"].version = "unknown" -> FirstLine(r, r.proc["status"].kind, line)
    [] r.child["status"].version = "json"    -> ReadJsonInput(r, line)
    [] OTHER -> DrawBars(r, FALSE)
WsLine(r, line) == DrawBars(ParseWorkspaces([r EXCEPT !.lastWs = <<line>>], line), FALSE)

ChildOutput ==
  \E k \in Kids :
    /\ Idle /\ s.child[k].alive /\ s.proc[k].state # "dead" /\ s.proc[k].lines # << >>
    /\ LET line == Head(s.proc[k].lines)
           r == [s EXCEPT !.proc[k].lines = Tail(@)]
       IN  s' = IF k = "ws" THEN WsLine(r, line) ELSE StatusLine(r, line)
    /\ UNCHANGED <<i, left, missed>>

\* the processes: start, write lines, read clicks, end
ProcStarts ==
  \E k \in Kids : s.proc[k].state = "young" /\ s' = [s EXCEPT !.proc[k].state = "runs"]
                  /\ UNCHANGED <<i, left, missed>>
ProcWrites ==
  \E k \in Kids :
    /\ s.proc[k].state = "runs" /\ s.proc[k].lines = << >> /\ May("kid", "lines")
    /\ \/ k = "ws" /\ s' = [s EXCEPT !.proc[k].lines = <<Snapshot(i)>>]
       \/ /\ k = "status"
          /\ \E kind \in {"json", "busy", "flat"} : \E urgent \in {FALSE, "urgent" \in left.ops} :
               /\ s.proc[k].kind \in {"unknown", kind} /\ (kind = "flat" => ~urgent)
               /\ s' = [s EXCEPT !.proc[k].lines = <<urgent>>, !.proc[k].kind = kind]
  /\ UNCHANGED <<i, missed>>
ProcReads ==
  /\ s.proc["status"].state = "runs" /\ s.proc["status"].read < Len(s.proc["status"].in)
  /\ s' = [s EXCEPT !.proc["status"].read = @ + 1]
  /\ UNCHANGED <<i, left, missed>>
ProcDies ==
  \E k \in Kids :
    /\ s.proc[k].state \in {"young", "runs"} /\ May("kid", "death")
    /\ s' = [s EXCEPT !.proc[k].state = "dead"]
    /\ UNCHANGED <<i, missed>>

\* writeall() blocks on a full pipe; without a reader SIGPIPE ends i3bar
WriteOutput ==
  /\ s.pc = "writing"
  /\ LET p == s.proc["status"]
     IN  \/ /\ p.state = "dead" /\ s.toWrite # << >> /\ s' = [s EXCEPT !.pc = "killed"]
         \/ /\ p.state # "dead" /\ s.toWrite # << >> /\ Len(p.in) - p.read < PipeSize
            /\ s' = [s EXCEPT !.proc["status"].in = Append(@, Head(s.toWrite)), !.toWrite = Tail(@)]
         \/ s.toWrite = << >> /\ s' = [s EXCEPT !.pc = "idle"]
  /\ UNCHANGED <<i, left, missed>>

\* kill_children_at_exit()
AtExit(r) ==
  LET cont == ContChildren(r)
      ended(q, k) == IF q.child[k].alive THEN Killpg(q, k, "SIGTERM") ELSE q
  IN  [ended(ended(cont, "status"), "ws") EXCEPT !.pc = "exited"]
AtExitKillsOnly(r) ==
  LET ended(q, k) == IF q.child[k].alive THEN Killpg(q, k, "SIGTERM") ELSE q
  IN  [ended(ended(r, "status"), "ws") EXCEPT !.pc = "exited"]
Exit ==
  /\ Idle /\ s.known /\ May("user", "exit") /\ s' = AtExit(s)
  /\ UNCHANGED <<i, missed>>
-----------------------------------------------------------------------------
(* X events: what the user and the tray clients do, and i3bar's handlers *)

Modifier ==
  /\ May("user", "modifier") /\ UNCHANGED <<i, missed>>
  /\ LET r == [s EXCEPT !.x.mod = ~@]
     IN  s' = IF r.xkb THEN Emit(r, Event("xkb", NoOutput, r.x.mod)) ELSE r
Fullscreen ==
  /\ May("user", "fullscreen") /\ UNCHANGED <<i, missed>>
  /\ \E o \in Outputs :
       LET r == [s EXCEPT !.x.covered = (@ \ {o}) \cup ({o} \ @)]
       IN  s' = IF s.config.mode = "dock" /\ s.out[o].mapped /\ s.out[o].watch
                THEN Emit(r, Event("visibility", o, ~Obscured(r, o))) ELSE r
Click ==
  /\ May("user", "click") /\ UNCHANGED <<i, missed>>
  /\ \E o \in Outputs : \E where \in {"1", "2", "line", "up", "down"} :
       /\ s.out[o].mapped /\ ~Obscured(s, o)
       /\ s' = Emit(s, Event("button", o, where))

\* a tray client: hears of the tray, asks to be docked, changes its mind, ends
IconHears ==
  \E t \in Icons :
    /\ s.icon[t].alive /\ s.icon[t].inbox # << >>
    /\ LET heard == [s EXCEPT !.icon[t].inbox = Tail(@),
                              !.icon[t].aware = (Head(s.icon[t].inbox) = "manager")]
       IN  s' = IF heard.icon[t].aware /\ ~s.icon[t].aware /\ s.selwin
                THEN Emit(heard, Event("dock", t, TRUE)) ELSE heard
    /\ UNCHANGED <<i, left, missed>>
IconChanges ==
  \E t \in Icons :
    /\ s.icon[t].alive /\ UNCHANGED <<i, missed>>
    /\ \/ May("icon", "wish") /\ s' = Emit([s EXCEPT !.icon[t].wants = ~@], Event("property", t, TRUE))
       \/ /\ May("icon", "end")
          /\ s' = Emit([s EXCEPT !.icon[t].alive = FALSE, !.icon[t].inbox = << >>,
                                  !.icon[t].parent = NoOutput, !.icon[t].mapped = FALSE],
                        Event("destroy", t, TRUE))

XkbState(pressed) ==
  LET r == [s EXCEPT !.modPressed = pressed]
  IN  CASE pressed = s.modPressed -> s
        [] pressed # s.modPressed /\ pressed -> UnhideBars([r EXCEPT !.activated = FALSE])
        [] pressed # s.modPressed /\ ~pressed /\ ~s.activated -> HideBars(r)
        [] OTHER -> r
HandleVisibilityNotify(o, visible) ==
  LET r == IF o \in Active(s) THEN [s EXCEPT !.out[o].visible = visible] ELSE s
  IN  IF \E p \in Active(r) : r.out[p].visible THEN ContChildren(r) ELSE StopChildren(r)

\* which button lies under a click is decided by the buttons of now
OnBar(o) == {b \in s.buttons : b.on = o}
Nth(o, n) == {b \in OnBar(o) : Cardinality({c \in OnBar(o) : c.ws < b.ws}) = n - 1}
Neighbour(o, where) ==
  LET current == {b \in OnBar(o) : b.shown}
      beside(b) == {c \in OnBar(o) : \E d \in current : IF where = "up" THEN c.ws < d.ws ELSE c.ws > d.ws}
  IN  {c \in beside(0) : \A e \in beside(0) : IF where = "up" THEN e.ws <= c.ws ELSE e.ws >= c.ws}
Clicked(o, where) ==
  CASE where \in {"up", "down"} -> Neighbour(o, where)
    [] where = "1" -> Nth(o, 1)
    [] where = "2" -> Nth(o, 2)
    [] OTHER -> {}
FocusWorkspaceByName(w) == SendMsg(s, "workspace", w)
FocusWorkspace(w) == SendMsg(s, "focus", w)
HandleButton(o, where) ==
  LET unfocused == {b \in OnBar(o) : b.shown /\ ~b.focused}
      target == IF Clicked(o, where) = {} /\ where \notin {"up", "down"} THEN unfocused ELSE Clicked(o, where)
  IN  IF where = "line" /\ s.child["status"].click THEN {SendBlockClicked(s)}
      ELSE IF target = {} THEN {s}
      ELSE {IF b.ws = NoWorkspace THEN s ELSE FocusWorkspace(b.ws) : b \in target}

HandleXEvent ==
  /\ Idle /\ s.x.queue # << >>
  /\ LET e == Head(s.x.queue)
         handled == CASE e.type = "xkb" -> {XkbState(e.value)}
                      [] e.type = "visibility" -> {HandleVisibilityNotify(e.of, e.value)}
                      [] e.type = "button" -> IF e.of = NoOutput THEN {s} ELSE HandleButton(e.of, e.value)
                      [] e.type = "dock" -> {HandleClientMessage(s, e.of)}
                      [] e.type = "destroy" -> {HandleDestroyNotify(s, e.of)}
                      [] e.type \in {"map", "unmap"} -> {HandleMapNotify(s, e.of, e.type = "map")}
                      [] OTHER -> {HandlePropertyNotify(s, e.of)}
     IN  /\ \E r \in handled : s' = [r EXCEPT !.x.queue = Tail(@)]
         /\ missed' = IF e.type = "visibility" /\ (e.of = NoOutput \/ s.config.mode # "dock")
                      THEN missed \cup {"visibility"} ELSE missed
  /\ UNCHANGED <<i, left>>

Next == \/ I3Serves \/ I3Workspaces \/ I3Outputs \/ I3Mode \/ I3BarConfig
        \/ GotData \/ Waited \/ ChildSig \/ ChildOutput \/ WriteOutput \/ Exit
        \/ ProcStarts \/ ProcWrites \/ ProcReads \/ ProcDies
        \/ Modifier \/ Fullscreen \/ Click \/ IconHears \/ IconChanges \/ HandleXEvent

Spec == Init /\ [][Next]_vars

-----------------------------------------------------------------------------
(* Properties *)

Quiet == Idle /\ s.known /\ s.x.queue = << >> /\ s.toI3 = << >> /\ i.toBar = << >>
Bars == {o \in Outputs : s.out[o].mapped}
InView == \E o \in Bars : ~Obscured(s, o)

\* Types: one record for i3bar, its windows and its children, one for i3.
TypeOK ==
  /\ s.pc \in {"idle", "killStatus", "killWs", "writing", "killed", "exited"}
  /\ \A k \in Kids : /\ DOMAIN s.child[k] = DOMAIN NoChild
                     /\ s.proc[k].state \in {"none", "young", "runs", "stops", "dead"}
                     /\ s.child[k].alive <=> s.proc[k].state # "none"
                     /\ s.child[k].stopped => s.child[k].alive
  /\ \A o \in Outputs : s.out[o].mapped => s.out[o].win
  /\ s.trayOut \in Outputs \cup {NoOutput} /\ s.buttons \subseteq
       [ws : Workspaces \cup {NoWorkspace}, on : Handled, urgent : BOOLEAN, shown : BOOLEAN, focused : BOOLEAN]
  /\ i.act \subseteq Outputs /\ i.at \in [Workspaces -> Outputs \cup {NoOutput}]

\* A command whose output is to be seen runs: when nothing is on its way, a child is
\* not stopped while a bar is on display, and in hide mode every child that takes the
\* signal has been stopped while none is (hide_bars(), unhide_bars(), reconfig_windows(),
\* handle_visibility_notify()).
ChildFollowsBar ==
  Quiet => \A k \in Kids :
    /\ InView /\ "visibility" \notin missed => s.proc[k].state # "stops"
    /\ (s.config.mode = "hide" /\ Bars = {} /\ s.child[k].stop /\ s.child[k].version # "flat")
         => s.child[k].stopped

\* The first half alone, whatever events came late.
NotStoppedInView == Quiet /\ InView => \A k \in Kids : s.proc[k].state # "stops"

\* The bars of the active outputs are all there in dock mode, never in invisible mode,
\* and in hide mode together and for one of the reasons of draw_bars().
BarsAsAsked ==
  Quiet =>
    /\ Active(s) = i.act \cap Handled \/ "output" \in missed
    /\ Bars \in {{}, Active(s)}
    /\ s.config.mode = "dock" => Bars = Active(s)
    /\ s.config.mode = "invisible" => Bars = {}
    /\ s.config.mode = "hide" =>
         /\ (s.modPressed \/ s.config.hidden = "show") => Bars = Active(s)
         /\ Bars # {} => s.modPressed \/ s.config.hidden = "show" \/ Asked(s) \/ s.hasUrgent

\* i3bar knows i3's outputs once nothing is on its way, whenever they changed.
OutputsFollow == Quiet => Active(s) = i.act \cap Handled

\* The buttons are i3's workspaces and the mode indicator i3's mode once nothing is on its
\* way, if i3bar subscribed before they changed: after free_outputs() they are asked for again.
ButtonsFollow ==
  (Quiet /\ I3ProvidesWorkspaces(s) /\ "workspace" \in i.subs /\ "output" \notin missed)
    => /\ s.buttons = {b \in Snapshot(i) : b.on \in Handled}
       /\ "mode" \notin missed => s.binding = (i.mode # "default")

\* What is on display is what i3 and the configuration say, once nothing is on its way.
BarsShowI3 == BarsAsAsked /\ ButtonsFollow

\* i3bar never waits for the end of a process that it has stopped itself.
NeverWaitsForStopped ==
  /\ s.pc = "killStatus" => s.proc["status"].state # "stops"
  /\ s.pc = "killWs" => s.proc["ws"].state # "stops"
  /\ s.pc = "exited" => \A k \in Kids : s.proc[k].state # "stops"

\* Every status command that is told of clicks reads one opening and then the clicks.
ClickStream ==
  LET in == s.proc["status"].in
  IN  \A n \in DOMAIN in : in[n] = "open" <=> n = 1

\* Whatever order the handlers come in: the children run and stop with the bar, i3bar is
\* never stuck in waiting for one, and the clicks they are told of are a sound list.
ChildrenServed == TypeOK /\ ChildFollowsBar /\ NeverWaitsForStopped /\ ClickStream

\* A client is in the tray of at most one bar, in the window its record says, shown as it
\* wishes; a client that has heard of the tray is in it.
TrayFollows ==
  Quiet => \A t \in Icons : (s.icon[t].alive /\ s.icon[t].inbox = << >>) =>
    /\ Cardinality(Records(s, t)) <= 1
    /\ {r[1] : r \in Records(s, t)} = {s.icon[t].parent} \ {NoOutput}
    /\ \A r \in Records(s, t) : /\ s.out[r[1]].win
                                /\ s.out[r[1]].docked[r[2]].mapped = s.icon[t].wants
    /\ (s.icon[t].aware /\ s.trayOut # NoOutput) => s.icon[t].parent # NoOutput

\* A click on a button that is out of date never brings a closed workspace back.
OpenedByUser ==
  \A w \in Workspaces : w \in Existing(i') \ Existing(i) => left'.user < left.user
NoRevival == [][OpenedByUser]_vars
=============================================================================
