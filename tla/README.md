# TLA+ models of i3-lite

This repository is a desktop around the tiling window manager i3: i3 itself
with its bar and its tools (`src/custom/i3`), i3status (`src/custom/i3status`),
dmenu (`src/custom/dmenu`), and scripts and configuration that tie them
together. The models here describe the parts of it whose correctness depends on
the order in which things happen. They are checked with TLC on small instances;
what matters most of the parts that allow it is proved with TLAPS for every
instance. Paths below are relative to `src/custom/i3/` unless they start with
`src/`.

Contents: [inventory](#1-the-system) · [modules](#2-the-modules-and-the-code) ·
[runs](#3-what-the-runs-show) · [proofs](#4-what-is-proved) ·
[disagreements](#5-where-the-code-disagrees-with-its-documentation-or-itself) ·
[limits](#6-what-is-not-modelled) · [plan](#7-plan)

## 1. The system

i3 is one process with one thread. libev's loop calls handlers: for events of
the X server (`handlers.c`), for commands that arrive from key bindings or over
IPC sockets (`commands.c`), for timers and for sockets. A handler changes the
tree of containers, then `tree_render()` computes rectangles (`render.c`) and
`x_push_changes()` pushes the difference to the X server (`x.c`). Everything
else is another process: the clients whose windows are managed, i3bar, i3-msg,
i3status behind i3bar, i3-dump-log. So there are no data races inside i3 (the
one exception is the PulseAudio thread of i3status), and what is hard is:

* long sequences of legal commands that leave the tree or its focus stacks in a
  state that nobody thought of: containers are linked in four lists, attached
  and detached by some fifty functions, closed when they become empty;
* events that clients, the user and timers cause in any order: a window closes,
  asks for fullscreen or for attention while another handler's result is still
  on its way;
* sockets that take half a message, peers that hang up, do not read, or do not
  send what they announced; a restart in between;
* memory shared with another process and no lock;
* queues of events of the X server that are stale when they are handled;
* nested event loops while something is dragged;
* child processes that are stopped, continued, killed, or write slowly.

### Components

| Component | State it keeps | Operations | Correct when |
| --- | --- | --- | --- |
| Container tree: `src/con.c`, `src/tree.c`, `include/data.h` | `struct Con`: parent, `nodes_head`, `floating_head`, `focus_head`, layout, fullscreen mode, urgency, the urgency timer; `focused` | attach, detach, focus, close, split, flatten, fullscreen, layout, swap, move to a workspace, urgency | the lists agree with the parents, no container is left empty, the focused container heads every focus stack above it and is not obscured, urgency adds up |
| Workspaces: `src/workspace.c` | workspaces below outputs, which one is visible, previous workspace | get or create, show, close when left empty, encapsulate, force an orientation | every output shows exactly one, an empty one that is not shown is gone |
| Moving in a direction: `src/move.c` | the tree | `tree_move()` | a well-formed tree, focus kept |
| Floating: `src/floating.c` | floating containers, geometry | enable, disable, toggle, raise, drag, resize | a floating container holds one child and is never focused itself |
| Commands: `src/commands.c` and the generated parser | the matched containers, replies | one handler a command | the tree's properties; errors change nothing |
| X11 events: `src/handlers.c`, `src/manage.c` | ignored sequence numbers | manage, unmap, client messages, properties, enter | a window is managed exactly while its client wants it |
| Pushing state: `src/x.c`, `src/render.c` | `con_state` per container, stacking order, `ignore_unmap` | push differences, move, map, unmap, set focus | every unmap that i3 causes is counted and ignored once |
| Shared memory log: `src/log.c`, `i3-dump-log/main.c` | ring buffer, markers | `vlog()`; dump, follow | a dump is complete lines in order |
| IPC server: `src/ipc.c`, `libi3/ipc_recv_message.c`, `libi3/safewrappers.c` | clients with queue, write watcher, timer, subscriptions | accept, read, reply, broadcast, push, time out, hand over at a restart | messages whole and in order; a client that does not read is disconnected, and no other |
| Startup notification: `src/startup.c` | sequences with a libsn context, a workspace and a 60 s timeout | start, complete, time out, prune, rename | each context is freed once, the cursor goes back |
| Outputs: `src/randr.c`, `src/xinerama.c`, `src/fake_outputs.c`, `src/output.c` | outputs, active or disabled, with contents | query, initialise, disable, move contents, primary | no workspace is lost when an output goes, focus stays valid |
| Layouts: `src/restore_layout.c`, `src/load_layout.c` | placeholder windows, swallow criteria | append, open placeholders, restart the connection | a placeholder is replaced once |
| Bindings: `src/bindings.c`, `src/key_press.c`, `src/click.c` | modes, grabs, release bindings waiting | press, release, switch mode, translate, ungrab | the release of a key runs the binding its press matched |
| Dragging: `src/drag.c`, `src/tiling_drag.c`, `src/resize.c` | a grabbed pointer and a nested loop | drag, abort | grabs are given back, containers that vanish meanwhile are not used |
| Scratchpad: `src/scratchpad.c` | containers in `__i3_scratch` | move, show, fix resolution | a shown window can be hidden again |
| Assignments, matching: `src/assignments.c`, `src/match.c`, `src/window.c`, `src/regex.c` | assignments a window has run | match, run | each assignment runs once a window |
| Command and configuration parsers: `src/commands_parser.c`, `src/config_parser.c`, `src/config_directives.c`, `src/config.c` | state, stack of tokens, configuration | parse, include, reload | an error skips one line, the stack fits |
| EWMH: `src/ewmh.c` | properties of the root window | update | indices agree with the workspaces |
| Main, restart and signals: `src/main.c`, `src/sighandler.c`, `src/sd-daemon.c`, `src/xcb.c` | the loop, the crash dialog | start, restart in place, crash | the layout survives a restart |
| Sizes: `src/render.c`, `src/resize.c`, `src/gaps.c`, percentages in `src/con.c` and `src/commands.c` | `percent` per container, gaps of the configuration and of each workspace | open, close, move, split, swap, resize; `gaps` | shares are positive and make up the whole, cells keep the gaps and fill the area, no gap sinks below zero |
| Utilities: `src/util.c`, `src/display_version.c` | none | text | – |
| libi3 other than IPC | fonts, surfaces, strings | draw | – |
| i3bar child: `i3bar/src/child.c`, `i3bar/src/parse_json_header.c` | the status command: pid, stopped or not, its blocks | start, read, click, stop, continue, kill | the child runs exactly while the bar is shown, and is reaped |
| i3bar IPC and model: `i3bar/src/ipc.c`, `outputs.c`, `workspaces.c`, `mode.c`, `config.c`, `main.c` | its copy of outputs and workspaces | subscribe, request, apply events | the copy catches up with i3 |
| i3bar drawing and tray: `i3bar/src/xcb.c` | windows, tray clients | draw, dock, undock | – |
| i3-msg, i3-input, i3-nagbar, i3-config-wizard | – | sequential clients | – |
| i3status: `src/custom/i3status` | cached volume, the second to wake | the main loop; the PulseAudio thread | a volume change is shown at once |
| dmenu: `src/custom/dmenu` | items, matches, pages | filter, page, select | – |
| Scripts and configuration: `src/src`, `src/config`, `src/install.sh` | – | – | – |

### Who talks to whom

* clients → X server → `handlers.c` → tree → `x.c` → X server. The events an
  operation of `x.c` causes come back later, mixed with those of the clients.
* key press → `bindings.c` → `commands_parser.c` → `commands.c` → tree; the same
  handlers run for a command over IPC, and an assignment (`for_window`).
* tree, workspaces, outputs, modes → `ipc_send_event()` → i3bar and scripts.
* i3bar ↔ status command over two pipes; clicks travel back.
* `vlog()` → shared memory → i3-dump-log, without a call between them.
* `i3-msg restart`: the tree is written to a file, the process is replaced, the
  requester's socket and the layout are carried over.

The hazards this gives rise to are listed with their lines in
`PROJECT.json` (`hazards`), each with the properties that watch it, or with the
reason why none does. Two have none: the wait for the payload of a request
(section 3, fairness) and the freed workspace of `con.c:1579` (section 6).

## 2. The modules and the code

`PROJECT.json` (`map`) names the source lines of every definition. Definitions
whose names are a variant of another (`MarkersStale` next to `Markers`) are the
code with a plausible mistake: each property is violated with one of them in
place, which shows that it depends on the code.

| Module | Models | Runs | Proofs |
| --- | --- | --- | --- |
| `Con`, `ConMove` | functions of `con.c`, `tree.c`, `move.c`, `floating.c`, `workspace.c`, `scratchpad.c` as operators from trees to trees | | |
| `Tree` | commands, client messages and timers that change the tree, one action a handler | `tree_windows`, `tree_covering` | |
| `Drag` | clicks and drags over `Tree`: `click.c`, `drag.c`, `tiling_drag.c`, `resize.c` | `drag` | |
| `LayoutFile`, `Layout` | writing and loading a tree, placeholders, assignments, the restart, over `Tree` | `layout` | |
| `Workspaces`, `Outputs` | `workspace.c`, `ewmh.c`; `randr.c`, `xinerama.c`, `fake_outputs.c`, `output.c` and the workspace commands | `session` | |
| `XServer`, `XPush`, `Windows` | the X server; `x.c`; `manage.c` and the handlers of window events | `windows` | |
| `WindowLife` | the abstract specification of managing windows, which `Windows` implements | `windows` | |
| `BarChild`, `BarX`, `Bar` | i3bar: its children, its windows and tray, its connection to i3 | `bar` | `BarProofs` |
| `IpcService` | the abstract specification of the IPC server, which `IpcServer` implements | `ipc` | |
| `IpcServer` | `ipc.c`, its part of `libi3`, libev's loop, the clients | `ipc`, `ipc_drains`, `ipc_restart` | `IpcServerProofs`, `IpcServiceProofs` |
| `Parsers`, `CommandParser` | the tables, stack and walk of the parsers; `parse_command()` with criteria and marks | `input` | `CommandProofs` |
| `ConfigGrammar`, `ConfigParser` | `config.spec`; loading the configuration with variables and includes | `input` | |
| `Keys` | `bindings.c`, `key_press.c`: grabs, modes, releases | `input` | `KeysProofs` |
| `ShmLog` | `vlog()` and i3-dump-log | `programs` | `ShmLogProofs` |
| `Startup` | `startup.c` | `programs` | `StartupProofs` |
| `Dmenu` | dmenu | `programs` | |
| `Status` | i3status with its volume module and the PulseAudio thread | `programs` | |
| `Sizes` | shares, gaps and rectangles of tiling windows: `render.c`, `gaps.c`, `resize.c`, the percentages of `con.c` and `commands.c` | `programs` | `SizesProofs` |
| `MC…` | the instances; `MCParsers` also has the reference definitions that the parsers are compared with | | |

Parts that share no state (the programs around i3; keys, commands and the
configuration) are one run with a variable `part` that says which of them a
behaviour is about; the others keep their initial states.

### Container tree: `Con`, `ConMove`, `Tree`

`tree` has one field per field of `struct Con`: `nodes`, `floating` and `focus`
are the three TAILQs as sequences, `parent`, `layout`, `fs` (fullscreen mode),
`urgent`, `timer` (`urgency_timer` runs), the scratchpad's state, and `focused`, the
global variable. A freed container has no parent. Containers that the code creates
on the way come from finite pools, `Splits` and `Floats`; actions that would need
more are disabled (`SplitLeft`, `FloatLeft`). The root and the content container of
an output are left out: workspaces hang directly below their output, and the
pseudo output `__i3` has `__i3_scratch` where a run needs it.

A handler of i3 runs to its end before the next, so it is one step, however many
functions it calls. This is why `Con` and `ConMove` define operators that are
composed (`Activate(FloatingEnable(t, c), c)`) and not actions. An intermediate
state of a handler is the parameter `u` of an operator, one per phase of the
function. What is nondeterministic is which handler comes next, and with which
arguments: `MapWindow`, `UnmapWindow`, `UrgencyHint`, `ClientFullscreen` are up to
clients; `EnterWindow` to the mouse, which reaches only what is on the screen;
`TimerFires` to time; the rest to the user and to pagers. `scenario` is chosen at
the start and says which kinds of events a behaviour has, whether commands may
name any window and not just the focused container (`byCriteria`), and where the
focus is at first.

Several places look stranger in the code than one expects, and are modelled so:
`con_attach()` puts a window behind the focused one but at the tail of the focus
stack; `con_focus()` clears the urgency of the container it reaches and
updates its parents; `con_set_urgency(false)` does nothing while the timer
runs; `tree_close_internal()` picks the next focus before it detaches;
`con_on_remove_child()` closes parents upwards, up to a workspace; `con_swap()`
goes by the neighbours.

`Drag` adds `drag`, the locals of the handler that runs the event loop again
(what is dragged, the target, whether it had the focus or was fullscreen):
`tiling_drag()`, `floating_drag_window()` and the two resizing ones. While it is not
`Idle` any other handler may run, and the container it points to may close. Where
the pointer is, is a choice among the drop targets of the code. Using a freed
container and the failed assertions of `tiling_drag.c` end a behaviour
(`drag.kind` `"freed"`, `"assertion"`).

`Layout` adds `desk`: which X window is in a leaf, criteria and placeholders of
containers that wait (`swallows`, `states`), rules run, the queue of MapRequests.
The text of a layout is a sequence of tokens; `LayoutFile` has `dump_node()` and the
callbacks of `load_layout.c` one by one, with their statics. `Restart` writes the
tree, loads it and manages the windows again in the order of the stack.

### Workspaces and outputs: `Workspaces`, `Outputs`

Here the tree ends at the windows: `s` has the output structures of `randr.c` (`out`,
`known` for the list), the containers (`cons`, `nodes`, `focus`), the focus, the name
for back and forth and what `ewmh.c` published. `x` is the configuration of the
server, which changes at any moment; `pending` is an event that i3 has not handled,
`missed` one that `main()` threw away. `plan` chooses the way of asking (RandR 1.4,
1.5, fake outputs, none), the configurations, assignments and commands.
`RandrQueryOutputs` is `randr_query_outputs()` in the order of its loops: clones,
containers, stale outputs, changes, workspaces, primary, EWMH. Using a workspace that
was freed sets `s.freed` and ends a behaviour.

### Windows and the X server: `XServer`, `XPush`, `Windows`

`x` is the server: windows, frames, what is mapped, the stack, the input focus, the
event queue. `u` is i3: `con_state`, the containers as far as `x.c` reads them, the
requests on their way (`wire`) and where a handler waits for a reply (`pc`); the
server executes one request at a time between the clients' own, so every event may
be outdated when i3 handles it. `manage_window()` is cut into three steps exactly
where it waits for the server. `story` and `taken` are history variables. Event
masks are kept as far as they decide which unmaps come back.

`WindowLife` knows only what each client did with its window and what is managed:
`Manage` takes a window for a "show", `Release` lets it go for a "hide" behind
that. `Windows` implements it under the mapping `Life` (`LifeSpec`), checked by TLC.

### i3bar: `BarChild`, `BarX`, `Bar`

`s` is i3bar with the processes of its two commands (`child`, `proc`), its bars and
tray (`out`, `icon`), the requests not yet served (`toI3`), and the X queue (`x`);
`i` is i3: active outputs, workspaces, mode, subscriptions, and `toBar`, what is on its
way back. Handlers are one step each except where i3bar waits: for the end of a
child (`killStatus`, `killWs`), for a pipe with room (`writing`). A process that was
just forked is out of reach of `killpg()` until it has called `setpgid()`
(`"young"`). `I3BarConfig` is a reload, or one of the commands `bar mode` and
`bar hidden_state`, which change one field of a configuration. `left` is what the environment may still do, `missed` the subscriptions
that came later than a change.

### IPC server: `IpcServer`

`client[c]` is `struct ipc_client`: the queue (`buffer`), whether the write
watcher runs, the state of its timer, and behind it what the kernel holds for
the peer (`socket`). An iteration of the loop is `Poll`, which takes note of all
that is ready (`pending`), followed by the callbacks, in any order but those of
timers last, because `ev_set_priority(timeout, EV_MINPRI)`. Stopping a watcher
takes back its pending callback (`StillPending`). `ipc_recv_message()` reads in
a loop until the payload is there; while it does, `reading` is set and i3 does
nothing else. Clients write (`SendHeader`, `SendPayload`), read (`Receive`) and
hang up at any moment, also in the middle of a callback's wait. A message is two
units, header and payload: what it takes to tell a message that was cut from one
that was not. `sent`, `full`, `ticks` and `carried` are history, read by properties
only, except that `sent` numbers the messages.

`IpcService` is what this comes to for the clients: what a client wrote and i3 has not
handled (`requests`), one queue of what was sent to it and it has not read (`box`), and
what it has read. A request is handled whole and in one step, a broadcast reaches all
subscribers in one step, a connection may be lost at any time with the end of its
queue, and a restart loses all but one. `IpcServer` implements it (`ServesClients`):
`Unhandled` puts the header that is being read back in front of the rest, `Posted`
joins the socket and the queue. `ReadHeader`, `Writeable`, `Elapse`, `Poll` and `HangUp`
are stutters, `ReadEnd` and `Timeout` lose a connection.

### What tells i3 what to do: `Keys`, `CommandParser`, `ConfigParser`

`Keys` has the server's side (`held`, `locks`, `group`, `map`, `grabs`, the event
`queue`) and i3's (`binds` with their translated keys and marks, `mode`, the keymap
`known`, the group `current`). `reorder_bindings()` sorts by masks, `grab_all_keys()`
decides what is grabbed in a group, `get_binding()` finds the binding of a press or
a release.

Both parsers take lexemes, not characters. A step is one iteration of the loop over
tokens; the stack, the criteria and the list of matched containers are static in the
code and outlive a call. `CommandParser` has `cmd_criteria_*()` and commands that
read or change what criteria match (marks, floating, focus). `ConfigParser` has the
two passes over a file, `include` with its stack of parsers, variables, errors,
the list of states by which a line with an error is skipped, and, at the end of each
file, `check_for_duplicate_bindings()` over the default mode's bindings so far. In `MCParsers` a second
definition says what a sequence of commands or a file means, by recursion on the
text, without the walk; `CriteriaReach` and `LoadedAsWritten` compare the two.

### The programs and the sizes: `ShmLog`, `Startup`, `Dmenu`, `Status`, `Sizes`

*Log.* A byte is the number of the message it belongs to and whether it is its
newline. Each store that the other process can observe is a step: the two
markers of `store_log_markers()`, the counter, the message. Inside the message
the bytes are stored at once: a reader that looks into a message being copied
prints a mix of old and new bytes in any case, and no property speaks of that.
The reader is `main()` of i3-dump-log without `-f`, with its two calls of
`check_for_wrap()`; one that would write a negative length or search past the end
stops in a state of its own (`negative`, `overrun`). `lens` is history: the lengths
that were logged.

*Startup.* The list of sequences, a timer and the references of each context of
libsn, the names of workspaces, and the messages that a program has started; time
passes in units of thirty seconds.

*dmenu.* The text, the cursor in bytes, the list of matches and the four places
in it (`sel`, `curr`, `prev`, `next`), one action per key.

*i3status.* The main thread by its statements between two locks, the library's
thread by its callbacks; the cache, the mutex and the library's lock; the sound
server as a queue of requests and one of answers and events. A device is configured as
`"pulse"` (`forced`: the volume is asked for first, and 0 is shown while there is no
PulseAudio) or as `"default"` (the description first, and ALSA takes over).
`store_info_from_sink_cb()` calls `save_info()` twice in one expression, so its two critical
sections come in either order. `Unknown` is what is shown of a sink that is not in
the cache yet, `None` what is shown while PulseAudio is not ready.

*Sizes.* A split workspace with windows and at most one nested container, `box`. `share`
holds exact fractions where the code has doubles: `part[c]` of `whole[p]`; `FixPercent` is
`con_fix_percent()`, called where the code calls it. Every command ends with
`tree_render()`, so rectangles are no state but operators on it, one per function of
`render.c` (`PrecalculateSizes`, `Laid`, `Placed`). The gaps are a global record and one for
each workspace; `GapsUpdate` is one call of `gaps_update()`, `CmdGaps` the command.

## 3. What the runs show

All runs but `ipc_restart` pass: TLC visits every reachable state of the
instance. Deadlock is not checked in any of them: the bounds on messages, plans and
changes run out, and a tree without a command kind that applies has nothing to do.

| Run | Instance | Properties |
| --- | --- | --- |
| `tree_windows` | 2 outputs, 2 workspaces, 3 windows, 2 split containers; 159,344 states | `TilingStands` (`WellFormed` and `FocusPath`), `SwapUndoes`, `FocusStays` under splitting, layouts, moves in four directions, swaps, focus parent and child, switching, closing |
| `tree_covering` | 2 outputs and the scratchpad's, 3 workspaces, 3 windows, 1 split, 2 floating containers; seventeen scenarios; 91,755 states | `CoveringStands` (`TreeStands` and `FocusSeen`), `MoveLeavesFocus`, `UrgencyFollows` with floating and fullscreen containers, the scratchpad, the mouse, pagers, urgency and its timers, focus in a direction |
| `drag` | 2 outputs, 2 workspaces, 3 windows, 1 split, 1 floating container; 23,467 states | `DragKeepsTree`, `DropKeepsFocus`: four kinds of drags, with commands, closing and opening windows in the middle |
| `layout` | 1 output, 2 workspaces, 2 clients, 7 placeholders, 1 append, 1 restart; 36,484 states | `WaitsWithPlaceholder`, `RestartKeepsTree`, `NoWindowLost` in six kinds of sessions |
| `session` | 3 outputs and the root's, 7 workspace names, 2 windows; 96,737 states | `SessionStands`, `WorkspacesReached`, `AssignmentsHonoured`: outputs come, go, swap and are cloned; every workspace command |
| `windows` | 2 clients, 3 frames, 2 workspaces; 939,922 states | `IgnoreOwed`, `ServerFollows`, `FocusFollows`, `LifeSpec` with every order of requests, events and clients' doings |
| `bar` | 2 outputs, 2 workspaces, 1 tray client, pipes of 2 lines, six plans; 1,612,959 states | `ChildrenServed`, `BarsShowI3`, `TrayFollows`, `NoRevival` |
| `ipc` | 2 clients, sockets of 3 units, 2 requests of any kind, 2 events; 2,050,627 states | `CallbacksFollow`, `OnlyStuckTimesOut`, `ServesClients` |
| `ipc_drains` | the same with subscriptions, ticks, restarts; 93,653 states | `Drains` under fairness |
| `ipc_restart` | *violation* | `NeverInTheMiddle`, section 5 |
| `input` | keys: 3 keys and 2 modifiers, keymaps, 2 groups; 2 calls of `parse_command()`; files of up to four lines loaded twice; 873,958 states | `GrabsFollow`, `ReleaseRuns`, `CriteriaReach`, `MarksUnique`, `LoadedAsWritten` (which has `ErrorsTold` and `FilesListed`) |
| `programs` | log of 8 bytes, messages of length 2 (10 of them) or 1 and 3 (5); 2 programs, 2 workspaces, 3 names, 90 s; a menu of 5 items; 2 sinks, 2 changes; 3 windows and a nested container in 40 × 40 pixels, 4 configurations of gaps, 5 commands; 441,646 states | `MarkersTellTheLog`, `DumpIsTheLog`, `OpensWhereStarted`, `ContextsLast`, `MenuFollows`, `StatusShowsVolume`, `SharesAddUp`, `CellsApart`, `GapsStay` |

### Why the instances are large enough

*Tree.* Three windows are the fewest with a first, a middle and a last sibling,
with one that is focused, one that is next in the focus stack and one that is
neither; with two split containers they nest, which is what moving into and out of
branches and flattening need. Two outputs tell the current from the other; a third
workspace makes one that is not shown on any output. Windows are symmetric:
nothing in `Tree` tells them apart. Each scenario takes the kinds of commands that
interact with its properties, because all of them together are out of reach.
The kinds left out of a scenario matter: some combinations break the properties,
and those are in section 5. The wrapping mode and `focus_on_window_activation` are
chosen for each command, since a reload may change them.

*Drag and layout.* One drag at a time, but everything it can meet: the target
closes, the dragged window closes, becomes fullscreen or floats. Layouts: two
containers that wait for the same or for different windows, in a row and in a split
container; seven placeholders are what one append, kills and a restart can need. A
client maps its window once.

*Session.* Two outputs swap places, become one (clones), vanish one by one; a third
is for what is moved to "the first" or "the next" of several. The names include
two with the same number and one without.

*Windows.* Three frames for two windows: one comes again while its old frame is not
gone. `ignore_unmap` has its eight bits. What a behaviour may spend is in `ManyPlans`:
up to two switches with two clients' doings, one with three, a restart with a window
that was there before, a sticky group.

*i3bar.* Pipes of two lines fill after one click, whose first line is the opening of
the list. Each of the six plans takes events that interact: modifier, modes and
configuration with the first command's lines and its death; fullscreen windows,
outputs and commands on the bar; outputs and the tray; workspaces opened and closed with clicks; clicks with
deaths and another command; the workspace command.

*IPC.* Two clients are needed so that one's requests, hang-up or wait hit the
other. The second client can subscribe while the first sends a tick, restarts or
is not read from; two messages and an event fill a socket of three units, half
and completely, with a queue behind it. For `Drains` a subscription is enough to
fill a queue: its reply and the first tick are four units.

*Input.* Two calls show what the statics of the first leave to the second; each kind
of criterion is there in every place. Files: four lines hold a block with an error
in it and something behind it; two files include each other, and bind the same key in
one of them or in both; longer files have bindings that differ in one thing each, and pairs
of one key. For keys the modifiers
Shift and Mod4, NumLock and a second group, and a press that changes mode or reloads.

*Programs.* With eight bytes and messages of two, ten messages are more than two
laps, so that the reader sees the markers of a lap replaced by those of the next
one; messages of 1 and 3 leave holes before the wrap. Startup: three units of time
are one more than the sixty seconds. Menu: two pages of items, some longer than the
page, with runes of two bytes. Volume: two changes are a change and another one on
its way.

*Sizes.* Five commands are enough to open three windows, nest one and resize or swap, or to
resize twice. `MaxWhole` bounds the denominators of shares at 60: halves, thirds, fifths and what comes of
two of them. The configurations have no gaps, outer gaps that make up for inner ones and
a workspace of its own kind, and each kind of smart gaps. Three instances: any tree and
resize commands with gaps fixed (`"shares"`); any `gaps` commands, reloads and docks
without windows, changed alike on all sides (`"gaps"`); any of these after three
commands on windows (`"cells"`). The theorem has no such limits.

### Fairness

Two properties need it. `Drains`: `WF(Loop)`: libev's loop goes on while something
is ready; a callback that could run is run. `WF(Elapse(c))`: time passes, and
`ev_timer` expires. `WF(SendPayload(c))`: a client that has written the header
of a request also writes its payload, or hangs up. The code does not ensure the
last one: `ipc_recv_message()` waits for the payload in a loop, so one client
that stops in between stops the window manager. It is listed as a hazard, and
the assumption is here so that `Drains` says something about the rest. Nothing
is assumed of clients reading: that is the point of the timer.

`StatusShowsVolume`: both threads run (WF for steps that wait for nothing; SF for
those that take a lock the other one takes and gives back again and again, as
the main thread sleeps between two lines), and the sound server answers (WF).
Nothing is assumed of when changes come.

## 4. What is proved

Each theorem holds for every value of the constants of its module: any number of
clients, outputs, keys, programs, any sizes and bounds.

| Theorem | States |
| --- | --- |
| `ShmLogProofs!HeaderTellsTheLog` | `Spec => []MarkersTellTheLog` |
| `ShmLogProofs!DumpIsAlwaysTheLog` | `Spec => []DumpIsTheLog` |
| `IpcServerProofs!TypeCorrect` | `Spec => []TypeOK` |
| `IpcServerProofs!CallbacksAlwaysFollow` | `Spec => []CallbacksFollow` |
| `IpcServerProofs!NobodyElseTimesOut` | `Spec => OnlyStuckTimesOut`, an action property |
| `IpcServiceProofs!AlwaysInOrder` | `Spec => []InOrder` |
| `IpcServiceProofs!ServerImplementsService` | `Spec => ServesClients`: `IpcServer` implements `IpcService` |
| `BarProofs!ChildrenNeverForsaken` | `Spec => [](NeverWaitsForStopped /\ ClickStream)`, two parts of `ChildrenServed` |
| `BarProofs!NothingRevived` | `Spec => NoRevival`, an action property |
| `KeysProofs!GrabsAlwaysFollow` | `KeySpec => []GrabsFollow` |
| `KeysProofs!AlwaysMostSpecific` | in every mode, after every translation, bindings stand in the order of their masks |
| `CommandProofs!AMarkAlwaysNamesOne` | `CSpec => []MarksUnique` |
| `StartupProofs!ContextsAlwaysLast` | `USpec => []ContextsLast` |
| `StartupProofs!AlwaysOpensWhereStarted` | `USpec => []OpensWhereStarted`, if commands spell a workspace as it is named |
| `SizesProofs!GapsNeverSink` | `SizesSpec => GapsStay`, an action property |
| `SizesProofs!GapsAlwaysBounded` | `SizesSpec => []GapsBounded(gaps)`, if what every configuration says is bounded so |

The assumptions are those of the modules, by name: `ShmLogAssumption` (the header and
the largest message fit the buffer with a byte to spare; `open_logbuffer()` takes
whatever size the user gives, `vlog()` formats at most 4096 bytes), `IpcAssumption`
(a socket holds at least one unit, request types are those of the protocol, bounds
are numbers), `BarAssumption` (a pipe holds at least one line, budgets are numbers),
`KeysAssumption` (there is a mode `default`, none is called `reload`, bindings are
sequences), `CommandAssumption` (`all_cons` lists a container once),
`NamesAssumption` (workspaces can have different names), `SizesAssumption` (gaps are
integers, the amounts of `gaps` commands are not negative, as in the grammar). The theorem on names has one
hypothesis of its own, that a renaming command spells the workspace as it is named;
what happens otherwise is in section 5. `GapsAlwaysBounded` has one too, because the
parser lets a configuration say any gaps; `GapsNeverSink` needs none.

### The arguments

*The markers of the log.* `MarkersTellTheLog` speaks of the moments between two
calls of `vlog()`. `WriterInv` says where `logwalk` is at each position in `vlog()`:
at the top after a wrap, and with room for `len` until the copy; the copy's bounds
need it, because `StoreWrapMarkers` and `CountWrap` come between the decision that a
message fits and the copy. `Laps` says what the bytes are wherever the writer stands:
up to `logwalk` the messages of this lap, one after the other (`Consecutive`), from
there to `lastwrap` what is left of the lap before, whose last message is the one
before this lap's first. Copying overwrites the front of the old part, so the lemmas
are about parts and extensions of consecutive bytes. Both are functions of `logwalk`
and `lastwrap`, not of the header, which lags behind.

*The dump.* The reader has no part in the writer's invariant and the writer changes
what the reader stands on at any moment, so two invariants are kept: `Searching`,
which holds while the writer runs, and `Dumping`, which says something only while
nothing was logged since the dump began (`Frozen`). `Searching`: from any byte that
was ever written there is a newline behind it in the mapping, because bytes are
only ever replaced by messages that end in one, so the reader's search for the end
of a line cut by the writer stays inside. `EvenInv` says that messages of one length
start at the same places in every lap (`Aligned`), from which no length is negative;
with several lengths it is false, and so is the claim (section 5). `Dumping` follows
the reader: the old lap is complete behind the first newline, what is printed ends
the lap before, and this lap follows it (`EndsLap`, `Dumped`).

*The IPC server.* The inductive invariant `IInv` has five parts. `AllSound`: every
connection has its type and its socket is not over-full; watcher, timer and queue go
together, also for freed ones. `Forgotten`: nothing is pending for a freed
connection. `Due`: what is pending is still due; a timer callback belongs to an
expired timer, and to a client that had no room at the last poll or whose write is
pending as well. The latter is what `OnlyStuckTimesOut` needs: timers come last, so
the write has been called by then, and `Push` on a socket with room makes the timer
run anew, which takes the callback back. Without the priority of the timer the step
fails. `Framed`: in what a client has written, payloads follow exactly the headers
that have one; otherwise a payload could be taken for a header. `Plain`: types.
`PushMoves` is the lemma on `ipc_push_pending()` that all steps use: it moves a
prefix of the queue to the socket, leaves their concatenation alone, and sets watcher
and timer by what remains.

*Order.* `Ordered` adds to `IInv` that what was read, what is in the socket and what is
queued, in this order, are the units of the messages sent, numbered from one
(`InStep`). Pushing moves the border between queue and socket, reading the one between
socket and client, and `Frame` appends two units of the next number; none changes
another connection. A connection that a restart carried over is excluded, and the run
`ipc_restart` shows why.

*The service.* Every step of `IpcServer` is one of `IpcService` or a stutter, from `IInv`
alone. The lemmas follow the mapping: `PushMail` (pushing leaves socket and queue
together as they are), `SendMail` (a message is put behind both, written at once or
not), `DroppedMail` (what goes with a connection is an end), `FirstStep` (the request
whose payload has arrived is the first that was not handled, with its payload behind
it, which is `Framed`). A restarted connection is no exception here: it loses the end
of its queue, and the reply follows, perhaps in the middle of a message. `InOrder`,
which is about connections without a restart, is no longer checked by a run of its own
since the service queues numbered messages and hands them out from the front; it is proved.

*i3bar's children.* `BarInv` says that what i3bar remembers of a child is true:
a process that is stopped was stopped by i3bar, and a child that may be stopped may
be continued (`Kept`); what the status command was sent and what is still in
`toWrite` are one opening and then clicks (`Streams`); a child that i3bar waits for is
not stopped (`Waits`). Every handler either leaves the children alone (`Same`) or is
made of the six operations of `child.c`, which is shown once each. That clicks come
behind one opening needs that the configuration is read once before any child
exists, so `BarInv` follows the conversation with i3: `Unasked`, `Answered`,
`Configured`. From the same invariant comes `NoRevival`: before the configuration i3bar
asks for nothing by name; after it, its requests are the four of `Requests`, a click on
a button names a workspace by an id (`focus`), which i3 ignores when it is gone; so
only the user's own budget opens a workspace.

*Keys.* `reorder_bindings()` permutes and sorts (`ReorderBindings` is defined by ranks; the
lemmas show that ranks are a bijection). `KeysInv`: the bindings of every mode keep
their shape and order; what is grabbed is what the mode says in the group that i3
knows of (`GrabsOfTheMode`); and with what is still in the queue i3 will know the
server's group, since the newest notice is of it, and its keymap, if it is announced
as a new keyboard (`KeymapLearnt`): then the bindings are already translated with the
keymap known. With an empty queue that is `GrabsFollow`. A new keyboard without new keycodes is announced, too, but the
keymap not loaded again: `known` is as good as before. With `XkbMapNotify` it is
false: section 5.

*Marks.* The parser may be anywhere in its walk, with any criteria and any list of
matches from earlier calls; the proof assumes nothing of them. `Unique` is inductive
because `con_mark()` takes the mark from the first container that has it, and there
is at most one.

*Startup.* `UInv` adds to `ContextsLast` the types and `OneSequence`: a program has one
sequence at most, and a sequence or a timer only when it was started. The references
of a context are the sequence and the timer that hold it (`HoldersOf`). `NamesInv` adds that
no two workspaces have the same name, without which a renaming would take along the
sequences of another.

*Gaps.* `GapsTyped` says that gaps are integers throughout. `GapsBounded` is inductive for the
`gaps` commands, but not one update at a time: an update bounds what it writes, inner
gaps by themselves and those of a side together with the inner gaps of that moment
(`InnerWritten`, `SideWrittenForAll`, `SideWrittenForOne`). Fewer inner gaps raise the limit of the sides, which is why
`cmd_gaps()` writes the sides again, by nothing, after the inner ones; the mutant without
that breaks the property. A command for one workspace and one for all leave the other
record bounded because `gaps_update()` compensates in the workspaces what the global
value takes away.

### What is only model-checked, and why

* `Con`, `ConMove`, `Tree`, `Drag`, `Layout`, `LayoutFile`, `ConfigParser`,
  `MCParsers`: containers and texts are recursive data, and the operators on them are
  recursive; `tlapm` loses its SMT backend in modules with `RECURSIVE`, and none of
  the installed provers can do induction over data.
* `Workspaces`, `Outputs`: handlers are folds over lists of outputs, workspaces and
  windows (`FoldLeft`, `SelectSeq`), whose laws are induction over data.
* `Windows`: the same of `x_push_changes()`. `LifeSpec` is moreover not true of every
  instance: two windows in one sticky group (section 5).
* `Bar`: `BarsShowI3`, `TrayFollows` and `ChildFollowsBar` speak of states in which
  nothing is on its way, and of loops over bars that are folds over sets.
* `Dmenu`: `MenuFollows` counts widths of a filtered list (`SelectSeq`, sums).
* `Keys`: `ReleaseRuns` is false in general (section 5) and checked for bindings of
  which it is true. `CriteriaReach` and `LoadedAsWritten` compare with
  recursive definitions.
* `Sizes`: `SharesAddUp` and `CellsApart` are about sums over children, which are folds
  over sets; of the gaps everything is proved.
* `Drains`, `StatusShowsVolume`: liveness under fairness needs `ENABLED`.

## 5. Where the code disagrees with its documentation or itself

`ipc_restart` is a run of its own, with the sentence it contradicts in `PROJECT.json`
(`findings`): the connection that is carried over a restart loses its queue. If its
first message was written in part, the new process's reply follows in the middle of
it.

Others were met while modelling and shape the models: what is undefined ends a
behaviour, and a scenario in which a property fails is left out of the passing run.
Some are kept as definitions that no run checks, to be checked when one wants to
see the counterexample; they are named in italics below.

### Container tree

| Property | Kinds together | What happens |
| --- | --- | --- |
| `FocusNotObscured` | fullscreen, output, direction | `move right` (any direction that leaves the output) attaches the focused window to the workspace of the other output and focuses it there, also behind a fullscreen container; `_con_move_to_con()` handles this for `move to workspace` |
| `FocusNotObscured` | fullscreen, global, output | `focus output` under a globally fullscreen container focuses behind it; `workspace` ends global fullscreen first |
| `FocusNotObscured` | fullscreen, global, focus, assign | focusing a window by criteria ends the global fullscreen mode, but not that of the container on the window's own workspace |
| `FocusNotObscured` | pager, fullscreen | a `_NET_WM_DESKTOP` request, or a move by criteria, of an unfocused fullscreen window to the focused workspace covers the focused window |
| `FocusNotObscured` | float, fullscreen, split | floating a window out of a fullscreen split container leaves the focus behind it |
| `OneFullscreen` | request, fullscreen, global, output | a client's request under a globally fullscreen container leaves a second fullscreen container on its workspace |
| `OneFullscreen` | fullscreen, output, direction | `move right` of a fullscreen window to a workspace that has one leaves two |
| `FocusPath` | dialog, float | making the focused floating window tiling, with no other tiling window, leaves it last in the focus stack (`floating_disable()` attaches at the tail) |
| `FocusPath` | dialog, layout | a layout command on a workspace with a floating window puts the new split container behind the floating window in the focus stack |
| `FocusPath` | direction, by criteria | the same when a window in the focused split container is moved in a direction by criteria |
| `FocusPath` | sibling, by criteria | `[criteria] focus next sibling` of a window on a hidden workspace focuses without showing it |
| `NoFloatFocused` | level, float, split, by criteria | floating the only child of the focused split container focuses the floating container; `tree_split()` on that would corrupt its lists, as it asks `con_is_floating()`, which is false of the floating container itself |
| `UrgencyShown` | split, float, urgent, focus, by criteria | a split container stays urgent after its urgent window was made floating |
| `UrgencyShown` | urgent, scratchpad | `_con_move_to_con()` saves the urgency, focuses the child, which clears it, and sets it again on the floating container, which is not focused itself (con.c:1495): the workspace stays urgent without an urgent window |
| urgency of split containers | split, urgent, level | a split container made around an urgent window is not urgent |
| `UrgencyFollows` | output, assign, move; pager, urgent | moving the focused window away from a visible, unfocused workspace focuses its neighbour in passing and clears that one's urgency |
| `UrgencyFollows` | mouse, urgent, no delay | entering a window of an urgent workspace clears the urgency of another one there; so does a fullscreen request on a hidden workspace |
| `WorkspacesShown` | fullscreen, global, move, workspace | `move to workspace` creates the workspace and is then refused under global fullscreen; the empty workspace stays |
| `WorkspacesShown` | request, workspace, output | a fullscreen request from a hidden workspace puts that workspace at the head of its output's focus stack |
| no fullscreen there | request, scratchpad | a client's request makes a hidden scratchpad window fullscreen, though `scratchpad.c:44` says it "should never be in fullscreen mode"; so does moving a split container with a fullscreen child there |
| focus on `__i3_scratch` | global, scratchpad, by criteria | `[criteria] fullscreen enable global` on a scratchpad window leaves the focus there, as `workspace_show()` returns early |

*Dragging.* `tiling_drag()` tests for `DRAG_REVERT` only: after `DRAG_ABORT`, which is
what a vanished container gives, it drops a freed container, and
`resize_graphical_handler()` goes on likewise. The assertion of `tiling_drag.c:404`
fails with the swap modifier on a fullscreen window of another output; a refused
`con_swap()` returns at once, so a fullscreen window dragged onto a workspace with
that modifier just loses fullscreen. `drag_callback()` that returns early keeps the
earlier target. A window made floating while it is dragged gets a second child into
the floating container. Dropping a focused window beside a fullscreen one leaves
the focus behind it. Moving onto a workspace whose focus is floating
(`tiling_drag.c:337` "Also handles workspaces.", also `move container to mark`) loses
the container: `con_move_to_target()` descends to the floating one and inserts
behind it in a list it is not in (scenarios *Mixed* of `MCDrag`).

### Layouts and the restart

The marks of split containers are lost (`json_key` resets their number, though
`load_layout.c:36-40` says otherwise); a hidden window that is fullscreen on its
output is dropped when another is fullscreen globally; a tiled dialog floats again;
focus stacks under fullscreen change; a window that a waiting container matches, or
a `for_window` rule, moves at a restart; one that closes meanwhile leaves a
placeholder that waits for ever; MapRequests not yet read are lost. A restart while a
placeholder's own MapRequest is unhandled writes an empty `swallows` entry, and the
whole layout is lost. A client's MapRequest that was unread when a layout is
appended is replaced by the placeholder's (`manage.c:28`). Title criteria can equal a
placeholder's name. A rule that runs `append_layout` during the restart hangs under the
server grab. A killed placeholder leaves `state->con` dangling until the connection
is made again (`restore_layout.c:80`). A parse error leaves marks pending and children
attached. The branch "Fix erroneous JSON" attaches later siblings into the new
floating container. `RestartKeepsTree` names its exceptions (`Disputed`).

### Workspaces and outputs

Events between start and loop are thrown away unless they are MapRequests
(main.c 1098–1131), so a change of outputs can be missed (`missed`). RandR 1.4 asks for
each CRTC separately and may get a later configuration; `free(new)` when the reply is
`NULL` leaves it in the list. `move_content()` leaves two workspaces of an output in
fullscreen mode. `init_ws_for_output()` keeps a workspace that it closed
(randr.c:522); `cmd_move_con_to_output()` keeps a static list of names when the match is
invalid; main.c 975–987 destroys containers of the list it walks over. `workspace next`
from a named workspace reaches no number when the first output has none. Moves, and
new outputs, overwrite the name for back and forth. *FocusOutlivesMoves*: moving the
focused workspace (commands.c:2206, scenarios `Plugging`).

### Windows

*NoGhost*: an `ignore_unmap` counted once too often makes i3 overlook a withdrawal
(`Plan(1, 3, 0, 0, {})`); `IgnoreOwed` allows the one that the reparenting of a sticky
window adds. A window destroyed between the mask `NONE` and the reparenting, a
FocusIn that races a switch (handlers.c:1107), and a withdrawal in a switch
followed by a map leave a container without its window, the input focus elsewhere, a
window that is never shown. With two windows in one sticky group
`workspace_reassign_sticky()` overwrites `current->window`.

### i3bar

*OutputsFollow*: `i3bar/src/ipc.c:124-126` says that the order of the subscription and
the first request keeps i3bar up to date; outputs are asked for before, so a change in
between is never learnt. *NotStoppedInView*: a visibility event missed the same way
leaves the status command stopped. A process killed before it called `setpgid()`
misses its SIGTERM. `parser_context.has_urgent` is never reset, the modifier's state
grows stale, the tray docks a client twice after a `kick`, a command that does not
read blocks i3bar in its `write()`.

### IPC and the log

*TickWritten*: `docs/ipc` says that the tick event has been written to all subscribers
when the reply arrives; each connection has its own queue, so another subscriber's
event may still be in i3. i3-dump-log computes `offset_last_wrap - walk` bytes for the
lap before; when that lap ended early, because a long message did not fit, the length
is negative, against the comment at main.c:224. `DumpIsTheLog` allows that outcome if
messages differ in length, and the proof shows that it is the only cause.

### Keys

XkbMapNotify translates with the keymap before the change (handlers.c 1456–1468) and a
second one of the same sequence number is ignored. A keypad key bound by `bindcode` is
swallowed with NumLock. A binding with two groups is grabbed and never matches. The
release bindings of a group outrank an armed one with a modifier that was released
first. `^ XCB_KEY_BUT_MASK_SHIFT` adds Shift where it was to remove it. A press that switches the
mode has its release matched in the new one.

### Parsers

A container without a window is matched by the first criterion it has something for
(commands.c:205). *InvalidTouchNothing* (commands.c:44): a regular expression that does
not compile leaves the criteria empty, so the command applies to the focused window;
`[con_id=foo] unmark x` unmarks everywhere. *ErrorStaysInLine*: the state for bar
colors has no error token. `parse_file()` can return without changing back the
directory; a file with errors can be loaded twice; two bindings of a key make a load fail
without a line being reported, in the default mode only, and a file that ends behind two such
bindings leaves `included_files` though both may stand in the file that includes it; a variable set by an included
file is unknown to later siblings; a block without its `}` is lost without a word; an
unterminated quote swallows lines; `enter_mode` "default" keeps the earlier mode;
`ipc_kill_timeout` is not reset by a reload; counting and replacing variables differ for
names with two `$`.

### The programs

*Startup.* `rename workspace` finds the workspace in any case (commands.c:2163) and
`startup_sequence_rename_workspace()` compares with `strcmp()` (startup.c:263), though it
"Renames workspaces that are mentioned in the startup sequences."; with
`SpelledAsIs = BOOLEAN` `OpensWhereStarted` fails. A sequence deleted with its window's
move before it completed leaves the watch cursor until the timeout.

*i3status.* `get_sink_info()` may use a context that the other thread has just set to
`NULL` (a state of its own, `"crashed"`); the cache is not refreshed after the server
came back with the same default sink; a change between the query for the default
and the subscription is lost; SIGUSR1 does nothing unless the main thread sleeps;
description and volume can be of different moments. `nanosleep()` refuses the 10^9
nanoseconds that remain on a full second (i3status.c:956), and the next line follows at
once.

*Sizes.* The limit of outer gaps for all workspaces counts the configured inner gaps
(commands.c:2486) and forgets that a workspace may have fewer of its own, so a side can
become negative there; `GapsBounded` does not count a workspace's missing inner gaps.
What rounding leaves is taken away pixel by pixel (render.c:242), also from a child of
one pixel.

*dmenu.* A key without text inserts from an uninitialised buffer (a choice in the
model); Tab cuts a long item inside a rune. *i3-input* (not modelled):
`(ucs & 0xff00) >> 2` is to be `>> 8`, and its buffer of 512 glyphs has no bound.

## 6. What is not modelled

The components listed as `not_modelled` in `PROJECT.json`, with their reasons:
drawing, fonts, text output, sequential clients and shell
scripts have no state that interacts. Of the modelled ones:

* *Tree:* dock areas, percentages and rectangles (they are in `Sizes`), `workspace_layout`
  and with it `workspace_attach_to()` where a container is inserted (move.c:121), the focus order of
  the outputs under the root, which a move to another output changes (move.c:108), transient
  windows under `popup_during_fullscreen`, several windows matched by one command.
  Sticky windows are in `Windows`, marks in `CommandParser`, renaming, back and forth
  and moving workspaces in `Outputs`. `con_move_to_workspace()` of a workspace that is
  hidden (con.c:1579) needs criteria that match workspaces.
* *Drag, Layout:* coordinates, percentages, mouse bindings, geometry and borders in the
  file; one append and one restart, clients that map once.
* *Outputs:* a query is answered atomically; the loop over all containers (randr.c:465)
  runs over the list as it was at its start; outputs are in a row; work area and
  client lists.
* *Windows:* clients that take the focus with `WM_TAKE_FOCUS` only (x.c:1417), decorations, shapes, pixmaps, `render_con()`'s arithmetic.
* *i3bar:* colours, fonts, custom bindings, pixels.
* *IPC:* the contents of messages, `SYNC`, headers that arrive in pieces. A socket counts as
  writable (`POLLOUT`) with one free unit, where the kernel wants more to be free.
* *Keys:* mouse bindings, autorepeat, levels other than Shift and NumLock.
* *Parsers:* literals as prefixes and in any case, empty quotes, continuation lines,
  `set_from_resource`, regular expressions, directives of the same form as one that is
  there.
* *Log:* messages of 4 KiB and more, which are cut (log.c:267): lengths are below that by
  assumption. `-f`, opening and closing the log at run time. Stores are seen in program
  order, as on x86.
* *Startup, dmenu, i3status:* a program is started once; options, drawing and stest; the
  other modules of i3status and ALSA, `--run-once`, signals that end it, a main loop of
  PulseAudio that cannot start.
* *Sizes:* borders, fullscreen and floating windows, a second nested container, commands
  on several containers at once, the rounding of doubles.

## 7. Plan

Done, in this order: the tree; the IPC server; the log; windows and the X server with
`WindowLife`; startup; i3bar; outputs; layouts and the restart; keys, commands and the
configuration; dragging; i3status and dmenu; sizes and gaps. Proved: section 4.

Left, in order of importance:

1. Proofs: the unmap counter (`IgnoreOwed`) once the sums over queues in it are given
   by recursive functions with proved laws; that `Windows` without sticky groups
   implements `WindowLife`, step by step; the tray's records, which no fold touches.
2. An abstract tree of workspaces alone (which are open, which each output shows,
   which is focused) without recursion, so that `WorkspacesShown` can be proved of it and TLC
   can check that `Tree` implements it.
3. Sticky windows and marks in `Tree`; headers in pieces in `IpcServer`.

## Running

    tlc -workers 2 -config IpcServer.cfg IpcServer
    tlc -workers 2 -config TreeWindows.cfg MCTree
    tlc -workers 2 -config Outputs.cfg MCOutputs
    tlapm IpcServiceProofs.tla
    tlapm BarProofs.tla

A run takes from twenty seconds to three minutes with two workers, a module of proofs
one to five minutes.
