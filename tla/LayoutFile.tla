----------------------------- MODULE LayoutFile -----------------------------
(***************************************************************************)
(* The tree as JSON: dump_node() of ipc.c writes it, and the callbacks of  *)
(* load_layout.c, called by yajl for each token, read it back.  The text   *)
(* is a sequence of tokens; what concerns geometry and borders is left     *)
(* out, and a container is written with the name it has in Con.tla, which  *)
(* a file of the user replaces by the pool it is to be taken from.         *)
(***************************************************************************)
EXTENDS ConMove

CONSTANTS XWindows, Classes    \* windows, and what a criterion can ask of one

\* Match: an X11 window id, a regular expression (NoCon: not set), restart_mode
Matches == [id : XWindows \cup {NoCon}, class : Classes \cup {NoCon}, restart : BOOLEAN]
EmptyMatch == [id |-> NoCon, class |-> NoCon, restart |-> FALSE]

Token(kind, value) == [kind |-> kind, value |-> value]
Key(k) == <<Token("key", k)>>
Value(k, v) == Key(k) \o <<Token("value", v)>>
List(k, text) == Key(k) \o text \o <<Token("end_array", k)>>
Each(s, Text(_)) == FlattenSeq([i \in DOMAIN s |-> Text(s[i])])

-----------------------------------------------------------------------------
(* dump_node() *)

SwallowText(m) ==
  <<Token("start_map", NoCon)>>
  \o (IF m.class # NoCon THEN Value("class", m.class) ELSE << >>)
  \o (IF m.restart THEN Value("id", m.id) \o Value("restart_mode", TRUE) ELSE << >>)
  \o <<Token("end_map", NoCon)>>

\* on an inplace restart the window itself is what the container waits for;
\* other ids are not written
SwallowsWritten(swallows, window) ==
  SelectSeq(swallows, LAMBDA m : ~m.restart)
    \o (IF window = NoCon THEN << >>
        ELSE <<[id |-> window, class |-> NoCon, restart |-> TRUE]>>)

\* s has the tree, the swallow lists, the windows and the marked container
Attributes(s, c) ==
  List("marks", IF s.marked = c THEN <<Token("value", c)>> ELSE << >>)
    \o Value("focused", c = s.tree.focused)
    \o Value("layout", s.tree.layout[c])
State(s, c) ==
  List("focus", [i \in DOMAIN s.tree.focus[c] |-> Token("value", s.tree.focus[c][i])])
    \o Value("fullscreen_mode", s.tree.fs[c])
    \o Value("floating", IsFloating(s.tree, c))
Criteria(s, c) ==
  List("swallows", IF c \notin Windows THEN << >>
                   ELSE Each(SwallowsWritten(s.swallows[c], s.holds[c]), SwallowText))

RECURSIVE DumpNode(_, _)
DumpNode(s, c) ==
  LET child(x) == DumpNode(s, x) IN
  <<Token("start_map", c)>> \o Attributes(s, c)
    \o List("nodes", Each(s.tree.nodes[c], child))
    \o List("floating_nodes", Each(s.tree.floating[c], child))
    \o State(s, c) \o Criteria(s, c) \o <<Token("end_map", NoCon)>>

-----------------------------------------------------------------------------
(* The parser: p.node is json_node, p.t the tree as far as it is built *)

NewCell(t, name) ==
  IF name \in AllCons THEN name
  ELSE CHOOSE c \in (CASE name = "leaf" -> Windows [] name = "split" -> Splits [] OTHER -> Floats) :
         t.parent[c] = NoCon

\* json_start_map(): a child of the container, or of its workspace
StartContainer(p, c) ==
  LET parent == IF p.key = "floating_nodes" THEN Workspace(p.t, p.node) ELSE p.node
  IN  [p EXCEPT !.t.parent[c] = parent, !.node = c, !.open = @ + 1]
StartMap(p, name) ==
  IF p.inSwallows
    THEN [p EXCEPT !.swallows[p.node] = Append(@, EmptyMatch), !.swallowEmpty = TRUE]
    ELSE StartContainer(p, NewCell(p.t, name))

\* con_mark(MM_ADD): no other container keeps the mark
Marked(p) ==
  [p EXCEPT !.marked = IF p.pending = << >> THEN @ ELSE Last(p.pending), !.pending = << >>]

\* con_attach(), and floating_enable() for what was floating
Attached(t, c, parent) ==
  IF c \in Outputs THEN t ELSE AttachLast([t EXCEPT !.parent[c] = NoCon], c, parent)
Floated(t, c, floats) == IF floats THEN FloatingEnable(t, c) ELSE t
ParentIn(t, c) == IF c \in Floats THEN Workspace(t, t.parent[c]) ELSE t.parent[c]
Placed(t, c, floats, parent) ==
  Floated(Attached(t, c, parent), c, floats /\ parent \notin Floats)

\* the container of the map is complete; the next key belongs to its parent
Ended(p, c, t) ==
  [p EXCEPT !.t = t, !.node = t.parent[c], !.open = @ - 1,
            !.swallows = IF c \in Windows /\ Split(t, c) THEN [@ EXCEPT ![c] = << >>] ELSE @]
EndContainer(p, c) ==
  Marked(Ended(p, c, Placed(p.t, c, c \in p.floating, ParentIn(p.t, c))))

\* json_end_map()
EndMap(p) ==
  IF ~p.inSwallows THEN EndContainer(p, p.node)
  ELSE [p EXCEPT !.failed = p.swallowEmpty]

\* the last of the list goes to the head first, and a version the other way round
InFocusOrderReversed(stack, order) ==
  FoldLeft(LAMBDA s, c : IF c \in ToSet(s) THEN ToHead(s, c) ELSE s, stack, order)
InFocusOrder(stack, order) ==
  FoldRight(LAMBDA c, s : IF c \in ToSet(s) THEN ToHead(s, c) ELSE s, order, stack)

\* json_end_array()
EndArray(p) ==
  [p EXCEPT
    !.inSwallows = FALSE, !.inMarks = FALSE, !.inFocus = FALSE,
    !.t.focus = IF p.inFocus /\ p.node # NoCon
                  THEN [@ EXCEPT ![p.node] = InFocusOrder(@, p.order)] ELSE @,
    !.order = IF p.inFocus THEN << >> ELSE @]

\* json_key(); "marks" forgets the marks that have not been set yet
MapKey(p, k) ==
  [p EXCEPT
    !.key = k,
    !.inSwallows = @ \/ k = "swallows", !.inFocus = @ \/ k = "focus",
    !.inMarks = @ \/ k = "marks", !.pending = IF k = "marks" THEN << >> ELSE @]

\* json_string(), json_int() and json_bool()
SwallowValue(p, v) ==
  LET set(m) == CASE p.key = "class" -> [m EXCEPT !.class = v]
                  [] p.key = "id" -> [m EXCEPT !.id = v]
                  [] p.key = "restart_mode" -> [m EXCEPT !.restart = v]
      list == p.swallows[p.node]
  IN  [p EXCEPT !.swallowEmpty = FALSE,
                !.swallows[p.node] = Front(list) \o <<set(Last(list))>>]

MapValue(p, v) ==
  IF p.inSwallows THEN SwallowValue(p, v)
  ELSE IF p.inMarks THEN [p EXCEPT !.pending = Append(@, p.node)]
  ELSE IF p.inFocus THEN [p EXCEPT !.order = Append(@, v)]
  ELSE CASE p.key = "layout" -> [p EXCEPT !.t.layout[p.node] = v]
         [] p.key = "fullscreen_mode" -> [p EXCEPT !.t.fs[p.node] = v]
         [] p.key = "focused" -> [p EXCEPT !.toFocus = IF v THEN p.node ELSE @]
         [] p.key = "floating" -> [p EXCEPT !.floating = IF v THEN @ \cup {p.node} ELSE @]

\* a callback that returns 0 ends the parse
Feed(p, token) ==
  CASE token.kind = "start_map" -> StartMap(p, token.value)
    [] token.kind = "end_map" -> EndMap(p)
    [] token.kind = "end_array" -> EndArray(p)
    [] token.kind = "key" -> MapKey(p, token.value)
    [] token.kind = "value" -> MapValue(p, token.value)

RECURSIVE Parse(_, _)
Parse(p, text) ==
  IF p.failed \/ text = << >> THEN p ELSE Parse(Feed(p, Head(text)), Tail(text))

\* after an error: the containers whose map was not complete are freed; what
\* was attached to them is not
RECURSIVE FreeOpen(_)
FreeOpen(p) ==
  IF p.open = 0 THEN p
  ELSE FreeOpen([p EXCEPT
         !.t = Free([@ EXCEPT !.nodes[p.node] = << >>, !.floating[p.node] = << >>,
                              !.focus[p.node] = << >>], p.node),
         !.swallows = IF p.node \in Windows THEN [@ EXCEPT ![p.node] = << >>] ELSE @,
         !.toFocus = IF @ = p.node THEN NoCon ELSE @,
         !.node = p.t.parent[p.node], !.open = @ - 1])

\* tree_append_json(); the pending marks are those the last parse has left
FocusLoaded(p) == [p EXCEPT !.t = IF p.toFocus = NoCon THEN @ ELSE Activate(@, p.toFocus)]
CleanedUp(p) == IF p.failed THEN FreeOpen(p) ELSE p
AppendJson(t, swallows, marked, pending, parent, text) ==
  FocusLoaded(CleanedUp(Parse(
    [t |-> t, swallows |-> swallows, marked |-> marked, pending |-> pending,
     node |-> parent, open |-> 0, key |-> "", order |-> << >>, floating |-> {},
     inSwallows |-> FALSE, inFocus |-> FALSE, inMarks |-> FALSE,
     swallowEmpty |-> FALSE, toFocus |-> NoCon, failed |-> FALSE], text)))
=============================================================================
