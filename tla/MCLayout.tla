------------------------------ MODULE MCLayout ------------------------------
(* Small instances of Layout: one output with two workspaces, two clients. *)
EXTENDS Layout

CONSTANTS o1, ws1, ws2, k1, k2, x1, x2, x3, x4, x5, x6, x7

Edge == [o \in Outputs |-> NoCon]
Shown == [o \in Outputs |-> ws1]
Interchangeable == Permutations(Clients)
Windows2 == Clients \cup Placeholders

\* as a user writes it: leaves that wait for windows, a split container of two
Waiting(classes) ==
  <<Token("start_map", "leaf")>>
    \o List("swallows", Each(classes, LAMBDA k : SwallowText([EmptyMatch EXCEPT !.class = k])))
    \o <<Token("end_map", NoCon)>>
Pair(layout, one, two) ==
  <<Token("start_map", "split")>> \o Value("layout", layout)
    \o List("nodes", Waiting(one) \o Waiting(two)) \o <<Token("end_map", NoCon)>>

TwoKinds == Waiting(<<k1, k2>>)
Tabs == Pair("tabbed", <<k1>>, <<k2>>)
AllFiles == {TwoKinds, Tabs}

Plain ==
  [outputs |-> Outputs, workspaces |-> {ws1, ws2}, byCriteria |-> FALSE, kinds |-> {"workspace"},
   files |-> {TwoKinds, Tabs}, classes |-> {k1, k2}, rule |-> NoRule, hurried |-> FALSE,
   closes |-> FALSE, changes |-> FALSE, marks |-> "none"]
Moving == [class |-> k2, workspace |-> ws2]

Desks ==
  { \* windows and placeholders come and go; a rule moves a window as it comes
    [Plain EXCEPT !.closes = TRUE, !.kinds = {}],
    [Plain EXCEPT !.rule = Moving],
    \* a window gets the class that a placeholder waits for
    [Plain EXCEPT !.changes = TRUE, !.classes = {k1}, !.files = {Tabs}, !.rule = Moving, !.kinds = {}],
    \* a tree of every form meets a restart
    [Plain EXCEPT !.kinds = {"split", "layout"}, !.files = {}, !.marks = "leaf"],
    [Plain EXCEPT !.kinds = {"workspace", "float", "move", "split"}, !.files = {}],
    [Plain EXCEPT !.kinds = {"focus", "fullscreen"}, !.files = {Tabs}]
  }
=============================================================================
