----------------------------- MODULE MCOutputs -----------------------------
(* Small instances of Outputs: two outputs, workspaces 1 to 5 and one without number. *)
EXTENDS Outputs

CONSTANTS A, B, C, n1, n2, n3, n4, n5, web, two

Numbers == [n \in Names |-> CASE n = n1 -> 1 [] n = n2 -> 2 [] n = n3 -> 3 [] n = n4 -> 4
                              [] n = n5 -> 5 [] n = two -> 2 [] OTHER -> -1]
Listed == <<A, B, C>>
Interchangeable == Permutations(Windows)

At(left, width) == [x |-> left, w |-> width]
On(at, primary) == [at |-> at, primary |-> primary]
Side == On((A :> At(0, 2)) @@ (B :> At(2, 2)), A)
Swapped == On((A :> At(2, 2)) @@ (B :> At(0, 1)), B)
OnlyA == On(A :> At(0, 2), None)
OnlyB == On(B :> At(0, 1), B)
Cloned == On((A :> At(0, 2)) @@ (B :> At(0, 1)), None)
Off == On(<< >>, None)

Three(primary) == On((A :> At(0, 2)) @@ (B :> At(2, 2)) @@ (C :> At(4, 2)), primary)
Two == On((A :> At(0, 2)) @@ (C :> At(2, 2)), None)

Plan(randr, configs, assignments, bindings, auto, names, kinds, open, bound) ==
  [randr |-> randr, configs |-> configs, assignments |-> assignments, bindings |-> bindings,
   auto |-> auto, names |-> names, kinds |-> kinds, open |-> open, changes |-> bound]
To(ws, o) == [ws |-> ws, to |-> o]

\* screens are plugged and unplugged, two or three
Plugging ==
  {Plan("1.4", {Side, OnlyB, Cloned, Off}, << >>, << >>, FALSE, {n2}, {"name", "windows"}, 1, 3),
   Plan("1.5", {Side, Swapped, OnlyA, Off}, <<To(web, B), To(n2, B)>>, <<n3>>, FALSE, {web, two},
        {"name", "windows", "restart"}, 1, 3),
   Plan("1.5", {Three(None), Two}, << >>, << >>, FALSE, {n3}, {"name", "windows", "focus"}, 2, 2)}
\* the commands on workspaces and windows, with two outputs or without RandR
Commands ==
  {Plan("fake", {Side}, << >>, << >>, FALSE, {n2, two}, {"number", "relative", "windows", "back"}, 1, 0),
   Plan("fake", {Side}, << >>, << >>, FALSE, {n3}, {"name", "relative", "windows", "move", "output"}, 2, 0),
   Plan("fake", {Side}, <<To(n1, A), To(web, B)>>, << >>, TRUE, {web, n2},
        {"name", "windows", "rename", "moveout", "restart"}, 1, 1),
   Plan("none", {Side}, << >>, <<web>>, FALSE, {web, n2}, {"number", "name", "windows", "restart"}, 1, 1)}
Sessions == Plugging \cup Commands
=============================================================================
