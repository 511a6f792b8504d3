------------------------------- MODULE MCTree -------------------------------
(* Small instances of Tree: two outputs side by side. *)
EXTENDS Tree

CONSTANTS o1, o2, ws1, ws2, ws3

Side == [o \in Outputs |-> IF o = o1 THEN o2 ELSE NoCon]
Shown == [o \in Outputs |-> IF o = o1 THEN ws1 ELSE IF o = o2 THEN ws2 ELSE Scratch]
Interchangeable == Permutations(Windows)

Where(outputs, workspaces, byCriteria, kinds) ==
  [outputs |-> outputs, workspaces |-> workspaces, byCriteria |-> byCriteria, kinds |-> kinds]

\* tiling: split containers, layouts and moves in a direction
Tiling ==
  {Where({o1, o2}, {ws1, ws2}, FALSE, {"workspace", "level", "split", "direction", "swap", "layout"})}

\* floating containers, with the second output left alone
Floating ==
  {Where({o1}, {ws1, ws3}, FALSE,
         {"workspace", "focus", "level", "dialog", "float", "move", "split"})}

\* fullscreen on an output, global fullscreen, urgency
Covering ==
  {Where({o1, o2}, {ws1, ws2, ws3}, FALSE,
         {"workspace", "output", "focus", "mouse", "fullscreen", "request", "move"}),
   Where({o1, o2}, {ws1, ws2, ws3}, FALSE,
         {"workspace", "mouse", "fullscreen", "global", "assign"}),
   Where({o1, o2}, {ws1, ws2}, TRUE,
         {"workspace", "output", "focus", "mouse", "urgent", "assign", "kill"})}

\* focus in the four directions, to the next and to the sibling: among windows
\* and split containers, among floating ones, and from output to output
Towards ==
  {Where({o1}, {ws1}, FALSE, {"towards", "sibling", "split", "level"}),
   Where({o1}, {ws1}, FALSE, {"towards", "sibling", "dialog"}),
   Where({o1}, {ws1, ws2}, FALSE, {"towards", "sibling", "fullscreen", "global"})}

\* moving to the scratchpad and showing it: windows and workspaces, with
\* fullscreen, from another output, with floating windows and split containers
Scratched ==
  {Where({o1}, {ws1, ws3}, FALSE, {"scratchpad", "workspace", "output", "focus"}),
   Where({o1}, {ws1, ws3}, FALSE, {"scratchpad", "workspace", "focus", "fullscreen"}),
   Where({o1}, {ws1, ws3}, FALSE, {"scratchpad", "workspace", "fullscreen", "global"}),
   Where({o1}, {ws1, ws3}, FALSE, {"scratchpad", "workspace", "float", "move"}),
   Where({o1}, {ws1}, FALSE, {"scratchpad", "split", "level"})}

\* what pagers and clients ask for, and layouts toggled
Asked ==
  {Where({o1}, {ws1, ws2, ws3}, FALSE, {"activate", "workspace", "fullscreen"}),
   Where({o1}, {ws1, ws2, ws3}, FALSE, {"activate", "urgent"}),
   Where({o1}, {ws1, ws2, ws3}, FALSE, {"pager", "workspace"}),
   Where({o1}, {ws1, ws3}, FALSE, {"activate", "scratchpad"}),
   Where({o1}, {ws1}, FALSE, {"toggle", "split"})}

FloatingAndCovering == Asked \cup Floating \cup Covering \cup Scratched \cup Towards
=============================================================================
