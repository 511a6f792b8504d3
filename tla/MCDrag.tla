------------------------------- MODULE MCDrag -------------------------------
(* Small instances of Drag: two outputs side by side, two or three windows. *)
EXTENDS Drag

CONSTANTS o1, o2, ws1, ws2

Side == [o \in Outputs |-> IF o = o1 THEN o2 ELSE NoCon]
Shown == [o \in Outputs |-> IF o = o1 THEN ws1 ELSE ws2]
Interchangeable == Permutations(Windows)

Pointer(windows, kinds, clicks, dragging, directions) ==
  [outputs |-> {o1}, workspaces |-> {ws1, ws2}, byCriteria |-> FALSE, kinds |-> kinds,
   clicks |-> clicks, dragging |-> dragging, directions |-> directions, windows |-> windows]

\* dropping tiling windows beside others and at the edges of their parents;
\* with fullscreen commands during the drag; by the tabs; floating windows
Drags ==
  {Pointer(3, {}, {"inside"}, "modifier", {"up"}),
   Pointer(2, {"fullscreen"}, {"inside"}, "modifier", {"right"}),
   Pointer(2, {"layout"}, {"decoration"}, "titlebar", {"left"}),
   Pointer(2, {"float", "move"}, {"inside", "decoration", "border"}, "off", {})}

\* tiling windows dropped where there are floating ones
Mixed == {Pointer(2, {"dialog", "level"}, {"inside"}, "modifier", {"right"})}
=============================================================================
