------------------------------- MODULE Sizes -------------------------------
(***************************************************************************)
(* How large tiling windows are: the share of its parent that each         *)
(* container has (con.c, resize.c, commands.c), the gaps (gaps.c,          *)
(* commands.c), and the rectangles that render.c computes from both.       *)
(*                                                                         *)
(* A workspace that is split holds windows and at most one container of    *)
(* any layout, "box", that holds windows.  `percent` is a fraction and     *)
(* exact: part[c] of whole[p], p being the parent of c; the code computes  *)
(* with doubles.  Rectangles are computed from the state, because every    *)
(* command ends with tree_render().  Borders, fullscreen containers and    *)
(* floating windows are left out.                                          *)
(***************************************************************************)
EXTENDS Integers, Sequences, FiniteSetsExt, SequencesExt

CONSTANTS
    Tiles,        \* windows
    Here,         \* the workspace they are on
    Elsewhere,    \* other workspaces
    Screen,       \* [w, h] of the output
    Deco,         \* render_deco_height()
    Settings,     \* what configurations say, records: gaps [Kinds -> Int], smart, and own,
                  \* [AllWorkspaces -> the gaps of some kinds] of workspaces
    Amounts,      \* what resize commands and dragged borders say: n, and of, px or ppt
    Targets,      \* what `resize set` says: w, h, and of
    GapPixels,    \* amounts of `gaps`
    DockHeights,
    MaxWhole,     \* bound: denominators of shares
    MaxCalls      \* bound: commands

Parents == {"ws", "box"}
Containers == Tiles \cup {"box"}
Sides == {"top", "right", "bottom", "left"}
Kinds == Sides \cup {"inner"}
AllWorkspaces == Elsewhere \cup {Here}

ASSUME SizesAssumption ==
    /\ \A c \in Settings : c.gaps \in [Kinds -> Int] /\ c.smart \in {"off", "on", "inverse_outer"}
                          /\ \A v \in AllWorkspaces : \A t \in Kinds \cap DOMAIN c.own[v] : c.own[v][t] \in Int
    /\ GapPixels \subseteq Nat

VARIABLES
    layout,       \* of the parents
    kids,         \* [Parents -> sequences of containers]
    share,        \* part [Containers -> Nat], whole [Parents -> Nat \ {0}]
    gaps,         \* global [Kinds -> Int], ws [AllWorkspaces -> [Kinds -> Int]]
    smart,        \* smart_gaps
    docks,        \* heights of the dock areas
    calls

sizevars == <<layout, kids, share, gaps, smart, docks, calls>>

-----------------------------------------------------------------------------
(* The tree *)

ParentOf(c) == CHOOSE p \in Parents : c \in ToSet(kids[p])
Present == ToSet(kids["ws"]) \cup ToSet(kids["box"])
Horizontal(p) == layout[p] \in {"splith", "tabbed"}
IsSplit(p) == layout[p] \in {"splith", "splitv"}
Without(q, c) == SelectSeq(q, LAMBDA d : d # c)
Total(f, S) == MapThenSumSet(LAMBDA x : f[x], S)

(* Shares in lowest terms: another way to write the same fractions. *)
Gcd[m \in Nat, n \in Nat] == IF n = 0 THEN m ELSE Gcd[n, m % n]
Lowest(k, s) ==
    LET unit(p) == FoldSet(LAMBDA m, n : Gcd[m, n], s.whole[p], {s.part[c] : c \in ToSet(k[p])})
        at(c) == CHOOSE p \in Parents : c \in ToSet(k[p])
    IN  [part |-> [c \in Containers |-> IF c \in ToSet(k["ws"]) \cup ToSet(k["box"])
                                  THEN s.part[c] \div unit(at(c)) ELSE 0],
         whole |-> [p \in Parents |-> IF k[p] = << >> THEN 1 ELSE s.whole[p] \div unit(p)]]

(* con_fix_percent(p) with the children q: those without a percentage get  *)
(* an average share each, one after the other, then all are divided by the *)
(* total.                                                                  *)
FixPercent(s, p, q) ==
    LET with == {c \in ToSet(q) : s.part[c] > 0}
        w == Cardinality(with)
        z == Len(q) - w
        new(i) == Cardinality({j \in 1..(i - 1) : q[j] \notin with})   \* before it
        total == Total(s.part, with)
        filled == [c \in Containers |->
            IF c \notin ToSet(q) THEN s.part[c]
            ELSE IF w = 0 THEN 1
            ELSE IF c \in with THEN s.part[c] * w ^ z
            ELSE LET j == new(CHOOSE i \in DOMAIN q : q[i] = c)
                 IN  total * (w + 1) ^ j * w ^ (z - j - 1)]
    IN  IF q = << >> THEN s
        ELSE [part |-> filled, whole |-> [s.whole EXCEPT ![p] = Total(filled, ToSet(q))]]

(* Two parents in the same unit, so that a percentage can go from one to   *)
(* the other.                                                              *)
SameUnit(s) ==
    [part |-> [c \in Containers |-> s.part[c] * (IF c \in ToSet(kids["ws"]) THEN s.whole["box"] ELSE s.whole["ws"])],
     whole |-> [p \in Parents |-> s.whole["ws"] * s.whole["box"]]]

Percent(s, c, n) == [s EXCEPT !.part[c] = n]

-----------------------------------------------------------------------------
(* render.c *)

Visible == Len(SelectSeq(kids["ws"], LAMBDA c : c # "box"))
           + (IF IsSplit("box") THEN Len(kids["box"]) ELSE Min({1, Len(kids["box"])}))
OneChild == Visible <= 1 \/ (kids["ws"] = <<"box">> /\ ~IsSplit("box"))

(* calculate_effective_gaps() *)
EffectiveGaps ==
    LET g == [t \in Kinds |-> gaps.ws[Here][t] + gaps.global[t]]
    IN  [t \in Kinds |-> IF smart = "on" /\ OneChild THEN 0
                         ELSE IF t \in Sides /\ smart = "inverse_outer" /\ ~OneChild THEN 0 ELSE g[t]]

(* render_output(): the workspace gets what the docks leave *)
Area == [x |-> 0, y |-> docks.top, w |-> Screen.w, h |-> Screen.h - docks.top - docks.bottom]
WorkspaceRect ==
    LET g == EffectiveGaps
    IN  [x |-> Area.x + g.left, y |-> Area.y + g.top,
         w |-> Area.w - g.left - g.right, h |-> Area.h - g.top - g.bottom]

(* precalculate_sizes(): rounded shares, and the rest pixel by pixel.      *)
(* lround() rounds halves away from zero.                                  *)
Rounded(p, size) ==
    [i \in DOMAIN kids[p] |->
        LET n == IF share.part[kids[p][i]] > 0 THEN share.part[kids[p][i]] ELSE 1
            d == IF share.part[kids[p][i]] > 0 THEN share.whole[p] ELSE Len(kids[p])
        IN  (2 * n * size + d) \div (2 * d)]
Abs(n) == IF n < 0 THEN -n ELSE n
Kept(q, size) == q   \* mutant: the rest is lost
Corrected(q, size) ==
    LET missing == size - Total(q, DOMAIN q)
        signal == IF missing > 0 THEN 1 ELSE -1
    IN  [i \in DOMAIN q |-> q[i] + signal * ((Abs(missing) + Len(q) - i) \div Len(q))]
PrecalculateSizes(p, size) == Corrected(Rounded(p, size), size)

Sanitized(r) == [r EXCEPT !.w = Max({1, @}), !.h = Max({1, @})]

(* render_con_split(), render_con_stacked(), render_con_tabbed(): the i-th *)
(* child of p, which has the rectangle r                                   *)
Laid(p, r, i, sizes) ==
    LET before == Total(sizes, 1..(i - 1))
        bars == Deco * (IF layout[p] = "stacked" THEN Len(kids[p]) ELSE 1)
    IN  Sanitized(CASE layout[p] = "splith" -> [r EXCEPT !.x = @ + before, !.w = sizes[i]]
                    [] layout[p] = "splitv" -> [r EXCEPT !.y = @ + before, !.h = sizes[i]]
                    [] OTHER -> [r EXCEPT !.y = @ + bars, !.h = @ - bars])
ChildRect(p, r, i) == Laid(p, r, i, PrecalculateSizes(p, IF Horizontal(p) THEN r.w ELSE r.h))

-----------------------------------------------------------------------------
(* resize_find_tiling_participants(): from c up, the first container of a  *)
(* parent that is split in the direction and has a neighbour there         *)

Backwards(d) == d \in {"left", "top"}
NextTo(c, d, both) ==
    LET q == kids[ParentOf(c)]
        i == CHOOSE j \in DOMAIN q : q[j] = c
        near == IF Backwards(d) THEN i - 1 ELSE i + 1
        far == IF Backwards(d) THEN i + 1 ELSE i - 1
    IN  IF near \in DOMAIN q THEN {q[near]} ELSE IF both /\ far \in DOMAIN q THEN {q[far]} ELSE {}
Along(c, d) == IsSplit(ParentOf(c)) /\ (Horizontal(ParentOf(c)) <=> d \in {"left", "right"})
Participants(c, d, both) ==
    LET up == IF ParentOf(c) = "box" THEN <<c, "box">> ELSE <<c>>
        found == {i \in DOMAIN up : Along(up[i], d) /\ NextTo(up[i], d, both) # {}}
    IN  IF found = {} THEN {} ELSE {up[Min(found)]} \X NextTo(up[Min(found)], d, both)

(* gaps_should_inset_con() and gaps_has_adjacent_container() *)
ShouldInset(c) ==
    IF c = "box" THEN ~IsSplit("box") ELSE ParentOf(c) = "ws" \/ IsSplit("box")
Towards(c) == {d \in Sides : Participants(c, d, FALSE) # {}}
Inset(r, inner, near) ==
    LET at(d) == IF d \in near THEN inner \div 2 ELSE inner
    IN  [x |-> r.x + at("left"), y |-> r.y + at("top"),
         w |-> r.w - at("left") - at("right"), h |-> r.h - at("top") - at("bottom")]

(* render_con() of the workspace, the box, and the windows in it *)
Placed(c, p, r) ==
    Inset(ChildRect(p, r, CHOOSE i \in DOMAIN kids[p] : kids[p][i] = c),
          IF ShouldInset(c) THEN EffectiveGaps.inner ELSE 0, Towards(c))
RenderCon(ws, box) ==
    [of |-> [c \in Present |-> IF c = "box" THEN box ELSE Placed(c, ParentOf(c), IF ParentOf(c) = "ws" THEN ws ELSE box)],
     parent |-> [p \in Parents |-> IF p = "ws" THEN ws ELSE box]]
Rects ==
    RenderCon(WorkspaceRect, IF "box" \in Present THEN Placed("box", "ws", WorkspaceRect) ELSE WorkspaceRect)

-----------------------------------------------------------------------------
(* Changing the tree.  A parent whose children change is given shares for  *)
(* them; a box without children is closed.                                 *)

Exchanged(q, a, b) == [i \in DOMAIN q |-> IF q[i] = a THEN b ELSE IF q[i] = b THEN a ELSE q[i]]

NewTree(k, s) ==
    /\ kids' = k /\ share' = Lowest(k, s)
    /\ \A p \in Parents : share'.whole[p] <= MaxWhole
Called == calls < MaxCalls /\ calls' = calls + 1
TreeCall == Called /\ UNCHANGED <<gaps, smart, docks>>

(* con_detach() and con_fix_percent(); on_remove_child() *)
DetachedUnfixed(t, c, p) ==   \* mutant: no con_fix_percent()
    [kids |-> [t.kids EXCEPT ![p] = Without(@, c)], share |-> Percent(t.share, c, 0)]
Detached(t, c, p) ==
    LET left == Without(t.kids[p], c)
    IN  [kids |-> [t.kids EXCEPT ![p] = left], share |-> FixPercent(Percent(t.share, c, 0), p, left)]
Attached(t, c, p, i) ==
    LET more == InsertAt(t.kids[p], i + 1, c)
    IN  [kids |-> [t.kids EXCEPT ![p] = more], share |-> FixPercent(Percent(t.share, c, 0), p, more)]
Cleared(t) ==
    IF t.kids["box"] = << >> /\ "box" \in ToSet(t.kids["ws"]) THEN Detached(t, "box", "ws") ELSE t
Tree == [kids |-> kids, share |-> share]
Becomes(t) == NewTree(t.kids, t.share)

(* tree_open_con(): behind a window *)
Open(c, p, i) ==
    /\ TreeCall /\ c \notin Present
    /\ IF kids[p] = << >> THEN p = "ws" /\ i = 0 ELSE i \in DOMAIN kids[p] /\ kids[p][i] # "box"
    /\ Becomes(Attached(Tree, c, p, i))
    /\ UNCHANGED layout

(* tree_close_internal() *)
Close(c) ==
    /\ TreeCall /\ c \in Present
    /\ Becomes(Cleared(Detached(Tree, c, ParentOf(c))))
    /\ UNCHANGED layout

(* insert_con_into(), attach_to_workspace(): to the other parent *)
Move(c, i) ==
    /\ TreeCall /\ c \in Present \cap Tiles /\ "box" \in Present
    /\ \E p, other \in Parents :
          /\ p = ParentOf(c) /\ other # p /\ i \in 0..Len(kids[other])
          /\ Becomes(Cleared(Attached(Detached(Tree, c, p), c, other, i)))
    /\ UNCHANGED layout

(* tree_split(): an only child changes the direction of its parent *)
SplitUp(c, l) ==
    /\ TreeCall /\ c \in Present \cap Tiles
    /\ IF Len(kids[ParentOf(c)]) = 1 /\ IsSplit(ParentOf(c))
       THEN layout' = [layout EXCEPT ![ParentOf(c)] = l] /\ UNCHANGED <<kids, share>>
       ELSE /\ "box" \notin Present
            /\ layout' = [layout EXCEPT !["box"] = l]
            /\ NewTree([ws |-> Exchanged(kids["ws"], c, "box"), box |-> <<c>>],
                       [share EXCEPT !.part["box"] = share.part[c], !.part[c] = 0])

(* con_set_layout() of a parent that has windows *)
SetLayout(p, l) ==
    /\ TreeCall /\ kids[p] # << >> /\ l # layout[p] /\ (p = "ws" => l \in {"splith", "splitv"})
    /\ layout' = [layout EXCEPT ![p] = l]
    /\ UNCHANGED <<kids, share>>

(* con_swap(): places and percentages *)
Swap(a, b) ==
    /\ TreeCall /\ {a, b} \subseteq Present /\ a # b
    /\ ~("box" \in {a, b} /\ {a, b} \cap ToSet(kids["box"]) # {})
    /\ LET one == SameUnit(share)
           k == [p \in Parents |-> Exchanged(kids[p], a, b)]
           s == [one EXCEPT !.part[a] = one.part[b], !.part[b] = one.part[a]]
       IN  NewTree(k, FixPercent(FixPercent(s, ParentOf(b), k[ParentOf(b)]), ParentOf(a), k[ParentOf(a)]))
    /\ UNCHANGED layout

-----------------------------------------------------------------------------
(* Resizing: by n / d of the parent, which is n pixels of d or n points of *)
(* 100.                                                                    *)

(* con_rect_size_in_orientation(p), r being the rectangles *)
SizeOf(r, p) == IF Horizontal(p) THEN r.parent[p].w ELSE r.parent[p].h

(* percent_for_1px(): is the share `part` of `whole` enough for c? *)
Enough(r, c, part, whole) ==
    part * SizeOf(r, ParentOf(c)) >= whole * (IF Horizontal(ParentOf(c)) \/ c = "box" THEN 1 ELSE 1 + Deco)

(* resize_neighboring_cons() *)
Neighbouring(r, s, first, second, n, d) ==
    LET p == ParentOf(first)
        grown == [s EXCEPT !.part = [c \in Containers |->
                               IF c = first THEN d * @[c] + n * s.whole[p]
                               ELSE IF c = second THEN d * @[c] - n * s.whole[p]
                               ELSE IF c \in ToSet(kids[p]) THEN d * @[c] ELSE @[c]],
                           !.whole[p] = d * @]
    IN  IF \A c \in {first, second} : Enough(r, c, grown.part[c], grown.whole[p])
        THEN FixPercent(grown, p, kids[p]) ELSE s

(* cmd_resize_tiling_width_height(): the others share what c gains or loses *)
WidthHeight(r, s, c, n, d) ==
    LET p == ParentOf(c)
        others == ToSet(kids[p]) \ {c}
        m == Cardinality(others)
        old == [o \in Containers |->   \* in units of 1 / (whole * d * m * (m + 1))
                  IF s.part[o] = 0 THEN s.whole[p] * d * m ELSE s.part[o] * d * m * (m + 1)]
        step == n * s.whole[p] * (m + 1)
        unit == s.whole[p] * d * m * (m + 1)
        fits == IF n < 0 THEN Enough(r, c, old[c] + step * m, unit)
                ELSE \A o \in others : Enough(r, o, old[o] - step, unit)
    IN  [s EXCEPT !.part = [o \in Containers |-> IF o = c /\ fits THEN old[o] + step * m
                                                ELSE IF o \in others /\ fits THEN old[o] - step
                                                ELSE IF o \in others \cup {c} THEN old[o] ELSE @[o]],
                  !.whole[p] = unit]

Resized(s) == NewTree(kids, s) /\ UNCHANGED layout

(* A number of pixels or of points, as a part of p *)
Whole(r, p, of) == IF of = "px" THEN SizeOf(r, p) ELSE 100

(* cmd_resize_tiling_direction() *)
ResizeDirection(c, d, n, of) ==
    /\ TreeCall /\ c \in Present
    /\ \E pair \in Participants(c, d, FALSE), r \in {Rects} :
          Resized(Neighbouring(r, share, pair[1], pair[2], n, Whole(r, ParentOf(pair[1]), of)))

(* resize_graphical_handler(): a border that is dragged by n pixels *)
ResizeBorder(c, d, n) == ~Backwards(d) /\ n # 0 /\ ResizeDirection(c, d, n, "px")

(* cmd_resize_tiling_width_height() *)
ResizeWidthHeight(c, d, n, of) ==
    /\ TreeCall /\ c \in Present
    /\ \E pair \in Participants(c, d, TRUE), r \in {Rects} :
          Resized(WidthHeight(r, share, pair[1], n, Whole(r, ParentOf(pair[1]), of)))

(* resize_set_tiling() for one dimension *)
SetTiling(r, s, c, d, size, of) ==
    LET pairs == Participants(c, d, TRUE)
        t == (CHOOSE pair \in pairs : TRUE)[1]
        p == ParentOf(t)
        now == IF d = "left" THEN r.of[t].w ELSE r.of[t].h
    IN  IF pairs = {} \/ size = 0 THEN s
        ELSE WidthHeight(r, s, t, IF of = "ppt" THEN size * s.whole[p] - 100 * s.part[t] ELSE size - now,
                                  IF of = "ppt" THEN 100 * s.whole[p] ELSE SizeOf(r, p))

(* cmd_resize_set(): width, then height *)
ResizeSet(c, width, height, of) ==
    /\ TreeCall /\ c \in Present
    /\ \E r \in {Rects} :
          Resized(SetTiling(r, SetTiling(r, share, c, "left", width, of), c, "bottom", height, of))

-----------------------------------------------------------------------------
(* `gaps <kinds> <scope> <mode> <pixels>` with w focused: gaps_update() of  *)
(* each kind, which depends on no other kind but inner.                    *)

CurrentValue(g, t, scope, w) == g.global[t] + (IF scope = "current" THEN g.ws[w][t] ELSE 0)
MinValue(g, t, scope, w) ==
    IF t = "inner" THEN 0 ELSE -g.global.inner - (IF scope = "all" THEN 0 ELSE g.ws[w].inner)
NewValue(g, t, scope, w, mode, px) ==
    LET now == CurrentValue(g, t, scope, w)
        wanted == CASE mode = "plus" -> now + px
                    [] mode = "minus" -> now - px
                    [] mode = "set" -> px
                    [] mode = "toggle" -> IF now = 0 THEN px ELSE 0
    IN  IF wanted < MinValue(g, t, scope, w) THEN MinValue(g, t, scope, w) ELSE wanted

(* The least that is left for the gaps of a workspace: together with the   *)
(* new global value they are not negative, inner gaps counted for a side.  *)
NewOwn(g, t, v, mode, value) ==
    LET compensate == IF t = "inner" THEN 0 ELSE g.global.inner
    IN  IF mode \in {"set", "toggle"} THEN 0
        ELSE IF g.ws[v][t] + value + compensate < 0 THEN -value - compensate ELSE g.ws[v][t]

GapsUpdate(g, T, scope, w, mode, px) ==
    LET value(t) == NewValue(g, t, scope, w, mode, px)
    IN  IF scope = "all"
        THEN [global |-> [t \in Kinds |-> IF t \in T THEN value(t) ELSE g.global[t]],
              ws |-> [v \in AllWorkspaces |-> [t \in Kinds |-> IF t \in T THEN NewOwn(g, t, v, mode, value(t))
                                                         ELSE g.ws[v][t]]]]
        ELSE [g EXCEPT !.ws[w] = [t \in Kinds |-> IF t \in T THEN value(t) - g.global[t] ELSE @[t]]]

(* cmd_gaps(): new inner gaps are followed by a change by nothing of the   *)
(* outer ones, for the limit they have then.                               *)
Scopes == {{"inner"}, Sides, {"top", "bottom"}, {"right", "left"}} \cup {{t} : t \in Sides}
CmdGapsAsIs(g, T, scope, w, mode, px) == GapsUpdate(g, T, scope, w, mode, px)   \* mutant: old limits
CmdGaps(g, T, scope, w, mode, px) ==
    LET changed == GapsUpdate(g, T, scope, w, mode, px)
    IN  IF T = {"inner"} THEN GapsUpdate(changed, Sides, "all", w, "plus", 0) ELSE changed

Gaps(T, scope, w, mode, px) ==
    /\ Called /\ gaps' = CmdGaps(gaps, T, scope, w, mode, px)
    /\ UNCHANGED <<layout, kids, share, smart, docks>>

(* gaps_for_workspace(): what makes the sum what is assigned; and reload,  *)
(* gaps_reapply_workspace_assignments()                                    *)
GapsForWorkspace(c, v) == [t \in Kinds |-> IF t \in DOMAIN c.own[v] THEN c.own[v][t] - c.gaps[t] ELSE 0]
Configure(c) == [global |-> c.gaps, ws |-> [v \in AllWorkspaces |-> GapsForWorkspace(c, v)]]
Reload(c) ==
    /\ Called /\ smart' = c.smart /\ gaps' = Configure(c)
    /\ UNCHANGED <<layout, kids, share, docks>>

(* A dock client is managed, or goes. *)
Dock(side, h) ==
    /\ Called /\ docks[side] # h /\ docks' = [docks EXCEPT ![side] = h]
    /\ UNCHANGED <<layout, kids, share, gaps, smart>>

-----------------------------------------------------------------------------
SizesInit ==
    /\ layout = [p \in Parents |-> "splith"]
    /\ kids = [p \in Parents |-> << >>]
    /\ share = [part |-> [c \in Containers |-> 0], whole |-> [p \in Parents |-> 1]]
    /\ \E c \in Settings : smart = c.smart /\ gaps = Configure(c)
    /\ docks = [top |-> 0, bottom |-> 0]
    /\ calls = 0

Changing ==
    \/ \E c \in Tiles, p \in Parents, i \in 0..Cardinality(Tiles) : Open(c, p, i)
    \/ \E c \in Tiles : Close(c)
    \/ \E c \in Tiles, i \in 0..Cardinality(Tiles) : Move(c, i)
    \/ \E c \in Tiles, l \in {"splith", "splitv"} : SplitUp(c, l)
    \/ \E p \in Parents, l \in {"splith", "splitv", "stacked", "tabbed"} : SetLayout(p, l)
    \/ \E a, b \in Containers : Swap(a, b)
Resizing ==
    \/ \E c \in Containers, d \in Sides, a \in Amounts : ResizeDirection(c, d, a.n, a.of)
    \/ \E c \in Containers, d \in Sides, a \in Amounts : a.of = "px" /\ ResizeBorder(c, d, a.n)
    \/ \E c \in Containers, d \in {"left", "bottom"}, a \in Amounts : ResizeWidthHeight(c, d, a.n, a.of)
    \/ \E c \in Containers, a \in Targets : ResizeSet(c, a.w, a.h, a.of)
Spacing ==
    \/ \E T \in Scopes, scope \in {"current", "all"}, w \in AllWorkspaces, px \in GapPixels,
          mode \in {"plus", "minus", "set", "toggle"} : Gaps(T, scope, w, mode, px)
    \/ \E c \in Settings : Reload(c)
    \/ \E side \in {"top", "bottom"}, h \in DockHeights : Dock(side, h)
SizesNext == Changing \/ Resizing \/ Spacing

SizesSpec == SizesInit /\ [][SizesNext]_sizevars

-----------------------------------------------------------------------------
(* The shares of the children of a parent are positive and make up the     *)
(* whole, whatever was opened, closed, moved, split, swapped and resized:  *)
(* render.c asserts it to two pixels a child (238-240), and a resize whose *)
(* result is not positive everywhere is refused.                           *)
SharesAddUp ==
    \A p \in Parents : Len(kids[p]) > 1 =>
        /\ \A c \in ToSet(kids[p]) : share.part[c] > 0
        /\ Total(share.part, ToSet(kids[p])) = share.whole[p]

(* Two cells, that is windows or the box when it shows one of its windows: *)
(* between them are at least the inner gaps.  Each keeps the distance of   *)
(* the outer gaps and the inner ones from the sides of the area that it    *)
(* has no neighbour towards, and the cells fill what is between.  Not where*)
(* a cell has become smaller than its gaps.                                *)
Cells == {c \in Present : ShouldInset(c)}
Apart(a, b, d) == a.x + a.w + d <= b.x \/ a.y + a.h + d <= b.y
FromEdge(r, d) ==
    CASE d = "left" -> r.x - Area.x
      [] d = "top" -> r.y - Area.y
      [] d = "right" -> Area.x + Area.w - r.x - r.w
      [] d = "bottom" -> Area.y + Area.h - r.y - r.h
KeepApart(rect, inner) ==
    \A c, d \in Cells : c # d =>
        \/ Apart(rect[c], rect[d], 2 * (inner \div 2))
        \/ Apart(rect[d], rect[c], 2 * (inner \div 2))
KeepFromEdges(rect, g) ==
    \A c \in Cells, d \in Sides : d \notin Towards(c) => FromEdge(rect[c], d) = g[d] + g.inner
LeaveNothing(rect, inner) ==
    \A c \in Cells, e \in {"right", "bottom"} : \A pair \in Participants(c, e, FALSE) :
        pair[1] = c /\ pair[2] \in Cells =>
            FromEdge(rect[c], e) - FromEdge(rect[pair[2]], e)
              = 2 * (inner \div 2) + (IF e = "right" THEN rect[pair[2]].w ELSE rect[pair[2]].h)
CellsApart ==
    \E rect \in {Rects.of} : (\A c \in Cells : rect[c].w > 0 /\ rect[c].h > 0) =>
        /\ KeepApart(rect, EffectiveGaps.inner)
        /\ KeepFromEdges(rect, EffectiveGaps)
        /\ LeaveNothing(rect, EffectiveGaps.inner)

(* What a workspace has between its windows is never negative, and neither *)
(* is what it has at a side, inner gaps included: each gaps command keeps  *)
(* that for every workspace, in whatever order and scope they come.  Inner *)
(* gaps that a workspace has less than the others do not count: the code   *)
(* forgets them in the limit of outer gaps for all workspaces.             *)
GapsBounded(g) ==
    /\ g.global.inner >= 0
    /\ \A v \in AllWorkspaces :
          /\ g.global.inner + g.ws[v].inner >= 0
          /\ \A t \in Sides : g.global[t] + g.ws[v][t] + g.global.inner
                                + (IF g.ws[v].inner > 0 THEN g.ws[v].inner ELSE 0) >= 0
GapsStay ==
    [][(\A c \in Settings : ~Reload(c)) /\ GapsBounded(gaps) => GapsBounded(gaps')]_gaps
=============================================================================
