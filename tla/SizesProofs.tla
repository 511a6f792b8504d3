---------------------------- MODULE SizesProofs ----------------------------
(***************************************************************************)
(* Theorems about the gaps of Sizes.tla: for any number of workspaces, any *)
(* configurations and any amounts, the gaps commands never leave windows   *)
(* that overlap, or that reach over the side of their workspace.           *)
(*                                                                         *)
(* A gaps command writes one or all kinds of one or all workspaces.  The   *)
(* lemmas say what GapsUpdate() writes, then that an update bounds what it *)
(* writes: inner gaps by themselves, those of a side together with the     *)
(* inner ones, whose limit is why cmd_gaps() writes the sides once more.   *)
(***************************************************************************)
EXTENDS Sizes, TLAPS

Modes == {"plus", "minus", "set", "toggle"}
GapRecords == [global : [Kinds -> Int], ws : [AllWorkspaces -> [Kinds -> Int]]]

-----------------------------------------------------------------------------
(* What a record of gaps is made of. *)
LEMMA Fields ==
    ASSUME NEW g \in GapRecords, NEW v \in AllWorkspaces, NEW t \in Kinds
    PROVE  g.global[t] \in Int /\ g.ws[v][t] \in Int
<1>1. g.global \in [Kinds -> Int] /\ g.ws \in [AllWorkspaces -> [Kinds -> Int]]
  BY DEF GapRecords
<1>2. g.ws[v] \in [Kinds -> Int]
  BY <1>1
<1> QED
  BY <1>1, <1>2

LEMMA KindsThere == "inner" \in Kinds /\ Sides \subseteq Kinds /\ "inner" \notin Sides
BY DEF Kinds, Sides

(* NewValue() is a number, and not less than MinValue(). *)
LEMMA ValueBounded ==
    ASSUME NEW g \in GapRecords, NEW t \in Kinds, NEW scope \in {"current", "all"},
           NEW w \in AllWorkspaces, NEW mode \in Modes, NEW px \in Nat
    PROVE  /\ NewValue(g, t, scope, w, mode, px) \in Int
           /\ MinValue(g, t, scope, w) \in Int
           /\ NewValue(g, t, scope, w, mode, px) >= MinValue(g, t, scope, w)
<1>1. /\ g.global[t] \in Int /\ g.ws[w][t] \in Int
      /\ g.global["inner"] \in Int /\ g.ws[w]["inner"] \in Int
  BY Fields, KindsThere
<1>2. MinValue(g, t, scope, w) \in Int
  BY <1>1 DEF MinValue
<1>3. CurrentValue(g, t, scope, w) \in Int
  BY <1>1 DEF CurrentValue
<1>4. \E wanted \in Int : NewValue(g, t, scope, w, mode, px)
         = IF wanted < MinValue(g, t, scope, w) THEN MinValue(g, t, scope, w) ELSE wanted
  <2>1. CASE mode = "plus"
    <3>1. CurrentValue(g, t, scope, w) + px \in Int
      BY <1>3
    <3> QED
      BY <2>1, <3>1 DEF NewValue
  <2>2. CASE mode = "minus"
    <3>1. CurrentValue(g, t, scope, w) - px \in Int
      BY <1>3
    <3> QED
      BY <2>2, <3>1 DEF NewValue
  <2>3. CASE mode = "set"
    BY <2>3 DEF NewValue
  <2>4. CASE mode = "toggle"
    <3>1. (IF CurrentValue(g, t, scope, w) = 0 THEN px ELSE 0) \in Int
      OBVIOUS
    <3> QED
      BY <2>4, <3>1 DEF NewValue
  <2> QED
    BY <2>1, <2>2, <2>3, <2>4 DEF Modes
<1> QED
  BY <1>2, <1>4

(* NewOwn() is a number, and with the new global value not negative: an    *)
(* inner gap by itself, one at a side together with the inner gaps.        *)
LEMMA OwnBounded ==
    ASSUME NEW g \in GapRecords, NEW t \in Kinds, NEW v \in AllWorkspaces, NEW mode \in Modes,
           NEW value \in Int, value >= IF t = "inner" THEN 0 ELSE -g.global["inner"]
    PROVE  /\ NewOwn(g, t, v, mode, value) \in Int
           /\ NewOwn(g, t, v, mode, value) + value + (IF t = "inner" THEN 0 ELSE g.global["inner"]) >= 0
<1>1. g.ws[v][t] \in Int /\ g.global["inner"] \in Int
  BY Fields, KindsThere
<1>2. CASE t = "inner"
  BY <1>1, <1>2 DEF NewOwn
<1>3. CASE t # "inner"
  BY <1>1, <1>3 DEF NewOwn
<1> QED
  BY <1>2, <1>3

(* GapsUpdate() for all workspaces, field by field. *)
LEMMA UpdateAll ==
    ASSUME NEW g \in GapRecords, NEW T, NEW w \in AllWorkspaces, NEW mode, NEW px,
           NEW t \in Kinds, NEW v \in AllWorkspaces
    PROVE  /\ GapsUpdate(g, T, "all", w, mode, px).global[t]
                = IF t \in T THEN NewValue(g, t, "all", w, mode, px) ELSE g.global[t]
           /\ GapsUpdate(g, T, "all", w, mode, px).ws[v][t]
                = IF t \in T THEN NewOwn(g, t, v, mode, NewValue(g, t, "all", w, mode, px)) ELSE g.ws[v][t]
BY DEF GapsUpdate

(* GapsUpdate() for the current workspace. *)
LEMMA UpdateCurrent ==
    ASSUME NEW g \in GapRecords, NEW T, NEW w \in AllWorkspaces, NEW mode, NEW px,
           NEW t \in Kinds, NEW v \in AllWorkspaces
    PROVE  /\ GapsUpdate(g, T, "current", w, mode, px).global = g.global
           /\ GapsUpdate(g, T, "current", w, mode, px).ws[v][t]
                = IF v = w /\ t \in T THEN NewValue(g, t, "current", w, mode, px) - g.global[t]
                  ELSE g.ws[v][t]
<1> DEFINE row == [k \in Kinds |-> IF k \in T THEN NewValue(g, k, "current", w, mode, px) - g.global[k]
                                    ELSE g.ws[w][k]]
<1>1. GapsUpdate(g, T, "current", w, mode, px) = [g EXCEPT !.ws[w] = row]
  BY DEF GapsUpdate
<1>2. g.ws \in [AllWorkspaces -> [Kinds -> Int]]
  BY DEF GapRecords
<1>3. /\ GapsUpdate(g, T, "current", w, mode, px).global = g.global
      /\ GapsUpdate(g, T, "current", w, mode, px).ws = [g.ws EXCEPT ![w] = row]
  <2> HIDE DEF row
  <2> QED
    BY <1>1 DEF GapRecords
<1>4. GapsUpdate(g, T, "current", w, mode, px).ws[v] = IF v = w THEN row ELSE g.ws[v]
  <2> HIDE DEF row
  <2> QED
    BY <1>2, <1>3
<1>5. row[t] = IF t \in T THEN NewValue(g, t, "current", w, mode, px) - g.global[t] ELSE g.ws[w][t]
  OBVIOUS
<1> HIDE DEF row
<1> QED
  BY <1>3, <1>4, <1>5

LEMMA UpdateTyped ==
    ASSUME NEW g \in GapRecords, NEW T \in SUBSET Kinds, NEW scope \in {"current", "all"},
           NEW w \in AllWorkspaces, NEW mode \in Modes, NEW px \in Nat
    PROVE  GapsUpdate(g, T, scope, w, mode, px) \in GapRecords
<1>1. CASE scope = "all"
  <2> DEFINE value(t) == NewValue(g, t, "all", w, mode, px)
             top == [t \in Kinds |-> IF t \in T THEN value(t) ELSE g.global[t]]
             own == [v \in AllWorkspaces |-> [t \in Kinds |->
                        IF t \in T THEN NewOwn(g, t, v, mode, value(t)) ELSE g.ws[v][t]]]
  <2>1. GapsUpdate(g, T, "all", w, mode, px) = [global |-> top, ws |-> own]
    BY DEF GapsUpdate
  <2>2. \A t \in Kinds : value(t) \in Int /\ value(t) >= MinValue(g, t, "all", w)
    BY ValueBounded
  <2>3. \A t \in Kinds : value(t) >= IF t = "inner" THEN 0 ELSE -g.global["inner"]
    <3> SUFFICES ASSUME NEW t \in Kinds
                 PROVE  value(t) >= IF t = "inner" THEN 0 ELSE -g.global["inner"]
      OBVIOUS
    <3>1. g.global["inner"] \in Int
      BY Fields, KindsThere
    <3>2. MinValue(g, t, "all", w) = IF t = "inner" THEN 0 ELSE -g.global["inner"]
      BY <3>1 DEF MinValue
    <3> QED
      BY <2>2, <3>2
  <2>4. \A v \in AllWorkspaces, t \in Kinds : NewOwn(g, t, v, mode, value(t)) \in Int
    <3> HIDE DEF value
    <3> QED
      BY <2>2, <2>3, OwnBounded
  <2>5. \A v \in AllWorkspaces, t \in Kinds : g.global[t] \in Int /\ g.ws[v][t] \in Int
    BY Fields
  <2> HIDE DEF value
  <2>6. top \in [Kinds -> Int]
    <3> SUFFICES ASSUME NEW t \in Kinds
                 PROVE  (IF t \in T THEN value(t) ELSE g.global[t]) \in Int
      OBVIOUS
    <3>1. g.global[t] \in Int
      BY Fields
    <3> QED
      BY <2>2, <3>1
  <2>7. own \in [AllWorkspaces -> [Kinds -> Int]]
    BY <2>4, <2>5
  <2> HIDE DEF top, own
  <2> QED
    BY <1>1, <2>1, <2>6, <2>7 DEF GapRecords
<1>2. CASE scope = "current"
  <2> DEFINE row == [k \in Kinds |-> IF k \in T THEN NewValue(g, k, "current", w, mode, px) - g.global[k]
                                      ELSE g.ws[w][k]]
  <2>1. GapsUpdate(g, T, "current", w, mode, px) = [g EXCEPT !.ws[w] = row]
    BY DEF GapsUpdate
  <2>2. row \in [Kinds -> Int]
    <3> SUFFICES ASSUME NEW k \in Kinds
                 PROVE  (IF k \in T THEN NewValue(g, k, "current", w, mode, px) - g.global[k]
                         ELSE g.ws[w][k]) \in Int
      OBVIOUS
    <3>1. g.global[k] \in Int /\ g.ws[w][k] \in Int
      BY Fields
    <3>2. NewValue(g, k, "current", w, mode, px) \in Int
      BY ValueBounded
    <3> QED
      BY <3>1, <3>2
  <2> HIDE DEF row
  <2> QED
    BY <1>2, <2>1, <2>2 DEF GapRecords
<1> QED
  BY <1>1, <1>2

-----------------------------------------------------------------------------
(* GapsBounded() in parts *)
InnerBounded(g) ==
    /\ g.global["inner"] >= 0
    /\ \A v \in AllWorkspaces : g.global["inner"] + g.ws[v]["inner"] >= 0
SideBounded(g, v, t) ==
    g.global[t] + g.ws[v][t] + g.global["inner"]
      + (IF g.ws[v]["inner"] > 0 THEN g.ws[v]["inner"] ELSE 0) >= 0

LEMMA BoundedInParts ==
    ASSUME NEW g \in GapRecords
    PROVE  GapsBounded(g) <=> InnerBounded(g) /\ (\A v \in AllWorkspaces, t \in Sides : SideBounded(g, v, t))
BY DEF GapsBounded, InnerBounded, SideBounded

(* Writing the inner gaps leaves them at least 0. *)
LEMMA InnerWritten ==
    ASSUME NEW g \in GapRecords, InnerBounded(g), NEW scope \in {"current", "all"},
           NEW w \in AllWorkspaces, NEW mode \in Modes, NEW px \in Nat
    PROVE  InnerBounded(GapsUpdate(g, {"inner"}, scope, w, mode, px))
<1> DEFINE value == NewValue(g, "inner", scope, w, mode, px)
           h == GapsUpdate(g, {"inner"}, scope, w, mode, px)
<1>1. value \in Int /\ value >= 0
  BY ValueBounded, KindsThere DEF MinValue
<1>2. g.global["inner"] \in Int
  BY Fields, KindsThere
<1>3. CASE scope = "all"
  <2>1. h.global["inner"] = value
    BY <1>3, KindsThere DEF GapsUpdate
  <2>2. \A v \in AllWorkspaces : h.ws[v]["inner"] = NewOwn(g, "inner", v, mode, value)
    BY <1>3, UpdateAll, KindsThere
  <2> HIDE DEF value, h
  <2>3. \A v \in AllWorkspaces : /\ NewOwn(g, "inner", v, mode, value) \in Int
                                 /\ NewOwn(g, "inner", v, mode, value) + value >= 0
    <3> SUFFICES ASSUME NEW v \in AllWorkspaces
                 PROVE  /\ NewOwn(g, "inner", v, mode, value) \in Int
                        /\ NewOwn(g, "inner", v, mode, value) + value >= 0
      OBVIOUS
    <3>1. g.ws[v]["inner"] \in Int
      BY Fields, KindsThere
    <3> QED
      BY <1>1, <3>1 DEF NewOwn
  <2> QED
    BY <1>1, <2>1, <2>2, <2>3 DEF InnerBounded, h
<1>4. CASE scope = "current"
  <2>1. h.global = g.global
    <3>1. GapsUpdate(g, {"inner"}, "current", w, mode, px).global = g.global
      BY DEF GapsUpdate, GapRecords
    <3> QED
      BY <1>4, <3>1
  <2>2. \A v \in AllWorkspaces : h.ws[v]["inner"]
           = IF v = w THEN value - g.global["inner"] ELSE g.ws[v]["inner"]
    <3> SUFFICES ASSUME NEW v \in AllWorkspaces
                 PROVE  GapsUpdate(g, {"inner"}, "current", w, mode, px).ws[v]["inner"]
                          = IF v = w THEN NewValue(g, "inner", "current", w, mode, px) - g.global["inner"]
                            ELSE g.ws[v]["inner"]
      BY <1>4
    <3> QED
      BY UpdateCurrent, KindsThere
  <2> HIDE DEF value, h
  <2>3. \A v \in AllWorkspaces : h.global["inner"] + h.ws[v]["inner"] >= 0
    BY <1>1, <1>2, <2>1, <2>2 DEF InnerBounded
  <2>4. h.global["inner"] >= 0
    BY <2>1 DEF InnerBounded
  <2> QED
    BY <2>3, <2>4 DEF InnerBounded, h
<1> QED
  BY <1>3, <1>4

(* Writing the gaps of sides leaves the inner ones alone. *)
LEMMA InnerKept ==
    ASSUME NEW g \in GapRecords, NEW T, "inner" \notin T, NEW scope \in {"current", "all"},
           NEW w \in AllWorkspaces, NEW mode, NEW px, NEW v \in AllWorkspaces
    PROVE  /\ GapsUpdate(g, T, scope, w, mode, px).global["inner"] = g.global["inner"]
           /\ GapsUpdate(g, T, scope, w, mode, px).ws[v]["inner"] = g.ws[v]["inner"]
<1>1. "inner" \in Kinds
  BY KindsThere
<1>2. CASE scope = "all"
  BY <1>1, <1>2 DEF GapsUpdate
<1>3. CASE scope = "current"
  <2>1. /\ GapsUpdate(g, T, "current", w, mode, px).global = g.global
        /\ GapsUpdate(g, T, "current", w, mode, px).ws[v]["inner"] = g.ws[v]["inner"]
    BY <1>1, UpdateCurrent
  <2> QED
    BY <1>3, <2>1
<1> QED
  BY <1>2, <1>3

(* A side whose gaps are written for all workspaces is bounded on each of  *)
(* them, whatever it was before.                                           *)
LEMMA SideWrittenForAll ==
    ASSUME NEW g \in GapRecords, NEW T \in SUBSET Sides, NEW w \in AllWorkspaces,
           NEW mode \in Modes, NEW px \in Nat, NEW t \in T, NEW v \in AllWorkspaces
    PROVE  SideBounded(GapsUpdate(g, T, "all", w, mode, px), v, t)
<1> DEFINE value == NewValue(g, t, "all", w, mode, px)
           own == NewOwn(g, t, v, mode, value)
           h == GapsUpdate(g, T, "all", w, mode, px)
<1>1. t \in Kinds /\ t # "inner" /\ T \in SUBSET Kinds
  BY KindsThere
<1>2. g.global["inner"] \in Int /\ g.ws[v]["inner"] \in Int
  BY Fields, KindsThere
<1>3. value \in Int /\ value >= -g.global["inner"]
  BY <1>1, <1>2, ValueBounded DEF MinValue
<1>4. own \in Int /\ own + value + g.global["inner"] >= 0
  <2> HIDE DEF value
  <2> QED
    BY <1>1, <1>3, OwnBounded
<1>5. h.global[t] = value /\ h.ws[v][t] = own
  BY <1>1, UpdateAll
<1>6. h.global["inner"] = g.global["inner"] /\ h.ws[v]["inner"] = g.ws[v]["inner"]
  BY KindsThere, InnerKept
<1> HIDE DEF value, own, h
<1>7. SideBounded(h, v, t)
  BY <1>2, <1>3, <1>4, <1>5, <1>6 DEF SideBounded
<1> QED
  BY <1>7 DEF h

LEMMA SideWrittenForOne ==
    ASSUME NEW g \in GapRecords, NEW T \in SUBSET Sides, NEW w \in AllWorkspaces,
           NEW mode \in Modes, NEW px \in Nat, NEW t \in T
    PROVE  SideBounded(GapsUpdate(g, T, "current", w, mode, px), w, t)
<1> DEFINE value == NewValue(g, t, "current", w, mode, px)
           h == GapsUpdate(g, T, "current", w, mode, px)
<1>1. t \in Kinds /\ t # "inner" /\ T \in SUBSET Kinds
  BY KindsThere
<1>2. g.global["inner"] \in Int /\ g.ws[w]["inner"] \in Int /\ g.global[t] \in Int
  BY <1>1, Fields, KindsThere
<1>3. value \in Int /\ value >= -g.global["inner"] - g.ws[w]["inner"]
  BY <1>1, <1>2, ValueBounded DEF MinValue
<1>4. h.global = g.global /\ h.ws[w][t] = value - g.global[t]
  BY <1>1, UpdateCurrent
<1>5. h.ws[w]["inner"] = g.ws[w]["inner"]
  BY KindsThere, InnerKept
<1> HIDE DEF value, h
<1>6. SideBounded(h, w, t)
  BY <1>2, <1>3, <1>4, <1>5 DEF SideBounded
<1> QED
  BY <1>6 DEF h

(* What is not written stays as it is. *)
LEMMA SideLeft ==
    ASSUME NEW g \in GapRecords, NEW T \in SUBSET Sides, NEW scope \in {"current", "all"},
           NEW w \in AllWorkspaces, NEW mode \in Modes, NEW px \in Nat,
           NEW v \in AllWorkspaces, NEW t \in Sides,
           t \notin T \/ (scope = "current" /\ v # w), SideBounded(g, v, t)
    PROVE  SideBounded(GapsUpdate(g, T, scope, w, mode, px), v, t)
<1> DEFINE h == GapsUpdate(g, T, scope, w, mode, px)
<1>1. t \in Kinds /\ T \in SUBSET Kinds
  BY KindsThere
<1>2. h.global[t] = g.global[t] /\ h.ws[v][t] = g.ws[v][t]
  <2>1. CASE scope = "all"
    BY <1>1, <2>1 DEF GapsUpdate
  <2>2. CASE scope = "current"
    <3>1. /\ GapsUpdate(g, T, "current", w, mode, px).global = g.global
          /\ GapsUpdate(g, T, "current", w, mode, px).ws[v][t]
                = IF v = w /\ t \in T THEN NewValue(g, t, "current", w, mode, px) - g.global[t]
                  ELSE g.ws[v][t]
      BY <1>1, UpdateCurrent
    <3> QED
      BY <2>2, <3>1
  <2> QED
    BY <2>1, <2>2
<1>3. h.global["inner"] = g.global["inner"] /\ h.ws[v]["inner"] = g.ws[v]["inner"]
  BY KindsThere, InnerKept
<1> HIDE DEF h
<1>4. SideBounded(h, v, t)
  BY <1>2, <1>3 DEF SideBounded
<1> QED
  BY <1>4 DEF h

(* cmd_gaps() as a whole keeps the type of the gaps, and their bounds. *)
LEMMA CommandTyped ==
    ASSUME NEW g \in GapRecords, NEW T \in Scopes, NEW scope \in {"current", "all"},
           NEW w \in AllWorkspaces, NEW mode \in Modes, NEW px \in Nat
    PROVE  CmdGaps(g, T, scope, w, mode, px) \in GapRecords
<1>1. T \in SUBSET Kinds /\ Sides \in SUBSET Kinds /\ "plus" \in Modes
  BY DEF Scopes, Kinds, Sides, Modes
<1>2. GapsUpdate(g, T, scope, w, mode, px) \in GapRecords
  BY <1>1, UpdateTyped
<1>3. GapsUpdate(GapsUpdate(g, T, scope, w, mode, px), Sides, "all", w, "plus", 0) \in GapRecords
  BY <1>1, <1>2, UpdateTyped
<1> QED
  BY <1>2, <1>3 DEF CmdGaps

LEMMA CommandBounds ==
    ASSUME NEW g \in GapRecords, GapsBounded(g), NEW T \in Scopes, NEW scope \in {"current", "all"},
           NEW w \in AllWorkspaces, NEW mode \in Modes, NEW px \in Nat
    PROVE  GapsBounded(CmdGaps(g, T, scope, w, mode, px))
<1> DEFINE h == GapsUpdate(g, T, scope, w, mode, px)
<1>1. InnerBounded(g) /\ \A v \in AllWorkspaces, t \in Sides : SideBounded(g, v, t)
  BY BoundedInParts
<1>2. CASE T = {"inner"}
  <2> DEFINE all == GapsUpdate(h, Sides, "all", w, "plus", 0)
  <2>1. h \in GapRecords /\ InnerBounded(h)
    <3>1. T \in SUBSET Kinds
      BY <1>2, KindsThere
    <3> QED
      BY <1>1, <1>2, <3>1, UpdateTyped, InnerWritten
  <2>2. Sides \in SUBSET Sides /\ Sides \in SUBSET Kinds /\ "plus" \in Modes /\ 0 \in Nat
    BY KindsThere DEF Modes
  <2> HIDE DEF h
  <2>3. all \in GapRecords
    BY <2>1, <2>2, UpdateTyped
  <2>4. InnerBounded(all)
    <3>1. all.global["inner"] = h.global["inner"]
      BY <2>1, <2>2, KindsThere, InnerKept
    <3>2. \A v \in AllWorkspaces : all.ws[v]["inner"] = h.ws[v]["inner"]
      BY <2>1, <2>2, KindsThere, InnerKept
    <3> HIDE DEF all
    <3> QED
      BY <2>1, <3>1, <3>2 DEF InnerBounded
  <2>5. \A v \in AllWorkspaces, t \in Sides : SideBounded(all, v, t)
    BY <2>1, <2>2, SideWrittenForAll
  <2>6. CmdGaps(g, T, scope, w, mode, px) = all
    BY <1>2 DEF CmdGaps, h
  <2> HIDE DEF all
  <2> QED
    BY <2>3, <2>4, <2>5, <2>6, BoundedInParts
<1>3. CASE T # {"inner"}
  <2>1. T \in SUBSET Sides
    BY <1>3 DEF Scopes, Sides
  <2>2. h \in GapRecords
    <3>1. T \in SUBSET Kinds
      BY <2>1, KindsThere
    <3> QED
      BY <3>1, UpdateTyped
  <2>3. InnerBounded(h)
    <3>1. h.global["inner"] = g.global["inner"]
      BY <2>1, KindsThere, InnerKept
    <3>2. \A v \in AllWorkspaces : h.ws[v]["inner"] = g.ws[v]["inner"]
      BY <2>1, KindsThere, InnerKept
    <3> HIDE DEF h
    <3> QED
      BY <1>1, <3>1, <3>2 DEF InnerBounded
  <2>4. \A v \in AllWorkspaces, t \in Sides : SideBounded(h, v, t)
    <3> SUFFICES ASSUME NEW v \in AllWorkspaces, NEW t \in Sides
                 PROVE  SideBounded(h, v, t)
      OBVIOUS
    <3>1. SideBounded(g, v, t)
      BY <1>1
    <3>2. CASE t \notin T \/ (scope = "current" /\ v # w)
      BY <2>1, <3>1, <3>2, SideLeft
    <3>3. CASE t \in T /\ scope = "all"
      BY <2>1, <3>3, SideWrittenForAll
    <3>4. CASE t \in T /\ scope = "current" /\ v = w
      BY <2>1, <3>4, SideWrittenForOne
    <3> QED
      BY <3>2, <3>3, <3>4
  <2>5. CmdGaps(g, T, scope, w, mode, px) = h
    BY <1>3 DEF CmdGaps
  <2> HIDE DEF h
  <2> QED
    BY <2>2, <2>3, <2>4, <2>5, BoundedInParts
<1> QED
  BY <1>2, <1>3

-----------------------------------------------------------------------------
(* The gaps of a configuration are numbers. *)
LEMMA ConfigureTyped ==
    ASSUME NEW c \in Settings
    PROVE  Configure(c) \in GapRecords
<1>1. c.gaps \in [Kinds -> Int]
  BY SizesAssumption
<1>2. \A v \in AllWorkspaces : GapsForWorkspace(c, v) \in [Kinds -> Int]
  <2> SUFFICES ASSUME NEW v \in AllWorkspaces, NEW t \in Kinds
               PROVE  (IF t \in DOMAIN c.own[v] THEN c.own[v][t] - c.gaps[t] ELSE 0) \in Int
    BY DEF GapsForWorkspace
  <2>1. c.gaps[t] \in Int
    BY <1>1
  <2>2. CASE t \in DOMAIN c.own[v]
    <3>1. c.own[v][t] \in Int
      BY <2>2, SizesAssumption
    <3> QED
      BY <2>1, <2>2, <3>1
  <2>3. CASE t \notin DOMAIN c.own[v]
    BY <2>3
  <2> QED
    BY <2>2, <2>3
<1>3. [v \in AllWorkspaces |-> GapsForWorkspace(c, v)] \in [AllWorkspaces -> [Kinds -> Int]]
  BY <1>2
<1> QED
  BY <1>1, <1>3 DEF Configure, GapRecords

(* What a step does to the gaps. *)
LEMMA GapsSteps ==
    ASSUME [SizesNext]_sizevars
    PROVE  \/ UNCHANGED gaps
           \/ \E c \in Settings : Reload(c)
           \/ \E T \in Scopes, scope \in {"current", "all"}, w \in AllWorkspaces, px \in GapPixels,
                 mode \in Modes : gaps' = CmdGaps(gaps, T, scope, w, mode, px)
<1>1. CASE Changing
  BY <1>1 DEF Changing, Open, Close, Move, SplitUp, SetLayout, Swap, TreeCall
<1>2. CASE Resizing
  BY <1>2 DEF Resizing, ResizeDirection, ResizeBorder, ResizeWidthHeight, ResizeSet, TreeCall
<1>3. CASE Spacing
  BY <1>3 DEF Spacing, Gaps, Dock, Modes
<1>4. CASE UNCHANGED sizevars
  BY <1>4 DEF sizevars
<1> QED
  BY <1>1, <1>2, <1>3, <1>4 DEF SizesNext

(* Gaps are numbers, of all kinds and of all workspaces. *)
GapsTyped == gaps \in GapRecords

LEMMA GapsTypedInit == ASSUME SizesInit PROVE GapsTyped
<1>1. PICK c \in Settings : gaps = Configure(c)
  BY DEF SizesInit
<1> QED
  BY <1>1, ConfigureTyped DEF GapsTyped

LEMMA GapsTypedStep ==
    ASSUME GapsTyped, [SizesNext]_sizevars
    PROVE  GapsTyped'
<1>1. CASE UNCHANGED gaps
  BY <1>1 DEF GapsTyped
<1>2. CASE \E c \in Settings : Reload(c)
  <2>1. PICK c \in Settings : Reload(c)
    BY <1>2
  <2>2. gaps' = Configure(c)
    BY <2>1 DEF Reload
  <2> QED
    BY <2>2, ConfigureTyped DEF GapsTyped
<1>3. CASE \E T \in Scopes, scope \in {"current", "all"}, w \in AllWorkspaces, px \in GapPixels,
              mode \in Modes : gaps' = CmdGaps(gaps, T, scope, w, mode, px)
  <2>1. PICK T \in Scopes, scope \in {"current", "all"}, w \in AllWorkspaces, px \in GapPixels,
              mode \in Modes : gaps' = CmdGaps(gaps, T, scope, w, mode, px)
    BY <1>3
  <2>2. px \in Nat
    BY SizesAssumption
  <2> QED
    BY <2>1, <2>2, CommandTyped DEF GapsTyped
<1> QED
  BY <1>1, <1>2, <1>3, GapsSteps

LEMMA GapsBoundedStep ==
    ASSUME GapsTyped, [SizesNext]_sizevars
    PROVE  [(\A c \in Settings : ~Reload(c)) /\ GapsBounded(gaps) => GapsBounded(gaps')]_gaps
<1> SUFFICES ASSUME gaps' # gaps, \A c \in Settings : ~Reload(c), GapsBounded(gaps)
             PROVE  GapsBounded(gaps')
  OBVIOUS
<1>1. PICK T \in Scopes, scope \in {"current", "all"}, w \in AllWorkspaces, px \in GapPixels,
            mode \in Modes : gaps' = CmdGaps(gaps, T, scope, w, mode, px)
  BY GapsSteps
<1>2. px \in Nat
  BY SizesAssumption
<1> QED
  BY <1>1, <1>2, CommandBounds DEF GapsTyped

(* The gaps commands never make windows overlap, nor reach over the side   *)
(* of their workspace: on every workspace inner gaps stay at least 0, and  *)
(* so do those of a side together with the inner ones (gaps_update() and   *)
(* cmd_gaps(), commands.c 2429-2573).                                      *)
THEOREM GapsNeverSink == SizesSpec => GapsStay
<1>1. SizesInit => GapsTyped
  BY GapsTypedInit
<1>2. GapsTyped /\ [SizesNext]_sizevars => GapsTyped'
  BY GapsTypedStep
<1>3. GapsTyped /\ [SizesNext]_sizevars
        => [(\A c \in Settings : ~Reload(c)) /\ GapsBounded(gaps) => GapsBounded(gaps')]_gaps
  BY GapsBoundedStep
<1> QED
  BY <1>1, <1>2, <1>3, PTL DEF SizesSpec, GapsStay

(* Where every configuration is bounded, the gaps are, at every moment: a  *)
(* reload gives each workspace what the new configuration says of it.      *)
THEOREM GapsAlwaysBounded ==
    ASSUME \A c \in Settings : GapsBounded(Configure(c))
    PROVE  SizesSpec => []GapsBounded(gaps)
<1>1. SizesInit => GapsTyped /\ GapsBounded(gaps)
  <2> SUFFICES ASSUME SizesInit PROVE GapsBounded(gaps)
    BY GapsTypedInit
  <2>1. PICK c \in Settings : gaps = Configure(c)
    BY DEF SizesInit
  <2> QED
    BY <2>1
<1>2. (GapsTyped /\ GapsBounded(gaps)) /\ [SizesNext]_sizevars => (GapsTyped /\ GapsBounded(gaps))'
  <2> SUFFICES ASSUME GapsTyped, GapsBounded(gaps), [SizesNext]_sizevars
               PROVE  GapsBounded(gaps)'
    BY GapsTypedStep
  <2>1. CASE \E c \in Settings : Reload(c)
    <3>1. PICK c \in Settings : Reload(c)
      BY <2>1
    <3>2. gaps' = Configure(c)
      BY <3>1 DEF Reload
    <3>3. GapsBounded(gaps')
      BY <3>2
    <3> QED
      BY <3>3 DEF GapsBounded
  <2>2. CASE ~\E c \in Settings : Reload(c)
    <3>1. CASE UNCHANGED gaps
      BY <3>1 DEF GapsBounded
    <3>2. CASE gaps' # gaps
      <4>1. GapsBounded(gaps')
        BY <2>2, <3>2, GapsBoundedStep
      <4> QED
        BY <4>1 DEF GapsBounded
    <3> QED
      BY <3>1, <3>2
  <2> QED
    BY <2>1, <2>2
<1> QED
  BY <1>1, <1>2, PTL DEF SizesSpec
=============================================================================
