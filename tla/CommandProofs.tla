---------------------------- MODULE CommandProofs ----------------------------
(***************************************************************************)
(* A mark names one container, for any containers and any commands: the    *)
(* parser may be anywhere in its walk, with any criteria left by the calls *)
(* before, so nothing is needed of it but what the commands do to marks.   *)
(***************************************************************************)
EXTENDS CommandParser, TLAPS

\* The worlds in which every container has its marks and shares none.
Unique(w) ==
    /\ w = [marks |-> w.marks, floating |-> w.floating, focused |-> w.focused]
    /\ w.marks = [c \in All |-> w.marks[c]]
    /\ \A c, d \in All : c # d => w.marks[c] \cap w.marks[d] = {}

\* A mark that one container has alone is taken from it, and the others keep theirs:
\* con_unmark(NULL, mark) leaves it to nobody.
LEMMA UnmarkedEverywhere ==
    ASSUME NEW w, NEW m, Unique(w)
    PROVE  /\ Unique(UnmarkAnywhere(w, m))
           /\ \A c \in All : /\ UnmarkAnywhere(w, m).marks[c] \subseteq w.marks[c]
                             /\ m \notin UnmarkAnywhere(w, m).marks[c]
<1> DEFINE holders == {i \in DOMAIN AllCons : m \in w.marks[AllCons[i]]}
<1>0. \A c \in All : \E i \in DOMAIN AllCons : c = AllCons[i]
  BY DEF All, ToSet
<1>1. CASE holders = {}
  <2>1. UnmarkAnywhere(w, m) = w
    BY <1>1 DEF UnmarkAnywhere
  <2>2. \A c \in All : m \notin w.marks[c]
    BY <1>0, <1>1
  <2> QED BY <2>1, <2>2
<1>2. CASE holders # {}
  <2>1. PICK i \in holders : TRUE
    BY <1>2
  <2>2. holders = {i}
    <3> SUFFICES ASSUME NEW j \in holders PROVE j = i
      BY <2>1
    <3>1. AllCons[i] \in All /\ AllCons[j] \in All
      BY DEF All, ToSet
    <3>2. AllCons[i] = AllCons[j]
      BY <3>1 DEF Unique
    <3> QED BY <3>2, CommandAssumption
  <2>3. Min(holders) = i
    <3>1. i \in Nat
      BY CommandAssumption
    <3> QED BY <2>2, <3>1 DEF Min
  <2> DEFINE a == AllCons[i]
             marks == [w.marks EXCEPT ![a] = @ \ {m}]
  <2>4. UnmarkAnywhere(w, m) = [marks |-> marks, floating |-> w.floating, focused |-> w.focused]
    <3>1. UnmarkAnywhere(w, m) = [w EXCEPT !.marks[AllCons[i]] = @ \ {m}]
      BY <1>2, <2>3 DEF UnmarkAnywhere
    <3> QED BY <3>1 DEF Unique
  <2>5. marks = [c \in All |-> IF c = a THEN w.marks[c] \ {m} ELSE w.marks[c]]
    BY DEF Unique
  <2>6. ASSUME NEW c \in All PROVE m \notin marks[c] /\ marks[c] \subseteq w.marks[c]
    <3>1. a \in All /\ m \in w.marks[a]
      BY <2>1 DEF All, ToSet
    <3>2. CASE c = a
      BY <2>5, <3>2
    <3>3. CASE c # a
      BY <2>5, <3>1, <3>3 DEF Unique
    <3> QED BY <3>2, <3>3
  <2> HIDE DEF marks
  <2>7. marks = [c \in All |-> marks[c]]
    BY <2>5
  <2> QED BY <2>4, <2>6, <2>7 DEF Unique
<1> QED BY <1>1, <1>2

\* Whoever gets the mark then is alone with it; other marks are where they were or gone
\* (con_mark()).
LEMMA MarkedOnce ==
    ASSUME NEW w, NEW a, NEW m, NEW add, Unique(w)
    PROVE  Unique(ConMark(w, a, m, add))
<1> DEFINE u == UnmarkAnywhere(w, m)
           marks == [u.marks EXCEPT ![a] = (IF add THEN @ ELSE {}) \cup {m}]
<1>1. Unique(u) /\ \A c \in All : m \notin u.marks[c]
  BY UnmarkedEverywhere
<1>2. ConMark(w, a, m, add) = [marks |-> marks, floating |-> u.floating, focused |-> u.focused]
  <2>1. ConMark(w, a, m, add) = [u EXCEPT !.marks[a] = (IF add THEN @ ELSE {}) \cup {m}]
    BY DEF ConMark
  <2> HIDE DEF u
  <2> QED BY <1>1, <2>1 DEF Unique
<1> HIDE DEF u
<1>3. marks = [c \in All |-> IF c = a THEN (IF add THEN u.marks[c] ELSE {}) \cup {m} ELSE u.marks[c]]
  BY <1>1 DEF Unique
<1>4. \A c \in All : marks[c] \subseteq u.marks[c] \cup {m} /\ (m \in marks[c] => c = a)
  BY <1>1, <1>3
<1>5. ASSUME NEW c \in All, NEW d \in All, c # d PROVE marks[c] \cap marks[d] = {}
  BY <1>1, <1>4, <1>5 DEF Unique
<1> HIDE DEF marks
<1>6. marks = [c \in All |-> marks[c]]
  BY <1>3
<1> QED BY <1>2, <1>5, <1>6 DEF Unique

\* Taking marks away from some containers keeps the rest as it was.
LEMMA FewerMarks ==
    ASSUME NEW w, NEW marks, Unique(w), marks = [c \in All |-> marks[c]],
           \A c \in All : marks[c] \subseteq w.marks[c]
    PROVE  Unique([w EXCEPT !.marks = marks])
<1>1. [w EXCEPT !.marks = marks] = [marks |-> marks, floating |-> w.floating, focused |-> w.focused]
  BY DEF Unique
<1>2. \A c, d \in All : c # d => marks[c] \cap marks[d] = {}
  BY DEF Unique
<1> QED BY <1>1, <1>2 DEF Unique

\* A mark that its container has goes, another one comes (con_mark_toggle()).
LEMMA ToggledOnce ==
    ASSUME NEW w, NEW a, NEW m, NEW add, Unique(w)
    PROVE  Unique(ConMarkToggle(w, a, m, add))
<1>1. CASE m \in w.marks[a]
  <2> DEFINE marks == [w.marks EXCEPT ![a] = @ \ {m}]
  <2>1. ConMarkToggle(w, a, m, add) = [w EXCEPT !.marks = marks]
    BY <1>1 DEF ConMarkToggle, Unique
  <2>2. marks = [c \in All |-> IF c = a THEN w.marks[c] \ {m} ELSE w.marks[c]]
    BY DEF Unique
  <2>3. \A c \in All : marks[c] \subseteq w.marks[c]
    BY <2>2
  <2> HIDE DEF marks
  <2>4. marks = [c \in All |-> marks[c]]
    BY <2>2
  <2> QED BY <2>1, <2>3, <2>4, FewerMarks
<1>2. CASE m \notin w.marks[a]
  BY <1>2, MarkedOnce DEF ConMarkToggle
<1> QED BY <1>1, <1>2

\* Every command leaves a mark to one container, whatever it is applied to and with
\* whatever on the stack.
LEMMA CommandsKeepMarksApart ==
    ASSUME NEW call, NEW p, NEW w, Unique(w)
    PROVE  Unique(Run(call, p, w).world)
<1>1. Unique(Mark(p, w).world)
  <2> DEFINE ts == Targets(p, w)
             m == Get(p.stack, "mark")[1]
             add == Get(p.stack, "mode") = <<"--add">>
             marked == IF Has(p.stack, "toggle") THEN ConMarkToggle(w, ts[1], m, add)
                       ELSE ConMark(w, ts[1], m, add)
  <2>1. Unique(marked)
    BY MarkedOnce, ToggledOnce
  <2>2. Mark(p, w).world = w \/ Mark(p, w).world = marked
    BY DEF Mark, Success, Refused
  <2> HIDE DEF marked
  <2> QED BY <2>1, <2>2
<1>2. Unique(Unmark(p, w).world)
  <2> DEFINE cs == IF IsEmpty(p.match) THEN All ELSE ToSet(p.owindows)
             gone == ToSet(Get(p.stack, "mark"))
             none == [c \in All |-> IF c \in cs THEN {} ELSE w.marks[c]]
             fewer == [c \in All |-> IF c \in cs THEN w.marks[c] \ gone ELSE w.marks[c]]
             anywhere == UnmarkAnywhere(w, Get(p.stack, "mark")[1])
  <2>1. Unique([w EXCEPT !.marks = none])
    <3>1. none = [c \in All |-> none[c]] /\ \A c \in All : none[c] \subseteq w.marks[c]
      OBVIOUS
    <3> HIDE DEF none
    <3> QED BY <3>1, FewerMarks
  <2>2. Unique([w EXCEPT !.marks = fewer])
    <3>1. fewer = [c \in All |-> fewer[c]] /\ \A c \in All : fewer[c] \subseteq w.marks[c]
      OBVIOUS
    <3> HIDE DEF fewer
    <3> QED BY <3>1, FewerMarks
  <2>3. Unique(anywhere)
    BY UnmarkedEverywhere
  <2>4. \/ Unmark(p, w).world = [w EXCEPT !.marks = none]
        \/ Unmark(p, w).world = [w EXCEPT !.marks = fewer]
        \/ Unmark(p, w).world = anywhere
    <3>1. [w EXCEPT !.marks = [c \in All |-> IF c \in cs THEN {} ELSE @[c]]] = [w EXCEPT !.marks = none]
      BY DEF Unique
    <3>2. [w EXCEPT !.marks = [c \in All |-> IF c \in cs THEN @[c] \ gone ELSE @[c]]] = [w EXCEPT !.marks = fewer]
      BY DEF Unique
    <3> QED BY <3>1, <3>2 DEF Unmark, Success
  <2> HIDE DEF none, fewer, anywhere
  <2> QED BY <2>1, <2>2, <2>3, <2>4
<1>3. Unique(Floating(p, w).world)
  <2>1. PICK f : Floating(p, w).world = w \/ Floating(p, w).world = [w EXCEPT !.floating = f]
    BY DEF Floating, Success, Refused
  <2> QED BY <2>1 DEF Unique
<1>4. Unique(Focus(p, w).world)
  <2>1. Focus(p, w).world = w \/ Focus(p, w).world = [w EXCEPT !.focused = Last(p.owindows)]
    BY DEF Focus, Success, Refused
  <2> QED BY <2>1 DEF Unique
<1>5. Unique(Exec(p, w).world)
  BY DEF Exec, Success, Refused
<1>6. Unique(Success(w, {}).world)
  BY DEF Success
<1> QED BY <1>1, <1>2, <1>3, <1>4, <1>5, <1>6 DEF Run

\* The inductive invariant.
MarksInv == Unique(world)

\* A mark names one container at every token of every sequence of commands: two containers
\* with one mark would make `unmark' and the next `mark' take it from only one of them
\* (con.c:939).
THEOREM AMarkAlwaysNamesOne == CSpec => []MarksUnique
<1>1. CInit => MarksInv
  BY DEF CInit, Unique, MarksInv
<1>2. MarksInv /\ [CNext]_cvars => MarksInv'
  <2> SUFFICES ASSUME MarksInv, [CNext]_cvars PROVE Unique(world')
    BY DEF MarksInv
  <2>1. CASE ParseCommand \/ CommandError \/ Return \/ UNCHANGED cvars
    BY <2>1 DEF ParseCommand, CommandError, Return, cvars, MarksInv
  <2>2. CASE TakeCommandToken
    <3>1. PICK call, p : world' = world \/ world' = Run(call, p, world).world
      BY <2>2 DEF TakeCommandToken
    <3> QED BY <3>1, CommandsKeepMarksApart DEF MarksInv
  <2> QED BY <2>1, <2>2 DEF CNext
<1>3. MarksInv => MarksUnique
  BY DEF MarksInv, Unique, MarksUnique
<1> QED BY <1>1, <1>2, <1>3, PTL DEF CSpec
==============================================================================
