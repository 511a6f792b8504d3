----------------------------- MODULE WindowLife -----------------------------
(***************************************************************************)
(* What managing windows promises to the clients.  A client shows and      *)
(* hides its window; a window manager follows that story, late and perhaps *)
(* leaving something out, but never ahead of it: a window is managed for a *)
(* "show", and let go for a "hide" that came after that.                   *)
(***************************************************************************)
EXTENDS Naturals, Sequences

CONSTANT Windows

VARIABLES
  story,      \* per window, what its client did and the manager has not gone past
  asked,      \* the windows about to be managed
  managed

vars == <<story, asked, managed>>

TypeOK ==
  /\ story \in [Windows -> Seq({"show", "hide"})]
  /\ asked \subseteq Windows /\ managed \subseteq Windows

Init ==
  /\ story \in [Windows -> {<< >>, <<"show">>}]
  /\ asked = {} /\ managed = {}

Did(w, what) ==
  /\ story' = [story EXCEPT ![w] = Append(@, what)]
  /\ UNCHANGED <<asked, managed>>

\* the story goes on behind the first such event
Past(w, what) ==
  \E i \in 1 .. Len(story[w]) :
    /\ story[w][i] = what /\ \A j \in 1 .. i - 1 : story[w][j] # what
    /\ story' = [story EXCEPT ![w] = SubSeq(@, i + 1, Len(@))]

Hear(w) ==
  /\ Past(w, "show")
  /\ asked' = asked \/ (w \notin managed /\ asked' = asked \cup {w})
  /\ UNCHANGED managed

Manage(w) ==
  /\ w \in asked \ managed
  /\ managed' = managed \cup {w} /\ asked' = asked \ {w}
  /\ UNCHANGED story

GiveUp(w) == w \in asked /\ asked' = asked \ {w} /\ UNCHANGED <<story, managed>>

Close(w) ==
  /\ w \in managed /\ Past(w, "hide")
  /\ managed' = managed \ {w} /\ UNCHANGED asked

\* the manager starts again from the windows that are shown
Restart ==
  /\ asked = {} /\ managed' = {} /\ UNCHANGED asked
  /\ story' \in [Windows -> {<< >>, <<"show">>}]

Next ==
  \/ Restart
  \/ \E w \in Windows : Did(w, "show") \/ Did(w, "hide") \/ Hear(w) \/ Manage(w)
                        \/ GiveUp(w) \/ Close(w)

Spec == Init /\ [][Next]_vars
=============================================================================
