------------------------------- MODULE MCBar -------------------------------
(* Instances of Bar: what a behaviour may do, by plan. *)
EXTENDS Bar

CONSTANTS o1, o2

Plan(output, ops, config, configs, user, kid, icon) ==
  [output |-> output, ops |-> ops, config |-> config, configs |-> configs, user |-> user, kid |-> kid, icon |-> icon]

Dock == Config("dock", "hide", "a", "none", "any")
Hide == Config("hide", "hide", "a", "none", "none")
HideB == Config("hide", "hide", "b", "none", "none")
Show == Config("hide", "show", "a", "none", "none")
Script == Config("hide", "hide", "none", "w", "none")
NoTray == Config("dock", "hide", "a", "none", "none")

P1 == {Plan(o2, {"modifier", "mode", "config", "lines", "death", "urgent", "exit"}, Hide, {HideB, Show, Dock}, 2, 2, 0)}
P2 == {Plan(o2, {"fullscreen", "outputs", "lines", "command"}, Dock, {}, 2, 1, 0)}
P3 == {Plan(o2, {"outputs", "wish", "end", "config"}, Dock, {NoTray}, 2, 0, 2)}
P4 == {Plan(o2, {"open", "close", "show", "click", "outputs"}, Dock, {}, 3, 0, 0)}
P5 == {Plan(o2, {"lines", "click", "death", "config"}, NoTray, {[NoTray EXCEPT !.cmd = "b"]}, 3, 2, 0)}
P6 == {Plan(o2, {"lines", "config", "death", "modifier"}, Script, {Hide, HideB}, 2, 2, 0)}
Many == P1 \cup P2 \cup P3 \cup P4 \cup P5 \cup P6
=============================================================================
