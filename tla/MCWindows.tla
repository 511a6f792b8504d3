----------------------------- MODULE MCWindows -----------------------------
(* Instances of Windows: what a behaviour may do, by plan. *)
EXTENDS Windows

CONSTANTS w1, w2

Plan(user, client, restart, sticky, existing) ==
  [user |-> user, client |-> client, restart |-> restart, sticky |-> sticky,
   existing |-> existing]

\* windows come and go while workspaces are switched; a restart with windows that
\* exist; a sticky group of two containers
ManyPlans == {Plan(2, 2, 0, 0, {}), Plan(1, 3, 0, 0, {}), Plan(1, 1, 1, 0, {w1}), Plan(2, 1, 0, 2, {})}
=============================================================================
