----------------------------- MODULE MCPrograms -----------------------------
(***************************************************************************)
(* Sequential parts of i3 and the programs around it, each on its own: the *)
(* log and its reader, what is started with startup notification, the      *)
(* sizes of windows, the menu and the status line.                         *)
(***************************************************************************)
EXTENDS ShmLog, Startup, Dmenu, Status, Sizes

CONSTANT Parts

VARIABLE part

programs == <<part, vars, uvars, dvars, svars, sizevars>>

Menu == <<<<"b", " ", "lead", "more">>, <<"a", "b">>, <<"a">>, <<"b", "a">>,
          <<"lead", "more", " ", "a", "b">>>>
Keyed == {<<"a">>, <<"b">>, <<" ">>, <<"lead", "more">>}

(* Configurations: without gaps, with outer ones that make up for inner    *)
(* ones, and with each kind of smart gaps.                                 *)
Wide(inner, outer) == [t \in Kinds |-> IF t = "inner" THEN inner ELSE outer]
Unassigned == [v \in AllWorkspaces |-> << >>]
SomeSettings ==
    {[gaps |-> Wide(0, 0), smart |-> "off", own |-> Unassigned],
     [gaps |-> Wide(3, -1), smart |-> "off", own |-> [Unassigned EXCEPT ![Here] = [left |-> 2]]],
     [gaps |-> Wide(3, 1), smart |-> "on", own |-> Unassigned],
     [gaps |-> Wide(2, 1), smart |-> "inverse_outer", own |-> Unassigned]}
AScreen == [w |-> 40, h |-> 40]
SomeAmounts ==
    {[n |-> 5, of |-> "px"], [n |-> -7, of |-> "px"], [n |-> 20, of |-> "ppt"], [n |-> -10, of |-> "ppt"]}
SomeTargets ==
    {[w |-> 15, h |-> 4, of |-> "px"], [w |-> 0, h |-> 80, of |-> "ppt"], [w |-> 30, h |-> 0, of |-> "ppt"]}

PInit ==
    /\ part \in Parts /\ Init /\ UInit /\ DInit /\ SInit /\ SizesInit
    /\ part # "cells" => smart = "off"
    /\ part \notin {"shares", "gaps", "cells"} => gaps.global.inner = 0
    /\ part # "menu" => lines = 0
    /\ part # "status" => device = [of |-> Default, forced |-> FALSE]

(* Messages of one length, and fewer of two lengths, by which a lap ends   *)
(* earlier than the next; with a reader at any moment.                     *)
EvenLog == Next /\ len' \in {0, 2}
UnevenLog == Next /\ len' \in {0, 1, 3} /\ logged' <= 5

(* Shares with any gaps; gaps that are changed alike on all sides; and any *)
(* gaps command for windows that were arranged.                            *)
Alike ==
    \A t, u \in Sides, v \in AllWorkspaces :
        /\ gaps'.global[t] - gaps.global[t] = gaps'.global[u] - gaps.global[u]
        /\ gaps'.ws[v][t] - gaps.ws[v][t] = gaps'.ws[v][u] - gaps.ws[v][u]
SizesPart ==
    \/ part = "shares" /\ (Changing \/ Resizing)
    \/ part = "gaps" /\ Spacing /\ Alike
    \/ part = "cells" /\ calls < 3 /\ Changing
    \/ part = "cells" /\ calls = 3 /\ Spacing

PNext ==
    /\ UNCHANGED part
    /\ \/ part = "even log" /\ EvenLog /\ UNCHANGED <<uvars, dvars, svars, sizevars>>
       \/ part = "uneven log" /\ UnevenLog /\ UNCHANGED <<uvars, dvars, svars, sizevars>>
       \/ part = "startup" /\ UNext /\ UNCHANGED <<vars, dvars, svars, sizevars>>
       \/ part = "menu" /\ DNext /\ UNCHANGED <<vars, uvars, svars, sizevars>>
       \/ part = "status" /\ SNext /\ UNCHANGED <<vars, uvars, dvars, sizevars>>
       \/ SizesPart /\ UNCHANGED <<vars, uvars, dvars, svars>>

PSpec == PInit /\ [][PNext]_programs /\ (part = "status" => SFairness)

(* i3status writes line after line and shows what it is told (VolumeShown  *)
(* of Status), in the part that is about it.                               *)
StatusShowsVolume == part = "status" => VolumeShown
=============================================================================
