------------------------------ MODULE MCInput ------------------------------
(***************************************************************************)
(* Instances of all that tells i3 what to do: keys, with two keys and the  *)
(* modifiers Shift and Mod4, commands, and the configuration.              *)
(***************************************************************************)
EXTENDS Keys, MCParsers

CONSTANTS x, y, z, shiftKey, modKey

ModifierKeys == (shiftKey :> "shift") @@ (modKey :> "mod")

\* keymaps: a level of each key; the keypad's z changes with NumLock
Us == [k \in {x, y, z, shiftKey, modKey}, l \in SUBSET Levels |->
  CASE k = x -> IF "shift" \in l THEN "X" ELSE "x"
    [] k = y -> IF "shift" \in l THEN "Y" ELSE "y"
    [] k = z -> IF ("num" \in l) # ("shift" \in l) THEN "KP_1" ELSE "KP_End"
    [] OTHER -> "modifier"]
Ru == [k \in {x, y, z, shiftKey, modKey}, l \in SUBSET Levels |-> CASE k = x -> Us[y, l] [] k = y -> Us[x, l] [] OTHER -> Us[k, l]]

Sym1(symbol, mods, groups, release, run) ==
  [by |-> "sym", sym |-> symbol, key |-> x, mods |-> mods, groups |-> groups, release |-> release, run |-> run]
Code1(key, mods, groups, release, run) ==
  [by |-> "code", sym |-> "", key |-> key, mods |-> mods, groups |-> groups, release |-> release, run |-> run]

Plan(modes, maps, groups, toggles, notice, bound) ==
  [modes |-> modes, maps |-> maps, groups |-> groups, locks |-> toggles, notice |-> notice, fuel |-> bound]

\* bindings for the press and the release, with and without modifiers, two modes
Releases == ("default" :> <<Sym1("x", {}, {}, TRUE, "nop"), Sym1("x", {"mod"}, {}, FALSE, "other"), Sym1("x", {"mod"}, {}, TRUE, "nop"),
                            Code1(y, {}, {}, TRUE, "reload")>>)
            @@ ("other" :> <<Sym1("x", {}, {}, TRUE, "default"), Sym1("x", {"shift"}, {}, FALSE, "nop"), Sym1("y", {}, {}, FALSE, "default")>>)
Layouts == ("default" :> <<Sym1("x", {}, {}, FALSE, "nop"), Sym1("y", {}, {2}, FALSE, "other"), Sym1("KP_1", {}, {}, FALSE, "nop"),
                            Code1(z, {"shift"}, {1}, TRUE, "reload")>>)
            @@ ("other" :> <<Sym1("x", {"mod"}, {}, TRUE, "default"), Sym1("Y", {"shift"}, {2}, FALSE, "nop")>>)
Plans == {Plan(Releases, {Us}, {1}, {"num", "caps"}, "new", 6),
          Plan(Layouts, {Us, Ru}, {1, 2}, {"num"}, "new", 5),
          Plan(Layouts, {Us, Ru}, {1, 2}, {}, "map", 5)}

InputInit ==
  /\ Init /\ KeyInit
  /\ part # "keys" => setup.locks = {} /\ map = Us

InputNext ==
  \/ Next /\ UNCHANGED keyvars
  \/ part = "keys" /\ KeyNext /\ UNCHANGED <<cvars, fvars>>

InputSpec == InputInit /\ [][InputNext /\ UNCHANGED part]_<<mcvars, keyvars>>
=============================================================================
