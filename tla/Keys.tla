-------------------------------- MODULE Keys --------------------------------
(***************************************************************************)
(* Key bindings (bindings.c, key_press.c, config.c): the X server grabs    *)
(* keys for i3 and sends it what happens to them; i3 translates symbols to *)
(* keys with the keymap it has loaded, finds the binding of an event, and  *)
(* runs its command, which may change the mode or reload the bindings.     *)
(***************************************************************************)
EXTENDS Integers, FiniteSets, SequencesExt, FiniteSetsExt

CONSTANTS
  Keys,       \* key codes
  ModKeys,    \* [modifier keys -> modifier they set]
  Keypad,     \* symbols of the keypad
  Setups      \* records: modes   [names, "default" among them -> sequences of bindings]
              \*          maps    keymaps, functions [key, levels -> symbol]
              \*          groups  groups the user switches to
              \*          locks   locks the user toggles
              \*          notice  "new" or "map", how a keymap is announced
              \*          fuel    bound: what the user does
\* a binding: by ("sym" or "code"), sym, key, mods, groups, release, and run: the mode
\* that it enters, "reload", or another command

Locks == {"num", "caps"}
Levels == {"shift", "num"}
None == "none"

ASSUME KeysAssumption ==
  \A s \in Setups :
    /\ "default" \in DOMAIN s.modes /\ "reload" \notin DOMAIN s.modes
    /\ s.notice \in {"new", "map"} /\ s.locks \subseteq Locks
    /\ \A n \in DOMAIN s.modes : Len(s.modes[n]) \in Nat /\ DOMAIN s.modes[n] = 1 .. Len(s.modes[n])

VARIABLES
  held, locks, group, map,   \* server: keys down, locks, group, keymap
  grabs, active,             \* passive grabs of i3; the key that began an active one
  queue,                     \* events on their way to i3
  known, current, mode,      \* i3: keymap, group, mode
  binds,                     \* [modes -> sequences of bindings with on and codes]
  sent, ignored,             \* sequence number of i3's requests, that of the map notification handled last
  last,                      \* history: the press i3 handled last in this mode
  setup, fuel
server == <<held, locks, group, map, active>>
i3 == <<known, current, mode, binds, sent, ignored>>
keyvars == <<server, grabs, queue, i3, last, setup, fuel>>

-----------------------------------------------------------------------------
(* Bindings *)

Toggled(mods) == IF "shift" \in mods THEN mods \ {"shift"} ELSE mods \cup {"shift"}
Sym(m, k, mods) == m[k, mods \cap Levels]
WithLocks(k, mods, locking) == {[key |-> k, mods |-> mods \cup l] : l \in SUBSET locking}

\* add_keycode_if_matches(): without a match Shift is toggled, and with NumLock the
\* key must give the same symbol
KeycodeIfMatches(m, b, k) ==
  LET direct == Sym(m, k, b.mods) = b.sym
      mods == IF direct THEN b.mods ELSE Toggled(b.mods)
      same == "num" \notin b.mods /\ Sym(m, k, mods \cup {"num"}) = b.sym
  IN  IF ~direct /\ (Sym(m, k, b.mods) \in Keypad \/ Sym(m, k, mods) # b.sym) THEN {}
      ELSE WithLocks(k, b.mods, IF same THEN Locks ELSE {"caps"})

\* translate_keysyms() of one binding
Translated(m, b) ==
  LET same == "num" \notin b.mods /\ Sym(m, b.key, b.mods) = Sym(m, b.key, b.mods \cup {"num"})
  IN  [b EXCEPT !.codes = IF b.by = "sym" THEN UNION {KeycodeIfMatches(m, b, k) : k \in Keys}
                          ELSE WithLocks(b.key, b.mods, IF same THEN Locks ELSE {"caps"})]
TranslateKeysyms(m, q) == [i \in DOMAIN q |-> Translated(m, q[i])]

\* event_state_mask: a bit for each modifier and, above them, for each group; the larger mask
\* comes first, and equal ones keep their order
Weight(bit, n, s) == IF n \in s THEN bit ELSE 0
Mask(b) ==
  Weight(1, "shift", b.mods) + Weight(2, "caps", b.mods) + Weight(8, "mod", b.mods) + Weight(16, "num", b.mods)
  + 65536 * (Weight(1, 1, b.groups) + Weight(2, 2, b.groups) + Weight(4, 3, b.groups) + Weight(8, 4, b.groups))
Precedes(q, i, j) == Mask(q[i]) > Mask(q[j]) \/ (Mask(q[i]) = Mask(q[j]) /\ i < j)
Rank(q, j) == 1 + Cardinality({i \in DOMAIN q : Precedes(q, i, j)})
ReorderBindings(q) == [p \in DOMAIN q |-> q[CHOOSE j \in DOMAIN q : Rank(q, j) = p]]

\* configure_binding()
NewBinding(b) ==
  [by |-> b.by, sym |-> b.sym, key |-> b.key, mods |-> b.mods, groups |-> b.groups, release |-> b.release,
   run |-> b.run, on |-> IF b.release THEN "release" ELSE "press", codes |-> {}]
Configured(q) == ReorderBindings([i \in DOMAIN q |-> NewBinding(q[i])])

InCurrentGroup(b, g) == b.groups = {} \/ g \in b.groups
GrabAllKeys(q, g) ==
  UNION {IF q[i].by = "code" THEN WithLocks(q[i].key, q[i].mods, Locks) ELSE q[i].codes :
           i \in {j \in DOMAIN q : InCurrentGroup(q[j], g)}}

Keep(q) == q
\* a press: the bindings for the release that it marks, the marks of earlier presses go
Disarm(q) == [i \in DOMAIN q |-> [q[i] EXCEPT !.on = IF @ = "armed" THEN "release" ELSE @]]
Matches(b, e) ==
  /\ b.groups \subseteq {e.group}
  /\ \E c \in b.codes : c.key = e.key /\ (c.mods = e.mods \ {"caps"} \/ (b.on = "armed" /\ e.type = "release"))

\* get_binding(): the first binding for a press, or for a release; a press marks the bindings for
\* the release of its key up to the first behind the one that it runs
MatchOf(q, e) ==
  LET run == {i \in DOMAIN q : Matches(q[i], e) /\ (q[i].on = "press" <=> e.type = "press")}
  IN  IF run = {} THEN 0 ELSE Min(run)
Marked(q, e) ==
  LET run == MatchOf(q, e)
      later == {i \in DOMAIN q : i > run /\ Matches(q[i], e) /\ q[i].on = "release"}
      end == IF run = 0 \/ later = {} THEN Len(q) ELSE Min(later)
  IN  [i \in DOMAIN q |-> [q[i] EXCEPT !.on = IF @ = "release" /\ i <= end /\ Matches(q[i], e) THEN "armed" ELSE @]]

-----------------------------------------------------------------------------
(* The user and the server *)

State == {ModKeys[k] : k \in held \cap DOMAIN ModKeys} \cup locks
Does == fuel > 0 /\ fuel' = fuel - 1 /\ UNCHANGED <<i3, grabs, last, setup>>

KeyEvent(type, k) == [type |-> type, key |-> k, mods |-> State, group |-> group]
Notice(type, g) == [type |-> type, group |-> g, seq |-> sent]

Press(k) ==
  LET taken == [key |-> k, mods |-> State] \in grabs
  IN  /\ Does /\ k \notin held
      /\ held' = held \cup {k}
      /\ active' = IF active = None /\ taken THEN k ELSE active
      /\ queue' = IF active # None \/ taken THEN Append(queue, KeyEvent("press", k)) ELSE queue
      /\ UNCHANGED <<locks, group, map>>

Release(k) ==
  /\ Does /\ k \in held
  /\ held' = held \ {k}
  /\ active' = IF active = k THEN None ELSE active
  /\ queue' = IF active # None THEN Append(queue, KeyEvent("release", k)) ELSE queue
  /\ UNCHANGED <<locks, group, map>>

ToggleLock(l) ==
  /\ Does /\ locks' = (locks \ {l}) \cup ({l} \ locks)
  /\ UNCHANGED <<held, group, map, active, queue>>

SwitchGroup(g) ==
  /\ Does /\ g # group /\ group' = g
  /\ queue' = Append(queue, Notice("group", g))
  /\ UNCHANGED <<held, locks, map, active>>

ChangeKeymap(m) ==
  /\ Does /\ m # map /\ map' = m
  /\ queue' = Append(queue, Notice(setup.notice, group))
  /\ UNCHANGED <<held, locks, group, active>>

\* a new keyboard with the keys of the old one: no XCB_XKB_NKN_DETAIL_KEYCODES
ReplaceKeyboard ==
  /\ Does /\ queue' = Append(queue, Notice("device", group))
  /\ UNCHANGED <<held, locks, group, map, active>>

-----------------------------------------------------------------------------
(* i3 *)

KeyInit ==
  /\ setup \in Setups /\ fuel = setup.fuel
  /\ held = {} /\ locks = {} /\ group = 1 /\ map \in setup.maps
  /\ active = None /\ queue = << >> /\ known = map /\ current = 1 /\ mode = "default"
  /\ binds = [n \in DOMAIN setup.modes |->
                LET q == Configured(setup.modes[n]) IN IF n = "default" THEN TranslateKeysyms(map, q) ELSE q]
  /\ grabs = GrabAllKeys(binds["default"], 1)
  /\ sent = 1 /\ ignored = 0 /\ last = {}

GrabTranslate(m, q) ==
  /\ binds' = [binds EXCEPT ![mode] = TranslateKeysyms(m, q)]
  /\ grabs' = GrabAllKeys(q, current)
  /\ sent' = sent + 1
\* ungrab_all_keys(), translate_keysyms(), grab_all_keys()
Regrab(m, q) ==
  /\ binds' = [binds EXCEPT ![mode] = TranslateKeysyms(m, q)]
  /\ grabs' = GrabAllKeys(binds'[mode], current)
  /\ sent' = sent + 1

SwitchMode(n, bs) ==
  /\ mode' = n
  /\ binds' = [bs EXCEPT ![n] = Disarm(TranslateKeysyms(known, @))]
  /\ grabs' = GrabAllKeys(binds'[n], current)
  /\ last' = {} /\ sent' = sent + 1

\* load_configuration() of the same file: everything as it was read
LoadConfiguration == SwitchMode("default", [n \in DOMAIN binds |-> Configured(setup.modes[n])])

\* run_binding()
RunBinding(bs, i, now) ==
  CASE i # 0 /\ bs[mode][i].run \in DOMAIN binds -> SwitchMode(bs[mode][i].run, bs)
    [] i # 0 /\ bs[mode][i].run = "reload" -> LoadConfiguration
    [] OTHER -> mode' = mode /\ binds' = bs /\ last' = now /\ UNCHANGED <<grabs, sent>>

HandleKeyPress(e) ==
  LET q == IF e.type = "press" THEN Disarm(binds[mode]) ELSE binds[mode]
  IN  /\ e.type \in {"press", "release"}
      /\ IF e.type = "press"
           THEN RunBinding([binds EXCEPT ![mode] = Marked(q, e)], MatchOf(q, e), {e})
           ELSE RunBinding(binds, MatchOf(q, e), last)
      /\ UNCHANGED <<known, current, ignored>>

\* XkbNewKeyboardNotify: load_keymap() first, if the keycodes changed
HandleNewKeyboard(e) ==
  /\ e.type \in {"new", "device"}
  /\ known' = IF e.type = "new" THEN map ELSE known
  /\ Regrab(known', binds[mode])
  /\ UNCHANGED <<current, mode, ignored, last>>

\* XkbMapNotify: load_keymap() last; a second one of the same sequence number is ignored
HandleMap(e) ==
  /\ e.type = "map"
  /\ IF e.seq = ignored THEN UNCHANGED <<i3, grabs>>
     ELSE /\ Regrab(known, binds[mode])
          /\ known' = map /\ ignored' = e.seq
          /\ UNCHANGED <<current, mode>>
  /\ UNCHANGED last

HandleGroup(e) ==
  /\ e.type = "group"
  /\ current' = e.group
  /\ IF e.group = current THEN UNCHANGED <<grabs, sent>>
     ELSE grabs' = GrabAllKeys(binds[mode], e.group) /\ sent' = sent + 1
  /\ UNCHANGED <<known, mode, binds, ignored, last>>

HandleEvent ==
  /\ queue # << >> /\ queue' = Tail(queue)
  /\ LET e == Head(queue) IN HandleKeyPress(e) \/ HandleNewKeyboard(e) \/ HandleMap(e) \/ HandleGroup(e)
  /\ UNCHANGED <<server, setup, fuel>>

KeyNext ==
  \/ \E k \in Keys : Press(k) \/ Release(k)
  \/ \E l \in setup.locks : ToggleLock(l)
  \/ \E g \in setup.groups : SwitchGroup(g)
  \/ \E m \in setup.maps : ChangeKeymap(m)
  \/ ReplaceKeyboard
  \/ HandleEvent

KeySpec == KeyInit /\ [][KeyNext]_keyvars

-----------------------------------------------------------------------------
(* Properties *)

\* When i3 has seen every event the server's grabs are those of the bindings of the mode,
\* resolved with the keymap and the group the server has. It holds for keymaps announced
\* with XkbNewKeyboardNotify; a XkbMapNotify resolves with the keymap before the change.
GrabsFollow ==
  queue = << >> =>
    /\ current = group
    /\ setup.notice = "new" => grabs = GrabAllKeys(TranslateKeysyms(map, binds[mode]), group)

\* data.h:319-322: the modifiers may be released before the key. When the key of the last press
\* is released in the same mode and group, the first binding for a release that the
\* press matched runs, whatever the modifiers are; and no other is left armed.
\* It is about bindings without a group: one with a group has the larger mask, and runs
\* instead of an armed one when a modifier was released first.
ReleaseRuns ==
  \A i \in DOMAIN binds[mode] :
    binds[mode][i].on = "armed" /\ Cardinality(setup.maps) = 1 =>
      \E e \in last : \A kept \in SUBSET e.mods :
        LET first == MatchOf(binds[mode], [e EXCEPT !.type = "release", !.mods = kept])
        IN  /\ Matches(binds[mode][i], e)
            /\ first # 0 /\ (first = i \/ Matches(binds[mode][first], e))
=============================================================================
