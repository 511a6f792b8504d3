----------------------------- MODULE MCParsers ------------------------------
(***************************************************************************)
(* Instances of the command parser and of the configuration parser.  The   *)
(* two share no state, so a behaviour is about one of them.                *)
(***************************************************************************)
EXTENDS CommandParser, ConfigParser

CONSTANTS w1, w2, sp, Part

VARIABLE part      \* "commands" or "config", or another part of a larger instance

mcvars == <<part, cvars, fvars>>

-----------------------------------------------------------------------------
(* Commands: two windows, and a split container without one.               *)
MCCons == <<sp, w1, w2>>
MCClassOf == (sp :> "") @@ (w1 :> "A") @@ (w2 :> "B")
MCIdOf == (sp :> "#0") @@ (w1 :> "#1") @@ (w2 :> "#2")

Brackets ==
    {<<>>,
     <<"[", "class", "=", "A", "]">>,
     <<"[", "con_mark", "=", Quote, "x", Quote, "]">>,
     <<"[", "con_id", "=", "__focused__", "]">>,
     <<"[", "tiling", "class", "=", "B", "]">>,
     <<"[", "con_id", "=", "#0", "con_mark", "=", "y", "]">>}
BadBrackets == {<<"[", "class", "=", "(", "]">>, <<"[", "con_id", "=", "#9", "]">>}
BrokenBrackets == {<<"[", "class", "A", "]">>, <<"[", "title", "]">>}

Firsts == {<<"mark", "--add", "x">>, <<"mark", "--toggle", "y">>, <<"unmark", "x">>,
           <<"floating", "enable">>}
Seconds == {<<"mark", "y">>, <<"unmark">>, <<"focus">>}
Others == {<<"exec", Quote, "a", ";", "b", Quote>>, <<"junk">>, <<"floating", "disable">>}

MCInputs ==
    {b \o c \o d \o e : b \in Brackets, c \in Firsts, d \in {<<",">>, <<";">>}, e \in Seconds}
    \cup {b \o c \o <<",", "unmark">> : b \in {<<>>, <<"[", "class", "=", "A", "]">>}, c \in Others}
    \cup {b \o c : b \in BadBrackets, c \in Seconds \cup Firsts}
    \cup {b \o c : b \in BrokenBrackets, c \in {<<"unmark">>}}
    \cup {<<"nop", d>> \o b \o <<"focus", ",", "mark", "x">> : d \in {",", ";"}, b \in Brackets}

-----------------------------------------------------------------------------
(***************************************************************************)
(* A reading of a command that knows nothing of states and stacks.         *)
(***************************************************************************)
Typed == cmd.input
InQuotes(i) == Cardinality({j \in 1..(i - 1) : Typed[j] = Quote}) % 2 = 1
Unquoted(l) == {i \in DOMAIN Typed : Typed[i] = l /\ ~InQuotes(i)}

(* The bracket a command at `at' belongs to: the last one in front of it   *)
(* with no `;' between them.                                               *)
OwnBracket(at) ==
    {i \in Unquoted("[") : /\ i < at
                        /\ \A j \in Unquoted("[") \cup Unquoted(";") :
                               (j <= i) \/ (j >= at)}
ClosedAt(i) == CHOOSE j \in Unquoted("]") : /\ j > i
                                         /\ \A k \in Unquoted("]") : k > i => j <= k

(* What a bracket says about one property, in quotes or not. *)
Asks(i, name) ==
    {IF Typed[j + 2] = Quote THEN Typed[j + 3] ELSE Typed[j + 2] :
        j \in {k \in i..(ClosedAt(i) - 2) : Typed[k] = name /\ Typed[k + 1] = "="}}
Says(i, name) == \E j \in i..ClosedAt(i) : Typed[j] = name

Wellformed(i) == "(" \notin Asks(i, "class") /\ "#9" \notin Asks(i, "con_id")

WorldAt(i) == (CHOOSE a \in ToSet(asked) : a.at = ClosedAt(i)).world

(* A container meets a bracket if it meets everything in it.  Without a    *)
(* window it is matched by the first criterion it has something for, so a  *)
(* bracket of several criteria says nothing about it: see the README.      *)
Meets(c, i) ==
    LET w == WorldAt(i)
    IN  /\ \A v \in Asks(i, "class") : MCClassOf[c] = v
        /\ \A v \in Asks(i, "con_mark") : v \in w.marks[c]
        /\ \A v \in Asks(i, "con_id") :
               IF v = "__focused__" THEN c = w.focused ELSE MCIdOf[c] = v
        /\ Says(i, "tiling") => MCClassOf[c] # "" /\ c \notin w.floating

Judged(i) ==
    IF Cardinality({n \in {"class", "con_mark", "con_id", "tiling"} : Says(i, n)}) = 1
    THEN ToSet(MCCons) ELSE {c \in ToSet(MCCons) : HasWindow(c)}

(***************************************************************************)
(* Every command is applied to the containers that meet the criteria it is *)
(* written with (in front of it, with only `,' between), and without any   *)
(* to the one that has the focus when its turn comes; unmark without       *)
(* criteria is for all.  current_match and owindows live on from command   *)
(* to command, through `,', `;', brackets, and calls of parse_command()    *)
(* (commands.c:146-255, commands_parser.c:354-373).                        *)
(***************************************************************************)
Expected(t) ==
    IF OwnBracket(t.at) = {}
    THEN IF t.call = "unmark" THEN ToSet(MCCons)
         ELSE {t.before.focused}
    ELSE {c \in t.targets : \A i \in OwnBracket(t.at) : c \notin Judged(i)}
         \cup {c \in ToSet(MCCons) : \E i \in OwnBracket(t.at) : c \in Judged(i) /\ Meets(c, i)}

CriteriaReach ==
    \A k \in DOMAIN told :
        LET t == told[k]
        IN  /\ t.ok /\ t.call # "nop"
            /\ \A i \in OwnBracket(t.at) : Wellformed(i)
            => t.targets = Expected(t)

(***************************************************************************)
(* What HANDLE_INVALID_MATCH is for (commands.c:44): "If an error occurred *)
(* during parsing of the criteria, we want to exit instead of relying on   *)
(* fallback behavior."                                                     *)
(***************************************************************************)
InvalidTouchNothing ==
    \A k \in DOMAIN told :
        (\E i \in OwnBracket(told[k].at) : ~Wellformed(i)) => told[k].targets = {}

-----------------------------------------------------------------------------
(***************************************************************************)
(* The configuration: three kinds of files, so that a file is about blocks *)
(* and errors, about variables and includes, or about workspaces.          *)
(***************************************************************************)
UpToLen(S, n) == UNION {[1..k -> S] : k \in 0..n}

ModeHeader(name) == <<"mode", name, "{">>
BarHeader == <<"bar", "{">>
ColorsHeader == <<"colors", "{">>
Close == <<"}">>
Bind(k) == <<"bindsym", "Mod1", "+", k, "nop">>
Junk == <<"junk", "Mod1">>
Background == <<"background", "c1">>
Output == <<"output", "out">>

BlockLines == {ModeHeader("r"), BarHeader, ColorsHeader, Close, Bind("a"), Junk, Background}

IncludeHere == <<"include", "x">>
IncludeFar == <<"include", "far/y">>
SetM == <<"set", "$m", "u">>
SetMo == <<"set", "$mo", "v">>
UseMo == <<"bindsym", "k", "$mo">>

IncludeLines == {SetM, SetMo, UseMo, IncludeHere, IncludeFar, <<"include", "gone">>,
                 <<"include", "locked">>}

MainPath == <<"home", "config">>
HerePath == <<"home", "x">>
FarPath == <<"far", "y">>
FarHerePath == <<"far", "x">>

WorkspaceLines ==
    {<<"workspace", "1", "output", "A", "B">>, <<"workspace", "1", "output", "C">>,
     <<"workspace", "1", "gaps", "inner", "5", "px">>, <<"gaps", "top", "7">>,
     <<"workspace", "2", "output", "A", "]">>}

(* Every directive once, errors in between, and headers over two lines.    *)
Long ==
    {<< <<"show_marks", "no">>, <<"hide_edge_borders", "both">>, <<"smart_borders", "yes">>,
        <<"force_focus_wrapping", "yes">>, <<"#", "junk">>,
        <<"for_window", "[", "class", "=", Quote, "A", "]", Quote, "tiling_from", "=", "auto",
          "]", "nop">>,
        <<"assign", "[", "id", "=", "5", "]", "workspace", "number", "5">>,
        <<"assign", "[", "id", "=", "z", "]", "output", "A">>,
        <<"assign", "[", "tiling", "]", "z">>,
        <<"no_focus", "[", "tiling_from", "=", Quote, "user", Quote, "]">>,
        <<"for_window", "[", "class", "A", "]", "nop">>,
        <<"exec", "--no-startup-id", "a">>, <<"client.focused", "c1", "c2", "c3">>,
        <<"client.focused", "c1", "c2", "c3", "c4", "c5">> >>,
     << <<"bar">>, <<"{">>, <<"id", "z">>, <<"mode", "dock">>, <<"status_command", "s">>,
        <<"padding", "5", "px", "7">>, <<"padding", "5">>, <<"bindsym", "button1", "a">>,
        <<"bindsym", "button1", "b">>, <<"bindsym", "--release", "k", "b">>, <<"colors">>,
        ColorsHeader \o <<>>, <<"focused_workspace", "c1", "c2">>,
        <<"focused_workspace", "c1", "c2", "c3">>, <<"#", "}">>, Close, Close,
        BarHeader, Close >>,
     << <<"mode", "--pango_markup", "m">>, <<>>, <<"{">>, <<"set", "$m", "}">>,
        <<"bindsym", "--release", "Mod1", "+", "Shift", "+", "a", "--release", "nop">>,
        Close, ModeHeader("default"), Bind("a"), Close, Bind("a") >>,
     \* nine bindings of different keys, and two that are ignored
     << <<"bindcode", "k", "nop">>, <<"bindcode", "k", "nop">>, <<"bindcode", "5", "nop">>,
        <<"bindsym", "5", "nop">>, <<"bindcode", "7", "nop">>, Bind("a"), Bind("b"),
        <<"bindsym", "--release", "Mod1", "+", "a", "nop">>, <<"bindsym", "a", "nop">>,
        <<"bindsym", "Shift", "+", "Mod1", "+", "a", "nop">>, ModeHeader("m"), Bind("a"),
        Close, <<"bindcode", "Mod1", "+", "5", "nop">> >>,
     \* one of the same key, in turn by case, order, place of the flag, and number
     << Bind("a"), Bind("A") >>,
     << <<"bindsym", "Shift", "+", "Mod1", "+", "a", "nop">>,
        <<"bindsym", "Mod1", "+", "Shift", "+", "a", "nop">> >>,
     << <<"bindsym", "--release", "k", "nop">>, <<"bindsym", "k", "--release", "nop">> >>,
     << <<"bindcode", "5", "nop">>, ModeHeader("m"), Close, <<"bindcode", "5", "nop">> >>}

MCContents ==
    (MainPath :> (UpToLen(BlockLines, 4) \cup UpToLen(WorkspaceLines, 3) \cup Long
                  \cup UpToLen(IncludeLines, 3))) @@
    (HerePath :> {<<>>, <<SetM>>, <<SetMo, UseMo>>, <<UseMo, Junk>>, <<IncludeFar, Bind("a")>>,
                  <<ModeHeader("r"), Bind("b")>>}) @@
    (FarPath :> {<<SetM, IncludeHere>>, <<SetMo>>, <<UseMo>>, <<IncludeHere, UseMo>>}) @@
    (FarHerePath :> {<<UseMo>>, <<Junk, IncludeHere>>})

(* realpath() finds it, open() does not. *)
Locked == {<<"home", "locked">>}

MCReferences ==
    ("$m" :> ("$m" :> <<>>)) @@ ("$mo" :> (("$m" :> <<"o">>) @@ ("$mo" :> <<>>)))
MCKeyLen == ("$m" :> 2) @@ ("$mo" :> 3)
MCLowerCase == "A" :> "a"
MCAbsolute == ("far/y" :> FarPath) @@ ("far/gone" :> <<"far", "gone">>)

-----------------------------------------------------------------------------
(***************************************************************************)
(* A reading of a file that goes line by line.                             *)
(***************************************************************************)
TopBlock == [kind |-> "top", name |-> ""]

IsModeHeader(l) == Len(l) = 3 /\ l[1] = "mode" /\ l[3] = "{"

After(b, l) ==
    CASE b.kind = "top" /\ IsModeHeader(l) -> [kind |-> "mode", name |-> l[2]]
      [] b.kind = "top" /\ l = BarHeader -> [kind |-> "bar", name |-> ""]
      [] b.kind = "bar" /\ l = ColorsHeader -> [kind |-> "colors", name |-> ""]
      [] b.kind = "colors" /\ l = Close -> [kind |-> "bar", name |-> ""]
      [] b.kind \in {"mode", "bar"} /\ l = Close -> TopBlock
      [] OTHER -> b

(* The block that line i of a file stands in. *)
RECURSIVE BlockAt(_, _)
BlockAt(lines, i) == IF i = 1 THEN TopBlock ELSE After(BlockAt(lines, i - 1), lines[i - 1])

Headed(b, l) == After(b, l) # b

(* The lines that say something where they stand. *)
GoodIn(b) ==
    CASE b.kind = "top" -> {Bind("a"), Bind("b"), UseMo, SetM, SetMo}
                           \cup {l \in IncludeLines : l[1] = "include"}
      [] b.kind = "mode" -> {Bind("a"), Bind("b")}
      [] b.kind = "bar" -> {Bind("a")}       \* "Mod1" as the name of a button
      [] OTHER -> {Background}

Directives(b) == {l \in GoodIn(b) : l[1] # "set"}

(* Files of the menus, whose lines the reading knows. *)
Known(p) ==
    \A i \in DOMAIN disk[p] :
        disk[p][i] \in BlockLines \cup IncludeLines \cup {Bind("b"), Junk}

(* An error inside `colors' ends the colors: see ErrorStaysInLine. *)
ColorsIntact(p) ==
    \A i \in DOMAIN disk[p] :
        LET b == BlockAt(disk[p], i)
        IN  b.kind = "colors" => Headed(b, disk[p][i]) \/ disk[p][i] \in GoodIn(b)

Loaded == ~load.running /\ load.count > 0
Parsed == {p \in DOMAIN disk : p = MainPath \/ \E r \in resolved : r.path = p}

LineWas(p, i) ==
    LET b == BlockAt(disk[p], i)
        l == disk[p][i]
    IN  /\ l \in Directives(b) => <<p, i>> \in reached
        /\ l \in GoodIn(b) \/ Headed(b, l) <=> <<p, i>> \notin reports

(***************************************************************************)
(* Every line that says something where it stands takes effect, and every  *)
(* other line is reported, by its number: an error spoils no other line    *)
(* (config_parser.c:499-530, t/201-config-parser.t:503 "Verify that errors *)
(* don't harm subsequent valid statements"), in the file itself, in an     *)
(* included one, or in the one that includes it.                           *)
(***************************************************************************)
LinesTakeEffect ==
    Loaded => \A p \in Parsed :
                  Known(p) /\ ColorsIntact(p) => \A i \in DOMAIN disk[p] : LineWas(p, i)

ErrorStaysInLine ==
    Loaded => \A p \in Parsed : Known(p) => \A i \in DOMAIN disk[p] : LineWas(p, i)

(***************************************************************************)
(* A binding belongs to the mode whose block it is written in, and a line  *)
(* of a bar to the bar whose block it is in: current_mode and current_bar  *)
(* are left over from block to block, from file to file and from load to   *)
(* load (config_directives.c:184, 742).  A block that is named "default"   *)
(* is left out, see the README.                                            *)
(***************************************************************************)
InTheirBlock ==
    /\ \A i \in DOMAIN config.bindings :
           LET at == config.bindings[i].at
               b == BlockAt(disk[at[1]], at[2])
           IN  Known(at[1]) => config.bindings[i].mode
                               = IF b.kind = "mode" THEN <<b.name>> ELSE <<"default">>
    /\ \A i \in DOMAIN config.bars :
           \A at \in config.bars[i].lines :
               Known(at[1]) => BlockAt(disk[at[1]], at[2]).kind \in {"bar", "colors"}

(***************************************************************************)
(* All outputs of a workspace come from one line: a second one is refused  *)
(* as a whole, though the parser calls cfg_workspace() once per output and *)
(* gives the name only with the first (config_directives.c:530-567).       *)
(***************************************************************************)
OneLinePerWorkspace ==
    \A i, j \in DOMAIN config.ws :
        /\ config.ws[i].name = config.ws[j].name
        /\ config.ws[i].output # <<>> /\ config.ws[j].output # <<>>
        => config.ws[i].at = config.ws[j].at

(***************************************************************************)
(* A relative pattern means a file beside the one it is written in         *)
(* (userguide: "i3 changes the working directory while parsing a config    *)
(* file so that relative paths are interpreted relative to the directory   *)
(* of the config file that contains the path"), whatever was included      *)
(* before.                                                                 *)
(***************************************************************************)
IncludesBeside ==
    \A r \in resolved : r.pattern \in DOMAIN Absolute \/ Dir(r.path) = Dir(r.from)

(***************************************************************************)
(* Two lines outside of every block that bind the same key, with the same  *)
(* modifiers, for the same event.  The flags may stand anywhere.           *)
(***************************************************************************)
LineAt(at) == disk[at[1]][at[2]]

Bound(l) ==
    LET w == SelectSeq(Tail(l), LAMBDA v : v # "--release")
        plus == {i \in DOMAIN w : w[i] = "+"}
        key == w[2 * Cardinality(plus) + 1]
    IN  [by |-> l[1], mods |-> {w[i - 1] : i \in plus}, key |-> IF key = "A" THEN "a" ELSE key,
         release |-> Contains(l, "--release")]

Binds(at) ==
    /\ LineAt(at)[1] \in {"bindsym", "bindcode"}
    /\ LineAt(at)[1] = "bindcode" => Bound(LineAt(at)).key \in Numbers
    /\ BlockAt(disk[at[1]], at[2]).kind = "top"

TwiceBound(ats) ==
    \E a, b \in {at \in ats : Binds(at)} : a # b /\ Bound(LineAt(a)) = Bound(LineAt(b))

(***************************************************************************)
(* A load fails exactly if a line of some file was reported, a file could  *)
(* not be read, or a key is bound twice outside of the modes, be it in two *)
(* files (bindings.c:784, config_parser.c:916): has_errors travels up      *)
(* through parse_file().                                                   *)
(***************************************************************************)
ErrorsTold ==
    Loaded => (load.failed <=> \/ reports # {}
                               \/ \E r \in resolved : r.path \in Unreadable
                               \/ TwiceBound(reached))

(***************************************************************************)
(* The list of included files, which GET_CONFIG sends: a file with an      *)
(* error in it, or that binds a key twice, is not in it, and after a load  *)
(* without errors every file is.                                           *)
(***************************************************************************)
FilesListed ==
    Loaded =>
        /\ \A p \in ToSet(included) \ {Main} :
               /\ \A at \in reports : at[1] # p
               /\ ~TwiceBound({at \in reached : at[1] = p})
        /\ load.failed \/ \A r \in resolved :
                             r.path \in DOMAIN Contents => Contains(included, r.path)

(***************************************************************************)
(* A variable that is set in a file, or in one that includes it, is        *)
(* replaced in the whole file; a name that begins with a shorter one is    *)
(* not taken for it (config_parser.c:640-648, userguide: "You can define a *)
(* variable and use it within an included file").                          *)
(***************************************************************************)
SetIn(p, key) == \E i \in DOMAIN disk[p] : disk[p][i][1] = "set" /\ disk[p][i][2] = key
Leftovers(key) ==
    {key} \cup UNION {ToSet(References[key][v]) : v \in DOMAIN References[key] \ {key}}
VariablesReplaced ==
    \A k \in DOMAIN frames :
        \A key \in DOMAIN KeyLen :
            (\E j \in 1..k : Known(frames[j].path) /\ SetIn(frames[j].path, key))
            => ToSet(frames[k].input) \cap Leftovers(key) = {}

(***************************************************************************)
(* What a load makes of the files is what is written in them, and it fails *)
(* exactly if something is wrong with them: all of the above, for lines in *)
(* any order, with errors between them and files within files.             *)
(***************************************************************************)
LoadedAsWritten ==
    /\ LinesTakeEffect
    /\ InTheirBlock
    /\ OneLinePerWorkspace
    /\ IncludesBeside
    /\ ErrorsTold
    /\ FilesListed
    /\ VariablesReplaced

-----------------------------------------------------------------------------
Init ==
    /\ part \in Part
    /\ CInit /\ FInit

Next ==
    \/ part = "commands" /\ CNext /\ UNCHANGED fvars
    \/ part = "config" /\ FNext /\ UNCHANGED cvars

Spec == Init /\ [][Next /\ UNCHANGED part]_mcvars
=============================================================================
