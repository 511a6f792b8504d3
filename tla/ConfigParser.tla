---------------------------- MODULE ConfigParser ----------------------------
(***************************************************************************)
(* Loading the configuration: load_configuration() and                     *)
(* free_configuration() (config.c), parse_file() and parse_config()        *)
(* (config_parser.c), and the directives (config_directives.c).            *)
(*                                                                         *)
(* parse_file() reads a file twice: first for its `set' lines, which       *)
(* change the list of variables, then, with the variables replaced, token  *)
(* by token.  `include' calls parse_file() again, so there is a stack of   *)
(* parsers; the working directory, the list of included files, and the     *)
(* statics of config_directives.c are shared by all of them.  A step is    *)
(* one iteration of parse_config()'s loop.                                 *)
(***************************************************************************)
EXTENDS ConfigGrammar, TLC

CONSTANTS
    Main,          \* the configuration file, <<directory, name>>
    Contents,      \* path -> the contents a file may have (sequences of lines)
    Unreadable,    \* paths that realpath() finds and open() does not
    Absolute,      \* patterns that are absolute -> their path
    References,    \* lexeme with a variable in it -> (variable -> what follows it)
    KeyLen,        \* variable -> strlen() of its name
    LowerCase,     \* lexeme with capitals that is the name of a key -> without them
    MaxLoads       \* bound: load_configuration() is called this often

VARIABLES
    disk,          \* the files read so far, path -> lines
    frames,        \* the calls of parse_file(), innermost last
    cwd,           \* working directory
    vars,          \* the list of variables as the innermost call sees it
    included,      \* included_files, in order
    config,        \* what was configured
    static,        \* current_mode, current_workspace, current_bar, criteria_next_state
    load,          \* number of the load, whether it is under way, its result
    reached,       \* history: lines (path, number) whose directive was called
    reports,       \* history: lines for which an error was reported
    resolved       \* history: patterns, the file they stand in, and their paths

fvars == <<disk, frames, cwd, vars, included, config, static, load, reached, reports, resolved>>

Top == Last(frames)

-----------------------------------------------------------------------------
(***************************************************************************)
(* Variables.  The list is sorted by length, longest first.  A call of     *)
(* parse_file() for an included file gets a copy of the list head: what it *)
(* inserts in front is lost when it returns, what it inserts behind or     *)
(* updates stays.  A frame remembers how many of the nodes it sees.        *)
(***************************************************************************)
IndexOf(vs, key) == {i \in DOMAIN vs : vs[i].key = key}

(* Number of nodes in front of a new variable. *)
Before(vs, key) ==
    LET at == {i \in DOMAIN vs : KeyLen[key] >= KeyLen[vs[i].key]}
    IN  IF at = {} THEN Len(vs) ELSE (CHOOSE i \in at : \A j \in at : i <= j) - 1

Upsert(s, key, val) ==
    IF IndexOf(s.vars, key) # {}
    THEN [s EXCEPT !.vars = [i \in DOMAIN @ |-> IF @[i].key = key
                                                THEN [key |-> key, val |-> val] ELSE @[i]]]
    ELSE LET n == Before(s.vars, key)
         IN  [vars |-> InsertAt(s.vars, n + 1, [key |-> key, val |-> val]),
              \* an outer call sees the node if it sees the one in front of it
              seen |-> [i \in DOMAIN s.seen |->
                            IF n > Len(s.vars) - s.seen[i] THEN s.seen[i] + 1 ELSE s.seen[i]]]

IsSet(line) ==
    /\ Len(line) >= 2
    /\ line[1] = "set"
    /\ line[2] \in DOMAIN KeyLen

(* The first reading of a file. *)
RECURSIVE ReadSets(_, _)
ReadSets(s, lines) ==
    IF lines = <<>> THEN s
    ELSE ReadSets(IF IsSet(Head(lines))
                  THEN Upsert(s, Head(lines)[2], SubSeq(Head(lines), 3, Len(Head(lines))))
                  ELSE s, Tail(lines))

(* The nearest variable; of several at one place the first of the list.    *)
Replaced(vs, l) ==
    LET hits == {i \in DOMAIN vs : vs[i].key \in DOMAIN References[l]}
    IN  IF l \notin DOMAIN References THEN <<l>>
        ELSE IF hits = {} THEN <<l>>
        ELSE LET v == vs[CHOOSE i \in hits : \A j \in hits : i <= j]
             IN  v.val \o References[l][v.key]

RECURSIVE Text(_, _)
Text(vs, ls) == IF ls = <<>> THEN <<>> ELSE Replaced(vs, Head(ls)) \o Text(vs, Tail(ls))

RECURSIVE Input(_, _)
Input(vs, lines) ==
    IF lines = <<>> THEN <<>>
    ELSE Text(vs, Head(lines)) \o <<NL>> \o Input(vs, Tail(lines))

-----------------------------------------------------------------------------
(***************************************************************************)
(* Directives: from the configuration and the statics to the new ones.     *)
(***************************************************************************)
NoBar == [id |-> <<>>, outputs |-> <<>>, mode |-> "", command |-> <<>>, bindings |-> <<>>,
          padding |-> <<>>, colors |-> <<>>, lines |-> {}, open |-> FALSE]

EmptyConfig ==
    [bindings |-> <<>>, assignments |-> <<>>, ws |-> <<>>, gaps |-> <<>>, bars |-> <<>>,
     autostarts |-> <<>>, edge |-> "none", wrapping |-> "yes", marks |-> "yes",
     focused |-> <<>>]

NoStatic == [mode |-> <<>>, ws |-> <<>>, bar |-> NoBar, criteria |-> "INITIAL"]

(* configure_binding(): a bindcode needs a number, else it is ignored.     *)
Binding(c, mode, stk, at) ==
    LET by == Get(stk, "bindtype")[1]
        key == Get(stk, "key")
    IN  IF by = "bindcode" /\ key[1] \notin Numbers THEN c
        ELSE [c EXCEPT !.bindings = Append(@, [mode |-> mode, by |-> by, key |-> key,
                                               mods |-> Get(stk, "modifiers"),
                                               release |-> Has(stk, "release"),
                                               command |-> Get(stk, "command"), at |-> at])]

(* cfg_mode_binding(): no mode has been entered: nothing.                  *)
ModeBinding(c, st, stk, at) ==
    IF st.mode = <<>> THEN c ELSE Binding(c, st.mode, stk, at)

(* cfg_enter_mode(): the name of the default mode is refused.              *)
EnterMode(st, stk) ==
    IF Get(stk, "modename") = <<"default">> THEN st
    ELSE [st EXCEPT !.mode = Get(stk, "modename")]

(* Matches of for_window, assign and no_focus. *)
NoCriteria == [crit |-> {}, error |-> FALSE]

CriteriaAdd(m, stk) ==
    LET ctype == Get(stk, "ctype")[1]
        value == Get(stk, "cvalue") \o Get(stk, "kind")
    IN  IF ctype = "id" /\ value[1] \notin Numbers
        THEN [m EXCEPT !.error = TRUE]
        ELSE [m EXCEPT !.crit = {p \in @ : p[1] # ctype} \cup {<<ctype, value>>}]

HasWindowMode(m) == \E p \in m.crit : p[1] \in {"tiling", "tiling_from"}

Assign(c, m, type, dest, at) ==
    IF \/ m.error \/ m.crit = {}
       \/ type \in {"workspace", "number", "output"} /\ HasWindowMode(m)
       \/ type = "number" /\ dest[1] \notin Numbers
    THEN c
    ELSE [c EXCEPT !.assignments = Append(@, [type |-> type, crit |-> m.crit,
                                              dest |-> dest, at |-> at])]

(* cfg_workspace(): only the first output of a line comes with the name.   *)
Workspace(c, st, stk, at) ==
    LET name == IF Has(stk, "workspace") THEN Get(stk, "workspace") ELSE st.ws
        taken == /\ Has(stk, "workspace")
                 /\ \E i \in DOMAIN c.ws : c.ws[i].name = name /\ c.ws[i].output # <<>>
        new == [name |-> name, output |-> Get(stk, "output"), gaps |-> <<>>, at |-> at]
    IN  IF taken THEN [c |-> c, st |-> [st EXCEPT !.ws = <<>>]]
        ELSE IF name = <<>> THEN [c |-> c, st |-> st]
        ELSE [c |-> [c EXCEPT !.ws = Append(@, new)], st |-> [st EXCEPT !.ws = name]]

(* apply_gaps(): one value for every scope.                                *)
ApplyGaps(g, stk) == (Get(stk, "scope")[1] :> Get(stk, "value")) @@ g

Gaps(c, stk, at) ==
    LET same == {i \in DOMAIN c.ws : c.ws[i].name = Get(stk, "workspace")}
        i == CHOOSE i \in same : \A j \in same : i <= j
        new == [name |-> Get(stk, "workspace"), output |-> <<>>, gaps |-> <<>>, at |-> at]
    IN  IF ~Has(stk, "workspace") THEN [c EXCEPT !.gaps = ApplyGaps(@, stk)]
        ELSE IF same = {}
             THEN [c EXCEPT !.ws = Append(@, [new EXCEPT !.gaps = ApplyGaps(@, stk)])]
             ELSE [c EXCEPT !.ws[i].gaps = ApplyGaps(@, stk)]

(* The directives that store one value; three of them look at another.     *)
Setting(c, call, v) ==
    CASE call = "hide_edge_borders" -> [c EXCEPT !.edge = v]
      [] call = "smart_borders" -> [c EXCEPT !.edge = IF @ = "none" THEN "smart" ELSE @]
      [] call = "focus_wrapping" -> [c EXCEPT !.wrapping = v]
      [] call = "force_focus_wrapping" ->
           [c EXCEPT !.wrapping = IF v = "yes" THEN "force"
                                  ELSE IF @ = "force" THEN "yes" ELSE @]
      [] OTHER -> [c EXCEPT !.marks = v]

(* cfg_color(): without a child_border it is the background.               *)
Color(c, stk) ==
    [c EXCEPT !.focused = <<Get(stk, "border"), Get(stk, "background"), Get(stk, "text"),
                            Get(stk, "indicator"),
                            IF Has(stk, "child_border") THEN Get(stk, "child_border")
                            ELSE Get(stk, "background")>>]

-----------------------------------------------------------------------------
(* Inside a bar block; cfg_bar_start() and cfg_bar_finish() around it.     *)
BarStart(st) == [st EXCEPT !.bar = [NoBar EXCEPT !.open = TRUE]]

BarFinish(c, st) ==
    LET id == IF st.bar.id = <<>> THEN <<"bar", Len(c.bars)>> ELSE st.bar.id
    IN  [c EXCEPT !.bars = Append(@, [st.bar EXCEPT !.id = id, !.open = FALSE])]

(* bar_configure_binding(): buttons only, and each one once.               *)
IsButton(l) == l \in {"button1", "button2"}
BarBinding(b, stk) ==
    LET new == [button |-> Get(stk, "button"), release |-> Has(stk, "release")]
    IN  IF \/ ~IsButton(new.button[1])
           \/ \E i \in DOMAIN b.bindings : /\ b.bindings[i].button = new.button
                                           /\ b.bindings[i].release = new.release
        THEN b
        ELSE [b EXCEPT !.bindings = Append(@, [button |-> new.button,
                                               release |-> new.release,
                                               command |-> Get(stk, "command")])]

(* cfg_bar_padding_one() and _two(); with two numbers the first is for top *)
(* and bottom.  The order here is top, right, bottom, left.                *)
Padding(stk, two) ==
    LET a == Get(stk, "top_or_all")
        b == IF two THEN Get(stk, "right_or_right_and_left") ELSE a
    IN  <<a, b, a, b>>

(* cfg_bar_color(): border, background and text, or text and background.   *)
BarColor(stk) ==
    IF Has(stk, "text") THEN <<Get(stk, "border"), Get(stk, "background"), Get(stk, "text")>>
    ELSE <<<<>>, Get(stk, "background"), Get(stk, "border")>>

InBar(b, call, stk) ==
    CASE call = "bar_id" -> [b EXCEPT !.id = Get(stk, "bar_id")]
      [] call = "bar_mode" -> [b EXCEPT !.mode = Get(stk, "mode")[1]]
      [] call = "bar_output" -> [b EXCEPT !.outputs = Append(@, Get(stk, "output"))]
      [] call = "bar_status_command" -> [b EXCEPT !.command = Get(stk, "command")]
      [] call = "bar_bindsym" -> BarBinding(b, stk)
      [] call = "bar_padding_one" -> [b EXCEPT !.padding = Padding(stk, FALSE)]
      [] call = "bar_padding_two" -> [b EXCEPT !.padding = Padding(stk, TRUE)]
      [] OTHER ->   \* bar_color, bar_color_single
           [b EXCEPT !.colors =
                (Get(stk, "colorclass")[1] :> (IF call = "bar_color" THEN BarColor(stk)
                                               ELSE <<Get(stk, "color")>>)) @@ @]

BarCalls == {"bar_id", "bar_mode", "bar_output", "bar_status_command", "bar_bindsym",
             "bar_padding_one", "bar_padding_two", "bar_color", "bar_color_single"}
SettingCalls == {"hide_edge_borders", "smart_borders", "focus_wrapping",
                 "force_focus_wrapping", "show_marks"}

SettingValue(stk) == (Get(stk, "value") \o Get(stk, "hide_borders") \o Get(stk, "enabled"))[1]

(* GENERATED_call(): the directives.                                       *)
Directive(call, stk, m, at, c, st) ==
    LET both(d) == [c |-> d, st |-> st]
    IN  CASE call = "binding" -> both(Binding(c, <<"default">>, stk, at))
          [] call = "mode_binding" -> both(ModeBinding(c, st, stk, at))
          [] call = "enter_mode" -> [c |-> c, st |-> EnterMode(st, stk)]
          [] call = "exec" -> both([c EXCEPT !.autostarts = Append(@, Get(stk, "command"))])
          [] call = "for_window" -> both(Assign(c, m, "command", Get(stk, "command"), at))
          [] call = "assign" -> both(Assign(c, m, "workspace", Get(stk, "workspace"), at))
          [] call = "assign_output" -> both(Assign(c, m, "output", Get(stk, "output"), at))
          [] call = "assign_number" -> both(Assign(c, m, "number", Get(stk, "number"), at))
          [] call = "no_focus" -> both(Assign(c, m, "no_focus", <<>>, at))
          [] call = "workspace" -> Workspace(c, st, stk, at)
          [] call = "gaps" -> both(Gaps(c, stk, at))
          [] call = "color" -> both(Color(c, stk))
          [] call = "bar_start" -> [c |-> c, st |-> BarStart(st)]
          [] call = "bar_finish" -> [c |-> BarFinish(c, st), st |-> [st EXCEPT !.bar = NoBar]]
          [] call \in BarCalls ->
               [c |-> c, st |-> [st EXCEPT !.bar = [InBar(st.bar, call, stk)
                                                    EXCEPT !.lines = @ \cup {at}]]]
          [] call \in SettingCalls -> both(Setting(c, call, SettingValue(stk)))
          [] OTHER -> both(c)

-----------------------------------------------------------------------------
(***************************************************************************)
(* parse_config(): one parser.                                             *)
(***************************************************************************)
WordEnds == {" ", "]", ",", ";", NL}
StringEnds == {NL}

Frame(path, input) ==
    [path |-> path, back |-> cwd, input |-> input, pos |-> 1, state |-> "INITIAL",
     list |-> <<"INITIAL">>, stack |-> <<>>, match |-> NoCriteria, linecnt |-> 1,
     errors |-> FALSE,      \* context->has_errors
     ctxErrors |-> FALSE,   \* ctx->has_errors
     seen |-> 0]            \* nodes of the list of variables behind the head

Fits(f, i) ==
    Fit(ConfigTokens[f.state][i], f.input, f.pos, WordEnds, StringEnds, {NL, EOF})
FittingIn(f) == {i \in DOMAIN ConfigTokens[f.state] : Fits(f, i).ok}
Least(is) == CHOOSE i \in is : \A j \in is : i <= j

(* push_string() appends to the value of the same identifier.              *)
PushString(stk, id, val) ==
    IF id = "" THEN stk
    ELSE IF Has(stk, id)
         THEN [i \in DOMAIN stk |-> IF stk[i].id = id
                                    THEN [stk[i] EXCEPT !.val = @ \o val] ELSE stk[i]]
         ELSE Append(stk, [id |-> id, val |-> val])

(* The end of next_state(): back to a state of the list, or a new entry.   *)
Visit(list, state) ==
    LET known == {i \in DOMAIN list : list[i] = state}
    IN  IF known = {} THEN Append(list, state) ELSE SubSeq(list, 1, Least(known))

NextState(f, called, to) ==
    [f EXCEPT !.state = to, !.list = Visit(@, to),
              !.stack = IF called \/ to = "INITIAL" THEN <<>> ELSE @]

CriteriaReturns ==
    ("criteria_init:FOR_WINDOW_COMMAND" :> "FOR_WINDOW_COMMAND") @@
    ("criteria_init:ASSIGN_WORKSPACE" :> "ASSIGN_WORKSPACE") @@
    ("criteria_init:NO_FOCUS_END" :> "NO_FOCUS_END")

(* cfg_criteria_init(), also run behind every end token, and _add().       *)
MatchAfter(tok, f) ==
    IF tok.kind = "end" \/ tok.call \in DOMAIN CriteriaReturns THEN NoCriteria
    ELSE IF tok.call = "criteria_add" THEN CriteriaAdd(f.match, f.stack)
    ELSE f.match

ReturnState(tok) ==
    IF tok.kind = "end" THEN "INITIAL"
    ELSE IF tok.call \in DOMAIN CriteriaReturns THEN CriteriaReturns[tok.call]
    ELSE static.criteria

Running == load.running /\ frames # <<>>
SetTop(f) == [frames EXCEPT ![Len(frames)] = f]

(***************************************************************************)
(* An iteration that finds a token which does not include a file.          *)
(***************************************************************************)
Step(f, tok, fit) ==
    LET g == [f EXCEPT !.stack = PushString(@, tok.id, fit.val), !.pos = fit.pos]
        at == <<f.path, f.linecnt>>
        d == Directive(tok.call, g.stack, g.match, at, config, static)
        to == IF tok.call = "criteria_pop_state" THEN static.criteria ELSE tok.to
        next == NextState([g EXCEPT !.match = MatchAfter(tok, g)], tok.call # "", to)
    IN  /\ frames' = SetTop([next EXCEPT !.linecnt = IF tok.kind \in {"end", "line"}
                                                     THEN @ + 1 ELSE @])
        /\ config' = d.c
        /\ static' = [d.st EXCEPT !.criteria = ReturnState(tok)]
        /\ reached' = IF tok.call # "" THEN reached \cup {at} ELSE reached

TakeConfigToken ==
    /\ Running /\ Top.pos <= Len(Top.input) + 1
    /\ \E is \in {FittingIn(Top)} :
         /\ is # {}
         /\ ConfigTokens[Top.state][Least(is)].call # "include"
         /\ Step(Top, ConfigTokens[Top.state][Least(is)], Fits(Top, Least(is)))
    /\ UNCHANGED <<disk, cwd, vars, included, load, reports, resolved>>

(***************************************************************************)
(* No token fits: the rest of the line is skipped, and the parser goes on  *)
(* in the nearest state of the list that has an error token.               *)
(***************************************************************************)
ErrorState(list) ==
    LET with == {i \in DOMAIN list : HasErrorToken(list[i])}
    IN  ErrorTarget(list[CHOOSE i \in with : \A j \in with : j <= i])

SkipBeyondLine(f) == UpTo(f.input, f.pos, {NL}) + 1   \* mutant: takes the newline, too

(* At the end of the input the walk goes past the 0-byte. *)
SkipLine(f) ==
    LET nl == UpTo(f.input, f.pos, {NL})
    IN  IF nl > Len(f.input) THEN nl + 1 ELSE nl

ConfigError ==
    /\ Running /\ Top.pos <= Len(Top.input) + 1
    /\ FittingIn(Top) = {}
    /\ frames' = SetTop(NextState([Top EXCEPT !.errors = TRUE, !.stack = <<>>,
                                              !.pos = SkipLine(Top)],
                                  FALSE, ErrorState(Top.list)))
    /\ reports' = reports \cup {<<Top.path, Top.linecnt>>}
    /\ UNCHANGED <<disk, cwd, vars, included, config, static, load, reached, resolved>>

-----------------------------------------------------------------------------
(***************************************************************************)
(* parse_file(): go to the file's directory, read it, and start a parser.  *)
(* A file that cannot be opened leaves the call at once, in the directory  *)
(* it went to.                                                             *)
(***************************************************************************)
Dir(path) == path[1]

OpenFile(path, lines, below) ==
    LET read == ReadSets([vars |-> vars,
                          seen |-> [i \in DOMAIN below |-> below[i].seen] \o <<Len(vars)>>],
                         lines)
    IN  \E s \in {read} :
          /\ vars' = s.vars
          /\ frames' = Append([i \in DOMAIN below |-> [below[i] EXCEPT !.seen = s.seen[i]]],
                              [Frame(path, Input(s.vars, lines))
                               EXCEPT !.seen = Len(s.vars)])

ReadFile(path, below) ==
    /\ \E lines \in IF path \in DOMAIN disk THEN {disk[path]} ELSE Contents[path] :
         /\ disk' = (path :> lines) @@ disk
         /\ OpenFile(path, lines, below)
    /\ cwd' = Dir(path)
    /\ static' = [static EXCEPT !.criteria = "INITIAL"]

(* load_configuration(); a reload frees the old configuration first.  The  *)
(* other statics of config_directives.c keep what they were.               *)
Load ==
    /\ ~load.running /\ load.count < MaxLoads
    /\ load' = [count |-> load.count + 1, running |-> TRUE, failed |-> FALSE]
    /\ config' = EmptyConfig
    /\ included' = <<Main>>
    /\ reached' = {} /\ reports' = {} /\ resolved' = {}
    /\ ReadFile(Main, <<>>)

(* realpath() of the word the pattern expands to. *)
Resolve(pattern) ==
    IF pattern \in DOMAIN Absolute THEN Absolute[pattern] ELSE <<cwd, pattern>>

AfterIncludeQuiet(f, failed) ==   \* mutant: the failure is not passed on
    NextState([f EXCEPT !.pos = Fits(f, Least(FittingIn(f))).pos], TRUE, "INITIAL")

(* cfg_include(): what the caller goes on with, behind the pattern. *)
AfterInclude(f, failed) ==
    LET g == [f EXCEPT !.pos = Fits(f, Least(FittingIn(f))).pos,
                       !.ctxErrors = @ \/ failed]
    IN  NextState(g, TRUE, "INITIAL")

Including ==
    /\ Running /\ Top.pos <= Len(Top.input) + 1
    /\ FittingIn(Top) # {}
    /\ ConfigTokens[Top.state][Least(FittingIn(Top))].call = "include"

Pattern == Fits(Top, Least(FittingIn(Top))).val[1]

Include ==
    /\ Including
    /\ \E path \in {Resolve(Pattern)} :
         /\ resolved' = resolved \cup {[from |-> Top.path, pattern |-> Pattern, path |-> path]}
         /\ \/ \* no such file, or it is being parsed, or was parsed, already
               /\ path \notin DOMAIN Contents \cup Unreadable \/ Contains(included, path)
               /\ frames' = SetTop(AfterInclude(Top, FALSE))
               /\ UNCHANGED <<disk, cwd, vars, included, static>>
            \/ \* PARSE_FILE_FAILED
               /\ path \in Unreadable
               /\ frames' = SetTop(AfterInclude(Top, TRUE))
               /\ cwd' = Dir(path)
               /\ UNCHANGED <<disk, vars, included, static>>
            \/ /\ path \in DOMAIN Contents /\ ~Contains(included, path)
               /\ included' = Append(included, path)
               /\ ReadFile(path, SetTop(AfterInclude(Top, FALSE)))
    /\ reached' = reached \cup {<<Top.path, Top.linecnt>>}
    /\ UNCHANGED <<config, load, reports>>

(* binding_same_key(): symbols are compared without regard to case, and    *)
(* the modifiers are bits of a mask.                                       *)
NoCase(key) == [i \in DOMAIN key |-> IF key[i] \in DOMAIN LowerCase THEN LowerCase[key[i]]
                                     ELSE key[i]]

SameKey(a, b) ==
    /\ a.by = b.by /\ NoCase(a.key) = NoCase(b.key)
    /\ ToSet(a.mods) = ToSet(b.mods) /\ a.release = b.release

DuplicatesOfAnyMode(bs) ==   \* mutant: takes the bindings of all modes together
    \E i, j \in DOMAIN bs : i < j /\ SameKey(bs[i], bs[j])

(* check_for_duplicate_bindings(): of all the bindings configured so far,  *)
(* in whatever file, those of the default mode.                            *)
DuplicateBindings(bs) ==
    \E i, j \in DOMAIN bs :
        i < j /\ SameKey(bs[i], bs[j]) /\ {bs[i].mode, bs[j].mode} = {<<"default">>}

(***************************************************************************)
(* The end of parse_file(): the check for duplicates, and back to the old  *)
(* directory; a file with errors does not stay in the list of included     *)
(* files, and makes its parent one with errors.                            *)
(***************************************************************************)
Finish ==
    /\ Running /\ Top.pos > Len(Top.input) + 1
    /\ LET failed == Top.errors \/ Top.ctxErrors \/ DuplicateBindings(config.bindings)
           below == Front(frames)
           parent == Last(below)
       IN  /\ cwd' = Top.back
           /\ IF below = <<>>
              THEN /\ frames' = <<>> /\ vars' = <<>>     \* free_variables()
                   /\ load' = [load EXCEPT !.running = FALSE, !.failed = failed]
                   /\ UNCHANGED included
              ELSE /\ frames' = [below EXCEPT ![Len(below)].ctxErrors = @ \/ failed]
                   /\ vars' = SubSeq(vars, Len(vars) - parent.seen + 1, Len(vars))
                   /\ included' = IF failed THEN SelectSeq(included, LAMBDA p : p # Top.path)
                                  ELSE included
                   /\ UNCHANGED load
    /\ UNCHANGED <<disk, config, static, reached, reports, resolved>>

FInit ==
    /\ disk = <<>> /\ frames = <<>> /\ cwd = "home" /\ vars = <<>> /\ included = <<>>
    /\ config = EmptyConfig /\ static = NoStatic
    /\ load = [count |-> 0, running |-> FALSE, failed |-> FALSE]
    /\ reached = {} /\ reports = {} /\ resolved = {}

FNext == Load \/ TakeConfigToken \/ ConfigError \/ Include \/ Finish
=============================================================================
