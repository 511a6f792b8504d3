--------------------------- MODULE CommandParser ----------------------------
(***************************************************************************)
(* parse_command() (commands_parser.c) and the commands it calls, as far   *)
(* as criteria go: cmd_criteria_*() and the macros of commands.c, match.c, *)
(* and some commands that read or change what criteria match.              *)
(*                                                                         *)
(* A step is one iteration of the loop over the tokens.  The parser's      *)
(* state, its stack, current_match and owindows are static in the code, so *)
(* they outlive a call and are what the next call starts from.             *)
(***************************************************************************)
EXTENDS Parsers, FiniteSetsExt

CONSTANTS
    Inputs,       \* the commands that arrive, as sequences of lexemes
    AllCons,      \* the containers, in the order of all_cons (a sequence)
    ClassOf,      \* container -> class of its window, "" without one
    IdOf,         \* container -> the lexeme that names it as con_id
    MaxCalls      \* bound: so many calls of parse_command()

ASSUME CommandAssumption ==
    /\ AllCons \in Seq(DOMAIN ClassOf)
    /\ \A i, j \in DOMAIN AllCons : AllCons[i] = AllCons[j] => i = j

VARIABLES
    cmd,          \* the parser: input, walk, state, stack, match, owindows
    world,        \* marks, floating, focused
    told,         \* what each command of the input did, oldest first
    asked         \* history: the world when a bracket was closed, by position

cvars == <<cmd, world, told, asked>>

All == ToSet(AllCons)
HasWindow(c) == ClassOf[c] # ""

CmdWordEnds == {"]", ",", ";"}
CmdStringEnds == {",", ";"}

(***************************************************************************)
(* The part of commands.spec that is modelled.                             *)
(***************************************************************************)
CommandTokens ==
    [INITIAL |-> <<EndTo("INITIAL"),
                   LitCall("", {"["}, "criteria_init", "CRITERIA"),
                   Lit("exec", "EXEC"), Lit("focus", "FOCUS"),
                   Lit("floating", "FLOATING"), Lit("mark", "MARK"),
                   Lit("unmark", "UNMARK"), Lit("nop", "NOP")>>,
     CRITERIA |-> <<LitAs("ctype", {"class", "con_id", "con_mark"}, "CRITERION"),
                    LitCall("ctype", {"tiling", "floating", "all"},
                            "criteria_add", "CRITERIA"),
                    LitCall("", {"]"}, "criteria_match_windows", "INITIAL")>>,
     CRITERION |-> <<Lit("=", "CRITERION_STR")>>,
     CRITERION_STR |-> <<WordCall("cvalue", "criteria_add", "CRITERIA")>>,
     EXEC |-> <<LitAs("nosn", {"--no-startup-id"}, "EXEC"),
                StringCall("command", "exec", "INITIAL")>>,
     FOCUS |-> <<EndCall("focus", "INITIAL")>>,
     FLOATING |-> <<LitCall("floating", {"enable", "disable"}, "floating", "INITIAL")>>,
     MARK |-> <<LitAs("mode", {"--add", "--replace"}, "MARK"),
                LitAs("toggle", {"--toggle"}, "MARK"),
                StringCall("mark", "mark", "INITIAL")>>,
     UNMARK |-> <<EndCall("unmark", "INITIAL"),
                  StringCall("mark", "unmark", "INITIAL")>>,
     NOP |-> <<StringCall("comment", "nop", "INITIAL"),
               EndCall("nop", "INITIAL")>>]

-----------------------------------------------------------------------------
(***************************************************************************)
(* Matches.  A class whose pattern does not compile (the lexeme "(") is    *)
(* the same as no class; a con_id that is no number leaves an error.       *)
(***************************************************************************)
NoMatch == [class |-> "", mark |-> "", id |-> "", mode |-> "", all |-> FALSE,
            error |-> FALSE]

IsEmpty(m) ==
    /\ m.class = "" /\ m.mark = "" /\ m.id = "" /\ m.mode = ""
    /\ ~m.all

Regex(v) == IF v = "(" THEN "" ELSE v

ParseProperty(m, ctype, v, foc) ==
    CASE ctype = "class" -> [m EXCEPT !.class = Regex(v)]
      [] ctype = "con_mark" -> [m EXCEPT !.mark = Regex(v)]
      [] ctype = "con_id" /\ v = "__focused__" -> [m EXCEPT !.id = IdOf[foc]]
      [] ctype = "con_id" /\ v \in {IdOf[c] : c \in All} -> [m EXCEPT !.id = v]
      [] ctype = "con_id" -> [m EXCEPT !.error = TRUE]
      [] ctype \in {"tiling", "floating"} -> [m EXCEPT !.mode = ctype]
      [] OTHER -> [m EXCEPT !.all = TRUE]

MatchesWindow(m, c, w) ==
    /\ m.class \in {"", ClassOf[c]}
    /\ m.mark = "" \/ m.mark \in w.marks[c]
    /\ m.mode = "tiling" => c \notin w.floating
    /\ m.mode = "floating" => c \in w.floating

(* cmd_criteria_match_windows(): which of the containers stay.             *)
Accepted(m, c, w) ==
    /\ m.id # "" => m.id = IdOf[c]
    /\ m.mark # "" /\ w.marks[c] # {} => m.mark \in w.marks[c]
    /\ HasWindow(c) => MatchesWindow(m, c, w)
    /\ m.id # "" \/ (m.mark # "" /\ w.marks[c] # {}) \/ HasWindow(c)

FilterWindows(m, cs, w) == SelectSeq(cs, LAMBDA c : Accepted(m, c, w))

(* HANDLE_EMPTY_MATCH: without criteria, the focused container.            *)
Targets(p, w) == IF IsEmpty(p.match) THEN <<w.focused>> ELSE p.owindows
AfterRun(call, p) ==
    IF call \in {"mark", "floating", "exec"} /\ IsEmpty(p.match) /\ ~p.match.error
    THEN <<world.focused>> ELSE p.owindows

FirstOf(v) == IF v = <<>> THEN "" ELSE v[1]

-----------------------------------------------------------------------------
(***************************************************************************)
(* The commands: the world after them, the containers they were applied    *)
(* to, and whether the reply is a success.                                 *)
(***************************************************************************)
Success(w, ts) == [world |-> w, targets |-> ts, ok |-> TRUE]
Refused(w) == [world |-> w, targets |-> {}, ok |-> FALSE]

(* con_unmark(NULL, m): from the first container that has it.              *)
UnmarkAnywhere(w, m) ==
    LET holders == {i \in DOMAIN AllCons : m \in w.marks[AllCons[i]]}
    IN  IF holders = {} THEN w ELSE [w EXCEPT !.marks[AllCons[Min(holders)]] = @ \ {m}]

ConMarkShared(w, c, m, add) ==   \* mutant: the mark is not taken from the others
    [w EXCEPT !.marks[c] = (IF add THEN @ ELSE {}) \cup {m}]

ConMark(w, c, m, add) ==
    [UnmarkAnywhere(w, m) EXCEPT !.marks[c] = (IF add THEN @ ELSE {}) \cup {m}]

ConMarkToggle(w, c, m, add) ==
    IF m \in w.marks[c] THEN [w EXCEPT !.marks[c] = @ \ {m}] ELSE ConMark(w, c, m, add)

(* cmd_mark(): one container only; `--replace' is the default.             *)
Mark(p, w) ==
    LET ts == Targets(p, w)
        m == Get(p.stack, "mark")[1]
        add == Get(p.stack, "mode") = <<"--add">>
    IN  IF p.match.error \/ Len(ts) # 1 THEN Refused(w)
        ELSE Success(IF Has(p.stack, "toggle") THEN ConMarkToggle(w, ts[1], m, add)
                  ELSE ConMark(w, ts[1], m, add),
                  {ts[1]})

(* cmd_unmark() does not look at the error of the match.                   *)
Unmark(p, w) ==
    LET cs == IF IsEmpty(p.match) THEN All ELSE ToSet(p.owindows)
        all == [w EXCEPT !.marks = [c \in All |-> IF c \in cs THEN {} ELSE @[c]]]
        one == [w EXCEPT !.marks = [c \in All |-> IF c \in cs
                                                  THEN @[c] \ ToSet(Get(p.stack, "mark"))
                                                  ELSE @[c]]]
    IN  IF ~Has(p.stack, "mark") THEN Success(all, cs)
        ELSE IF IsEmpty(p.match) THEN Success(UnmarkAnywhere(w, Get(p.stack, "mark")[1]), cs)
        ELSE Success(one, cs)

(* cmd_floating(): only a window's container can float here.               *)
Floating(p, w) ==
    LET ts == {c \in ToSet(Targets(p, w)) : HasWindow(c)}
    IN  IF p.match.error THEN Refused(w)
        ELSE Success([w EXCEPT !.floating = IF Get(p.stack, "floating") = <<"enable">>
                                         THEN @ \cup ts ELSE @ \ ts],
                  ToSet(Targets(p, w)))

(* cmd_focus(): one after the other, so the last one keeps the focus.      *)
Focus(p, w) ==
    IF IsEmpty(p.match) \/ p.owindows = <<>> THEN Refused(w)
    ELSE Success([w EXCEPT !.focused = Last(p.owindows)], ToSet(p.owindows))

(* cmd_exec(): once for every container that matches.                      *)
Exec(p, w) == IF p.match.error THEN Refused(w) ELSE Success(w, ToSet(Targets(p, w)))

Run(call, p, w) ==
    CASE call = "mark" -> Mark(p, w)
      [] call = "unmark" -> Unmark(p, w)
      [] call = "floating" -> Floating(p, w)
      [] call = "focus" -> Focus(p, w)
      [] call = "exec" -> Exec(p, w)
      [] OTHER -> Success(w, {})

-----------------------------------------------------------------------------
Idle == [on |-> FALSE, calls |-> 0, input |-> <<>>, pos |-> 1, state |-> "INITIAL", stack |-> <<>>,
         match |-> NoMatch, owindows |-> <<>>, parseError |-> FALSE]

CInit ==
    /\ cmd = Idle
    /\ world = [marks |-> [c \in All |-> {}], floating |-> {}, focused |-> AllCons[1]]
    /\ told = <<>> /\ asked = <<>>

CriteriaInitKeeps(p) == [p EXCEPT !.match = NoMatch]   \* mutant

(* cmd_criteria_init(): no criteria, every container.                      *)
CriteriaInit(p) == [p EXCEPT !.match = NoMatch, !.owindows = AllCons]

(* parse_command() starts in INITIAL, with criteria of its own; the stack  *)
(* is what the last call left.                                             *)
ParseCommand ==
    /\ ~cmd.on /\ cmd.calls < MaxCalls
    /\ \E i \in Inputs :
         cmd' = CriteriaInit([cmd EXCEPT !.on = TRUE, !.calls = @ + 1, !.input = i, !.pos = 1,
                                    !.state = "INITIAL", !.parseError = FALSE])
    /\ told' = <<>> /\ asked' = <<>>
    /\ UNCHANGED world

CFit(i) == Fit(CommandTokens[cmd.state][i], cmd.input, cmd.pos, CmdWordEnds, CmdStringEnds,
               {",", ";", EOF})
Fitting == {i \in DOMAIN CommandTokens[cmd.state] : CFit(i).ok}
Chosen == CHOOSE i \in Fitting : \A j \in Fitting : i <= j

Push(stack, id, val) == IF id = "" THEN stack ELSE Append(stack, [id |-> id, val |-> val])

(* next_state() for a token that calls nothing.                            *)
Enter(p, state) ==
    [p EXCEPT !.state = state, !.stack = IF state = "INITIAL" THEN <<>> ELSE @]

(* GENERATED_call() for the three functions that only touch the parser.    *)
Criteria(call, p) ==
    CASE call = "criteria_init" -> CriteriaInit(p)
      [] call = "criteria_add" ->
           [p EXCEPT !.match = ParseProperty(@, Get(p.stack, "ctype")[1],
                                             FirstOf(Get(p.stack, "cvalue")), world.focused)]
      [] OTHER -> [p EXCEPT !.owindows = FilterWindows(p.match, @, world)]

Called(p, to) == [p EXCEPT !.state = to, !.stack = <<>>]

(***************************************************************************)
(* One iteration: the first token that fits.  Behind a command, `;' and    *)
(* the end of the input forget the criteria, `,' keeps them.               *)
(***************************************************************************)
TakeCommandToken ==
    /\ cmd.on /\ cmd.pos <= Len(cmd.input) + 1
    /\ Fitting # {}
    /\ LET tok == CommandTokens[cmd.state][Chosen]
           fit == CFit(Chosen)
           p == [cmd EXCEPT !.stack = Push(@, tok.id, fit.val), !.pos = fit.pos]
           r == Run(tok.call, p, world)
           isCriteria == tok.call \in {"criteria_init", "criteria_add", "criteria_match_windows"}
           isCommand == tok.call # "" /\ ~isCriteria
           next == IF tok.call = "" THEN Enter(p, tok.to)
                   ELSE Called(IF isCriteria THEN Criteria(tok.call, p)
                               ELSE [p EXCEPT !.owindows = AfterRun(tok.call, p)], tok.to)
       IN  /\ cmd' = IF tok.kind = "end" /\ At(cmd.input, cmd.pos) # ","
                     THEN CriteriaInit(next) ELSE next
           /\ world' = IF isCommand THEN r.world ELSE world
           /\ told' = IF isCommand
                      THEN Append(told, [call |-> tok.call, at |-> cmd.pos, ok |-> r.ok,
                                         targets |-> r.targets, before |-> world])
                      ELSE told
           /\ asked' = IF tok.call = "criteria_match_windows"
                       THEN Append(asked, [at |-> cmd.pos, world |-> world]) ELSE asked

(* No token fits: the rest of the input is not read.                       *)
CommandError ==
    /\ cmd.on /\ cmd.pos <= Len(cmd.input) + 1
    /\ Fitting = {}
    /\ cmd' = [cmd EXCEPT !.on = FALSE, !.parseError = TRUE, !.stack = <<>>]
    /\ UNCHANGED <<world, told, asked>>

Return ==
    /\ cmd.on /\ cmd.pos > Len(cmd.input) + 1
    /\ cmd' = [cmd EXCEPT !.on = FALSE, !.input = <<>>, !.pos = 1]
    /\ told' = <<>> /\ asked' = <<>>
    /\ UNCHANGED world

CNext == ParseCommand \/ TakeCommandToken \/ CommandError \/ Return

CSpec == CInit /\ [][CNext]_cvars

-----------------------------------------------------------------------------
(***************************************************************************)
(* A mark names one container.  con_unmark() relies on it: it takes the    *)
(* mark from the first container that has it (con.c:939).                  *)
(***************************************************************************)
MarksUnique ==
    \A c, d \in All : c # d => world.marks[c] \cap world.marks[d] = {}
=============================================================================
