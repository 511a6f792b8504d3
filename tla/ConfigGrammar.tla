---------------------------- MODULE ConfigGrammar ---------------------------
(***************************************************************************)
(* parser-specs/config.spec: the states and tokens of the configuration    *)
(* parser.  Of the directives that take one value and store it, one stands *)
(* for each form; the blocks, the criteria, and the states with tokens     *)
(* that lead back to themselves are all here.                              *)
(***************************************************************************)
EXTENDS Parsers

Modifiers == {"Mod1", "Mod4", "Shift"}
Bools == {"yes", "no"}

GlobalStates ==
    [INITIAL |-> <<EndTo("INITIAL"), Error("INITIAL"),
                   Lit("#", "IGNORE_LINE"), Lit("set", "IGNORE_LINE"),
                   Lit("include", "INCLUDE"),
                   LitAs("bindtype", {"bindsym", "bindcode"}, "BINDING"),
                   Lit("bar", "BARBRACE"), Lit("mode", "MODENAME"), Lit("gaps", "GAPS"),
                   Lit("smart_borders", "SMART_BORDERS"),
                   Lit("hide_edge_borders", "HIDE_EDGE_BORDERS"),
                   Lit("focus_wrapping", "FOCUS_WRAPPING"),
                   Lit("force_focus_wrapping", "FORCE_FOCUS_WRAPPING"),
                   Lit("for_window", "FOR_WINDOW"), Lit("assign", "ASSIGN"),
                   Lit("no_focus", "NO_FOCUS"), Lit("show_marks", "SHOW_MARKS"),
                   Lit("workspace", "WORKSPACE"), Lit("exec", "EXEC"),
                   LitAs("colorclass", {"client.focused"}, "COLOR_BORDER")>>,
     IGNORE_LINE |-> <<Rest("INITIAL")>>,
     INCLUDE |-> <<StringCall("pattern", "include", "INITIAL")>>,
     EXEC |-> <<LitAs("no_startup_id", {"--no-startup-id"}, "EXEC"),
                StringCall("command", "exec", "INITIAL")>>,
     SHOW_MARKS |-> <<WordCall("value", "show_marks", "INITIAL")>>,
     FOCUS_WRAPPING |-> <<LitCall("value", Bools \cup {"force"}, "focus_wrapping", "INITIAL")>>,
     FORCE_FOCUS_WRAPPING |-> <<WordCall("value", "force_focus_wrapping", "INITIAL")>>,
     SMART_BORDERS |-> <<LitCall("enabled", {"yes"}, "smart_borders", "INITIAL")>>,
     HIDE_EDGE_BORDERS |->
         <<LitCall("hide_borders", {"none", "both"}, "hide_edge_borders", "INITIAL")>>,
     COLOR_BORDER |-> <<Word("border", "COLOR_BACKGROUND")>>,
     COLOR_BACKGROUND |-> <<Word("background", "COLOR_TEXT")>>,
     COLOR_TEXT |-> <<Word("text", "COLOR_INDICATOR")>>,
     COLOR_INDICATOR |-> <<Word("indicator", "COLOR_CHILD_BORDER"),
                           EndCall("color", "INITIAL")>>,
     COLOR_CHILD_BORDER |-> <<WordCall("child_border", "color", "INITIAL"),
                              EndCall("color", "INITIAL")>>]

WorkspaceStates ==
    [GAPS |-> <<LitAs("scope", {"inner", "top"}, "GAPS_WITH_SCOPE")>>,
     GAPS_WITH_SCOPE |-> <<Number("value", "GAPS_END")>>,
     GAPS_END |-> <<Lit("px", "GAPS_END"), EndCall("gaps", "INITIAL")>>,
     WORKSPACE |-> <<Word("workspace", "WORKSPACE_COMMAND")>>,
     WORKSPACE_COMMAND |-> <<Lit("output", "WORKSPACE_OUTPUT_WORD"), Lit("gaps", "GAPS")>>,
     WORKSPACE_OUTPUT_WORD |-> <<WordCall("output", "workspace", "WORKSPACE_OUTPUT_WORD"),
                                 EndTo("INITIAL")>>]

CriteriaStates ==
    [FOR_WINDOW |-> <<LitCall("", {"["}, "criteria_init:FOR_WINDOW_COMMAND", "CRITERIA")>>,
     FOR_WINDOW_COMMAND |-> <<StringCall("command", "for_window", "INITIAL")>>,
     ASSIGN |-> <<LitCall("", {"["}, "criteria_init:ASSIGN_WORKSPACE", "CRITERIA")>>,
     ASSIGN_WORKSPACE |-> <<Lit("output", "ASSIGN_OUTPUT"),
                            Lit("workspace", "ASSIGN_WORKSPACE"),
                            Lit("number", "ASSIGN_WORKSPACE_NUMBER"),
                            StringCall("workspace", "assign", "INITIAL")>>,
     ASSIGN_OUTPUT |-> <<StringCall("output", "assign_output", "INITIAL")>>,
     ASSIGN_WORKSPACE_NUMBER |-> <<StringCall("number", "assign_number", "INITIAL")>>,
     NO_FOCUS |-> <<LitCall("", {"["}, "criteria_init:NO_FOCUS_END", "CRITERIA")>>,
     NO_FOCUS_END |-> <<EndCall("no_focus", "INITIAL")>>,
     CRITERIA |-> <<LitAs("ctype", {"class", "id"}, "CRITERION"),
                    LitAs("ctype", {"tiling_from"}, "CRITERION_FROM"),
                    LitCall("ctype", {"tiling", "all"}, "criteria_add", "CRITERIA"),
                    LitCall("", {"]"}, "criteria_pop_state", "INITIAL")>>,
     CRITERION |-> <<Lit("=", "CRITERION_STR")>>,
     CRITERION_FROM |-> <<Lit("=", "CRITERION_FROM_STR_START")>>,
     CRITERION_FROM_STR_START |->
         <<Lit(Quote, "CRITERION_FROM_STR"),
           LitCall("kind", {"auto", "user"}, "criteria_add", "CRITERIA")>>,
     CRITERION_FROM_STR |-> <<LitAs("kind", {"auto", "user"}, "CRITERION_FROM_STR_END")>>,
     CRITERION_FROM_STR_END |-> <<LitCall("", {Quote}, "criteria_add", "CRITERIA")>>,
     CRITERION_STR |-> <<WordCall("cvalue", "criteria_add", "CRITERIA")>>]

BindingFlags(state) ==
    <<LitAs("release", {"--release"}, state)>>

ModeStates ==
    [BINDING |-> BindingFlags("BINDING")
                 \o <<LitAs("modifiers", Modifiers, "BINDING"), Lit("+", "BINDING"),
                      Word("key", "BINDCOMMAND")>>,
     BINDCOMMAND |-> BindingFlags("BINDCOMMAND") \o <<StringCall("command", "binding", "INITIAL")>>,
     MODENAME |-> <<LitAs("pango_markup", {"--pango_markup"}, "MODENAME"),
                    WordCall("modename", "enter_mode", "MODEBRACE")>>,
     MODEBRACE |-> <<EndTo("MODEBRACE"), Lit("{", "MODE")>>,
     MODE |-> <<EndTo("MODE"), Error("MODE"), Lit("#", "MODE_IGNORE_LINE"),
                Lit("set", "MODE_IGNORE_LINE"),
                LitAs("bindtype", {"bindsym", "bindcode"}, "MODE_BINDING"),
                Lit("}", "INITIAL")>>,
     MODE_IGNORE_LINE |-> <<Rest("MODE")>>,
     MODE_BINDING |-> BindingFlags("MODE_BINDING")
                      \o <<LitAs("modifiers", Modifiers, "MODE_BINDING"),
                           Lit("+", "MODE_BINDING"), Word("key", "MODE_BINDCOMMAND")>>,
     MODE_BINDCOMMAND |-> BindingFlags("MODE_BINDCOMMAND")
                          \o <<StringCall("command", "mode_binding", "MODE")>>]

BarStates ==
    [BARBRACE |-> <<EndTo("BARBRACE"), LitCall("", {"{"}, "bar_start", "BAR")>>,
     BAR |-> <<EndTo("BAR"), Error("BAR"), Lit("#", "BAR_IGNORE_LINE"),
               Lit("set", "BAR_IGNORE_LINE"), Lit("mode", "BAR_MODE"), Lit("id", "BAR_ID"),
               Lit("bindsym", "BAR_BINDSYM"), Lit("output", "BAR_OUTPUT"),
               Lit("status_command", "BAR_STATUS_COMMAND"),
               Lit("padding", "BAR_PADDING"), Lit("colors", "BAR_COLORS_BRACE"),
               LitCall("", {"}"}, "bar_finish", "INITIAL")>>,
     BAR_IGNORE_LINE |-> <<Rest("BAR")>>,
     BAR_MODE |-> <<LitCall("mode", {"dock", "hide"}, "bar_mode", "BAR")>>,
     BAR_ID |-> <<WordCall("bar_id", "bar_id", "BAR")>>,
     BAR_BINDSYM |-> <<LitAs("release", {"--release"}, "BAR_BINDSYM"),
                       Word("button", "BAR_BINDSYM_COMMAND")>>,
     BAR_BINDSYM_COMMAND |-> <<LitAs("release", {"--release"}, "BAR_BINDSYM_COMMAND"),
                               StringCall("command", "bar_bindsym", "BAR")>>,
     BAR_OUTPUT |-> <<WordCall("output", "bar_output", "BAR")>>,
     BAR_STATUS_COMMAND |-> <<StringCall("command", "bar_status_command", "BAR")>>,
     BAR_PADDING |-> <<Number("top_or_all", "BAR_PADDING_TOP")>>,
     BAR_PADDING_TOP |-> <<Lit("px", "BAR_PADDING_TOP"),
                           Number("right_or_right_and_left", "BAR_PADDING_RIGHT"),
                           EndCall("bar_padding_one", "BAR")>>,
     BAR_PADDING_RIGHT |-> <<Lit("px", "BAR_PADDING_RIGHT"),
                             EndCall("bar_padding_two", "BAR")>>,
     BAR_COLORS_BRACE |-> <<EndTo("BAR_COLORS_BRACE"), Lit("{", "BAR_COLORS")>>,
     BAR_COLORS |-> <<EndTo("BAR_COLORS"), Lit("#", "BAR_COLORS_IGNORE_LINE"),
                      Lit("set", "BAR_COLORS_IGNORE_LINE"),
                      LitAs("colorclass", {"background"}, "BAR_COLORS_SINGLE"),
                      LitAs("colorclass", {"focused_workspace"}, "BAR_COLORS_BORDER"),
                      Lit("}", "BAR")>>,
     BAR_COLORS_IGNORE_LINE |-> <<Rest("BAR_COLORS")>>,
     BAR_COLORS_SINGLE |-> <<WordCall("color", "bar_color_single", "BAR_COLORS")>>,
     BAR_COLORS_BORDER |-> <<Word("border", "BAR_COLORS_BACKGROUND")>>,
     BAR_COLORS_BACKGROUND |-> <<Word("background", "BAR_COLORS_TEXT")>>,
     BAR_COLORS_TEXT |-> <<EndCall("bar_color", "BAR_COLORS"),
                           WordCall("text", "bar_color", "BAR_COLORS")>>]

ConfigTokens == GlobalStates @@ WorkspaceStates @@ CriteriaStates @@ ModeStates @@ BarStates

(* The states an error can fall back to. *)
HasErrorToken(state) ==
    \E i \in DOMAIN ConfigTokens[state] : ConfigTokens[state][i].kind = "error"
ErrorTarget(state) ==
    LET i == CHOOSE i \in DOMAIN ConfigTokens[state] : ConfigTokens[state][i].kind = "error"
    IN  ConfigTokens[state][i].to
=============================================================================
