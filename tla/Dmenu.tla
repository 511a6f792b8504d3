------------------------------- MODULE Dmenu -------------------------------
(***************************************************************************)
(* dmenu (dmenu.c): the line of input, its cursor, the list of the items   *)
(* that match it and the page of that list that is shown.                  *)
(*                                                                         *)
(* The input is the bytes of a UTF-8 text: "lead" and "more" are the two   *)
(* bytes of a longer rune.  An item is its place in Items, and sel, curr,  *)
(* prev and next are places in the list of matches; 0 is NULL.             *)
(***************************************************************************)
EXTENDS Integers, Sequences, FiniteSetsExt, SequencesExt

CONSTANTS
    Items,        \* the lines read by readstdin()
    Lines,        \* the values of `lines`: 0 is a horizontal menu
    Room,         \* width of a horizontal page, an item being as wide as it is long
    MaxText,      \* sizeof text - 1
    Typed         \* what a key, an input method or a selection can give

VARIABLES
    lines,
    text, cursor,
    matches,
    menu,         \* sel, curr, prev, next
    asked,        \* a selection was asked for and has not come; bound: one at a time
    over          \* the menu is gone

line == <<text, cursor>>
dvars == <<lines, text, cursor, matches, menu, asked, over>>

-----------------------------------------------------------------------------
(* match() *)

Piece(t, i, j) == SubSeq(t, i, j)
TokensAt(t) ==   \* where strtok() finds the words
    {p \in (DOMAIN t) \X (DOMAIN t) :
        /\ p[1] <= p[2] /\ \A k \in p[1]..p[2] : t[k] # " "
        /\ p[1] = 1 \/ t[p[1] - 1] = " "
        /\ p[2] = Len(t) \/ t[p[2] + 1] = " "}
FirstToken(t) == CHOOSE p \in TokensAt(t) : \A q \in TokensAt(t) : p[1] <= q[1]

Within(x, s) == \E i \in 1..(Len(s) - Len(x) + 1) : Piece(s, i, i + Len(x) - 1) = x

Matching(t) ==
    {i \in DOMAIN Items : \A p \in TokensAt(t) : Within(Piece(t, p[1], p[2]), Items[i])}

(* Exact matches go first, then prefixes, then substrings. *)
Rank(t, i) ==
    IF TokensAt(t) = {} \/ Items[i] = t THEN 0
    ELSE IF IsPrefix(Piece(t, FirstToken(t)[1], FirstToken(t)[2]), Items[i]) THEN 1 ELSE 2

Ranked(t, r) == SelectSeq([i \in DOMAIN Items |-> i], LAMBDA i : i \in Matching(t) /\ Rank(t, i) = r)

-----------------------------------------------------------------------------
(* calcoffsets() *)

Page == IF lines > 0 THEN lines ELSE Room
Width(i) == IF lines > 0 THEN 1 ELSE Min({Len(Items[i]), Room})
FitOn(l, i, j) == MapThenSumSet(LAMBDA k : Width(l[k]), i..j) <= Page

NextPage(l, c) ==
    LET beyond == {j \in c..Len(l) : ~FitOn(l, c, j)}
    IN  IF c = 0 \/ beyond = {} THEN 0 ELSE Min(beyond)
PrevPageOffByOne(l, c) ==   \* mutant: prev->text instead of prev->left->text
    IF c = 0 THEN 0 ELSE Min({c} \cup {p \in 1..c : FitOn(l, p + 1, c)})
PrevPage(l, c) == IF c = 0 THEN 0 ELSE Min({p \in 1..c : FitOn(l, p, c - 1)})

At(l, c, s) == [sel |-> s, curr |-> c, prev |-> PrevPage(l, c), next |-> NextPage(l, c)]

MatchOf(l) == matches' = l /\ menu' = At(l, Min({1, Len(l)}), Min({1, Len(l)}))
Match(t) == MatchOf(Ranked(t, 0) \o Ranked(t, 1) \o Ranked(t, 2))

-----------------------------------------------------------------------------
(* nextrune() and movewordedge() *)

More(t, c) == c < Len(t) /\ t[c + 1] = "more"

RuneAfter(t, c) == Min({n \in (c + 1)..Len(t) : ~More(t, n)})
RuneBefore(t, c) == Max({0} \cup {n \in 0..(c - 1) : ~More(t, n)})

Spaces(t, i, j) == \A k \in i..j : t[k] = " "
NoSpaces(t, i, j) == \A k \in i..j : t[k] # " "
WordBefore(t, c) ==
    LET d == Min({p \in 0..c : Spaces(t, p + 1, c)})
    IN  Min({p \in 0..d : NoSpaces(t, p + 1, d)})
WordAfter(t, c) ==
    LET d == Max({p \in c..Len(t) : Spaces(t, c + 1, p)})
    IN  Max({p \in d..Len(t) : NoSpaces(t, d + 1, p)})

-----------------------------------------------------------------------------
DInit ==
    /\ lines \in Lines
    /\ text = <<>> /\ cursor = 0
    /\ matches = [i \in DOMAIN Items |-> i]
    /\ menu = At([i \in DOMAIN Items |-> i], 1, 1)
    /\ asked = FALSE /\ over = FALSE

Replace(t, c) == text' = t /\ cursor' = c /\ Match(t)
Select(c, s) == menu' = At(matches, c, s)

(* insert(): text that does not fit is dropped. *)
Insert(s) ==
    IF Len(text) + Len(s) > MaxText THEN UNCHANGED <<line, matches, menu>>
    ELSE Replace(Piece(text, 1, cursor) \o s \o Piece(text, cursor + 1, Len(text)),
                 cursor + Len(s))
RemoveBack(from, to) == Replace(Piece(text, 1, from) \o Piece(text, to + 1, Len(text)), from)

Key == ~over /\ UNCHANGED <<lines, asked, over>>

Type == Key /\ \E s \in Typed : Insert(s)

(* A key without text: whether the empty string is inserted depends on what *)
(* an uninitialized buffer holds.                                          *)
KeyWithoutText == Key /\ Insert(<<>>)

Delete ==
    /\ Key /\ cursor < Len(text)
    /\ RemoveBack(RuneBefore(text, RuneAfter(text, cursor)), RuneAfter(text, cursor))
BackSpace == Key /\ cursor > 0 /\ RemoveBack(RuneBefore(text, cursor), cursor)

KillRight == Key /\ Replace(Piece(text, 1, cursor), cursor)
KillLeft == Key /\ RemoveBack(0, cursor)
KillWord == Key /\ cursor > 0 /\ RemoveBack(WordBefore(text, cursor), cursor)

MoveTo(c) == cursor' = c /\ UNCHANGED <<text, matches, menu>>
WordLeft == Key /\ MoveTo(WordBefore(text, cursor))
WordRight == Key /\ MoveTo(WordAfter(text, cursor))

-----------------------------------------------------------------------------
(* Keys that move the cursor or the selection. *)

Moves(c, s) == Select(c, s) /\ UNCHANGED <<line, matches>>
SelectOnly(s) == menu' = [menu EXCEPT !.sel = s] /\ UNCHANGED <<line, matches>>

SelectLeft ==
    /\ menu.sel > 1
    /\ IF menu.sel = menu.curr THEN Moves(menu.prev, menu.sel - 1)
       ELSE SelectOnly(menu.sel - 1)
SelectRight ==
    /\ menu.sel # 0 /\ menu.sel < Len(matches)
    /\ IF menu.sel + 1 = menu.next THEN Moves(menu.next, menu.sel + 1)
       ELSE SelectOnly(menu.sel + 1)

Up == Key /\ SelectLeft
Down == Key /\ SelectRight

Left ==
    /\ Key
    /\ \/ /\ cursor > 0 /\ (menu.sel <= 1 \/ lines > 0)
          /\ MoveTo(RuneBefore(text, cursor))
       \/ ~(cursor > 0 /\ menu.sel <= 1) /\ lines = 0 /\ SelectLeft
Right ==
    /\ Key
    /\ \/ cursor < Len(text) /\ MoveTo(RuneAfter(text, cursor))
       \/ cursor = Len(text) /\ lines = 0 /\ SelectRight

PageDown == Key /\ menu.next # 0 /\ Moves(menu.next, menu.next)
PageUp == Key /\ menu.prev # 0 /\ Moves(menu.prev, menu.prev)

Home ==
    /\ Key
    /\ IF menu.sel = Min({1, Len(matches)}) THEN MoveTo(0) ELSE Moves(1, 1)

LastPage == Min({c \in PrevPage(matches, Len(matches))..Len(matches) : NextPage(matches, c) = 0})
End ==
    /\ Key
    /\ IF cursor < Len(text) THEN MoveTo(Len(text))
       ELSE IF menu.next # 0 THEN Moves(LastPage, Len(matches))
       ELSE SelectOnly(Len(matches))

(* Tab: the selected item becomes the text, as far as it fits. *)
Tab ==
    /\ Key /\ menu.sel # 0
    /\ \E s \in {Items[matches[menu.sel]]} :
         Replace(Piece(s, 1, Min({MaxText, Len(s)})), Min({MaxText, Len(s)}))

-----------------------------------------------------------------------------
(* Ctrl-y asks for the selection; it comes later, is cut at a newline, and  *)
(* goes to where the cursor is by then.                                    *)
AskPaste == ~over /\ ~asked /\ asked' = TRUE /\ UNCHANGED <<lines, line, matches, menu, over>>
Paste ==
    /\ ~over /\ asked /\ asked' = FALSE
    /\ \E s \in Typed : Insert(s)
    /\ UNCHANGED <<lines, over>>

(* Return, Escape, or the window is destroyed.  Ctrl-Return goes on. *)
Leave == ~over /\ over' = TRUE /\ UNCHANGED <<lines, line, matches, menu, asked>>

Editing == Type \/ KeyWithoutText \/ Delete \/ BackSpace \/ KillRight \/ KillLeft \/ KillWord \/ Tab
Moving ==
    \/ WordLeft \/ WordRight \/ Up \/ Down \/ Left \/ Right \/ PageDown \/ PageUp \/ Home \/ End
DNext == Editing \/ Moving \/ AskPaste \/ Paste \/ Leave

-----------------------------------------------------------------------------
(* The list is what matches the text as it now is, each item once, better  *)
(* matches first and in the order of the items otherwise.                  *)
ListFollowsText ==
    /\ ToSet(matches) = Matching(text) /\ Len(matches) = Cardinality(Matching(text))
    /\ \A i, j \in DOMAIN matches : i < j =>
          \/ Rank(text, matches[i]) < Rank(text, matches[j])
          \/ Rank(text, matches[i]) = Rank(text, matches[j]) /\ matches[i] < matches[j]

(* What is selected is on the page that is shown, however it came there; a *)
(* page starts where the one before ended, or earlier.                     *)
SelectionShown ==
    /\ matches # <<>> =>
          menu.curr <= menu.sel /\ (menu.next = 0 \/ menu.sel < menu.next)
    /\ menu.prev # 0 /\ menu.prev < menu.curr => 
          NextPage(matches, menu.prev) \in {0} \cup menu.curr..Len(matches)

(* The cursor is between two runes, and every edit leaves whole runes. *)
WholeRunes ==
    /\ ~More(text, cursor)
    /\ \A i \in DOMAIN text : text[i] = "more" => i > 1 /\ text[i - 1] = "lead"
    /\ \A i \in DOMAIN text : text[i] = "lead" => More(text, i)

(* After every key: the list is what matches the text, what is selected is *)
(* on the page, and text and cursor consist of whole runes.                *)
MenuFollows == ListFollowsText /\ SelectionShown /\ WholeRunes
=============================================================================
