------------------------------ MODULE Parsers -------------------------------
(***************************************************************************)
(* What commands_parser.c and config_parser.c have in common: a table of   *)
(* tokens for every state (parser-specs/, compiled by                      *)
(* generate-command-parser.pl), a small stack of identified values, and a  *)
(* walk over the input that takes the first token of the current state     *)
(* that fits.                                                              *)
(*                                                                         *)
(* The input is a sequence of lexemes, not of characters: a word, a        *)
(* number, or one of the marks below.  White space is where two lexemes    *)
(* meet.  A literal fits the lexeme that is equal to it; that              *)
(* strncasecmp() also takes a longer word which begins with the literal,   *)
(* in any case, is left out.                                               *)
(***************************************************************************)
EXTENDS Integers, Sequences, FiniteSets, SequencesExt

NL == "newline"
Quote == "quote"
EOF == "end of input"

Numbers == {"5", "7"}

(***************************************************************************)
(* A token: what it fits, the identifier its value gets on the stack, the  *)
(* function it calls, and the state it leads to.  `call f(...); S' and     *)
(* `-> S' of the specifications both name the state; the generator fills   *)
(* in INITIAL after a call and the state itself after an empty arrow.      *)
(***************************************************************************)
Tok(kind, lits, id, call, to) ==
    [kind |-> kind, lits |-> lits, id |-> id, call |-> call, to |-> to]

Lit(l, to) == Tok("literal", {l}, "", "", to)
LitAs(id, lits, to) == Tok("literal", lits, id, "", to)
LitCall(id, lits, call, to) == Tok("literal", lits, id, call, to)
Word(id, to) == Tok("word", {}, id, "", to)
WordCall(id, call, to) == Tok("word", {}, id, call, to)
StringCall(id, call, to) == Tok("string", {}, id, call, to)
Number(id, to) == Tok("number", {}, id, "", to)
EndTo(to) == Tok("end", {}, "", "", to)
EndCall(call, to) == Tok("end", {}, "", call, to)
Rest(to) == Tok("line", {}, "", "", to)
Error(to) == Tok("error", {}, "", "", to)

(* The lexeme under `walk'; behind the last one stands the 0-byte.         *)
At(input, pos) == IF pos <= Len(input) THEN input[pos] ELSE EOF

(* The first position from pos on that holds one of `stops', or the 0-byte *)
UpTo(input, pos, stops) ==
    LET hits == {i \in pos..Len(input) : input[i] \in stops}
    IN  IF hits = {} THEN Len(input) + 1 ELSE CHOOSE i \in hits : \A j \in hits : i <= j

(***************************************************************************)
(* A string or a word: in quotes everything up to the next quote or, when  *)
(* none follows, up to the end of the input; else up to a delimiter.  An   *)
(* empty value does not fit.  Result: the value, and the position behind.  *)
(***************************************************************************)
Value(input, pos, wordEnds, stringEnds, isWord) ==
    LET quoted == At(input, pos) = Quote
        from == IF quoted THEN pos + 1 ELSE pos
        to == IF quoted THEN UpTo(input, from, {Quote})
              ELSE IF isWord
                   THEN IF At(input, pos) \in wordEnds \cup {EOF} THEN pos ELSE pos + 1
                   ELSE UpTo(input, from, stringEnds)
    IN  [val |-> SubSeq(input, from, to - 1),
         pos |-> IF At(input, to) = Quote THEN to + 1 ELSE to]

(* The first slot with this identifier: get_string(), get_long().          *)
Has(stack, id) == \E i \in DOMAIN stack : stack[i].id = id
Get(stack, id) ==
    IF Has(stack, id)
    THEN stack[CHOOSE i \in DOMAIN stack : /\ stack[i].id = id
                                           /\ \A j \in 1..(i - 1) : stack[j].id # id].val
    ELSE <<>>

(***************************************************************************)
(* One token against the input: whether it fits, its value, and the        *)
(* position behind it.  `ends' are the lexemes that an end token takes.    *)
(***************************************************************************)
Fit(tok, input, pos, wordEnds, stringEnds, ends) ==
    LET l == At(input, pos)
        v == Value(input, pos, wordEnds, stringEnds, tok.kind = "word")
    IN  CASE tok.kind = "literal" -> [ok |-> l \in tok.lits, val |-> <<l>>, pos |-> pos + 1]
          [] tok.kind = "number" -> [ok |-> l \in Numbers, val |-> <<l>>, pos |-> pos + 1]
          [] tok.kind \in {"word", "string"} ->
               [ok |-> v.val # <<>>, val |-> v.val, pos |-> v.pos]
          [] tok.kind = "line" ->
               [ok |-> TRUE, val |-> <<>>, pos |-> UpTo(input, pos, {NL}) + 1]
          [] tok.kind = "end" -> [ok |-> l \in ends, val |-> <<>>, pos |-> pos + 1]
          [] OTHER -> [ok |-> FALSE, val |-> <<>>, pos |-> pos]
=============================================================================
