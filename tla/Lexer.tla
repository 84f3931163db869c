------------------------------- MODULE Lexer -------------------------------
(***************************************************************************)
(* lexer_scan (lexer.c): a text cut into tokens.  A text is a sequence of  *)
(* units: a punctuation character (SQ, DQ, BS and BQ stand for the two     *)
(* quotes, backslash and backtick), a blank, "NL", or a run of ordinary    *)
(* characters such as "if" or "a", which no rule of the lexer looks into.  *)
(* A word is a sequence of quoting runs; each keeps its units and whether  *)
(* it is expanded later.                                                   *)
(***************************************************************************)
EXTENDS Integers, Sequences

Blanks == {" ", "TAB"}
OpChars == {">", "<", "|", "&", ";", "(", ")"}

\* inside double quotes a backslash escapes only these
DqEscapes == {"$", "DQ", "BS", "BQ"}

At(text, i) == IF i <= Len(text) THEN text[i] ELSE "end"

Op(kind) == [kind |-> kind, segs |-> <<>>]
Word(segs) == [kind |-> "WORD", segs |-> segs]

OpKind(c) ==
    CASE c = "<" -> "REDIR_IN" [] c = ">" -> "REDIR_OUT" [] c = "|" -> "PIPE"
      [] c = "&" -> "AMP" [] c = ";" -> "SEMI" [] c = "(" -> "LPAREN" [] c = ")" -> "RPAREN"

\* the operators of two equal characters
OpKind2 == [c \in {">", "&", "|"} |->
    CASE c = ">" -> "REDIR_APPEND" [] c = "&" -> "AND_IF" [] c = "|" -> "OR_IF"]

-----------------------------------------------------------------------------
(* WordBuf: the runs of the pending word, and the bare one not yet closed  *)

NoWord == [segs |-> <<>>, cur |-> <<>>]

Seg(units, expand) == [text |-> units, expand |-> expand]

FlushBare(w) ==
    IF w.cur = <<>> THEN w ELSE [segs |-> Append(w.segs, Seg(w.cur, TRUE)), cur |-> <<>>]

PushSeg(w, units, expand) ==
    [FlushBare(w) EXCEPT !.segs = Append(@, Seg(units, expand))]

Finish(w, tokens) ==
    IF w = NoWord THEN tokens ELSE Append(tokens, Word(FlushBare(w).segs))

-----------------------------------------------------------------------------
\* what the unit at i means, given whether a word may start here
Meaning(text, i, start) ==
    LET c == text[i] IN
    CASE c \in Blanks -> "blank"
      [] c = "NL" -> "newline"
      [] c = "#" -> IF start THEN "comment" ELSE "plain"
      [] c = "2" -> IF start /\ At(text, i + 1) = ">" THEN "redir_err" ELSE "plain"
      [] c \in OpChars -> "operator"
      [] c = "SQ" -> "single"
      [] c = "DQ" -> "double"
      [] c = "BS" -> "escape"
      [] OTHER -> "plain"

\* the first place from i on where one of the units stands, or the end
Find(text, i, units) ==
    CHOOSE j \in i .. Len(text) + 1 :
        /\ j <= Len(text) => text[j] \in units
        /\ \A k \in i .. j - 1 : text[k] \notin units

\* from i inside double quotes: the closing quote and the units up to it
RECURSIVE DoubleQuoted(_, _, _)
DoubleQuoted(text, i, units) ==
    CASE At(text, i) \in {"end", "DQ"} -> [close |-> i, units |-> units]
      [] At(text, i) = "BS" /\ At(text, i + 1) \in DqEscapes ->
            DoubleQuoted(text, i + 2, Append(units, text[i + 1]))
      [] OTHER -> DoubleQuoted(text, i + 1, Append(units, text[i]))

Unterminated == [verdict |-> "INCOMPLETE", tokens |-> <<>>]

\* fault: a backslash at the end of a line joins it with the next
EscapeJoins(text, i, w) ==
    IF At(text, i + 1) \in {"end", "NL"} THEN [word |-> w, next |-> i + 2]
    ELSE [word |-> [w EXCEPT !.cur = Append(@, text[i + 1])], next |-> i + 2]

\* scan_escape: there is no line continuation, the backslash stays
Escape(text, i, w) ==
    IF At(text, i + 1) \in {"end", "NL"}
    THEN [word |-> [w EXCEPT !.cur = Append(@, "BS")], next |-> i + 1]
    ELSE [word |-> [w EXCEPT !.cur = Append(@, text[i + 1])], next |-> i + 2]

RECURSIVE ScanFrom(_, _, _, _, _)
ScanFrom(text, i, w, start, tokens) ==
    IF i > Len(text) THEN [verdict |-> "OK", tokens |-> Finish(w, tokens)]
    ELSE
    LET c == text[i]
        meaning == Meaning(text, i, start)
    IN
    CASE meaning = "blank" -> ScanFrom(text, i + 1, NoWord, TRUE, Finish(w, tokens))
      [] meaning = "newline" ->
            ScanFrom(text, i + 1, NoWord, TRUE, Append(Finish(w, tokens), Op("NEWLINE")))
      [] meaning = "comment" -> ScanFrom(text, Find(text, i, {"NL"}), w, TRUE, tokens)
      [] meaning = "redir_err" ->
            ScanFrom(text, i + 2, w, TRUE, Append(tokens, Op("REDIR_ERR")))
      [] meaning = "operator" ->
            IF c \in DOMAIN OpKind2 /\ At(text, i + 1) = c
            THEN ScanFrom(text, i + 2, NoWord, TRUE, Append(Finish(w, tokens), Op(OpKind2[c])))
            ELSE ScanFrom(text, i + 1, NoWord, TRUE, Append(Finish(w, tokens), Op(OpKind(c))))
      [] meaning = "single" ->
            LET close == Find(text, i + 1, {"SQ"}) IN
            IF close > Len(text) THEN Unterminated
            ELSE ScanFrom(text, close + 1,
                          PushSeg(w, SubSeq(text, i + 1, close - 1), FALSE), FALSE, tokens)
      [] meaning = "double" ->
            LET q == DoubleQuoted(text, i + 1, <<>>) IN
            IF q.close > Len(text) THEN Unterminated
            ELSE ScanFrom(text, q.close + 1, PushSeg(w, q.units, TRUE), FALSE, tokens)
      [] meaning = "escape" ->
            LET x == Escape(text, i, w) IN ScanFrom(text, x.next, x.word, FALSE, tokens)
      [] meaning = "plain" ->
            ScanFrom(text, i + 1, [w EXCEPT !.cur = Append(@, c)], FALSE, tokens)

LexerScan(text) == ScanFrom(text, 1, NoWord, TRUE, <<>>)
=============================================================================
