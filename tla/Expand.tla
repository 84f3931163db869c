------------------------------- MODULE Expand -------------------------------
(***************************************************************************)
(* expand_word (expand.c): the text of a word when its command runs.  A    *)
(* context is [env, argv, status]: the environment from names to texts,    *)
(* the parameters with $0 first, and last_status.                          *)
(***************************************************************************)
EXTENDS Lexer, TLC

Digits == {"0", "1", "2"}
Special == Blanks \cup OpChars \cup Digits
           \cup {"NL", "SQ", "DQ", "BS", "BQ", "$", "{", "}", "?", "#", "~", "/", "!", "end"}

\* every other unit is a run of letters
IsNameStart(c) == c \notin Special
IsNameChar(c) == IsNameStart(c) \/ c \in Digits
Value == [d \in Digits |-> CASE d = "0" -> 0 [] d = "1" -> 1 [] d = "2" -> 2]

Decimal(n) == <<ToString(n)>>
Env(ctx, name) == IF name \in DOMAIN ctx.env THEN ctx.env[name] ELSE <<>>
Positional(ctx, d) == IF Value[d] < Len(ctx.argv) THEN ctx.argv[Value[d] + 1] ELSE <<>>

\* the longest name that starts at i
NameLen(text, i) ==
    IF ~IsNameStart(At(text, i)) THEN 0
    ELSE (CHOOSE j \in i + 1 .. Len(text) + 1 :
             /\ ~IsNameChar(At(text, j))
             /\ \A k \in i + 1 .. j - 1 : IsNameChar(text[k])) - i

\* append_count, which never is negative
Count(ctx) == IF ctx.argv = <<>> THEN 0 ELSE Len(ctx.argv) - 1

BadSubstitution == [ok |-> FALSE, text |-> <<>>]

(* expand_segment from i on: what was put out so far is never read again   *)
RECURSIVE ExpandFrom(_, _, _, _)

ExpandName(text, ctx, i, n, after, out) ==
    ExpandFrom(text, ctx, after, out \o Env(ctx, SubSeq(text, i, i + n - 1)))

\* fault: the name need not be closed
ExpandBraceOpen(text, ctx, i, n, out) ==
    IF n = 0 THEN BadSubstitution ELSE ExpandName(text, ctx, i + 2, n, i + n + 3, out)

\* ${ at i, with a name of length n behind it
ExpandBrace(text, ctx, i, n, out) ==
    IF n = 0 \/ At(text, i + 2 + n) # "}" THEN BadSubstitution
    ELSE ExpandName(text, ctx, i + 2, n, i + n + 3, out)

ExpandFrom(text, ctx, i, out) ==
    LET next == At(text, i + 1) IN
    CASE i > Len(text) -> [ok |-> TRUE, text |-> out]
      [] i <= Len(text) /\ text[i] # "$" ->
            ExpandFrom(text, ctx, i + 1, Append(out, text[i]))
      [] next = "?" -> ExpandFrom(text, ctx, i + 2, out \o Decimal(ctx.status))
      [] next = "#" -> ExpandFrom(text, ctx, i + 2, out \o Decimal(Count(ctx)))
      [] next \in Digits -> ExpandFrom(text, ctx, i + 2, out \o Positional(ctx, next))
      [] next = "{" /\ At(text, i + 2) \in Digits /\ At(text, i + 3) = "}" ->
            ExpandFrom(text, ctx, i + 4, out \o Positional(ctx, text[i + 2]))
      [] next = "{" /\ ~(At(text, i + 2) \in Digits /\ At(text, i + 3) = "}") ->
            ExpandBrace(text, ctx, i, NameLen(text, i + 2), out)
      [] IsNameStart(next) ->
            ExpandName(text, ctx, i + 1, NameLen(text, i + 1), i + 1 + NameLen(text, i + 1), out)
      [] OTHER -> ExpandFrom(text, ctx, i + 1, Append(out, "$"))

\* expand_tilde: the units it consumes
TildeSkip(text, wordEnd, ctx) ==
    IF /\ At(text, 1) = "~"
       /\ At(text, 2) = "/" \/ (At(text, 2) = "end" /\ wordEnd)
       /\ Env(ctx, <<"HOME">>) # <<>>
    THEN 1 ELSE 0

RECURSIVE ExpandSegs(_, _, _, _)
ExpandSegs(segs, ctx, i, acc) ==
    IF i > Len(segs) \/ ~acc.ok THEN acc
    ELSE
    LET skip == IF i = 1 THEN TildeSkip(segs[i].text, Len(segs) = 1, ctx) ELSE 0
        home == IF skip = 1 THEN Env(ctx, <<"HOME">>) ELSE <<>>
    IN
    ExpandSegs(segs, ctx, i + 1,
        IF segs[i].expand THEN ExpandFrom(segs[i].text, ctx, skip + 1, acc.text \o home)
        ELSE [acc EXCEPT !.text = @ \o segs[i].text])

ExpandWord(tok, ctx) == ExpandSegs(tok.segs, ctx, 1, [ok |-> TRUE, text |-> <<>>])
=============================================================================
