------------------------------ MODULE Grammar ------------------------------
(***************************************************************************)
(* The language of the manual ("The interpreter": operators, compound      *)
(* commands and the rules below the tables), said without an order of      *)
(* reading: when the tokens i .. j-1 of t are a command, a pipeline, a     *)
(* list ...                                                                *)
(***************************************************************************)
EXTENDS Integers, FiniteSets, Sequences

Closing == {"then", "elif", "else", "fi", "do", "done", "}"}
Opening == {"if", "while", "for", "{"}

Kind(t, k) == t[k].kind
Bare(t, k, kws) ==
    Kind(t, k) = "WORD" /\ Len(t[k].segs) = 1 /\ \E w \in kws : t[k].segs[1].text = <<w>>

All(t, i, j, kinds) == i <= j /\ \A k \in i .. j - 1 : Kind(t, k) \in kinds

Stream(kind) == IF kind = "REDIR_APPEND" THEN "REDIR_OUT" ELSE kind

\* words, the first not reserved, and at most one redirect per stream
Command(t, i, j) ==
    LET ops == {k \in i .. j - 1 : Kind(t, k) \in {"REDIR_IN", "REDIR_OUT", "REDIR_APPEND",
                                                   "REDIR_ERR"}}
        words == {k \in i .. j - 1 : k \notin ops /\ k - 1 \notin ops}
    IN
    /\ All(t, i, j, {"WORD", "REDIR_IN", "REDIR_OUT", "REDIR_APPEND", "REDIR_ERR"})
    /\ \A k \in ops : k + 1 < j /\ Kind(t, k + 1) = "WORD"
    /\ \A k, m \in ops : k # m => Stream(Kind(t, k)) # Stream(Kind(t, m))
    /\ words # {}
    /\ \A k \in words : (\A m \in words : k <= m) => ~Bare(t, k, Opening \cup Closing)

\* the places after an operator at k and the newlines it may be followed by
After(t, k, j, ops) == {m \in k + 1 .. j - 1 : Kind(t, k) \in ops /\ All(t, k + 1, m, {"NEWLINE"})}

RECURSIVE Stages(_, _, _)
Stages(t, i, j) ==
    \/ Command(t, i, j)
    \/ \E k \in i + 1 .. j - 2 : \E m \in After(t, k, j, {"PIPE"}) :
          Command(t, i, k) /\ Stages(t, m, j)

\* an optional ! and a pipeline that does not begin with another
Signed(t, i, j) ==
    LET start == IF i < j /\ Bare(t, i, {"!"}) THEN i + 1 ELSE i
    IN  start < j /\ ~Bare(t, start, {"!"}) /\ Stages(t, start, j)

RECURSIVE AndOr(_, _, _)
AndOr(t, i, j) ==
    \/ Signed(t, i, j)
    \/ \E k \in i + 1 .. j - 2 : \E m \in After(t, k, j, {"AND_IF", "OR_IF"}) :
          Signed(t, i, k) /\ AndOr(t, m, j)

-----------------------------------------------------------------------------
RECURSIVE List(_, _, _)

Seps == {"SEMI", "NEWLINE"}

Identifier(t, k) ==
    /\ Kind(t, k) = "WORD" /\ Len(t[k].segs) = 1
    /\ t[k].segs[1].text # <<>>
    /\ t[k].segs[1].text[1] # "2"
    /\ \A n \in DOMAIN t[k].segs[1].text :
          t[k].segs[1].text[n] \notin {" ", "TAB", "NL", "#", "!", "{", "}", ">", "<", "|", "&", ";",
                                 "(", ")", "SQ", "DQ", "BS", "BQ", "$"}

\* "then LIST" and the clauses after it up to the fi at j - 1
RECURSIVE Clauses(_, _, _)
Clauses(t, i, j) ==
    /\ Bare(t, i, {"then"})
    /\ \E k \in i + 1 .. j - 1 :
          /\ List(t, i + 1, k)
          /\ \/ k = j - 1
             \/ Bare(t, k, {"else"}) /\ List(t, k + 1, j - 1)
             \/ Bare(t, k, {"elif"}) /\ \E m \in k + 1 .. j - 2 :
                   List(t, k + 1, m) /\ Clauses(t, m, j)

DoDone(t, i, j) == Bare(t, i, {"do"}) /\ Bare(t, j - 1, {"done"}) /\ List(t, i + 1, j - 1)

If(t, i, j) ==
    /\ Bare(t, i, {"if"}) /\ Bare(t, j - 1, {"fi"})
    /\ \E k \in i + 1 .. j - 1 : List(t, i + 1, k) /\ Clauses(t, k, j)

While(t, i, j) ==
    Bare(t, i, {"while"}) /\ \E k \in i + 1 .. j - 1 : List(t, i + 1, k) /\ DoDone(t, k, j)

\* the words of the for end at a separator
For(t, i, j) ==
    /\ j - i > 5
    /\ Bare(t, i, {"for"}) /\ Identifier(t, i + 1)
    /\ \E k \in i + 2 .. j - 1 : \E m \in k + 1 .. j - 1 : \E n \in m + 1 .. j - 1 :
          /\ All(t, i + 2, k, {"NEWLINE"}) /\ Bare(t, k, {"in"})
          /\ All(t, k + 1, m, {"WORD"})
          /\ Kind(t, m) \in Seps /\ All(t, m + 1, n, {"NEWLINE"})
          /\ DoDone(t, n, j)

Function(t, i, j) ==
    /\ j - i > 4
    /\ Identifier(t, i) /\ Kind(t, i + 1) = "LPAREN" /\ Kind(t, i + 2) = "RPAREN"
    /\ ~Bare(t, i, {"if", "while", "for"})
    /\ \E k \in i + 3 .. j - 1 :
          All(t, i + 3, k, {"NEWLINE"}) /\ Bare(t, k, {"{"}) /\ List(t, k + 1, j - 1)
    /\ Bare(t, j - 1, {"}"})

Compound(t, i, j) ==
    i < j /\ (If(t, i, j) \/ While(t, i, j) \/ For(t, i, j) \/ Function(t, i, j))

\* Items one after another.  Separators may surround them; & ends a plain
\* pipeline.  In front of a closing keyword (closed) the last item needs a
\* separator or & after it, unless it ends in a closing keyword itself.
RECURSIVE Items(_, _, _, _)
Items(t, i, j, closed) ==
    \E a \in i .. j - 1 : \E b \in a + 1 .. j :
        /\ All(t, i, a, Seps)
        /\ \/ /\ Compound(t, a, b)
              /\ \/ All(t, b, j, Seps)
                 \/ b < j /\ Kind(t, b) \in Seps /\ Items(t, b + 1, j, closed)
           \/ /\ AndOr(t, a, b)
              /\ \/ b = j /\ ~closed
                 \/ b < j /\ Kind(t, b) \in Seps /\ (All(t, b, j, Seps) \/ Items(t, b + 1, j, closed))
           \/ /\ Signed(t, a, b)
              /\ b < j /\ Kind(t, b) = "AMP"
              /\ All(t, b + 1, j, Seps) \/ Items(t, b + 1, j, closed)

List(t, i, j) == i < j /\ Items(t, i, j, TRUE)

Program(t) == All(t, 1, Len(t) + 1, Seps) \/ Items(t, 1, Len(t) + 1, FALSE)
=============================================================================
