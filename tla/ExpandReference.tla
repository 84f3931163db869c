--------------------------- MODULE ExpandReference ---------------------------
(***************************************************************************)
(* What the manual says of expansion ("Expansion", its table and the rules *)
(* the table cannot show), without an order of reading: each $ of a run    *)
(* starts one form of the table or none, and no form holds another $.      *)
(***************************************************************************)
EXTENDS SequencesExt, Integers, TLC

NotLetters == {" ", "TAB", ">", "<", "|", "&", ";", "(", ")", "0", "1", "2", "NL", "SQ", "DQ",
               "BS", "BQ", "$", "{", "}", "?", "#", "~", "/", "!"}
Figures == {"0", "1", "2"}

IsName(s) ==
    /\ s # <<>> /\ s[1] \notin NotLetters
    /\ \A k \in DOMAIN s : s[k] \notin NotLetters \ Figures

Within(s, i, j) == SubSeq(s, i, j)

\* the last place of the form whose $ is at i: the place of the $ if it starts none
Ends(s, i) ==
    LET short == {j \in {i + 1} \cap DOMAIN s : s[j] \in Figures \cup {"?", "#"}}
        braced == {j \in i + 3 .. Len(s) :
                      /\ s[i + 1] = "{" /\ s[j] = "}"
                      /\ LET in == Within(s, i + 2, j - 1)
                         IN  IsName(in) \/ (Len(in) = 1 /\ in[1] \in Figures)}
        named == {j \in i + 1 .. Len(s) : IsName(Within(s, i + 1, j))}
    IN  Max({i} \cup short \cup braced \cup named)

Dollars(s) == {i \in DOMAIN s : s[i] = "$"}

\* "${ with no name or no closing } is a bad substitution"
Wrong(s) == \E i \in Dollars(s) : i < Len(s) /\ s[i + 1] = "{" /\ Ends(s, i) = i

Parameter(ctx, figure) ==
    LET n == CHOOSE n \in 0 .. 2 : ToString(n) = figure
    IN  IF n + 1 \in DOMAIN ctx.argv THEN ctx.argv[n + 1] ELSE <<>>

\* what stands inside the form: a figure, a sign or a name
Inside(s, i) ==
    IF s[i + 1] = "{" THEN Within(s, i + 2, Ends(s, i) - 1) ELSE Within(s, i + 1, Ends(s, i))

FormValue(ctx, in) ==
    CASE in = <<"?">> -> <<ToString(ctx.status)>>
      [] in = <<"#">> -> <<ToString(Max({0, Len(ctx.argv) - 1}))>>
      [] in[1] \in Figures -> Parameter(ctx, in[1])
      [] IsName(in) -> IF in \in DOMAIN ctx.env THEN ctx.env[in] ELSE <<>>

\* what the unit at i contributes
Piece(s, ctx, i) ==
    CASE \E d \in Dollars(s) : d < i /\ i <= Ends(s, d) -> <<>>
      [] i \in Dollars(s) /\ Ends(s, i) > i -> FormValue(ctx, Inside(s, i))
      [] OTHER -> <<s[i]>>

Home(ctx) == IF <<"HOME">> \in DOMAIN ctx.env THEN ctx.env[<<"HOME">>] ELSE <<>>

\* "only in a word's first quoting run, and only when the next character is /
\* or the word ends there"
IsHome(word, ctx) ==
    /\ word[1].expand /\ Home(ctx) # <<>>
    /\ \/ word[1].text = <<"~">> /\ Len(word) = 1
       \/ IsPrefix(<<"~", "/">>, word[1].text)

Run(word, ctx, n) ==
    LET s == word[n].text
        piece(i) == IF n = 1 /\ i = 1 /\ IsHome(word, ctx) THEN Home(ctx) ELSE Piece(s, ctx, i)
    IN  IF word[n].expand THEN FlattenSeq([i \in DOMAIN s |-> piece(i)]) ELSE s

Expansion(word, ctx) ==
    IF \E n \in DOMAIN word : word[n].expand /\ Wrong(word[n].text)
    THEN [ok |-> FALSE, text |-> <<>>]
    ELSE [ok |-> TRUE, text |-> FlattenSeq([n \in DOMAIN word |-> Run(word, ctx, n)])]

Unexpanded(word) == FlattenSeq([n \in DOMAIN word |-> word[n].text])
=============================================================================
