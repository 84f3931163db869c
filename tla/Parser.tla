------------------------------- MODULE Parser -------------------------------
(***************************************************************************)
(* parser_parse_program (parser.c): recursive descent over the tokens.  A  *)
(* parse function takes the tokens and a position and gives back           *)
(* [err, pos, node]: the verdict, where it stopped and the kind of node it *)
(* built ("none" for an empty list); the tree itself is left out.          *)
(***************************************************************************)
EXTENDS Integers, Sequences

KwEnd == {"then", "elif", "else", "fi", "do", "done", "}"}
KwOpen == {"if", "while", "for", "{"}

\* units a name may be made of; "2" not as its first
NameUnits == {"a", "f", "2", "if", "then", "elif", "else", "fi", "do", "done", "while",
              "for", "in"}

Redirects == {"REDIR_IN", "REDIR_OUT", "REDIR_APPEND", "REDIR_ERR"}

\* > and >> share a slot
Slot(kind) == IF kind = "REDIR_APPEND" THEN "REDIR_OUT" ELSE kind

AtEnd(t, p) == p > Len(t)
AtKind(t, p, kinds) == p <= Len(t) /\ t[p].kind \in kinds

\* a keyword is a word of one run; how the run was quoted is not looked at
KwAt(t, p, words) ==
    /\ AtKind(t, p, {"WORD"})
    /\ Len(t[p].segs) = 1
    /\ \E kw \in words : t[p].segs[1].text = <<kw>>

AtEnder(t, p) == KwAt(t, p, KwEnd)
Reserved(t, p) == KwAt(t, p, KwEnd \cup KwOpen)
AtSep(t, p) == AtKind(t, p, {"SEMI", "NEWLINE"})

SkipKinds(t, p, kinds) ==
    CHOOSE q \in p .. Len(t) + 1 :
        /\ ~AtKind(t, q, kinds)
        /\ \A k \in p .. q - 1 : AtKind(t, k, kinds)

SkipSeps(t, p) == SkipKinds(t, p, {"SEMI", "NEWLINE"})
SkipNl(t, p) == SkipKinds(t, p, {"NEWLINE"})

Ok(p, node) == [err |-> "OK", pos |-> p, node |-> node]
Err(e) == [err |-> e, pos |-> 0, node |-> "none"]

\* fault: the end of the text is not told from a wrong token
MissingIsUnfinished(t, p) == Err("INCOMPLETE")

\* a construct cut off by the end is unfinished, by another token wrong
Missing(t, p) == Err(IF AtEnd(t, p) THEN "INCOMPLETE" ELSE "SYNTAX")

Failed(r) == r.err # "OK"

\* expect_kw where r stopped; what was parsed so far is a node of that kind
Expect(r, t, kw, node) ==
    IF Failed(r) THEN r
    ELSE IF KwAt(t, r.pos, {kw}) THEN Ok(r.pos + 1, node) ELSE Missing(t, r.pos)

-----------------------------------------------------------------------------
RECURSIVE SimpleFrom(_, _, _, _)

\* parse_simple, with the number of words and the redirect slots taken so far
SimpleFrom(t, p, words, slots) ==
    IF AtKind(t, p, {"WORD"})
    THEN IF words = 0 /\ Reserved(t, p) THEN Err("SYNTAX")
         ELSE SimpleFrom(t, p + 1, words + 1, slots)
    ELSE IF AtKind(t, p, Redirects)
    THEN IF ~AtKind(t, p + 1, {"WORD"}) THEN Missing(t, p + 1)
         ELSE IF Slot(t[p].kind) \in slots THEN Err("SYNTAX")
         ELSE SimpleFrom(t, p + 2, words, slots \cup {Slot(t[p].kind)})
    ELSE IF words = 0 THEN Err("SYNTAX") ELSE Ok(p, "command")

RECURSIVE ParsePipeline(_, _)

NextStage(t, r) ==
    IF Failed(r) THEN r
    ELSE IF ~AtKind(t, r.pos, {"PIPE"}) THEN Ok(r.pos, "pipeline")
    ELSE IF AtEnd(t, SkipNl(t, r.pos + 1)) THEN Err("INCOMPLETE")
    ELSE ParsePipeline(t, SkipNl(t, r.pos + 1))

ParsePipeline(t, p) == NextStage(t, SimpleFrom(t, p, 0, {}))

\* items already parsed decide whether a lone pipeline stays one
RECURSIVE AndOrFrom(_, _, _)

NextOperand(t, r, items) ==
    IF Failed(r) THEN r
    ELSE IF ~AtKind(t, r.pos, {"AND_IF", "OR_IF"})
    THEN Ok(r.pos, IF items = 0 THEN "pipeline" ELSE "andor")
    ELSE IF AtEnd(t, SkipNl(t, r.pos + 1)) THEN Err("INCOMPLETE")
    ELSE AndOrFrom(t, SkipNl(t, r.pos + 1), items + 1)

AndOrFrom(t, p, items) ==
    IF ~KwAt(t, p, {"!"}) THEN NextOperand(t, ParsePipeline(t, p), items)
    ELSE IF AtEnd(t, p + 1) THEN Err("INCOMPLETE")
    ELSE IF KwAt(t, p + 1, {"!"}) THEN Err("SYNTAX")
    ELSE NextOperand(t, ParsePipeline(t, p + 1), items)

-----------------------------------------------------------------------------
RECURSIVE ParseList(_, _, _)

\* bodies must not be empty
NotEmpty(t, r) == IF r = Ok(r.pos, "none") THEN Missing(t, r.pos) ELSE r

ParseBody(t, p) == NotEmpty(t, ParseList(t, p, <<>>))

\* a body where r stopped
BodyAfter(r, t) == IF Failed(r) THEN r ELSE ParseBody(t, r.pos)

\* the clauses of an if, from the condition of one of them
RECURSIVE IfClauses(_, _)

NextClause(t, r) ==
    IF Failed(r) THEN r
    ELSE IF KwAt(t, r.pos, {"elif"}) THEN IfClauses(t, r.pos + 1)
    ELSE IF KwAt(t, r.pos, {"else"}) THEN ParseBody(t, r.pos + 1)
    ELSE r

IfClauses(t, p) ==
    NextClause(t, BodyAfter(Expect(ParseBody(t, p), t, "then", "none"), t))

ParseIf(t, p) == Expect(IfClauses(t, p + 1), t, "fi", "if")

DoBody(r, t, node) == Expect(BodyAfter(Expect(r, t, "do", "none"), t), t, "done", node)

ParseWhile(t, p) == DoBody(ParseBody(t, p + 1), t, "while")

\* name_dup: one run, and an identifier
IsName(t, p) ==
    /\ AtKind(t, p, {"WORD"})
    /\ Len(t[p].segs) = 1
    /\ LET name == t[p].segs[1].text IN
       /\ name # <<>> /\ name[1] # "2"
       /\ \A i \in DOMAIN name : name[i] \in NameUnits

\* the words of a for, up to a separator, and the newlines after it
ForWords(t, r) ==
    LET end == SkipKinds(t, r.pos, {"WORD"}) IN
    IF Failed(r) THEN r
    ELSE IF AtSep(t, end) THEN Ok(SkipNl(t, end + 1), "none") ELSE Missing(t, end)

ParseFor(t, p) ==
    IF ~IsName(t, p + 1) THEN Missing(t, p + 1)
    ELSE LET named == Ok(SkipNl(t, p + 2), "none") IN
         DoBody(ForWords(t, Expect(named, t, "in", "none")), t, "for")

\* entered on NAME '('
ParseFuncdef(t, p) ==
    IF ~IsName(t, p) THEN Err("SYNTAX")
    ELSE IF ~AtKind(t, p + 2, {"RPAREN"}) THEN Missing(t, p + 2)
    ELSE LET head == Expect(Ok(SkipNl(t, p + 3), "none"), t, "{", "none") IN
         Expect(BodyAfter(head, t), t, "}", "funcdef")

ParseItem(t, p) ==
    IF KwAt(t, p, {"if"}) THEN ParseIf(t, p)
    ELSE IF KwAt(t, p, {"while"}) THEN ParseWhile(t, p)
    ELSE IF KwAt(t, p, {"for"}) THEN ParseFor(t, p)
    ELSE IF AtKind(t, p, {"WORD"}) /\ AtKind(t, p + 1, {"LPAREN"}) THEN ParseFuncdef(t, p)
    ELSE AndOrFrom(t, p, 0)

\* fault: any item may be put in the background
AfterItemAnyAmp(t, r) ==
    IF Failed(r) THEN r
    ELSE IF AtKind(t, r.pos, {"AMP"}) THEN Ok(r.pos + 1, r.node)
    ELSE IF AtEnd(t, r.pos) \/ AtEnder(t, r.pos) \/ AtSep(t, r.pos) THEN r
    ELSE Err("SYNTAX")

\* an item ends at a separator, a closing keyword, or & after a plain pipeline
AfterItem(t, r) ==
    IF Failed(r) THEN r
    ELSE IF AtKind(t, r.pos, {"AMP"}) /\ r.node = "pipeline" THEN Ok(r.pos + 1, r.node)
    ELSE IF AtEnd(t, r.pos) \/ AtEnder(t, r.pos) \/ AtSep(t, r.pos) THEN r
    ELSE Err("SYNTAX")

\* the list after its first items, whose kinds are nodes, and one more
NextItem(t, r, nodes) ==
    IF Failed(r) THEN r ELSE ParseList(t, r.pos, Append(nodes, r.node))

ParseList(t, p, nodes) ==
    LET start == SkipSeps(t, p) IN
    IF AtEnd(t, start) \/ AtEnder(t, start)
    THEN Ok(start, CASE Len(nodes) = 0 -> "none" [] Len(nodes) = 1 -> nodes[1]
                     [] OTHER -> "list")
    ELSE NextItem(t, AfterItem(t, ParseItem(t, start)), nodes)

\* a closing keyword with nothing to close stops the list too early
WholeProgram(t, r) == IF ~Failed(r) /\ ~AtEnd(t, r.pos) THEN Err("SYNTAX") ELSE r

ParseProgram(t) == WholeProgram(t, ParseList(t, 1, <<>>))
=============================================================================
