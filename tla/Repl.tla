-------------------------------- MODULE Repl --------------------------------
(***************************************************************************)
(* The read loops of run.c: run_interactive gathers lines until the lexer  *)
(* and the parser call the text complete or wrong; run_stream does the     *)
(* same for piped input and scripts but stops at the first error.  A line  *)
(* is typed chunk by chunk, so that every text over the session's chunks   *)
(* is gone through; at each chunk the text is what feed would be given if  *)
(* the line ended there.                                                   *)
(***************************************************************************)
EXTENDS Expand, Parser

CONSTANTS
    Sessions    \* [interactive, chunks, room, ctx]: kinds of input, a bound on it, and
                \* what the words of its commands are expanded with

VARIABLES
    session,
    mode,     \* "reading" or "ended"
    buf,      \* the text gathered by the previous lines
    more,     \* it is an unfinished construct
    line,     \* the line being read
    status    \* last_status, as far as the loops set it

vars == <<session, mode, buf, more, line, status>>

Text == IF more THEN Append(buf, "NL") \o line ELSE buf \o line

Verdict(text) ==
    LET scan == LexerScan(text) IN
    IF scan.verdict # "OK" THEN scan.verdict ELSE ParseProgram(scan.tokens).err

-----------------------------------------------------------------------------
Init ==
    /\ session \in Sessions
    /\ mode = "reading"
    /\ buf = <<>> /\ more = FALSE /\ line = <<>>
    /\ status = 0

\* bound: after a wrong line, whose only trace is the status, nothing is typed
Type(chunk) ==
    /\ mode = "reading" /\ status = 0
    /\ Len(Text) + Len(chunk) <= session.room
    /\ line' = line \o chunk
    /\ UNCHANGED <<session, mode, buf, more, status>>

Drop == buf' = <<>> /\ more' = FALSE

\* a blank line on its own is skipped, inside a construct it is part of it
BlankLine ==
    /\ mode = "reading"
    /\ line = <<>> /\ ~more
    /\ UNCHANGED vars

LineIsUnfinished ==
    /\ Verdict(Text) = "INCOMPLETE"
    /\ Len(Text) < session.room
    /\ buf' = Text /\ more' = TRUE
    /\ UNCHANGED <<mode, status>>

\* evaluating the program sets the status and may set want_exit
LineRuns ==
    /\ Verdict(Text) = "OK"
    /\ Drop
    /\ status' = 0
    /\ mode' \in {"reading", "ended"}

LineIsWrong ==
    /\ Verdict(Text) = "SYNTAX"
    /\ Drop
    /\ status' = 2
    /\ mode' = IF session.interactive THEN "reading" ELSE "ended"

(* feed, for a line that is not skipped *)
EndLine ==
    /\ mode = "reading"
    /\ line # <<>> \/ more
    /\ LineIsUnfinished \/ LineRuns \/ LineIsWrong
    /\ line' = <<>>
    /\ UNCHANGED session

CtrlC ==
    /\ mode = "reading" /\ session.interactive
    /\ Drop
    /\ line' = <<>>
    /\ UNCHANGED <<session, mode, status>>

(* Ctrl-D at the prompt ends the shell, inside a construct only that; the  *)
(* end of a stream ends it either way                                      *)
EndOfInput ==
    /\ mode = "reading"
    /\ line = <<>>
    /\ Drop
    /\ status' = IF more THEN 2 ELSE status
    /\ mode' = IF session.interactive /\ more THEN "reading" ELSE "ended"
    /\ UNCHANGED <<session, line>>

ReadFails ==
    /\ mode = "reading"
    /\ status' = 1
    /\ mode' = "ended"
    /\ Drop
    /\ line' = <<>>
    /\ UNCHANGED session

Next ==
    \/ \E chunk \in session.chunks : Type(chunk)
    \/ BlankLine
    \/ EndLine
    \/ CtrlC
    \/ EndOfInput
    \/ ReadFails

Spec == Init /\ [][Next]_vars

-----------------------------------------------------------------------------
Reference == INSTANCE Grammar

(* Recursive descent accepts the language of the manual, no more, no less. *)
AcceptsTheLanguage ==
    LET scan == LexerScan(Text) IN
    scan.verdict = "OK" =>
        (ParseProgram(scan.tokens).err = "OK") = Reference!Program(scan.tokens)

\* when an accepted program is cut at a semicolon, the first part is no error
\* to feed, and if it is run at once the rest is accepted by itself
BreaksIntoLines ==
    LET scan == LexerScan(Text)
        tokens == scan.tokens
    IN
    scan.verdict = "OK" /\ ParseProgram(tokens).err = "OK" =>
        \A n \in DOMAIN tokens :
            LET first == ParseProgram(SubSeq(tokens, 1, n - 1)).err
                rest == ParseProgram(SubSeq(tokens, n + 1, Len(tokens))).err
            IN  tokens[n].kind = "SEMI" =>
                    /\ ParseProgram([tokens EXCEPT ![n] = Op("NEWLINE")]).err = "OK"
                    /\ first # "SYNTAX"
                    /\ first = "OK" => rest = "OK"

\* lexing the whole buffer again gives the tokens it gave before, with a newline
\* and those of the new line after them, unless a quote spans the lines
LinesLexAlike ==
    more /\ LexerScan(buf).verdict = "OK" /\ LexerScan(line).verdict = "OK" =>
        LexerScan(Text).tokens =
            LexerScan(buf).tokens \o <<Op("NEWLINE")>> \o LexerScan(line).tokens

(* It does not matter where a text is cut into lines: a newline may stand  *)
(* for any semicolon, and no token depends on the line it was typed in.    *)
LinesReadAlike == BreaksIntoLines /\ LinesLexAlike

(* The parser never asks for more of a text that no tokens right after it  *)
(* complete: closing the innermost construct again and again ends in an    *)
(* accepted program.  (run.c joins the next line with a newline, which     *)
(* after ! is itself a syntax error.)  A redirect left open is the         *)
(* exception: its target is asked for before its stream and the words of   *)
(* its command are looked at.                                              *)
WordToken(w) == Word(<<Seg(<<w>>, TRUE)>>)

\* the one that takes the text furthest first
Closers ==
    [i \in 1 .. 3 |-> <<Op("SEMI"), WordToken(<<"fi", "done", "}">>[i])>>]
    \o [i \in 1 .. 2 |-> <<Op("SEMI"), WordToken(<<"then", "do">>[i]), WordToken("a")>>]
    \o [i \in 1 .. 4 |-> <<WordToken(<<"a", "in", "do", "{">>[i])>>]
    \o <<<<Op("RPAREN")>>>>

RECURSIVE Completes(_, _)
Completes(tokens, fuel) ==
    LET err == ParseProgram(tokens).err
        fits == {i \in DOMAIN Closers : ParseProgram(tokens \o Closers[i]).err # "SYNTAX"}
    IN
    \/ err = "OK"
    \/ /\ err = "INCOMPLETE" /\ fuel > 0 /\ fits # {}
       /\ LET first == CHOOSE i \in fits : \A j \in fits : i <= j
          IN  Completes(tokens \o Closers[first], fuel - 1)

UnfinishedCanComplete ==
    LET scan == LexerScan(Text)
        tokens == scan.tokens
    IN
    /\ scan.verdict = "OK" /\ ParseProgram(tokens).err = "INCOMPLETE"
    /\ ~AtKind(tokens, Len(tokens), Redirects)
    => Completes(tokens, 2 * Len(tokens) + 2)

Written == INSTANCE ExpandReference

\* the words of the text, if it can be cut into tokens
TextWords ==
    LET tokens == LexerScan(Text).tokens
    IN  {tokens[i] : i \in {i \in DOMAIN tokens : tokens[i].kind = "WORD"}}

(* Every word expands to what the manual says, and is a bad substitution   *)
(* exactly when the manual says so: no run is read twice, no value is      *)
(* expanded again, and a name or a tilde ends where its run does.          *)
ExpandsAsWritten ==
    LexerScan(Text).verdict = "OK" =>
        \A t \in TextWords :
            ExpandWord(t, session.ctx) = Written!Expansion(t.segs, session.ctx)

(* "\$ produces a literal $", in double quotes, and outside quotes "the    *)
(* next character is literal": where every $ is escaped, nothing expands.  *)
EscapedIsLiteral ==
    LET scan == LexerScan(Text) IN
    /\ scan.verdict = "OK"
    /\ \A k \in DOMAIN Text :
          Text[k] = "$" => k > 1 /\ Text[k - 1] = "BS" /\ (k > 2 => Text[k - 2] # "BS")
    => \A t \in TextWords :
          ExpandWord(t, session.ctx).text = Written!Unexpanded(t.segs)
=============================================================================
