----------------------------- MODULE LineEditor -----------------------------
(***************************************************************************)
(* The pure parts of the line editor (edit.c): the edited line with its    *)
(* cursor, the decoder that turns bytes into keys, and the recall of       *)
(* history entries.  A byte is named by the character it prints, or ^A,    *)
(* BS, ESC ... for a control byte.                                         *)
(***************************************************************************)
EXTENDS HistoryRing

CONSTANT PendingMax    \* digits the decoder keeps of a CSI parameter (8)

ASSUME PendingAssumption == PendingMax \in Nat \ {0}

-----------------------------------------------------------------------------
(* EditLine: cursor is the number of characters left of it                 *)

EditInit == [buf |-> <<>>, cursor |-> 0]

Before(e) == SubSeq(e.buf, 1, e.cursor)
After(e) == SubSeq(e.buf, e.cursor + 1, Len(e.buf))

EditInsert(e, c) ==
    [buf |-> Append(Before(e), c) \o After(e), cursor |-> e.cursor + 1]

\* every deletion left of the cursor: characters n+1 .. cursor go
CutBack(e, n) == [buf |-> SubSeq(e.buf, 1, n) \o After(e), cursor |-> n]

EditBackspace(e) ==
    IF e.cursor = 0 \/ Len(e.buf) = 0 THEN e ELSE CutBack(e, e.cursor - 1)

EditDelete(e) ==
    IF e.cursor >= Len(e.buf) THEN e ELSE [e EXCEPT !.buf = Before(e) \o Tail(After(e))]

EditLeft(e) == IF e.cursor > 0 THEN [e EXCEPT !.cursor = @ - 1] ELSE e
EditRight(e) == IF e.cursor < Len(e.buf) THEN [e EXCEPT !.cursor = @ + 1] ELSE e
EditHome(e) == [e EXCEPT !.cursor = 0]
EditEnd(e) == [e EXCEPT !.cursor = Len(e.buf)]
EditKillToEnd(e) == [e EXCEPT !.buf = Before(e)]
EditKillToStart(e) == CutBack(e, 0)

IsBlank(c) == c \in {" ", "TAB"}

\* where the two loops of edit_kill_word_left stop
SkipBlanks(e, i) ==
    CHOOSE n \in 0 .. i :
        /\ \A j \in n + 1 .. i : IsBlank(e.buf[j])
        /\ n > 0 => ~IsBlank(e.buf[n])

SkipWord(e, i) ==
    CHOOSE n \in 0 .. i :
        /\ \A j \in n + 1 .. i : ~IsBlank(e.buf[j])
        /\ n > 0 => IsBlank(e.buf[n])

EditKillWordLeft(e) == CutBack(e, SkipWord(e, SkipBlanks(e, e.cursor)))

EditSet(text) == [buf |-> text, cursor |-> Len(text)]

-----------------------------------------------------------------------------
(* EditKeys                                                                *)

KeyStates == {"GROUND", "ESC", "CSI", "CSI_PARAM", "SS3", "CSI_IGNORE"}

Digits == {"0", "1", "2", "3", "4", "5", "6", "7", "8", "9"}

\* the bytes 0x40 .. 0x7e among those modelled
Finals == {"A", "B", "C", "D", "F", "H", "M", "O", "[", "~", "a"}

\* control bytes that are keys; the others are dropped
ControlKey ==
    [b \in {"CR", "LF", "DEL", "BS", "^A", "^C", "^D", "^E", "^K", "^U", "^W"} |->
        CASE b \in {"CR", "LF"} -> "ENTER"
          [] b \in {"DEL", "BS"} -> "BACKSPACE"
          [] b = "^A" -> "HOME"
          [] b = "^C" -> "INTERRUPT"
          [] b = "^D" -> "EOF"
          [] b = "^E" -> "END"
          [] b = "^K" -> "KILL_END"
          [] b = "^U" -> "KILL_START"
          [] b = "^W" -> "KILL_WORD"]

ControlBytes == DOMAIN ControlKey \cup {"ESC", "TAB", "^G"}

\* pending is dead outside CSI_PARAM and kept empty there
Decoding(state) == [state |-> state, pending |-> <<>>]
Ground == Decoding("GROUND")

Fed(k, key) == [keys |-> k, key |-> key]

FeedGround(b) ==
    IF b = "ESC" THEN Fed(Decoding("ESC"), "NONE")
    ELSE IF b \in DOMAIN ControlKey THEN Fed(Ground, ControlKey[b])
    ELSE Fed(Ground, IF b \in ControlBytes THEN "NONE" ELSE "CHAR")

FinalLetter(b) ==
    LET letter == [A |-> "UP", B |-> "DOWN", C |-> "RIGHT", D |-> "LEFT",
                   H |-> "HOME", F |-> "END"]
    IN  IF b \in DOMAIN letter THEN letter[b] ELSE "NONE"

TildeKey(pending) ==
    CASE pending \in {<<"1">>, <<"7">>} -> "HOME"
      [] pending = <<"3">> -> "DELETE"
      [] pending \in {<<"4">>, <<"8">>} -> "END"
      [] OTHER -> "NONE"

\* CSI_PARAM
FeedParam(k, b) ==
    IF b \in Digits
    THEN Fed(IF Len(k.pending) < PendingMax THEN [k EXCEPT !.pending = Append(@, b)]
             ELSE Decoding("CSI_IGNORE"), "NONE")
    ELSE IF b = ";" THEN Fed(Decoding("CSI_IGNORE"), "NONE")
    ELSE Fed(Ground, IF b = "~" THEN TildeKey(k.pending) ELSE "NONE")

EditKeysFeed(k, b) ==
    CASE k.state = "ESC" /\ b = "[" -> Fed(Decoding("CSI"), "NONE")
      [] k.state = "ESC" /\ b = "O" -> Fed(Decoding("SS3"), "NONE")
      [] k.state = "CSI" /\ b \in Digits ->
            Fed([state |-> "CSI_PARAM", pending |-> <<b>>], "NONE")
      [] k.state = "CSI" /\ b \notin Digits -> Fed(Ground, FinalLetter(b))
      [] k.state = "CSI_PARAM" -> FeedParam(k, b)
      [] k.state = "CSI_IGNORE" ->
            Fed(IF b \in Finals THEN Ground ELSE k, "NONE")
      [] k.state = "SS3" -> Fed(Ground, FinalLetter(b))
      [] OTHER -> FeedGround(b)

-----------------------------------------------------------------------------
(* Recall: idx walks from count, the line being typed, down to the oldest  *)

RecallInit(h) == [count |-> HistoryCount(h), idx |-> HistoryCount(h), stash |-> <<>>]

\* fault: every Up stashes the line it leaves
RecallUpRestashes(r, e) ==
    IF r.idx = 0 THEN r ELSE [r EXCEPT !.idx = @ - 1, !.stash = e.buf]

RecallUp(r, e) ==
    IF r.idx = 0 THEN r
    ELSE [count |-> r.count, idx |-> r.idx - 1,
          stash |-> IF r.idx = r.count THEN e.buf ELSE r.stash]

RecallDown(r) == IF r.idx >= r.count THEN r ELSE [r EXCEPT !.idx = @ + 1]

\* the line on screen after the recall moved from r to q
Recalled(h, r, q, e) ==
    IF q.idx = r.idx THEN e
    ELSE EditSet(IF q.idx = q.count THEN q.stash ELSE HistoryGet(h, q.idx))
=============================================================================
