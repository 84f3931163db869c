--------------------------- MODULE PromptContract ---------------------------
(***************************************************************************)
(* What the manual promises of the prompt ("Command line editing"): a line *)
(* split at the cursor, keys that act on it as the table of keys says, a   *)
(* draft that Down comes back to, and a history of the newest Capacity     *)
(* entries without immediate repeats that survives a restart.              *)
(***************************************************************************)
EXTENDS Integers, SequencesExt

CONSTANTS Capacity, Chars, Keys

VARIABLES
    phase,     \* "off", "editing" or "leaving"
    pressing,  \* the key on its way from the keyboard, or "none"
    left,      \* the characters before the cursor, and from it on
    right,
    place,     \* how far Up went: 0 is the line being typed
    draft,     \* that line, while another one is shown
    entries,   \* the history, oldest first
    kept,      \* the lines of the file
    trouble    \* the disk is full, or the shell dies in this save

vars == <<phase, pressing, left, right, place, draft, entries, kept, trouble>>
line == <<left, right>>

Newest(s, n) == IF Len(s) > n THEN SubSeq(s, Len(s) - n + 1, Len(s)) ELSE s

Remember(s, l) ==
    IF l = <<>> \/ (s # <<>> /\ Last(s) = l) THEN s ELSE Newest(Append(s, l), Capacity)

Show(l) == left' = l /\ right' = <<>>

FreshLine == Show(<<>>) /\ place' = 0 /\ draft' = <<>>

Stay == UNCHANGED <<phase, place, draft, entries, kept, trouble>>

-----------------------------------------------------------------------------
Type(c) == left' = Append(left, c) /\ right' = right /\ Stay

Move(key) ==
    /\ left' \o right' = left \o right
    /\ Len(left') = CASE key = "Left" -> IF left = <<>> THEN 0 ELSE Len(left) - 1
                      [] key = "Right" -> IF right = <<>> THEN Len(left) ELSE Len(left) + 1
                      [] key = "Home" -> 0
                      [] key = "End" -> Len(left) + Len(right)
    /\ Stay

\* the word before the cursor: blanks (space and tab), then non-blanks
WithoutWord(s) ==
    LET Blank(c) == c \in {" ", "TAB"}
        Word(n) == \E m \in n .. Len(s) :
                      /\ \A i \in n + 1 .. m : ~Blank(s[i])
                      /\ \A i \in m + 1 .. Len(s) : Blank(s[i])
    IN  SubSeq(s, 1, CHOOSE n \in 0 .. Len(s) : Word(n) /\ \A k \in 0 .. n - 1 : ~Word(k))

Erase(key) ==
    /\ left' = CASE key = "Backspace" -> IF left = <<>> THEN left ELSE Front(left)
                 [] key = "KillStart" -> <<>>
                 [] key = "KillWord" -> WithoutWord(left)
                 [] OTHER -> left
    /\ right' = CASE key \in {"Delete", "CtrlD"} -> IF right = <<>> THEN right ELSE Tail(right)
                  [] key = "KillEnd" -> <<>>
                  [] OTHER -> right
    /\ Stay

Up ==
    /\ IF place = Len(entries) THEN UNCHANGED <<left, right, place, draft>>
       ELSE /\ place' = place + 1
            /\ draft' = IF place = 0 THEN left \o right ELSE draft
            /\ Show(entries[Len(entries) - place])
    /\ UNCHANGED <<phase, entries, kept, trouble>>

Down ==
    /\ IF place = 0 THEN UNCHANGED <<left, right, place, draft>>
       ELSE /\ place' = place - 1
            /\ draft' = IF place = 1 THEN <<>> ELSE draft
            /\ Show(IF place = 1 THEN draft ELSE entries[Len(entries) - place + 2])
    /\ UNCHANGED <<phase, entries, kept, trouble>>

\* the line is submitted; running it may end the shell
Enter ==
    /\ entries' = Remember(entries, left \o right)
    /\ FreshLine
    /\ phase' \in {"editing", "leaving"}
    /\ UNCHANGED <<kept, trouble>>

Interrupt == FreshLine /\ UNCHANGED <<phase, entries, kept, trouble>>

\* Ctrl-D on an empty line ends the shell, or an unfinished construct
EndOfInput ==
    /\ left = <<>> /\ right = <<>>
    /\ FreshLine
    /\ phase' \in {"editing", "leaving"}
    /\ UNCHANGED <<entries, kept, trouble>>

Act(key) ==
    CASE key \in Chars -> Type(key)
      [] key \in {"Left", "Right", "Home", "End"} -> Move(key)
      [] key \in {"Backspace", "Delete", "KillEnd", "KillStart", "KillWord"} -> Erase(key)
      [] key = "CtrlD" -> IF line = <<<<>>, <<>>>> THEN EndOfInput ELSE Erase(key)
      [] key = "Up" -> Up
      [] key = "Down" -> Down
      [] key = "Enter" -> Enter
      [] key = "CtrlC" -> Interrupt
      [] OTHER -> UNCHANGED line /\ Stay

\* a key takes effect when the last of its bytes arrives
Arrive(key) == pressing' = key /\ UNCHANGED line /\ Stay
Press == Act(pressing) /\ pressing' = "none"

-----------------------------------------------------------------------------
\* the history a file gives back
Recovered(f) ==
    LET after[n \in 0 .. Len(f)] ==
            IF n = 0 THEN <<>> ELSE Remember(after[n - 1], f[n])
    IN  after[Len(f)]

Cuts(s) == {SubSeq(s, 1, n) : n \in 0 .. Len(s)}

Init ==
    /\ phase = "off"
    /\ pressing = "none"
    /\ left = <<>> /\ right = <<>> /\ place = 0 /\ draft = <<>>
    /\ entries = <<>>
    /\ trouble = FALSE

\* an error leaves some entries, the last of them perhaps cut short
Torn(s) ==
    Cuts(s) \cup
    UNION {{Append(SubSeq(s, 1, n - 1), t) : t \in Cuts(s[n])} : n \in 1 .. Len(s)}

Start ==
    /\ phase = "off"
    /\ trouble' \in BOOLEAN
    /\ entries' \in {Recovered(f) : f \in IF trouble' THEN Torn(kept) ELSE {kept}}
    /\ phase' = "editing"
    /\ pressing' = "none"
    /\ FreshLine
    /\ UNCHANGED kept

\* the terminal goes away, or the shell is killed
HangUp ==
    /\ phase = "editing"
    /\ phase' \in {"leaving", "off"}
    /\ pressing' = "none"
    /\ FreshLine
    /\ entries' = IF phase' = "off" THEN <<>> ELSE entries
    /\ UNCHANGED <<kept, trouble>>

Save ==
    /\ phase = "leaving"
    /\ phase' = "off"
    /\ kept' \in IF trouble THEN Torn(entries) \cup {kept} ELSE {entries}
    /\ entries' = <<>>
    /\ UNCHANGED <<pressing, left, right, place, draft, trouble>>

Next ==
    \/ phase = "editing" /\ pressing = "none" /\ \E key \in Keys : Arrive(key)
    \/ phase = "editing" /\ pressing # "none" /\ Press
    \/ Start
    \/ HangUp
    \/ Save

Spec == Init /\ [][Next]_vars
=============================================================================
