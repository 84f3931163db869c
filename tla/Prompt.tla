------------------------------- MODULE Prompt -------------------------------
(***************************************************************************)
(* The interactive prompt: the terminal's bytes fed to the line editor     *)
(* (edit_read_line in edit.c) one at a time, submitted lines recorded in   *)
(* the history (run.c), and the history file loaded at the start and saved *)
(* at the end of each shell (main.c).  Whether a line leaves a construct   *)
(* unfinished is the business of Repl; here Ctrl-D on an empty line may    *)
(* end the shell or not, and so may any submitted line.                    *)
(***************************************************************************)
EXTENDS LineEditor

CONSTANTS
    Text,        \* what lines consist of, and the bytes of keys
    Chars,       \* the printable characters the user types
    KeyBytes,    \* what the terminal sends: key |-> set of byte sequences
    Files,       \* history files an earlier version may have left
    MaxLine,     \* the longest line the user types
    MaxEnters    \* how many lines are submitted in a behaviour

ASSUME TextAssumption ==
    /\ Files \subseteq Seq(Seq(Text))
    /\ \A key \in DOMAIN KeyBytes : KeyBytes[key] \subseteq Seq(Text) \ {<<>>}

VARIABLES
    pc,        \* "off", "editing" or "saving"
    pressing,  \* the key whose bytes are arriving
    input,     \* its bytes still to come
    keys,      \* the decoder
    e,         \* the edited line
    recall,
    hist,      \* the ring
    file,      \* the lines of ~/.nullsh_history
    trouble,   \* reading or writing the file may fail in this session
    enters     \* lines submitted so far

vars == <<pc, pressing, input, keys, e, recall, hist, file, trouble, enters>>

Init ==
    /\ pc = "off"
    /\ pressing = "none" /\ input = <<>>
    /\ keys = Ground /\ e = EditInit
    /\ hist = RingInit /\ recall = RecallInit(RingInit)
    /\ file \in Files
    /\ trouble = FALSE
    /\ enters = 0

-----------------------------------------------------------------------------
\* edit_read_line starts over, with the history as it now is
ReadLine(h) == e' = EditInit /\ keys' = Ground /\ recall' = RecallInit(h)

(* main up to the prompt; a read error leaves what was read before it, a   *)
(* line cut short included                                                 *)
Start ==
    /\ pc = "off"
    /\ trouble' \in BOOLEAN
    /\ \E f \in IF trouble' THEN TornLines(file) ELSE {file} : hist' = HistoryLoad(f)
    /\ pc' = "editing"
    /\ ReadLine(hist')
    /\ UNCHANGED <<pressing, input, file, enters>>

(* the user presses a key; a line is kept short enough *)
PressKey(key, bytes) ==
    /\ pc = "editing"
    /\ input = <<>>
    /\ key \in Chars => Len(e.buf) < MaxLine
    /\ key = "Enter" => enters < MaxEnters
    /\ pressing' = key
    /\ input' = bytes
    /\ UNCHANGED <<pc, keys, e, recall, hist, file, trouble, enters>>

\* the keys that only touch the edited line
Edited(key, c) ==
    CASE key = "CHAR" -> EditInsert(e, c)
      [] key = "BACKSPACE" -> EditBackspace(e)
      [] key \in {"DELETE", "EOF"} -> EditDelete(e)
      [] key = "LEFT" -> EditLeft(e)
      [] key = "RIGHT" -> EditRight(e)
      [] key = "HOME" -> EditHome(e)
      [] key = "END" -> EditEnd(e)
      [] key = "KILL_END" -> EditKillToEnd(e)
      [] key = "KILL_START" -> EditKillToStart(e)
      [] key = "KILL_WORD" -> EditKillWordLeft(e)
      [] OTHER -> e

Finishes(key) == key \in {"ENTER", "INTERRUPT"} \/ (key = "EOF" /\ e.buf = <<>>)

\* apply_key for a key that leaves the line unfinished
ApplyKey(key, c, k) ==
    /\ ~Finishes(key)
    /\ keys' = k
    /\ recall' = CASE key = "UP" -> RecallUp(recall, e)
                   [] key = "DOWN" -> RecallDown(recall)
                   [] OTHER -> recall
    /\ e' = IF key \in {"UP", "DOWN"} THEN Recalled(hist, recall, recall', e)
            ELSE Edited(key, c)
    /\ UNCHANGED <<pc, hist, enters>>

\* Enter: run_interactive records the line and runs it, which may end the shell
Submit(key) ==
    /\ key = "ENTER"
    /\ hist' = HistoryAdd(hist, e.buf)
    /\ enters' = enters + 1
    /\ pc' \in {"editing", "saving"}
    /\ ReadLine(hist')

Interrupt(key) ==
    /\ key = "INTERRUPT"
    /\ ReadLine(hist)
    /\ UNCHANGED <<pc, hist, enters>>

EndOfInput(key) ==
    /\ key = "EOF"
    /\ e.buf = <<>>
    /\ pc' \in {"editing", "saving"}
    /\ ReadLine(hist)
    /\ UNCHANGED <<hist, enters>>

(* one turn of the loop of edit_read_line *)
FeedByte ==
    /\ pc = "editing"
    /\ input # <<>>
    /\ LET c == Head(input)
           fed == EditKeysFeed(keys, c)
       IN  \/ ApplyKey(fed.key, c, fed.keys)
           \/ Submit(fed.key)
           \/ Interrupt(fed.key)
           \/ EndOfInput(fed.key)
    /\ input' = Tail(input)
    /\ pressing' = IF input' = <<>> THEN "none" ELSE pressing
    /\ UNCHANGED <<file, trouble>>

(* the terminal is gone and read fails, or the shell is killed *)
HangUp ==
    /\ pc = "editing"
    /\ pc' \in {"saving", "off"}
    /\ pressing' = "none" /\ input' = <<>>
    /\ hist' = IF pc' = "off" THEN RingInit ELSE hist
    /\ ReadLine(hist')
    /\ UNCHANGED <<file, trouble, enters>>

(* main after the prompt: the file is truncated and rewritten *)
SaveHistory ==
    /\ pc = "saving"
    /\ pc' = "off"
    /\ file' \in IF trouble THEN {file} \cup TornSaves(hist) ELSE {HistorySave(hist)}
    /\ hist' = RingInit
    /\ ReadLine(hist')
    /\ UNCHANGED <<pressing, input, trouble, enters>>

Next ==
    \/ Start
    \/ \E key \in DOMAIN KeyBytes : \E bytes \in KeyBytes[key] : PressKey(key, bytes)
    \/ FeedByte
    \/ HangUp
    \/ SaveHistory

Spec == Init /\ [][Next]_vars

-----------------------------------------------------------------------------
Lines == {<<>>} \cup {file[i] : i \in DOMAIN file} \cup {hist.slots[i] : i \in 0 .. Cap - 1}

(* The cursor stays in the line, recall in the history, and exactly the    *)
(* live slots of the ring hold lines.                                      *)
TypeOK ==
    /\ pc \in {"off", "editing", "saving"}
    /\ keys.state \in KeyStates /\ Len(keys.pending) <= PendingMax
    /\ e.cursor \in 0 .. Len(e.buf)
    /\ recall.idx \in 0 .. recall.count
    /\ pc = "editing" => recall.count = HistoryCount(hist)
    /\ RingTypeOK(hist)

(* The editor, its decoder and the history implement what the manual says  *)
(* of keys, recall, the history and its file.                              *)
AtBottom == recall.idx = recall.count

Contract == INSTANCE PromptContract WITH
    Capacity <- Cap,
    Chars <- Chars,
    Keys <- DOMAIN KeyBytes,
    phase <- IF pc = "saving" THEN "leaving" ELSE pc,
    left <- Before(e),
    right <- After(e),
    place <- recall.count - recall.idx,
    draft <- IF AtBottom THEN <<>> ELSE recall.stash,
    entries <- Entries(hist),
    kept <- file

ContractSpec == Contract!Spec

(* A terminal the decoder understands: the bytes of a key of the manual    *)
(* decode to that key with the last of them and to nothing before, those   *)
(* of any other key to nothing, also after an Escape pressed before.       *)
Resting == {Ground, Decoding("ESC")}

Named ==
    [Left |-> "LEFT", Right |-> "RIGHT", Home |-> "HOME", End |-> "END",
     Backspace |-> "BACKSPACE", Delete |-> "DELETE", KillEnd |-> "KILL_END",
     KillStart |-> "KILL_START", KillWord |-> "KILL_WORD", Up |-> "UP",
     Down |-> "DOWN", Enter |-> "ENTER", CtrlC |-> "INTERRUPT", CtrlD |-> "EOF"]

KeyOf(key) ==
    IF key \in Chars THEN "CHAR"
    ELSE IF key \in DOMAIN Named THEN Named[key] ELSE "NONE"

\* the decoder after each of the bytes
Decoder(k, bytes) ==
    LET after[n \in 0 .. Len(bytes)] ==
            IF n = 0 THEN Fed(k, "NONE") ELSE EditKeysFeed(after[n - 1].keys, bytes[n])
    IN  after

Spells(key, bytes) ==
    \A k \in Resting :
        LET fed  == Decoder(k, bytes)
            last == Len(bytes)
        IN  /\ \A n \in 1 .. last - 1 : fed[n].key = "NONE"
            /\ fed[last].key = KeyOf(key)
            /\ fed[last].keys \in Resting
            /\ key \in Chars => bytes[last] = key

Speaks(keyboard) ==
    /\ "none" \notin DOMAIN keyboard
    /\ Chars \cap DOMAIN Named = {}
    /\ \A key \in DOMAIN keyboard : \A bytes \in keyboard[key] : Spells(key, bytes)

(* edit.h: "EK_NONE while a sequence is still incomplete and for anything  *)
(* unrecognised, so junk never lands in the buffer."  So a key the editor  *)
(* has no use for leaves the line alone.                                   *)
Unrecognised == {"Escape", "PageUp", "F5", "ShiftF5", "CtrlRight", "ConsoleF1", "Mouse"}

JunkNeverLands ==
    [][(pressing \in Unrecognised /\ pc' = "editing") => e.buf' = e.buf]_vars
=============================================================================
