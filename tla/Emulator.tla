------------------------------ MODULE Emulator ------------------------------
(***************************************************************************)
(* The emu builtin (emu.c) and the line editor taking turns with the       *)
(* terminal: the loop of run_interactive, its SIGTSTP and SIGCONT          *)
(* handlers, and the stops and continues of the outside world at every     *)
(* point.  What the rom does is left out.                                  *)
(***************************************************************************)
EXTENDS Terminal, Naturals

CONSTANT MaxStops    \* bound: signals that stop the shell

ASSUME StopsAssumption == MaxStops \in Nat

VARIABLES
    g_resume,
    installed,    \* the handlers of emu.c are; otherwise SIGTSTP is ignored
    running,      \* the process is not stopped
    handling,     \* it was stopped by the raise in tstp_handler, not yet returned
    stops

emuvars == <<g_resume, installed>>
procvars == <<running, handling, stops>>
vars == <<termvars, emuvars, procvars>>

Init ==
    /\ TermInit
    /\ pc = "prompt"
    /\ g_resume = FALSE /\ installed = FALSE
    /\ running = TRUE /\ handling = FALSE
    /\ stops = 0

Stay == UNCHANGED <<tty, saved, raw_active, raw_owns_screen>>

-----------------------------------------------------------------------------
(* the prompt: edit_read_line enters and leaves raw mode once per line; an *)
(* error of it ends the shell                                              *)
ReadLine ==
    /\ pc = "prompt"
    /\ EnterRawMode("line", "editing", "exited")
    /\ Stay /\ UNCHANGED emuvars

LineRead ==
    /\ pc = "editing"
    /\ ExitRaw("command")
    /\ Stay /\ UNCHANGED emuvars

OtherCommand ==
    /\ pc = "command"
    /\ GoTo("prompt")
    /\ Stay /\ UNCHANGED emuvars

-----------------------------------------------------------------------------
(* emu_builtin, with its rom loaded *)
StartEmu ==
    /\ pc = "command"
    /\ g_resume' = FALSE
    /\ installed' = TRUE
    /\ EnterRawMode("screen", "loop", "leave")
    /\ Stay

TestResume ==
    /\ pc = "loop"
    /\ GoTo(IF g_resume THEN "clear" ELSE "drain")
    /\ Stay /\ UNCHANGED emuvars

ClearResume ==
    /\ pc = "clear"
    /\ g_resume' = FALSE
    /\ EnterRawMode("screen", "drain", "end")
    /\ Stay /\ UNCHANGED installed

\* term_read_key on a terminal that was put back waits for a whole line
Waits == tty.mode = "cooked" /\ tty.blocking

ReadNothing ==
    /\ pc = "drain"
    /\ ~Waits
    /\ GoTo("rest")
    /\ Stay /\ UNCHANGED emuvars

\* a key, or Esc; the end of input looks like nothing
ReadByte ==
    /\ pc = "drain"
    /\ GoTo("drain") \/ GoTo("end") \/ GoTo("rest")
    /\ Stay /\ UNCHANGED emuvars

(* cpu steps, timers, painting and sleeping; a step that fails ends it *)
Rest ==
    /\ pc = "rest"
    /\ GoTo("loop") \/ ExitRaw("end")
    /\ Stay /\ UNCHANGED emuvars

End ==
    /\ pc = "end"
    /\ ExitRaw("leave")
    /\ Stay /\ UNCHANGED emuvars

Leave ==
    /\ pc = "leave"
    /\ ExitRaw("uninstall")
    /\ Stay /\ UNCHANGED emuvars

SignalsRestore ==
    /\ pc = "uninstall"
    /\ installed' = FALSE
    /\ GoTo("prompt")
    /\ Stay /\ UNCHANGED g_resume

-----------------------------------------------------------------------------
\* the loop goes on without the user, unless a read waits for him
Loop ==
    /\ running /\ ~handling
    /\ \/ TermStep /\ UNCHANGED emuvars
       \/ TestResume \/ ClearResume \/ ReadNothing \/ Rest
       \/ End \/ Leave \/ SignalsRestore
    /\ UNCHANGED procvars

User ==
    /\ running /\ ~handling
    /\ ReadLine \/ LineRead \/ OtherCommand \/ StartEmu \/ ReadByte
    /\ UNCHANGED procvars

(* tstp_handler up to its raise; in an orphaned group the raise does       *)
(* nothing.  A read that waits is given up when the handler returns.       *)
SigTstp ==
    /\ running /\ ~handling /\ installed
    /\ stops < MaxStops
    /\ EmergencyRestore
    /\ handling' = TRUE
    /\ running' \in BOOLEAN
    /\ GoTo(pc) \/ (pc = "drain" /\ Waits /\ GoTo("rest"))
    /\ stops' = stops + 1
    /\ UNCHANGED emuvars

HandlerReturns ==
    /\ running /\ handling
    /\ handling' = FALSE
    /\ g_resume' = TRUE
    /\ UNCHANGED <<termvars, installed, running, stops>>

\* SIGSTOP, or a SIGTSTP while the handler has the default one installed
Stop ==
    /\ running
    /\ stops < MaxStops
    /\ running' = FALSE
    /\ stops' = stops + 1
    /\ UNCHANGED <<termvars, emuvars, handling>>

\* whoever has the terminal now sets it up for himself
Outside ==
    /\ ~running
    /\ tty' = [tty EXCEPT !.mode = "cooked"]
    /\ UNCHANGED <<saved, raw_active, raw_owns_screen, pc, mode, back, emuvars, procvars>>

\* SIGCONT and cont_handler
Continue ==
    /\ ~running
    /\ running' = TRUE
    /\ g_resume' = (g_resume \/ installed)
    /\ UNCHANGED <<termvars, installed, handling, stops>>

Next == Loop \/ User \/ SigTstp \/ HandlerReturns \/ Stop \/ Outside \/ Continue

(* The shell takes its next step unless it waits for the user. *)
Spec == Init /\ [][Next]_vars /\ WF_vars(Loop) /\ WF_vars(HandlerReturns)

-----------------------------------------------------------------------------
InTerm == {"save", "attr", "flags", "undo", "mark", "own", "hide",
           "exit", "show", "reflag", "reattr"}

TypeOK ==
    /\ tty.mode \in {"cooked", "line", "screen"}
    /\ pc \in InTerm \cup {"prompt", "editing", "command", "exited", "loop", "clear", "drain",
                           "rest", "end", "leave", "uninstall"}
    /\ handling => installed
    /\ stops \in 0 .. MaxStops

(* What a later restore will put back is never the raw mode itself, and    *)
(* between two lines, and when the shell ends, the terminal is as it was   *)
(* found, whatever stopped and continued the shell on the way.             *)
LeavesTerminalAsFound ==
    /\ TypeOK
    /\ saved = Found
    /\ pc \in {"prompt", "command", "exited"} =>
        ~raw_active /\ [mode |-> tty.mode, blocking |-> tty.blocking] = Found

(* "The stop has to happen with the terminal already sane": it does,       *)
(* outside the steps where term.c changes the terminal and raw_active one  *)
(* after the other.                                                        *)
Windows == {"flags", "undo", "mark", "show", "reflag", "reattr"}

StopsSane ==
    handling /\ ~running /\ pc \notin Windows =>
        [mode |-> tty.mode, blocking |-> tty.blocking] = Found

(* "A resume needs raw mode back": when Ctrl-Z came while the loop slept,  *)
(* continuing puts the terminal back in raw mode, unless the shell is      *)
(* stopped again or the emulator ends.                                     *)
RawComesBack ==
    (handling /\ running /\ pc \in {"rest", "loop"})
        ~> (tty.mode = "screen" \/ pc = "prompt" \/ ~running)
=============================================================================
