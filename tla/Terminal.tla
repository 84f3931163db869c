------------------------------ MODULE Terminal ------------------------------
(***************************************************************************)
(* The raw mode of term.c, one action per system call or assignment: a     *)
(* signal handler that calls term_emergency_restore may run between any    *)
(* two.  term_enter_raw_mode and term_exit_raw are entered by a caller     *)
(* that names where it goes on (back).  Entering may fail at every call;   *)
(* putting back what was saved succeeds.                                   *)
(***************************************************************************)

VARIABLES
    tty,               \* [mode, blocking, cursor] of the terminal
    saved,             \* [mode, blocking]: saved_termios and saved_flags
    raw_active,
    raw_owns_screen,
    pc,
    mode,              \* the argument of term_enter_raw_mode
    back               \* [ok, fail]: where the caller goes on

termvars == <<tty, saved, raw_active, raw_owns_screen, pc, mode, back>>

Found == [mode |-> "cooked", blocking |-> TRUE]    \* as the shell found it

TermInit ==
    /\ tty = [mode |-> "cooked", blocking |-> TRUE, cursor |-> TRUE]
    /\ saved = Found
    /\ raw_active = FALSE /\ raw_owns_screen = FALSE
    /\ mode = "line"
    /\ back = [ok |-> "prompt", fail |-> "prompt"]

Screen == mode = "screen"

GoTo(p) == pc' = p /\ UNCHANGED <<mode, back>>

\* calls
EnterRawMode(m, ok, fail) ==
    pc' = "save" /\ mode' = m /\ back' = [ok |-> ok, fail |-> fail]

ExitRaw(next) == pc' = "exit" /\ back' = [ok |-> next, fail |-> next] /\ UNCHANGED mode

-----------------------------------------------------------------------------
(* term_enter_raw_mode                                                     *)

\* fault: raw mode is entered again
SaveAgain ==
    /\ pc = "save"
    /\ \/ GoTo(back.fail) /\ UNCHANGED saved
       \/ /\ saved' = [mode |-> tty.mode, blocking |-> tty.blocking]
          /\ GoTo("attr")
    /\ UNCHANGED <<tty, raw_active, raw_owns_screen>>

Save ==
    /\ pc = "save"
    /\ \/ raw_active /\ GoTo(back.ok) /\ UNCHANGED saved
       \/ ~raw_active /\ GoTo(back.fail) /\ UNCHANGED saved
       \/ /\ ~raw_active
          /\ saved' = [mode |-> tty.mode, blocking |-> tty.blocking]
          /\ GoTo("attr")
    /\ UNCHANGED <<tty, raw_active, raw_owns_screen>>

SetAttr ==
    /\ pc = "attr"
    /\ \/ GoTo(back.fail) /\ UNCHANGED tty
       \/ /\ tty' = [tty EXCEPT !.mode = mode]
          /\ GoTo(IF Screen THEN "flags" ELSE "mark")
    /\ UNCHANGED <<saved, raw_active, raw_owns_screen>>

SetFlags ==
    /\ pc = "flags"
    /\ \/ tty' = [tty EXCEPT !.blocking = FALSE] /\ GoTo("mark")
       \/ UNCHANGED tty /\ GoTo("undo")
    /\ UNCHANGED <<saved, raw_active, raw_owns_screen>>

Undo ==
    /\ pc = "undo"
    /\ tty' = [tty EXCEPT !.mode = saved.mode]
    /\ GoTo(back.fail)
    /\ UNCHANGED <<saved, raw_active, raw_owns_screen>>

Mark ==
    /\ pc = "mark"
    /\ raw_active' = TRUE
    /\ GoTo("own")
    /\ UNCHANGED <<tty, saved, raw_owns_screen>>

Own ==
    /\ pc = "own"
    /\ raw_owns_screen' = Screen
    /\ GoTo(IF Screen THEN "hide" ELSE back.ok)
    /\ UNCHANGED <<tty, saved, raw_active>>

\* a write that fails may have hidden the cursor before it did
Hide ==
    /\ pc = "hide"
    /\ \/ tty' = [tty EXCEPT !.cursor = FALSE] /\ GoTo(back.ok)
       \/ (\E shown \in BOOLEAN : tty' = [tty EXCEPT !.cursor = shown]) /\ ExitRaw(back.fail)
    /\ UNCHANGED <<saved, raw_active, raw_owns_screen>>

-----------------------------------------------------------------------------
(* term_exit_raw                                                           *)

Unmark ==
    /\ pc = "exit"
    /\ raw_active' = FALSE
    /\ GoTo(IF raw_active THEN "show" ELSE back.ok)
    /\ UNCHANGED <<tty, saved, raw_owns_screen>>

Show ==
    /\ pc = "show"
    /\ tty' = [tty EXCEPT !.cursor = @ \/ raw_owns_screen]
    /\ GoTo("reflag")
    /\ UNCHANGED <<saved, raw_active, raw_owns_screen>>

ResetFlags ==
    /\ pc = "reflag"
    /\ tty' = [tty EXCEPT !.blocking = saved.blocking]
    /\ GoTo("reattr")
    /\ UNCHANGED <<saved, raw_active, raw_owns_screen>>

ResetAttr ==
    /\ pc = "reattr"
    /\ tty' = [tty EXCEPT !.mode = saved.mode]
    /\ GoTo(back.ok)
    /\ UNCHANGED <<saved, raw_active, raw_owns_screen>>

TermStep ==
    \/ Save \/ SetAttr \/ SetFlags \/ Undo \/ Mark \/ Own \/ Hide
    \/ Unmark \/ Show \/ ResetFlags \/ ResetAttr

-----------------------------------------------------------------------------
\* fault: the flags of stdin are left alone
RestoredFlagsKept ==
    [mode |-> saved.mode, blocking |-> tty.blocking,
     cursor |-> tty.cursor \/ raw_owns_screen]

\* what term_emergency_restore makes of the terminal
Restored ==
    [mode |-> saved.mode, blocking |-> saved.blocking,
     cursor |-> tty.cursor \/ raw_owns_screen]

\* fault: the restore does not say so
EmergencyRestoreSilent ==
    /\ tty' = IF raw_active THEN Restored ELSE tty
    /\ UNCHANGED <<saved, raw_active, raw_owns_screen>>

EmergencyRestore ==
    /\ raw_active' = FALSE
    /\ tty' = IF raw_active THEN Restored ELSE tty
    /\ UNCHANGED <<saved, raw_owns_screen>>
=============================================================================
