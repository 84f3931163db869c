------------------------------- MODULE Kernel -------------------------------
(***************************************************************************)
(* The part of the operating system the shell's job control talks to:      *)
(* child processes, process groups, the controlling terminal, wait events  *)
(* and SIGCHLD.  None of it is nullsh code; it is modelled from the calls  *)
(* src/shell makes (fork, setpgid, tcsetpgrp, kill, waitpid, sigaction).   *)
(***************************************************************************)
EXTENDS Naturals

CONSTANTS
    MaxPid,    \* process ids are 1 .. MaxPid, handed out once each
    Shell      \* the shell's own process group

Pids == 1 .. MaxPid

VARIABLES
    st,      \* life cycle of each process
    event,   \* the job-control event waitpid has not reported yet
    pgrp,    \* process group (a group is named by its leader)
    tty,     \* the foreground group of the terminal
    chld     \* g_chld_flag: the SIGCHLD handler of signals.c has run

kvars == <<st, event, pgrp, tty, chld>>

ProcStates == {"none", "running", "stopped", "zombie", "gone"}

KernelTypeOK ==
    /\ st \in [Pids -> ProcStates]
    /\ event \in [Pids -> {"none", "stopped", "continued"}]
    /\ pgrp \in [Pids -> 0 .. MaxPid]
    /\ tty \in Pids \cup {Shell}
    /\ chld \in BOOLEAN

KernelInit ==
    /\ st = [p \in Pids |-> "none"]
    /\ event = [p \in Pids |-> "none"]
    /\ pgrp = [p \in Pids |-> 0]
    /\ tty = Shell
    /\ chld = FALSE

Group(g) == {p \in Pids : pgrp[p] = g /\ st[p] \notin {"none", "gone"}}
Running(S) == {p \in S : st[p] = "running"}
Stopped(S) == {p \in S : st[p] = "stopped"}
Child(p) == st[p] \notin {"none", "gone"}

-----------------------------------------------------------------------------
(* Effects; the ones that change a child's state raise SIGCHLD.            *)

NewPid(p) == st[p] = "none" /\ \A q \in Pids : q < p => st[q] # "none"

Fork(p, g) ==
    /\ NewPid(p)
    /\ st' = [st EXCEPT ![p] = "running"]
    /\ pgrp' = [pgrp EXCEPT ![p] = g]
    /\ UNCHANGED <<event, tty, chld>>

StopSet(S) ==
    /\ S # {}
    /\ st' = [p \in Pids |-> IF p \in S THEN "stopped" ELSE st[p]]
    /\ event' = [p \in Pids |-> IF p \in S THEN "stopped" ELSE event[p]]
    /\ chld' = TRUE
    /\ UNCHANGED <<pgrp, tty>>

EndSet(S) ==
    /\ S # {}
    /\ st' = [p \in Pids |-> IF p \in S THEN "zombie" ELSE st[p]]
    /\ event' = [p \in Pids |-> IF p \in S THEN "none" ELSE event[p]]
    /\ chld' = TRUE
    /\ UNCHANGED <<pgrp, tty>>

\* kill(-g, SIGCONT)
ContGroup(g) ==
    LET S == Stopped(Group(g)) IN
    /\ st' = [p \in Pids |-> IF p \in S THEN "running" ELSE st[p]]
    /\ event' = [p \in Pids |-> IF p \in S THEN "continued" ELSE event[p]]
    /\ chld' = (chld \/ S # {})
    /\ UNCHANGED <<pgrp, tty>>

-----------------------------------------------------------------------------
(* What waitpid finds for one child *)

HasEnded(p) == st[p] = "zombie"
HasStopped(p) == st[p] = "stopped" /\ event[p] = "stopped"
HasContinued(p) == st[p] = "running" /\ event[p] = "continued"

Collect(p) ==
    /\ st' = [st EXCEPT ![p] = IF @ = "zombie" THEN "gone" ELSE @]
    /\ event' = [event EXCEPT ![p] = "none"]
    /\ UNCHANGED <<pgrp, tty, chld>>

-----------------------------------------------------------------------------
(* What happens around the shell                                           *)

Exit(p) == st[p] = "running" /\ EndSet({p})

\* a key of the terminal driver goes to the foreground group; the shell ignores it
CtrlZ == tty # Shell /\ StopSet(Running(Group(tty)))
CtrlC == tty # Shell /\ EndSet(Running(Group(tty)))

\* a read of the terminal from a background group: SIGTTIN to the whole group
TerminalRead(p) ==
    st[p] = "running" /\ pgrp[p] # tty /\ StopSet(Running(Group(pgrp[p])))

\* kill -STOP and kill -CONT of one process from elsewhere
Suspend(p) == st[p] = "running" /\ StopSet({p})
Resume(p) ==
    /\ st[p] = "stopped"
    /\ st' = [st EXCEPT ![p] = "running"]
    /\ event' = [event EXCEPT ![p] = "continued"]
    /\ chld' = TRUE
    /\ UNCHANGED <<pgrp, tty>>

KernelNext ==
    \/ \E p \in Pids : Exit(p)
    \/ \E p \in Pids : TerminalRead(p)
    \/ \E p \in Pids : Suspend(p)
    \/ \E p \in Pids : Resume(p)
    \/ CtrlZ
    \/ CtrlC
=============================================================================
