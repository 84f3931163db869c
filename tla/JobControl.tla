----------------------------- MODULE JobControl -----------------------------
(***************************************************************************)
(* Job control of the interactive shell: the prompt's reap cycle (run.c,   *)
(* signals.c), pipelines forked into a process group and waited for        *)
(* (exec.c, spawn.c), and the fg and bg builtins (builtin.c), over the     *)
(* job table (JobTable) and the operating system (Kernel).                 *)
(*                                                                         *)
(* The shell is one thread; pc says where it is between two system calls   *)
(* or two accesses to the flag its SIGCHLD handler writes, which is where  *)
(* the children and the terminal get their say:                            *)
(*   take, clear   the read and the clear in signals_chld_take             *)
(*   reap, notify  the waitpid loop of reap_jobs, and jobs_reap_notify     *)
(*   read          edit_read_line, or the next command of the same line    *)
(*   fork          fork_stages                                             *)
(*   handoff       spawn_set_terminal before the wait                      *)
(*   wait          spawn_wait_pids, at stage "at"                          *)
(*   takeback      spawn_set_terminal after the wait, and the bookkeeping  *)
(***************************************************************************)
EXTENDS JobTable, Kernel

CONSTANT MaxStages    \* the longest pipeline the user types

ASSUME MaxPidAssumption == MaxPid \in Nat \ {0}
ASSUME ShellAssumption == Shell \notin Nat
ASSUME MaxStagesAssumption == MaxStages \in Nat \ {0}

VARIABLES
    jobs,    \* the table
    pc,      \* where the shell is
    fired,   \* the local of signals_chld_take
    cmd,     \* the pipeline being started or waited for
    at,      \* the index i of spawn_wait_pids
    stopped  \* its result *stopped

svars == <<jobs, pc, fired, cmd, at, stopped>>
vars == <<st, event, pgrp, tty, chld, jobs, pc, fired, cmd, at, stopped>>

Idle == [pids |-> <<>>, todo |-> 0, background |-> FALSE, job |-> 0]

Init ==
    /\ KernelInit
    /\ jobs = <<>>
    /\ pc = "take"
    /\ fired = FALSE
    /\ cmd = Idle
    /\ at = 0
    /\ stopped = FALSE

-----------------------------------------------------------------------------
(* reap_jobs, before each prompt                                           *)

\* fault: the flag is cleared before it is read
TakeReadCleared ==
    /\ pc = "take"
    /\ chld' = FALSE
    /\ fired' = FALSE
    /\ pc' = "clear"
    /\ UNCHANGED <<st, event, pgrp, tty, jobs, cmd, at, stopped>>

TakeRead ==
    /\ pc = "take"
    /\ fired' = chld
    /\ pc' = "clear"
    /\ UNCHANGED <<kvars, jobs, cmd, at, stopped>>

TakeClear ==
    /\ pc = "clear"
    /\ chld' = FALSE
    /\ pc' = IF fired THEN "reap" ELSE "read"
    /\ fired' = FALSE
    /\ UNCHANGED <<st, event, pgrp, tty, jobs, cmd, at, stopped>>

Pending == {p \in Pids : HasEnded(p) \/ HasStopped(p) \/ HasContinued(p)}

EventOf(p) == IF HasEnded(p) THEN "ended" ELSE event[p]

\* one turn of the waitpid(-1, WNOHANG | WUNTRACED | WCONTINUED) loop
ReapOne(p) ==
    /\ pc = "reap"
    /\ p \in Pending
    /\ Collect(p)
    /\ jobs' = JobsUpdate(jobs, p, EventOf(p))
    /\ UNCHANGED <<pc, fired, cmd, at, stopped>>

ReapEnds ==
    /\ pc = "reap"
    /\ Pending = {}
    /\ pc' = "notify"
    /\ UNCHANGED <<kvars, jobs, fired, cmd, at, stopped>>

\* one turn of the loop of jobs_reap_notify
NotifyOne ==
    /\ pc = "notify"
    /\ \E i \in DOMAIN jobs : NextDone(jobs, i) /\ jobs' = RemoveAt(jobs, i)
    /\ UNCHANGED <<kvars, pc, fired, cmd, at, stopped>>

NotifyEnds ==
    /\ pc = "notify"
    /\ NoneDone(jobs)
    /\ pc' = "read"
    /\ UNCHANGED <<kvars, jobs, fired, cmd, at, stopped>>

-----------------------------------------------------------------------------
(* Commands                                                                *)

\* the rest of the line follows without a prompt, or the line is done
AfterCommand == pc' \in {"read", "take"}

EmptyLine ==
    /\ pc = "read"
    /\ pc' = "take"
    /\ UNCHANGED <<kvars, jobs, fired, cmd, at, stopped>>

\* fault: one stage too many
StartPipelineExtra(n, background) ==
    /\ pc = "read"
    /\ cmd' = [Idle EXCEPT !.todo = n + 1, !.background = background]
    /\ pc' = "fork"
    /\ UNCHANGED <<kvars, jobs, fired, at, stopped>>

(* run_forked up to its first fork *)
StartPipeline(n, background) ==
    /\ pc = "read"
    /\ cmd' = [Idle EXCEPT !.todo = n, !.background = background]
    /\ pc' = "fork"
    /\ UNCHANGED <<kvars, jobs, fired, at, stopped>>

(* fork_stages: the first stage leads the group the others join *)
ForkStage(p) ==
    /\ pc = "fork"
    /\ cmd.todo > 0
    /\ Fork(p, IF cmd.pids = <<>> THEN p ELSE cmd.pids[1])
    /\ cmd' = [cmd EXCEPT !.todo = @ - 1, !.pids = Append(@, p)]
    /\ UNCHANGED <<jobs, pc, fired, at, stopped>>

\* fork failed: the stages already started make up the pipeline
ForkFails ==
    /\ pc = "fork"
    /\ cmd.todo > 0
    /\ cmd' = [cmd EXCEPT !.todo = 0]
    /\ UNCHANGED <<kvars, jobs, pc, fired, at, stopped>>

(* run_forked after fork_stages *)
Launched ==
    /\ pc = "fork"
    /\ cmd.todo = 0
    /\ IF cmd.pids = <<>>
       THEN /\ AfterCommand
            /\ cmd' = Idle
            /\ UNCHANGED jobs
       ELSE IF cmd.background
       THEN /\ AfterCommand
            /\ cmd' = Idle
            /\ jobs' = JobsAdd(jobs, cmd.pids, "RUNNING")
       ELSE /\ pc' = "handoff"
            /\ UNCHANGED <<jobs, cmd>>
    /\ UNCHANGED <<kvars, fired, at, stopped>>

(* bi_fg: SIGCONT first, the terminal after it *)
Fg(i) ==
    /\ pc = "read"
    /\ ContGroup(jobs[i].pgid)
    /\ jobs' = [jobs EXCEPT ![i].state = "RUNNING"]
    /\ cmd' = [Idle EXCEPT !.pids = jobs[i].pids, !.job = jobs[i].id]
    /\ pc' = "handoff"
    /\ UNCHANGED <<fired, at, stopped>>

(* bi_bg: only a stopped job whose group still exists *)
Bg(i) ==
    /\ pc = "read"
    /\ jobs[i].state = "STOPPED"
    /\ Group(jobs[i].pgid) # {}
    /\ ContGroup(jobs[i].pgid)
    /\ jobs' = [jobs EXCEPT ![i].state = "RUNNING"]
    /\ AfterCommand
    /\ UNCHANGED <<fired, cmd, at, stopped>>

\* fg and bg take any job: %N names it, and jobs_current is one of them
FgCommand == \E i \in DOMAIN jobs : Fg(i)
BgCommand == \E i \in DOMAIN jobs : Bg(i)

-----------------------------------------------------------------------------
(* foreground_wait and exec_wait_foreground                                *)

Handoff ==
    /\ pc = "handoff"
    /\ tty' = cmd.pids[1]
    /\ at' = 1
    /\ stopped' = FALSE
    /\ pc' = "wait"
    /\ UNCHANGED <<st, event, pgrp, chld, jobs, fired, cmd>>

\* fault: WUNTRACED is left out
WaitReportsEnds ==
    /\ pc = "wait"
    /\ at <= Len(cmd.pids)
    /\ HasEnded(cmd.pids[at])
    /\ Collect(cmd.pids[at])
    /\ at' = at + 1
    /\ UNCHANGED <<jobs, pc, fired, cmd, stopped>>

\* waitpid(pids[i], WUNTRACED) reports an end or a stop
WaitReports ==
    /\ pc = "wait"
    /\ at <= Len(cmd.pids)
    /\ LET p == cmd.pids[at] IN
       /\ HasEnded(p) \/ HasStopped(p)
       /\ Collect(p)
       /\ stopped' = (stopped \/ HasStopped(p))
    /\ at' = at + 1
    /\ UNCHANGED <<jobs, pc, fired, cmd>>

\* nothing to report: ECHILD, or WNOHANG once a stage has stopped
WaitSkips ==
    /\ pc = "wait"
    /\ at <= Len(cmd.pids)
    /\ LET p == cmd.pids[at] IN
       st[p] = "gone" \/ (stopped /\ ~HasEnded(p) /\ ~HasStopped(p))
    /\ at' = at + 1
    /\ UNCHANGED <<kvars, jobs, pc, fired, cmd, stopped>>

WaitEnds ==
    /\ pc = "wait"
    /\ at > Len(cmd.pids)
    /\ pc' = "takeback"
    /\ UNCHANGED <<kvars, jobs, fired, cmd, at, stopped>>

JobIndex(id) == CHOOSE i \in DOMAIN jobs : jobs[i].id = id

\* fault: a stopped pipeline is not filed
NotFiled == jobs

\* a pipeline typed in the foreground becomes a job only if it stopped
Filed == IF stopped THEN JobsAdd(jobs, cmd.pids, "STOPPED") ELSE jobs

\* fg's job is in the table already
Settled ==
    IF stopped THEN [jobs EXCEPT ![JobIndex(cmd.job)].state = "STOPPED"]
    ELSE [jobs EXCEPT ![JobIndex(cmd.job)] = [@ EXCEPT !.state = "DONE", !.nleft = 0]]

\* fault: the terminal stays with the job
TakeBackNoTty ==
    /\ pc = "takeback"
    /\ jobs' = IF cmd.job = 0 THEN Filed ELSE Settled
    /\ cmd' = Idle
    /\ at' = 0
    /\ stopped' = FALSE
    /\ AfterCommand
    /\ UNCHANGED <<kvars, fired>>

TakeBack ==
    /\ pc = "takeback"
    /\ tty' = Shell
    /\ jobs' = IF cmd.job = 0 THEN Filed ELSE Settled
    /\ cmd' = Idle
    /\ at' = 0
    /\ stopped' = FALSE
    /\ AfterCommand
    /\ UNCHANGED <<st, event, pgrp, chld, fired>>

\* exit, or Ctrl-D at the prompt: main drops the table, the jobs live on
Quit ==
    /\ pc = "read"
    /\ pc' = "exited"
    /\ jobs' = <<>>
    /\ UNCHANGED <<kvars, fired, cmd, at, stopped>>

Exited == pc = "exited" /\ UNCHANGED vars

-----------------------------------------------------------------------------
Prompt ==
    \/ TakeRead
    \/ TakeClear
    \/ \E p \in Pids : ReapOne(p)
    \/ ReapEnds \/ NotifyOne \/ NotifyEnds

Foreground ==
    \/ \E p \in Pids : ForkStage(p)
    \/ ForkFails
    \/ Launched
    \/ Handoff
    \/ WaitReports
    \/ WaitSkips
    \/ WaitEnds
    \/ TakeBack

User ==
    \/ EmptyLine
    \/ \E n \in 1 .. MaxStages : \E b \in BOOLEAN : StartPipeline(n, b)
    \/ FgCommand
    \/ BgCommand
    \/ Quit

System == KernelNext /\ pc # "exited" /\ UNCHANGED svars

Next == Prompt \/ Foreground \/ User \/ System \/ Exited

Spec == Init /\ [][Next]_vars

(* The shell takes its next step whenever it can; a program that keeps     *)
(* getting to run ends at last; the user comes back to an empty line       *)
(* again and again.                                                        *)
Fairness ==
    /\ WF_vars(Prompt \/ Foreground)
    /\ \A p \in Pids : SF_vars(Exit(p) /\ UNCHANGED svars)
    /\ SF_vars(EmptyLine)

FairSpec == Spec /\ Fairness

-----------------------------------------------------------------------------
\* fg %N, bg %N and kill(-pgid) name one job each although ids are reused
JobNamesUnique ==
    \A i, k \in DOMAIN jobs :
        i # k => jobs[i].id # jobs[k].id /\ jobs[i].pgid # jobs[k].pgid

TypeOK ==
    /\ KernelTypeOK
    /\ pc \in {"take", "clear", "reap", "notify", "read", "fork", "handoff", "wait",
               "takeback", "exited"}
    /\ fired \in BOOLEAN /\ stopped \in BOOLEAN
    /\ at \in 0 .. (MaxPid + 1)
    /\ \A i \in DOMAIN jobs :
          /\ jobs[i].state \in JobStates
          /\ Len(jobs[i].pids) \in 1 .. MaxStages
          /\ jobs[i].nleft \in 0 .. Len(jobs[i].pids)
    /\ JobNamesUnique

AtPrompt == pc \in {"take", "clear", "reap", "notify", "read"}
InJob(i, p) == HasPid(jobs[i], p)
AllGone(pids) == \A k \in DOMAIN pids : st[pids[k]] = "gone"

(* Only the pipeline the shell is waiting for owns the terminal; at the    *)
(* prompt the shell does (spawn_set_terminal around every wait).           *)
TerminalOwner ==
    tty # Shell => pc \in {"wait", "takeback"} /\ tty = cmd.pids[1]

(* No child is lost: whenever the shell is at its prompt, every process it *)
(* started and has not collected is listed by exactly one job, so that     *)
(* fg, bg and the reap cycle can reach it.                                 *)
NoLostChild ==
    AtPrompt =>
        \A p \in Pids : Child(p) => Cardinality({i \in DOMAIN jobs : InJob(i, p)}) = 1

DoneMeansGone ==
    \A i \in DOMAIN jobs : jobs[i].state = "DONE" => AllGone(jobs[i].pids)

\* of a job of one process, once the events are drained
StateTracksProcess ==
    pc = "read" =>
        \A i \in DOMAIN jobs :
            LET p == jobs[i].pids[1] IN
            p \notin Pending /\ Len(jobs[i].pids) = 1 =>
                (jobs[i].state = "STOPPED") = (st[p] = "stopped")

\* jobs.h on nleft: "pids not yet reported done"
NleftExact ==
    pc = "read" =>
        \A i \in DOMAIN jobs : Len(jobs[i].pids) = 1 =>
            jobs[i].nleft = Cardinality({k \in DOMAIN jobs[i].pids : Child(jobs[i].pids[k])})

(* A job is called done, and announced, only after the last of its         *)
(* processes was collected (jobs_update and exec_wait_foreground agree);   *)
(* at the prompt a job of one process is shown in the state it is in, and  *)
(* nleft counts what is left of it, whatever mix of keys, signals, fg and  *)
(* bg led there.                                                           *)
JobsTellTheTruth == DoneMeansGone /\ StateTracksProcess /\ NleftExact

(* jobs.h calls nleft the "pids not yet reported done", so that a job none *)
(* of whose processes is left is DONE, and announced, by the next prompt.  *)
GoneMeansDone ==
    pc = "read" =>
        \A i \in DOMAIN jobs : AllGone(jobs[i].pids) => jobs[i].state = "DONE"

(* A foreground wait ends: the shell is never stuck behind a stopped stage. *)
ForegroundReturns == pc = "wait" ~> pc \in {"read", "take", "exited"}

Finished(g) == pgrp[g] = g /\ \A p \in Pids : pgrp[p] = g => st[p] \in {"zombie", "gone"}
Listed(g) == \E i \in DOMAIN jobs : jobs[i].pgid = g
ListedAlone(g) == \E i \in DOMAIN jobs : jobs[i].pids = <<g>>

(* A job of one process that is over while the shell reads a line with the *)
(* flag up is announced and dropped by a later prompt.                     *)
FlaggedDoneIsAnnounced ==
    \A g \in Pids :
        (pc = "read" /\ chld /\ Finished(g) /\ ListedAlone(g)) ~> ~Listed(g)

(* signals_chld_take: a SIGCHLD between its read and its clear is benign,  *)
(* so that any finished job is announced by a later prompt.                *)
DoneIsAnnounced ==
    \A g \in Pids : (Finished(g) /\ Listed(g)) ~> ~Listed(g)
=============================================================================
