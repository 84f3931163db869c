------------------------------ MODULE Command ------------------------------
(***************************************************************************)
(* Running a pipeline (exec.c) and its redirects (redirect.c), seen        *)
(* through the descriptor tables they rearrange: the shell's own, when a   *)
(* redirected builtin or function runs in the shell, and those of the      *)
(* forked stages.  Functions run further pipelines, so commands nest.      *)
(* What a word expands to, what a program does and the job table are left  *)
(* to other modules.                                                       *)
(***************************************************************************)
EXTENDS Integers, SequencesExt, FiniteSetsExt

CONSTANTS
    Pipelines,   \* [cmds, background]: what may be run
    MaxFd,       \* the largest descriptor the system gives
    TtyFd,       \* sh->tty_fd
    MaxDepth,    \* bound: nested function calls
    MaxJobs,     \* bound: pipelines with stages alive
    Codes        \* exit statuses of programs and builtins

Std == 0 .. 2
Fds == 0 .. MaxFd

ASSUME FdAssumption == MaxFd \in Nat /\ TtyFd \in Fds \ Std
ASSUME BoundAssumption == MaxDepth \in Nat /\ MaxJobs \in Nat \ {0}

\* what the parser hands over: one command or more, each with its redirects
Commands == [what : {"badword", "empty", "builtin", "function", "external"},
             redir : [Std -> STRING]]

ASSUME PipelineAssumption ==
    Pipelines \subseteq [cmds : Seq(Commands) \ {<<>>}, background : BOOLEAN]

VARIABLES
    keeps,    \* what the shell keeps open for itself, from its start to its end
    fds,      \* the shell's table: what each descriptor is open on
    frames,   \* the redirects and calls in progress in the shell, innermost last
    job,      \* the pipeline being forked or waited for
    procs,    \* the stages alive
    status    \* what exec_pipeline leaves in last_status

cmdvars == <<keeps, fds, frames, job, procs, status>>

(* What a descriptor may be open on *)
Closed == <<"closed", "", 0>>
Inherited(k) == <<"inherited", "", k>>     \* the shell's own stream k
File(name) == <<"file", name, 0>>
Script == <<"script", "", 0>>              \* what argv[1] names
ReadEnd(id, i) == <<"read", id, i>>        \* pipe i of a pipeline
WriteEnd(id, i) == <<"write", id, i>>

None == "none"    \* a command without that redirect
Bad == "${"       \* a target that is a bad substitution

HasRedirect(c) == \E k \in Std : c.redir[k] # None

OpenFds(t) == {fd \in Fds : t[fd] # Closed}
FreeFds(t) == Fds \ OpenFds(t)

CopyFds(t) == {fd \in FreeFds(t) : fd >= 3}

NoFd == -1
NoSave == [k \in Std |-> NoFd]
NoJob == [at |-> "none", cmds |-> <<>>, background |-> FALSE, id |-> "", fds |-> {},
          exits |-> <<>>]

Frame(c, phase) == [cmd |-> c, phase |-> phase, k |-> 0, saved |-> NoSave]
Top == Last(frames)
InPhase(phase) == frames # <<>> /\ Top.phase = phase
SetTop(f) == frames' = Append(Front(frames), f)

\* exec_pipeline may be entered, at the prompt or from a function's body
Ready ==
    /\ job.at \in {"none", "done"}
    /\ frames = <<>> \/ (InPhase("body") /\ Top.cmd.what = "function")

(* At the prompt the shell keeps a copy of the terminal, marked close on   *)
(* exec.  A script is opened on the lowest free descriptor and is not      *)
(* marked.  Commands on standard input, or a copy that fails, keep nothing.*)
ScriptFd == 3
KeptFds == CASE keeps = "terminal" -> {TtyFd}
             [] keeps = "script" -> {ScriptFd}
             [] OTHER -> {}
KeptOpen == IF keeps = "script" THEN Script ELSE Inherited(0)
PassedOn == IF keeps = "script" THEN {ScriptFd} ELSE {}

CmdInit ==
    /\ keeps \in {"terminal", "script", "nothing"}
    /\ fds = [fd \in Fds |-> IF fd \in Std THEN Inherited(fd)
                             ELSE IF fd \in KeptFds THEN KeptOpen ELSE Closed]
    /\ frames = <<>> /\ job = NoJob /\ procs = {} /\ status = 0

-----------------------------------------------------------------------------
(* run_simple: one command in the foreground                               *)

Lone(pl) == Len(pl.cmds) = 1 /\ ~pl.background
InShell(c) == c.what \in {"builtin", "function"}

\* the words of the command do not expand, or to no name at all
RunsNothing(pl) ==
    /\ Ready /\ Lone(pl)
    /\ \/ pl.cmds[1].what = "badword" /\ status' = 2
       \/ pl.cmds[1].what = "empty" /\ status' = 127
    /\ job' = NoJob
    /\ UNCHANGED <<fds, frames, procs>>

\* run_builtin and run_function
RunsInShell(pl) ==
    LET c == pl.cmds[1] IN
    /\ Ready /\ Lone(pl) /\ InShell(c)
    /\ Len(frames) < MaxDepth
    /\ frames' = Append(frames, Frame(c, IF HasRedirect(c) THEN "save" ELSE "body"))
    /\ status' = 0 /\ job' = NoJob
    /\ UNCHANGED <<fds, procs>>

\* save_std: a copy of each standard stream
SaveStd ==
    /\ InPhase("save")
    /\ IF CopyFds(fds) = {} THEN
           /\ SetTop([Top EXCEPT !.phase = "restore", !.k = 0])
           /\ status' = 1
           /\ UNCHANGED fds
       ELSE
           /\ fds' = [fds EXCEPT ![Min(CopyFds(fds))] = fds[Top.k]]
           /\ SetTop([Top EXCEPT !.saved[Top.k] = Min(CopyFds(fds)),
                                 !.phase = IF Top.k = 2 THEN "apply" ELSE "save",
                                 !.k = (Top.k + 1) % 3])
           /\ UNCHANGED status
    /\ UNCHANGED <<job, procs>>

(* apply_one and open_onto on a table: the outcomes for stream k, each a   *)
(* status and the table left behind.  The file may fail to open, and does  *)
(* when no descriptor is free.                                             *)
ApplyOne(t, c, k) ==
    CASE c.redir[k] = None -> {[status |-> 0, table |-> t]}
      [] c.redir[k] = Bad -> {[status |-> 2, table |-> t]}
      [] OTHER ->
            {[status |-> 1, table |-> t]}
            \cup {[status |-> 0, table |-> [t EXCEPT ![k] = File(c.redir[k])]] :
                  fd \in FreeFds(t)}

\* redirect_apply: in, out and err in turn, up to the first that fails
Redirected(t, c) ==
    LET Then(outcomes, k) ==
            UNION {IF o.status = 0 THEN ApplyOne(o.table, c, k) ELSE {o} : o \in outcomes}
    IN  Then(Then(ApplyOne(t, c, 0), 1), 2)

ApplyRedirects ==
    /\ InPhase("apply")
    /\ \E o \in Redirected(fds, Top.cmd) :
          /\ fds' = o.table
          /\ status' = o.status
          /\ SetTop([Top EXCEPT !.phase = IF o.status = 0 THEN "body" ELSE "restore"])
    /\ UNCHANGED <<job, procs>>

\* the builtin runs, or the function returns
BodyEnds ==
    /\ InPhase("body")
    /\ job.at \in {"none", "done"}
    /\ \/ Top.cmd.what = "function" /\ UNCHANGED status
       \/ Top.cmd.what = "builtin" /\ status' \in Codes
    /\ IF HasRedirect(Top.cmd) THEN SetTop([Top EXCEPT !.phase = "restore"])
       ELSE frames' = Front(frames)
    /\ job' = NoJob
    /\ UNCHANGED <<fds, procs>>

\* fault: the copy is left open
PutBackCopyStays(t, k, copy) == [t EXCEPT ![k] = t[copy]]

\* dup2 of the copy back onto its stream, and close
PutBack(t, k, copy) == [t EXCEPT ![k] = t[copy], ![copy] = Closed]

\* redirect_restore, one stream at a time; a copy that was never made is skipped
RestoreStd ==
    /\ InPhase("restore")
    /\ fds' = IF Top.saved[Top.k] = NoFd THEN fds ELSE PutBack(fds, Top.k, Top.saved[Top.k])
    /\ IF Top.k = 2 THEN frames' = Front(frames)
       ELSE SetTop([Top EXCEPT !.saved[Top.k] = NoFd, !.k = @ + 1])
    /\ UNCHANGED <<job, procs, status>>

-----------------------------------------------------------------------------
(* run_forked: the pipes, the stages, and the wait                         *)

Ids == {ToString(n) : n \in 1 .. MaxJobs}
UsedIds == {p.id : p \in procs}

StartPipeline(pl) ==
    /\ Ready
    /\ Lone(pl) => pl.cmds[1].what = "external"
    /\ \E id \in Ids \ UsedIds :
          job' = [NoJob EXCEPT !.at = "pipes", !.cmds = pl.cmds, !.id = id,
                               !.background = pl.background]
    /\ UNCHANGED <<fds, frames, procs, status>>

Pipes == Cardinality(job.fds) \div 2

\* fault: the reading ends stay open
CloseWriteEnds(t, ends) == [fd \in Fds |-> IF fd \in ends /\ t[fd][1] = "write" THEN Closed ELSE t[fd]]
CloseFds(t, ends) == [fd \in Fds |-> IF fd \in ends THEN Closed ELSE t[fd]]

\* the two lowest free descriptors; without them the pipeline is given up
Pipe ==
    /\ job.at = "pipes"
    /\ Pipes < Len(job.cmds) - 1
    /\ IF Cardinality(FreeFds(fds)) < 2 THEN
           /\ fds' = CloseFds(fds, job.fds)
           /\ job' = NoJob /\ status' = 1
       ELSE
           LET r == Min(FreeFds(fds))
               w == Min(FreeFds(fds) \ {r})
           IN
           /\ fds' = [fds EXCEPT ![r] = ReadEnd(job.id, Pipes + 1),
                                 ![w] = WriteEnd(job.id, Pipes + 1)]
           /\ job' = [job EXCEPT !.fds = @ \cup {r, w}]
           /\ UNCHANGED status
    /\ UNCHANGED <<frames, procs>>

Forked == Len(job.exits)
Alive == -1    \* the exit of a stage that has not ended

Stage(i) ==
    [id |-> job.id, i |-> i, last |-> i = Len(job.cmds), cmd |-> job.cmds[i],
     pc |-> "wire", table |-> fds, pipes |-> job.fds,
     cloexec |-> {fd \in OpenFds(fds) \ (job.fds \cup PassedOn) : fd > 2},
     outer |-> [k \in Std |-> fds[k]]]

Fork ==
    /\ job.at = "pipes"
    /\ Pipes = Len(job.cmds) - 1
    /\ \/ /\ procs' = procs \cup {Stage(Forked + 1)}
          /\ job' = [job EXCEPT !.exits = Append(@, Alive),
                                !.at = IF Forked + 1 = Len(job.cmds) THEN "close" ELSE @]
       \/ job' = [job EXCEPT !.at = "close"] /\ UNCHANGED procs      \* fork fails
    /\ UNCHANGED <<fds, frames, status>>

\* the parent's close_fds; a pipeline in the background is filed as a job
ClosePipes ==
    /\ job.at = "close"
    /\ fds' = CloseFds(fds, job.fds)
    /\ IF Forked = 0 THEN job' = NoJob /\ status' = 1
       ELSE IF job.background THEN job' = NoJob /\ status' = 0
       ELSE job' = [job EXCEPT !.at = "wait", !.fds = {}] /\ UNCHANGED status
    /\ UNCHANGED <<frames, procs>>

\* foreground_wait: the status of the last stage that was forked
WaitReturns ==
    /\ job.at = "wait"
    /\ \A i \in DOMAIN job.exits : job.exits[i] # Alive
    /\ job' = [job EXCEPT !.at = "done"]
    /\ status' = Last(job.exits)
    /\ UNCHANGED <<fds, frames, procs>>

-----------------------------------------------------------------------------
(* run_stage: a stage p, in its own process                                *)

Becomes(p, q) == procs' = (procs \ {p}) \cup {q} /\ UNCHANGED job

Exits(p, code) ==
    /\ procs' = procs \ {p}
    /\ job' = IF job.id = p.id THEN [job EXCEPT !.exits[p.i] = code] ELSE job

PipeFd(p, end) == CHOOSE fd \in p.pipes : p.table[fd] = end

\* fault: the spare ends stay open
WiredSpareStays(p) ==
    [p.table EXCEPT
        ![0] = IF p.i = 1 THEN @ ELSE p.table[PipeFd(p, ReadEnd(p.id, p.i - 1))],
        ![1] = IF p.last THEN @ ELSE p.table[PipeFd(p, WriteEnd(p.id, p.i))]]

\* dup2 of its two ends, and close_fds
Wired(p) ==
    CloseFds([p.table EXCEPT
                ![0] = IF p.i = 1 THEN @ ELSE p.table[PipeFd(p, ReadEnd(p.id, p.i - 1))],
                ![1] = IF p.last THEN @ ELSE p.table[PipeFd(p, WriteEnd(p.id, p.i))]],
             p.pipes)

Wire(p) ==
    /\ p.pc = "wire"
    /\ Becomes(p, [p EXCEPT !.table = Wired(p), !.pc = "apply"])

\* the words expand, then the redirects are applied, for good
StageRedirects(p) ==
    /\ p.pc = "apply"
    /\ CASE p.cmd.what = "badword" -> Exits(p, 2)
         [] p.cmd.what = "empty" -> Exits(p, 127)
         [] OTHER ->
              \E o \in Redirected(p.table, p.cmd) :
                 IF o.status # 0 THEN Exits(p, o.status)
                 ELSE Becomes(p, [p EXCEPT !.table = o.table, !.pc = "dispatch"])

\* exec_argv: no such program, or one that may not be executed (126, not told apart)
ExecFails(p) == Exits(p, 127)

\* exec closes what was marked for it
Dispatch(p) ==
    /\ p.pc = "dispatch"
    /\ IF InShell(p.cmd) THEN Becomes(p, [p EXCEPT !.pc = "run"])
       ELSE \/ Becomes(p, [p EXCEPT !.pc = "run", !.table = CloseFds(@, p.cloexec)])
            \/ ExecFails(p)

\* read on standard input would still wait: something may yet write
StageWaits(p) ==
    /\ ~InShell(p.cmd)
    /\ p.table[0][1] = "read"
    /\ LET end == WriteEnd(p.table[0][2], p.table[0][3]) IN
       \/ \E q \in procs : \E fd \in Fds : q.table[fd] = end
       \/ \E fd \in Fds : fds[fd] = end

Ends(p) == p.pc = "run" /\ \E code \in Codes : Exits(p, code)

StageStep(p) ==
    \/ Wire(p) \/ StageRedirects(p) \/ Dispatch(p)
    \/ ~StageWaits(p) /\ Ends(p)

EndsEarly(p) == StageWaits(p) /\ Ends(p)

-----------------------------------------------------------------------------
\* what the shell does without being told
ShellStep ==
    /\ \/ SaveStd \/ ApplyRedirects \/ RestoreStd
       \/ Pipe \/ Fork \/ ClosePipes \/ WaitReturns
    /\ UNCHANGED keeps

Stages ==
    \E p \in procs : StageStep(p) /\ UNCHANGED <<keeps, fds, frames, status>>

CmdNext ==
    \/ \E pl \in Pipelines :
          (RunsNothing(pl) \/ RunsInShell(pl) \/ StartPipeline(pl)) /\ UNCHANGED keeps
    \/ BodyEnds /\ UNCHANGED keeps
    \/ ShellStep
    \/ Stages
    \/ \E p \in procs : EndsEarly(p) /\ UNCHANGED <<keeps, fds, frames, status>>

(* The shell and the stages go on whenever they can; a stage that reads a  *)
(* pipe ends, for certain, only at its end of file.                        *)
CmdSpec == CmdInit /\ [][CmdNext]_cmdvars /\ WF_cmdvars(ShellStep) /\ WF_cmdvars(Stages)

-----------------------------------------------------------------------------
\* what stream k is while the redirects of fr are in force
Outer(fr, k) ==
    LET set == {n \in DOMAIN fr : fr[n].cmd.redir[k] # None} IN
    IF set = {} THEN Inherited(k) ELSE File(fr[Max(set)].cmd.redir[k])

Copies(f) == {f.saved[k] : k \in Std} \ {NoFd}

(* Between commands, and while the body of one runs, the shell's standard  *)
(* streams are those of the innermost redirects in force; every other      *)
(* descriptor is the one the shell keeps, a copy one redirect_restore will *)
(* close, or an end of the pipeline being forked, whatever failed before.  *)
DescriptorsAccounted ==
    LET settled == frames = <<>> \/ Top.phase = "body" IN
    /\ settled => \A k \in Std : fds[k] = Outer(frames, k)
    /\ \A n \in DOMAIN frames : \A k \in Std :
          frames[n].saved[k] # NoFd =>
              fds[frames[n].saved[k]] = Outer(SubSeq(frames, 1, n - 1), k)
    /\ \A m, n \in DOMAIN frames : m # n => Copies(frames[m]) \cap Copies(frames[n]) = {}
    /\ OpenFds(fds) =
          Std \cup KeptFds \cup job.fds \cup UNION {Copies(frames[n]) : n \in DOMAIN frames}
    /\ \A fd \in KeptFds : fds[fd] = KeptOpen

(* A stage runs with the streams its text names: its own redirect before   *)
(* the pipe, the pipe before what the shell had.  No end of a pipe and no  *)
(* copy of a stream reaches a program it executes: beyond its streams that *)
(* holds the script when there is one, which fopen does not mark (main.c), *)
(* and nothing else.  A builtin also has what the shell holds.             *)
WiredAsWritten ==
    \A p \in procs : p.pc = "run" =>
        /\ \A k \in Std :
              p.table[k] =
                  IF p.cmd.redir[k] # None THEN File(p.cmd.redir[k])
                  ELSE IF k = 0 /\ p.i > 1 THEN ReadEnd(p.id, p.i - 1)
                  ELSE IF k = 1 /\ ~p.last THEN WriteEnd(p.id, p.i)
                  ELSE p.outer[k]
        /\ OpenFds(p.table) =
              Std \cup PassedOn \cup (IF InShell(p.cmd) THEN p.cloexec ELSE {})
        /\ \A fd \in PassedOn : p.table[fd] = Script

(* "Every spare copy of a write end must go or no reader ever sees EOF":   *)
(* a foreground pipeline of readers that wait for it comes to its end.     *)
PipelineEnds == job.at = "wait" ~> job.at = "done"
=============================================================================
