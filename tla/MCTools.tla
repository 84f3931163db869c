------------------------------- MODULE MCTools -------------------------------
(***************************************************************************)
(* The parts of the shell that take the foreground one at a time and share *)
(* no state: a behaviour is one of them, the others at rest.  Sizes are    *)
(* scaled down where a bound is compared with another, and are those of    *)
(* the code in netmon.                                                     *)
(***************************************************************************)
EXTENDS Emulator, EmuLoop, Cpu, Elf, Netmon, Command

VARIABLE tool

toolvars == <<tool, vars, loopvars, cpuvars, elfvars, nmvars, cmdvars>>

-----------------------------------------------------------------------------
(* Pipelines: a redirected function that runs others, redirects that fail, *)
(* three stages, and a job in the background.                              *)
Cmd(what, in, out, err) ==
    [what |-> what, redir |-> [k \in Std |-> CASE k = 0 -> in [] k = 1 -> out [] k = 2 -> err]]
Plain(what) == Cmd(what, None, None, None)
Fg(cmds) == [cmds |-> cmds, background |-> FALSE]
Bg(cmds) == [cmds |-> cmds, background |-> TRUE]

MCPipelines ==
    {Fg(<<Plain("badword")>>), Fg(<<Plain("empty")>>),
     Fg(<<Cmd("builtin", "a", "b", Bad)>>),
     Fg(<<Cmd("function", None, "c", "d")>>), Fg(<<Plain("function")>>),
     Fg(<<Plain("external"), Cmd("external", None, "e", None), Plain("function")>>),
     Bg(<<Plain("function")>>)}

-----------------------------------------------------------------------------
(* Frames: every length and field that sits at an edge of another.         *)
Fields ==
    [len : {13, 14, 33, 34, 41, 53, 54, 60, 70}, ether : {"ipv4"}, version : {4},
     ihl : {4, 5, 6, 15}, total_len : {19, 20, 24, 28, 40, 46},
     protocol : {"tcp", "udp", "icmp"}, doff : {4, 5, 6}, ulen : {7, 8, 20}, ports : {{80}}]

MCFrames ==
    {f \in Fields : (f.protocol = "tcp" \/ f.doff = 4) /\ (f.protocol = "udp" \/ f.ulen = 7)}
    \cup {[f EXCEPT !.ether = "other"] :
             f \in {f \in Fields : f.ihl = 4 /\ f.protocol = "icmp"}}

AnyFilter == [proto |-> "all", port |-> -1]
MCFilters == {AnyFilter, [proto |-> "tcp", port |-> 80], [proto |-> "udp", port |-> 53]}

-----------------------------------------------------------------------------
(* Files: one field of the header off the base at a time, and sections     *)
(* that end before, at and past the end of the file or wrap.               *)
Base == [shoff |-> 2, shnum |-> 2, shentsize |-> 2, shstrndx |-> 1,
         phoff |-> 1, phnum |-> 1, phentsize |-> 1]

MCHeaders ==
    {[Base EXCEPT !.shoff = v] : v \in {0, 3, 9}}
    \cup {[Base EXCEPT !.shentsize = v] : v \in {0, 1, 2, 3}}
    \cup {[Base EXCEPT !.shnum = v, !.shstrndx = w] : v \in 0 .. 2, w \in 0 .. 2}
    \cup {[Base EXCEPT !.phoff = v, !.phnum = 2] : v \in {5, 9}}
    \cup {[Base EXCEPT !.phentsize = 0]}

MCSections ==
    [type : {"STRTAB"}, offset : {0, 4}, size : {2, 6}, entsize : {0}, link : {0}, name : {1}]
    \cup [type : {"NOBITS", "other"}, offset : {3}, size : {3, 9}, entsize : {0}, link : {0},
          name : {1}]
    \cup [type : {"SYMTAB"}, offset : {4, 9}, size : {2, 3}, entsize : 0 .. 2, link : 1 .. 2,
          name : {0}]
    \cup [type : {"DYNSYM"}, offset : {5}, size : {1}, entsize : {1}, link : {0}, name : {0}]

MCSegments == [offset : {0, 6}, filesz : {0, 1}]

-----------------------------------------------------------------------------
ToolsInit ==
    /\ tool \in {"commands", "emu", "loop", "cpu", "inspect", "netmon"}
    /\ Init /\ LoopInit /\ CpuInit /\ ElfInit /\ NmInit /\ CmdInit
    /\ tool # "netmon" => filter = AnyFilter /\ ~g_stop
    /\ tool # "commands" => keeps = "nothing"

Turn(t) == tool = t /\ UNCHANGED tool

ToolsNext ==
    \/ /\ Turn("commands") /\ CmdNext
       /\ UNCHANGED <<vars, loopvars, cpuvars, elfvars, nmvars>>
    \/ /\ Turn("emu") /\ Next
       /\ UNCHANGED <<loopvars, cpuvars, elfvars, nmvars, cmdvars>>
    \/ /\ Turn("loop") /\ LoopNext
       /\ UNCHANGED <<vars, cpuvars, elfvars, nmvars, cmdvars>>
    \/ /\ Turn("cpu") /\ CpuNext
       /\ UNCHANGED <<vars, loopvars, elfvars, nmvars, cmdvars>>
    \/ /\ Turn("inspect") /\ ElfNext
       /\ UNCHANGED <<vars, loopvars, cpuvars, nmvars, cmdvars>>
    \/ /\ Turn("netmon") /\ NmNext
       /\ UNCHANGED <<vars, loopvars, cpuvars, elfvars, cmdvars>>

\* at rest no part has a step it must take, so the fairness of one binds no other
ToolsSpec ==
    /\ ToolsInit /\ [][ToolsNext]_toolvars
    /\ WF_vars(Loop) /\ WF_vars(HandlerReturns)
    /\ WF_nmvars(NetmonStep)
    /\ WF_cmdvars(ShellStep) /\ WF_cmdvars(Stages)
=============================================================================
