# nullsh in TLA+

nullsh is a Unix shell in C with a heap of its own (`nsh_malloc`), an
interpreter, job control, a line editor and three built-in tools: a CHIP-8
emulator, a packet monitor and an ELF inspector. This directory holds TLA+
modules of its core logic, the TLC configurations that check them on small
instances, and proofs checked by TLAPS.

`PROJECT.json` is the index: the components and their modules, the runs, the
source lines behind every definition, one mutation of the code for every checked
property, the hazards the properties are aimed at, and the theorems. Paths such
as `src/alloc/firstfit.c` below are relative to the repository.

    tlc -config MCStrategies.cfg MCStrategies.tla  # one run
    tlapm FirstFitProofs.tla                       # the proofs

## The system

| Part | State | Operations | What is hard | What makes it correct |
|---|---|---|---|---|
| first fit (`src/alloc/firstfit.c`) | boundary-tagged blocks in one arena | init, alloc, free, usable size, stats | sizes that wrap, merging through footers, stale tags in payloads | blocks tile the arena, nothing mergeable is left, used blocks are the held ones |
| buddy (`src/alloc/buddy.c`) | a header per block, one list per order, counters | the same | stale headers at buddy offsets, split and merge cascades | lists, headers and counters agree, blocks partition the region |
| heap front end (`src/alloc/alloc.c`) | two arenas, active strategy, guards, totals | `nsh_malloc`, `calloc`, `free`, `realloc`, `set_strategy` | realloc in place or across arenas, second frees, damaged guards | guards accept exactly the live blocks, payloads are disjoint |
| job table (`src/shell/jobs.c`) | jobs with pids, state, `nleft` | add, update, reap_notify, lookups | events of several stages in any order | an id names one job, DONE means over |
| signals, spawn, exec, prompt reap, fg and bg | SIGCHLD flag, process groups, owner of the terminal | reap cycle, fork a pipeline, wait, hand the terminal over and back | the shell against its children, the keyboard and its own handler | no child lost, the terminal comes back, finished jobs are announced |
| evaluator, functions (`eval.c`, `func.c`) | C stack, flow state, depths, SIGINT watch | one function per node kind, calls, flow builtins | unwinding by flags through any nesting | a line means what its structure says |
| lexer, parser (`lexer.c`, `parser.c`) | none: text to tokens to a verdict | scan, parse | unfinished against wrong, tokens across line breaks | the language of the manual, the same verdict line by line |
| prompt and stream loops (`run.c`) | gathered text, `last_status` | read a line, feed, give up | an unfinished construct over several lines | every text is run, continued or rejected |
| line editor, history (`edit.c`, `history.c`) | key decoder, line and cursor, recall, ring, file | feed a byte, apply a key, add, load, save | keys that arrive byte by byte, a full ring, a torn file | keys do what the manual says, history survives |
| raw mode and emulator loop (`term.c`, `emu.c`) | saved modes, `raw_active`, `g_resume` | enter and leave raw mode, SIGTSTP and SIGCONT handlers | stopped between any two system calls | the terminal is given back as found |
| word expansion, redirections | words; saved descriptors | expand, apply, undo | failures half way | the shell's own descriptors come back |
| CHIP-8 cpu | registers, stack, timers | step | stack and memory bounds | no access outside the machine |
| netmon | stop flag, counters, frame | capture loop, decode, filter | truncated frames, SIGINT against `recv` | no read beyond the frame |
| inspect | an ELF image in memory | bounded reads of headers and tables | offsets that overflow | no read beyond the image |

**How they interact.** The shell is one thread; its parts call each other
directly: `main` loads the history and enters `run_interactive`, which in turn
reaps children, reads a line through the editor, lexes and parses what it has
gathered, and walks the tree; the walk forks pipelines, waits for them and files
jobs; every part allocates from the heap. Concurrency comes from outside the
thread: child processes and their wait events, the SIGCHLD, SIGINT, SIGTSTP and
SIGCONT handlers (which write one flag each, and in the emulator restore the
terminal), and the keyboard. The state they share is the flags, the terminal
(its foreground group, and its modes) and the history file, which outlives the
process.

## The modules

### The heap

`AbstractHeap` is the contract of `AllocStrategy` in `internal.h`: blocks handed
out lie in the arena, are large enough, do not overlap and do not move or
shrink. It says nothing of how room is found, nor when an allocation may fail.

`FirstFit` is `firstfit.c`. `mem` is the memory in 16-byte cells (one `FfTag`
each), so headers and footers are cells among the payloads: `ff_prev` reads
whatever cell lies below a block. `Write` turns the payload of a held block into
data; until then whatever tags earlier blocks left there can still be read. Requests stay in bytes and `size_t` wraps at
`SizeMax`. `starts` is auxiliary: the set of addresses the walk visits. It never
decides what the code does except to bound the choice of the first fitting
block, and the invariant `StartsAreTheWalk` checks that it is what `ff_next`
visits, computed from `mem` alone. `asked` records what each caller asked for.

`Buddy` is `buddy.c`, with a header at every offset a block can start at, so
that the stale ones stay readable, and one list per order. Split and merge
cascades are recursive functions inside one action, as they are one call in the
code.

`NshHeap` is `alloc.c` over both: it instantiates `FirstFit` and `Buddy` and
adds the guard below each payload, the trailing canary, poisoning, the totals
and every `abort`. The guard occupies a cell of the strategy's block, so a later
split, merge or free-list link really overwrites it, which is what the detection
of second frees depends on. `nsh_realloc` that moves is two actions,
`ReallocAllocates` and `ReallocReleases`: nothing else runs between them, but with
both blocks live at once the invariants have to hold there too, and the release
has to find the guard of the old block as the allocation left it. Callers can also write past or before a block (`Overflow`,
`Underflow`), present any stale pointer, and switch the strategy. `UserHeap` is
what `alloc.h` promises: malloc, free and realloc in one step each. `alloc.c` is
shown to implement it with the half-moved block hidden. `nsh_calloc` is
`nsh_malloc` for these properties; a failing `mmap` aborts and is left out.

### Jobs

`JobTable` is `jobs.c` as operators on the sequence of jobs. `Kernel` is the part
of the system the code relies on, modelled from the calls the shell makes: fork,
setpgid, tcsetpgrp, kill, waitpid's three kinds of report, SIGCHLD, a terminal
that sends Ctrl-C and Ctrl-Z to its foreground group and SIGTTIN to others.
`JobControl` is the shell over both: `pc` is the place between two system calls,
or two accesses to the SIGCHLD flag, and at each of them any process may end,
stop or continue and any key may be pressed. Forking is one action per stage, so
a stage may end before the next is forked and a fork may fail half way
(`ForkFails`); the wait is one action per waitpid answer, and the announcement of finished
jobs one action per job dropped (`NotifyOne`).

### The evaluator

`Eval` is `eval.c` with its C stack made explicit: a frame per active call of an
`eval_*` function, one action per return to a caller, the flags (`flow`,
`want_exit`), the depths and the SIGINT watch in `sh`. Words expand when a command
runs, so what a command turns out to be is chosen at that moment: a pipeline
with any status, a flow builtin, `exit`, or a call. `EvalReference` gives the
meaning of a line as a recursive function on its tree, as the manual tells it,
with no flags: constructs end with a reason and the constructs around decide
what to do with it. `LineMeansWhatItSays` compares the two at the end of every
line, over the recorded outcomes of its commands.

### The prompt

`HistoryRing` is the ring and the file of `history.c`; `LineEditor` is the edited
line, the byte-by-byte key decoder and the recall of `edit.c`; `Prompt` joins them
with the loop of `edit_read_line`, the recording of submitted lines (`run.c`) and
load and save (`main.c`). Keys arrive as the bytes a terminal sends, one byte a
step; a shell may hang up between any two bytes, meet a full disk or die while it
saves, or an error while it loads, each of which leaves some lines with the last cut short (`TornLines`), and another is started on the file it left. `PromptContract` is what the
manual says: a line split at the cursor, what each key does to it, a draft Down
comes back to, and a history without immediate repeats. Bytes, rings and slots
do not occur in it.

`Lexer`, `Parser` are `lexer_scan` and the recursive descent of
`parser_parse_program` as recursive operators, token by token and production by
production; the tree is left out, the verdict, the position and the kind of node
(which decides where `&` may stand) are kept. `Grammar` says declaratively when a
stretch of tokens is a command, a pipeline, a list, with no reading order.
`Repl` types every text over a session's chunks into the loops of `run.c`,
breaking lines everywhere.

### Words

`Expand` is `expand_word`: the runs of a word from left to right, with the
look-ahead of `expand_segment` over the dollar forms. `ExpandReference` says what a
run means without reading it in order: it marks where dollars begin a form, and
puts a value in place of each. `Repl` applies both to every word of what was
typed, in three contexts (values that hold a dollar themselves, names that are prefixes
of others, no `HOME`, no parameters).

### Pipelines and descriptors

`Command` is `exec.c` and `redirect.c` seen through descriptor tables. The shell starts in one of three
ways (`keeps`): at the prompt, with a copy of the terminal that is marked close-on-exec; in a script, with the
script's descriptor, which is not; with commands on standard input, or when the terminal could not be
copied, with neither. The tables are the
shell's own, which `save_std`, `redirect_apply` and `redirect_restore` rearrange around a
builtin or a function, and one per forked stage, wired by `run_stage`. Frames of
redirected functions nest. Every descriptor call may fail as the system can make it
fail: no free descriptor for a copy or a pipe, a file that does not open, a word that does not
expand, a fork that fails after others, a program that does not exist or may not be executed (127 and 126, not told apart). What a program does is a
read of its standard input to the end: a stage whose input is a pipe ends for
certain only when no table holds the writing end.

### The terminal and the emulator

`Terminal` is `term.c`, one action per system call or assignment, because
`term_emergency_restore` runs inside a signal handler between any two of them.
`Emulator` is the loop of `emu.c`, its handlers, and the line editor taking its
turns with the same `term.c`. The stop and what happens outside while stopped are
actions of the environment. Entering raw mode may fail at each call; putting back
modes that were saved is taken to succeed, as the code takes it.

`EmuLoop` is the same loop as a machine in time: the clock, the keys and the releases
made up for them, the two accumulators. The clock may advance between any two
steps, by much when the process is stopped. `Cpu` is one `cpu_step` per action over
an arbitrary opcode and arbitrary registers; it keeps what decides where the cpu
looks next. The three modules abstract the same function differently and are
checked apart: `Emulator` has no time, `EmuLoop` no terminal, `Cpu` neither.

### netmon and inspect

`Netmon` is the capture loop with the SIGINT handler it borrows, one action per
access to `g_stop` or the socket, so that Ctrl-C falls between any two; a frame is
the lengths and fields that `decode.c` tests, one of no bytes is skipped uncounted (`RecvEmpty`), and each step of decoding says how
far it looked. `Elf` is `elf_open` and `elf_close`, one action per record of a
table: whatever the file holds is a choice of the step that reads it. `reads` are
the bytes that step looked at and `live` the allocations; both are auxiliary.

`MCTools` puts these side by side. They share no state, so a behaviour runs one
of them, chosen at the start; `MCStrategies` does the same for the two strategies of the heap.

## The runs

| Run | What it asks | Bounds |
|---|---|---|
| `Strategies` | every mix of allocations, frees and payload writes keeps tags, tiling and merging, lists, headers and counters; an emptied arena is whole again; both strategies implement `AbstractHeap` | first fit: 10 cells, three minimal blocks with room to split and merge on both sides; sizes 0, 17 and one that wraps at `SizeMax` = 255. Buddy: 256 bytes with the state in the first 32: seeds of orders 5, 6, 7, sizes for each, one too large for any block, one for the arena |
| `NshHeap` | guards accept exactly live undamaged pointers, nothing of a strategy is overwritten, totals balance, nothing stays split when all is given back, second frees are named, `UserHeap` is implemented | 12 cells and 256 bytes; requests of 0, 24, 25 (the last that fits and the first that must move) and one that wraps; three allocations, one damage |
| `JobControl` | the table against the processes, the terminal, and the waits | three process ids, pipelines of one or two stages: a pipeline and another job, or three jobs |
| `JobControlRace` | finding: a SIGCHLD lost between read and clear | one process |
| `JobControlNleft` | finding: a stopped pipeline that never becomes done | two processes, two stages |
| `Eval` | flags unwind as structured control flow would, depths are exact, exit reaches the prompt | five lines with every node kind; three recorded commands or signals a line; recursion cap 2 |
| `EvalKilled` | finding: a killed pipeline does not stop its loop | the same |
| `Prompt` | editor, decoder, recall, ring and file implement `PromptContract` | lines of two characters, one blank; a ring of two; one submitted line a behaviour over any number of shells, on an empty file or one of four lines, so the ring is full and wraps; one pending digit |
| `PromptJunk` | finding: keys the editor does not know type characters | the same |
| `Repl` | the parser accepts the manual's grammar and nothing else; line breaks change nothing; an unfinished text has a completion when joined to it without a newline; words expand as written | thirteen alphabets of chunks, each with room for its shortest complete construct |
| `ReplEscape` | finding: an escaped dollar is expanded | one alphabet, five characters |
| `Tools` | descriptors come back and pipelines end; the terminal is given back as found, stops are sane, raw mode comes back; the cpu stays in memory and the loop on time; the ELF reader stays in the file and gives back what it took; netmon stays in the frame, counts, stops | see below |

The bounds of `Tools`. Pipelines: nine descriptors. At the prompt, and in a script, the shell
keeps one of them and five are free: one redirected function takes three copies, and those of a second
inside it run out after two; of a pipeline of three stages the first pipe takes two, and inside a
redirected function the second finds none. With commands on standard input nothing is kept and six are free: two nested
redirected functions take them all, so that neither a redirect inside nor a pipe finds a descriptor. Three stages; a job in
the background beside the foreground; seven pipelines with each kind of command and each
outcome of a redirect; one exit status besides 127. Emulator: three stops, one during the handling of another, and one after. Loop: seven
ticks with a step of 2, a timer and a hold of 3 and a catch-up of 4, so that a pass owes none, one
or several, and a pause exceeds the catch-up. Cpu: six bytes of memory, widths that wrap at ten, a stack of
two. ELF: integers below ten, files of one and six bytes, records of one and two, headers that put
every table before, at and past the end, or wrap. Netmon: the real sizes of headers, with
every length at, below and above each edge, three frames.

Beyond the bounds the state only repeats: a fourth block, job or key meets the
same neighbours, and the interesting limits (a request that wraps, an order with
no block, a full ring, the recursion cap, no free descriptor, a full stack) are each
inside. Where a theorem is listed below no such argument is needed.
In `Repl` the two-clause and nested forms of each construct fit their sessions;
constructs that mix more alphabets than a session has are not covered.

What the properties say, beyond the contracts:

- `WellTagged`, `HeldBlocks`, `StartsAreTheWalk` (first fit); `ListsCoverHeap`,
  `MergedAndCounted` (buddy). The memory is the only truth: the properties compare what
  a walk or the lists find with what callers hold. The last includes `EmptyHeapIsSeeded`: an arena
  whose blocks all came back is as its init function left it. `CountersBalance` says so of
  both arenas under `alloc.c`, from the totals alone (`AllGivenBack`).
- `GuardsTellTheTruth`: `guard_check` passes exactly for live, undamaged pointers,
  stale pointers into reused memory included. `DoubleFreeIsNamed` is the comment
  of `alloc.c` on the marker a first-fit free leaves behind. `ArenasIntact` says
  that guards, canaries and poison stay inside their block and never reach the strategy's own tags.
- `NoLostChild`: at the prompt every uncollected child is in exactly one job.
  `JobsTellTheTruth`: DONE means over and, for jobs of one process, `nleft` and the
  state are exact. It is limited to one process there because longer pipelines
  break it (`JobControlNleft`). `FlaggedDoneIsAnnounced` is what is left of the
  comment of `signals.c` once the lost SIGCHLD is excluded.
- `DepthsCountFrames`, `NothingStartsWhileHalted`, `ExitUnwinds`: flags never
  leak from a construct, start nothing, and reach whoever waits for them.
- `LinesReadAlike`: any semicolon may be a newline, a program cut there is never
  rejected early, and lexing the gathered text again gives the tokens it gave
  before. `UnfinishedCanComplete`: a text whose last token is no redirect is called unfinished
  only when some tokens, put right after it, complete it. The shell joins the next line with
  a newline instead, and there the promise is weaker: see `parser.c:201` below.
- `DescriptorsAccounted`: between commands, and inside a redirected body, the standard
  streams are those the text in force names, and every other open descriptor has an
  owner that will close it, or is the one the shell keeps. `WiredAsWritten` is the same for a stage when its
  program starts: no end of a pipe and no copy of a stream reaches a program, nor anything else of
  the shell but the script. `PipelineEnds` is the comment of `run_stage` on spare write ends.
- `CaptureAccounted`, `CaptureStops`: no byte past the frame is looked at, each packet is
  counted once, everything borrowed is given back, and Ctrl-C ends the capture unless
  it falls in the one window between the test of the flag and `recv`.
- `ReadsInFile`, `GivesBack`, `StaysInMemory`, `LoopKeepsTime` are proved, below.
- `LeavesTerminalAsFound`, `StopsSane`, `RawComesBack`: see the windows below.

### Fairness

- `JobControl`: weak fairness of the shell's own steps (`Prompt`, `Foreground`): it is
  one thread that nothing blocks except where the model says so. Strong fairness
  of each process's exit: a process that keeps being continued ends in the end; without
  it a foreground command may simply run for ever. Strong fairness of `EmptyLine`
  (the user returns to the prompt and presses Enter again and again), which only
  the announcement properties need: jobs are announced before a prompt.
- `Eval`: weak fairness of `Walk`, the interpreter's own steps. The outcome of a
  command is not under fairness.
- `Emulator`: weak fairness of the loop's and the handler's own steps. Nothing
  promises that anybody continues a stopped shell, or presses a key.
- `Command`: weak fairness of the shell's own steps, and of the stages: a stage
  that no pipe keeps waiting ends. A stage that reads a pipe ends, for certain, only
  at its end of file, so the fairness says nothing of it before.
- `Netmon`: weak fairness of what needs neither the network nor the user. No
  frame and no Ctrl-C is under fairness.

`CHECK_DEADLOCK FALSE` stands in `MCRepl.cfg`, `MCReplEscape.cfg` and `MCTools.cfg` only: there a
session, a capture or a file that has ended has no next step. The other modules give a finished shell a
stuttering action of its own, so that any other halt is reported.

## What is proved

| Module | Theorem | Statement |
|---|---|---|
| `FirstFitProofs` | `Invariance` | `Spec => []IInv` |
| | `TypeCorrect` | `Spec => []TypeOK` |
| | `WellFormed` | `Spec => []WellTagged` |
| | `HeldBlocksSafe` | `Spec => []HeldBlocks` |
| | `NoFragmentationLeft` | `Spec => []EmptyHeapIsWhole` |
| | `WalkSeesTheBlocks` | `Spec => []StartsAreTheWalk` |
| | `Refinement` | `Spec => ContractSpec`: first fit implements `AbstractHeap` |
| `BuddyProofs` | `Invariance` | `BuddySpec => []BuddyInv` |
| | `HeapIsCovered` | `BuddySpec => []ListsCoverHeap` |
| | `MergedAndCountedAlways` | `BuddySpec => []MergedAndCounted`, which has `EmptyHeapIsSeeded` as a part |
| | `BuddyRefinement` | `BuddySpec => BuddyContract`: the buddy system implements `AbstractHeap` |
| `HeapProofs` | `Invariance` | `Spec => []HeapInv` |
| | `OnlyLiveBlocksPass` | `Spec => []GuardsTellTheTruth` |
| | `TotalsBalance` | `Spec => []CountersBalance`, which has `AllGivenBack` as a part |
| | `DoubleFreeNamed` | `Spec => []DoubleFreeIsNamed` |
| | `BookkeepingUntouched` | `Spec => []ArenasIntact` |
| | `InterfaceKept` | `Spec => UserContract`: the guarded heap implements `UserHeap` |
| `ToolsProofs` | `ElfReadsInFile` | `ElfSpec => []ReadsInFile` |
| | `ElfGivesBack` | `ElfSpec => []GivesBack` |
| | `CaptureAccountedFor` | `NmSpec => []CaptureAccounted` |
| | `CpuInMemory` | `CpuSpec => []StaysInMemory` |
| | `LoopTimeKept` | `LoopSpec => []LoopKeepsTime` |
| | `TerminalLeftAsFound` | `Spec => []LeavesTerminalAsFound` |
| | `StoppedSane` | `Spec => []StopsSane` |
| `EvalProofs` | `DepthsExact` | `Spec => []DepthsCountFrames` |
| | `NothingStarts` | `Spec => NothingStartsWhileHalted` |
| `JobControlProofs` | `TypeCorrect` | `Spec => []TypeOK` |
| | `TerminalComesBack` | `Spec => []TerminalOwner` |
| | `ChildrenAreKept` | `Spec => []NoLostChild` |
| | `TableIsTrue` | `Spec => []JobsTellTheTruth` |
| `CommandProofs` | `DescriptorsKept` | `CmdSpec => []DescriptorsAccounted` |
| | `StagesWired` | `CmdSpec => []WiredAsWritten` |
| | `PromptHoldsNothing` | between commands the shell holds its three streams, each on what it was, and what it kept from its start |
| `PromptProofs` | `TypeCorrect` | `Spec => []TypeOK` |
| | `PromptRefinement` | `Spec => ContractSpec` if `Speaks(KeyBytes)`: decoder, editor, recall, ring and file implement `PromptContract` |

Each holds for every value of the constants that satisfies the named assumptions
of its module, which say no more than that sizes are numbers of their kind.

**First fit.** The inductive invariant is
`IInv == TypeOK /\ BoundaryTags /\ Tiled /\ Coalesced /\ HeldBlocks`. None of its parts
is inductive by itself. `ff_free_block` merges downwards through the footer below the
block, so tags stay right only if that cell is a footer and not caller data:
this is `BoundaryTags` and `Tiled` together. Merging once on each side suffices only
if no two free blocks touched before (`Coalesced`). A write goes to a payload only
if the held pointers are the used blocks (`HeldBlocks`). The argument per action:
`TotalBounds` is the arithmetic of a request (no wrap, at least a minimal
block, enough payload); `AllocInv` splits or takes the chosen block;
`PrevBlock` and `NextBlock` identify what the footer below and the header above
are, and `FreeInv` merges with neither, either or both; `WriteInv` shows payload
cells are nobody's tags. `NextInv` joins them. `Refinement` maps each action to
the contract's: allocation's disjointness follows from `Tiled`, stability from
tags of other held blocks staying as they are.
`NoFragmentationLeft` follows from `IInv` alone: with nothing held every
block is free, neighbours cannot both be, and the blocks tile.
`WalkSeesTheBlocks` does too. The walk is a recursive function on addresses; that it exists and
visits every block from any block on (`WalkFrom`) is shown by the address nearest to the end of the arena where it
would fail, `Tiled` giving the next one. What `ff_stats` adds up are the sizes of sets of cells (`Room`, a block's own),
which are disjoint and cover the arena (`SumIsRoom`, `StatsAdd`), and the live blocks are
the held pointers shifted by the header (`LiveCounted`).

**Buddy.** The invariant `BuddyInv` says that the blocks, free and held, tile the region by aligned
cells of a power of two (`Tiles`), that each free list names its blocks once and their headers say free of
that order (`ListsOk`), that no two buddies are both free, and that the counters are the sums over the blocks.
`buddy_free_block` looks at the header found at the buddy's offset and at nothing else, so merging is right only if a
header that says free of order k, found at a multiple of 2^k in the region, is a block on list k. It is not when
a caller's data reads like one: `BuddyIsBlock` shows that the offset cannot be inside a held block, because the
block that is being freed tiles the other half. `MergedCell` and `MergedStart` walk up the merged orders,
`MergedTiles` and `SplitTiles` exchange one cell for its halves and back, and the counters follow from the
weights of disjoint unions (`WeightAdd`, `WeightRest`). What arithmetic knows of 2^k comes from counting subsets
(`PowerNext`, `PowerSum`). The refinement is in units of 16 bytes, where a block of 2^k bytes is
a header and a payload of the rest. `EmptyIsSeeded`: a region tiled without free buddies and with nothing held
is the seeds (`OnlySeedsTile`): take a smallest block that does not start at its own size. Its buddy lies in the region, so
by `BuddyIsBlock` a block starts there, of the same order, which merging excludes, or of a smaller one that is not a seed either.
Its theorems name `ArenaAssumption` as a hypothesis: the region starts at a
power of two of at least 32 bytes, inside the arena.

**The heap front end.** `HeapProofs` reuses both strategies' proofs. First fit does not see guards, so its lemmas are
instantiated for `View`, the memory with everything that is not a tag scrubbed to data; since scrubbing and writing
tags commute (`ScrubMark`), what `ff_alloc` and `ff_free_block` do to `View` is what the strategy alone would do, and
`AllocTagsInv` and `FreeTagsInv` of `FirstFitProofs` (stated of any memory with the same tags) give its invariant back.
`FirstFitGuards` and `BuddyGuards` say that each block handed out has its guard in its first cell with payload and
canary inside, and that no other cell reads as a guard. That is what `guard_check` relies on, and it is inductive only
with the strategies' invariants: the poison of `block_release` stays inside the block (`PoisonFits`) because
the recorded size fits it, the recorded size fits because a resize in place asks `alloc_usable_size` first, and
no tag of a neighbour lands on a guard because tags stand only at the ends of blocks (`NoEdgeInside`).
`MarksBuried` says where a freed mark survives: strictly inside a free block, which later
frees can only make larger, until first fit allocates. `Books` relates the totals to the live blocks; with both
strategies' invariants it gives `AllGivenBack`, since totals that meet mean that nothing is held in either arena. `NewCore`,
`ReleaseCore`, `RewriteCore` and `StayCore` are the four things a step does to all of this; each action is one of them.
For the interface, blocks are apart (`AllApart`) because the strategies' blocks are; the first half of a moving
`nsh_realloc` is a stutter, since the new block is not yet the caller's, and the second is the step callers see.
Assumed: `Span` and `SizeMax` are numbers, `SizeMax` above 64, requests at most `SizeMax`, and of the buddy region
what `BuddyProofs` assumes.

**The ELF reader.** `ElfInv` adds to `ReadsInFile` what each loop relies on: while it
runs the table it walks was checked as a whole (`BoundsInside`, from a product
that does not wrap, puts every record inside), sections already read that own
bytes lie in the file (which is all that makes the symbol table and its names safe
later), and what is allocated is what the counts make `elf_close` free. The array and
its count are set in one step; with the count not set (the mutant
`AllocSectionsUncounted`) the last part fails.

**netmon.** `DecodeInFrame` is about `Decode` alone: each header's length is tested against
what is left before the bytes behind it are read, the datagram's own length
included. `NmInv` adds who handles SIGINT and who holds the socket at each place,
that `g_stop` is fresh once the handler is installed, and a sum over the counters.

**The cpu.** `CpuInv` adds to `StaysInMemory` only types: `pc` and `i` may be anywhere
within 16 bits, as a jump or an addition leaves them, and each use is guarded
where it happens. The return addresses need a bound, because they were fetched from.

**The loop.** `LoopInv` carries the two sums (instructions owed, done and lost make up the time
of the last pass, and the same for ticks), the bounds of what is carried over a pass, and the
order of the times of keys against `now`, without which no key could be known fresh.

**The evaluator.** `TreeAssumption` says what the parser builds: the children of a node of each kind.
`WalkInv` splits the stack into the frame on top and the frames below, which all wait for a child
(`Waits`); a frame that is about to start something without a look at the flow state (`Fresh`) is
there only with no flow pending. That is what makes `Caught` inductive: a `break` appears only where a loop is
counted, nothing starts until it is caught, and a loop that is left by `exit` leaves no flow behind since
`exit` too ran with none pending. The cardinalities move by one frame at a time (`CountsAdd`), the moves
of the walk are lemmas of their own (`VisitKeeps`, `ReturnKeeps`, `ReturnFromLoopKeeps`, `LoopGoesOn`), and
the lemma of each action says which move it is. `NothingStarts` is an action property, from the same invariant.

**The terminal.** `EmuInv` says where `raw_active` may be trusted: outside `Windows` it is set or
the terminal is as found, which is what makes `saved` right when `Save` copies it and the restore of a
handler harmless at any other step; inside them, and while a handler runs, it is clear, so the
handler changes nothing that the interrupted step goes on to rely on. `CallersGoOn` ties the place where
a caller of `term.c` resumes to what it asked for: no caller that entered raw mode goes on as if it had left it.

**Job control.** There are two invariants. `JobInv` is about who is where: the processes of the table's
jobs and of the command at hand are apart from each other (`Sound`, `CommandInv`), every child is in one of the two
(`NobodyLost`), and `WaitInv` says what the wait has established up to stage `at`. No job is called
done too early because `nleft` is never below the number of its processes that are left (`Accounted`): an
end takes one from each. `nleft` may be above it, when `fg` collected an end that the table was not told
of; that gap is the finding on `nleft`. Kernel steps enter only through `Later` and `Calm`: no process
comes back or changes its group. `NextIdIsFree` is the pigeonhole argument behind `next_id`.
`TruthInv`, on top of it, is about jobs of one process: the table shows what was last reported (`Exact`), a
change not yet reported leaves an event behind (`Stirs`, `EventsFresh`), a pipeline has reported nothing before
it is filed (`Unreported`), and the entry of the job that `fg` waits for is excused until the wait is over
(`Resumed`, `WaitTells`). Each action has one lemma per invariant (`...Keeps`, `...Tells`).

**Pipelines and descriptors.** `TableOk` splits the frames into the one on top and those below, each of which is a
function that is running (`Calls`) and whose copies hold the streams as the frames under it left them (`Kept`).
The frame on top may be in the middle of saving, applying or putting back, and `Streams` says for each phase which
streams are already whose; what is open is the shell's own and the one it keeps (`KeptFds`), the ends of the pipeline at hand, and the copies.
A redirect or a pipe that fails only moves the frame or the pipeline to its last phase, from where the same
invariant undoes it. `JobOk` says that of each pipe made so far both ends are still open in the shell: a
stage is forked with them (`Unwired`), which is why `dup2` finds what the text names. `StageOk` follows the stage from there.

**The prompt.** `Session` is the type invariant with what bounds each part needs: the cursor in the line, the
recall index at most the count it was given, the ring's `start` and `len` in the capacity. It holds
for any keyboard, junk included. The refinement needs four correspondences. The ring is a sequence: entry i is in
slot (start + i) modulo the capacity (`SlotAt`), no two entries share one (`SlotsApart`), so placing
an entry at the end, or over the oldest, appends or drops the first (`PlacedIs`, `EvictedIs`, hence `AddRemembers`);
loading a file adds its lines one by one, and the first line where ring and history would differ does not
exist (`LoadRecovers`). The edited line is two halves (`Halves`), and each edit changes one of them; the two backward
loops of Ctrl-W stop where the contract's word begins (`KillWordIs`). Recall is a position in the same entries, and the
stash is the contract's draft. Last, bytes become a key: `Arriving` says that what has been fed of
the key at hand has put the decoder where the rest of its bytes will yield that key at the last one, and that with
no byte on its way the decoder rests on nothing or on a single Escape (`Resting`); `Between`, that away from the prompt no
line is being edited. Bytes before the last are stutters. The hypothesis `Speaks(KeyBytes)` is that the terminal sends what the decoder knows:
the bytes of a key of the manual name that key at the last one and nothing before, those of any other key nothing,
from rest or after an Escape. It cannot be dropped,
as `PromptJunk` shows. TLC evaluates it for the keyboard of the run (`KeyboardAssumption`).

Only model-checked: everything else. Liveness (`ForegroundReturns`,
`FlaggedDoneIsAnnounced`, `ExitUnwinds`, `RawComesBack`, `PipelineEnds`, `CaptureStops`) is outside the prover's
reach, and so is `ENABLED`. `Lexer`, `Parser`, `Grammar`, `Expand`, `Repl` and `EvalReference`
are RECURSIVE operators, about which the prover says nothing; what
they compute for every input would need induction over data. So
`AcceptsTheLanguage`, `LinesReadAlike`, `UnfinishedCanComplete`, `ExpandsAsWritten` and `LineMeansWhatItSays` rest on TLC alone.

## Findings

Five runs show the program doing other than its comments or manual say.

1. `JobControlRace` (`signals.c:55-57`): the comment calls a SIGCHLD between the
   read and the clear of the flag benign. It is lost, and with it the announcement:
   `reap_jobs` returns at `!fired` before its waitpid loop, until another child
   changes state.
2. `JobControlNleft` (`exec.c:313`, `exec.c:330`): a pipeline filed as stopped after
   some stages were collected expects all of them again; it never becomes DONE.
3. `EvalKilled` (`eval.c:181`): a loop stops for a pipeline killed by Ctrl-C only if
   it was the last command of the body; the manual promises it either way.
4. `PromptJunk` (`edit.c:230`): the decoder gives up an escape sequence at the
   first byte it does not know and takes the tail for typed characters; `edit.h`
   promises that junk never lands in the buffer.
5. `ReplEscape` (`lexer.c:197`, `lexer.c:171-173`): the character after a backslash joins a run
   that is expanded later, so `\$a` and `"\$a"` give the value of `a`; the manual
   (lines 120 and 130) calls it literal.

Observations that no run turns into a violated property:

- `term.c:81-93` and `108-116`: a SIGTSTP between the system call and the assignment to
  `raw_active` (either order) stops the shell with a raw terminal. `StopsSane`
  names the steps (`Windows`) and holds everywhere else.
- `emu.c:257`: a stop between the test of `g_resume` and the read that follows
  leaves that read waiting on a terminal that blocks, until a key is pressed and
  Enter after it. `RawComesBack` is therefore stated from the sleep and the test.
- A SIGTSTP before the write that hides the cursor can leave it hidden on exit. The
  cursor is in the model but nothing is promised of it.
- After SIGSTOP and SIGCONT, `raw_active` is still true, so a terminal that
  somebody reset meanwhile is not made raw again.
- `parser.c:201`, `parser.c:247`: the manual (lines 353-365) says that input ending after a redirect
  with no target, or after `!`, gets the continuation prompt, and that the next line is joined to
  it with a newline and the whole parsed again. The prompt is given, but that newline is
  a token, which neither a target nor a pipeline begins with: whatever is typed next is a
  syntax error. After `&&`, `||` and `|` newlines are skipped, and the next line does continue.
  `UnfinishedCanComplete` joins its completions without a newline, and leaves an
  open redirect out.
- `main.c:77`: the script is opened with `fopen` and not marked close-on-exec, and a stage closes the ends of
  its pipeline only (`exec.c:230`), so every program that a script executes inherits the script's
  descriptor. The model has it (`PassedOn`), and `WiredAsWritten` names it as the one exception.
- `netmon.c:124-125`: Ctrl-C between the test of the flag and `recv` is noticed with the next
  frame or the next Ctrl-C only. `CaptureStops` excludes it.
- `exec.c:349-352`: after a fork that fails half way the status of the pipeline is
  that of the last stage that was forked.

## Not modelled, and why

- The `heap` builtin, printing in `netmon` and `inspect`, the emulator's display and
  keypad tables: argument parsing and formatting.
- `util`: vectors, strings and the line reader are the sequences of the models; their
  allocation failures abort in `alloc.c`.
- `builtin.c`: `cd`, `export`, `unset`, `help`, `history`, `jobs` change no state
  the other parts read back; fg, bg and the flow builtins are modelled. The environment is
  a parameter of `Expand`.
- `exec.c`: building argv and the search along PATH (`Command` keeps their outcomes); `ast.c`, `func.c`: cloning of
  trees, which is memory management; `main.c`: a straight line of set-up.
- Positional parameters across calls of functions, subshell stages that themselves run pipelines
  (`spawn.c:25`), a shell started with a standard stream closed (`exec.c:223`), and reuse of
  process ids by the system (`jobs.c:58`).
- A file that another process truncates while it is mapped (`elf.c:142`): reading it raises SIGBUS,
  which no check of the code can prevent.
- A frame of another interface that arrives between `socket` and `bind` (`capture.c:39-58`): it is
  counted as any frame is.
- Registers, random numbers and the screen of the cpu: they are arbitrary in `Cpu`.

## Plan

The order is by how much the rest of the shell depends on a part and how far its
behaviour is out of a unit test's reach.

Done: the heap (three modules, two contracts), first fit proved; job control with
its kernel; the evaluator against its reference; prompt, editor and history against the
manual; the lexer, parser, expansion and read loops; pipelines and descriptors; the terminal, the
emulator loop and the cpu; netmon; the ELF reader; proofs of both strategies and of the heap over them, of the cpu, the emulator's loop and the
terminal, of netmon, the ELF reader, the evaluator, job control, of pipelines and descriptors, and of the prompt
with its editor and history.

Next, modules:

1. Nested shells in pipeline stages (`spawn.c:25`) and pid reuse in `Kernel`.
2. `cd` with `PWD` and `OLDPWD` when a step of it fails, and the environment behind `Expand`.
3. Positional parameters of nested calls in `Eval`.

New questions join the run of the module they belong to, or replace a weaker
property of it, so that the number of runs stays what it is.

Next, theorems:

1. A part of `LineMeansWhatItSays`. The meaning of a line need not exist for every tree (a `while` whose
   condition runs nothing does not end), so it would have to become a relation between a node and
   the stretch of the log it used, with an invariant that ties each frame to what its finished children meant.
2. `JobsTellTheTruth` for pipelines of several stages, should `exec.c:313` be changed to file what is left.
