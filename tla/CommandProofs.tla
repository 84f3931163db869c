---------------------------- MODULE CommandProofs ----------------------------
(***************************************************************************)
(* DescriptorsAccounted and WiredAsWritten for every table of descriptors, *)
(* every nesting of functions and every set of pipelines.                  *)
(***************************************************************************)
EXTENDS Command, TLAPS, FiniteSetTheorems, SequenceTheorems, WellFoundedInduction

FramePhases == {"save", "apply", "body", "restore"}

FrameRecords == [cmd : Commands, phase : FramePhases, k : Std, saved : [Std -> Fds \cup {NoFd}]]

\* how far the copies of a frame are made, or put back
CopiesMade(f) ==
    /\ HasRedirect(f.cmd) \/ f.phase = "body"
    /\ f.phase = "save" => \A j \in Std : f.saved[j] # NoFd <=> j < f.k
    /\ f.phase \in {"apply", "body"} => f.k = 0
    /\ f.phase \in {"apply", "body"} /\ HasRedirect(f.cmd) => \A j \in Std : f.saved[j] # NoFd
    /\ ~HasRedirect(f.cmd) => \A j \in Std : f.saved[j] = NoFd
    /\ f.phase = "restore" => \A j \in Std : j < f.k => f.saved[j] = NoFd
    /\ \A i, j \in Std : f.saved[i] = f.saved[j] /\ f.saved[i] # NoFd => i = j

Held(fr) == UNION {Copies(fr[n]) : n \in DOMAIN fr}

\* under the frame on top there are functions that run
Calls(fr) ==
    \A n \in DOMAIN fr :
        CopiesMade(fr[n]) /\ fr[n].phase = "body" /\ fr[n].cmd.what = "function"

\* the copies of f hold the streams as the frames g below it left them
Holds(f, g, t) == \A k \in Std : f.saved[k] # NoFd => t[f.saved[k]] = Outer(g, k)

Kept(fr, t) == \A n \in DOMAIN fr : Holds(fr[n], SubSeq(fr, 1, n - 1), t)

Separate(fr) == \A m, n \in DOMAIN fr : m # n => Copies(fr[m]) \cap Copies(fr[n]) = {}

Own == Std \cup KeptFds    \* what the shell holds when nothing runs

KeptSame(t) == \A fd \in KeptFds : t[fd] = KeptOpen

\* t is the table while exactly the frames fr are in force, and S the ends of a pipeline
Settled(fr, t, S) ==
    /\ fr \in Seq(FrameRecords) /\ DOMAIN t = Fds /\ S \subseteq Fds \ Own
    /\ Calls(fr) /\ Kept(fr, t) /\ Separate(fr)
    /\ \A k \in Std : t[k] = Outer(fr, k)
    /\ Held(fr) \subseteq Fds \ (Own \cup S)
    /\ OpenFds(t) = Own \cup S \cup Held(fr)
    /\ KeptSame(t)

\* the streams while the frame f on top of g comes, is in force, or goes
Streams(g, f, t) ==
    \A k \in Std :
        /\ f.phase = "body" => t[k] = Outer(Append(g, f), k)
        /\ f.phase \in {"save", "apply"} => t[k] = Outer(g, k)
        /\ f.phase = "restore" /\ f.saved[k] = NoFd => t[k] = Outer(g, k)

Stacked(g, f, t, S) ==
    /\ g \in Seq(FrameRecords) /\ f \in FrameRecords /\ DOMAIN t = Fds /\ S \subseteq Fds \ Own
    /\ Calls(g) /\ Kept(g, t) /\ Separate(g)
    /\ CopiesMade(f) /\ Holds(f, g, t) /\ Streams(g, f, t)
    /\ Held(g) \subseteq Fds \ (Own \cup S)
    /\ Copies(f) \subseteq Fds \ (Own \cup S \cup Held(g))
    /\ OpenFds(t) = Own \cup S \cup Held(g) \cup Copies(f)
    /\ KeptSame(t)
    /\ f.phase # "body" => S = {}

TableOk(fr, t, S) ==
    /\ fr \in Seq(FrameRecords)
    /\ IF fr = <<>> THEN Settled(fr, t, S) ELSE Stacked(Front(fr), Last(fr), t, S)

ExitStatuses == Codes \cup {Alive, 1, 2, 127}

\* among the descriptors S of table t are both ends of the pipes 1 .. n of pipeline id
PipesMade(t, S, id, n) ==
    \A i \in 1 .. n :
        (\E fd \in S : t[fd] = ReadEnd(id, i)) /\ (\E fd \in S : t[fd] = WriteEnd(id, i))

Made(j) == Cardinality(j.fds) \div 2    \* the pipes of job j so far

JobOk(j, fr, t) ==
    /\ DOMAIN j = {"at", "cmds", "background", "id", "fds", "exits"}
    /\ j.at \in {"none", "pipes", "close", "wait", "done"}
    /\ j.at \in {"none", "wait", "done"} => j.fds = {}
    /\ j.at \notin {"none", "done"} => fr = <<>> \/ Last(fr).phase = "body"
    /\ j.exits \in Seq(ExitStatuses)
    /\ j.at = "pipes" =>
          /\ j.cmds \in Seq(Commands) /\ Len(j.exits) < Len(j.cmds)
          /\ Made(j) < Len(j.cmds) /\ Cardinality(j.fds) = 2 * Made(j)
          /\ PipesMade(t, j.fds, j.id, Made(j))

\* what stream k of a stage is once its pipes are in place, and once its redirects are
Piped(p, k) ==
    IF k = 0 /\ p.i > 1 THEN ReadEnd(p.id, p.i - 1)
    ELSE IF k = 1 /\ ~p.last THEN WriteEnd(p.id, p.i)
    ELSE p.outer[k]

Redirect(p, k) == IF p.cmd.redir[k] # None THEN File(p.cmd.redir[k]) ELSE Piped(p, k)

\* a stage before it is wired: it has inherited both ends of every pipe
Unwired(p) ==
    /\ \E n \in Nat :
          /\ p.i \in 1 .. n + 1 /\ (p.last <=> p.i = n + 1)
          /\ PipesMade(p.table, p.pipes, p.id, n)
    /\ \A k \in Std : p.table[k] = p.outer[k]
    /\ OpenFds(p.table) = Std \cup p.pipes \cup PassedOn \cup p.cloexec

StageOk(p) ==
    /\ DOMAIN p = {"id", "i", "last", "cmd", "pc", "table", "pipes", "cloexec", "outer"}
    /\ p.pc \in {"wire", "apply", "dispatch", "run"}
    /\ DOMAIN p.table = Fds /\ DOMAIN p.cmd.redir = Std
    /\ p.pipes \subseteq Fds \ (Std \cup PassedOn)
    /\ p.cloexec \subseteq Fds \ (Std \cup PassedOn \cup p.pipes)
    /\ \A fd \in PassedOn : p.table[fd] = Script
    /\ \A k \in Std : p.outer[k] # Closed
    /\ p.pc = "wire" => Unwired(p)
    /\ p.pc = "apply" => \A k \in Std : p.table[k] = Piped(p, k)
    /\ p.pc \in {"dispatch", "run"} => \A k \in Std : p.table[k] = Redirect(p, k)
    /\ p.pc \in {"apply", "dispatch"} => OpenFds(p.table) = Std \cup PassedOn \cup p.cloexec
    /\ p.pc = "run" =>
          OpenFds(p.table) = Std \cup PassedOn \cup (IF InShell(p.cmd) THEN p.cloexec ELSE {})

CmdInv == TableOk(frames, fds, job.fds) /\ JobOk(job, frames, fds) /\ \A p \in procs : StageOk(p)

\* CmdInv after a step, what the shell keeps for itself being what it was
CmdInvLater ==
    /\ TableOk(frames', fds', job'.fds) /\ JobOk(job', frames', fds')
    /\ \A p \in procs' : StageOk(p)

-----------------------------------------------------------------------------
(* The descriptors that are always there.                                  *)
LEMMA StdFds ==
    /\ Std = {0, 1, 2} /\ Std \subseteq Fds
    /\ KeptFds \subseteq Fds \ Std /\ PassedOn \subseteq KeptFds
    /\ PassedOn # {} => KeptOpen = Script
    /\ Own \subseteq Fds /\ Fds \subseteq Nat /\ NoFd \notin Fds
  <1>1. Std = {0, 1, 2} /\ Std \subseteq Fds /\ Fds \subseteq Nat /\ NoFd \notin Fds
    BY FdAssumption DEF Std, Fds, NoFd
  <1>2. {TtyFd, ScriptFd} \subseteq Fds \ Std
    BY FdAssumption DEF Std, Fds, ScriptFd
  <1>3. KeptFds \subseteq Fds \ Std /\ PassedOn \subseteq KeptFds
    BY <1>2 DEF KeptFds, PassedOn
  <1> QED
    BY <1>1, <1>3 DEF Own, PassedOn, KeptOpen

(* What a descriptor may be open on is not being closed.                   *)
LEMMA Kinds ==
    /\ \A n : File(n) # Closed
    /\ \A k : Inherited(k) # Closed
    /\ Script # Closed /\ KeptOpen # Closed
    /\ \A id, i : ReadEnd(id, i) # Closed /\ WriteEnd(id, i) # Closed
  BY DEF File, Inherited, ReadEnd, WriteEnd, Closed, Script, KeptOpen

(* The lowest descriptor of a set is one of it.                            *)
LEMMA MinIsMember ==
    ASSUME NEW S \in SUBSET Nat, S # {}
    PROVE  Min(S) \in S
  <1>1. \E m \in S : \A k \in S : m <= k
    <2>1. \E m \in S : \A k \in S : ~(<<k, m>> \in OpToRel(<, Nat))
      BY NatLessThanWellFounded, WFMin
    <2>2. \A k, m \in Nat : k < m => <<k, m>> \in OpToRel(<, Nat)
      BY DEF OpToRel
    <2>3. PICK m \in S : \A k \in S : ~(<<k, m>> \in OpToRel(<, Nat))
      BY <2>1
    <2>4. \A k \in S : ~(k < m)
      BY <2>2, <2>3
    <2> QED
      BY <2>4
  <1> QED
    BY <1>1 DEF Min

(* The innermost of some frames is one of them, and the only one that no   *)
(* other is above.                                                         *)
LEMMA MaxIsMember ==
    ASSUME NEW n \in Nat, NEW S \in SUBSET (1 .. n), S # {}
    PROVE  Max(S) \in S /\ \A k \in S : k <= Max(S)
  <1> DEFINE R == {n - k : k \in S}
  <1>1. R \in SUBSET Nat /\ R # {}
    OBVIOUS
  <1>2. \E m \in R : \A k \in R : m <= k
    <2> HIDE DEF R
    <2>1. \E m \in R : \A k \in R : ~(<<k, m>> \in OpToRel(<, Nat))
      BY <1>1, NatLessThanWellFounded, WFMin
    <2>2. \A k, m \in Nat : k < m => <<k, m>> \in OpToRel(<, Nat)
      BY DEF OpToRel
    <2>3. PICK m \in R : \A k \in R : ~(<<k, m>> \in OpToRel(<, Nat))
      BY <2>1
    <2>4. \A k \in R : ~(k < m)
      BY <1>1, <2>2, <2>3
    <2> QED
      BY <1>1, <2>4
  <1>3. PICK a \in S : \A k \in S : n - a <= n - k
    BY <1>2
  <1>4. \A k \in S : a >= k
    BY <1>3
  <1> QED
    BY <1>4 DEF Max

-----------------------------------------------------------------------------
(* A stack and the frame on top of it.                                     *)
LEMMA FrontAndTop ==
    ASSUME NEW fr \in Seq(FrameRecords), fr # <<>>
    PROVE  /\ Front(fr) \in Seq(FrameRecords) /\ Last(fr) \in FrameRecords
           /\ Append(Front(fr), Last(fr)) = fr
           /\ Len(fr) \in DOMAIN fr /\ Last(fr) = fr[Len(fr)]
           /\ Len(fr) \in Nat \ {0} /\ Len(Front(fr)) = Len(fr) - 1
  <1>1. Len(fr) \in Nat \ {0}
    BY EmptySeq
  <1>2. /\ Front(fr) \in Seq(FrameRecords) /\ Len(Front(fr)) = Len(fr) - 1
        /\ \A k \in 1 .. Len(fr) - 1 : Front(fr)[k] = fr[k]
    <2> DEFINE n == Len(fr) - 1
    <2>1. n \in Nat /\ n <= Len(fr)
      BY <1>1
    <2> HIDE DEF n
    <2>2. /\ SubSeq(fr, 1, n) \in Seq(FrameRecords) /\ Len(SubSeq(fr, 1, n)) = n
          /\ \A k \in 1 .. n : SubSeq(fr, 1, n)[k] = fr[k]
      BY <1>1, <2>1, SubSeqProperties
    <2> QED
      BY <2>2 DEF Front, n
  <1>3. Last(fr) \in FrameRecords /\ Len(fr) \in DOMAIN fr /\ Last(fr) = fr[Len(fr)]
    BY <1>1 DEF Last
  <1>4. /\ Append(Front(fr), Last(fr)) \in Seq(FrameRecords)
        /\ Len(Append(Front(fr), Last(fr))) = Len(fr)
        /\ \A k \in 1 .. Len(fr) : Append(Front(fr), Last(fr))[k] = fr[k]
    <2>1. /\ Append(Front(fr), Last(fr)) \in Seq(FrameRecords)
          /\ Len(Append(Front(fr), Last(fr))) = Len(Front(fr)) + 1
          /\ \A k \in 1 .. Len(Front(fr)) : Append(Front(fr), Last(fr))[k] = Front(fr)[k]
          /\ Append(Front(fr), Last(fr))[Len(Front(fr)) + 1] = Last(fr)
      BY <1>2, <1>3, AppendProperties
    <2> QED
      BY <1>1, <1>2, <1>3, <2>1 DEF Last
  <1>5. Append(Front(fr), Last(fr)) = fr
    BY <1>1, <1>4, SeqEqual
  <1> QED
    BY <1>1, <1>2, <1>3, <1>5

(* Pushing a frame and looking at what is on top, and below, of the result.*)
LEMMA Pushed ==
    ASSUME NEW g \in Seq(FrameRecords), NEW f \in FrameRecords
    PROVE  /\ Append(g, f) \in Seq(FrameRecords) /\ Append(g, f) # <<>>
           /\ Front(Append(g, f)) = g /\ Last(Append(g, f)) = f
           /\ DOMAIN Append(g, f) = DOMAIN g \cup {Len(g) + 1} /\ Len(g) + 1 \notin DOMAIN g
           /\ DOMAIN g = 1 .. Len(g) /\ Len(g) \in Nat
           /\ \A n \in DOMAIN g : Append(g, f)[n] = g[n]
           /\ Append(g, f)[Len(g) + 1] = f
  <1> DEFINE fr == Append(g, f)
  <1>1. /\ fr \in Seq(FrameRecords) /\ Len(fr) = Len(g) + 1 /\ Len(g) \in Nat
        /\ \A k \in 1 .. Len(g) : fr[k] = g[k]
        /\ fr[Len(g) + 1] = f
    BY AppendProperties
  <1> HIDE DEF fr
  <1>2. DOMAIN fr = 1 .. Len(g) + 1 /\ DOMAIN g = 1 .. Len(g) /\ fr # <<>>
    BY <1>1, EmptySeq
  <1>3. /\ Front(fr) \in Seq(FrameRecords) /\ Len(Front(fr)) = Len(g)
        /\ \A k \in 1 .. Len(g) : Front(fr)[k] = g[k]
    <2>1. /\ SubSeq(fr, 1, Len(fr) - 1) \in Seq(FrameRecords)
          /\ Len(SubSeq(fr, 1, Len(fr) - 1)) = Len(g)
          /\ \A k \in 1 .. Len(g) : SubSeq(fr, 1, Len(fr) - 1)[k] = fr[k]
      BY <1>1, SubSeqProperties
    <2> QED
      BY <1>1, <2>1 DEF Front
  <1>4. Front(fr) = g
    BY <1>1, <1>3, SeqEqual
  <1>5. Last(fr) = f
    BY <1>1 DEF Last
  <1> QED
    BY <1>1, <1>2, <1>4, <1>5 DEF fr

(* The frames below one of g are those below it in g with f on top.        *)
LEMMA BelowPushed ==
    ASSUME NEW g \in Seq(FrameRecords), NEW f \in FrameRecords, NEW n \in DOMAIN g
    PROVE  SubSeq(Append(g, f), 1, n - 1) = SubSeq(g, 1, n - 1)
  <1> DEFINE fr == Append(g, f)
  <1>1. /\ fr \in Seq(FrameRecords) /\ Len(fr) = Len(g) + 1 /\ Len(g) \in Nat
        /\ n \in 1 .. Len(g) /\ \A k \in 1 .. Len(g) : fr[k] = g[k]
    BY AppendProperties
  <1> HIDE DEF fr
  <1>2. /\ SubSeq(fr, 1, n - 1) \in Seq(FrameRecords) /\ Len(SubSeq(fr, 1, n - 1)) = n - 1
        /\ \A k \in 1 .. n - 1 : SubSeq(fr, 1, n - 1)[k] = fr[k]
    BY <1>1, SubSeqProperties
  <1>3. /\ SubSeq(g, 1, n - 1) \in Seq(FrameRecords) /\ Len(SubSeq(g, 1, n - 1)) = n - 1
        /\ \A k \in 1 .. n - 1 : SubSeq(g, 1, n - 1)[k] = g[k]
    BY <1>1, SubSeqProperties
  <1>4. \A k \in 1 .. n - 1 : SubSeq(fr, 1, n - 1)[k] = SubSeq(g, 1, n - 1)[k]
    BY <1>1, <1>2, <1>3
  <1>5. SubSeq(fr, 1, n - 1) = SubSeq(g, 1, n - 1)
    BY <1>2, <1>3, <1>4, SeqEqual
  <1> QED
    BY <1>5 DEF fr

LEMMA BelowTop ==
    ASSUME NEW g \in Seq(FrameRecords), NEW f \in FrameRecords
    PROVE  SubSeq(Append(g, f), 1, Len(g)) = g
  <1>1. Front(Append(g, f)) = g
    BY Pushed
  <1>2. Len(Append(g, f)) = Len(g) + 1 /\ Len(g) \in Nat
    BY AppendProperties
  <1> QED
    BY <1>1, <1>2 DEF Front

-----------------------------------------------------------------------------
(* The streams in force under no frame, and under one more.                *)
LEMMA OuterNone ==
    ASSUME NEW k \in Std
    PROVE  Outer(<<>>, k) = Inherited(k)
  BY DEF Outer

LEMMA OuterPushed ==
    ASSUME NEW g \in Seq(FrameRecords), NEW f \in FrameRecords, NEW k \in Std
    PROVE  Outer(Append(g, f), k) =
              IF f.cmd.redir[k] # None THEN File(f.cmd.redir[k]) ELSE Outer(g, k)
  <1> DEFINE fr == Append(g, f)
             set(s) == {n \in DOMAIN s : s[n].cmd.redir[k] # None}
  <1>1. /\ DOMAIN fr = DOMAIN g \cup {Len(g) + 1} /\ Len(g) + 1 \notin DOMAIN g
        /\ DOMAIN g = 1 .. Len(g) /\ Len(g) \in Nat
        /\ \A n \in DOMAIN g : fr[n] = g[n]
        /\ fr[Len(g) + 1] = f
    BY Pushed
  <1>2. \A s : Outer(s, k) = IF set(s) = {} THEN Inherited(k) ELSE File(s[Max(set(s))].cmd.redir[k])
    BY DEF Outer
  <1> HIDE DEF fr
  <1>3. CASE f.cmd.redir[k] # None
    <2>1. Len(g) + 1 \in set(fr) /\ set(fr) \in SUBSET (1 .. Len(g) + 1)
      BY <1>1, <1>3
    <2>2. Max(set(fr)) \in 1 .. Len(g) + 1 /\ Max(set(fr)) >= Len(g) + 1
      <3> HIDE DEF set
      <3>1. Len(g) + 1 \in Nat
        BY <1>1
      <3>2. Max(set(fr)) \in set(fr) /\ \A j \in set(fr) : j <= Max(set(fr))
        BY <2>1, <3>1, MaxIsMember
      <3> QED
        BY <1>1, <2>1, <3>2
    <2>3. Max(set(fr)) = Len(g) + 1
      BY <1>1, <2>2
    <2> QED
      BY <1>1, <1>2, <1>3, <2>1, <2>3 DEF fr
  <1>4. CASE f.cmd.redir[k] = None
    <2>1. set(fr) = set(g)
      BY <1>1, <1>4
    <2>2. CASE set(g) = {}
      BY <1>2, <1>4, <2>1, <2>2 DEF fr
    <2>3. CASE set(g) # {}
      <3>1. Max(set(g)) \in DOMAIN g
        <4>1. set(g) \in SUBSET (1 .. Len(g))
          BY <1>1
        <4>2. Max(set(g)) \in set(g)
          <5> HIDE DEF set
          <5> QED
            BY <1>1, <2>3, <4>1, MaxIsMember
        <4> QED
          BY <4>2
      <3>2. fr[Max(set(fr))] = g[Max(set(g))]
        BY <1>1, <2>1, <3>1
      <3> QED
        BY <1>2, <1>4, <2>1, <2>3, <3>2 DEF fr
    <2> QED
      BY <2>2, <2>3
  <1> QED
    BY <1>3, <1>4

(* The copies of a stack are those of its top and those below.             *)
LEMMA HeldPushed ==
    ASSUME NEW g \in Seq(FrameRecords), NEW f \in FrameRecords
    PROVE  Held(Append(g, f)) = Held(g) \cup Copies(f)
  BY Pushed DEF Held

LEMMA CallsPushed ==
    ASSUME NEW g \in Seq(FrameRecords), NEW f \in FrameRecords
    PROVE  Calls(Append(g, f)) <=>
              Calls(g) /\ CopiesMade(f) /\ f.phase = "body" /\ f.cmd.what = "function"
  BY Pushed DEF Calls

LEMMA KeptPushed ==
    ASSUME NEW g \in Seq(FrameRecords), NEW f \in FrameRecords, NEW t
    PROVE  Kept(Append(g, f), t) <=> Kept(g, t) /\ Holds(f, g, t)
  <1> DEFINE fr == Append(g, f)
  <1>1. /\ DOMAIN fr = DOMAIN g \cup {Len(g) + 1} /\ Len(g) \in Nat
        /\ \A n \in DOMAIN g : fr[n] = g[n]
        /\ fr[Len(g) + 1] = f
    BY Pushed
  <1>2. \A n \in DOMAIN g : SubSeq(fr, 1, n - 1) = SubSeq(g, 1, n - 1)
    BY BelowPushed
  <1>3. SubSeq(fr, 1, Len(g) + 1 - 1) = g
    BY <1>1, BelowTop
  <1> HIDE DEF fr
  <1>4. \A n \in DOMAIN g : Holds(fr[n], SubSeq(fr, 1, n - 1), t)
                               <=> Holds(g[n], SubSeq(g, 1, n - 1), t)
    BY <1>1, <1>2
  <1>5. Holds(fr[Len(g) + 1], SubSeq(fr, 1, Len(g) + 1 - 1), t) <=> Holds(f, g, t)
    BY <1>1, <1>3
  <1>6. Kept(fr, t) <=> Kept(g, t) /\ Holds(f, g, t)
    BY <1>1, <1>4, <1>5 DEF Kept
  <1> QED
    BY <1>6 DEF fr

LEMMA SeparatePushed ==
    ASSUME NEW g \in Seq(FrameRecords), NEW f \in FrameRecords
    PROVE  Separate(Append(g, f)) <=> Separate(g) /\ Held(g) \cap Copies(f) = {}
  <1> DEFINE fr == Append(g, f)
             top == Len(g) + 1
  <1>1. /\ DOMAIN fr = DOMAIN g \cup {top} /\ top \notin DOMAIN g
        /\ \A n \in DOMAIN g : fr[n] = g[n]
        /\ fr[top] = f
    BY Pushed
  <1> HIDE DEF fr, top
  <1>2. ASSUME Separate(fr)
        PROVE  Separate(g) /\ Held(g) \cap Copies(f) = {}
    <2>1. Separate(g)
      BY <1>1, <1>2 DEF Separate
    <2>2. ASSUME NEW n \in DOMAIN g
          PROVE  Copies(g[n]) \cap Copies(f) = {}
      <3>1. n \in DOMAIN fr /\ top \in DOMAIN fr /\ n # top
        BY <1>1
      <3>2. Copies(fr[n]) \cap Copies(fr[top]) = {}
        BY <1>2, <3>1 DEF Separate
      <3> QED
        BY <1>1, <3>2
    <2> QED
      BY <2>1, <2>2 DEF Held
  <1>3. ASSUME Separate(g), Held(g) \cap Copies(f) = {}
        PROVE  Separate(fr)
    <2>1. \A n \in DOMAIN g : Copies(g[n]) \cap Copies(f) = {}
      BY <1>3 DEF Held
    <2> QED
      BY <1>1, <1>3, <2>1 DEF Separate
  <1> QED
    BY <1>2, <1>3 DEF fr

(* What the copies hold changes only when one of them does.                *)
LEMMA HoldsLater ==
    ASSUME NEW f \in FrameRecords, NEW g, NEW t, NEW u, \A fd \in Copies(f) : u[fd] = t[fd],
           Holds(f, g, t)
    PROVE  Holds(f, g, u)
  BY DEF Holds, Copies

LEMMA KeptLater ==
    ASSUME NEW fr \in Seq(FrameRecords), NEW t, NEW u, \A fd \in Held(fr) : u[fd] = t[fd],
           Kept(fr, t)
    PROVE  Kept(fr, u)
  <1> SUFFICES ASSUME NEW n \in DOMAIN fr
               PROVE  Holds(fr[n], SubSeq(fr, 1, n - 1), u)
    BY DEF Kept
  <1>1. Holds(fr[n], SubSeq(fr, 1, n - 1), t)
    BY DEF Kept
  <1>2. \A fd \in Copies(fr[n]) : u[fd] = t[fd]
    BY DEF Held
  <1>3. fr[n] \in FrameRecords
    OBVIOUS
  <1> QED
    BY <1>1, <1>2, <1>3, HoldsLater

-----------------------------------------------------------------------------
(* Frames in force and the table, put together and taken apart.            *)
LEMMA Replaced ==
    ASSUME NEW g, NEW f, NEW t, NEW S, Stacked(g, f, t, S)
    PROVE  TableOk(Append(g, f), t, S)
  <1>1. g \in Seq(FrameRecords) /\ f \in FrameRecords
    BY DEF Stacked
  <1> QED
    BY <1>1, Pushed DEF TableOk

(* A stack with its top is well formed as a whole.                         *)
LEMMA Whole ==
    ASSUME NEW g, NEW f, NEW t, NEW S, Stacked(g, f, t, S)
    PROVE  /\ Kept(Append(g, f), t) /\ Separate(Append(g, f))
           /\ Held(Append(g, f)) = Held(g) \cup Copies(f)
           /\ Held(Append(g, f)) \subseteq Fds \ (Own \cup S)
  <1>1. g \in Seq(FrameRecords) /\ f \in FrameRecords
    BY DEF Stacked
  <1>2. Kept(Append(g, f), t)
    BY <1>1, KeptPushed DEF Stacked
  <1>3. Separate(Append(g, f))
    BY <1>1, SeparatePushed DEF Stacked
  <1>4. Held(Append(g, f)) = Held(g) \cup Copies(f)
    BY <1>1, HeldPushed
  <1> QED
    BY <1>2, <1>3, <1>4 DEF Stacked

(* Between commands the table is accounted for, the top frame being a call.*)
LEMMA SettledIsOk ==
    ASSUME NEW fr, NEW t, NEW S, Settled(fr, t, S)
    PROVE  TableOk(fr, t, S)
  <1>1. CASE fr = <<>>
    BY <1>1 DEF TableOk, Settled
  <1>2. CASE fr # <<>>
    <2> DEFINE g == Front(fr)
               f == Last(fr)
    <2>1. fr \in Seq(FrameRecords)
      BY DEF Settled
    <2>2. g \in Seq(FrameRecords) /\ f \in FrameRecords /\ Append(g, f) = fr
      BY <1>2, <2>1, FrontAndTop
    <2> HIDE DEF g, f
    <2>3. Calls(g) /\ CopiesMade(f) /\ f.phase = "body"
      BY <2>2, CallsPushed DEF Settled
    <2>4. Kept(g, t) /\ Holds(f, g, t)
      BY <2>2, KeptPushed DEF Settled
    <2>5. Separate(g) /\ Held(g) \cap Copies(f) = {}
      BY <2>2, SeparatePushed DEF Settled
    <2>6. Held(fr) = Held(g) \cup Copies(f)
      BY <2>2, HeldPushed
    <2>7. Streams(g, f, t)
      BY <2>2, <2>3 DEF Streams, Settled
    <2>8. Stacked(g, f, t, S)
      BY <2>2, <2>3, <2>4, <2>5, <2>6, <2>7 DEF Stacked, Settled
    <2> QED
      BY <1>2, <2>1, <2>8 DEF TableOk, g, f
  <1> QED
    BY <1>1, <1>2

(* While a function runs, the table is that of exactly the frames in force.*)
LEMMA BodySettles ==
    ASSUME NEW fr, NEW t, NEW S, TableOk(fr, t, S),
           fr = <<>> \/ (Last(fr).phase = "body" /\ Last(fr).cmd.what = "function")
    PROVE  Settled(fr, t, S)
  <1>1. CASE fr = <<>>
    BY <1>1 DEF TableOk
  <1>2. CASE fr # <<>>
    <2> DEFINE g == Front(fr)
               f == Last(fr)
    <2>1. fr \in Seq(FrameRecords) /\ Stacked(g, f, t, S) /\ f.phase = "body" /\ f.cmd.what = "function"
      BY <1>2 DEF TableOk
    <2>2. g \in Seq(FrameRecords) /\ f \in FrameRecords /\ Append(g, f) = fr
      BY <1>2, <2>1, FrontAndTop
    <2> HIDE DEF g, f
    <2>3. Calls(fr)
      BY <2>1, <2>2, CallsPushed DEF Stacked
    <2>4. /\ Kept(fr, t) /\ Separate(fr)
          /\ Held(fr) = Held(g) \cup Copies(f) /\ Held(fr) \subseteq Fds \ (Own \cup S)
      BY <2>1, <2>2, Whole
    <2>5. \A k \in Std : t[k] = Outer(fr, k)
      BY <2>1, <2>2 DEF Stacked, Streams
    <2> QED
      BY <2>1, <2>3, <2>4, <2>5 DEF Settled, Stacked
  <1> QED
    BY <1>1, <1>2

(* What happens to the ends of a pipeline leaves the frames and what they  *)
(* hold alone.                                                             *)
LEMMA PipesLater ==
    ASSUME NEW fr, NEW t, NEW u, NEW S, NEW T, TableOk(fr, t, S),
           fr = <<>> \/ Last(fr).phase = "body",
           DOMAIN u = Fds, T \subseteq Fds,
           T \cap (OpenFds(t) \ S) = {}, OpenFds(u) = (OpenFds(t) \ S) \cup T,
           \A fd \in Fds : fd \notin S \cup T => u[fd] = t[fd]
    PROVE  TableOk(fr, u, T)
  <1>1. CASE fr = <<>>
    <2>1. Settled(fr, t, S) /\ Held(fr) = {}
      BY <1>1 DEF TableOk, Held
    <2>2. OpenFds(u) = Own \cup T /\ T \cap Own = {}
      BY <2>1, StdFds DEF Settled
    <2>3. \A fd \in Own : u[fd] = t[fd]
      BY <2>1, <2>2, StdFds DEF Settled
    <2>4. Kept(fr, u)
      BY <1>1 DEF Kept
    <2>5. /\ \A k \in Std : u[k] = Outer(fr, k)
          /\ KeptSame(u)
      BY <2>1, <2>3, StdFds DEF Settled, Own
    <2>6. Settled(fr, u, T)
      BY <2>1, <2>2, <2>4, <2>5 DEF Settled
    <2> QED
      BY <1>1, <2>6 DEF TableOk, Settled
  <1>2. CASE fr # <<>>
    <2> DEFINE g == Front(fr)
               f == Last(fr)
    <2>1. fr \in Seq(FrameRecords) /\ Stacked(g, f, t, S) /\ f.phase = "body"
      BY <1>2 DEF TableOk
    <2>2. g \in Seq(FrameRecords) /\ f \in FrameRecords
      BY <2>1 DEF Stacked
    <2> HIDE DEF g, f
    <2>3. /\ OpenFds(u) = Own \cup T \cup Held(g) \cup Copies(f)
          /\ T \cap (Own \cup Held(g) \cup Copies(f)) = {}
      BY <2>1, StdFds DEF Stacked
    <2>4. \A fd \in Own \cup Held(g) \cup Copies(f) : u[fd] = t[fd]
      BY <2>1, <2>3, StdFds DEF Stacked
    <2>5. Kept(g, u) /\ Holds(f, g, u)
      BY <2>1, <2>2, <2>4, KeptLater, HoldsLater DEF Stacked
    <2>6. Streams(g, f, u) /\ KeptSame(u)
      BY <2>1, <2>4 DEF Stacked, Streams, Own, KeptSame
    <2>7. Stacked(g, f, u, T)
      BY <2>1, <2>3, <2>5, <2>6 DEF Stacked
    <2> QED
      BY <1>2, <2>1, <2>7 DEF TableOk, g, f
  <1> QED
    BY <1>1, <1>2

(* A table like that is what DescriptorsAccounted asks for.                *)
LEMMA OkIsAccounted ==
    ASSUME TableOk(frames, fds, job.fds)
    PROVE  DescriptorsAccounted
  <1>1. CASE frames = <<>>
    <2>1. Settled(frames, fds, job.fds)
      BY <1>1 DEF TableOk
    <2> QED
      BY <1>1, <2>1 DEF Settled, DescriptorsAccounted, Held, Own, KeptSame
  <1>2. CASE frames # <<>>
    <2> DEFINE g == Front(frames)
               f == Last(frames)
    <2>1. frames \in Seq(FrameRecords) /\ Stacked(g, f, fds, job.fds)
      BY <1>2 DEF TableOk
    <2>2. Append(g, f) = frames
      BY <1>2, <2>1, FrontAndTop
    <2>3. f = Top
      BY DEF Top
    <2> HIDE DEF g, f
    <2>4. Kept(frames, fds) /\ Separate(frames) /\ Held(frames) = Held(g) \cup Copies(f)
      BY <2>1, <2>2, Whole
    <2>5. f.phase = "body" => \A k \in Std : fds[k] = Outer(frames, k)
      BY <2>1, <2>2 DEF Stacked, Streams
    <2>6. OpenFds(fds) = Own \cup job.fds \cup Held(frames) /\ KeptSame(fds)
      BY <2>1, <2>4 DEF Stacked
    <2> QED
      BY <1>2, <2>3, <2>4, <2>5, <2>6
      DEF DescriptorsAccounted, Kept, Holds, Separate, Held, Own, KeptSame
  <1> QED
    BY <1>1, <1>2

-----------------------------------------------------------------------------
(* Redirects touch the standard streams only, and those they name only.    *)
LEMMA Applied ==
    ASSUME NEW t, DOMAIN t = Fds, NEW c, NEW k \in Std, NEW o \in ApplyOne(t, c, k)
    PROVE  /\ DOMAIN o.table = Fds
           /\ \A fd \in Fds : fd # k => o.table[fd] = t[fd]
           /\ o.table[k] \in {t[k], File(c.redir[k])}
           /\ o.status \in {0, 1, 2}
           /\ o.status = 0 => o.table[k] = IF c.redir[k] # None THEN File(c.redir[k]) ELSE t[k]
  <1>0. k \in Fds
    BY StdFds
  <1>1. CASE c.redir[k] = None
    <2>1. c.redir[k] # Bad
      BY <1>1 DEF Bad, None
    <2>2. ApplyOne(t, c, k) = {[status |-> 0, table |-> t]}
      BY <1>1, <2>1, Zenon DEF ApplyOne
    <2> QED
      BY <1>1, <2>2
  <1>2. CASE c.redir[k] = Bad
    <2>1. c.redir[k] # None
      BY <1>2 DEF Bad, None
    <2>2. o = [status |-> 2, table |-> t]
      BY <1>2, <2>1, Zenon DEF ApplyOne
    <2> QED
      BY <2>2
  <1>3. CASE c.redir[k] # None /\ c.redir[k] # Bad
    <2>1. \/ o = [status |-> 1, table |-> t]
          \/ o = [status |-> 0, table |-> [t EXCEPT ![k] = File(c.redir[k])]]
      BY <1>3, Zenon DEF ApplyOne
    <2> QED
      BY <1>0, <1>3, <2>1
  <1> QED
    BY <1>1, <1>2, <1>3

(* redirect_apply touches the three streams and opens or closes nothing else.*)
LEMMA AllApplied ==
    ASSUME NEW t, DOMAIN t = Fds, \A k \in Std : t[k] # Closed,
           NEW c, NEW o \in Redirected(t, c)
    PROVE  /\ DOMAIN o.table = Fds
           /\ \A fd \in Fds \ Std : o.table[fd] = t[fd]
           /\ OpenFds(o.table) = OpenFds(t)
           /\ o.status \in {0, 1, 2}
           /\ o.status = 0 => \A k \in Std :
                 o.table[k] = IF c.redir[k] # None THEN File(c.redir[k]) ELSE t[k]
  <1> DEFINE Then(outcomes, k) ==
                 UNION {IF p.status = 0 THEN ApplyOne(p.table, c, k) ELSE {p} : p \in outcomes}
             Done(p, n) ==
                 /\ DOMAIN p.table = Fds
                 /\ \A fd \in Fds \ Std : p.table[fd] = t[fd]
                 /\ \A k \in Std : p.table[k] \in {t[k], File(c.redir[k])}
                 /\ p.status \in {0, 1, 2}
                 /\ \A k \in Std : k > n => p.table[k] = t[k]
                 /\ p.status = 0 => \A k \in Std : k <= n =>
                       p.table[k] = IF c.redir[k] # None THEN File(c.redir[k]) ELSE t[k]
  <1>1. ASSUME NEW p \in ApplyOne(t, c, 0) PROVE Done(p, 0)
    BY StdFds, Applied DEF Std
  <1>2. ASSUME NEW n \in {0, 1}, NEW outcomes, \A p \in outcomes : Done(p, n),
               NEW q \in Then(outcomes, n + 1)
        PROVE  Done(q, n + 1)
    <2>1. PICK p \in outcomes : q \in IF p.status = 0 THEN ApplyOne(p.table, c, n + 1) ELSE {p}
      OBVIOUS
    <2>2. Done(p, n)
      BY <1>2
    <2>3. CASE p.status = 0
      <3> DEFINE u == p.table
                 k == n + 1
      <3>1. k \in Std /\ DOMAIN u = Fds /\ q \in ApplyOne(u, c, k)
        BY <2>1, <2>2, <2>3, StdFds
      <3> HIDE DEF Done, Then
      <3>2. /\ DOMAIN q.table = Fds
            /\ \A fd \in Fds : fd # k => q.table[fd] = u[fd]
            /\ q.table[k] \in {u[k], File(c.redir[k])}
            /\ q.status \in {0, 1, 2}
            /\ q.status = 0 => q.table[k] = IF c.redir[k] # None THEN File(c.redir[k]) ELSE u[k]
        BY <3>1, Applied
      <3> QED
        BY <2>2, <2>3, <3>1, <3>2, StdFds DEF Done
    <2>4. CASE p.status # 0
      <3>1. q = p
        BY <2>1, <2>4
      <3> QED
        BY <2>2, <2>4, <3>1, StdFds
    <2> QED
      BY <2>3, <2>4
  <1>3. o \in Then(Then(ApplyOne(t, c, 0), 1), 2)
    BY Zenon DEF Redirected
  <1> HIDE DEF Done, Then
  <1>4. \A q \in Then(ApplyOne(t, c, 0), 1) : Done(q, 1)
    BY <1>1, <1>2
  <1>5. Done(o, 2)
    BY <1>2, <1>3, <1>4
  <1>6. /\ DOMAIN o.table = Fds /\ o.status \in {0, 1, 2}
        /\ \A fd \in Fds \ Std : o.table[fd] = t[fd]
        /\ \A k \in Std : o.table[k] \in {t[k], File(c.redir[k])}
        /\ o.status = 0 => \A k \in Std :
                 o.table[k] = IF c.redir[k] # None THEN File(c.redir[k]) ELSE t[k]
    BY <1>5, StdFds DEF Done
  <1>7. \A k \in Std : o.table[k] # Closed
    BY <1>6, Kinds
  <1>8. OpenFds(o.table) = OpenFds(t)
    BY <1>6, <1>7 DEF OpenFds
  <1> QED
    BY <1>6, <1>8

-----------------------------------------------------------------------------
(* The steps of the shell through a command of its own.                    *)
\* no pipeline is being forked
LEMMA NoJobOk ==
    ASSUME NEW fr, NEW t
    PROVE  JobOk(NoJob, fr, t) /\ NoJob.fds = {}
  <1>1. DOMAIN NoJob = {"at", "cmds", "background", "id", "fds", "exits"}
    BY DEF NoJob
  <1>2. NoJob.at = "none" /\ NoJob.fds = {} /\ NoJob.exits = <<>>
    BY DEF NoJob
  <1>3. <<>> \in Seq(ExitStatuses)
    OBVIOUS
  <1> HIDE DEF NoJob
  <1> QED
    BY <1>1, <1>2, <1>3 DEF JobOk

(* The shell starts with its own streams and what it keeps for itself.     *)
LEMMA InitKeeps == CmdInit => CmdInv
  <1> SUFFICES ASSUME CmdInit PROVE CmdInv
    OBVIOUS
  <1>1. Settled(<<>>, fds, {})
    <2>1. Calls(<<>>) /\ Kept(<<>>, fds) /\ Separate(<<>>) /\ Held(<<>>) = {}
      BY DEF Calls, Kept, Separate, Held
    <2>2. DOMAIN fds = Fds /\ \A k \in Std : fds[k] = Outer(<<>>, k)
      BY StdFds, OuterNone DEF CmdInit
    <2>3. OpenFds(fds) = Own /\ KeptSame(fds)
      BY StdFds, Kinds DEF CmdInit, OpenFds, Own
    <2> QED
      BY <2>1, <2>2, <2>3, EmptySeq DEF Settled
  <1>2. TableOk(frames, fds, job.fds)
    BY <1>1, SettledIsOk DEF CmdInit, NoJob
  <1>3. JobOk(job, frames, fds)
    BY NoJobOk DEF CmdInit
  <1> QED
    BY <1>2, <1>3 DEF CmdInv, CmdInit

\* what is known where exec_pipeline may be entered
LEMMA ReadyIsSettled ==
    ASSUME CmdInv, Ready
    PROVE  Settled(frames, fds, {}) /\ job.fds = {}
  <1>1. job.fds = {}
    BY DEF CmdInv, JobOk, Ready
  <1>2. frames = <<>> \/ (Last(frames).phase = "body" /\ Last(frames).cmd.what = "function")
    BY DEF Ready, InPhase, Top
  <1> QED
    BY <1>1, <1>2, BodySettles DEF CmdInv

(* A command with no name changes no descriptor.                           *)
LEMMA RunsNothingKeeps ==
    ASSUME CmdInv, NEW pl \in Pipelines, RunsNothing(pl)
    PROVE  CmdInvLater
  <1>1. job' = NoJob /\ UNCHANGED <<fds, frames, procs>> /\ Ready
    BY DEF RunsNothing
  <1>2. TableOk(frames', fds', job'.fds)
    BY <1>1, ReadyIsSettled, SettledIsOk, NoJobOk
  <1>3. JobOk(job', frames', fds')
    BY <1>1, NoJobOk
  <1> QED
    BY <1>1, <1>2, <1>3 DEF CmdInv, CmdInvLater

\* the job says nothing of frames and table while no pipeline is under way
LEMMA RestingJob ==
    ASSUME NEW j, NEW fr, NEW t, JobOk(j, fr, t), j.at \in {"none", "done"}, NEW gr, NEW u
    PROVE  JobOk(j, gr, u) /\ j.fds = {}
  BY DEF JobOk

\* a frame that is not in its body is on top, and no pipeline is under way
LEMMA TopFrame ==
    ASSUME CmdInv, frames # <<>>
    PROVE  /\ Stacked(Front(frames), Top, fds, job.fds)
           /\ Front(frames) \in Seq(FrameRecords) /\ Top \in FrameRecords
           /\ Top.phase # "body" => job.at \in {"none", "done"} /\ job.fds = {}
  <1>1. Stacked(Front(frames), Top, fds, job.fds)
    BY DEF CmdInv, TableOk, Top
  <1>2. Top.phase # "body" => job.at \in {"none", "done"} /\ job.fds = {}
    BY DEF CmdInv, JobOk, Top
  <1> QED
    BY <1>1, <1>2 DEF Stacked

(* A builtin or a function begins: with redirects, nothing is saved yet.   *)
LEMMA RunsInShellKeeps ==
    ASSUME CmdInv, NEW pl \in Pipelines, RunsInShell(pl)
    PROVE  CmdInvLater
  <1> DEFINE c == pl.cmds[1]
             f == Frame(c, IF HasRedirect(c) THEN "save" ELSE "body")
  <1>1. /\ frames' = Append(frames, f) /\ job' = NoJob /\ UNCHANGED <<fds, procs>>
        /\ Ready
    BY DEF RunsInShell
  <1>2. c \in Commands
    <2>1. pl.cmds \in Seq(Commands) \ {<<>>}
      BY PipelineAssumption
    <2> QED
      BY <2>1, EmptySeq
  <1>3. Settled(frames, fds, {})
    BY <1>1, ReadyIsSettled
  <1>4. /\ f \in FrameRecords /\ f.cmd = c /\ f.k = 0 /\ f.saved = NoSave
        /\ f.phase = IF HasRedirect(c) THEN "save" ELSE "body"
    <2>1. NoSave \in [Std -> Fds \cup {NoFd}] /\ 0 \in Std
      BY StdFds DEF NoSave
    <2>2. (IF HasRedirect(c) THEN "save" ELSE "body") \in FramePhases
      BY DEF FramePhases
    <2> QED
      BY <1>2, <2>1, <2>2 DEF Frame, FrameRecords
  <1> HIDE DEF c, f
  <1>5. \A j \in Std : f.saved[j] = NoFd
    BY <1>4 DEF NoSave
  <1>6. Copies(f) = {}
    BY <1>5 DEF Copies
  <1>7. CopiesMade(f)
    BY <1>4, <1>5, StdFds DEF CopiesMade
  <1>8. Streams(frames, f, fds)
    <2> SUFFICES ASSUME NEW k \in Std, f.phase = "body"
                 PROVE  fds[k] = Outer(Append(frames, f), k)
      BY <1>3, <1>4 DEF Streams, Settled
    <2>1. f.cmd.redir[k] = None
      BY <1>4 DEF HasRedirect
    <2>2. Outer(Append(frames, f), k) = Outer(frames, k)
      BY <1>3, <1>4, <2>1, OuterPushed DEF Settled
    <2> QED
      BY <1>3, <2>2 DEF Settled
  <1>9. Stacked(frames, f, fds, {})
    BY <1>3, <1>4, <1>5, <1>6, <1>7, <1>8 DEF Stacked, Settled, Holds
  <1>10. TableOk(frames', fds', job'.fds)
    BY <1>1, <1>9, NoJobOk, Replaced
  <1>11. JobOk(job', frames', fds')
    BY <1>1, NoJobOk
  <1> QED
    BY <1>1, <1>10, <1>11 DEF CmdInv, CmdInvLater

\* a copy lands above the standard streams, where nothing was
LEMMA SaveStdKeeps ==
    ASSUME CmdInv, SaveStd
    PROVE  CmdInvLater
  <1> DEFINE g == Front(frames)
             f == Top
  <1>1. frames # <<>> /\ f.phase = "save" /\ UNCHANGED <<job, procs>>
    BY DEF SaveStd, InPhase
  <1>2. /\ Stacked(g, f, fds, {}) /\ g \in Seq(FrameRecords) /\ f \in FrameRecords
        /\ job.at \in {"none", "done"} /\ job.fds = {}
    BY <1>1, TopFrame
  <1>3. JobOk(job', frames', fds')
    BY <1>1, <1>2, RestingJob DEF CmdInv
  <1>4. \A j \in Std : fds[j] = Outer(g, j) /\ fds[j] # Closed
    BY <1>1, <1>2, StdFds DEF Stacked, Streams, OpenFds, Own
  <1>5. /\ f.k \in Std /\ f.saved \in [Std -> Fds \cup {NoFd}] /\ HasRedirect(f.cmd)
        /\ \A j \in Std : f.saved[j] # NoFd <=> j < f.k
    BY <1>1, <1>2 DEF FrameRecords, Stacked, CopiesMade
  <1>6. CASE CopyFds(fds) = {}
    <2> DEFINE f2 == [f EXCEPT !.phase = "restore", !.k = 0]
    <2>1. frames' = Append(g, f2) /\ fds' = fds
      BY <1>6 DEF SaveStd, SetTop
    <2>2. f2 \in FrameRecords /\ f2.phase = "restore" /\ f2.k = 0 /\ f2.saved = f.saved /\ f2.cmd = f.cmd
      BY <1>2, StdFds DEF FrameRecords, FramePhases
    <2> HIDE DEF f2, f, g
    <2>3. CopiesMade(f2)
      BY <1>1, <1>2, <2>2, StdFds DEF CopiesMade, Stacked
    <2>4. Copies(f2) = Copies(f) /\ Holds(f2, g, fds)
      BY <1>2, <2>2 DEF Copies, Holds, Stacked
    <2>5. Streams(g, f2, fds)
      BY <1>4, <2>2 DEF Streams
    <2>6. Stacked(g, f2, fds, {})
      BY <1>2, <2>2, <2>3, <2>4, <2>5 DEF Stacked
    <2>7. TableOk(frames', fds', job'.fds)
      BY <1>1, <1>2, <2>1, <2>6, Replaced
    <2> QED
      BY <1>1, <1>3, <2>7 DEF CmdInv, CmdInvLater
  <1>7. CASE CopyFds(fds) # {}
    <2> DEFINE m == Min(CopyFds(fds))
               k == f.k
               f2 == [f EXCEPT !.saved[f.k] = m, !.phase = IF f.k = 2 THEN "apply" ELSE "save",
                               !.k = (f.k + 1) % 3]
    <2>1. frames' = Append(g, f2) /\ fds' = [fds EXCEPT ![m] = fds[k]]
      BY <1>7 DEF SaveStd, SetTop
    <2>2. m \in Fds /\ m >= 3 /\ m \notin OpenFds(fds)
      <3>1. CopyFds(fds) \in SUBSET Nat
        BY StdFds DEF CopyFds, FreeFds
      <3>2. m \in CopyFds(fds)
        BY <1>7, <3>1, MinIsMember
      <3> QED
        BY <3>2 DEF CopyFds, FreeFds
    <2>3. /\ f2.saved = [f.saved EXCEPT ![k] = m] /\ f2.cmd = f.cmd
          /\ f2.phase = IF k = 2 THEN "apply" ELSE "save"
          /\ f2.k = (k + 1) % 3
      BY <1>2 DEF FrameRecords
    <2>4. f2 \in FrameRecords
      <3>1. f2.saved \in [Std -> Fds \cup {NoFd}] /\ f2.k \in Std /\ f2.phase \in FramePhases
        BY <1>5, <2>2, <2>3, StdFds DEF FramePhases
      <3>2. [f EXCEPT !.saved = f2.saved, !.phase = f2.phase, !.k = f2.k] \in FrameRecords
        <4> HIDE DEF f2
        <4> QED
          BY <1>2, <3>1 DEF FrameRecords
      <3>3. f2 = [f EXCEPT !.saved = f2.saved, !.phase = f2.phase, !.k = f2.k]
        BY <1>2, <2>3 DEF FrameRecords
      <3> QED
        BY <3>2, <3>3
    <2> HIDE DEF f2, m, k, f, g
    <2>5. /\ k = f.k /\ k \in {0, 1, 2} /\ DOMAIN f.saved = Std /\ m # NoFd
          /\ f.saved[k] = NoFd /\ f2.saved[k] = m
          /\ \A j \in Std : j # k => f2.saved[j] = f.saved[j]
      <3>1. k = f.k
        BY DEF k
      <3> QED
        BY <1>5, <2>2, <2>3, <3>1, StdFds
    <2>6. Copies(f2) = Copies(f) \cup {m}
      BY <2>5, StdFds DEF Copies
    <2>7. m \notin Own \cup Held(g) \cup Copies(f)
      BY <1>2, <2>2 DEF Stacked
    <2>8. CopiesMade(f2)
      <3>1. \A j \in Std : f.saved[j] # m
        BY <2>5, <2>7, StdFds DEF Copies
      <3>2. \A i, j \in Std : f2.saved[i] = f2.saved[j] /\ f2.saved[i] # NoFd => i = j
        BY <1>2, <2>5, <3>1 DEF Stacked, CopiesMade
      <3>3. \A j \in Std : f2.saved[j] # NoFd <=> j <= k
        BY <1>5, <2>5, StdFds
      <3>4. k = 2 => f2.k = 0 /\ f2.phase = "apply"
        BY <2>3
      <3>5. k # 2 => f2.k = k + 1 /\ f2.phase = "save"
        BY <2>3, <2>5
      <3> QED
        BY <1>5, <2>3, <2>5, <3>2, <3>3, <3>4, <3>5, StdFds DEF CopiesMade
    <2>9. /\ DOMAIN fds' = Fds /\ fds'[m] = fds[k]
          /\ \A fd \in Fds : fd # m => fds'[fd] = fds[fd]
      BY <1>2, <2>1, <2>2 DEF Stacked
    <2>10. OpenFds(fds') = OpenFds(fds) \cup {m}
      <3>1. k \in Std
        BY <2>5, StdFds
      <3>2. fds'[m] # Closed
        BY <1>4, <2>9, <3>1
      <3> QED
        BY <2>2, <2>9, <3>2 DEF OpenFds
    <2>11. \A fd \in Own \cup Held(g) \cup Copies(f) : fds'[fd] = fds[fd]
      BY <1>2, <2>7, <2>9, StdFds DEF Stacked
    <2>12. Kept(g, fds') /\ Holds(f, g, fds')
      BY <1>2, <2>11, KeptLater, HoldsLater DEF Stacked
    <2>13. Holds(f2, g, fds')
      BY <1>4, <2>5, <2>9, <2>12, StdFds DEF Holds
    <2>14. Streams(g, f2, fds')
      <3>1. \A j \in Std : fds'[j] = Outer(g, j)
        BY <1>4, <2>11 DEF Own
      <3>2. f2.phase \in {"apply", "save"}
        BY <2>3
      <3> QED
        BY <3>1, <3>2 DEF Streams
    <2>15. KeptSame(fds')
      BY <1>2, <2>11 DEF Stacked, Own, KeptSame
    <2>16. Stacked(g, f2, fds', {})
      BY <1>2, <2>2, <2>4, <2>6, <2>7, <2>8, <2>9, <2>10, <2>12, <2>13, <2>14, <2>15 DEF Stacked
    <2>17. TableOk(frames', fds', job'.fds)
      BY <1>1, <1>2, <2>1, <2>16, Replaced
    <2> QED
      BY <1>1, <1>3, <2>17 DEF CmdInv, CmdInvLater
  <1> QED
    BY <1>6, <1>7

\* the redirects of a frame take force, all of them or not
LEMMA ApplyRedirectsKeeps ==
    ASSUME CmdInv, ApplyRedirects
    PROVE  CmdInvLater
  <1> DEFINE g == Front(frames)
             f == Top
  <1>1. frames # <<>> /\ f.phase = "apply" /\ UNCHANGED <<job, procs>>
    BY DEF ApplyRedirects, InPhase
  <1>2. /\ Stacked(g, f, fds, {}) /\ g \in Seq(FrameRecords) /\ f \in FrameRecords
        /\ job.at \in {"none", "done"} /\ job.fds = {}
    BY <1>1, TopFrame
  <1>3. JobOk(job', frames', fds')
    BY <1>1, <1>2, RestingJob DEF CmdInv
  <1>4. \A j \in Std : fds[j] = Outer(g, j) /\ fds[j] # Closed
    BY <1>1, <1>2, StdFds DEF Stacked, Streams, OpenFds, Own
  <1>5. PICK o \in Redirected(fds, f.cmd) :
           /\ fds' = o.table
           /\ frames' = Append(g, [f EXCEPT !.phase = IF o.status = 0 THEN "body" ELSE "restore"])
    BY DEF ApplyRedirects, SetTop
  <1> DEFINE f2 == [f EXCEPT !.phase = IF o.status = 0 THEN "body" ELSE "restore"]
  <1>6. /\ f2 \in FrameRecords /\ f2.k = f.k /\ f2.saved = f.saved /\ f2.cmd = f.cmd
        /\ f2.phase = IF o.status = 0 THEN "body" ELSE "restore"
    BY <1>2 DEF FrameRecords, FramePhases
  <1>7. frames' = Append(g, f2)
    BY <1>5
  <1>8. /\ DOMAIN fds' = Fds
        /\ \A fd \in Fds \ Std : fds'[fd] = fds[fd]
        /\ OpenFds(fds') = OpenFds(fds)
        /\ o.status = 0 => \A k \in Std :
              fds'[k] = IF f.cmd.redir[k] # None THEN File(f.cmd.redir[k]) ELSE fds[k]
    <2>1. DOMAIN fds = Fds
      BY <1>2 DEF Stacked
    <2> HIDE DEF f
    <2> QED
      BY <1>4, <1>5, <2>1, AllApplied
  <1> HIDE DEF f2, f, g
  <1>9. HasRedirect(f.cmd) /\ f.k = 0 /\ \A j \in Std : f.saved[j] # NoFd
    BY <1>1, <1>2 DEF Stacked, CopiesMade
  <1>10. CopiesMade(f2)
    BY <1>2, <1>6, <1>9, StdFds DEF Stacked, CopiesMade
  <1>11. Copies(f2) = Copies(f)
    BY <1>6 DEF Copies
  <1>12. \A fd \in Held(g) \cup Copies(f) \cup KeptFds : fds'[fd] = fds[fd]
    BY <1>2, <1>8, StdFds DEF Stacked, Own
  <1>13. Kept(g, fds') /\ Holds(f2, g, fds') /\ KeptSame(fds')
    <2>1. Holds(f, g, fds') /\ Kept(g, fds')
      BY <1>2, <1>12, KeptLater, HoldsLater DEF Stacked
    <2> QED
      BY <1>2, <1>6, <1>12, <2>1 DEF Stacked, Holds, KeptSame
  <1>14. Streams(g, f2, fds')
    <2>1. CASE o.status = 0
      <3>1. \A k \in Std : fds'[k] = Outer(Append(g, f2), k)
        BY <1>2, <1>4, <1>6, <1>8, <2>1, OuterPushed
      <3> QED
        BY <1>6, <2>1, <3>1 DEF Streams
    <2>2. CASE o.status # 0
      BY <1>6, <1>9, <2>2 DEF Streams
    <2> QED
      BY <2>1, <2>2
  <1>15. Stacked(g, f2, fds', {})
    BY <1>2, <1>6, <1>8, <1>10, <1>11, <1>13, <1>14 DEF Stacked
  <1>16. TableOk(frames', fds', job'.fds)
    BY <1>1, <1>2, <1>7, <1>15, Replaced
  <1> QED
    BY <1>1, <1>3, <1>16 DEF CmdInv, CmdInvLater

\* a frame that goes leaves the table as the frames below it have it
LEMMA GoneSettles ==
    ASSUME NEW g, NEW f, NEW t, NEW u,
           Stacked(g, f, t, {}),
           DOMAIN u = Fds, \A fd \in Held(g) \cup KeptFds : u[fd] = t[fd],
           \A k \in Std : u[k] = Outer(g, k),
           OpenFds(u) = OpenFds(t) \ Copies(f)
    PROVE  Settled(g, u, {})
  <1>1. OpenFds(u) = Own \cup Held(g)
    BY DEF Stacked
  <1>2. Kept(g, u)
    BY KeptLater DEF Stacked
  <1>3. KeptSame(u)
    BY DEF Stacked, KeptSame
  <1> QED
    BY <1>1, <1>2, <1>3 DEF Stacked, Settled

(* A body ends: the redirects are put back next, or there were none.       *)
LEMMA BodyEndsKeeps ==
    ASSUME CmdInv, BodyEnds
    PROVE  CmdInvLater
  <1> DEFINE g == Front(frames)
             f == Top
  <1>1. /\ frames # <<>> /\ f.phase = "body" /\ job.at \in {"none", "done"}
        /\ job' = NoJob /\ UNCHANGED <<fds, procs>>
    BY DEF BodyEnds, InPhase
  <1>2. job.fds = {} /\ JobOk(job', frames', fds')
    BY <1>1, RestingJob, NoJobOk DEF CmdInv
  <1>3. Stacked(g, f, fds, {}) /\ g \in Seq(FrameRecords) /\ f \in FrameRecords
    BY <1>1, <1>2, TopFrame
  <1>4. CASE HasRedirect(f.cmd)
    <2> DEFINE f2 == [f EXCEPT !.phase = "restore"]
    <2>1. frames' = Append(g, f2)
      BY <1>4 DEF BodyEnds, SetTop
    <2>2. /\ f2 \in FrameRecords /\ f2.k = f.k /\ f2.saved = f.saved /\ f2.cmd = f.cmd
          /\ f2.phase = "restore"
      BY <1>3 DEF FrameRecords, FramePhases
    <2> HIDE DEF f2, f, g
    <2>3. f.k = 0 /\ \A j \in Std : f.saved[j] # NoFd
      BY <1>1, <1>3, <1>4 DEF Stacked, CopiesMade
    <2>4. CopiesMade(f2)
      BY <1>3, <1>4, <2>2, <2>3, StdFds DEF Stacked, CopiesMade
    <2>5. Copies(f2) = Copies(f) /\ Holds(f2, g, fds) /\ Streams(g, f2, fds)
      BY <1>3, <2>2, <2>3 DEF Copies, Holds, Streams, Stacked
    <2>6. Stacked(g, f2, fds, {})
      BY <1>3, <2>2, <2>4, <2>5 DEF Stacked
    <2>7. TableOk(frames', fds', job'.fds)
      BY <1>1, <2>1, <2>6, Replaced, NoJobOk
    <2> QED
      BY <1>1, <1>2, <2>7 DEF CmdInv, CmdInvLater
  <1>5. CASE ~HasRedirect(f.cmd)
    <2>1. frames' = g
      BY <1>5 DEF BodyEnds
    <2> HIDE DEF f, g
    <2>2. Copies(f) = {} /\ \A j \in Std : f.cmd.redir[j] = None
      BY <1>3, <1>5 DEF Stacked, CopiesMade, Copies, HasRedirect
    <2>3. \A k \in Std : fds[k] = Outer(g, k)
      BY <1>1, <1>3, <2>2, OuterPushed DEF Stacked, Streams
    <2>4. Settled(g, fds, {})
      BY <1>3, <2>2, <2>3, GoneSettles DEF Stacked
    <2>5. TableOk(frames', fds', job'.fds)
      BY <1>1, <2>1, <2>4, SettledIsOk, NoJobOk
    <2> QED
      BY <1>1, <1>2, <2>5 DEF CmdInv, CmdInvLater
  <1> QED
    BY <1>4, <1>5

\* a stream goes back to what its copy holds, and the copy goes
LEMMA RestoreStdKeeps ==
    ASSUME CmdInv, RestoreStd
    PROVE  CmdInvLater
  <1> DEFINE g == Front(frames)
             f == Top
             k == f.k
             copy == f.saved[k]
  <1>1. frames # <<>> /\ f.phase = "restore" /\ UNCHANGED <<job, procs>>
    BY DEF RestoreStd, InPhase
  <1>2. /\ Stacked(g, f, fds, {}) /\ g \in Seq(FrameRecords) /\ f \in FrameRecords
        /\ job.at \in {"none", "done"} /\ job.fds = {}
    BY <1>1, TopFrame
  <1>3. JobOk(job', frames', fds')
    BY <1>1, <1>2, RestingJob DEF CmdInv
  <1>4. fds' = IF copy = NoFd THEN fds ELSE [fds EXCEPT ![k] = fds[copy], ![copy] = Closed]
    BY DEF RestoreStd, PutBack
  <1>5. k = 2 => frames' = g
    BY DEF RestoreStd
  <1>6. k # 2 => frames' = Append(g, [f EXCEPT !.saved[f.k] = NoFd, !.k = @ + 1])
    BY DEF RestoreStd, SetTop
  <1>7. /\ k = f.k /\ k \in Std /\ f.saved \in [Std -> Fds \cup {NoFd}] /\ copy = f.saved[k]
        /\ HasRedirect(f.cmd)
        /\ \A j \in Std : j < k => f.saved[j] = NoFd
        /\ \A i, j \in Std : f.saved[i] = f.saved[j] /\ f.saved[i] # NoFd => i = j
    BY <1>1, <1>2 DEF FrameRecords, Stacked, CopiesMade
  <1>8. /\ \A j \in Std : f.saved[j] = NoFd => fds[j] = Outer(g, j)
        /\ copy # NoFd => fds[copy] = Outer(g, k)
    BY <1>1, <1>2, <1>7 DEF Stacked, Streams, Holds
  <1>9. copy # NoFd => copy \in Copies(f) /\ copy \in Fds /\ copy \notin Own \cup Held(g)
    <2>1. copy # NoFd => copy \in Copies(f)
      BY <1>7 DEF Copies
    <2> HIDE DEF copy, f, g
    <2> QED
      BY <1>2, <2>1 DEF Stacked
  <1> HIDE DEF copy, k, f, g
  <1>10. /\ DOMAIN fds' = Fds /\ fds'[k] = Outer(g, k)
         /\ \A fd \in Fds : fd # k /\ fd # copy => fds'[fd] = fds[fd]
         /\ copy # NoFd => fds'[copy] = Closed
    <2>1. DOMAIN fds = Fds /\ k \in Fds /\ k # copy
      BY <1>2, <1>7, <1>9, StdFds DEF Stacked, Own
    <2>2. CASE copy = NoFd
      BY <1>4, <1>7, <1>8, <2>1, <2>2
    <2>3. CASE copy # NoFd
      BY <1>4, <1>8, <1>9, <2>1, <2>3
    <2> QED
      BY <2>2, <2>3
  <1>11. OpenFds(fds') = OpenFds(fds) \ ({copy} \ {NoFd})
    <2>1. k \in OpenFds(fds)
      BY <1>2, <1>7 DEF Stacked, Own
    <2>2. fds'[k] # Closed
      <3>1. CASE copy = NoFd
        BY <1>7, <1>8, <1>10, <2>1, <3>1 DEF OpenFds
      <3>2. CASE copy # NoFd
        <4>1. copy \in OpenFds(fds)
          BY <1>2, <1>9, <3>2 DEF Stacked
        <4> QED
          BY <1>8, <1>10, <3>2, <4>1 DEF OpenFds
      <3> QED
        BY <3>1, <3>2
    <2>3. NoFd \notin Fds
      BY StdFds
    <2>4. \A fd \in Fds : fd # copy => (fds'[fd] # Closed <=> fds[fd] # Closed)
      BY <1>10, <2>1, <2>2 DEF OpenFds
    <2>5. copy # NoFd => copy \notin OpenFds(fds')
      BY <1>10 DEF OpenFds
    <2> QED
      BY <2>3, <2>4, <2>5 DEF OpenFds
  <1>12. /\ \A fd \in Held(g) \cup KeptFds : fds'[fd] = fds[fd]
         /\ \A j \in Std : j # k => fds'[j] = fds[j]
    <2>1. Held(g) \cup Own \subseteq Fds /\ Held(g) \cap Own = {}
      BY <1>2, StdFds DEF Stacked
    <2>2. copy \notin Held(g) \cup Own
      BY <1>9, <2>1, StdFds
    <2>3. k \notin Held(g) \cup KeptFds
      BY <1>7, <2>1, StdFds DEF Own
    <2> QED
      BY <1>10, <2>1, <2>2, <2>3 DEF Own
  <1>13. CASE k = 2
    <2>1. Copies(f) = {copy} \ {NoFd}
      BY <1>7, <1>13, StdFds DEF Copies
    <2>2. \A j \in Std : fds'[j] = Outer(g, j)
      BY <1>7, <1>8, <1>10, <1>12, <1>13, StdFds
    <2>3. Settled(g, fds', {})
      BY <1>2, <1>10, <1>11, <1>12, <2>1, <2>2, GoneSettles
    <2>4. TableOk(frames', fds', job'.fds)
      BY <1>1, <1>2, <1>5, <1>13, <2>3, SettledIsOk
    <2> QED
      BY <1>1, <1>3, <2>4 DEF CmdInv, CmdInvLater
  <1>14. CASE k # 2
    <2> DEFINE f2 == [f EXCEPT !.saved[f.k] = NoFd, !.k = @ + 1]
    <2>1. frames' = Append(g, f2)
      BY <1>6, <1>14
    <2>2. /\ f2.saved = [f.saved EXCEPT ![k] = NoFd] /\ f2.k = k + 1
          /\ f2.phase = "restore" /\ f2.cmd = f.cmd
      BY <1>1, <1>2, <1>7 DEF FrameRecords
    <2>3. f2 \in FrameRecords
      <3>1. f2.saved \in [Std -> Fds \cup {NoFd}] /\ f2.k \in Std
        BY <1>7, <1>14, <2>2, StdFds
      <3>2. [f EXCEPT !.saved = f2.saved, !.k = f2.k] \in FrameRecords
        <4> HIDE DEF f2
        <4> QED
          BY <1>2, <3>1 DEF FrameRecords
      <3>3. f2 = [f EXCEPT !.saved = f2.saved, !.k = f2.k]
        BY <1>2, <1>7, <2>2 DEF FrameRecords
      <3> QED
        BY <3>2, <3>3
    <2> HIDE DEF f2
    <2>4. f2.saved[k] = NoFd /\ \A j \in Std : j # k => f2.saved[j] = f.saved[j]
      BY <1>7, <2>2
    <2>5. Copies(f2) = Copies(f) \ ({copy} \ {NoFd})
      BY <1>7, <2>4 DEF Copies
    <2>6. CopiesMade(f2)
      <3>1. \A j \in Std : j < k + 1 => f2.saved[j] = NoFd
        BY <1>7, <2>4, StdFds
      <3>2. \A i, j \in Std : f2.saved[i] = f2.saved[j] /\ f2.saved[i] # NoFd => i = j
        BY <1>7, <2>4
      <3> QED
        BY <1>7, <2>2, <3>1, <3>2 DEF CopiesMade
    <2>7. \A fd \in Copies(f2) : fds'[fd] = fds[fd]
      <3>1. Copies(f2) \subseteq Fds \ Own /\ copy \notin Copies(f2)
        BY <1>2, <2>5, StdFds DEF Stacked, Copies
      <3> QED
        BY <1>7, <1>10, <3>1 DEF Own
    <2>8. Kept(g, fds') /\ KeptSame(fds')
      BY <1>2, <1>12, KeptLater DEF Stacked, KeptSame
    <2>9. Holds(f2, g, fds')
      <3> SUFFICES ASSUME NEW j \in Std, f2.saved[j] # NoFd
                   PROVE  fds'[f2.saved[j]] = Outer(g, j)
        BY DEF Holds
      <3>1. f2.saved[j] = f.saved[j] /\ f2.saved[j] \in Copies(f2)
        BY <2>4 DEF Copies
      <3>2. fds[f.saved[j]] = Outer(g, j)
        BY <1>2, <3>1 DEF Stacked, Holds
      <3> QED
        BY <2>7, <3>1, <3>2
    <2>10. Streams(g, f2, fds')
      <3> SUFFICES ASSUME NEW j \in Std, f2.saved[j] = NoFd
                   PROVE  fds'[j] = Outer(g, j)
        BY <2>2 DEF Streams
      <3>1. CASE j = k
        BY <1>10, <3>1
      <3>2. CASE j # k
        BY <1>8, <1>12, <2>4, <3>2
      <3> QED
        BY <3>1, <3>2
    <2>11. OpenFds(fds') = Own \cup Held(g) \cup Copies(f2)
      <3>1. OpenFds(fds) = Own \cup Held(g) \cup Copies(f)
        BY <1>2 DEF Stacked
      <3>2. copy # NoFd => copy \notin Own \cup Held(g)
        BY <1>9
      <3> QED
        BY <1>11, <2>5, <3>1, <3>2
    <2>12. Stacked(g, f2, fds', {})
      BY <1>2, <1>10, <2>3, <2>5, <2>6, <2>8, <2>9, <2>10, <2>11 DEF Stacked
    <2>13. TableOk(frames', fds', job'.fds)
      BY <1>1, <1>2, <2>1, <2>12, Replaced
    <2> QED
      BY <1>1, <1>3, <2>13 DEF CmdInv, CmdInvLater
  <1> QED
    BY <1>13, <1>14

-----------------------------------------------------------------------------
(* The steps of a pipeline in the shell.                                   *)
LEMMA TableFacts ==
    ASSUME NEW fr, NEW t, NEW S, TableOk(fr, t, S)
    PROVE  /\ DOMAIN t = Fds /\ S \subseteq Fds \ Own /\ IsFiniteSet(S)
           /\ Own \cup S \subseteq OpenFds(t) /\ OpenFds(t) \subseteq Fds
  <1>1. /\ DOMAIN t = Fds /\ S \subseteq Fds \ Own
        /\ Own \cup S \subseteq OpenFds(t)
    BY DEF TableOk, Settled, Stacked
  <1>2. IsFiniteSet(Fds)
    <2>1. 0 \in Int /\ MaxFd \in Int
      BY FdAssumption
    <2> QED
      BY <2>1, FS_Interval DEF Fds
  <1>3. IsFiniteSet(S)
    BY <1>1, <1>2, FS_Subset
  <1> QED
    BY <1>1, <1>3 DEF OpenFds

(* close_fds closes the descriptors it is given, and no other.             *)
LEMMA Closes ==
    ASSUME NEW t, DOMAIN t = Fds, NEW S
    PROVE  /\ DOMAIN CloseFds(t, S) = Fds
           /\ \A fd \in Fds : fd \notin S => CloseFds(t, S)[fd] = t[fd]
           /\ OpenFds(CloseFds(t, S)) = OpenFds(t) \ S
  BY DEF CloseFds, OpenFds

(* A pipeline starts with no pipe and no stage.                            *)
LEMMA StartPipelineKeeps ==
    ASSUME CmdInv, NEW pl \in Pipelines, StartPipeline(pl)
    PROVE  CmdInvLater
  <1>1. PICK id \in Ids :
            job' = [NoJob EXCEPT !.at = "pipes", !.cmds = pl.cmds, !.id = id,
                                 !.background = pl.background]
    BY DEF StartPipeline
  <1>2. UNCHANGED <<fds, frames, procs>> /\ Ready
    BY DEF StartPipeline
  <1>3. /\ DOMAIN job' = {"at", "cmds", "background", "id", "fds", "exits"}
        /\ job'.at = "pipes" /\ job'.cmds = pl.cmds /\ job'.fds = {} /\ job'.exits = <<>>
    BY <1>1 DEF NoJob
  <1>4. pl.cmds \in Seq(Commands) /\ Len(pl.cmds) \in Nat \ {0}
    <2>1. pl.cmds \in Seq(Commands) \ {<<>>}
      BY PipelineAssumption
    <2> QED
      BY <2>1, EmptySeq
  <1>5. TableOk(frames', fds', job'.fds)
    BY <1>2, <1>3, ReadyIsSettled, SettledIsOk
  <1>6. frames' = <<>> \/ Last(frames').phase = "body"
    BY <1>2 DEF Ready, InPhase, Top
  <1>7. Made(job') = 0 /\ Cardinality(job'.fds) = 0
    BY <1>3, FS_EmptySet DEF Made
  <1>8. job'.exits \in Seq(ExitStatuses) /\ Len(job'.exits) = 0
    BY <1>3
  <1>9. PipesMade(fds', job'.fds, job'.id, 0)
    BY DEF PipesMade
  <1>10. JobOk(job', frames', fds')
    BY <1>3, <1>4, <1>6, <1>7, <1>8, <1>9 DEF JobOk
  <1> QED
    BY <1>2, <1>5, <1>10 DEF CmdInv, CmdInvLater

\* the end of a pipeline: its descriptors are closed, and no job is left
LEMMA PipesGo ==
    ASSUME CmdInv, job.at \in {"pipes", "close"}
    PROVE  TableOk(frames, CloseFds(fds, job.fds), {})
  <1>1. TableOk(frames, fds, job.fds) /\ (frames = <<>> \/ Last(frames).phase = "body")
    BY DEF CmdInv, JobOk
  <1>2. DOMAIN fds = Fds
    BY <1>1, TableFacts
  <1> DEFINE u == CloseFds(fds, job.fds)
  <1>3. /\ DOMAIN u = Fds /\ OpenFds(u) = OpenFds(fds) \ job.fds
        /\ \A fd \in Fds : fd \notin job.fds => u[fd] = fds[fd]
    BY <1>2, Closes
  <1> HIDE DEF u
  <1>4. TableOk(frames, u, {})
    BY <1>1, <1>3, PipesLater
  <1> QED
    BY <1>4 DEF u

\* both ends of one more pipe, on descriptors that were free
LEMMA PipeKeeps ==
    ASSUME CmdInv, Pipe
    PROVE  CmdInvLater
  <1>1. /\ job.at = "pipes" /\ UNCHANGED <<frames, procs>>
        /\ Pipes < Len(job.cmds) - 1
    BY DEF Pipe
  <1>2. /\ TableOk(frames, fds, job.fds) /\ JobOk(job, frames, fds)
        /\ (frames = <<>> \/ Last(frames).phase = "body")
    BY <1>1 DEF CmdInv, JobOk
  <1>3. CASE Cardinality(FreeFds(fds)) < 2
    <2>1. fds' = CloseFds(fds, job.fds) /\ job' = NoJob
      BY <1>3 DEF Pipe
    <2>2. TableOk(frames', fds', job'.fds)
      BY <1>1, <2>1, PipesGo, NoJobOk
    <2> QED
      BY <1>1, <2>1, <2>2, NoJobOk DEF CmdInv, CmdInvLater
  <1>4. CASE ~(Cardinality(FreeFds(fds)) < 2)
    <2> DEFINE r == Min(FreeFds(fds))
               w == Min(FreeFds(fds) \ {r})
               S == job.fds
               T == S \cup {r, w}
               n == Made(job)
    <2>1. /\ fds' = [fds EXCEPT ![r] = ReadEnd(job.id, n + 1), ![w] = WriteEnd(job.id, n + 1)]
          /\ job' = [job EXCEPT !.fds = @ \cup {r, w}]
      BY <1>4 DEF Pipe, Pipes, Made
    <2>2. FreeFds(fds) \in SUBSET Nat
      BY StdFds DEF FreeFds
    <2>3. r \in FreeFds(fds)
      <3>1. FreeFds(fds) # {}
        BY <1>4, FS_EmptySet
      <3> HIDE DEF r
      <3> QED
        BY <2>2, <3>1, MinIsMember DEF r
    <2>4. w \in FreeFds(fds) \ {r}
      <3>1. FreeFds(fds) # {r}
        BY <1>4, FS_Singleton
      <3>2. FreeFds(fds) \ {r} \in SUBSET Nat /\ FreeFds(fds) \ {r} # {}
        BY <2>2, <2>3, <3>1
      <3> HIDE DEF r
      <3> QED
        BY <3>2, MinIsMember
    <2> HIDE DEF r, w, n
    <2>5. /\ r \in Fds \ OpenFds(fds) /\ w \in Fds \ OpenFds(fds) /\ r # w
      BY <2>3, <2>4 DEF FreeFds
    <2>6. /\ DOMAIN fds = Fds /\ S \subseteq Fds \ Own /\ IsFiniteSet(S)
          /\ Own \cup S \subseteq OpenFds(fds) /\ OpenFds(fds) \subseteq Fds
      BY <1>2, TableFacts
    <2>7. /\ DOMAIN fds' = Fds /\ fds'[r] = ReadEnd(job.id, n + 1) /\ fds'[w] = WriteEnd(job.id, n + 1)
          /\ \A fd \in Fds : fd # r /\ fd # w => fds'[fd] = fds[fd]
      BY <2>1, <2>5, <2>6
    <2>8. OpenFds(fds') = OpenFds(fds) \cup {r, w}
      BY <2>5, <2>7, Kinds DEF OpenFds
    <2>9. TableOk(frames, fds', T)
      <3>1. /\ T \subseteq Fds /\ T \cap (OpenFds(fds) \ S) = {}
            /\ OpenFds(fds') = (OpenFds(fds) \ S) \cup T
            /\ \A fd \in Fds : fd \notin S \cup T => fds'[fd] = fds[fd]
        BY <2>5, <2>6, <2>7, <2>8
      <3> HIDE DEF S, T
      <3> QED
        BY <1>2, <2>7, <3>1, PipesLater DEF S
    <2>10. /\ DOMAIN job = {"at", "cmds", "background", "id", "fds", "exits"}
           /\ job.exits \in Seq(ExitStatuses) /\ job.cmds \in Seq(Commands)
           /\ Len(job.exits) < Len(job.cmds)
           /\ Cardinality(S) = 2 * n /\ PipesMade(fds, S, job.id, n)
      BY <1>1, <1>2 DEF JobOk, n
    <2>11. /\ DOMAIN job' = {"at", "cmds", "background", "id", "fds", "exits"}
           /\ job'.at = "pipes" /\ job'.cmds = job.cmds /\ job'.id = job.id
           /\ job'.fds = T /\ job'.exits = job.exits
      BY <1>1, <2>1, <2>10
    <2>12. n \in Nat /\ n + 1 < Len(job.cmds)
      <3>1. n = Pipes
        BY DEF n, Made, Pipes
      <3>2. Cardinality(S) \in Nat
        BY <2>6, FS_CardinalityType
      <3> QED
        BY <1>1, <2>10, <3>1, <3>2 DEF Pipes
    <2>13. Cardinality(T) = 2 * (n + 1)
      <3>1. Cardinality(S \cup {r}) = Cardinality(S) + 1 /\ IsFiniteSet(S \cup {r})
        BY <2>5, <2>6, FS_AddElement
      <3>2. Cardinality((S \cup {r}) \cup {w}) = Cardinality(S \cup {r}) + 1
        BY <2>5, <2>6, <3>1, FS_AddElement
      <3>3. (S \cup {r}) \cup {w} = T
        OBVIOUS
      <3>4. Cardinality(T) = Cardinality(S \cup {r}) + 1
        BY <3>2, <3>3
      <3> HIDE DEF S, T
      <3>5. Cardinality(S \cup {r}) = 2 * n + 1
        BY <2>10, <3>1
      <3> QED
        BY <2>12, <3>4, <3>5
    <2>14. Made(job') = n + 1
      BY <2>11, <2>12, <2>13 DEF Made
    <2>15. PipesMade(fds', T, job.id, n + 1)
      <3> SUFFICES ASSUME NEW i \in 1 .. n + 1
                   PROVE  /\ \E fd \in T : fds'[fd] = ReadEnd(job.id, i)
                          /\ \E fd \in T : fds'[fd] = WriteEnd(job.id, i)
        BY DEF PipesMade
      <3>1. CASE i = n + 1
        BY <2>7, <3>1
      <3>2. CASE i # n + 1
        <4>1. i \in 1 .. n
          BY <2>12, <3>2
        <4>2. PICK a \in S, b \in S : fds[a] = ReadEnd(job.id, i) /\ fds[b] = WriteEnd(job.id, i)
          BY <2>10, <4>1 DEF PipesMade
        <4>3. fds'[a] = fds[a] /\ fds'[b] = fds[b]
          BY <2>5, <2>6, <2>7
        <4> QED
          BY <4>2, <4>3
      <3> QED
        BY <3>1, <3>2
    <2> HIDE DEF S, T
    <2>16. JobOk(job', frames', fds')
      BY <1>1, <1>2, <2>10, <2>11, <2>12, <2>13, <2>14, <2>15 DEF JobOk
    <2> QED
      BY <1>1, <2>9, <2>11, <2>16 DEF CmdInv, CmdInvLater
  <1> QED
    BY <1>3, <1>4

\* a stage starts with the shell's table, both ends of every pipe on it
LEMMA StageStarts ==
    ASSUME CmdInv, job.at = "pipes", Pipes = Len(job.cmds) - 1
    PROVE  StageOk(Stage(Forked + 1))
  <1> DEFINE p == Stage(Forked + 1)
             n == Made(job)
  <1>1. TableOk(frames, fds, job.fds) /\ JobOk(job, frames, fds)
    BY DEF CmdInv
  <1>2. /\ job.exits \in Seq(ExitStatuses) /\ job.cmds \in Seq(Commands)
        /\ Len(job.exits) < Len(job.cmds)
        /\ PipesMade(fds, job.fds, job.id, n)
    BY <1>1 DEF JobOk
  <1>3. /\ DOMAIN fds = Fds /\ job.fds \subseteq Fds \ Own
        /\ Own \cup job.fds \subseteq OpenFds(fds) /\ OpenFds(fds) \subseteq Fds
    BY <1>1, TableFacts
  <1>4. Len(job.cmds) \in Nat /\ n = Len(job.cmds) - 1 /\ Forked \in Nat /\ Forked + 1 \in 1 .. n + 1
    BY <1>2 DEF Forked, Made, Pipes
  <1>5. job.cmds[Forked + 1] \in Commands
    BY <1>2, <1>4
  <1>6. /\ DOMAIN p = {"id", "i", "last", "cmd", "pc", "table", "pipes", "cloexec", "outer"}
        /\ p.id = job.id /\ p.i = Forked + 1 /\ (p.last <=> Forked + 1 = Len(job.cmds))
        /\ p.cmd = job.cmds[Forked + 1] /\ p.pc = "wire" /\ p.table = fds /\ p.pipes = job.fds
    BY DEF Stage
  <1>7. /\ p.cloexec = {fd \in OpenFds(fds) \ (job.fds \cup PassedOn) : fd > 2}
        /\ p.outer = [k \in Std |-> fds[k]]
    BY DEF Stage
  <1> HIDE DEF p, n
  <1>8. DOMAIN p.cmd.redir = Std
    BY <1>5, <1>6 DEF Commands
  <1>9. p.cloexec \subseteq Fds \ (Std \cup PassedOn \cup p.pipes)
    BY <1>3, <1>6, <1>7, StdFds
  <1>10. \A k \in Std : p.outer[k] = fds[k] /\ p.outer[k] # Closed
    BY <1>3, <1>7, StdFds DEF OpenFds, Own
  <1>11. OpenFds(p.table) = Std \cup p.pipes \cup PassedOn \cup p.cloexec
    <2>1. \A fd \in Fds : fd > 2 <=> fd \notin Std
      BY StdFds
    <2> QED
      BY <1>3, <1>6, <1>7, <2>1, StdFds DEF Own
  <1>12. Unwired(p)
    <2>1. n \in Nat /\ p.i \in 1 .. n + 1 /\ (p.last <=> p.i = n + 1)
      BY <1>4, <1>6
    <2>2. PipesMade(p.table, p.pipes, p.id, n)
      BY <1>2, <1>6
    <2> QED
      BY <1>6, <1>10, <1>11, <2>1, <2>2 DEF Unwired
  <1>13. /\ p.pipes \subseteq Fds \ (Std \cup PassedOn)
         /\ \A fd \in PassedOn : p.table[fd] = Script
    <2>1. KeptSame(fds)
      BY <1>1 DEF TableOk, Settled, Stacked
    <2> QED
      BY <1>3, <1>6, <2>1, StdFds DEF Own, KeptSame
  <1>14. StageOk(p)
    BY <1>3, <1>6, <1>8, <1>9, <1>10, <1>12, <1>13 DEF StageOk
  <1> QED
    BY <1>14 DEF p

(* A stage more, or a fork that fails.                                     *)
LEMMA ForkKeeps ==
    ASSUME CmdInv, Fork
    PROVE  CmdInvLater
  <1>1. /\ job.at = "pipes" /\ Pipes = Len(job.cmds) - 1 /\ UNCHANGED <<fds, frames>>
    BY DEF Fork
  <1>2. /\ TableOk(frames, fds, job.fds) /\ JobOk(job, frames, fds)
        /\ \A p \in procs : StageOk(p)
    BY DEF CmdInv
  <1>3. /\ DOMAIN job = {"at", "cmds", "background", "id", "fds", "exits"}
        /\ frames = <<>> \/ Last(frames).phase = "body"
        /\ job.exits \in Seq(ExitStatuses) /\ job.cmds \in Seq(Commands)
        /\ Len(job.exits) < Len(job.cmds)
        /\ Made(job) < Len(job.cmds) /\ Cardinality(job.fds) = 2 * Made(job)
        /\ PipesMade(fds, job.fds, job.id, Made(job))
    BY <1>1, <1>2 DEF JobOk
  <1>4. CASE procs' = procs /\ job' = [job EXCEPT !.at = "close"]
    <2>1. JobOk(job', frames, fds) /\ job'.fds = job.fds
      BY <1>3, <1>4 DEF JobOk
    <2> QED
      BY <1>1, <1>2, <1>4, <2>1 DEF CmdInv, CmdInvLater
  <1>5. CASE /\ procs' = procs \cup {Stage(Forked + 1)}
             /\ job' = [job EXCEPT !.exits = Append(@, Alive),
                                   !.at = IF Forked + 1 = Len(job.cmds) THEN "close" ELSE @]
    <2>1. /\ DOMAIN job' = DOMAIN job /\ job'.exits = Append(job.exits, Alive)
          /\ job'.cmds = job.cmds /\ job'.id = job.id /\ job'.fds = job.fds
          /\ job'.at = IF Forked + 1 = Len(job.cmds) THEN "close" ELSE "pipes"
      BY <1>1, <1>3, <1>5
    <2>2. job'.exits \in Seq(ExitStatuses) /\ Len(job'.exits) = Len(job.exits) + 1
      <3>1. Alive \in ExitStatuses
        BY DEF ExitStatuses
      <3> QED
        BY <1>3, <2>1, <3>1, AppendProperties
    <2>3. Made(job') = Made(job)
      BY <2>1 DEF Made
    <2>4. job'.at = "pipes" => Len(job'.exits) < Len(job'.cmds)
      BY <1>3, <2>1, <2>2 DEF Forked
    <2>5. JobOk(job', frames, fds)
      BY <1>3, <2>1, <2>2, <2>3, <2>4 DEF JobOk
    <2>6. \A p \in procs' : StageOk(p)
      BY <1>1, <1>2, <1>5, StageStarts
    <2> QED
      BY <1>1, <1>2, <2>1, <2>5, <2>6 DEF CmdInv, CmdInvLater
  <1> QED
    BY <1>4, <1>5 DEF Fork

(* The shell closes its ends, however many stages were forked.             *)
LEMMA ClosePipesKeeps ==
    ASSUME CmdInv, ClosePipes
    PROVE  CmdInvLater
  <1>1. /\ job.at = "close" /\ fds' = CloseFds(fds, job.fds) /\ UNCHANGED <<frames, procs>>
        /\ job' = NoJob \/ job' = [job EXCEPT !.at = "wait", !.fds = {}]
    BY DEF ClosePipes
  <1>2. TableOk(frames, fds', {})
    BY <1>1, PipesGo
  <1>3. job'.fds = {} /\ JobOk(job', frames, fds')
    <2>1. CASE job' = NoJob
      BY <2>1, NoJobOk
    <2>2. CASE job' = [job EXCEPT !.at = "wait", !.fds = {}]
      BY <1>1, <2>2 DEF CmdInv, JobOk
    <2> QED
      BY <1>1, <2>1, <2>2
  <1> QED
    BY <1>1, <1>2, <1>3 DEF CmdInv, CmdInvLater

(* The last stage has ended; the pipes were closed before the wait.        *)
LEMMA WaitReturnsKeeps ==
    ASSUME CmdInv, WaitReturns
    PROVE  CmdInvLater
  <1>1. /\ job.at = "wait" /\ job' = [job EXCEPT !.at = "done"]
        /\ UNCHANGED <<fds, frames, procs>>
    BY DEF WaitReturns
  <1>2. job'.fds = job.fds /\ JobOk(job', frames, fds)
    BY <1>1 DEF CmdInv, JobOk
  <1> QED
    BY <1>1, <1>2 DEF CmdInv, CmdInvLater

-----------------------------------------------------------------------------
(* The steps of a stage, in its own process.                               *)
LEMMA BecomesKeeps ==
    ASSUME CmdInv, NEW p, NEW q, Becomes(p, q), StageOk(q), UNCHANGED <<fds, frames>>
    PROVE  CmdInvLater
  <1>1. job' = job /\ procs' = (procs \ {p}) \cup {q}
    BY DEF Becomes
  <1>2. \A r \in procs' : StageOk(r)
    BY <1>1 DEF CmdInv
  <1> QED
    BY <1>1, <1>2 DEF CmdInv, CmdInvLater

(* A stage that ends takes its table with it.                              *)
LEMMA ExitsKeeps ==
    ASSUME CmdInv, NEW p, NEW code \in ExitStatuses, Exits(p, code), UNCHANGED <<fds, frames>>
    PROVE  CmdInvLater
  <1>1. /\ procs' \subseteq procs
        /\ job' = job \/ job' = [job EXCEPT !.exits[p.i] = code]
    BY DEF Exits
  <1>2. TableOk(frames, fds, job.fds) /\ JobOk(job, frames, fds)
    BY DEF CmdInv
  <1>3. job'.fds = job.fds /\ JobOk(job', frames, fds)
    <2>1. CASE job' = job
      BY <1>2, <2>1
    <2>2. CASE job' = [job EXCEPT !.exits[p.i] = code]
      <3> DEFINE e == [job.exits EXCEPT ![p.i] = code]
      <3>1. /\ DOMAIN job = {"at", "cmds", "background", "id", "fds", "exits"}
            /\ job.exits \in Seq(ExitStatuses)
        BY <1>2 DEF JobOk
      <3>2. /\ DOMAIN job' = DOMAIN job /\ job'.at = job.at /\ job'.fds = job.fds
            /\ job'.cmds = job.cmds /\ job'.id = job.id /\ job'.exits = e
        BY <2>2, <3>1
      <3>3. e \in Seq(ExitStatuses) /\ Len(e) = Len(job.exits)
        <4>1. CASE p.i \in DOMAIN job.exits
          BY <3>1, <4>1, ExceptSeq
        <4>2. CASE p.i \notin DOMAIN job.exits
          <5>1. PICK x \in Seq(ExitStatuses) : x = job.exits
            BY <3>1
          <5>2. x = [j \in DOMAIN x |-> x[j]]
            OBVIOUS
          <5>3. e = [j \in DOMAIN x |-> x[j]]
            BY <4>2, <5>1, Zenon
          <5> QED
            BY <5>1, <5>2, <5>3
        <4> QED
          BY <4>1, <4>2
      <3> HIDE DEF e
      <3>4. Made(job') = Made(job)
        BY <3>2 DEF Made
      <3> QED
        BY <1>2, <3>1, <3>2, <3>3, <3>4 DEF JobOk
    <2> QED
      BY <1>1, <2>1, <2>2
  <1> QED
    BY <1>1, <1>2, <1>3 DEF CmdInv, CmdInvLater

\* a stage has the ends of the pipes on its left and right, on its streams
LEMMA WireKeeps ==
    ASSUME CmdInv, NEW p \in procs, Wire(p), UNCHANGED <<fds, frames>>
    PROVE  CmdInvLater
  <1> DEFINE q == [p EXCEPT !.table = Wired(p), !.pc = "apply"]
             in == PipeFd(p, ReadEnd(p.id, p.i - 1))
             out == PipeFd(p, WriteEnd(p.id, p.i))
             v == [p.table EXCEPT ![0] = IF p.i = 1 THEN @ ELSE p.table[in],
                                  ![1] = IF p.last THEN @ ELSE p.table[out]]
  <1>1. p.pc = "wire" /\ Becomes(p, q)
    BY DEF Wire
  <1>2. StageOk(p) /\ Unwired(p)
    BY <1>1 DEF CmdInv, StageOk
  <1>3. /\ DOMAIN p = {"id", "i", "last", "cmd", "pc", "table", "pipes", "cloexec", "outer"}
        /\ DOMAIN p.table = Fds /\ p.pipes \subseteq Fds \ (Std \cup PassedOn)
        /\ p.cloexec \subseteq Fds \ (Std \cup PassedOn \cup p.pipes)
        /\ \A fd \in PassedOn : p.table[fd] = Script
        /\ \A k \in Std : p.outer[k] # Closed
        /\ \A k \in Std : p.table[k] = p.outer[k]
        /\ OpenFds(p.table) = Std \cup p.pipes \cup PassedOn \cup p.cloexec
    BY <1>2 DEF StageOk, Unwired
  <1>4. PICK n \in Nat : /\ p.i \in 1 .. n + 1 /\ (p.last <=> p.i = n + 1)
                         /\ PipesMade(p.table, p.pipes, p.id, n)
    BY <1>2 DEF Unwired
  <1>5. p.i # 1 => p.table[in] = ReadEnd(p.id, p.i - 1)
    <2> SUFFICES ASSUME p.i # 1 PROVE p.table[in] = ReadEnd(p.id, p.i - 1)
      OBVIOUS
    <2>1. p.i - 1 \in 1 .. n
      BY <1>4
    <2>2. \E fd \in p.pipes : p.table[fd] = ReadEnd(p.id, p.i - 1)
      BY <1>4, <2>1 DEF PipesMade
    <2> QED
      BY <2>2 DEF PipeFd
  <1>6. ~p.last => p.table[out] = WriteEnd(p.id, p.i)
    <2> SUFFICES ASSUME ~p.last PROVE p.table[out] = WriteEnd(p.id, p.i)
      OBVIOUS
    <2>1. p.i \in 1 .. n
      BY <1>4
    <2>2. \E fd \in p.pipes : p.table[fd] = WriteEnd(p.id, p.i)
      BY <1>4, <2>1 DEF PipesMade
    <2> QED
      BY <2>2 DEF PipeFd
  <1>7. /\ q.table = CloseFds(v, p.pipes) /\ q.pc = "apply"
        /\ DOMAIN q = DOMAIN p /\ q.id = p.id /\ q.i = p.i /\ (q.last <=> p.last)
        /\ q.cmd = p.cmd /\ q.pipes = p.pipes /\ q.cloexec = p.cloexec /\ q.outer = p.outer
    <2>1. Wired(p) = CloseFds(v, p.pipes)
      BY DEF Wired
    <2> HIDE DEF v
    <2> QED
      BY <1>3, <2>1
  <1> HIDE DEF in, out
  <1>8. /\ DOMAIN v = Fds
        /\ v[0] = IF p.i = 1 THEN p.table[0] ELSE p.table[in]
        /\ v[1] = IF p.last THEN p.table[1] ELSE p.table[out]
        /\ \A fd \in Fds : fd # 0 /\ fd # 1 => v[fd] = p.table[fd]
    BY <1>3, StdFds
  <1> HIDE DEF v, q
  <1>9. \A k \in Std : v[k] = Piped(p, k) /\ Piped(p, k) # Closed
    <2>1. v[0] = Piped(p, 0)
      BY <1>3, <1>4, <1>5, <1>8, StdFds DEF Piped
    <2>2. v[1] = Piped(p, 1)
      BY <1>3, <1>6, <1>8, StdFds DEF Piped
    <2>3. v[2] = Piped(p, 2)
      BY <1>3, <1>8, StdFds DEF Piped
    <2>4. \A k \in Std : Piped(p, k) # Closed
      BY <1>3, Kinds DEF Piped
    <2> QED
      BY <2>1, <2>2, <2>3, <2>4, StdFds
  <1>10. OpenFds(v) = Std \cup p.pipes \cup PassedOn \cup p.cloexec
    <2>1. \A fd \in Fds \ Std : v[fd] = p.table[fd]
      BY <1>8, StdFds
    <2>2. \A k \in Std : v[k] # Closed
      BY <1>9
    <2> QED
      BY <1>3, <2>1, <2>2, StdFds DEF OpenFds
  <1>11. /\ DOMAIN q.table = Fds /\ OpenFds(q.table) = OpenFds(v) \ p.pipes
         /\ \A fd \in Fds : fd \notin p.pipes => q.table[fd] = v[fd]
    BY <1>7, <1>8, Closes
  <1>12. /\ OpenFds(q.table) = Std \cup PassedOn \cup q.cloexec
         /\ \A fd \in PassedOn : q.table[fd] = Script
    BY <1>3, <1>7, <1>8, <1>10, <1>11, StdFds
  <1>13. \A k \in Std : q.table[k] = Piped(q, k)
    <2>1. \A k \in Std : Piped(q, k) = Piped(p, k)
      BY <1>7 DEF Piped
    <2> QED
      BY <1>3, <1>9, <1>11, <2>1, StdFds
  <1>14. StageOk(q)
    BY <1>2, <1>7, <1>11, <1>12, <1>13 DEF StageOk
  <1> QED
    BY <1>1, <1>14, BecomesKeeps

\* its redirects come after its pipes, and override them
LEMMA StageRedirectsKeeps ==
    ASSUME CmdInv, NEW p \in procs, StageRedirects(p), UNCHANGED <<fds, frames>>
    PROVE  CmdInvLater
  <1>1. p.pc = "apply"
    BY DEF StageRedirects
  <1>2. /\ StageOk(p)
        /\ DOMAIN p = {"id", "i", "last", "cmd", "pc", "table", "pipes", "cloexec", "outer"}
        /\ DOMAIN p.table = Fds /\ p.cloexec \subseteq Fds \ (Std \cup PassedOn \cup p.pipes)
        /\ \A fd \in PassedOn : p.table[fd] = Script
        /\ \A k \in Std : p.table[k] = Piped(p, k)
        /\ OpenFds(p.table) = Std \cup PassedOn \cup p.cloexec
    BY <1>1 DEF CmdInv, StageOk
  <1>3. \/ Exits(p, 2) \/ Exits(p, 127)
        \/ \E o \in Redirected(p.table, p.cmd) :
              IF o.status # 0 THEN Exits(p, o.status)
              ELSE Becomes(p, [p EXCEPT !.table = o.table, !.pc = "dispatch"])
    <2>1. CASE p.cmd.what = "badword"
      BY <2>1 DEF StageRedirects
    <2>2. CASE p.cmd.what = "empty"
      BY <2>2 DEF StageRedirects
    <2>3. CASE p.cmd.what # "badword" /\ p.cmd.what # "empty"
      BY <2>3, Zenon DEF StageRedirects
    <2> QED
      BY <2>1, <2>2, <2>3
  <1>4. {1, 2, 127} \subseteq ExitStatuses
    BY DEF ExitStatuses
  <1>5. ASSUME NEW o \in Redirected(p.table, p.cmd),
               IF o.status # 0 THEN Exits(p, o.status)
               ELSE Becomes(p, [p EXCEPT !.table = o.table, !.pc = "dispatch"])
        PROVE  CmdInvLater
    <2>1. \A k \in Std : p.table[k] # Closed
      BY <1>2 DEF OpenFds
    <2>2. /\ DOMAIN o.table = Fds
          /\ OpenFds(o.table) = OpenFds(p.table)
          /\ \A fd \in PassedOn : o.table[fd] = Script
          /\ o.status \in {0, 1, 2}
          /\ o.status = 0 => \A k \in Std :
                o.table[k] = IF p.cmd.redir[k] # None THEN File(p.cmd.redir[k]) ELSE p.table[k]
      BY <1>2, <2>1, AllApplied, StdFds
    <2>3. CASE o.status # 0
      <3>1. Exits(p, o.status) /\ o.status \in ExitStatuses
        BY <1>4, <1>5, <2>2, <2>3
      <3> QED
        BY <3>1, ExitsKeeps
    <2>4. CASE o.status = 0
      <3> DEFINE q == [p EXCEPT !.table = o.table, !.pc = "dispatch"]
      <3>1. Becomes(p, q)
        BY <1>5, <2>4
      <3>2. /\ q.table = o.table /\ q.pc = "dispatch"
            /\ DOMAIN q = DOMAIN p /\ q.id = p.id /\ q.i = p.i /\ (q.last <=> p.last)
            /\ q.cmd = p.cmd /\ q.pipes = p.pipes /\ q.cloexec = p.cloexec /\ q.outer = p.outer
        BY <1>2
      <3> HIDE DEF q
      <3>3. \A k \in Std : q.table[k] = Redirect(q, k)
        <4>1. \A k \in Std : Piped(q, k) = Piped(p, k)
          BY <3>2 DEF Piped
        <4> QED
          BY <1>2, <2>2, <2>4, <3>2, <4>1 DEF Redirect
      <3>4. StageOk(q)
        BY <1>2, <2>2, <3>2, <3>3 DEF StageOk
      <3> QED
        BY <3>1, <3>4, BecomesKeeps
    <2> QED
      BY <2>3, <2>4
  <1>6. CASE Exits(p, 2) \/ Exits(p, 127)
    BY <1>4, <1>6, ExitsKeeps
  <1> QED
    BY <1>3, <1>5, <1>6

\* exec closes what the shell keeps for itself; a builtin in a stage has it still
LEMMA DispatchKeeps ==
    ASSUME CmdInv, NEW p \in procs, Dispatch(p), UNCHANGED <<fds, frames>>
    PROVE  CmdInvLater
  <1>1. p.pc = "dispatch"
    BY DEF Dispatch
  <1>2. /\ StageOk(p)
        /\ DOMAIN p = {"id", "i", "last", "cmd", "pc", "table", "pipes", "cloexec", "outer"}
        /\ DOMAIN p.table = Fds /\ p.cloexec \subseteq Fds \ (Std \cup PassedOn \cup p.pipes)
        /\ \A fd \in PassedOn : p.table[fd] = Script
        /\ \A k \in Std : p.table[k] = Redirect(p, k)
        /\ OpenFds(p.table) = Std \cup PassedOn \cup p.cloexec
    BY <1>1 DEF CmdInv, StageOk
  <1>3. CASE InShell(p.cmd)
    <2> DEFINE q == [p EXCEPT !.pc = "run"]
    <2>1. Becomes(p, q)
      BY <1>3 DEF Dispatch
    <2>2. /\ q.table = p.table /\ q.pc = "run"
          /\ DOMAIN q = DOMAIN p /\ q.id = p.id /\ q.i = p.i /\ (q.last <=> p.last)
          /\ q.cmd = p.cmd /\ q.pipes = p.pipes /\ q.cloexec = p.cloexec /\ q.outer = p.outer
      BY <1>2
    <2> HIDE DEF q
    <2>3. \A k \in Std : Redirect(q, k) = Redirect(p, k)
      BY <2>2 DEF Redirect, Piped
    <2>4. StageOk(q)
      BY <1>2, <1>3, <2>2, <2>3 DEF StageOk
    <2> QED
      BY <2>1, <2>4, BecomesKeeps
  <1>4. CASE ~InShell(p.cmd) /\ Becomes(p, [p EXCEPT !.pc = "run", !.table = CloseFds(@, p.cloexec)])
    <2> DEFINE q == [p EXCEPT !.pc = "run", !.table = CloseFds(@, p.cloexec)]
    <2>1. /\ q.table = CloseFds(p.table, p.cloexec) /\ q.pc = "run"
          /\ DOMAIN q = DOMAIN p /\ q.id = p.id /\ q.i = p.i /\ (q.last <=> p.last)
          /\ q.cmd = p.cmd /\ q.pipes = p.pipes /\ q.cloexec = p.cloexec /\ q.outer = p.outer
      BY <1>2
    <2>2. /\ DOMAIN q.table = Fds /\ OpenFds(q.table) = Std \cup PassedOn
          /\ \A k \in Std \cup PassedOn : q.table[k] = p.table[k]
      <3> HIDE DEF q
      <3>1. /\ DOMAIN q.table = Fds /\ OpenFds(q.table) = OpenFds(p.table) \ p.cloexec
            /\ \A fd \in Fds : fd \notin p.cloexec => q.table[fd] = p.table[fd]
        BY <1>2, <2>1, Closes
      <3> QED
        BY <1>2, <3>1, StdFds
    <2> HIDE DEF q
    <2>3. \A k \in Std : Redirect(q, k) = Redirect(p, k)
      BY <2>1 DEF Redirect, Piped
    <2>4. StageOk(q)
      BY <1>2, <1>4, <2>1, <2>2, <2>3 DEF StageOk
    <2> QED
      BY <1>4, <2>4, BecomesKeeps DEF q
  <1>5. CASE ExecFails(p)
    <2>1. 127 \in ExitStatuses
      BY DEF ExitStatuses
    <2> QED
      BY <1>5, <2>1, ExitsKeeps DEF ExecFails
  <1> QED
    BY <1>3, <1>4, <1>5 DEF Dispatch

(* A builtin or a program ends.                                            *)
LEMMA EndsKeeps ==
    ASSUME CmdInv, NEW p \in procs, Ends(p), UNCHANGED <<fds, frames>>
    PROVE  CmdInvLater
  <1>1. PICK code \in Codes : Exits(p, code)
    BY DEF Ends
  <1>2. code \in ExitStatuses
    BY DEF ExitStatuses
  <1> QED
    BY <1>1, <1>2, ExitsKeeps

-----------------------------------------------------------------------------
\* what is kept is a matter of how the shell was started
LEMMA OwnLater ==
    ASSUME UNCHANGED keeps, CmdInvLater
    PROVE  CmdInv'
  <1>1. KeptFds' = KeptFds /\ KeptOpen' = KeptOpen /\ PassedOn' = PassedOn
    BY DEF KeptFds, KeptOpen, PassedOn
  <1>2. Own' = Own
    BY <1>1 DEF Own
  <1>3. TableOk(frames, fds, job.fds)'
    BY <1>1, <1>2 DEF CmdInvLater, TableOk, Settled, Stacked, KeptSame
  <1>4. ASSUME NEW p \in procs'
        PROVE  StageOk(p)'
    BY <1>1, <1>4 DEF CmdInvLater, StageOk, Unwired
  <1> QED
    BY <1>3, <1>4 DEF CmdInv, CmdInvLater

(* No step of the shell or of a stage breaks the invariant.                *)
LEMMA StepKeeps == CmdInv /\ [CmdNext]_cmdvars => CmdInv'
  <1> SUFFICES ASSUME CmdInv, [CmdNext]_cmdvars PROVE CmdInv'
    OBVIOUS
  <1>0. UNCHANGED keeps
    BY DEF CmdNext, ShellStep, Stages, cmdvars
  <1>9. CmdInvLater => CmdInv'
    BY <1>0, OwnLater
  <1>1. ASSUME NEW pl \in Pipelines, RunsNothing(pl) PROVE CmdInvLater
    BY <1>1, RunsNothingKeeps
  <1>2. ASSUME NEW pl \in Pipelines, RunsInShell(pl) PROVE CmdInvLater
    BY <1>2, RunsInShellKeeps
  <1>3. ASSUME NEW pl \in Pipelines, StartPipeline(pl) PROVE CmdInvLater
    BY <1>3, StartPipelineKeeps
  <1>4. ASSUME BodyEnds PROVE CmdInvLater
    BY <1>4, BodyEndsKeeps
  <1>5. ASSUME ShellStep PROVE CmdInvLater
    BY <1>5, SaveStdKeeps, ApplyRedirectsKeeps, RestoreStdKeeps, PipeKeeps, ForkKeeps,
       ClosePipesKeeps, WaitReturnsKeeps DEF ShellStep
  <1>6. ASSUME NEW p \in procs, StageStep(p), UNCHANGED <<fds, frames>>
        PROVE  CmdInvLater
    BY <1>6, WireKeeps, StageRedirectsKeeps, DispatchKeeps, EndsKeeps DEF StageStep
  <1>7. ASSUME NEW p \in procs, EndsEarly(p), UNCHANGED <<fds, frames>>
        PROVE  CmdInvLater
    BY <1>7, EndsKeeps DEF EndsEarly
  <1>8. ASSUME UNCHANGED cmdvars PROVE CmdInvLater
    BY <1>8 DEF CmdInv, CmdInvLater, cmdvars
  <1> QED
    BY <1>1, <1>2, <1>3, <1>4, <1>5, <1>6, <1>7, <1>8, <1>9 DEF CmdNext, Stages

\* a stage that runs has the streams its text names, and what is passed on
LEMMA OkIsWired ==
    ASSUME \A p \in procs : StageOk(p)
    PROVE  WiredAsWritten
  BY DEF StageOk, Redirect, Piped, WiredAsWritten

(* The inductive invariant: every frame, copy, pipe end and stage in its place.*)
THEOREM DescriptorsAndStages == CmdSpec => []CmdInv
  <1> QED
    BY InitKeeps, StepKeeps, PTL DEF CmdSpec

(* Whatever fails while a redirect is saved, applied or put back, while a  *)
(* pipe is made or a stage forked, and however functions nest, no          *)
(* descriptor of the shell is lost, and none is left on the wrong thing.   *)
THEOREM DescriptorsKept == CmdSpec => []DescriptorsAccounted
  <1>1. CmdInv => DescriptorsAccounted
    BY OkIsAccounted DEF CmdInv
  <1> QED
    BY <1>1, DescriptorsAndStages, PTL

(* Every stage of every pipeline, of whatever length, runs with exactly    *)
(* the streams its text names (exec.c run_stage, redirect_apply).  A       *)
(* program of a script also holds the script, which main.c opens without   *)
(* close-on-exec; in no other way does a descriptor of the shell, a copy   *)
(* of a stream or an end of a pipe reach a program.                        *)
THEOREM StagesWired == CmdSpec => []WiredAsWritten
  <1>1. CmdInv => WiredAsWritten
    BY OkIsWired DEF CmdInv
  <1> QED
    BY <1>1, DescriptorsAndStages, PTL

\* when the shell is back at the prompt
AtPrompt == frames = <<>> /\ job.at \in {"none", "done"}

(* Nothing leaks: back at the prompt, or at the next line of a script, the *)
(* shell holds its three streams, each on what it was on when it started,  *)
(* and the one descriptor it keeps for itself, and nothing else.           *)
THEOREM PromptHoldsNothing ==
    CmdSpec => [](AtPrompt => /\ OpenFds(fds) = Std \cup KeptFds
                              /\ \A k \in Std : fds[k] = Inherited(k)
                              /\ \A fd \in KeptFds : fds[fd] = KeptOpen)
  <1>1. ASSUME CmdInv, AtPrompt
        PROVE  /\ OpenFds(fds) = Std \cup KeptFds
               /\ \A k \in Std : fds[k] = Inherited(k)
               /\ \A fd \in KeptFds : fds[fd] = KeptOpen
    <2>1. Settled(<<>>, fds, {})
      BY <1>1 DEF AtPrompt, CmdInv, TableOk, JobOk
    <2> QED
      BY <2>1, OuterNone DEF Settled, Held, Own, KeptSame
  <1> QED
    BY <1>1, DescriptorsAndStages, PTL
=============================================================================
