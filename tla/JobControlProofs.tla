-------------------------- MODULE JobControlProofs --------------------------
(***************************************************************************)
(* TerminalOwner, NoLostChild and JobsTellTheTruth for any number of       *)
(* processes and any length of pipeline.                                   *)
(***************************************************************************)
EXTENDS JobControl, TLAPS, FiniteSetTheorems, SequenceTheorems, WellFoundedInduction

Places == {"take", "clear", "reap", "notify", "read", "fork", "handoff", "wait",
           "takeback", "exited"}
Between == {"take", "clear", "reap", "notify", "read", "exited"}
Waiting == {"handoff", "wait", "takeback"}

Names == Nat \ {0}
JobRecords == [id : Names, pgid : Pids, state : JobStates, pids : Seq(Pids), nleft : Nat]
Commands == [pids : Seq(Pids), todo : Nat, background : BOOLEAN, job : Nat]
Lives == [Pids -> ProcStates]
Events == [Pids -> {"none", "stopped", "continued"}]
Groups == [Pids -> 0 .. MaxPid]

(* The facts about processes are stated of the life cycles s and the       *)
(* groups g, so that they can be compared before and after a step.         *)

\* processes that exist, each listed once, in the group of the first
Pipeline(pids, s, g) ==
    /\ Len(pids) <= MaxStages
    /\ \A k, l \in DOMAIN pids : pids[k] = pids[l] => k = l
    /\ \A k \in DOMAIN pids : s[pids[k]] # "none" /\ g[pids[k]] = pids[1]

Apart(pids, others) == \A k \in DOMAIN pids, l \in DOMAIN others : pids[k] # others[l]

Alive(pids, s) == {k \in DOMAIN pids : s[pids[k]] # "gone"}

\* nleft is never below the number of processes that are left
Accounted(job, s, g) ==
    /\ Len(job.pids) >= 1 /\ Pipeline(job.pids, s, g) /\ job.pgid = job.pids[1]
    /\ job.nleft <= Len(job.pids)
    /\ Cardinality(Alive(job.pids, s)) <= job.nleft
    /\ job.state = "DONE" => Alive(job.pids, s) = {}

Sound(table, s, g) ==
    /\ \A i \in DOMAIN table : Accounted(table[i], s, g)
    /\ \A i, k \in DOMAIN table :
          i # k => table[i].id # table[k].id /\ Apart(table[i].pids, table[k].pids)

Lists(table, p) == \E i \in DOMAIN table : HasPid(table[i], p)

\* no step brings a process back, or moves one to another group
Later(s, g, s1, g1) ==
    \A p \in Pids : s[p] # "none" =>
        s1[p] # "none" /\ g1[p] = g[p] /\ (s[p] = "gone" => s1[p] = "gone")

-----------------------------------------------------------------------------
(* One job                                                                 *)

LEMMA AliveIsFinite ==
    ASSUME NEW pids \in Seq(Pids), NEW s \in Lives
    PROVE  /\ IsFiniteSet(Alive(pids, s)) /\ Cardinality(Alive(pids, s)) \in Nat
           /\ Cardinality(Alive(pids, s)) <= Len(pids)
  <1>1. IsFiniteSet(1 .. Len(pids)) /\ Cardinality(1 .. Len(pids)) = Len(pids)
    <2>1. Len(pids) \in Nat /\ 1 \in Int /\ Len(pids) \in Int
      OBVIOUS
    <2> QED
      BY <2>1, FS_Interval
  <1>2. Alive(pids, s) \in SUBSET (1 .. Len(pids))
    BY DEF Alive
  <1> QED
    BY <1>1, <1>2, FS_Subset, FS_CardinalityType

LEMMA PipelineLater ==
    ASSUME NEW pids \in Seq(Pids), NEW s \in Lives, NEW g \in Groups,
           NEW s1 \in Lives, NEW g1 \in Groups,
           Pipeline(pids, s, g), Later(s, g, s1, g1)
    PROVE  /\ Pipeline(pids, s1, g1) /\ Alive(pids, s1) \subseteq Alive(pids, s)
           /\ Cardinality(Alive(pids, s1)) <= Cardinality(Alive(pids, s))
  <1>1. \A k \in DOMAIN pids : pids[k] \in Pids
    OBVIOUS
  <1>2. Pipeline(pids, s1, g1) /\ Alive(pids, s1) \in SUBSET Alive(pids, s)
    BY <1>1 DEF Pipeline, Later, Alive
  <1> QED
    BY <1>2, AliveIsFinite, FS_Subset

LEMMA AccountedLater ==
    ASSUME NEW job \in JobRecords, NEW s \in Lives, NEW g \in Groups,
           NEW s1 \in Lives, NEW g1 \in Groups,
           Accounted(job, s, g), Later(s, g, s1, g1)
    PROVE  Accounted(job, s1, g1)
  <1>1. job.pids \in Seq(Pids) /\ job.nleft \in Nat
    BY DEF JobRecords
  <1>2. /\ Pipeline(job.pids, s1, g1) /\ Alive(job.pids, s1) \subseteq Alive(job.pids, s)
        /\ Cardinality(Alive(job.pids, s1)) <= Cardinality(Alive(job.pids, s))
    BY <1>1, PipelineLater DEF Accounted
  <1>3. Cardinality(Alive(job.pids, s)) \in Nat /\ Cardinality(Alive(job.pids, s1)) \in Nat
    BY <1>1, AliveIsFinite
  <1> QED
    BY <1>1, <1>2, <1>3 DEF Accounted

\* the end of one process of a pipeline is one less alive
LEMMA OneLessAlive ==
    ASSUME NEW pids \in Seq(Pids), NEW s \in Lives, NEW g \in Groups, Pipeline(pids, s, g),
           NEW l \in DOMAIN pids, s[pids[l]] # "gone",
           NEW s1 \in Lives, s1 = [s EXCEPT ![pids[l]] = "gone"]
    PROVE  Cardinality(Alive(pids, s1)) = Cardinality(Alive(pids, s)) - 1
  <1>1. \A k \in DOMAIN pids : pids[k] \in Pids /\ (pids[k] = pids[l] => k = l)
    BY DEF Pipeline
  <1>2. Alive(pids, s1) = Alive(pids, s) \ {l} /\ l \in Alive(pids, s)
    BY <1>1 DEF Alive, Lives
  <1> QED
    BY <1>2, AliveIsFinite, FS_RemoveElement

LEMMA ReportFields ==
    ASSUME NEW job \in JobRecords, NEW e \in {"ended", "stopped", "continued"}
    PROVE  /\ Report(job, e) \in JobRecords
           /\ Report(job, e).id = job.id /\ Report(job, e).pgid = job.pgid
           /\ Report(job, e).pids = job.pids
           /\ Report(job, e).nleft = IF e = "ended" /\ job.nleft # 0 THEN job.nleft - 1
                                     ELSE job.nleft
           /\ Report(job, e).state =
                 IF e = "ended" THEN IF job.nleft = 1 THEN "DONE" ELSE job.state
                 ELSE IF e = "stopped" THEN "STOPPED" ELSE "RUNNING"
  <1>0. job.nleft \in Nat /\ job.state \in JobStates
    BY DEF JobRecords
  <1>1. CASE e = "ended" /\ job.nleft # 0
    <2> DEFINE n == job.nleft - 1
               state == IF job.nleft = 1 THEN "DONE" ELSE job.state
    <2>1. n \in Nat /\ state \in JobStates
      BY <1>0, <1>1 DEF JobStates
    <2>2. Report(job, e) = [job EXCEPT !.nleft = n, !.state = state]
      BY <1>1 DEF Report
    <2>3. n = job.nleft - 1 /\ state = IF job.nleft = 1 THEN "DONE" ELSE job.state
      OBVIOUS
    <2> HIDE DEF n, state
    <2>4. /\ [job EXCEPT !.nleft = n, !.state = state] \in JobRecords
          /\ [job EXCEPT !.nleft = n, !.state = state].id = job.id
          /\ [job EXCEPT !.nleft = n, !.state = state].pgid = job.pgid
          /\ [job EXCEPT !.nleft = n, !.state = state].pids = job.pids
          /\ [job EXCEPT !.nleft = n, !.state = state].nleft = n
          /\ [job EXCEPT !.nleft = n, !.state = state].state = state
      BY <2>1, Zenon DEF JobRecords
    <2> QED
      BY <1>1, <2>2, <2>3, <2>4
  <1>2. CASE e = "ended" /\ job.nleft = 0
    BY <1>0, <1>2 DEF Report
  <1>3. CASE e = "stopped"
    BY <1>0, <1>3 DEF Report, JobRecords, JobStates
  <1>4. CASE e = "continued"
    BY <1>0, <1>4 DEF Report, JobRecords, JobStates
  <1> QED
    BY <1>1, <1>2, <1>3, <1>4

LEMMA ReportAccounted ==
    ASSUME NEW job \in JobRecords, NEW s \in Lives, NEW g \in Groups, Accounted(job, s, g),
           NEW e \in {"ended", "stopped", "continued"}, NEW l \in DOMAIN job.pids,
           NEW s1 \in Lives, Later(s, g, s1, g),
           e = "ended" =>
              s[job.pids[l]] = "zombie" /\ s1 = [s EXCEPT ![job.pids[l]] = "gone"]
    PROVE  Accounted(Report(job, e), s1, g)
  <1> DEFINE j1 == Report(job, e)
  <1>1. job.pids \in Seq(Pids) /\ job.nleft \in Nat /\ job.state \in JobStates
    BY DEF JobRecords
  <1>2. Accounted(job, s1, g)
    BY AccountedLater
  <1>3. Pipeline(job.pids, s, g) /\ Cardinality(Alive(job.pids, s)) <= job.nleft
    BY DEF Accounted
  <1>4. Cardinality(Alive(job.pids, s)) \in Nat /\ Cardinality(Alive(job.pids, s1)) \in Nat
    BY <1>1, AliveIsFinite
  <1>5. /\ j1.pids = job.pids /\ j1.pgid = job.pgid
        /\ j1.nleft = IF e = "ended" /\ job.nleft # 0 THEN job.nleft - 1 ELSE job.nleft
        /\ j1.state = IF e = "ended" THEN IF job.nleft = 1 THEN "DONE" ELSE job.state
                      ELSE IF e = "stopped" THEN "STOPPED" ELSE "RUNNING"
    BY ReportFields
  <1> HIDE DEF j1
  <1>6. CASE e = "ended"
    <2>1. Cardinality(Alive(job.pids, s1)) = Cardinality(Alive(job.pids, s)) - 1
      <3>1. s[job.pids[l]] # "gone"
        BY <1>6
      <3> QED
        BY <1>1, <1>3, <1>6, <3>1, OneLessAlive
    <2>2. job.nleft # 0 /\ j1.nleft = job.nleft - 1
      BY <1>1, <1>3, <1>4, <1>5, <1>6, <2>1
    <2>3. Cardinality(Alive(job.pids, s1)) <= j1.nleft /\ j1.nleft <= Len(job.pids)
      BY <1>1, <1>2, <1>3, <1>4, <2>1, <2>2 DEF Accounted
    <2>4. job.nleft = 1 => Alive(job.pids, s1) = {}
      <3>1. job.nleft = 1 => Cardinality(Alive(job.pids, s1)) = 0
        BY <1>4, <2>2, <2>3
      <3> QED
        BY <1>1, <3>1, AliveIsFinite, FS_EmptySet
    <2>5. j1.state = "DONE" => Alive(job.pids, s1) = {}
      BY <1>2, <1>5, <1>6, <2>4 DEF Accounted
    <2>6. j1.pids = job.pids /\ j1.pgid = job.pgid
      BY <1>5
    <2>7. j1.nleft <= Len(j1.pids) /\ Cardinality(Alive(j1.pids, s1)) <= j1.nleft
      BY <2>3, <2>6
    <2>8. Accounted(j1, s1, g)
      BY <1>2, <2>5, <2>6, <2>7 DEF Accounted
    <2> QED
      BY <2>8 DEF j1
  <1>7. CASE e # "ended"
    <2>1. j1.pids = job.pids /\ j1.pgid = job.pgid /\ j1.nleft = job.nleft /\ j1.state # "DONE"
      BY <1>5, <1>7
    <2>2. Accounted(j1, s1, g)
      BY <1>2, <2>1 DEF Accounted
    <2> QED
      BY <2>2 DEF j1
  <1> QED
    BY <1>6, <1>7

-----------------------------------------------------------------------------
(* The table                                                               *)

\* next_id finds a number that is free
LEMMA NextIdIsFree ==
    ASSUME NEW table \in Seq(JobRecords)
    PROVE  NextId(table) \in Names /\ NextId(table) \notin Ids(table)
  <1> DEFINE n == Len(table)
             free == {id \in 1 .. n + 1 : id \notin Ids(table)}
  <1>1. n \in Nat /\ DOMAIN table = 1 .. n
    OBVIOUS
  <1> HIDE DEF n
  <1>2. free # {}
    <2> SUFFICES ASSUME \A id \in 1 .. n + 1 : id \in Ids(table)
                 PROVE  FALSE
      OBVIOUS
    <2> DEFINE f == [id \in 1 .. n + 1 |-> CHOOSE i \in 1 .. n : table[i].id = id]
    <2>1. \A id \in 1 .. n + 1 : \E i \in 1 .. n : table[i].id = id
      BY <1>1 DEF Ids
    <2>2. \A id \in 1 .. n + 1 : f[id] \in 1 .. n /\ table[f[id]].id = id
      BY <2>1
    <2>3. f \in [1 .. n + 1 -> 1 .. n]
      BY <2>2
    <2> HIDE DEF f
    <2>4. /\ IsFiniteSet(1 .. n + 1) /\ Cardinality(1 .. n + 1) = n + 1
          /\ IsFiniteSet(1 .. n) /\ Cardinality(1 .. n) = n
      <3>1. 1 \in Int /\ n \in Int /\ n + 1 \in Int
        BY <1>1
      <3>2. /\ IsFiniteSet(1 .. n + 1)
            /\ Cardinality(1 .. n + 1) = IF 1 > n + 1 THEN 0 ELSE (n + 1) - 1 + 1
            /\ IsFiniteSet(1 .. n) /\ Cardinality(1 .. n) = IF 1 > n THEN 0 ELSE n - 1 + 1
        BY <3>1, FS_Interval
      <3> QED
        BY <1>1, <3>2
    <2>5. Cardinality(1 .. n) < Cardinality(1 .. n + 1)
      BY <1>1, <2>4
    <2>6. \E a, b \in 1 .. n + 1 : a # b /\ f[a] = f[b]
      BY <2>3, <2>4, <2>5, FS_PigeonHole
    <2> QED
      BY <2>2, <2>6
  <1>3. free \subseteq Nat
    BY <1>1
  <1>4. \E id \in free : \A k \in free : ~(<<k, id>> \in OpToRel(<, Nat))
    <2> HIDE DEF free
    <2> QED
      BY <1>2, <1>3, NatLessThanWellFounded, WFMin
  <1>5. PICK id \in free : \A k \in free : ~(<<k, id>> \in OpToRel(<, Nat))
    BY <1>4
  <1>6. \A k, m \in Nat : k < m => <<k, m>> \in OpToRel(<, Nat)
    BY DEF OpToRel
  <1>7. id \in 1 .. n + 1 /\ id \notin Ids(table)
    OBVIOUS
  <1>8. \A k \in 1 .. (id - 1) : k \in Ids(table)
    <2> TAKE k \in 1 .. (id - 1)
    <2>1. k \in Nat /\ id \in Nat /\ k < id /\ k \in 1 .. n + 1
      BY <1>1, <1>7
    <2>2. k \notin free
      BY <1>3, <1>5, <1>6, <2>1
    <2> QED
      BY <2>1, <2>2
  <1>9. /\ NextId(table) \in 1 .. n + 1 /\ NextId(table) \notin Ids(table)
    BY <1>7, <1>8 DEF NextId, n
  <1> QED
    BY <1>1, <1>9 DEF Names

\* the fields of a job that is added
LEMMA AddedFields ==
    ASSUME NEW table \in Seq(JobRecords), NEW pids \in Seq(Pids), pids # <<>>,
           NEW state \in JobStates
    PROVE  LET job == Job(NextId(table), pids, state) IN
           /\ job \in JobRecords /\ job.id \notin Ids(table) /\ job.pids = pids
           /\ job.state = state /\ job.pgid = pids[1] /\ job.nleft = Len(pids)
           /\ JobsAdd(table, pids, state) \in Seq(JobRecords)
           /\ Len(JobsAdd(table, pids, state)) = Len(table) + 1
           /\ \A i \in 1 .. Len(table) : JobsAdd(table, pids, state)[i] = table[i]
           /\ JobsAdd(table, pids, state)[Len(table) + 1] = job
  <1> DEFINE job == Job(NextId(table), pids, state)
  <1>1. Len(pids) \in Nat \ {0} /\ pids[1] \in Pids
    <2>1. Len(pids) \in Nat \ {0}
      BY EmptySeq
    <2> QED
      BY <2>1
  <1>2. NextId(table) \in Names /\ NextId(table) \notin Ids(table)
    BY NextIdIsFree
  <1>3. /\ job \in JobRecords /\ job.id \notin Ids(table) /\ job.pids = pids
        /\ job.state = state /\ job.pgid = pids[1] /\ job.nleft = Len(pids)
    BY <1>1, <1>2 DEF Job, JobRecords
  <1>4. JobsAdd(table, pids, state) = Append(table, job)
    BY DEF JobsAdd
  <1> HIDE DEF job
  <1>5. /\ Append(table, job) \in Seq(JobRecords)
        /\ Len(Append(table, job)) = Len(table) + 1
        /\ \A i \in 1 .. Len(table) : Append(table, job)[i] = table[i]
        /\ Append(table, job)[Len(table) + 1] = job
    BY <1>3, AppendProperties
  <1>6. /\ job \in JobRecords /\ job.id \notin Ids(table) /\ job.pids = pids
        /\ job.state = state /\ job.pgid = pids[1] /\ job.nleft = Len(pids)
        /\ JobsAdd(table, pids, state) \in Seq(JobRecords)
        /\ Len(JobsAdd(table, pids, state)) = Len(table) + 1
        /\ \A i \in 1 .. Len(table) : JobsAdd(table, pids, state)[i] = table[i]
        /\ JobsAdd(table, pids, state)[Len(table) + 1] = job
    BY <1>3, <1>4, <1>5
  <1> QED
    BY <1>6 DEF job

LEMMA SoundLater ==
    ASSUME NEW table \in Seq(JobRecords), NEW s \in Lives, NEW g \in Groups,
           NEW s1 \in Lives, NEW g1 \in Groups,
           Sound(table, s, g), Later(s, g, s1, g1)
    PROVE  Sound(table, s1, g1)
  <1>1. \A i \in DOMAIN table : table[i] \in JobRecords
    OBVIOUS
  <1>2. \A i \in DOMAIN table : Accounted(table[i], s1, g1)
    BY <1>1, AccountedLater DEF Sound
  <1> QED
    BY <1>2 DEF Sound

LEMMA SoundReplace ==
    ASSUME NEW table \in Seq(JobRecords), NEW s \in Lives, NEW g \in Groups,
           Sound(table, s, g), NEW i \in DOMAIN table, NEW job \in JobRecords,
           job.id = table[i].id, job.pids = table[i].pids, Accounted(job, s, g)
    PROVE  Sound([table EXCEPT ![i] = job], s, g)
  <1> DEFINE t1 == [table EXCEPT ![i] = job]
  <1>1. DOMAIN t1 = DOMAIN table /\ \A k \in DOMAIN table : t1[k] = IF k = i THEN job ELSE table[k]
    OBVIOUS
  <1> HIDE DEF t1
  <1>2. \A k \in DOMAIN table : t1[k].id = table[k].id /\ t1[k].pids = table[k].pids
    BY <1>1
  <1>3. \A k \in DOMAIN table : Accounted(t1[k], s, g)
    BY <1>1 DEF Sound
  <1>4. Sound(t1, s, g)
    BY <1>1, <1>2, <1>3 DEF Sound
  <1> QED
    BY <1>4 DEF t1

LEMMA SoundAdd ==
    ASSUME NEW table \in Seq(JobRecords), NEW s \in Lives, NEW g \in Groups,
           Sound(table, s, g), NEW pids \in Seq(Pids), pids # <<>>, Pipeline(pids, s, g),
           \A i \in DOMAIN table : Apart(pids, table[i].pids),
           NEW state \in {"RUNNING", "STOPPED"}
    PROVE  Sound(JobsAdd(table, pids, state), s, g)
  <1> DEFINE t1 == JobsAdd(table, pids, state)
             job == Job(NextId(table), pids, state)
             n == Len(table)
  <1>1. /\ job \in JobRecords /\ job.id \notin Ids(table) /\ job.pids = pids
        /\ job.state = state /\ job.pgid = pids[1] /\ job.nleft = Len(pids)
        /\ t1 \in Seq(JobRecords) /\ Len(t1) = n + 1
        /\ \A i \in 1 .. n : t1[i] = table[i]
        /\ t1[n + 1] = job
    <2>1. state \in JobStates
      BY DEF JobStates
    <2> QED
      BY <2>1, AddedFields
  <1>2. n \in Nat /\ DOMAIN table = 1 .. n /\ DOMAIN t1 = 1 .. n + 1
    BY <1>1
  <1> HIDE DEF t1, job, n
  <1>3. Accounted(job, s, g)
    <2>1. Len(pids) \in Nat \ {0}
      BY EmptySeq
    <2>2. Cardinality(Alive(pids, s)) <= Len(pids)
      BY AliveIsFinite
    <2> QED
      BY <1>1, <2>1, <2>2 DEF Accounted
  <1>4. \A i \in DOMAIN t1 : Accounted(t1[i], s, g)
    BY <1>1, <1>2, <1>3 DEF Sound
  <1>5. \A i \in 1 .. n : table[i].id # job.id
    BY <1>1, <1>2 DEF Ids
  <1>6. \A i \in 1 .. n : Apart(pids, table[i].pids) /\ Apart(table[i].pids, pids)
    BY <1>2 DEF Apart
  <1>7. \A i, k \in 1 .. n : i # k =>
           table[i].id # table[k].id /\ Apart(table[i].pids, table[k].pids)
    BY <1>2 DEF Sound
  <1>8. \A i, k \in 1 .. n + 1 : i # k => t1[i].id # t1[k].id /\ Apart(t1[i].pids, t1[k].pids)
    <2> TAKE i, k \in 1 .. n + 1
    <2>1. CASE i \in 1 .. n /\ k \in 1 .. n
      BY <1>1, <1>7, <2>1
    <2>2. CASE i = n + 1 /\ k \in 1 .. n
      BY <1>1, <1>5, <1>6, <2>2
    <2>3. CASE i \in 1 .. n /\ k = n + 1
      BY <1>1, <1>5, <1>6, <2>3
    <2> QED
      BY <1>2, <2>1, <2>2, <2>3
  <1>9. Sound(t1, s, g)
    BY <1>2, <1>4, <1>8 DEF Sound
  <1> QED
    BY <1>9 DEF t1

LEMMA RemovedFields ==
    ASSUME NEW table \in Seq(JobRecords), NEW i \in DOMAIN table
    PROVE  /\ RemoveAt(table, i) \in Seq(JobRecords)
           /\ DOMAIN RemoveAt(table, i) = 1 .. Len(table) - 1
           /\ \A k \in 1 .. Len(table) - 1 :
                 RemoveAt(table, i)[k] = IF k < i THEN table[k] ELSE table[k + 1]
  <1> DEFINE n == Len(table)
             a == SubSeq(table, 1, i - 1)
             b == SubSeq(table, i + 1, n)
  <1>1. n \in Nat /\ DOMAIN table = 1 .. n /\ i \in 1 .. n /\ \A k \in 1 .. n : table[k] \in JobRecords
    OBVIOUS
  <1>2. RemoveAt(table, i) = a \o b
    BY DEF RemoveAt
  <1> HIDE DEF n
  <1>3. /\ a \in Seq(JobRecords) /\ Len(a) = IF 1 <= i - 1 THEN (i - 1) - 1 + 1 ELSE 0
        /\ \A k \in 1 .. (i - 1) - 1 + 1 : a[k] = table[1 + k - 1]
    <2>1. 1 \in Int /\ i - 1 \in Int /\ \A k \in 1 .. i - 1 : table[k] \in JobRecords
      BY <1>1
    <2> QED
      BY <2>1, SubSeqProperties
  <1>4. /\ b \in Seq(JobRecords) /\ Len(b) = IF i + 1 <= n THEN n - (i + 1) + 1 ELSE 0
        /\ \A k \in 1 .. n - (i + 1) + 1 : b[k] = table[(i + 1) + k - 1]
    <2>1. i + 1 \in Int /\ n \in Int /\ \A k \in i + 1 .. n : table[k] \in JobRecords
      BY <1>1
    <2> QED
      BY <2>1, SubSeqProperties
  <1> HIDE DEF a, b
  <1>5. /\ a \o b \in Seq(JobRecords) /\ Len(a \o b) = Len(a) + Len(b)
        /\ \A k \in 1 .. Len(a) + Len(b) : (a \o b)[k] = IF k <= Len(a) THEN a[k] ELSE b[k - Len(a)]
    BY <1>3, <1>4, ConcatProperties
  <1> DEFINE c == a \o b
  <1>6. DOMAIN c = 1 .. Len(c)
    BY <1>5
  <1> HIDE DEF c
  <1>7. Len(a) = i - 1 /\ Len(b) = n - i
    BY <1>1, <1>3, <1>4
  <1>8. /\ c \in Seq(JobRecords) /\ DOMAIN c = 1 .. n - 1
        /\ \A k \in 1 .. n - 1 : c[k] = IF k <= i - 1 THEN a[k] ELSE b[k - (i - 1)]
    BY <1>1, <1>5, <1>6, <1>7 DEF c
  <1>9. \A k \in 1 .. n - 1 : c[k] = IF k < i THEN table[k] ELSE table[k + 1]
    <2> TAKE k \in 1 .. n - 1
    <2>1. CASE k < i
      <3>1. a[k] = table[k]
        BY <1>1, <1>3, <2>1
      <3> QED
        BY <1>1, <1>8, <2>1, <3>1
    <2>2. CASE ~(k < i)
      <3>1. b[k - (i - 1)] = table[k + 1]
        <4>1. k - (i - 1) \in 1 .. n - (i + 1) + 1
          BY <1>1, <2>2
        <4>2. (i + 1) + (k - (i - 1)) - 1 = k + 1
          BY <1>1
        <4> QED
          BY <1>4, <4>1, <4>2
      <3> QED
        BY <1>1, <1>8, <2>2, <3>1
    <2> QED
      BY <2>1, <2>2
  <1> QED
    BY <1>2, <1>8, <1>9 DEF c, n

LEMMA SoundRemove ==
    ASSUME NEW table \in Seq(JobRecords), NEW s \in Lives, NEW g \in Groups,
           Sound(table, s, g), NEW i \in DOMAIN table
    PROVE  Sound(RemoveAt(table, i), s, g)
  <1> DEFINE t1 == RemoveAt(table, i)
             n == Len(table)
             from(k) == IF k < i THEN k ELSE k + 1
  <1>1. n \in Nat /\ DOMAIN table = 1 .. n /\ i \in 1 .. n
    OBVIOUS
  <1>2. DOMAIN t1 = 1 .. n - 1 /\ \A k \in 1 .. n - 1 : t1[k] = IF k < i THEN table[k] ELSE table[k + 1]
    BY RemovedFields
  <1> HIDE DEF t1, n
  <1>3. \A k \in 1 .. n - 1 : from(k) \in 1 .. n /\ t1[k] = table[from(k)]
    BY <1>1, <1>2
  <1>4. \A k, l \in 1 .. n - 1 : k # l => from(k) # from(l)
    BY <1>1
  <1> HIDE DEF from
  <1>5. Sound(t1, s, g)
    BY <1>1, <1>2, <1>3, <1>4 DEF Sound
  <1> QED
    BY <1>5 DEF t1

-----------------------------------------------------------------------------
(* The invariant.                                                          *)

ShellTypes ==
    /\ st \in Lives /\ event \in Events /\ pgrp \in Groups
    /\ tty \in Pids \cup {Shell} /\ chld \in BOOLEAN
    /\ jobs \in Seq(JobRecords) /\ cmd \in Commands
    /\ pc \in Places /\ fired \in BOOLEAN /\ stopped \in BOOLEAN /\ at \in Nat

\* of the pipeline being started or waited for, which is a job's only under fg
CommandInv ==
    /\ pc \in Between => cmd = Idle
    /\ pc = "fork" => cmd.job = 0 /\ Len(cmd.pids) + cmd.todo <= MaxStages
    /\ pc \in Waiting => cmd.pids # <<>>
    /\ Pipeline(cmd.pids, st, pgrp)
    /\ cmd.job = 0 => \A i \in DOMAIN jobs : Apart(cmd.pids, jobs[i].pids)
    /\ cmd.job # 0 => \E i \in DOMAIN jobs : jobs[i].id = cmd.job /\ jobs[i].pids = cmd.pids

NobodyLost ==
    pc # "exited" => \A p \in Pids : Child(p) => Lists(jobs, p) \/ HasPid(cmd, p)

\* of the terminal and of the wait for cmd
WaitInv ==
    /\ tty = IF pc \in {"wait", "takeback"} THEN cmd.pids[1] ELSE Shell
    /\ pc = "wait" => at \in 1 .. Len(cmd.pids) + 1
    /\ pc = "wait" /\ ~stopped => \A k \in 1 .. at - 1 : st[cmd.pids[k]] = "gone"
    /\ pc = "takeback" => at <= Len(cmd.pids) + 1 /\ (~stopped => AllGone(cmd.pids))
    /\ pc \notin {"wait", "takeback"} => at = 0 /\ ~stopped

JobInv ==
    ShellTypes /\ Sound(jobs, st, pgrp) /\ CommandInv /\ NobodyLost /\ WaitInv

LEMMA IdleIsACommand == Idle \in Commands /\ Idle.pids = <<>> /\ Idle.job = 0 /\ Idle.todo = 0
  <1>1. <<>> \in Seq(Pids)
    BY EmptySeq
  <1> QED
    BY <1>1 DEF Idle, Commands

LEMMA IdleAgain ==
    ASSUME cmd' = Idle, pc' \in Between
    PROVE  CommandInv'
  <1>1. cmd'.pids = <<>> /\ cmd'.job = 0
    BY IdleIsACommand
  <1>2. Len(<<>>) = 0 /\ DOMAIN <<>> = {}
    OBVIOUS
  <1>3. Pipeline(cmd.pids, st, pgrp)'
    BY <1>1, <1>2, MaxStagesAssumption DEF Pipeline
  <1> QED
    BY <1>1, <1>2, <1>3 DEF CommandInv, Between, Waiting, Apart

LEMMA InitInv == Init => JobInv
  <1> SUFFICES ASSUME Init PROVE JobInv
    OBVIOUS
  <1>1. <<>> \in Seq(JobRecords) /\ Len(<<>>) = 0 /\ DOMAIN <<>> = {}
    BY EmptySeq
  <1>2. ShellTypes
    <2>1. 0 \in 0 .. MaxPid
      BY MaxPidAssumption
    <2>2. st \in Lives /\ event \in Events /\ pgrp \in Groups
      BY <2>1 DEF Init, KernelInit, Lives, Events, Groups, ProcStates
    <2>3. jobs \in Seq(JobRecords) /\ cmd \in Commands
      BY <1>1, IdleIsACommand DEF Init
    <2>4. /\ tty \in Pids \cup {Shell} /\ chld \in BOOLEAN /\ pc \in Places
          /\ fired \in BOOLEAN /\ stopped \in BOOLEAN /\ at \in Nat
      BY DEF Init, KernelInit, Places
    <2> QED
      BY <2>2, <2>3, <2>4 DEF ShellTypes
  <1>3. Sound(jobs, st, pgrp)
    BY <1>1 DEF Init, Sound
  <1>4. CommandInv
    <2>1. cmd.pids = <<>> /\ cmd.job = 0 /\ cmd = Idle /\ jobs = <<>> /\ pc = "take"
      BY IdleIsACommand DEF Init
    <2>2. Pipeline(cmd.pids, st, pgrp)
      BY <1>1, <2>1, MaxStagesAssumption DEF Pipeline
    <2> QED
      BY <1>1, <2>1, <2>2 DEF CommandInv, Between, Waiting
  <1>5. NobodyLost
    BY DEF Init, KernelInit, NobodyLost, Child
  <1>6. WaitInv
    BY DEF Init, KernelInit, WaitInv
  <1> QED
    BY <1>2, <1>3, <1>4, <1>5, <1>6 DEF JobInv

\* a step of the prompt that touches none of the processes and none of the jobs
LEMMA QuietKeeps ==
    ASSUME JobInv, UNCHANGED <<st, event, pgrp, tty, jobs, cmd, at, stopped>>,
           chld' \in BOOLEAN, fired' \in BOOLEAN,
           pc \in Between, pc' \in Between, pc = "exited" => pc' = "exited"
    PROVE  JobInv'
  <1>1. ShellTypes'
    BY DEF JobInv, ShellTypes, Between, Places
  <1>2. Sound(jobs, st, pgrp)'
    BY DEF JobInv
  <1>3. CommandInv'
    BY DEF JobInv, CommandInv, Between, Waiting
  <1>4. NobodyLost'
    BY DEF JobInv, NobodyLost, Child
  <1>5. WaitInv'
    BY DEF JobInv, WaitInv, Between
  <1> QED
    BY <1>1, <1>2, <1>3, <1>4, <1>5 DEF JobInv

-----------------------------------------------------------------------------
(* The operating system: nothing it does by itself, and no waitpid or      *)
(* kill, starts a process or brings one back.                              *)
Calm ==
    /\ st' \in Lives /\ event' \in Events /\ chld' \in BOOLEAN
    /\ pgrp' = pgrp /\ tty' = tty
    /\ Later(st, pgrp, st', pgrp')
    /\ \A p \in Pids : Child(p)' => Child(p)

LEMMA CollectIsCalm ==
    ASSUME ShellTypes, NEW p \in Pids, Collect(p)
    PROVE  Calm
  <1>1. st' \in Lives /\ event' \in Events /\ chld' \in BOOLEAN /\ pgrp' = pgrp /\ tty' = tty
    BY DEF ShellTypes, Collect, Lives, Events, ProcStates
  <1>2. \A q \in Pids : st'[q] = IF q = p /\ st[q] = "zombie" THEN "gone" ELSE st[q]
    BY DEF ShellTypes, Collect, Lives
  <1> QED
    BY <1>1, <1>2 DEF Calm, Later, Child

LEMMA ContIsCalm ==
    ASSUME ShellTypes, NEW g \in Pids, ContGroup(g)
    PROVE  Calm
  <1> DEFINE S == Stopped(Group(g))
  <1>1. \A p \in S : st[p] = "stopped"
    BY DEF Stopped
  <1>2. st' = [p \in Pids |-> IF p \in S THEN "running" ELSE st[p]]
    BY DEF ContGroup
  <1>3. event' = [p \in Pids |-> IF p \in S THEN "continued" ELSE event[p]]
    BY DEF ContGroup
  <1>4. chld' \in BOOLEAN /\ pgrp' = pgrp /\ tty' = tty
    BY DEF ContGroup, ShellTypes
  <1> HIDE DEF S
  <1>5. st' \in Lives /\ event' \in Events
    BY <1>2, <1>3 DEF ShellTypes, Lives, Events, ProcStates
  <1> QED
    BY <1>1, <1>2, <1>4, <1>5 DEF Calm, Later, Child

LEMMA StopIsCalm ==
    ASSUME ShellTypes, NEW S \in SUBSET Pids, \A p \in S : st[p] = "running", StopSet(S)
    PROVE  Calm
  <1>1. st' \in Lives /\ event' \in Events /\ chld' \in BOOLEAN /\ pgrp' = pgrp /\ tty' = tty
    BY DEF ShellTypes, StopSet, Lives, Events, ProcStates
  <1>2. \A q \in Pids : st'[q] = IF q \in S THEN "stopped" ELSE st[q]
    BY DEF StopSet
  <1> QED
    BY <1>1, <1>2 DEF Calm, Later, Child

LEMMA EndIsCalm ==
    ASSUME ShellTypes, NEW S \in SUBSET Pids, \A p \in S : st[p] = "running", EndSet(S)
    PROVE  Calm
  <1>1. st' \in Lives /\ event' \in Events /\ chld' \in BOOLEAN /\ pgrp' = pgrp /\ tty' = tty
    BY DEF ShellTypes, EndSet, Lives, Events, ProcStates
  <1>2. \A q \in Pids : st'[q] = IF q \in S THEN "zombie" ELSE st[q]
    BY DEF EndSet
  <1> QED
    BY <1>1, <1>2 DEF Calm, Later, Child

LEMMA ResumeIsCalm ==
    ASSUME ShellTypes, NEW p \in Pids, Resume(p)
    PROVE  Calm
  <1>1. st' \in Lives /\ event' \in Events /\ chld' \in BOOLEAN /\ pgrp' = pgrp /\ tty' = tty
    BY DEF ShellTypes, Resume, Lives, Events, ProcStates
  <1>2. \A q \in Pids : st'[q] = IF q = p THEN "running" ELSE st[q]
    BY DEF ShellTypes, Resume, Lives
  <1> QED
    BY <1>1, <1>2 DEF Calm, Later, Child, Resume

LEMMA KernelIsCalm ==
    ASSUME ShellTypes, KernelNext
    PROVE  Calm
  <1>1. ASSUME NEW p \in Pids, Exit(p) PROVE Calm
    BY <1>1, EndIsCalm DEF Exit
  <1>2. ASSUME NEW S \in SUBSET Pids
        PROVE  Running(S) \in SUBSET Pids /\ \A p \in Running(S) : st[p] = "running"
    BY DEF Running
  <1>3. \A g : Group(g) \in SUBSET Pids
    BY DEF Group
  <1>4. ASSUME NEW p \in Pids, TerminalRead(p) PROVE Calm
    <2> DEFINE S == Running(Group(pgrp[p]))
    <2>1. StopSet(S)
      BY <1>4 DEF TerminalRead
    <2>2. S \in SUBSET Pids /\ \A q \in S : st[q] = "running"
      BY <1>2, <1>3
    <2> HIDE DEF S
    <2> QED
      BY <2>1, <2>2, StopIsCalm
  <1>5. ASSUME NEW p \in Pids, Suspend(p) PROVE Calm
    BY <1>5, StopIsCalm DEF Suspend
  <1>6. ASSUME NEW p \in Pids, Resume(p) PROVE Calm
    BY <1>6, ResumeIsCalm
  <1> DEFINE F == Running(Group(tty))
  <1>7. F \in SUBSET Pids /\ \A q \in F : st[q] = "running"
    BY <1>2, <1>3
  <1>8. (CtrlZ => StopSet(F)) /\ (CtrlC => EndSet(F))
    BY DEF CtrlZ, CtrlC
  <1> HIDE DEF F
  <1> QED
    BY <1>1, <1>4, <1>5, <1>6, <1>7, <1>8, StopIsCalm, EndIsCalm DEF KernelNext

\* what the table, the command and the children are after such a step
LEMMA CalmFacts ==
    ASSUME JobInv, Calm
    PROVE  /\ Sound(jobs, st', pgrp') /\ Pipeline(cmd.pids, st', pgrp')
           /\ \A k \in DOMAIN cmd.pids :
                 cmd.pids[k] \in Pids /\ (st[cmd.pids[k]] = "gone" => st'[cmd.pids[k]] = "gone")
           /\ pc # "exited" =>
                 \A p \in Pids : Child(p)' => Lists(jobs, p) \/ HasPid(cmd, p)
  <1>1. /\ st \in Lives /\ pgrp \in Groups /\ st' \in Lives /\ pgrp' \in Groups
        /\ jobs \in Seq(JobRecords) /\ cmd.pids \in Seq(Pids)
    BY DEF JobInv, ShellTypes, Calm, Commands
  <1>2. Sound(jobs, st', pgrp')
    BY <1>1, SoundLater DEF JobInv, Calm
  <1>3. Pipeline(cmd.pids, st', pgrp')
    BY <1>1, PipelineLater DEF JobInv, CommandInv, Calm
  <1>4. \A k \in DOMAIN cmd.pids :
           cmd.pids[k] \in Pids /\ (st[cmd.pids[k]] = "gone" => st'[cmd.pids[k]] = "gone")
    BY <1>1 DEF Calm, Later
  <1>5. pc # "exited" => \A p \in Pids : Child(p)' => Lists(jobs, p) \/ HasPid(cmd, p)
    BY DEF Calm, JobInv, NobodyLost
  <1> QED
    BY <1>2, <1>3, <1>4, <1>5

LEMMA SystemKeeps ==
    ASSUME JobInv, System
    PROVE  JobInv'
  <1>1. Calm /\ UNCHANGED svars
    BY KernelIsCalm DEF JobInv, System
  <1>2. /\ Sound(jobs, st', pgrp') /\ Pipeline(cmd.pids, st', pgrp')
        /\ \A k \in DOMAIN cmd.pids :
              cmd.pids[k] \in Pids /\ (st[cmd.pids[k]] = "gone" => st'[cmd.pids[k]] = "gone")
        /\ pc # "exited" => \A p \in Pids : Child(p)' => Lists(jobs, p) \/ HasPid(cmd, p)
    BY <1>1, CalmFacts
  <1>3. ShellTypes'
    BY <1>1 DEF JobInv, ShellTypes, Calm, svars
  <1>4. Sound(jobs, st, pgrp)'
    BY <1>1, <1>2 DEF svars
  <1>5. CommandInv'
    BY <1>1, <1>2 DEF JobInv, CommandInv, svars
  <1>6. NobodyLost'
    BY <1>1, <1>2 DEF NobodyLost, svars
  <1>7. WaitInv'
    <2>1. at \in Nat /\ cmd.pids \in Seq(Pids)
      BY DEF JobInv, ShellTypes, Commands
    <2>2. pc = "wait" => \A k \in 1 .. at - 1 : k \in DOMAIN cmd.pids
      BY <2>1 DEF JobInv, WaitInv
    <2> QED
      BY <1>1, <1>2, <2>2 DEF JobInv, WaitInv, Calm, AllGone, svars
  <1> QED
    BY <1>3, <1>4, <1>5, <1>6, <1>7 DEF JobInv

-----------------------------------------------------------------------------
(* The prompt.                                                             *)

\* no two jobs list a process, so job_of_pid finds the one that does
LEMMA JobOfPidFinds ==
    ASSUME NEW table \in Seq(JobRecords), NEW s, NEW g, Sound(table, s, g),
           NEW p, NEW i \in DOMAIN table, HasPid(table[i], p)
    PROVE  JobOfPid(table, p) = i
  <1>1. \A k \in DOMAIN table : HasPid(table[k], p) => k = i
    BY DEF Sound, Apart, HasPid
  <1>2. Len(table) \in Nat /\ DOMAIN table = 1 .. Len(table)
    OBVIOUS
  <1>3. \A k \in 1 .. (i - 1) : ~HasPid(table[k], p)
    BY <1>1, <1>2
  <1> QED
    BY <1>1, <1>3 DEF JobOfPid

\* a table with one job replaced lists the same processes
LEMMA ListsReplace ==
    ASSUME NEW table \in Seq(JobRecords), NEW i \in DOMAIN table, NEW job \in JobRecords,
           job.pids = table[i].pids
    PROVE  /\ [table EXCEPT ![i] = job] \in Seq(JobRecords)
           /\ \A p : Lists([table EXCEPT ![i] = job], p) <=> Lists(table, p)
  <1> DEFINE t1 == [table EXCEPT ![i] = job]
  <1>1. t1 \in Seq(JobRecords)
    BY ExceptSeq
  <1>2. DOMAIN t1 = DOMAIN table /\ \A k \in DOMAIN table : t1[k] = IF k = i THEN job ELSE table[k]
    OBVIOUS
  <1> HIDE DEF t1
  <1>3. \A k \in DOMAIN table : t1[k].pids = table[k].pids
    BY <1>2
  <1>4. \A p : Lists(t1, p) <=> Lists(table, p)
    BY <1>2, <1>3 DEF Lists, HasPid
  <1> QED
    BY <1>1, <1>4 DEF t1

LEMMA UpdateKeeps ==
    ASSUME JobInv, NEW p \in Pids, p \in Pending, Collect(p)
    PROVE  LET t1 == JobsUpdate(jobs, p, EventOf(p)) IN
           /\ t1 \in Seq(JobRecords) /\ Sound(t1, st', pgrp')
           /\ \A q : Lists(t1, q) <=> Lists(jobs, q)
  <1> DEFINE e == EventOf(p)
             t1 == JobsUpdate(jobs, p, e)
  <1>1. /\ jobs \in Seq(JobRecords) /\ st \in Lives /\ pgrp \in Groups /\ Sound(jobs, st, pgrp)
        /\ ShellTypes
    BY DEF JobInv, ShellTypes
  <1>2. Calm
    BY <1>1, CollectIsCalm
  <1>3. st' \in Lives /\ pgrp' = pgrp /\ Later(st, pgrp, st', pgrp)
    BY <1>2 DEF Calm
  <1>4. Sound(jobs, st', pgrp')
    BY <1>2, CalmFacts
  <1>5. /\ e \in {"ended", "stopped", "continued"}
        /\ e = "ended" => st[p] = "zombie" /\ st' = [st EXCEPT ![p] = "gone"]
    BY DEF EventOf, Pending, HasEnded, HasStopped, HasContinued, Collect
  <1>6. CASE ~\E i \in DOMAIN jobs : HasPid(jobs[i], p)
    BY <1>1, <1>4, <1>6 DEF JobsUpdate
  <1>7. CASE \E i \in DOMAIN jobs : HasPid(jobs[i], p)
    <2>1. PICK i \in DOMAIN jobs : HasPid(jobs[i], p)
      BY <1>7
    <2>2. PICK l \in DOMAIN jobs[i].pids : jobs[i].pids[l] = p
      BY <2>1 DEF HasPid
    <2> DEFINE job == Report(jobs[i], e)
    <2>3. t1 = [jobs EXCEPT ![i] = job]
      BY <1>1, <2>1, JobOfPidFinds DEF JobsUpdate
    <2> HIDE DEF e
    <2>4. jobs[i] \in JobRecords /\ Accounted(jobs[i], st, pgrp)
      BY <1>1 DEF Sound
    <2>5. job \in JobRecords /\ job.id = jobs[i].id /\ job.pids = jobs[i].pids
      BY <1>5, <2>4, ReportFields
    <2>6. Accounted(job, st', pgrp)
      BY <1>1, <1>3, <1>5, <2>2, <2>4, ReportAccounted
    <2> HIDE DEF job, t1
    <2>7. Sound([jobs EXCEPT ![i] = job], st', pgrp')
      BY <1>1, <1>3, <1>4, <2>5, <2>6, SoundReplace
    <2>8. t1 \in Seq(JobRecords) /\ \A q : Lists(t1, q) <=> Lists(jobs, q)
      BY <1>1, <2>3, <2>5, ListsReplace
    <2>9. t1 \in Seq(JobRecords) /\ Sound(t1, st', pgrp') /\ \A q : Lists(t1, q) <=> Lists(jobs, q)
      BY <2>3, <2>7, <2>8
    <2> QED
      BY <2>9 DEF t1, e
  <1> QED
    BY <1>6, <1>7

LEMMA ReapOneKeeps ==
    ASSUME JobInv, NEW p \in Pids, ReapOne(p)
    PROVE  JobInv'
  <1>1. /\ pc = "reap" /\ p \in Pending /\ Collect(p) /\ jobs' = JobsUpdate(jobs, p, EventOf(p))
        /\ UNCHANGED <<pc, fired, cmd, at, stopped>>
    BY DEF ReapOne
  <1>2. Calm
    BY <1>1, CollectIsCalm DEF JobInv
  <1>3. /\ jobs' \in Seq(JobRecords) /\ Sound(jobs', st', pgrp')
        /\ \A q : Lists(jobs', q) <=> Lists(jobs, q)
    BY <1>1, UpdateKeeps
  <1>4. \A q \in Pids : Child(q)' => Lists(jobs, q) \/ HasPid(cmd, q)
    BY <1>1, <1>2, CalmFacts
  <1>5. cmd = Idle
    BY <1>1 DEF JobInv, CommandInv, Between
  <1>6. ShellTypes'
    BY <1>1, <1>2, <1>3 DEF JobInv, ShellTypes, Calm
  <1>7. CommandInv'
    BY <1>1, <1>5, IdleAgain DEF Between
  <1>8. NobodyLost'
    BY <1>1, <1>3, <1>4 DEF NobodyLost
  <1>9. WaitInv'
    BY <1>1, <1>2 DEF JobInv, WaitInv, Calm
  <1> QED
    BY <1>3, <1>6, <1>7, <1>8, <1>9 DEF JobInv

\* all the processes of a job that is announced and dropped are gone
LEMMA NotifyOneKeeps ==
    ASSUME JobInv, NotifyOne
    PROVE  JobInv'
  <1>1. /\ pc = "notify"
        /\ UNCHANGED <<st, event, pgrp, tty, chld, pc, fired, cmd, at, stopped>>
    BY DEF NotifyOne, kvars
  <1>2. PICK i \in DOMAIN jobs : NextDone(jobs, i) /\ jobs' = RemoveAt(jobs, i)
    BY DEF NotifyOne
  <1>3. jobs \in Seq(JobRecords) /\ st \in Lives /\ pgrp \in Groups /\ Sound(jobs, st, pgrp)
    BY DEF JobInv, ShellTypes
  <1>4. jobs' \in Seq(JobRecords) /\ Sound(jobs', st, pgrp)
    BY <1>2, <1>3, RemovedFields, SoundRemove
  <1>5. \A p \in Pids : Child(p) /\ Lists(jobs, p) => Lists(jobs', p)
    <2> TAKE p \in Pids
    <2> SUFFICES ASSUME Child(p), Lists(jobs, p) PROVE Lists(jobs', p)
      OBVIOUS
    <2>1. PICK j \in DOMAIN jobs : HasPid(jobs[j], p)
      BY DEF Lists
    <2>2. j # i
      <3>1. \A k \in DOMAIN jobs[i].pids : st[jobs[i].pids[k]] = "gone"
        BY <1>2, <1>3 DEF Sound, Accounted, Alive, NextDone
      <3> QED
        BY <2>1, <3>1 DEF HasPid, Child
    <2> DEFINE n == Len(jobs)
               to == IF j < i THEN j ELSE j - 1
    <2>3. n \in Nat /\ i \in 1 .. n /\ j \in 1 .. n
      BY <1>3
    <2>4. /\ DOMAIN jobs' = 1 .. n - 1
          /\ \A k \in 1 .. n - 1 : jobs'[k] = IF k < i THEN jobs[k] ELSE jobs[k + 1]
      BY <1>2, <1>3, RemovedFields
    <2> HIDE DEF n
    <2>5. to \in 1 .. n - 1 /\ jobs'[to] = jobs[j]
      BY <2>2, <2>3, <2>4
    <2> HIDE DEF to
    <2> QED
      BY <2>1, <2>4, <2>5 DEF Lists
  <1>6. cmd = Idle
    BY <1>1 DEF JobInv, CommandInv, Between
  <1>7. ShellTypes'
    BY <1>1, <1>4 DEF JobInv, ShellTypes
  <1>8. CommandInv'
    BY <1>1, <1>6, IdleAgain DEF Between
  <1>9. NobodyLost'
    BY <1>1, <1>5 DEF JobInv, NobodyLost, Child
  <1>10. WaitInv' /\ Sound(jobs, st, pgrp)'
    BY <1>1, <1>4 DEF JobInv, WaitInv
  <1> QED
    BY <1>7, <1>8, <1>9, <1>10 DEF JobInv

LEMMA PromptKeeps ==
    ASSUME JobInv, Prompt
    PROVE  JobInv'
  <1>1. ASSUME TakeRead PROVE JobInv'
    BY <1>1, QuietKeeps DEF TakeRead, kvars, Between, JobInv, ShellTypes
  <1>2. ASSUME TakeClear PROVE JobInv'
    BY <1>2, QuietKeeps DEF TakeClear, Between
  <1>3. ASSUME NEW p \in Pids, ReapOne(p) PROVE JobInv'
    BY <1>3, ReapOneKeeps
  <1>4. ASSUME ReapEnds PROVE JobInv'
    BY <1>4, QuietKeeps DEF ReapEnds, kvars, Between, JobInv, ShellTypes
  <1>5. ASSUME NotifyOne PROVE JobInv'
    BY <1>5, NotifyOneKeeps
  <1>6. ASSUME NotifyEnds PROVE JobInv'
    BY <1>6, QuietKeeps DEF NotifyEnds, kvars, Between, JobInv, ShellTypes
  <1> QED
    BY <1>1, <1>2, <1>3, <1>4, <1>5, <1>6 DEF Prompt

-----------------------------------------------------------------------------
(* Changes of the table.                                                   *)

\* a job whose state is overwritten, by the shell or by its process
LEMMA SetState ==
    ASSUME NEW table \in Seq(JobRecords), NEW s \in Lives, NEW g \in Groups, Sound(table, s, g),
           NEW i \in DOMAIN table, NEW state \in {"RUNNING", "STOPPED"}
    PROVE  LET t1 == [table EXCEPT ![i].state = state] IN
           /\ t1 \in Seq(JobRecords) /\ Sound(t1, s, g)
           /\ \A p : Lists(t1, p) <=> Lists(table, p)
  <1> DEFINE job == [table[i] EXCEPT !.state = state]
             t1 == [table EXCEPT ![i].state = state]
  <1>1. table[i] \in JobRecords /\ state \in JobStates
    BY DEF JobStates
  <1>2. /\ job \in JobRecords /\ job.id = table[i].id /\ job.pids = table[i].pids
        /\ job.pgid = table[i].pgid /\ job.nleft = table[i].nleft /\ job.state = state
    BY <1>1 DEF JobRecords
  <1>3. t1 = [table EXCEPT ![i] = job]
    OBVIOUS
  <1> HIDE DEF job, t1
  <1>4. Accounted(job, s, g)
    BY <1>2 DEF Sound, Accounted
  <1>5. /\ t1 \in Seq(JobRecords) /\ Sound(t1, s, g) /\ \A p : Lists(t1, p) <=> Lists(table, p)
    <2> DEFINE t2 == [table EXCEPT ![i] = job]
    <2>1. /\ t2 \in Seq(JobRecords) /\ Sound(t2, s, g) /\ \A p : Lists(t2, p) <=> Lists(table, p)
      BY <1>2, <1>4, SoundReplace, ListsReplace
    <2> QED
      BY <1>3, <2>1
  <1> QED
    BY <1>5 DEF t1

LEMMA SetDone ==
    ASSUME NEW table \in Seq(JobRecords), NEW s \in Lives, NEW g \in Groups, Sound(table, s, g),
           NEW i \in DOMAIN table, Alive(table[i].pids, s) = {}
    PROVE  LET t1 == [table EXCEPT ![i] = [@ EXCEPT !.state = "DONE", !.nleft = 0]] IN
           /\ t1 \in Seq(JobRecords) /\ Sound(t1, s, g)
           /\ \A p : Lists(t1, p) <=> Lists(table, p)
  <1> DEFINE job == [table[i] EXCEPT !.state = "DONE", !.nleft = 0]
             t1 == [table EXCEPT ![i] = [@ EXCEPT !.state = "DONE", !.nleft = 0]]
  <1>1. table[i] \in JobRecords /\ "DONE" \in JobStates /\ 0 \in Nat
    BY DEF JobStates
  <1>2. /\ job \in JobRecords /\ job.id = table[i].id /\ job.pids = table[i].pids
        /\ job.pgid = table[i].pgid /\ job.nleft = 0 /\ job.state = "DONE"
    BY <1>1, Zenon DEF JobRecords
  <1>3. t1 = [table EXCEPT ![i] = job]
    BY Zenon
  <1> HIDE DEF job, t1
  <1>4. Accounted(job, s, g)
    <2>1. Cardinality(Alive(table[i].pids, s)) = 0 /\ Len(table[i].pids) \in Nat
      BY <1>1, FS_EmptySet DEF JobRecords
    <2>2. Accounted(table[i], s, g)
      BY DEF Sound
    <2>3. /\ Cardinality(Alive(job.pids, s)) = 0 /\ Alive(job.pids, s) = {}
          /\ Len(job.pids) \in Nat /\ job.nleft = 0
      BY <1>2, <2>1
    <2>4. /\ Len(job.pids) >= 1 /\ Pipeline(job.pids, s, g) /\ job.pgid = job.pids[1]
      BY <1>2, <2>2 DEF Accounted
    <2> QED
      BY <2>3, <2>4 DEF Accounted
  <1>5. /\ t1 \in Seq(JobRecords) /\ Sound(t1, s, g) /\ \A p : Lists(t1, p) <=> Lists(table, p)
    <2> DEFINE t2 == [table EXCEPT ![i] = job]
    <2>1. /\ t2 \in Seq(JobRecords) /\ Sound(t2, s, g) /\ \A p : Lists(t2, p) <=> Lists(table, p)
      BY <1>2, <1>4, SoundReplace, ListsReplace
    <2> QED
      BY <1>3, <2>1
  <1> QED
    BY <1>5 DEF t1

LEMMA ListsAdd ==
    ASSUME NEW table \in Seq(JobRecords), NEW pids \in Seq(Pids), pids # <<>>,
           NEW state \in JobStates, NEW p
    PROVE  Lists(JobsAdd(table, pids, state), p)
              <=> Lists(table, p) \/ \E k \in DOMAIN pids : pids[k] = p
  <1> DEFINE t1 == JobsAdd(table, pids, state)
             job == Job(NextId(table), pids, state)
             n == Len(table)
  <1>1. /\ job.pids = pids /\ t1 \in Seq(JobRecords) /\ Len(t1) = n + 1
        /\ \A i \in 1 .. n : t1[i] = table[i]
        /\ t1[n + 1] = job
    BY AddedFields
  <1>2. n \in Nat /\ DOMAIN table = 1 .. n /\ DOMAIN t1 = 1 .. n + 1
    BY <1>1
  <1> HIDE DEF t1, job, n
  <1>3. Lists(t1, p) <=> (\E i \in 1 .. n : HasPid(t1[i], p)) \/ HasPid(t1[n + 1], p)
    BY <1>2 DEF Lists
  <1>4. Lists(t1, p) <=> Lists(table, p) \/ \E k \in DOMAIN pids : pids[k] = p
    BY <1>1, <1>2, <1>3 DEF Lists, HasPid
  <1> QED
    BY <1>4 DEF t1

-----------------------------------------------------------------------------
(* Commands.                                                               *)

LEMMA StartPipelineKeeps ==
    ASSUME JobInv, NEW n \in 1 .. MaxStages, NEW b \in BOOLEAN, StartPipeline(n, b)
    PROVE  JobInv'
  <1>1. /\ pc = "read" /\ cmd = Idle /\ pc' = "fork"
        /\ UNCHANGED <<st, event, pgrp, tty, chld, jobs, fired, at, stopped>>
    BY DEF StartPipeline, kvars, JobInv, CommandInv, Between
  <1>2. /\ cmd' \in Commands /\ cmd'.todo = n /\ cmd'.pids = <<>> /\ cmd'.job = 0
    <2>1. n \in Nat
      BY MaxStagesAssumption
    <2>2. cmd' = [Idle EXCEPT !.todo = n, !.background = b]
      BY DEF StartPipeline
    <2>3. [Idle EXCEPT !.todo = n, !.background = b] \in Commands
      BY <2>1, IdleIsACommand, Zenon DEF Commands
    <2>4. /\ [Idle EXCEPT !.todo = n, !.background = b].todo = n
          /\ [Idle EXCEPT !.todo = n, !.background = b].pids = Idle.pids
          /\ [Idle EXCEPT !.todo = n, !.background = b].job = Idle.job
      BY IdleIsACommand, Zenon DEF Commands
    <2> QED
      BY <2>2, <2>3, <2>4, IdleIsACommand
  <1>3. ShellTypes'
    BY <1>1, <1>2 DEF JobInv, ShellTypes, Places
  <1>4. CommandInv'
    <2>1. Len(<<>>) = 0 /\ DOMAIN <<>> = {}
      OBVIOUS
    <2>2. Pipeline(cmd.pids, st, pgrp)'
      BY <1>2, <2>1, MaxStagesAssumption DEF Pipeline
    <2>3. Len(cmd'.pids) + cmd'.todo <= MaxStages
      BY <1>2, <2>1, MaxStagesAssumption
    <2> QED
      BY <1>1, <1>2, <2>1, <2>2, <2>3 DEF CommandInv, Between, Waiting, Apart
  <1>5. NobodyLost'
    <2>1. \A p : ~HasPid(cmd, p)
      BY <1>1, IdleIsACommand DEF HasPid
    <2> QED
      BY <1>1, <2>1 DEF JobInv, NobodyLost, Child
  <1>6. WaitInv' /\ Sound(jobs, st, pgrp)'
    BY <1>1 DEF JobInv, WaitInv
  <1> QED
    BY <1>3, <1>4, <1>5, <1>6 DEF JobInv

\* the new process is in nobody's pipeline yet, and in the group of the first
LEMMA ForkStageKeeps ==
    ASSUME JobInv, NEW p \in Pids, ForkStage(p)
    PROVE  JobInv'
  <1> DEFINE pids1 == Append(cmd.pids, p)
             left == cmd.todo - 1
             g == IF cmd.pids = <<>> THEN p ELSE cmd.pids[1]
  <1>1. /\ pc = "fork" /\ cmd.todo > 0 /\ Fork(p, g)
        /\ cmd' = [cmd EXCEPT !.todo = left, !.pids = pids1]
        /\ UNCHANGED <<jobs, pc, fired, at, stopped>>
    BY DEF ForkStage
  <1>2. /\ cmd.pids \in Seq(Pids) /\ cmd.todo \in Nat /\ cmd \in Commands /\ cmd.job = 0
        /\ Pipeline(cmd.pids, st, pgrp) /\ Len(cmd.pids) + cmd.todo <= MaxStages
        /\ st \in Lives /\ pgrp \in Groups /\ jobs \in Seq(JobRecords)
        /\ Sound(jobs, st, pgrp)
    BY <1>1 DEF JobInv, ShellTypes, Commands, CommandInv
  <1>3. /\ pids1 \in Seq(Pids) /\ Len(pids1) = Len(cmd.pids) + 1
        /\ \A k \in 1 .. Len(cmd.pids) : pids1[k] = cmd.pids[k]
        /\ pids1[Len(cmd.pids) + 1] = p
    BY <1>2, AppendProperties
  <1>4. left \in Nat /\ Len(cmd.pids) \in Nat /\ left + Len(cmd.pids) + 1 <= MaxStages
        /\ DOMAIN cmd.pids = 1 .. Len(cmd.pids)
    BY <1>1, <1>2, MaxStagesAssumption
  <1>5. g \in Pids /\ g = pids1[1]
    <2>1. CASE cmd.pids = <<>>
      BY <1>3, <1>4, <2>1
    <2>2. CASE cmd.pids # <<>>
      <3>1. Len(cmd.pids) \in Nat \ {0}
        BY <1>2, <2>2, EmptySeq
      <3> QED
        BY <1>2, <1>3, <2>2, <3>1
    <2> QED
      BY <2>1, <2>2
  <1>6. DOMAIN pids1 = 1 .. Len(cmd.pids) + 1
    BY <1>3
  <1> HIDE DEF pids1, left, g
  <1>7. /\ cmd' \in Commands /\ cmd'.pids = pids1 /\ cmd'.todo = left /\ cmd'.job = 0
    <2>1. [cmd EXCEPT !.todo = left, !.pids = pids1] \in Commands
      BY <1>2, <1>3, <1>4, Zenon DEF Commands
    <2>2. /\ [cmd EXCEPT !.todo = left, !.pids = pids1].todo = left
          /\ [cmd EXCEPT !.todo = left, !.pids = pids1].pids = pids1
          /\ [cmd EXCEPT !.todo = left, !.pids = pids1].job = cmd.job
      BY <1>2, Zenon DEF Commands
    <2> QED
      BY <1>1, <1>2, <2>1, <2>2
  <1>8. /\ st[p] = "none" /\ st' \in Lives /\ pgrp' \in Groups
        /\ st' = [st EXCEPT ![p] = "running"] /\ pgrp' = [pgrp EXCEPT ![p] = g]
        /\ UNCHANGED <<event, tty, chld>>
    BY <1>1, <1>2, <1>5 DEF Fork, NewPid, Lives, ProcStates, Groups, Pids
  <1>9. Later(st, pgrp, st', pgrp')
    BY <1>2, <1>8 DEF Later, Lives, Groups
  <1>10. ShellTypes'
    BY <1>1, <1>7, <1>8 DEF JobInv, ShellTypes
  <1>11. Sound(jobs, st, pgrp)'
    BY <1>1, <1>2, <1>8, <1>9, SoundLater
  <1>12. Pipeline(pids1, st', pgrp')
    <2>1. Pipeline(cmd.pids, st', pgrp')
      BY <1>2, <1>8, <1>9, PipelineLater
    <2>2. st'[p] # "none" /\ pgrp'[p] = pids1[1]
      BY <1>2, <1>5, <1>8 DEF Lives, Groups
    <2>3. \A k \in 1 .. Len(cmd.pids) : pids1[k] # p
      BY <1>2, <1>3, <1>4, <1>8 DEF Pipeline
    <2>4. \A k, l \in 1 .. Len(cmd.pids) + 1 : pids1[k] = pids1[l] => k = l
      BY <1>3, <1>4, <2>1, <2>3 DEF Pipeline
    <2>5. \A k \in 1 .. Len(cmd.pids) : pids1[1] = cmd.pids[1]
      BY <1>3, <1>4
    <2>6. \A k \in 1 .. Len(cmd.pids) + 1 : st'[pids1[k]] # "none" /\ pgrp'[pids1[k]] = pids1[1]
      <3>1. pids1[Len(cmd.pids) + 1] = p
        BY <1>3
      <3>2. ASSUME NEW k \in 1 .. Len(cmd.pids)
            PROVE  st'[pids1[k]] # "none" /\ pgrp'[pids1[k]] = pids1[1]
        <4>1. pids1[k] = cmd.pids[k] /\ pids1[1] = cmd.pids[1] /\ k \in DOMAIN cmd.pids
          BY <1>3, <1>4, <2>5
        <4>2. st'[cmd.pids[k]] # "none" /\ pgrp'[cmd.pids[k]] = cmd.pids[1]
          BY <2>1, <4>1 DEF Pipeline
        <4> QED
          BY <4>1, <4>2
      <3>3. \A k \in 1 .. Len(cmd.pids) + 1 : k = Len(cmd.pids) + 1 \/ k \in 1 .. Len(cmd.pids)
        BY <1>4
      <3> QED
        BY <3>1, <3>2, <3>3, <2>2
    <2>7. Len(pids1) <= MaxStages
      BY <1>3, <1>4, MaxStagesAssumption
    <2> QED
      BY <1>6, <2>4, <2>6, <2>7 DEF Pipeline
  <1>13. \A i \in DOMAIN jobs : Apart(pids1, jobs[i].pids)
    <2>1. \A i \in DOMAIN jobs : Apart(cmd.pids, jobs[i].pids)
      BY <1>2 DEF JobInv, CommandInv
    <2>2. \A i \in DOMAIN jobs : \A l \in DOMAIN jobs[i].pids : jobs[i].pids[l] # p
      BY <1>2, <1>8 DEF Sound, Accounted, Pipeline
    <2> QED
      BY <1>3, <1>4, <1>6, <2>1, <2>2 DEF Apart
  <1>14. CommandInv'
    <2>1. Len(pids1) + left <= MaxStages
      BY <1>3, <1>4, MaxStagesAssumption
    <2>2. pc' = "fork" /\ jobs' = jobs
      BY <1>1
    <2> QED
      BY <1>7, <1>12, <1>13, <2>1, <2>2 DEF CommandInv, Between, Waiting
  <1>15. NobodyLost'
    <2>1. \A q \in Pids : Child(q)' => q = p \/ Child(q)
      BY <1>2, <1>8 DEF Child, Lives
    <2>2. \A q \in Pids : HasPid(cmd, q) => HasPid(cmd, q)'
      BY <1>3, <1>4, <1>6, <1>7 DEF HasPid
    <2>3. HasPid(cmd, p)'
      BY <1>3, <1>4, <1>6, <1>7 DEF HasPid
    <2>4. pc # "exited" /\ jobs' = jobs
      BY <1>1
    <2> QED
      BY <2>1, <2>2, <2>3, <2>4 DEF JobInv, NobodyLost
  <1>16. WaitInv'
    BY <1>1, <1>8 DEF JobInv, WaitInv
  <1> QED
    BY <1>10, <1>11, <1>14, <1>15, <1>16 DEF JobInv

LEMMA ForkFailsKeeps ==
    ASSUME JobInv, ForkFails
    PROVE  JobInv'
  <1>1. /\ pc = "fork" /\ cmd' = [cmd EXCEPT !.todo = 0] /\ cmd \in Commands
        /\ UNCHANGED <<st, event, pgrp, tty, chld, jobs, pc, fired, at, stopped>>
    BY DEF ForkFails, kvars, JobInv, ShellTypes
  <1>2. cmd' \in Commands /\ cmd'.pids = cmd.pids /\ cmd'.todo = 0 /\ cmd'.job = cmd.job
    BY <1>1 DEF Commands
  <1>3. ShellTypes' /\ Sound(jobs, st, pgrp)'
    BY <1>1, <1>2 DEF JobInv, ShellTypes
  <1>4. CommandInv'
    <2>1. Pipeline(cmd.pids, st, pgrp) /\ cmd.pids \in Seq(Pids)
      BY <1>1 DEF JobInv, CommandInv, Commands
    <2>2. Len(cmd.pids) + 0 <= MaxStages
      BY <2>1, MaxStagesAssumption DEF Pipeline
    <2>3. cmd.job = 0 /\ \A i \in DOMAIN jobs : Apart(cmd.pids, jobs[i].pids)
      BY <1>1 DEF JobInv, CommandInv
    <2> QED
      BY <1>1, <1>2, <2>1, <2>2, <2>3 DEF CommandInv, Between, Waiting
  <1>5. NobodyLost'
    BY <1>1, <1>2 DEF JobInv, NobodyLost, Child, HasPid
  <1>6. WaitInv'
    BY <1>1, <1>2 DEF JobInv, WaitInv
  <1> QED
    BY <1>3, <1>4, <1>5, <1>6 DEF JobInv

\* a command that leaves no pipeline behind it
LEMMA PromptAgain ==
    ASSUME JobInv, AfterCommand, cmd' = Idle, at' = 0, stopped' = FALSE, tty' = Shell,
           UNCHANGED fired, pgrp' = pgrp,
           st' \in Lives, event' \in Events, chld' \in BOOLEAN,
           jobs' \in Seq(JobRecords), Sound(jobs', st', pgrp'),
           \A p \in Pids : Child(p)' => Lists(jobs', p)
    PROVE  JobInv'
  <1>1. pc' \in Between /\ pc' \in Places /\ pc' \notin {"wait", "takeback"}
    BY DEF AfterCommand, Between, Places
  <1>2. ShellTypes'
    BY <1>1, IdleIsACommand DEF JobInv, ShellTypes
  <1>3. CommandInv'
    BY <1>1, IdleAgain
  <1>4. NobodyLost'
    BY DEF NobodyLost
  <1>5. WaitInv'
    BY <1>1 DEF WaitInv
  <1> QED
    BY <1>2, <1>3, <1>4, <1>5 DEF JobInv

LEMMA NothingForIdle ==
    ASSUME JobInv, pc \in Between
    PROVE  /\ cmd = Idle /\ at = 0 /\ stopped = FALSE /\ tty = Shell
           /\ pc # "exited" => \A p \in Pids : Child(p) => Lists(jobs, p)
  <1>1. cmd = Idle /\ \A p : ~HasPid(cmd, p)
    BY IdleIsACommand DEF JobInv, CommandInv, HasPid
  <1>2. at = 0 /\ stopped = FALSE /\ tty = Shell
    BY DEF JobInv, WaitInv, Between, ShellTypes
  <1> QED
    BY <1>1, <1>2 DEF JobInv, NobodyLost

LEMMA LaunchedKeeps ==
    ASSUME JobInv, Launched
    PROVE  JobInv'
  <1>1. /\ pc = "fork" /\ UNCHANGED <<st, event, pgrp, tty, chld, fired, at, stopped>>
        /\ tty = Shell /\ at = 0 /\ stopped = FALSE /\ cmd.job = 0
    BY DEF Launched, kvars, JobInv, WaitInv, CommandInv, ShellTypes
  <1>2. /\ jobs \in Seq(JobRecords) /\ cmd.pids \in Seq(Pids) /\ Sound(jobs, st, pgrp)
        /\ Pipeline(cmd.pids, st, pgrp) /\ st \in Lives /\ pgrp \in Groups
        /\ event \in Events /\ chld \in BOOLEAN
        /\ \A i \in DOMAIN jobs : Apart(cmd.pids, jobs[i].pids)
        /\ \A p \in Pids : Child(p) => Lists(jobs, p) \/ HasPid(cmd, p)
    BY <1>1 DEF JobInv, ShellTypes, Commands, CommandInv, NobodyLost
  <1>3. CASE cmd.pids = <<>>
    <2>1. AfterCommand /\ cmd' = Idle /\ jobs' = jobs
      BY <1>3 DEF Launched
    <2>2. \A p \in Pids : Child(p)' => Lists(jobs', p)
      BY <1>1, <1>2, <1>3, <2>1 DEF HasPid, Child
    <2> QED
      BY <1>1, <1>2, <2>1, <2>2, PromptAgain
  <1>4. CASE cmd.pids # <<>> /\ cmd.background
    <2>1. AfterCommand /\ cmd' = Idle /\ jobs' = JobsAdd(jobs, cmd.pids, "RUNNING")
      BY <1>4 DEF Launched
    <2>2. "RUNNING" \in JobStates
      BY DEF JobStates
    <2>3. jobs' \in Seq(JobRecords) /\ Sound(jobs', st', pgrp')
      BY <1>1, <1>2, <1>4, <2>1, <2>2, AddedFields, SoundAdd
    <2>4. \A p \in Pids : Lists(jobs, p) \/ HasPid(cmd, p) => Lists(jobs', p)
      BY <1>2, <1>4, <2>1, <2>2, ListsAdd DEF HasPid
    <2>5. \A p \in Pids : Child(p)' => Lists(jobs', p)
      BY <1>1, <1>2, <2>4 DEF Child
    <2> QED
      BY <1>1, <1>2, <2>1, <2>3, <2>5, PromptAgain
  <1>5. CASE cmd.pids # <<>> /\ ~cmd.background
    <2>1. pc' = "handoff" /\ jobs' = jobs /\ cmd' = cmd
      BY <1>5 DEF Launched
    <2>2. ShellTypes' /\ Sound(jobs, st, pgrp)'
      BY <1>1, <2>1 DEF JobInv, ShellTypes, Places
    <2>3. CommandInv'
      BY <1>1, <1>2, <1>5, <2>1 DEF CommandInv, Between, Waiting
    <2>4. NobodyLost' /\ WaitInv'
      BY <1>1, <1>2, <2>1 DEF NobodyLost, WaitInv, Child
    <2> QED
      BY <2>2, <2>3, <2>4 DEF JobInv
  <1> QED
    BY <1>3, <1>4, <1>5

\* the job's group leader is a process
LEMMA JobFields ==
    ASSUME JobInv, NEW i \in DOMAIN jobs
    PROVE  /\ jobs[i] \in JobRecords /\ jobs[i].pids \in Seq(Pids) /\ jobs[i].pids # <<>>
           /\ jobs[i].pgid \in Pids /\ jobs[i].id \in Names
           /\ Accounted(jobs[i], st, pgrp)
  <1>1. jobs[i] \in JobRecords /\ Accounted(jobs[i], st, pgrp)
    BY DEF JobInv, ShellTypes, Sound
  <1>2. Len(jobs[i].pids) >= 1
    BY <1>1 DEF Accounted
  <1>3. Len(<<>>) = 0
    OBVIOUS
  <1> QED
    BY <1>1, <1>2, <1>3 DEF JobRecords

LEMMA FgKeeps ==
    ASSUME JobInv, NEW i \in DOMAIN jobs, Fg(i)
    PROVE  JobInv'
  <1>1. /\ pc = "read" /\ pc' = "handoff" /\ ContGroup(jobs[i].pgid)
        /\ jobs' = [jobs EXCEPT ![i].state = "RUNNING"]
        /\ cmd' = [Idle EXCEPT !.pids = jobs[i].pids, !.job = jobs[i].id]
        /\ UNCHANGED <<fired, at, stopped>>
    BY DEF Fg
  <1>2. /\ jobs[i].pids \in Seq(Pids) /\ jobs[i].pids # <<>>
        /\ jobs[i].pgid \in Pids /\ jobs[i].id \in Names
    BY JobFields
  <1>3. Calm
    BY <1>1, <1>2, ContIsCalm DEF JobInv
  <1>4. /\ cmd = Idle /\ at = 0 /\ stopped = FALSE /\ tty = Shell /\ tty' = Shell
        /\ \A p \in Pids : Child(p)' => Lists(jobs, p)
    BY <1>1, <1>3, NothingForIdle DEF Calm, Between
  <1>5. /\ jobs \in Seq(JobRecords) /\ st' \in Lives /\ pgrp' \in Groups
        /\ Sound(jobs, st', pgrp')
    BY <1>3, CalmFacts DEF JobInv, ShellTypes, Calm
  <1>6. /\ jobs' \in Seq(JobRecords) /\ Sound(jobs', st', pgrp')
        /\ \A p : Lists(jobs', p) <=> Lists(jobs, p)
        /\ DOMAIN jobs' = DOMAIN jobs
        /\ \A k \in DOMAIN jobs : jobs'[k].id = jobs[k].id /\ jobs'[k].pids = jobs[k].pids
    <2>1. /\ jobs' \in Seq(JobRecords) /\ Sound(jobs', st', pgrp')
          /\ \A p : Lists(jobs', p) <=> Lists(jobs, p)
      BY <1>1, <1>5, SetState
    <2>2. /\ DOMAIN jobs' = DOMAIN jobs
          /\ \A k \in DOMAIN jobs : jobs'[k].id = jobs[k].id /\ jobs'[k].pids = jobs[k].pids
      <3>1. \A k \in DOMAIN jobs : jobs[k] \in JobRecords
        BY <1>5
      <3> QED
        BY <1>1, <3>1 DEF JobRecords
    <2> QED
      BY <2>1, <2>2
  <1>7. cmd' \in Commands /\ cmd'.pids = jobs[i].pids /\ cmd'.job = jobs[i].id
    <2>1. jobs[i].id \in Nat
      BY <1>2 DEF Names
    <2>2. [Idle EXCEPT !.pids = jobs[i].pids, !.job = jobs[i].id] \in Commands
      BY <1>2, <2>1, IdleIsACommand, Zenon DEF Commands
    <2>3. /\ [Idle EXCEPT !.pids = jobs[i].pids, !.job = jobs[i].id].pids = jobs[i].pids
          /\ [Idle EXCEPT !.pids = jobs[i].pids, !.job = jobs[i].id].job = jobs[i].id
      BY IdleIsACommand, Zenon DEF Commands
    <2> QED
      BY <1>1, <2>2, <2>3
  <1>8. ShellTypes'
    BY <1>1, <1>3, <1>6, <1>7 DEF JobInv, ShellTypes, Calm, Places
  <1>9. CommandInv'
    <2>1. Pipeline(jobs[i].pids, st', pgrp')
      BY <1>5 DEF Sound, Accounted
    <2>2. Pipeline(cmd.pids, st, pgrp)' /\ cmd'.pids # <<>> /\ cmd'.job # 0
      BY <1>2, <1>7, <2>1 DEF Names
    <2>3. jobs'[i].id = cmd'.job /\ jobs'[i].pids = cmd'.pids /\ i \in DOMAIN jobs'
      BY <1>6, <1>7
    <2> QED
      BY <1>1, <2>2, <2>3 DEF CommandInv, Between, Waiting
  <1>10. NobodyLost' /\ WaitInv'
    BY <1>1, <1>4, <1>6 DEF NobodyLost, WaitInv
  <1> QED
    BY <1>6, <1>8, <1>9, <1>10 DEF JobInv

LEMMA BgKeeps ==
    ASSUME JobInv, NEW i \in DOMAIN jobs, Bg(i)
    PROVE  JobInv'
  <1>1. /\ pc = "read" /\ AfterCommand /\ ContGroup(jobs[i].pgid)
        /\ jobs' = [jobs EXCEPT ![i].state = "RUNNING"]
        /\ UNCHANGED <<fired, cmd, at, stopped>>
    BY DEF Bg
  <1>2. Calm
    BY <1>1, JobFields, ContIsCalm DEF JobInv
  <1>3. /\ cmd = Idle /\ at = 0 /\ stopped = FALSE /\ tty' = Shell
        /\ \A p \in Pids : Child(p)' => Lists(jobs, p)
    BY <1>1, <1>2, NothingForIdle DEF Calm, Between
  <1>4. /\ jobs \in Seq(JobRecords) /\ st' \in Lives /\ pgrp' \in Groups
        /\ Sound(jobs, st', pgrp') /\ event' \in Events /\ chld' \in BOOLEAN /\ pgrp' = pgrp
    BY <1>2, CalmFacts DEF JobInv, ShellTypes, Calm
  <1>5. /\ jobs' \in Seq(JobRecords) /\ Sound(jobs', st', pgrp')
        /\ \A p : Lists(jobs', p) <=> Lists(jobs, p)
    BY <1>1, <1>4, SetState
  <1> QED
    BY <1>1, <1>3, <1>4, <1>5, PromptAgain

LEMMA HandoffKeeps ==
    ASSUME JobInv, Handoff
    PROVE  JobInv'
  <1>1. /\ pc = "handoff" /\ pc' = "wait" /\ tty' = cmd.pids[1] /\ at' = 1 /\ stopped' = FALSE
        /\ UNCHANGED <<st, event, pgrp, chld, jobs, fired, cmd>>
    BY DEF Handoff
  <1>2. Len(cmd.pids) \in Nat \ {0} /\ cmd.pids[1] \in Pids
    <2>1. cmd.pids \in Seq(Pids) /\ cmd.pids # <<>>
      BY <1>1 DEF JobInv, ShellTypes, Commands, CommandInv, Waiting
    <2>2. Len(cmd.pids) \in Nat \ {0}
      BY <2>1, EmptySeq
    <2> QED
      BY <2>1, <2>2
  <1>3. ShellTypes' /\ Sound(jobs, st, pgrp)'
    BY <1>1, <1>2 DEF JobInv, ShellTypes, Places
  <1>4. CommandInv' /\ NobodyLost'
    BY <1>1 DEF JobInv, CommandInv, Between, Waiting, NobodyLost, Child
  <1>5. WaitInv'
    BY <1>1, <1>2 DEF WaitInv
  <1> QED
    BY <1>3, <1>4, <1>5 DEF JobInv

-----------------------------------------------------------------------------
(* The wait for the pipeline in the foreground.                            *)

LEMMA WaitedPid ==
    ASSUME JobInv, pc = "wait", at <= Len(cmd.pids)
    PROVE  /\ cmd.pids \in Seq(Pids) /\ Len(cmd.pids) \in Nat /\ DOMAIN cmd.pids = 1 .. Len(cmd.pids)
           /\ at \in 1 .. Len(cmd.pids) /\ cmd.pids[at] \in Pids
           /\ ~stopped => \A k \in 1 .. at - 1 : st[cmd.pids[k]] = "gone"
  <1>1. cmd.pids \in Seq(Pids) /\ at \in Nat
    BY DEF JobInv, ShellTypes, Commands
  <1>2. Len(cmd.pids) \in Nat /\ at \in 1 .. Len(cmd.pids)
    BY <1>1 DEF JobInv, WaitInv
  <1> QED
    BY <1>1, <1>2 DEF JobInv, WaitInv

LEMMA WaitReportsKeeps ==
    ASSUME JobInv, WaitReports
    PROVE  JobInv'
  <1> DEFINE p == cmd.pids[at]
  <1>1. /\ pc = "wait" /\ at <= Len(cmd.pids) /\ (HasEnded(p) \/ HasStopped(p))
        /\ Collect(p) /\ stopped' = (stopped \/ HasStopped(p)) /\ at' = at + 1
        /\ UNCHANGED <<jobs, pc, fired, cmd>>
    BY DEF WaitReports
  <1>2. /\ Len(cmd.pids) \in Nat /\ DOMAIN cmd.pids = 1 .. Len(cmd.pids)
        /\ at \in 1 .. Len(cmd.pids) /\ p \in Pids
        /\ ~stopped => \A k \in 1 .. at - 1 : st[cmd.pids[k]] = "gone"
    BY <1>1, WaitedPid
  <1>3. Calm
    BY <1>1, <1>2, CollectIsCalm DEF JobInv
  <1>4. /\ Sound(jobs, st', pgrp') /\ Pipeline(cmd.pids, st', pgrp')
        /\ \A k \in DOMAIN cmd.pids :
              cmd.pids[k] \in Pids /\ (st[cmd.pids[k]] = "gone" => st'[cmd.pids[k]] = "gone")
        /\ pc # "exited" => \A q \in Pids : Child(q)' => Lists(jobs, q) \/ HasPid(cmd, q)
    BY <1>3, CalmFacts
  <1>5. HasEnded(p) => st'[p] = "gone"
    BY <1>1, <1>2 DEF HasEnded, Collect, JobInv, ShellTypes, Lives
  <1>6. ShellTypes'
    BY <1>1, <1>3 DEF JobInv, ShellTypes, Calm
  <1>7. CommandInv' /\ NobodyLost' /\ Sound(jobs, st, pgrp)'
    BY <1>1, <1>4 DEF JobInv, CommandInv, NobodyLost, Between
  <1>8. WaitInv'
    <2>1. at' \in 1 .. Len(cmd.pids) + 1
      BY <1>1, <1>2
    <2>2. ~stopped' => ~stopped /\ st'[p] = "gone"
      BY <1>1, <1>5
    <2>3. ~stopped' => \A k \in 1 .. at' - 1 : st'[cmd.pids[k]] = "gone"
      <3> SUFFICES ASSUME ~stopped', NEW k \in 1 .. at' - 1
                   PROVE  st'[cmd.pids[k]] = "gone"
        OBVIOUS
      <3>1. k \in DOMAIN cmd.pids /\ (k \in 1 .. at - 1 \/ k = at)
        BY <1>1, <1>2
      <3> QED
        BY <1>2, <1>4, <2>2, <3>1
    <2>4. tty' = tty
      BY <1>3 DEF Calm
    <2> QED
      BY <1>1, <2>1, <2>3, <2>4 DEF JobInv, WaitInv
  <1> QED
    BY <1>6, <1>7, <1>8 DEF JobInv

LEMMA WaitSkipsKeeps ==
    ASSUME JobInv, WaitSkips
    PROVE  JobInv'
  <1>1. /\ pc = "wait" /\ at <= Len(cmd.pids) /\ (st[cmd.pids[at]] = "gone" \/ stopped)
        /\ at' = at + 1
        /\ UNCHANGED <<st, event, pgrp, tty, chld, jobs, pc, fired, cmd, stopped>>
    BY DEF WaitSkips, kvars
  <1>2. /\ Len(cmd.pids) \in Nat /\ at \in 1 .. Len(cmd.pids)
        /\ ~stopped => \A k \in 1 .. at - 1 : st[cmd.pids[k]] = "gone"
    BY <1>1, WaitedPid
  <1>3. ShellTypes' /\ Sound(jobs, st, pgrp)'
    BY <1>1, <1>2 DEF JobInv, ShellTypes
  <1>4. CommandInv' /\ NobodyLost'
    BY <1>1 DEF JobInv, CommandInv, NobodyLost, Child
  <1>5. WaitInv'
    <2>1. at' \in 1 .. Len(cmd.pids) + 1
      BY <1>1, <1>2
    <2>2. ~stopped' => \A k \in 1 .. at' - 1 : st'[cmd.pids[k]] = "gone"
      BY <1>1, <1>2
    <2> QED
      BY <1>1, <2>1, <2>2 DEF JobInv, WaitInv
  <1> QED
    BY <1>3, <1>4, <1>5 DEF JobInv

LEMMA WaitEndsKeeps ==
    ASSUME JobInv, WaitEnds
    PROVE  JobInv'
  <1>1. /\ pc = "wait" /\ at > Len(cmd.pids) /\ pc' = "takeback"
        /\ UNCHANGED <<st, event, pgrp, tty, chld, jobs, fired, cmd, at, stopped>>
    BY DEF WaitEnds, kvars
  <1>2. ShellTypes' /\ Sound(jobs, st, pgrp)'
    BY <1>1 DEF JobInv, ShellTypes, Places
  <1>3. CommandInv' /\ NobodyLost'
    BY <1>1 DEF JobInv, CommandInv, NobodyLost, Child, Between, Waiting
  <1>4. WaitInv'
    <2>1. Len(cmd.pids) \in Nat /\ DOMAIN cmd.pids = 1 .. Len(cmd.pids) /\ at \in 1 .. Len(cmd.pids) + 1
      BY <1>1 DEF JobInv, ShellTypes, Commands, WaitInv
    <2>2. at = Len(cmd.pids) + 1 /\ at - 1 = Len(cmd.pids)
      BY <1>1, <2>1
    <2>3. ~stopped => AllGone(cmd.pids)
      BY <1>1, <2>1, <2>2 DEF JobInv, WaitInv, AllGone
    <2>4. at <= Len(cmd.pids) + 1
      BY <2>1
    <2>5. AllGone(cmd.pids) => AllGone(cmd.pids)'
      BY <1>1 DEF AllGone
    <2> QED
      BY <1>1, <2>3, <2>4, <2>5 DEF JobInv, WaitInv
  <1> QED
    BY <1>2, <1>3, <1>4 DEF JobInv

\* fg's job is still in the table
LEMMA JobIndexFinds ==
    ASSUME JobInv, cmd.job # 0
    PROVE  /\ JobIndex(cmd.job) \in DOMAIN jobs /\ jobs[JobIndex(cmd.job)].id = cmd.job
           /\ jobs[JobIndex(cmd.job)].pids = cmd.pids
  <1>1. PICK i \in DOMAIN jobs : jobs[i].id = cmd.job /\ jobs[i].pids = cmd.pids
    BY DEF JobInv, CommandInv
  <1>2. JobIndex(cmd.job) \in DOMAIN jobs /\ jobs[JobIndex(cmd.job)].id = cmd.job
    BY <1>1 DEF JobIndex
  <1>3. JobIndex(cmd.job) = i
    BY <1>1, <1>2 DEF JobInv, Sound
  <1> QED
    BY <1>1, <1>2, <1>3

LEMMA TakeBackKeeps ==
    ASSUME JobInv, TakeBack
    PROVE  JobInv'
  <1>1. /\ pc = "takeback" /\ tty' = Shell /\ cmd' = Idle /\ at' = 0 /\ stopped' = FALSE
        /\ AfterCommand /\ UNCHANGED <<st, event, pgrp, chld, fired>>
        /\ jobs' = IF cmd.job = 0 THEN Filed ELSE Settled
    BY DEF TakeBack
  <1>2. /\ jobs \in Seq(JobRecords) /\ cmd.pids \in Seq(Pids) /\ cmd.pids # <<>>
        /\ Sound(jobs, st, pgrp)
        /\ Pipeline(cmd.pids, st, pgrp) /\ st \in Lives /\ pgrp \in Groups
        /\ event \in Events /\ chld \in BOOLEAN
        /\ \A p \in Pids : Child(p) => Lists(jobs, p) \/ HasPid(cmd, p)
        /\ ~stopped => AllGone(cmd.pids)
    BY <1>1 DEF JobInv, ShellTypes, Commands, CommandInv, NobodyLost, WaitInv, Waiting
  <1>3. CASE cmd.job = 0 /\ stopped
    <2>1. jobs' = JobsAdd(jobs, cmd.pids, "STOPPED") /\ "STOPPED" \in JobStates
      BY <1>1, <1>3 DEF Filed, JobStates
    <2>2. \A i \in DOMAIN jobs : Apart(cmd.pids, jobs[i].pids)
      BY <1>3 DEF JobInv, CommandInv
    <2>3. jobs' \in Seq(JobRecords) /\ Sound(jobs', st', pgrp')
      BY <1>1, <1>2, <2>1, <2>2, AddedFields, SoundAdd
    <2>4. \A p \in Pids : Lists(jobs, p) \/ HasPid(cmd, p) => Lists(jobs', p)
      BY <1>2, <2>1, ListsAdd DEF HasPid
    <2>5. \A p \in Pids : Child(p)' => Lists(jobs', p)
      BY <1>1, <1>2, <2>4 DEF Child
    <2> QED
      BY <1>1, <1>2, <2>3, <2>5, PromptAgain
  <1>4. CASE cmd.job = 0 /\ ~stopped
    <2>1. jobs' = jobs
      BY <1>1, <1>4 DEF Filed
    <2>2. \A p \in Pids : HasPid(cmd, p) => ~Child(p)
      BY <1>2, <1>4 DEF HasPid, AllGone, Child
    <2>3. \A p \in Pids : Child(p)' => Lists(jobs', p)
      BY <1>1, <1>2, <2>1, <2>2 DEF Child
    <2> QED
      BY <1>1, <1>2, <2>1, <2>3, PromptAgain
  <1>5. CASE cmd.job # 0
    <2> DEFINE i == JobIndex(cmd.job)
    <2>1. i \in DOMAIN jobs /\ jobs[i].pids = cmd.pids
      BY <1>5, JobIndexFinds
    <2>2. \A p : HasPid(cmd, p) => Lists(jobs, p)
      BY <2>1 DEF Lists, HasPid
    <2>3. /\ jobs' \in Seq(JobRecords) /\ Sound(jobs', st, pgrp)
          /\ \A p : Lists(jobs', p) <=> Lists(jobs, p)
      <3>1. CASE stopped
        <4>1. jobs' = [jobs EXCEPT ![i].state = "STOPPED"]
          BY <1>1, <1>5, <3>1 DEF Settled
        <4> HIDE DEF i
        <4> QED
          BY <1>2, <2>1, <4>1, SetState
      <3>2. CASE ~stopped
        <4>1. jobs' = [jobs EXCEPT ![i] = [@ EXCEPT !.state = "DONE", !.nleft = 0]]
          BY <1>1, <1>5, <3>2 DEF Settled
        <4>2. Alive(jobs[i].pids, st) = {}
          BY <1>2, <2>1, <3>2 DEF Alive, AllGone
        <4> HIDE DEF i
        <4> QED
          BY <1>2, <2>1, <4>1, <4>2, SetDone
      <3> QED
        BY <3>1, <3>2
    <2>4. \A p \in Pids : Child(p)' => Lists(jobs', p)
      BY <1>1, <1>2, <2>2, <2>3 DEF Child
    <2> QED
      BY <1>1, <1>2, <2>3, <2>4, PromptAgain
  <1> QED
    BY <1>3, <1>4, <1>5

LEMMA QuitKeeps ==
    ASSUME JobInv, Quit
    PROVE  JobInv'
  <1>1. /\ pc = "read" /\ pc' = "exited" /\ jobs' = <<>>
        /\ UNCHANGED <<st, event, pgrp, tty, chld, fired, cmd, at, stopped>>
    BY DEF Quit, kvars
  <1>2. <<>> \in Seq(JobRecords) /\ DOMAIN <<>> = {}
    BY EmptySeq
  <1>3. ShellTypes' /\ Sound(jobs, st, pgrp)'
    BY <1>1, <1>2 DEF JobInv, ShellTypes, Sound, Places
  <1>4. CommandInv'
    BY <1>1, IdleAgain DEF JobInv, CommandInv, Between
  <1>5. NobodyLost' /\ WaitInv'
    BY <1>1 DEF JobInv, NobodyLost, WaitInv
  <1> QED
    BY <1>3, <1>4, <1>5 DEF JobInv

-----------------------------------------------------------------------------
LEMMA StepInv == JobInv /\ [Next]_vars => JobInv'
  <1> SUFFICES ASSUME JobInv, [Next]_vars PROVE JobInv'
    OBVIOUS
  <1>1. CASE Prompt
    BY <1>1, PromptKeeps
  <1>2. CASE Foreground
    BY <1>2, ForkStageKeeps, ForkFailsKeeps, LaunchedKeeps, HandoffKeeps, WaitReportsKeeps,
       WaitSkipsKeeps, WaitEndsKeeps, TakeBackKeeps DEF Foreground
  <1>3. CASE User
    <2>1. ASSUME EmptyLine PROVE JobInv'
      BY <2>1, QuietKeeps DEF EmptyLine, kvars, Between, JobInv, ShellTypes
    <2> QED
      BY <1>3, <2>1, StartPipelineKeeps, FgKeeps, BgKeeps, QuitKeeps
         DEF User, FgCommand, BgCommand
  <1>4. CASE System
    BY <1>4, SystemKeeps
  <1>5. CASE UNCHANGED vars
    <2>1. ShellTypes' /\ Sound(jobs, st, pgrp)' /\ CommandInv' /\ NobodyLost' /\ WaitInv'
      BY <1>5 DEF vars, JobInv, ShellTypes, CommandInv, NobodyLost, WaitInv, Child, AllGone
    <2> QED
      BY <2>1 DEF JobInv
  <1>6. CASE Exited
    BY <1>5, <1>6 DEF Exited
  <1> QED
    BY <1>1, <1>2, <1>3, <1>4, <1>5, <1>6 DEF Next

LEMMA Invariance == Spec => []JobInv
  BY InitInv, StepInv, PTL DEF Spec

-----------------------------------------------------------------------------
(* What the invariant says.                                                *)

\* no pipeline has more processes than there are
LEMMA PipelineIsShort ==
    ASSUME NEW pids \in Seq(Pids), NEW s, NEW g, Pipeline(pids, s, g)
    PROVE  Len(pids) <= MaxPid
  <1> DEFINE n == Len(pids)
  <1>1. n \in Nat /\ pids \in [1 .. n -> Pids] /\ MaxPid \in Nat
    BY LenProperties, MaxPidAssumption
  <1>2. \A k, l \in 1 .. n : pids[k] = pids[l] => k = l
    BY DEF Pipeline
  <1> HIDE DEF n
  <1>3. /\ IsFiniteSet(1 .. n) /\ Cardinality(1 .. n) = IF 1 > n THEN 0 ELSE n - 1 + 1
        /\ IsFiniteSet(Pids) /\ Cardinality(Pids) = IF 1 > MaxPid THEN 0 ELSE MaxPid - 1 + 1
    <2>1. 1 \in Int /\ n \in Int /\ MaxPid \in Int
      BY <1>1
    <2> QED
      BY <2>1, FS_Interval DEF Pids
  <1>4. Cardinality(1 .. n) = n /\ Cardinality(Pids) = MaxPid
    BY <1>1, <1>3
  <1>5. ~(MaxPid < n)
    BY <1>1, <1>2, <1>3, <1>4, FS_PigeonHole
  <1> QED
    BY <1>1, <1>5 DEF n

LEMMA JobInvTypes == JobInv => TypeOK
  <1> SUFFICES ASSUME JobInv PROVE TypeOK
    OBVIOUS
  <1>1. KernelTypeOK /\ pc \in Places /\ fired \in BOOLEAN /\ stopped \in BOOLEAN /\ at \in Nat
    BY DEF JobInv, ShellTypes, KernelTypeOK, Lives, Events, Groups
  <1>2. at \in 0 .. (MaxPid + 1)
    <2>1. cmd.pids \in Seq(Pids) /\ Len(cmd.pids) \in Nat /\ Len(cmd.pids) <= MaxPid
      BY PipelineIsShort DEF JobInv, ShellTypes, CommandInv, Commands
    <2>2. at <= Len(cmd.pids) + 1
      BY <2>1 DEF JobInv, WaitInv
    <2> QED
      BY <1>1, <2>1, <2>2, MaxPidAssumption
  <1>3. ASSUME NEW i \in DOMAIN jobs
        PROVE  /\ jobs[i].state \in JobStates
               /\ Len(jobs[i].pids) \in 1 .. MaxStages
               /\ jobs[i].nleft \in 0 .. Len(jobs[i].pids)
    <2>1. jobs[i] \in JobRecords /\ Accounted(jobs[i], st, pgrp)
      BY JobFields
    <2> QED
      BY <2>1, MaxStagesAssumption DEF JobRecords, Accounted, Pipeline
  <1>4. JobNamesUnique
    <2> SUFFICES ASSUME NEW i \in DOMAIN jobs, NEW k \in DOMAIN jobs, i # k
                 PROVE  jobs[i].id # jobs[k].id /\ jobs[i].pgid # jobs[k].pgid
      BY DEF JobNamesUnique
    <2>1. jobs[i].id # jobs[k].id /\ Apart(jobs[i].pids, jobs[k].pids)
      BY DEF JobInv, Sound
    <2>2. ASSUME NEW j \in DOMAIN jobs
          PROVE  1 \in DOMAIN jobs[j].pids /\ jobs[j].pgid = jobs[j].pids[1]
      BY JobFields DEF Accounted
    <2> QED
      BY <2>1, <2>2 DEF Apart
  <1> QED
    BY <1>1, <1>2, <1>3, <1>4 DEF TypeOK, Places

(* TypeOK for any number of processes: job ids are handed out once at a    *)
(* time and so are process groups, nleft never leaves 0 .. nprocs, and no  *)
(* pipeline waits past its last stage (jobs.c, exec.c, spawn.c).           *)
THEOREM TypeCorrect == Spec => []TypeOK
  BY Invariance, JobInvTypes, PTL

(* TerminalOwner for any number of processes: the terminal is the shell's  *)
(* whenever it is not waiting, whatever stops, ends or is skipped in the   *)
(* wait (exec_wait_foreground, spawn_set_terminal).                        *)
THEOREM TerminalComesBack == Spec => []TerminalOwner
  <1>1. JobInv => TerminalOwner
    BY DEF JobInv, WaitInv, TerminalOwner
  <1> QED
    BY <1>1, Invariance, PTL

(* NoLostChild for any number of processes: every process the shell has    *)
(* started and not collected is in exactly one job whenever it prompts,    *)
(* across forks that fail, stopped pipelines, fg, bg and jobs dropped from *)
(* the table (exec.c, jobs.c).                                             *)
THEOREM ChildrenAreKept == Spec => []NoLostChild
  <1>1. JobInv => NoLostChild
    <2> SUFFICES ASSUME JobInv, AtPrompt, NEW p \in Pids, Child(p)
                 PROVE  Cardinality({i \in DOMAIN jobs : InJob(i, p)}) = 1
      BY DEF NoLostChild
    <2>1. Lists(jobs, p)
      BY NothingForIdle DEF AtPrompt, Between
    <2>2. PICK i \in DOMAIN jobs : HasPid(jobs[i], p)
      BY <2>1 DEF Lists
    <2>3. \A k \in DOMAIN jobs : HasPid(jobs[k], p) => k = i
      BY <2>2 DEF JobInv, Sound, Apart, HasPid
    <2>4. {k \in DOMAIN jobs : InJob(k, p)} = {i}
      BY <2>2, <2>3 DEF InJob
    <2> QED
      BY <2>4, FS_Singleton
  <1> QED
    BY <1>1, Invariance, PTL

-----------------------------------------------------------------------------
(* What the table says of jobs of one process.                             *)

\* the state last reported of process p
Shown(state, p, s, e) ==
    /\ s[p] = "gone" => state # "STOPPED"
    /\ e[p] = "none" /\ s[p] = "stopped" => state = "STOPPED"
    /\ e[p] = "none" /\ s[p] = "running" => state # "STOPPED"

Exact(job, s, e) ==
    (job.nleft = 0 <=> s[job.pids[1]] = "gone") /\ Shown(job.state, job.pids[1], s, e)

\* the job fg waits for: its entry is brought up to date when the wait is over
Resumed(job) == pc \in Waiting /\ job.id = cmd.job

\* the event of a process is from the state it is in
EventsFresh ==
    \A p \in Pids :
        /\ st[p] = "none" => event[p] = "none"
        /\ st[p] = "running" => event[p] # "stopped"
        /\ st[p] = "stopped" => event[p] # "continued"

\* nothing is reported of a pipeline before it is a job or waited for
Unreported ==
    pc = "fork" => \A k \in DOMAIN cmd.pids :
        /\ st[cmd.pids[k]] # "gone"
        /\ st[cmd.pids[k]] = "stopped" => event[cmd.pids[k]] # "none"

TableTells ==
    \A i \in DOMAIN jobs :
        Len(jobs[i].pids) = 1 /\ ~Resumed(jobs[i]) => Exact(jobs[i], st, event)

WaitTells ==
    Len(cmd.pids) = 1 =>
        /\ pc = "wait" /\ at = 1 => ~stopped
        /\ pc \in {"wait", "takeback"} /\ stopped => Shown("STOPPED", cmd.pids[1], st, event)
        /\ \A i \in DOMAIN jobs :
              Resumed(jobs[i]) /\ jobs[i].nleft = 0 => st[cmd.pids[1]] = "gone"

TruthInv == EventsFresh /\ Unreported /\ TableTells /\ WaitTells

\* a process as it was, or with news of itself that waitpid has not told yet
Stirs(p) ==
    \/ st'[p] = st[p] /\ event'[p] = event[p]
    \/ /\ st[p] \notin {"none", "gone"}
       /\ \/ st'[p] = "stopped" /\ event'[p] = "stopped"
          \/ st'[p] = "zombie" /\ event'[p] = "none"
          \/ st'[p] = "running" /\ event'[p] = "continued"

LEMMA KernelStirs ==
    ASSUME ShellTypes, KernelNext
    PROVE  \A p \in Pids : Stirs(p)
  <1>1. ASSUME NEW S \in SUBSET Pids, \A p \in S : st[p] = "running", StopSet(S)
        PROVE  \A p \in Pids : Stirs(p)
    BY <1>1 DEF StopSet, Stirs
  <1>2. ASSUME NEW S \in SUBSET Pids, \A p \in S : st[p] = "running", EndSet(S)
        PROVE  \A p \in Pids : Stirs(p)
    BY <1>2 DEF EndSet, Stirs
  <1>3. \A S \in SUBSET Pids : Running(S) \in SUBSET Pids /\ \A p \in Running(S) : st[p] = "running"
    BY DEF Running
  <1>4. \A g : Group(g) \in SUBSET Pids
    BY DEF Group
  <1>5. ASSUME NEW p \in Pids, Exit(p) PROVE \A q \in Pids : Stirs(q)
    BY <1>2, <1>5 DEF Exit
  <1>6. ASSUME NEW p \in Pids, TerminalRead(p) PROVE \A q \in Pids : Stirs(q)
    <2> DEFINE S == Running(Group(pgrp[p]))
    <2>1. StopSet(S)
      BY <1>6 DEF TerminalRead
    <2>2. S \in SUBSET Pids /\ \A q \in S : st[q] = "running"
      BY <1>3, <1>4
    <2> HIDE DEF S
    <2> QED
      BY <1>1, <2>1, <2>2
  <1>7. ASSUME NEW p \in Pids, Suspend(p) PROVE \A q \in Pids : Stirs(q)
    BY <1>1, <1>7 DEF Suspend
  <1>8. ASSUME NEW p \in Pids, Resume(p) PROVE \A q \in Pids : Stirs(q)
    BY <1>8 DEF Resume, Stirs, ShellTypes, Lives, Events
  <1> DEFINE F == Running(Group(tty))
  <1>9. F \in SUBSET Pids /\ \A q \in F : st[q] = "running"
    BY <1>3, <1>4
  <1>10. (CtrlZ => StopSet(F)) /\ (CtrlC => EndSet(F))
    BY DEF CtrlZ, CtrlC
  <1> HIDE DEF F
  <1> QED
    BY <1>1, <1>2, <1>5, <1>6, <1>7, <1>8, <1>9, <1>10 DEF KernelNext

LEMMA ContStirs ==
    ASSUME ShellTypes, NEW g \in Pids, ContGroup(g)
    PROVE  /\ \A p \in Pids : Stirs(p)
           /\ \A p \in Pids : pgrp[p] = g => st'[p] # "stopped"
  <1> DEFINE S == Stopped(Group(g))
  <1>1. \A p \in S : st[p] = "stopped"
    BY DEF Stopped
  <1>2. \A p \in Pids : pgrp[p] = g /\ st[p] = "stopped" => p \in S
    BY DEF Stopped, Group
  <1>3. st' = [p \in Pids |-> IF p \in S THEN "running" ELSE st[p]]
    BY DEF ContGroup
  <1>4. event' = [p \in Pids |-> IF p \in S THEN "continued" ELSE event[p]]
    BY DEF ContGroup
  <1> HIDE DEF S
  <1> QED
    BY <1>1, <1>2, <1>3, <1>4 DEF Stirs

LEMMA CollectTells ==
    ASSUME ShellTypes, NEW p \in Pids, Collect(p)
    PROVE  /\ \A q \in Pids : q # p => st'[q] = st[q] /\ event'[q] = event[q]
           /\ st'[p] = (IF st[p] = "zombie" THEN "gone" ELSE st[p]) /\ event'[p] = "none"
  BY DEF Collect, ShellTypes, Lives, Events

LEMMA FreshKept ==
    ASSUME ShellTypes, EventsFresh,
           \/ \A p \in Pids : Stirs(p)
           \/ \E p \in Pids : Collect(p)
    PROVE  EventsFresh'
  <1>1. CASE \A p \in Pids : Stirs(p)
    BY <1>1 DEF EventsFresh, Stirs
  <1>2. CASE \E p \in Pids : Collect(p)
    BY <1>2, CollectTells DEF EventsFresh
  <1> QED
    BY <1>1, <1>2

\* news that has not been told changes nothing the table says
LEMMA ExactKept ==
    ASSUME NEW p \in Pids, Stirs(p)
    PROVE  /\ st'[p] = "gone" <=> st[p] = "gone"
           /\ \A state : Shown(state, p, st, event) => Shown(state, p, st', event')
           /\ \A job : job.pids[1] = p /\ Exact(job, st, event) => Exact(job, st', event')
           /\ st[p] # "gone" /\ (st[p] = "stopped" => event[p] # "none") =>
                 st'[p] # "gone" /\ (st'[p] = "stopped" => event'[p] # "none")
  <1>1. /\ st'[p] = "gone" <=> st[p] = "gone"
        /\ st[p] # "gone" /\ (st[p] = "stopped" => event[p] # "none") =>
              st'[p] # "gone" /\ (st'[p] = "stopped" => event'[p] # "none")
    BY DEF Stirs
  <1>2. \A state : Shown(state, p, st, event) => Shown(state, p, st', event')
    BY DEF Stirs, Shown
  <1>3. \A job : job.pids[1] = p /\ Exact(job, st, event) => Exact(job, st', event')
    BY <1>1, <1>2 DEF Exact
  <1> QED
    BY <1>1, <1>2, <1>3

LEMMA InitTruth == Init => TruthInv
  <1> SUFFICES ASSUME Init PROVE TruthInv
    OBVIOUS
  <1>1. EventsFresh
    BY DEF Init, KernelInit, EventsFresh
  <1>2. DOMAIN <<>> = {} /\ Len(<<>>) = 0
    OBVIOUS
  <1> QED
    BY <1>1, <1>2, IdleIsACommand DEF Init, TruthInv, Unreported, TableTells, WaitTells

LEMMA FirstPid ==
    ASSUME JobInv
    PROVE  /\ \A i \in DOMAIN jobs : 1 \in DOMAIN jobs[i].pids /\ jobs[i].pids[1] \in Pids
           /\ \A i, k \in DOMAIN jobs : i # k => jobs[i].pids[1] # jobs[k].pids[1]
           /\ Len(cmd.pids) = 1 => 1 \in DOMAIN cmd.pids /\ cmd.pids[1] \in Pids
           /\ \A k \in DOMAIN cmd.pids : cmd.pids[k] \in Pids
  <1>1. \A i \in DOMAIN jobs : 1 \in DOMAIN jobs[i].pids /\ jobs[i].pids[1] \in Pids
    BY JobFields DEF Accounted
  <1>2. \A i, k \in DOMAIN jobs : i # k => jobs[i].pids[1] # jobs[k].pids[1]
    BY <1>1 DEF JobInv, Sound, Apart
  <1>3. cmd.pids \in Seq(Pids)
    BY DEF JobInv, ShellTypes, Commands
  <1> QED
    BY <1>1, <1>2, <1>3

LEMMA QuietTells ==
    ASSUME TruthInv, UNCHANGED <<st, event, jobs, cmd, at, stopped>>, pc \in Between, pc' \in Between
    PROVE  TruthInv'
  <1>1. pc' \notin Waiting /\ pc \notin Waiting /\ pc' \notin {"wait", "takeback"} /\ pc' # "fork"
    BY DEF Between, Waiting
  <1>2. EventsFresh' /\ Unreported'
    BY <1>1 DEF TruthInv, EventsFresh, Unreported
  <1>3. TableTells'
    BY <1>1 DEF TruthInv, TableTells, Resumed
  <1>4. WaitTells'
    BY <1>1 DEF WaitTells, Resumed
  <1> QED
    BY <1>2, <1>3, <1>4 DEF TruthInv

LEMMA SystemTells ==
    ASSUME JobInv, TruthInv, System
    PROVE  TruthInv'
  <1>1. UNCHANGED <<jobs, cmd, pc, at, stopped>> /\ \A p \in Pids : Stirs(p)
    BY KernelStirs DEF System, svars, JobInv
  <1>2. EventsFresh'
    BY <1>1, FreshKept DEF JobInv, TruthInv
  <1>3. Unreported'
    BY <1>1, FirstPid, ExactKept DEF TruthInv, Unreported
  <1>4. TableTells'
    BY <1>1, FirstPid, ExactKept DEF TruthInv, TableTells, Resumed
  <1>5. WaitTells'
    BY <1>1, FirstPid, ExactKept DEF TruthInv, WaitTells, Resumed
  <1> QED
    BY <1>2, <1>3, <1>4, <1>5 DEF TruthInv

\* what waitpid tells of a job of one process is what the table says next
LEMMA ReportTells ==
    ASSUME JobInv, EventsFresh, NEW p \in Pids, p \in Pending, Collect(p),
           NEW job \in JobRecords, Len(job.pids) = 1, job.pids[1] = p,
           job.nleft <= 1, Exact(job, st, event)
    PROVE  Exact(Report(job, EventOf(p)), st', event')
  <1> DEFINE e == EventOf(p)
             j1 == Report(job, e)
  <1>1. /\ e \in {"ended", "stopped", "continued"}
        /\ e = "ended" <=> st[p] = "zombie"
        /\ e = "stopped" => st[p] = "stopped"
        /\ e = "continued" => st[p] = "running"
    BY DEF EventOf, Pending, HasEnded, HasStopped, HasContinued, EventsFresh
  <1>2. job.nleft \in Nat
    BY DEF JobRecords
  <1>3. st'[p] = (IF st[p] = "zombie" THEN "gone" ELSE st[p]) /\ event'[p] = "none"
    BY CollectTells DEF JobInv
  <1> HIDE DEF e
  <1>4. /\ j1.pids = job.pids
        /\ j1.nleft = IF e = "ended" /\ job.nleft # 0 THEN job.nleft - 1 ELSE job.nleft
        /\ j1.state = IF e = "ended" THEN IF job.nleft = 1 THEN "DONE" ELSE job.state
                      ELSE IF e = "stopped" THEN "STOPPED" ELSE "RUNNING"
    BY <1>1, ReportFields
  <1> HIDE DEF j1
  <1>5. job.nleft = 0 <=> st[p] = "gone"
    BY DEF Exact
  <1>6. job.nleft = 1 \/ job.nleft = 0
    BY <1>2
  <1>7. CASE e = "ended"
    <2>1. job.nleft = 1 /\ st'[p] = "gone"
      BY <1>1, <1>3, <1>5, <1>6, <1>7
    <2>2. j1.nleft = 0 /\ j1.state = "DONE"
      BY <1>4, <1>7, <2>1
    <2>3. Exact(j1, st', event')
      BY <1>4, <2>1, <2>2 DEF Exact, Shown
    <2> QED
      BY <2>3 DEF j1, e
  <1>8. CASE e = "stopped"
    <2>1. st[p] = "stopped" /\ st'[p] = "stopped" /\ job.nleft # 0
      BY <1>1, <1>3, <1>5, <1>8
    <2>2. j1.nleft # 0 /\ j1.state = "STOPPED"
      BY <1>4, <1>8, <2>1
    <2>3. Exact(j1, st', event')
      BY <1>3, <1>4, <2>1, <2>2 DEF Exact, Shown
    <2> QED
      BY <2>3 DEF j1, e
  <1>9. CASE e = "continued"
    <2>1. st[p] = "running" /\ st'[p] = "running" /\ job.nleft # 0
      BY <1>1, <1>3, <1>5, <1>9
    <2>2. j1.nleft # 0 /\ j1.state = "RUNNING"
      BY <1>4, <1>9, <2>1
    <2>3. Exact(j1, st', event')
      BY <1>3, <1>4, <2>1, <2>2 DEF Exact, Shown
    <2> QED
      BY <2>3 DEF j1, e
  <1> QED
    BY <1>1, <1>7, <1>8, <1>9

LEMMA ReapOneTells ==
    ASSUME JobInv, TruthInv, NEW p \in Pids, ReapOne(p)
    PROVE  TruthInv'
  <1>1. /\ pc = "reap" /\ p \in Pending /\ Collect(p) /\ jobs' = JobsUpdate(jobs, p, EventOf(p))
        /\ UNCHANGED <<pc, fired, cmd, at, stopped>>
    BY DEF ReapOne
  <1>2. cmd = Idle /\ pc \notin Waiting
    BY <1>1 DEF JobInv, CommandInv, Between, Waiting
  <1>3. EventsFresh'
    BY <1>1, FreshKept DEF JobInv, TruthInv
  <1>4. \A q \in Pids : q # p => st'[q] = st[q] /\ event'[q] = event[q]
    BY <1>1, CollectTells DEF JobInv
  <1>5. \A k \in DOMAIN jobs : jobs[k].pids[1] # p =>
           (Exact(jobs[k], st, event) => Exact(jobs[k], st', event'))
    BY <1>4, FirstPid DEF Exact, Shown
  <1>6. TableTells'
    <2> SUFFICES ASSUME NEW k \in DOMAIN jobs', Len(jobs'[k].pids) = 1
                 PROVE  Exact(jobs'[k], st', event')
      BY DEF TableTells
    <2>1. CASE ~\E i \in DOMAIN jobs : HasPid(jobs[i], p)
      <3>1. jobs' = jobs
        BY <1>1, <2>1 DEF JobsUpdate
      <3>2. jobs[k].pids[1] # p
        BY <2>1, <3>1, FirstPid DEF HasPid
      <3> QED
        BY <1>2, <1>5, <3>1, <3>2 DEF TruthInv, TableTells, Resumed
    <2>2. CASE \E i \in DOMAIN jobs : HasPid(jobs[i], p)
      <3>1. PICK i \in DOMAIN jobs : HasPid(jobs[i], p)
        BY <2>2
      <3>2. jobs \in Seq(JobRecords) /\ Sound(jobs, st, pgrp)
        BY DEF JobInv, ShellTypes
      <3> DEFINE job == Report(jobs[i], EventOf(p))
      <3>3. jobs' = [jobs EXCEPT ![i] = job]
        BY <1>1, <3>1, <3>2, JobOfPidFinds DEF JobsUpdate
      <3>4. /\ jobs[i] \in JobRecords /\ EventOf(p) \in {"ended", "stopped", "continued"}
            /\ jobs[i].nleft <= Len(jobs[i].pids)
        BY <1>1, JobFields DEF EventOf, Pending, HasEnded, HasStopped, HasContinued, Accounted
      <3>5. job.pids = jobs[i].pids
        BY <3>4, ReportFields
      <3>6. Len(jobs[i].pids) = 1 => Exact(job, st', event')
        <4> SUFFICES ASSUME Len(jobs[i].pids) = 1 PROVE Exact(job, st', event')
          OBVIOUS
        <4>1. jobs[i].pids[1] = p
          <5>1. PICK l \in DOMAIN jobs[i].pids : jobs[i].pids[l] = p
            BY <3>1 DEF HasPid
          <5>2. DOMAIN jobs[i].pids = 1 .. 1
            BY <3>4 DEF JobRecords
          <5> QED
            BY <5>1, <5>2
        <4>2. Exact(jobs[i], st, event)
          BY <1>2 DEF TruthInv, TableTells, Resumed
        <4>3. jobs[i].nleft <= 1
          BY <3>4
        <4> QED
          BY <1>1, <3>4, <4>1, <4>2, <4>3, ReportTells DEF TruthInv
      <3> HIDE DEF job
      <3>7. CASE k = i
        BY <3>3, <3>5, <3>6, <3>7
      <3>8. CASE k # i
        <4>1. k \in DOMAIN jobs /\ jobs'[k] = jobs[k]
          BY <3>3, <3>8
        <4>2. jobs[k].pids[1] # p
          BY <3>1, <3>2, <3>8, <4>1, FirstPid DEF Sound, Apart, HasPid
        <4>3. Exact(jobs[k], st, event)
          BY <1>2, <4>1 DEF TruthInv, TableTells, Resumed
        <4> QED
          BY <1>5, <4>1, <4>2, <4>3
      <3> QED
        BY <3>7, <3>8
    <2> QED
      BY <2>1, <2>2
  <1>7. Unreported' /\ WaitTells'
    <2>1. Len(<<>>) # 1
      OBVIOUS
    <2> QED
      BY <1>1, <1>2, <2>1, IdleIsACommand DEF Unreported, WaitTells
  <1> QED
    BY <1>3, <1>6, <1>7 DEF TruthInv

\* a step after which the shell waits for nothing
LEMMA AtPromptTells ==
    ASSUME pc' \in Between, cmd' = Idle, EventsFresh',
           \A k \in DOMAIN jobs' : Len(jobs'[k].pids) = 1 => Exact(jobs'[k], st', event')
    PROVE  TruthInv'
  <1>1. Len(<<>>) # 1
    OBVIOUS
  <1>2. Unreported' /\ WaitTells'
    BY <1>1, IdleIsACommand DEF Unreported, WaitTells, Between
  <1>3. TableTells'
    BY DEF TableTells
  <1> QED
    BY <1>2, <1>3 DEF TruthInv

LEMMA NotifyOneTells ==
    ASSUME JobInv, TruthInv, NotifyOne
    PROVE  TruthInv'
  <1>1. /\ pc = "notify" /\ UNCHANGED <<st, event, pc, cmd>>
    BY DEF NotifyOne, kvars
  <1>2. PICK i \in DOMAIN jobs : jobs' = RemoveAt(jobs, i)
    BY DEF NotifyOne
  <1>3. cmd = Idle /\ pc \notin Waiting /\ pc \in Between
    BY <1>1 DEF JobInv, CommandInv, Between, Waiting
  <1>4. \A k \in DOMAIN jobs' : \E l \in DOMAIN jobs : jobs'[k] = jobs[l]
    <2>1. jobs \in Seq(JobRecords)
      BY DEF JobInv, ShellTypes
    <2> DEFINE n == Len(jobs)
    <2>2. n \in Nat /\ DOMAIN jobs = 1 .. n /\ i \in 1 .. n
      BY <2>1
    <2>3. /\ DOMAIN jobs' = 1 .. n - 1
          /\ \A k \in 1 .. n - 1 : jobs'[k] = IF k < i THEN jobs[k] ELSE jobs[k + 1]
      BY <1>2, <2>1, RemovedFields
    <2> HIDE DEF n
    <2> QED
      BY <2>2, <2>3
  <1>5. \A k \in DOMAIN jobs' : Len(jobs'[k].pids) = 1 => Exact(jobs'[k], st', event')
    BY <1>1, <1>3, <1>4 DEF TruthInv, TableTells, Resumed
  <1>6. EventsFresh'
    BY <1>1 DEF TruthInv, EventsFresh
  <1> QED
    BY <1>1, <1>3, <1>5, <1>6, AtPromptTells

LEMMA StartPipelineTells ==
    ASSUME JobInv, TruthInv, NEW n \in 1 .. MaxStages, NEW b \in BOOLEAN, StartPipeline(n, b)
    PROVE  TruthInv'
  <1>1. /\ pc = "read" /\ pc' = "fork" /\ UNCHANGED <<st, event, jobs>>
        /\ cmd' = [Idle EXCEPT !.todo = n, !.background = b]
    BY DEF StartPipeline, kvars
  <1>2. cmd'.pids = <<>>
    <2>1. [Idle EXCEPT !.todo = n, !.background = b].pids = Idle.pids
      BY IdleIsACommand, Zenon DEF Commands
    <2> QED
      BY <1>1, <2>1, IdleIsACommand
  <1>3. pc \notin Waiting /\ pc' \notin Waiting
    BY <1>1 DEF Waiting
  <1>4. Len(<<>>) # 1 /\ DOMAIN <<>> = {}
    OBVIOUS
  <1>5. Unreported' /\ WaitTells' /\ EventsFresh'
    BY <1>1, <1>2, <1>4 DEF Unreported, WaitTells, EventsFresh, TruthInv
  <1>6. TableTells'
    BY <1>1, <1>3 DEF TruthInv, TableTells, Resumed
  <1> QED
    BY <1>5, <1>6 DEF TruthInv

LEMMA ForkStageTells ==
    ASSUME JobInv, TruthInv, NEW p \in Pids, ForkStage(p)
    PROVE  TruthInv'
  <1> DEFINE pids1 == Append(cmd.pids, p)
  <1>1. /\ pc = "fork" /\ pc' = "fork" /\ jobs' = jobs /\ st[p] = "none"
        /\ st' = [st EXCEPT ![p] = "running"] /\ event' = event
        /\ cmd' = [cmd EXCEPT !.todo = @ - 1, !.pids = pids1]
    BY DEF ForkStage, Fork, NewPid
  <1>2. cmd \in Commands /\ cmd.pids \in Seq(Pids) /\ st \in Lives /\ event \in Events
    BY DEF JobInv, ShellTypes, Commands
  <1>3. cmd'.pids = pids1
    BY <1>1, <1>2, Zenon DEF Commands
  <1>4. /\ DOMAIN pids1 = 1 .. Len(cmd.pids) + 1 /\ pids1[Len(cmd.pids) + 1] = p
        /\ DOMAIN cmd.pids = 1 .. Len(cmd.pids) /\ Len(cmd.pids) \in Nat
        /\ \A k \in 1 .. Len(cmd.pids) : pids1[k] = cmd.pids[k]
    <2>1. /\ pids1 \in Seq(Pids) /\ Len(pids1) = Len(cmd.pids) + 1
          /\ \A k \in 1 .. Len(cmd.pids) : pids1[k] = cmd.pids[k]
          /\ pids1[Len(cmd.pids) + 1] = p
      BY <1>2, AppendProperties
    <2> HIDE DEF pids1
    <2> QED
      BY <1>2, <2>1
  <1> HIDE DEF pids1
  <1>5. event[p] = "none" /\ \A q \in Pids : st'[q] = IF q = p THEN "running" ELSE st[q]
    BY <1>1, <1>2 DEF TruthInv, EventsFresh, Lives
  <1>6. EventsFresh'
    BY <1>1, <1>5 DEF TruthInv, EventsFresh
  <1>7. Unreported'
    <2>1. \A k \in 1 .. Len(cmd.pids) :
             /\ st'[cmd.pids[k]] # "gone"
             /\ st'[cmd.pids[k]] = "stopped" => event'[cmd.pids[k]] # "none"
      BY <1>1, <1>4, <1>5, FirstPid DEF TruthInv, Unreported
    <2>2. st'[p] # "gone" /\ st'[p] # "stopped"
      BY <1>5
    <2>3. \A k \in 1 .. Len(cmd.pids) + 1 :
             /\ st'[pids1[k]] # "gone"
             /\ st'[pids1[k]] = "stopped" => event'[pids1[k]] # "none"
      BY <1>4, <2>1, <2>2
    <2> QED
      BY <1>3, <1>4, <2>3 DEF Unreported
  <1>8. pc \notin Waiting /\ pc' \notin Waiting
    BY <1>1 DEF Waiting
  <1>9. TableTells'
    <2>1. \A i \in DOMAIN jobs : jobs[i].pids[1] # p
      <3>1. \A i \in DOMAIN jobs : st[jobs[i].pids[1]] # "none"
        BY FirstPid DEF JobInv, Sound, Accounted, Pipeline
      <3> QED
        BY <1>1, <3>1
    <2>2. \A i \in DOMAIN jobs : Exact(jobs[i], st, event) => Exact(jobs[i], st', event')
      BY <1>1, <1>5, <2>1, FirstPid DEF Exact, Shown
    <2> QED
      BY <1>1, <1>8, <2>2 DEF TruthInv, TableTells, Resumed
  <1>10. WaitTells'
    BY <1>1, <1>8 DEF WaitTells, Resumed
  <1> QED
    BY <1>6, <1>7, <1>9, <1>10 DEF TruthInv

LEMMA ForkFailsTells ==
    ASSUME JobInv, TruthInv, ForkFails
    PROVE  TruthInv'
  <1>1. /\ pc = "fork" /\ pc' = "fork" /\ UNCHANGED <<st, event, jobs>>
        /\ cmd' = [cmd EXCEPT !.todo = 0] /\ cmd \in Commands
    BY DEF ForkFails, kvars, JobInv, ShellTypes
  <1>2. cmd'.pids = cmd.pids
    BY <1>1 DEF Commands
  <1>3. pc \notin Waiting /\ pc' \notin Waiting
    BY <1>1 DEF Waiting
  <1>4. EventsFresh' /\ Unreported' /\ WaitTells'
    BY <1>1, <1>2, <1>3 DEF TruthInv, EventsFresh, Unreported, WaitTells, Resumed
  <1>5. TableTells'
    BY <1>1, <1>3 DEF TruthInv, TableTells, Resumed
  <1> QED
    BY <1>4, <1>5 DEF TruthInv

\* a pipeline that becomes a job: nothing of it is collected yet
LEMMA AddedTells ==
    ASSUME JobInv, cmd.pids # <<>>, NEW state \in JobStates,
           \A i \in DOMAIN jobs : Len(jobs[i].pids) = 1 => Exact(jobs[i], st, event),
           Len(cmd.pids) = 1 => st[cmd.pids[1]] # "gone" /\ Shown(state, cmd.pids[1], st, event)
    PROVE  LET t1 == JobsAdd(jobs, cmd.pids, state) IN
           \A k \in DOMAIN t1 : Len(t1[k].pids) = 1 => Exact(t1[k], st, event)
  <1> DEFINE t1 == JobsAdd(jobs, cmd.pids, state)
             job == Job(NextId(jobs), cmd.pids, state)
             n == Len(jobs)
  <1>1. jobs \in Seq(JobRecords) /\ cmd.pids \in Seq(Pids)
    BY DEF JobInv, ShellTypes, Commands
  <1>2. /\ job.pids = cmd.pids /\ job.state = state /\ job.nleft = Len(cmd.pids)
        /\ t1 \in Seq(JobRecords) /\ Len(t1) = n + 1
        /\ \A i \in 1 .. n : t1[i] = jobs[i]
        /\ t1[n + 1] = job
    BY <1>1, AddedFields
  <1>3. n \in Nat /\ DOMAIN jobs = 1 .. n /\ DOMAIN t1 = 1 .. n + 1
    BY <1>1, <1>2
  <1> HIDE DEF t1, job, n
  <1>4. Len(job.pids) = 1 => Exact(job, st, event)
    BY <1>2 DEF Exact
  <1>5. \A k \in DOMAIN t1 : Len(t1[k].pids) = 1 => Exact(t1[k], st, event)
    <2> TAKE k \in DOMAIN t1
    <2>1. CASE k \in 1 .. n
      BY <1>2, <1>3, <2>1
    <2>2. CASE k = n + 1
      BY <1>2, <1>4, <2>2
    <2> QED
      BY <1>3, <2>1, <2>2
  <1> QED
    BY <1>5 DEF t1

LEMMA LaunchedTells ==
    ASSUME JobInv, TruthInv, Launched
    PROVE  TruthInv'
  <1>1. pc = "fork" /\ UNCHANGED <<st, event>> /\ EventsFresh' /\ pc \notin Waiting
    BY DEF Launched, kvars, TruthInv, EventsFresh, Waiting
  <1>2. \A i \in DOMAIN jobs : Len(jobs[i].pids) = 1 => Exact(jobs[i], st, event)
    BY <1>1 DEF TruthInv, TableTells, Resumed
  <1>3. AfterCommand => pc' \in Between
    BY DEF AfterCommand, Between
  <1>4. CASE cmd.pids = <<>>
    <2>1. AfterCommand /\ cmd' = Idle /\ jobs' = jobs
      BY <1>4 DEF Launched
    <2> QED
      BY <1>1, <1>2, <1>3, <2>1, AtPromptTells
  <1>5. CASE cmd.pids # <<>> /\ cmd.background
    <2>1. AfterCommand /\ cmd' = Idle /\ jobs' = JobsAdd(jobs, cmd.pids, "RUNNING")
      BY <1>5 DEF Launched
    <2>2. Len(cmd.pids) = 1 =>
             st[cmd.pids[1]] # "gone" /\ Shown("RUNNING", cmd.pids[1], st, event)
      BY <1>1, FirstPid DEF TruthInv, Unreported, Shown
    <2>3. "RUNNING" \in JobStates
      BY DEF JobStates
    <2>4. \A k \in DOMAIN jobs' : Len(jobs'[k].pids) = 1 => Exact(jobs'[k], st, event)
      BY <1>2, <1>5, <2>1, <2>2, <2>3, AddedTells
    <2> QED
      BY <1>1, <1>3, <2>1, <2>4, AtPromptTells
  <1>6. CASE cmd.pids # <<>> /\ ~cmd.background
    <2>1. pc' = "handoff" /\ jobs' = jobs /\ cmd' = cmd
      BY <1>6 DEF Launched
    <2>2. cmd.job = 0 /\ \A i \in DOMAIN jobs : jobs[i].id # 0
      BY <1>1, JobFields DEF JobInv, CommandInv, Names
    <2>3. Unreported' /\ WaitTells'
      BY <2>1, <2>2 DEF Unreported, WaitTells, Resumed
    <2>4. TableTells'
      BY <1>1, <1>2, <2>1 DEF TableTells
    <2> QED
      BY <1>1, <2>3, <2>4 DEF TruthInv
  <1> QED
    BY <1>4, <1>5, <1>6

LEMMA FgTells ==
    ASSUME JobInv, TruthInv, NEW i \in DOMAIN jobs, Fg(i)
    PROVE  TruthInv'
  <1>1. /\ pc = "read" /\ pc' = "handoff" /\ ContGroup(jobs[i].pgid)
        /\ jobs' = [jobs EXCEPT ![i].state = "RUNNING"]
        /\ cmd' = [Idle EXCEPT !.pids = jobs[i].pids, !.job = jobs[i].id]
    BY DEF Fg
  <1>2. /\ jobs \in Seq(JobRecords) /\ jobs[i] \in JobRecords /\ jobs[i].pgid \in Pids
        /\ \A k \in DOMAIN jobs : k # i => jobs[k].id # jobs[i].id
    BY JobFields DEF JobInv, ShellTypes, Sound
  <1>3. \A p \in Pids : Stirs(p)
    BY <1>1, <1>2, ContStirs DEF JobInv
  <1>4. EventsFresh'
    BY <1>3, FreshKept DEF JobInv, TruthInv
  <1>5. cmd'.pids = jobs[i].pids /\ cmd'.job = jobs[i].id
    <2>1. /\ [Idle EXCEPT !.pids = jobs[i].pids, !.job = jobs[i].id].pids = jobs[i].pids
          /\ [Idle EXCEPT !.pids = jobs[i].pids, !.job = jobs[i].id].job = jobs[i].id
      BY IdleIsACommand, Zenon DEF Commands
    <2> QED
      BY <1>1, <2>1
  <1>6. /\ DOMAIN jobs' = DOMAIN jobs
        /\ jobs'[i].id = jobs[i].id /\ jobs'[i].nleft = jobs[i].nleft
        /\ \A k \in DOMAIN jobs : k # i => jobs'[k] = jobs[k]
    BY <1>1, <1>2 DEF JobRecords
  <1>7. pc \notin Waiting /\ pc' \in Waiting
    BY <1>1 DEF Waiting
  <1>8. \A k \in DOMAIN jobs : Len(jobs[k].pids) = 1 =>
           Exact(jobs[k], st, event) /\ Exact(jobs[k], st', event')
    BY <1>3, <1>7, FirstPid, ExactKept DEF TruthInv, TableTells, Resumed
  <1>9. TableTells'
    BY <1>5, <1>6, <1>7, <1>8 DEF TableTells, Resumed
  <1>10. WaitTells'
    <2>1. \A k \in DOMAIN jobs' : Resumed(jobs[k])' => k = i
      BY <1>2, <1>5, <1>6 DEF Resumed
    <2>2. Len(jobs[i].pids) = 1 /\ jobs[i].nleft = 0 => st'[jobs[i].pids[1]] = "gone"
      BY <1>8 DEF Exact
    <2> QED
      BY <1>1, <1>5, <1>6, <2>1, <2>2 DEF WaitTells
  <1>11. Unreported'
    BY <1>1 DEF Unreported
  <1> QED
    BY <1>4, <1>9, <1>10, <1>11 DEF TruthInv

\* a stopped job of one process is not over, and runs after SIGCONT
LEMMA BgTells ==
    ASSUME JobInv, TruthInv, NEW i \in DOMAIN jobs, Bg(i)
    PROVE  TruthInv'
  <1>1. /\ pc = "read" /\ pc' \in Between /\ ContGroup(jobs[i].pgid)
        /\ jobs[i].state = "STOPPED"
        /\ jobs' = [jobs EXCEPT ![i].state = "RUNNING"] /\ cmd' = cmd
    BY DEF Bg, AfterCommand, Between
  <1>2. /\ jobs \in Seq(JobRecords) /\ jobs[i] \in JobRecords /\ jobs[i].pgid \in Pids
        /\ Accounted(jobs[i], st, pgrp)
    BY JobFields DEF JobInv, ShellTypes
  <1>3. /\ \A p \in Pids : Stirs(p)
        /\ \A p \in Pids : pgrp[p] = jobs[i].pgid => st'[p] # "stopped"
    BY <1>1, <1>2, ContStirs DEF JobInv
  <1>4. EventsFresh'
    BY <1>3, FreshKept DEF JobInv, TruthInv
  <1>5. pc \notin Waiting /\ pc \in Between
    BY <1>1 DEF Waiting, Between
  <1>6. \A k \in DOMAIN jobs : Len(jobs[k].pids) = 1 =>
           Exact(jobs[k], st, event) /\ Exact(jobs[k], st', event')
    BY <1>3, <1>5, FirstPid, ExactKept DEF TruthInv, TableTells, Resumed
  <1>7. /\ DOMAIN jobs' = DOMAIN jobs
        /\ \A k \in DOMAIN jobs : k # i => jobs'[k] = jobs[k]
        /\ jobs'[i].pids = jobs[i].pids /\ jobs'[i].nleft = jobs[i].nleft
        /\ jobs'[i].state = "RUNNING"
    BY <1>1, <1>2 DEF JobRecords
  <1>8. Len(jobs[i].pids) = 1 => Exact(jobs'[i], st', event')
    <2> SUFFICES ASSUME Len(jobs[i].pids) = 1 PROVE Exact(jobs'[i], st', event')
      OBVIOUS
    <2> DEFINE p == jobs[i].pids[1]
    <2>1. p \in Pids /\ pgrp[p] = jobs[i].pgid
      BY <1>2, FirstPid DEF Accounted, Pipeline
    <2>2. st'[p] # "stopped"
      BY <1>3, <2>1
    <2>3. jobs'[i].nleft = 0 <=> st'[p] = "gone"
      BY <1>6, <1>7 DEF Exact
    <2>4. Exact(jobs'[i], st', event')
      <3>1. jobs'[i].pids[1] = p
        BY <1>7
      <3> HIDE DEF p
      <3> QED
        BY <1>7, <2>2, <2>3, <3>1 DEF Exact, Shown
    <2> QED
      BY <2>4
  <1>9. \A k \in DOMAIN jobs' : Len(jobs'[k].pids) = 1 => Exact(jobs'[k], st', event')
    BY <1>6, <1>7, <1>8
  <1>10. cmd' = Idle
    BY <1>1, <1>5 DEF JobInv, CommandInv
  <1> QED
    BY <1>1, <1>4, <1>9, <1>10, AtPromptTells

LEMMA HandoffTells ==
    ASSUME JobInv, TruthInv, Handoff
    PROVE  TruthInv'
  <1>1. /\ pc = "handoff" /\ pc' = "wait" /\ stopped' = FALSE
        /\ UNCHANGED <<st, event, jobs, cmd>>
    BY DEF Handoff
  <1>2. EventsFresh' /\ Unreported'
    BY <1>1 DEF TruthInv, EventsFresh, Unreported
  <1>3. TableTells' /\ WaitTells'
    BY <1>1 DEF TruthInv, TableTells, WaitTells, Resumed, Waiting
  <1> QED
    BY <1>2, <1>3 DEF TruthInv

\* the jobs beside the one the shell waits for
LEMMA OthersAside ==
    ASSUME JobInv, pc \in Waiting
    PROVE  \A k \in DOMAIN jobs : ~Resumed(jobs[k]) =>
              \A l \in DOMAIN cmd.pids : jobs[k].pids[1] # cmd.pids[l]
  <1> SUFFICES ASSUME NEW k \in DOMAIN jobs, ~Resumed(jobs[k])
               PROVE  \A l \in DOMAIN cmd.pids : jobs[k].pids[1] # cmd.pids[l]
    OBVIOUS
  <1>1. CASE cmd.job = 0
    BY <1>1, FirstPid DEF JobInv, CommandInv, Apart
  <1>2. CASE cmd.job # 0
    <2>1. PICK i \in DOMAIN jobs : jobs[i].id = cmd.job /\ jobs[i].pids = cmd.pids
      BY <1>2 DEF JobInv, CommandInv
    <2>2. k # i
      BY <2>1 DEF Resumed
    <2>3. Apart(jobs[k].pids, cmd.pids)
      BY <2>1, <2>2 DEF JobInv, Sound
    <2> QED
      BY <2>3, FirstPid DEF Apart
  <1> QED
    BY <1>1, <1>2

LEMMA WaitReportsTells ==
    ASSUME JobInv, TruthInv, WaitReports
    PROVE  TruthInv'
  <1> DEFINE p == cmd.pids[at]
  <1>1. /\ pc = "wait" /\ at <= Len(cmd.pids) /\ (HasEnded(p) \/ HasStopped(p))
        /\ Collect(p) /\ stopped' = (stopped \/ HasStopped(p)) /\ at' = at + 1
        /\ UNCHANGED <<jobs, pc, cmd>>
    BY DEF WaitReports
  <1>2. /\ Len(cmd.pids) \in Nat /\ DOMAIN cmd.pids = 1 .. Len(cmd.pids)
        /\ at \in 1 .. Len(cmd.pids) /\ p \in Pids
    BY <1>1, WaitedPid
  <1>3. /\ \A q \in Pids : q # p => st'[q] = st[q] /\ event'[q] = event[q]
        /\ st'[p] = (IF st[p] = "zombie" THEN "gone" ELSE st[p]) /\ event'[p] = "none"
    BY <1>1, <1>2, CollectTells DEF JobInv
  <1>4. EventsFresh'
    BY <1>1, <1>2, FreshKept DEF JobInv, TruthInv
  <1>5. Unreported'
    BY <1>1 DEF Unreported
  <1>6. TableTells'
    <2> SUFFICES ASSUME NEW k \in DOMAIN jobs, Len(jobs[k].pids) = 1, ~Resumed(jobs[k])
                 PROVE  Exact(jobs[k], st', event')
      BY <1>1 DEF TableTells, Resumed
    <2>1. pc \in Waiting
      BY <1>1 DEF Waiting
    <2>2. jobs[k].pids[1] # p /\ jobs[k].pids[1] \in Pids
      BY <1>2, <2>1, OthersAside, FirstPid
    <2>3. Exact(jobs[k], st, event)
      BY DEF TruthInv, TableTells
    <2> QED
      BY <1>3, <2>2, <2>3 DEF Exact, Shown
  <1>7. WaitTells'
    <2> SUFFICES ASSUME Len(cmd.pids) = 1
                 PROVE  /\ at' = 1 => ~stopped'
                        /\ stopped' => Shown("STOPPED", p, st', event')
                        /\ \A i \in DOMAIN jobs :
                              Resumed(jobs[i]) /\ jobs[i].nleft = 0 => st'[p] = "gone"
      <3>1. Len(cmd.pids) = 1 => p = cmd.pids[1]
        BY <1>2
      <3> HIDE DEF p
      <3> QED
        BY <1>1, <3>1 DEF WaitTells, Resumed
    <2>1. at = 1 /\ p = cmd.pids[1] /\ at' # 1
      BY <1>1, <1>2
    <2>2. ~stopped
      BY <1>1, <2>1 DEF TruthInv, WaitTells
    <2>3. stopped' => Shown("STOPPED", p, st', event')
      BY <1>1, <1>3, <2>2 DEF HasStopped, Shown
    <2>4. \A i \in DOMAIN jobs : Resumed(jobs[i]) /\ jobs[i].nleft = 0 => st[p] = "gone"
      BY <2>1 DEF TruthInv, WaitTells
    <2> QED
      BY <1>3, <2>1, <2>3, <2>4
  <1> QED
    BY <1>4, <1>5, <1>6, <1>7 DEF TruthInv

LEMMA WaitSkipsTells ==
    ASSUME JobInv, TruthInv, WaitSkips
    PROVE  TruthInv'
  <1>1. /\ pc = "wait" /\ at <= Len(cmd.pids) /\ at' = at + 1
        /\ UNCHANGED <<st, event, jobs, pc, cmd, stopped>>
    BY DEF WaitSkips, kvars
  <1>2. at \in 1 .. Len(cmd.pids) /\ Len(cmd.pids) \in Nat
    BY <1>1, WaitedPid
  <1>3. at' # 1
    BY <1>1, <1>2
  <1>4. EventsFresh' /\ Unreported' /\ TableTells'
    BY <1>1 DEF TruthInv, EventsFresh, Unreported, TableTells, Resumed
  <1>5. WaitTells'
    BY <1>1, <1>3 DEF TruthInv, WaitTells, Resumed
  <1> QED
    BY <1>4, <1>5 DEF TruthInv

LEMMA WaitEndsTells ==
    ASSUME JobInv, TruthInv, WaitEnds
    PROVE  TruthInv'
  <1>1. /\ pc = "wait" /\ pc' = "takeback" /\ UNCHANGED <<st, event, jobs, cmd, stopped>>
    BY DEF WaitEnds, kvars
  <1>2. EventsFresh' /\ Unreported'
    BY <1>1 DEF TruthInv, EventsFresh, Unreported
  <1>3. TableTells' /\ WaitTells'
    BY <1>1 DEF TruthInv, TableTells, WaitTells, Resumed, Waiting
  <1> QED
    BY <1>2, <1>3 DEF TruthInv

LEMMA TakeBackTells ==
    ASSUME JobInv, TruthInv, TakeBack
    PROVE  TruthInv'
  <1>1. /\ pc = "takeback" /\ cmd' = Idle /\ pc' \in Between /\ UNCHANGED <<st, event>>
        /\ jobs' = IF cmd.job = 0 THEN Filed ELSE Settled
    BY DEF TakeBack, AfterCommand, Between
  <1>2. EventsFresh' /\ pc \in Waiting
    BY <1>1 DEF TruthInv, EventsFresh, Waiting
  <1>3. /\ cmd.pids # <<>> /\ jobs \in Seq(JobRecords)
        /\ ~stopped /\ Len(cmd.pids) = 1 => st[cmd.pids[1]] = "gone"
        /\ stopped /\ Len(cmd.pids) = 1 =>
              st[cmd.pids[1]] # "gone" /\ Shown("STOPPED", cmd.pids[1], st, event)
    <2>1. ~stopped /\ Len(cmd.pids) = 1 => st[cmd.pids[1]] = "gone"
      BY <1>1, FirstPid DEF JobInv, WaitInv, AllGone
    <2>2. stopped /\ Len(cmd.pids) = 1 => Shown("STOPPED", cmd.pids[1], st, event)
      BY <1>1 DEF TruthInv, WaitTells
    <2> QED
      BY <1>2, <2>1, <2>2 DEF JobInv, ShellTypes, CommandInv, Shown
  <1>4. CASE cmd.job = 0
    <2>1. \A i \in DOMAIN jobs : Len(jobs[i].pids) = 1 => Exact(jobs[i], st, event)
      BY <1>4, JobFields DEF TruthInv, TableTells, Resumed, Names
    <2>2. CASE stopped
      <3>1. jobs' = JobsAdd(jobs, cmd.pids, "STOPPED") /\ "STOPPED" \in JobStates
        BY <1>1, <1>4, <2>2 DEF Filed, JobStates
      <3>2. \A k \in DOMAIN jobs' : Len(jobs'[k].pids) = 1 => Exact(jobs'[k], st, event)
        BY <1>3, <2>1, <2>2, <3>1, AddedTells
      <3> QED
        BY <1>1, <1>2, <3>2, AtPromptTells
    <2>3. CASE ~stopped
      <3>1. jobs' = jobs
        BY <1>1, <1>4, <2>3 DEF Filed
      <3> QED
        BY <1>1, <1>2, <2>1, <3>1, AtPromptTells
    <2> QED
      BY <2>2, <2>3
  <1>5. CASE cmd.job # 0
    <2> DEFINE i == JobIndex(cmd.job)
    <2>1. i \in DOMAIN jobs /\ jobs[i].id = cmd.job /\ jobs[i].pids = cmd.pids
      BY <1>5, JobIndexFinds
    <2>2. jobs[i] \in JobRecords
      BY <1>3, <2>1
    <2>3. \A k \in DOMAIN jobs : k # i => ~Resumed(jobs[k])
      BY <2>1 DEF JobInv, Sound, Resumed
    <2>4. \A k \in DOMAIN jobs : k # i /\ Len(jobs[k].pids) = 1 => Exact(jobs[k], st, event)
      BY <2>3 DEF TruthInv, TableTells
    <2>5. CASE stopped
      <3>1. jobs' = [jobs EXCEPT ![i].state = "STOPPED"]
        BY <1>1, <1>5, <2>5 DEF Settled
      <3> HIDE DEF i
      <3>2. /\ DOMAIN jobs' = DOMAIN jobs
            /\ \A k \in DOMAIN jobs : k # i => jobs'[k] = jobs[k]
            /\ jobs'[i].pids = jobs[i].pids /\ jobs'[i].nleft = jobs[i].nleft
            /\ jobs'[i].state = "STOPPED"
        BY <1>3, <2>1, <2>2, <3>1 DEF JobRecords
      <3>3. Len(cmd.pids) = 1 => jobs[i].nleft # 0
        BY <1>2, <1>3, <2>1, <2>5 DEF TruthInv, WaitTells, Resumed
      <3>4. Len(jobs'[i].pids) = 1 => Exact(jobs'[i], st, event)
        BY <1>3, <2>1, <2>5, <3>2, <3>3 DEF Exact
      <3>5. \A k \in DOMAIN jobs' : Len(jobs'[k].pids) = 1 => Exact(jobs'[k], st, event)
        BY <2>4, <3>2, <3>4
      <3> QED
        BY <1>1, <1>2, <3>5, AtPromptTells
    <2>6. CASE ~stopped
      <3> DEFINE job == [jobs[i] EXCEPT !.state = "DONE", !.nleft = 0]
      <3>1. jobs' = [jobs EXCEPT ![i] = [@ EXCEPT !.state = "DONE", !.nleft = 0]]
        BY <1>1, <1>5, <2>6 DEF Settled
      <3> HIDE DEF i
      <3>2. jobs' = [jobs EXCEPT ![i] = job]
        BY <3>1, Zenon
      <3>3. job.pids = jobs[i].pids /\ job.nleft = 0 /\ job.state = "DONE"
        BY <2>2, Zenon DEF JobRecords
      <3> HIDE DEF job
      <3>4. /\ DOMAIN jobs' = DOMAIN jobs /\ jobs'[i] = job
            /\ \A k \in DOMAIN jobs : k # i => jobs'[k] = jobs[k]
        BY <1>3, <2>1, <3>2
      <3>5. Len(job.pids) = 1 => Exact(job, st, event)
        BY <1>3, <2>1, <2>6, <3>3 DEF Exact, Shown
      <3>6. \A k \in DOMAIN jobs' : Len(jobs'[k].pids) = 1 => Exact(jobs'[k], st, event)
        BY <2>4, <3>4, <3>5
      <3> QED
        BY <1>1, <1>2, <3>6, AtPromptTells
    <2> QED
      BY <2>5, <2>6
  <1> QED
    BY <1>4, <1>5

LEMMA QuitTells ==
    ASSUME JobInv, TruthInv, Quit
    PROVE  TruthInv'
  <1>1. pc' \in Between /\ jobs' = <<>> /\ UNCHANGED <<st, event>> /\ cmd' = Idle
    BY DEF Quit, kvars, Between, JobInv, CommandInv
  <1>2. EventsFresh' /\ DOMAIN <<>> = {}
    BY <1>1 DEF TruthInv, EventsFresh
  <1> QED
    BY <1>1, <1>2, AtPromptTells

LEMMA StepTruth == JobInv /\ TruthInv /\ [Next]_vars => TruthInv'
  <1> SUFFICES ASSUME JobInv, TruthInv, [Next]_vars PROVE TruthInv'
    OBVIOUS
  <1>1. CASE Prompt
    <2>1. ASSUME TakeRead \/ TakeClear \/ ReapEnds \/ NotifyEnds PROVE TruthInv'
      BY <2>1, QuietTells DEF TakeRead, TakeClear, ReapEnds, NotifyEnds, kvars, Between
    <2> QED
      BY <1>1, <2>1, ReapOneTells, NotifyOneTells DEF Prompt
  <1>2. CASE Foreground
    BY <1>2, ForkStageTells, ForkFailsTells, LaunchedTells, HandoffTells, WaitReportsTells,
       WaitSkipsTells, WaitEndsTells, TakeBackTells DEF Foreground
  <1>3. CASE User
    <2>1. ASSUME EmptyLine PROVE TruthInv'
      BY <2>1, QuietTells DEF EmptyLine, kvars, Between
    <2> QED
      BY <1>3, <2>1, StartPipelineTells, FgTells, BgTells, QuitTells DEF User, FgCommand, BgCommand
  <1>4. CASE System
    BY <1>4, SystemTells
  <1>5. CASE UNCHANGED vars
    <2>1. EventsFresh' /\ Unreported' /\ TableTells' /\ WaitTells'
      BY <1>5 DEF vars, TruthInv, EventsFresh, Unreported, TableTells, WaitTells, Resumed
    <2> QED
      BY <2>1 DEF TruthInv
  <1>6. CASE Exited
    BY <1>5, <1>6 DEF Exited
  <1> QED
    BY <1>1, <1>2, <1>3, <1>4, <1>5, <1>6 DEF Next

LEMMA InvTells == JobInv /\ TruthInv => JobsTellTheTruth
  <1> SUFFICES ASSUME JobInv, TruthInv PROVE JobsTellTheTruth
    OBVIOUS
  <1>1. DoneMeansGone
    BY DEF JobInv, Sound, Accounted, Alive, DoneMeansGone, AllGone
  <1>2. ASSUME pc = "read", NEW i \in DOMAIN jobs, Len(jobs[i].pids) = 1
        PROVE  Exact(jobs[i], st, event)
    BY <1>2 DEF TruthInv, TableTells, Resumed, Waiting
  <1>3. StateTracksProcess
    <2> SUFFICES ASSUME pc = "read", NEW i \in DOMAIN jobs, Len(jobs[i].pids) = 1,
                        jobs[i].pids[1] \notin Pending
                 PROVE  (jobs[i].state = "STOPPED") = (st[jobs[i].pids[1]] = "stopped")
      BY DEF StateTracksProcess
    <2> DEFINE p == jobs[i].pids[1]
    <2>1. p \in Pids /\ st[p] # "none" /\ st[p] \in ProcStates
          /\ event[p] \in {"none", "stopped", "continued"}
      <3>1. p \in Pids /\ st[p] # "none"
        BY FirstPid DEF JobInv, Sound, Accounted, Pipeline
      <3> QED
        BY <3>1 DEF JobInv, ShellTypes, Lives, Events
    <2>2. Shown(jobs[i].state, p, st, event)
      BY <1>2 DEF Exact
    <2>3. /\ st[p] # "zombie" /\ (st[p] = "stopped" => event[p] = "none")
          /\ (st[p] = "running" => event[p] = "none")
      BY <2>1 DEF Pending, HasEnded, HasStopped, HasContinued, TruthInv, EventsFresh
    <2> QED
      BY <2>1, <2>2, <2>3 DEF Shown, ProcStates
  <1>4. NleftExact
    <2> SUFFICES ASSUME pc = "read", NEW i \in DOMAIN jobs, Len(jobs[i].pids) = 1
                 PROVE  jobs[i].nleft =
                           Cardinality({k \in DOMAIN jobs[i].pids : Child(jobs[i].pids[k])})
      BY DEF NleftExact
    <2> DEFINE p == jobs[i].pids[1]
               left == {k \in DOMAIN jobs[i].pids : Child(jobs[i].pids[k])}
    <2>1. /\ jobs[i] \in JobRecords /\ jobs[i].nleft <= 1 /\ st[p] # "none"
      BY JobFields, FirstPid DEF Accounted, Pipeline
    <2>2. DOMAIN jobs[i].pids = {1}
      BY <2>1 DEF JobRecords
    <2>3. jobs[i].nleft = 0 <=> st[p] = "gone"
      BY <1>2 DEF Exact
    <2>4. left = IF st[p] = "gone" THEN {} ELSE {1}
      BY <2>1, <2>2 DEF Child
    <2>5. Cardinality(left) = IF st[p] = "gone" THEN 0 ELSE 1
      BY <2>4, FS_EmptySet, FS_Singleton
    <2>6. jobs[i].nleft = 0 \/ jobs[i].nleft = 1
      BY <2>1 DEF JobRecords
    <2> QED
      BY <2>3, <2>5, <2>6
  <1> QED
    BY <1>1, <1>3, <1>4 DEF JobsTellTheTruth

(* JobsTellTheTruth for any number of processes: a job is announced only   *)
(* after its last process is collected, and a job of one process is listed *)
(* in the state it is in once the events are drained, across every order   *)
(* of stops, continues, ends, fg and bg (jobs_update, exec_wait_foreground, *)
(* bi_fg, bi_bg).                                                          *)
THEOREM TableIsTrue == Spec => []JobsTellTheTruth
  <1>1. Spec => [](JobInv /\ TruthInv)
    BY InitInv, StepInv, InitTruth, StepTruth, PTL DEF Spec
  <1> QED
    BY <1>1, InvTells, PTL
=============================================================================
