---------------------------- MODULE PromptProofs ----------------------------
(***************************************************************************)
(* The prompt for every history size, line length, keyboard and history    *)
(* file: cursor, recall and ring stay in bounds whatever bytes arrive, and *)
(* on a terminal the decoder understands the editor, the ring and the file *)
(* implement the contract of the manual.                                   *)
(***************************************************************************)
EXTENDS Prompt, TLAPS, SequenceTheorems, WellFoundedInduction

Line == Seq(Text)

EditLines == {l \in [buf : Line, cursor : Nat] : l.cursor <= Len(l.buf)}

Rings == [slots : [0 .. Cap - 1 -> Line], len : 0 .. Cap, start : 0 .. Cap - 1]

Ring(h) == h \in Rings /\ RingTypeOK(h)

Decoders ==
    {k \in [state : KeyStates, pending : Seq(Digits)] : Len(k.pending) <= PendingMax}

Recalls == {r \in [count : Nat, idx : Nat, stash : Line] : r.idx <= r.count}

-----------------------------------------------------------------------------
(* Least members, and functions defined along a sequence.                  *)

(* A set of naturals has a least member.                                   *)
LEMMA LeastMember ==
    ASSUME NEW S \in SUBSET Nat, S # {}
    PROVE  \E m \in S : \A k \in S : m <= k
  <1>1. \E m \in S : \A k \in S : ~(<<k, m>> \in OpToRel(<, Nat))
    BY NatLessThanWellFounded, WFMin
  <1>2. \A k, m \in Nat : k < m => <<k, m>> \in OpToRel(<, Nat)
    BY DEF OpToRel
  <1>3. PICK m \in S : \A k \in S : ~(<<k, m>> \in OpToRel(<, Nat))
    BY <1>1
  <1>4. \A k \in S : ~(k < m)
    BY <1>2, <1>3
  <1> QED
    BY <1>4

(* A machine that takes the members of a sequence one by one has a run.    *)
IsRun(g, S, F, x, a) ==
    /\ g \in [0 .. Len(a) -> S]
    /\ g[0] = x
    /\ \A i \in 1 .. Len(a) : g[i] = F[g[i - 1]][a[i]]

LEMMA RunExists ==
    ASSUME NEW S, NEW A, NEW F, F \in [S -> [A -> S]], NEW x, x \in S, NEW a, a \in Seq(A)
    PROVE  \E g : IsRun(g, S, F, x, a)
  <1> DEFINE Runs(n) == {g \in [0 .. n -> S] :
                           g[0] = x /\ \A i \in 1 .. n : g[i] = F[g[i - 1]][a[i]]}
             Stuck == {n \in 0 .. Len(a) : Runs(n) = {}}
  <1>1. SUFFICES ASSUME Stuck # {} PROVE FALSE
    <2>1. Len(a) \in 0 .. Len(a)
      OBVIOUS
    <2>2. Stuck = {} => Runs(Len(a)) # {}
      BY <2>1
    <2> QED
      BY <2>2 DEF IsRun
  <1>2. PICK n \in Stuck : \A k \in Stuck : n <= k
    <2>1. Stuck \in SUBSET Nat
      OBVIOUS
    <2> QED
      BY <1>1, <2>1, LeastMember
  <1>3. CASE n = 0
    <2>1. [i \in 0 .. 0 |-> x] \in Runs(0)
      OBVIOUS
    <2> QED
      BY <1>3, <2>1
  <1>4. CASE n # 0
    <2>1. n - 1 \in 0 .. Len(a) /\ n \in 1 .. Len(a)
      BY <1>4
    <2>2. PICK g : g \in Runs(n - 1)
      <3>1. n \in Nat
        BY <2>1
      <3>2. n - 1 \notin Stuck
        <4>1. ~(n <= n - 1)
          BY <3>1
        <4> HIDE DEF Stuck
        <4> QED
          BY <1>2, <4>1
      <3> QED
        BY <2>1, <3>2
    <2>3. a[n] \in A /\ g[n - 1] \in S
      BY <2>1, <2>2
    <2>4. F[g[n - 1]][a[n]] \in S
      BY <2>3
    <2> DEFINE h == [i \in 0 .. n |-> IF i = n THEN F[g[n - 1]][a[n]] ELSE g[i]]
    <2>5. h \in [0 .. n -> S]
      BY <2>1, <2>2, <2>4
    <2>6. h[0] = x
      BY <2>1, <2>2
    <2>7. \A i \in 1 .. n : h[i] = F[h[i - 1]][a[i]]
      <3> TAKE i \in 1 .. n
      <3>1. CASE i = n
        <4>1. h[i] = F[g[n - 1]][a[n]] /\ h[i - 1] = g[n - 1]
          BY <2>1, <3>1
        <4> QED
          BY <3>1, <4>1
      <3>2. CASE i # n
        <4>1. h[i] = g[i] /\ h[i - 1] = g[i - 1] /\ i \in 1 .. n - 1
          BY <2>1, <3>2
        <4> QED
          BY <2>2, <4>1
      <3> QED
        BY <3>1, <3>2
    <2>8. h \in Runs(n)
      BY <2>5, <2>6, <2>7
    <2> QED
      BY <2>8
  <1> QED
    BY <1>3, <1>4

-----------------------------------------------------------------------------
(* The ring.                                                               *)

(* Where an entry is: the sum wraps at most once.                          *)
LEMMA SlotAt ==
    ASSUME NEW s \in 0 .. Cap - 1, NEW i \in 0 .. Cap
    PROVE  (s + i) % Cap = IF s + i < Cap THEN s + i ELSE s + i - Cap
  BY CapAssumption

LEMMA SlotBounds ==
    ASSUME NEW h \in Rings, NEW i \in 0 .. Cap
    PROVE  /\ SlotOf(h, i) \in 0 .. Cap - 1
           /\ SlotOf(h, i) = IF h.start + i < Cap THEN h.start + i ELSE h.start + i - Cap
  <1>1. h.start \in 0 .. Cap - 1
    BY DEF Rings
  <1>2. PICK s \in 0 .. Cap - 1 : s = h.start
    BY <1>1
  <1>3. SlotOf(h, i) = IF s + i < Cap THEN s + i ELSE s + i - Cap
    BY <1>2, SlotAt DEF SlotOf
  <1>4. SlotOf(h, i) \in 0 .. Cap - 1
    BY <1>3, CapAssumption
  <1> QED
    BY <1>2, <1>3, <1>4

(* Two entries are never in one slot.                                      *)
LEMMA SlotsApart ==
    ASSUME NEW h \in Rings, NEW i \in 0 .. Cap - 1, NEW j \in 0 .. Cap - 1, i # j
    PROVE  SlotOf(h, i) # SlotOf(h, j)
  <1>1. h.start \in 0 .. Cap - 1
    BY DEF Rings
  <1> QED
    BY <1>1, SlotBounds, CapAssumption

LEMMA EntriesAre ==
    ASSUME NEW h, Ring(h)
    PROVE  /\ Entries(h) \in Seq(Line)
           /\ Len(Entries(h)) = h.len
           /\ \A i \in 1 .. h.len :
                 /\ Entries(h)[i] = h.slots[SlotOf(h, i - 1)]
                 /\ HistoryGet(h, i - 1) = Entries(h)[i]
                 /\ Entries(h)[i] \in Line \ {<<>>}
  <1>1. h \in Rings /\ RingTypeOK(h) /\ h.len \in 0 .. Cap
    BY DEF Ring, Rings
  <1>2. ASSUME NEW i \in 1 .. h.len
        PROVE  /\ Entries(h)[i] = h.slots[SlotOf(h, i - 1)]
               /\ HistoryGet(h, i - 1) = Entries(h)[i]
               /\ Entries(h)[i] \in Line \ {<<>>}
    <2>1. i - 1 \in 0 .. h.len - 1 /\ i - 1 \in 0 .. Cap /\ ~(i - 1 >= h.len)
      BY <1>1, CapAssumption
    <2>2. Entries(h)[i] = HistoryGet(h, i - 1)
      BY DEF Entries
    <2>3. HistoryGet(h, i - 1) = h.slots[SlotOf(h, i - 1)]
      BY <2>1 DEF HistoryGet
    <2>4. SlotOf(h, i - 1) \in 0 .. Cap - 1
      BY <1>1, <2>1, SlotBounds
    <2>5. h.slots[SlotOf(h, i - 1)] # NoLine
      BY <1>1, <2>1, <2>4 DEF RingTypeOK
    <2>6. h.slots[SlotOf(h, i - 1)] \in Line
      BY <1>1, <2>4 DEF Rings
    <2> QED
      BY <2>2, <2>3, <2>5, <2>6 DEF NoLine
  <1>3. Entries(h) \in [1 .. h.len -> Line]
    <2>1. Entries(h) = [i \in 1 .. h.len |-> HistoryGet(h, i - 1)]
      BY DEF Entries
    <2>2. \A i \in 1 .. h.len : HistoryGet(h, i - 1) \in Line
      BY <1>2
    <2> QED
      BY <2>1, <2>2
  <1>4. h.len \in Nat
    BY <1>1, CapAssumption
  <1> HIDE DEF Line
  <1>5. Entries(h) \in Seq(Line) /\ Len(Entries(h)) = h.len
    BY <1>3, <1>4
  <1> QED
    BY <1>2, <1>5

(* The empty ring.                                                         *)
LEMMA RingStarts == Ring(RingInit) /\ Entries(RingInit) = <<>>
  <1>1. RingInit \in Rings
    BY CapAssumption DEF RingInit, Rings, NoLine, Line
  <1>2. RingTypeOK(RingInit)
    <2>1. RingInit.len = 0 /\ RingInit.start = 0
      BY DEF RingInit
    <2>2. \A s \in 0 .. Cap - 1 : RingInit.slots[s] = NoLine
      BY DEF RingInit
    <2>3. \A i \in 0 .. RingInit.len - 1 : FALSE
      BY <2>1
    <2> QED
      BY <2>1, <2>2, <2>3, CapAssumption DEF RingTypeOK
  <1>3. Entries(RingInit) = <<>>
    <2>1. RingInit.len = 0
      BY DEF RingInit
    <2>2. Len(Entries(RingInit)) = 0 /\ Entries(RingInit) \in Seq(Line)
      BY <1>1, <1>2, <2>1, EntriesAre DEF Ring
    <2> QED
      BY <2>2
  <1> QED
    BY <1>1, <1>2, <1>3 DEF Ring

(* A line put into the next free slot is the newest entry.                 *)
LEMMA PlacedIs ==
    ASSUME NEW h, Ring(h), h.len < Cap, NEW line \in Line \ {<<>>}
    PROVE  Ring(Placed(h, line)) /\ Entries(Placed(h, line)) = Append(Entries(h), line)
  <1> DEFINE g == Placed(h, line)
             at == SlotOf(h, h.len)
  <1>1. h \in Rings /\ RingTypeOK(h) /\ h.len \in 0 .. Cap - 1
    <2>1. h \in Rings /\ RingTypeOK(h) /\ h.len \in 0 .. Cap
      BY DEF Ring, Rings
    <2> QED
      BY <2>1, CapAssumption
  <1>2. at \in 0 .. Cap - 1
    <2>1. h.len \in 0 .. Cap
      BY <1>1, CapAssumption
    <2> QED
      BY <1>1, <2>1, SlotBounds
  <1>3. /\ h.slots \in [0 .. Cap - 1 -> Line] /\ h.start \in 0 .. Cap - 1
        /\ h = [slots |-> h.slots, len |-> h.len, start |-> h.start]
    BY <1>1 DEF Rings
  <1>4. /\ g.slots = [h.slots EXCEPT ![at] = line]
        /\ g.len = h.len + 1 /\ g.start = h.start
        /\ g = [slots |-> g.slots, len |-> g.len, start |-> g.start]
    BY DEF Placed
  <1> HIDE DEF g
  <1>5. g \in Rings
    <2>1. g.slots \in [0 .. Cap - 1 -> Line]
      BY <1>2, <1>3, <1>4
    <2>2. g.len \in 0 .. Cap
      BY <1>1, <1>4, CapAssumption
    <2> QED
      BY <1>3, <1>4, <2>1, <2>2 DEF Rings
  <1>6. \A i : SlotOf(g, i) = SlotOf(h, i)
    BY <1>4 DEF SlotOf
  <1>7. \A i \in 0 .. h.len - 1 : SlotOf(h, i) # at
    <2> TAKE i \in 0 .. h.len - 1
    <2>1. i \in 0 .. Cap - 1 /\ h.len \in 0 .. Cap - 1 /\ i # h.len
      BY <1>1, CapAssumption
    <2> QED
      BY <1>1, <2>1, SlotsApart
  <1> HIDE DEF at
  <1>8. /\ g.slots[at] = line
        /\ \A s \in 0 .. Cap - 1 : s # at => g.slots[s] = h.slots[s]
    BY <1>2, <1>3, <1>4
  <1>9. RingTypeOK(g)
    <2>1. ASSUME NEW s \in 0 .. Cap - 1
          PROVE  g.slots[s] # NoLine <=> (\E i \in 0 .. g.len - 1 : s = SlotOf(g, i))
      <3>1. h.len \in 0 .. g.len - 1 /\ \A i : i \in 0 .. g.len - 1 <=> i \in 0 .. h.len - 1 \/ i = h.len
        BY <1>1, <1>4, CapAssumption
      <3>2. CASE s = at
        <4>1. s = SlotOf(g, h.len)
          BY <1>6, <3>2 DEF at
        <4> QED
          BY <1>8, <3>1, <3>2, <4>1 DEF NoLine
      <3>3. CASE s # at
        <4>1. g.slots[s] # NoLine <=> (\E i \in 0 .. h.len - 1 : s = SlotOf(h, i))
          BY <1>1, <1>8, <3>3 DEF RingTypeOK
        <4>2. s # SlotOf(h, h.len)
          BY <3>3 DEF at
        <4> QED
          BY <1>6, <3>1, <4>1, <4>2
      <3> QED
        BY <3>2, <3>3
    <2>2. g.len \in 0 .. Cap /\ g.start \in 0 .. Cap - 1
      BY <1>5 DEF Rings
    <2> QED
      BY <2>1, <2>2 DEF RingTypeOK
  <1>10. Ring(g)
    BY <1>5, <1>9 DEF Ring
  <1>11. Entries(g) = Append(Entries(h), line)
    <2>1. /\ Entries(h) \in Seq(Line) /\ Len(Entries(h)) = h.len
          /\ Entries(g) \in Seq(Line) /\ Len(Entries(g)) = h.len + 1
      BY <1>4, <1>10, EntriesAre
    <2>2. ASSUME NEW i \in 1 .. h.len + 1
          PROVE  Entries(g)[i] = Append(Entries(h), line)[i]
      <3>1. Entries(g)[i] = g.slots[SlotOf(h, i - 1)]
        <4>1. Entries(g)[i] = g.slots[SlotOf(g, i - 1)]
          BY <1>4, <1>10, EntriesAre
        <4> QED
          BY <1>6, <4>1, Zenon
      <3>2. CASE i = h.len + 1
        <4>1. i - 1 = h.len /\ Append(Entries(h), line)[i] = line
          BY <1>1, <2>1, <3>2, CapAssumption
        <4> QED
          BY <1>8, <3>1, <4>1 DEF at
      <3>3. CASE i # h.len + 1
        <4>1. i \in 1 .. h.len /\ i - 1 \in 0 .. h.len - 1 /\ i - 1 \in 0 .. Cap
          BY <1>1, <3>3, CapAssumption
        <4>2. Append(Entries(h), line)[i] = Entries(h)[i]
          BY <2>1, <4>1
        <4>3. Entries(h)[i] = h.slots[SlotOf(h, i - 1)]
          BY <4>1, EntriesAre
        <4>4. SlotOf(h, i - 1) # at /\ SlotOf(h, i - 1) \in 0 .. Cap - 1
          BY <1>1, <1>7, <4>1, SlotBounds
        <4> QED
          BY <1>8, <3>1, <4>2, <4>3, <4>4
      <3> QED
        BY <3>2, <3>3
    <2>3. Append(Entries(h), line) \in Seq(Line) /\ Len(Append(Entries(h), line)) = h.len + 1
      BY <2>1, AppendProperties
    <2> QED
      BY <2>1, <2>2, <2>3, SeqEqual
  <1> QED
    BY <1>10, <1>11 DEF g

(* An eviction forgets the oldest entry.                                   *)
LEMMA EvictedIs ==
    ASSUME NEW h, Ring(h), h.len = Cap
    PROVE  /\ Ring(Evicted(h)) /\ Evicted(h).len = Cap - 1
           /\ Entries(Evicted(h)) = Tail(Entries(h))
  <1> DEFINE g == Evicted(h)
             at == h.start
  <1>1. h \in Rings /\ RingTypeOK(h) /\ at \in 0 .. Cap - 1
    BY DEF Ring, Rings
  <1>2. /\ h.slots \in [0 .. Cap - 1 -> Line]
        /\ h = [slots |-> h.slots, len |-> h.len, start |-> h.start]
    BY <1>1 DEF Rings
  <1>3. /\ g.slots = [h.slots EXCEPT ![at] = NoLine]
        /\ g.len = Cap - 1 /\ g.start = (at + 1) % Cap
        /\ g = [slots |-> g.slots, len |-> g.len, start |-> g.start]
    BY DEF Evicted
  <1>4. at = SlotOf(h, 0)
    <2>1. 0 \in 0 .. Cap
      BY CapAssumption
    <2> QED
      BY <1>1, <2>1, SlotBounds, CapAssumption
  <1> HIDE DEF g, at
  <1>5. g.start \in 0 .. Cap - 1 /\ g.start = IF at + 1 < Cap THEN at + 1 ELSE at + 1 - Cap
    <2>1. 1 \in 0 .. Cap
      BY CapAssumption
    <2>2. g.start = IF at + 1 < Cap THEN at + 1 ELSE at + 1 - Cap
      BY <1>1, <1>3, <2>1, SlotAt
    <2> QED
      BY <1>1, <2>2, CapAssumption
  <1>6. g \in Rings
    <2>1. g.slots \in [0 .. Cap - 1 -> Line]
      <3>1. NoLine \in Line
        BY DEF NoLine, Line
      <3> QED
        BY <1>1, <1>2, <1>3, <3>1
    <2>2. g.len \in 0 .. Cap
      BY <1>3, CapAssumption
    <2> QED
      BY <1>3, <1>5, <2>1, <2>2 DEF Rings
  <1>7. ASSUME NEW i \in 0 .. Cap - 1
        PROVE  SlotOf(g, i) = SlotOf(h, i + 1) /\ i + 1 \in 0 .. Cap
    <2>1. i \in 0 .. Cap /\ i + 1 \in 0 .. Cap
      BY CapAssumption
    <2>2. SlotOf(g, i) = IF g.start + i < Cap THEN g.start + i ELSE g.start + i - Cap
      BY <1>6, <2>1, SlotBounds
    <2>3. SlotOf(h, i + 1) = IF at + (i + 1) < Cap THEN at + (i + 1) ELSE at + (i + 1) - Cap
      BY <1>1, <2>1, SlotBounds DEF at
    <2>4. CASE at + 1 < Cap
      BY <1>1, <1>5, <2>1, <2>2, <2>3, <2>4, CapAssumption
    <2>5. CASE ~(at + 1 < Cap)
      <3>1. at = Cap - 1 /\ g.start = 0
        BY <1>1, <1>5, <2>5, CapAssumption
      <3> QED
        BY <2>1, <2>2, <2>3, <3>1, CapAssumption
    <2> QED
      BY <2>4, <2>5
  <1>8. /\ g.slots[at] = NoLine
        /\ \A s \in 0 .. Cap - 1 : s # at => g.slots[s] = h.slots[s]
    BY <1>1, <1>2, <1>3
  <1>9. ASSUME NEW i \in 0 .. Cap - 2
        PROVE  SlotOf(g, i) # at /\ SlotOf(g, i) = SlotOf(h, i + 1)
    <2>1. i \in 0 .. Cap - 1 /\ i + 1 \in 0 .. Cap - 1 /\ 0 \in 0 .. Cap - 1 /\ i + 1 # 0
      BY CapAssumption
    <2> QED
      BY <1>1, <1>4, <1>7, <2>1, SlotsApart
  <1>10. RingTypeOK(g)
    <2>1. ASSUME NEW s \in 0 .. Cap - 1
          PROVE  g.slots[s] # NoLine <=> (\E i \in 0 .. g.len - 1 : s = SlotOf(g, i))
      <3>1. \A i : i \in 0 .. g.len - 1 <=> i \in 0 .. Cap - 2
        BY <1>3, CapAssumption
      <3>2. CASE s = at
        BY <1>8, <1>9, <3>1, <3>2
      <3>3. CASE s # at
        <4>1. h.slots[s] # NoLine <=> (\E i \in 0 .. Cap - 1 : s = SlotOf(h, i))
          BY <1>1 DEF RingTypeOK
        <4>2. g.slots[s] = h.slots[s]
          BY <1>8, <3>3
        <4>3. ASSUME NEW i \in 0 .. Cap - 1, s = SlotOf(h, i)
              PROVE  \E j \in 0 .. Cap - 2 : s = SlotOf(g, j)
          <5>1. i # 0
            BY <1>4, <3>3, <4>3
          <5>2. i - 1 \in 0 .. Cap - 2 /\ (i - 1) + 1 = i
            BY <5>1, CapAssumption
          <5>3. SlotOf(g, i - 1) = SlotOf(h, i)
            BY <1>9, <5>2
          <5> QED
            BY <4>3, <5>2, <5>3
        <4>4. ASSUME NEW j \in 0 .. Cap - 2, s = SlotOf(g, j)
              PROVE  \E i \in 0 .. Cap - 1 : s = SlotOf(h, i)
          <5>1. j + 1 \in 0 .. Cap - 1
            BY CapAssumption
          <5> QED
            BY <1>9, <4>4, <5>1
        <4> QED
          BY <3>1, <4>1, <4>2, <4>3, <4>4
      <3> QED
        BY <3>2, <3>3
    <2>2. g.len \in 0 .. Cap /\ g.start \in 0 .. Cap - 1
      BY <1>6 DEF Rings
    <2> QED
      BY <2>1, <2>2 DEF RingTypeOK
  <1>11. Ring(g)
    BY <1>6, <1>10 DEF Ring
  <1>12. Entries(g) = Tail(Entries(h))
    <2>1. /\ Entries(h) \in Seq(Line) /\ Len(Entries(h)) = Cap
          /\ Entries(g) \in Seq(Line) /\ Len(Entries(g)) = Cap - 1
      BY <1>3, <1>11, EntriesAre
    <2>2. Entries(h) # <<>>
      BY <2>1, CapAssumption
    <2>3. /\ Tail(Entries(h)) \in Seq(Line) /\ Len(Tail(Entries(h))) = Cap - 1
          /\ \A i \in 1 .. Cap - 1 : Tail(Entries(h))[i] = Entries(h)[i + 1]
      BY <2>1, <2>2, HeadTailProperties
    <2>4. ASSUME NEW i \in 1 .. Cap - 1
          PROVE  Entries(g)[i] = Tail(Entries(h))[i]
      <3>1. i - 1 \in 0 .. Cap - 2 /\ i + 1 \in 1 .. Cap /\ (i - 1) + 1 = i /\ (i + 1) - 1 = i
            /\ i - 1 \in 0 .. Cap
        BY CapAssumption
      <3>2. Entries(g)[i] = g.slots[SlotOf(g, i - 1)]
        BY <1>3, <1>11, EntriesAre
      <3>3. Entries(h)[i + 1] = h.slots[SlotOf(h, i)]
        BY <3>1, EntriesAre
      <3>4. SlotOf(g, i - 1) = SlotOf(h, i) /\ SlotOf(g, i - 1) # at
        BY <1>9, <3>1
      <3>5. SlotOf(g, i - 1) \in 0 .. Cap - 1
        BY <1>6, <3>1, SlotBounds
      <3> QED
        BY <1>8, <2>3, <3>2, <3>3, <3>4, <3>5
    <2> QED
      BY <2>1, <2>3, <2>4, SeqEqual
  <1> QED
    BY <1>3, <1>11, <1>12 DEF g

(* What the slot before the next one holds is the last entry.              *)
LEMMA IgnoredIs ==
    ASSUME NEW h, Ring(h), NEW line \in Line
    PROVE  Ignored(h, line) <=>
              line = <<>> \/ (Entries(h) # <<>> /\ Contract!Last(Entries(h)) = line)
  <1>1. h.len \in Nat /\ Entries(h) \in Seq(Line) /\ Len(Entries(h)) = h.len
    <2>1. h.len \in 0 .. Cap
      BY DEF Ring, Rings
    <2> QED
      BY <2>1, EntriesAre, CapAssumption
  <1>2. Entries(h) # <<>> <=> h.len > 0
    BY <1>1
  <1>3. CASE h.len > 0
    <2>1. h.len \in 1 .. h.len
      BY <1>1, <1>3
    <2>2. Entries(h)[h.len] = h.slots[SlotOf(h, h.len - 1)]
      BY <2>1, EntriesAre
    <2>3. Contract!Last(Entries(h)) = Entries(h)[h.len]
      BY <1>1 DEF Contract!Last
    <2> QED
      BY <1>2, <1>3, <2>2, <2>3 DEF Ignored
  <1>4. CASE ~(h.len > 0)
    BY <1>2, <1>4 DEF Ignored
  <1> QED
    BY <1>3, <1>4

(* The ring is the newest Cap lines, without repeats: adding a line does   *)
(* to its entries what the contract does to the history.                   *)
LEMMA AddRemembers ==
    ASSUME NEW h, Ring(h), NEW line \in Line
    PROVE  /\ Ring(HistoryAdd(h, line))
           /\ Entries(HistoryAdd(h, line)) = Contract!Remember(Entries(h), line)
  <1> DEFINE s == Entries(h)
  <1>1. h.len \in 0 .. Cap /\ s \in Seq(Line) /\ Len(s) = h.len
    BY EntriesAre DEF Ring, Rings
  <1>2. CASE Ignored(h, line)
    <2>1. HistoryAdd(h, line) = h
      BY <1>2 DEF HistoryAdd
    <2>2. Contract!Remember(s, line) = s
      BY <1>2, IgnoredIs DEF Contract!Remember
    <2> QED
      BY <2>1, <2>2
  <1>3. CASE ~Ignored(h, line)
    <2>1. line \in Line \ {<<>>}
      BY <1>3 DEF Ignored
    <2>2. Contract!Remember(s, line) = Contract!Newest(Append(s, line), Cap)
      BY <1>3, IgnoredIs DEF Contract!Remember
    <2>3. Append(s, line) \in Seq(Line) /\ Len(Append(s, line)) = h.len + 1
      BY <1>1, AppendProperties
    <2>4. CASE h.len # Cap
      <3>1. h.len < Cap /\ HistoryAdd(h, line) = Placed(h, line)
        BY <1>1, <1>3, <2>4, CapAssumption DEF HistoryAdd
      <3>2. Contract!Newest(Append(s, line), Cap) = Append(s, line)
        <4>1. ~(Len(Append(s, line)) > Cap)
          BY <1>1, <2>3, <3>1, CapAssumption
        <4> QED
          BY <4>1, Zenon DEF Contract!Newest
      <3> QED
        BY <2>1, <2>2, <3>1, <3>2, PlacedIs
    <2>5. CASE h.len = Cap
      <3> DEFINE g == Evicted(h)
      <3>1. Ring(g) /\ g.len = Cap - 1 /\ Entries(g) = Tail(s)
        BY <2>5, EvictedIs
      <3>2. HistoryAdd(h, line) = Placed(g, line)
        BY <1>3, <2>5, Zenon DEF HistoryAdd
      <3>3. g.len < Cap
        BY <3>1, CapAssumption
      <3> HIDE DEF g, s
      <3>4. Ring(Placed(g, line)) /\ Entries(Placed(g, line)) = Append(Tail(s), line)
        BY <2>1, <3>1, <3>3, PlacedIs
      <3>5. Contract!Newest(Append(s, line), Cap) = Append(Tail(s), line)
        <4> DEFINE t == Append(s, line)
        <4>1. Len(t) > Cap /\ Len(t) - Cap + 1 = 2 /\ Len(t) = Cap + 1
          BY <2>3, <2>5, CapAssumption
        <4>2. Contract!Newest(t, Cap) = SubSeq(t, 2, Len(t))
          BY <4>1, Zenon DEF Contract!Newest
        <4>3. t # <<>>
          BY <2>3, <4>1, CapAssumption
        <4>4. SubSeq(t, 2, Len(t)) = Tail(t)
          BY <2>3, <4>3, TailIsSubSeq
        <4>5. s # <<>> /\ Len(s) = Cap
          BY <1>1, <2>5, CapAssumption
        <4>6. Tail(t) = Append(Tail(s), line)
          BY <1>1, <2>1, <4>5, HeadTailAppend
        <4> QED
          BY <4>2, <4>4, <4>6
      <3> QED
        BY <2>2, <3>2, <3>4, <3>5 DEF s
    <2> QED
      BY <2>4, <2>5
  <1> QED
    BY <1>2, <1>3

(* Loading a file leaves in the ring what the contract recovers from it.   *)
LEMMA LoadRecovers ==
    ASSUME NEW f \in Seq(Line)
    PROVE  /\ Ring(HistoryLoad(f))
           /\ Entries(HistoryLoad(f)) = Contract!Recovered(f)
  <1> DEFINE R == {h \in Rings : Ring(h)}
             F == [h \in R |-> [l \in Line |-> HistoryAdd(h, l)]]
             ring == CHOOSE ring : ring = [i \in 0 .. Len(f) |->
                        IF i = 0 THEN RingInit ELSE HistoryAdd(ring[i - 1], f[i])]
             after == CHOOSE after : after = [n \in 0 .. Len(f) |->
                        IF n = 0 THEN <<>> ELSE Contract!Remember(after[n - 1], f[n])]
  <1>1. F \in [R -> [Line -> R]] /\ \A h \in R, l \in Line : F[h][l] = HistoryAdd(h, l)
    <2>1. \A h \in R, l \in Line : HistoryAdd(h, l) \in R
      BY AddRemembers DEF Ring
    <2> QED
      BY <2>1
  <1>2. RingInit \in R
    BY RingStarts DEF Ring
  <1>3. \A h \in R : Ring(h)
    OBVIOUS
  <1> HIDE DEF F, R
  <1>4. PICK g : IsRun(g, R, F, RingInit, f)
    <2> HIDE DEF ring, after
    <2>1. F \in [R -> [Line -> R]] /\ f \in Seq(Line)
      BY <1>1
    <2> QED
      BY <1>2, <2>1, RunExists, Zenon
  <1>5. ASSUME NEW i \in 1 .. Len(f)
        PROVE  /\ f[i] \in Line /\ i - 1 \in 0 .. Len(f) /\ g[i - 1] \in R
               /\ g[i] = HistoryAdd(g[i - 1], f[i])
    <2>1. f[i] \in Line /\ i - 1 \in 0 .. Len(f)
      OBVIOUS
    <2>2. g[i - 1] \in R
      BY <1>4, <2>1 DEF IsRun
    <2> QED
      BY <1>1, <1>4, <2>1, <2>2 DEF IsRun
  <1>6. ring = [i \in 0 .. Len(f) |->
                   IF i = 0 THEN RingInit ELSE HistoryAdd(ring[i - 1], f[i])]
    <2>1. \A i \in 0 .. Len(f) :
             g[i] = IF i = 0 THEN RingInit ELSE HistoryAdd(g[i - 1], f[i])
      BY <1>4, <1>5 DEF IsRun
    <2>2. g = [i \in 0 .. Len(f) |-> IF i = 0 THEN RingInit ELSE HistoryAdd(g[i - 1], f[i])]
      BY <1>4, <2>1 DEF IsRun
    <2> QED
      BY <2>2, Zenon
  <1>7. after = [n \in 0 .. Len(f) |->
                   IF n = 0 THEN <<>> ELSE Contract!Remember(after[n - 1], f[n])]
    <2> DEFINE s == [n \in 0 .. Len(f) |-> Entries(g[n])]
    <2>1. \A n \in 0 .. Len(f) :
             s[n] = IF n = 0 THEN <<>> ELSE Contract!Remember(s[n - 1], f[n])
      <3> TAKE n \in 0 .. Len(f)
      <3>1. CASE n = 0
        BY <1>4, <3>1, RingStarts DEF IsRun
      <3>2. CASE n # 0
        <4>1. n \in 1 .. Len(f) /\ s[n] = Entries(g[n]) /\ s[n - 1] = Entries(g[n - 1])
          BY <3>2
        <4>2. Entries(g[n]) = Contract!Remember(Entries(g[n - 1]), f[n])
          BY <1>3, <1>5, <4>1, AddRemembers
        <4> HIDE DEF s
        <4> QED
          BY <3>2, <4>1, <4>2
      <3> QED
        BY <3>1, <3>2
    <2>2. s = [n \in 0 .. Len(f) |->
                 IF n = 0 THEN <<>> ELSE Contract!Remember(s[n - 1], f[n])]
      BY <2>1
    <2> HIDE DEF s
    <2> QED
      BY <2>2, Zenon
  <1> HIDE DEF ring, after
  <1>8. /\ ring[0] = RingInit /\ after[0] = <<>>
        /\ \A i \in 1 .. Len(f) : /\ ring[i] = HistoryAdd(ring[i - 1], f[i])
                                 /\ after[i] = Contract!Remember(after[i - 1], f[i])
    <2>1. Len(f) \in Nat
      OBVIOUS
    <2>2. \A i \in 0 .. Len(f) :
             /\ ring[i] = IF i = 0 THEN RingInit ELSE HistoryAdd(ring[i - 1], f[i])
             /\ after[i] = IF i = 0 THEN <<>> ELSE Contract!Remember(after[i - 1], f[i])
      BY <1>6, <1>7, Zenon
    <2>3. 0 \in 0 .. Len(f) /\ \A i \in 1 .. Len(f) : i \in 0 .. Len(f) /\ i # 0
      BY <2>1
    <2> QED
      BY <2>2, <2>3, Zenon
  <1> DEFINE Good(i) == Ring(ring[i]) /\ Entries(ring[i]) = after[i]
             Bad == {i \in 0 .. Len(f) : ~Good(i)}
  <1>9. Bad = {}
    <2>1. SUFFICES ASSUME Bad # {} PROVE FALSE
      OBVIOUS
    <2>2. PICK n \in Bad : \A k \in Bad : n <= k
      <3>1. Bad \in SUBSET Nat
        OBVIOUS
      <3> HIDE DEF Bad
      <3> QED
        BY <2>1, <3>1, LeastMember
    <2>3. n # 0
      BY <1>8, RingStarts
    <2>4. n \in 1 .. Len(f) /\ f[n] \in Line /\ n - 1 \in 0 .. Len(f) /\ ~(n <= n - 1)
      BY <2>3
    <2>5. Good(n - 1)
      BY <2>2, <2>4
    <2>6. Good(n)
      BY <1>8, <2>4, <2>5, AddRemembers
    <2> QED
      BY <2>6
  <1>10. Good(Len(f))
    <2>1. Len(f) \in 0 .. Len(f)
      OBVIOUS
    <2> QED
      BY <1>9, <2>1
  <1>11. HistoryLoad(f) = ring[Len(f)]
    BY DEF HistoryLoad, ring
  <1>12. Contract!Recovered(f) = after[Len(f)]
    BY DEF Contract!Recovered, after
  <1> QED
    BY <1>10, <1>11, <1>12

-----------------------------------------------------------------------------
(* The edited line, as what is left of the cursor and what is right of it. *)

Split(l, r) == [buf |-> l \o r, cursor |-> Len(l)]

LEMMA SplitIs ==
    ASSUME NEW l \in Line, NEW r \in Line
    PROVE  Split(l, r) \in EditLines /\ Before(Split(l, r)) = l /\ After(Split(l, r)) = r
  <1> DEFINE b == l \o r
             n == Len(l)
             e2 == Split(l, r)
  <1>1. /\ b \in Seq(Text) /\ Len(b) = Len(l) + Len(r)
        /\ \A i \in 1 .. Len(l) + Len(r) : b[i] = IF i <= Len(l) THEN l[i] ELSE r[i - Len(l)]
    BY ConcatProperties DEF Line
  <1>2. n \in Nat /\ Len(r) \in Nat /\ l \in Seq(Text) /\ r \in Seq(Text)
    BY DEF Line
  <1>3. e2.buf = b /\ e2.cursor = n /\ e2 = [buf |-> b, cursor |-> n]
    BY DEF Split
  <1> HIDE DEF b, e2
  <1>4. e2 \in EditLines
    BY <1>1, <1>2, <1>3 DEF EditLines, Line
  <1>5. SubSeq(b, 1, n) = l
    <2>1. /\ SubSeq(b, 1, n) \in Seq(Text) /\ Len(SubSeq(b, 1, n)) = n
          /\ \A i \in 1 .. n : SubSeq(b, 1, n)[i] = b[i]
      <3>1. \A i \in 1 .. n : b[i] \in Text
        BY <1>1, <1>2
      <3>2. 1 \in Int /\ n \in Int /\ n - 1 + 1 = n /\ (IF 1 <= n THEN n - 1 + 1 ELSE 0) = n
            /\ \A i \in 1 .. n : 1 + i - 1 = i
        BY <1>2
      <3> QED
        BY <3>1, <3>2, SubSeqProperties
    <2>2. \A i \in 1 .. n : SubSeq(b, 1, n)[i] = l[i]
      BY <1>1, <1>2, <2>1
    <2> QED
      BY <1>2, <2>1, <2>2, SeqEqual
  <1>6. SubSeq(b, n + 1, Len(b)) = r
    <2> DEFINE t == SubSeq(b, n + 1, Len(b))
    <2>1. /\ t \in Seq(Text) /\ Len(t) = Len(r)
          /\ \A i \in 1 .. Len(r) : t[i] = b[n + i]
      <3>1. \A i \in n + 1 .. Len(b) : b[i] \in Text
        BY <1>1, <1>2
      <3>2. n + 1 \in Int /\ Len(b) \in Int /\ Len(b) - (n + 1) + 1 = Len(r)
            /\ (IF n + 1 <= Len(b) THEN Len(b) - (n + 1) + 1 ELSE 0) = Len(r)
            /\ \A i \in 1 .. Len(r) : (n + 1) + i - 1 = n + i
        BY <1>1, <1>2
      <3> QED
        BY <3>1, <3>2, SubSeqProperties
    <2>2. \A i \in 1 .. Len(r) : t[i] = r[i]
      <3> TAKE i \in 1 .. Len(r)
      <3>1. n + i \in 1 .. Len(l) + Len(r) /\ ~(n + i <= Len(l)) /\ (n + i) - Len(l) = i
        BY <1>2
      <3> QED
        BY <1>1, <2>1, <3>1
    <2> QED
      BY <1>2, <2>1, <2>2, SeqEqual
  <1> QED
    BY <1>3, <1>4, <1>5, <1>6 DEF Before, After, e2

LEMMA Halves ==
    ASSUME NEW e0 \in EditLines
    PROVE  /\ Before(e0) \in Line /\ Len(Before(e0)) = e0.cursor
           /\ After(e0) \in Line /\ Len(After(e0)) = Len(e0.buf) - e0.cursor
           /\ Before(e0) \o After(e0) = e0.buf
           /\ e0 = Split(Before(e0), After(e0))
           /\ \A i \in 1 .. e0.cursor : Before(e0)[i] = e0.buf[i]
           /\ e0.cursor \in Nat /\ Len(e0.buf) \in Nat /\ e0.cursor <= Len(e0.buf)
           /\ e0.buf \in Line
  <1> DEFINE b == e0.buf
             n == e0.cursor
  <1>1. /\ b \in Seq(Text) /\ n \in Nat /\ n <= Len(b) /\ Len(b) \in Nat
        /\ e0 = [buf |-> b, cursor |-> n]
    BY DEF EditLines, Line
  <1> HIDE DEF b, n
  <1>2. /\ SubSeq(b, 1, n) \in Seq(Text) /\ Len(SubSeq(b, 1, n)) = n
        /\ \A i \in 1 .. n : SubSeq(b, 1, n)[i] = b[i]
    <2>1. \A i \in 1 .. n : b[i] \in Text
      BY <1>1
    <2>2. 1 \in Int /\ n \in Int /\ n - 1 + 1 = n /\ (IF 1 <= n THEN n - 1 + 1 ELSE 0) = n
          /\ \A i \in 1 .. n : 1 + i - 1 = i
      BY <1>1
    <2> QED
      BY <2>1, <2>2, SubSeqProperties
  <1>3. /\ SubSeq(b, n + 1, Len(b)) \in Seq(Text)
        /\ Len(SubSeq(b, n + 1, Len(b))) = Len(b) - n
    <2>1. \A i \in n + 1 .. Len(b) : b[i] \in Text
      BY <1>1
    <2>2. n + 1 \in Int /\ Len(b) \in Int
          /\ (IF n + 1 <= Len(b) THEN Len(b) - (n + 1) + 1 ELSE 0) = Len(b) - n
      BY <1>1
    <2> QED
      BY <2>1, <2>2, SubSeqProperties
  <1>4. SubSeq(b, 1, n) \o SubSeq(b, n + 1, Len(b)) = b
    <2>1. 1 \in 1 .. Len(b) + 1 /\ n \in 1 - 1 .. Len(b) /\ Len(b) \in n .. Len(b)
      BY <1>1
    <2>2. SubSeq(b, 1, n) \o SubSeq(b, n + 1, Len(b)) = SubSeq(b, 1, Len(b))
      BY <1>1, <2>1, ConcatAdjacentSubSeq
    <2> QED
      BY <1>1, <2>2, SubSeqFull
  <1>5. Before(e0) = SubSeq(b, 1, n) /\ After(e0) = SubSeq(b, n + 1, Len(b))
    BY DEF Before, After, b, n
  <1>6. e0 = Split(Before(e0), After(e0))
    BY <1>1, <1>2, <1>4, <1>5 DEF Split
  <1> QED
    BY <1>1, <1>2, <1>3, <1>4, <1>5, <1>6 DEF b, n, Line

(* What each deletion and insertion does to the two halves.                *)
LEMMA InsertIs ==
    ASSUME NEW e0 \in EditLines, NEW c \in Text
    PROVE  /\ EditInsert(e0, c) = Split(Append(Before(e0), c), After(e0))
           /\ Append(Before(e0), c) \in Line
  <1>1. Append(Before(e0), c) \in Line /\ Len(Append(Before(e0), c)) = e0.cursor + 1
    BY Halves, AppendProperties DEF Line
  <1> QED
    BY <1>1 DEF EditInsert, Split

LEMMA CutBackIs ==
    ASSUME NEW e0 \in EditLines, NEW n \in 0 .. e0.cursor
    PROVE  /\ CutBack(e0, n) = Split(SubSeq(Before(e0), 1, n), After(e0))
           /\ SubSeq(Before(e0), 1, n) \in Line
  <1> DEFINE l == Before(e0)
  <1>1. /\ l \in Seq(Text) /\ Len(l) = e0.cursor /\ e0.cursor \in Nat
        /\ e0.buf \in Seq(Text) /\ e0.cursor <= Len(e0.buf) /\ Len(e0.buf) \in Nat
        /\ \A i \in 1 .. e0.cursor : l[i] = e0.buf[i]
    BY Halves DEF Line
  <1> HIDE DEF l
  <1>2. /\ 1 \in Int /\ n \in Int /\ (IF 1 <= n THEN n - 1 + 1 ELSE 0) = n /\ n - 1 + 1 = n
        /\ \A i \in 1 .. n : 1 + i - 1 = i
    BY <1>1
  <1>3. \A i \in 1 .. n : l[i] \in Text /\ e0.buf[i] \in Text /\ l[i] = e0.buf[i]
    BY <1>1
  <1>4. /\ SubSeq(l, 1, n) \in Seq(Text) /\ Len(SubSeq(l, 1, n)) = n
        /\ \A i \in 1 .. n : SubSeq(l, 1, n)[i] = l[i]
    BY <1>2, <1>3, SubSeqProperties
  <1>5. /\ SubSeq(e0.buf, 1, n) \in Seq(Text) /\ Len(SubSeq(e0.buf, 1, n)) = n
        /\ \A i \in 1 .. n : SubSeq(e0.buf, 1, n)[i] = e0.buf[i]
    BY <1>2, <1>3, SubSeqProperties
  <1>6. SubSeq(e0.buf, 1, n) = SubSeq(l, 1, n)
    BY <1>3, <1>4, <1>5, SeqEqual
  <1> QED
    BY <1>4, <1>6 DEF CutBack, Split, Line, l

LEMMA BackspaceIs ==
    ASSUME NEW e0 \in EditLines
    PROVE  EditBackspace(e0) = IF Before(e0) = <<>> THEN e0
                               ELSE Split(Contract!Front(Before(e0)), After(e0))
  <1>1. /\ Before(e0) \in Seq(Text) /\ Len(Before(e0)) = e0.cursor /\ e0.cursor \in Nat
        /\ e0.cursor <= Len(e0.buf) /\ Len(e0.buf) \in Nat
    BY Halves DEF Line
  <1>2. (e0.cursor = 0 \/ Len(e0.buf) = 0) <=> Before(e0) = <<>>
    BY <1>1
  <1>3. CASE Before(e0) = <<>>
    BY <1>2, <1>3 DEF EditBackspace
  <1>4. CASE Before(e0) # <<>>
    <2>1. e0.cursor - 1 \in 0 .. e0.cursor /\ e0.cursor - 1 = Len(Before(e0)) - 1
      BY <1>1, <1>4
    <2>2. EditBackspace(e0) = CutBack(e0, e0.cursor - 1)
      BY <1>2, <1>4 DEF EditBackspace
    <2> QED
      BY <1>4, <2>1, <2>2, CutBackIs DEF Contract!Front
  <1> QED
    BY <1>3, <1>4

LEMMA DeleteIs ==
    ASSUME NEW e0 \in EditLines
    PROVE  /\ EditDelete(e0) = IF After(e0) = <<>> THEN e0
                               ELSE Split(Before(e0), Tail(After(e0)))
           /\ After(e0) # <<>> => Tail(After(e0)) \in Line
  <1>1. /\ After(e0) \in Seq(Text) /\ Len(After(e0)) = Len(e0.buf) - e0.cursor
        /\ e0.cursor \in Nat /\ Len(e0.buf) \in Nat /\ e0.cursor <= Len(e0.buf)
        /\ Len(Before(e0)) = e0.cursor
    BY Halves DEF Line
  <1>2. e0.cursor >= Len(e0.buf) <=> After(e0) = <<>>
    BY <1>1
  <1>3. e0 = [buf |-> e0.buf, cursor |-> e0.cursor]
    BY DEF EditLines
  <1>4. [e0 EXCEPT !.buf = Before(e0) \o Tail(After(e0))]
          = [buf |-> Before(e0) \o Tail(After(e0)), cursor |-> e0.cursor]
    <2>1. \A x : [e0 EXCEPT !.buf = x] = [buf |-> x, cursor |-> e0.cursor]
      BY <1>3
    <2> QED
      BY <2>1, Zenon
  <1>5. After(e0) # <<>> => Tail(After(e0)) \in Line
    BY <1>1, HeadTailProperties DEF Line
  <1> QED
    BY <1>1, <1>2, <1>4, <1>5 DEF EditDelete, Split

LEMMA KillsAre ==
    ASSUME NEW e0 \in EditLines
    PROVE  /\ EditKillToEnd(e0) = Split(Before(e0), <<>>)
           /\ EditKillToStart(e0) = Split(<<>>, After(e0))
  <1>1. Before(e0) \in Seq(Text) /\ Len(Before(e0)) = e0.cursor /\ e0.cursor \in Nat
    BY Halves DEF Line
  <1>2. e0 = [buf |-> e0.buf, cursor |-> e0.cursor]
    BY DEF EditLines
  <1>3. [e0 EXCEPT !.buf = Before(e0)] = [buf |-> Before(e0), cursor |-> e0.cursor]
    BY <1>2
  <1>4. Before(e0) \o <<>> = Before(e0)
    BY <1>1, ConcatEmptySeq
  <1>5. 0 \in 0 .. e0.cursor /\ SubSeq(Before(e0), 1, 0) = <<>>
    <2>1. 1 \in Int /\ 0 \in Int /\ 0 < 1
      OBVIOUS
    <2> QED
      BY <1>1, <2>1, SubSeqEmpty
  <1> QED
    BY <1>1, <1>3, <1>4, <1>5, CutBackIs DEF EditKillToEnd, EditKillToStart, Split

LEMMA SetIs ==
    ASSUME NEW t \in Line
    PROVE  EditSet(t) = Split(t, <<>>)
  <1>1. t \o <<>> = t
    BY ConcatEmptySeq DEF Line
  <1> QED
    BY <1>1 DEF EditSet, Split

LEMMA InitIs == EditInit = Split(<<>>, <<>>) /\ <<>> \in Line
  <1>1. <<>> \o <<>> = <<>> /\ <<>> \in Seq(Text) /\ Len(<<>>) = 0
    BY ConcatEmptySeq, EmptySeq
  <1> QED
    BY <1>1 DEF EditInit, Split, Line

(* A move changes the cursor only.                                         *)
LEMMA MovesAre ==
    ASSUME NEW e0 \in EditLines
    PROVE  /\ EditLeft(e0) \in EditLines /\ EditLeft(e0).buf = e0.buf
           /\ EditLeft(e0).cursor = IF e0.cursor > 0 THEN e0.cursor - 1 ELSE 0
           /\ EditRight(e0) \in EditLines /\ EditRight(e0).buf = e0.buf
           /\ EditRight(e0).cursor = IF e0.cursor < Len(e0.buf) THEN e0.cursor + 1 ELSE e0.cursor
           /\ EditHome(e0) \in EditLines /\ EditHome(e0).buf = e0.buf
           /\ EditHome(e0).cursor = 0
           /\ EditEnd(e0) \in EditLines /\ EditEnd(e0).buf = e0.buf
           /\ EditEnd(e0).cursor = Len(e0.buf)
  <1>1. /\ e0.cursor \in Nat /\ Len(e0.buf) \in Nat /\ e0.cursor <= Len(e0.buf)
        /\ e0.buf \in Line
    BY Halves
  <1>2. e0 = [buf |-> e0.buf, cursor |-> e0.cursor]
    BY DEF EditLines
  <1>3. ASSUME NEW k \in 0 .. Len(e0.buf)
        PROVE  [e0 EXCEPT !.cursor = k] \in EditLines /\ [e0 EXCEPT !.cursor = k].buf = e0.buf
               /\ [e0 EXCEPT !.cursor = k].cursor = k
    <2>1. [e0 EXCEPT !.cursor = k] = [buf |-> e0.buf, cursor |-> k]
      BY <1>2
    <2> QED
      BY <1>1, <2>1 DEF EditLines
  <1>4. EditHome(e0) = [e0 EXCEPT !.cursor = 0] /\ EditEnd(e0) = [e0 EXCEPT !.cursor = Len(e0.buf)]
    BY DEF EditHome, EditEnd
  <1>5. EditLeft(e0) = IF e0.cursor > 0 THEN [e0 EXCEPT !.cursor = e0.cursor - 1] ELSE e0
    BY DEF EditLeft
  <1>6. EditRight(e0) = IF e0.cursor < Len(e0.buf) THEN [e0 EXCEPT !.cursor = e0.cursor + 1] ELSE e0
    BY DEF EditRight
  <1>7. /\ 0 \in 0 .. Len(e0.buf) /\ Len(e0.buf) \in 0 .. Len(e0.buf)
        /\ e0.cursor > 0 => e0.cursor - 1 \in 0 .. Len(e0.buf)
        /\ e0.cursor < Len(e0.buf) => e0.cursor + 1 \in 0 .. Len(e0.buf)
        /\ ~(e0.cursor > 0) => e0.cursor = 0
    BY <1>1
  <1>8. EditHome(e0) \in EditLines /\ EditHome(e0).buf = e0.buf /\ EditHome(e0).cursor = 0
    BY <1>3, <1>4, <1>7, Zenon
  <1>9. /\ EditEnd(e0) \in EditLines /\ EditEnd(e0).buf = e0.buf
        /\ EditEnd(e0).cursor = Len(e0.buf)
    BY <1>3, <1>4, <1>7, Zenon
  <1>10. /\ EditLeft(e0) \in EditLines /\ EditLeft(e0).buf = e0.buf
         /\ EditLeft(e0).cursor = IF e0.cursor > 0 THEN e0.cursor - 1 ELSE 0
    BY <1>3, <1>5, <1>7, Zenon
  <1>11. /\ EditRight(e0) \in EditLines /\ EditRight(e0).buf = e0.buf
         /\ EditRight(e0).cursor = IF e0.cursor < Len(e0.buf) THEN e0.cursor + 1 ELSE e0.cursor
    BY <1>3, <1>6, <1>7, Zenon
  <1> QED
    BY <1>8, <1>9, <1>10, <1>11

(* The two loops of Ctrl-W stop, at the first character of another kind.   *)
LEMMA BlanksSkipped ==
    ASSUME NEW e0, NEW i \in Nat
    PROVE  /\ SkipBlanks(e0, i) \in 0 .. i
           /\ \A j \in SkipBlanks(e0, i) + 1 .. i : IsBlank(e0.buf[j])
           /\ SkipBlanks(e0, i) > 0 => ~IsBlank(e0.buf[SkipBlanks(e0, i)])
  <1> DEFINE Stops == {n \in 0 .. i : \A j \in n + 1 .. i : IsBlank(e0.buf[j])}
  <1>1. i \in Stops
    OBVIOUS
  <1>2. PICK n \in Stops : \A k \in Stops : n <= k
    <2>1. Stops \in SUBSET Nat /\ Stops # {}
      BY <1>1
    <2> HIDE DEF Stops
    <2> QED
      BY <2>1, LeastMember
  <1>3. n > 0 => ~IsBlank(e0.buf[n])
    <2> SUFFICES ASSUME n > 0, IsBlank(e0.buf[n]) PROVE FALSE
      OBVIOUS
    <2>1. n - 1 \in 0 .. i /\ ~(n <= n - 1) /\ \A j \in (n - 1) + 1 .. i : j = n \/ j \in n + 1 .. i
      OBVIOUS
    <2>2. n - 1 \in Stops
      BY <2>1
    <2> HIDE DEF Stops
    <2> QED
      BY <1>2, <2>1, <2>2
  <1>4. \E k \in 0 .. i : /\ \A j \in k + 1 .. i : IsBlank(e0.buf[j])
                          /\ k > 0 => ~IsBlank(e0.buf[k])
    BY <1>3
  <1> QED
    BY <1>4, Zenon DEF SkipBlanks

LEMMA WordSkipped ==
    ASSUME NEW e0, NEW i \in Nat
    PROVE  /\ SkipWord(e0, i) \in 0 .. i
           /\ \A j \in SkipWord(e0, i) + 1 .. i : ~IsBlank(e0.buf[j])
           /\ SkipWord(e0, i) > 0 => IsBlank(e0.buf[SkipWord(e0, i)])
  <1> DEFINE Stops == {n \in 0 .. i : \A j \in n + 1 .. i : ~IsBlank(e0.buf[j])}
  <1>1. i \in Stops
    OBVIOUS
  <1>2. PICK n \in Stops : \A k \in Stops : n <= k
    <2>1. Stops # {}
      BY <1>1
    <2>2. Stops \in SUBSET Nat
      OBVIOUS
    <2> HIDE DEF Stops
    <2> QED
      BY <2>1, <2>2, LeastMember
  <1>3. n > 0 => IsBlank(e0.buf[n])
    <2> SUFFICES ASSUME n > 0, ~IsBlank(e0.buf[n]) PROVE FALSE
      OBVIOUS
    <2>1. n - 1 \in 0 .. i /\ ~(n <= n - 1) /\ \A j \in (n - 1) + 1 .. i : j = n \/ j \in n + 1 .. i
      OBVIOUS
    <2>2. n - 1 \in Stops
      BY <2>1
    <2> HIDE DEF Stops
    <2> QED
      BY <1>2, <2>1, <2>2
  <1>4. \E k \in 0 .. i : /\ \A j \in k + 1 .. i : ~IsBlank(e0.buf[j])
                          /\ k > 0 => IsBlank(e0.buf[k])
    BY <1>3
  <1> QED
    BY <1>4, Zenon DEF SkipWord

(* Where they stop is where the word of the contract begins: nothing       *)
(* before is followed by non-blanks and then blanks up to the cursor.      *)
LEMMA KillWordIs ==
    ASSUME NEW e0 \in EditLines
    PROVE  /\ EditKillWordLeft(e0) = Split(Contract!WithoutWord(Before(e0)), After(e0))
           /\ Contract!WithoutWord(Before(e0)) \in Line
  <1> DEFINE s == Before(e0)
             top == e0.cursor
             m == SkipBlanks(e0, top)
             n == SkipWord(e0, m)
             Blank(c) == c \in {" ", "TAB"}
             Word(k) == \E q \in k .. Len(s) :
                           /\ \A i \in k + 1 .. q : ~Blank(s[i])
                           /\ \A i \in q + 1 .. Len(s) : Blank(s[i])
             Least(k) == Word(k) /\ \A j \in 0 .. k - 1 : ~Word(j)
  <1>1. top \in Nat /\ Len(s) = top /\ \A i \in 1 .. top : s[i] = e0.buf[i]
    BY Halves
  <1>2. /\ m \in 0 .. top /\ \A j \in m + 1 .. top : Blank(s[j])
        /\ m > 0 => ~Blank(s[m])
    <2>1. /\ m \in 0 .. top /\ \A j \in m + 1 .. top : IsBlank(e0.buf[j])
          /\ m > 0 => ~IsBlank(e0.buf[m])
      BY <1>1, BlanksSkipped
    <2> HIDE DEF m
    <2>2. /\ \A j \in m + 1 .. top : s[j] = e0.buf[j]
          /\ m > 0 => s[m] = e0.buf[m]
      BY <1>1, <2>1
    <2> QED
      BY <2>1, <2>2 DEF IsBlank
  <1>3. /\ n \in 0 .. m /\ \A j \in n + 1 .. m : ~Blank(s[j])
        /\ n > 0 => Blank(s[n])
    <2>1. /\ n \in 0 .. m /\ \A j \in n + 1 .. m : ~IsBlank(e0.buf[j])
          /\ n > 0 => IsBlank(e0.buf[n])
      <3>1. m \in Nat
        <4> HIDE DEF m, s, top, Blank
        <4> QED
          BY <1>1, <1>2
      <3> QED
        BY <3>1, WordSkipped
    <2> HIDE DEF n, m
    <2>2. /\ \A j \in n + 1 .. m : j \in 1 .. top
          /\ n > 0 => n \in 1 .. top
      <3>1. top \in Nat /\ m \in 0 .. top /\ n \in 0 .. m
        BY <1>1, <1>2, <2>1
      <3> HIDE DEF top
      <3> QED
        BY <3>1
    <2>3. /\ \A j \in n + 1 .. m : s[j] = e0.buf[j]
          /\ n > 0 => s[n] = e0.buf[n]
      <3> HIDE DEF s, top
      <3> QED
        BY <1>1, <2>2
    <2> QED
      BY <2>1, <2>3 DEF IsBlank
  <1> HIDE DEF n, m, s, Blank
  <1>4. Word(n)
    <2>1. m \in n .. Len(s)
      BY <1>1, <1>2, <1>3
    <2> QED
      BY <1>1, <1>2, <1>3, <2>1
  <1>5. \A k \in 0 .. n - 1 : ~Word(k)
    <2> SUFFICES ASSUME NEW k \in 0 .. n - 1, NEW q \in k .. Len(s),
                        \A i \in k + 1 .. q : ~Blank(s[i]),
                        \A i \in q + 1 .. Len(s) : Blank(s[i])
                 PROVE  FALSE
      OBVIOUS
    <2>1. n > 0 /\ n \in k + 1 .. Len(s) /\ Blank(s[n])
      BY <1>1, <1>2, <1>3
    <2>2. ~(n <= q)
      <3>1. n <= q => n \in k + 1 .. q
        BY <1>1, <2>1
      <3> QED
        BY <2>1, <3>1
    <2>3. m \in q + 1 .. Len(s) /\ m > 0
      BY <1>1, <1>2, <1>3, <2>1, <2>2
    <2> QED
      BY <1>2, <2>3
  <1> HIDE DEF Word
  <1>6. n \in 0 .. Len(s) /\ Least(n)
    BY <1>1, <1>2, <1>3, <1>4, <1>5
  <1>7. ASSUME NEW k \in 0 .. Len(s), Least(k)
        PROVE  k = n
    <2>1. ~(k \in 0 .. n - 1) /\ ~(n \in 0 .. k - 1)
      BY <1>4, <1>5, <1>7
    <2> QED
      BY <1>1, <1>6, <2>1
  <1>8. (CHOOSE k \in 0 .. Len(s) : Least(k)) = n
    <2> HIDE DEF Least
    <2> QED
      BY <1>6, <1>7, Zenon
  <1>9. Contract!WithoutWord(s) = SubSeq(s, 1, CHOOSE k \in 0 .. Len(s) : Least(k))
    BY DEF Contract!WithoutWord, Least, Word, Blank
  <1>10. Contract!WithoutWord(s) = SubSeq(s, 1, n)
    BY <1>8, <1>9
  <1>11. EditKillWordLeft(e0) = CutBack(e0, n)
    BY DEF EditKillWordLeft, n, m
  <1>12. n \in 0 .. e0.cursor
    BY <1>1, <1>2, <1>3
  <1> HIDE DEF Least, top
  <1> QED
    BY <1>10, <1>11, <1>12, CutBackIs DEF s

-----------------------------------------------------------------------------
(* The decoder.                                                            *)

LEMMA DecodingIs ==
    \A state \in KeyStates : Decoding(state) \in Decoders
  <1>1. <<>> \in Seq(Digits) /\ Len(<<>>) = 0 /\ 0 <= PendingMax
    BY PendingAssumption
  <1> QED
    BY <1>1 DEF Decoding, Decoders

LEMMA RestingIs == Resting \subseteq Decoders /\ Ground \in Resting
  BY DecodingIs DEF Resting, Ground, KeyStates

(* Whatever byte arrives, the decoder keeps at most PendingMax digits.     *)
LEMMA FeedKeeps ==
    ASSUME NEW k \in Decoders, NEW b
    PROVE  EditKeysFeed(k, b).keys \in Decoders
  <1>1. /\ k.state \in KeyStates /\ k.pending \in Seq(Digits) /\ Len(k.pending) <= PendingMax
        /\ k = [state |-> k.state, pending |-> k.pending]
    BY DEF Decoders
  <1>2. \A d, key : Fed(d, key).keys = d
    BY DEF Fed
  <1>3. \A state \in KeyStates : \A key : Fed(Decoding(state), key).keys \in Decoders
    BY <1>2, DecodingIs, Zenon
  <1>4. \A key : Fed(Ground, key).keys \in Decoders /\ Fed(k, key).keys \in Decoders
    BY <1>2, RestingIs, Zenon
  <1>5. FeedGround(b).keys \in Decoders
    BY <1>3, <1>4, Zenon DEF FeedGround, KeyStates
  <1>6. b \in Digits => Fed([state |-> "CSI_PARAM", pending |-> <<b>>], "NONE").keys \in Decoders
    <2>1. b \in Digits => /\ <<b>> \in Seq(Digits) /\ Len(<<b>>) = 1
      OBVIOUS
    <2>2. 1 <= PendingMax /\ "CSI_PARAM" \in KeyStates
      BY PendingAssumption DEF KeyStates
    <2>3. \A p \in Seq(Digits) :
             Len(p) = 1 => [state |-> "CSI_PARAM", pending |-> p] \in Decoders
      <3> HIDE DEF KeyStates, Digits
      <3> QED
        BY <2>2 DEF Decoders
    <2> QED
      BY <1>2, <2>1, <2>3, Zenon
  <1>7. FeedParam(k, b).keys \in Decoders
    <2>1. CASE b \in Digits /\ Len(k.pending) < PendingMax
      <3>1. [k EXCEPT !.pending = Append(k.pending, b)]
              = [state |-> k.state, pending |-> Append(k.pending, b)]
        BY <1>1
      <3>2. /\ Append(k.pending, b) \in Seq(Digits)
            /\ Len(Append(k.pending, b)) = Len(k.pending) + 1
        BY <1>1, <2>1, AppendProperties
      <3>3. Len(Append(k.pending, b)) <= PendingMax
        BY <1>1, <2>1, <3>2, PendingAssumption
      <3>4. [k EXCEPT !.pending = Append(k.pending, b)] \in Decoders
        BY <1>1, <3>1, <3>2, <3>3 DEF Decoders
      <3> QED
        BY <1>2, <2>1, <3>4, Zenon DEF FeedParam
    <2>2. CASE b \in Digits /\ ~(Len(k.pending) < PendingMax)
      BY <1>3, <2>2, Zenon DEF FeedParam, KeyStates
    <2>3. CASE b \notin Digits
      BY <1>3, <1>4, <2>3, Zenon DEF FeedParam, KeyStates
    <2> QED
      BY <2>1, <2>2, <2>3
  <1>8. /\ Fed(Decoding("CSI"), "NONE").keys \in Decoders
        /\ Fed(Decoding("SS3"), "NONE").keys \in Decoders
        /\ Fed(Ground, FinalLetter(b)).keys \in Decoders
        /\ Fed(IF b \in Finals THEN Ground ELSE k, "NONE").keys \in Decoders
    BY <1>3, <1>4 DEF KeyStates
  <1> HIDE DEF Decoders
  <1> QED
    BY <1>5, <1>6, <1>7, <1>8 DEF EditKeysFeed

(* Decoder, byte by byte.                                                  *)
LEMMA DecoderIs ==
    ASSUME NEW k \in Decoders, NEW bytes \in Seq(Text)
    PROVE  /\ Decoder(k, bytes)[0] = Fed(k, "NONE")
           /\ \A n \in 1 .. Len(bytes) :
                 Decoder(k, bytes)[n] = EditKeysFeed(Decoder(k, bytes)[n - 1].keys, bytes[n])
  <1> DEFINE after == CHOOSE after : after = [n \in 0 .. Len(bytes) |->
                        IF n = 0 THEN Fed(k, "NONE")
                        ELSE EditKeysFeed(after[n - 1].keys, bytes[n])]
             S == {Fed(k, "NONE")} \cup {EditKeysFeed(d, c) : d \in Decoders, c \in Text}
             F == [s \in S |-> [c \in Text |-> EditKeysFeed(s.keys, c)]]
  <1>1. \A s \in S : s.keys \in Decoders
    BY FeedKeeps DEF Fed
  <1>2. F \in [S -> [Text -> S]] /\ \A s \in S, c \in Text : F[s][c] = EditKeysFeed(s.keys, c)
    <2>1. \A s \in S, c \in Text : EditKeysFeed(s.keys, c) \in S
      BY <1>1
    <2> QED
      BY <2>1
  <1>3. Fed(k, "NONE") \in S
    OBVIOUS
  <1> HIDE DEF F, S
  <1>4. PICK g : IsRun(g, S, F, Fed(k, "NONE"), bytes)
    <2> HIDE DEF after
    <2>1. F \in [S -> [Text -> S]] /\ bytes \in Seq(Text)
      BY <1>2
    <2> QED
      BY <1>3, <2>1, RunExists, Zenon
  <1>5. ASSUME NEW i \in 1 .. Len(bytes)
        PROVE  g[i] = EditKeysFeed(g[i - 1].keys, bytes[i])
    <2>1. bytes[i] \in Text /\ i - 1 \in 0 .. Len(bytes)
      OBVIOUS
    <2>2. g[i - 1] \in S
      BY <1>4, <2>1 DEF IsRun
    <2> QED
      BY <1>2, <1>4, <2>1, <2>2 DEF IsRun
  <1>6. after = [n \in 0 .. Len(bytes) |->
                   IF n = 0 THEN Fed(k, "NONE")
                   ELSE EditKeysFeed(after[n - 1].keys, bytes[n])]
    <2>1. \A n \in 0 .. Len(bytes) :
             g[n] = IF n = 0 THEN Fed(k, "NONE") ELSE EditKeysFeed(g[n - 1].keys, bytes[n])
      BY <1>4, <1>5 DEF IsRun
    <2>2. g = [n \in 0 .. Len(bytes) |->
                 IF n = 0 THEN Fed(k, "NONE") ELSE EditKeysFeed(g[n - 1].keys, bytes[n])]
      BY <1>4, <2>1 DEF IsRun
    <2> QED
      BY <2>2, Zenon
  <1> HIDE DEF after
  <1>7. \A n \in 0 .. Len(bytes) :
           after[n] = IF n = 0 THEN Fed(k, "NONE")
                      ELSE EditKeysFeed(after[n - 1].keys, bytes[n])
    BY <1>6, Zenon
  <1>8. 0 \in 0 .. Len(bytes) /\ \A n \in 1 .. Len(bytes) : n \in 0 .. Len(bytes) /\ n # 0
    OBVIOUS
  <1>9. Decoder(k, bytes) = after
    BY DEF Decoder, after
  <1> QED
    BY <1>7, <1>8, <1>9, Zenon

-----------------------------------------------------------------------------
(* Type correctness, whatever the keyboard sends.                          *)

(* Front, for the sequences it is used on.                                 *)
LEMMA FrontIs ==
    ASSUME NEW l \in Line, l # <<>>
    PROVE  Contract!Front(l) \in Line
  BY DEF Contract!Front, Line

(* What each edit of the line leaves is a line with a cursor in it.        *)
LEMMA EditsKeep ==
    ASSUME NEW e0 \in EditLines, NEW c \in Text
    PROVE  /\ EditInsert(e0, c) \in EditLines
           /\ EditBackspace(e0) \in EditLines
           /\ EditDelete(e0) \in EditLines
           /\ EditKillToEnd(e0) \in EditLines
           /\ EditKillToStart(e0) \in EditLines
           /\ EditKillWordLeft(e0) \in EditLines
  <1>1. Before(e0) \in Line /\ After(e0) \in Line /\ <<>> \in Line
    BY Halves, InitIs
  <1>2. EditInsert(e0, c) \in EditLines
    BY <1>1, InsertIs, SplitIs
  <1>3. EditBackspace(e0) \in EditLines
    <2>1. Before(e0) # <<>> => Contract!Front(Before(e0)) \in Line
      BY <1>1, FrontIs
    <2> QED
      BY <1>1, <2>1, BackspaceIs, SplitIs
  <1>4. EditDelete(e0) \in EditLines
    BY <1>1, DeleteIs, SplitIs
  <1>5. EditKillToEnd(e0) \in EditLines /\ EditKillToStart(e0) \in EditLines
    BY <1>1, KillsAre, SplitIs
  <1>6. EditKillWordLeft(e0) \in EditLines
    BY <1>1, KillWordIs, SplitIs
  <1> QED
    BY <1>2, <1>3, <1>4, <1>5, <1>6

LEMMA EditInitKeeps == EditInit \in EditLines
  BY InitIs, SplitIs

(* Recall: one step up or down, and the line it shows.                     *)
LEMMA RecallStartsAt ==
    ASSUME NEW h, Ring(h)
    PROVE  /\ RecallInit(h) \in Recalls
           /\ RecallInit(h).count = h.len /\ RecallInit(h).idx = h.len
           /\ RecallInit(h).stash = <<>>
  <1>1. h.len \in Nat
    BY DEF Ring, Rings
  <1>2. \A n \in Nat, s \in Line : [count |-> n, idx |-> n, stash |-> s] \in Recalls
    BY DEF Recalls
  <1> QED
    BY <1>1, <1>2, InitIs DEF RecallInit, HistoryCount

LEMMA RecallUpIs ==
    ASSUME NEW r \in Recalls, NEW e0 \in EditLines, r.idx # 0
    PROVE  /\ RecallUp(r, e0) \in Recalls
           /\ RecallUp(r, e0).count = r.count /\ RecallUp(r, e0).idx = r.idx - 1
           /\ RecallUp(r, e0).stash = IF r.idx = r.count THEN e0.buf ELSE r.stash
  <1> DEFINE kept == IF r.idx = r.count THEN e0.buf ELSE r.stash
  <1>1. /\ r.count \in Nat /\ r.idx \in Nat /\ r.idx <= r.count /\ r.stash \in Line
        /\ r = [count |-> r.count, idx |-> r.idx, stash |-> r.stash]
    BY DEF Recalls
  <1>2. kept \in Line
    BY <1>1, Halves
  <1>3. r.idx - 1 \in Nat /\ r.idx - 1 <= r.count
    BY <1>1
  <1> HIDE DEF kept
  <1>4. RecallUp(r, e0) = [count |-> r.count, idx |-> r.idx - 1, stash |-> kept]
    BY DEF RecallUp, kept
  <1>5. \A n, i \in Nat, s \in Line : i <= n => [count |-> n, idx |-> i, stash |-> s] \in Recalls
    BY DEF Recalls
  <1> QED
    BY <1>1, <1>2, <1>3, <1>4, <1>5 DEF kept

LEMMA RecallDownIs ==
    ASSUME NEW r \in Recalls, r.idx # r.count
    PROVE  /\ RecallDown(r) \in Recalls
           /\ RecallDown(r).count = r.count /\ RecallDown(r).idx = r.idx + 1
           /\ RecallDown(r).stash = r.stash
  <1>1. /\ r.count \in Nat /\ r.idx \in Nat /\ r.idx <= r.count /\ r.stash \in Line
        /\ r = [count |-> r.count, idx |-> r.idx, stash |-> r.stash]
    BY DEF Recalls
  <1>2. r.idx + 1 \in Nat /\ r.idx + 1 <= r.count /\ ~(r.idx >= r.count)
    BY <1>1
  <1>3. [r EXCEPT !.idx = r.idx + 1] = [count |-> r.count, idx |-> r.idx + 1, stash |-> r.stash]
    BY <1>1
  <1>4. RecallDown(r) = [count |-> r.count, idx |-> r.idx + 1, stash |-> r.stash]
    BY <1>2, <1>3 DEF RecallDown
  <1>5. \A n, i \in Nat, s \in Line : i <= n => [count |-> n, idx |-> i, stash |-> s] \in Recalls
    BY DEF Recalls
  <1> QED
    BY <1>1, <1>2, <1>4, <1>5

(* At either end recall stays where it is.                                 *)
LEMMA RecallStays ==
    ASSUME NEW r \in Recalls, NEW e0
    PROVE  /\ r.idx = 0 => RecallUp(r, e0) = r
           /\ r.idx = r.count => RecallDown(r) = r
  <1>1. r.idx = r.count => r.idx >= r.count
    BY DEF Recalls
  <1> QED
    BY <1>1 DEF RecallUp, RecallDown

(* What an entry is, counted from the oldest.                              *)
LEMMA GetIs ==
    ASSUME NEW h, Ring(h), NEW i \in 0 .. h.len - 1
    PROVE  /\ i + 1 \in 1 .. h.len
           /\ HistoryGet(h, i) = Entries(h)[i + 1]
           /\ HistoryGet(h, i) \in Line
  <1>1. h.len \in Nat
    BY DEF Ring, Rings
  <1>2. i + 1 \in 1 .. h.len /\ (i + 1) - 1 = i
    BY <1>1
  <1> QED
    BY <1>2, EntriesAre

LEMMA RecallMoves ==
    ASSUME NEW h, Ring(h), NEW r \in Recalls, r.count = h.len, NEW e0 \in EditLines
    PROVE  /\ RecallUp(r, e0) \in Recalls /\ RecallUp(r, e0).count = h.len
           /\ RecallDown(r) \in Recalls /\ RecallDown(r).count = h.len
           /\ Recalled(h, r, RecallUp(r, e0), e0) \in EditLines
           /\ Recalled(h, r, RecallDown(r), e0) \in EditLines
           /\ Recalled(h, r, r, e0) = e0
  <1>1. r.count \in Nat /\ r.idx \in Nat /\ r.idx <= r.count /\ r.stash \in Line
    BY DEF Recalls
  <1>2. \A t \in Line : EditSet(t) \in EditLines
    BY SetIs, SplitIs, InitIs
  <1>3. ASSUME NEW q \in Recalls, q.count = h.len
        PROVE  Recalled(h, r, q, e0) \in EditLines
    <2>1. q.idx # q.count => q.idx \in 0 .. h.len - 1
      BY <1>3 DEF Recalls
    <2>2. q.idx # q.count => HistoryGet(h, q.idx) \in Line
      BY <2>1, GetIs
    <2>3. q.stash \in Line
      BY DEF Recalls
    <2> QED
      BY <1>2, <2>2, <2>3 DEF Recalled
  <1>4. RecallUp(r, e0) \in Recalls /\ RecallUp(r, e0).count = h.len
    BY <1>1, RecallUpIs, RecallStays
  <1>5. RecallDown(r) \in Recalls /\ RecallDown(r).count = h.len
    BY <1>1, RecallDownIs, RecallStays
  <1>6. Recalled(h, r, r, e0) = e0
    BY DEF Recalled
  <1> QED
    BY <1>3, <1>4, <1>5, <1>6

(* What an error leaves of the lines that are read or written.             *)
LEMMA TornAre ==
    ASSUME NEW s \in Seq(Line)
    PROVE  /\ TornLines(s) \subseteq Contract!Torn(s)
           /\ TornLines(s) \subseteq Seq(Line)
  <1>1. Len(s) \in Nat
    OBVIOUS
  <1>2. \A n \in 0 .. Len(s) : SubSeq(s, 1, n) \in Seq(Line) /\ SubSeq(s, 1, n) \in Contract!Cuts(s)
    BY <1>1 DEF Contract!Cuts
  <1>3. ASSUME NEW n \in 1 .. Len(s), NEW k \in 1 .. Len(s[n])
        PROVE  /\ Append(SubSeq(s, 1, n - 1), SubSeq(s[n], 1, k)) \in Seq(Line)
               /\ SubSeq(s[n], 1, k) \in Contract!Cuts(s[n])
    <2>1. s[n] \in Seq(Text)
      BY <1>1 DEF Line
    <2>2. SubSeq(s[n], 1, k) \in Seq(Text) /\ k \in 0 .. Len(s[n])
      BY <2>1
    <2>3. n - 1 \in 0 .. Len(s)
      BY <1>1
    <2>4. SubSeq(s, 1, n - 1) \in Seq(Line)
      BY <1>2, <2>3
    <2> QED
      BY <2>2, <2>4, AppendProperties DEF Line, Contract!Cuts
  <1>4. TornLines(s) = {SubSeq(s, 1, n) : n \in 0 .. Len(s)}
            \cup UNION {{Append(SubSeq(s, 1, n - 1), SubSeq(s[n], 1, k)) :
                            k \in 1 .. Len(s[n])} : n \in 1 .. Len(s)}
    BY DEF TornLines
  <1>5. ASSUME NEW t \in TornLines(s)
        PROVE  \/ \E n \in 0 .. Len(s) : t = SubSeq(s, 1, n)
               \/ \E n \in 1 .. Len(s) : \E k \in 1 .. Len(s[n]) :
                     t = Append(SubSeq(s, 1, n - 1), SubSeq(s[n], 1, k))
    BY <1>4, <1>5, Zenon
  <1>6. TornLines(s) \subseteq Seq(Line)
    BY <1>2, <1>3, <1>5, Zenon
  <1>7. ASSUME NEW n \in 1 .. Len(s), NEW k \in 1 .. Len(s[n])
        PROVE  Append(SubSeq(s, 1, n - 1), SubSeq(s[n], 1, k)) \in Contract!Torn(s)
    <2> DEFINE T(i) == {Append(SubSeq(s, 1, i - 1), t) : t \in Contract!Cuts(s[i])}
    <2>1. Append(SubSeq(s, 1, n - 1), SubSeq(s[n], 1, k)) \in T(n)
      BY <1>3
    <2>2. n \in 1 .. Len(s)
      BY <1>1
    <2>3. Contract!Torn(s) = Contract!Cuts(s) \cup UNION {T(i) : i \in 1 .. Len(s)}
      BY DEF Contract!Torn
    <2> HIDE DEF T
    <2> QED
      BY <2>1, <2>2, <2>3, Zenon
  <1>8. \A n \in 0 .. Len(s) : SubSeq(s, 1, n) \in Contract!Torn(s)
    BY <1>2 DEF Contract!Torn
  <1>9. TornLines(s) \subseteq Contract!Torn(s)
    BY <1>5, <1>7, <1>8, Zenon
  <1> QED
    BY <1>6, <1>9

(* What a save may leave in the file.                                      *)
LEMMA SavesAre ==
    ASSUME NEW h, Ring(h)
    PROVE  /\ HistorySave(h) \in Seq(Line)
           /\ TornSaves(h) \subseteq Contract!Torn(Entries(h))
           /\ TornSaves(h) \subseteq Seq(Line)
  BY EntriesAre, TornAre DEF HistorySave, TornSaves

(* The state: an edited line, a ring that holds lines, a recall in the     *)
(* history it counted when the line was begun, a decoder.                  *)
Session ==
    /\ pc \in {"off", "editing", "saving"}
    /\ e \in EditLines
    /\ Ring(hist)
    /\ file \in Seq(Line)
    /\ recall \in Recalls
    /\ pc = "editing" => recall.count = hist.len
    /\ keys \in Decoders
    /\ input \in Line

LEMMA ReadLineKeeps ==
    ASSUME NEW h, Ring(h), ReadLine(h)
    PROVE  /\ e' \in EditLines /\ keys' \in Decoders /\ recall' \in Recalls
           /\ recall'.count = h.len
  BY EditInitKeeps, RestingIs, RecallStartsAt DEF ReadLine

LEMMA SessionInit == Init => Session
  <1> SUFFICES ASSUME Init PROVE Session
    OBVIOUS
  <1>1. pc = "off" /\ e = EditInit /\ keys = Ground /\ hist = RingInit
        /\ recall = RecallInit(RingInit) /\ file \in Files /\ input = <<>>
    BY DEF Init
  <1>2. e \in EditLines /\ keys \in Decoders /\ Ring(hist) /\ recall \in Recalls
    BY <1>1, EditInitKeeps, RestingIs, RingStarts, RecallStartsAt
  <1>3. file \in Seq(Line) /\ input \in Line
    BY <1>1, TextAssumption, InitIs DEF Line
  <1> QED
    BY <1>1, <1>2, <1>3 DEF Session

(* The head of what arrives is a byte, and the rest is still to come.      *)
LEMMA InputIs ==
    ASSUME NEW s \in Line, s # <<>>
    PROVE  Head(s) \in Text /\ Tail(s) \in Line
  BY HeadTailProperties DEF Line

LEMMA StartKeeps == Session /\ Start => Session'
  <1> SUFFICES ASSUME Session, Start PROVE Session'
    OBVIOUS
  <1>1. file \in Seq(Line) /\ input \in Line
    BY DEF Session
  <1>2. PICK f \in {file} \cup TornLines(file) : hist' = HistoryLoad(f)
    BY DEF Start
  <1>3. f \in Seq(Line)
    BY <1>1, <1>2, TornAre
  <1>4. Ring(hist')
    BY <1>2, <1>3, LoadRecovers
  <1>5. pc' = "editing" /\ ReadLine(hist') /\ file' = file /\ input' = input
    BY DEF Start
  <1>6. /\ e' \in EditLines /\ keys' \in Decoders /\ recall' \in Recalls
        /\ recall'.count = hist'.len
    BY <1>4, <1>5, ReadLineKeeps
  <1> QED
    BY <1>1, <1>4, <1>5, <1>6 DEF Session

LEMMA PressKeeps ==
    ASSUME Session, NEW key \in DOMAIN KeyBytes, NEW bytes \in KeyBytes[key],
           PressKey(key, bytes)
    PROVE  Session'
  <1>1. bytes \in Line
    BY TextAssumption DEF Line
  <1> QED
    BY <1>1 DEF Session, PressKey

\* a key of the line leaves a line with the cursor in it
LEMMA EditedKeeps ==
    ASSUME Session, NEW key, NEW c \in Text
    PROVE  Edited(key, c) \in EditLines
  <1>1. e \in EditLines
    BY DEF Session
  <1>2. /\ EditLeft(e) \in EditLines /\ EditRight(e) \in EditLines
        /\ EditHome(e) \in EditLines /\ EditEnd(e) \in EditLines
    BY <1>1, MovesAre
  <1>3. /\ EditInsert(e, c) \in EditLines /\ EditBackspace(e) \in EditLines
        /\ EditDelete(e) \in EditLines /\ EditKillToEnd(e) \in EditLines
        /\ EditKillToStart(e) \in EditLines /\ EditKillWordLeft(e) \in EditLines
    BY <1>1, EditsKeep
  <1> QED
    BY <1>1, <1>2, <1>3 DEF Edited

LEMMA ApplyKeeps ==
    ASSUME Session, NEW key, NEW c \in Text, NEW k \in Decoders, ApplyKey(key, c, k),
           pc = "editing"
    PROVE  /\ e' \in EditLines /\ recall' \in Recalls /\ recall'.count = hist.len
           /\ keys' = k /\ pc' = pc /\ hist' = hist
  <1>1. /\ Ring(hist) /\ recall \in Recalls /\ recall.count = hist.len /\ e \in EditLines
        /\ Edited(key, c) \in EditLines
    BY EditedKeeps DEF Session
  <1>2. keys' = k /\ pc' = pc /\ hist' = hist
    BY DEF ApplyKey
  <1>3. CASE key = "UP"
    <2>1. recall' = RecallUp(recall, e) /\ e' = Recalled(hist, recall, recall', e)
      BY <1>3 DEF ApplyKey
    <2> QED
      BY <1>1, <1>2, <2>1, RecallMoves
  <1>4. CASE key = "DOWN"
    <2>1. recall' = RecallDown(recall) /\ e' = Recalled(hist, recall, recall', e)
      BY <1>4 DEF ApplyKey
    <2> QED
      BY <1>1, <1>2, <2>1, RecallMoves
  <1>5. CASE key \notin {"UP", "DOWN"}
    <2>1. recall' = recall /\ e' = Edited(key, c)
      BY <1>5 DEF ApplyKey
    <2> QED
      BY <1>1, <1>2, <2>1
  <1> QED
    BY <1>3, <1>4, <1>5

LEMMA FeedsKeep == Session /\ FeedByte => Session'
  <1> SUFFICES ASSUME Session, FeedByte PROVE Session'
    OBVIOUS
  <1> DEFINE c == Head(input)
             fed == EditKeysFeed(keys, c)
  <1>1. /\ pc = "editing" /\ input # <<>> /\ input' = Tail(input) /\ file' = file
        /\ \/ ApplyKey(fed.key, c, fed.keys) \/ Submit(fed.key)
           \/ Interrupt(fed.key) \/ EndOfInput(fed.key)
    BY DEF FeedByte
  <1>2. c \in Text /\ input' \in Line /\ fed.keys \in Decoders /\ file' \in Seq(Line)
    BY <1>1, InputIs, FeedKeeps DEF Session
  <1>3. Ring(hist) /\ e.buf \in Line
    BY Halves DEF Session
  <1> HIDE DEF c, fed
  <1>4. CASE ApplyKey(fed.key, c, fed.keys)
    <2>1. /\ e' \in EditLines /\ recall' \in Recalls /\ recall'.count = hist.len
          /\ keys' = fed.keys /\ pc' = pc /\ hist' = hist
      BY <1>1, <1>2, <1>4, ApplyKeeps
    <2> QED
      BY <1>1, <1>2, <1>3, <2>1 DEF Session
  <1>5. CASE Submit(fed.key)
    <2>1. Ring(hist')
      BY <1>3, <1>5, AddRemembers DEF Submit
    <2>2. ReadLine(hist') /\ pc' \in {"editing", "saving"}
      BY <1>5 DEF Submit
    <2> QED
      BY <1>2, <2>1, <2>2, ReadLineKeeps DEF Session
  <1>6. CASE Interrupt(fed.key) \/ EndOfInput(fed.key)
    <2>1. hist' = hist /\ ReadLine(hist) /\ pc' \in {"editing", "saving"}
      BY <1>1, <1>6 DEF Interrupt, EndOfInput
    <2> QED
      BY <1>2, <1>3, <2>1, ReadLineKeeps DEF Session
  <1> QED
    BY <1>1, <1>4, <1>5, <1>6

LEMMA HangUpKeeps == Session /\ HangUp => Session'
  <1> SUFFICES ASSUME Session, HangUp PROVE Session'
    OBVIOUS
  <1>1. /\ pc' \in {"saving", "off"} /\ input' = <<>> /\ ReadLine(hist') /\ file' = file
        /\ hist' = RingInit \/ hist' = hist
    BY DEF HangUp
  <1>2. Ring(hist')
    BY <1>1, RingStarts DEF Session
  <1>3. file' \in Seq(Line) /\ input' \in Line
    BY <1>1, InitIs DEF Session
  <1> QED
    BY <1>1, <1>2, <1>3, ReadLineKeeps DEF Session

LEMMA SaveKeeps == Session /\ SaveHistory => Session'
  <1> SUFFICES ASSUME Session, SaveHistory PROVE Session'
    OBVIOUS
  <1>1. /\ pc' = "off" /\ hist' = RingInit /\ ReadLine(hist') /\ input' = input
        /\ file' \in {file} \cup TornSaves(hist) \cup {HistorySave(hist)}
    BY DEF SaveHistory
  <1>2. Ring(hist) /\ file \in Seq(Line) /\ input \in Line
    BY DEF Session
  <1>3. file' \in Seq(Line)
    BY <1>1, <1>2, SavesAre
  <1>4. Ring(hist')
    BY <1>1, RingStarts
  <1> QED
    BY <1>1, <1>2, <1>3, <1>4, ReadLineKeeps DEF Session

LEMMA SessionStep == Session /\ [Next]_vars => Session'
  <1> SUFFICES ASSUME Session, [Next]_vars PROVE Session'
    OBVIOUS
  <1>1. CASE UNCHANGED vars
    BY <1>1 DEF Session, vars
  <1>2. CASE Next
    BY <1>2, StartKeeps, PressKeeps, FeedsKeep, HangUpKeeps, SaveKeeps DEF Next
  <1> QED
    BY <1>1, <1>2

LEMMA SessionAlways == Spec => []Session
  BY SessionInit, SessionStep, PTL DEF Spec

(* TypeOK: the cursor stays in the line and recall in the history, exactly *)
(* the live slots of the ring hold lines, and the decoder never keeps more *)
(* than PendingMax digits, whatever bytes the keyboard sends.              *)
THEOREM TypeCorrect == Spec => []TypeOK
  <1>1. Session => TypeOK
    <2> SUFFICES ASSUME Session PROVE TypeOK
      OBVIOUS
    <2>1. pc \in {"off", "editing", "saving"}
      BY DEF Session
    <2>2. keys.state \in KeyStates /\ Len(keys.pending) <= PendingMax
      BY DEF Session, Decoders
    <2>3. e.cursor \in 0 .. Len(e.buf)
      BY DEF Session, EditLines
    <2>4. recall.idx \in 0 .. recall.count
      BY DEF Session, Recalls
    <2>5. pc = "editing" => recall.count = HistoryCount(hist)
      BY DEF Session, HistoryCount
    <2>6. RingTypeOK(hist)
      BY DEF Session, Ring
    <2> QED
      BY <2>1, <2>2, <2>3, <2>4, <2>5, <2>6 DEF TypeOK
  <1> QED
    BY <1>1, SessionAlways, PTL

-----------------------------------------------------------------------------
(* The refinement: each key of a terminal the decoder understands does     *)
(* what the contract says of it with the last of its bytes, and nothing    *)
(* before.                                                                 *)

(* What is still to come of a key, and how far the decoder is with it.     *)
Arriving ==
    IF input = <<>> THEN pressing = "none" /\ keys \in Resting
    ELSE /\ pressing \in DOMAIN KeyBytes
         /\ \E bytes \in KeyBytes[pressing], k \in Resting :
            \E n \in 0 .. Len(bytes) - 1 :
                /\ input = SubSeq(bytes, n + 1, Len(bytes))
                /\ keys = Decoder(k, bytes)[n].keys

(* Away from the prompt no line is being edited.                           *)
Between ==
    /\ pc # "editing" => e = EditInit /\ recall = RecallInit(hist) /\ input = <<>>
    /\ pc = "off" => hist = RingInit

Prompting == Session /\ Arriving /\ Between

LEMMA StayIs ==
    ASSUME pc' = pc, recall' = recall, hist' = hist, file' = file, trouble' = trouble
    PROVE  Contract!Stay
  BY DEF Contract!Stay, AtBottom

LEMMA TypeImplements ==
    ASSUME Session, NEW c \in Text, e' = EditInsert(e, c), Contract!Stay
    PROVE  Contract!Type(c)
  <1>1. /\ Before(e) \in Line /\ After(e) \in Line
        /\ EditInsert(e, c) = Split(Append(Before(e), c), After(e))
        /\ Append(Before(e), c) \in Line
    BY Halves, InsertIs DEF Session
  <1> DEFINE l == Append(Before(e), c)
             r == After(e)
  <1>2. Before(Split(l, r)) = l /\ After(Split(l, r)) = r
    BY <1>1, SplitIs
  <1>3. Before(e') = Append(Before(e), c) /\ After(e') = After(e)
    BY <1>1, <1>2, Zenon
  <1> QED
    BY <1>3 DEF Contract!Type

(* A move keeps the line and puts the cursor where the contract has it.    *)
LEMMA CursorIs ==
    ASSUME NEW e0 \in EditLines, NEW n \in 0 .. Len(e0.buf)
    PROVE  \A e1 \in EditLines :
              e1.buf = e0.buf /\ e1.cursor = n =>
                /\ Before(e1) \o After(e1) = Before(e0) \o After(e0)
                /\ Len(Before(e1)) = n
  BY Halves

LEMMA MoveImplements ==
    ASSUME Session, Contract!Stay, NEW key,
           \/ key = "Left" /\ e' = EditLeft(e)
           \/ key = "Right" /\ e' = EditRight(e)
           \/ key = "Home" /\ e' = EditHome(e)
           \/ key = "End" /\ e' = EditEnd(e)
    PROVE  Contract!Move(key)
  <1> DEFINE l == Before(e)
             r == After(e)
  <1>1. /\ e \in EditLines /\ e.cursor \in Nat /\ Len(e.buf) \in Nat /\ e.cursor <= Len(e.buf)
        /\ l \in Line /\ r \in Line /\ Len(l) = e.cursor /\ Len(r) = Len(e.buf) - e.cursor
        /\ l \o r = e.buf
    BY Halves DEF Session
  <1>2. (l = <<>> <=> e.cursor = 0) /\ (r = <<>> <=> e.cursor = Len(e.buf))
    BY <1>1 DEF Line
  <1>3. /\ e' \in EditLines /\ e'.buf = e.buf
        /\ e'.cursor = CASE key = "Left" -> IF l = <<>> THEN 0 ELSE Len(l) - 1
                         [] key = "Right" -> IF r = <<>> THEN Len(l) ELSE Len(l) + 1
                         [] key = "Home" -> 0
                         [] key = "End" -> Len(l) + Len(r)
    <2>1. CASE key = "Left" /\ e' = EditLeft(e)
      BY <1>1, <1>2, <2>1, MovesAre
    <2>2. CASE key = "Right" /\ e' = EditRight(e)
      BY <1>1, <1>2, <2>2, MovesAre
    <2>3. CASE key = "Home" /\ e' = EditHome(e)
      BY <1>1, <1>2, <2>3, MovesAre
    <2>4. CASE key = "End" /\ e' = EditEnd(e)
      BY <1>1, <1>2, <2>4, MovesAre
    <2> QED
      BY <2>1, <2>2, <2>3, <2>4
  <1>4. Before(e') \o After(e') = e.buf /\ Len(Before(e')) = e'.cursor
    BY <1>3, Halves
  <1> QED
    BY <1>1, <1>3, <1>4 DEF Contract!Move

LEMMA EraseImplements ==
    ASSUME Session, Contract!Stay, NEW key,
           \/ key = "Backspace" /\ e' = EditBackspace(e)
           \/ key \in {"Delete", "CtrlD"} /\ e' = EditDelete(e)
           \/ key = "KillEnd" /\ e' = EditKillToEnd(e)
           \/ key = "KillStart" /\ e' = EditKillToStart(e)
           \/ key = "KillWord" /\ e' = EditKillWordLeft(e)
    PROVE  Contract!Erase(key)
  <1> DEFINE l == Before(e)
             r == After(e)
  <1>1. e \in EditLines /\ l \in Line /\ r \in Line /\ <<>> \in Line
    BY Halves, InitIs DEF Session
  <1>2. CASE key = "Backspace" /\ e' = EditBackspace(e)
    <2>1. l # <<>> => Contract!Front(l) \in Line
      BY <1>1, FrontIs
    <2>2. Before(e') = (IF l = <<>> THEN l ELSE Contract!Front(l)) /\ After(e') = r
      BY <1>1, <1>2, <2>1, BackspaceIs, SplitIs
    <2> QED
      BY <1>2, <2>2 DEF Contract!Erase
  <1>3. CASE key \in {"Delete", "CtrlD"} /\ e' = EditDelete(e)
    <2>1. Before(e') = l /\ After(e') = IF r = <<>> THEN r ELSE Tail(r)
      <3>1. /\ e' = IF r = <<>> THEN e ELSE Split(l, Tail(r))
            /\ r # <<>> => Tail(r) \in Line
        BY <1>1, <1>3, DeleteIs
      <3>2. CASE r = <<>>
        BY <3>1, <3>2
      <3>3. CASE r # <<>>
        BY <1>1, <3>1, <3>3, SplitIs
      <3> QED
        BY <3>2, <3>3
    <2> QED
      BY <1>3, <2>1 DEF Contract!Erase
  <1>4. CASE key = "KillEnd" /\ e' = EditKillToEnd(e)
    <2>1. Before(e') = l /\ After(e') = <<>>
      BY <1>1, <1>4, KillsAre, SplitIs
    <2> QED
      BY <1>4, <2>1 DEF Contract!Erase
  <1>5. CASE key = "KillStart" /\ e' = EditKillToStart(e)
    <2>1. Before(e') = <<>> /\ After(e') = r
      BY <1>1, <1>5, KillsAre, SplitIs
    <2> QED
      BY <1>5, <2>1 DEF Contract!Erase
  <1>6. CASE key = "KillWord" /\ e' = EditKillWordLeft(e)
    <2>1. Before(e') = Contract!WithoutWord(l) /\ After(e') = r
      BY <1>1, <1>6, KillWordIs, SplitIs
    <2> QED
      BY <1>6, <2>1 DEF Contract!Erase
  <1> QED
    BY <1>2, <1>3, <1>4, <1>5, <1>6

\* what the contract shows after a line was set
LEMMA ShowIs ==
    ASSUME NEW t \in Line, e' = EditSet(t)
    PROVE  Contract!Show(t)
  <1>1. Before(e') = t /\ After(e') = <<>>
    BY SetIs, SplitIs, InitIs
  <1> QED
    BY <1>1 DEF Contract!Show

LEMMA UpImplements ==
    ASSUME Session, pc = "editing", UNCHANGED <<pc, hist, file, trouble>>,
           recall' = RecallUp(recall, e), e' = Recalled(hist, recall, recall', e)
    PROVE  Contract!Up
  <1> DEFINE s == Entries(hist)
             place == recall.count - recall.idx
  <1>1. /\ e \in EditLines /\ Ring(hist) /\ recall \in Recalls /\ recall.count = hist.len
        /\ recall.count \in Nat /\ recall.idx \in Nat /\ recall.idx <= recall.count
        /\ Len(s) = recall.count
    BY EntriesAre DEF Session, Recalls
  <1>2. UNCHANGED <<IF pc = "saving" THEN "leaving" ELSE pc, Entries(hist), file, trouble>>
    OBVIOUS
  <1>3. CASE recall.idx = 0
    <2>1. recall' = recall /\ e' = e
      BY <1>1, <1>3, RecallStays, RecallMoves
    <2>2. place = Len(s)
      BY <1>1, <1>3
    <2> QED
      BY <1>2, <2>1, <2>2 DEF Contract!Up, AtBottom
  <1>4. CASE recall.idx # 0
    <2>1. /\ recall' \in Recalls /\ recall'.count = recall.count
          /\ recall'.idx = recall.idx - 1
          /\ recall'.stash = IF recall.idx = recall.count THEN e.buf ELSE recall.stash
      BY <1>1, <1>4, RecallUpIs
    <2>2. /\ recall'.idx \in 0 .. hist.len - 1 /\ recall'.idx # recall.idx
          /\ recall'.idx # recall'.count /\ recall'.idx + 1 = Len(s) - place
          /\ place # Len(s) /\ (place = 0 <=> recall.idx = recall.count)
          /\ recall'.count - recall'.idx = place + 1
      <3>1. PICK i \in Nat, n \in Nat : i = recall.idx /\ n = recall.count
        BY <1>1
      <3>2. /\ i <= n /\ i # 0 /\ recall'.idx = i - 1 /\ recall'.count = n
            /\ hist.len = n /\ Len(s) = n /\ place = n - i
        BY <1>1, <1>4, <2>1, <3>1
      <3> HIDE DEF s, place
      <3>3. i - 1 \in 0 .. n - 1 /\ i - 1 # i /\ i - 1 # n
        BY <3>2
      <3>4. i - 1 + 1 = n - (n - i) /\ n - i # n /\ (n - i = 0 <=> i = n)
        BY <3>2
      <3> QED
        BY <3>1, <3>2, <3>3, <3>4
    <2>3. e' = EditSet(HistoryGet(hist, recall'.idx))
      BY <2>2 DEF Recalled
    <2>4. HistoryGet(hist, recall'.idx) = s[Len(s) - place] /\ s[Len(s) - place] \in Line
      BY <1>1, <2>2, GetIs
    <2>5. Contract!Show(s[Len(s) - place])
      BY <2>3, <2>4, ShowIs
    <2>6. e.buf = Before(e) \o After(e)
      BY <1>1, Halves
    <2> QED
      BY <1>2, <2>1, <2>2, <2>5, <2>6 DEF Contract!Up, AtBottom
  <1> QED
    BY <1>3, <1>4

LEMMA DownImplements ==
    ASSUME Session, pc = "editing", UNCHANGED <<pc, hist, file, trouble>>,
           recall' = RecallDown(recall), e' = Recalled(hist, recall, recall', e)
    PROVE  Contract!Down
  <1> DEFINE s == Entries(hist)
             place == recall.count - recall.idx
  <1>1. /\ e \in EditLines /\ Ring(hist) /\ recall \in Recalls /\ recall.count = hist.len
        /\ recall.count \in Nat /\ recall.idx \in Nat /\ recall.idx <= recall.count
        /\ Len(s) = recall.count /\ recall.stash \in Line
    BY EntriesAre DEF Session, Recalls
  <1>2. UNCHANGED <<IF pc = "saving" THEN "leaving" ELSE pc, Entries(hist), file, trouble>>
    OBVIOUS
  <1>3. CASE recall.idx = recall.count
    <2>1. recall' = recall /\ e' = e
      BY <1>1, <1>3, RecallStays, RecallMoves
    <2>2. place = 0
      BY <1>1, <1>3
    <2> QED
      BY <1>2, <2>1, <2>2 DEF Contract!Down, AtBottom
  <1>4. CASE recall.idx # recall.count
    <2>1. /\ recall' \in Recalls /\ recall'.count = recall.count
          /\ recall'.idx = recall.idx + 1 /\ recall'.stash = recall.stash
      BY <1>1, <1>4, RecallDownIs
    <2>2. /\ recall'.idx # recall.idx /\ place # 0
          /\ (place = 1 <=> recall'.idx = recall'.count)
          /\ recall'.count - recall'.idx = place - 1
      BY <1>1, <1>4, <2>1
    <2>3. CASE place = 1
      <3>1. e' = EditSet(recall.stash)
        BY <2>1, <2>2, <2>3 DEF Recalled
      <3>2. Contract!Show(recall.stash)
        BY <1>1, <3>1, ShowIs
      <3> QED
        BY <1>2, <1>4, <2>1, <2>2, <2>3, <3>2 DEF Contract!Down, AtBottom
    <2>4. CASE place # 1
      <3>1. recall'.idx \in 0 .. hist.len - 1 /\ recall'.idx + 1 = Len(s) - place + 2
        BY <1>1, <2>1, <2>2, <2>4
      <3>2. e' = EditSet(HistoryGet(hist, recall'.idx))
        BY <2>2, <2>4 DEF Recalled
      <3>3. /\ HistoryGet(hist, recall'.idx) = s[Len(s) - place + 2]
            /\ s[Len(s) - place + 2] \in Line
        BY <1>1, <3>1, GetIs
      <3>4. Contract!Show(s[Len(s) - place + 2])
        BY <3>2, <3>3, ShowIs
      <3> QED
        BY <1>2, <1>4, <2>1, <2>2, <2>4, <3>4 DEF Contract!Down, AtBottom
    <2> QED
      BY <2>3, <2>4
  <1> QED
    BY <1>3, <1>4

(* A line that is begun is empty, with nothing recalled.                   *)
LEMMA FreshIs ==
    ASSUME NEW h, Ring(h), ReadLine(h)
    PROVE  /\ Contract!FreshLine
           /\ keys' \in Resting /\ e' = EditInit /\ recall' = RecallInit(h)
  <1>1. e' = EditInit /\ recall' = RecallInit(h) /\ keys' = Ground
    BY DEF ReadLine
  <1>2. Before(e') = <<>> /\ After(e') = <<>>
    BY <1>1, InitIs, SplitIs
  <1>3. recall'.count - recall'.idx = 0 /\ recall'.idx = recall'.count
    <2>1. h.len \in Nat
      BY DEF Ring, Rings
    <2> QED
      BY <1>1, <2>1, RecallStartsAt
  <1> QED
    BY <1>1, <1>2, <1>3, RestingIs DEF Contract!FreshLine, Contract!Show, AtBottom

(* What is left of a sequence after its next member.                       *)
LEMMA RestIs ==
    ASSUME NEW s \in Line, NEW n \in 0 .. Len(s) - 1
    PROVE  /\ SubSeq(s, n + 1, Len(s)) # <<>>
           /\ Head(SubSeq(s, n + 1, Len(s))) = s[n + 1]
           /\ Tail(SubSeq(s, n + 1, Len(s))) = SubSeq(s, n + 2, Len(s))
           /\ SubSeq(s, n + 2, Len(s)) = <<>> <=> n + 1 = Len(s)
  <1> DEFINE t == SubSeq(s, n + 1, Len(s))
             u == SubSeq(s, n + 2, Len(s))
  <1>1. s \in Seq(Text) /\ Len(s) \in Nat /\ n \in Nat /\ n + 1 <= Len(s)
    BY DEF Line
  <1>2. /\ t \in Seq(Text) /\ Len(t) = Len(s) - n
        /\ \A i \in 1 .. Len(s) - n : t[i] = s[n + i]
    BY <1>1
  <1>3. /\ u \in Seq(Text) /\ Len(u) = Len(s) - n - 1
        /\ \A i \in 1 .. Len(s) - n - 1 : u[i] = s[n + 1 + i]
    BY <1>1
  <1> HIDE DEF t, u
  <1>4. t # <<>> /\ Head(t) = s[n + 1]
    BY <1>1, <1>2
  <1>5. /\ Tail(t) \in Seq(Text) /\ Len(Tail(t)) = Len(s) - n - 1
        /\ \A i \in 1 .. Len(s) - n - 1 : Tail(t)[i] = t[i + 1]
    BY <1>1, <1>2, <1>4, HeadTailProperties
  <1>6. Tail(t) = u
    <2>1. \A i \in 1 .. Len(s) - n - 1 : Tail(t)[i] = u[i]
      <3> TAKE i \in 1 .. Len(s) - n - 1
      <3>1. i + 1 \in 1 .. Len(s) - n /\ n + (i + 1) = n + 1 + i
        BY <1>1
      <3> QED
        BY <1>2, <1>3, <1>5, <3>1
    <2> QED
      BY <1>3, <1>5, <2>1, SeqEqual
  <1>7. u = <<>> <=> n + 1 = Len(s)
    BY <1>1, <1>3
  <1> QED
    BY <1>4, <1>6, <1>7 DEF t, u

(* A byte is the next one of a key: before the last one the decoder names  *)
(* no key, and with the last one it names the key of the contract.         *)
LEMMA ByteIs ==
    ASSUME Speaks(KeyBytes), Prompting, FeedByte
    PROVE  LET fed == EditKeysFeed(keys, Head(input))
           IN  /\ pressing \in DOMAIN KeyBytes /\ pressing # "none"
               /\ \/ /\ fed.key = "NONE" /\ pressing' = pressing
                     /\ keys' = fed.keys => Arriving'
                  \/ /\ fed.key = KeyOf(pressing) /\ pressing' = "none" /\ input' = <<>>
                     /\ fed.keys \in Resting
                     /\ pressing \in Chars => Head(input) = pressing
  <1> DEFINE fed == EditKeysFeed(keys, Head(input))
  <1>1. /\ pc = "editing" /\ input # <<>> /\ input' = Tail(input)
        /\ pressing' = IF input' = <<>> THEN "none" ELSE pressing
    BY DEF FeedByte
  <1>2. pressing \in DOMAIN KeyBytes /\ pressing # "none"
    BY <1>1 DEF Prompting, Arriving, Speaks
  <1>3. PICK bytes \in KeyBytes[pressing], k \in Resting : \E n \in 0 .. Len(bytes) - 1 :
                /\ input = SubSeq(bytes, n + 1, Len(bytes))
                /\ keys = Decoder(k, bytes)[n].keys
    BY <1>1 DEF Prompting, Arriving
  <1>4. PICK n \in 0 .. Len(bytes) - 1 : /\ input = SubSeq(bytes, n + 1, Len(bytes))
                                         /\ keys = Decoder(k, bytes)[n].keys
    BY <1>3
  <1>5. bytes \in Line /\ Len(bytes) \in Nat /\ n + 1 \in 1 .. Len(bytes) /\ (n + 1) - 1 = n
    <2>1. bytes \in Seq(Text)
      BY <1>2, TextAssumption
    <2> QED
      BY <2>1 DEF Line
  <1> DEFINE run == Decoder(k, bytes)
  <1>6. /\ Head(input) = bytes[n + 1] /\ input' = SubSeq(bytes, n + 2, Len(bytes))
        /\ input' = <<>> <=> n + 1 = Len(bytes)
    BY <1>1, <1>4, <1>5, RestIs
  <1>7. run[n + 1] = fed
    <2>1. k \in Decoders
      BY RestingIs
    <2>2. run[n + 1] = EditKeysFeed(run[(n + 1) - 1].keys, bytes[n + 1])
      BY <1>5, <2>1, DecoderIs DEF Line
    <2> QED
      BY <1>4, <1>5, <1>6, <2>2
  <1>8. /\ \A i \in 1 .. Len(bytes) - 1 : run[i].key = "NONE"
        /\ run[Len(bytes)].key = KeyOf(pressing) /\ run[Len(bytes)].keys \in Resting
        /\ pressing \in Chars => bytes[Len(bytes)] = pressing
    <2>1. Spells(pressing, bytes)
      BY <1>2 DEF Speaks
    <2> QED
      BY <2>1 DEF Spells
  <1> HIDE DEF run, fed
  <1>9. CASE n + 1 = Len(bytes)
    <2>1. input' = <<>> /\ pressing' = "none"
      BY <1>1, <1>6, <1>9
    <2> QED
      BY <1>2, <1>6, <1>7, <1>8, <1>9, <2>1 DEF fed
  <1>10. CASE n + 1 # Len(bytes)
    <2>1. input' # <<>> /\ pressing' = pressing
      BY <1>1, <1>6, <1>10
    <2>2. n + 1 \in 1 .. Len(bytes) - 1 /\ n + 1 \in 0 .. Len(bytes) - 1 /\ (n + 1) + 1 = n + 2
      BY <1>5, <1>10
    <2>3. fed.key = "NONE"
      BY <1>7, <1>8, <2>2
    <2>4. keys' = fed.keys => Arriving'
      <3>1. /\ input' = SubSeq(bytes, (n + 1) + 1, Len(bytes))
            /\ keys' = fed.keys => keys' = Decoder(k, bytes)[n + 1].keys
        BY <1>6, <1>7, <2>2 DEF run
      <3> QED
        BY <1>2, <2>1, <2>2, <3>1 DEF Arriving
    <2> QED
      BY <1>2, <2>1, <2>3, <2>4 DEF fed
  <1> QED
    BY <1>9, <1>10

-----------------------------------------------------------------------------
(* The steps.                                                              *)

LEMMA PromptingInit == Init => Prompting /\ Contract!Init
  <1> SUFFICES ASSUME Init PROVE Prompting /\ Contract!Init
    OBVIOUS
  <1>1. /\ pc = "off" /\ pressing = "none" /\ input = <<>> /\ keys = Ground /\ e = EditInit
        /\ hist = RingInit /\ recall = RecallInit(hist) /\ trouble = FALSE
    BY DEF Init
  <1>2. Prompting
    BY <1>1, SessionInit, RestingIs DEF Prompting, Arriving, Between
  <1>3. Before(e) = <<>> /\ After(e) = <<>> /\ Entries(hist) = <<>>
    BY <1>1, InitIs, SplitIs, RingStarts
  <1>4. recall.idx = recall.count /\ recall.count - recall.idx = 0
    <2>1. hist.len \in Nat
      BY <1>1 DEF RingInit
    <2> QED
      BY <1>1, <2>1, RingStarts, RecallStartsAt
  <1> QED
    BY <1>1, <1>2, <1>3, <1>4 DEF Contract!Init, AtBottom

(* A key that leaves the line unfinished does what the contract says.      *)
LEMMA ApplyImplements ==
    ASSUME Speaks(KeyBytes), Session, pc = "editing", NEW c \in Text, NEW k,
           NEW key \in DOMAIN KeyBytes, key \in Chars => c = key,
           ApplyKey(KeyOf(key), c, k), file' = file, trouble' = trouble
    PROVE  Contract!Act(key)
  <1>1. /\ ~Finishes(KeyOf(key)) /\ UNCHANGED <<pc, hist, file, trouble>>
        /\ e \in EditLines
    BY DEF ApplyKey, Session
  <1>2. KeyOf(key) \notin {"UP", "DOWN"} =>
           recall' = recall /\ e' = Edited(KeyOf(key), c) /\ Contract!Stay
    <2>1. KeyOf(key) \notin {"UP", "DOWN"} => recall' = recall /\ e' = Edited(KeyOf(key), c)
      BY DEF ApplyKey
    <2> QED
      BY <1>1, <2>1, StayIs
  <1>3. CASE key \in Chars
    <2>1. KeyOf(key) = "CHAR" /\ c = key
      BY <1>3 DEF KeyOf
    <2>2. e' = EditInsert(e, c)
      BY <1>2, <2>1 DEF Edited
    <2>3. Contract!Type(key)
      BY <1>2, <2>1, <2>2, TypeImplements
    <2>4. key \notin {"Left", "Right", "Home", "End", "Backspace", "Delete", "KillEnd",
                      "KillStart", "KillWord", "CtrlD", "Up", "Down", "Enter", "CtrlC"}
      BY <1>3 DEF Speaks, Named
    <2> QED
      BY <1>3, <2>3, <2>4 DEF Contract!Act
  <1>4. CASE key \in DOMAIN Named
    <2>1. key \notin Chars /\ KeyOf(key) = Named[key]
      BY <1>4 DEF Speaks, KeyOf
    <2>2. CASE key \in {"Left", "Right", "Home", "End"}
      <3>1. \/ key = "Left" /\ e' = EditLeft(e)
            \/ key = "Right" /\ e' = EditRight(e)
            \/ key = "Home" /\ e' = EditHome(e)
            \/ key = "End" /\ e' = EditEnd(e)
        BY <1>2, <2>1, <2>2 DEF Edited, Named
      <3>2. Contract!Stay
        BY <1>2, <2>1, <2>2 DEF Named
      <3>3. Contract!Move(key)
        BY <3>1, <3>2, MoveImplements
      <3> QED
        BY <2>1, <2>2, <3>3 DEF Contract!Act
    <2>3. CASE key \in {"Backspace", "Delete", "KillEnd", "KillStart", "KillWord", "CtrlD"}
      <3>1. \/ key = "Backspace" /\ e' = EditBackspace(e)
            \/ key \in {"Delete", "CtrlD"} /\ e' = EditDelete(e)
            \/ key = "KillEnd" /\ e' = EditKillToEnd(e)
            \/ key = "KillStart" /\ e' = EditKillToStart(e)
            \/ key = "KillWord" /\ e' = EditKillWordLeft(e)
        BY <1>2, <2>1, <2>3 DEF Edited, Named
      <3>2. Contract!Stay
        BY <1>2, <2>1, <2>3 DEF Named
      <3>3. Contract!Erase(key)
        BY <3>1, <3>2, EraseImplements
      <3>4. key = "CtrlD" => <<Before(e), After(e)>> # <<<<>>, <<>>>>
        <4>1. key = "CtrlD" => e.buf # <<>>
          BY <1>1, <2>1 DEF Named, Finishes
        <4>2. Before(e) \o After(e) = e.buf /\ <<>> \o <<>> = <<>>
          BY <1>1, Halves, InitIs DEF EditInit, Split
        <4> QED
          BY <4>1, <4>2
      <3> QED
        BY <2>1, <2>3, <3>3, <3>4 DEF Contract!Act, Contract!line
    <2>4. CASE key = "Up"
      <3>1. KeyOf(key) = "UP"
        BY <2>1, <2>4 DEF Named
      <3>2. recall' = RecallUp(recall, e) /\ e' = Recalled(hist, recall, recall', e)
        BY <3>1 DEF ApplyKey
      <3>3. Contract!Up
        BY <1>1, <3>2, UpImplements
      <3> QED
        BY <2>1, <2>4, <3>3 DEF Contract!Act
    <2>5. CASE key = "Down"
      <3>1. KeyOf(key) = "DOWN"
        BY <2>1, <2>5 DEF Named
      <3>2. recall' = RecallDown(recall) /\ e' = Recalled(hist, recall, recall', e)
        BY <3>1 DEF ApplyKey
      <3>3. Contract!Down
        BY <1>1, <3>2, DownImplements
      <3> QED
        BY <2>1, <2>5, <3>3 DEF Contract!Act
    <2>6. key \notin {"Enter", "CtrlC"}
      BY <1>1, <2>1 DEF Named, Finishes
    <2> QED
      BY <1>4, <2>2, <2>3, <2>4, <2>5, <2>6 DEF Named
  <1>5. CASE key \notin Chars /\ key \notin DOMAIN Named
    <2>1. KeyOf(key) = "NONE"
      BY <1>5 DEF KeyOf
    <2>2. e' = e /\ Contract!Stay
      BY <1>2, <2>1 DEF Edited
    <2>3. key \notin {"Left", "Right", "Home", "End", "Backspace", "Delete", "KillEnd",
                      "KillStart", "KillWord", "CtrlD", "Up", "Down", "Enter", "CtrlC"}
      BY <1>5 DEF Named
    <2> QED
      BY <1>5, <2>2, <2>3 DEF Contract!Act, Contract!line
  <1> QED
    BY <1>3, <1>4, <1>5

LEMMA FeedImplements ==
    ASSUME Speaks(KeyBytes), Prompting, FeedByte
    PROVE  /\ Arriving' /\ Between'
           /\ Contract!Next \/ UNCHANGED Contract!vars
  <1> DEFINE c == Head(input)
             fed == EditKeysFeed(keys, c)
             key == pressing
  <1>1. /\ pc = "editing" /\ input # <<>> /\ file' = file /\ trouble' = trouble
        /\ \/ ApplyKey(fed.key, c, fed.keys) \/ Submit(fed.key)
           \/ Interrupt(fed.key) \/ EndOfInput(fed.key)
    BY DEF FeedByte
  <1>2. Session /\ Ring(hist) /\ e \in EditLines /\ c \in Text
    BY <1>1, InputIs DEF Prompting, Session
  <1>3. /\ key \in DOMAIN KeyBytes /\ key # "none"
        /\ \/ /\ fed.key = "NONE" /\ pressing' = pressing
              /\ keys' = fed.keys => Arriving'
           \/ /\ fed.key = KeyOf(key) /\ pressing' = "none" /\ input' = <<>>
              /\ fed.keys \in Resting
              /\ key \in Chars => c = key
    BY ByteIs
  <1> HIDE DEF c, fed
  <1>4. CASE fed.key = "NONE" /\ pressing' = pressing /\ (keys' = fed.keys => Arriving')
    <2>1. ApplyKey("NONE", c, fed.keys)
      BY <1>1, <1>4 DEF Submit, Interrupt, EndOfInput
    <2>2. keys' = fed.keys /\ e' = e /\ recall' = recall /\ pc' = pc /\ hist' = hist
      BY <2>1 DEF ApplyKey, Edited
    <2>3. Arriving' /\ Between'
      BY <1>1, <1>4, <2>2 DEF Between
    <2>4. Contract!Stay
      BY <1>1, <2>2, StayIs
    <2> QED
      BY <1>4, <2>2, <2>3, <2>4 DEF Contract!Stay, Contract!vars
  <1>5. CASE /\ fed.key = KeyOf(key) /\ pressing' = "none" /\ input' = <<>>
             /\ fed.keys \in Resting
             /\ key \in Chars => c = key
    <2>1. Contract!Act(key) => Contract!Next
      BY <1>1, <1>3, <1>5 DEF Contract!Next, Contract!Press
    <2>2. CASE ApplyKey(fed.key, c, fed.keys)
      <3>1. Contract!Act(key)
        BY <1>1, <1>2, <1>3, <1>5, <2>2, ApplyImplements
      <3>2. keys' = fed.keys /\ pc' = pc
        BY <2>2 DEF ApplyKey
      <3>3. Arriving' /\ Between'
        BY <1>1, <1>5, <3>2 DEF Arriving, Between
      <3> QED
        BY <2>1, <3>1, <3>3
    <2>3. CASE Submit(fed.key)
      <3>1. /\ KeyOf(key) = "ENTER" /\ hist' = HistoryAdd(hist, e.buf)
            /\ pc' \in {"editing", "saving"} /\ ReadLine(hist')
        BY <1>5, <2>3 DEF Submit
      <3>2. key = "Enter" /\ key \notin Chars
        BY <3>1 DEF KeyOf, Named
      <3>3. /\ Ring(hist') /\ Before(e) \o After(e) = e.buf
            /\ Entries(hist') = Contract!Remember(Entries(hist), e.buf)
        BY <1>2, <3>1, Halves, AddRemembers
      <3>4. /\ Contract!FreshLine /\ keys' \in Resting
            /\ e' = EditInit /\ recall' = RecallInit(hist')
        BY <3>1, <3>3, FreshIs
      <3>5. Contract!Enter
        BY <1>1, <3>1, <3>3, <3>4 DEF Contract!Enter
      <3>6. Contract!Act(key)
        BY <3>2, <3>5 DEF Contract!Act
      <3>7. Arriving' /\ Between'
        BY <1>5, <3>1, <3>4 DEF Arriving, Between
      <3> QED
        BY <2>1, <3>6, <3>7
    <2>4. CASE Interrupt(fed.key)
      <3>1. /\ KeyOf(key) = "INTERRUPT" /\ hist' = hist /\ pc' = pc /\ ReadLine(hist)
        BY <1>5, <2>4 DEF Interrupt
      <3>2. key = "CtrlC" /\ key \notin Chars
        BY <3>1 DEF KeyOf, Named
      <3>3. /\ Contract!FreshLine /\ keys' \in Resting
            /\ e' = EditInit /\ recall' = RecallInit(hist)
        BY <1>2, <3>1, FreshIs
      <3>4. Contract!Interrupt
        BY <1>1, <3>1, <3>3 DEF Contract!Interrupt
      <3>5. Contract!Act(key)
        BY <3>2, <3>4 DEF Contract!Act
      <3>6. Arriving' /\ Between'
        BY <1>1, <1>5, <3>1, <3>3 DEF Arriving, Between
      <3> QED
        BY <2>1, <3>5, <3>6
    <2>5. CASE EndOfInput(fed.key)
      <3>1. /\ KeyOf(key) = "EOF" /\ e.buf = <<>> /\ hist' = hist /\ ReadLine(hist)
            /\ pc' \in {"editing", "saving"}
        BY <1>5, <2>5 DEF EndOfInput
      <3>2. key = "CtrlD" /\ key \notin Chars
        BY <3>1 DEF KeyOf, Named
      <3>3. /\ Contract!FreshLine /\ keys' \in Resting
            /\ e' = EditInit /\ recall' = RecallInit(hist)
        BY <1>2, <3>1, FreshIs
      <3>4. Before(e) = <<>> /\ After(e) = <<>>
        <4>1. /\ Before(e) \in Seq(Text) /\ After(e) \in Seq(Text)
              /\ Len(Before(e)) = e.cursor /\ Len(After(e)) = Len(e.buf) - e.cursor
              /\ e.cursor \in Nat /\ e.cursor <= Len(e.buf)
          BY <1>2, Halves DEF Line
        <4>2. Len(e.buf) = 0
          BY <3>1
        <4> QED
          BY <4>1, <4>2
      <3>5. Contract!EndOfInput
        BY <1>1, <3>1, <3>3, <3>4 DEF Contract!EndOfInput
      <3>6. Contract!Act(key)
        BY <3>2, <3>4, <3>5 DEF Contract!Act, Contract!line
      <3>7. Arriving' /\ Between'
        BY <1>5, <3>1, <3>3 DEF Arriving, Between
      <3> QED
        BY <2>1, <3>6, <3>7
    <2> QED
      BY <1>1, <2>2, <2>3, <2>4, <2>5
  <1> QED
    BY <1>3, <1>4, <1>5

LEMMA StartImplements ==
    ASSUME Prompting, Start
    PROVE  Arriving' /\ Between' /\ Contract!Start
  <1>1. /\ pc = "off" /\ pc' = "editing" /\ ReadLine(hist') /\ trouble' \in BOOLEAN
        /\ UNCHANGED <<pressing, input, file>>
    BY DEF Start
  <1>2. PICK f \in IF trouble' THEN TornLines(file) ELSE {file} : hist' = HistoryLoad(f)
    BY DEF Start
  <1>3. file \in Seq(Line) /\ input = <<>> /\ pressing = "none"
    BY <1>1 DEF Prompting, Session, Arriving, Between
  <1>4. f \in Seq(Line) /\ f \in IF trouble' THEN Contract!Torn(file) ELSE {file}
    BY <1>2, <1>3, TornAre
  <1>5. Ring(hist') /\ Entries(hist') = Contract!Recovered(f)
    BY <1>2, <1>4, LoadRecovers
  <1>6. /\ Contract!FreshLine /\ keys' \in Resting
        /\ e' = EditInit /\ recall' = RecallInit(hist')
    BY <1>1, <1>5, FreshIs
  <1>7. Contract!Start
    BY <1>1, <1>3, <1>4, <1>5, <1>6 DEF Contract!Start
  <1> QED
    BY <1>1, <1>3, <1>6, <1>7 DEF Arriving, Between

LEMMA HangUpImplements ==
    ASSUME Prompting, HangUp
    PROVE  Arriving' /\ Between' /\ Contract!HangUp
  <1>1. /\ pc = "editing" /\ pc' \in {"saving", "off"} /\ pressing' = "none" /\ input' = <<>>
        /\ hist' = IF pc' = "off" THEN RingInit ELSE hist
        /\ ReadLine(hist') /\ UNCHANGED <<file, trouble>>
    BY DEF HangUp
  <1>2. Ring(hist') /\ Entries(hist') = IF pc' = "off" THEN <<>> ELSE Entries(hist)
    BY <1>1, RingStarts DEF Prompting, Session
  <1>3. /\ Contract!FreshLine /\ keys' \in Resting
        /\ e' = EditInit /\ recall' = RecallInit(hist')
    BY <1>1, <1>2, FreshIs
  <1>4. Contract!HangUp
    BY <1>1, <1>2, <1>3 DEF Contract!HangUp
  <1> QED
    BY <1>1, <1>3, <1>4 DEF Arriving, Between

LEMMA SaveImplements ==
    ASSUME Prompting, SaveHistory
    PROVE  Arriving' /\ Between' /\ Contract!Save
  <1>1. /\ pc = "saving" /\ pc' = "off" /\ hist' = RingInit /\ ReadLine(hist')
        /\ file' \in IF trouble THEN {file} \cup TornSaves(hist) ELSE {HistorySave(hist)}
        /\ UNCHANGED <<pressing, input, trouble>>
    BY DEF SaveHistory
  <1>2. /\ Ring(hist) /\ input = <<>> /\ pressing = "none"
        /\ e = EditInit /\ recall = RecallInit(hist)
    BY <1>1 DEF Prompting, Session, Arriving, Between
  <1>3. /\ Ring(hist') /\ Entries(hist') = <<>> /\ HistorySave(hist) = Entries(hist)
        /\ TornSaves(hist) \subseteq Contract!Torn(Entries(hist))
    BY <1>1, <1>2, RingStarts, SavesAre DEF HistorySave
  <1>4. /\ Contract!FreshLine /\ keys' \in Resting
        /\ e' = EditInit /\ recall' = RecallInit(hist')
    BY <1>1, <1>3, FreshIs
  <1>5. UNCHANGED <<Before(e), After(e), recall.count - recall.idx,
                    IF AtBottom THEN <<>> ELSE recall.stash>>
    <2>1. /\ recall.idx = recall.count /\ recall'.idx = recall'.count
          /\ recall.count \in Nat /\ recall'.count \in Nat
      BY <1>2, <1>3, <1>4, RecallStartsAt DEF Recalls
    <2>2. recall.count - recall.idx = 0 /\ recall'.count - recall'.idx = 0
      BY <2>1
    <2> QED
      BY <1>2, <1>4, <2>1, <2>2 DEF AtBottom
  <1>6. Contract!Save
    BY <1>1, <1>2, <1>3, <1>5 DEF Contract!Save
  <1> QED
    BY <1>1, <1>2, <1>4, <1>6 DEF Arriving, Between

LEMMA PressImplements ==
    ASSUME Speaks(KeyBytes), Prompting, NEW key \in DOMAIN KeyBytes,
           NEW bytes \in KeyBytes[key], PressKey(key, bytes)
    PROVE  Arriving' /\ Between' /\ Contract!Next
  <1>1. /\ pc = "editing" /\ input = <<>> /\ pressing' = key /\ input' = bytes
        /\ UNCHANGED <<pc, keys, e, recall, hist, file, trouble>>
    BY DEF PressKey
  <1>2. pressing = "none" /\ keys \in Resting
    BY <1>1 DEF Prompting, Arriving
  <1>3. bytes \in Seq(Text) /\ bytes # <<>> /\ Len(bytes) \in Nat /\ 0 \in 0 .. Len(bytes) - 1
    <2>1. bytes \in Seq(Text) /\ bytes # <<>>
      BY TextAssumption
    <2> QED
      BY <2>1
  <1>4. Arriving'
    <2>1. Decoder(keys, bytes)[0].keys = keys
      <3>1. keys \in Decoders
        BY <1>2, RestingIs
      <3>2. Decoder(keys, bytes)[0] = Fed(keys, "NONE")
        BY <1>3, <3>1, DecoderIs
      <3> QED
        BY <3>2 DEF Fed
    <2>2. SubSeq(bytes, 0 + 1, Len(bytes)) = bytes
      <3> DEFINE g == SubSeq(bytes, 0 + 1, Len(bytes))
      <3>1. g \in Seq(Text) /\ Len(g) = Len(bytes) /\ \A i \in 1 .. Len(bytes) : g[i] = bytes[i]
        BY <1>3
      <3> HIDE DEF g
      <3> QED
        BY <1>3, <3>1, SeqEqual DEF g
    <2> QED
      BY <1>1, <1>2, <1>3, <2>1, <2>2 DEF Arriving
  <1>5. Between'
    BY <1>1 DEF Between
  <1>6. Contract!Stay
    BY <1>1, StayIs
  <1>7. Contract!Arrive(key)
    BY <1>1, <1>6 DEF Contract!Arrive, Contract!line
  <1> QED
    BY <1>1, <1>2, <1>4, <1>5, <1>7 DEF Contract!Next

LEMMA PromptingStep ==
    ASSUME Speaks(KeyBytes), Prompting, [Next]_vars
    PROVE  Prompting' /\ [Contract!Next]_Contract!vars
  <1>1. Session'
    BY SessionStep DEF Prompting
  <1>2. CASE UNCHANGED vars
    <2>1. Arriving' /\ Between'
      BY <1>2 DEF vars, Prompting, Arriving, Between
    <2>2. UNCHANGED Contract!vars
      BY <1>2 DEF vars, Contract!vars, AtBottom
    <2> QED
      BY <1>1, <2>1, <2>2 DEF Prompting
  <1>3. CASE Next
    <2>1. /\ Arriving' /\ Between'
          /\ Contract!Next \/ UNCHANGED Contract!vars
      <3>1. CASE Start
        BY <3>1, StartImplements DEF Contract!Next
      <3>2. CASE \E key \in DOMAIN KeyBytes : \E bytes \in KeyBytes[key] : PressKey(key, bytes)
        BY <3>2, PressImplements
      <3>3. CASE FeedByte
        BY <3>3, FeedImplements
      <3>4. CASE HangUp
        BY <3>4, HangUpImplements DEF Contract!Next
      <3>5. CASE SaveHistory
        BY <3>5, SaveImplements DEF Contract!Next
      <3> QED
        BY <1>3, <3>1, <3>2, <3>3, <3>4, <3>5 DEF Next
    <2> QED
      BY <1>1, <2>1 DEF Prompting
  <1> QED
    BY <1>2, <1>3

(* The editor, the decoder and the history file implement the contract of  *)
(* the manual on every terminal the decoder understands: each key acts as  *)
(* the table of keys says, exactly when the last of its bytes arrives, Up  *)
(* and Down walk the newest Cap entries and come back to the draft, and    *)
(* what a shell saved is what the next one starts from.                    *)
THEOREM PromptRefinement ==
    ASSUME Speaks(KeyBytes)
    PROVE  Spec => ContractSpec
  <1>1. Init => Prompting /\ Contract!Init
    BY PromptingInit
  <1>2. Prompting /\ [Next]_vars => Prompting' /\ [Contract!Next]_Contract!vars
    BY PromptingStep
  <1> QED
    BY <1>1, <1>2, PTL DEF Spec, ContractSpec, Contract!Spec
=============================================================================
