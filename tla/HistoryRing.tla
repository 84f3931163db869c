----------------------------- MODULE HistoryRing -----------------------------
(***************************************************************************)
(* The command history (history.c): a ring of Cap slots, filled from       *)
(* "start", and the file it is loaded from and saved to, one entry a line. *)
(* A line is a sequence of characters; the empty line is never an entry.   *)
(***************************************************************************)
EXTENDS Integers, Sequences

CONSTANT Cap    \* HISTORY_CAP

ASSUME CapAssumption == Cap \in Nat \ {0}

NoLine == <<>>    \* a slot that is NULL

RingInit == [slots |-> [i \in 0 .. Cap - 1 |-> NoLine], len |-> 0, start |-> 0]

SlotOf(h, i) == (h.start + i) % Cap

HistoryCount(h) == h.len

\* i counts from the oldest entry
HistoryGet(h, i) == IF i >= h.len THEN NoLine ELSE h.slots[SlotOf(h, i)]

Entries(h) == [i \in 1 .. h.len |-> HistoryGet(h, i - 1)]

Ignored(h, line) ==
    \/ line = <<>>
    \/ h.len > 0 /\ h.slots[SlotOf(h, h.len - 1)] = line

\* fault: eviction leaves start where it is
EvictedStays(h) ==
    [slots |-> [h.slots EXCEPT ![h.start] = NoLine], len |-> h.len - 1, start |-> h.start]

Evicted(h) ==
    [slots |-> [h.slots EXCEPT ![h.start] = NoLine], len |-> h.len - 1,
     start |-> (h.start + 1) % Cap]

Placed(h, line) ==
    [slots |-> [h.slots EXCEPT ![SlotOf(h, h.len)] = line], len |-> h.len + 1,
     start |-> h.start]

HistoryAdd(h, line) ==
    IF Ignored(h, line) THEN h
    ELSE Placed(IF h.len = Cap THEN Evicted(h) ELSE h, line)

\* history_load: every line of the file is added in turn
HistoryLoad(file) ==
    LET ring[i \in 0 .. Len(file)] ==
            IF i = 0 THEN RingInit ELSE HistoryAdd(ring[i - 1], file[i])
    IN  ring[Len(file)]

\* history_save: what the file holds when every write succeeded
HistorySave(h) == Entries(h)

\* what reading or writing gets through before an error: some lines, the last cut
TornLines(s) ==
    {SubSeq(s, 1, n) : n \in 0 .. Len(s)}
    \cup UNION {{Append(SubSeq(s, 1, n - 1), SubSeq(s[n], 1, k)) :
                 k \in 1 .. Len(s[n])} : n \in 1 .. Len(s)}

\* what it may hold when the writes stopped early
TornSaves(h) == TornLines(Entries(h))

\* live slots hold lines and the others are NULL
RingTypeOK(h) ==
    /\ h.len \in 0 .. Cap
    /\ h.start \in 0 .. Cap - 1
    /\ \A s \in 0 .. Cap - 1 :
          h.slots[s] # NoLine <=> (\E i \in 0 .. h.len - 1 : s = SlotOf(h, i))
=============================================================================
