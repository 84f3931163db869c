------------------------------ MODULE NshHeap ------------------------------
(***************************************************************************)
(* The heap every nullsh module allocates from (src/alloc/alloc.c): two    *)
(* arenas, one per strategy (FirstFit and Buddy), the strategy in use, and *)
(* the guard around each payload.                                          *)
(*                                                                         *)
(* A pointer is <<slot, cell>>.  The 16-byte guard fills the cell below    *)
(* the payload, the first cell of the block the strategy handed out:       *)
(* requested in the low word, the canary in the high one.  In a first-fit  *)
(* arena that cell is one of mem's; in a buddy arena it is where a free    *)
(* block keeps its list links, modelled by word.                           *)
(***************************************************************************)
EXTENDS Integers, Sequences, FiniteSetsExt

CONSTANTS
    Span, ArenaOrder, StateOrder,  \* the two arenas, as in FirstFit and Buddy
    SizeMax,                       \* SIZE_MAX
    Requests,                      \* byte counts callers ask for
    MaxMallocs                     \* bound on total_mallocs

ASSUME BoundsAssumption == Requests \subseteq 0 .. SizeMax /\ MaxMallocs \in Nat

VARIABLES
    mem, starts, ffHeld,           \* the first-fit arena
    hdr, lists, count, bdHeld,     \* the buddy arena
    word,                          \* bytes 16 .. 31 after each buddy offset
    torn,                          \* pointers whose trailing canary is overwritten
    active, ready,                 \* the strategy in use; the arenas mapped
    mallocs, frees,                \* total_mallocs, total_frees
    moving,                        \* nsh_realloc between its malloc and its release
    verdict,                       \* why the process aborted
    spent                          \* history: first-fit pointers freed since the
                                   \* last first-fit allocation

FFWith(m) == INSTANCE FirstFit WITH Sizes <- {}, mem <- m, asked <- ffHeld
FF == INSTANCE FirstFit WITH Sizes <- {}, asked <- ffHeld
BD == INSTANCE Buddy WITH BuddySizes <- {}, held <- bdHeld

ASSUME ArenaAssumption ==
    /\ Span \in Nat /\ SizeMax \in Nat /\ SizeMax > 64
    /\ BD!ArenaAssumption

ffvars == <<mem, starts, ffHeld>>
bdvars == <<hdr, lists, count, bdHeld, word>>
vars == <<ffvars, bdvars, torn, active, ready, mallocs, frees, moving, verdict, spent>>

Slots == {"firstfit", "buddy"}
GuardTotal == 24      \* GUARD_PREFIX + GUARD_TRAILER
Unit == 16

Guard(n) == [size |-> n, tag |-> "HEAD"]
\* fault: the freed mark is not written
NotFreed(g) == g
Freed(g) == [g EXCEPT !.tag = "FREED"]
Data == [size |-> 0, tag |-> "DATA"]
Links == [size |-> 0, tag |-> "LINKS"]

NoMove == [old |-> <<>>, new |-> <<>>]

\* fault: nothing is a size too
WantAsIs(size) == size
Want(size) == IF size = 0 THEN 1 ELSE size
CellsOf(n) == (n + Unit - 1) \div Unit

-----------------------------------------------------------------------------
(* Where a buddy block at offset o keeps its guard, and the payload cell.  *)
GuardCell(o) == o \div Unit + 1
Payload(o) == GuardCell(o) + 1
OffsetOf(p) == (p - 2) * Unit

Held(slot) == IF slot = "firstfit" THEN {p + 1 : p \in DOMAIN ffHeld}
              ELSE {Payload(o) : o \in DOMAIN bdHeld}

Live == UNION {{<<slot, p>> : p \in Held(slot)} : slot \in Slots}

\* guard_of: the cell below the payload, as it reads now
GuardAt(a) == IF a[1] = "firstfit" THEN mem[a[2] - 1] ELSE word[a[2] - 1]

WordCells == {GuardCell(o) : o \in BD!Offsets}

\* aligned addresses of the two arenas that have a whole guard below them
Addresses == {<<"firstfit", c + 1>> : c \in FF!Cells}
                \cup {<<"buddy", c + 1>> : c \in WordCells}

Init ==
    /\ FF!Init
    /\ BD!BuddyInit
    /\ word = [c \in WordCells |->
                 IF hdr[(c - 1) * Unit] = BD!NoHeader THEN Data ELSE Links]
    /\ torn = {}
    /\ active \in Slots           \* NSH_ALLOC_STRATEGY
    /\ ready = {}
    /\ mallocs = 0 /\ frees = 0
    /\ moving = NoMove
    /\ verdict = "running"
    /\ spent = {}

Running == verdict = "running" /\ moving = NoMove

Die(why) ==
    /\ verdict' = why
    /\ UNCHANGED <<ffvars, bdvars, torn, active, ready, mallocs, frees, moving, spent>>

-----------------------------------------------------------------------------
(* block_new                                                               *)

HasRoom(n) ==
    IF active = "firstfit"
    THEN \E b \in starts : FF!FirstFitting(b, n + GuardTotal)
    ELSE \E k \in BD!Orders : BD!ServedFrom(BD!OrderOf(n + GuardTotal + BD!Header), k)

OutOfMemory(n) == n > SizeMax - GuardTotal \/ ~HasRoom(n)

FirstFitNew(n, p) ==
    LET b == p - 2 IN
    /\ FF!FirstFitting(b, n + GuardTotal)
    /\ mem' = [FF!CarvedMem(b, n + GuardTotal) EXCEPT ![b + 1] = Guard(n)]
    /\ starts' = FF!CarvedStarts(b, n + GuardTotal)
    /\ ffHeld' = FF!WithAsked(b, n + GuardTotal)
    /\ spent' = {}
    /\ UNCHANGED bdvars

\* list_push writes links into the halves cut off, where a guard may have been
BuddyNew(n, p) ==
    \E k \in BD!Orders :
        /\ BD!BuddyAlloc(n + GuardTotal, k)
        /\ p = Payload(Head(lists[k]))
        /\ word' = [c \in WordCells |->
                      IF c = p - 1 THEN Guard(n)
                      ELSE IF (c - 1) * Unit \in BD!FreeOffs' /\ (c - 1) * Unit \notin BD!FreeOffs
                      THEN Links
                      ELSE word[c]]
        /\ UNCHANGED <<ffvars, spent>>

BlockNew(n, a) ==
    /\ mallocs < MaxMallocs
    /\ n <= SizeMax - GuardTotal
    /\ a[1] = active
    /\ IF active = "firstfit" THEN FirstFitNew(n, a[2]) ELSE BuddyNew(n, a[2])
    /\ torn' = torn \ {a}
    /\ ready' = ready \cup {active}
    /\ mallocs' = mallocs + 1
    /\ UNCHANGED <<active, frees, verdict>>

-----------------------------------------------------------------------------
(* block_release: the freed mark, poison over the payload, then the        *)
(* strategy's free, whose tags or links may land on the mark.              *)

\* faults: the poison starts at the guard; it covers the size of the whole block
PoisonedFromGuard(p, n) == (p - 1) .. (p + CellsOf(n) - 1)
PoisonedTooFar(p, n) == p .. (p + CellsOf(n + GuardTotal) + 1)
Poisoned(p, n) == p .. (p + CellsOf(n) - 1)

FirstFitRelease(p) ==
    LET marked == [c \in FF!Cells |->
                     IF c \in Poisoned(p, mem[p - 1].size) THEN Data
                     ELSE IF c = p - 1 THEN Freed(mem[c])
                     ELSE mem[c]]
    IN /\ mem' = FFWith(marked)!MergedMem(p - 1)
       /\ starts' = FFWith(marked)!MergedStarts(p - 1)
       /\ ffHeld' = FF!WithoutAsked(p - 1)
       /\ spent' = spent \cup {p}
       /\ UNCHANGED bdvars

BuddyRelease(p) ==
    LET o == OffsetOf(p) IN
    /\ BD!BuddyFreeBlock(o)
    /\ word' = [c \in WordCells |->
                  IF (c - 1) * Unit \in BD!FreeOffs' /\ (c - 1) * Unit \notin BD!FreeOffs
                  THEN Links
                  ELSE IF c \in Poisoned(p, word[p - 1].size) THEN Data
                  ELSE IF c = p - 1 THEN Freed(word[c])
                  ELSE word[c]]
    /\ UNCHANGED <<ffvars, spent>>

BlockRelease(a) ==
    /\ IF a[1] = "firstfit" THEN FirstFitRelease(a[2]) ELSE BuddyRelease(a[2])
    /\ frees' = frees + 1
    /\ UNCHANGED <<torn, active, ready, mallocs, verdict>>

-----------------------------------------------------------------------------
(* guard_check *)
Complaint(a) ==
    IF a[1] \notin ready THEN "unknown pointer"
    ELSE IF GuardAt(a).tag = "FREED" THEN "double free"
    ELSE IF GuardAt(a).tag # "HEAD" THEN "prefix"
    ELSE IF a \in torn THEN "trailing"
    ELSE "none"

Passes(a) == Complaint(a) = "none"

-----------------------------------------------------------------------------
(* The interface of alloc.h *)

Malloc(size, a) == Running /\ BlockNew(Want(size), a) /\ UNCHANGED moving

MallocDies(size) == Running /\ OutOfMemory(Want(size)) /\ Die("out of memory")

Free(a) == Running /\ Passes(a) /\ BlockRelease(a) /\ UNCHANGED moving

\* nsh_free and nsh_realloc of a pointer that fails slot_of_pointer or guard_check
Caught(a) == Running /\ ~Passes(a) /\ Die(Complaint(a))

UsableSize(a) ==
    IF a[1] = "firstfit" THEN FF!UsableSize(a[2] - 1) ELSE BD!BuddyUsableSize(OffsetOf(a[2]))

Capacity(a) == UsableSize(a) - GuardTotal

\* guard_write with the new size; the trailing canary moves
ReallocInPlace(a, size) ==
    /\ Running /\ Passes(a)
    /\ Capacity(a) >= Want(size)
    /\ IF a[1] = "firstfit"
       THEN mem' = [mem EXCEPT ![a[2] - 1] = Guard(Want(size))] /\ UNCHANGED word
       ELSE word' = [word EXCEPT ![a[2] - 1] = Guard(Want(size))] /\ UNCHANGED mem
    /\ UNCHANGED <<starts, ffHeld, hdr, lists, count, bdHeld, torn, active, ready,
                   mallocs, frees, moving, verdict, spent>>

\* nsh_malloc in the active arena, wherever the old block lives ...
ReallocAllocates(a, size, to) ==
    /\ Running /\ Passes(a)
    /\ Capacity(a) < Want(size)
    /\ BlockNew(Want(size), to)
    /\ moving' = [old |-> a, new |-> to]

\* fault: the release is not counted
ReallocReleasesUncounted ==
    /\ verdict = "running" /\ moving # NoMove
    /\ LET a == moving.old IN
       IF a[1] = "firstfit" THEN FirstFitRelease(a[2]) ELSE BuddyRelease(a[2])
    /\ moving' = NoMove
    /\ UNCHANGED <<torn, active, ready, mallocs, frees, verdict>>

\* ... and, after the copy, the release of the old block
ReallocReleases ==
    /\ verdict = "running" /\ moving # NoMove
    /\ BlockRelease(moving.old)
    /\ moving' = NoMove

ReallocDies(a, size) ==
    /\ Running /\ Passes(a)
    /\ Capacity(a) < Want(size)
    /\ OutOfMemory(Want(size))
    /\ Die("out of memory")

SetStrategy(slot) ==
    /\ Running
    /\ active' = slot
    /\ UNCHANGED <<ffvars, bdvars, torn, ready, mallocs, frees, moving, verdict, spent>>

(* A caller writes one byte too many, or one byte below its block; once   *)
(* per run, since the first damage found ends it.                         *)
Undamaged == torn = {} /\ \A a \in Live : GuardAt(a).tag # "SCAR"

Overflow(a) ==
    /\ Running /\ Undamaged
    /\ torn' = torn \cup {a}
    /\ UNCHANGED <<ffvars, bdvars, active, ready, mallocs, frees, moving, verdict, spent>>

Underflow(a) ==
    /\ Running /\ Undamaged
    /\ IF a[1] = "firstfit"
       THEN mem' = [mem EXCEPT ![a[2] - 1].tag = "SCAR"] /\ UNCHANGED word
       ELSE word' = [word EXCEPT ![a[2] - 1].tag = "SCAR"] /\ UNCHANGED mem
    /\ UNCHANGED <<starts, ffHeld, hdr, lists, count, bdHeld, torn, active, ready,
                   mallocs, frees, moving, verdict, spent>>

Aborted == verdict # "running" /\ UNCHANGED vars

Next ==
    \/ \E size \in Requests, a \in Addresses : Malloc(size, a)
    \/ \E size \in Requests : MallocDies(size)
    \/ \E a \in Addresses : Free(a)
    \/ \E a \in Addresses : Caught(a)
    \/ \E a \in Live, size \in Requests : ReallocInPlace(a, size)
    \/ \E a \in Live, size \in Requests, to \in Addresses : ReallocAllocates(a, size, to)
    \/ ReallocReleases
    \/ \E a \in Live, size \in Requests : ReallocDies(a, size)
    \/ \E slot \in Slots : SetStrategy(slot)
    \/ \E a \in Live : Overflow(a)
    \/ \E a \in Live : Underflow(a)
    \/ Aborted

Spec == Init /\ [][Next]_vars

-----------------------------------------------------------------------------
TypeOK ==
    /\ FF!Cells = DOMAIN mem
    /\ \A c \in DOMAIN mem : mem[c].tag \in {"USED", "FREE", "DATA", "HEAD", "FREED", "SCAR"}
    /\ \A c \in DOMAIN word : word[c].tag \in {"DATA", "LINKS", "HEAD", "FREED", "SCAR"}
    /\ torn \subseteq Addresses
    /\ active \in Slots /\ ready \subseteq Slots
    /\ mallocs \in 0 .. MaxMallocs /\ frees \in 0 .. mallocs
    /\ verdict \in {"running", "out of memory", "unknown pointer", "double free",
                    "prefix", "trailing"}

(* guard_check accepts a pointer exactly when it is a live block nobody    *)
(* wrote around: no stale or foreign pointer reaches a strategy (the       *)
(* contract of internal.h), no correct caller is aborted, and a damaged    *)
(* block never goes back to the free store.                                *)
GuardsTellTheTruth ==
    \A a \in Addresses :
        Passes(a) <=> a \in Live \ torn /\ GuardAt(a).tag # "SCAR"

FitsItsBlock ==
    \A a \in Live : GuardAt(a).size + GuardTotal <= UsableSize(a)

(* Guards, poison and canaries never touch a strategy's own bookkeeping:   *)
(* payload and trailing canary stay inside the block through every resize  *)
(* in place.                                                               *)
ArenasIntact ==
    TypeOK /\ FitsItsBlock /\ FF!BoundaryTags /\ FF!Tiled /\ FF!Coalesced /\ BD!ListsMatchHeaders

(* Once as many blocks were released as were allocated, both arenas are as *)
(* their init functions set them up: guards, poison, resizing in place,    *)
(* moves between arenas and damage leave nothing split and nothing lost.   *)
AllGivenBack == mallocs = frees => (FF!HeapEnd > 0 => FF!Whole) /\ BD!Seeded

(* The totals heap prints differ by the live blocks of both arenas, moving *)
(* reallocs and strategy switches included, and when they meet nothing is  *)
(* left behind.                                                            *)
CountersBalance == mallocs - frees = Cardinality(Live) /\ AllGivenBack

(* "Firstfit leaves the guard alone on free, so a second free lands on     *)
(* this marker": as long as first fit allocates nothing, whatever other    *)
(* frees merge around it, a second free is named for what it is.           *)
DoubleFreeIsNamed ==
    \A p \in spent : Complaint(<<"firstfit", p>>) = "double free"

-----------------------------------------------------------------------------
(* The two arenas and their guards implement the interface of alloc.h.     *)
(* While nsh_realloc is between its two halves the new block is not yet    *)
(* the caller's.                                                           *)
UserLive == [a \in Live \ {moving.new} |-> GuardAt(a).size]

User == INSTANCE UserHeap WITH
            live <- UserLive,
            Pointers <- Addresses,
            Amounts <- {1} \cup (Requests \ {0})

UserContract == User!Spec
=============================================================================
