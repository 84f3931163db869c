------------------------------ MODULE FirstFit ------------------------------
(***************************************************************************)
(* The first-fit strategy of src/alloc/firstfit.c: an implicit list of     *)
(* boundary-tagged blocks that tile the arena from heap_start (cell 0) to  *)
(* heap_end.  A cell is ALLOC_ALIGN = 16 bytes, which is also the size of  *)
(* one FfTag, so a block of k cells is a header cell, k - 2 payload cells  *)
(* and a footer cell.  Request sizes stay in bytes and size_t arithmetic   *)
(* wraps at SizeMax.                                                       *)
(***************************************************************************)
EXTENDS Integers, FiniteSetsExt

CONSTANTS
    Span,      \* cells between heap_start and the end of the mapped arena
    SizeMax,   \* SIZE_MAX
    Sizes      \* request sizes, in bytes

Unit == 16
Overhead == 2                 \* FF_OVERHEAD in cells
MinBlock == Overhead + 1      \* FF_MIN_BLOCK in cells

ASSUME SpanAssumption == Span \in Nat
ASSUME SizeMaxAssumption == SizeMax \in Nat /\ SizeMax > 4 * Unit
ASSUME RequestAssumption == Sizes \subseteq 0 .. SizeMax

VARIABLES
    mem,       \* the content of every cell, read as an FfTag
    starts,    \* the headers the walk ff_first, ff_next, ... visits
    asked      \* the pointers callers hold, with the bytes they asked for

vars == <<mem, starts, asked>>

Tag == [size : Nat, tag : {"USED", "FREE", "DATA"}]
Data == [size |-> 0, tag |-> "DATA"]      \* anything that is not a tag

\* heap_end: an arena too small for one block stays empty
HeapEnd == IF Span >= MinBlock THEN Span ELSE 0
Cells == 0 .. (HeapEnd - 1)

End(b) == b + mem[b].size

-----------------------------------------------------------------------------
(* size_t arithmetic of ff_round_up and of the block size                  *)

Wrap(n) == IF n > SizeMax THEN n - (SizeMax + 1) ELSE n

RoundUp(n) == Wrap(n + (Unit - 1)) \div Unit

Need(size) == IF RoundUp(size) < 1 THEN 1 ELSE RoundUp(size)

Total(size) == Wrap(Need(size) * Unit + Overhead * Unit) \div Unit

\* fault: no overflow guard
NeverTooBig(size) == FALSE
TooBig(size) == size > SizeMax - Overhead * Unit - Unit

-----------------------------------------------------------------------------
(* ff_mark *)
Mark(m, b, size, tag) ==
    [m EXCEPT ![b] = [size |-> size, tag |-> tag],
              ![b + size - 1] = [size |-> size, tag |-> tag]]

Blank == [c \in Cells |-> Data]

Init ==
    /\ starts = IF HeapEnd = 0 THEN {} ELSE {0}
    /\ mem = IF HeapEnd = 0 THEN Blank ELSE Mark(Blank, 0, HeapEnd, "FREE")
    /\ asked = [p \in {} |-> 0]

\* fault: any free block is taken
FitsAnyFree(b, size) == mem[b].tag = "FREE"

Fits(b, size) == mem[b].tag = "FREE" /\ mem[b].size >= Total(size)

(* ff_alloc: the walk stops at the first free block that is large enough   *)
FirstFitting(b, size) ==
    /\ ~TooBig(size)
    /\ b \in starts
    /\ Fits(b, size)
    /\ \A c \in starts : c < b => ~Fits(c, size)

(* and gives its tail back only when the tail can stand as a block.        *)
Splits(b, size) == mem[b].size - Total(size) >= MinBlock

\* fault: the tail gets no tags of its own
CarvedWithoutTail(b, size) ==
    Mark(mem, b, IF Splits(b, size) THEN Total(size) ELSE mem[b].size, "USED")

CarvedMem(b, size) ==
    LET rest == mem[b].size - Total(size) IN
    IF Splits(b, size)
    THEN Mark(Mark(mem, b, Total(size), "USED"), b + Total(size), rest, "FREE")
    ELSE Mark(mem, b, mem[b].size, "USED")

CarvedStarts(b, size) ==
    IF Splits(b, size) THEN starts \cup {b + Total(size)} ELSE starts

WithAsked(b, size) ==
    [p \in DOMAIN asked \cup {b + 1} |-> IF p = b + 1 THEN size ELSE asked[p]]

Alloc(size, b) ==
    /\ FirstFitting(b, size)
    /\ mem' = CarvedMem(b, size)
    /\ starts' = CarvedStarts(b, size)
    /\ asked' = WithAsked(b, size)

(* ff_alloc returning NULL *)
AllocFails(size) ==
    /\ TooBig(size) \/ \A b \in starts : ~Fits(b, size)
    /\ UNCHANGED vars

\* fault: no merging upwards
NextNeverFree(b) == FALSE

NextFree(b) == End(b) < HeapEnd /\ mem[End(b)].tag = "FREE"

\* ff_prev: the footer just below b says where the previous block starts
Prev(b) == b - mem[b - 1].size
PrevFree(b) == b > 0 /\ mem[Prev(b)].tag = "FREE"

(* ff_free_block: merge with the free neighbour above, then with the one   *)
(* below, and write one tag pair around the result.                        *)
MergedMem(p) ==
    LET b    == p - 1
        at   == IF PrevFree(b) THEN Prev(b) ELSE b
        size == mem[b].size
                  + (IF NextFree(b) THEN mem[End(b)].size ELSE 0)
                  + (IF PrevFree(b) THEN mem[Prev(b)].size ELSE 0)
    IN Mark(mem, at, size, "FREE")

MergedStarts(p) ==
    LET b == p - 1 IN
    starts \ ((IF NextFree(b) THEN {End(b)} ELSE {})
                 \cup (IF PrevFree(b) THEN {b} ELSE {}))

WithoutAsked(p) == [q \in DOMAIN asked \ {p} |-> asked[q]]

FreeBlock(p) ==
    /\ mem' = MergedMem(p)
    /\ starts' = MergedStarts(p)
    /\ asked' = WithoutAsked(p)

(* The caller writes into the block it holds: whatever tags an earlier use *)
(* of those cells left behind are gone.                                    *)
Write(p) ==
    /\ mem' = [c \in Cells |->
                 IF p <= c /\ c < End(p - 1) - 1 THEN Data ELSE mem[c]]
    /\ UNCHANGED <<starts, asked>>

UsableSize(p) == (mem[p - 1].size - Overhead) * Unit

Next ==
    \/ \E size \in Sizes : \E b \in starts : Alloc(size, b)
    \/ \E size \in Sizes : AllocFails(size)
    \/ \E p \in DOMAIN asked : FreeBlock(p)
    \/ \E p \in DOMAIN asked : Write(p)

Spec == Init /\ [][Next]_vars

-----------------------------------------------------------------------------
(* ff_stats, in cells: used, free, live and free blocks, largest free *)
Sized(tag) == {b \in starts : (mem[b].tag = "FREE") = (tag = "FREE")}
SizeSum(S) == MapThenSumSet(LAMBDA b : mem[b].size, S)
Stats == [used_bytes  |-> SizeSum(Sized("USED")),
          free_bytes  |-> SizeSum(Sized("FREE")),
          live_blocks |-> Cardinality(Sized("USED")),
          free_blocks |-> Cardinality(Sized("FREE"))]

-----------------------------------------------------------------------------
TypeOK ==
    /\ mem \in [Cells -> Tag]
    /\ starts \subseteq Cells
    /\ DOMAIN asked \subseteq Nat
    /\ asked \in [DOMAIN asked -> Nat]

(* Every block the walk visits carries the same tag in its header and its  *)
(* footer, whatever callers wrote into the payloads (ff_mark, ff_prev).    *)
BoundaryTags ==
    \A b \in starts :
        /\ mem[b].tag \in {"USED", "FREE"}
        /\ mem[b].size >= MinBlock
        /\ End(b) <= HeapEnd
        /\ mem[End(b) - 1] = mem[b]

(* The blocks tile the arena: the walk starts at heap_start, each block    *)
(* ends where another begins or at heap_end, none starts inside another.   *)
Tiled ==
    /\ HeapEnd > 0 => 0 \in starts
    /\ \A b \in starts : End(b) = HeapEnd \/ End(b) \in starts
    /\ \A b \in starts : b = 0 \/ \E c \in starts : End(c) = b
    /\ \A b, c \in starts : b < c => End(b) <= c

(* No two neighbouring blocks are both free: ff_free_block leaves nothing  *)
(* it could have merged, and ff_alloc's split never creates such a pair.   *)
Coalesced ==
    \A b \in starts :
        ~(mem[b].tag = "FREE" /\ End(b) \in starts /\ mem[End(b)].tag = "FREE")

(* The heap can be walked both ways: header and footer tags agree, the     *)
(* blocks tile the arena and no two free blocks touch.                     *)
WellTagged == BoundaryTags /\ Tiled /\ Coalesced

(* The used blocks are exactly the ones callers hold, each large enough    *)
(* for what was asked, size_t wrap-around included.                        *)
HeldBlocks ==
    /\ DOMAIN asked = {b + 1 : b \in {c \in starts : mem[c].tag = "USED"}}
    /\ \A p \in DOMAIN asked : asked[p] <= UsableSize(p)

(* What ff_next visits from heap_start, computed from memory alone. *)
Walk ==
    LET walk[b \in 0 .. HeapEnd] ==
            IF b >= HeapEnd \/ mem[b].size = 0 THEN {}
            ELSE {b} \cup walk[IF End(b) > HeapEnd THEN HeapEnd ELSE End(b)]
    IN walk[0]

(* The set "starts" is what the walk over the headers in memory visits,    *)
(* and what ff_stats adds up on that walk is the whole arena and the       *)
(* pointers callers hold.                                                  *)
StartsAreTheWalk ==
    /\ starts = Walk
    /\ Stats.used_bytes + Stats.free_bytes = HeapEnd
    /\ Stats.live_blocks = Cardinality(DOMAIN asked)

Whole == starts = {0} /\ mem[0] = [size |-> HeapEnd, tag |-> "FREE"]

(* Once every block is given back the arena is again one free block: no    *)
(* sequence of calls fragments an empty heap.                              *)
EmptyHeapIsWhole == DOMAIN asked = {} /\ HeapEnd > 0 => Whole

-----------------------------------------------------------------------------
(* First fit implements the strategy contract. *)
Live == [p \in DOMAIN asked |->
           [len |-> mem[p - 1].size - Overhead, asked |-> asked[p]]]

Contract == INSTANCE AbstractHeap WITH Region <- HeapEnd, live <- Live

ContractSpec == Contract!Spec
=============================================================================
