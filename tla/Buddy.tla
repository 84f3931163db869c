------------------------------- MODULE Buddy -------------------------------
(***************************************************************************)
(* The buddy strategy of src/alloc/buddy.c: power-of-two blocks with a     *)
(* header each, one free list per order, merging with the buddy on free.   *)
(* Offsets and sizes are in bytes from the arena's base; the allocator's   *)
(* own state takes the leading 2^StateOrder bytes.                         *)
(***************************************************************************)
EXTENDS Integers, SequencesExt

CONSTANTS
    ArenaOrder,   \* the arena is 2^ArenaOrder bytes
    StateOrder,   \* region_off = 2^StateOrder
    BuddySizes    \* request sizes, in bytes

MinOrder == 5     \* BUDDY_MIN_ORDER
Header == 16      \* sizeof(BuddyHeader)

ArenaAssumption ==
    /\ ArenaOrder \in Nat /\ StateOrder \in Nat
    /\ MinOrder <= StateOrder /\ StateOrder < ArenaOrder
BuddyRequestAssumption == BuddySizes \subseteq Nat

VARIABLES
    hdr,     \* the header bytes at every offset a block can start at
    lists,   \* lists[k]: the free blocks of order k, head first
    count,   \* used_bytes, free_bytes, live_blocks, free_blocks
    held     \* the blocks callers hold (by offset) and what they asked for

buddyvars == <<hdr, lists, count, held>>

ArenaSize == 2^ArenaOrder
RegionOff == 2^StateOrder
MaxOrder == ArenaOrder - 1   \* max_order: the top half is the largest seed
Orders == MinOrder .. MaxOrder
Offsets == {o * 2^MinOrder : o \in 0 .. (2^(ArenaOrder - MinOrder) - 1)}

OrderOf(n) == CHOOSE k \in MinOrder .. (ArenaOrder + 1) :
                 2^k >= n /\ \A j \in MinOrder .. (k - 1) : 2^j < n

FreeHeader(k) == [magic |-> TRUE, order |-> k, in_use |-> FALSE]
UsedHeader(k) == [magic |-> TRUE, order |-> k, in_use |-> TRUE]
NoHeader == [magic |-> FALSE, order |-> 0, in_use |-> FALSE]

-----------------------------------------------------------------------------
\* buddy_init seeds one block per order: 2^StateOrder at that offset, and so on
Seeds == StateOrder .. MaxOrder

BuddyInit ==
    /\ hdr = [o \in Offsets |->
                IF \E k \in Seeds : o = 2^k
                THEN FreeHeader(CHOOSE k \in Seeds : o = 2^k) ELSE NoHeader]
    /\ lists = [k \in Orders |-> IF k \in Seeds THEN <<2^k>> ELSE <<>>]
    /\ count = [used_bytes |-> 0, free_bytes |-> ArenaSize - RegionOff,
                live_blocks |-> 0, free_blocks |-> Cardinality(Seeds)]
    /\ held = [o \in {} |-> 0]

(* The free list an allocation is served from: the smallest order that is  *)
(* large enough and has a block.                                           *)
ServedFrom(want, k) ==
    /\ k \in want .. MaxOrder
    /\ lists[k] # <<>>
    /\ \A j \in want .. (k - 1) : lists[j] = <<>>

\* what list_remove of one block of order k and a list_push per halving add up to
CountAlloc(want, k) ==
    [used_bytes  |-> count.used_bytes + 2^want,
     free_bytes  |-> count.free_bytes - 2^want,
     live_blocks |-> count.live_blocks + 1,
     free_blocks |-> count.free_blocks - 1 + (k - want)]

(* buddy_alloc: the head of list k is cut down to order want and the upper *)
(* halves are pushed on the lists below.                                   *)
BuddyAlloc(size, k) ==
    LET want == OrderOf(size + Header)
        off  == Head(lists[k])
        cut  == want .. (k - 1)
    IN /\ size <= ArenaSize
       /\ ServedFrom(want, k)
       /\ lists' = [j \in Orders |->
                      IF j = k THEN Tail(lists[j])
                      ELSE IF j \in cut THEN <<off + 2^j>> \o lists[j]
                      ELSE lists[j]]
       /\ hdr' = [o \in Offsets |->
                    IF o = off THEN UsedHeader(want)
                    ELSE IF \E j \in cut : o = off + 2^j
                    THEN FreeHeader(CHOOSE j \in cut : o = off + 2^j)
                    ELSE hdr[o]]
       /\ count' = CountAlloc(want, k)
       /\ held' = [o \in DOMAIN held \cup {off} |->
                     IF o = off THEN size ELSE held[o]]

(* buddy_alloc returning NULL *)
BuddyAllocFails(size) ==
    /\ \/ size > ArenaSize
       \/ \A k \in Orders : ~ServedFrom(OrderOf(size + Header), k)
    /\ UNCHANGED buddyvars

(* off rounded down to a block of order k, and off ^ (1 << k) for such an off *)
Base(off, k) == off - (off % 2^k)
Flip(off, k) == IF (off \div 2^k) % 2 = 0 THEN off + 2^k ELSE off - 2^k

\* fault: the buddy's order is not looked at
MergeableAnyOrder(off, k) ==
    LET buddy == Flip(Base(off, k), k) IN
    k < MaxOrder /\ buddy >= RegionOff /\ hdr[buddy].magic /\ ~hdr[buddy].in_use

\* one turn of the merge loop: is the buddy of the order-k block a free one?
Mergeable(off, k) ==
    LET buddy == Flip(Base(off, k), k) IN
    /\ k < MaxOrder
    /\ buddy >= RegionOff
    /\ hdr[buddy].magic /\ ~hdr[buddy].in_use /\ hdr[buddy].order = k

\* fault: the merged buddies stay counted
CountFreeNoMerge(k, top) ==
    [used_bytes  |-> count.used_bytes - 2^k,
     free_bytes  |-> count.free_bytes + 2^k,
     live_blocks |-> count.live_blocks - 1,
     free_blocks |-> count.free_blocks + 1]

CountFree(k, top) ==
    [used_bytes  |-> count.used_bytes - 2^k,
     free_bytes  |-> count.free_bytes + 2^k,
     live_blocks |-> count.live_blocks - 1,
     free_blocks |-> count.free_blocks + 1 - (top - k)]

(* buddy_free_block: merge upwards while the buddy is free, then push. *)
BuddyFreeBlock(off) ==
    LET k     == hdr[off].order
        top   == CHOOSE j \in k .. MaxOrder :
                    /\ ~Mergeable(off, j)
                    /\ \A i \in k .. (j - 1) : Mergeable(off, i)
        start == Base(off, top)
        merged == k .. (top - 1)
    IN /\ lists' = [j \in Orders |->
                      IF j \in merged THEN RemoveFirst(lists[j], Flip(Base(off, j), j))
                      ELSE IF j = top THEN <<start>> \o lists[j]
                      ELSE lists[j]]
       /\ hdr' = [o \in Offsets |->
                    IF o = start THEN FreeHeader(top)
                    ELSE IF o = off THEN [hdr[o] EXCEPT !.in_use = FALSE]
                    ELSE hdr[o]]
       /\ count' = CountFree(k, top)
       /\ held' = [o \in DOMAIN held \ {off} |-> held[o]]

\* fault: the header is counted as usable
BuddyUsableSizeWhole(off) == 2^hdr[off].order
BuddyUsableSize(off) == 2^hdr[off].order - Header

(* The caller fills the block it holds: bytes where blocks started once, or *)
(* may start again, now read as anything, a free header included.           *)
BuddyWrite(off, content) ==
    /\ hdr' = [o \in Offsets |->
                 IF off < o /\ o < off + 2^hdr[off].order THEN content ELSE hdr[o]]
    /\ UNCHANGED <<lists, count, held>>

Contents == {NoHeader} \cup {FreeHeader(k) : k \in Orders}

BuddyNext ==
    \/ \E size \in BuddySizes, k \in Orders : BuddyAlloc(size, k)
    \/ \E size \in BuddySizes : BuddyAllocFails(size)
    \/ \E off \in DOMAIN held : BuddyFreeBlock(off)
    \/ \E off \in DOMAIN held, content \in Contents : BuddyWrite(off, content)

BuddySpec == BuddyInit /\ [][BuddyNext]_buddyvars

-----------------------------------------------------------------------------
OnList(k) == Range(lists[k])
FreeOffs == UNION {OnList(k) : k \in Orders}
Block(off) == {o \in Offsets : off <= o /\ o < off + 2^hdr[off].order}
Blocks == FreeOffs \cup DOMAIN held

BuddyTypeOK ==
    /\ hdr \in [Offsets -> [magic : BOOLEAN, order : 0 .. ArenaOrder, in_use : BOOLEAN]]
    /\ lists \in [Orders -> Seq(Offsets)]
    /\ count \in [{"used_bytes", "free_bytes", "live_blocks", "free_blocks"} -> Nat]
    /\ DOMAIN held \subseteq Offsets

(* Walking the headers from region_off, as buddy_dump does, meets every    *)
(* free or held block once: the blocks partition the region and each is    *)
(* aligned to its own size.                                                *)
Partition ==
    /\ UNION {Block(o) : o \in Blocks} = {o \in Offsets : o >= RegionOff}
    /\ \A a, b \in Blocks : a # b => Block(a) \cap Block(b) = {}
    /\ \A o \in Blocks : o % 2^hdr[o].order = 0

(* A free list holds blocks of its own order once each, marked free, and   *)
(* held blocks are marked in use: the merge test reads headers only.       *)
ListsMatchHeaders ==
    /\ \A k \in Orders :
          /\ \A o \in OnList(k) : hdr[o] = FreeHeader(k)
          /\ Cardinality(OnList(k)) = Len(lists[k])
    /\ \A o \in DOMAIN held : hdr[o].magic /\ hdr[o].in_use
                              /\ held[o] <= BuddyUsableSize(o)

(* The buddy system's free lists and the held blocks are all the heap      *)
(* there is, though the merge test reads headers where stale ones may lie. *)
ListsCoverHeap == BuddyTypeOK /\ Partition /\ ListsMatchHeaders

(* Below the top order no two free blocks are buddies. *)
FullyMerged ==
    \A k \in MinOrder .. (MaxOrder - 1) :
        \A o \in OnList(k) : Flip(o, k) \notin OnList(k)

\* the bytes of the blocks at these offsets
Bytes(offs) == 2^MinOrder * Cardinality(UNION {Block(o) : o \in offs})

(* The counters heap prints agree with the blocks. *)
CountersExact ==
    /\ count.used_bytes = Bytes(DOMAIN held)
    /\ count.free_bytes = Bytes(FreeOffs)
    /\ count.used_bytes + count.free_bytes = ArenaSize - RegionOff
    /\ count.live_blocks = Cardinality(DOMAIN held)
    /\ count.free_blocks = Cardinality(FreeOffs)

Seeded == lists = [k \in Orders |-> IF k \in Seeds THEN <<2^k>> ELSE <<>>]

(* Once every block is given back the free lists are those of buddy_init:  *)
(* no sequence of calls, in whatever order blocks come back and whatever   *)
(* was written into them, leaves an empty heap in smaller pieces.          *)
EmptyHeapIsSeeded == DOMAIN held = {} => Seeded

(* Merging is complete: below the top order no two free blocks are         *)
(* buddies, and an empty heap is the seeds again; and the counters heap    *)
(* prints agree with the blocks.                                           *)
MergedAndCounted == FullyMerged /\ EmptyHeapIsSeeded /\ CountersExact

-----------------------------------------------------------------------------
(* The buddy system implements the strategy contract, in cells of 16 bytes. *)
BuddyUnit == 16
BuddyLive ==
    [p \in {o \div BuddyUnit + 1 : o \in DOMAIN held} |->
        LET o == (p - 1) * BuddyUnit IN
        [len |-> BuddyUsableSize(o) \div BuddyUnit, asked |-> held[o]]]

BuddyHeap == INSTANCE AbstractHeap WITH
                Region <- ArenaSize \div BuddyUnit, Sizes <- BuddySizes, live <- BuddyLive

(* The buddy system implements the strategy contract. *)
BuddyContract == BuddyHeap!Spec
=============================================================================
