--------------------------- MODULE FirstFitProofs ---------------------------
(***************************************************************************)
(* Proofs about the first-fit strategy, for every arena size, every        *)
(* SizeMax and every set of request sizes.                                 *)
(***************************************************************************)
EXTENDS FirstFit, TLAPS, FiniteSetTheorems, WellFoundedInduction

(* The inductive invariant: the boundary tags, the tiling, the coalescing  *)
(* and the match with the callers' pointers hold together or not at all.   *)
IInv == TypeOK /\ BoundaryTags /\ Tiled /\ Coalesced /\ HeldBlocks

-----------------------------------------------------------------------------
(* Request arithmetic *)

(* A request that passes the overflow test of ff_alloc is rounded to at    *)
(* least one payload cell, to at least its own size, and its block size    *)
(* does not wrap.                                                          *)
LEMMA TotalBounds ==
    ASSUME NEW size \in Sizes, ~TooBig(size)
    PROVE  /\ Total(size) \in Nat
           /\ Total(size) >= MinBlock
           /\ size <= (Total(size) - Overhead) * Unit
<1>1. size \in Nat /\ SizeMax \in Nat /\ size + 48 <= SizeMax
      /\ SizeMax > 64
  BY SizeMaxAssumption, RequestAssumption DEF TooBig, Overhead, Unit
<1> DEFINE r == (size + 15) \div 16
<1>2. /\ r \in Nat
      /\ 16 * r <= size + 15
      /\ size <= 16 * r
  BY <1>1
<1>3. RoundUp(size) = r
  BY <1>1 DEF RoundUp, Wrap, Unit
<1>4. /\ Need(size) \in Nat
      /\ Need(size) >= 1
      /\ size <= 16 * Need(size)
      /\ 16 * Need(size) + 32 <= SizeMax
  BY <1>1, <1>2, <1>3 DEF Need
<1> HIDE DEF r
<1>5. Wrap(Need(size) * Unit + Overhead * Unit) = 16 * Need(size) + 32
  BY <1>1, <1>4 DEF Wrap, Unit, Overhead
<1>6. Total(size) = Need(size) + 2
  BY <1>4, <1>5 DEF Total, Unit
<1> QED
  BY <1>4, <1>6 DEF Overhead, Unit, MinBlock

(* Nothing but the two named cells changes when a tag pair is written.     *)
LEMMA MarkCells ==
    ASSUME NEW m \in [Cells -> Tag], NEW b \in Cells, NEW size \in Nat,
           size >= 1, b + size <= HeapEnd, NEW tag \in {"USED", "FREE"}
    PROVE  /\ Mark(m, b, size, tag) \in [Cells -> Tag]
           /\ Mark(m, b, size, tag)[b] = [size |-> size, tag |-> tag]
           /\ Mark(m, b, size, tag)[b + size - 1] = [size |-> size, tag |-> tag]
           /\ \A c \in Cells : c # b /\ c # b + size - 1
                                 => Mark(m, b, size, tag)[c] = m[c]
<1>0. HeapEnd \in Nat
  BY SpanAssumption DEF HeapEnd, MinBlock, Overhead
<1>1. b + size - 1 \in Cells /\ b \in Cells
  BY <1>0 DEF Cells
<1>2. [size |-> size, tag |-> tag] \in Tag
  BY DEF Tag
<1> QED
  BY <1>1, <1>2 DEF Mark

-----------------------------------------------------------------------------
LEMMA HeapEndNat == HeapEnd \in Nat /\ (HeapEnd = 0 \/ HeapEnd >= MinBlock)
  BY SpanAssumption DEF HeapEnd, MinBlock, Overhead

LEMMA InitInv == Init => IInv
<1> SUFFICES ASSUME Init PROVE IInv
  OBVIOUS
<1>1. Blank \in [Cells -> Tag]
  BY DEF Blank, Tag, Data
<1>2. CASE HeapEnd = 0
  BY <1>2, <1>1 DEF Init, IInv, TypeOK, BoundaryTags, Tiled, Coalesced, HeldBlocks, Cells
<1>3. CASE HeapEnd # 0
  <2>1. 0 \in Cells /\ HeapEnd \in Nat /\ HeapEnd >= 3
    BY <1>3, HeapEndNat DEF Cells, MinBlock, Overhead
  <2> DEFINE full == [size |-> HeapEnd, tag |-> "FREE"]
  <2>2. mem = Mark(Blank, 0, HeapEnd, "FREE") /\ starts = {0} /\ DOMAIN asked = {}
        /\ asked = [p \in {} |-> 0]
    BY <1>3 DEF Init
  <2>3. mem \in [Cells -> Tag] /\ mem[0] = full /\ mem[HeapEnd - 1] = full
    <3>1. HeapEnd >= 1 /\ 0 + HeapEnd <= HeapEnd /\ 0 + HeapEnd - 1 = HeapEnd - 1
      BY <2>1
    <3>2. /\ Mark(Blank, 0, HeapEnd, "FREE") \in [Cells -> Tag]
          /\ Mark(Blank, 0, HeapEnd, "FREE")[0] = full
          /\ Mark(Blank, 0, HeapEnd, "FREE")[0 + HeapEnd - 1] = full
      BY <3>1, <2>1, <1>1, MarkCells
    <3> QED
      BY <3>1, <3>2, <2>2
  <2>4. TypeOK
    BY <2>1, <2>2, <2>3 DEF TypeOK
  <2>5. BoundaryTags
    BY <2>1, <2>2, <2>3 DEF BoundaryTags, End, MinBlock, Overhead
  <2>6. Tiled
    BY <2>1, <2>2, <2>3 DEF Tiled, End
  <2>7. Coalesced
    BY <2>1, <2>2, <2>3 DEF Coalesced, End
  <2>8. HeldBlocks
    BY <2>1, <2>2, <2>3 DEF HeldBlocks
  <2> QED
    BY <2>4, <2>5, <2>6, <2>7, <2>8 DEF IInv
<1> QED
  BY <1>2, <1>3
-----------------------------------------------------------------------------
(* Two different blocks are apart. *)
LEMMA Apart ==
    ASSUME TypeOK, BoundaryTags, Tiled, NEW b \in starts, NEW c \in starts, c # b
    PROVE  \/ c < b /\ End(c) <= b
           \/ b < c /\ End(b) <= c
  BY HeapEndNat DEF TypeOK, Tiled, Cells

(* What a block looks like, in the terms the steps below need. *)
LEMMA BlockShape ==
    ASSUME TypeOK, BoundaryTags, Tiled, NEW b \in starts
    PROVE  /\ b \in Nat /\ b \in Cells /\ HeapEnd \in Nat
           /\ mem[b].size \in Nat /\ mem[b].size >= 3
           /\ End(b) = b + mem[b].size
           /\ End(b) <= HeapEnd
           /\ End(b) - 1 \in Cells
           /\ mem[b].tag \in {"USED", "FREE"}
           /\ mem[b] \in Tag
  BY HeapEndNat DEF TypeOK, BoundaryTags, Cells, Tag, End, MinBlock, Overhead

(* After the step the blocks S have the tags they have in m; what is in    *)
(* the payloads and inside free blocks does not matter.                    *)
SameTags(m, S) ==
    /\ mem' \in [Cells -> Tag]
    /\ \A c \in S : /\ mem'[c] = m[c]
                    /\ mem'[c + m[c].size - 1] = m[c + m[c].size - 1]

AllocTags(size, b) ==
    /\ FirstFitting(b, size)
    /\ SameTags(CarvedMem(b, size), starts')
    /\ starts' = CarvedStarts(b, size)
    /\ asked' = WithAsked(b, size)

FreeTags(p) ==
    /\ SameTags(MergedMem(p), starts')
    /\ starts' = MergedStarts(p)
    /\ asked' = WithoutAsked(p)

(* A step that hands block b out, whole or cut after t cells. *)
LEMMA AllocTagsInv ==
    ASSUME IInv, NEW size \in Sizes, NEW b \in starts, AllocTags(size, b)
    PROVE  /\ IInv'
           /\ b \in starts' /\ b + 1 \notin DOMAIN asked
           /\ \A c \in starts : c # b => c \in starts' /\ mem'[c] = mem[c]
<1> USE DEF IInv
<1> DEFINE t == Total(size)
           s == mem[b].size
           n == b + t
           rest == s - t
<1>1. /\ t \in Nat /\ t >= 3 /\ size <= (t - 2) * 16
      /\ size \in Nat
  BY TotalBounds, RequestAssumption, SizeMaxAssumption DEF AllocTags, FirstFitting, MinBlock, Overhead, Unit
<1>2. /\ b \in Nat /\ b \in Cells /\ HeapEnd \in Nat /\ s \in Nat /\ s >= t
      /\ b + s <= HeapEnd /\ End(b) = b + s /\ mem[b].tag = "FREE"
      /\ mem[b] \in Tag
  BY BlockShape DEF AllocTags, FirstFitting, Fits
<1>3. asked' = [p \in DOMAIN asked \cup {b + 1} |-> IF p = b + 1 THEN size ELSE asked[p]]
  BY DEF AllocTags, WithAsked
<1>4. b + 1 \notin DOMAIN asked
  BY <1>2 DEF HeldBlocks, TypeOK, Cells
<1>5. asked' \in [DOMAIN asked' -> Nat] /\ DOMAIN asked' = DOMAIN asked \cup {b + 1}
      /\ DOMAIN asked' \subseteq Nat
      /\ asked'[b + 1] = size
      /\ \A p \in DOMAIN asked : asked'[p] = asked[p]
  BY <1>1, <1>2, <1>3, <1>4 DEF TypeOK
<1>6. CASE rest >= MinBlock
  <2>1. /\ rest \in Nat /\ rest >= 3 /\ n \in Nat /\ n \in Cells
        /\ n + rest = b + s /\ b < n /\ n < b + s
    BY <1>1, <1>2, <1>6 DEF MinBlock, Overhead, Cells
  <2> DEFINE m1 == Mark(mem, b, t, "USED")
             m2 == CarvedMem(b, size)
  <2>2. m2 = Mark(m1, n, rest, "FREE") /\ starts' = starts \cup {n}
    BY <1>6 DEF AllocTags, CarvedMem, CarvedStarts, Splits
  <2>3. /\ m1 \in [Cells -> Tag]
        /\ m1[b] = [size |-> t, tag |-> "USED"]
        /\ m1[n - 1] = [size |-> t, tag |-> "USED"]
        /\ \A c \in Cells : c # b /\ c # n - 1 => m1[c] = mem[c]
    <3>1. /\ t \in Nat /\ t >= 1 /\ b + t <= HeapEnd /\ mem \in [Cells -> Tag]
          /\ n - 1 = b + t - 1 /\ b \in Cells
      BY <1>1, <1>2 DEF TypeOK
    <3> HIDE DEF t, n
    <3>2. /\ Mark(mem, b, t, "USED") \in [Cells -> Tag]
          /\ Mark(mem, b, t, "USED")[b] = [size |-> t, tag |-> "USED"]
          /\ Mark(mem, b, t, "USED")[b + t - 1] = [size |-> t, tag |-> "USED"]
          /\ \A c \in Cells : c # b /\ c # b + t - 1
                               => Mark(mem, b, t, "USED")[c] = mem[c]
      BY <3>1, MarkCells
    <3> QED
      BY <3>1, <3>2
  <2> HIDE DEF m1, m2
  <2>4. /\ m2[n] = [size |-> rest, tag |-> "FREE"]
        /\ m2[b + s - 1] = [size |-> rest, tag |-> "FREE"]
        /\ \A c \in Cells : c # n /\ c # b + s - 1 => m2[c] = m1[c]
    <3>1. /\ rest \in Nat /\ rest >= 1 /\ n + rest <= HeapEnd /\ n \in Cells
          /\ n + rest - 1 = b + s - 1
      BY <2>1, <1>2
    <3> HIDE DEF t, n, rest, s
    <3>2. /\ Mark(m1, n, rest, "FREE") \in [Cells -> Tag]
          /\ Mark(m1, n, rest, "FREE")[n] = [size |-> rest, tag |-> "FREE"]
          /\ Mark(m1, n, rest, "FREE")[n + rest - 1] = [size |-> rest, tag |-> "FREE"]
          /\ \A c \in Cells : c # n /\ c # n + rest - 1
                               => Mark(m1, n, rest, "FREE")[c] = m1[c]
      BY <3>1, <2>3, MarkCells
    <3> QED
      BY <3>1, <3>2, <2>2
  <2>5. /\ m2[b] = [size |-> t, tag |-> "USED"]
        /\ m2[n - 1] = [size |-> t, tag |-> "USED"]
    <3>1. b \in Cells /\ b # n /\ b # b + s - 1
      BY <1>1, <1>2, <2>1
    <3>2. n - 1 \in Cells /\ n - 1 # n /\ n - 1 # b + s - 1
      BY <1>1, <1>2, <2>1 DEF Cells
    <3> HIDE DEF t, n, s
    <3> QED
      BY <3>1, <3>2, <2>3, <2>4
  <2>6. ASSUME NEW c \in starts, c # b
        PROVE  /\ m2[c] = mem[c] /\ m2[End(c) - 1] = mem[End(c) - 1]
               /\ End(c) - 1 = c + mem[c].size - 1 /\ End(c) = c + mem[c].size
               /\ (c < b /\ End(c) <= b) \/ b + s <= c
    <3>1. (c < b /\ End(c) <= b) \/ b + s <= c
      BY Apart, <1>2, <2>6
    <3>2. /\ c \in Cells /\ End(c) - 1 \in Cells
          /\ End(c) = c + mem[c].size /\ mem[c].size >= 3 /\ mem[c].size \in Nat
          /\ c \in Nat
      BY BlockShape
    <3> HIDE DEF t
    <3>3. m2[c] = mem[c] /\ m2[End(c) - 1] = mem[End(c) - 1]
      BY <3>1, <3>2, <1>1, <1>2, <2>1, <2>3, <2>4
    <3> QED
      BY <3>1, <3>2, <3>3
  <2>61. /\ mem' \in [Cells -> Tag]
         /\ \A c \in starts' : /\ mem'[c] = m2[c]
                              /\ mem'[c + m2[c].size - 1] = m2[c + m2[c].size - 1]
    BY DEF AllocTags, SameTags, m2
  <2>62. /\ mem'[b] = [size |-> t, tag |-> "USED"]
         /\ mem'[n - 1] = [size |-> t, tag |-> "USED"]
    <3>2. b + t - 1 = n - 1
      BY <1>1, <1>2
    <3> HIDE DEF t, n
    <3>3. m2[b].size = t /\ b \in starts'
      BY <2>2, <2>5
    <3> QED
      BY <3>2, <3>3, <2>5, <2>61
  <2>63. /\ mem'[n] = [size |-> rest, tag |-> "FREE"]
         /\ mem'[b + s - 1] = [size |-> rest, tag |-> "FREE"]
    <3>1. n + rest - 1 = b + s - 1
      BY <2>1, <1>1, <1>2
    <3> HIDE DEF t, n, s, rest
    <3>2. m2[n].size = rest /\ n \in starts'
      BY <2>2, <2>4
    <3> QED
      BY <3>1, <3>2, <2>4, <2>61
  <2>64. ASSUME NEW c \in starts, c # b
         PROVE  /\ mem'[c] = mem[c] /\ mem'[End(c) - 1] = mem[End(c) - 1]
                /\ End(c)' = End(c)
                /\ (c < b /\ End(c) <= b) \/ b + s <= c
    <3>1. /\ m2[c] = mem[c] /\ m2[End(c) - 1] = mem[End(c) - 1]
          /\ End(c) - 1 = c + mem[c].size - 1 /\ End(c) = c + mem[c].size
          /\ (c < b /\ End(c) <= b) \/ b + s <= c
      BY <2>6, <2>64
    <3>2. c \in starts'
      BY <2>2
    <3>3. mem'[c] = mem[c] /\ mem'[c + mem[c].size - 1] = m2[c + mem[c].size - 1]
      BY <3>1, <3>2, <2>61
    <3> HIDE DEF t, n, s, rest
    <3>4. End(c)' = c + mem'[c].size
      BY DEF End
    <3> QED
      BY <3>1, <3>3, <3>4
  <2>7. /\ End(b)' = n /\ End(n)' = b + s
    BY <2>1, <2>63, <2>62 DEF End
  <2>8. n \notin starts
    BY <2>1, <2>64, <1>2, BlockShape
  <2> HIDE DEF n, rest, t, s
  <2>9. TypeOK'
    BY <1>5, <2>1, <2>2, <2>61 DEF TypeOK
  <2>10. BoundaryTags'
    <3> SUFFICES ASSUME NEW c \in starts'
                 PROVE  /\ mem'[c].tag \in {"USED", "FREE"}
                        /\ mem'[c].size >= 3
                        /\ End(c)' <= HeapEnd
                        /\ mem'[End(c)' - 1] = mem'[c]
      BY DEF BoundaryTags, MinBlock, Overhead
    <3>1. CASE c = b
      BY <3>1, <2>62, <2>7, <2>1, <1>1, <1>2
    <3>2. CASE c = n
      BY <3>2, <2>63, <2>7, <2>1, <1>2
    <3>3. CASE c \in starts /\ c # b
      BY <3>3, <2>64 DEF BoundaryTags, MinBlock, Overhead
    <3> QED
      BY <3>1, <3>2, <3>3, <2>2
  <2>11. Tiled'
    <3>1. HeapEnd > 0 => 0 \in starts'
      BY <2>2 DEF Tiled
    <3>2. \A c \in starts' : End(c)' = HeapEnd \/ End(c)' \in starts'
      <4> SUFFICES ASSUME NEW c \in starts'
                   PROVE  End(c)' = HeapEnd \/ End(c)' \in starts'
        OBVIOUS
      <4>1. CASE c = b
        BY <4>1, <2>2, <2>7
      <4>2. CASE c = n
        BY <4>2, <1>2, <2>2, <2>7 DEF Tiled
      <4>3. CASE c \in starts /\ c # b
        BY <4>3, <2>2, <2>64 DEF Tiled
      <4> QED
        BY <4>1, <4>2, <4>3, <2>2
    <3>3. \A c \in starts' : c = 0 \/ \E d \in starts' : End(d)' = c
      <4> SUFFICES ASSUME NEW c \in starts', c # 0
                   PROVE  \E d \in starts' : End(d)' = c
        OBVIOUS
      <4>1. CASE c = n
        BY <4>1, <2>2, <2>7
      <4>2. CASE c \in starts
        <5>1. PICK d \in starts : End(d) = c
          BY <4>2 DEF Tiled
        <5>2. CASE d = b
          BY <5>1, <5>2, <2>2, <2>7, <1>2
        <5>3. CASE d # b
          BY <5>1, <5>3, <2>2, <2>64
        <5> QED
          BY <5>2, <5>3
      <4> QED
        BY <4>1, <4>2, <2>2
    <3>4. \A c, d \in starts' : c < d => End(c)' <= d
      <4> SUFFICES ASSUME NEW c \in starts', NEW d \in starts', c < d
                   PROVE  End(c)' <= d
        OBVIOUS
      <4>0. \A e \in starts : e \in Nat /\ End(e) \in Nat
        BY BlockShape
      <4>1. CASE c = b /\ d = n
        BY <4>1, <2>1, <2>7
      <4>2. CASE c = b /\ d \in starts /\ d # b
        <5>1. b + s <= d
          BY <4>0, <4>2, <2>64
        <5>2. d \in Nat /\ n \in Nat /\ n < b + s /\ b + s \in Nat
          BY <4>0, <4>2, <2>1, <1>2
        <5>3. End(c)' = n
          BY <4>2, <2>7
        <5> QED
          BY <5>1, <5>2, <5>3
      <4>3. CASE c = n /\ d \in starts /\ d # b
        <5>1. b + s <= d
          BY <4>0, <4>3, <2>1, <2>64
        <5> QED
          BY <5>1, <4>3, <2>7
      <4>4. CASE c = n /\ d = b
        BY <4>4, <2>1, <1>2
      <4>5. CASE c \in starts /\ c # b /\ d = n
        <5>1. End(c)' = End(c) /\ ((c < b /\ End(c) <= b) \/ b + s <= c)
          BY <4>5, <2>64
        <5>2. ~(b + s <= c)
          BY <4>0, <4>5, <2>1, <1>2
        <5> QED
          BY <5>1, <5>2, <4>0, <4>5, <2>1, <1>2
      <4>6. CASE c \in starts /\ c # b /\ d \in starts
        BY <4>6, <2>64 DEF Tiled
      <4>7. ~(c = n /\ d = n) /\ ~(c = b /\ d = b)
        BY <2>1, <1>2
      <4> QED
        BY <4>1, <4>2, <4>3, <4>4, <4>5, <4>6, <4>7, <2>2
    <3> QED
      BY <3>1, <3>2, <3>3, <3>4 DEF Tiled
  <2>12. Coalesced'
    <3> SUFFICES ASSUME NEW c \in starts', mem'[c].tag = "FREE",
                        End(c)' \in starts', mem'[End(c)'].tag = "FREE"
                 PROVE  FALSE
      BY DEF Coalesced
    <3>0. \A e \in starts : e \in Nat /\ End(e) \in Nat /\ End(e) > e
      BY BlockShape
    <3>1. CASE c = b
      BY <3>1, <2>62
    <3>2. CASE c = n
      <4>1. End(b) \in starts
        BY <3>2, <2>7, <2>1, <2>2, <1>2
      <4>2. mem[End(b)].tag = "FREE"
        BY <3>2, <2>7, <4>1, <2>64, <1>2, <3>0
      <4> QED
        BY <4>1, <4>2, <1>2 DEF Coalesced
    <3>3. CASE c \in starts /\ c # b
      <4>1. End(c)' = End(c) /\ mem[c].tag = "FREE"
        BY <3>3, <2>64
      <4>2. End(c) # n
        BY <3>3, <2>64, <2>1, <3>0, <1>2
      <4>3. End(c) \in starts
        BY <4>1, <4>2, <2>2
      <4>4. mem[End(c)].tag = "FREE"
        BY <4>1, <4>3, <2>64, <1>2
      <4> QED
        BY <4>1, <4>3, <4>4, <3>3 DEF Coalesced
    <3> QED
      BY <3>1, <3>2, <3>3, <2>2
  <2>13. HeldBlocks'
    <3>1. DOMAIN asked' = {c + 1 : c \in {d \in starts' : mem'[d].tag = "USED"}}
      <4>1. {d \in starts' : mem'[d].tag = "USED"} = {d \in starts : mem[d].tag = "USED"} \cup {b}
        BY <2>2, <2>63, <2>62, <2>64, <1>2
      <4> QED
        BY <4>1, <1>5 DEF HeldBlocks
    <3>2. \A p \in DOMAIN asked' : asked'[p] <= UsableSize(p)'
      <4> SUFFICES ASSUME NEW p \in DOMAIN asked'
                   PROVE  asked'[p] <= (mem'[p - 1].size - 2) * 16
        BY DEF UsableSize, Overhead, Unit
      <4>1. CASE p = b + 1
        <5>1. p - 1 = b /\ asked'[p] = size
          BY <4>1, <1>2, <1>5
        <5> QED
          BY <5>1, <2>62, <1>1
      <4>2. CASE p \in DOMAIN asked
        <5>1. PICK c \in starts : mem[c].tag = "USED" /\ p = c + 1
          BY <4>2 DEF HeldBlocks
        <5>2. p - 1 = c /\ c # b
          BY <5>1, <1>2, BlockShape
        <5>3. asked[p] <= (mem[p - 1].size - 2) * 16
          BY <4>2 DEF HeldBlocks, UsableSize, Overhead, Unit
        <5> QED
          BY <5>2, <5>3, <2>64, <1>5, <4>2
      <4> QED
        BY <4>1, <4>2, <1>5
    <3> QED
      BY <3>1, <3>2 DEF HeldBlocks
  <2> QED
    BY <1>4, <2>2, <2>64, <2>9, <2>10, <2>11, <2>12, <2>13
<1>7. CASE ~(rest >= MinBlock)
  <2> DEFINE m2 == CarvedMem(b, size)
  <2>1. m2 = Mark(mem, b, s, "USED") /\ starts' = starts
    BY <1>7 DEF AllocTags, CarvedMem, CarvedStarts, Splits
  <2>11. /\ m2[b] = [size |-> s, tag |-> "USED"]
         /\ m2[b + s - 1] = [size |-> s, tag |-> "USED"]
         /\ \A c \in Cells : c # b /\ c # b + s - 1 => m2[c] = mem[c]
    <3>1. s >= 1 /\ mem \in [Cells -> Tag]
      BY <1>1, <1>2 DEF TypeOK
    <3>2. s \in Nat /\ b + s <= HeapEnd /\ b \in Cells
      BY <1>2
    <3> HIDE DEF s
    <3>3. /\ Mark(mem, b, s, "USED") \in [Cells -> Tag]
          /\ Mark(mem, b, s, "USED")[b] = [size |-> s, tag |-> "USED"]
          /\ Mark(mem, b, s, "USED")[b + s - 1] = [size |-> s, tag |-> "USED"]
          /\ \A c \in Cells : c # b /\ c # b + s - 1
                               => Mark(mem, b, s, "USED")[c] = mem[c]
      BY <3>1, <3>2, MarkCells
    <3> QED
      BY <3>3, <2>1
  <2> HIDE DEF m2
  <2>12. /\ mem' \in [Cells -> Tag]
         /\ \A c \in starts : /\ mem'[c] = m2[c]
                             /\ mem'[c + m2[c].size - 1] = m2[c + m2[c].size - 1]
    BY <2>1 DEF AllocTags, SameTags, m2
  <2>2. /\ mem' \in [Cells -> Tag]
        /\ mem'[b] = [size |-> s, tag |-> "USED"]
        /\ mem'[b + s - 1] = [size |-> s, tag |-> "USED"]
    BY <2>11, <2>12
  <2>3. ASSUME NEW c \in starts, c # b
        PROVE  mem'[c] = mem[c] /\ mem'[End(c) - 1] = mem[End(c) - 1]
    <3>1. (c < b /\ End(c) <= b) \/ b + s <= c
      BY Apart, <1>2, <2>3
    <3>2. /\ c \in Cells /\ End(c) - 1 \in Cells
          /\ End(c) = c + mem[c].size /\ mem[c].size >= 3 /\ mem[c].size \in Nat
          /\ c \in Nat
      BY BlockShape
    <3>3. m2[c] = mem[c] /\ m2[End(c) - 1] = mem[End(c) - 1]
      BY <3>1, <3>2, <1>1, <1>2, <2>11
    <3> QED
      BY <3>2, <3>3, <2>12
  <2>4. ASSUME NEW c \in starts
        PROVE  End(c)' = End(c) /\ mem'[c].size = mem[c].size
    <3>1. mem'[c].size = mem[c].size
      BY <2>2, <2>3
    <3> QED
      BY <3>1 DEF End
  <2>5. TypeOK'
    BY <1>5, <2>1, <2>2 DEF TypeOK
  <2>6. BoundaryTags'
    <3> SUFFICES ASSUME NEW c \in starts
                 PROVE  /\ mem'[c].tag \in {"USED", "FREE"}
                        /\ mem'[c].size >= MinBlock
                        /\ End(c) <= HeapEnd
                        /\ mem'[End(c) - 1] = mem'[c]
      BY <2>1, <2>4 DEF BoundaryTags
    <3>1. CASE c = b
      BY <3>1, <2>2, <2>4, <1>2 DEF BoundaryTags
    <3>2. CASE c # b
      BY <3>2, <2>3 DEF BoundaryTags
    <3> QED
      BY <3>1, <3>2
  <2>7. Tiled'
    BY <2>1, <2>4 DEF Tiled
  <2>8. Coalesced'
    BY <2>1, <2>2, <2>3, <2>4 DEF Coalesced
  <2>9. HeldBlocks'
    <3>1. DOMAIN asked' = {c + 1 : c \in {d \in starts' : mem'[d].tag = "USED"}}
      <4>1. {d \in starts' : mem'[d].tag = "USED"} = {d \in starts : mem[d].tag = "USED"} \cup {b}
        BY <2>1, <2>2, <2>3, <1>2
      <4> QED
        BY <4>1, <1>5 DEF HeldBlocks
    <3>2. \A p \in DOMAIN asked' : asked'[p] <= UsableSize(p)'
      <4> SUFFICES ASSUME NEW p \in DOMAIN asked'
                   PROVE  asked'[p] <= (mem'[p - 1].size - 2) * 16
        BY DEF UsableSize, Overhead, Unit
      <4>1. CASE p = b + 1
        <5>1. p - 1 = b /\ asked'[p] = size
          BY <4>1, <1>2, <1>5
        <5> QED
          BY <5>1, <2>2, <1>1, <1>2
      <4>2. CASE p \in DOMAIN asked
        <5>1. PICK c \in starts : mem[c].tag = "USED" /\ p = c + 1
          BY <4>2 DEF HeldBlocks
        <5>2. p - 1 = c
          BY <5>1, BlockShape
        <5>3. asked[p] <= (mem[p - 1].size - 2) * 16
          BY <4>2 DEF HeldBlocks, UsableSize, Overhead, Unit
        <5> QED
          BY <5>1, <5>2, <5>3, <2>4, <1>5, <4>2
      <4> QED
        BY <4>1, <4>2, <1>5
    <3> QED
      BY <3>1, <3>2 DEF HeldBlocks
  <2> QED
    BY <1>4, <2>1, <2>3, <2>5, <2>6, <2>7, <2>8, <2>9
<1> QED
  BY <1>6, <1>7
(* A tag pair is written over cells of any kind. *)
LEMMA MarkType ==
    ASSUME NEW m \in [Cells -> Tag], NEW b, NEW size \in Nat, NEW tag \in {"USED", "FREE"}
    PROVE  Mark(m, b, size, tag) \in [Cells -> Tag]
<1>1. [size |-> size, tag |-> tag] \in Tag
  BY DEF Tag
<1> QED
  BY <1>1 DEF Mark

(* ff_alloc leaves the tags it writes where they are. *)
LEMMA AllocInv ==
    ASSUME IInv, NEW size \in Sizes, NEW b \in starts, Alloc(size, b)
    PROVE  /\ IInv'
           /\ b \in starts' /\ b + 1 \notin DOMAIN asked
           /\ \A c \in starts : c # b => c \in starts' /\ mem'[c] = mem[c]
<1>1. mem' \in [Cells -> Tag]
  <2> DEFINE t == Total(size)
             rest == mem[b].size - t
  <2>1. /\ mem \in [Cells -> Tag] /\ mem[b].size \in Nat
        /\ t \in Nat /\ t <= mem[b].size /\ rest \in Nat
    BY TotalBounds, BlockShape DEF IInv, TypeOK, Alloc, FirstFitting, Fits
  <2>2. mem' = CarvedMem(b, size)
    BY DEF Alloc
  <2>3. CASE Splits(b, size)
    <3>1. mem' = Mark(Mark(mem, b, t, "USED"), b + t, rest, "FREE")
      BY <2>2, <2>3 DEF CarvedMem
    <3> HIDE DEF t, rest
    <3> QED
      BY <2>1, <3>1, MarkType
  <2>4. CASE ~Splits(b, size)
    <3>1. mem' = Mark(mem, b, mem[b].size, "USED")
      BY <2>2, <2>4 DEF CarvedMem
    <3> QED
      BY <2>1, <3>1, MarkType
  <2> QED
    BY <2>3, <2>4
<1>2. AllocTags(size, b)
  BY <1>1 DEF Alloc, AllocTags, SameTags
<1> QED
  BY <1>2, AllocTagsInv

(* The block below a block that is not the first: what ff_prev finds.      *)
LEMMA PrevBlock ==
    ASSUME TypeOK, BoundaryTags, Tiled, NEW b \in starts, b > 0
    PROVE  Prev(b) \in starts /\ End(Prev(b)) = b /\ Prev(b) < b
<1>1. PICK c \in starts : End(c) = b
  BY BlockShape DEF Tiled
<1>2. mem[b - 1] = mem[c]
  BY <1>1 DEF BoundaryTags
<1>3. Prev(b) = c
  BY <1>1, <1>2, BlockShape DEF Prev
<1> QED
  BY <1>1, <1>3, BlockShape

(* The block above a block that is not the last: what ff_next finds.       *)
LEMMA NextBlock ==
    ASSUME TypeOK, BoundaryTags, Tiled, NEW b \in starts, End(b) < HeapEnd
    PROVE  End(b) \in starts /\ b < End(b)
  BY BlockShape DEF Tiled

(* Giving a block back.  "at" and "top" delimit the merged free block.     *)
LEMMA FreeTagsInv ==
    ASSUME IInv, NEW p \in DOMAIN asked, FreeTags(p)
    PROVE  /\ IInv'
           /\ \A c \in starts : c # p - 1 /\ mem[c].tag = "USED" => mem'[c] = mem[c]
           /\ \A c \in starts : c = p - 1 \/ mem[c].tag = "FREE" =>
                 \E d \in starts' : mem'[d].tag = "FREE" /\ d <= c /\ End(c) <= End(d)'
<1> USE DEF IInv
<1> DEFINE b == p - 1
           below == IF PrevFree(b) THEN Prev(b) ELSE b
           above == IF NextFree(b) THEN End(b) ELSE b
           gone == (IF NextFree(b) THEN {End(b)} ELSE {})
                     \cup (IF PrevFree(b) THEN {b} ELSE {})
<1>0. PICK at, up, top : at = below /\ up = above /\ top = End(above)
  OBVIOUS
<1>1. b \in starts /\ mem[b].tag = "USED" /\ p = b + 1
  BY BlockShape DEF HeldBlocks
<1>2. /\ up \in starts /\ b <= up /\ top = End(up)
      /\ NextFree(b) => up = End(b) /\ b < up /\ mem[up].tag = "FREE"
      /\ ~NextFree(b) => up = b
  BY <1>0, <1>1, NextBlock, BlockShape DEF NextFree
<1>3. /\ at \in starts /\ at <= b
      /\ PrevFree(b) => End(at) = b /\ at < b /\ mem[at].tag = "FREE"
      /\ ~PrevFree(b) => at = b
  BY <1>0, <1>1, PrevBlock, BlockShape DEF PrevFree
<1>4. starts' = starts \ gone
  BY DEF FreeTags, MergedStarts, WithoutAsked
<1>5. gone = {c \in starts : at < c /\ c < top}
  <2>1. \A c \in starts : c \in Nat /\ End(c) \in Nat /\ c < End(c)
    BY BlockShape
  <2>2. ASSUME NEW c \in starts, at < c, c < top PROVE c \in gone
    <3>1. c = b \/ c = up
      <4>1. c # at /\ (at # b => b <= c)
        BY <2>2, <2>1, <1>1, <1>3, Apart
      <4>2. c # b => End(b) <= c \/ c < b
        BY <2>1, <1>1, Apart
      <4>3. c <= up
        BY <2>2, <2>1, <1>2, Apart
      <4> QED
        BY <4>1, <4>2, <4>3, <2>1, <2>2, <1>1, <1>2, <1>3
    <3>2. CASE c = b
      BY <3>2, <2>2, <2>1, <1>3, <1>1
    <3>3. CASE c = up /\ c # b
      BY <3>3, <1>2
    <3> QED
      BY <3>1, <3>2, <3>3
  <2>3. ASSUME NEW c \in gone PROVE c \in starts /\ at < c /\ c < top
    <3>1. CASE NextFree(b) /\ c = End(b)
      BY <3>1, <2>1, <1>1, <1>2, <1>3
    <3>2. CASE PrevFree(b) /\ c = b
      BY <3>2, <2>1, <1>1, <1>2, <1>3
    <3> QED
      BY <3>1, <3>2
  <2> QED
    BY <2>2, <2>3
<1>6. /\ at \in Cells /\ at \in Nat /\ top \in Nat /\ top <= HeapEnd
      /\ top - at \in Nat /\ top - at >= 3
      /\ b < top
  BY <1>0, <1>1, <1>2, <1>3, BlockShape
<1>7. MergedMem(p) = Mark(mem, at, top - at, "FREE")
  <2> DEFINE size == mem[b].size
                       + (IF NextFree(b) THEN mem[End(b)].size ELSE 0)
                       + (IF PrevFree(b) THEN mem[Prev(b)].size ELSE 0)
  <2>1. MergedMem(p) = Mark(mem, at, size, "FREE")
    BY <1>0 DEF MergedMem
  <2>2. size = top - at
    <3>1. mem[b].size + (IF NextFree(b) THEN mem[End(b)].size ELSE 0) = top - b
      BY <1>0, <1>1, <1>2, BlockShape
    <3>2. (IF PrevFree(b) THEN mem[Prev(b)].size ELSE 0) = b - at
      BY <1>0, <1>1, <1>3, BlockShape
    <3> QED
      BY <3>1, <3>2, <1>6, <1>1, BlockShape
  <2> QED
    BY <2>1, <2>2
<1> HIDE DEF b, below, above, gone
<1> DEFINE m2 == MergedMem(p)
<1>71. /\ m2[at] = [size |-> top - at, tag |-> "FREE"]
       /\ m2[top - 1] = [size |-> top - at, tag |-> "FREE"]
       /\ \A c \in Cells : c # at /\ c # top - 1 => m2[c] = mem[c]
  <2>1. /\ at + (top - at) - 1 = top - 1 /\ at + (top - at) <= HeapEnd
        /\ mem \in [Cells -> Tag] /\ top - at \in Nat /\ top - at >= 1
    BY <1>6, HeapEndNat DEF TypeOK
  <2> DEFINE size == top - at
  <2>2. size \in Nat /\ size >= 1 /\ at + size <= HeapEnd /\ at + size - 1 = top - 1
    BY <2>1
  <2> HIDE DEF size
  <2>3. /\ Mark(mem, at, size, "FREE") \in [Cells -> Tag]
        /\ Mark(mem, at, size, "FREE")[at] = [size |-> size, tag |-> "FREE"]
        /\ Mark(mem, at, size, "FREE")[at + size - 1] = [size |-> size, tag |-> "FREE"]
        /\ \A c \in Cells : c # at /\ c # at + size - 1
                             => Mark(mem, at, size, "FREE")[c] = mem[c]
    BY <2>1, <2>2, <1>6, MarkCells
  <2>4. m2 = Mark(mem, at, size, "FREE") /\ size = top - at
    BY <1>7 DEF size
  <2> QED
    BY <2>2, <2>3, <2>4
<1> HIDE DEF m2
<1>72. /\ mem' \in [Cells -> Tag]
       /\ \A c \in starts' : /\ mem'[c] = m2[c]
                            /\ mem'[c + m2[c].size - 1] = m2[c + m2[c].size - 1]
  BY DEF FreeTags, SameTags, m2
<1>73. at \in starts'
  BY <1>3, <1>4, <1>5, <1>6
<1>8. /\ mem' \in [Cells -> Tag]
      /\ mem'[at] = [size |-> top - at, tag |-> "FREE"]
      /\ mem'[top - 1] = [size |-> top - at, tag |-> "FREE"]
  <2>1. m2[at].size = top - at /\ at + (top - at) - 1 = top - 1
    BY <1>6, <1>71
  <2> QED
    BY <2>1, <1>71, <1>72, <1>73
<1>9. at \in starts' /\ End(at)' = top
  BY <1>6, <1>8, <1>73 DEF End
<1>10. ASSUME NEW c \in starts', c # at
       PROVE  /\ c \in starts /\ c # b
              /\ mem'[c] = mem[c] /\ mem'[End(c) - 1] = mem[End(c) - 1]
              /\ End(c)' = End(c)
              /\ (c < at /\ End(c) <= at) \/ top <= c
  <2>1. c \in starts /\ ~(at < c /\ c < top)
    BY <1>4, <1>5, <1>10
  <2>2. /\ c \in Cells /\ c \in Nat /\ End(c) - 1 \in Cells /\ c < End(c)
        /\ End(c) = c + mem[c].size /\ End(c) \in Nat
    BY <2>1, BlockShape
  <2>3. (c < at /\ End(c) <= at) \/ top <= c
    BY <2>1, <2>2, <1>3, <1>6, <1>10, Apart
  <2>4. m2[c] = mem[c] /\ m2[End(c) - 1] = mem[End(c) - 1]
    BY <2>2, <2>3, <1>6, <1>71
  <2>41. mem'[c] = mem[c] /\ mem'[End(c) - 1] = mem[End(c) - 1]
    <3>1. mem'[c] = m2[c] /\ mem'[c + m2[c].size - 1] = m2[c + m2[c].size - 1]
      BY <1>72, <1>10
    <3>2. mem'[c + mem[c].size - 1] = m2[c + mem[c].size - 1]
      BY <2>4, <3>1
    <3>3. End(c) - 1 = c + mem[c].size - 1
      BY <2>1, BlockShape
    <3> QED
      BY <2>4, <3>1, <3>2, <3>3
  <2>5. c # b
    BY <2>1, <1>1, <1>3, <1>6, <1>10, BlockShape
  <2> QED
    BY <2>1, <2>2, <2>3, <2>41, <2>5 DEF End
(* The neighbours of the merged block are in use. *)
<1>11. top = HeapEnd \/ (top \in starts' /\ mem[top].tag = "USED")
  <2> SUFFICES ASSUME top # HeapEnd PROVE top \in starts' /\ mem[top].tag = "USED"
    OBVIOUS
  <2>1. top \in starts
    BY <1>2 DEF Tiled
  <2>2. top \in starts'
    BY <2>1, <1>4, <1>5, <1>6
  <2>3. mem[top].tag # "FREE"
    <3>1. CASE NextFree(b)
      BY <3>1, <2>1, <1>2 DEF Coalesced
    <3>2. CASE ~NextFree(b)
      BY <3>2, <2>1, <1>2, <1>6, BlockShape DEF NextFree
    <3> QED
      BY <3>1, <3>2
  <2> QED
    BY <2>1, <2>2, <2>3, BlockShape
<1>12. \A c \in starts : End(c) = at => mem[c].tag = "USED"
  <2> SUFFICES ASSUME NEW c \in starts, End(c) = at, mem[c].tag = "FREE"
               PROVE  FALSE
    BY BlockShape
  <2>1. CASE PrevFree(b)
    BY <2>1, <1>3 DEF Coalesced
  <2>2. CASE ~PrevFree(b)
    <3>1. at = b /\ b > 0
      BY <2>2, <1>3, BlockShape
    <3>2. mem[b - 1] = mem[c] /\ Prev(b) = c
      BY <3>1, BlockShape DEF BoundaryTags, Prev
    <3> QED
      BY <2>2, <3>1, <3>2 DEF PrevFree
  <2> QED
    BY <2>1, <2>2
<1>13. /\ asked' = [q \in DOMAIN asked \ {p} |-> asked[q]]
       /\ DOMAIN asked' = DOMAIN asked \ {p}
       /\ \A q \in DOMAIN asked' : asked'[q] = asked[q]
  BY DEF FreeTags, MergedStarts, WithoutAsked
<1>14. TypeOK'
  BY <1>4, <1>8, <1>13 DEF TypeOK
<1>15. BoundaryTags'
  <2> SUFFICES ASSUME NEW c \in starts'
               PROVE  /\ mem'[c].tag \in {"USED", "FREE"}
                      /\ mem'[c].size >= 3
                      /\ End(c)' <= HeapEnd
                      /\ mem'[End(c)' - 1] = mem'[c]
    BY DEF BoundaryTags, MinBlock, Overhead
  <2>1. CASE c = at
    BY <2>1, <1>6, <1>8, <1>9
  <2>2. CASE c # at
    BY <2>2, <1>10 DEF BoundaryTags, MinBlock, Overhead
  <2> QED
    BY <2>1, <2>2
<1>16. Tiled'
  <2>0. \A c \in starts : c \in Nat /\ End(c) \in Nat /\ c < End(c)
    BY BlockShape
  <2>1. HeapEnd > 0 => 0 \in starts'
    BY <1>4, <1>5, <1>6 DEF Tiled
  <2>2. ASSUME NEW c \in starts' PROVE End(c)' = HeapEnd \/ End(c)' \in starts'
    <3>1. CASE c = at
      BY <3>1, <1>9, <1>11
    <3>2. CASE c # at
      <4>1. End(c)' = End(c) /\ c \in starts /\ (End(c) <= at \/ top <= c)
        BY <3>2, <1>10
      <4>2. ~(at < End(c) /\ End(c) < top)
        BY <4>1, <2>0, <1>6
      <4> QED
        BY <4>1, <4>2, <1>4, <1>5 DEF Tiled
    <3> QED
      BY <3>1, <3>2
  <2>3. ASSUME NEW c \in starts', c # 0 PROVE \E d \in starts' : End(d)' = c
    <3>1. c \in starts /\ ~(at < c /\ c < top)
      BY <1>4, <1>5
    <3>2. PICK d \in starts : End(d) = c
      BY <3>1, <2>3 DEF Tiled
    <3>3. CASE at <= d /\ d < top
      <4>1. c = top
        <5>1. c > at
          BY <3>2, <3>3, <2>0, <1>6
        <5>2. c >= top
          BY <5>1, <3>1, <2>0, <1>6
        <5>3. d <= up
          BY <3>3, <2>0, <1>2, Apart
        <5>4. c <= top
          BY <5>3, <3>2, <2>0, <1>2, Apart
        <5> QED
          BY <5>2, <5>4, <2>0, <3>1, <1>6
      <4> QED
        BY <4>1, <1>9
    <3>4. CASE ~(at <= d /\ d < top)
      <4>1. d \in starts' /\ d # at
        BY <3>4, <2>0, <1>4, <1>5, <1>6
      <4> QED
        BY <4>1, <3>2, <1>10
    <3> QED
      BY <3>3, <3>4
  <2>4. ASSUME NEW c \in starts', NEW d \in starts', c < d PROVE End(c)' <= d
    <3>1. CASE c = at
      BY <3>1, <2>4, <1>9, <1>10, <2>0, <1>6
    <3>2. CASE c # at
      BY <3>2, <2>4, <1>3, <1>10 DEF Tiled
    <3> QED
      BY <3>1, <3>2
  <2> QED
    BY <2>1, <2>2, <2>3, <2>4 DEF Tiled
<1>17. Coalesced'
  <2> SUFFICES ASSUME NEW c \in starts', mem'[c].tag = "FREE",
                      End(c)' \in starts', mem'[End(c)'].tag = "FREE"
               PROVE  FALSE
    BY DEF Coalesced
  <2>1. CASE c = at
    <3>1. End(c)' = top /\ top # at
      BY <2>1, <1>9, <1>6
    <3>2. top \in starts' /\ mem'[top] = mem[top] /\ top \in starts
      BY <3>1, <1>10
    <3>3. top # HeapEnd
      BY <3>2, <1>6, BlockShape
    <3> QED
      BY <3>1, <3>2, <3>3, <1>11
  <2>2. CASE c # at
    <3>1. End(c)' = End(c) /\ c \in starts /\ mem[c].tag = "FREE"
      BY <2>2, <1>10
    <3>2. CASE End(c) = at
      BY <3>1, <3>2, <1>12
    <3>3. CASE End(c) # at
      BY <3>1, <3>3, <1>10 DEF Coalesced
    <3> QED
      BY <3>2, <3>3
  <2> QED
    BY <2>1, <2>2
<1>18. HeldBlocks'
  <2>1. {c \in starts' : mem'[c].tag = "USED"}
          = {c \in starts : mem[c].tag = "USED"} \ {b}
    <3>1. ASSUME NEW c \in starts', mem'[c].tag = "USED"
          PROVE  c \in starts /\ mem[c].tag = "USED" /\ c # b
      <4>1. c # at
        BY <3>1, <1>8
      <4> QED
        BY <4>1, <3>1, <1>10
    <3>2. ASSUME NEW c \in starts, mem[c].tag = "USED", c # b
          PROVE  c \in starts' /\ mem'[c].tag = "USED"
      <4>1. c # at
        BY <3>2, <1>3
      <4>2. c \notin gone
        BY <3>2, <1>2 DEF gone
      <4> QED
        BY <4>1, <4>2, <3>2, <1>4, <1>10
    <3> QED
      BY <3>1, <3>2
  <2>2. DOMAIN asked' = {c + 1 : c \in {d \in starts' : mem'[d].tag = "USED"}}
    <3>1. DOMAIN asked = {c + 1 : c \in {d \in starts : mem[d].tag = "USED"}}
      BY DEF HeldBlocks
    <3> DEFINE used == {d \in starts : mem[d].tag = "USED"}
    <3>2. \A c \in used : c \in Nat
      BY BlockShape
    <3>3. b \in Nat /\ p = b + 1 /\ DOMAIN asked = {c + 1 : c \in used}
      BY <3>1, <1>1, <1>2, BlockShape
    <3> HIDE DEF used
    <3>4. \A c \in used : c # b <=> c + 1 # p
      BY <3>2, <3>3
    <3>5. {c + 1 : c \in used \ {b}} = {c + 1 : c \in used} \ {p}
      BY <3>4
    <3> QED
      BY <2>1, <3>3, <3>5, <1>13 DEF used
  <2>3. ASSUME NEW q \in DOMAIN asked' PROVE asked'[q] <= UsableSize(q)'
    <3>1. PICK c \in starts' : mem'[c].tag = "USED" /\ q = c + 1
      BY <2>2
    <3>2. c # at
      BY <3>1, <1>8
    <3>3. mem'[c] = mem[c] /\ q - 1 = c
      BY <3>1, <3>2, <1>10, BlockShape
    <3>4. asked[q] <= UsableSize(q) /\ asked'[q] = asked[q]
      BY <1>13 DEF HeldBlocks
    <3> QED
      BY <3>3, <3>4 DEF UsableSize
  <2> QED
    BY <2>2, <2>3 DEF HeldBlocks
<1>19. ASSUME NEW c \in starts, c # b, mem[c].tag = "USED"
       PROVE  mem'[c] = mem[c]
  <2>1. c # at /\ c \notin gone
    BY <1>2, <1>3, <1>19 DEF gone
  <2> QED
    BY <2>1, <1>4, <1>10
<1>20. ASSUME NEW c \in starts, c = b \/ mem[c].tag = "FREE"
       PROVE  \E d \in starts' : mem'[d].tag = "FREE" /\ d <= c /\ End(c) <= End(d)'
  <2>1. CASE c \in gone \cup {at, b}
    <3>1. at <= c /\ c < top
      BY <2>1, <1>1, <1>3, <1>5, <1>6, BlockShape
    <3>2. c \in Nat /\ End(c) \in Nat /\ up \in Nat /\ End(up) \in Nat /\ top = End(up)
      BY <1>2, BlockShape
    <3>3. c = up \/ End(c) <= top
      <4>1. up < c => End(up) <= c
        BY <3>2, <1>2, Apart
      <4>2. c < up => End(c) <= up
        BY <3>2, <1>2, Apart
      <4> QED
        BY <3>1, <3>2, <4>1, <4>2, <1>2, BlockShape
    <3>4. End(c) <= top
      BY <3>2, <3>3
    <3> QED
      BY <3>1, <3>4, <1>8, <1>9
  <2>2. CASE c \notin gone \cup {at, b}
    <3>1. c \in starts' /\ c # at /\ mem[c].tag = "FREE"
      BY <2>2, <1>4, <1>20
    <3>2. mem'[c] = mem[c] /\ End(c)' = End(c) /\ c \in Nat /\ End(c) \in Nat
      BY <3>1, <1>10, BlockShape
    <3> QED
      BY <3>1, <3>2
  <2> QED
    BY <2>1, <2>2
<1> QED
  BY <1>14, <1>15, <1>16, <1>17, <1>18, <1>19, <1>20 DEF b

LEMMA FreeInv ==
    ASSUME IInv, NEW p \in DOMAIN asked, FreeBlock(p)
    PROVE  /\ IInv'
           /\ \A c \in starts : c # p - 1 /\ mem[c].tag = "USED" => mem'[c] = mem[c]
<1>1. mem' \in [Cells -> Tag]
  <2> DEFINE b == p - 1
             at == IF PrevFree(b) THEN Prev(b) ELSE b
             size == mem[b].size
                       + (IF NextFree(b) THEN mem[End(b)].size ELSE 0)
                       + (IF PrevFree(b) THEN mem[Prev(b)].size ELSE 0)
  <2>1. b \in starts /\ TypeOK /\ BoundaryTags /\ Tiled
    BY BlockShape DEF IInv, HeldBlocks
  <2>2. mem[b].size \in Nat
    BY <2>1, BlockShape
  <2>3. NextFree(b) => mem[End(b)].size \in Nat
    BY <2>1, NextBlock, BlockShape DEF NextFree
  <2>4. PrevFree(b) => mem[Prev(b)].size \in Nat
    BY <2>1, PrevBlock, BlockShape DEF PrevFree
  <2>5. size \in Nat
    BY <2>2, <2>3, <2>4
  <2>6. mem' = Mark(mem, at, size, "FREE") /\ mem \in [Cells -> Tag]
    BY <2>1 DEF FreeBlock, MergedMem, TypeOK
  <2> HIDE DEF b, at, size
  <2> QED
    BY <2>5, <2>6, MarkType
<1>2. FreeTags(p)
  BY <1>1 DEF FreeBlock, FreeTags, SameTags
<1> QED
  BY <1>2, FreeTagsInv

(* The owner of a block may write anything into its payload cells.         *)
LEMMA WriteInv ==
    ASSUME IInv, NEW p \in DOMAIN asked, Write(p)
    PROVE  IInv' /\ \A c \in starts : mem'[c] = mem[c]
<1> USE DEF IInv
<1> DEFINE b == p - 1
<1>1. b \in starts /\ p = b + 1
  BY BlockShape DEF HeldBlocks
<1>2. starts' = starts /\ asked' = asked
  BY DEF Write
<1>3. /\ mem' \in [Cells -> Tag]
      /\ \A c \in Cells : ~(b < c /\ c < End(b) - 1) => mem'[c] = mem[c]
  <2>1. Data \in Tag
    BY DEF Data, Tag
  <2>2. \A c \in Cells : mem[c] \in Tag
    BY DEF TypeOK
  <2>3. mem' = [c \in Cells |-> IF p <= c /\ c < End(b) - 1 THEN Data ELSE mem[c]]
    BY DEF Write
  <2>4. \A c \in Cells : p <= c <=> b < c
    BY <1>1, BlockShape DEF Cells
  <2> QED
    BY <2>1, <2>2, <2>3, <2>4
<1> HIDE DEF b
<1>4. ASSUME NEW c \in starts
      PROVE  mem'[c] = mem[c] /\ mem'[End(c) - 1] = mem[End(c) - 1] /\ End(c)' = End(c)
  <2>1. c \in Cells /\ c \in Nat /\ End(c) - 1 \in Cells /\ End(c) \in Nat /\ c < End(c)
    BY BlockShape
  <2>2. b \in Nat /\ End(b) \in Nat /\ b < End(b)
    BY <1>1, BlockShape
  <2>3. c = b \/ (c < b /\ End(c) <= b) \/ End(b) <= c
    BY <1>1, Apart
  <2>4. ~(b < c /\ c < End(b) - 1)
    BY <2>1, <2>2, <2>3
  <2>5. ~(b < End(c) - 1 /\ End(c) - 1 < End(b) - 1)
    BY <2>1, <2>2, <2>3
  <2> QED
    BY <2>1, <2>4, <2>5, <1>3 DEF End
<1>5. TypeOK'
  BY <1>2, <1>3 DEF TypeOK
<1>6. BoundaryTags'
  BY <1>2, <1>4 DEF BoundaryTags
<1>7. Tiled'
  BY <1>2, <1>4 DEF Tiled
<1>8. Coalesced'
  BY <1>2, <1>4 DEF Coalesced
<1>9. HeldBlocks'
  <2>1. DOMAIN asked' = {c + 1 : c \in {d \in starts' : mem'[d].tag = "USED"}}
    BY <1>2, <1>4 DEF HeldBlocks
  <2>2. ASSUME NEW q \in DOMAIN asked PROVE asked[q] <= UsableSize(q)'
    <3>1. PICK c \in starts : q = c + 1
      BY DEF HeldBlocks
    <3>2. mem'[q - 1] = mem[q - 1]
      BY <3>1, <1>4, BlockShape
    <3> QED
      BY <3>2 DEF HeldBlocks, UsableSize
  <2> QED
    BY <1>2, <2>1, <2>2 DEF HeldBlocks
<1> QED
  BY <1>4, <1>5, <1>6, <1>7, <1>8, <1>9

LEMMA StutterInv == ASSUME IInv, UNCHANGED vars PROVE IInv'
BY DEF vars, IInv, TypeOK, BoundaryTags, Tiled, Coalesced, HeldBlocks, End, UsableSize

LEMMA NextInv == IInv /\ [Next]_vars => IInv'
<1> SUFFICES ASSUME IInv, [Next]_vars PROVE IInv'
  OBVIOUS
<1>1. CASE \E size \in Sizes : \E b \in starts : Alloc(size, b)
  BY <1>1, AllocInv
<1>2. CASE \E size \in Sizes : AllocFails(size)
  BY <1>2, StutterInv DEF AllocFails
<1>3. CASE \E p \in DOMAIN asked : FreeBlock(p)
  BY <1>3, FreeInv
<1>4. CASE \E p \in DOMAIN asked : Write(p)
  BY <1>4, WriteInv
<1>5. CASE UNCHANGED vars
  BY <1>5, StutterInv
<1> QED
  BY <1>1, <1>2, <1>3, <1>4, <1>5 DEF Next

(* The heap is well formed after any sequence of ff_alloc and              *)
(* ff_free_block calls, with callers writing into their blocks in between. *)
THEOREM Invariance == Spec => []IInv
<1>1. Init => IInv
  BY InitInv
<1>2. IInv /\ [Next]_vars => IInv'
  BY NextInv
<1> QED
  BY <1>1, <1>2, PTL DEF Spec

(* ff_alloc and ff_free_block keep the state well typed. *)
THEOREM TypeCorrect == Spec => []TypeOK
BY Invariance, PTL DEF IInv

(* Headers and footers agree, the blocks tile the arena, and no two free   *)
(* blocks touch: the walk of ff_next and the step back of ff_prev are safe. *)
THEOREM WellFormed == Spec => []WellTagged
BY Invariance, PTL DEF IInv, WellTagged

(* Every pointer a caller holds is a used block with room for what it      *)
(* asked, and no other block is marked used.                               *)
THEOREM HeldBlocksSafe == Spec => []HeldBlocks
BY Invariance, PTL DEF IInv

\* with nothing held all blocks are free, and neighbours are not both free
LEMMA EmptyIsWhole == IInv => EmptyHeapIsWhole
<1> SUFFICES ASSUME IInv, DOMAIN asked = {}, HeapEnd > 0 PROVE Whole
  BY DEF EmptyHeapIsWhole
<1> USE DEF IInv
<1>1. 0 \in starts
  BY DEF Tiled
<1>2. \A b \in starts : mem[b].tag = "FREE"
  BY BlockShape DEF HeldBlocks
<1>3. End(0) = HeapEnd
  BY <1>1, <1>2 DEF Tiled, Coalesced
<1>4. ASSUME NEW b \in starts, b # 0 PROVE FALSE
  BY <1>1, <1>3, <1>4, BlockShape, Apart
<1>5. mem[0] = [size |-> HeapEnd, tag |-> "FREE"]
  BY <1>1, <1>2, <1>3, BlockShape DEF Tag
<1> QED
  BY <1>1, <1>4, <1>5 DEF Whole

(* A heap whose blocks were all given back is one free block again.        *)
THEOREM NoFragmentationLeft == Spec => []EmptyHeapIsWhole
  BY EmptyIsWhole, Invariance, PTL
-----------------------------------------------------------------------------
(* Refinement *)

LEMMA InitRefines == Init => Contract!Init
<1> SUFFICES ASSUME Init PROVE Live = [p \in {} |-> [len |-> 1, asked |-> 0]]
  BY DEF Contract!Init
<1>1. DOMAIN asked = {}
  BY DEF Init
<1> QED
  BY <1>1 DEF Live

LEMMA LiveFields ==
    ASSUME IInv, NEW p \in DOMAIN asked
    PROVE  /\ p - 1 \in starts /\ p \in Nat /\ p >= 1
           /\ mem[p - 1].tag = "USED"
           /\ DOMAIN Live = DOMAIN asked
           /\ Live[p].len = mem[p - 1].size - 2
           /\ Live[p].asked = asked[p]
           /\ mem[p - 1].size \in Nat
<1>1. PICK b \in starts : mem[b].tag = "USED" /\ p = b + 1
  BY DEF IInv, HeldBlocks
<1>2. p - 1 = b /\ b \in Nat /\ mem[b].size \in Nat
  BY <1>1, BlockShape DEF IInv
<1> QED
  BY <1>1, <1>2 DEF Live, Overhead

LEMMA AllocRefines ==
    ASSUME IInv, NEW size \in Sizes, NEW b \in starts, Alloc(size, b)
    PROVE  Contract!Next
<1> DEFINE p == b + 1
           len == mem'[b].size - 2
<1>1. /\ IInv' /\ b \in starts' /\ p \notin DOMAIN asked
      /\ \A c \in starts : c # b => c \in starts' /\ mem'[c] = mem[c]
  BY AllocInv
<1>2. /\ asked' = [q \in DOMAIN asked \cup {p} |-> IF q = p THEN size ELSE asked[q]]
      /\ DOMAIN asked' = DOMAIN asked \cup {p}
      /\ asked'[p] = size
      /\ \A q \in DOMAIN asked : asked'[q] = asked[q]
  BY <1>1 DEF Alloc, WithAsked
<1>3. /\ b \in Nat /\ HeapEnd \in Nat /\ p - 1 = b
  BY BlockShape DEF IInv
<1>4. /\ mem'[b].size \in Nat /\ mem'[b].size >= 3 /\ b + mem'[b].size <= HeapEnd
  BY <1>1, <1>3 DEF IInv, BoundaryTags, TypeOK, Tag, End, MinBlock, Overhead, Cells
<1>5. /\ p \in 0 .. (HeapEnd - 1) /\ len \in 1 .. HeapEnd /\ p + len <= HeapEnd
  BY <1>3, <1>4
<1>6. size <= len * 16
  BY <1>1, <1>2, <1>3 DEF IInv, HeldBlocks, UsableSize, Overhead, Unit
<1>7. p \notin DOMAIN Live
  BY <1>1 DEF Live
<1>8. ASSUME NEW q \in DOMAIN Live PROVE Contract!Clear(p, len, q)
  <2>1. q \in DOMAIN asked
    BY DEF Live
  <2> DEFINE c == q - 1
  <2>2. /\ c \in starts /\ c \in Nat /\ q = c + 1 /\ c # b
        /\ Live[q].len = mem[c].size - 2 /\ mem[c].size \in Nat
    BY <1>1, <1>3, <2>1, LiveFields
  <2>3. c \in starts' /\ mem'[c] = mem[c]
    BY <1>1, <2>2
  <2>4. (b < c => b + mem'[b].size <= c) /\ (c < b => c + mem'[c].size <= b)
    BY <1>1, <2>3 DEF IInv, Tiled, End
  <2> HIDE DEF c
  <2>5. p + len <= q \/ q + Live[q].len <= p
    BY <2>2, <2>3, <2>4, <1>3, <1>4
  <2> QED
    BY <2>5 DEF Contract!Clear
<1>9. Live' = [q \in DOMAIN Live \cup {p} |->
                 IF q = p THEN [len |-> len, asked |-> size] ELSE Live[q]]
  <2>1. Live' = [q \in DOMAIN asked \cup {p} |->
                   [len |-> mem'[q - 1].size - 2, asked |-> asked'[q]]]
    BY <1>2 DEF Live, Overhead
  <2>2. DOMAIN Live = DOMAIN asked
    BY DEF Live
  <2>3. [len |-> mem'[p - 1].size - 2, asked |-> asked'[p]] = [len |-> len, asked |-> size]
    BY <1>2, <1>3
  <2>4. ASSUME NEW q \in DOMAIN asked
        PROVE  Live[q] = [len |-> mem'[q - 1].size - 2, asked |-> asked'[q]]
    <3>1. q - 1 \in starts /\ q - 1 # b
      BY <1>1, <1>3, LiveFields
    <3> QED
      BY <3>1, <1>1, <1>2 DEF Live, Overhead
  <2> QED
    BY <1>1, <2>1, <2>2, <2>3, <2>4
<1>10. Contract!Allocate(size, p, len)
  BY <1>5, <1>6, <1>7, <1>8, <1>9 DEF Contract!Allocate, Contract!Unit
<1> QED
  BY <1>5, <1>10 DEF Contract!Next

LEMMA FreeRefines ==
    ASSUME IInv, NEW p \in DOMAIN asked, FreeBlock(p)
    PROVE  Contract!Next
<1>1. \A c \in starts : c # p - 1 /\ mem[c].tag = "USED" => mem'[c] = mem[c]
  BY FreeInv
<1>2. asked' = [q \in DOMAIN asked \ {p} |-> asked[q]]
  BY DEF FreeBlock, MergedMem, MergedStarts, WithoutAsked
<1>3. ASSUME NEW q \in DOMAIN asked \ {p} PROVE mem'[q - 1] = mem[q - 1]
  BY <1>1, LiveFields
<1>4. DOMAIN Live = DOMAIN asked
  BY DEF Live
<1>5. Live' = [q \in DOMAIN asked \ {p} |->
                 [len |-> mem'[q - 1].size - 2, asked |-> asked'[q]]]
  BY <1>2 DEF Live, Overhead
<1>6. Live' = [q \in DOMAIN Live \ {p} |-> Live[q]]
  BY <1>2, <1>3, <1>4, <1>5 DEF Live, Overhead
<1> QED
  BY <1>4, <1>6 DEF Contract!Next, Contract!Release

LEMMA WriteRefines ==
    ASSUME IInv, NEW p \in DOMAIN asked, Write(p)
    PROVE  UNCHANGED Live
<1>1. \A c \in starts : mem'[c] = mem[c]
  BY WriteInv
<1>2. asked' = asked
  BY DEF Write
<1>3. \A q \in DOMAIN asked : mem'[q - 1] = mem[q - 1]
  BY <1>1, LiveFields
<1> QED
  BY <1>2, <1>3 DEF Live

LEMMA NextRefines == IInv /\ [Next]_vars => [Contract!Next]_Live
<1> SUFFICES ASSUME IInv, [Next]_vars PROVE [Contract!Next]_Live
  OBVIOUS
<1>0. ASSUME UNCHANGED vars PROVE UNCHANGED Live
  BY <1>0 DEF vars, Live
<1>1. CASE \E size \in Sizes : \E b \in starts : Alloc(size, b)
  BY <1>1, AllocRefines
<1>2. CASE \E size \in Sizes : AllocFails(size)
  BY <1>0, <1>2 DEF AllocFails
<1>3. CASE \E p \in DOMAIN asked : FreeBlock(p)
  BY <1>3, FreeRefines
<1>4. CASE \E p \in DOMAIN asked : Write(p)
  BY <1>4, WriteRefines
<1>5. CASE UNCHANGED vars
  BY <1>0, <1>5
<1> QED
  BY <1>1, <1>2, <1>3, <1>4, <1>5 DEF Next

(* First fit implements the contract of AllocStrategy: blocks handed out   *)
(* are disjoint, large enough, and stay where and as long as they are      *)
(* until freed, whatever the size of the arena and of size_t.              *)
THEOREM Refinement == Spec => ContractSpec
<1>1. Init => Contract!Init
  BY InitRefines
<1>2. IInv /\ [Next]_vars => [Contract!Next]_Live
  BY NextRefines
<1> QED
  BY <1>1, <1>2, Invariance, PTL DEF Spec, ContractSpec, Contract!Spec

-----------------------------------------------------------------------------
(* The walk and its statistics *)

(* A set of naturals has a least member. *)
LEMMA LeastMember ==
    ASSUME NEW S \in SUBSET Nat, S # {}
    PROVE  \E m \in S : \A k \in S : m <= k
<1>1. PICK m \in S : \A k \in S : ~(<<k, m>> \in OpToRel(<, Nat))
  <2>1. \E m \in S : \A k \in S : ~(<<k, m>> \in OpToRel(<, Nat))
    BY NatLessThanWellFounded, WFMin
  <2> QED
    BY <2>1
<1>2. \A k, n \in Nat : k < n => <<k, n>> \in OpToRel(<, Nat)
  BY DEF OpToRel
<1>3. \A k \in S : ~(k < m)
  BY <1>1, <1>2
<1> QED
  BY <1>3

(* Where ff_next goes from b, and a function that collects the blocks from *)
(* there on.                                                               *)
Onto(b) == IF End(b) > HeapEnd THEN HeapEnd ELSE End(b)

IsWalk(w) ==
    \A b \in 0 .. HeapEnd :
        w[b] = IF b >= HeapEnd \/ mem[b].size = 0 THEN {} ELSE {b} \cup w[Onto(b)]

LEMMA OntoIs ==
    ASSUME TypeOK, NEW b \in 0 .. HeapEnd, ~(b >= HeapEnd), mem[b].size # 0
    PROVE  b \in Cells /\ Onto(b) \in b + 1 .. HeapEnd
<1>1. b \in Cells /\ HeapEnd \in Nat /\ b \in Nat
  BY HeapEndNat DEF Cells
<1>2. mem[b].size \in Nat
  BY <1>1 DEF TypeOK, Tag
<1> QED
  BY <1>1, <1>2 DEF Onto, End

(* Every step of the walk goes up, so there is such a function.            *)
LEMMA WalkExists ==
    ASSUME TypeOK
    PROVE  \E w \in [0 .. HeapEnd -> SUBSET Cells] : IsWalk(w)
<1> DEFINE Part(n) == {w \in [HeapEnd - n .. HeapEnd -> SUBSET Cells] :
              \A b \in HeapEnd - n .. HeapEnd :
                 w[b] = IF b >= HeapEnd \/ mem[b].size = 0 THEN {} ELSE {b} \cup w[Onto(b)]}
           Stuck == {n \in 0 .. HeapEnd : Part(n) = {}}
<1>0. HeapEnd \in Nat
  BY HeapEndNat
<1>1. SUFFICES ASSUME Stuck # {} PROVE FALSE
  <2>1. HeapEnd \in 0 .. HeapEnd /\ HeapEnd - HeapEnd = 0
    BY <1>0
  <2>2. Stuck = {} => Part(HeapEnd) # {}
    BY <2>1
  <2> QED
    BY <2>1, <2>2 DEF IsWalk
<1>2. PICK n \in Stuck : \A k \in Stuck : n <= k
  <2>1. Stuck \in SUBSET Nat
    BY <1>0
  <2> HIDE DEF Stuck
  <2> QED
    BY <1>1, <2>1, LeastMember
<1>3. CASE n = 0
  <2>1. HeapEnd - 0 = HeapEnd /\ \A b \in HeapEnd .. HeapEnd : b >= HeapEnd
    BY <1>0
  <2>2. [b \in HeapEnd .. HeapEnd |-> {}] \in Part(0)
    BY <2>1
  <2> QED
    BY <1>3, <2>2
<1>4. CASE n # 0
  <2> DEFINE at == HeapEnd - n
  <2>1. /\ n \in Nat /\ n - 1 \in 0 .. HeapEnd /\ ~(n <= n - 1) /\ at \in 0 .. HeapEnd
        /\ HeapEnd - (n - 1) = at + 1 /\ ~(at >= HeapEnd) /\ at \in at .. HeapEnd
        /\ \A b \in at .. HeapEnd : b # at => b \in at + 1 .. HeapEnd
        /\ \A b \in at + 1 .. HeapEnd : b \in at .. HeapEnd /\ b \in 0 .. HeapEnd /\ b # at
    BY <1>0, <1>4
  <2>2. PICK g : g \in Part(n - 1)
    <3>1. n - 1 \notin Stuck
      <4> HIDE DEF Stuck
      <4> QED
        BY <1>2, <2>1
    <3> QED
      BY <2>1, <3>1
  <2> HIDE DEF at
  <2>3. /\ g \in [at + 1 .. HeapEnd -> SUBSET Cells]
        /\ \A b \in at + 1 .. HeapEnd :
              g[b] = IF b >= HeapEnd \/ mem[b].size = 0 THEN {} ELSE {b} \cup g[Onto(b)]
    BY <2>1, <2>2, Zenon
  <2> DEFINE here == IF mem[at].size = 0 THEN {} ELSE {at} \cup g[Onto(at)]
             h == [b \in at .. HeapEnd |-> IF b = at THEN here ELSE g[b]]
  <2>4. mem[at].size # 0 => at \in Cells /\ Onto(at) \in at + 1 .. HeapEnd
    BY <2>1, OntoIs
  <2>5. here \in SUBSET Cells
    BY <2>3, <2>4
  <2>6. h \in [at .. HeapEnd -> SUBSET Cells]
    <3> HIDE DEF here
    <3> QED
      BY <2>1, <2>3, <2>5
  <2>7. ASSUME NEW b \in at .. HeapEnd
        PROVE  h[b] = IF b >= HeapEnd \/ mem[b].size = 0 THEN {} ELSE {b} \cup h[Onto(b)]
    <3>1. CASE b = at
      <4>1. mem[at].size # 0 => h[Onto(at)] = g[Onto(at)]
        BY <2>1, <2>4
      <4>2. h[at] = here
        BY <2>1
      <4> QED
        BY <2>1, <3>1, <4>1, <4>2
    <3>2. CASE b # at
      <4>1. b \in at + 1 .. HeapEnd /\ b \in 0 .. HeapEnd /\ h[b] = g[b]
        BY <2>1, <3>2
      <4>2. ~(b >= HeapEnd) /\ mem[b].size # 0 => Onto(b) \in at + 1 .. HeapEnd
        <5>1. ~(b >= HeapEnd) /\ mem[b].size # 0 => Onto(b) \in b + 1 .. HeapEnd
          BY <4>1, OntoIs
        <5>2. \A c \in b + 1 .. HeapEnd : c \in at + 1 .. HeapEnd
          BY <1>0, <2>1, <4>1
        <5> QED
          BY <5>1, <5>2
      <4>3. ~(b >= HeapEnd) /\ mem[b].size # 0 => h[Onto(b)] = g[Onto(b)]
        BY <2>1, <4>2
      <4> HIDE DEF h
      <4> QED
        BY <2>3, <4>1, <4>3
    <3> QED
      BY <3>1, <3>2
  <2>8. h \in Part(n)
    <3> HIDE DEF h
    <3> QED
      BY <2>6, <2>7 DEF at
  <2> QED
    BY <2>8
<1> QED
  BY <1>3, <1>4

(* The walk is what such a function collects from heap_start.              *)
LEMMA WalkIs ==
    ASSUME TypeOK
    PROVE  \E w : IsWalk(w) /\ Walk = w[0]
<1> DEFINE walk == CHOOSE walk : walk = [b \in 0 .. HeapEnd |->
              IF b >= HeapEnd \/ mem[b].size = 0 THEN {}
              ELSE {b} \cup walk[IF End(b) > HeapEnd THEN HeapEnd ELSE End(b)]]
<1>1. PICK w \in [0 .. HeapEnd -> SUBSET Cells] : IsWalk(w)
  BY WalkExists
<1>2. w = [b \in 0 .. HeapEnd |->
              IF b >= HeapEnd \/ mem[b].size = 0 THEN {}
              ELSE {b} \cup w[IF End(b) > HeapEnd THEN HeapEnd ELSE End(b)]]
  BY <1>1 DEF IsWalk, Onto
<1>3. walk = [b \in 0 .. HeapEnd |->
              IF b >= HeapEnd \/ mem[b].size = 0 THEN {}
              ELSE {b} \cup walk[IF End(b) > HeapEnd THEN HeapEnd ELSE End(b)]]
  BY <1>2, Zenon
<1> HIDE DEF walk
<1>4. IsWalk(walk)
  BY <1>3, Zenon DEF IsWalk, Onto
<1>5. Walk = walk[0]
  BY DEF Walk, walk
<1> QED
  BY <1>4, <1>5, Zenon

(* From the start of a block it collects the blocks from there on.         *)
LEMMA WalkFrom ==
    ASSUME TypeOK, BoundaryTags, Tiled, NEW w, IsWalk(w), NEW b \in starts \cup {HeapEnd}
    PROVE  w[b] = {c \in starts : c >= b}
<1> DEFINE From(c) == {d \in starts : d >= c}
           Bad == {n \in 0 .. HeapEnd :
                     \E c \in starts \cup {HeapEnd} : n = HeapEnd - c /\ w[c] # From(c)}
<1>0. HeapEnd \in Nat /\ starts \subseteq 0 .. HeapEnd - 1
  BY HeapEndNat DEF TypeOK, Cells
<1>1. SUFFICES ASSUME Bad # {} PROVE FALSE
  <2>1. HeapEnd - b \in 0 .. HeapEnd
    BY <1>0
  <2> QED
    BY <2>1
<1>2. PICK n \in Bad : \A k \in Bad : n <= k
  <2>1. Bad \in SUBSET Nat
    BY <1>0
  <2> HIDE DEF Bad
  <2> QED
    BY <1>1, <2>1, LeastMember
<1>3. PICK c \in starts \cup {HeapEnd} : n = HeapEnd - c /\ w[c] # From(c)
  OBVIOUS
<1>4. CASE c = HeapEnd
  <2>1. c \in 0 .. HeapEnd /\ c >= HeapEnd
    BY <1>0, <1>4
  <2>2. w[c] = {}
    BY <2>1, Zenon DEF IsWalk
  <2>3. \A d \in starts : ~(d >= c)
    BY <1>0, <1>4
  <2> QED
    BY <1>3, <2>2, <2>3
<1>5. CASE c # HeapEnd
  <2>1. /\ c \in starts /\ c \in Nat /\ c \in 0 .. HeapEnd /\ ~(c >= HeapEnd)
        /\ mem[c].size \in Nat /\ mem[c].size # 0 /\ End(c) = c + mem[c].size
        /\ End(c) <= HeapEnd /\ End(c) > c /\ End(c) \in Nat
    BY <1>0, <1>5, BlockShape
  <2>2. End(c) \in starts \cup {HeapEnd}
    BY <2>1 DEF Tiled
  <2>3. w[c] = {c} \cup w[End(c)]
    <3>1. Onto(c) = End(c)
      BY <1>0, <2>1 DEF Onto
    <3> QED
      BY <2>1, <3>1, Zenon DEF IsWalk
  <2>4. w[End(c)] = From(End(c))
    <3>1. HeapEnd - End(c) \in 0 .. HeapEnd /\ ~(n <= HeapEnd - End(c))
      BY <1>0, <1>3, <2>1
    <3>2. HeapEnd - End(c) \notin Bad
      <4> HIDE DEF Bad
      <4> QED
        BY <1>2, <3>1
    <3> QED
      BY <2>2, <3>1, <3>2
  <2>5. From(c) = {c} \cup From(End(c))
    <3>1. \A d \in starts : d >= c <=> d = c \/ d >= End(c)
      <4> TAKE d \in starts
      <4>1. d \in Nat
        BY <1>0
      <4>2. d # c => (c < d /\ End(c) <= d) \/ d < c
        BY <2>1, <4>1, Apart, BlockShape
      <4> QED
        BY <2>1, <4>1, <4>2
    <3> QED
      BY <2>1, <3>1
  <2> QED
    BY <1>3, <2>3, <2>4, <2>5
<1> QED
  BY <1>4, <1>5

LEMMA WalkVisits ==
    ASSUME TypeOK, BoundaryTags, Tiled
    PROVE  starts = Walk
<1>1. PICK w : IsWalk(w) /\ Walk = w[0]
  BY WalkIs
<1>2. HeapEnd \in Nat /\ \A c \in starts : c \in Nat /\ c < HeapEnd
  BY HeapEndNat DEF TypeOK, Cells
<1>3. 0 \in starts \cup {HeapEnd}
  BY <1>2 DEF Tiled
<1>4. w[0] = {c \in starts : c >= 0}
  BY <1>1, <1>3, WalkFrom
<1> QED
  BY <1>1, <1>2, <1>4

LEMMA CellsFinite == IsFiniteSet(Cells) /\ Cells \subseteq Nat
<1>1. HeapEnd \in Nat /\ 0 \in Int /\ HeapEnd - 1 \in Int
  BY HeapEndNat
<1>2. IsFiniteSet(0 .. HeapEnd - 1)
  BY <1>1, FS_Interval
<1> QED
  BY <1>2 DEF Cells

(* The cells of the blocks in S. *)
Room(S) == {c \in Cells : \E b \in S : b <= c /\ c < End(b)}

LEMMA RoomIs ==
    ASSUME TypeOK, BoundaryTags, Tiled, NEW S \in SUBSET starts
    PROVE  /\ IsFiniteSet(Room(S)) /\ Cardinality(Room(S)) \in Nat
           /\ S = {} => Cardinality(Room(S)) = 0
           /\ \A b \in S :
                 Cardinality(Room(S)) = mem[b].size + Cardinality(Room(S \ {b}))
<1>1. HeapEnd \in Nat /\ IsFiniteSet(Cells)
  BY HeapEndNat, CellsFinite
<1>2. \A T : IsFiniteSet(Room(T)) /\ Cardinality(Room(T)) \in Nat
  <2> TAKE T
  <2>1. Room(T) \in SUBSET Cells
    BY DEF Room
  <2> QED
    BY <1>1, <2>1, FS_Subset, FS_CardinalityType
<1>3. S = {} => Cardinality(Room(S)) = 0
  <2>1. S = {} => Room(S) = {}
    BY DEF Room
  <2> QED
    BY <2>1, FS_EmptySet
<1>4. ASSUME NEW b \in S
      PROVE  Cardinality(Room(S)) = mem[b].size + Cardinality(Room(S \ {b}))
  <2> DEFINE I == b .. End(b) - 1
             R == Room(S \ {b})
  <2>1. /\ b \in starts /\ b \in Nat /\ mem[b].size \in Nat /\ mem[b].size >= 3
        /\ End(b) = b + mem[b].size /\ End(b) <= HeapEnd /\ End(b) \in Nat
    BY BlockShape
  <2>2. IsFiniteSet(I) /\ Cardinality(I) = mem[b].size
    <3>1. /\ End(b) - 1 \in Int /\ b \in Int /\ ~(b > End(b) - 1)
          /\ End(b) - 1 - b + 1 = mem[b].size
      BY <2>1
    <3> QED
      BY <3>1, FS_Interval
  <2>3. \A c : c \in I <=> c \in Cells /\ b <= c /\ c < End(b)
    BY <1>1, <2>1 DEF Cells
  <2>4. Room(S) = I \cup R
    <3>1. \A c \in Cells : (\E d \in S : d <= c /\ c < End(d))
             <=> (b <= c /\ c < End(b)) \/ (\E d \in S \ {b} : d <= c /\ c < End(d))
      OBVIOUS
    <3>2. \A c : c \in Room(S) <=> c \in I \cup R
      BY <2>3, <3>1, Zenon DEF Room
    <3> QED
      BY <3>2
  <2>5. I \cap R = {}
    <3> SUFFICES ASSUME NEW c \in Cells, b <= c, c < End(b),
                        NEW d \in S \ {b}, d <= c, c < End(d)
                 PROVE  FALSE
      BY <2>3 DEF Room
    <3> HIDE DEF I, R
    <3>1. d \in starts /\ d # b /\ c \in Nat
      BY CellsFinite
    <3>2. d \in Nat /\ mem[d].size \in Nat /\ End(d) = d + mem[d].size
      BY <3>1, BlockShape
    <3>3. End(d) \in Nat
      BY <3>2
    <3>4. (d < b /\ End(d) <= b) \/ (b < d /\ End(b) <= d)
      BY <2>1, <3>1, Apart
    <3> QED
      BY <2>1, <3>1, <3>2, <3>3, <3>4
  <2>6. IsFiniteSet(R) /\ Cardinality(R) \in Nat
    BY <1>2
  <2> HIDE DEF I, R
  <2>7. Cardinality(I \cap R) = 0
    BY <2>5, FS_EmptySet
  <2>8. Cardinality(I \cup R) = Cardinality(I) + Cardinality(R) - Cardinality(I \cap R)
    BY <2>2, <2>6, FS_Union
  <2>9. Cardinality(Room(S)) = mem[b].size + Cardinality(R)
    BY <2>1, <2>2, <2>4, <2>6, <2>7, <2>8
  <2> QED
    BY <2>9 DEF R
<1> QED
  BY <1>2, <1>3, <1>4

(* The sizes of blocks add up to the cells they have.                      *)
LEMMA SumIsRoom ==
    ASSUME TypeOK, BoundaryTags, Tiled, NEW S \in SUBSET starts
    PROVE  SizeSum(S) = Cardinality(Room(S))
<1> DEFINE iter == CHOOSE iter : iter = [s \in SUBSET S |->
              IF s = {} THEN 0
              ELSE mem[CHOOSE x \in s : TRUE].size + iter[s \ {CHOOSE x \in s : TRUE}]]
           room == [s \in SUBSET S |-> Cardinality(Room(s))]
<1>1. SizeSum(S) = iter[S]
  BY Zenon DEF SizeSum, MapThenSumSet, MapThenFoldSet, iter
<1>2. ASSUME NEW s \in SUBSET S
      PROVE  room[s] = IF s = {} THEN 0
                       ELSE mem[CHOOSE x \in s : TRUE].size + room[s \ {CHOOSE x \in s : TRUE}]
  <2> DEFINE b == CHOOSE x \in s : TRUE
  <2>1. s \in SUBSET starts /\ s \ {b} \in SUBSET S
    OBVIOUS
  <2>2. s # {} => b \in s
    OBVIOUS
  <2>3. room[s] = Cardinality(Room(s)) /\ room[s \ {b}] = Cardinality(Room(s \ {b}))
    BY <2>1
  <2> HIDE DEF b, room
  <2>4. s = {} => Cardinality(Room(s)) = 0
    BY <2>1, RoomIs
  <2>5. s # {} => Cardinality(Room(s)) = mem[b].size + Cardinality(Room(s \ {b}))
    BY <2>1, <2>2, RoomIs
  <2>6. room[s] = IF s = {} THEN 0 ELSE mem[b].size + room[s \ {b}]
    BY <2>3, <2>4, <2>5
  <2> QED
    BY <2>6 DEF b
<1>3. room = [s \in SUBSET S |->
         IF s = {} THEN 0
         ELSE mem[CHOOSE x \in s : TRUE].size + room[s \ {CHOOSE x \in s : TRUE}]]
  BY <1>2
<1> HIDE DEF room
<1>4. iter = [s \in SUBSET S |->
         IF s = {} THEN 0
         ELSE mem[CHOOSE x \in s : TRUE].size + iter[s \ {CHOOSE x \in s : TRUE}]]
  BY <1>3, Zenon
<1> HIDE DEF iter
<1>5. \A s \in SUBSET S :
         iter[s] = IF s = {} THEN 0
                   ELSE mem[CHOOSE x \in s : TRUE].size + iter[s \ {CHOOSE x \in s : TRUE}]
  BY <1>4, Zenon
<1>6. IsFiniteSet(S) /\ \A s \in SUBSET S : IsFiniteSet(s) /\ Cardinality(s) \in Nat
  <2>1. IsFiniteSet(Cells) /\ starts \subseteq Cells
    BY CellsFinite DEF TypeOK
  <2>2. IsFiniteSet(S)
    BY <2>1, FS_Subset
  <2> QED
    BY <2>2, FS_Subset, FS_CardinalityType
<1> DEFINE Bad == {n \in Nat : \E s \in SUBSET S : n = Cardinality(s) /\ iter[s] # room[s]}
<1>7. SUFFICES ASSUME Bad # {} PROVE FALSE
  <2>1. Bad = {} => iter[S] = room[S]
    BY <1>6
  <2>2. room[S] = Cardinality(Room(S))
    BY DEF room
  <2> QED
    BY <1>1, <2>1, <2>2
<1>8. PICK n \in Bad : \A k \in Bad : n <= k
  <2>1. Bad \in SUBSET Nat
    OBVIOUS
  <2> HIDE DEF Bad
  <2> QED
    BY <1>7, <2>1, LeastMember
<1>9. PICK s \in SUBSET S : n = Cardinality(s) /\ iter[s] # room[s]
  OBVIOUS
<1>10. CASE s = {}
  BY <1>2, <1>5, <1>9, <1>10, Zenon
<1>11. CASE s # {}
  <2> DEFINE b == CHOOSE x \in s : TRUE
             t == s \ {b}
  <2>1. b \in s /\ t \in SUBSET S
    BY <1>11
  <2>2. Cardinality(t) = n - 1 /\ Cardinality(t) \in Nat
    BY <1>6, <1>9, <2>1, FS_RemoveElement
  <2>3. iter[t] = room[t]
    <3>1. ~(n <= Cardinality(t))
      BY <2>2
    <3>2. Cardinality(t) \notin Bad
      <4> HIDE DEF Bad
      <4> QED
        BY <1>8, <3>1
    <3> QED
      BY <2>1, <2>2, <3>2
  <2>4. iter[s] = mem[b].size + iter[t] /\ room[s] = mem[b].size + room[t]
    BY <1>2, <1>5, <1>11, Zenon
  <2> QED
    BY <1>9, <2>3, <2>4, Zenon
<1> QED
  BY <1>10, <1>11

(* Every cell is in a block: in the last one that starts at or before it.  *)
LEMMA RoomForAll ==
    ASSUME TypeOK, BoundaryTags, Tiled
    PROVE  Room(starts) = Cells
<1>1. HeapEnd \in Nat /\ starts \subseteq Cells /\ \A c \in Cells : c \in Nat /\ c < HeapEnd
  BY HeapEndNat DEF TypeOK, Cells
<1>2. ASSUME NEW c \in Cells
      PROVE  \E b \in starts : b <= c /\ c < End(b)
  <2> DEFINE Below == {n \in Nat : \E b \in starts : b <= c /\ n = c - b}
  <2>1. Below # {}
    <3>1. 0 \in starts
      BY <1>1 DEF Tiled
    <3>2. c \in Below
      BY <1>1, <3>1
    <3> QED
      BY <3>2
  <2>2. PICK n \in Below : \A k \in Below : n <= k
    <3>1. Below \in SUBSET Nat
      OBVIOUS
    <3> HIDE DEF Below
    <3> QED
      BY <2>1, <3>1, LeastMember
  <2>3. PICK b \in starts : b <= c /\ n = c - b
    OBVIOUS
  <2>4. /\ b \in Nat /\ c \in Nat /\ c < HeapEnd /\ End(b) \in Nat /\ End(b) > b
        /\ End(b) = HeapEnd \/ End(b) \in starts
    BY <1>1, BlockShape DEF Tiled
  <2>5. End(b) \in starts /\ End(b) <= c => FALSE
    <3> SUFFICES ASSUME End(b) \in starts, End(b) <= c PROVE FALSE
      OBVIOUS
    <3>1. c - End(b) \in Nat /\ ~(n <= c - End(b))
      BY <2>3, <2>4
    <3>2. c - End(b) \in Below
      BY <3>1
    <3> HIDE DEF Below
    <3> QED
      BY <2>2, <3>1, <3>2
  <2> QED
    BY <2>3, <2>4, <2>5
<1> QED
  BY <1>2 DEF Room

(* What ff_stats adds up: the used and the free cells are all there are.   *)
LEMMA StatsAdd ==
    ASSUME TypeOK, BoundaryTags, Tiled
    PROVE  Stats.used_bytes + Stats.free_bytes = HeapEnd
<1> DEFINE U == Sized("USED")
           F == Sized("FREE")
<1>1. /\ U \in SUBSET starts /\ F \in SUBSET starts /\ U \cup F = starts /\ U \cap F = {}
  BY DEF Sized
<1>2. SizeSum(U) = Cardinality(Room(U)) /\ SizeSum(F) = Cardinality(Room(F))
  BY <1>1, SumIsRoom
<1>3. Stats.used_bytes = SizeSum(U) /\ Stats.free_bytes = SizeSum(F)
  BY DEF Stats
<1>4. /\ IsFiniteSet(Room(U)) /\ IsFiniteSet(Room(F))
      /\ Cardinality(Room(U)) \in Nat /\ Cardinality(Room(F)) \in Nat
  BY <1>1, RoomIs
<1> HIDE DEF U, F
<1>5. Room(U) \cup Room(F) = Cells
  <2>1. \A c : c \in Room(starts) <=> c \in Room(U) \cup Room(F)
    BY <1>1 DEF Room
  <2> QED
    BY <2>1, RoomForAll
<1>6. Room(U) \cap Room(F) = {}
  <2> SUFFICES ASSUME NEW c \in Cells, NEW b \in U, b <= c, c < End(b),
                      NEW d \in F, d <= c, c < End(d)
               PROVE  FALSE
    BY DEF Room
  <2>1. /\ b \in starts /\ d \in starts /\ b # d
        /\ b \in Nat /\ d \in Nat /\ End(b) \in Nat /\ End(d) \in Nat /\ c \in Nat
    BY <1>1, BlockShape, HeapEndNat DEF Cells
  <2>2. (d < b /\ End(d) <= b) \/ (b < d /\ End(b) <= d)
    BY <2>1, Apart
  <2> QED
    BY <2>1, <2>2
<1>7. Cardinality(Cells) = HeapEnd
  <2>1. HeapEnd \in Nat /\ 0 \in Int /\ HeapEnd - 1 \in Int
    BY HeapEndNat
  <2>2. Cardinality(Cells) = IF 0 > HeapEnd - 1 THEN 0 ELSE HeapEnd - 1 - 0 + 1
    BY <2>1, FS_Interval DEF Cells
  <2> QED
    BY <2>1, <2>2
<1>8. Cardinality(Room(U) \cap Room(F)) = 0
  BY <1>6, FS_EmptySet
<1>9. Cardinality(Cells) = Cardinality(Room(U)) + Cardinality(Room(F))
                             - Cardinality(Room(U) \cap Room(F))
  BY <1>4, <1>5, FS_Union
<1>10. HeapEnd = Cardinality(Room(U)) + Cardinality(Room(F))
  BY <1>4, <1>7, <1>8, <1>9
<1> QED
  BY <1>2, <1>3, <1>10

(* and its live blocks are the pointers callers hold.                      *)
LEMMA LiveCounted ==
    ASSUME TypeOK, BoundaryTags, Tiled, HeldBlocks
    PROVE  Stats.live_blocks = Cardinality(DOMAIN asked)
<1> DEFINE U == Sized("USED")
           f == [b \in U |-> b + 1]
<1>1. U = {c \in starts : mem[c].tag = "USED"}
  BY DEF Sized, BoundaryTags
<1>2. DOMAIN asked = {b + 1 : b \in U}
  BY <1>1 DEF HeldBlocks
<1>3. U \subseteq Nat /\ IsFiniteSet(U)
  <2>1. IsFiniteSet(Cells) /\ U \in SUBSET Cells /\ Cells \subseteq Nat
    BY CellsFinite DEF TypeOK, Sized
  <2> QED
    BY <2>1, FS_Subset
<1> HIDE DEF U
<1>4. f \in Bijection(U, DOMAIN asked)
  <2>1. f \in [U -> DOMAIN asked]
    BY <1>2
  <2>2. \A a, b \in U : f[a] = f[b] => a = b
    BY <1>3
  <2>3. \A t \in DOMAIN asked : \E b \in U : f[b] = t
    BY <1>2
  <2> QED
    BY <2>1, <2>2, <2>3 DEF Bijection, Injection, Surjection, IsInjective
<1>5. Cardinality(DOMAIN asked) = Cardinality(U)
  BY <1>3, <1>4, FS_Bijection DEF ExistsBijection
<1>6. Stats.live_blocks = Cardinality(U)
  BY DEF Stats, U
<1> QED
  BY <1>5, <1>6

(* StartsAreTheWalk: the variable starts is what ff_first and ff_next      *)
(* visit, read from the headers in memory alone, and the statistics of     *)
(* heap balance on that walk: every cell is in a used or a free block, and *)
(* the live blocks are the callers'.                                       *)
THEOREM WalkSeesTheBlocks == Spec => []StartsAreTheWalk
<1>1. IInv => StartsAreTheWalk
  BY WalkVisits, StatsAdd, LiveCounted DEF IInv, StartsAreTheWalk
<1> QED
  BY <1>1, Invariance, PTL
=============================================================================
