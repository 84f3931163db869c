----------------------------- MODULE HeapProofs -----------------------------
(***************************************************************************)
(* The heap of alloc.c over both strategies, for arenas of any size and    *)
(* any requests: what guard_check accepts, where guards and payloads lie,  *)
(* the totals, and the interface of alloc.h (UserHeap).                    *)
(***************************************************************************)
EXTENDS NshHeap, TLAPS, FiniteSetTheorems

CellTags == {"USED", "FREE", "DATA", "HEAD", "FREED", "SCAR"}
Readings == [size : Nat, tag : CellTags]

(* The first-fit arena as the strategy sees it: guards and payloads are    *)
(* data to it.                                                             *)
Scrub(m) == [c \in FF!Cells |-> IF m[c].tag \in {"USED", "FREE"} THEN m[c] ELSE FF!Data]
View == Scrub(mem)

FFP == INSTANCE FirstFitProofs WITH Sizes <- 0 .. SizeMax, mem <- View, asked <- ffHeld
BDP == INSTANCE BuddyProofs WITH BuddySizes <- 0 .. SizeMax, held <- bdHeld

FirstFitInv == mem \in [FF!Cells -> Readings] /\ FFP!IInv

-----------------------------------------------------------------------------
(* The first-fit arena.                                                    *)
\* what the strategy's lemmas assume of sizes
LEMMA Assumed ==
    /\ Span \in Nat
    /\ SizeMax \in Nat /\ SizeMax > 4 * FFP!Unit
    /\ 0 .. SizeMax \subseteq 0 .. SizeMax
  BY ArenaAssumption DEF FFP!Unit

\* both instances of the strategy compute the same
LEMMA SameStrategy ==
    /\ FFP!Cells = FF!Cells /\ FFP!HeapEnd = FF!HeapEnd /\ FFP!Tag = FF!Tag
    /\ FFP!Data = FF!Data
    /\ FFP!MinBlock = 3 /\ FF!MinBlock = 3 /\ FFP!Overhead = 2 /\ FF!Overhead = 2
    /\ FFP!Unit = 16 /\ FF!Unit = 16
    /\ FF!Cells = 0 .. FF!HeapEnd - 1 /\ FF!HeapEnd \in Nat
    /\ \A n : FFP!Total(n) = FF!Total(n) /\ (FFP!TooBig(n) <=> FF!TooBig(n))
  BY ArenaAssumption DEF FFP!Cells, FF!Cells, FFP!HeapEnd, FF!HeapEnd, FFP!Tag, FF!Tag,
     FFP!Data, FF!Data, FFP!MinBlock, FF!MinBlock, FFP!Overhead, FF!Overhead,
     FFP!Unit, FF!Unit, FFP!Total, FF!Total, FFP!Need, FF!Need, FFP!RoundUp, FF!RoundUp,
     FFP!Wrap, FF!Wrap, FFP!TooBig, FF!TooBig

LEMMA SameMark == \A m, b, s, t : FFP!Mark(m, b, s, t) = FF!Mark(m, b, s, t)
  BY DEF FFP!Mark, FF!Mark

Pair(size, tag) == [size |-> size, tag |-> tag]

\* what Mark writes, cell by cell
LEMMA MarkIs ==
    ASSUME NEW m \in [FF!Cells -> Readings], NEW b \in FF!Cells, NEW size \in Nat,
           NEW e \in FF!Cells, e = b + size - 1, NEW tag
    PROVE  \A c \in FF!Cells :
              FF!Mark(m, b, size, tag)[c] = IF c = b \/ c = e THEN Pair(size, tag) ELSE m[c]
  BY DEF FF!Mark, Pair

\* scrubbing leaves tags and nothing else
LEMMA ScrubIs ==
    ASSUME NEW m \in [FF!Cells -> Readings]
    PROVE  /\ Scrub(m) \in [FF!Cells -> FF!Tag]
           /\ \A c \in FF!Cells : Scrub(m)[c] = IF m[c].tag \in {"USED", "FREE"}
                                                THEN m[c] ELSE FF!Data
  <1>1. \A c \in FF!Cells : (IF m[c].tag \in {"USED", "FREE"} THEN m[c] ELSE FF!Data) \in FF!Tag
    <2> TAKE c \in FF!Cells
    <2>1. m[c] \in Readings
      OBVIOUS
    <2>2. FF!Data \in FF!Tag
      BY DEF FF!Data, FF!Tag
    <2>3. m[c].tag \in {"USED", "FREE"} => m[c] \in FF!Tag
      BY <2>1 DEF Readings, FF!Tag
    <2> QED
      BY <2>2, <2>3
  <1> QED
    BY <1>1 DEF Scrub

\* tags written before the scrubbing or after it are the same tags
LEMMA ScrubMark ==
    ASSUME NEW m \in [FF!Cells -> Readings], NEW b, NEW size \in Nat,
           NEW tag \in {"USED", "FREE"}
    PROVE  /\ FF!Mark(m, b, size, tag) \in [FF!Cells -> Readings]
           /\ Scrub(FF!Mark(m, b, size, tag)) = FF!Mark(Scrub(m), b, size, tag)
  <1> DEFINE e == b + size - 1
             x == Pair(size, tag)
  <1>1. x \in Readings /\ x.tag = tag
    BY DEF Pair, Readings, CellTags
  <1>2. \A n : FF!Mark(n, b, size, tag) = [n EXCEPT ![b] = x, ![e] = x]
    BY DEF FF!Mark, Pair
  <1> HIDE DEF e, x
  <1>3. FF!Mark(m, b, size, tag) \in [FF!Cells -> Readings]
    BY <1>1, <1>2
  <1>4. \A c \in FF!Cells : Scrub([m EXCEPT ![b] = x, ![e] = x])[c]
                              = [Scrub(m) EXCEPT ![b] = x, ![e] = x][c]
    <2> TAKE c \in FF!Cells
    <2>1. Scrub([m EXCEPT ![b] = x, ![e] = x])[c]
            = IF [m EXCEPT ![b] = x, ![e] = x][c].tag \in {"USED", "FREE"}
              THEN [m EXCEPT ![b] = x, ![e] = x][c] ELSE FF!Data
      BY <1>1 DEF Scrub
    <2>2. Scrub(m)[c] = IF m[c].tag \in {"USED", "FREE"} THEN m[c] ELSE FF!Data
      BY DEF Scrub
    <2>3. [Scrub(m) EXCEPT ![b] = x, ![e] = x][c] = IF c = b \/ c = e THEN x ELSE Scrub(m)[c]
      BY DEF Scrub
    <2>4. [m EXCEPT ![b] = x, ![e] = x][c] = IF c = b \/ c = e THEN x ELSE m[c]
      OBVIOUS
    <2> QED
      BY <1>1, <2>1, <2>2, <2>3, <2>4
  <1>5. Scrub([m EXCEPT ![b] = x, ![e] = x]) = [Scrub(m) EXCEPT ![b] = x, ![e] = x]
    BY <1>4, Zenon DEF Scrub
  <1> QED
    BY <1>2, <1>3, <1>5

\* what is not a tag reads as data
LEMMA ScrubGuard ==
    ASSUME NEW m \in [FF!Cells -> Readings], NEW x \in FF!Cells, NEW g \in Readings,
           g.tag \notin {"USED", "FREE"}, NEW v, v = [m EXCEPT ![x] = g]
    PROVE  /\ v \in [FF!Cells -> Readings] /\ Scrub(v) \in [FF!Cells -> FF!Tag]
           /\ v[x] = g /\ \A c \in FF!Cells : c # x => v[c] = m[c]
           /\ \A c \in FF!Cells : c # x => Scrub(v)[c] = Scrub(m)[c]
  <1>1. v \in [FF!Cells -> Readings] /\ v[x] = g
    OBVIOUS
  <1>2. \A c \in FF!Cells : c # x => v[c] = m[c]
    OBVIOUS
  <1> QED
    BY <1>1, <1>2, ScrubIs

\* what a block looks like, read with the guards or without
LEMMA FirstFitShape ==
    ASSUME FirstFitInv
    PROVE  /\ View \in [FF!Cells -> FF!Tag] /\ starts \subseteq FF!Cells
           /\ \A b \in starts :
                 /\ b \in Nat /\ b \in FF!Cells /\ b + 1 \in FF!Cells
                 /\ View[b] = mem[b] /\ mem[b].tag \in {"USED", "FREE"}
                 /\ mem[b].size \in Nat /\ mem[b].size >= 3
                 /\ b + mem[b].size <= FF!HeapEnd
                 /\ b + mem[b].size - 1 \in FF!Cells
                 /\ mem[b + mem[b].size - 1] = mem[b]
                 /\ View[b + mem[b].size - 1] = mem[b]
                 /\ FFP!End(b) = b + mem[b].size /\ FF!End(b) = b + mem[b].size
           /\ \A b, c \in starts : b < c => b + mem[b].size <= c
           /\ \A p \in DOMAIN ffHeld :
                 /\ p - 1 \in starts /\ mem[p - 1].tag = "USED" /\ (p - 1) + 1 = p
                 /\ p \in FF!Cells /\ p \in Nat
                 /\ ffHeld[p] \in Nat /\ ffHeld[p] <= (mem[p - 1].size - 2) * 16
           /\ \A b \in starts : mem[b].tag = "USED" => b + 1 \in DOMAIN ffHeld
  <1> USE SameStrategy
  <1>1. /\ FFP!TypeOK /\ FFP!BoundaryTags /\ FFP!Tiled /\ FFP!HeldBlocks
        /\ mem \in [FF!Cells -> Readings]
    BY DEF FirstFitInv, FFP!IInv
  <1>2. View \in [FF!Cells -> FF!Tag] /\ starts \subseteq FF!Cells
    BY <1>1 DEF FFP!TypeOK
  <1>3. \A c \in FF!Cells : View[c].tag \in {"USED", "FREE"} => View[c] = mem[c]
    <2>1. FF!Data.tag = "DATA"
      BY DEF FF!Data
    <2> QED
      BY <1>1, <2>1, ScrubIs DEF View
  <1>4. ASSUME NEW b \in starts
        PROVE  /\ b \in Nat /\ b \in FF!Cells /\ b + 1 \in FF!Cells
               /\ View[b] = mem[b] /\ mem[b].tag \in {"USED", "FREE"}
               /\ mem[b].size \in Nat /\ mem[b].size >= 3
               /\ b + mem[b].size <= FF!HeapEnd
               /\ b + mem[b].size - 1 \in FF!Cells
               /\ mem[b + mem[b].size - 1] = mem[b]
               /\ View[b + mem[b].size - 1] = mem[b]
               /\ FFP!End(b) = b + mem[b].size /\ FF!End(b) = b + mem[b].size
    <2>1. /\ View[b].tag \in {"USED", "FREE"} /\ View[b].size >= 3
          /\ FFP!End(b) = b + View[b].size /\ FFP!End(b) <= FF!HeapEnd
          /\ View[FFP!End(b) - 1] = View[b]
      BY <1>1 DEF FFP!BoundaryTags, FFP!End
    <2>2. b \in FF!Cells /\ b \in Nat /\ View[b] \in FF!Tag
      BY <1>2
    <2>3. View[b] = mem[b] /\ View[b].size \in Nat
      BY <1>3, <2>1, <2>2 DEF FF!Tag
    <2>4. FFP!End(b) - 1 \in FF!Cells /\ FFP!End(b) - 1 = b + mem[b].size - 1 /\ b + 1 \in FF!Cells
      BY <2>1, <2>2, <2>3
    <2>5. mem[b + mem[b].size - 1] = mem[b]
      BY <1>3, <2>1, <2>3, <2>4
    <2> QED
      BY <2>1, <2>2, <2>3, <2>4, <2>5 DEF FF!End
  <1>5. \A b, c \in starts : b < c => b + mem[b].size <= c
    BY <1>1, <1>4 DEF FFP!Tiled
  <1>6. ASSUME NEW p \in DOMAIN ffHeld
        PROVE  /\ p - 1 \in starts /\ mem[p - 1].tag = "USED" /\ (p - 1) + 1 = p
               /\ p \in FF!Cells /\ p \in Nat
               /\ ffHeld[p] \in Nat /\ ffHeld[p] <= (mem[p - 1].size - 2) * 16
    <2>1. PICK b \in starts : View[b].tag = "USED" /\ p = b + 1
      BY <1>1 DEF FFP!HeldBlocks
    <2>2. p - 1 = b /\ (p - 1) + 1 = p /\ p \in FF!Cells /\ p \in Nat
          /\ View[b] = mem[b]
      BY <1>4, <2>1
    <2>3. ffHeld[p] \in Nat
      BY <1>1 DEF FFP!TypeOK
    <2>4. ffHeld[p] <= (View[p - 1].size - 2) * 16
      <3>1. ffHeld[p] <= FFP!UsableSize(p)
        BY <1>1 DEF FFP!HeldBlocks
      <3>2. FFP!UsableSize(p) = (View[p - 1].size - 2) * 16
        BY SameStrategy DEF FFP!UsableSize
      <3> QED
        BY <3>1, <3>2
    <2> QED
      BY <2>1, <2>2, <2>3, <2>4
  <1>7. \A b \in starts : mem[b].tag = "USED" => b + 1 \in DOMAIN ffHeld
    <2> SUFFICES ASSUME NEW b \in starts, mem[b].tag = "USED" PROVE b + 1 \in DOMAIN ffHeld
      OBVIOUS
    <2>1. b \in {c \in starts : View[c].tag = "USED"}
      BY <1>4
    <2> QED
      BY <1>1, <2>1 DEF FFP!HeldBlocks
  <1> QED
    BY <1>2, <1>4, <1>5, <1>6, <1>7

LEMMA ShapeNow ==
    FirstFitInv => \A c \in starts : View[c] = mem[c] /\ FFP!End(c) = c + mem[c].size
  BY FirstFitShape

LEMMA ShapeLater ==
    FirstFitInv' => (\A c \in starts : View[c] = mem[c] /\ FFP!End(c) = c + mem[c].size)'
  BY ShapeNow, PTL

\* ff_alloc reads tags only, so it chooses and cuts the same block
LEMMA SameChoice ==
    ASSUME FirstFitInv, NEW size \in 0 .. SizeMax, NEW b, FF!FirstFitting(b, size)
    PROVE  /\ b \in starts /\ mem[b].tag = "FREE" /\ FFP!FirstFitting(b, size)
           /\ FF!Total(size) \in Nat /\ FF!Total(size) >= 3 /\ FF!Total(size) <= mem[b].size
           /\ FFP!CarvedStarts(b, size) = FF!CarvedStarts(b, size)
           /\ FFP!WithAsked(b, size) = FF!WithAsked(b, size)
           /\ FF!CarvedMem(b, size) \in [FF!Cells -> Readings]
           /\ FFP!CarvedMem(b, size) = Scrub(FF!CarvedMem(b, size))
  <1> USE SameStrategy
  <1>1. b \in starts /\ mem[b].tag = "FREE" /\ ~FF!TooBig(size) /\ mem[b].size >= FF!Total(size)
        /\ \A c \in starts : c < b => ~FF!Fits(c, size)
    BY DEF FF!FirstFitting, FF!Fits
  <1>2. /\ \A c \in starts : View[c] = mem[c] /\ mem[c].size \in Nat
        /\ mem \in [FF!Cells -> Readings]
    BY FirstFitShape DEF FirstFitInv
  <1>3. \A c \in starts : FFP!Fits(c, size) <=> FF!Fits(c, size)
    BY <1>2 DEF FFP!Fits, FF!Fits
  <1>4. FFP!FirstFitting(b, size)
    <2>1. FFP!Fits(b, size)
      BY <1>1, <1>2 DEF FFP!Fits
    <2> QED
      BY <1>1, <1>3, <2>1 DEF FFP!FirstFitting
  <1>5. FF!Total(size) \in Nat /\ FF!Total(size) >= 3
    <2>1. ~FFP!TooBig(size)
      BY <1>1
    <2>2. FFP!Total(size) \in Nat /\ FFP!Total(size) >= FFP!MinBlock
      BY <2>1, FFP!TotalBounds, Assumed
    <2> QED
      BY <2>2
  <1>6. FFP!Splits(b, size) <=> FF!Splits(b, size)
    BY <1>1, <1>2 DEF FFP!Splits, FF!Splits
  <1>7. FFP!CarvedStarts(b, size) = FF!CarvedStarts(b, size)
    BY <1>6 DEF FFP!CarvedStarts, FF!CarvedStarts
  <1>8. FFP!WithAsked(b, size) = FF!WithAsked(b, size)
    BY Zenon DEF FFP!WithAsked, FF!WithAsked
  <1>9. PICK t, rest, s : t = FF!Total(size) /\ s = mem[b].size /\ rest = s - t
    OBVIOUS
  <1>10. t \in Nat /\ rest \in Nat /\ s \in Nat
    BY <1>1, <1>2, <1>5, <1>9
  <1>11. /\ FF!CarvedMem(b, size) \in [FF!Cells -> Readings]
         /\ FFP!CarvedMem(b, size) = Scrub(FF!CarvedMem(b, size))
    <2>1. CASE FF!Splits(b, size)
      <3>1. FF!CarvedMem(b, size) = FF!Mark(FF!Mark(mem, b, t, "USED"), b + t, rest, "FREE")
        BY <1>9, <2>1 DEF FF!CarvedMem
      <3>2. FFP!CarvedMem(b, size) = FF!Mark(FF!Mark(View, b, t, "USED"), b + t, rest, "FREE")
        BY <1>1, <1>2, <1>6, <1>9, <2>1, SameMark DEF FFP!CarvedMem
      <3>3. /\ FF!Mark(mem, b, t, "USED") \in [FF!Cells -> Readings]
            /\ Scrub(FF!Mark(mem, b, t, "USED")) = FF!Mark(View, b, t, "USED")
        BY <1>2, <1>10, ScrubMark DEF View
      <3>4. PICK m : m = FF!Mark(mem, b, t, "USED")
        OBVIOUS
      <3>5. /\ FF!Mark(m, b + t, rest, "FREE") \in [FF!Cells -> Readings]
            /\ Scrub(FF!Mark(m, b + t, rest, "FREE")) = FF!Mark(Scrub(m), b + t, rest, "FREE")
        BY <1>10, <3>3, <3>4, ScrubMark
      <3> QED
        BY <3>1, <3>2, <3>3, <3>4, <3>5
    <2>2. CASE ~FF!Splits(b, size)
      <3>1. FF!CarvedMem(b, size) = FF!Mark(mem, b, s, "USED")
        BY <1>9, <2>2 DEF FF!CarvedMem
      <3>2. FFP!CarvedMem(b, size) = FF!Mark(View, b, s, "USED")
        BY <1>1, <1>2, <1>6, <1>9, <2>2, SameMark DEF FFP!CarvedMem
      <3> QED
        BY <1>2, <1>10, <3>1, <3>2, ScrubMark DEF View
    <2> QED
      BY <2>1, <2>2
  <1> QED
    BY <1>1, <1>4, <1>5, <1>7, <1>8, <1>11

(* The cells an allocation writes, of the block b it cuts: tags, and none  *)
(* of them the first payload cell.                                         *)
CutFrom(w, ss, b) ==
    /\ \A c \in FF!Cells :
          \/ w[c] = mem[c]
          \/ w[c].tag \in {"USED", "FREE"} /\ (c = b \/ b + 2 <= c) /\ c < b + mem[b].size
    /\ \A d \in ss : d \in starts \/ (b + 3 <= d /\ d < b + mem[b].size /\ d \in FF!Cells)
    /\ \A d \in ss : d # b => /\ w[d].tag \in {"USED", "FREE"}
                              /\ w[d].size \in Nat /\ d + w[d].size - 1 # b + 1
                              /\ d + w[d].size - 1 \in FF!Cells
    /\ w[b].size \in Nat /\ w[b].size >= 3 /\ w[b].size <= mem[b].size
    /\ w[b].tag = "USED"

LEMMA CarvedCells ==
    ASSUME FirstFitInv, NEW size \in 0 .. SizeMax, NEW b, FF!FirstFitting(b, size)
    PROVE  CutFrom(FF!CarvedMem(b, size), FF!CarvedStarts(b, size), b)
  <1>1. PICK t, rest, s : t = FF!Total(size) /\ s = mem[b].size /\ rest = s - t
    OBVIOUS
  <1>2. /\ b \in starts /\ b \in Nat /\ b \in FF!Cells /\ t \in Nat /\ t >= 3 /\ t <= s /\ s \in Nat
        /\ rest \in Nat /\ b + s <= FF!HeapEnd
        /\ b + 1 \in FF!Cells /\ mem \in [FF!Cells -> Readings]
    BY <1>1, SameChoice, FirstFitShape DEF FirstFitInv
  <1>7. /\ b \in Nat /\ t \in Nat /\ t >= 3 /\ t <= s /\ s \in Nat /\ rest \in Nat /\ rest = s - t
    BY <1>1, <1>2
  <1>3. /\ \A d \in starts : /\ d \in FF!Cells /\ d \in Nat /\ mem[d].size \in Nat /\ mem[d].size >= 3
                             /\ d + mem[d].size - 1 \in FF!Cells /\ mem[d].tag \in {"USED", "FREE"}
        /\ \A d \in starts : d < b => d + mem[d].size <= b
        /\ \A d \in starts : b < d => b + s <= d
    BY <1>1, <1>2, FirstFitShape
  <1>4. PICK w, ss : w = FF!CarvedMem(b, size) /\ ss = FF!CarvedStarts(b, size)
    OBVIOUS
  <1>5. CASE FF!Splits(b, size)
    <2>1. w = FF!Mark(FF!Mark(mem, b, t, "USED"), b + t, rest, "FREE")
      BY <1>1, <1>4, <1>5 DEF FF!CarvedMem
    <2>2. rest >= 3 /\ ss = starts \cup {b + t}
      BY <1>1, <1>4, <1>5, SameStrategy DEF FF!Splits, FF!CarvedStarts
    <2>3. PICK n, e, f : n = b + t /\ e = b + t - 1 /\ f = b + s - 1
      OBVIOUS
    <2>4. /\ n \in FF!Cells /\ e \in FF!Cells /\ f \in FF!Cells
          /\ n \in Nat /\ e \in Nat /\ f \in Nat
          /\ b + 2 <= e /\ n = e + 1 /\ n + 2 <= f /\ f < b + s /\ f = n + rest - 1
      <3>1. /\ n \in Nat /\ e \in Nat /\ f \in Nat
            /\ b + 2 <= e /\ n = e + 1 /\ n + 2 <= f /\ f < b + s /\ f = n + rest - 1
        BY <1>7, <2>2, <2>3
      <3> QED
        BY <1>2, <3>1, SameStrategy
    <2>5. PICK m : m = FF!Mark(mem, b, t, "USED")
      OBVIOUS
    <2>6. m \in [FF!Cells -> Readings]
      BY <1>2, <2>5, ScrubMark
    <2>7. \A c \in FF!Cells : m[c] = IF c = b \/ c = e THEN Pair(t, "USED") ELSE mem[c]
      BY <1>2, <2>3, <2>4, <2>5, MarkIs
    <2>8. w = FF!Mark(m, n, rest, "FREE")
      BY <2>1, <2>3, <2>5
    <2>9. \A c \in FF!Cells : w[c] = IF c = n \/ c = f THEN Pair(rest, "FREE") ELSE m[c]
      BY <1>2, <2>4, <2>6, <2>8, MarkIs
    <2>10. /\ Pair(t, "USED").tag = "USED" /\ Pair(t, "USED").size = t
           /\ Pair(rest, "FREE").tag = "FREE" /\ Pair(rest, "FREE").size = rest
      BY DEF Pair
    <2>11. b # e /\ b # n /\ b # f /\ n # e /\ e # f
      BY <1>2, <2>4
    <2>12. w[b] = Pair(t, "USED") /\ w[n] = Pair(rest, "FREE") /\ w[e] = Pair(t, "USED")
           /\ w[f] = Pair(rest, "FREE")
      BY <1>2, <2>4, <2>7, <2>9, <2>11
    <2>13. \A c \in FF!Cells : c # b /\ c # e /\ c # n /\ c # f => w[c] = mem[c]
      BY <2>7, <2>9
    <2>14. ASSUME NEW d \in ss, d # b
           PROVE  /\ w[d].tag \in {"USED", "FREE"}
                  /\ w[d].size \in Nat /\ d + w[d].size - 1 # b + 1 /\ d + w[d].size - 1 \in FF!Cells
      <3>1. CASE d = n
        <4>1. w[d].size = rest /\ w[d].tag = "FREE"
          BY <2>10, <2>12, <3>1
        <4> QED
          BY <1>2, <2>4, <3>1, <4>1
      <3>2. CASE d # n
        <4>1. d \in starts
          BY <2>2, <2>3, <2>14, <3>2
        <4>2. d # e /\ d # f
          BY <1>2, <1>3, <2>4, <2>14, <4>1
        <4>3. w[d] = mem[d]
          BY <1>3, <2>13, <2>14, <3>2, <4>1, <4>2
        <4>4. d + mem[d].size <= b \/ b + s <= d
          BY <1>2, <1>3, <2>14, <4>1
        <4> QED
          BY <1>2, <1>3, <4>1, <4>3, <4>4
      <3> QED
        BY <3>1, <3>2
    <2>15. ASSUME NEW c \in FF!Cells
           PROVE  \/ w[c] = mem[c]
                  \/ w[c].tag \in {"USED", "FREE"} /\ (c = b \/ b + 2 <= c) /\ c < b + s
      <3>1. CASE c \in {b, e, n, f}
        <4>1. w[c].tag \in {"USED", "FREE"}
          BY <2>10, <2>12, <3>1
        <4>2. (c = b \/ b + 2 <= c) /\ c < b + s
          BY <1>2, <2>4, <3>1
        <4> QED
          BY <4>1, <4>2
      <3> QED
        BY <2>13, <3>1
    <2>16. \A d \in ss : d \in starts \/ (b + 3 <= d /\ d < b + s /\ d \in FF!Cells)
      BY <1>2, <2>2, <2>3, <2>4
    <2>17. w[b].size \in Nat /\ w[b].size >= 3 /\ w[b].size <= s /\ w[b].tag = "USED"
      BY <1>2, <2>10, <2>12
    <2>18. CutFrom(w, ss, b)
      BY <1>1, <2>14, <2>15, <2>16, <2>17 DEF CutFrom
    <2> QED
      BY <1>4, <2>18
  <1>6. CASE ~FF!Splits(b, size)
    <2>1. w = FF!Mark(mem, b, s, "USED") /\ ss = starts
      BY <1>1, <1>4, <1>6 DEF FF!CarvedMem, FF!CarvedStarts
    <2>2. PICK f : f = b + s - 1
      OBVIOUS
    <2>3. f \in FF!Cells /\ f \in Nat /\ b + 2 <= f /\ f < b + s
      <3>1. f \in Nat /\ b + 2 <= f /\ f < b + s
        BY <1>7, <2>2
      <3> QED
        BY <1>2, <3>1, SameStrategy
    <2>4. \A c \in FF!Cells : w[c] = IF c = b \/ c = f THEN Pair(s, "USED") ELSE mem[c]
      BY <1>2, <2>1, <2>2, <2>3, MarkIs
    <2>5. Pair(s, "USED").tag = "USED" /\ Pair(s, "USED").size = s
      BY DEF Pair
    <2>6. ASSUME NEW d \in starts, d # b
          PROVE  /\ w[d].tag \in {"USED", "FREE"}
                 /\ w[d].size \in Nat /\ d + w[d].size - 1 # b + 1 /\ d + w[d].size - 1 \in FF!Cells
      <3>1. d + mem[d].size <= b \/ b + s <= d
        BY <1>2, <1>3, <2>6
      <3>2. d # f
        BY <1>2, <1>3, <2>3, <3>1
      <3>3. w[d] = mem[d]
        BY <1>3, <2>4, <2>6, <3>2
      <3>4. /\ d \in Nat /\ mem[d].size \in Nat /\ mem[d].size >= 3 /\ mem[d].tag \in {"USED", "FREE"}
            /\ d + mem[d].size - 1 \in FF!Cells
        BY <1>3
      <3>5. d + mem[d].size - 1 # b + 1
        BY <1>2, <3>1, <3>4
      <3> QED
        BY <3>3, <3>4, <3>5
    <2>7. \A c \in FF!Cells :
              \/ w[c] = mem[c]
              \/ w[c].tag \in {"USED", "FREE"} /\ (c = b \/ b + 2 <= c) /\ c < b + s
      <3> TAKE c \in FF!Cells
      <3>1. CASE c = b \/ c = f
        <4>1. (c = b \/ b + 2 <= c) /\ c < b + s
          BY <1>7, <2>3, <3>1
        <4> QED
          BY <2>4, <2>5, <3>1, <4>1
      <3> QED
        BY <2>4, <3>1
    <2>8. w[b].size = s /\ w[b].tag = "USED"
      BY <1>2, <2>4, <2>5
    <2>9. w[b].size \in Nat /\ w[b].size >= 3 /\ w[b].size <= s
      BY <1>2, <2>8
    <2>10. CutFrom(w, ss, b)
      BY <1>1, <2>1, <2>6, <2>7, <2>8, <2>9 DEF CutFrom
    <2> QED
      BY <1>4, <2>10
  <1> QED
    BY <1>5, <1>6

\* a guard is a reading
LEMMA GuardIs ==
    ASSUME NEW n \in Nat
    PROVE  Guard(n) \in Readings /\ Guard(n).tag = "HEAD" /\ Guard(n).size = n
  BY DEF Guard, Readings, CellTags

PlaceGuard(w, b, n) == [w EXCEPT ![b + 1] = Guard(n)]

\* block b handed out for size bytes with a guard that records n
HandedOut(b, size, n) ==
    /\ FirstFitInv'
    /\ b \in starts /\ b \in starts' /\ b + 1 \in FF!Cells /\ b + 1 \notin DOMAIN ffHeld
    /\ mem'[b + 1] = Guard(n)
    /\ DOMAIN ffHeld' = DOMAIN ffHeld \cup {b + 1}
    /\ ffHeld'[b + 1] = size /\ \A p \in DOMAIN ffHeld : ffHeld'[p] = ffHeld[p]
    /\ \A p \in DOMAIN ffHeld : mem'[p] = mem[p] /\ mem'[p - 1] = mem[p - 1]
    /\ \A c \in FF!Cells : c # b + 1 => mem'[c] = mem[c] \/ mem'[c].tag \in {"USED", "FREE"}

(* ff_alloc and the guard written over the first payload cell: tags and     *)
(* tiling stand, and nothing but the block handed out is touched.           *)
LEMMA FirstFitTakes ==
    ASSUME FirstFitInv, NEW size \in 0 .. SizeMax, NEW n \in Nat, NEW b,
           FF!FirstFitting(b, size),
           mem' = PlaceGuard(FF!CarvedMem(b, size), b, n),
           starts' = FF!CarvedStarts(b, size),
           ffHeld' = FF!WithAsked(b, size)
    PROVE  HandedOut(b, size, n)
  <1>1. PICK w, ss : w = FF!CarvedMem(b, size) /\ ss = FF!CarvedStarts(b, size)
    OBVIOUS
  <1>2. /\ b \in starts /\ w \in [FF!Cells -> Readings]
        /\ FFP!CarvedMem(b, size) = Scrub(w) /\ FFP!CarvedStarts(b, size) = ss
        /\ FFP!WithAsked(b, size) = FF!WithAsked(b, size) /\ FFP!FirstFitting(b, size)
    BY <1>1, SameChoice
  <1>3. PICK hi, bs : hi = b + mem[b].size /\ bs = w[b].size
    OBVIOUS
  <1>4. /\ \A c \in FF!Cells :
              \/ w[c] = mem[c]
              \/ w[c].tag \in {"USED", "FREE"} /\ (c = b \/ b + 2 <= c) /\ c < hi
        /\ \A d \in ss : d \in starts \/ (b + 3 <= d /\ d < hi /\ d \in FF!Cells)
        /\ \A d \in ss : d # b => /\ w[d].tag \in {"USED", "FREE"}
                                  /\ w[d].size \in Nat
                                  /\ d + w[d].size - 1 # b + 1
                                  /\ d + w[d].size - 1 \in FF!Cells
        /\ bs \in Nat /\ bs >= 3 /\ bs <= mem[b].size
        /\ w[b].tag = "USED"
    BY <1>1, <1>3, CarvedCells DEF CutFrom
  <1>19. /\ b \in Nat /\ b \in FF!Cells /\ b + 1 \in FF!Cells /\ hi \in Nat /\ b + 3 <= hi
         /\ hi - 1 \in FF!Cells /\ b + bs <= hi
         /\ \A d \in starts : d \in Nat /\ d \in FF!Cells
         /\ \A d \in starts : d < b => d + mem[d].size <= b
         /\ \A d \in starts : b < d => hi <= d
         /\ \A d \in starts : mem[d].size \in Nat /\ mem[d].size >= 3
    <2>1. /\ b \in Nat /\ b \in FF!Cells /\ b + 1 \in FF!Cells /\ mem[b].size \in Nat
          /\ mem[b].size >= 3 /\ b + mem[b].size - 1 \in FF!Cells
          /\ \A d \in starts : d \in Nat /\ d \in FF!Cells
          /\ \A d \in starts : d < b => d + mem[d].size <= b
          /\ \A d \in starts : b < d => b + mem[b].size <= d
          /\ \A d \in starts : mem[d].size \in Nat /\ mem[d].size >= 3
      BY <1>2, FirstFitShape
    <2>2. hi \in Nat /\ b + 3 <= hi /\ b + bs <= hi
      <3> PICK k : k = mem[b].size
        OBVIOUS
      <3>1. b \in Nat /\ k \in Nat /\ k >= 3 /\ hi = b + k /\ bs \in Nat /\ bs <= k
        BY <1>3, <1>4, <2>1
      <3> QED
        BY <3>1
    <2> QED
      BY <1>3, <2>1, <2>2
  <1>5. PICK x, g, v : x = b + 1 /\ g = Guard(n) /\ v = [w EXCEPT ![x] = g]
    OBVIOUS
  <1>6. mem' = v /\ x \in FF!Cells /\ x \in Nat /\ g \in Readings /\ g.tag = "HEAD"
    BY <1>1, <1>19, <1>5, GuardIs DEF PlaceGuard
  <1>7. /\ v \in [FF!Cells -> Readings] /\ Scrub(v) \in [FF!Cells -> FF!Tag]
        /\ \A c \in FF!Cells : c # x => Scrub(v)[c] = Scrub(w)[c]
    <2>1. w \in [FF!Cells -> Readings] /\ v = [w EXCEPT ![x] = g] /\ g.tag \notin {"USED", "FREE"}
      BY <1>2, <1>5, <1>6
    <2>2. v \in [FF!Cells -> Readings]
      BY <1>6, <2>1
    <2>3. Scrub(v) \in [FF!Cells -> FF!Tag]
      BY <2>2, ScrubIs
    <2>4. \A c \in FF!Cells : Scrub(v)[c] = IF v[c].tag \in {"USED", "FREE"} THEN v[c] ELSE FF!Data
      BY <2>2, ScrubIs
    <2>5. \A c \in FF!Cells : Scrub(w)[c] = IF w[c].tag \in {"USED", "FREE"} THEN w[c] ELSE FF!Data
      BY <2>1, ScrubIs
    <2>6. \A c \in FF!Cells : c # x => v[c] = w[c]
      BY <2>1
    <2>7. \A c \in FF!Cells : c # x => Scrub(v)[c] = Scrub(w)[c]
      BY <2>4, <2>5, <2>6
    <2> QED
      BY <2>2, <2>3, <2>7
  <1>8. v[x] = g /\ \A c \in FF!Cells : c # x => v[c] = w[c]
    BY <1>2, <1>5, <1>6, ScrubGuard
  <1>9. ASSUME NEW d \in ss
        PROVE  /\ d \in FF!Cells /\ d # x
               /\ Scrub(w)[d] = w[d] /\ w[d].tag \in {"USED", "FREE"}
               /\ d + w[d].size - 1 # x /\ d + w[d].size - 1 \in FF!Cells
    <2>1. CASE d = b
      <3>1. b + bs - 1 \in Nat /\ b + bs - 1 # x /\ b # x
        BY <1>4, <1>5, <1>19
      <3>2. b + bs - 1 \in FF!Cells
        <4>1. b + bs - 1 <= hi - 1 /\ hi - 1 \in Nat
          BY <1>4, <1>19
        <4>2. hi - 1 \in 0 .. FF!HeapEnd - 1 /\ FF!HeapEnd \in Nat
          BY <1>19, SameStrategy
        <4>3. b + bs - 1 \in 0 .. FF!HeapEnd - 1
          BY <3>1, <4>1, <4>2
        <4> QED
          BY <4>3, SameStrategy
      <3>3. Scrub(w)[b] = w[b]
        BY <1>2, <1>19, <1>4, ScrubIs
      <3> QED
        BY <1>3, <1>4, <1>19, <2>1, <3>1, <3>2, <3>3
    <2>2. CASE d # b
      <3>1. d \in FF!Cells /\ d # x
        <4>1. CASE d \in starts
          <5>1. d \in Nat /\ d \in FF!Cells /\ (d < b \/ hi <= d)
            BY <1>19, <2>2, <4>1
          <5> QED
            BY <1>19, <1>5, <5>1
        <4>2. CASE d \notin starts
          <5>1. b + 3 <= d /\ d \in FF!Cells
            BY <1>4, <4>2
          <5> QED
            BY <1>19, <1>5, <5>1
        <4> QED
          BY <4>1, <4>2
      <3>2. /\ w[d].tag \in {"USED", "FREE"} /\ d + w[d].size - 1 # b + 1
            /\ d + w[d].size - 1 \in FF!Cells
        BY <1>4, <2>2
      <3>3. Scrub(w)[d] = w[d]
        BY <1>2, <3>1, <3>2, ScrubIs
      <3> QED
        BY <1>5, <3>1, <3>2, <3>3
    <2> QED
      BY <2>1, <2>2
  <1>10. View' = Scrub(v)
    BY <1>6 DEF View, Scrub
  <1>11. FFP!SameTags(Scrub(w), ss)
    <2>1. \A d \in ss : /\ View'[d] = Scrub(w)[d]
                        /\ View'[d + Scrub(w)[d].size - 1] = Scrub(w)[d + Scrub(w)[d].size - 1]
      BY <1>7, <1>9, <1>10
    <2> QED
      BY <1>7, <1>10, <2>1, SameStrategy DEF FFP!SameTags
  <1>12. FFP!AllocTags(size, b)
    BY <1>1, <1>2, <1>11 DEF FFP!AllocTags
  <1>13. FFP!IInv' /\ b \in starts' /\ b + 1 \notin DOMAIN ffHeld
    BY <1>2, <1>12, Assumed, FFP!AllocTagsInv DEF FirstFitInv
  <1>14. FirstFitInv'
    BY <1>6, <1>7, <1>13 DEF FirstFitInv
  <1>15. /\ DOMAIN ffHeld' = DOMAIN ffHeld \cup {b + 1}
         /\ ffHeld'[b + 1] = size /\ \A p \in DOMAIN ffHeld : ffHeld'[p] = ffHeld[p]
    BY <1>13 DEF FF!WithAsked
  <1>16. \A p \in DOMAIN ffHeld : mem'[p] = mem[p] /\ mem'[p - 1] = mem[p - 1]
    <2> SUFFICES ASSUME NEW p \in DOMAIN ffHeld PROVE mem'[p] = mem[p] /\ mem'[p - 1] = mem[p - 1]
      OBVIOUS
    <2>1. PICK d : d = p - 1
      OBVIOUS
    <2>2. d \in starts /\ mem[d].tag = "USED" /\ p = d + 1 /\ p \in FF!Cells /\ p \in Nat
      BY <2>1, FirstFitShape
    <2>3. d # b
      BY <1>1, <2>2, SameChoice
    <2>4. d \in Nat /\ d \in FF!Cells /\ (d + mem[d].size <= b \/ hi <= d)
          /\ mem[d].size \in Nat /\ mem[d].size >= 3
      <3>1. d \in Nat /\ d \in FF!Cells /\ mem[d].size \in Nat /\ mem[d].size >= 3
        BY <1>19, <2>2
      <3>2. d < b \/ b < d
        BY <1>19, <2>3, <3>1
      <3> QED
        BY <1>19, <2>2, <3>1, <3>2
    <2>5. w[d] = mem[d] /\ w[p] = mem[p]
      <3>1. p \in Nat /\ p = d + 1 /\ (p < b \/ hi < p) /\ (d < b \/ hi <= d)
        BY <1>19, <2>2, <2>4
      <3>2. ~(d = b \/ b + 2 <= d) \/ ~(d < hi)
        BY <1>19, <2>4, <3>1
      <3>3. ~(p = b \/ b + 2 <= p) \/ ~(p < hi)
        BY <1>19, <3>1
      <3> QED
        BY <1>4, <2>2, <2>4, <3>2, <3>3
    <2>6. d # x /\ p # x
      BY <1>19, <1>5, <2>2, <2>4
    <2> QED
      BY <1>6, <1>8, <2>1, <2>2, <2>4, <2>5, <2>6
  <1>17. \A c \in FF!Cells : c # x => mem'[c] = mem[c] \/ mem'[c].tag \in {"USED", "FREE"}
    BY <1>4, <1>6, <1>8
  <1>18. mem'[b + 1] = Guard(n)
    BY <1>5, <1>6, <1>8
  <1> QED
    BY <1>2, <1>19, <1>5, <1>13, <1>14, <1>15, <1>16, <1>17, <1>18 DEF HandedOut

-----------------------------------------------------------------------------
(* Giving a first-fit block back.                                          *)
\* m is mem but for the payload of block b
Outside(m, b) ==
    \A c \in FF!Cells : c <= b \/ b + mem[b].size - 1 <= c => m[c] = mem[c]

\* the merged block around b
MergeAt(b) == IF FFP!PrevFree(b) THEN FFP!Prev(b) ELSE b
MergeSize(b) ==
    View[b].size
        + (IF FFP!NextFree(b) THEN View[FFP!End(b)].size ELSE 0)
        + (IF FFP!PrevFree(b) THEN View[FFP!Prev(b)].size ELSE 0)

\* the neighbours of a block
LEMMA Neighbours ==
    ASSUME FirstFitInv, NEW b \in starts
    PROVE  /\ b > 0 => \E d \in starts : d + mem[d].size = b /\ FFP!Prev(b) = d
                                         /\ mem[b - 1] = mem[d] /\ View[b - 1] = mem[d]
           /\ b + mem[b].size < FF!HeapEnd => b + mem[b].size \in starts
  <1>1. FFP!TypeOK /\ FFP!BoundaryTags /\ FFP!Tiled
    BY DEF FirstFitInv, FFP!IInv
  <1>2. ASSUME b > 0
        PROVE  \E d \in starts : d + mem[d].size = b /\ FFP!Prev(b) = d
                                 /\ mem[b - 1] = mem[d] /\ View[b - 1] = mem[d]
    <2>1. PICK d \in starts : FFP!Prev(b) = d /\ FFP!End(d) = b
      BY <1>1, <1>2, Assumed, FFP!PrevBlock
    <2>2. /\ FFP!End(d) = d + mem[d].size /\ mem[d + mem[d].size - 1] = mem[d]
          /\ View[d + mem[d].size - 1] = mem[d]
      BY FirstFitShape
    <2>3. d + mem[d].size = b
      BY <2>1, <2>2
    <2>5. d + mem[d].size - 1 = b - 1
      <3>1. d \in Nat /\ mem[d].size \in Nat
        BY FirstFitShape
      <3> QED
        BY <2>3, <3>1
    <2>4. mem[b - 1] = mem[d] /\ View[b - 1] = mem[d]
      BY <2>2, <2>5
    <2> QED
      BY <2>1, <2>3, <2>4
  <1>3. ASSUME b + mem[b].size < FF!HeapEnd
        PROVE  b + mem[b].size \in starts
    <2>1. FFP!End(b) = b + mem[b].size /\ FFP!HeapEnd = FF!HeapEnd
      BY FirstFitShape, SameStrategy
    <2> QED
      BY <1>1, <1>3, <2>1, Assumed, FFP!NextBlock
  <1> QED
    BY <1>2, <1>3

(* ff_free_block reads the tags around the block, which the mark and the   *)
(* poison in its payload leave alone.                                      *)
LEMMA ReleaseReads ==
    ASSUME FirstFitInv, NEW q \in DOMAIN ffHeld, NEW b, b = q - 1,
           NEW m \in [FF!Cells -> Readings], Outside(m, b)
    PROVE  /\ FFWith(m)!MergedMem(q) = FF!Mark(m, MergeAt(b), MergeSize(b), "FREE")
           /\ FFP!MergedMem(q) = FF!Mark(View, MergeAt(b), MergeSize(b), "FREE")
           /\ FFWith(m)!MergedStarts(q) = FFP!MergedStarts(q)
  <1>1. b \in starts
    BY FirstFitShape
  <1>2. PICK s, e : s = mem[b].size /\ e = b + s
    OBVIOUS
  <1>3. /\ b \in Nat /\ b \in FF!Cells /\ s \in Nat /\ s >= 3 /\ FFP!End(b) = e /\ View[b] = mem[b]
    BY <1>1, <1>2, FirstFitShape
  <1>4. m[b] = mem[b]
    BY <1>3 DEF Outside
  <1>5. FFWith(m)!End(b) = e
    BY <1>2, <1>4 DEF FFWith!End
  <1>6. FFWith(m)!HeapEnd = FFP!HeapEnd /\ FFP!HeapEnd = FF!HeapEnd
    BY DEF FFWith!HeapEnd, FFP!HeapEnd, FF!HeapEnd, FFWith!MinBlock, FFP!MinBlock, FF!MinBlock,
       FFWith!Overhead, FFP!Overhead, FF!Overhead
  <1>7. e < FF!HeapEnd => e \in starts /\ m[e] = mem[e] /\ View[e] = mem[e]
    <2> SUFFICES ASSUME e < FF!HeapEnd PROVE e \in starts /\ m[e] = mem[e] /\ View[e] = mem[e]
      OBVIOUS
    <2>1. e \in starts
      BY <1>1, <1>2, Neighbours
    <2>2. e \in FF!Cells /\ View[e] = mem[e]
      BY <2>1, FirstFitShape
    <2>3. b + mem[b].size - 1 <= e
      BY <1>2, <1>3
    <2> QED
      BY <2>1, <2>2, <2>3 DEF Outside
  <1>8. (FFWith(m)!NextFree(b) <=> FFP!NextFree(b)) /\ (FFP!NextFree(b) => m[e] = View[e])
    BY <1>3, <1>5, <1>6, <1>7 DEF FFWith!NextFree, FFP!NextFree
  <1>9. b > 0 => FFWith(m)!Prev(b) = FFP!Prev(b) /\ m[FFP!Prev(b)] = View[FFP!Prev(b)]
    <2> SUFFICES ASSUME b > 0
                 PROVE  FFWith(m)!Prev(b) = FFP!Prev(b) /\ m[FFP!Prev(b)] = View[FFP!Prev(b)]
      OBVIOUS
    <2>1. PICK d \in starts : /\ d + mem[d].size = b /\ FFP!Prev(b) = d
                              /\ mem[b - 1] = mem[d] /\ View[b - 1] = mem[d]
      BY <1>1, Neighbours
    <2>2. /\ d \in Nat /\ d \in FF!Cells /\ mem[d].size \in Nat /\ mem[d].size >= 3
          /\ View[d] = mem[d] /\ d + mem[d].size - 1 \in FF!Cells
      BY FirstFitShape
    <2>3. PICK x : x = b - 1
      OBVIOUS
    <2>4. x \in FF!Cells /\ x <= b /\ d <= b
      BY <1>3, <2>1, <2>2, <2>3
    <2>5. m[x] = mem[x] /\ m[d] = mem[d]
      BY <2>2, <2>4 DEF Outside
    <2>6. FFWith(m)!Prev(b) = FFP!Prev(b)
      BY <2>1, <2>3, <2>5 DEF FFWith!Prev, FFP!Prev
    <2> QED
      BY <2>1, <2>2, <2>5, <2>6
  <1>10. (FFWith(m)!PrevFree(b) <=> FFP!PrevFree(b))
         /\ (FFP!PrevFree(b) => FFWith(m)!Prev(b) = FFP!Prev(b) /\ m[FFP!Prev(b)] = View[FFP!Prev(b)])
    BY <1>9 DEF FFWith!PrevFree, FFP!PrevFree
  <1>11. \A n, c, k, t : FFWith(m)!Mark(n, c, k, t) = FF!Mark(n, c, k, t)
    BY DEF FFWith!Mark, FF!Mark
  <1>12. FFWith(m)!MergedMem(q) = FF!Mark(m, MergeAt(b), MergeSize(b), "FREE")
    BY <1>3, <1>4, <1>5, <1>8, <1>10, <1>11 DEF FFWith!MergedMem, MergeAt, MergeSize
  <1>13. FFP!MergedMem(q) = FF!Mark(View, MergeAt(b), MergeSize(b), "FREE")
    BY SameMark DEF FFP!MergedMem, MergeAt, MergeSize
  <1>14. FFWith(m)!MergedStarts(q) = FFP!MergedStarts(q)
    BY <1>3, <1>5, <1>8, <1>10 DEF FFWith!MergedStarts, FFP!MergedStarts
  <1> QED
    BY <1>12, <1>13, <1>14

\* a cell that carries a tag
Edge(c) == c \in starts \/ \E d \in starts : c = d + mem[d].size - 1

\* the merged block around b: whole blocks, b one of them
LEMMA ReleaseShape ==
    ASSUME FirstFitInv, NEW q \in DOMAIN ffHeld, NEW b, b = q - 1,
           NEW at, at = MergeAt(b), NEW size, size = MergeSize(b)
    PROVE  /\ at \in starts /\ at \in Nat /\ size \in Nat /\ size >= 3 /\ at <= b
           /\ b + mem[b].size <= at + size
           /\ \E d \in starts : at + size = d + mem[d].size
           /\ at + size - 1 \in FF!Cells
           /\ at \in FFP!MergedStarts(q)
           /\ \A c \in FFP!MergedStarts(q) :
                 c \in starts /\ (c = at \/ c + mem[c].size <= at \/ at + size <= c)
  <1>1. b \in starts /\ q = b + 1 /\ FFP!HeapEnd = FF!HeapEnd
    BY FirstFitShape, SameStrategy
  <1>2. PICK s, e : s = mem[b].size /\ e = b + s
    OBVIOUS
  <1>3. /\ b \in Nat /\ s \in Nat /\ s >= 3 /\ FFP!End(b) = e /\ View[b].size = s
        /\ e - 1 \in FF!Cells /\ e \in Nat
    <2>1. /\ b \in Nat /\ mem[b].size \in Nat /\ mem[b].size >= 3 /\ View[b] = mem[b]
          /\ FFP!End(b) = b + mem[b].size /\ b + mem[b].size - 1 \in FF!Cells
      BY <1>1, FirstFitShape
    <2> QED
      BY <1>2, <2>1
  <1>4. PICK gone : gone = (IF FFP!NextFree(b) THEN {FFP!End(b)} ELSE {})
                             \cup (IF FFP!PrevFree(b) THEN {b} ELSE {})
    OBVIOUS
  <1>5. FFP!MergedStarts(q) = starts \ gone
    BY <1>1, <1>4 DEF FFP!MergedStarts
  <1>13. \A c : c \in gone <=> (FFP!NextFree(b) /\ c = e) \/ (FFP!PrevFree(b) /\ c = b)
    BY <1>3, <1>4
  \* upwards
  <1>6. PICK up : up = IF FFP!NextFree(b) THEN View[FFP!End(b)].size ELSE 0
    OBVIOUS
  <1>7. /\ up \in Nat /\ e + up - 1 \in FF!Cells
        /\ \E d \in starts : e + up = d + mem[d].size
        /\ \A c \in starts : b < c /\ c \notin gone => e + up <= c
    <2>1. CASE FFP!NextFree(b)
      <3>1. e \in starts
        <4>1. e < FF!HeapEnd
          BY <1>1, <1>3, <2>1 DEF FFP!NextFree
        <4> QED
          BY <1>1, <1>2, <4>1, Neighbours
      <3>2. /\ mem[e].size \in Nat /\ mem[e].size >= 3 /\ View[e] = mem[e]
            /\ e + mem[e].size - 1 \in FF!Cells
        BY <3>1, FirstFitShape
      <3>3. up = mem[e].size
        BY <1>3, <1>6, <2>1, <3>2
      <3>4. \A c \in starts : b < c /\ c \notin gone => e + up <= c
        <4> SUFFICES ASSUME NEW c \in starts, b < c, c \notin gone PROVE e + up <= c
          OBVIOUS
        <4>1. c # e
          BY <1>13, <2>1
        <4>2. c \in Nat /\ e <= c
          BY <1>1, <1>2, FirstFitShape
        <4> QED
          <5>1. e < c
            BY <1>3, <4>1, <4>2
          <5> QED
            BY <3>1, <3>3, <5>1, FirstFitShape
      <3> QED
        BY <3>1, <3>2, <3>3, <3>4
    <2>2. CASE ~FFP!NextFree(b)
      <3>1. up = 0
        BY <1>6, <2>2
      <3>2. \A c \in starts : b < c => e <= c
        BY <1>1, <1>2, FirstFitShape
      <3>3. e + up = e /\ e + up - 1 = e - 1 /\ up \in Nat
        BY <1>3, <3>1
      <3>4. \E d \in starts : e = d + mem[d].size
        BY <1>1, <1>2
      <3> QED
        BY <1>3, <3>2, <3>3, <3>4
    <2> QED
      BY <2>1, <2>2
  \* downwards
  <1>8. PICK dn : dn = IF FFP!PrevFree(b) THEN View[FFP!Prev(b)].size ELSE 0
    OBVIOUS
  <1>9. /\ dn \in Nat /\ at = b - dn /\ at \in starts /\ at \in Nat /\ at \notin gone
        /\ \A c \in starts : c < b => c = at \/ c + mem[c].size <= at
    <2>1. CASE FFP!PrevFree(b)
      <3>1. PICK d \in starts : d + mem[d].size = b /\ FFP!Prev(b) = d
        BY <1>1, <2>1, Neighbours DEF FFP!PrevFree
      <3>2. /\ d \in Nat /\ mem[d].size \in Nat /\ mem[d].size >= 3 /\ View[d] = mem[d]
        BY FirstFitShape
      <3>3. dn = mem[d].size /\ at = d
        BY <1>8, <2>1, <3>1, <3>2 DEF MergeAt
      <3>4. at = b - dn /\ at < b
        BY <1>3, <3>1, <3>2, <3>3
      <3>5. \A c \in starts : c < b => c = at \/ c + mem[c].size <= at
        <4> SUFFICES ASSUME NEW c \in starts, c < b, c # d PROVE c + mem[c].size <= d
          BY <3>3
        <4>1. c \in Nat /\ ~(d < c)
          BY <1>3, <3>1, <3>2, FirstFitShape
        <4> QED
          BY <3>2, <4>1, FirstFitShape
      <3>6. at \notin gone
        <4>1. at # e /\ at # b
          BY <1>2, <1>3, <3>2, <3>3, <3>4
        <4> QED
          BY <1>13, <4>1
      <3> QED
        BY <3>2, <3>3, <3>4, <3>5, <3>6
    <2>2. CASE ~FFP!PrevFree(b)
      <3>1. dn = 0 /\ at = b
        BY <1>8, <2>2 DEF MergeAt
      <3>2. \A c \in starts : c < b => c + mem[c].size <= b
        BY <1>1, FirstFitShape
      <3>3. at \notin gone
        <4>1. at # e
          BY <1>2, <1>3, <3>1
        <4> QED
          BY <1>13, <2>2, <4>1
      <3> QED
        BY <1>1, <1>3, <3>1, <3>2, <3>3
    <2> QED
      BY <2>1, <2>2
  <1>10. size = s + up + dn /\ at + size = e + up
    <2>1. size = s + up + dn
      BY <1>3, <1>6, <1>8 DEF MergeSize
    <2> QED
      BY <1>2, <1>3, <1>7, <1>9, <2>1
  <1>11. ASSUME NEW c \in starts \ gone
         PROVE  c = at \/ c + mem[c].size <= at \/ at + size <= c
    <2>1. CASE b < c
      BY <1>7, <1>10, <1>11, <2>1
    <2>2. CASE c < b
      BY <1>9, <2>2
    <2>3. CASE c = b
      <3>1. ~FFP!PrevFree(b)
        BY <1>11, <1>13, <2>3
      <3> QED
        BY <2>3, <3>1 DEF MergeAt
    <2> QED
      <3>1. c \in Nat
        BY FirstFitShape
      <3> QED
        BY <1>3, <2>1, <2>2, <2>3, <3>1
  <1>12. size \in Nat /\ size >= 3 /\ at <= b /\ b + s <= at + size
    BY <1>2, <1>3, <1>7, <1>9, <1>10
  <1>14. at + size - 1 \in FF!Cells /\ \E d \in starts : at + size = d + mem[d].size
    <2>1. at + size - 1 = e + up - 1
      BY <1>3, <1>7, <1>9, <1>10, <1>12
    <2> QED
      BY <1>7, <1>10, <2>1
  <1>15. \A c \in starts \ gone : c = at \/ c + mem[c].size <= at \/ at + size <= c
    BY <1>11
  <1>16. b + mem[b].size <= at + size
    BY <1>2, <1>12
  <1> QED
    BY <1>5, <1>9, <1>12, <1>14, <1>15, <1>16

\* inside a block there are no tags
LEMMA NoEdgeInside ==
    ASSUME FirstFitInv, NEW d \in starts, NEW c \in Nat, d < c, c < d + mem[d].size - 1
    PROVE  ~Edge(c)
  <1>1. d \in Nat /\ mem[d].size \in Nat
    BY FirstFitShape
  <1>2. ASSUME NEW x \in starts
        PROVE  c # x /\ c # x + mem[x].size - 1
    <2>1. x \in Nat /\ mem[x].size \in Nat /\ mem[x].size >= 3
      BY FirstFitShape
    <2>2. x = d \/ x + mem[x].size <= d \/ d + mem[d].size <= x
      BY <1>1, <2>1, FirstFitShape
    <2>3. CASE x = d
      BY <1>1, <2>3
    <2>4. CASE x # d
      BY <1>1, <2>1, <2>2, <2>4
    <2> QED
      BY <2>3, <2>4
  <1> QED
    BY <1>2 DEF Edge

LEMMA SizesNow == FirstFitInv => \A c \in starts : c \in Nat /\ mem[c].size \in Nat
  BY FirstFitShape

LEMMA SizesLater == FirstFitInv' => (\A c \in starts : c \in Nat /\ mem[c].size \in Nat)'
  BY SizesNow, PTL

(* The block of payload q merged into the free store, over payloads m:     *)
(* tags and tiling stand, other blocks keep theirs, and whatever was free  *)
(* or is freed lies inside one free block.                                 *)
Merged(q, m) ==
    /\ FirstFitInv'
    /\ DOMAIN ffHeld' = DOMAIN ffHeld \ {q}
    /\ \A p \in DOMAIN ffHeld : p # q => ffHeld'[p] = ffHeld[p]
    /\ \A c \in FF!Cells : mem'[c] = m[c] \/ (mem'[c].tag = "FREE" /\ Edge(c))
    /\ \A c \in starts : c # q - 1 /\ mem[c].tag = "USED" => mem'[c] = mem[c]
    /\ \A c \in starts : c = q - 1 \/ mem[c].tag = "FREE" =>
          \E d \in starts' : /\ mem'[d].tag = "FREE" /\ d <= c
                             /\ c + mem[c].size <= d + mem'[d].size

(* ff_free_block *)
LEMMA FirstFitReleases ==
    ASSUME FirstFitInv, NEW q \in DOMAIN ffHeld, NEW m \in [FF!Cells -> Readings],
           Outside(m, q - 1),
           mem' = FFWith(m)!MergedMem(q), starts' = FFWith(m)!MergedStarts(q),
           ffHeld' = FF!WithoutAsked(q)
    PROVE  Merged(q, m)
  <1>1. PICK b, at, size : b = q - 1 /\ at = MergeAt(b) /\ size = MergeSize(b)
    OBVIOUS
  <1>2. b \in starts /\ q = b + 1 /\ mem \in [FF!Cells -> Readings]
    BY <1>1, FirstFitShape DEF FirstFitInv
  <1>3. PICK w : w = FF!Mark(m, at, size, "FREE")
    OBVIOUS
  <1>4. /\ mem' = w /\ FFP!MergedMem(q) = FF!Mark(View, at, size, "FREE")
        /\ starts' = FFP!MergedStarts(q)
    BY <1>1, <1>3, ReleaseReads
  <1>5. /\ at \in starts /\ at \in Nat /\ size \in Nat /\ size >= 3 /\ at <= b
        /\ b + mem[b].size <= at + size
        /\ \E d \in starts : at + size = d + mem[d].size
        /\ at + size - 1 \in FF!Cells
        /\ at \in FFP!MergedStarts(q)
        /\ \A c \in FFP!MergedStarts(q) :
              c \in starts /\ (c = at \/ c + mem[c].size <= at \/ at + size <= c)
    BY <1>1, ReleaseShape
  <1>6. at \in FF!Cells
    BY <1>5, FirstFitShape
  <1>7. w \in [FF!Cells -> Readings] /\ Scrub(w) = FF!Mark(Scrub(m), at, size, "FREE")
    BY <1>3, <1>5, ScrubMark
  <1>8. PICK t, x : t = at + size - 1 /\ x = Pair(size, "FREE")
    OBVIOUS
  <1>13. t \in FF!Cells
    BY <1>5, <1>8
  <1>9. \A c \in FF!Cells : w[c] = IF c = at \/ c = t THEN x ELSE m[c]
    <2>1. size \in Nat
      BY <1>5
    <2>2. \A c \in FF!Cells : FF!Mark(m, at, size, "FREE")[c]
                                = IF c = at \/ c = t THEN Pair(size, "FREE") ELSE m[c]
      BY <1>6, <1>8, <1>13, <2>1, MarkIs
    <2> QED
      BY <1>3, <1>8, <2>2
  <1>10. /\ \A c \in FF!Cells : Scrub(w)[c] = IF c = at \/ c = t THEN x ELSE Scrub(m)[c]
         /\ \A c \in FF!Cells : FFP!MergedMem(q)[c] = IF c = at \/ c = t THEN x ELSE View[c]
    <2>1. \A n \in [FF!Cells -> FF!Tag] : \A c \in FF!Cells :
             FF!Mark(n, at, size, "FREE")[c] = IF c = at \/ c = t THEN x ELSE n[c]
      BY <1>5, <1>6, <1>8 DEF FF!Mark, Pair
    <2>2. Scrub(m) \in [FF!Cells -> FF!Tag] /\ View \in [FF!Cells -> FF!Tag]
      BY <1>2, ScrubIs, FirstFitShape
    <2> QED
      BY <1>4, <1>7, <2>1, <2>2
  <1>11. x.size = size /\ x.tag = "FREE"
    BY <1>8 DEF Pair
  <1>12. \A c \in FF!Cells : c <= b \/ b + mem[b].size - 1 <= c => Scrub(m)[c] = View[c] /\ m[c] = mem[c]
    BY <1>1, <1>2, ScrubIs DEF Outside, View
  <1>14. ASSUME NEW c \in starts'
         PROVE  /\ Scrub(w)[c] = FFP!MergedMem(q)[c]
                /\ Scrub(w)[c + FFP!MergedMem(q)[c].size - 1]
                      = FFP!MergedMem(q)[c + FFP!MergedMem(q)[c].size - 1]
    <2>1. c \in starts /\ (c = at \/ c + mem[c].size <= at \/ at + size <= c)
      BY <1>4, <1>5
    <2>2. /\ c \in FF!Cells /\ c \in Nat /\ mem[c].size \in Nat /\ mem[c].size >= 3
          /\ View[c] = mem[c] /\ c + mem[c].size - 1 \in FF!Cells
      BY <2>1, FirstFitShape
    <2>3. CASE c = at
      <3>1. Scrub(w)[c] = x /\ FFP!MergedMem(q)[c] = x
        BY <1>6, <1>10, <2>3
      <3>2. c + FFP!MergedMem(q)[c].size - 1 = t
        BY <1>8, <1>11, <2>3, <3>1
      <3>3. Scrub(w)[t] = x /\ FFP!MergedMem(q)[t] = x
        BY <1>10, <1>13
      <3> QED
        BY <3>1, <3>2, <3>3
    <2>4. CASE c # at
      <3>1. PICK k, f : k = mem[c].size /\ f = c + k - 1
        OBVIOUS
      <3>2. k \in Nat /\ k >= 3 /\ f \in FF!Cells /\ f \in Nat
        BY <2>2, <3>1
      <3>3. PICK hi, s : s = mem[b].size /\ hi = b + s
        OBVIOUS
      <3>4. b \in Nat /\ s \in Nat /\ s >= 3 /\ hi \in Nat
        BY <1>2, <3>3, FirstFitShape
      <3>5. c + k <= at \/ at + size <= c
        BY <2>1, <2>4, <3>1
      <3>6. at <= b /\ hi <= at + size
        BY <1>5, <3>3
      <3>7. c <= b \/ hi - 1 <= c
        BY <1>5, <2>2, <3>2, <3>4, <3>5, <3>6
      <3>8. f <= b \/ hi - 1 <= f
        BY <1>5, <2>2, <3>1, <3>2, <3>4, <3>5, <3>6
      <3>9. c # t /\ f # at /\ f # t
        BY <1>5, <1>8, <2>2, <3>1, <3>2, <3>5
      <3>13. b + mem[b].size - 1 = hi - 1
        BY <3>3, <3>4
      <3>14. Scrub(m)[c] = View[c] /\ Scrub(m)[f] = View[f]
        BY <1>12, <2>2, <3>2, <3>7, <3>8, <3>13
      <3>10. Scrub(w)[c] = View[c] /\ FFP!MergedMem(q)[c] = View[c]
        BY <1>10, <2>2, <2>4, <3>9, <3>14
      <3>11. Scrub(w)[f] = View[f] /\ FFP!MergedMem(q)[f] = View[f]
        BY <1>10, <3>2, <3>9, <3>14
      <3>12. c + FFP!MergedMem(q)[c].size - 1 = f
        BY <2>2, <3>1, <3>10
      <3> QED
        BY <3>10, <3>11, <3>12
    <2> QED
      BY <2>3, <2>4
  <1>15. View' = Scrub(w)
    BY <1>4 DEF View, Scrub
  <1>16. FFP!SameTags(FFP!MergedMem(q), starts')
    <2>1. View' \in [FF!Cells -> FF!Tag]
      BY <1>7, <1>15, ScrubIs
    <2> QED
      BY <1>14, <1>15, <2>1, SameStrategy DEF FFP!SameTags
  <1>17. ffHeld' = FFP!WithoutAsked(q)
    BY DEF FF!WithoutAsked, FFP!WithoutAsked
  <1>18. FFP!FreeTags(q)
    BY <1>4, <1>16, <1>17 DEF FFP!FreeTags
  <1>19. /\ FFP!IInv'
         /\ \A c \in starts : c # q - 1 /\ View[c].tag = "USED" => View'[c] = View[c]
         /\ \A c \in starts : c = q - 1 \/ View[c].tag = "FREE" =>
                \E d \in starts' : View'[d].tag = "FREE" /\ d <= c /\ FFP!End(c) <= FFP!End(d)'
    BY <1>18, Assumed, FFP!FreeTagsInv DEF FirstFitInv
  <1>20. FirstFitInv'
    BY <1>4, <1>7, <1>19 DEF FirstFitInv
  <1>21. \A c \in starts' : View'[c] = mem'[c] /\ FFP!End(c)' = c + mem'[c].size
    <2>1. FirstFitInv' => \A c \in starts' : View'[c] = mem'[c] /\ FFP!End(c)' = c + mem'[c].size
      BY ShapeLater
    <2> QED
      BY <1>20, <2>1
  <1>22. \A c \in starts : View[c] = mem[c] /\ FFP!End(c) = c + mem[c].size
    BY FirstFitShape
  <1>23. ASSUME NEW c \in FF!Cells PROVE mem'[c] = m[c] \/ (mem'[c].tag = "FREE" /\ Edge(c))
    <2>1. CASE c = at \/ c = t
      <3>1. PICK d \in starts : at + size = d + mem[d].size
        BY <1>5
      <3>2. t = d + mem[d].size - 1
        <4>1. d \in Nat /\ mem[d].size \in Nat
          BY FirstFitShape
        <4> QED
          BY <1>5, <1>8, <3>1, <4>1
      <3>3. Edge(c)
        BY <1>5, <2>1, <3>2 DEF Edge
      <3> QED
        BY <1>4, <1>9, <1>11, <2>1, <3>3
    <2> QED
      BY <1>4, <1>9, <2>1
  <1>24. ASSUME NEW c \in starts, c # q - 1, mem[c].tag = "USED" PROVE mem'[c] = mem[c]
    <2>1. View'[c] = mem[c]
      BY <1>19, <1>22, <1>24
    <2>2. c \in FF!Cells /\ mem[c].tag # "DATA"
      BY <1>24, FirstFitShape
    <2>3. Scrub(w)[c] = w[c] \/ Scrub(w)[c] = FF!Data
      BY <1>7, <2>2, ScrubIs
    <2> QED
      BY <1>4, <1>15, <2>1, <2>2, <2>3 DEF FF!Data
  <1>25. DOMAIN ffHeld' = DOMAIN ffHeld \ {q} /\ \A p \in DOMAIN ffHeld : p # q => ffHeld'[p] = ffHeld[p]
    BY DEF FF!WithoutAsked
  <1> QED
    BY <1>19, <1>20, <1>21, <1>22, <1>23, <1>24, <1>25 DEF Merged

-----------------------------------------------------------------------------
(* Guards in the first-fit arena.                                          *)
\* the sizes a guard can record
Amounts == {1} \cup (Requests \ {0})

(* The block handed out at p has its guard at p, with payload and canary   *)
(* inside the block; no other cell reads as a guard.                       *)
FirstFitGuards ==
    /\ \A p \in DOMAIN ffHeld :
          /\ mem[p].tag \in {"HEAD", "SCAR"} /\ mem[p].size \in Amounts
          /\ mem[p].size + GuardTotal <= (mem[p - 1].size - 2) * 16
    /\ \A c \in FF!Cells : mem[c].tag \in {"HEAD", "SCAR"} => c \in DOMAIN ffHeld

Inside(c, d) == d < c /\ c < d + mem[d].size - 1

(* A freed mark lies inside a free block until first fit allocates again.  *)
MarksBuried ==
    \A p \in spent :
        /\ p \in Nat /\ p - 1 \in FF!Cells /\ mem[p - 1].tag = "FREED"
        /\ \E d \in starts : mem[d].tag = "FREE" /\ Inside(p - 1, d)

FirstFitState == FirstFitInv /\ FirstFitGuards /\ MarksBuried

HeldLies ==
    \A p \in DOMAIN ffHeld :
        /\ p - 1 \in starts /\ mem[p - 1].tag = "USED" /\ (p - 1) + 1 = p
        /\ p \in FF!Cells /\ p \in Nat /\ mem[p - 1].size \in Nat
        /\ ffHeld[p] \in Nat /\ ffHeld[p] <= (mem[p - 1].size - 2) * 16

LEMMA HeldLiesNow == FirstFitInv => HeldLies
  BY FirstFitShape DEF HeldLies

LEMMA HeldLiesLater == FirstFitInv' => HeldLies'
  BY HeldLiesNow, PTL

LEMMA AmountsAre == Amounts \subseteq Nat \ {0} /\ \A n \in Amounts : n \in Nat
  BY BoundsAssumption, ArenaAssumption DEF Amounts

(* nsh_malloc in the first-fit arena. *)
LEMMA FirstFitNewKeeps ==
    ASSUME FirstFitState, NEW n \in Amounts, n + GuardTotal <= SizeMax, NEW p \in Nat,
           FirstFitNew(n, p)
    PROVE  /\ FirstFitState'
           /\ p - 1 \in FF!Cells /\ p - 1 \notin DOMAIN ffHeld
           /\ DOMAIN ffHeld' = DOMAIN ffHeld \cup {p - 1}
           /\ mem'[p - 1] = Guard(n)
           /\ \A q \in DOMAIN ffHeld : mem'[q] = mem[q]
  <1>1. PICK size, b : size = n + GuardTotal /\ b = p - 2
    OBVIOUS
  <1>2. n \in Nat /\ size \in Nat /\ size \in 0 .. SizeMax /\ size = n + 24
    BY <1>1, AmountsAre, ArenaAssumption DEF GuardTotal
  <1>3. /\ FF!FirstFitting(b, size)
        /\ mem' = PlaceGuard(FF!CarvedMem(b, size), b, n)
        /\ starts' = FF!CarvedStarts(b, size)
        /\ ffHeld' = FF!WithAsked(b, size)
        /\ spent' = {}
    BY <1>1 DEF FirstFitNew, PlaceGuard
  <1>4. /\ FirstFitInv'
        /\ b \in starts /\ b \in starts' /\ b + 1 \in FF!Cells /\ b + 1 \notin DOMAIN ffHeld
        /\ mem'[b + 1] = Guard(n)
        /\ DOMAIN ffHeld' = DOMAIN ffHeld \cup {b + 1}
        /\ ffHeld'[b + 1] = size /\ \A q \in DOMAIN ffHeld : ffHeld'[q] = ffHeld[q]
        /\ \A q \in DOMAIN ffHeld : mem'[q] = mem[q] /\ mem'[q - 1] = mem[q - 1]
        /\ \A c \in FF!Cells : c # b + 1 => mem'[c] = mem[c] \/ mem'[c].tag \in {"USED", "FREE"}
    <2>1. FirstFitInv /\ n \in Nat /\ size \in 0 .. SizeMax
      BY <1>2 DEF FirstFitState
    <2>2. HandedOut(b, size, n)
      BY <1>3, <2>1, FirstFitTakes
    <2> QED
      BY <2>2 DEF HandedOut
  <1>5. b + 1 = p - 1
    BY <1>1
  <1>6. Guard(n).tag = "HEAD" /\ Guard(n).size = n
    BY DEF Guard
  <1>7. ASSUME NEW q \in DOMAIN ffHeld'
        PROVE  /\ mem'[q].tag \in {"HEAD", "SCAR"} /\ mem'[q].size \in Amounts
               /\ mem'[q].size + GuardTotal <= (mem'[q - 1].size - 2) * 16
    <2>1. CASE q = b + 1
      <3>1. ffHeld'[q] <= (mem'[q - 1].size - 2) * 16
        BY <1>4, HeldLiesLater DEF HeldLies
      <3> QED
        BY <1>1, <1>4, <1>6, <2>1, <3>1
    <2>2. CASE q \in DOMAIN ffHeld
      BY <1>4, <2>2 DEF FirstFitState, FirstFitGuards
    <2> QED
      BY <1>4, <2>1, <2>2
  <1>8. \A c \in FF!Cells : mem'[c].tag \in {"HEAD", "SCAR"} => c \in DOMAIN ffHeld'
    BY <1>4 DEF FirstFitState, FirstFitGuards
  <1>9. FirstFitState'
    BY <1>3, <1>4, <1>7, <1>8 DEF FirstFitState, FirstFitGuards, MarksBuried
  <1> QED
    BY <1>4, <1>5, <1>9

\* the poisoned payload ends inside the block
LEMMA PoisonFits ==
    ASSUME NEW n \in Nat, NEW s \in Nat, n + 24 <= (s - 2) * 16
    PROVE  CellsOf(n) \in Nat /\ CellsOf(n) <= s - 3
  <1> DEFINE k == (n + 15) \div 16
  <1>1. k \in Nat /\ 16 * k <= n + 15
    OBVIOUS
  <1>2. CellsOf(n) = k
    BY DEF CellsOf, Unit
  <1> QED
    BY <1>1, <1>2

\* what block_release leaves in the payload before the strategy's free
Marked(p) ==
    [c \in FF!Cells |-> IF c \in Poisoned(p, mem[p - 1].size) THEN Data
                        ELSE IF c = p - 1 THEN Freed(mem[c])
                        ELSE mem[c]]

LEMMA MarkedIs ==
    ASSUME FirstFitInv, FirstFitGuards, NEW p \in Nat, p - 1 \in DOMAIN ffHeld
    PROVE  /\ Marked(p) \in [FF!Cells -> Readings] /\ Outside(Marked(p), p - 2)
           /\ Marked(p)[p - 1].tag = "FREED"
           /\ \A c \in FF!Cells : \/ Marked(p)[c] = mem[c] /\ c # p - 1
                                  \/ Marked(p)[c].tag \in {"DATA", "FREED"}
  <1>1. PICK q, b, n, s : q = p - 1 /\ b = p - 2 /\ n = mem[q].size /\ s = mem[b].size
    OBVIOUS
  <1>2. /\ q \in DOMAIN ffHeld /\ b = q - 1 /\ b \in starts /\ q \in FF!Cells /\ q \in Nat
        /\ mem \in [FF!Cells -> Readings]
    BY <1>1, HeldLiesNow DEF HeldLies, FirstFitInv
  <1>3. /\ b \in Nat /\ q = b + 1 /\ p = b + 2 /\ s \in Nat /\ s >= 3
        /\ n \in Nat /\ n + 24 <= (s - 2) * 16
    <2>1. b \in Nat /\ s \in Nat /\ s >= 3
      BY <1>1, <1>2, FirstFitShape
    <2>2. n \in Nat
      BY <1>1, <1>2 DEF Readings
    <2>3. n + 24 <= (s - 2) * 16
      BY <1>1, <1>2 DEF FirstFitGuards, GuardTotal
    <2> QED
      BY <1>1, <2>1, <2>2, <2>3
  <1>4. PICK k : k = CellsOf(n)
    OBVIOUS
  <1>5. k \in Nat /\ k <= s - 3
    BY <1>3, <1>4, PoisonFits
  <1>6. Poisoned(p, mem[p - 1].size) = p .. p + k - 1
    BY <1>1, <1>4 DEF Poisoned
  <1>7. PICK last : last = p + k - 1
    OBVIOUS
  <1>8. last \in Int /\ last <= b + s - 2 /\ b + s - 1 \in Nat
    BY <1>3, <1>5, <1>7
  <1>9. Data \in Readings /\ Data.tag = "DATA"
    BY DEF Data, Readings, CellTags
  <1>10. Freed(mem[q]) \in Readings /\ Freed(mem[q]).tag = "FREED"
    <2>1. mem[q] \in Readings
      BY <1>2
    <2> QED
      BY <2>1 DEF Freed, Readings, CellTags
  <1>11. \A c \in FF!Cells : Marked(p)[c] = IF c \in p .. last THEN Data
                                            ELSE IF c = q THEN Freed(mem[q]) ELSE mem[c]
    BY <1>1, <1>6, <1>7 DEF Marked
  <1>12. Marked(p) \in [FF!Cells -> Readings]
    <2>1. \A c \in FF!Cells : Marked(p)[c] \in Readings
      BY <1>2, <1>9, <1>10, <1>11
    <2> QED
      BY <2>1 DEF Marked
  <1>13. q \notin p .. last
    BY <1>3, <1>8
  <1>14. \A c \in FF!Cells : c <= b \/ b + s - 1 <= c => c \notin p .. last /\ c # q
    <2>1. FF!Cells \subseteq Nat
      BY SameStrategy
    <2> QED
      BY <1>3, <1>8, <2>1
  <1>15. Outside(Marked(p), b)
    BY <1>1, <1>11, <1>14 DEF Outside
  <1> QED
    BY <1>1, <1>2, <1>9, <1>10, <1>11, <1>12, <1>13, <1>15

(* nsh_free in the first-fit arena. *)
LEMMA FirstFitReleaseKeeps ==
    ASSUME FirstFitState, NEW p \in Nat, p - 1 \in DOMAIN ffHeld, FirstFitRelease(p)
    PROVE  /\ FirstFitState'
           /\ DOMAIN ffHeld' = DOMAIN ffHeld \ {p - 1}
           /\ \A q \in DOMAIN ffHeld : q # p - 1 => mem'[q] = mem[q]
  <1>1. PICK q, b, m : q = p - 1 /\ b = p - 2 /\ m = Marked(p)
    OBVIOUS
  <1>2. /\ q \in DOMAIN ffHeld /\ b = q - 1 /\ b \in starts /\ q \in FF!Cells /\ q \in Nat
        /\ q = b + 1 /\ mem[b].tag = "USED" /\ mem[b].size \in Nat /\ mem[b].size >= 3 /\ b \in Nat
        /\ b \in FF!Cells
    <2>1. q \in DOMAIN ffHeld /\ b = q - 1
      BY <1>1
    <2>2. /\ b \in starts /\ q \in FF!Cells /\ q \in Nat /\ q = b + 1 /\ mem[b].tag = "USED"
      BY <2>1, HeldLiesNow DEF HeldLies, FirstFitState
    <2>3. mem[b].size \in Nat /\ mem[b].size >= 3 /\ b \in Nat /\ b \in FF!Cells
      BY <2>2, FirstFitShape DEF FirstFitState
    <2> QED
      BY <2>1, <2>2, <2>3
  <1>3. /\ m \in [FF!Cells -> Readings] /\ Outside(m, b) /\ m[q].tag = "FREED"
        /\ \A c \in FF!Cells : (m[c] = mem[c] /\ c # q) \/ m[c].tag \in {"DATA", "FREED"}
    BY <1>1, MarkedIs DEF FirstFitState
  <1>4. /\ mem' = FFWith(m)!MergedMem(q) /\ starts' = FFWith(m)!MergedStarts(q)
        /\ ffHeld' = FF!WithoutAsked(q) /\ spent' = spent \cup {p}
    BY <1>1 DEF FirstFitRelease, Marked
  <1>5. /\ FirstFitInv'
        /\ DOMAIN ffHeld' = DOMAIN ffHeld \ {q}
        /\ \A x \in DOMAIN ffHeld : x # q => ffHeld'[x] = ffHeld[x]
        /\ \A c \in FF!Cells : mem'[c] = m[c] \/ (mem'[c].tag = "FREE" /\ Edge(c))
        /\ \A c \in starts : c # b /\ mem[c].tag = "USED" => mem'[c] = mem[c]
        /\ \A c \in starts : c = b \/ mem[c].tag = "FREE" =>
              \E d \in starts' : /\ mem'[d].tag = "FREE" /\ d <= c
                                 /\ c + mem[c].size <= d + mem'[d].size
    <2>1. FirstFitInv
      BY DEF FirstFitState
    <2>2. Merged(q, m)
      BY <1>2, <1>3, <1>4, <2>1, FirstFitReleases
    <2> QED
      BY <1>2, <2>2 DEF Merged
  \* the payload of another block is neither poisoned nor tagged
  <1>6. ASSUME NEW x \in DOMAIN ffHeld, x # q
        PROVE  mem'[x] = mem[x] /\ mem'[x - 1] = mem[x - 1]
    <2>1. PICK d : d = x - 1
      OBVIOUS
    <2>2. d \in starts /\ mem[d].tag = "USED" /\ x = d + 1 /\ x \in FF!Cells /\ x \in Nat
      BY <2>1, HeldLiesNow DEF HeldLies, FirstFitState
    <2>3. d \in Nat /\ mem[d].size \in Nat /\ mem[d].size >= 3 /\ d # b
      BY <1>2, <1>6, <2>2, FirstFitShape DEF FirstFitState
    <2>4. ~Edge(x)
      BY <2>2, <2>3, NoEdgeInside DEF FirstFitState
    <2>5. x <= b \/ b + mem[b].size - 1 <= x
      <3>1. d + mem[d].size <= b \/ b + mem[b].size <= d
        BY <1>2, <2>2, <2>3, FirstFitShape DEF FirstFitState
      <3> QED
        BY <1>2, <2>2, <2>3, <3>1
    <2>6. mem'[x] = mem[x]
      BY <1>3, <1>5, <2>2, <2>4, <2>5 DEF Outside
    <2>7. mem'[d] = mem[d]
      BY <1>5, <2>2, <2>3
    <2> QED
      BY <2>1, <2>6, <2>7
  <1>7. FirstFitGuards'
    <2>1. ASSUME NEW x \in DOMAIN ffHeld'
          PROVE  /\ mem'[x].tag \in {"HEAD", "SCAR"} /\ mem'[x].size \in Amounts
                 /\ mem'[x].size + GuardTotal <= (mem'[x - 1].size - 2) * 16
      BY <1>5, <1>6 DEF FirstFitState, FirstFitGuards
    <2>2. ASSUME NEW c \in FF!Cells, mem'[c].tag \in {"HEAD", "SCAR"}
          PROVE  c \in DOMAIN ffHeld'
      <3>1. mem'[c] = m[c]
        BY <1>5, <2>2
      <3>2. m[c] = mem[c] /\ c # q
        BY <1>3, <2>2, <3>1
      <3> QED
        BY <1>5, <2>2, <3>1, <3>2 DEF FirstFitState, FirstFitGuards
    <2> QED
      BY <2>1, <2>2 DEF FirstFitGuards
  \* a mark inside a free block stays, and the block around it only grows
  <1>8. ASSUME NEW c \in FF!Cells, NEW d \in starts, Inside(c, d), m[c].tag = "FREED",
               d = b \/ mem[d].tag = "FREE"
        PROVE  mem'[c].tag = "FREED" /\ \E e \in starts' : mem'[e].tag = "FREE" /\ Inside(c, e)'
    <2>1. c \in Nat /\ d \in Nat /\ mem[d].size \in Nat
      BY SameStrategy, FirstFitShape DEF FirstFitState
    <2>2. ~Edge(c)
      BY <1>8, <2>1, NoEdgeInside DEF Inside, FirstFitState
    <2>3. mem'[c] = m[c]
      BY <1>5, <2>2
    <2>4. PICK e \in starts' : /\ mem'[e].tag = "FREE" /\ e <= d
                               /\ d + mem[d].size <= e + mem'[e].size
      BY <1>5, <1>8
    <2>5. e \in Nat /\ mem'[e].size \in Nat
      BY <1>5, <2>4, SizesLater
    <2>6. Inside(c, e)'
      BY <1>8, <2>1, <2>4, <2>5 DEF Inside
    <2> QED
      BY <1>8, <2>3, <2>4, <2>6
  <1>9. MarksBuried'
    <2> SUFFICES ASSUME NEW x \in spent'
                 PROVE  /\ x \in Nat /\ x - 1 \in FF!Cells /\ mem'[x - 1].tag = "FREED"
                        /\ \E e \in starts' : mem'[e].tag = "FREE" /\ Inside(x - 1, e)'
      BY DEF MarksBuried, Inside
    <2>1. CASE x = p
      <3>1. Inside(q, b)
        BY <1>2 DEF Inside
      <3> QED
        BY <1>1, <1>2, <1>3, <1>8, <2>1, <3>1
    <2>2. CASE x \in spent
      <3>1. PICK c : c = x - 1
        OBVIOUS
      <3>2. x \in Nat /\ c \in FF!Cells /\ mem[c].tag = "FREED"
            /\ \E d \in starts : mem[d].tag = "FREE" /\ Inside(c, d)
        BY <2>2, <3>1 DEF FirstFitState, MarksBuried
      <3>3. PICK d \in starts : mem[d].tag = "FREE" /\ Inside(c, d)
        BY <3>2
      <3>4. c \in Nat /\ d \in Nat /\ mem[d].size \in Nat /\ d # b
        <4>1. c \in Nat
          BY <3>2, SameStrategy
        <4>2. d \in Nat /\ mem[d].size \in Nat
          BY FirstFitShape DEF FirstFitState
        <4> QED
          BY <1>2, <3>3, <4>1, <4>2
      <3>5. c <= b \/ b + mem[b].size - 1 <= c
        <4>1. d + mem[d].size <= b \/ b + mem[b].size <= d
          BY <1>2, <3>4, FirstFitShape DEF FirstFitState
        <4> QED
          BY <1>2, <3>3, <3>4, <4>1 DEF Inside
      <3>6. m[c].tag = "FREED"
        BY <1>3, <3>2, <3>5 DEF Outside
      <3> QED
        BY <1>8, <3>1, <3>2, <3>3, <3>6
    <2> QED
      BY <1>4, <2>1, <2>2
  <1> QED
    BY <1>1, <1>5, <1>6, <1>7, <1>9 DEF FirstFitState

(* guard_write of nsh_realloc in place, and a byte below a block: only the *)
(* guard of that block changes.                                            *)
LEMMA GuardRewritten ==
    ASSUME FirstFitState, NEW q \in DOMAIN ffHeld, NEW g \in Readings,
           g.tag \in {"HEAD", "SCAR"}, g.size \in Amounts,
           g.size + GuardTotal <= (mem[q - 1].size - 2) * 16,
           mem' = [mem EXCEPT ![q] = g], UNCHANGED <<starts, ffHeld, spent>>
    PROVE  FirstFitState' /\ mem'[q] = g /\ \A c \in FF!Cells : c # q => mem'[c] = mem[c]
  <1>1. /\ q \in FF!Cells /\ q \in Nat /\ q - 1 \in starts /\ mem \in [FF!Cells -> Readings]
        /\ mem[q].tag \in {"HEAD", "SCAR"} /\ FFP!IInv
    BY HeldLiesNow DEF HeldLies, FirstFitState, FirstFitInv, FirstFitGuards
  <1>2. mem' \in [FF!Cells -> Readings] /\ mem'[q] = g
    BY <1>1
  <1>3. \A c \in FF!Cells : c # q => mem'[c] = mem[c]
    BY <1>1
  <1>4. View' = View
    <2>1. \A c \in FF!Cells : (IF mem'[c].tag \in {"USED", "FREE"} THEN mem'[c] ELSE FF!Data)
                              = (IF mem[c].tag \in {"USED", "FREE"} THEN mem[c] ELSE FF!Data)
      BY <1>1, <1>2, <1>3
    <2> QED
      BY <2>1, Zenon DEF View, Scrub
  <1>5. FFP!IInv'
    BY <1>1, <1>4 DEF FFP!IInv, FFP!TypeOK, FFP!BoundaryTags, FFP!Tiled, FFP!Coalesced,
       FFP!HeldBlocks, FFP!End, FFP!UsableSize
  <1>6. \A p \in DOMAIN ffHeld : p \in FF!Cells /\ p - 1 \in FF!Cells /\ p - 1 # q
    <2> SUFFICES ASSUME NEW p \in DOMAIN ffHeld PROVE p \in FF!Cells /\ p - 1 \in FF!Cells /\ p - 1 # q
      OBVIOUS
    <2>1. p \in FF!Cells /\ p - 1 \in starts
      BY HeldLiesNow DEF HeldLies, FirstFitState
    <2>2. p - 1 \in FF!Cells /\ mem[p - 1].tag \in {"USED", "FREE"}
      BY <2>1, FirstFitShape DEF FirstFitState
    <2> QED
      BY <1>1, <2>1, <2>2
  <1>7. FirstFitGuards'
    <2>1. ASSUME NEW x \in DOMAIN ffHeld'
          PROVE  /\ mem'[x].tag \in {"HEAD", "SCAR"} /\ mem'[x].size \in Amounts
                 /\ mem'[x].size + GuardTotal <= (mem'[x - 1].size - 2) * 16
      <3>1. mem'[x - 1] = mem[x - 1]
        BY <1>3, <1>6
      <3>2. CASE x = q
        BY <1>2, <3>1, <3>2
      <3>3. CASE x # q
        BY <1>3, <1>6, <3>1, <3>3 DEF FirstFitState, FirstFitGuards
      <3> QED
        BY <3>2, <3>3
    <2>2. \A c \in FF!Cells : mem'[c].tag \in {"HEAD", "SCAR"} => c \in DOMAIN ffHeld'
      BY <1>3 DEF FirstFitState, FirstFitGuards
    <2> QED
      BY <2>1, <2>2 DEF FirstFitGuards
  <1>8. MarksBuried'
    <2>1. \A d \in starts : d \in FF!Cells /\ mem'[d] = mem[d]
      <3> SUFFICES ASSUME NEW d \in starts PROVE d \in FF!Cells /\ mem'[d] = mem[d]
        OBVIOUS
      <3>1. d \in FF!Cells /\ mem[d].tag \in {"USED", "FREE"}
        BY FirstFitShape DEF FirstFitState
      <3> QED
        BY <1>1, <1>3, <3>1
    <2>2. \A p \in spent : p - 1 # q
      BY <1>1 DEF FirstFitState, MarksBuried
    <2> SUFFICES ASSUME NEW x \in spent
                 PROVE  /\ x \in Nat /\ x - 1 \in FF!Cells /\ mem'[x - 1].tag = "FREED"
                        /\ \E e \in starts : mem'[e].tag = "FREE" /\ Inside(x - 1, e)'
      BY DEF MarksBuried, Inside
    <2>3. /\ x \in Nat /\ x - 1 \in FF!Cells /\ mem[x - 1].tag = "FREED"
      BY DEF FirstFitState, MarksBuried
    <2>4. PICK d \in starts : mem[d].tag = "FREE" /\ Inside(x - 1, d)
      BY DEF FirstFitState, MarksBuried
    <2>5. mem'[d].tag = "FREE" /\ Inside(x - 1, d)'
      BY <2>1, <2>4 DEF Inside
    <2> QED
      BY <1>3, <2>2, <2>3, <2>5
  <1> QED
    BY <1>2, <1>3, <1>5, <1>7, <1>8 DEF FirstFitState, FirstFitInv

LEMMA FirstFitStays ==
    ASSUME FirstFitState, UNCHANGED <<mem, starts, ffHeld, spent>>
    PROVE  FirstFitState'
  <1>1. View' = View
    BY DEF View, Scrub
  <1>2. FFP!IInv'
    BY <1>1 DEF FirstFitState, FirstFitInv, FFP!IInv, FFP!TypeOK, FFP!BoundaryTags, FFP!Tiled,
       FFP!Coalesced, FFP!HeldBlocks, FFP!End, FFP!UsableSize
  <1> QED
    BY <1>2 DEF FirstFitState, FirstFitInv, FirstFitGuards, MarksBuried, Inside

LEMMA FirstFitInit ==
    ASSUME Init
    PROVE  FirstFitState
  <1>1. /\ starts = IF FF!HeapEnd = 0 THEN {} ELSE {0}
        /\ mem = IF FF!HeapEnd = 0 THEN FF!Blank ELSE FF!Mark(FF!Blank, 0, FF!HeapEnd, "FREE")
        /\ ffHeld = [p \in {} |-> 0] /\ spent = {}
    BY DEF Init, FF!Init
  <1>2. FF!HeapEnd \in Nat /\ FF!Cells = 0 .. FF!HeapEnd - 1
    BY SameStrategy
  <1>3. /\ FF!Blank \in [FF!Cells -> Readings]
        /\ \A c \in FF!Cells : FF!Blank[c] = FF!Data /\ FF!Data.tag = "DATA"
    BY DEF FF!Blank, FF!Data, Readings, CellTags
  <1>4. Scrub(FF!Blank) = FF!Blank
    <2>1. \A c \in FF!Cells : (IF FF!Blank[c].tag \in {"USED", "FREE"} THEN FF!Blank[c] ELSE FF!Data)
                              = FF!Data
      BY <1>3
    <2> QED
      BY <2>1, Zenon DEF Scrub, FF!Blank
  <1>5. FFP!Blank = FF!Blank
    BY SameStrategy DEF FFP!Blank, FF!Blank
  <1>6. CASE FF!HeapEnd = 0
    <2>1. View = FF!Blank /\ mem = FF!Blank
      BY <1>1, <1>4, <1>6 DEF View
    <2>2. FFP!Init
      BY <1>1, <1>5, <1>6, <2>1, SameStrategy DEF FFP!Init
    <2> QED
      BY <1>1, <1>2, <1>3, <1>6, <2>1, <2>2, Assumed, FFP!InitInv
         DEF FirstFitState, FirstFitInv, FirstFitGuards, MarksBuried
  <1>7. CASE FF!HeapEnd # 0
    <2>1. PICK h : h = FF!HeapEnd
      OBVIOUS
    <2>2. h \in Nat /\ h # 0 /\ 0 \in FF!Cells /\ h - 1 \in FF!Cells /\ h - 1 = 0 + h - 1
      BY <1>2, <1>7, <2>1
    <2>3. mem = FF!Mark(FF!Blank, 0, h, "FREE")
      BY <1>1, <1>7, <2>1
    <2>4. /\ FF!Mark(FF!Blank, 0, h, "FREE") \in [FF!Cells -> Readings]
          /\ Scrub(FF!Mark(FF!Blank, 0, h, "FREE")) = FF!Mark(Scrub(FF!Blank), 0, h, "FREE")
      BY <1>3, <2>2, ScrubMark
    <2>5. FFP!Init
      BY <1>1, <1>4, <1>5, <1>7, <2>1, <2>3, <2>4, SameStrategy, SameMark DEF FFP!Init, View
    <2>6. \A c \in FF!Cells : mem[c] = IF c = 0 \/ c = h - 1 THEN Pair(h, "FREE") ELSE FF!Blank[c]
      BY <1>3, <2>2, <2>3, MarkIs
    <2>7. \A c \in FF!Cells : mem[c].tag \in {"FREE", "DATA"}
      BY <1>3, <2>6 DEF Pair
    <2>8. FirstFitGuards /\ MarksBuried
      BY <1>1, <2>7 DEF FirstFitGuards, MarksBuried
    <2> QED
      BY <2>3, <2>4, <2>5, <2>8, Assumed, FFP!InitInv DEF FirstFitState, FirstFitInv
  <1> QED
    BY <1>6, <1>7

-----------------------------------------------------------------------------
(* The buddy arena.                                                        *)
\* both instances of the buddy system compute the same
LEMMA SameBuddy ==
    /\ BDP!ArenaAssumption /\ BDP!BuddyRequestAssumption
    /\ BDP!Offsets = BD!Offsets /\ BDP!Orders = BD!Orders /\ BDP!ArenaSize = BD!ArenaSize
    /\ BDP!FreeOffs = BD!FreeOffs /\ BDP!FreeOffs' = BD!FreeOffs'
    /\ BDP!Header = 16 /\ BD!Header = 16 /\ BDP!NoHeader = BD!NoHeader
    /\ \A n : BDP!OrderOf(n) = BD!OrderOf(n) /\ BDP!UsedHeader(n) = BD!UsedHeader(n)
    /\ \A o : BDP!BuddyUsableSize(o) = BD!BuddyUsableSize(o)
  <1>1. BDP!ArenaAssumption
    BY ArenaAssumption, Zenon DEF BDP!ArenaAssumption, BD!ArenaAssumption,
       BDP!MinOrder, BD!MinOrder
  <1>2. BDP!BuddyRequestAssumption
    BY ArenaAssumption DEF BDP!BuddyRequestAssumption
  <1>3. BDP!Offsets = BD!Offsets /\ BDP!Orders = BD!Orders /\ BDP!ArenaSize = BD!ArenaSize
    BY Zenon DEF BDP!Offsets, BD!Offsets, BDP!Orders, BD!Orders, BDP!ArenaSize,
       BD!ArenaSize, BDP!MinOrder, BD!MinOrder, BDP!MaxOrder, BD!MaxOrder
  <1>4. BDP!FreeOffs = BD!FreeOffs /\ BDP!FreeOffs' = BD!FreeOffs'
    BY Zenon DEF BDP!FreeOffs, BD!FreeOffs, BDP!OnList, BD!OnList, BDP!Orders,
       BD!Orders, BDP!MinOrder, BD!MinOrder, BDP!MaxOrder, BD!MaxOrder, BDP!Range,
       BD!Range
  <1>5. BDP!Header = 16 /\ BD!Header = 16 /\ BDP!NoHeader = BD!NoHeader
    BY Zenon DEF BDP!Header, BD!Header, BDP!NoHeader, BD!NoHeader
  <1>6. \A n : BDP!OrderOf(n) = BD!OrderOf(n) /\ BDP!UsedHeader(n) = BD!UsedHeader(n)
    BY Zenon DEF BDP!OrderOf, BD!OrderOf, BDP!MinOrder, BD!MinOrder, BDP!UsedHeader,
       BD!UsedHeader
  <1>7. \A o : BDP!BuddyUsableSize(o) = BD!BuddyUsableSize(o)
    BY Zenon DEF BDP!BuddyUsableSize, BD!BuddyUsableSize, BDP!Header, BD!Header
  <1> QED
    BY <1>1, <1>2, <1>3, <1>4, <1>5, <1>6, <1>7

LEMMA SameAlloc ==
    ASSUME NEW size, NEW k
    PROVE  BD!BuddyAlloc(size, k) <=> BDP!BuddyAlloc(size, k)
  BY Zenon DEF BDP!BuddyAlloc, BD!BuddyAlloc, BDP!ServedFrom, BD!ServedFrom,
       BDP!CountAlloc, BD!CountAlloc, BDP!OrderOf, BD!OrderOf, BDP!FreeHeader,
       BD!FreeHeader, BDP!UsedHeader, BD!UsedHeader, BDP!MinOrder, BD!MinOrder,
       BDP!MaxOrder, BD!MaxOrder, BDP!Orders, BD!Orders, BDP!Offsets, BD!Offsets,
       BDP!Header, BD!Header, BDP!ArenaSize, BD!ArenaSize

LEMMA SameFree ==
    ASSUME NEW off
    PROVE  BD!BuddyFreeBlock(off) <=> BDP!BuddyFreeBlock(off)
  BY Zenon DEF BDP!BuddyFreeBlock, BD!BuddyFreeBlock, BDP!Mergeable, BD!Mergeable,
       BDP!Base, BD!Base, BDP!Flip, BD!Flip, BDP!CountFree, BD!CountFree,
       BDP!FreeHeader, BD!FreeHeader, BDP!RemoveFirst, BD!RemoveFirst, BDP!RemoveAt,
       BD!RemoveAt, BDP!SelectInSeq, BD!SelectInSeq, BDP!Min, BD!Min, BDP!MinOrder,
       BD!MinOrder, BDP!MaxOrder, BD!MaxOrder, BDP!Orders, BD!Orders, BDP!Offsets,
       BD!Offsets, BDP!RegionOff, BD!RegionOff

\* the invariant is about these four variables
LEMMA BuddyInvStays ==
    ASSUME BDP!BuddyInv, UNCHANGED <<hdr, lists, count, bdHeld>>
    PROVE  BDP!BuddyInv'
  BY BDP!NextInv, SameBuddy DEF BDP!buddyvars

LEMMA SameBuddyInit == BD!BuddyInit => BDP!BuddyInit
  BY Zenon DEF BDP!BuddyInit, BD!BuddyInit, BDP!Seeds, BD!Seeds, BDP!FreeHeader,
       BD!FreeHeader, BDP!NoHeader, BD!NoHeader, BDP!MinOrder, BD!MinOrder,
       BDP!MaxOrder, BD!MaxOrder, BDP!Orders, BD!Orders, BDP!Offsets, BD!Offsets,
       BDP!ArenaSize, BD!ArenaSize, BDP!RegionOff, BD!RegionOff, BDP!Cardinality,
       BD!Cardinality, BDP!IsFiniteSet, BD!IsFiniteSet

-----------------------------------------------------------------------------
(* Guards in the buddy arena.                                              *)
WordReadings == [size : Nat, tag : {"DATA", "LINKS", "HEAD", "FREED", "SCAR"}]

(* As in the first-fit arena: each block handed out has its guard behind   *)
(* the strategy's header, payload and canary fit, nothing else reads as a  *)
(* guard.                                                                  *)
BuddyGuards ==
    /\ word \in [WordCells -> WordReadings]
    /\ \A o \in DOMAIN bdHeld :
          /\ word[GuardCell(o)].tag \in {"HEAD", "SCAR"} /\ word[GuardCell(o)].size \in Amounts
          /\ word[GuardCell(o)].size + GuardTotal <= BD!BuddyUsableSize(o)
    /\ \A c \in WordCells : word[c].tag \in {"HEAD", "SCAR"} =>
                                \E o \in DOMAIN bdHeld : c = GuardCell(o)

BuddyState == BDP!BuddyInv /\ BuddyGuards

\* the cell with the guard of a block, and back
LEMMA WordCellIs ==
    /\ \A o \in BD!Offsets : /\ o \in Nat /\ GuardCell(o) \in WordCells /\ GuardCell(o) \in Nat
                             /\ GuardCell(o) >= 1 /\ (GuardCell(o) - 1) * 16 = o
                             /\ Payload(o) - 1 = GuardCell(o) /\ Payload(o) = GuardCell(o) + 1
                             /\ OffsetOf(Payload(o)) = o
    /\ \A c \in WordCells : c \in Nat /\ (c - 1) * 16 \in BD!Offsets /\ GuardCell((c - 1) * 16) = c
    /\ Unit = 16
  <1>1. BDP!ArenaAssumption /\ BDP!Offsets = BD!Offsets
    BY SameBuddy
  <1>2. ASSUME NEW o \in BD!Offsets
        PROVE  /\ o \in Nat /\ o \div 16 \in Nat /\ (o \div 16) * 16 = o
    <2>1. /\ o \in Nat /\ BDP!Payload(o) \in Nat /\ (BDP!Payload(o) - 1) * BDP!BuddyUnit = o
      BY <1>1, BDP!InUnits
    <2>2. BDP!Payload(o) = o \div 16 + 1 /\ BDP!BuddyUnit = 16
      BY DEF BDP!Payload, BDP!BuddyUnit
    <2>3. o \div 16 \in Nat
      BY <2>1
    <2> QED
      BY <2>1, <2>2, <2>3
  <1>3. \A o \in BD!Offsets : /\ o \in Nat /\ GuardCell(o) \in WordCells /\ GuardCell(o) \in Nat
                             /\ GuardCell(o) >= 1 /\ (GuardCell(o) - 1) * 16 = o
                             /\ Payload(o) - 1 = GuardCell(o) /\ Payload(o) = GuardCell(o) + 1
                             /\ OffsetOf(Payload(o)) = o
    <2> TAKE o \in BD!Offsets
    <2>1. GuardCell(o) = o \div 16 + 1 /\ GuardCell(o) \in WordCells
      BY DEF GuardCell, Unit, WordCells
    <2> QED
      BY <1>2, <2>1 DEF Payload, OffsetOf, Unit
  <1>4. \A c \in WordCells : c \in Nat /\ (c - 1) * 16 \in BD!Offsets /\ GuardCell((c - 1) * 16) = c
    <2> TAKE c \in WordCells
    <2>1. PICK o \in BD!Offsets : c = GuardCell(o)
      BY DEF WordCells
    <2> QED
      BY <1>3, <2>1
  <1> QED
    BY <1>3, <1>4 DEF Unit

\* what a held block looks like
BuddyLies ==
    /\ DOMAIN bdHeld \subseteq BD!Offsets
    /\ \A o \in DOMAIN bdHeld :
          /\ o \in BD!Offsets /\ o \in Nat /\ hdr[o].order \in Nat /\ 2^hdr[o].order \in Nat
          /\ hdr[o].order \in BD!Orders
          /\ BD!BuddyUsableSize(o) = 2^hdr[o].order - 16
          /\ o \notin BD!FreeOffs
          /\ bdHeld[o] \in Nat /\ bdHeld[o] <= 2^hdr[o].order - 16
    /\ \A a, b \in DOMAIN bdHeld : a # b => a + 2^hdr[a].order <= b \/ b + 2^hdr[b].order <= a
    /\ IsFiniteSet(DOMAIN bdHeld)

LEMMA BuddyLiesNow == BDP!BuddyInv => BuddyLies
  <1> SUFFICES ASSUME BDP!BuddyInv PROVE BuddyLies
    OBVIOUS
  <1>1. /\ BDP!ArenaAssumption /\ BDP!Offsets = BD!Offsets /\ BDP!Orders = BD!Orders
        /\ BDP!FreeOffs = BD!FreeOffs /\ BDP!Header = 16
    BY SameBuddy
  <1>2. /\ BDP!ListsOk /\ BDP!HeldOk
        /\ BDP!Tiles(BDP!Ord, BDP!FreeOffs \cup DOMAIN bdHeld)
    BY DEF BDP!BuddyInv
  <1>3. /\ BDP!FreeOffs \cap DOMAIN bdHeld = {} /\ IsFiniteSet(DOMAIN bdHeld)
        /\ \A o \in DOMAIN bdHeld : BDP!Ord[o] = hdr[o].order
    <2>1. /\ BDP!FreeOffs \cap DOMAIN bdHeld = {} /\ BDP!IsFiniteSet(DOMAIN bdHeld)
          /\ \A o \in DOMAIN bdHeld : BDP!Ord[o] = hdr[o].order
      BY <1>1, <1>2, BDP!FreeIs
    <2>2. IsFiniteSet(DOMAIN bdHeld)
      BY <2>1, Zenon DEF BDP!IsFiniteSet, IsFiniteSet
    <2> QED
      BY <2>1, <2>2
  <1>4. PICK B : B = BDP!FreeOffs \cup DOMAIN bdHeld
    OBVIOUS
  <1>5. BDP!Tiles(BDP!Ord, B) /\ DOMAIN bdHeld \subseteq B
    BY <1>2, <1>4
  <1>6. ASSUME NEW o \in DOMAIN bdHeld
        PROVE  /\ o \in BD!Offsets /\ o \in Nat /\ hdr[o].order \in Nat /\ 2^hdr[o].order \in Nat
               /\ hdr[o].order \in BD!Orders
               /\ BD!BuddyUsableSize(o) = 2^hdr[o].order - 16
               /\ o \notin BD!FreeOffs
               /\ bdHeld[o] \in Nat /\ bdHeld[o] <= 2^hdr[o].order - 16
    <2>1. /\ o \in Nat /\ o \in BDP!Offsets /\ BDP!Ord[o] \in Nat /\ BDP!Ord[o] \in BDP!Orders
      BY <1>1, <1>5, BDP!TileFits
    <2>2. hdr[o].order \in Nat
      BY <1>3, <2>1
    <2>3. 2^hdr[o].order \in Nat
      BY <2>2, BDP!PowerType
    <2>4. BD!BuddyUsableSize(o) = 2^hdr[o].order - 16
      BY DEF BD!BuddyUsableSize, BD!Header
    <2>5. bdHeld[o] \in Nat /\ bdHeld[o] <= 2^hdr[o].order - 16
      BY <1>1, <1>2 DEF BDP!HeldOk
    <2> QED
      BY <1>1, <1>3, <2>1, <2>2, <2>3, <2>4, <2>5
  <1>7. ASSUME NEW a \in DOMAIN bdHeld, NEW b \in DOMAIN bdHeld, a # b
        PROVE  a + 2^hdr[a].order <= b \/ b + 2^hdr[b].order <= a
    <2>1. a + 2^BDP!Ord[a] <= b \/ b + 2^BDP!Ord[b] <= a
      BY <1>1, <1>5, <1>7, BDP!TilesApart
    <2> QED
      BY <1>3, <2>1
  <1> QED
    BY <1>3, <1>6, <1>7 DEF BuddyLies

LEMMA BuddyLiesLater == BDP!BuddyInv' => BuddyLies'
  BY BuddyLiesNow, PTL

LEMMA WordReadingsAre ==
    /\ Data \in WordReadings /\ Links \in WordReadings /\ Data.tag = "DATA" /\ Links.tag = "LINKS"
    /\ \A n \in Nat : Guard(n) \in WordReadings /\ Guard(n).tag = "HEAD" /\ Guard(n).size = n
    /\ \A g \in WordReadings : Freed(g) \in WordReadings /\ Freed(g).tag = "FREED"
  <1>1. \A n \in Nat : Guard(n) \in WordReadings /\ Guard(n).tag = "HEAD" /\ Guard(n).size = n
    BY DEF Guard, WordReadings
  <1>2. \A g \in WordReadings : Freed(g) \in WordReadings /\ Freed(g).tag = "FREED"
    BY DEF Freed, WordReadings
  <1> QED
    BY <1>1, <1>2 DEF Data, Links, WordReadings

(* nsh_malloc in the buddy arena. *)
BuddyHandedOut(o, n) ==
    /\ BuddyState'
    /\ o \in BD!Offsets /\ o \notin DOMAIN bdHeld
    /\ DOMAIN bdHeld' = DOMAIN bdHeld \cup {o}
    /\ word'[GuardCell(o)] = Guard(n)
    /\ \A x \in DOMAIN bdHeld : word'[GuardCell(x)] = word[GuardCell(x)] /\ hdr'[x] = hdr[x]

LEMMA BuddyNewKeeps ==
    ASSUME BuddyState, NEW n \in Amounts, n + GuardTotal <= SizeMax, NEW p, BuddyNew(n, p)
    PROVE  \E o \in BD!Offsets : p = Payload(o) /\ BuddyHandedOut(o, n)
  <1>1. PICK size : size = n + GuardTotal
    OBVIOUS
  <1>2. n \in Nat /\ size \in 0 .. SizeMax /\ size = n + 24 /\ size \in Nat
    BY <1>1, AmountsAre, ArenaAssumption DEF GuardTotal
  <1>3. PICK k \in BD!Orders :
           /\ BD!BuddyAlloc(size, k)
           /\ p = Payload(Head(lists[k]))
           /\ word' = [c \in WordCells |->
                         IF c = p - 1 THEN Guard(n)
                         ELSE IF (c - 1) * Unit \in BD!FreeOffs' /\ (c - 1) * Unit \notin BD!FreeOffs
                         THEN Links
                         ELSE word[c]]
    BY <1>1, Zenon DEF BuddyNew
  <1>4. PICK off, want : off = Head(lists[k]) /\ want = BDP!OrderOf(size + BDP!Header)
    OBVIOUS
  <1>5. BDP!ArenaAssumption /\ BDP!BuddyRequestAssumption /\ BDP!BuddyInv /\ k \in BDP!Orders
        /\ BDP!BuddyAlloc(size, k) /\ BDP!Offsets = BD!Offsets
    BY <1>3, SameBuddy, SameAlloc DEF BuddyState
  <1>6. off \in BD!Offsets /\ off \notin DOMAIN bdHeld /\ size <= 2^want - 16
    <2>1. off \in BDP!Offsets /\ off \notin DOMAIN bdHeld /\ size <= 2^want - BDP!Header
      BY <1>2, <1>4, <1>5, BDP!AllocTakes
    <2> QED
      BY <1>5, <2>1, SameBuddy
  <1>7. /\ BDP!BuddyInv' /\ \A o \in DOMAIN bdHeld : hdr'[o] = hdr[o]
        /\ hdr'[off] = BDP!UsedHeader(want)
    BY <1>2, <1>4, <1>5, BDP!AllocInv
  <1>8. DOMAIN bdHeld' = DOMAIN bdHeld \cup {off}
    BY <1>3, <1>4 DEF BD!BuddyAlloc
  <1>9. p = Payload(off) /\ p - 1 = GuardCell(off) /\ GuardCell(off) \in WordCells
    BY <1>3, <1>4, <1>6, WordCellIs
  <1>10. \A c \in WordCells :
            word'[c] = IF c = GuardCell(off) THEN Guard(n)
                       ELSE IF (c - 1) * 16 \in BD!FreeOffs' /\ (c - 1) * 16 \notin BD!FreeOffs
                       THEN Links
                       ELSE word[c]
    BY <1>3, <1>9, WordCellIs
  <1>11. \A x \in DOMAIN bdHeld : word'[GuardCell(x)] = word[GuardCell(x)]
    <2> SUFFICES ASSUME NEW x \in DOMAIN bdHeld PROVE word'[GuardCell(x)] = word[GuardCell(x)]
      OBVIOUS
    <2>1. x \in BD!Offsets /\ x # off
      BY <1>5, <1>6, BuddyLiesNow DEF BuddyLies
    <2>2. GuardCell(x) \in WordCells /\ (GuardCell(x) - 1) * 16 = x /\ GuardCell(x) # GuardCell(off)
      BY <1>6, <2>1, WordCellIs
    <2>3. x \notin BD!FreeOffs'
      BY <1>7, <1>8, BuddyLiesLater DEF BuddyLies
    <2> QED
      BY <1>10, <2>2, <2>3
  <1>12. word'[GuardCell(off)] = Guard(n)
    BY <1>9, <1>10
  <1>13. word' \in [WordCells -> WordReadings]
    <2>1. \A c \in WordCells : word'[c] \in WordReadings
      BY <1>2, <1>10, WordReadingsAre DEF BuddyState, BuddyGuards
    <2> QED
      BY <1>3, <2>1
  <1>14. ASSUME NEW o \in DOMAIN bdHeld'
         PROVE  /\ word'[GuardCell(o)].tag \in {"HEAD", "SCAR"} /\ word'[GuardCell(o)].size \in Amounts
                /\ word'[GuardCell(o)].size + GuardTotal <= BD!BuddyUsableSize(o)'
    <2>1. CASE o = off
      <3>1. word'[GuardCell(o)].tag = "HEAD" /\ word'[GuardCell(o)].size = n
        BY <1>2, <1>12, <2>1, WordReadingsAre
      <3>2. hdr'[o].order = want
        BY <1>7, <2>1 DEF BDP!UsedHeader
      <3>3. BD!BuddyUsableSize(o)' = 2^want - 16
        BY <3>2 DEF BD!BuddyUsableSize, BD!Header
      <3> QED
        BY <1>1, <1>6, <3>1, <3>3
    <2>2. CASE o \in DOMAIN bdHeld
      <3>1. BD!BuddyUsableSize(o)' = BD!BuddyUsableSize(o)
        BY <1>7, <2>2 DEF BD!BuddyUsableSize
      <3> QED
        BY <1>11, <2>2, <3>1 DEF BuddyState, BuddyGuards
    <2> QED
      BY <1>8, <2>1, <2>2
  <1>15. ASSUME NEW c \in WordCells, word'[c].tag \in {"HEAD", "SCAR"}
         PROVE  \E o \in DOMAIN bdHeld' : c = GuardCell(o)
    <2>1. CASE c = GuardCell(off)
      BY <1>8, <2>1
    <2>2. CASE c # GuardCell(off)
      <3>1. word'[c] = word[c]
        BY <1>10, <1>15, <2>2, WordReadingsAre
      <3> QED
        BY <1>8, <1>15, <3>1 DEF BuddyState, BuddyGuards
    <2> QED
      BY <2>1, <2>2
  <1>16. BuddyState'
    BY <1>7, <1>13, <1>14, <1>15 DEF BuddyState, BuddyGuards
  <1>17. BuddyHandedOut(off, n)
    BY <1>6, <1>7, <1>8, <1>11, <1>12, <1>16 DEF BuddyHandedOut
  <1> QED
    BY <1>6, <1>9, <1>17

(* nsh_free in the buddy arena. *)
LEMMA BuddyReleaseKeeps ==
    ASSUME BuddyState, NEW off \in DOMAIN bdHeld, NEW p, p = Payload(off), BuddyRelease(p)
    PROVE  /\ BuddyState'
           /\ DOMAIN bdHeld' = DOMAIN bdHeld \ {off}
           /\ \A x \in DOMAIN bdHeld : x # off => word'[GuardCell(x)] = word[GuardCell(x)]
                                                  /\ hdr'[x] = hdr[x]
  <1>1. PICK g, n, k : g = GuardCell(off) /\ n = word[g].size /\ k = CellsOf(n)
    OBVIOUS
  <1>2. /\ BDP!ArenaAssumption /\ BDP!BuddyInv /\ BuddyLies
        /\ word \in [WordCells -> WordReadings]
    BY SameBuddy, BuddyLiesNow DEF BuddyState, BuddyGuards
  <1>3. /\ off \in BD!Offsets /\ off \in Nat /\ g \in WordCells /\ g \in Nat /\ (g - 1) * 16 = off
        /\ p - 1 = g /\ p = g + 1 /\ OffsetOf(p) = off
    BY <1>1, <1>2, WordCellIs DEF BuddyLies
  <1>4. PICK s : s = 2^hdr[off].order
    OBVIOUS
  <1>5. s \in Nat /\ n \in Nat /\ n + 24 <= s - 16
    <2>1. s \in Nat /\ BD!BuddyUsableSize(off) = s - 16
      BY <1>2, <1>4 DEF BuddyLies
    <2>2. n \in Nat
      BY <1>1, <1>2, <1>3 DEF WordReadings
    <2>3. n + 24 <= BD!BuddyUsableSize(off)
      BY <1>1 DEF BuddyState, BuddyGuards, GuardTotal
    <2> QED
      BY <2>1, <2>2, <2>3
  <1>6. k \in Nat /\ 16 * k <= n + 15
    BY <1>1, <1>5 DEF CellsOf, Unit
  <1>7. BD!BuddyFreeBlock(off)
    BY <1>3 DEF BuddyRelease
  <1>8. BDP!BuddyFreeBlock(off)
    BY <1>7, SameFree
  <1>9. word' = [c \in WordCells |->
                  IF (c - 1) * Unit \in BD!FreeOffs' /\ (c - 1) * Unit \notin BD!FreeOffs
                  THEN Links
                  ELSE IF c \in Poisoned(p, word[p - 1].size) THEN Data
                  ELSE IF c = p - 1 THEN Freed(word[c])
                  ELSE word[c]]
    BY Zenon DEF BuddyRelease
  <1>10. Poisoned(p, word[p - 1].size) = p .. p + k - 1
    BY <1>1, <1>3 DEF Poisoned
  <1>11. \A c \in WordCells :
            word'[c] = IF (c - 1) * 16 \in BD!FreeOffs' /\ (c - 1) * 16 \notin BD!FreeOffs THEN Links
                       ELSE IF c \in p .. p + k - 1 THEN Data
                       ELSE IF c = g THEN Freed(word[g]) ELSE word[c]
    BY <1>3, <1>9, <1>10, WordCellIs
  <1>12. BDP!BuddyInv' /\ \A o \in DOMAIN bdHeld \ {off} : hdr'[o] = hdr[o]
    BY <1>2, <1>8, BDP!FreeInv
  <1>13. DOMAIN bdHeld' = DOMAIN bdHeld \ {off}
    BY <1>7 DEF BD!BuddyFreeBlock
  <1>14. BuddyLies'
    BY <1>12, BuddyLiesLater
  <1>15. ASSUME NEW x \in DOMAIN bdHeld, x # off
         PROVE  word'[GuardCell(x)] = word[GuardCell(x)]
    <2>1. PICK c : c = GuardCell(x)
      OBVIOUS
    <2>2. x \in BD!Offsets /\ c \in WordCells /\ c \in Nat /\ (c - 1) * 16 = x /\ x \in Nat
      BY <1>2, <2>1, WordCellIs DEF BuddyLies
    <2>3. x \notin BD!FreeOffs'
      BY <1>13, <1>14, <1>15 DEF BuddyLies
    <2>4. x + 2^hdr[x].order <= off \/ off + s <= x
      BY <1>2, <1>4, <1>15 DEF BuddyLies
    <2>5. 2^hdr[x].order \in Nat
      BY <1>2 DEF BuddyLies
    <2>6. c # g /\ c \notin p .. p + k - 1
      BY <1>3, <1>5, <1>6, <1>15, <2>2, <2>4, <2>5
    <2> QED
      BY <1>11, <2>1, <2>2, <2>3, <2>6
  <1>16. word' \in [WordCells -> WordReadings]
    <2>1. \A c \in WordCells : word'[c] \in WordReadings
      BY <1>2, <1>3, <1>11, WordReadingsAre
    <2> QED
      BY <1>9, <2>1
  <1>17. ASSUME NEW o \in DOMAIN bdHeld'
         PROVE  /\ word'[GuardCell(o)].tag \in {"HEAD", "SCAR"} /\ word'[GuardCell(o)].size \in Amounts
                /\ word'[GuardCell(o)].size + GuardTotal <= BD!BuddyUsableSize(o)'
    <2>1. o \in DOMAIN bdHeld /\ o # off
      BY <1>13
    <2>2. BD!BuddyUsableSize(o)' = BD!BuddyUsableSize(o)
      BY <1>12, <2>1 DEF BD!BuddyUsableSize
    <2> QED
      BY <1>15, <2>1, <2>2 DEF BuddyState, BuddyGuards
  <1>18. ASSUME NEW c \in WordCells, word'[c].tag \in {"HEAD", "SCAR"}
         PROVE  \E o \in DOMAIN bdHeld' : c = GuardCell(o)
    <2>1. word'[c] = word[c] /\ c # g
      BY <1>2, <1>3, <1>11, <1>18, WordReadingsAre
    <2>2. PICK o \in DOMAIN bdHeld : c = GuardCell(o)
      BY <1>18, <2>1 DEF BuddyState, BuddyGuards
    <2> QED
      BY <1>1, <1>13, <2>1, <2>2
  <1>19. BuddyState'
    BY <1>12, <1>16, <1>17, <1>18 DEF BuddyState, BuddyGuards
  <1> QED
    BY <1>12, <1>13, <1>15, <1>19

(* guard_write in place, and a byte below a block. *)
LEMMA BuddyGuardRewritten ==
    ASSUME BuddyState, NEW off \in DOMAIN bdHeld, NEW g \in WordReadings,
           g.tag \in {"HEAD", "SCAR"}, g.size \in Amounts,
           g.size + GuardTotal <= BD!BuddyUsableSize(off),
           word' = [word EXCEPT ![GuardCell(off)] = g], UNCHANGED <<hdr, lists, count, bdHeld>>
    PROVE  /\ BuddyState' /\ word'[GuardCell(off)] = g
           /\ \A c \in WordCells : c # GuardCell(off) => word'[c] = word[c]
  <1>1. /\ BDP!BuddyInv /\ word \in [WordCells -> WordReadings] /\ BuddyLies
        /\ GuardCell(off) \in WordCells
    BY BuddyLiesNow, WordCellIs DEF BuddyState, BuddyGuards, BuddyLies
  <1>2. word' \in [WordCells -> WordReadings] /\ word'[GuardCell(off)] = g
    BY <1>1
  <1>3. \A c \in WordCells : c # GuardCell(off) => word'[c] = word[c]
    BY <1>1
  <1>4. BDP!BuddyInv'
    BY <1>1, BuddyInvStays
  <1>5. ASSUME NEW o \in DOMAIN bdHeld
        PROVE  /\ word'[GuardCell(o)].tag \in {"HEAD", "SCAR"} /\ word'[GuardCell(o)].size \in Amounts
               /\ word'[GuardCell(o)].size + GuardTotal <= BD!BuddyUsableSize(o)'
    <2>1. GuardCell(o) \in WordCells
      BY <1>1, WordCellIs DEF BuddyLies
    <2>2. BD!BuddyUsableSize(o)' = BD!BuddyUsableSize(o)
      BY DEF BD!BuddyUsableSize
    <2>3. CASE GuardCell(o) = GuardCell(off)
      <3>1. o = off
        BY <1>1, <2>3, WordCellIs DEF BuddyLies
      <3> QED
        BY <1>2, <2>2, <3>1
    <2>4. CASE GuardCell(o) # GuardCell(off)
      BY <1>3, <2>1, <2>2, <2>4 DEF BuddyState, BuddyGuards
    <2> QED
      BY <2>3, <2>4
  <1>6. \A c \in WordCells : word'[c].tag \in {"HEAD", "SCAR"} => \E o \in DOMAIN bdHeld : c = GuardCell(o)
    BY <1>3 DEF BuddyState, BuddyGuards
  <1> QED
    BY <1>2, <1>3, <1>4, <1>5, <1>6 DEF BuddyState, BuddyGuards

LEMMA BuddyStays ==
    ASSUME BuddyState, UNCHANGED bdvars
    PROVE  BuddyState'
  <1>1. hdr' = hdr /\ lists' = lists /\ count' = count /\ bdHeld' = bdHeld /\ word' = word
    BY DEF bdvars
  <1>2. BDP!BuddyInv'
    BY <1>1, BuddyInvStays DEF BuddyState
  <1>3. \A o : BD!BuddyUsableSize(o)' = BD!BuddyUsableSize(o)
    BY <1>1 DEF BD!BuddyUsableSize
  <1> QED
    BY <1>1, <1>2, <1>3 DEF BuddyState, BuddyGuards

LEMMA BuddyStateInit ==
    ASSUME Init
    PROVE  BuddyState /\ DOMAIN bdHeld = {}
  <1>1. BD!BuddyInit
    BY DEF Init
  <1>2. BDP!BuddyInv
    BY <1>1, SameBuddy, SameBuddyInit, BDP!InitInv
  <1>3. DOMAIN bdHeld = {}
    BY <1>1 DEF BD!BuddyInit
  <1>4. \A c \in WordCells : word[c] \in {Data, Links}
    BY DEF Init
  <1>5. word \in [WordCells -> WordReadings]
    <2>1. word = [c \in WordCells |-> word[c]]
      BY DEF Init
    <2> QED
      BY <1>4, <2>1, WordReadingsAre
  <1>6. \A c \in WordCells : word[c].tag \notin {"HEAD", "SCAR"}
    BY <1>4, WordReadingsAre
  <1> QED
    BY <1>2, <1>3, <1>5, <1>6 DEF BuddyState, BuddyGuards

-----------------------------------------------------------------------------
(* Both arenas under one front end.                                        *)
LEMMA LiveIs ==
    \A a : a \in Live <=> \/ \E q \in DOMAIN ffHeld : a = <<"firstfit", q + 1>>
                          \/ \E o \in DOMAIN bdHeld : a = <<"buddy", Payload(o)>>
  BY DEF Live, Held, Slots

LEMMA LiveIsLater ==
    \A a : a \in Live' <=> \/ \E q \in DOMAIN ffHeld' : a = <<"firstfit", q + 1>>
                           \/ \E o \in DOMAIN bdHeld' : a = <<"buddy", Payload(o)>>
  BY DEF Live, Held, Slots

(* What is known of a live block: its guard reads as one, and records a    *)
(* size that fits.                                                         *)
GuardStands(a) ==
    /\ a \in Addresses /\ a[1] \in Slots /\ a[2] \in Nat
    /\ GuardAt(a).tag \in {"HEAD", "SCAR"} /\ GuardAt(a).size \in Amounts
    /\ UsableSize(a) \in Int /\ GuardAt(a).size + GuardTotal <= UsableSize(a)

AllGuardsStand == \A a \in Live : GuardStands(a)

LEMMA FirstFitBlock ==
    ASSUME FirstFitState, NEW q \in DOMAIN ffHeld, NEW a, a = <<"firstfit", q + 1>>
    PROVE  /\ GuardStands(a) /\ GuardAt(a) = mem[q] /\ a[2] - 1 = q /\ a[2] = q + 1 /\ a[2] \in Nat
           /\ a[1] = "firstfit"
           /\ UsableSize(a) = (mem[q - 1].size - 2) * 16 /\ q \in FF!Cells
  <1>1. a[1] = "firstfit" /\ a[2] = q + 1
    OBVIOUS
  <1>2. q \in FF!Cells /\ q \in Nat /\ a[2] - 1 = q
    BY <1>1, HeldLiesNow DEF FirstFitState, HeldLies
  <1>3. GuardAt(a) = mem[q]
    BY <1>1, <1>2 DEF GuardAt
  <1>4. UsableSize(a) = (mem[q - 1].size - 2) * 16
    BY <1>1, <1>2, SameStrategy DEF UsableSize, FF!UsableSize
  <1>5. a \in Addresses
    BY <1>2 DEF Addresses
  <1>6. (mem[q - 1].size - 2) * 16 \in Int
    BY HeldLiesNow DEF FirstFitState, HeldLies
  <1>7. GuardStands(a)
    BY <1>1, <1>2, <1>3, <1>4, <1>5, <1>6 DEF GuardStands, FirstFitState, FirstFitGuards, Slots
  <1> QED
    BY <1>1, <1>2, <1>3, <1>4, <1>7

LEMMA BuddyBlock ==
    ASSUME BuddyState, NEW o \in DOMAIN bdHeld, NEW a, a = <<"buddy", Payload(o)>>
    PROVE  /\ GuardStands(a) /\ GuardAt(a) = word[GuardCell(o)] /\ a[2] - 1 = GuardCell(o)
           /\ a[1] = "buddy" /\ a[2] = Payload(o) /\ OffsetOf(a[2]) = o
           /\ UsableSize(a) = BD!BuddyUsableSize(o) /\ GuardCell(o) \in WordCells
  <1>1. a[1] = "buddy" /\ a[2] = Payload(o)
    OBVIOUS
  <1>2. o \in BD!Offsets
    BY BuddyLiesNow DEF BuddyState, BuddyLies
  <1>3. /\ a[2] - 1 = GuardCell(o) /\ GuardCell(o) \in WordCells /\ OffsetOf(a[2]) = o
        /\ a[2] = GuardCell(o) + 1 /\ GuardCell(o) \in Nat
    BY <1>1, <1>2, WordCellIs
  <1>4. GuardAt(a) = word[GuardCell(o)]
    BY <1>1, <1>3 DEF GuardAt
  <1>5. UsableSize(a) = BD!BuddyUsableSize(o)
    BY <1>1, <1>3 DEF UsableSize
  <1>6. a \in Addresses
    BY <1>3 DEF Addresses
  <1>7. BD!BuddyUsableSize(o) \in Int
    <2>1. BD!BuddyUsableSize(o) = 2^hdr[o].order - 16 /\ 2^hdr[o].order \in Nat
      BY BuddyLiesNow DEF BuddyState, BuddyLies
    <2> QED
      BY <2>1
  <1>8. GuardStands(a)
    BY <1>1, <1>3, <1>4, <1>5, <1>6, <1>7 DEF GuardStands, BuddyState, BuddyGuards, Slots
  <1> QED
    BY <1>1, <1>3, <1>4, <1>5, <1>8

LEMMA GuardsStand == FirstFitState /\ BuddyState => AllGuardsStand
  <1> SUFFICES ASSUME FirstFitState, BuddyState, NEW a \in Live PROVE GuardStands(a)
    BY DEF AllGuardsStand
  <1>1. CASE \E q \in DOMAIN ffHeld : a = <<"firstfit", q + 1>>
    BY <1>1, FirstFitBlock
  <1>2. CASE \E o \in DOMAIN bdHeld : a = <<"buddy", Payload(o)>>
    BY <1>2, BuddyBlock
  <1> QED
    BY <1>1, <1>2, LiveIs

LEMMA GuardsStandLater == FirstFitState' /\ BuddyState' => AllGuardsStand'
  BY GuardsStand, PTL

(* A cell that reads as a guard belongs to a live block.                   *)
LEMMA GuardIsLive ==
    ASSUME FirstFitState, BuddyState, NEW a \in Addresses, GuardAt(a).tag \in {"HEAD", "SCAR"}
    PROVE  a \in Live
  <1>1. CASE \E c \in FF!Cells : a = <<"firstfit", c + 1>>
    <2>1. PICK c \in FF!Cells : a = <<"firstfit", c + 1>>
      BY <1>1
    <2>2. a[1] = "firstfit" /\ a[2] - 1 = c
      BY <2>1, SameStrategy
    <2>3. mem[c].tag \in {"HEAD", "SCAR"}
      BY <2>2 DEF GuardAt
    <2>4. c \in DOMAIN ffHeld
      BY <2>3 DEF FirstFitState, FirstFitGuards
    <2> QED
      BY <2>1, <2>4, LiveIs
  <1>2. CASE \E c \in WordCells : a = <<"buddy", c + 1>>
    <2>1. PICK c \in WordCells : a = <<"buddy", c + 1>>
      BY <1>2
    <2>2. a[1] = "buddy" /\ a[2] - 1 = c
      BY <2>1, WordCellIs
    <2>3. word[c].tag \in {"HEAD", "SCAR"}
      BY <2>2 DEF GuardAt
    <2>4. PICK o \in DOMAIN bdHeld : c = GuardCell(o)
      BY <2>3 DEF BuddyState, BuddyGuards
    <2>5. Payload(o) = c + 1
      BY <2>4 DEF Payload
    <2> QED
      BY <2>1, <2>5, LiveIs
  <1> QED
    BY <1>1, <1>2 DEF Addresses

(* The counters and what else block_new and block_release keep.            *)
Books ==
    /\ torn \subseteq Addresses
    /\ active \in Slots /\ ready \subseteq Slots
    /\ \A a \in Live : a[1] \in ready
    /\ spent # {} => "firstfit" \in ready
    /\ mallocs \in 0 .. MaxMallocs /\ frees \in Nat
    /\ IsFiniteSet(Live) /\ mallocs - frees = Cardinality(Live)

HeapCore == FirstFitState /\ BuddyState /\ Books

\* guards of the blocks in S are as before
GuardsKept(S) == \A x \in S : GuardAt(x)' = GuardAt(x)

\* block a handed out with n recorded, by the strategy in use
Granted(a, n) ==
    /\ FirstFitState' /\ BuddyState'
    /\ a \in Addresses /\ a \notin Live /\ Live' = Live \cup {a}
    /\ GuardAt(a)' = Guard(n) /\ GuardsKept(Live)
    /\ spent' # {} => spent # {}

LEMMA FirstFitGrants ==
    ASSUME FirstFitState, BuddyState, NEW n \in Amounts, n + GuardTotal <= SizeMax,
           NEW a \in Addresses, a[1] = "firstfit", FirstFitNew(n, a[2])
    PROVE  Granted(a, n)
  <1>1. PICK c \in FF!Cells : a = <<"firstfit", c + 1>>
    BY DEF Addresses
  <1>2. a[2] = c + 1 /\ a[2] \in Nat /\ a[2] - 1 = c /\ c \in Nat
    BY <1>1, SameStrategy
  <1>3. UNCHANGED bdvars /\ spent' = {}
    BY DEF FirstFitNew
  <1>4. /\ FirstFitState' /\ c \notin DOMAIN ffHeld /\ DOMAIN ffHeld' = DOMAIN ffHeld \cup {c}
        /\ mem'[c] = Guard(n) /\ \A q \in DOMAIN ffHeld : mem'[q] = mem[q]
    BY <1>2, FirstFitNewKeeps
  <1>5. BuddyState' /\ bdHeld' = bdHeld /\ word' = word
    BY <1>3, BuddyStays DEF bdvars
  <1>6. a \notin Live
    <2>1. \A q \in DOMAIN ffHeld : a # <<"firstfit", q + 1>>
      <3> SUFFICES ASSUME NEW q \in DOMAIN ffHeld, a = <<"firstfit", q + 1>> PROVE FALSE
        OBVIOUS
      <3>1. a[2] - 1 = q
        BY FirstFitBlock
      <3> QED
        BY <1>2, <1>4, <3>1
    <2>2. \A o \in DOMAIN bdHeld : a # <<"buddy", Payload(o)>>
      BY <1>1
    <2> QED
      BY <2>1, <2>2, LiveIs
  <1>7. Live' = Live \cup {a}
    <2>1. ASSUME NEW x PROVE x \in Live' <=> x \in Live \/ x = a
      BY <1>1, <1>4, <1>5, LiveIs, LiveIsLater
    <2> QED
      BY <2>1
  <1>8. GuardAt(a)' = Guard(n)
    BY <1>1, <1>2, <1>4 DEF GuardAt
  <1>9. ASSUME NEW x \in Live PROVE GuardAt(x)' = GuardAt(x)
    <2>1. CASE \E q \in DOMAIN ffHeld : x = <<"firstfit", q + 1>>
      <3>1. PICK q \in DOMAIN ffHeld : x = <<"firstfit", q + 1>>
        BY <2>1
      <3>2. x[1] = "firstfit" /\ x[2] - 1 = q
        BY <3>1, FirstFitBlock
      <3> QED
        BY <1>4, <3>2 DEF GuardAt
    <2>2. CASE \E o \in DOMAIN bdHeld : x = <<"buddy", Payload(o)>>
      <3>1. x[1] = "buddy"
        BY <2>2
      <3> QED
        BY <1>5, <3>1 DEF GuardAt
    <2> QED
      BY <2>1, <2>2, LiveIs
  <1> QED
    BY <1>3, <1>4, <1>5, <1>6, <1>7, <1>8, <1>9 DEF Granted, GuardsKept

LEMMA BuddyGrants ==
    ASSUME FirstFitState, BuddyState, NEW n \in Amounts, n + GuardTotal <= SizeMax,
           NEW a \in Addresses, a[1] = "buddy", BuddyNew(n, a[2])
    PROVE  Granted(a, n)
  <1>1. PICK off \in BD!Offsets : a[2] = Payload(off) /\ BuddyHandedOut(off, n)
    BY BuddyNewKeeps
  <1>2. a = <<"buddy", Payload(off)>>
    BY <1>1 DEF Addresses
  <1>3. UNCHANGED ffvars /\ spent' = spent
    BY Zenon DEF BuddyNew
  <1>4. FirstFitState' /\ ffHeld' = ffHeld /\ mem' = mem
    BY <1>3, FirstFitStays DEF ffvars
  <1>5. /\ BuddyState' /\ off \notin DOMAIN bdHeld /\ DOMAIN bdHeld' = DOMAIN bdHeld \cup {off}
        /\ word'[GuardCell(off)] = Guard(n)
        /\ \A x \in DOMAIN bdHeld : word'[GuardCell(x)] = word[GuardCell(x)]
    BY <1>1 DEF BuddyHandedOut
  <1>6. a \notin Live
    <2>1. \A q \in DOMAIN ffHeld : a # <<"firstfit", q + 1>>
      BY <1>2
    <2>2. \A o \in DOMAIN bdHeld : a # <<"buddy", Payload(o)>>
      <3> SUFFICES ASSUME NEW o \in DOMAIN bdHeld, a = <<"buddy", Payload(o)>> PROVE FALSE
        OBVIOUS
      <3>1. OffsetOf(a[2]) = o /\ OffsetOf(a[2]) = off
        BY <1>1, BuddyBlock, WordCellIs
      <3> QED
        BY <1>5, <3>1
    <2> QED
      BY <2>1, <2>2, LiveIs
  <1>7. Live' = Live \cup {a}
    <2>1. ASSUME NEW x PROVE x \in Live' <=> x \in Live \/ x = a
      BY <1>2, <1>4, <1>5, LiveIs, LiveIsLater
    <2> QED
      BY <2>1
  <1>8. GuardAt(a)' = Guard(n)
    <2>1. a[2] - 1 = GuardCell(off)
      BY <1>1, WordCellIs
    <2> QED
      BY <1>5, <2>1 DEF GuardAt
  <1>9. ASSUME NEW x \in Live PROVE GuardAt(x)' = GuardAt(x)
    <2>1. CASE \E q \in DOMAIN ffHeld : x = <<"firstfit", q + 1>>
      <3>1. x[1] = "firstfit"
        BY <2>1
      <3> QED
        BY <1>4, <3>1 DEF GuardAt
    <2>2. CASE \E o \in DOMAIN bdHeld : x = <<"buddy", Payload(o)>>
      <3>1. PICK o \in DOMAIN bdHeld : x = <<"buddy", Payload(o)>>
        BY <2>2
      <3>2. x[1] = "buddy" /\ x[2] - 1 = GuardCell(o)
        BY <3>1, BuddyBlock
      <3> QED
        BY <1>5, <3>2 DEF GuardAt
    <2> QED
      BY <2>1, <2>2, LiveIs
  <1> QED
    BY <1>3, <1>4, <1>5, <1>6, <1>7, <1>8, <1>9 DEF Granted, GuardsKept

\* block a given back
Returned(a) ==
    /\ FirstFitState' /\ BuddyState'
    /\ Live' = Live \ {a} /\ GuardsKept(Live \ {a})
    /\ spent' # {} => spent # {} \/ a[1] = "firstfit"

LEMMA FirstFitReturns ==
    ASSUME FirstFitState, BuddyState, NEW q \in DOMAIN ffHeld, NEW a, a = <<"firstfit", q + 1>>,
           FirstFitRelease(a[2])
    PROVE  Returned(a)
  <1>1. a[2] \in Nat /\ a[2] - 1 = q /\ a[1] = "firstfit"
    BY FirstFitBlock
  <1>2. UNCHANGED bdvars
    BY DEF FirstFitRelease
  <1>3. /\ FirstFitState' /\ DOMAIN ffHeld' = DOMAIN ffHeld \ {q}
        /\ \A x \in DOMAIN ffHeld : x # q => mem'[x] = mem[x]
    BY <1>1, FirstFitReleaseKeeps
  <1>4. BuddyState' /\ bdHeld' = bdHeld /\ word' = word
    BY <1>2, BuddyStays DEF bdvars
  <1>5. \A x \in DOMAIN ffHeld : <<"firstfit", x + 1>> = a => x = q
    <2> SUFFICES ASSUME NEW x \in DOMAIN ffHeld, a = <<"firstfit", x + 1>> PROVE x = q
      OBVIOUS
    <2>1. a[2] - 1 = x
      BY FirstFitBlock
    <2> QED
      BY <1>1, <2>1
  <1>6. Live' = Live \ {a}
    <2>1. ASSUME NEW x PROVE x \in Live' <=> x \in Live /\ x # a
      BY <1>1, <1>3, <1>4, <1>5, LiveIs, LiveIsLater
    <2> QED
      BY <2>1
  <1>7. ASSUME NEW x \in Live, x # a PROVE GuardAt(x)' = GuardAt(x)
    <2>1. CASE \E y \in DOMAIN ffHeld : x = <<"firstfit", y + 1>>
      <3>1. PICK y \in DOMAIN ffHeld : x = <<"firstfit", y + 1>>
        BY <2>1
      <3>2. x[1] = "firstfit" /\ x[2] - 1 = y /\ y # q
        BY <1>7, <3>1, FirstFitBlock
      <3> QED
        BY <1>3, <3>2 DEF GuardAt
    <2>2. CASE \E o \in DOMAIN bdHeld : x = <<"buddy", Payload(o)>>
      <3>1. x[1] = "buddy"
        BY <2>2
      <3> QED
        BY <1>4, <3>1 DEF GuardAt
    <2> QED
      BY <2>1, <2>2, LiveIs
  <1> QED
    BY <1>1, <1>3, <1>4, <1>6, <1>7 DEF Returned, GuardsKept

LEMMA BuddyReturns ==
    ASSUME FirstFitState, BuddyState, NEW off \in DOMAIN bdHeld, NEW a, a = <<"buddy", Payload(off)>>,
           BuddyRelease(a[2])
    PROVE  Returned(a)
  <1>1. a[1] = "buddy" /\ a[2] = Payload(off) /\ OffsetOf(a[2]) = off
    BY BuddyBlock
  <1>2. UNCHANGED <<ffvars, spent>>
    BY DEF BuddyRelease
  <1>3. FirstFitState' /\ ffHeld' = ffHeld /\ mem' = mem /\ spent' = spent
    BY <1>2, FirstFitStays DEF ffvars
  <1>4. /\ BuddyState' /\ DOMAIN bdHeld' = DOMAIN bdHeld \ {off}
        /\ \A x \in DOMAIN bdHeld : x # off => word'[GuardCell(x)] = word[GuardCell(x)]
    BY <1>1, BuddyReleaseKeeps
  <1>5. \A x \in DOMAIN bdHeld : <<"buddy", Payload(x)>> = a => x = off
    <2> SUFFICES ASSUME NEW x \in DOMAIN bdHeld, a = <<"buddy", Payload(x)>> PROVE x = off
      OBVIOUS
    <2>1. OffsetOf(a[2]) = x
      BY BuddyBlock
    <2> QED
      BY <1>1, <2>1
  <1>6. Live' = Live \ {a}
    <2>1. ASSUME NEW x PROVE x \in Live' <=> x \in Live /\ x # a
      BY <1>1, <1>3, <1>4, <1>5, LiveIs, LiveIsLater
    <2> QED
      BY <2>1
  <1>7. ASSUME NEW x \in Live, x # a PROVE GuardAt(x)' = GuardAt(x)
    <2>1. CASE \E y \in DOMAIN ffHeld : x = <<"firstfit", y + 1>>
      <3>1. x[1] = "firstfit"
        BY <2>1
      <3> QED
        BY <1>3, <3>1 DEF GuardAt
    <2>2. CASE \E o \in DOMAIN bdHeld : x = <<"buddy", Payload(o)>>
      <3>1. PICK o \in DOMAIN bdHeld : x = <<"buddy", Payload(o)>>
        BY <2>2
      <3>2. x[1] = "buddy" /\ x[2] - 1 = GuardCell(o) /\ o # off
        BY <1>7, <3>1, BuddyBlock
      <3> QED
        BY <1>4, <3>2 DEF GuardAt
    <2> QED
      BY <2>1, <2>2, LiveIs
  <1> QED
    BY <1>1, <1>3, <1>4, <1>6, <1>7 DEF Returned, GuardsKept

(* nsh_malloc's half of a step: the totals count the new block.            *)
LEMMA NewCore ==
    ASSUME HeapCore, NEW n \in Amounts, NEW a \in Addresses, BlockNew(n, a)
    PROVE  HeapCore' /\ Granted(a, n)
  <1>1. /\ mallocs < MaxMallocs /\ n <= SizeMax - GuardTotal /\ a[1] = active
        /\ IF active = "firstfit" THEN FirstFitNew(n, a[2]) ELSE BuddyNew(n, a[2])
        /\ torn' = torn \ {a} /\ ready' = ready \cup {active} /\ mallocs' = mallocs + 1
        /\ active' = active /\ frees' = frees
    BY DEF BlockNew
  <1>2. FirstFitState /\ BuddyState /\ Books
    BY DEF HeapCore
  <1>3. n + GuardTotal <= SizeMax
    BY <1>1, AmountsAre, ArenaAssumption DEF GuardTotal
  <1>4. Granted(a, n)
    <2>1. CASE active = "firstfit"
      BY <1>1, <1>2, <1>3, <2>1, FirstFitGrants
    <2>2. CASE active # "firstfit"
      <3>1. a[1] = "buddy"
        BY <1>1, <1>2, <2>2 DEF Books, Slots
      <3> QED
        BY <1>1, <1>2, <1>3, <2>2, <3>1, BuddyGrants
    <2> QED
      BY <2>1, <2>2
  <1>5. FirstFitState' /\ BuddyState' /\ a \notin Live /\ Live' = Live \cup {a}
    BY <1>4 DEF Granted
  <1>6. IsFiniteSet(Live') /\ mallocs' - frees' = Cardinality(Live')
    <2>1. IsFiniteSet(Live) /\ mallocs \in Nat /\ frees \in Nat /\ mallocs - frees = Cardinality(Live)
      BY <1>2, BoundsAssumption DEF Books
    <2>2. IsFiniteSet(Live \cup {a}) /\ Cardinality(Live \cup {a}) = Cardinality(Live) + 1
      BY <1>5, <2>1, FS_AddElement
    <2> QED
      BY <1>1, <1>5, <2>1, <2>2
  <1>7. mallocs' \in 0 .. MaxMallocs
    BY <1>1, <1>2, BoundsAssumption DEF Books
  <1>8. \A x \in Live' : x[1] \in ready'
    BY <1>1, <1>2, <1>5 DEF Books
  <1>9. spent' # {} => "firstfit" \in ready'
    BY <1>1, <1>2, <1>4 DEF Granted, Books
  <1>10. Addresses' = Addresses
    BY DEF Addresses
  <1> QED
    BY <1>1, <1>2, <1>4, <1>5, <1>6, <1>7, <1>8, <1>9, <1>10 DEF HeapCore, Books

(* nsh_free's half: what comes back was live, and is counted.              *)
LEMMA ReleaseCore ==
    ASSUME HeapCore, NEW a \in Live, BlockRelease(a)
    PROVE  HeapCore' /\ Returned(a)
  <1>1. /\ IF a[1] = "firstfit" THEN FirstFitRelease(a[2]) ELSE BuddyRelease(a[2])
        /\ frees' = frees + 1
        /\ torn' = torn /\ active' = active /\ ready' = ready /\ mallocs' = mallocs
    BY DEF BlockRelease
  <1>2. FirstFitState /\ BuddyState /\ Books
    BY DEF HeapCore
  <1>3. Returned(a)
    <2>1. CASE \E q \in DOMAIN ffHeld : a = <<"firstfit", q + 1>>
      <3>1. PICK q \in DOMAIN ffHeld : a = <<"firstfit", q + 1>>
        BY <2>1
      <3>2. a[1] = "firstfit"
        BY <3>1
      <3> QED
        BY <1>1, <1>2, <3>1, <3>2, FirstFitReturns
    <2>2. CASE \E o \in DOMAIN bdHeld : a = <<"buddy", Payload(o)>>
      <3>1. PICK o \in DOMAIN bdHeld : a = <<"buddy", Payload(o)>>
        BY <2>2
      <3>2. a[1] = "buddy"
        BY <3>1
      <3> QED
        BY <1>1, <1>2, <3>1, <3>2, BuddyReturns
    <2> QED
      BY <2>1, <2>2, LiveIs
  <1>4. FirstFitState' /\ BuddyState' /\ Live' = Live \ {a}
    BY <1>3 DEF Returned
  <1>5. IsFiniteSet(Live') /\ mallocs' - frees' = Cardinality(Live')
    <2>1. IsFiniteSet(Live) /\ mallocs \in Nat /\ frees \in Nat /\ mallocs - frees = Cardinality(Live)
      BY <1>2, BoundsAssumption DEF Books
    <2>2. IsFiniteSet(Live \ {a}) /\ Cardinality(Live \ {a}) = Cardinality(Live) - 1
      BY <2>1, FS_RemoveElement
    <2> QED
      BY <1>1, <1>4, <2>1, <2>2
  <1>6. \A x \in Live' : x[1] \in ready'
    BY <1>1, <1>2, <1>4 DEF Books
  <1>7. spent' # {} => "firstfit" \in ready'
    BY <1>1, <1>2, <1>3 DEF Returned, Books
  <1>8. frees' \in Nat
    BY <1>1, <1>2 DEF Books
  <1>9. Addresses' = Addresses
    BY DEF Addresses
  <1> QED
    BY <1>1, <1>2, <1>3, <1>4, <1>5, <1>6, <1>7, <1>8, <1>9 DEF HeapCore, Books

\* a step that writes one guard and nothing else
Rewrites(a, g) ==
    /\ IF a[1] = "firstfit"
       THEN mem' = [mem EXCEPT ![a[2] - 1] = g] /\ word' = word
       ELSE word' = [word EXCEPT ![a[2] - 1] = g] /\ mem' = mem
    /\ UNCHANGED <<starts, ffHeld, hdr, lists, count, bdHeld, torn, active, ready,
                   mallocs, frees, spent>>

LEMMA SameBooks ==
    ASSUME Books, Live' = Live,
           UNCHANGED <<torn, ready, mallocs, frees, spent>>, active' \in Slots
    PROVE  Books'
  BY DEF Books, Addresses

(* guard_write in place, and a caller's write below its block.             *)
LEMMA RewriteCore ==
    ASSUME HeapCore, NEW a \in Live, NEW g, g \in Readings, g \in WordReadings,
           g.tag \in {"HEAD", "SCAR"}, g.size \in Amounts,
           g.size + GuardTotal <= UsableSize(a), Rewrites(a, g)
    PROVE  HeapCore' /\ Live' = Live /\ GuardAt(a)' = g /\ GuardsKept(Live \ {a})
  <1>1. FirstFitState /\ BuddyState /\ Books
    BY DEF HeapCore
  <1>2. /\ UNCHANGED <<starts, ffHeld, spent>> /\ UNCHANGED <<hdr, lists, count, bdHeld>>
        /\ UNCHANGED <<torn, ready, mallocs, frees, spent>> /\ active' = active
    BY DEF Rewrites
  <1>3. Live' = Live
    <2>1. \A x : x \in Live' <=> x \in Live
      BY <1>2, LiveIs, LiveIsLater
    <2> QED
      BY <2>1
  <1>4. Books'
    BY <1>1, <1>2, <1>3, SameBooks DEF Books
  <1>5. CASE \E q \in DOMAIN ffHeld : a = <<"firstfit", q + 1>>
    <2>1. PICK q \in DOMAIN ffHeld : a = <<"firstfit", q + 1>>
      BY <1>5
    <2>2. /\ a[1] = "firstfit" /\ a[2] - 1 = q /\ q \in FF!Cells
          /\ UsableSize(a) = (mem[q - 1].size - 2) * 16
      BY <1>1, <2>1, FirstFitBlock
    <2>3. mem' = [mem EXCEPT ![q] = g] /\ word' = word
      BY <2>2 DEF Rewrites
    <2>4. FirstFitState' /\ mem'[q] = g /\ \A c \in FF!Cells : c # q => mem'[c] = mem[c]
      BY <1>1, <1>2, <2>2, <2>3, GuardRewritten
    <2>5. BuddyState'
      BY <1>1, <1>2, <2>3, BuddyStays DEF bdvars
    <2>6. GuardAt(a)' = g
      BY <2>2, <2>4 DEF GuardAt
    <2>7. ASSUME NEW x \in Live, x # a PROVE GuardAt(x)' = GuardAt(x)
      <3>1. CASE \E y \in DOMAIN ffHeld : x = <<"firstfit", y + 1>>
        <4>1. PICK y \in DOMAIN ffHeld : x = <<"firstfit", y + 1>>
          BY <3>1
        <4>2. x[1] = "firstfit" /\ x[2] - 1 = y /\ y # q /\ y \in FF!Cells
          BY <1>1, <2>1, <2>7, <4>1, FirstFitBlock
        <4> QED
          BY <2>4, <4>2 DEF GuardAt
      <3>2. CASE \E o \in DOMAIN bdHeld : x = <<"buddy", Payload(o)>>
        <4>1. x[1] = "buddy"
          BY <3>2
        <4> QED
          BY <2>3, <4>1 DEF GuardAt
      <3> QED
        BY <3>1, <3>2, LiveIs
    <2> QED
      BY <1>3, <1>4, <2>4, <2>5, <2>6, <2>7 DEF HeapCore, GuardsKept
  <1>6. CASE \E o \in DOMAIN bdHeld : a = <<"buddy", Payload(o)>>
    <2>1. PICK off \in DOMAIN bdHeld : a = <<"buddy", Payload(off)>>
      BY <1>6
    <2>2. /\ a[1] = "buddy" /\ a[2] - 1 = GuardCell(off) /\ GuardCell(off) \in WordCells
          /\ UsableSize(a) = BD!BuddyUsableSize(off)
      BY <1>1, <2>1, BuddyBlock
    <2>3. word' = [word EXCEPT ![GuardCell(off)] = g] /\ mem' = mem
      BY <2>2 DEF Rewrites
    <2>4. /\ BuddyState' /\ word'[GuardCell(off)] = g
          /\ \A c \in WordCells : c # GuardCell(off) => word'[c] = word[c]
      BY <1>1, <1>2, <2>2, <2>3, BuddyGuardRewritten
    <2>5. FirstFitState'
      BY <1>1, <1>2, <2>3, FirstFitStays
    <2>6. GuardAt(a)' = g
      BY <2>2, <2>4 DEF GuardAt
    <2>7. ASSUME NEW x \in Live, x # a PROVE GuardAt(x)' = GuardAt(x)
      <3>1. CASE \E y \in DOMAIN ffHeld : x = <<"firstfit", y + 1>>
        <4>1. x[1] = "firstfit"
          BY <3>1
        <4> QED
          BY <2>3, <4>1 DEF GuardAt
      <3>2. CASE \E o \in DOMAIN bdHeld : x = <<"buddy", Payload(o)>>
        <4>1. PICK o \in DOMAIN bdHeld : x = <<"buddy", Payload(o)>>
          BY <3>2
        <4>2. x[1] = "buddy" /\ x[2] - 1 = GuardCell(o) /\ GuardCell(o) \in WordCells
              /\ x[2] = Payload(o) /\ OffsetOf(x[2]) = o
          BY <1>1, <4>1, BuddyBlock
        <4>3. OffsetOf(a[2]) = off /\ o # off
          BY <1>1, <2>1, <2>7, <4>1, BuddyBlock
        <4>4. GuardCell(o) # GuardCell(off)
          BY <2>1, <4>1, <4>3, <2>7 DEF Payload
        <4> QED
          BY <2>4, <4>2, <4>4 DEF GuardAt
      <3> QED
        BY <3>1, <3>2, LiveIs
    <2> QED
      BY <1>3, <1>4, <2>4, <2>5, <2>6, <2>7 DEF HeapCore, GuardsKept
  <1> QED
    BY <1>5, <1>6, LiveIs

(* The arenas as they are: only the books may change.                      *)
LEMMA StayCore ==
    ASSUME HeapCore, UNCHANGED <<ffvars, bdvars, ready, mallocs, frees, spent>>,
           torn' \subseteq Addresses, active' \in Slots
    PROVE  HeapCore' /\ Live' = Live /\ GuardsKept(Live)
  <1>1. FirstFitState /\ BuddyState /\ Books
    BY DEF HeapCore
  <1>2. UNCHANGED <<mem, starts, ffHeld, spent>> /\ UNCHANGED bdvars
    BY DEF ffvars
  <1>3. FirstFitState' /\ BuddyState'
    BY <1>1, <1>2, FirstFitStays, BuddyStays
  <1>4. word' = word /\ bdHeld' = bdHeld
    BY <1>2 DEF bdvars
  <1>5. Live' = Live
    <2>1. \A x : x \in Live' <=> x \in Live
      BY <1>2, <1>4, LiveIs, LiveIsLater
    <2> QED
      BY <2>1
  <1>6. GuardsKept(Live)
    BY <1>2, <1>4 DEF GuardsKept, GuardAt
  <1>7. Books'
    BY <1>1, <1>5 DEF Books, Addresses
  <1> QED
    BY <1>3, <1>5, <1>6, <1>7 DEF HeapCore

(* guard_check, read against the blocks that are live.                     *)
LEMMA PassesIsLive ==
    ASSUME HeapCore, NEW a \in Addresses
    PROVE  Passes(a) <=> a \in Live \ torn /\ GuardAt(a).tag # "SCAR"
  <1>1. FirstFitState /\ BuddyState /\ Books
    BY DEF HeapCore
  <1>2. Passes(a) <=> /\ a[1] \in ready /\ GuardAt(a).tag # "FREED" /\ GuardAt(a).tag = "HEAD"
                      /\ a \notin torn
    BY DEF Passes, Complaint
  <1>3. ASSUME Passes(a) PROVE a \in Live \ torn /\ GuardAt(a).tag # "SCAR"
    BY <1>1, <1>2, <1>3, GuardIsLive
  <1>4. ASSUME a \in Live \ torn, GuardAt(a).tag # "SCAR" PROVE Passes(a)
    <2>1. GuardStands(a)
      BY <1>1, <1>4, GuardsStand DEF AllGuardsStand
    <2>2. GuardAt(a).tag = "HEAD"
      BY <1>4, <2>1 DEF GuardStands
    <2>3. a[1] \in ready
      BY <1>1, <1>4 DEF Books
    <2> QED
      BY <1>2, <1>4, <2>2, <2>3
  <1> QED
    BY <1>3, <1>4

-----------------------------------------------------------------------------
(* The inductive invariant.                                                *)
Verdicts == {"running", "out of memory", "unknown pointer", "double free", "prefix", "trailing"}

\* the two blocks of a nsh_realloc that is half way
Moving == moving.old \in Live /\ moving.new \in Live /\ moving.old # moving.new

HeapInv == HeapCore /\ verdict \in Verdicts /\ (moving = NoMove \/ Moving)

LEMMA WantIs == \A size \in Requests : Want(size) \in Amounts /\ Want(size) \in Nat
  BY BoundsAssumption, ArenaAssumption DEF Want, Amounts

LEMMA LiveStands == HeapCore => \A a \in Live : GuardStands(a) /\ a \in Addresses
  BY GuardsStand DEF HeapCore, AllGuardsStand, GuardStands

LEMMA DieKeeps ==
    ASSUME HeapInv, moving = NoMove, NEW why \in Verdicts, Die(why)
    PROVE  HeapInv' /\ Live' = Live /\ GuardsKept(Live) /\ moving' = moving
  <1>1. /\ UNCHANGED <<ffvars, bdvars, ready, mallocs, frees, spent>>
        /\ torn' = torn /\ active' = active /\ moving' = moving /\ verdict' = why
    BY DEF Die
  <1>2. torn' \subseteq Addresses /\ active' \in Slots
    BY <1>1 DEF HeapInv, HeapCore, Books
  <1>3. HeapCore' /\ Live' = Live /\ GuardsKept(Live)
    BY <1>1, <1>2, StayCore DEF HeapInv
  <1> QED
    BY <1>1, <1>3 DEF HeapInv, NoMove

\* what a block reads after a byte below it is overwritten
Scar(a) == [size |-> GuardAt(a).size, tag |-> "SCAR"]

LEMMA InPlaceRewrites ==
    ASSUME HeapCore, NEW a \in Live, NEW size \in Requests, ReallocInPlace(a, size)
    PROVE  /\ HeapCore' /\ Live' = Live /\ GuardAt(a)' = Guard(Want(size))
           /\ GuardsKept(Live \ {a}) /\ moving' = moving /\ verdict' = verdict
  <1>1. PICK n, g : n = Want(size) /\ g = Guard(n)
    OBVIOUS
  <1>2. n \in Amounts /\ n \in Nat
    BY <1>1, WantIs
  <1>3. g \in Readings /\ g \in WordReadings /\ g.tag = "HEAD" /\ g.size = n
    BY <1>1, <1>2, GuardIs, WordReadingsAre
  <1>4. g.size + GuardTotal <= UsableSize(a)
    <2>1. UsableSize(a) \in Int
      BY LiveStands DEF GuardStands
    <2>2. UsableSize(a) - GuardTotal >= n
      BY <1>1 DEF ReallocInPlace, Capacity
    <2> QED
      BY <1>2, <1>3, <2>1, <2>2 DEF GuardTotal
  <1>5. Rewrites(a, g) /\ moving' = moving /\ verdict' = verdict
    BY <1>1 DEF ReallocInPlace, Rewrites
  <1> QED
    BY <1>1, <1>2, <1>3, <1>4, <1>5, RewriteCore

LEMMA UnderflowScars ==
    ASSUME HeapCore, NEW a \in Live, Underflow(a)
    PROVE  /\ HeapCore' /\ Live' = Live /\ GuardAt(a)' = Scar(a)
           /\ GuardsKept(Live \ {a}) /\ moving' = moving /\ verdict' = verdict
  <1>1. PICK g, r : g = Scar(a) /\ r = GuardAt(a)
    OBVIOUS
  <1>2. /\ r.size \in Amounts /\ UsableSize(a) \in Int /\ r.size + GuardTotal <= UsableSize(a)
    BY <1>1, LiveStands DEF GuardStands
  <1>3. g \in Readings /\ g \in WordReadings /\ g.tag = "SCAR" /\ g.size = r.size
    BY <1>1, <1>2, AmountsAre DEF Scar, Readings, CellTags, WordReadings
  <1>4. r \in Readings \/ r \in WordReadings
    <2>1. CASE \E q \in DOMAIN ffHeld : a = <<"firstfit", q + 1>>
      <3>1. PICK q \in DOMAIN ffHeld : a = <<"firstfit", q + 1>>
        BY <2>1
      <3>2. r = mem[q] /\ q \in FF!Cells
        BY <1>1, <3>1, FirstFitBlock DEF HeapCore
      <3> QED
        BY <3>2 DEF HeapCore, FirstFitState, FirstFitInv
    <2>2. CASE \E o \in DOMAIN bdHeld : a = <<"buddy", Payload(o)>>
      <3>1. PICK o \in DOMAIN bdHeld : a = <<"buddy", Payload(o)>>
        BY <2>2
      <3>2. r = word[GuardCell(o)] /\ GuardCell(o) \in WordCells
        BY <1>1, <3>1, BuddyBlock DEF HeapCore
      <3> QED
        BY <3>2 DEF HeapCore, BuddyState, BuddyGuards
    <2> QED
      BY <2>1, <2>2, LiveIs
  <1>5. [r EXCEPT !.tag = "SCAR"] = g
    BY <1>1, <1>4 DEF Scar, Readings, WordReadings
  <1>6. /\ IF a[1] = "firstfit"
           THEN mem' = [mem EXCEPT ![a[2] - 1] = [mem[a[2] - 1] EXCEPT !.tag = "SCAR"]] /\ word' = word
           ELSE word' = [word EXCEPT ![a[2] - 1] = [word[a[2] - 1] EXCEPT !.tag = "SCAR"]] /\ mem' = mem
        /\ UNCHANGED <<starts, ffHeld, hdr, lists, count, bdHeld, torn, active, ready,
                       mallocs, frees, spent>>
        /\ moving' = moving /\ verdict' = verdict
    BY DEF Underflow
  <1>7. Rewrites(a, g)
    <2>1. CASE a[1] = "firstfit"
      <3>1. r = mem[a[2] - 1]
        BY <1>1, <2>1 DEF GuardAt
      <3> QED
        BY <1>5, <1>6, <2>1, <3>1 DEF Rewrites
    <2>2. CASE a[1] # "firstfit"
      <3>1. r = word[a[2] - 1]
        BY <1>1, <2>2 DEF GuardAt
      <3> QED
        BY <1>5, <1>6, <2>2, <3>1 DEF Rewrites
    <2> QED
      BY <2>1, <2>2
  <1> QED
    BY <1>1, <1>2, <1>3, <1>6, <1>7, RewriteCore

LEMMA InitInv ==
    ASSUME Init
    PROVE  HeapInv /\ Live = {}
  <1>1. FirstFitState /\ BuddyState /\ DOMAIN bdHeld = {}
    BY FirstFitInit, BuddyStateInit
  <1>2. DOMAIN ffHeld = {}
    <2>1. ffHeld = [p \in {} |-> 0]
      BY DEF Init, FF!Init
    <2> QED
      BY <2>1
  <1>3. Live = {}
    BY <1>1, <1>2, LiveIs
  <1>4. IsFiniteSet(Live) /\ Cardinality(Live) = 0
    BY <1>3, FS_EmptySet
  <1>5. /\ torn = {} /\ active \in Slots /\ ready = {} /\ mallocs = 0 /\ frees = 0
        /\ moving = NoMove /\ verdict = "running" /\ spent = {}
    BY DEF Init
  <1>6. Books
    BY <1>3, <1>4, <1>5, BoundsAssumption DEF Books
  <1> QED
    BY <1>1, <1>3, <1>5, <1>6 DEF HeapInv, HeapCore, Verdicts

LEMMA NextInv ==
    ASSUME HeapInv, [Next]_vars
    PROVE  HeapInv'
  <1>1. HeapCore /\ verdict \in Verdicts /\ (moving = NoMove \/ Moving)
    BY DEF HeapInv
  <1>2. ASSUME NEW size \in Requests, NEW a \in Addresses, Malloc(size, a)
        PROVE  HeapInv'
    <2>1. /\ moving = NoMove /\ moving' = moving /\ verdict' = verdict
          /\ BlockNew(Want(size), a)
      BY <1>2 DEF Malloc, Running, BlockNew
    <2>2. HeapCore'
      BY <1>1, <2>1, WantIs, NewCore
    <2> QED
      BY <1>1, <2>1, <2>2 DEF HeapInv, NoMove
  <1>3. ASSUME NEW size \in Requests, MallocDies(size)
        PROVE  HeapInv'
    BY <1>3, DieKeeps DEF MallocDies, Running, Verdicts
  <1>4. ASSUME NEW a \in Addresses, Free(a)
        PROVE  HeapInv'
    <2>1. /\ moving = NoMove /\ moving' = moving /\ verdict' = verdict
          /\ BlockRelease(a) /\ Passes(a)
      BY <1>4 DEF Free, Running, BlockRelease
    <2>2. HeapCore'
      BY <1>1, <2>1, PassesIsLive, ReleaseCore
    <2> QED
      BY <1>1, <2>1, <2>2 DEF HeapInv, NoMove
  <1>5. ASSUME NEW a \in Addresses, Caught(a)
        PROVE  HeapInv'
    <2>1. Complaint(a) \in Verdicts
      BY <1>5 DEF Caught, Passes, Complaint, Verdicts
    <2> QED
      BY <1>5, <2>1, DieKeeps DEF Caught, Running
  <1>6. ASSUME NEW a \in Live, NEW size \in Requests, ReallocInPlace(a, size)
        PROVE  HeapInv'
    <2>1. HeapCore' /\ moving' = moving /\ verdict' = verdict
      BY <1>1, <1>6, InPlaceRewrites
    <2> QED
      BY <1>1, <1>6, <2>1 DEF HeapInv, NoMove, ReallocInPlace, Running
  <1>7. ASSUME NEW a \in Live, NEW size \in Requests, NEW to \in Addresses,
               ReallocAllocates(a, size, to)
        PROVE  HeapInv'
    <2>1. BlockNew(Want(size), to) /\ moving' = [old |-> a, new |-> to] /\ verdict' = verdict
      BY <1>7 DEF ReallocAllocates, BlockNew
    <2>2. HeapCore' /\ Granted(to, Want(size))
      BY <1>1, <2>1, WantIs, NewCore
    <2>3. Moving'
      BY <2>1, <2>2 DEF Moving, Granted
    <2> QED
      BY <1>1, <2>1, <2>2, <2>3 DEF HeapInv
  <1>8. ASSUME ReallocReleases
        PROVE  HeapInv'
    <2>1. BlockRelease(moving.old) /\ moving' = NoMove /\ verdict' = verdict /\ moving # NoMove
      BY <1>8 DEF ReallocReleases, BlockRelease
    <2>2. HeapCore'
      BY <1>1, <2>1, ReleaseCore DEF Moving
    <2> QED
      BY <1>1, <2>1, <2>2 DEF HeapInv, NoMove
  <1>9. ASSUME NEW a \in Live, NEW size \in Requests, ReallocDies(a, size)
        PROVE  HeapInv'
    BY <1>9, DieKeeps DEF ReallocDies, Running, Verdicts
  <1>10. ASSUME NEW slot \in Slots, SetStrategy(slot)
         PROVE  HeapInv'
    <2>1. /\ UNCHANGED <<ffvars, bdvars, ready, mallocs, frees, spent>> /\ torn' = torn
          /\ active' = slot /\ moving = NoMove /\ moving' = moving /\ verdict' = verdict
      BY <1>10 DEF SetStrategy, Running
    <2>2. HeapCore'
      BY <1>1, <2>1, StayCore DEF HeapCore, Books
    <2> QED
      BY <1>1, <2>1, <2>2 DEF HeapInv, NoMove
  <1>11. ASSUME NEW a \in Live, Overflow(a)
         PROVE  HeapInv'
    <2>1. /\ UNCHANGED <<ffvars, bdvars, ready, mallocs, frees, spent>> /\ torn' = torn \cup {a}
          /\ active' = active /\ moving = NoMove /\ moving' = moving /\ verdict' = verdict
      BY <1>11 DEF Overflow, Running
    <2>2. a \in Addresses
      BY <1>1, LiveStands
    <2>3. HeapCore'
      BY <1>1, <2>1, <2>2, StayCore DEF HeapCore, Books
    <2> QED
      BY <1>1, <2>1, <2>3 DEF HeapInv, NoMove
  <1>12. ASSUME NEW a \in Live, Underflow(a)
         PROVE  HeapInv'
    <2>1. HeapCore' /\ moving' = moving /\ verdict' = verdict
      BY <1>1, <1>12, UnderflowScars
    <2> QED
      BY <1>1, <1>12, <2>1 DEF HeapInv, NoMove, Underflow, Running
  <1>13. ASSUME UNCHANGED vars
         PROVE  HeapInv'
    <2>1. /\ UNCHANGED <<ffvars, bdvars, ready, mallocs, frees, spent>> /\ torn' = torn
          /\ active' = active /\ moving' = moving /\ verdict' = verdict
      BY <1>13 DEF vars
    <2>2. HeapCore' /\ Live' = Live
      BY <1>1, <2>1, StayCore DEF HeapCore, Books
    <2> QED
      BY <1>1, <2>1, <2>2 DEF HeapInv, NoMove, Moving
  <1> QED
    BY <1>2, <1>3, <1>4, <1>5, <1>6, <1>7, <1>8, <1>9, <1>10, <1>11, <1>12, <1>13, Zenon
       DEF Next, Aborted

-----------------------------------------------------------------------------
(* What the invariant says of each property the run checks.                *)
LEMMA TypesHold == HeapInv => TypeOK
  <1> SUFFICES ASSUME HeapInv PROVE TypeOK
    OBVIOUS
  <1>1. FirstFitState /\ BuddyState /\ Books /\ verdict \in Verdicts
    BY DEF HeapInv, HeapCore
  <1>2. mem \in [FF!Cells -> Readings] /\ word \in [WordCells -> WordReadings]
    BY <1>1 DEF FirstFitState, FirstFitInv, BuddyState, BuddyGuards
  <1>3. FF!Cells = DOMAIN mem /\ \A c \in DOMAIN mem : mem[c].tag \in CellTags
    BY <1>2 DEF Readings
  <1>4. \A c \in DOMAIN word : word[c].tag \in {"DATA", "LINKS", "HEAD", "FREED", "SCAR"}
    BY <1>2 DEF WordReadings
  <1>5. frees \in 0 .. mallocs
    <2>1. IsFiniteSet(Live) /\ mallocs - frees = Cardinality(Live) /\ frees \in Nat /\ mallocs \in Nat
      BY <1>1, BoundsAssumption DEF Books
    <2>2. Cardinality(Live) \in Nat
      BY <2>1, FS_CardinalityType
    <2> QED
      BY <2>1, <2>2
  <1> QED
    BY <1>1, <1>3, <1>4, <1>5 DEF TypeOK, CellTags, Books, Verdicts

LEMMA StrategiesHold ==
    HeapInv => FF!BoundaryTags /\ FF!Tiled /\ FF!Coalesced /\ BD!ListsMatchHeaders
  <1> SUFFICES ASSUME HeapInv
               PROVE  FF!BoundaryTags /\ FF!Tiled /\ FF!Coalesced /\ BD!ListsMatchHeaders
    OBVIOUS
  <1>1. FirstFitInv /\ BDP!BuddyInv
    BY DEF HeapInv, HeapCore, FirstFitState, BuddyState
  <1>2. /\ FFP!BoundaryTags /\ FFP!Tiled /\ FFP!Coalesced
        /\ \A b \in starts : View[b] = mem[b] /\ FFP!End(b) = FF!End(b)
    BY <1>1, FirstFitShape DEF FirstFitInv, FFP!IInv
  <1>3. FF!BoundaryTags
    <2> SUFFICES ASSUME NEW b \in starts
                 PROVE  /\ mem[b].tag \in {"USED", "FREE"} /\ mem[b].size >= FF!MinBlock
                        /\ FF!End(b) <= FF!HeapEnd /\ mem[FF!End(b) - 1] = mem[b]
      BY DEF FF!BoundaryTags
    <2>1. /\ b \in Nat /\ mem[b].size \in Nat
          /\ mem[b].tag \in {"USED", "FREE"} /\ mem[b].size >= 3
          /\ b + mem[b].size <= FF!HeapEnd /\ FF!End(b) = b + mem[b].size
          /\ mem[b + mem[b].size - 1] = mem[b]
      BY <1>1, FirstFitShape
    <2> QED
      BY <2>1, SameStrategy
  <1>4. FF!Tiled
    BY <1>2, SameStrategy DEF FFP!Tiled, FF!Tiled
  <1>5. FF!Coalesced
    BY <1>2, SameStrategy DEF FFP!Coalesced, FF!Coalesced
  <1>6. BDP!ListsMatchHeaders
    BY <1>1, SameBuddy, BDP!InvCovers DEF BDP!ListsCoverHeap
  <1>7. BD!ListsMatchHeaders
    BY <1>6, Zenon DEF BDP!ListsMatchHeaders, BD!ListsMatchHeaders, BDP!Orders, BD!Orders,
       BDP!MinOrder, BD!MinOrder, BDP!MaxOrder, BD!MaxOrder, BDP!OnList, BD!OnList,
       BDP!Range, BD!Range, BDP!FreeHeader, BD!FreeHeader, BDP!Cardinality, BD!Cardinality,
       BDP!IsFiniteSet, BD!IsFiniteSet, BDP!BuddyUsableSize, BD!BuddyUsableSize,
       BDP!Header, BD!Header
  <1> QED
    BY <1>3, <1>4, <1>5, <1>7

LEMMA BlocksFit == HeapInv => FitsItsBlock
  BY LiveStands DEF HeapInv, FitsItsBlock, GuardStands

(* Every reachable state has tags, lists, guards and books in order.       *)
THEOREM Invariance == Spec => []HeapInv
  <1>1. Init => HeapInv
    BY InitInv
  <1>2. HeapInv /\ [Next]_vars => HeapInv'
    BY NextInv
  <1> QED
    BY <1>1, <1>2, PTL DEF Spec

(* guard_check accepts a pointer exactly when it is a live block nobody    *)
(* wrote around, for arenas of any size, after any calls of nsh_malloc,    *)
(* nsh_free and nsh_realloc under either strategy.                         *)
THEOREM OnlyLiveBlocksPass == Spec => []GuardsTellTheTruth
  <1>1. HeapInv => GuardsTellTheTruth
    BY PassesIsLive DEF HeapInv, GuardsTellTheTruth
  <1> QED
    BY <1>1, Invariance, PTL

\* when the totals meet nothing is held, and both strategies are back where they began
LEMMA GivenBack == HeapInv => AllGivenBack
  <1> SUFFICES ASSUME HeapInv, mallocs = frees
               PROVE  (FF!HeapEnd > 0 => FF!Whole) /\ BD!Seeded
    BY DEF AllGivenBack
  <1>1. FirstFitInv /\ BDP!BuddyInv
    BY DEF HeapInv, HeapCore, FirstFitState, BuddyState
  <1>2. Live = {}
    <2>1. IsFiniteSet(Live) /\ mallocs - frees = Cardinality(Live) /\ mallocs \in Int
      BY DEF HeapInv, HeapCore, Books
    <2> QED
      BY <2>1, FS_EmptySet
  <1>3. DOMAIN ffHeld = {} /\ DOMAIN bdHeld = {}
    BY <1>2, LiveIs
  <1>4. ASSUME FF!HeapEnd > 0 PROVE FF!Whole
    <2>1. FFP!Whole
      BY <1>1, <1>3, <1>4, Assumed, SameStrategy, FFP!EmptyIsWhole
         DEF FFP!EmptyHeapIsWhole, FirstFitInv
    <2>2. starts = {0} /\ View[0] = [size |-> FF!HeapEnd, tag |-> "FREE"]
      BY <2>1, SameStrategy DEF FFP!Whole
    <2>3. View[0] = mem[0]
      BY <1>1, <2>2, FirstFitShape
    <2> QED
      BY <2>2, <2>3 DEF FF!Whole
  <1>5. BD!Seeded
    <2>1. BDP!Seeded
      BY <1>1, <1>3, SameBuddy, BDP!EmptyIsSeeded DEF BDP!EmptyHeapIsSeeded
    <2> QED
      BY <2>1, SameBuddy, Zenon DEF BDP!Seeded, BD!Seeded, BDP!Seeds, BD!Seeds,
         BDP!MaxOrder, BD!MaxOrder
  <1> QED
    BY <1>4, <1>5

(* What block_new and block_release counted differs by the live blocks of  *)
(* both arenas, in the middle of a moving nsh_realloc too; and when the    *)
(* totals meet, each arena is what ff_init and buddy_init made of it,      *)
(* whatever went through the interface of alloc.h before.                  *)
THEOREM TotalsBalance == Spec => []CountersBalance
  <1>1. HeapInv => CountersBalance
    BY GivenBack DEF HeapInv, HeapCore, Books, CountersBalance
  <1> QED
    BY <1>1, Invariance, PTL

(* The freed mark of block_release outlives whatever ff_free merges around *)
(* it: until ff_alloc hands out a block again, guard_check names a second  *)
(* nsh_free of a first-fit block a double free.                            *)
THEOREM DoubleFreeNamed == Spec => []DoubleFreeIsNamed
  <1>1. HeapInv => DoubleFreeIsNamed
    <2> SUFFICES ASSUME HeapInv, NEW p \in spent
                 PROVE  Complaint(<<"firstfit", p>>) = "double free"
      BY DEF DoubleFreeIsNamed
    <2>1. "firstfit" \in ready /\ mem[p - 1].tag = "FREED"
      BY DEF HeapInv, HeapCore, Books, FirstFitState, MarksBuried
    <2> QED
      BY <2>1 DEF Complaint, GuardAt
  <1> QED
    BY <1>1, Invariance, PTL

(* Guards, the poison of block_release and the canaries never land on a    *)
(* boundary tag of firstfit.c or a header or list of buddy.c: both arenas  *)
(* keep their shape, and every payload lies with its guard and its canary  *)
(* inside its block.                                                       *)
THEOREM BookkeepingUntouched == Spec => []ArenasIntact
  <1>1. HeapInv => ArenasIntact
    BY TypesHold, StrategiesHold, BlocksFit DEF ArenasIntact
  <1> QED
    BY <1>1, Invariance, PTL

-----------------------------------------------------------------------------
(* The interface of alloc.h.                                               *)
\* no byte of a live block belongs to another
AllApart ==
    \A a, b \in Live : a # b => User!Apart(a, GuardAt(a).size, b, GuardAt(b).size)

LEMMA AllApartNow == HeapCore => AllApart
  <1> SUFFICES ASSUME HeapCore, NEW a \in Live, NEW b \in Live, a # b, a[1] = b[1]
               PROVE  \/ a[2] * 16 + GuardAt(a).size <= b[2] * 16
                      \/ b[2] * 16 + GuardAt(b).size <= a[2] * 16
    BY DEF AllApart, User!Apart, User!Unit
  <1>1. FirstFitState /\ FirstFitInv /\ BuddyState /\ BuddyLies
    BY BuddyLiesNow DEF HeapCore, FirstFitState, BuddyState
  <1>2. PICK n, m : n = GuardAt(a).size /\ m = GuardAt(b).size
    OBVIOUS
  <1>3. /\ n \in Nat /\ n + 24 <= UsableSize(a) /\ UsableSize(a) \in Int
        /\ m \in Nat /\ m + 24 <= UsableSize(b) /\ UsableSize(b) \in Int
    BY <1>2, LiveStands, AmountsAre DEF GuardStands, GuardTotal
  <1>4. CASE a[1] = "firstfit"
    <2>1. PICK q, r \in DOMAIN ffHeld : a = <<"firstfit", q + 1>> /\ b = <<"firstfit", r + 1>>
      <3>1. b[1] = "firstfit"
        BY <1>4
      <3> QED
        BY <1>4, <3>1, LiveIs
    <2>2. PICK d, e : d = q - 1 /\ e = r - 1
      OBVIOUS
    <2>3. /\ a[2] = q + 1 /\ UsableSize(a) = (mem[d].size - 2) * 16
          /\ b[2] = r + 1 /\ UsableSize(b) = (mem[e].size - 2) * 16
          /\ q \in Nat /\ r \in Nat
      BY <1>1, <2>1, <2>2, FirstFitBlock, HeldLiesNow DEF HeldLies
    <2>4. d \in starts /\ e \in starts
      BY <1>1, <2>2, FirstFitShape
    <2>5. PICK s, t : s = mem[d].size /\ t = mem[e].size
      OBVIOUS
    <2>6. s \in Nat /\ t \in Nat /\ d \in Nat /\ e \in Nat /\ d # e
      BY <1>1, <2>1, <2>2, <2>3, <2>4, <2>5, FirstFitShape
    <2>7. d + s <= e \/ e + t <= d
      BY <1>1, <2>4, <2>5, <2>6, FirstFitShape
    <2>8. n + 24 <= (s - 2) * 16 /\ m + 24 <= (t - 2) * 16
      BY <1>3, <2>3, <2>5
    <2>9. (q + 1) * 16 + n <= (r + 1) * 16 \/ (r + 1) * 16 + m <= (q + 1) * 16
      BY <1>3, <2>2, <2>3, <2>6, <2>7, <2>8
    <2> QED
      BY <1>2, <2>3, <2>9
  <1>5. CASE a[1] = "buddy"
    <2>1. PICK o, x \in DOMAIN bdHeld : a = <<"buddy", Payload(o)>> /\ b = <<"buddy", Payload(x)>>
      <3>1. b[1] = "buddy"
        BY <1>5
      <3> QED
        BY <1>5, <3>1, LiveIs
    <2>2. /\ a[2] = Payload(o) /\ UsableSize(a) = BD!BuddyUsableSize(o)
          /\ b[2] = Payload(x) /\ UsableSize(b) = BD!BuddyUsableSize(x)
      BY <1>1, <2>1, BuddyBlock
    <2>3. PICK s, t : s = 2^hdr[o].order /\ t = 2^hdr[x].order
      OBVIOUS
    <2>4. /\ o \in BD!Offsets /\ x \in BD!Offsets /\ o \in Nat /\ x \in Nat
          /\ s \in Nat /\ t \in Nat /\ UsableSize(a) = s - 16 /\ UsableSize(b) = t - 16
      BY <1>1, <2>2, <2>3 DEF BuddyLies
    <2>5. o # x
      BY <2>1
    <2>6. o + s <= x \/ x + t <= o
      BY <1>1, <2>3, <2>5 DEF BuddyLies
    <2>7. PICK i, j : i = GuardCell(o) /\ j = GuardCell(x)
      OBVIOUS
    <2>8. /\ i \in Nat /\ j \in Nat /\ (i - 1) * 16 = o /\ (j - 1) * 16 = x
          /\ a[2] = i + 1 /\ b[2] = j + 1
      BY <2>2, <2>4, <2>7, WordCellIs
    <2>9. (i + 1) * 16 + n <= (j + 1) * 16 \/ (j + 1) * 16 + m <= (i + 1) * 16
      BY <1>3, <2>4, <2>6, <2>8
    <2> QED
      BY <1>2, <2>8, <2>9
  <1> QED
    <2>1. a[1] \in Slots
      BY LiveStands DEF GuardStands
    <2> QED
      BY <1>4, <1>5, <2>1 DEF Slots

LEMMA AllApartLater == HeapCore' => AllApart'
  BY AllApartNow, PTL

\* the caller's view, block by block
LEMMA UserLiveIs ==
    /\ DOMAIN UserLive = Live \ {moving.new}
    /\ \A a \in Live \ {moving.new} : UserLive[a] = GuardAt(a).size
  BY DEF UserLive

LEMMA UserLiveLater ==
    /\ DOMAIN UserLive' = Live' \ {moving'.new}
    /\ \A a \in Live' \ {moving'.new} : UserLive'[a] = GuardAt(a)'.size
  BY DEF UserLive

\* no block is half way when none is moving
LEMMA NoneIsLive == moving = NoMove => moving.new \notin Live
  <1> SUFFICES ASSUME moving = NoMove, <<>> \in Live PROVE FALSE
    BY DEF NoMove
  <1>1. \A q : <<>> # <<"firstfit", q>>
    OBVIOUS
  <1>2. \A q : <<>> # <<"buddy", q>>
    OBVIOUS
  <1> QED
    BY <1>1, <1>2, LiveIs

LEMMA NoneIsLiveLater == moving' = NoMove => moving'.new \notin Live'
  <1>1. (moving = NoMove)' => (moving.new \notin Live)'
    BY NoneIsLive, PTL
  <1> QED
    BY <1>1 DEF NoMove

LEMMA InitRefines ==
    ASSUME Init
    PROVE  User!Init
  <1>1. Live = {}
    BY InitInv
  <1>2. Live \ {moving.new} = {}
    BY <1>1
  <1> QED
    BY <1>2 DEF User!Init, UserLive

(* Steps callers do not see.                                               *)
LEMMA UserStutters ==
    ASSUME Live' \ {moving'.new} = Live \ {moving.new},
           \A a \in Live \ {moving.new} : GuardAt(a)'.size = GuardAt(a).size
    PROVE  UserLive' = UserLive
  BY DEF UserLive

LEMMA MallocRefines ==
    ASSUME HeapInv, HeapInv', NEW size \in Requests, NEW a \in Addresses, Malloc(size, a)
    PROVE  User!Next
  <1>1. PICK n : n = Want(size)
    OBVIOUS
  <1>2. moving = NoMove /\ moving' = NoMove /\ BlockNew(n, a) /\ n \in Amounts /\ n \in Nat
    BY <1>1, WantIs DEF Malloc, Running
  <1>3. Granted(a, n)
    BY <1>2, NewCore DEF HeapInv
  <1>4. DOMAIN UserLive = Live /\ DOMAIN UserLive' = Live \cup {a} /\ a \notin Live
        /\ Live' = Live \cup {a}
    BY <1>2, <1>3, NoneIsLive, NoneIsLiveLater, UserLiveIs, UserLiveLater DEF Granted
  <1>5. \A x \in Live : UserLive[x] = GuardAt(x).size
    BY <1>4, UserLiveIs
  <1>6. \A x \in Live \cup {a} : UserLive'[x] = GuardAt(x)'.size
    BY <1>4, UserLiveLater
  <1>7. GuardAt(a)'.size = n
    BY <1>2, <1>3, GuardIs DEF Granted
  <1>8. \A x \in Live : GuardAt(x)' = GuardAt(x)
    BY <1>3 DEF Granted, GuardsKept
  <1>9. User!Vacant(a, n, DOMAIN UserLive)
    <2>1. AllApart'
      BY AllApartLater DEF HeapInv
    <2> SUFFICES ASSUME NEW b \in Live PROVE User!Apart(a, n, b, UserLive[b])
      BY <1>4 DEF User!Vacant
    <2>2. a # b /\ a \in Live' /\ b \in Live'
      BY <1>4
    <2>3. User!Apart(a, GuardAt(a)'.size, b, GuardAt(b)'.size)
      BY <2>1, <2>2 DEF AllApart
    <2> QED
      BY <1>5, <1>7, <1>8, <2>3
  <1>10. User!Given = {a} /\ User!Taken = {}
    BY <1>4 DEF User!Given, User!Taken
  <1>11. UserLive'[a] = n
    BY <1>6, <1>7
  <1>12. User!Others({})
    BY <1>4, <1>5, <1>6, <1>8 DEF User!Others
  <1>13. User!Malloc(n, a)
    BY <1>9, <1>10, <1>11, <1>12 DEF User!Malloc
  <1> QED
    BY <1>2, <1>10, <1>13 DEF User!Next, Amounts

LEMMA FreeRefines ==
    ASSUME HeapInv, NEW a \in Addresses, Free(a)
    PROVE  User!Next
  <1>1. moving = NoMove /\ moving' = NoMove /\ BlockRelease(a) /\ Passes(a)
    BY DEF Free, Running
  <1>2. a \in Live
    BY <1>1, PassesIsLive DEF HeapInv
  <1>3. Returned(a)
    BY <1>1, <1>2, ReleaseCore DEF HeapInv
  <1>4. DOMAIN UserLive = Live /\ DOMAIN UserLive' = Live \ {a} /\ Live' = Live \ {a}
    BY <1>1, <1>3, NoneIsLive, NoneIsLiveLater, UserLiveIs, UserLiveLater DEF Returned
  <1>5. \A x \in Live \ {a} : UserLive'[x] = UserLive[x]
    BY <1>3, <1>4, UserLiveIs, UserLiveLater DEF Returned, GuardsKept
  <1>6. User!Given = {} /\ User!Taken = {a}
    BY <1>2, <1>4 DEF User!Given, User!Taken
  <1>7. User!Others({a})
    BY <1>4, <1>5 DEF User!Others
  <1> QED
    BY <1>6, <1>7 DEF User!Next, User!Free

LEMMA ReallocInPlaceRefines ==
    ASSUME HeapInv, HeapInv', NEW a \in Live, NEW size \in Requests, ReallocInPlace(a, size)
    PROVE  User!Next
  <1>1. PICK n : n = Want(size)
    OBVIOUS
  <1>2. moving = NoMove /\ moving' = NoMove /\ n \in Amounts /\ n \in Nat
    BY <1>1, WantIs DEF ReallocInPlace, Running
  <1>3. Live' = Live /\ GuardAt(a)' = Guard(n) /\ GuardsKept(Live \ {a})
    BY <1>1, InPlaceRewrites DEF HeapInv
  <1>4. DOMAIN UserLive = Live /\ DOMAIN UserLive' = Live
    BY <1>2, <1>3, NoneIsLive, NoneIsLiveLater, UserLiveIs, UserLiveLater
  <1>5. /\ \A x \in Live : UserLive[x] = GuardAt(x).size /\ UserLive'[x] = GuardAt(x)'.size
        /\ \A x \in Live \ {a} : GuardAt(x)' = GuardAt(x)
    BY <1>3, <1>4, UserLiveIs, UserLiveLater DEF GuardsKept
  <1>6. GuardAt(a)'.size = n /\ UserLive'[a] = n
    BY <1>2, <1>3, <1>5, GuardIs
  <1>7. User!Vacant(a, n, DOMAIN UserLive \ {a})
    <2>1. AllApart'
      BY AllApartLater DEF HeapInv
    <2> SUFFICES ASSUME NEW b \in Live \ {a} PROVE User!Apart(a, n, b, UserLive[b])
      BY <1>4 DEF User!Vacant
    <2>2. User!Apart(a, GuardAt(a)'.size, b, GuardAt(b)'.size)
      BY <1>3, <2>1 DEF AllApart
    <2> QED
      BY <1>5, <1>6, <2>2
  <1>8. User!Given = {} /\ User!Taken = {} /\ User!Others({a})
    BY <1>4, <1>5 DEF User!Given, User!Taken, User!Others
  <1>9. User!ReallocInPlace(a, n)
    BY <1>6, <1>7, <1>8 DEF User!ReallocInPlace
  <1> QED
    BY <1>2, <1>4, <1>8, <1>9 DEF User!Next, Amounts

\* the new block is not the caller's yet
LEMMA ReallocAllocatesStutters ==
    ASSUME HeapInv, NEW a \in Live, NEW size \in Requests, NEW to \in Addresses,
           ReallocAllocates(a, size, to)
    PROVE  UserLive' = UserLive
  <1>1. moving = NoMove /\ moving'.new = to /\ BlockNew(Want(size), to)
    BY DEF ReallocAllocates, Running
  <1>2. Granted(to, Want(size))
    BY <1>1, WantIs, NewCore DEF HeapInv
  <1>3. Live' \ {moving'.new} = Live /\ Live \ {moving.new} = Live
    BY <1>1, <1>2, NoneIsLive DEF Granted
  <1> QED
    BY <1>2, <1>3, UserStutters DEF Granted, GuardsKept

(* The second half of a moving nsh_realloc is the step callers see.        *)
LEMMA ReallocReleasesRefines ==
    ASSUME HeapInv, ReallocReleases
    PROVE  User!Next
  <1>1. PICK a, to, n : a = moving.old /\ to = moving.new /\ n = GuardAt(to).size
    OBVIOUS
  <1>2. /\ a \in Live /\ to \in Live /\ a # to /\ moving' = NoMove /\ BlockRelease(a)
    BY <1>1 DEF ReallocReleases, HeapInv, Moving
  <1>3. Returned(a)
    BY <1>2, ReleaseCore DEF HeapInv
  <1>4. DOMAIN UserLive = Live \ {to} /\ DOMAIN UserLive' = Live \ {a} /\ Live' = Live \ {a}
    BY <1>1, <1>2, <1>3, NoneIsLiveLater, UserLiveIs, UserLiveLater DEF Returned
  <1>5. /\ \A x \in Live \ {to} : UserLive[x] = GuardAt(x).size
        /\ \A x \in Live \ {a} : UserLive'[x] = GuardAt(x).size
    BY <1>3, <1>4, UserLiveIs, UserLiveLater DEF Returned, GuardsKept
  <1>6. n \in Amounts /\ to \in Addresses
    BY <1>1, <1>2, LiveStands DEF HeapInv, GuardStands
  <1>7. User!Vacant(to, n, DOMAIN UserLive)
    <2>1. AllApart
      BY AllApartNow DEF HeapInv
    <2> SUFFICES ASSUME NEW b \in Live \ {to} PROVE User!Apart(to, n, b, UserLive[b])
      BY <1>4 DEF User!Vacant
    <2> QED
      BY <1>1, <1>2, <1>5, <2>1 DEF AllApart
  <1>8. User!Given = {to} /\ User!Taken = {a} /\ User!Others({a}) /\ UserLive'[to] = n
    BY <1>1, <1>2, <1>4, <1>5 DEF User!Given, User!Taken, User!Others
  <1>9. User!ReallocMoves(a, n, to)
    BY <1>7, <1>8 DEF User!ReallocMoves
  <1> QED
    BY <1>6, <1>8, <1>9 DEF User!Next, Amounts

LEMMA NextRefines ==
    ASSUME HeapInv, HeapInv', [Next]_vars
    PROVE  [User!Next]_UserLive
  <1>1. HeapCore /\ (moving = NoMove \/ Moving)
    BY DEF HeapInv
  <1>2. ASSUME NEW why \in Verdicts, moving = NoMove, Die(why)
        PROVE  UserLive' = UserLive
    BY <1>2, DieKeeps, UserStutters DEF GuardsKept
  <1>3. ASSUME UNCHANGED <<ffvars, bdvars, ready, mallocs, frees, spent>>,
               torn' \subseteq Addresses, active' \in Slots, moving' = moving
        PROVE  UserLive' = UserLive
    BY <1>1, <1>3, StayCore, UserStutters DEF GuardsKept
  <1>4. ASSUME NEW size \in Requests, MallocDies(size) PROVE UserLive' = UserLive
    BY <1>2, <1>4 DEF MallocDies, Running, Verdicts
  <1>5. ASSUME NEW a \in Addresses, Caught(a) PROVE UserLive' = UserLive
    <2>1. Complaint(a) \in Verdicts
      BY <1>5 DEF Complaint, Verdicts, Caught, Passes
    <2> QED
      BY <1>2, <1>5, <2>1 DEF Caught, Running
  <1>6. ASSUME NEW a \in Live, NEW size \in Requests, ReallocDies(a, size)
        PROVE  UserLive' = UserLive
    BY <1>2, <1>6 DEF ReallocDies, Running, Verdicts
  <1>7. ASSUME NEW slot \in Slots, SetStrategy(slot) PROVE UserLive' = UserLive
    BY <1>1, <1>3, <1>7 DEF SetStrategy, HeapCore, Books
  <1>8. ASSUME NEW a \in Live, Overflow(a) PROVE UserLive' = UserLive
    <2>1. a \in Addresses
      BY <1>1, LiveStands
    <2> QED
      BY <1>1, <1>3, <1>8, <2>1 DEF Overflow, HeapCore, Books
  <1>9. ASSUME NEW a \in Live, Underflow(a) PROVE UserLive' = UserLive
    <2>1. /\ Live' = Live /\ GuardAt(a)' = Scar(a) /\ GuardsKept(Live \ {a})
          /\ moving' = moving
      BY <1>1, <1>9, UnderflowScars
    <2>2. \A x \in Live : GuardAt(x)'.size = GuardAt(x).size
      BY <2>1 DEF GuardsKept, Scar
    <2> QED
      BY <2>1, <2>2, UserStutters
  <1>10. ASSUME UNCHANGED vars PROVE UserLive' = UserLive
    BY <1>1, <1>3, <1>10 DEF vars, HeapCore, Books
  <1> QED
    BY <1>4, <1>5, <1>6, <1>7, <1>8, <1>9, <1>10, MallocRefines, FreeRefines,
       ReallocInPlaceRefines, ReallocAllocatesStutters, ReallocReleasesRefines, Zenon
       DEF Next, Aborted

(* nsh_malloc, nsh_free and nsh_realloc keep the promise of alloc.h over   *)
(* both strategies: each block has bytes of its own until it is given      *)
(* back, and to its callers a moving nsh_realloc is one step.              *)
THEOREM InterfaceKept == Spec => UserContract
  <1>1. Init => User!Init
    BY InitRefines
  <1>2. HeapInv /\ HeapInv' /\ [Next]_vars => [User!Next]_UserLive
    BY NextRefines
  <1> QED
    BY <1>1, <1>2, Invariance, PTL DEF Spec, UserContract, User!Spec
=============================================================================
