----------------------------- MODULE MCNshHeap -----------------------------
(* A first-fit arena of 12 cells and a buddy arena of 256 bytes: three     *)
(* small blocks fit in either.  The requests are nothing (one byte), the   *)
(* largest that still fits a one-byte buddy block, one byte more, which    *)
(* must move, and one whose guarded size would wrap.  Three allocations:   *)
(* two blocks and one that is moved, or one freed, reused and moved.       *)
EXTENDS NshHeap

MCSpan == 12
MCArenaOrder == 8
MCStateOrder == 5
MCSizeMax == 255
MCRequests == {0, 24, 25, 240}
=============================================================================
