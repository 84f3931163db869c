---------------------------- MODULE AbstractHeap ----------------------------
(***************************************************************************)
(* What an allocation strategy of nullsh promises to alloc.c               *)
(* (src/alloc/internal.h, AllocStrategy): every block handed out lies in   *)
(* the arena, is at least as large as the request, overlaps no other live  *)
(* block, and neither moves nor changes size until it is given back.       *)
(* How a strategy finds room is left open.                                 *)
(*                                                                         *)
(* Addresses and lengths are counted in cells of Unit bytes (ALLOC_ALIGN). *)
(***************************************************************************)
EXTENDS Integers

CONSTANTS
    Region,  \* cells in the arena
    Sizes    \* the request sizes callers use, in bytes

Unit == 16

VARIABLE
    live     \* live[p] describes the block whose payload starts at cell p

Extent == [len : 1 .. Region, asked : Nat]

TypeOK ==
    /\ DOMAIN live \subseteq 0 .. (Region - 1)
    /\ live \in [DOMAIN live -> Extent]

Init == live = [p \in {} |-> [len |-> 1, asked |-> 0]]

Clear(p, len, q) == p + len <= q \/ q + live[q].len <= p

(* A successful request: some stretch of the arena clear of every live block. *)
Allocate(n, p, len) ==
    /\ p + len <= Region
    /\ n <= len * Unit
    /\ p \notin DOMAIN live
    /\ \A q \in DOMAIN live : Clear(p, len, q)
    /\ live' = [q \in DOMAIN live \cup {p} |->
                  IF q = p THEN [len |-> len, asked |-> n] ELSE live[q]]

Release(p) ==
    /\ p \in DOMAIN live
    /\ live' = [q \in DOMAIN live \ {p} |-> live[q]]

Next ==
    \/ \E n \in Sizes, p \in 0 .. (Region - 1), len \in 1 .. Region :
          Allocate(n, p, len)
    \/ \E p \in DOMAIN live : Release(p)

Spec == Init /\ [][Next]_live

(* No byte belongs to two live blocks, every block lies inside the arena   *)
(* and holds what its caller asked for.                                    *)
Disjoint ==
    /\ \A p \in DOMAIN live :
          /\ p + live[p].len <= Region
          /\ live[p].asked <= live[p].len * Unit
    /\ \A p, q \in DOMAIN live : p # q => Clear(p, live[p].len, q)
=============================================================================
