------------------------------ MODULE UserHeap ------------------------------
(***************************************************************************)
(* What alloc.h promises to the rest of nullsh: nsh_malloc hands out bytes *)
(* no other live block owns, nsh_free gives back exactly one block, and    *)
(* nsh_realloc either resizes in place or moves to bytes of its own, all   *)
(* three in one step, whichever strategy is active and whatever happened   *)
(* to the blocks of the other one.                                         *)
(*                                                                         *)
(* A pointer is a pair <<strategy, cell>>; each strategy has its own arena *)
(* and a cell is 16 bytes.                                                 *)
(***************************************************************************)
EXTENDS Integers

CONSTANTS
    Pointers,  \* the pointers the heap may hand out
    Amounts    \* the byte counts callers ask for

VARIABLE
    live       \* live[a] is the byte count the block at a was asked for

Init == live = [a \in {} |-> 0]

Unit == 16

\* n bytes at a and m bytes at b have no byte in common
Apart(a, n, b, m) ==
    a[1] = b[1] => a[2] * Unit + n <= b[2] * Unit \/ b[2] * Unit + m <= a[2] * Unit

Vacant(a, n, others) == \A b \in others : Apart(a, n, b, live[b])

\* the pointers a step hands out, and the ones it takes back
Given == DOMAIN live' \ DOMAIN live
Taken == DOMAIN live \ DOMAIN live'

Others(S) == \A b \in DOMAIN live \ S : b \in DOMAIN live' /\ live'[b] = live[b]

Malloc(n, a) ==
    /\ Given = {a} /\ Taken = {}
    /\ live'[a] = n /\ Others({})
    /\ Vacant(a, n, DOMAIN live)

Free(a) == Given = {} /\ Taken = {a} /\ Others({a})

ReallocInPlace(a, n) ==
    /\ Given = {} /\ Taken = {}
    /\ live'[a] = n /\ Others({a})
    /\ Vacant(a, n, DOMAIN live \ {a})

\* the copy needs both blocks at once, so the new one avoids the old one too
ReallocMoves(a, n, to) ==
    /\ Given = {to} /\ Taken = {a}
    /\ live'[to] = n /\ Others({a})
    /\ Vacant(to, n, DOMAIN live)

Next ==
    \/ \E a \in Given \cap Pointers, n \in Amounts : Malloc(n, a)
    \/ \E a \in Taken : Free(a)
    \/ \E a \in DOMAIN live \ Taken, n \in Amounts : ReallocInPlace(a, n)
    \/ \E a \in Taken, n \in Amounts, to \in Given \cap Pointers : ReallocMoves(a, n, to)

Spec == Init /\ [][Next]_live
=============================================================================
