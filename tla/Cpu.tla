--------------------------------- MODULE Cpu ---------------------------------
(***************************************************************************)
(* The CHIP-8 cpu (cpu.c): one instruction per step, over any rom.  The    *)
(* opcode fetched and the registers it uses are arbitrary; what decides    *)
(* where the cpu looks next is kept: c_pc, c_i, the stack and the key latch.   *)
(***************************************************************************)
EXTENDS Integers, Sequences

CONSTANTS
    CHIP8_MEM,
    ROM_BASE, FONT_BASE,
    GLYPH_BYTES,
    STACK_DEPTH,
    Wrap16,         \* the width of c_pc and c_i
    Bytes,          \* what a register may hold
    Addresses,      \* nnn
    Nibbles,        \* n, and the index of a register
    CHIP8_H

ASSUME MemoryAssumption ==
    /\ CHIP8_MEM \in Nat /\ CHIP8_MEM > 1 /\ Wrap16 \in Nat /\ Wrap16 >= CHIP8_MEM
    /\ ROM_BASE \in 0 .. CHIP8_MEM - 1 /\ FONT_BASE \in Nat /\ GLYPH_BYTES \in Nat
    /\ STACK_DEPTH \in Nat /\ CHIP8_H \in Nat \ {0}

ASSUME OpcodeAssumption ==
    Bytes \subseteq Nat /\ Nibbles \subseteq Nat /\ Addresses \subseteq 0 .. CHIP8_MEM - 1

VARIABLES
    c_pc, c_i,          \* the program counter and the index register
    sp,
    stack,          \* 0 .. STACK_DEPTH - 1
    c_waiting,
    error,          \* what cpu_step returned
    touched,        \* [from, size] of the memory the last step read or wrote beside its opcode
    slot            \* the entry of the stack it used; -1 for none

cpuvars == <<c_pc, c_i, sp, stack, c_waiting, error, touched, slot>>

Nothing == [from |-> 0, size |-> 0]

CpuInit ==
    /\ c_pc = ROM_BASE /\ c_i = 0 /\ sp = 0
    /\ stack = [k \in 0 .. STACK_DEPTH - 1 |-> 0]
    /\ c_waiting = FALSE /\ error = FALSE
    /\ touched = Nothing /\ slot = -1

-----------------------------------------------------------------------------
\* "a fetch needs both opcode bytes inside memory"
FetchOk(at) == at + 1 < CHIP8_MEM

\* fault: the sum is 16 bits wide
SpanOkWraps(base, size) == (base + size) % Wrap16 <= CHIP8_MEM

SpanOk(base, size) == base + size <= CHIP8_MEM

Min2(a, b) == IF a < b THEN a ELSE b
Next16(at) == (at + 2) % Wrap16

\* the outcome of a step: the memory and the stack it used, and whether it failed
Uses(from, size, at, failed) ==
    touched' = [from |-> from, size |-> size] /\ slot' = at /\ error' = failed
UsesNothing(failed) == Uses(0, 0, -1, failed)

Stays == UNCHANGED <<c_i, sp, stack, c_waiting>>

\* cpu_step takes no instruction while it waits for a key, or outside memory
WaitsForKey ==
    /\ c_waiting
    /\ UsesNothing(FALSE) /\ UNCHANGED c_pc /\ Stays

Escaped ==
    /\ ~c_waiting /\ ~FetchOk(c_pc)
    /\ UsesNothing(TRUE) /\ UNCHANGED c_pc /\ Stays

Fetched == ~c_waiting /\ FetchOk(c_pc)

\* the instructions that only compute, and those that are none: c_pc has moved on
Compute ==
    /\ Fetched
    /\ c_pc' = Next16(c_pc)
    /\ UsesNothing(FALSE) \/ UsesNothing(TRUE)
    /\ Stays

\* skip_next, when the condition holds
Skip ==
    /\ Fetched
    /\ LET target == Next16(Next16(c_pc)) IN
       IF FetchOk(target) THEN c_pc' = target /\ UsesNothing(FALSE)
       ELSE c_pc' = Next16(c_pc) /\ UsesNothing(TRUE)
    /\ Stays

\* 1nnn and Bnnn, where nothing is masked
Jump ==
    /\ Fetched
    /\ \E nnn \in Addresses : \E v \in {0} \cup Bytes : c_pc' = (nnn + v) % Wrap16
    /\ UsesNothing(FALSE)
    /\ Stays

Call ==
    /\ Fetched
    /\ IF sp >= STACK_DEPTH
       THEN c_pc' = Next16(c_pc) /\ UsesNothing(TRUE) /\ UNCHANGED <<sp, stack>>
       ELSE /\ stack' = [stack EXCEPT ![sp] = Next16(c_pc)] /\ sp' = sp + 1
            /\ c_pc' \in Addresses
            /\ Uses(0, 0, sp, FALSE)
    /\ UNCHANGED <<c_i, c_waiting>>

Return ==
    /\ Fetched
    /\ IF sp = 0
       THEN c_pc' = Next16(c_pc) /\ UsesNothing(TRUE) /\ UNCHANGED sp
       ELSE sp' = sp - 1 /\ c_pc' = stack[sp - 1] /\ Uses(0, 0, sp - 1, FALSE)
    /\ UNCHANGED <<c_i, stack, c_waiting>>

\* Annn, Fx1E and Fx29: c_i may point past the memory
SetIndex ==
    /\ Fetched
    /\ c_pc' = Next16(c_pc)
    /\ \/ c_i' \in Addresses
       \/ \E v \in Bytes : c_i' = (c_i + v) % Wrap16
       \/ \E v \in Nibbles : c_i' = FONT_BASE + GLYPH_BYTES * v
    /\ UsesNothing(FALSE)
    /\ UNCHANGED <<sp, stack, c_waiting>>

\* Dxyn: the rows of the sprite down to the edge of the screen
Draw ==
    /\ Fetched
    /\ c_pc' = Next16(c_pc)
    /\ \E n \in Nibbles, y \in 0 .. CHIP8_H - 1 :
          IF n > 0 /\ ~SpanOk(c_i, n) THEN UsesNothing(TRUE)
          ELSE Uses(c_i, Min2(n, CHIP8_H - y), -1, FALSE)
    /\ Stays

\* Fx33 writes three bytes, Fx55 and Fx65 copy the registers up to x
Copy ==
    /\ Fetched
    /\ c_pc' = Next16(c_pc)
    /\ \E size \in {3} \cup {x + 1 : x \in Nibbles} :
          IF ~SpanOk(c_i, size) THEN UsesNothing(TRUE) ELSE Uses(c_i, size, -1, FALSE)
    /\ Stays

\* Fx0A: a latch the next press of a key opens
AwaitKey ==
    /\ Fetched
    /\ c_pc' = Next16(c_pc)
    /\ c_waiting' = TRUE
    /\ UsesNothing(FALSE)
    /\ UNCHANGED <<c_i, sp, stack>>

\* cpu_key_event, for a press
KeyDown ==
    /\ c_waiting' = FALSE
    /\ UNCHANGED <<c_pc, c_i, sp, stack, error, touched, slot>>

(* The headless emulator goes on after a step that failed, the other does  *)
(* not: either is a behaviour of this.                                     *)
CpuNext ==
    \/ WaitsForKey \/ Escaped \/ Compute \/ Skip \/ Jump \/ Call \/ Return
    \/ SetIndex \/ Draw \/ Copy \/ AwaitKey \/ KeyDown

CpuSpec == CpuInit /\ [][CpuNext]_cpuvars

-----------------------------------------------------------------------------
(* Whatever the rom does, with c_i past the end, jumps out of memory and     *)
(* more calls or returns than the stack has room for, and after any step   *)
(* that failed: memory and stack are used inside their arrays only, and    *)
(* every return goes where a fetch may at worst be refused.                *)
StaysInMemory ==
    /\ touched.size > 0 => touched.from + touched.size <= CHIP8_MEM
    /\ slot \in -1 .. STACK_DEPTH - 1
    /\ sp \in 0 .. STACK_DEPTH
    /\ \A k \in 0 .. sp - 1 : stack[k] <= CHIP8_MEM
=============================================================================
