------------------------------- MODULE EmuLoop -------------------------------
(***************************************************************************)
(* run_interactive (emu.c) as a machine in time: the keys the terminal     *)
(* reports and the releases made up for them, and how many instructions    *)
(* and timer ticks a pass of the loop owes for the time that went by.      *)
(* What an instruction does is Cpu's, the terminal is Emulator's.          *)
(***************************************************************************)
EXTENDS Integers

CONSTANTS
    KEYS,         \* 0 .. KEY_COUNT - 1
    STEP_NS, TIMER_NS, KEY_HOLD_NS, CATCHUP_NS,
    MaxTime       \* bound: the clock

ASSUME TimeAssumption ==
    /\ STEP_NS \in Nat \ {0} /\ TIMER_NS \in Nat \ {0}
    /\ KEY_HOLD_NS \in Nat /\ CATCHUP_NS \in Nat /\ MaxTime \in Nat

VARIABLES
    phase,       \* where the loop is
    clock,       \* CLOCK_MONOTONIC, which is never 0
    now, prev,   \* as the loop last read it
    held,        \* the time of a key's last byte, 0 when it is up
    keys,        \* c->keys
    waiting,
    acc,         \* [step, timer]: step_acc and timer_acc
    done,        \* [steps, ticks, lost]: since the loop began, and the time nothing is owed for
    resume       \* g_resume

loopvars == <<phase, clock, now, prev, held, keys, waiting, acc, done, resume>>

LoopInit ==
    /\ phase = "top"
    /\ clock = 1 /\ now = 1 /\ prev = 1
    /\ held = [k \in KEYS |-> 0] /\ keys = {} /\ waiting = FALSE
    /\ acc = [step |-> 0, timer |-> 0]
    /\ done = [steps |-> 0, ticks |-> 0, lost |-> 0]
    /\ resume = FALSE

-----------------------------------------------------------------------------
Elapses ==
    /\ phase # "ended" /\ clock < MaxTime
    /\ clock' = clock + 1
    /\ UNCHANGED <<phase, now, prev, held, keys, waiting, acc, done, resume>>

\* stopped for a while, and continued
Resumed ==
    /\ phase # "ended" /\ ~resume
    /\ \E t \in clock .. MaxTime : clock' = t
    /\ resume' = TRUE
    /\ UNCHANGED <<phase, now, prev, held, keys, waiting, acc, done>>

\* "a resume must not replay every cycle the stop swallowed"
Resume ==
    /\ phase = "top" /\ resume
    /\ resume' = FALSE /\ prev' = clock
    /\ done' = [done EXCEPT !.lost = @ + (clock - prev)]
    /\ UNCHANGED <<phase, clock, now, held, keys, waiting, acc>>

ReadClock ==
    /\ phase = "top" /\ ~resume
    /\ now' = clock
    /\ phase' = "drain"
    /\ UNCHANGED <<clock, prev, held, keys, waiting, acc, done, resume>>

\* drain_input: a byte that maps to key k, and cpu_key_event
Press(k) ==
    /\ phase = "drain"
    /\ held' = [held EXCEPT ![k] = now]
    /\ keys' = keys \cup {k}
    /\ waiting' = FALSE
    /\ UNCHANGED <<phase, clock, now, prev, acc, done, resume>>

\* bytes that map to nothing are dropped; then there are no more, or it was Esc
Drained ==
    /\ phase = "drain"
    /\ phase' \in {"release", "ended"}
    /\ UNCHANGED <<clock, now, prev, held, keys, waiting, acc, done, resume>>

Stale(k) == held[k] # 0 /\ now - held[k] >= KEY_HOLD_NS

\* fault: the cpu is not told
ReleaseSilent ==
    /\ phase = "release"
    /\ held' = [k \in KEYS |-> IF Stale(k) THEN 0 ELSE held[k]]
    /\ phase' = "account"
    /\ UNCHANGED <<clock, now, prev, keys, waiting, acc, done, resume>>

\* release_stale_keys
Release ==
    /\ phase = "release"
    /\ held' = [k \in KEYS |-> IF Stale(k) THEN 0 ELSE held[k]]
    /\ keys' = {k \in keys : ~Stale(k)}
    /\ phase' = "account"
    /\ UNCHANGED <<clock, now, prev, waiting, acc, done, resume>>

\* the time since the last pass, no more of it than CATCHUP_NS and never less than none
Delta == LET d == now - prev IN
         IF d < 0 THEN 0 ELSE IF d > CATCHUP_NS THEN CATCHUP_NS ELSE d

Account ==
    /\ phase = "account"
    /\ prev' = now
    /\ acc' = [step |-> acc.step + Delta, timer |-> acc.timer + Delta]
    /\ done' = [done EXCEPT !.lost = @ + (now - prev - Delta)]
    /\ phase' = "steps"
    /\ UNCHANGED <<clock, now, held, keys, waiting, resume>>

\* cpu_step, which may begin to wait for a key, or fail
Step ==
    /\ phase = "steps" /\ acc.step >= STEP_NS
    /\ acc' = [acc EXCEPT !.step = @ - STEP_NS]
    /\ done' = [done EXCEPT !.steps = @ + 1]
    /\ \/ UNCHANGED <<phase, waiting>>
       \/ waiting' = TRUE /\ UNCHANGED phase
       \/ ~waiting /\ phase' = "ended" /\ UNCHANGED waiting
    /\ UNCHANGED <<clock, now, prev, held, keys, resume>>

StepsDone ==
    /\ phase = "steps" /\ acc.step < STEP_NS
    /\ phase' = "timers"
    /\ UNCHANGED <<clock, now, prev, held, keys, waiting, acc, done, resume>>

\* cpu_tick_timers for every TIMER_NS owed
Timers ==
    /\ phase = "timers"
    /\ acc' = [acc EXCEPT !.timer = @ % TIMER_NS]
    /\ done' = [done EXCEPT !.ticks = @ + acc.timer \div TIMER_NS]
    /\ phase' = "top"
    /\ UNCHANGED <<clock, now, prev, held, keys, waiting, resume>>

LoopNext ==
    \/ Elapses \/ Resumed \/ Resume \/ ReadClock
    \/ \E k \in KEYS : Press(k)
    \/ Drained \/ Release \/ Account \/ Step \/ StepsDone \/ Timers

LoopSpec == LoopInit /\ [][LoopNext]_loopvars

-----------------------------------------------------------------------------
(* Past the releases of a pass a key is down for the cpu exactly while its *)
(* last byte is younger than KEY_HOLD_NS; the instructions and the ticks   *)
(* account for all the time that went by but what a stop swallowed and     *)
(* what CATCHUP_NS cut off; and no pass owes more than that.               *)
LoopKeepsTime ==
    /\ keys = {k \in KEYS : held[k] # 0}
    /\ phase \in {"account", "steps", "timers"} =>
          \A k \in KEYS : k \in keys <=> held[k] # 0 /\ now - held[k] < KEY_HOLD_NS
    /\ done.steps * STEP_NS + acc.step + done.lost = prev - 1
    /\ done.ticks * TIMER_NS + acc.timer + done.lost = prev - 1
    /\ acc.step < STEP_NS + CATCHUP_NS /\ acc.timer < TIMER_NS + CATCHUP_NS
=============================================================================
