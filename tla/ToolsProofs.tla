----------------------------- MODULE ToolsProofs -----------------------------
(***************************************************************************)
(* What the shell ships with.  The emulator: LeavesTerminalAsFound and     *)
(* StopsSane for any number of stops; LoopKeepsTime for every set of keys, *)
(* every period and every clock; StaysInMemory for every size of memory    *)
(* and stack and every set of operands, which is any rom.  inspect:        *)
(* ReadsInFile and GivesBack for every ELF file: any length, any header,   *)
(* any sections, segments and symbols.  netmon: CaptureAccounted for every *)
(* set of frames, filters and buffer size: what the network sends is       *)
(* arbitrary.                                                              *)
(***************************************************************************)
EXTENDS Emulator, EmuLoop, Cpu, Elf, Netmon, TLAPS, WellFoundedInduction

-----------------------------------------------------------------------------
(* The terminal: Emulator.tla, with the raw mode of Terminal.tla.          *)

Sane == [mode |-> tty.mode, blocking |-> tty.blocking] = Found

EmuTypes ==
    /\ tty \in [mode : {"cooked", "line", "screen"}, blocking : BOOLEAN, cursor : BOOLEAN]
    /\ raw_active \in BOOLEAN /\ raw_owns_screen \in BOOLEAN
    /\ mode \in {"line", "screen"}
    /\ TypeOK

Entering == {"save", "attr", "flags", "undo", "mark", "own", "hide"}
Leaving == {"exit", "show", "reflag", "reattr"}

\* the caller of a raw mode goes on where it may be, the caller of its end anywhere
CallersGoOn ==
    /\ pc \in Entering =>
          back.ok \in {"editing", "loop", "drain"} /\ back.fail \in {"exited", "leave", "end"}
    /\ pc \in Leaving => back.ok \in {"command", "exited", "end", "leave", "uninstall"}

\* raw_active tells the truth, except in the windows
FlagTellsTheTruth ==
    /\ pc \notin Windows => raw_active \/ Sane
    /\ pc \in {"flags", "undo", "reattr"} => tty.blocking = TRUE
    /\ pc \in Windows \cup {"attr", "prompt", "command", "exited", "uninstall"} => ~raw_active
    /\ handling => ~raw_active

EmuInv == EmuTypes /\ saved = Found /\ CallersGoOn /\ FlagTellsTheTruth

-----------------------------------------------------------------------------
(* The steps of term.c keep the invariant, while no handler runs and       *)
(* whatever the caller is.                                                 *)
LEMMA TermStepInv ==
    ASSUME EmuInv, TermStep, UNCHANGED <<emuvars, procvars>>, ~handling
    PROVE  EmuInv'
  <1> USE DEF EmuInv, EmuTypes, TypeOK, InTerm, CallersGoOn, FlagTellsTheTruth, Entering, Leaving, Windows, Sane, Found,
          GoTo, ExitRaw, Screen, emuvars, procvars
  <1>1. CASE Save
    BY <1>1 DEF Save
  <1>2. CASE SetAttr
    BY <1>2 DEF SetAttr
  <1>3. CASE SetFlags
    BY <1>3 DEF SetFlags
  <1>4. CASE Undo
    BY <1>4 DEF Undo
  <1>5. CASE Mark
    BY <1>5 DEF Mark
  <1>6. CASE Own
    BY <1>6 DEF Own
  <1>7. CASE Hide
    <2>1. PICK shown \in BOOLEAN : tty' = [tty EXCEPT !.cursor = shown]
      BY <1>7 DEF Hide
    <2>2. tty' \in [mode : {"cooked", "line", "screen"}, blocking : BOOLEAN, cursor : BOOLEAN]
      BY <2>1
    <2>3. tty'.mode = tty.mode /\ tty'.blocking = tty.blocking
      BY <2>1
    <2> QED
      BY <1>7, <2>2, <2>3 DEF Hide
  <1>8. CASE Unmark
    BY <1>8 DEF Unmark
  <1>9. CASE Show
    BY <1>9 DEF Show
  <1>10. CASE ResetFlags
    BY <1>10 DEF ResetFlags
  <1>11. CASE ResetAttr
    BY <1>11 DEF ResetAttr
  <1> QED
    BY <1>1, <1>2, <1>3, <1>4, <1>5, <1>6, <1>7, <1>8, <1>9, <1>10, <1>11 DEF TermStep

(* The emulator's own steps, and the shell's between two of its lines, call *)
(* term.c only with callers that go on where the terminal may be so.       *)
LEMMA CallerInv ==
    ASSUME EmuInv, running, ~handling, UNCHANGED procvars,
           \/ TestResume \/ ClearResume \/ ReadNothing \/ Rest \/ End \/ Leave \/ SignalsRestore
           \/ ReadLine \/ LineRead \/ OtherCommand \/ StartEmu \/ ReadByte
    PROVE  EmuInv'
  <1> USE DEF EmuInv, EmuTypes, TypeOK, InTerm, CallersGoOn, FlagTellsTheTruth, Entering, Leaving, Windows, Sane, Found,
          GoTo, ExitRaw, EnterRawMode, Stay, emuvars, procvars
  <1>1. CASE TestResume
    BY <1>1 DEF TestResume
  <1>2. CASE ClearResume
    BY <1>2 DEF ClearResume
  <1>3. CASE ReadNothing
    BY <1>3 DEF ReadNothing, Waits
  <1>4. CASE Rest
    BY <1>4 DEF Rest
  <1>5. CASE End
    BY <1>5 DEF End
  <1>6. CASE Leave
    BY <1>6 DEF Leave
  <1>7. CASE SignalsRestore
    BY <1>7 DEF SignalsRestore
  <1>8. CASE ReadLine
    BY <1>8 DEF ReadLine
  <1>9. CASE LineRead
    BY <1>9 DEF LineRead
  <1>10. CASE OtherCommand
    BY <1>10 DEF OtherCommand
  <1>11. CASE StartEmu
    BY <1>11 DEF StartEmu
  <1>12. CASE ReadByte
    BY <1>12 DEF ReadByte
  <1> QED
    BY <1>1, <1>2, <1>3, <1>4, <1>5, <1>6, <1>7, <1>8, <1>9, <1>10, <1>11, <1>12

(* What comes from outside does: the handler finds a terminal that is in    *)
(* raw mode, or is sane, or is about to be made either.                    *)
LEMMA OutsideInv ==
    ASSUME EmuInv,
           SigTstp \/ HandlerReturns \/ Stop \/ Outside \/ Continue
    PROVE  EmuInv'
  <1> USE StopsAssumption DEF EmuInv, EmuTypes, TypeOK, InTerm, CallersGoOn, FlagTellsTheTruth, Entering, Leaving, Windows, Sane, Found,
          termvars, emuvars, procvars
  <1>1. CASE SigTstp
    <2>1. tty' \in [mode : {"cooked", "line", "screen"}, blocking : BOOLEAN, cursor : BOOLEAN]
      BY <1>1 DEF SigTstp, EmergencyRestore, Restored
    <2>2. Sane' \/ (tty' = tty /\ ~raw_active)
      BY <1>1 DEF SigTstp, EmergencyRestore, Restored
    <2>3. stops' \in 0 .. MaxStops
      BY <1>1 DEF SigTstp
    <2>4. /\ running /\ ~handling /\ installed /\ handling' = TRUE /\ running' \in BOOLEAN
          /\ raw_active' = FALSE /\ UNCHANGED <<saved, raw_owns_screen>> /\ UNCHANGED emuvars
      BY <1>1 DEF SigTstp, EmergencyRestore
    <2>5. pc' = pc \/ (pc = "drain" /\ pc' = "rest")
      BY <1>1 DEF SigTstp, GoTo
    <2>6. UNCHANGED <<mode, back>>
      BY <1>1 DEF SigTstp, GoTo
    <2>7. EmuTypes'
      BY <2>1, <2>3, <2>4, <2>5, <2>6
    <2>8. CallersGoOn'
      BY <2>5, <2>6
    <2>9. FlagTellsTheTruth'
      <3>1. pc' \notin Windows => raw_active' \/ Sane'
        BY <2>2, <2>5
      <3>2. pc' \in {"flags", "undo", "reattr"} => tty'.blocking = TRUE
        BY <2>2, <2>5
      <3> QED
        BY <3>1, <3>2, <2>4, <2>5
    <2> QED
      BY <2>4, <2>7, <2>8, <2>9
  <1>2. CASE HandlerReturns
    BY <1>2 DEF HandlerReturns
  <1>3. CASE Stop
    BY <1>3 DEF Stop
  <1>4. CASE Outside
    BY <1>4 DEF Outside
  <1>5. CASE Continue
    BY <1>5 DEF Continue
  <1> QED
    BY <1>1, <1>2, <1>3, <1>4, <1>5

-----------------------------------------------------------------------------
(* The invariant holds of every behaviour of the shell and of whatever     *)
(* stops and continues it.                                                 *)
THEOREM EmuInvariance == Spec => []EmuInv
  <1>1. Init => EmuInv
    <2> SUFFICES ASSUME Init PROVE EmuInv
      OBVIOUS
    <2>1. TypeOK
      BY StopsAssumption DEF Init, TermInit, TypeOK
    <2>2. EmuTypes
      BY <2>1 DEF Init, TermInit, EmuTypes
    <2>3. saved = Found /\ CallersGoOn
      BY DEF Init, TermInit, CallersGoOn, Entering, Leaving
    <2>4. FlagTellsTheTruth
      BY DEF Init, TermInit, FlagTellsTheTruth, Windows, Sane, Found
    <2> QED
      BY <2>2, <2>3, <2>4 DEF EmuInv
  <1>2. EmuInv /\ [Next]_vars => EmuInv'
    <2> SUFFICES ASSUME EmuInv, [Next]_vars PROVE EmuInv'
      OBVIOUS
    <2>1. CASE Loop
      BY <2>1, TermStepInv, CallerInv DEF Loop
    <2>2. CASE User
      BY <2>2, CallerInv DEF User
    <2>3. CASE SigTstp \/ HandlerReturns \/ Stop \/ Outside \/ Continue
      BY <2>3, OutsideInv
    <2>4. CASE UNCHANGED vars
      BY <2>4 DEF vars, termvars, emuvars, procvars, EmuInv, EmuTypes, TypeOK, InTerm, CallersGoOn, FlagTellsTheTruth, Entering, Leaving, Windows, Sane, Found
    <2> QED
      BY <2>1, <2>2, <2>3, <2>4 DEF Next
  <1> QED
    BY <1>1, <1>2, PTL DEF Spec

(* Whatever stopped and continued the shell while term.c (lines 46 to 120) or  *)
(* the emulator worked, what a restore puts back is the terminal as found, *)
(* and it has been put back whenever a line is run or the shell ends.      *)
THEOREM TerminalLeftAsFound == Spec => []LeavesTerminalAsFound
  <1>1. EmuInv => LeavesTerminalAsFound
    BY DEF LeavesTerminalAsFound, EmuInv, EmuTypes, TypeOK, InTerm, CallersGoOn, FlagTellsTheTruth, Entering, Leaving, Windows, Sane, Found
  <1> QED
    BY <1>1, EmuInvariance, PTL

(* The comment of tstp_handler in emu.c, outside the windows it leaves:    *)
(* while Ctrl-Z has the shell stopped, the terminal is sane.               *)
THEOREM StoppedSane == Spec => []StopsSane
  <1>1. EmuInv => StopsSane
    BY DEF StopsSane, EmuInv, FlagTellsTheTruth, Sane
  <1> QED
    BY <1>1, EmuInvariance, PTL

-----------------------------------------------------------------------------
(* The clock of the main loop: EmuLoop.tla.                                *)

Phases == {"top", "drain", "release", "account", "steps", "timers", "ended"}

LoopTypes ==
    /\ phase \in Phases
    /\ clock \in Nat /\ now \in Nat \ {0} /\ prev \in Nat \ {0}
    /\ now <= clock /\ prev <= clock
    /\ held \in [KEYS -> Nat]
    /\ acc \in [step : Nat, timer : Nat]
    /\ done \in [steps : Nat, ticks : Nat, lost : Nat]

\* the keys that are down are those with a byte to remember, which some pass lets go of
KeysHeld ==
    /\ keys = {k \in KEYS : held[k] # 0}
    /\ phase \in {"account", "steps", "timers"} =>
          \A k \in KEYS : held[k] # 0 => now - held[k] < KEY_HOLD_NS

\* what is carried over to the next pass is less than a whole instruction or tick
Carried ==
    /\ phase \notin {"steps", "ended"} => acc.step < STEP_NS
    /\ phase \notin {"steps", "timers", "ended"} => acc.timer < TIMER_NS
    /\ phase \in {"drain", "release", "account"} => prev <= now
    /\ acc.step < STEP_NS + CATCHUP_NS /\ acc.timer < TIMER_NS + CATCHUP_NS

TimeAccounted ==
    /\ done.steps * STEP_NS + acc.step + done.lost = prev - 1
    /\ done.ticks * TIMER_NS + acc.timer + done.lost = prev - 1

LoopInv == LoopTypes /\ KeysHeld /\ Carried /\ TimeAccounted

-----------------------------------------------------------------------------
(* The ticks of a pass and what they leave over make up what was owed.     *)
LEMMA Division ==
    ASSUME NEW t \in Nat
    PROVE  /\ t \div TIMER_NS \in Nat /\ t % TIMER_NS \in Nat /\ t % TIMER_NS < TIMER_NS
           /\ (t \div TIMER_NS) * TIMER_NS + (t % TIMER_NS) = t
  <1>1. t % TIMER_NS \in Nat /\ t % TIMER_NS < TIMER_NS
    BY TimeAssumption
  <1>2. t \div TIMER_NS \in Nat
    BY TimeAssumption
  <1>3. (t \div TIMER_NS) * TIMER_NS + (t % TIMER_NS) = t
    BY TimeAssumption
  <1> QED
    BY <1>1, <1>2, <1>3

(* One more instruction, or some more ticks, take up their own time.       *)
LEMMA Distributes ==
    ASSUME NEW a \in Nat, NEW b \in Nat, NEW each \in Nat
    PROVE  (a + b) * each = a * each + b * each
  OBVIOUS

(* The time a pass owes: at most CATCHUP_NS, never more than went by.      *)
LEMMA Owed ==
    ASSUME LoopTypes, prev <= now
    PROVE  Delta \in Nat /\ Delta <= CATCHUP_NS /\ Delta <= now - prev
  BY TimeAssumption DEF LoopTypes, Delta

LEMMA LoopInvInit == LoopInit => LoopInv
  BY TimeAssumption DEF LoopInit, LoopInv, LoopTypes, KeysHeld, Carried, TimeAccounted, Phases

LEMMA LoopInvStep == LoopInv /\ [LoopNext]_loopvars => LoopInv'
  <1> SUFFICES ASSUME LoopInv, [LoopNext]_loopvars
               PROVE  LoopInv'
    OBVIOUS
  <1> USE TimeAssumption DEF LoopInv
  <1>1. CASE Elapses
    BY <1>1 DEF Elapses, LoopTypes, KeysHeld, Carried, TimeAccounted
  <1>2. CASE Resumed
    BY <1>2 DEF Resumed, LoopTypes, KeysHeld, Carried, TimeAccounted
  <1>3. CASE Resume
    <2>1. /\ phase = "top" /\ prev' = clock /\ done' = [done EXCEPT !.lost = @ + (clock - prev)]
          /\ UNCHANGED <<phase, clock, now, held, keys, acc>>
      BY <1>3 DEF Resume
    <2>2. clock - prev \in Nat
      BY DEF LoopTypes
    <2>3. /\ done' \in [steps : Nat, ticks : Nat, lost : Nat]
          /\ done'.steps = done.steps /\ done'.ticks = done.ticks
          /\ done'.lost = done.lost + (clock - prev)
      BY <2>1, <2>2 DEF LoopTypes
    <2>4. LoopTypes'
      BY <2>1, <2>3 DEF LoopTypes
    <2> DEFINE stepped == done.steps * STEP_NS
               ticked == done.ticks * TIMER_NS
    <2>5. stepped \in Nat /\ ticked \in Nat
      BY DEF LoopTypes
    <2>8. /\ stepped + acc.step + done.lost = prev - 1 /\ stepped' = stepped
          /\ ticked + acc.timer + done.lost = prev - 1 /\ ticked' = ticked
      BY <2>3 DEF TimeAccounted
    <2>9. TimeAccounted' <=> /\ stepped' + acc'.step + done'.lost = prev' - 1
                            /\ ticked' + acc'.timer + done'.lost = prev' - 1
      BY DEF TimeAccounted
    <2> HIDE DEF stepped, ticked
    <2>6. TimeAccounted'
      BY <2>1, <2>3, <2>5, <2>8, <2>9 DEF LoopTypes
    <2> QED
      BY <2>1, <2>4, <2>6 DEF KeysHeld, Carried
  <1>4. CASE ReadClock
    BY <1>4 DEF ReadClock, LoopTypes, KeysHeld, Carried, TimeAccounted, Phases
  <1>5. ASSUME NEW k \in KEYS, Press(k)
        PROVE  LoopInv'
    <2>1. held' \in [KEYS -> Nat] /\ held'[k] = now /\ \A j \in KEYS \ {k} : held'[j] = held[j]
      BY <1>5 DEF Press, LoopTypes
    <2>2. keys' = {j \in KEYS : held'[j] # 0}
      BY <1>5, <2>1 DEF Press, LoopTypes, KeysHeld
    <2> QED
      BY <1>5, <2>1, <2>2 DEF Press, LoopTypes, KeysHeld, Carried, TimeAccounted
  <1>6. CASE Drained
    BY <1>6 DEF Drained, LoopTypes, KeysHeld, Carried, TimeAccounted, Phases
  <1>7. CASE Release
    <2>1. /\ held' \in [KEYS -> Nat]
          /\ \A k \in KEYS : held'[k] = IF Stale(k) THEN 0 ELSE held[k]
      BY <1>7 DEF Release, LoopTypes
    <2>2. keys' = {k \in KEYS : held'[k] # 0}
      BY <1>7, <2>1 DEF Release, KeysHeld, Stale
    <2>3. \A k \in KEYS : held'[k] # 0 => now - held'[k] < KEY_HOLD_NS
      BY <2>1 DEF Stale, LoopTypes
    <2> QED
      BY <1>7, <2>1, <2>2, <2>3 DEF Release, LoopTypes, KeysHeld, Carried, TimeAccounted, Phases
  <1>8. CASE Account
    <2>1. /\ phase = "account" /\ phase' = "steps" /\ prev' = now
          /\ acc' = [step |-> acc.step + Delta, timer |-> acc.timer + Delta]
          /\ done' = [done EXCEPT !.lost = @ + (now - prev - Delta)]
          /\ UNCHANGED <<clock, now, held, keys>>
      BY <1>8 DEF Account
    <2>2. Delta \in Nat /\ Delta <= CATCHUP_NS /\ Delta <= now - prev
      BY <2>1, Owed DEF Carried
    <2>3. now - prev - Delta \in Nat
      BY <2>2 DEF LoopTypes
    <2>4. /\ acc' \in [step : Nat, timer : Nat]
          /\ done' \in [steps : Nat, ticks : Nat, lost : Nat]
          /\ done'.steps = done.steps /\ done'.ticks = done.ticks
          /\ done'.lost = done.lost + (now - prev - Delta)
      BY <2>1, <2>2, <2>3 DEF LoopTypes
    <2>5. LoopTypes'
      BY <2>1, <2>4 DEF LoopTypes, Phases
    <2>6. done.steps * STEP_NS \in Nat /\ done.ticks * TIMER_NS \in Nat
      BY DEF LoopTypes
    <2>7. TimeAccounted'
      BY <2>1, <2>2, <2>4, <2>6 DEF LoopTypes, TimeAccounted
    <2>8. Carried'
      BY <2>1, <2>2 DEF LoopTypes, Carried
    <2> QED
      BY <2>1, <2>5, <2>7, <2>8 DEF KeysHeld
  <1>9. CASE Step
    <2>1. /\ phase = "steps" /\ acc.step >= STEP_NS /\ phase' \in {"steps", "ended"}
          /\ acc' = [acc EXCEPT !.step = @ - STEP_NS]
          /\ done' = [done EXCEPT !.steps = @ + 1]
          /\ UNCHANGED <<clock, now, prev, held, keys>>
      BY <1>9 DEF Step
    <2>2. /\ acc' \in [step : Nat, timer : Nat] /\ done' \in [steps : Nat, ticks : Nat, lost : Nat]
          /\ acc'.step = acc.step - STEP_NS /\ acc'.timer = acc.timer
          /\ done'.steps = done.steps + 1 /\ done'.ticks = done.ticks /\ done'.lost = done.lost
      BY <2>1 DEF LoopTypes
    <2>3. (done.steps + 1) * STEP_NS = done.steps * STEP_NS + STEP_NS
      BY Distributes DEF LoopTypes
    <2>4. done.steps * STEP_NS \in Nat
      BY DEF LoopTypes
    <2>5. TimeAccounted'
      BY <2>1, <2>2, <2>3, <2>4 DEF LoopTypes, TimeAccounted
    <2>6. LoopTypes' /\ Carried'
      BY <2>1, <2>2 DEF LoopTypes, Carried, Phases
    <2> QED
      BY <2>1, <2>5, <2>6 DEF KeysHeld
  <1>10. CASE StepsDone
    BY <1>10 DEF StepsDone, LoopTypes, KeysHeld, Carried, TimeAccounted, Phases
  <1>11. CASE Timers
    <2>1. /\ phase = "timers" /\ phase' = "top"
          /\ acc' = [acc EXCEPT !.timer = @ % TIMER_NS]
          /\ done' = [done EXCEPT !.ticks = @ + acc.timer \div TIMER_NS]
          /\ UNCHANGED <<clock, now, prev, held, keys>>
      BY <1>11 DEF Timers
    <2> DEFINE d == acc.timer \div TIMER_NS
               m == acc.timer % TIMER_NS
    <2>2. d \in Nat /\ m \in Nat /\ m < TIMER_NS /\ d * TIMER_NS + m = acc.timer
      BY Division DEF LoopTypes
    <2>3. /\ acc' \in [step : Nat, timer : Nat] /\ done' \in [steps : Nat, ticks : Nat, lost : Nat]
          /\ acc'.step = acc.step /\ acc'.timer = m
          /\ done'.steps = done.steps /\ done'.ticks = done.ticks + d /\ done'.lost = done.lost
      <3> HIDE DEF d, m
      <3>1. acc' = [acc EXCEPT !.timer = m] /\ acc \in [step : Nat, timer : Nat]
        BY <2>1 DEF LoopTypes, m
      <3>2. acc' \in [step : Nat, timer : Nat] /\ acc'.step = acc.step /\ acc'.timer = m
        BY <3>1, <2>2
      <3>3. done' = [done EXCEPT !.ticks = @ + d] /\ done \in [steps : Nat, ticks : Nat, lost : Nat]
        BY <2>1 DEF LoopTypes, d
      <3>4. /\ done' \in [steps : Nat, ticks : Nat, lost : Nat]
            /\ done'.steps = done.steps /\ done'.ticks = done.ticks + d /\ done'.lost = done.lost
        BY <3>3, <2>2
      <3> QED
        BY <3>2, <3>4
    <2>4. (done.ticks + d) * TIMER_NS = done.ticks * TIMER_NS + d * TIMER_NS
      BY <2>2, Distributes DEF LoopTypes
    <2> HIDE DEF d, m
    <2>5. done.ticks * TIMER_NS \in Nat /\ d * TIMER_NS \in Nat
      BY <2>2 DEF LoopTypes
    <2>6. TimeAccounted'
      BY <2>1, <2>2, <2>3, <2>4, <2>5 DEF LoopTypes, TimeAccounted
    <2>7. LoopTypes' /\ Carried'
      BY <2>1, <2>2, <2>3 DEF LoopTypes, Carried, Phases
    <2> QED
      BY <2>1, <2>6, <2>7 DEF KeysHeld
  <1>12. CASE UNCHANGED loopvars
    BY <1>12 DEF loopvars, LoopTypes, KeysHeld, Carried, TimeAccounted
  <1> QED
    BY <1>1, <1>2, <1>3, <1>4, <1>5, <1>6, <1>7, <1>8, <1>9, <1>10, <1>11, <1>12 DEF LoopNext

(* However the passes of run_interactive fall on the clock and whenever it *)
(* is stopped: no key sticks, and no instruction or timer tick is owed     *)
(* twice or forgotten.                                                     *)
THEOREM LoopTimeKept == LoopSpec => []LoopKeepsTime
  <1>1. LoopInv => LoopKeepsTime
    <2> SUFFICES ASSUME LoopInv
                 PROVE  LoopKeepsTime
      OBVIOUS
    <2>1. phase \in {"account", "steps", "timers"} =>
             \A k \in KEYS : k \in keys <=> held[k] # 0 /\ now - held[k] < KEY_HOLD_NS
      BY DEF LoopInv, KeysHeld
    <2> QED
      BY <2>1 DEF LoopInv, KeysHeld, Carried, TimeAccounted, LoopKeepsTime
  <1> QED
    BY <1>1, LoopInvInit, LoopInvStep, PTL DEF LoopSpec

-----------------------------------------------------------------------------
(* The cpu: Cpu.tla.                                                       *)

(* What an unsigned sum is when it may have wrapped: never more than it    *)
(* would have been.                                                        *)
LEMMA Wrapped ==
    ASSUME NEW a \in Nat
    PROVE  a % Wrap16 \in Nat /\ a % Wrap16 <= a
  BY MemoryAssumption, SMT

(* The invariant that is inductive: the registers are numbers, and every   *)
(* entry of the stack is one, those above sp too.                          *)
CpuInv ==
    /\ c_pc \in Nat
    /\ c_i \in Nat
    /\ stack \in [0 .. STACK_DEPTH - 1 -> Nat]
    /\ touched \in [from : Nat, size : Nat]
    /\ StaysInMemory

LEMMA CpuInvInit == CpuInit => CpuInv
  BY MemoryAssumption DEF CpuInit, CpuInv, StaysInMemory, Nothing

(* Where the cpu goes on after an instruction it could fetch.              *)
LEMMA NextAddress ==
    ASSUME CpuInv
    PROVE  /\ Next16(c_pc) \in Nat
           /\ Next16(Next16(c_pc)) \in Nat
           /\ FetchOk(c_pc) => Next16(c_pc) <= CHIP8_MEM
  <1>1. c_pc + 2 \in Nat
    BY DEF CpuInv
  <1>2. Next16(c_pc) \in Nat /\ Next16(c_pc) <= c_pc + 2
    BY <1>1, Wrapped DEF Next16
  <1>3. Next16(c_pc) + 2 \in Nat
    BY <1>2
  <1>4. Next16(Next16(c_pc)) \in Nat
    BY <1>3, Wrapped DEF Next16
  <1> QED
    BY <1>2, <1>4, MemoryAssumption DEF FetchOk, CpuInv

(* The rows of a sprite that are drawn are among those that were checked.  *)
LEMMA RowsDrawn ==
    ASSUME NEW rows \in Nibbles, NEW y \in 0 .. CHIP8_H - 1
    PROVE  Min2(rows, CHIP8_H - y) \in Nat /\ Min2(rows, CHIP8_H - y) <= rows
  BY MemoryAssumption, OpcodeAssumption DEF Min2

LEMMA CpuInvStep == CpuInv /\ [CpuNext]_cpuvars => CpuInv'
  <1> SUFFICES ASSUME CpuInv, [CpuNext]_cpuvars
               PROVE  CpuInv'
    OBVIOUS
  <1> USE MemoryAssumption, OpcodeAssumption
  <1>1. CASE WaitsForKey
    BY <1>1 DEF WaitsForKey, UsesNothing, Uses, Stays, CpuInv, StaysInMemory
  <1>2. CASE Escaped
    BY <1>2 DEF Escaped, UsesNothing, Uses, Stays, CpuInv, StaysInMemory
  <1>3. CASE Compute
    BY <1>3, NextAddress DEF Compute, UsesNothing, Uses, Stays, CpuInv, StaysInMemory
  <1>4. CASE Skip
    BY <1>4, NextAddress DEF Skip, UsesNothing, Uses, Stays, CpuInv, StaysInMemory
  <1>5. CASE Jump
    <2>1. PICK nnn \in Addresses, v \in {0} \cup Bytes : c_pc' = (nnn + v) % Wrap16
      BY <1>5 DEF Jump
    <2>2. nnn + v \in Nat
      OBVIOUS
    <2>3. c_pc' \in Nat
      BY <2>1, <2>2, Wrapped
    <2> QED
      BY <1>5, <2>3 DEF Jump, UsesNothing, Uses, Stays, CpuInv, StaysInMemory
  <1>6. CASE Call
    <2>1. CASE sp >= STACK_DEPTH
      BY <1>6, <2>1, NextAddress DEF Call, UsesNothing, Uses, CpuInv, StaysInMemory
    <2>2. CASE sp < STACK_DEPTH
      <3> ~(sp >= STACK_DEPTH)
        BY <2>2 DEF CpuInv, StaysInMemory
      <3>1. /\ stack' = [stack EXCEPT ![sp] = Next16(c_pc)] /\ sp' = sp + 1
            /\ c_pc' \in Addresses /\ c_i' = c_i
            /\ touched' = [from |-> 0, size |-> 0] /\ slot' = sp
            /\ FetchOk(c_pc)
        BY <1>6, Zenon DEF Call, Uses, Fetched
      <3>2. stack' \in [0 .. STACK_DEPTH - 1 -> Nat]
        BY <3>1, NextAddress DEF CpuInv
      <3>3. \A k \in 0 .. sp' - 1 : stack'[k] <= CHIP8_MEM
        BY <2>2, <3>1, NextAddress DEF CpuInv, StaysInMemory
      <3> QED
        BY <2>2, <3>1, <3>2, <3>3 DEF CpuInv, StaysInMemory
    <2> QED
      BY <2>1, <2>2 DEF CpuInv, StaysInMemory
  <1>7. CASE Return
    <2>1. UNCHANGED <<c_i, stack>>
      BY <1>7 DEF Return
    <2>2. CASE sp = 0
      <3>1. c_pc' = Next16(c_pc) /\ sp' = sp /\ UsesNothing(TRUE)
        BY <1>7, <2>2 DEF Return
      <3> QED
        BY <2>1, <3>1, NextAddress DEF UsesNothing, Uses, CpuInv, StaysInMemory
    <2>3. CASE sp # 0
      <3>1. sp' = sp - 1 /\ c_pc' = stack[sp - 1] /\ Uses(0, 0, sp - 1, FALSE)
        BY <1>7, <2>3 DEF Return
      <3>2. sp - 1 \in 0 .. STACK_DEPTH - 1 /\ c_pc' \in Nat
        BY <2>3, <3>1 DEF CpuInv, StaysInMemory
      <3> QED
        BY <2>1, <3>1, <3>2 DEF Uses, CpuInv, StaysInMemory
    <2> QED
      BY <2>2, <2>3
  <1>8. CASE SetIndex
    <2>1. c_i' \in Nat
      <3>1. \A v \in Bytes : c_i + v \in Nat
        BY DEF CpuInv
      <3>2. \A v \in Bytes : (c_i + v) % Wrap16 \in Nat
        BY <3>1, Wrapped
      <3>3. \A v \in Nibbles : FONT_BASE + GLYPH_BYTES * v \in Nat
        OBVIOUS
      <3>4. \/ c_i' \in Addresses
            \/ \E v \in Bytes : c_i' = (c_i + v) % Wrap16
            \/ \E v \in Nibbles : c_i' = FONT_BASE + GLYPH_BYTES * v
        BY <1>8, Zenon DEF SetIndex
      <3>5. Addresses \subseteq Nat
        OBVIOUS
      <3> QED
        BY <3>2, <3>3, <3>4, <3>5, Zenon
    <2> QED
      BY <1>8, <2>1, NextAddress DEF SetIndex, UsesNothing, Uses, CpuInv, StaysInMemory
  <1>9. CASE Draw
    <2>1. PICK rows \in Nibbles, y \in 0 .. CHIP8_H - 1 :
             IF rows > 0 /\ ~SpanOk(c_i, rows) THEN UsesNothing(TRUE)
             ELSE Uses(c_i, Min2(rows, CHIP8_H - y), -1, FALSE)
      BY <1>9 DEF Draw
    <2>2. c_pc' \in Nat /\ UNCHANGED <<c_i, sp, stack>>
      BY <1>9, NextAddress DEF Draw, Stays
    <2> QED
      BY <2>1, <2>2, RowsDrawn DEF UsesNothing, Uses, SpanOk, CpuInv, StaysInMemory
  <1>10. CASE Copy
    <2>1. PICK size \in {3} \cup {x + 1 : x \in Nibbles} :
             IF ~SpanOk(c_i, size) THEN UsesNothing(TRUE) ELSE Uses(c_i, size, -1, FALSE)
      BY <1>10 DEF Copy
    <2>2. c_pc' \in Nat /\ UNCHANGED <<c_i, sp, stack>>
      BY <1>10, NextAddress DEF Copy, Stays
    <2>3. size \in Nat
      OBVIOUS
    <2> HIDE OpcodeAssumption
    <2> QED
      BY <2>1, <2>2, <2>3 DEF UsesNothing, Uses, SpanOk, CpuInv, StaysInMemory
  <1>11. CASE AwaitKey
    BY <1>11, NextAddress DEF AwaitKey, UsesNothing, Uses, CpuInv, StaysInMemory
  <1>12. CASE KeyDown
    BY <1>12 DEF KeyDown, CpuInv, StaysInMemory
  <1>13. CASE UNCHANGED cpuvars
    BY <1>13 DEF cpuvars, CpuInv, StaysInMemory
  <1> QED
    BY <1>1, <1>2, <1>3, <1>4, <1>5, <1>6, <1>7, <1>8, <1>9, <1>10, <1>11, <1>12, <1>13
    DEF CpuNext

(* cpu_step never reads or writes outside memory and stack, whatever the   *)
(* rom and however large both are (the span_ok and CHIP8_STACK_DEPTH       *)
(* checks of cpu.c).                                                       *)
THEOREM CpuInMemory == CpuSpec => []StaysInMemory
  <1>1. CpuInv => StaysInMemory
    BY DEF CpuInv
  <1> QED
    BY <1>1, CpuInvInit, CpuInvStep, PTL DEF CpuSpec

-----------------------------------------------------------------------------
(* inspect: elf_open and elf_close.                                        *)
SectionType == [type : Types, offset : Nat, size : Nat, entsize : Nat, link : Nat, name : Nat]

Before == {"map", "ehdr", "shtable"}
Unmapped == {"map", "failed", "closed"}
Steps == Before \cup Unmapped \cup {"section", "phtable", "segment", "pick", "symbol", "open", "close"}

ElfTypes ==
    /\ step \in Steps
    /\ len \in Nat /\ i \in Nat
    /\ hdr.shoff \in Nat /\ hdr.shnum \in Nat /\ hdr.shentsize \in Nat /\ hdr.shstrndx \in Nat
    /\ hdr.phoff \in Nat /\ hdr.phnum \in Nat /\ hdr.phentsize \in Nat
    /\ strtab \in [offset : Int, size : Nat]
    /\ sections \in Seq(SectionType)
    /\ nsections \in Nat /\ nsymbols \in Nat

Inside(off, bytes) == off \in Nat /\ bytes \in Nat /\ off + bytes <= len

\* what each loop relies on
ElfTables ==
    /\ mapped <=> step \notin Unmapped
    /\ step \in Before => sections = <<>> /\ nsections = 0 /\ strtab = NoStrtab
    /\ step = "section" =>
          /\ SectionTableFits /\ nsections = hdr.shnum /\ i = Len(sections) /\ i <= hdr.shnum
          /\ strtab.offset # -1 => Inside(strtab.offset, strtab.size)
    /\ step \in {"section", "phtable", "segment", "pick"} =>
          \A k \in DOMAIN sections :
              sections[k].type # "NOBITS" => Inside(sections[k].offset, sections[k].size)
    /\ step \in {"phtable", "segment", "pick"} => nsections = Len(sections)
    /\ step = "segment" =>
          TableBounds(hdr.phoff, hdr.phnum, hdr.phentsize, PHDR_SIZE) /\ i <= hdr.phnum
    /\ step = "symbol" =>
          /\ symtab.entsize \in Nat /\ symtab.entsize >= SYM_SIZE
          /\ Inside(symtab.offset, symtab.size)
          /\ Inside(symtab.names, symtab.nameslen)
          /\ nsymbols = symtab.size \div symtab.entsize

\* what was allocated is what elf_close frees
ElfOwned ==
    /\ live \subseteq Owned
    /\ step \notin {"symbol", "open", "close"} => nsymbols = 0
    /\ step \in Before \cup Unmapped => live = {}

ElfInv == ElfTypes /\ ElfTables /\ ElfOwned /\ ReadsInFile

-----------------------------------------------------------------------------
(* FitsMul and the walk over a table: the record at k ends where the one   *)
(* after it starts at the latest, and the table not before the last.       *)
LEMMA Product ==
    ASSUME NEW k \in Nat, NEW count \in Nat, NEW each \in Nat, k < count
    PROVE  k * each \in Nat /\ k * each + each <= count * each
  <1>1. (count - k - 1) * each \in Nat
    <2>1. count - k - 1 \in Nat
      OBVIOUS
    <2> QED
      BY <2>1
  <1>2. count * each = k * each + each + (count - k - 1) * each
    OBVIOUS
  <1>3. k * each \in Nat
    OBVIOUS
  <1> QED
    BY <1>1, <1>2, <1>3

(* The whole entries of a table do not leave it.                           *)
LEMMA Quotient ==
    ASSUME NEW size \in Nat, NEW each \in Nat, each > 0
    PROVE  size \div each \in Nat /\ (size \div each) * each <= size
  OBVIOUS

(* A record of a table that passed TableBounds lies in the file.           *)
LEMMA RecordInside ==
    ASSUME NEW off \in Nat, NEW count \in Nat, NEW entsize \in Nat, NEW min \in Nat,
           NEW k \in Nat, k < count, len \in Nat,
           TableBounds(off, count, entsize, min)
    PROVE  Inside(off + k * entsize, min)
  <1>1. k * entsize \in Nat /\ k * entsize + entsize <= count * entsize
    BY Product
  <1>2. count * entsize \in Nat
    OBVIOUS
  <1>3. off <= len /\ count * entsize <= len - off /\ entsize >= min
    BY DEF TableBounds, InBounds
  <1> QED
    BY <1>1, <1>2, <1>3 DEF Inside

(* InBounds is what Inside says, without a sum that could wrap.            *)
LEMMA BoundsInside ==
    ASSUME NEW off \in Nat, NEW bytes \in Nat, len \in Nat
    PROVE  InBounds(len, off, bytes) <=> Inside(off, bytes)
  BY DEF InBounds, Inside

(* copy_name looks at the table of names only.                             *)
LEMMA NameInside ==
    ASSUME NEW off \in Int, NEW size \in Nat, NEW idx \in Nat, len \in Nat,
           off # -1 => Inside(off, size),
           NEW name \in CopyName(off, size, idx),
           NEW r \in name.looks
    PROVE  r[1] \in Nat /\ r[2] \in Nat /\ r[1] + r[2] <= len
  <1>1. off # -1 /\ idx < size
    BY DEF CopyName
  <1>2. PICK end \in idx .. size :
           name = [ok |-> end < size, looks |-> {<<off + idx, IF end < size THEN end + 1 - idx
                                                              ELSE size - idx>>}]
    BY <1>1 DEF CopyName
  <1>3. r = <<off + idx, IF end < size THEN end + 1 - idx ELSE size - idx>>
    BY <1>2
  <1> QED
    BY <1>1, <1>3 DEF Inside

(* There is a first section among those of a type. *)
LEMMA FirstIsOne ==
    ASSUME NEW set \in SUBSET Nat, set # {}
    PROVE  FirstOf(set) \in set
  <1>1. \E k \in set : \A m \in set : ~(<<m, k>> \in OpToRel(<, Nat))
    BY NatLessThanWellFounded, WFMin
  <1>2. \A m, k \in Nat : m < k => <<m, k>> \in OpToRel(<, Nat)
    BY DEF OpToRel
  <1>3. \E k \in set : \A m \in set : k <= m
    <2>1. PICK k \in set : \A m \in set : ~(<<m, k>> \in OpToRel(<, Nat))
      BY <1>1
    <2>2. \A m \in set : ~(m < k)
      BY <1>2, <2>1
    <2>3. \A m \in set : k <= m
      BY <2>2
    <2> QED
      BY <2>3
  <1> QED
    BY <1>3 DEF FirstOf

LEMMA ElfInvInit == ElfInit => ElfInv
  BY SizeAssumption DEF ElfInit, ElfInv, ElfTypes, ElfTables, ElfOwned, ReadsInFile, NoHeader,
     NoStrtab, Steps, Before, Unmapped

-----------------------------------------------------------------------------
(* A step that fails goes to elf_close with everything as it was; the      *)
(* bytes it looked at are all there is to show.                            *)
LEMMA FailKeeps ==
    ASSUME ElfInv, step \notin Unmapped, Fails,
           UNCHANGED <<mapped, len, hdr, strtab, sections, nsections, nsymbols, live>>,
           ReadsInFile'
    PROVE  ElfInv'
  <1>1. Owned' = Owned
    BY DEF Owned
  <1> QED
    BY <1>1 DEF ElfInv, ElfTypes, ElfTables, ElfOwned, Fails, Goes, Unmapped, Before, Steps

(* Reading one record, and a name beside it, stays in the file.            *)
LEMMA ReadsKept ==
    ASSUME ElfInv, step \notin Unmapped, UNCHANGED <<mapped, len>>,
           \A r \in reads' : r[1] \in Nat /\ r[1] + r[2] <= len
    PROVE  ReadsInFile'
  BY DEF ElfInv, ElfTables, ReadsInFile

LEMMA MapFileStep == ElfInv /\ MapFile => ElfInv'
  <1> SUFFICES ASSUME ElfInv, MapFile
               PROVE  ElfInv'
    OBVIOUS
  <1> USE SizeAssumption DEF MapFile
  <1>1. ElfTypes'
    <2>1. step' \in Steps /\ i' \in Nat
      BY DEF Goes, Steps, Before, Unmapped, ElfInv, ElfTypes
    <2>2. len' \in Nat
      BY DEF ElfInv, ElfTypes, U64
    <2>3. UNCHANGED <<hdr, strtab, sections, nsections, nsymbols>>
      OBVIOUS
    <2> QED
      BY <2>1, <2>2, <2>3 DEF ElfInv, ElfTypes
  <1>2. ElfTables'
    BY DEF ElfInv, ElfTables, Goes, Before, Unmapped
  <1>3. ElfOwned'
    <2>1. nsections = 0 /\ nsymbols = 0 /\ Owned' = Owned
      BY DEF ElfInv, ElfTables, ElfOwned, Owned, Before
    <2> QED
      BY <2>1 DEF ElfInv, ElfOwned, Goes, Before, Unmapped
  <1>4. ReadsInFile'
    BY DEF ReadsInFile
  <1> QED
    BY <1>1, <1>2, <1>3, <1>4 DEF ElfInv

LEMMA ReadEhdrStep == ElfInv /\ ReadEhdr => ElfInv'
  <1> SUFFICES ASSUME ElfInv, ReadEhdr
               PROVE  ElfInv'
    OBVIOUS
  <1> USE SizeAssumption DEF ReadEhdr
  <1>1. ReadsInFile'
    BY ReadsKept DEF Unmapped, ReadsInFile
  <1>2. CASE Fails /\ UNCHANGED hdr
    BY <1>1, <1>2, FailKeeps DEF Unmapped
  <1>3. CASE hdr' \in Headers /\ Goes("shtable")
    <2>1. ElfTypes'
      <3>1. \A h \in Headers :
               /\ h.shoff \in Nat /\ h.shnum \in Nat /\ h.shentsize \in Nat
               /\ h.shstrndx \in Nat
               /\ h.phoff \in Nat /\ h.phnum \in Nat /\ h.phentsize \in Nat
        BY FileAssumption DEF U64
      <3> QED
        BY <1>3, <3>1 DEF ElfInv, ElfTypes, Goes, Steps, Before
    <2>2. ElfTables'
      BY <1>3 DEF ElfInv, ElfTables, Goes, Before, Unmapped
    <2>3. ElfOwned'
      BY <1>3 DEF ElfInv, ElfOwned, Goes, Owned, Before, Unmapped
    <2> QED
      BY <1>1, <2>1, <2>2, <2>3 DEF ElfInv
  <1> QED
    BY <1>2, <1>3

LEMMA NoSectionTableStep == ElfInv /\ NoSectionTable => ElfInv'
  <1> SUFFICES ASSUME ElfInv, NoSectionTable
               PROVE  ElfInv'
    OBVIOUS
  <1>1. ReadsInFile' /\ Owned' = Owned
    BY DEF NoSectionTable, ReadsInFile, Owned
  <1>2. sections = <<>> /\ nsections = 0
    BY DEF NoSectionTable, ElfInv, ElfTables, Before
  <1> QED
    BY <1>1, <1>2 DEF NoSectionTable, ElfInv, ElfTypes, ElfTables, ElfOwned, Goes, Steps, Before,
       Unmapped

LEMMA BadSectionTableStep == ElfInv /\ BadSectionTable => ElfInv'
  BY FailKeeps DEF BadSectionTable, Unmapped, ReadsInFile

(* The array of sections is allocated and its length set in one step, so   *)
(* elf_close finds every section read into it.                             *)
LEMMA AllocKeeps ==
    ASSUME ElfInv, step = "shtable", SectionTableFits, AllocSections, Goes("section"),
           UNCHANGED <<mapped, len, hdr, sections, nsymbols>>,
           strtab' \in [offset : Int, size : Nat],
           strtab'.offset # -1 => Inside(strtab'.offset, strtab'.size),
           ReadsInFile'
    PROVE  ElfInv'
  <1>1. nsections = 0 /\ sections = <<>> /\ nsections' = hdr.shnum
    BY DEF ElfInv, ElfTables, Before, AllocSections
  <1>2. Owned \cup {<<"sections", 0>>} \subseteq Owned'
    <2>1. 0 .. nsections - 1 = {}
      BY <1>1
    <2>2. {<<"symbol", k>> : k \in 0 .. nsymbols - 1}' = {<<"symbol", k>> : k \in 0 .. nsymbols - 1}
      OBVIOUS
    <2> QED
      BY <2>1, <2>2, Zenon DEF Owned
  <1>3. ElfTypes'
    BY <1>1 DEF ElfInv, ElfTypes, Goes, Steps
  <1>4. ElfTables'
    BY <1>1 DEF ElfInv, ElfTypes, ElfTables, Goes, Before, Unmapped, Inside, SectionTableFits,
       TableBounds
  <1>5. ElfOwned'
    BY <1>2 DEF ElfInv, ElfOwned, Goes, AllocSections, Before, Unmapped
  <1> QED
    BY <1>3, <1>4, <1>5 DEF ElfInv

LEMMA FindShstrtabStep == ElfInv /\ FindShstrtab => ElfInv'
  <1> SUFFICES ASSUME ElfInv, FindShstrtab
               PROVE  ElfInv'
    OBVIOUS
  <1>1. step = "shtable" /\ SectionTableFits /\ UNCHANGED <<mapped, len, hdr, sections, nsymbols>>
    BY DEF FindShstrtab
  <1>2. CASE hdr.shstrndx = 0
    <2>1. reads' = {} /\ strtab' = strtab /\ AllocSections /\ Goes("section")
      BY <1>2 DEF FindShstrtab
    <2>2. strtab = NoStrtab
      BY <1>1 DEF ElfInv, ElfTables, Before
    <2> QED
      BY <1>1, <2>1, <2>2, AllocKeeps DEF ReadsInFile, NoStrtab
  <1>3. CASE hdr.shstrndx # 0
    <2>1. reads' = {SectionAt(hdr.shstrndx)}
      BY <1>3 DEF FindShstrtab
    <2>2. PICK sh \in SectionHeaders :
             IF sh.type = "NOBITS" \/ ~InBounds(len, sh.offset, sh.size)
             THEN Fails /\ UNCHANGED <<strtab, live, nsections>>
             ELSE /\ strtab' = [offset |-> sh.offset, size |-> sh.size]
                  /\ AllocSections /\ Goes("section")
      BY <1>3 DEF FindShstrtab
    <2>3. sh.offset \in Nat /\ sh.size \in Nat /\ len \in Nat
      BY FileAssumption DEF U64, ElfInv, ElfTypes
    <2>4. ReadsInFile'
      <3>1. Inside(hdr.shoff + hdr.shstrndx * hdr.shentsize, SHDR_SIZE)
        BY <1>1, RecordInside, SizeAssumption DEF ElfInv, ElfTypes, SectionTableFits
      <3> QED
        BY <1>1, <2>1, <3>1, ReadsKept DEF SectionAt, Inside, Unmapped
    <2>5. CASE sh.type = "NOBITS" \/ ~InBounds(len, sh.offset, sh.size)
      BY <1>1, <2>2, <2>4, <2>5, FailKeeps DEF Unmapped
    <2>6. CASE ~(sh.type = "NOBITS" \/ ~InBounds(len, sh.offset, sh.size))
      <3>1. Inside(sh.offset, sh.size)
        BY <2>3, <2>6, BoundsInside
      <3>2. strtab' = [offset |-> sh.offset, size |-> sh.size] /\ AllocSections /\ Goes("section")
        BY <2>2, <2>6
      <3> QED
        BY <1>1, <2>3, <2>4, <3>1, <3>2, AllocKeeps
    <2> QED
      BY <2>5, <2>6
  <1> QED
    BY <1>2, <1>3

LEMMA ReadSectionStep == ElfInv /\ ReadSection => ElfInv'
  <1> SUFFICES ASSUME ElfInv, ReadSection
               PROVE  ElfInv'
    OBVIOUS
  <1>1. /\ step = "section" /\ i < hdr.shnum /\ SectionTableFits /\ nsections = hdr.shnum
        /\ i = Len(sections)
        /\ strtab.offset # -1 => Inside(strtab.offset, strtab.size)
        /\ UNCHANGED <<mapped, len, hdr, strtab, nsections, nsymbols>>
    BY DEF ReadSection, ElfInv, ElfTables
  <1>2. PICK sh \in SectionHeaders :
           \/ /\ sh.type # "NOBITS" /\ ~InBounds(len, sh.offset, sh.size)
              /\ reads' = {SectionAt(i)} /\ Fails /\ UNCHANGED <<sections, live>>
           \/ /\ sh.type = "NOBITS" \/ InBounds(len, sh.offset, sh.size)
              /\ \E name \in CopyName(strtab.offset, strtab.size, sh.name) :
                    /\ reads' = {SectionAt(i)} \cup name.looks
                    /\ IF name.ok
                       THEN /\ sections' = Append(sections, sh)
                            /\ live' = live \cup {<<"section", i>>}
                            /\ i' = i + 1 /\ UNCHANGED step
                       ELSE Fails /\ UNCHANGED <<sections, live>>
    BY DEF ReadSection
  <1>3. sh \in SectionType
    BY FileAssumption DEF SectionType, U64
  <1>4. sh.offset \in Nat /\ sh.size \in Nat /\ sh.name \in Nat /\ len \in Nat /\ i \in Nat
    BY <1>3 DEF SectionType, ElfInv, ElfTypes
  <1>5. \A r \in {SectionAt(i)} : r[1] \in Nat /\ r[1] + r[2] <= len
    <2>1. Inside(hdr.shoff + i * hdr.shentsize, SHDR_SIZE)
      BY <1>1, <1>4, RecordInside, SizeAssumption DEF ElfInv, ElfTypes, SectionTableFits
    <2> QED
      BY <2>1 DEF SectionAt, Inside
  <1>6. CASE reads' = {SectionAt(i)} /\ Fails /\ UNCHANGED <<sections, live>>
    BY <1>1, <1>5, <1>6, ReadsKept, FailKeeps DEF Unmapped
  <1>7. ASSUME sh.type = "NOBITS" \/ InBounds(len, sh.offset, sh.size),
               NEW name \in CopyName(strtab.offset, strtab.size, sh.name),
               reads' = {SectionAt(i)} \cup name.looks,
               IF name.ok
               THEN /\ sections' = Append(sections, sh)
                    /\ live' = live \cup {<<"section", i>>}
                    /\ i' = i + 1 /\ UNCHANGED step
               ELSE Fails /\ UNCHANGED <<sections, live>>
        PROVE  ElfInv'
    <2>1. ReadsInFile'
      <3>1. strtab.offset \in Int /\ strtab.size \in Nat
        BY DEF ElfInv, ElfTypes
      <3>2. \A r \in name.looks : r[1] \in Nat /\ r[1] + r[2] <= len
        BY <1>1, <1>4, <3>1, NameInside
      <3> QED
        BY <1>1, <1>5, <1>7, <3>2, ReadsKept DEF Unmapped
    <2>2. CASE ~name.ok
      BY <1>1, <1>7, <2>1, <2>2, FailKeeps DEF Unmapped
    <2>3. CASE name.ok
      <3>1. /\ sections' = Append(sections, sh)
            /\ live' = live \cup {<<"section", i>>}
            /\ i' = i + 1 /\ step' = "section"
        BY <1>1, <1>7, <2>3
      <3>2. sections \in Seq(SectionType)
        BY DEF ElfInv, ElfTypes
      <3>3. /\ sections' \in Seq(SectionType) /\ Len(sections') = i + 1
            /\ DOMAIN sections' = 1 .. i + 1
            /\ \A k \in 1 .. i : sections'[k] = sections[k]
            /\ sections'[i + 1] = sh
        BY <1>1, <1>3, <3>1, <3>2
      <3>4. ElfTypes'
        BY <1>1, <1>4, <3>1, <3>3 DEF ElfInv, ElfTypes
      <3>5. sh.type # "NOBITS" => Inside(sh.offset, sh.size)
        BY <1>4, <1>7, BoundsInside
      <3>6. \A k \in DOMAIN sections' :
               sections'[k].type # "NOBITS" => Inside(sections'[k].offset, sections'[k].size)
        <4>1. \A k \in 1 .. i :
                 sections[k].type # "NOBITS" => Inside(sections[k].offset, sections[k].size)
          BY <1>1, <3>2 DEF ElfInv, ElfTables
        <4> QED
          BY <1>4, <3>3, <3>5, <4>1
      <3>7. ElfTables'
        <4>1. i + 1 <= hdr.shnum
          BY <1>1, <1>4 DEF ElfInv, ElfTypes
        <4>2. SectionTableFits'
          BY <1>1 DEF SectionTableFits, TableBounds, InBounds
        <4> QED
          BY <1>1, <3>1, <3>3, <3>6, <4>1, <4>2
          DEF ElfInv, ElfTables, Inside, Before, Unmapped
      <3>8. ElfOwned'
        <4>1. Owned' = Owned
          BY <1>1 DEF Owned
        <4>2. <<"section", i>> \in Owned
          BY <1>1, <1>4 DEF Owned, ElfInv, ElfTypes
        <4> QED
          BY <1>1, <3>1, <4>1, <4>2 DEF ElfInv, ElfOwned, Before, Unmapped
      <3> QED
        BY <2>1, <3>4, <3>7, <3>8 DEF ElfInv
    <2> QED
      BY <2>2, <2>3
  <1> QED
    BY <1>2, <1>6, <1>7

LEMMA SectionsReadStep == ElfInv /\ SectionsRead => ElfInv'
  <1> SUFFICES ASSUME ElfInv, SectionsRead
               PROVE  ElfInv'
    OBVIOUS
  <1>1. ReadsInFile' /\ Owned' = Owned
    BY DEF SectionsRead, ReadsInFile, Owned
  <1> QED
    BY <1>1 DEF SectionsRead, ElfInv, ElfTypes, ElfTables, ElfOwned, Goes, Steps, Before, Unmapped,
       Inside

LEMMA SegmentTableStep == ElfInv /\ SegmentTable => ElfInv'
  <1> SUFFICES ASSUME ElfInv, SegmentTable
               PROVE  ElfInv'
    OBVIOUS
  <1>1. /\ step = "phtable" /\ reads' = {}
        /\ UNCHANGED <<mapped, len, hdr, strtab, sections, nsections, nsymbols>>
    BY DEF SegmentTable
  <1>2. ReadsInFile' /\ Owned' = Owned
    BY <1>1 DEF ReadsInFile, Owned
  <1>3. CASE Fails /\ UNCHANGED live
    BY <1>1, <1>2, <1>3, FailKeeps DEF Unmapped
  <1>4. CASE Goes("pick") /\ UNCHANGED live
    BY <1>1, <1>2, <1>4 DEF ElfInv, ElfTypes, ElfTables, ElfOwned, Goes, Steps, Before, Unmapped,
       Inside
  <1>5. CASE /\ TableBounds(hdr.phoff, hdr.phnum, hdr.phentsize, PHDR_SIZE)
             /\ live' = live \cup {<<"segments", 0>>} /\ Goes("segment")
    <2>1. TableBounds(hdr.phoff, hdr.phnum, hdr.phentsize, PHDR_SIZE)'
      BY <1>1, <1>5 DEF TableBounds, InBounds
    <2>2. <<"segments", 0>> \in Owned
      BY DEF Owned
    <2> QED
      BY <1>1, <1>2, <1>5, <2>1, <2>2
      DEF ElfInv, ElfTypes, ElfTables, ElfOwned, Goes, Steps, Before, Unmapped, Inside
  <1>6. hdr.phnum \in Nat
    BY DEF ElfInv, ElfTypes
  <1> QED
    BY <1>3, <1>4, <1>5, <1>6 DEF SegmentTable

LEMMA ReadSegmentStep == ElfInv /\ ReadSegment => ElfInv'
  <1> SUFFICES ASSUME ElfInv, ReadSegment
               PROVE  ElfInv'
    OBVIOUS
  <1>1. /\ step = "segment"
        /\ UNCHANGED <<mapped, len, hdr, strtab, sections, nsections, nsymbols, live>>
        /\ TableBounds(hdr.phoff, hdr.phnum, hdr.phentsize, PHDR_SIZE)
    BY DEF ReadSegment, ElfInv, ElfTables
  <1>2. CASE i = hdr.phnum
    <2>1. ReadsInFile' /\ Owned' = Owned
      BY <1>1, <1>2 DEF ReadSegment, ReadsInFile, Owned
    <2> QED
      BY <1>1, <1>2, <2>1 DEF ReadSegment, ElfInv, ElfTypes, ElfTables, ElfOwned, Goes, Steps,
         Before, Unmapped, Inside
  <1>3. CASE i # hdr.phnum
    <2>1. reads' = {<<hdr.phoff + i * hdr.phentsize, PHDR_SIZE>>}
      BY <1>3 DEF ReadSegment
    <2>2. i < hdr.phnum /\ i \in Nat /\ hdr.phnum \in Nat
      BY <1>1, <1>3 DEF ElfInv, ElfTypes, ElfTables
    <2>3. Inside(hdr.phoff + i * hdr.phentsize, PHDR_SIZE)
      BY <1>1, <2>2, RecordInside, SizeAssumption DEF ElfInv, ElfTypes
    <2>4. ReadsInFile'
      BY <1>1, <2>1, <2>3, ReadsKept DEF Inside, Unmapped
    <2>5. CASE Fails
      BY <1>1, <2>4, <2>5, FailKeeps DEF Unmapped
    <2>6. CASE i' = i + 1 /\ UNCHANGED step
      <3>1. TableBounds(hdr.phoff, hdr.phnum, hdr.phentsize, PHDR_SIZE)' /\ Owned' = Owned
        BY <1>1 DEF TableBounds, InBounds, Owned
      <3> QED
        BY <1>1, <2>2, <2>4, <2>6, <3>1
        DEF ElfInv, ElfTypes, ElfTables, ElfOwned, Before, Unmapped, Inside
    <2> QED
      BY <1>3, <2>5, <2>6 DEF ReadSegment
  <1> QED
    BY <1>2, <1>3

LEMMA PickSymtabStep == ElfInv /\ PickSymtab => ElfInv'
  <1> SUFFICES ASSUME ElfInv, PickSymtab
               PROVE  ElfInv'
    OBVIOUS
  <1>1. /\ step = "pick" /\ reads' = {} /\ nsections = Len(sections) /\ nsymbols = 0
        /\ UNCHANGED <<mapped, len, hdr, strtab, sections, nsections>>
        /\ \A k \in DOMAIN sections :
              sections[k].type # "NOBITS" => Inside(sections[k].offset, sections[k].size)
    BY DEF PickSymtab, ElfInv, ElfTables, ElfOwned
  <1>2. ReadsInFile' /\ SYM_SIZE \in Nat \ {0} /\ len \in Nat
    BY <1>1, SizeAssumption DEF ReadsInFile, ElfInv, ElfTypes
  <1>3. CASE Goes("open") /\ UNCHANGED <<nsymbols, live>>
    <2>1. Owned' = Owned
      BY <1>1, <1>3 DEF Owned
    <2> QED
      BY <1>1, <1>2, <1>3, <2>1
      DEF ElfInv, ElfTypes, ElfTables, ElfOwned, Goes, Steps, Before, Unmapped
  <1>4. CASE Fails /\ UNCHANGED <<nsymbols, live>>
    BY <1>1, <1>2, <1>4, FailKeeps DEF Unmapped
  <1>5. ASSUME NEW tab, tab = sections[FirstOf(Picked)], Picked # {},
               ~(tab.entsize < SYM_SIZE \/ ~NamesFit(tab)),
               symtab' = [offset |-> tab.offset, size |-> tab.size, entsize |-> tab.entsize,
                          names |-> sections[tab.link + 1].offset,
                          nameslen |-> sections[tab.link + 1].size],
               nsymbols' = tab.size \div tab.entsize,
               live' = live \cup {<<"symbols", 0>>},
               Goes("symbol")
        PROVE  ElfInv'
    <2>1. sections \in Seq(SectionType) /\ DOMAIN sections = 1 .. Len(sections)
      BY DEF ElfInv, ElfTypes
    <2>2. FirstOf(Picked) \in DOMAIN sections /\ tab.type \in {"SYMTAB", "DYNSYM"}
      <3>1. Picked \in SUBSET Nat
        BY <2>1 DEF Picked, OfType
      <3>2. FirstOf(Picked) \in Picked
        BY <1>5, <3>1, FirstIsOne
      <3> QED
        BY <1>5, <3>2 DEF Picked, OfType
    <2>3. tab \in SectionType
      BY <1>5, <2>1, <2>2
    <2>4. Inside(tab.offset, tab.size)
      BY <1>1, <1>5, <2>2
    <2>5. tab.link + 1 \in DOMAIN sections
      <3>1. tab.link \in Nat
        BY <2>3 DEF SectionType
      <3>2. tab.link < Len(sections)
        BY <1>1, <1>5 DEF NamesFit
      <3> QED
        BY <2>1, <3>1, <3>2
    <2>6. Inside(sections[tab.link + 1].offset, sections[tab.link + 1].size)
      BY <1>1, <1>5, <2>5 DEF NamesFit
    <2>7. tab.entsize \in Nat /\ tab.entsize >= SYM_SIZE /\ tab.entsize > 0 /\ tab.size \in Nat
      BY <1>2, <1>5, <2>3 DEF SectionType
    <2>8. nsymbols' \in Nat
      BY <1>5, <2>7, Quotient
    <2>9. Owned \cup {<<"symbols", 0>>} \subseteq Owned'
      <3>1. 0 .. nsymbols - 1 = {}
        BY <1>1
      <3>2. {<<"section", k>> : k \in 0 .. nsections - 1}' = {<<"section", k>> : k \in 0 .. nsections - 1}
        BY <1>1
      <3> QED
        BY <3>1, <3>2, Zenon DEF Owned
    <2>10. ElfTypes'
      BY <1>1, <1>5, <2>8 DEF ElfInv, ElfTypes, Goes, Steps
    <2>11. ElfTables'
      BY <1>1, <1>5, <2>4, <2>6, <2>7 DEF ElfInv, ElfTables, Goes, Before, Unmapped, Inside
    <2>12. ElfOwned'
      BY <1>1, <1>5, <2>9 DEF ElfInv, ElfOwned, Goes, Before, Unmapped
    <2> QED
      BY <1>2, <2>10, <2>11, <2>12 DEF ElfInv
  <1> QED
    BY <1>3, <1>4, <1>5 DEF PickSymtab

(* The entries of the symbol table that fit it are read one by one, and    *)
(* the check of each passes.                                               *)
LEMMA EntryFits ==
    ASSUME ElfInv, step = "symbol", i < nsymbols
    PROVE  /\ symtab.offset \in Nat /\ i * symtab.entsize \in Nat
           /\ InBounds(symtab.size, i * symtab.entsize, SYM_SIZE)
           /\ Inside(symtab.offset + i * symtab.entsize, SYM_SIZE)
  <1>1. /\ symtab.entsize \in Nat /\ symtab.entsize >= SYM_SIZE /\ symtab.entsize > 0
        /\ Inside(symtab.offset, symtab.size) /\ nsymbols = symtab.size \div symtab.entsize
        /\ SYM_SIZE \in Nat
    BY SizeAssumption DEF ElfInv, ElfTables
  <1>2. symtab.offset \in Nat /\ symtab.size \in Nat /\ symtab.offset + symtab.size <= len
    BY <1>1 DEF Inside
  <1>3. nsymbols \in Nat /\ i \in Nat /\ len \in Nat
    BY DEF ElfInv, ElfTypes
  <1>4. nsymbols * symtab.entsize <= symtab.size
    BY <1>1, <1>2, Quotient
  <1>5. i * symtab.entsize \in Nat /\ i * symtab.entsize + symtab.entsize <= nsymbols * symtab.entsize
    BY <1>1, <1>3, Product
  <1>6. nsymbols * symtab.entsize \in Nat
    BY <1>1, <1>3
  <1> QED
    BY <1>1, <1>2, <1>3, <1>4, <1>5, <1>6 DEF InBounds, Inside

LEMMA ReadSymbolStep == ElfInv /\ ReadSymbol => ElfInv'
  <1> SUFFICES ASSUME ElfInv, ReadSymbol
               PROVE  ElfInv'
    OBVIOUS
  <1> DEFINE off == i * symtab.entsize
  <1>1. /\ step = "symbol" /\ i < nsymbols
        /\ UNCHANGED <<mapped, len, hdr, strtab, sections, nsections, symtab, nsymbols>>
    BY DEF ReadSymbol
  <1>2. symtab.offset \in Nat /\ off \in Nat /\ Inside(symtab.offset + off, SYM_SIZE)
    BY <1>1, EntryFits
  <1> DEFINE Entry(name) ==
           /\ reads' = {<<symtab.offset + off, SYM_SIZE>>} \cup name.looks
           /\ IF name.ok
              THEN live' = live \cup {<<"symbol", i>>} /\ i' = i + 1 /\ UNCHANGED step
              ELSE Fails /\ UNCHANGED live
  <1>a. PICK idx \in NameOffsets :
           \E name \in CopyName(symtab.names, symtab.nameslen, idx) : Entry(name)
    BY <1>1, EntryFits DEF ReadSymbol
  <1>3. PICK name \in CopyName(symtab.names, symtab.nameslen, idx) : Entry(name)
    BY <1>a
  <1>4. ReadsInFile'
    <2>1. symtab.names \in Int /\ symtab.nameslen \in Nat /\ Inside(symtab.names, symtab.nameslen)
          /\ len \in Nat /\ idx \in Nat
      BY <1>1, FileAssumption DEF ElfInv, ElfTypes, ElfTables, Inside
    <2>2. \A r \in name.looks : r[1] \in Nat /\ r[1] + r[2] <= len
      BY <2>1, NameInside
    <2>3. \A r \in {<<symtab.offset + off, SYM_SIZE>>} : r[1] \in Nat /\ r[1] + r[2] <= len
      BY <1>2 DEF Inside
    <2> QED
      BY <1>1, <1>3, <2>2, <2>3, ReadsKept DEF Unmapped
  <1>5. CASE Fails /\ UNCHANGED live
    BY <1>1, <1>4, <1>5, FailKeeps DEF Unmapped
  <1>6. CASE live' = live \cup {<<"symbol", i>>} /\ i' = i + 1 /\ UNCHANGED step
    <2>1. i \in Nat /\ nsymbols \in Nat
      BY DEF ElfInv, ElfTypes
    <2>2. Owned' = Owned
      BY <1>1 DEF Owned
    <2>3. <<"symbol", i>> \in Owned
      BY <1>1, <2>1 DEF Owned
    <2>4. ElfTypes'
      BY <1>1, <1>6, <2>1 DEF ElfInv, ElfTypes
    <2>5. ElfTables'
      BY <1>1, <1>6 DEF ElfInv, ElfTables, Before, Unmapped, Inside
    <2>6. ElfOwned'
      BY <1>1, <1>6, <2>2, <2>3 DEF ElfInv, ElfOwned, Before, Unmapped
    <2> QED
      BY <1>4, <2>4, <2>5, <2>6 DEF ElfInv
  <1> QED
    BY <1>3, <1>5, <1>6

LEMMA SymbolsReadStep == ElfInv /\ SymbolsRead => ElfInv'
  <1> SUFFICES ASSUME ElfInv, SymbolsRead
               PROVE  ElfInv'
    OBVIOUS
  <1>1. ReadsInFile' /\ Owned' = Owned
    BY DEF SymbolsRead, ReadsInFile, Owned
  <1> QED
    BY <1>1 DEF SymbolsRead, ElfInv, ElfTypes, ElfTables, ElfOwned, Goes, Steps, Before, Unmapped

LEMMA ElfCloseStep == ElfInv /\ ElfClose => ElfInv'
  BY DEF ElfClose, ElfInv, ElfTypes, ElfTables, ElfOwned, ReadsInFile, Goes, Steps, Before, Unmapped

LEMMA ElfInvStep == ElfInv /\ [ElfNext]_elfvars => ElfInv'
  <1> SUFFICES ASSUME ElfInv, UNCHANGED elfvars
               PROVE  ElfInv'
    BY MapFileStep, ReadEhdrStep, NoSectionTableStep, BadSectionTableStep, FindShstrtabStep,
       ReadSectionStep, SectionsReadStep, SegmentTableStep, ReadSegmentStep, PickSymtabStep,
       ReadSymbolStep, SymbolsReadStep, ElfCloseStep
    DEF ElfNext
  <1>1. Owned' = Owned
    BY DEF elfvars, Owned
  <1> QED
    BY <1>1 DEF elfvars, ElfInv, ElfTypes, ElfTables, ElfOwned, ReadsInFile, Inside,
       SectionTableFits, TableBounds, InBounds

-----------------------------------------------------------------------------
(* Nothing outside the mapping is ever read, whatever the file holds (the  *)
(* checks of elf.c from in_bounds to read_symbols).                        *)
THEOREM ElfReadsInFile == ElfSpec => []ReadsInFile
  <1>1. ElfInv => ReadsInFile
    BY DEF ElfInv
  <1> QED
    BY <1>1, ElfInvInit, ElfInvStep, PTL DEF ElfSpec

(* elf_open that fails leaves nothing behind, as elf_close does, and the   *)
(* symbols allocated are never more than the file has bytes for.           *)
THEOREM ElfGivesBack == ElfSpec => []GivesBack
  <1>1. ElfInv => GivesBack
    <2> SUFFICES ASSUME ElfInv
                 PROVE  GivesBack
      OBVIOUS
    <2>1. step \in {"failed", "closed"} => live = {} /\ ~mapped
      BY DEF ElfInv, ElfTables, ElfOwned, Unmapped
    <2>2. ASSUME step = "symbol"
          PROVE  nsymbols * SYM_SIZE <= len
      <3>1. /\ symtab.entsize \in Nat /\ symtab.entsize >= SYM_SIZE /\ symtab.entsize > 0
            /\ Inside(symtab.offset, symtab.size) /\ nsymbols = symtab.size \div symtab.entsize
            /\ SYM_SIZE \in Nat /\ len \in Nat /\ nsymbols \in Nat
        BY <2>2, SizeAssumption DEF ElfInv, ElfTypes, ElfTables
      <3>2. symtab.size <= len /\ symtab.size \in Nat
        BY <3>1 DEF Inside
      <3>3. nsymbols * symtab.entsize <= symtab.size
        BY <3>1, <3>2, Quotient
      <3>4. nsymbols * (symtab.entsize - SYM_SIZE) \in Nat
        <4>1. symtab.entsize - SYM_SIZE \in Nat
          BY <3>1
        <4> QED
          BY <3>1, <4>1
      <3>5. nsymbols * symtab.entsize = nsymbols * SYM_SIZE + nsymbols * (symtab.entsize - SYM_SIZE)
        BY <3>1
      <3>6. nsymbols * symtab.entsize \in Nat /\ nsymbols * SYM_SIZE \in Nat
        BY <3>1
      <3> QED
        BY <3>1, <3>2, <3>3, <3>4, <3>5, <3>6
    <2> QED
      BY <2>1, <2>2, EntryFits DEF GivesBack
  <1> QED
    BY <1>1, ElfInvInit, ElfInvStep, PTL DEF ElfSpec

-----------------------------------------------------------------------------
(* netmon: the capture loop and the decoder.                               *)
Open == {"test", "recv", "blocked", "decoded", "restore"}

NmTypes ==
    /\ at \in {"start", "install", "returned"} \cup Open
    /\ n \in [total : Nat, shown : Nat, malformed : Nat]
    /\ seen \in [filtered : Nat, late : Nat, pressed : BOOLEAN, missed : BOOLEAN]
    /\ result \in {0, 1, 130}

\* decode_frame stays inside what it was given
InFrame(p) ==
    /\ p.bound \in Nat /\ p.len \in Nat /\ p.total_len \in Nat
    /\ p.bound <= p.len
    /\ p.proto \in {"tcp", "udp"} => p.bound <= ETH_HDR_LEN + p.total_len

\* the handler and the socket are there exactly while the loop runs
Borrowed ==
    /\ sigint = IF at \in Open THEN "netmon" ELSE "shell"
    /\ socket <=> at \in Open \cup {"install"}

\* past sigint_install the flag says there was a Ctrl-C, and one frame at most follows it
FlagIsFresh ==
    /\ at \in {"start", "install"} => seen.late = 0
    /\ at \in Open /\ g_stop => seen.pressed
    /\ seen.late = 0 \/ (seen.late = 1 /\ g_stop /\ at \notin {"recv", "blocked"})

Ends ==
    /\ at \notin {"restore", "returned"} => result = 0
    /\ result = 130 => seen.pressed /\ at = "returned"
    /\ at = "restore" => result = 1 \/ g_stop
    /\ at = "returned" => result # 0

InHand == IF at = "decoded" THEN 1 ELSE 0

Counted ==
    LET counted == n.shown + n.malformed + seen.filtered + InHand IN
    n.total = counted \/ (result = 1 /\ n.total = counted + 1)

NmInv == NmTypes /\ InFrame(packet) /\ Borrowed /\ FlagIsFresh /\ Ends /\ Counted

-----------------------------------------------------------------------------
(* Every length decode.c reads is checked against what is left before the  *)
(* bytes behind it are.                                                    *)
LEMMA DecodeInFrame ==
    ASSUME NEW f,
           f.len \in Nat, f.ihl \in Nat, f.total_len \in Nat, f.doff \in Nat, f.ulen \in Nat
    PROVE  InFrame(Decode(f))
  <1> USE DEF InFrame, Outcome, Invalid, ETH_HDR_LEN, IP_MIN_IHL, TCP_MIN_HDR_LEN, TCP_MIN_DOFF,
             UDP_HDR_LEN
  <1>1. ASSUME NEW off \in Nat, NEW avail \in Nat,
               off + avail <= f.len, off + avail <= ETH_HDR_LEN + f.total_len
        PROVE  InFrame(DecodeTcp(f, off, avail)) /\ InFrame(DecodeUdp(f, off, avail))
    <2>1. InFrame(DecodeTcp(f, off, avail))
      BY <1>1 DEF DecodeTcp
    <2>2. InFrame(DecodeUdp(f, off, avail))
      BY <1>1 DEF DecodeUdp
    <2> QED
      BY <2>1, <2>2
  <1>2. ASSUME NEW avail \in Nat, f.len = ETH_HDR_LEN + avail
        PROVE  InFrame(DecodeIpv4(f, avail))
    <2> DEFINE fits == /\ avail >= 20
                       /\ ~(f.version # 4 \/ f.ihl < 5 \/ f.ihl * 4 > avail)
                       /\ TotalFits(f, avail)
               off == ETH_HDR_LEN + f.ihl * 4
               payload == f.total_len - f.ihl * 4
    <2>1. CASE ~fits
      BY <1>2, <2>1 DEF DecodeIpv4
    <2>2. CASE fits
      <3>1. off \in Nat /\ payload \in Nat /\ off + payload <= f.len
            /\ off + payload <= ETH_HDR_LEN + f.total_len
        BY <1>2, <2>2 DEF TotalFits
      <3>2. InFrame(DecodeTcp(f, off, payload)) /\ InFrame(DecodeUdp(f, off, payload))
        BY <1>1, <3>1
      <3>3. InFrame(Outcome(f, "other_ip", ETH_HDR_LEN + 20, {}))
        BY <1>2, <2>2
      <3>4. DecodeIpv4(f, avail) = CASE f.protocol = "tcp" -> DecodeTcp(f, off, payload)
                                     [] f.protocol = "udp" -> DecodeUdp(f, off, payload)
                                     [] OTHER -> Outcome(f, "other_ip", ETH_HDR_LEN + 20, {})
        BY <2>2 DEF DecodeIpv4
      <3> HIDE DEF InFrame, Outcome
      <3> QED
        BY <3>2, <3>3, <3>4
    <2> QED
      BY <2>1, <2>2
  <1> QED
    <2>1. CASE f.len < ETH_HDR_LEN \/ f.ether # "ipv4"
      BY <2>1 DEF Decode
    <2>2. CASE ~(f.len < ETH_HDR_LEN \/ f.ether # "ipv4")
      <3>1. f.len - ETH_HDR_LEN \in Nat /\ f.len = ETH_HDR_LEN + (f.len - ETH_HDR_LEN)
        BY <2>2
      <3> QED
        BY <1>2, <2>2, <3>1 DEF Decode
    <2> QED
      BY <2>1, <2>2

LEMMA NmInvInit == NmInit => NmInv
  BY DEF NmInit, NmInv, NmTypes, InFrame, Borrowed, FlagIsFresh, Ends, Counted, InHand, Open,
     NoPacket, Outcome

LEMMA NmInvStep == NmInv /\ [NmNext]_nmvars => NmInv'
  <1> SUFFICES ASSUME NmInv, [NmNext]_nmvars
               PROVE  NmInv'
    OBVIOUS
  <1> USE DEF NmInv, NmTypes, Borrowed, FlagIsFresh, Ends, Counted, InHand, Open
  <1>1. InFrame(NoPacket)
    BY DEF InFrame, NoPacket, Outcome, ETH_HDR_LEN
  <1>2. CASE Refused
    BY <1>2 DEF Refused, Returns, InFrame
  <1>3. CASE CaptureOpen
    BY <1>3 DEF CaptureOpen, InFrame
  <1>4. CASE SigintInstall
    <2>1. /\ at = "install" /\ g_stop' = FALSE /\ seen.late = 0 /\ result = 0
          /\ UNCHANGED <<packet, n, seen>>
      BY <1>4 DEF SigintInstall
    <2>2. CASE sigint' = "netmon" /\ at' = "test" /\ UNCHANGED <<socket, result>>
      BY <2>1, <2>2 DEF InFrame
    <2>3. CASE socket' = FALSE /\ Returns(1) /\ UNCHANGED sigint
      BY <2>1, <2>3 DEF Returns, InFrame
    <2> QED
      BY <1>4, <2>2, <2>3 DEF SigintInstall
  <1>5. CASE TestStop
    BY <1>5 DEF TestStop, InFrame
  <1>6. CASE CallRecv
    BY <1>6 DEF CallRecv, InFrame
  <1>7. CASE Recv
    <2>1. PICK f \in Frames : packet' = Decode(CutToBuffer(f))
      BY <1>7 DEF Recv
    <2>2. InFrame(packet)'
      <3> DEFINE g == CutToBuffer(f)
      <3>1. g.len \in Nat /\ g.ihl \in Nat /\ g.total_len \in Nat /\ g.doff \in Nat /\ g.ulen \in Nat
        BY FrameAssumption, LimitAssumption DEF CutToBuffer
      <3> HIDE DEF g
      <3>2. InFrame(Decode(g))
        BY <3>1, DecodeInFrame
      <3> QED
        BY <2>1, <3>2 DEF g, InFrame
    <2>3. n' = [n EXCEPT !.total = @ + 1] /\ at = "blocked" /\ at' = "decoded"
          /\ seen' = [seen EXCEPT !.late = IF g_stop THEN @ + 1 ELSE @]
          /\ UNCHANGED <<g_stop, sigint, socket, result>>
      BY <1>7 DEF Recv
    <2> QED
      BY <2>2, <2>3
  <1>8. CASE RecvFails
    BY <1>8 DEF RecvFails, InFrame
  <1>15. CASE RecvEmpty
    BY <1>15 DEF RecvEmpty, InFrame
  <1>9. CASE Malformed
    BY <1>1, <1>9 DEF Malformed, InFrame
  <1>10. CASE Filtered
    BY <1>1, <1>10 DEF Filtered, InFrame
  <1>11. CASE Emit
    BY <1>1, <1>11 DEF Emit, InFrame
  <1>12. CASE Restore
    BY <1>12 DEF Restore, Returns, InFrame
  <1>13. CASE CtrlC
    <2>1. /\ at # "returned" /\ at' = IF at = "blocked" THEN "test" ELSE at
          /\ g_stop' = (g_stop \/ sigint = "netmon")
          /\ UNCHANGED <<filter, packet, n, sigint, socket, result>>
      BY <1>13 DEF CtrlC
    <2>2. /\ seen' \in [filtered : Nat, late : Nat, pressed : BOOLEAN, missed : BOOLEAN]
          /\ seen'.filtered = seen.filtered /\ seen'.late = seen.late
          /\ seen'.pressed = (seen.pressed \/ sigint = "netmon")
          /\ seen'.missed = (sigint = "netmon" /\ at = "recv")
      <3> DEFINE press == seen.pressed \/ sigint = "netmon"
                 miss == sigint = "netmon" /\ at = "recv"
      <3>1. seen' = [seen EXCEPT !.pressed = press, !.missed = miss]
        BY <1>13 DEF CtrlC
      <3>2. press \in BOOLEAN /\ miss \in BOOLEAN
        OBVIOUS
      <3> HIDE DEF press, miss
      <3>3. /\ seen' \in [filtered : Nat, late : Nat, pressed : BOOLEAN, missed : BOOLEAN]
            /\ seen'.filtered = seen.filtered /\ seen'.late = seen.late
            /\ seen'.pressed = press /\ seen'.missed = miss
        BY <3>1, <3>2
      <3> QED
        BY <3>3 DEF press, miss
    <2> QED
      BY <2>1, <2>2 DEF InFrame
  <1>14. CASE UNCHANGED nmvars
    BY <1>14 DEF nmvars, InFrame
  <1> QED
    BY <1>2, <1>3, <1>4, <1>5, <1>6, <1>7, <1>8, <1>9, <1>10, <1>11, <1>12, <1>13, <1>14, <1>15
    DEF NmNext, NetmonStep

(* Whatever arrives and whenever Ctrl-C is pressed: no byte past the frame *)
(* is looked at, no packet is lost from the counts, at most one comes      *)
(* after the interrupt, and SIGINT and the socket are given back.          *)
THEOREM CaptureAccountedFor == NmSpec => []CaptureAccounted
  <1>1. NmInv => CaptureAccounted
    BY DEF NmInv, NmTypes, InFrame, Borrowed, FlagIsFresh, Ends, Counted, InHand, Open,
       CaptureAccounted
  <1> QED
    BY <1>1, NmInvInit, NmInvStep, PTL DEF NmSpec
=============================================================================
