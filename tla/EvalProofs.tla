----------------------------- MODULE EvalProofs -----------------------------
(***************************************************************************)
(* DepthsCountFrames and NothingStartsWhileHalted for every tree and every *)
(* cap on recursion.                                                       *)
(***************************************************************************)
EXTENDS Eval, TLAPS, FiniteSetTheorems, SequenceTheorems, WellFoundedInduction

Phases == {"start", "call", "head", "clear", "cond", "body"}

Shells == [last_status : Statuses, flow : Flows, flow_status : Statuses,
           want_exit : BOOLEAN, loop_depth : Nat, func_depth : 0 .. FuncDepthMax]

\* only commands call, only loops have the phases of a loop, and no child is visited twice
FitsItsNode(f) ==
    /\ IsLoop(f.node) <=> f.phase \in {"head", "clear", "cond", "body"}
    /\ f.phase = "call" => Nodes[f.node].kind = "command"
    /\ Nodes[f.node].kind = "command" => f.at = 0
    /\ Nodes[f.node].kind = "list" => f.at <= Len(Nodes[f.node].nodes)
    /\ Nodes[f.node].kind = "if" => f.at <= Len(Nodes[f.node].conds)

Frames ==
    {f \in [node : DOMAIN Nodes, phase : Phases, at : Nat, status : Statuses] : FitsItsNode(f)}

\* about to start something, without looking at the flow state first
Fresh(f) == f.phase \in {"head", "clear"} \/ (f.phase = "start" /\ f.at = 0)

LoopsIn(st) == {k \in DOMAIN st : IsLoop(st[k].node)}
CallsIn(st) == {k \in DOMAIN st : st[k].phase = "call"}

\* what has to hold of a stack below the frame on top, and of the Shell with it
Waits(st) == \A k \in DOMAIN st : ~Fresh(st[k])

Counts(st, s) ==
    s.loop_depth = Cardinality(LoopsIn(st)) /\ s.func_depth = Cardinality(CallsIn(st))

Caught(st, s) ==
    /\ s.flow \in {"break", "continue"} => LoopsIn(st) \cup CallsIn(st) # {}
    /\ s.flow = "return" => CallsIn(st) # {}
    /\ s.flow = "none" \/ ~s.want_exit

WalkTypes ==
    /\ stack \in Seq(Frames) /\ sh \in Shells
    /\ func \in DOMAIN Nodes \cup {NoBody}
    /\ watching \in BOOLEAN /\ int \in BOOLEAN /\ fired \in BOOLEAN

WalkInv ==
    /\ WalkTypes
    /\ Counts(stack, sh) /\ Caught(stack, sh)
    /\ watching = (LoopsIn(stack) # {})
    /\ int => watching
    /\ stack # <<>> => Waits(Front(stack)) /\ (Halted => ~Fresh(Top))

-----------------------------------------------------------------------------
(* A stack and the frame on top of it.                                     *)
LEMMA FrontAndTop ==
    ASSUME NEW st \in Seq(Frames), st # <<>>
    PROVE  /\ Front(st) \in Seq(Frames) /\ Last(st) \in Frames
           /\ Len(st) \in Nat \ {0} /\ Len(Front(st)) = Len(st) - 1
           /\ \A k \in 1 .. Len(st) - 1 : Front(st)[k] = st[k]
           /\ Append(Front(st), Last(st)) = st
  <1>1. Len(st) \in Nat \ {0} /\ Last(st) \in Frames
    <2>1. Len(st) \in Nat \ {0}
      BY EmptySeq
    <2> QED
      BY <2>1 DEF Last
  <1>2. \A k \in 1 .. Len(st) - 1 : st[k] \in Frames
    BY <1>1
  <1>3. /\ Front(st) \in Seq(Frames) /\ Len(Front(st)) = Len(st) - 1
        /\ \A k \in 1 .. Len(st) - 1 : Front(st)[k] = st[k]
    <2> DEFINE l == Len(st) - 1
    <2>1. l \in Nat /\ 1 \in Int /\ l \in Int
      BY <1>1
    <2>2. Front(st) = SubSeq(st, 1, l)
      BY DEF Front
    <2>3. \A k \in 1 .. l : st[k] \in Frames
      BY <1>2
    <2> HIDE DEF l
    <2>4. /\ SubSeq(st, 1, l) \in Seq(Frames)
          /\ Len(SubSeq(st, 1, l)) = IF 1 <= l THEN l - 1 + 1 ELSE 0
          /\ \A k \in 1 .. l - 1 + 1 : SubSeq(st, 1, l)[k] = st[1 + k - 1]
      BY <2>1, <2>3, SubSeqProperties
    <2>5. Len(SubSeq(st, 1, l)) = l
      BY <2>1, <2>4
    <2>6. \A k \in 1 .. l : SubSeq(st, 1, l)[k] = st[k]
      <3> TAKE k \in 1 .. l
      <3>1. k \in 1 .. l - 1 + 1 /\ 1 + k - 1 = k
        BY <2>1
      <3> QED
        BY <2>4, <3>1
    <2> QED
      BY <2>2, <2>4, <2>5, <2>6 DEF l
  <1>4. Append(Front(st), Last(st)) = st
    <2> DEFINE ap == Append(Front(st), Last(st))
    <2>1. ap \in Seq(Frames) /\ Len(ap) = Len(st)
      BY <1>1, <1>3, AppendProperties
    <2>2. \A k \in 1 .. Len(st) : ap[k] = st[k]
      BY <1>1, <1>3, AppendProperties DEF Last
    <2> QED
      BY <2>1, <2>2, SeqEqual
  <1> QED
    BY <1>1, <1>3, <1>4

LEMMA Appended ==
    ASSUME NEW st \in Seq(Frames), NEW f \in Frames
    PROVE  /\ Append(st, f) \in Seq(Frames) /\ Append(st, f) # <<>>
           /\ Len(Append(st, f)) = Len(st) + 1
           /\ Front(Append(st, f)) = st /\ Last(Append(st, f)) = f
  BY DEF Front, Last

(* A frame on top adds itself to the loops or to the calls, or to neither. *)
LEMMA CountsAdd ==
    ASSUME NEW st \in Seq(Frames), NEW f \in Frames
    PROVE  /\ IsFiniteSet(LoopsIn(st)) /\ IsFiniteSet(CallsIn(st))
           /\ Cardinality(LoopsIn(st)) \in Nat /\ Cardinality(CallsIn(st)) \in Nat
           /\ LoopsIn(Append(st, f)) =
                IF IsLoop(f.node) THEN LoopsIn(st) \cup {Len(st) + 1} ELSE LoopsIn(st)
           /\ CallsIn(Append(st, f)) =
                IF f.phase = "call" THEN CallsIn(st) \cup {Len(st) + 1} ELSE CallsIn(st)
           /\ Cardinality(LoopsIn(Append(st, f))) =
                Cardinality(LoopsIn(st)) + (IF IsLoop(f.node) THEN 1 ELSE 0)
           /\ Cardinality(CallsIn(Append(st, f))) =
                Cardinality(CallsIn(st)) + (IF f.phase = "call" THEN 1 ELSE 0)
  <1>1. LoopsIn(st) \in SUBSET Nat /\ CallsIn(st) \in SUBSET Nat /\ Len(st) \in Nat
    BY DEF LoopsIn, CallsIn
  <1>2. \A k \in LoopsIn(st) \cup CallsIn(st) : k <= Len(st)
    BY DEF LoopsIn, CallsIn
  <1>3. IsFiniteSet(LoopsIn(st)) /\ IsFiniteSet(CallsIn(st))
    BY <1>1, <1>2, FS_BoundedSetOfNaturals
  <1>4. Cardinality(LoopsIn(st)) \in Nat /\ Cardinality(CallsIn(st)) \in Nat
    BY <1>3, FS_CardinalityType
  <1>5. LoopsIn(Append(st, f)) =
          IF IsLoop(f.node) THEN LoopsIn(st) \cup {Len(st) + 1} ELSE LoopsIn(st)
    BY DEF LoopsIn
  <1>6. CallsIn(Append(st, f)) =
          IF f.phase = "call" THEN CallsIn(st) \cup {Len(st) + 1} ELSE CallsIn(st)
    BY DEF CallsIn
  <1>7. Len(st) + 1 \notin LoopsIn(st) /\ Len(st) + 1 \notin CallsIn(st)
    BY <1>1, <1>2
  <1>8. Cardinality(LoopsIn(st) \cup {Len(st) + 1}) = Cardinality(LoopsIn(st)) + 1
    BY <1>3, <1>7, FS_AddElement
  <1>9. Cardinality(CallsIn(st) \cup {Len(st) + 1}) = Cardinality(CallsIn(st)) + 1
    BY <1>3, <1>7, FS_AddElement
  <1> QED
    BY <1>3, <1>4, <1>5, <1>6, <1>8, <1>9

(* No loop or call on a stack, and none counted, are the same.             *)
LEMMA NoneCounted ==
    ASSUME NEW st \in Seq(Frames), NEW s, Counts(st, s)
    PROVE  (s.loop_depth = 0 <=> LoopsIn(st) = {}) /\ (s.func_depth = 0 <=> CallsIn(st) = {})
  <1>1. IsFiniteSet(LoopsIn(st)) /\ IsFiniteSet(CallsIn(st))
    <2>1. LoopsIn(st) \in SUBSET Nat /\ CallsIn(st) \in SUBSET Nat /\ Len(st) \in Nat
      BY DEF LoopsIn, CallsIn
    <2>2. \A k \in LoopsIn(st) \cup CallsIn(st) : k <= Len(st)
      BY DEF LoopsIn, CallsIn
    <2> QED
      BY <2>1, <2>2, FS_BoundedSetOfNaturals
  <1> QED
    BY <1>1, FS_EmptySet DEF Counts

-----------------------------------------------------------------------------
(* The moves of the walk, whatever calls for them                          *)

(* A new frame starts only where nothing below it is about to, and with no *)
(* flow pending.                                                           *)
LEMMA VisitKeeps ==
    ASSUME NEW base \in Seq(Frames), NEW n \in DOMAIN Nodes, NEW s \in Shells,
           NEW flag \in BOOLEAN, Visit(base, n, s, flag),
           Waits(base), Counts(base, s), ~(s.flow # "none" \/ s.want_exit),
           watching = (LoopsIn(base) # {}), flag => watching,
           func' \in DOMAIN Nodes \cup {NoBody}, fired' \in BOOLEAN
    PROVE  WalkInv'
  <1>1. Frame(n) \in Frames /\ Frame(n).node = n /\ Frame(n).phase # "call"
    BY DEF Frame, Frames, FitsItsNode, Phases, Statuses, IsLoop
  <1>2. stack' \in Seq(Frames) /\ stack' # <<>> /\ Front(stack') = base /\ Last(stack') = Frame(n)
    BY <1>1, Appended DEF Visit
  <1>3. sh' \in Shells /\ sh'.flow = "none" /\ sh'.want_exit = FALSE
        /\ sh'.func_depth = s.func_depth
        /\ sh'.loop_depth = s.loop_depth + (IF IsLoop(n) THEN 1 ELSE 0)
    BY DEF Visit, Shells
  <1>4. LoopsIn(stack') = IF IsLoop(n) THEN LoopsIn(base) \cup {Len(base) + 1} ELSE LoopsIn(base)
    BY <1>1, CountsAdd DEF Visit
  <1>5. Counts(stack', sh')
    BY <1>1, <1>3, CountsAdd DEF Visit, Counts
  <1>6. watching' = (LoopsIn(stack') # {}) /\ (int' => watching')
        /\ watching' \in BOOLEAN /\ int' \in BOOLEAN
    BY <1>4, NoneCounted DEF Visit
  <1> QED
    BY <1>2, <1>3, <1>5, <1>6 DEF WalkInv, WalkTypes, Caught, Halted, Top

(* What the walk knows of a running stack: its counts come from the frames *)
(* below the top and the top itself.                                       *)
LEMMA Below ==
    ASSUME WalkInv, stack # <<>>
    PROVE  /\ Front(stack) \in Seq(Frames) /\ Top \in Frames
           /\ Len(stack) \in Nat \ {0} /\ Len(Front(stack)) = Len(stack) - 1
           /\ LoopsIn(stack) = IF IsLoop(Top.node) THEN LoopsIn(Front(stack)) \cup {Len(stack)}
                               ELSE LoopsIn(Front(stack))
           /\ CallsIn(stack) = IF Top.phase = "call" THEN CallsIn(Front(stack)) \cup {Len(stack)}
                               ELSE CallsIn(Front(stack))
           /\ Cardinality(LoopsIn(Front(stack))) \in Nat
           /\ Cardinality(CallsIn(Front(stack))) \in Nat
           /\ sh.loop_depth =
                Cardinality(LoopsIn(Front(stack))) + (IF IsLoop(Top.node) THEN 1 ELSE 0)
           /\ sh.func_depth =
                Cardinality(CallsIn(Front(stack))) + (IF Top.phase = "call" THEN 1 ELSE 0)
  <1>1. /\ Front(stack) \in Seq(Frames) /\ Top \in Frames /\ Len(stack) \in Nat \ {0}
        /\ Len(Front(stack)) = Len(stack) - 1 /\ Append(Front(stack), Top) = stack
    BY FrontAndTop DEF WalkInv, WalkTypes, Top
  <1>2. Len(Front(stack)) + 1 = Len(stack)
    BY <1>1
  <1> HIDE DEF Top
  <1>3. /\ LoopsIn(stack) = IF IsLoop(Top.node) THEN LoopsIn(Front(stack)) \cup {Len(stack)}
                            ELSE LoopsIn(Front(stack))
        /\ CallsIn(stack) = IF Top.phase = "call" THEN CallsIn(Front(stack)) \cup {Len(stack)}
                            ELSE CallsIn(Front(stack))
    BY <1>1, <1>2, CountsAdd
  <1>4. /\ Cardinality(LoopsIn(Front(stack))) \in Nat
        /\ Cardinality(CallsIn(Front(stack))) \in Nat
        /\ Cardinality(LoopsIn(stack)) =
             Cardinality(LoopsIn(Front(stack))) + (IF IsLoop(Top.node) THEN 1 ELSE 0)
        /\ Cardinality(CallsIn(stack)) =
             Cardinality(CallsIn(Front(stack))) + (IF Top.phase = "call" THEN 1 ELSE 0)
    BY <1>1, CountsAdd
  <1> QED
    BY <1>1, <1>3, <1>4 DEF WalkInv, Counts

(* Returning uncovers a frame that waits.                                  *)
LEMMA Uncovered ==
    ASSUME WalkInv, stack # <<>>, stack' = Front(stack)
    PROVE  /\ stack' \in Seq(Frames)
           /\ stack' # <<>> => Waits(Front(stack')) /\ ~Fresh(Last(stack'))
  <1>1. stack' \in Seq(Frames) /\ Waits(stack')
    BY Below DEF WalkInv
  <1>2. ASSUME stack' # <<>> PROVE Waits(Front(stack')) /\ ~Fresh(Last(stack'))
    <2>1. Len(stack') \in DOMAIN stack' /\ Len(Front(stack')) = Len(stack') - 1
          /\ \A k \in 1 .. Len(stack') - 1 : Front(stack')[k] = stack'[k] /\ k \in DOMAIN stack'
          /\ DOMAIN Front(stack') = 1 .. Len(stack') - 1
      BY <1>1, <1>2, FrontAndTop
    <2> QED
      BY <1>1, <2>1 DEF Waits, Last
  <1> QED
    BY <1>1, <1>2

LEMMA ReturnKeeps ==
    ASSUME WalkInv, stack # <<>>, ~IsLoop(Top.node), NEW s \in Shells, Return(s),
           Counts(Front(stack), s), Caught(Front(stack), s),
           func' \in DOMAIN Nodes \cup {NoBody}, fired' \in BOOLEAN
    PROVE  WalkInv'
  <1>1. stack' \in Seq(Frames) /\ (stack' # <<>> => Waits(Front(stack')) /\ ~Fresh(Last(stack')))
    BY Uncovered DEF Return
  <1>2. LoopsIn(stack') = LoopsIn(stack)
    BY Below DEF Return
  <1> QED
    BY <1>1, <1>2 DEF WalkInv, WalkTypes, Return, Top

LEMMA ReturnFromLoopKeeps ==
    ASSUME WalkInv, stack # <<>>, IsLoop(Top.node), NEW s \in Shells, NEW flag \in BOOLEAN,
           ReturnFromLoop(s, flag), flag => watching,
           s.loop_depth = sh.loop_depth, s.func_depth = sh.func_depth,
           s.flow \in {"none", sh.flow} \ {"break", "continue"}, s.want_exit = sh.want_exit,
           func' \in DOMAIN Nodes \cup {NoBody}, fired' \in BOOLEAN
    PROVE  WalkInv'
  <1>1. stack' = Front(stack)
        /\ stack' \in Seq(Frames) /\ (stack' # <<>> => Waits(Front(stack')) /\ ~Fresh(Last(stack')))
    BY Uncovered DEF ReturnFromLoop
  <1>2. Top.phase # "call"
    BY Below DEF Frames, FitsItsNode
  <1>3. sh' \in Shells /\ sh'.loop_depth = sh.loop_depth - 1 /\ sh'.func_depth = sh.func_depth
        /\ sh'.flow = s.flow /\ sh'.want_exit = sh.want_exit
    BY Below DEF ReturnFromLoop, Shells
  <1>4. Counts(stack', sh')
    BY <1>1, <1>2, <1>3, Below DEF Counts
  <1>5. Caught(stack', sh')
    BY <1>1, <1>2, <1>3, Below DEF Caught, WalkInv
  <1>6. watching' = (LoopsIn(stack') # {}) /\ (int' => watching')
        /\ watching' \in BOOLEAN /\ int' \in BOOLEAN
    <2>1. sh.loop_depth = 1 <=> LoopsIn(stack') = {}
      BY <1>1, <1>3, <1>4, NoneCounted, Below
    <2>2. watching = TRUE
      BY Below DEF WalkInv
    <2> QED
      BY <2>1, <2>2 DEF ReturnFromLoop
  <1> QED
    BY <1>1, <1>3, <1>4, <1>5, <1>6 DEF WalkInv, WalkTypes, Top

(* A loop goes on with a frame of its own.                                 *)
LEMMA LoopGoesOn ==
    ASSUME WalkInv, stack # <<>>, NEW f \in Frames, IsLoop(Top.node), IsLoop(f.node),
           stack' = Waiting(f), sh' \in Shells,
           sh'.loop_depth = sh.loop_depth, sh'.func_depth = sh.func_depth,
           ~(sh'.flow # "none" \/ sh'.want_exit), UNCHANGED <<watching, int>>,
           func' \in DOMAIN Nodes \cup {NoBody}, fired' \in BOOLEAN
    PROVE  WalkInv'
  <1>1. stack' \in Seq(Frames) /\ stack' # <<>> /\ Front(stack') = Front(stack) /\ Last(stack') = f
    BY Below, Appended DEF Waiting
  <1>2. Top.phase # "call" /\ f.phase # "call"
    BY Below DEF Frames, FitsItsNode
  <1>3. LoopsIn(stack') # {} /\ LoopsIn(stack) # {}
    BY Below, CountsAdd DEF Waiting
  <1>4. Counts(stack', sh')
    BY <1>2, Below, CountsAdd DEF Waiting, Counts
  <1> QED
    BY <1>1, <1>3, <1>4 DEF WalkInv, WalkTypes, Caught, Halted, Top

(* A child is visited from a frame that waits for it.                      *)
LEMMA WaitAndVisit ==
    ASSUME WalkInv, stack # <<>>, ~Halted, NEW f \in Frames, ~Fresh(f), f.node = Top.node,
           NEW s \in Shells, NEW n \in DOMAIN Nodes, NEW flag \in BOOLEAN, flag => int,
           Visit(Waiting(f), n, s, flag), s.flow = "none", ~s.want_exit,
           s.loop_depth = sh.loop_depth, Top.phase # "call",
           s.func_depth = sh.func_depth + (IF f.phase = "call" THEN 1 ELSE 0),
           func' \in DOMAIN Nodes \cup {NoBody}, fired' \in BOOLEAN
    PROVE  WalkInv'
  <1>1. Waiting(f) \in Seq(Frames) /\ Waits(Waiting(f))
    <2>1. Waiting(f) \in Seq(Frames) /\ Len(Waiting(f)) = Len(Front(stack)) + 1
          /\ Waiting(f)[Len(Waiting(f))] = f
          /\ \A k \in 1 .. Len(Front(stack)) : Waiting(f)[k] = Front(stack)[k]
      BY Below, AppendProperties DEF Waiting
    <2>2. Waits(Front(stack))
      BY DEF WalkInv
    <2> QED
      BY <2>1, <2>2, Below DEF Waits
  <1>2. LoopsIn(Waiting(f)) = LoopsIn(stack)
    <2>1. Len(Front(stack)) + 1 = Len(stack) /\ IsLoop(f.node) = IsLoop(Top.node)
      BY Below DEF IsLoop
    <2>2. LoopsIn(Waiting(f)) =
            IF IsLoop(f.node) THEN LoopsIn(Front(stack)) \cup {Len(Front(stack)) + 1}
            ELSE LoopsIn(Front(stack))
      BY Below, CountsAdd DEF Waiting
    <2> QED
      BY <2>1, <2>2, Below
  <1>3. Counts(Waiting(f), s)
    BY Below, CountsAdd DEF Waiting, Counts
  <1> QED
    BY <1>1, <1>2, <1>3, VisitKeeps DEF WalkInv

-----------------------------------------------------------------------------
(* Commands                                                                *)

\* on top of the stack: neither a loop nor a call
LEMMA Plain ==
    ASSUME WalkInv, stack # <<>>, ~IsLoop(Top.node), Top.phase # "call"
    PROVE  /\ Counts(Front(stack), sh) /\ Caught(Front(stack), sh)
           /\ Waits(Front(stack)) /\ Front(stack) \in Seq(Frames)
           /\ watching = (LoopsIn(Front(stack)) # {})
  BY Below DEF WalkInv, Counts, Caught

LEMMA CommandDoneKeeps ==
    ASSUME WalkInv, stack # <<>>, Node.kind = "command",
           NEW s \in Shells, NEW status \in Statuses, CommandDone(s, status),
           Counts(Front(stack), s), Caught(Front(stack), s),
           func' \in DOMAIN Nodes \cup {NoBody}, fired' \in BOOLEAN
    PROVE  WalkInv'
  <1>1. ~IsLoop(Top.node)
    BY DEF IsLoop, Node
  <1>2. Negated(status) \in Statuses
    BY DEF Negated, Statuses
  <1> DEFINE t == [s EXCEPT !.last_status = Negated(status)]
  <1>3. t \in Shells /\ t.flow = s.flow /\ t.want_exit = s.want_exit
        /\ t.loop_depth = s.loop_depth /\ t.func_depth = s.func_depth
    BY <1>2 DEF Shells
  <1>4. Return(t)
    BY DEF CommandDone
  <1> HIDE DEF t
  <1>5. Counts(Front(stack), t) /\ Caught(Front(stack), t)
    BY <1>3 DEF Counts, Caught
  <1> QED
    BY <1>1, <1>3, <1>4, <1>5, ReturnKeeps

\* a command that is about to run, with no flow pending
LEMMA CommandStarts ==
    ASSUME WalkInv, In("command", "start")
    PROVE  /\ stack # <<>> /\ Node.kind = "command" /\ ~IsLoop(Top.node)
           /\ Top.phase = "start" /\ Top \in Frames /\ ~Halted
           /\ Counts(Front(stack), sh) /\ Caught(Front(stack), sh)
           /\ sh \in Shells /\ func \in DOMAIN Nodes \cup {NoBody} /\ fired \in BOOLEAN
  <1>1. /\ stack # <<>> /\ Node.kind = "command" /\ ~IsLoop(Top.node) /\ Top.phase = "start"
    BY DEF In, IsLoop, Node
  <1>2. Top \in Frames
    BY <1>1, Below
  <1>3. Fresh(Top)
    BY <1>1, <1>2 DEF Fresh, Frames, FitsItsNode, Node
  <1> QED
    BY <1>1, <1>2, <1>3, Plain DEF WalkInv, WalkTypes

LEMMA CommandsKeep ==
    ASSUME WalkInv, Commands
    PROVE  WalkInv'
  <1>1. ASSUME NEW what \in {"ok", "fail", "killed"}, External(what) PROVE WalkInv'
    <2> DEFINE status == CASE what = "ok" -> 0 [] what = "fail" -> 1 [] what = "killed" -> Interrupted
    <2>1. status \in Statuses
      BY DEF Statuses
    <2>2. In("command", "start") /\ CommandDone(sh, status) /\ UNCHANGED <<func, fired>>
      BY <1>1 DEF External
    <2> QED
      BY <2>1, <2>2, CommandStarts, CommandDoneKeeps
  <1>2. ASSUME NEW what \in {"break", "continue"}, Flow(what) PROVE WalkInv'
    <2> DEFINE s == [sh EXCEPT !.flow = what]
    <2>1. In("command", "start") /\ UNCHANGED <<func, fired>>
          /\ IF sh.loop_depth <= 0 THEN CommandDone(sh, 1) ELSE CommandDone(s, 0)
      BY <1>2 DEF Flow
    <2>2. 0 \in Statuses /\ 1 \in Statuses
      BY DEF Statuses
    <2>3. CASE sh.loop_depth <= 0
      BY <2>1, <2>2, <2>3, CommandStarts, CommandDoneKeeps
    <2>4. CASE ~(sh.loop_depth <= 0)
      <3>1. /\ s \in Shells /\ s.flow = what /\ ~s.want_exit
            /\ s.loop_depth = sh.loop_depth /\ s.func_depth = sh.func_depth
        BY <2>1, CommandStarts DEF Shells, Flows, Halted
      <3>2. LoopsIn(Front(stack)) # {}
        BY <2>1, <2>4, CommandStarts, Below, NoneCounted DEF Shells
      <3> HIDE DEF s
      <3>3. Counts(Front(stack), s) /\ Caught(Front(stack), s)
        BY <2>1, <3>1, <3>2, CommandStarts DEF Counts, Caught
      <3> QED
        BY <2>1, <2>2, <2>4, <3>1, <3>3, CommandStarts, CommandDoneKeeps
    <2> QED
      BY <2>3, <2>4
  <1>3. ASSUME NEW what \in {"return", "return_2"}, ReturnBuiltin(what) PROVE WalkInv'
    <2> DEFINE status == IF what = "return_2" THEN 2 ELSE sh.last_status
               s == [sh EXCEPT !.flow = "return", !.flow_status = status]
    <2>1. In("command", "start") /\ UNCHANGED <<func, fired>>
          /\ IF sh.func_depth <= 0 THEN CommandDone(sh, 1) ELSE CommandDone(s, status)
      BY <1>3 DEF ReturnBuiltin
    <2>2. status \in Statuses /\ 1 \in Statuses
      BY <2>1, CommandStarts DEF Statuses, Shells
    <2> HIDE DEF status
    <2>3. CASE sh.func_depth <= 0
      BY <2>1, <2>2, <2>3, CommandStarts, CommandDoneKeeps
    <2>4. CASE ~(sh.func_depth <= 0)
      <3>1. sh \in Shells /\ ~sh.want_exit /\ "return" \in Flows
        BY <2>1, CommandStarts DEF Halted, Flows
      <3>2. /\ s \in Shells /\ s.flow = "return" /\ ~s.want_exit
            /\ s.loop_depth = sh.loop_depth /\ s.func_depth = sh.func_depth
        BY <2>2, <3>1, Zenon DEF Shells
      <3> HIDE DEF s
      <3>3. CallsIn(Front(stack)) # {}
        <4>1. sh.func_depth \in Nat
          BY <3>1, DepthAssumption DEF Shells
        <4>2. sh.func_depth # 0
          BY <2>4, <4>1
        <4>3. Front(stack) \in Seq(Frames) /\ Counts(Front(stack), sh)
          BY <2>1, CommandStarts, Below
        <4> QED
          BY <4>2, <4>3, NoneCounted
      <3>4. Counts(Front(stack), s) /\ Caught(Front(stack), s)
        BY <2>1, <3>2, <3>3, CommandStarts DEF Counts, Caught
      <3> QED
        BY <2>1, <2>2, <2>4, <3>2, <3>4, CommandStarts, CommandDoneKeeps
    <2> QED
      BY <2>3, <2>4
  <1>4. ASSUME NEW what \in {"exit", "exit_1"}, Exit(what) PROVE WalkInv'
    <2> DEFINE status == IF what = "exit_1" THEN 1 ELSE sh.last_status
               s == [sh EXCEPT !.want_exit = TRUE]
    <2>1. In("command", "start") /\ UNCHANGED <<func, fired>> /\ CommandDone(s, status)
      BY <1>4 DEF Exit
    <2>2. status \in Statuses
      BY <2>1, CommandStarts DEF Statuses, Shells
    <2>3. /\ s \in Shells /\ s.flow = "none"
          /\ s.loop_depth = sh.loop_depth /\ s.func_depth = sh.func_depth
      BY <2>1, CommandStarts DEF Shells, Halted
    <2> HIDE DEF s, status
    <2>4. Counts(Front(stack), s) /\ Caught(Front(stack), s)
      BY <2>1, <2>3, CommandStarts DEF Counts, Caught
    <2> QED
      BY <2>1, <2>2, <2>3, <2>4, CommandStarts, CommandDoneKeeps
  <1>5. ASSUME Call PROVE WalkInv'
    <2> DEFINE f == [Top EXCEPT !.phase = "call"]
               s == [sh EXCEPT !.func_depth = @ + 1]
    <2>1. In("command", "start") /\ func # NoBody /\ UNCHANGED <<func, fired>>
          /\ IF sh.func_depth >= FuncDepthMax THEN CommandDone(sh, 1)
             ELSE Visit(Waiting(f), func, s, int)
      BY <1>5 DEF Call
    <2>2. CASE sh.func_depth >= FuncDepthMax
      <3>1. 1 \in Statuses
        BY DEF Statuses
      <3> QED
        BY <2>1, <2>2, <3>1, CommandStarts, CommandDoneKeeps
    <2>3. CASE ~(sh.func_depth >= FuncDepthMax)
      <3>1. /\ s \in Shells /\ s.flow = "none" /\ ~s.want_exit
            /\ s.loop_depth = sh.loop_depth /\ s.func_depth = sh.func_depth + 1
        BY <2>1, <2>3, CommandStarts, DepthAssumption DEF Shells, Halted
      <3>2. f \in Frames /\ f.phase = "call" /\ f.node = Top.node /\ ~Fresh(f)
        BY <2>1, CommandStarts DEF Frames, FitsItsNode, Phases, Fresh, Node, IsLoop
      <3>3. func \in DOMAIN Nodes /\ int \in BOOLEAN
        BY <2>1, CommandStarts DEF WalkInv, WalkTypes
      <3> HIDE DEF s, f
      <3> QED
        BY <2>1, <2>3, <3>1, <3>2, <3>3, CommandStarts, WaitAndVisit
    <2> QED
      BY <2>2, <2>3
  <1> QED
    BY <1>1, <1>2, <1>3, <1>4, <1>5 DEF Commands

LEMMA CallReturnsKeeps ==
    ASSUME WalkInv, CallReturns
    PROVE  WalkInv'
  <1> DEFINE s == [sh EXCEPT !.func_depth = @ - 1, !.flow = "none"]
             status == IF sh.flow = "return" THEN sh.flow_status ELSE sh.last_status
  <1>1. /\ stack # <<>> /\ Node.kind = "command" /\ Top.phase = "call"
        /\ CommandDone(s, status) /\ UNCHANGED <<func, fired>>
    BY DEF CallReturns, In, aux
  <1>2. sh \in Shells /\ func \in DOMAIN Nodes \cup {NoBody} /\ fired \in BOOLEAN
    BY DEF WalkInv, WalkTypes
  <1>3. ~IsLoop(Top.node) /\ status \in Statuses
    BY <1>1, <1>2 DEF IsLoop, Node, Shells
  <1>4. /\ s \in Shells /\ s.flow = "none"
        /\ s.loop_depth = sh.loop_depth /\ s.func_depth = sh.func_depth - 1
    <2> HIDE DEF s
    <2>1. sh.func_depth \in 0 .. FuncDepthMax /\ sh.func_depth # 0
      BY <1>1, <1>2, Below DEF Shells
    <2> USE DEF s
    <2>2. sh.func_depth - 1 \in 0 .. FuncDepthMax /\ "none" \in Flows
      BY <2>1, DepthAssumption DEF Flows
    <2> QED
      BY <1>2, <2>2, Zenon DEF Shells
  <1> HIDE DEF s, status
  <1>5. Counts(Front(stack), s) /\ Caught(Front(stack), s)
    BY <1>1, <1>3, <1>4, Below DEF Counts, Caught
  <1> QED
    BY <1>1, <1>2, <1>3, <1>4, <1>5, CommandDoneKeeps

LEMMA FuncDefKeeps ==
    ASSUME WalkInv, FuncDef
    PROVE  WalkInv'
  <1> DEFINE s == [sh EXCEPT !.last_status = 0]
  <1>1. /\ stack # <<>> /\ Node.kind = "funcdef" /\ Top.phase = "start"
        /\ Return(s) /\ func' = Node.body /\ UNCHANGED fired
    BY DEF FuncDef, In
  <1>2. sh \in Shells /\ fired \in BOOLEAN /\ Top \in Frames /\ ~IsLoop(Top.node)
    BY <1>1, Below DEF WalkInv, WalkTypes, IsLoop, Node
  <1>3. Node.body \in DOMAIN Nodes
    BY <1>1, <1>2, TreeAssumption DEF Node, Frames
  <1>4. /\ s \in Shells /\ s.flow = sh.flow /\ s.want_exit = sh.want_exit
        /\ s.loop_depth = sh.loop_depth /\ s.func_depth = sh.func_depth
    BY <1>2 DEF Shells, Statuses
  <1> HIDE DEF s
  <1>5. Counts(Front(stack), s) /\ Caught(Front(stack), s)
    BY <1>1, <1>2, <1>4, Plain DEF Counts, Caught
  <1> QED
    BY <1>1, <1>2, <1>3, <1>4, <1>5, ReturnKeeps

-----------------------------------------------------------------------------
(* Lists, and-or chains, if                                                *)

\* a construct that is not a command, between two of its children
LEMMA Between ==
    ASSUME WalkInv, NEW kind \in {"list", "andor", "if"}, In(kind, "start"), UNCHANGED aux
    PROVE  /\ stack # <<>> /\ Node.kind = kind /\ ~IsLoop(Top.node) /\ Top.phase = "start"
           /\ Top \in Frames /\ (Top.at = 0 => ~Halted)
           /\ sh \in Shells /\ int \in BOOLEAN /\ (int => watching)
           /\ Counts(Front(stack), sh) /\ Caught(Front(stack), sh)
           /\ Waits(Front(stack)) /\ Front(stack) \in Seq(Frames)
           /\ watching = (LoopsIn(Front(stack)) # {})
           /\ func' \in DOMAIN Nodes \cup {NoBody} /\ fired' \in BOOLEAN
  <1>1. stack # <<>> /\ Node.kind = kind /\ ~IsLoop(Top.node) /\ Top.phase = "start"
    BY DEF In, IsLoop, Node
  <1>2. Top \in Frames /\ (Top.at = 0 => ~Halted)
    BY <1>1, Below DEF WalkInv, Fresh
  <1>3. Front(stack) \in Seq(Frames) /\ Waits(Front(stack)) /\ Counts(Front(stack), sh)
        /\ Caught(Front(stack), sh) /\ watching = (LoopsIn(Front(stack)) # {})
    BY <1>1, Plain
  <1> QED
    BY <1>1, <1>2, <1>3 DEF WalkInv, WalkTypes, aux

\* it ends, ...
LEMMA ConstructReturns ==
    ASSUME WalkInv, NEW kind \in {"list", "andor", "if"}, In(kind, "start"), UNCHANGED aux,
           Return(sh)
    PROVE  WalkInv'
  BY Between, ReturnKeeps

\* ... or goes on with a child
LEMMA ConstructVisits ==
    ASSUME WalkInv, NEW kind \in {"list", "andor", "if"}, In(kind, "start"), UNCHANGED aux,
           ~Halted, NEW at \in Nat \ {0}, NEW n \in DOMAIN Nodes,
           kind = "list" => at <= Len(Node.nodes), kind = "if" => at <= Len(Node.conds),
           Visit(Waiting([Top EXCEPT !.at = at]), n, sh, int)
    PROVE  WalkInv'
  <1> DEFINE f == [Top EXCEPT !.at = at]
  <1>1. f \in Frames /\ f.phase = "start" /\ f.node = Top.node /\ ~Fresh(f)
    BY Between DEF Frames, FitsItsNode, Fresh, Node, IsLoop, Phases
  <1> HIDE DEF f
  <1>2. sh.flow = "none" /\ ~sh.want_exit /\ sh.func_depth = sh.func_depth + 0
    BY Between DEF Halted, Shells
  <1> QED
    BY <1>1, <1>2, Between, WaitAndVisit DEF f

LEMMA ListStepKeeps ==
    ASSUME WalkInv, ListStep
    PROVE  WalkInv'
  <1>1. In("list", "start") /\ UNCHANGED aux
    BY DEF ListStep
  <1>2. CASE Halted \/ Top.at = Len(Node.nodes)
    BY <1>1, <1>2, ConstructReturns DEF ListStep
  <1>3. CASE ~(Halted \/ Top.at = Len(Node.nodes))
    <2>1. Node.nodes \in Seq(DOMAIN Nodes) /\ Top.at \in Nat /\ Top.at <= Len(Node.nodes)
      BY <1>1, Between, TreeAssumption DEF Frames, FitsItsNode, Node
    <2>2. Top.at + 1 \in Nat \ {0} /\ Top.at + 1 <= Len(Node.nodes)
          /\ Node.nodes[Top.at + 1] \in DOMAIN Nodes
      BY <1>3, <2>1
    <2>3. Visit(Waiting([Top EXCEPT !.at = Top.at + 1]), Node.nodes[Top.at + 1], sh, int)
      BY <1>3 DEF ListStep
    <2> QED
      BY <1>1, <1>3, <2>2, <2>3, ConstructVisits
  <1> QED
    BY <1>2, <1>3

(* Min of the items that are left to run is one of them.                   *)
LEMMA MinIsMember ==
    ASSUME NEW S \in SUBSET Nat, S # {}
    PROVE  Min(S) \in S
  <1>1. \E m \in S : \A k \in S : m <= k
    <2>1. \E m \in S : \A k \in S : ~(<<k, m>> \in OpToRel(<, Nat))
      BY NatLessThanWellFounded, WFMin
    <2>2. \A k, m \in Nat : k < m => <<k, m>> \in OpToRel(<, Nat)
      BY DEF OpToRel
    <2>3. PICK m \in S : \A k \in S : ~(<<k, m>> \in OpToRel(<, Nat))
      BY <2>1
    <2>4. \A k \in S : ~(k < m)
      BY <2>2, <2>3
    <2> QED
      BY <2>4
  <1> QED
    BY <1>1 DEF Min

LEMMA AndOrStepKeeps ==
    ASSUME WalkInv, AndOrStep
    PROVE  WalkInv'
  <1> DEFINE next == {k \in DOMAIN Node.items : k > Top.at /\ Runs(Node.items[k].op)}
  <1>1. In("andor", "start") /\ UNCHANGED aux
    BY DEF AndOrStep
  <1>2. CASE (Top.at > 0 /\ Halted) \/ next = {}
    BY <1>1, <1>2, ConstructReturns DEF AndOrStep
  <1>3. CASE ~((Top.at > 0 /\ Halted) \/ next = {})
    <2>1. Node.items \in Seq([op : {"first", "and", "or"}, node : DOMAIN Nodes]) /\ Top.at \in Nat
      BY <1>1, Between, TreeAssumption DEF Frames, Node
    <2>2. next \in SUBSET Nat
      BY <2>1
    <2>3. Min(next) \in next
      BY <1>3, <2>2, MinIsMember
    <2>4. Min(next) \in DOMAIN Node.items /\ Min(next) > Top.at
      BY <2>3
    <2> HIDE DEF next
    <2>5. Min(next) \in Nat \ {0}
      BY <2>1, <2>4
    <2>6. Node.items[Min(next)].node \in DOMAIN Nodes
      <3>1. \A k \in DOMAIN Node.items : Node.items[k].node \in DOMAIN Nodes
        <4> DEFINE Items == [op : {"first", "and", "or"}, node : DOMAIN Nodes]
        <4>1. \A item \in Items : item.node \in DOMAIN Nodes
          OBVIOUS
        <4>2. Node.items \in Seq(Items)
          BY <2>1
        <4> HIDE DEF Items
        <4>3. \A k \in DOMAIN Node.items : Node.items[k] \in Items
          BY <4>2
        <4> QED
          BY <4>1, <4>3
      <3> QED
        BY <2>4, <3>1, Zenon
    <2>7. ~Halted
      BY <1>1, <1>3, <2>1, Between
    <2>8. Visit(Waiting([Top EXCEPT !.at = Min(next)]), Node.items[Min(next)].node, sh, int)
      BY <1>3 DEF AndOrStep, next
    <2> QED
      BY <1>1, <2>5, <2>6, <2>7, <2>8, ConstructVisits
  <1> QED
    BY <1>2, <1>3

LEMMA IfStepKeeps ==
    ASSUME WalkInv, IfStep
    PROVE  WalkInv'
  <1>1. In("if", "start") /\ UNCHANGED aux
    BY DEF IfStep
  <1>2. /\ Node.conds \in Seq(DOMAIN Nodes) /\ Node.bodies \in Seq(DOMAIN Nodes)
        /\ Node.otherwise \in Seq(DOMAIN Nodes) /\ Len(Node.bodies) = Len(Node.conds)
        /\ Top.at \in Nat /\ Top.at <= Len(Node.conds)
    BY <1>1, Between, TreeAssumption DEF Frames, FitsItsNode, Node
  <1>3. ASSUME NEW n \in DOMAIN Nodes, ~Halted, Visit(Front(stack), n, sh, int)
        PROVE  WalkInv'
    BY <1>1, <1>3, Between, VisitKeeps DEF Halted
  <1>4. CASE Top.at > 0 /\ Halted
    BY <1>1, <1>4, ConstructReturns DEF IfStep
  <1>5. CASE ~(Top.at > 0 /\ Halted)
    <2>1. ~Halted
      BY <1>1, <1>2, <1>5, Between
    <2>2. CASE Top.at > 0 /\ sh.last_status = 0
      <3>1. Node.bodies[Top.at] \in DOMAIN Nodes
        BY <1>2, <2>2
      <3> QED
        BY <1>3, <1>5, <2>1, <2>2, <3>1 DEF IfStep
    <2>3. CASE ~(Top.at > 0 /\ sh.last_status = 0) /\ Top.at < Len(Node.conds)
      <3>1. Top.at + 1 \in Nat \ {0} /\ Top.at + 1 <= Len(Node.conds)
            /\ Node.conds[Top.at + 1] \in DOMAIN Nodes
        BY <1>2, <2>3
      <3>2. Visit(Waiting([Top EXCEPT !.at = Top.at + 1]), Node.conds[Top.at + 1], sh, int)
        BY <1>5, <2>3 DEF IfStep
      <3> QED
        BY <1>1, <2>1, <3>1, <3>2, ConstructVisits
    <2>4. CASE ~(Top.at > 0 /\ sh.last_status = 0) /\ ~(Top.at < Len(Node.conds))
      <3>1. CASE Node.otherwise # <<>>
        <4>1. Node.otherwise[1] \in DOMAIN Nodes
          BY <1>2, <3>1, EmptySeq
        <4> QED
          BY <1>3, <1>5, <2>1, <2>4, <3>1, <4>1 DEF IfStep
      <3>2. CASE Node.otherwise = <<>>
        <4> DEFINE s == [sh EXCEPT !.last_status = 0]
        <4>1. Return(s)
          BY <1>5, <2>4, <3>2 DEF IfStep
        <4>2. /\ s \in Shells /\ s.flow = sh.flow /\ s.want_exit = sh.want_exit
              /\ s.loop_depth = sh.loop_depth /\ s.func_depth = sh.func_depth
          BY <1>1, Between DEF Shells, Statuses
        <4> HIDE DEF s
        <4>3. Counts(Front(stack), s) /\ Caught(Front(stack), s)
          BY <1>1, <4>2, Between DEF Counts, Caught
        <4> QED
          BY <1>1, <4>1, <4>2, <4>3, Between, ReturnKeeps
      <3> QED
        BY <3>1, <3>2
    <2> QED
      BY <2>2, <2>3, <2>4
  <1> QED
    BY <1>4, <1>5

-----------------------------------------------------------------------------
(* Loops                                                                   *)

\* a loop on top of the stack
LEMMA AtLoop ==
    ASSUME WalkInv, NEW phase \in {"head", "clear", "cond", "body"},
           In("while", phase) \/ In("for", phase)
    PROVE  /\ stack # <<>> /\ IsLoop(Top.node) /\ Top.phase = phase /\ Top \in Frames
           /\ (phase \in {"head", "clear"} => sh.flow = "none" /\ ~sh.want_exit)
           /\ sh \in Shells /\ watching = TRUE /\ int \in BOOLEAN /\ fired \in BOOLEAN
           /\ func \in DOMAIN Nodes \cup {NoBody}
           /\ sh.flow = "none" \/ ~sh.want_exit
  <1>1. stack # <<>> /\ IsLoop(Top.node) /\ Top.phase = phase
    BY DEF In, IsLoop, Node
  <1>2. Top \in Frames /\ watching = TRUE
    BY <1>1, Below DEF WalkInv
  <1>3. phase \in {"head", "clear"} => ~Halted
    BY <1>1 DEF WalkInv, Fresh
  <1> QED
    BY <1>1, <1>2, <1>3 DEF WalkInv, WalkTypes, Caught, Halted

\* what loop_flow leaves of the Shell: nothing pending, unless it ends the loop
LEMMA LoopFlowLeaves ==
    ASSUME sh \in Shells, sh.flow = "none" \/ ~sh.want_exit
    PROVE  /\ LoopFlow.act \in {"done", "next", "run"} /\ LoopFlow.sh \in Shells
           /\ LoopFlow.sh.loop_depth = sh.loop_depth /\ LoopFlow.sh.func_depth = sh.func_depth
           /\ LoopFlow.sh.want_exit = sh.want_exit
           /\ LoopFlow.sh.flow \in {"none", sh.flow} \ {"break", "continue"}
           /\ LoopFlow.act # "done" => LoopFlow.sh.flow = "none" /\ ~sh.want_exit
           /\ LoopFlow.act = "run" => LoopFlow.sh = sh
  <1> DEFINE broken == [sh EXCEPT !.flow = "none", !.last_status = 0]
             continued == [sh EXCEPT !.flow = "none"]
  <1>1. sh.flow \in {"none", "break", "continue", "return"} /\ sh.want_exit \in BOOLEAN
    BY DEF Shells, Flows
  <1>2. "none" \in Flows /\ 0 \in Statuses
    BY DEF Flows, Statuses
  <1>3. /\ broken \in Shells /\ broken.flow = "none" /\ broken.want_exit = sh.want_exit
        /\ broken.loop_depth = sh.loop_depth /\ broken.func_depth = sh.func_depth
    BY <1>2, Zenon DEF Shells
  <1>4. /\ continued \in Shells /\ continued.flow = "none" /\ continued.want_exit = sh.want_exit
        /\ continued.loop_depth = sh.loop_depth /\ continued.func_depth = sh.func_depth
    BY <1>2 DEF Shells
  <1> HIDE DEF broken, continued
  <1>5. CASE sh.want_exit
    <2>1. LoopFlow = [act |-> "done", sh |-> sh]
      BY <1>5 DEF LoopFlow
    <2> QED
      BY <1>5, <2>1
  <1>6. CASE ~sh.want_exit /\ sh.flow = "break"
    <2>1. LoopFlow = [act |-> "done", sh |-> broken]
      BY <1>6 DEF LoopFlow, broken
    <2> QED
      BY <1>3, <1>6, <2>1
  <1>7. CASE ~sh.want_exit /\ sh.flow = "continue"
    <2>1. LoopFlow = [act |-> "next", sh |-> continued]
      BY <1>7 DEF LoopFlow, continued
    <2> QED
      BY <1>4, <1>7, <2>1
  <1>8. CASE ~sh.want_exit /\ sh.flow = "return"
    <2>1. LoopFlow = [act |-> "done", sh |-> sh]
      BY <1>8 DEF LoopFlow
    <2> QED
      BY <1>8, <2>1
  <1>9. CASE ~sh.want_exit /\ sh.flow = "none"
    <2>1. LoopFlow = [act |-> "run", sh |-> sh]
      BY <1>9 DEF LoopFlow
    <2> QED
      BY <1>9, <2>1
  <1> QED
    BY <1>1, <1>5, <1>6, <1>7, <1>8, <1>9

\* a loop ends with a status of its own and nothing pending
LEMMA LoopEnds ==
    ASSUME WalkInv, stack # <<>>, IsLoop(Top.node), sh \in Shells,
           sh.flow = "none", ~sh.want_exit, watching = TRUE,
           NEW status \in Statuses, NEW flag \in BOOLEAN,
           ReturnFromLoop([sh EXCEPT !.last_status = status], flag),
           func' \in DOMAIN Nodes \cup {NoBody}, fired' \in BOOLEAN
    PROVE  WalkInv'
  <1> DEFINE s == [sh EXCEPT !.last_status = status]
  <1>1. /\ s \in Shells /\ s.flow = sh.flow /\ s.want_exit = sh.want_exit
        /\ s.loop_depth = sh.loop_depth /\ s.func_depth = sh.func_depth
    BY DEF Shells
  <1>2. ReturnFromLoop(s, flag)
    OBVIOUS
  <1> HIDE DEF s
  <1> QED
    BY <1>1, <1>2, ReturnFromLoopKeeps

\* a loop goes on to a child, without any flow pending
LEMMA LoopVisits ==
    ASSUME WalkInv, stack # <<>>, IsLoop(Top.node), sh \in Shells, ~Halted,
           NEW f \in Frames, f.node = Top.node, ~Fresh(f), Top \in Frames,
           NEW n \in DOMAIN Nodes, NEW flag \in BOOLEAN, flag => int,
           Visit(Waiting(f), n, sh, flag),
           func' \in DOMAIN Nodes \cup {NoBody}, fired' \in BOOLEAN
    PROVE  WalkInv'
  <1>1. Top.phase # "call" /\ f.phase # "call"
    BY DEF Frames, FitsItsNode
  <1>2. sh.flow = "none" /\ ~sh.want_exit
    BY DEF Halted
  <1>3. sh.func_depth = sh.func_depth + (IF f.phase = "call" THEN 1 ELSE 0)
    BY <1>1, Below
  <1> QED
    BY <1>1, <1>2, <1>3, WaitAndVisit

LEMMA LoopHeadKeeps ==
    ASSUME WalkInv, ForEnds \/ TakeReads \/ TakeFired \/ ForWordFails
    PROVE  WalkInv'
  <1> USE DEF aux
  <1>1. CASE ForEnds
    <2>1. In("for", "head") /\ UNCHANGED <<func, fired>>
          /\ ReturnFromLoop([sh EXCEPT !.last_status = Top.status], int)
      BY <1>1 DEF ForEnds
    <2>2. Top.status \in Statuses
      BY <2>1, AtLoop DEF Frames
    <2> QED
      BY <2>1, <2>2, AtLoop, LoopEnds
  <1>2. CASE TakeReads
    <2> DEFINE f == [Top EXCEPT !.phase = "clear"]
    <2>1. In("while", "head") \/ In("for", "head")
      BY <1>2 DEF TakeReads, LoopHead
    <2>2. stack' = Waiting(f) /\ fired' = int /\ UNCHANGED <<sh, func, watching, int>>
      BY <1>2 DEF TakeReads
    <2>3. f \in Frames /\ IsLoop(f.node)
      BY <2>1, AtLoop DEF Frames, FitsItsNode, Phases, IsLoop
    <2> HIDE DEF f
    <2> QED
      BY <2>1, <2>2, <2>3, AtLoop, LoopGoesOn
  <1>3. CASE TakeFired
    <2>1. (In("while", "clear") \/ In("for", "clear")) /\ fired' = FALSE /\ UNCHANGED func
          /\ ReturnFromLoop([sh EXCEPT !.last_status = Interrupted], FALSE)
      BY <1>3 DEF TakeFired, LoopHead
    <2>2. Interrupted \in Statuses /\ FALSE \in BOOLEAN
      BY DEF Statuses
    <2> QED
      BY <2>1, <2>2, AtLoop, LoopEnds
  <1>4. CASE ForWordFails
    <2>1. In("for", "clear") /\ UNCHANGED <<func, fired>>
          /\ ReturnFromLoop([sh EXCEPT !.last_status = 1], FALSE)
      BY <1>4 DEF ForWordFails
    <2>2. 1 \in Statuses /\ FALSE \in BOOLEAN
      BY DEF Statuses
    <2> QED
      BY <2>1, <2>2, AtLoop, LoopEnds
  <1> QED
    BY <1>1, <1>2, <1>3, <1>4

LEMMA LoopPassKeeps ==
    ASSUME WalkInv, WhileCondition \/ ForBody
    PROVE  WalkInv'
  <1>1. CASE WhileCondition
    <2> DEFINE f == [Top EXCEPT !.phase = "cond"]
    <2>1. In("while", "clear") /\ UNCHANGED <<func, fired>>
          /\ Visit(Waiting(f), Node.cond, sh, FALSE)
      BY <1>1 DEF WhileCondition, aux
    <2>2. f \in Frames /\ f.node = Top.node /\ ~Fresh(f)
      BY <2>1, AtLoop DEF Frames, FitsItsNode, Phases, IsLoop, Fresh
    <2>3. Node.cond \in DOMAIN Nodes
      BY <2>1, AtLoop, TreeAssumption DEF Frames, Node, In
    <2> HIDE DEF f
    <2> QED
      BY <2>1, <2>2, <2>3, AtLoop, LoopVisits DEF Halted
  <1>2. CASE ForBody
    <2> DEFINE f == [Top EXCEPT !.phase = "body", !.at = @ + 1]
    <2>1. In("for", "clear") /\ UNCHANGED <<func, fired>>
          /\ Visit(Waiting(f), Node.body, sh, FALSE)
      BY <1>2 DEF ForBody, aux
    <2>2. f \in Frames /\ f.node = Top.node /\ ~Fresh(f)
      <3> DEFINE g == [Top EXCEPT !.phase = "body"]
      <3>1. f = [g EXCEPT !.at = Top.at + 1]
        BY Zenon
      <3>2. Top \in Frames /\ Top.phase = "clear" /\ Node.kind = "for"
        BY <2>1, AtLoop DEF In
      <3>3. g \in Frames /\ g.phase = "body" /\ g.node = Top.node /\ Nodes[g.node].kind = "for"
        BY <3>2 DEF Frames, FitsItsNode, Phases, IsLoop, Node
      <3>4. Top.at + 1 \in Nat
        BY <3>2 DEF Frames
      <3> HIDE DEF f, g
      <3> QED
        BY <3>1, <3>3, <3>4 DEF Frames, FitsItsNode, IsLoop, Fresh
    <2>3. Node.body \in DOMAIN Nodes
      BY <2>1, AtLoop, TreeAssumption DEF Frames, Node, In
    <2> HIDE DEF f
    <2> QED
      BY <2>1, <2>2, <2>3, AtLoop, LoopVisits DEF Halted
  <1> QED
    BY <1>1, <1>2

LEMMA WhileConditionDoneKeeps ==
    ASSUME WalkInv, WhileConditionDone
    PROVE  WalkInv'
  <1> DEFINE f == LoopFlow
  <1>1. In("while", "cond") /\ UNCHANGED <<func, fired>>
    BY DEF WhileConditionDone
  <1>2. /\ f.act \in {"done", "next", "run"} /\ f.sh \in Shells
        /\ f.sh.loop_depth = sh.loop_depth /\ f.sh.func_depth = sh.func_depth
        /\ f.sh.want_exit = sh.want_exit
        /\ f.sh.flow \in {"none", sh.flow} \ {"break", "continue"}
        /\ f.act # "done" => f.sh.flow = "none" /\ ~sh.want_exit
        /\ f.act = "run" => f.sh = sh
    BY <1>1, AtLoop, LoopFlowLeaves
  <1>3. CASE f.act = "next"
    <2>1. stack' = Waiting([Top EXCEPT !.phase = "head"]) /\ sh' = f.sh
          /\ UNCHANGED <<watching, int>>
      BY <1>3 DEF WhileConditionDone, AgainFrom
    <2>2. [Top EXCEPT !.phase = "head"] \in Frames /\ IsLoop([Top EXCEPT !.phase = "head"].node)
      BY <1>1, AtLoop DEF Frames, FitsItsNode, Phases, IsLoop
    <2> HIDE DEF f
    <2> QED
      BY <1>1, <1>2, <1>3, <2>1, <2>2, AtLoop, LoopGoesOn
  <1>4. CASE f.act # "next" /\ (f.act = "done" \/ sh.last_status = Interrupted)
    <2>1. ReturnFromLoop(f.sh, int)
      BY <1>4 DEF WhileConditionDone
    <2> HIDE DEF f
    <2> QED
      BY <1>1, <1>2, <2>1, AtLoop, ReturnFromLoopKeeps
  <1>5. CASE f.act = "run" /\ sh.last_status # Interrupted /\ sh.last_status # 0
    <2>1. ReturnFromLoop([sh EXCEPT !.last_status = Top.status], int)
      BY <1>5 DEF WhileConditionDone
    <2>2. Top.status \in Statuses
      BY <1>1, AtLoop DEF Frames
    <2>3. sh.flow = "none" /\ ~sh.want_exit
      BY <1>2, <1>5
    <2> QED
      BY <1>1, <2>1, <2>2, <2>3, AtLoop, LoopEnds
  <1>6. CASE f.act = "run" /\ sh.last_status # Interrupted /\ sh.last_status = 0
    <2>1. Visit(Waiting([Top EXCEPT !.phase = "body"]), Node.body, sh, int)
      BY <1>6 DEF WhileConditionDone
    <2>2. /\ [Top EXCEPT !.phase = "body"] \in Frames
          /\ [Top EXCEPT !.phase = "body"].node = Top.node /\ ~Fresh([Top EXCEPT !.phase = "body"])
      BY <1>1, AtLoop DEF Frames, FitsItsNode, Phases, IsLoop, Fresh
    <2>3. Node.body \in DOMAIN Nodes
      BY <1>1, AtLoop, TreeAssumption DEF Frames, Node, In
    <2>4. ~Halted
      BY <1>2, <1>6 DEF Halted
    <2> QED
      BY <1>1, <2>1, <2>2, <2>3, <2>4, AtLoop, LoopVisits
  <1> HIDE DEF f
  <1> QED
    BY <1>2, <1>3, <1>4, <1>5, <1>6

LEMMA LoopBodyDoneKeeps ==
    ASSUME WalkInv, LoopBodyDone
    PROVE  WalkInv'
  <1> DEFINE f == LoopFlow
             again == [Top EXCEPT !.status = sh.last_status]
             frame == [again EXCEPT !.phase = "head"]
  <1>1. (In("while", "body") \/ In("for", "body")) /\ UNCHANGED <<func, fired>>
    BY DEF LoopBodyDone, LoopHead
  <1>2. /\ f.act \in {"done", "next", "run"} /\ f.sh \in Shells
        /\ f.sh.loop_depth = sh.loop_depth /\ f.sh.func_depth = sh.func_depth
        /\ f.sh.want_exit = sh.want_exit
        /\ f.sh.flow \in {"none", sh.flow} \ {"break", "continue"}
        /\ f.act # "done" => f.sh.flow = "none" /\ ~sh.want_exit
        /\ f.act = "run" => f.sh = sh
    BY <1>1, AtLoop, LoopFlowLeaves
  <1>3. CASE f.act = "done" \/ (f.act = "run" /\ sh.last_status = Interrupted)
    <2>1. ReturnFromLoop(f.sh, int)
      BY <1>3 DEF LoopBodyDone
    <2> HIDE DEF f
    <2> QED
      BY <1>1, <1>2, <2>1, AtLoop, ReturnFromLoopKeeps
  <1>4. CASE ~(f.act = "done" \/ (f.act = "run" /\ sh.last_status = Interrupted))
    <2>1. stack' = Waiting(frame) /\ sh' = f.sh /\ UNCHANGED <<watching, int>>
      BY <1>4, Zenon DEF LoopBodyDone, AgainFrom
    <2>2. again \in Frames /\ again.phase = "body" /\ IsLoop(again.node)
      BY <1>1, AtLoop DEF Frames, FitsItsNode, Phases, IsLoop, Shells
    <2> HIDE DEF again, f
    <2>3. frame \in Frames /\ IsLoop(frame.node)
      BY <2>2 DEF Frames, FitsItsNode, Phases, IsLoop
    <2> HIDE DEF frame
    <2> QED
      BY <1>1, <1>2, <1>4, <2>1, <2>3, AtLoop, LoopGoesOn
  <1> QED
    BY <1>3, <1>4

-----------------------------------------------------------------------------
LEMMA NextLineKeeps ==
    ASSUME WalkInv, NEW root \in Roots, NextLine(root)
    PROVE  WalkInv'
  <1>1. stack = <<>> /\ ~sh.want_exit /\ Visit(<<>>, root, sh, int) /\ UNCHANGED <<func, fired>>
    BY DEF NextLine
  <1>2. <<>> \in Seq(Frames) /\ DOMAIN <<>> = {} /\ root \in DOMAIN Nodes
    BY EmptySeq, TreeAssumption
  <1>3. Waits(<<>>) /\ LoopsIn(<<>>) = {} /\ CallsIn(<<>>) = {}
    BY <1>2 DEF Waits, LoopsIn, CallsIn
  <1>4. Counts(<<>>, sh) /\ sh \in Shells /\ int \in BOOLEAN
        /\ watching = (LoopsIn(<<>>) # {}) /\ (int => watching)
        /\ func \in DOMAIN Nodes \cup {NoBody} /\ fired \in BOOLEAN
    BY <1>1 DEF WalkInv, WalkTypes
  <1>5. sh.flow = "none"
    BY <1>1, <1>3, <1>4 DEF WalkInv, Caught, Shells, Flows
  <1> QED
    BY <1>1, <1>2, <1>3, <1>4, <1>5, VisitKeeps

LEMMA WalkKeeps ==
    ASSUME WalkInv, Walk
    PROVE  WalkInv'
  BY CallReturnsKeeps, FuncDefKeeps, ListStepKeeps, AndOrStepKeeps, IfStepKeeps,
     LoopHeadKeeps, LoopPassKeeps, WhileConditionDoneKeeps, LoopBodyDoneKeeps
  DEF Walk

LEMMA NextKeeps ==
    ASSUME WalkInv, [Next]_vars
    PROVE  WalkInv'
  <1>1. CASE SigInt
    BY <1>1 DEF SigInt, aux, WalkInv, WalkTypes, Counts, Caught, LoopsIn, CallsIn, Waits, Halted, Top
  <1>2. CASE UNCHANGED vars
    BY <1>2 DEF vars, WalkInv, WalkTypes, Counts, Caught, LoopsIn, CallsIn, Waits, Halted, Top
  <1> QED
    BY <1>1, <1>2, CommandsKeep, WalkKeeps, NextLineKeeps DEF Next, OutOfLog, Ended

(* The invariant holds of every session, whatever its lines.               *)
THEOREM WalkInvariance == Spec => []WalkInv
  <1>1. Init => WalkInv
    <2> SUFFICES ASSUME Init PROVE WalkInv
      OBVIOUS
    <2>1. <<>> \in Seq(Frames) /\ DOMAIN <<>> = {}
      BY EmptySeq
    <2>2. LoopsIn(<<>>) = {} /\ CallsIn(<<>>) = {}
      BY <2>1 DEF LoopsIn, CallsIn
    <2>3. Cardinality({}) = 0
      BY FS_EmptySet
    <2>4. stack = <<>> /\ sh.flow = "none" /\ sh.loop_depth = 0 /\ sh.func_depth = 0
      BY DEF Init
    <2>5. sh \in Shells
      BY DepthAssumption DEF Init, Shells, Flows, Statuses
    <2>6. Counts(stack, sh) /\ Caught(stack, sh) /\ LoopsIn(stack) = {}
      BY <2>2, <2>3, <2>4 DEF Counts, Caught
    <2> QED
      BY <2>1, <2>4, <2>5, <2>6 DEF Init, WalkInv, WalkTypes
  <1> QED
    BY <1>1, NextKeeps, PTL DEF Spec

(* loop_depth and func_depth of eval.c are the loops and calls on its      *)
(* stack, whatever left them; SIGINT is watched while a loop runs; no flow *)
(* state leaks into the next line.                                         *)
THEOREM DepthsExact == Spec => []DepthsCountFrames
  <1>1. ASSUME WalkInv PROVE DepthsCountFrames
    <2>1. LoopFrames = LoopsIn(stack) /\ Calls = CallsIn(stack)
      BY DEF LoopFrames, Calls, LoopsIn, CallsIn
    <2>2. \A k \in DOMAIN stack : stack[k] \in Frames
      BY <1>1 DEF WalkInv, WalkTypes
    <2>3. TypeOK
      BY <1>1, <2>2 DEF TypeOK, WalkInv, WalkTypes, Shells, Frames, Phases
    <2> QED
      BY <1>1, <2>1, <2>3 DEF DepthsCountFrames, PendingFlowIsCaught, WalkInv, Counts, Caught
  <1> QED
    BY <1>1, WalkInvariance, PTL

(* While break, continue, return or exit is pending eval.c starts nothing: *)
(* it only returns, at most to the head of the loop a continue is for.     *)
THEOREM NothingStarts == Spec => NothingStartsWhileHalted
  <1>1. ASSUME WalkInv, [Next]_vars, Halted, stack # <<>>
        PROVE  Len(stack') <= Len(stack)
    <2> USE <1>1
    <2>1. /\ Len(stack) \in Nat /\ Len(Front(stack)) <= Len(stack) /\ ~Fresh(Top)
          /\ \A f \in Frames : Len(Waiting(f)) = Len(stack)
      BY Below, Appended DEF WalkInv, Waiting
    <2>2. ASSUME NEW s, Return(s) PROVE Len(stack') <= Len(stack)
      BY <2>1, <2>2 DEF Return
    <2>3. ASSUME NEW s, NEW flag, ReturnFromLoop(s, flag) PROVE Len(stack') <= Len(stack)
      BY <2>1, <2>3 DEF ReturnFromLoop
    <2>4. CASE Commands
      BY <2>4, CommandStarts DEF Commands, External, Flow, ReturnBuiltin, Exit, Call
    <2>5. CASE CallReturns \/ FuncDef
      BY <2>2, <2>5 DEF CallReturns, FuncDef, CommandDone
    <2>6. CASE ListStep
      BY <2>2, <2>6 DEF ListStep
    <2>7. CASE AndOrStep \/ IfStep
      <3>1. Top.at > 0
        BY <2>1, <2>7, Below DEF AndOrStep, IfStep, In, Fresh, Frames
      <3> QED
        BY <2>2, <2>7, <3>1 DEF AndOrStep, IfStep
    <2>8. CASE ForEnds \/ TakeReads \/ TakeFired \/ WhileCondition \/ ForBody \/ ForWordFails
      <3>1. Top.phase \in {"head", "clear"}
        BY <2>8 DEF ForEnds, TakeReads, TakeFired, WhileCondition, ForBody, ForWordFails,
                    LoopHead, In
      <3> QED
        BY <2>1, <3>1 DEF Fresh
    <2>9. CASE WhileConditionDone \/ LoopBodyDone
      <3>1. LoopFlow.act # "run"
        <4>1. sh \in Shells /\ (sh.flow = "none" \/ ~sh.want_exit)
          BY DEF WalkInv, WalkTypes, Caught
        <4> QED
          BY <4>1, LoopFlowLeaves DEF Halted
      <3>2. CASE WhileConditionDone
        <4>1. CASE LoopFlow.act = "next"
          <5>1. stack' = Waiting([Top EXCEPT !.phase = "head"])
            BY <3>2, <4>1 DEF WhileConditionDone, AgainFrom
          <5>2. [Top EXCEPT !.phase = "head"] \in Frames
            BY <3>2, AtLoop DEF WhileConditionDone, Frames, FitsItsNode, Phases, IsLoop
          <5> QED
            BY <2>1, <5>1, <5>2
        <4>2. CASE LoopFlow.act = "done"
          BY <2>3, <3>2, <4>2 DEF WhileConditionDone
        <4> QED
          BY <3>1, <4>1, <4>2, AtLoop, LoopFlowLeaves, <3>2 DEF WhileConditionDone
      <3>3. CASE LoopBodyDone
        <4>1. CASE LoopFlow.act = "done"
          BY <2>3, <3>3, <4>1 DEF LoopBodyDone
        <4>2. CASE LoopFlow.act # "done"
          <5> DEFINE again == [Top EXCEPT !.status = sh.last_status]
                     frame == [again EXCEPT !.phase = "head"]
          <5>1. stack' = Waiting(frame)
            BY <3>1, <3>3, <4>2, Zenon DEF LoopBodyDone, AgainFrom
          <5>2. again \in Frames /\ again.phase = "body" /\ IsLoop(again.node)
            BY <3>3, AtLoop DEF LoopBodyDone, LoopHead, Frames, FitsItsNode, Phases, IsLoop, Shells
          <5> HIDE DEF again
          <5>3. frame \in Frames
            BY <5>2 DEF Frames, FitsItsNode, Phases, IsLoop
          <5> QED
            BY <2>1, <5>1, <5>3
        <4> QED
          BY <4>1, <4>2
      <3> QED
        BY <2>9, <3>2, <3>3
    <2>10. CASE stack' = stack
      BY <2>1, <2>10
    <2> QED
      BY <2>4, <2>5, <2>6, <2>7, <2>8, <2>9, <2>10
      DEF Next, Walk, NextLine, SigInt, OutOfLog, Ended, vars
  <1>2. WalkInv /\ [Next]_vars => [Halted /\ stack # <<>> => Len(stack') <= Len(stack)]_vars
    BY <1>1
  <1> QED
    BY <1>2, WalkInvariance, PTL DEF Spec, NothingStartsWhileHalted
=============================================================================
