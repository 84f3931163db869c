-------------------------------- MODULE Eval --------------------------------
(***************************************************************************)
(* The evaluator of src/shell/eval.c: a recursive walk of the AST, here    *)
(* with its C stack made explicit, the flow state through which break,     *)
(* continue, return and exit unwind it, and the SIGINT watch of loops.     *)
(*                                                                         *)
(* Words expand when a command runs, so what a command turns out to be is  *)
(* chosen when it runs: an external pipeline with some status, a flow      *)
(* builtin, or a call of the one function name of the model.               *)
(***************************************************************************)
EXTENDS Integers, SequencesExt

CONSTANTS
    Nodes,          \* the AST nodes by number
    Roots,          \* the lines the user may enter, as node numbers
    FuncDepthMax,   \* FUNC_DEPTH_MAX
    MaxLog          \* bound on the commands and signals of one line

ASSUME DepthAssumption == FuncDepthMax \in Nat /\ MaxLog \in Nat

(* The children of a node of each kind, as the parser builds them.         *)
ASSUME TreeAssumption ==
    /\ Roots \subseteq DOMAIN Nodes
    /\ \A n \in DOMAIN Nodes :
          LET node == Nodes[n]  Trees == DOMAIN Nodes IN
          \/ node.kind = "command" /\ node.negate \in BOOLEAN
          \/ node.kind = "funcdef" /\ node.body \in Trees
          \/ node.kind = "list" /\ node.nodes \in Seq(Trees)
          \/ node.kind = "andor" /\ node.items \in Seq([op : {"first", "and", "or"}, node : Trees])
          \/ /\ node.kind = "if" /\ node.otherwise \in Seq(Trees)
             /\ node.conds \in Seq(Trees) /\ node.bodies \in Seq(Trees)
             /\ Len(node.bodies) = Len(node.conds)
          \/ node.kind = "while" /\ node.cond \in Trees /\ node.body \in Trees
          \/ node.kind = "for" /\ node.words \in Nat /\ node.body \in Trees

VARIABLES
    stack,      \* one frame per active eval_* call
    sh,         \* the fields of Shell the evaluator touches
    func,       \* the body of the function, or NoBody
    watching,   \* the SIGINT handler is installed
    int,        \* g_int_flag
    fired,      \* the local of signals_int_take
    line,       \* the line being run, with the state it started from
    log,        \* history: what its commands were, and the signals it noticed
    request     \* history: the loop frame a pipeline interrupted, or 0

vars == <<stack, sh, func, watching, int, fired, line, log, request>>
aux == <<func, fired, line, log, request>>

NoBody == 0
Interrupted == 130

IsLoop(n) == Nodes[n].kind \in {"while", "for"}

(* phase: start, or call in a command whose function runs; head, clear,    *)
(* cond and body in a loop.  at counts the children visited, status is     *)
(* body_status.                                                            *)
Frame(n) == [node |-> n, phase |-> IF IsLoop(n) THEN "head" ELSE "start",
             at |-> 0, status |-> 0]

Top == Last(stack)
Node == Nodes[Top.node]
In(kind, phase) == stack # <<>> /\ Node.kind = kind /\ Top.phase = phase

Halted == sh.flow # "none" \/ sh.want_exit

Init ==
    /\ stack = <<>>
    /\ sh = [last_status |-> 0, flow |-> "none", flow_status |-> 0,
             want_exit |-> FALSE, loop_depth |-> 0, func_depth |-> 0]
    /\ func = NoBody
    /\ watching = FALSE /\ int = FALSE /\ fired = FALSE
    /\ line = [root |-> 0, status |-> 0, func |-> NoBody]
    /\ log = <<>>
    /\ request = 0

-----------------------------------------------------------------------------
(* Calls and returns of the walk                                           *)

\* fault: the watch is switched at every entry to a loop
VisitRewatches(base, n, s, flag) ==
    /\ stack' = Append(base, Frame(n))
    /\ sh' = IF IsLoop(n) THEN [s EXCEPT !.loop_depth = 1] ELSE s
    /\ watching' = (watching \/ IsLoop(n))
    /\ int' = IF IsLoop(n) THEN FALSE ELSE flag

\* eval_node(n) with Shell s above base; flag is what g_int_flag is by now
Visit(base, n, s, flag) ==
    /\ stack' = Append(base, Frame(n))
    /\ sh' = IF IsLoop(n) THEN [s EXCEPT !.loop_depth = @ + 1] ELSE s
    /\ IF IsLoop(n) /\ s.loop_depth = 0                  \* loop_enter
       THEN watching' = TRUE /\ int' = FALSE
       ELSE watching' = watching /\ int' = flag

Waiting(frame) == Append(Front(stack), frame)

\* the request of an interrupted pipeline is over once its loop is
Settle == request' = IF Len(stack) <= request THEN 0 ELSE request

Return(s) ==
    /\ stack' = Front(stack)
    /\ sh' = s
    /\ UNCHANGED <<watching, int>>

ReturnFromLoop(s, flag) ==
    /\ stack' = Front(stack)
    /\ sh' = [s EXCEPT !.loop_depth = @ - 1]
    /\ IF s.loop_depth = 1                               \* loop_leave
       THEN watching' = FALSE /\ int' = FALSE
       ELSE watching' = watching /\ int' = flag
    /\ Settle

-----------------------------------------------------------------------------
(* Commands                                                                *)

Negated(status) == IF Node.negate THEN (IF status = 0 THEN 1 ELSE 0) ELSE status

\* exec_pipeline stores the status, eval_pipeline negates it
CommandDone(s, status) == Return([s EXCEPT !.last_status = Negated(status)])

Record(what) ==
    /\ Len(log) < MaxLog
    /\ log' = Append(log, [what |-> what, loops |-> sh.loop_depth])

LoopFrames == {k \in DOMAIN stack : IsLoop(stack[k].node)}

(* A forked pipeline in the foreground, or a builtin refused for its       *)
(* arguments; 130 is a child Ctrl-C killed.                                *)
External(what) ==
    LET status == CASE what = "ok" -> 0 [] what = "fail" -> 1 [] what = "killed" -> Interrupted
    IN /\ In("command", "start")
       /\ Record(what)
       /\ CommandDone(sh, status)
       /\ request' = IF what = "killed" /\ LoopFrames # {} /\ ~Node.negate
                     THEN Max(LoopFrames) ELSE request
       /\ UNCHANGED <<func, fired, line>>

(* bi_flow: break and continue *)
Flow(what) ==
    /\ In("command", "start")
    /\ Record(what)
    /\ IF sh.loop_depth <= 0 THEN CommandDone(sh, 1)
       ELSE CommandDone([sh EXCEPT !.flow = what], 0)
    /\ UNCHANGED <<func, fired, line, request>>

(* bi_return, with and without an argument *)
ReturnBuiltin(what) ==
    LET status == IF what = "return_2" THEN 2 ELSE sh.last_status
    IN /\ In("command", "start")
       /\ Record(what)
       /\ IF sh.func_depth <= 0 THEN CommandDone(sh, 1)
          ELSE CommandDone([sh EXCEPT !.flow = "return", !.flow_status = status], status)
       /\ UNCHANGED <<func, fired, line, request>>

(* bi_exit, with and without an argument *)
Exit(what) ==
    /\ In("command", "start")
    /\ Record(what)
    /\ CommandDone([sh EXCEPT !.want_exit = TRUE],
                   IF what = "exit_1" THEN 1 ELSE sh.last_status)
    /\ UNCHANGED <<func, fired, line, request>>

(* eval_maybe_call_function, up to the body *)
Call ==
    /\ In("command", "start")
    /\ func # NoBody
    /\ Record("call")
    /\ IF sh.func_depth >= FuncDepthMax THEN CommandDone(sh, 1)
       ELSE Visit(Waiting([Top EXCEPT !.phase = "call"]), func,
                  [sh EXCEPT !.func_depth = @ + 1], int)
    /\ UNCHANGED <<func, fired, line, request>>

(* ... and after it: return lands here, a stray break or continue drains. *)
CallReturns ==
    LET s == [sh EXCEPT !.func_depth = @ - 1, !.flow = "none"]
    IN /\ In("command", "call")
       /\ CommandDone(s, IF sh.flow = "return" THEN sh.flow_status ELSE sh.last_status)
       /\ UNCHANGED aux

FuncDef ==
    /\ In("funcdef", "start")
    /\ func' = Node.body
    /\ Return([sh EXCEPT !.last_status = 0])
    /\ UNCHANGED <<fired, line, log, request>>

-----------------------------------------------------------------------------
(* Lists, and-or chains, if                                                *)

\* fault: the list goes on after a break
ListStepHeedsExit ==
    /\ In("list", "start")
    /\ IF sh.want_exit \/ Top.at = Len(Node.nodes) THEN Return(sh)
       ELSE Visit(Waiting([Top EXCEPT !.at = @ + 1]), Node.nodes[Top.at + 1], sh, int)
    /\ UNCHANGED aux

ListStep ==
    /\ In("list", "start")
    /\ IF Halted \/ Top.at = Len(Node.nodes) THEN Return(sh)
       ELSE Visit(Waiting([Top EXCEPT !.at = @ + 1]), Node.nodes[Top.at + 1], sh, int)
    /\ UNCHANGED aux

Runs(op) == \/ op = "first"
            \/ op = "and" /\ sh.last_status = 0
            \/ op = "or" /\ sh.last_status # 0

AndOrStep ==
    /\ In("andor", "start")
    /\ LET next == {k \in DOMAIN Node.items : k > Top.at /\ Runs(Node.items[k].op)} IN
       IF (Top.at > 0 /\ Halted) \/ next = {} THEN Return(sh)
       ELSE Visit(Waiting([Top EXCEPT !.at = Min(next)]), Node.items[Min(next)].node, sh, int)
    /\ UNCHANGED aux

(* at conditions were evaluated; a body is the last thing eval_if runs. *)
IfStep ==
    /\ In("if", "start")
    /\ LET body(n) == Visit(Front(stack), n, sh, int) IN
       IF Top.at > 0 /\ Halted THEN Return(sh)
       ELSE IF Top.at > 0 /\ sh.last_status = 0 THEN body(Node.bodies[Top.at])
       ELSE IF Top.at < Len(Node.conds)
       THEN Visit(Waiting([Top EXCEPT !.at = @ + 1]), Node.conds[Top.at + 1], sh, int)
       ELSE IF Node.otherwise # <<>> THEN body(Node.otherwise[1])
       ELSE Return([sh EXCEPT !.last_status = 0])
    /\ UNCHANGED aux

-----------------------------------------------------------------------------
(* Loops.  signals_int_take reads the flag and then clears it.             *)

LoopHead(phase) == In("while", phase) \/ In("for", phase)

\* eval_for past its last word
ForEnds ==
    /\ In("for", "head")
    /\ Top.at = Node.words
    /\ ReturnFromLoop([sh EXCEPT !.last_status = Top.status], int)
    /\ UNCHANGED <<func, fired, line, log>>

TakeReads ==
    /\ LoopHead("head")
    /\ Node.kind = "for" => Top.at < Node.words
    /\ fired' = int
    /\ stack' = Waiting([Top EXCEPT !.phase = "clear"])
    /\ UNCHANGED <<sh, func, watching, int, line, log, request>>

TakeFired ==
    /\ LoopHead("clear")
    /\ fired
    /\ Record("sigint")
    /\ ReturnFromLoop([sh EXCEPT !.last_status = Interrupted], FALSE)
    /\ fired' = FALSE
    /\ UNCHANGED <<func, line>>

WhileCondition ==
    /\ In("while", "clear")
    /\ ~fired
    /\ Visit(Waiting([Top EXCEPT !.phase = "cond"]), Node.cond, sh, FALSE)
    /\ UNCHANGED aux

ForBody ==
    /\ In("for", "clear")
    /\ ~fired
    /\ Visit(Waiting([Top EXCEPT !.phase = "body", !.at = @ + 1]), Node.body, sh, FALSE)
    /\ UNCHANGED aux

\* expand_word or setenv failed
ForWordFails ==
    /\ In("for", "clear")
    /\ ~fired
    /\ Record("badword")
    /\ ReturnFromLoop([sh EXCEPT !.last_status = 1], FALSE)
    /\ UNCHANGED <<func, fired, line>>

\* fault: exit stops the pass but not the loop
LoopFlowIgnoresExit ==
    CASE sh.flow = "break" ->
           [act |-> "done", sh |-> [sh EXCEPT !.flow = "none", !.last_status = 0]]
      [] sh.flow = "continue" -> [act |-> "next", sh |-> [sh EXCEPT !.flow = "none"]]
      [] sh.flow = "return" -> [act |-> "done", sh |-> sh]
      [] OTHER -> [act |-> "run", sh |-> sh]

\* loop_flow: what the loop does, and the Shell it leaves
LoopFlow ==
    IF sh.want_exit THEN [act |-> "done", sh |-> sh]
    ELSE CASE sh.flow = "break" ->
                [act |-> "done", sh |-> [sh EXCEPT !.flow = "none", !.last_status = 0]]
           [] sh.flow = "continue" ->
                [act |-> "next", sh |-> [sh EXCEPT !.flow = "none"]]
           [] sh.flow = "return" -> [act |-> "done", sh |-> sh]
           [] OTHER -> [act |-> "run", sh |-> sh]

AgainFrom(frame, s) ==
    /\ stack' = Waiting([frame EXCEPT !.phase = "head"])
    /\ sh' = s
    /\ UNCHANGED <<watching, int, request>>

WhileConditionDone ==
    /\ In("while", "cond")
    /\ LET f == LoopFlow IN
       IF f.act = "next" THEN AgainFrom(Top, f.sh)
       ELSE IF f.act = "done" \/ sh.last_status = Interrupted THEN ReturnFromLoop(f.sh, int)
       ELSE IF sh.last_status # 0
       THEN ReturnFromLoop([sh EXCEPT !.last_status = Top.status], int)
       ELSE Visit(Waiting([Top EXCEPT !.phase = "body"]), Node.body, sh, int)
            /\ UNCHANGED request
    /\ UNCHANGED <<func, fired, line, log>>

\* fault: the status of the last pass is not kept
LoopBodyDoneForgets ==
    /\ LoopHead("body")
    /\ LET f == LoopFlow IN
       IF f.act = "done" \/ (f.act = "run" /\ sh.last_status = Interrupted)
       THEN ReturnFromLoop(f.sh, int)
       ELSE AgainFrom(Top, f.sh)
    /\ UNCHANGED <<func, fired, line, log>>

LoopBodyDone ==
    /\ LoopHead("body")
    /\ LET f == LoopFlow IN
       IF f.act = "done" \/ (f.act = "run" /\ sh.last_status = Interrupted)
       THEN ReturnFromLoop(f.sh, int)
       ELSE AgainFrom([Top EXCEPT !.status = sh.last_status], f.sh)
    /\ UNCHANGED <<func, fired, line, log>>

-----------------------------------------------------------------------------
(* feed: the next line is parsed and evaluated unless exit was asked for.  *)
NextLine(root) ==
    /\ stack = <<>>
    /\ ~sh.want_exit
    /\ Visit(<<>>, root, sh, int)
    /\ line' = [root |-> root, status |-> sh.last_status, func |-> func]
    /\ log' = <<>>
    /\ UNCHANGED <<func, fired, request>>

Ended == stack = <<>> /\ sh.want_exit /\ UNCHANGED vars

\* a line whose log is full is followed no further
OutOfLog == stack # <<>> /\ Len(log) = MaxLog /\ UNCHANGED vars

\* Ctrl-C while the shell itself is in the foreground
SigInt ==
    /\ watching
    /\ ~int
    /\ int' = TRUE
    /\ UNCHANGED <<stack, sh, watching, aux>>

Commands ==
    \/ \E what \in {"ok", "fail", "killed"} : External(what)
    \/ \E what \in {"break", "continue"} : Flow(what)
    \/ \E what \in {"return", "return_2"} : ReturnBuiltin(what)
    \/ \E what \in {"exit", "exit_1"} : Exit(what)
    \/ Call

Walk ==
    \/ CallReturns \/ FuncDef
    \/ ListStep \/ AndOrStep \/ IfStep
    \/ ForEnds \/ TakeReads \/ TakeFired
    \/ WhileCondition \/ WhileConditionDone
    \/ ForBody \/ ForWordFails \/ LoopBodyDone

Next ==
    \/ Commands
    \/ Walk
    \/ \E root \in Roots : NextLine(root)
    \/ SigInt
    \/ OutOfLog
    \/ Ended

Spec == Init /\ [][Next]_vars

(* The evaluator is plain code: it takes its next step whenever it has one. *)
FairSpec == Spec /\ WF_vars(Walk)

-----------------------------------------------------------------------------
Flows == {"none", "break", "continue", "return"}
Statuses == {0, 1, 2, Interrupted}

TypeOK ==
    /\ \A k \in DOMAIN stack :
          /\ stack[k].node \in DOMAIN Nodes
          /\ stack[k].phase \in {"start", "call", "head", "clear", "cond", "body"}
          /\ stack[k].status \in Statuses
    /\ sh.last_status \in Statuses /\ sh.flow_status \in Statuses
    /\ sh.flow \in Flows
    /\ sh.want_exit \in BOOLEAN
    /\ sh.loop_depth \in Nat /\ sh.func_depth \in 0 .. FuncDepthMax
    /\ watching \in BOOLEAN /\ int \in BOOLEAN /\ fired \in BOOLEAN

Calls == {k \in DOMAIN stack : stack[k].phase = "call"}

\* a pending break or continue has a loop or a call to stop it, a pending
\* return a call
PendingFlowIsCaught ==
    /\ sh.flow \in {"break", "continue"} => LoopFrames \cup Calls # {}
    /\ sh.flow = "return" => Calls # {}

(* loop_depth and func_depth, which gate break, continue and return and    *)
(* cap recursion, count the loops and calls really on the stack, however   *)
(* they were left; SIGINT is watched exactly while a loop is running; no   *)
(* flow state leaks out of a line into the next one.                       *)
DepthsCountFrames ==
    /\ TypeOK /\ PendingFlowIsCaught
    /\ sh.loop_depth = Cardinality(LoopFrames)
    /\ sh.func_depth = Cardinality(Calls)
    /\ watching = (LoopFrames # {})
    /\ int => watching

(* While break, continue, return or exit is pending the walk only unwinds: *)
(* no command, condition or body is started.                               *)
NothingStartsWhileHalted ==
    [][Halted /\ stack # <<>> => Len(stack') <= Len(stack)]_vars

(* exit reaches the prompt loop from any depth of loops and functions. *)
ExitUnwinds == sh.want_exit ~> stack = <<>>

(* manual.md, Loops and Ctrl-C: "A foreground pipeline that came back with *)
(* status 130 counts as the same request. Either way the loop stops": the  *)
(* loop the pipeline ran in makes no further pass.                         *)
KilledPipelineStopsLoop ==
    ~(request > 0 /\ Len(stack) = request /\ Top.phase = "head")
=============================================================================
