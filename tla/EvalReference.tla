--------------------------- MODULE EvalReference ---------------------------
(***************************************************************************)
(* What a line means, as a recursive function on its AST: the manual's     *)
(* account of lists, if, loops and functions, with no flags to unwind.     *)
(* A meaning is a record: why the construct ended (sig), the status, the   *)
(* function table, and what is left of the recorded commands.              *)
(***************************************************************************)
EXTENDS Eval

Ok(m, status) == [m EXCEPT !.sig = "none", !.status = status]

RECURSIVE Meaning(_, _, _, _)
RECURSIVE MeaningOfList(_, _, _, _, _)
RECURSIVE MeaningOfChain(_, _, _, _, _)
RECURSIVE MeaningOfIf(_, _, _, _, _)
RECURSIVE MeaningOfWhile(_, _, _, _, _)
RECURSIVE MeaningOfFor(_, _, _, _, _, _)

\* loops and calls say how many of each are around the construct
MeaningOfCommand(n, m, loops, calls) ==
    LET what == Head(m.rest).what
        rest == [m EXCEPT !.rest = Tail(@)]
        out(status) == IF ~Nodes[n].negate THEN status ELSE IF status = 0 THEN 1 ELSE 0
        ends(sig, status) == [rest EXCEPT !.sig = sig, !.status = out(status)]
    IN CASE what = "ok" -> ends("none", 0)
         [] what = "fail" -> ends("none", 1)
         [] what = "killed" -> ends("none", Interrupted)
         [] what \in {"break", "continue"} ->
              IF loops = 0 THEN ends("none", 1) ELSE ends(what, 0)
         [] what \in {"return", "return_2"} ->
              LET status == IF what = "return_2" THEN 2 ELSE m.status
              IN IF calls = 0 THEN ends("none", 1)
                 ELSE [ends("return", status) EXCEPT !.value = status]
         [] what = "exit" -> ends("exit", m.status)
         [] what = "exit_1" -> ends("exit", 1)
         [] what = "call" ->
              IF calls = FuncDepthMax THEN ends("none", 1)
              ELSE LET body == Meaning(m.func, rest, loops, calls + 1)
                       status == IF body.sig = "return" THEN body.value ELSE body.status
                   IN [body EXCEPT !.sig = IF @ = "exit" THEN @ ELSE "none",
                                   !.status = out(status)]

MeaningOfList(n, k, m, loops, calls) ==
    IF k > Len(Nodes[n].nodes) \/ m.sig # "none" THEN m
    ELSE MeaningOfList(n, k + 1, Meaning(Nodes[n].nodes[k], m, loops, calls), loops, calls)

MeaningOfChain(n, k, m, loops, calls) ==
    IF k > Len(Nodes[n].items) \/ m.sig # "none" THEN m
    ELSE LET item == Nodes[n].items[k]
             runs == \/ item.op = "first"
                     \/ item.op = "and" /\ m.status = 0
                     \/ item.op = "or" /\ m.status # 0
         IN MeaningOfChain(n, k + 1,
                           IF runs THEN Meaning(item.node, m, loops, calls) ELSE m,
                           loops, calls)

MeaningOfIf(n, k, m, loops, calls) ==
    IF k > Len(Nodes[n].conds)
    THEN IF Nodes[n].otherwise = <<>> THEN Ok(m, 0)
         ELSE Meaning(Nodes[n].otherwise[1], m, loops, calls)
    ELSE LET c == Meaning(Nodes[n].conds[k], m, loops, calls)
         IN IF c.sig # "none" THEN c
            ELSE IF c.status = 0 THEN Meaning(Nodes[n].bodies[k], c, loops, calls)
            ELSE MeaningOfIf(n, k + 1, c, loops, calls)

\* the next entry says that the loop inside "loops" others ended that way
LoopEndsWith(what, m, loops) ==
    m.rest # <<>> /\ Head(m.rest) = [what |-> what, loops |-> loops + 1]
Drop1(m, status) == [Ok(m, status) EXCEPT !.rest = Tail(@)]

\* passed is the status of the last pass, 0 before the first
MeaningOfWhile(n, m, loops, calls, passed) ==
    LET c == Meaning(Nodes[n].cond, m, loops + 1, calls)
        b == Meaning(Nodes[n].body, c, loops + 1, calls)
    IN IF LoopEndsWith("sigint", m, loops) THEN Drop1(m, Interrupted)
       ELSE CASE c.sig = "break" -> Ok(c, 0)
              [] c.sig = "continue" -> MeaningOfWhile(n, Ok(c, c.status), loops, calls, passed)
              [] c.sig \in {"return", "exit"} \/ c.status = Interrupted -> c
              [] c.status # 0 -> Ok(c, passed)
              [] b.sig = "break" -> Ok(b, 0)
              [] b.sig \in {"return", "exit"} -> b
              [] b.sig = "none" /\ b.status = Interrupted -> b
              [] OTHER -> MeaningOfWhile(n, Ok(b, b.status), loops, calls, b.status)

MeaningOfFor(n, k, m, loops, calls, passed) ==
    LET b == Meaning(Nodes[n].body, m, loops + 1, calls)
    IN IF k > Nodes[n].words THEN Ok(m, passed)
       ELSE IF LoopEndsWith("sigint", m, loops) THEN Drop1(m, Interrupted)
       ELSE IF LoopEndsWith("badword", m, loops) THEN Drop1(m, 1)
       ELSE CASE b.sig = "break" -> Ok(b, 0)
              [] b.sig \in {"return", "exit"} -> b
              [] b.sig = "none" /\ b.status = Interrupted -> b
              [] OTHER -> MeaningOfFor(n, k + 1, Ok(b, b.status), loops, calls, b.status)

Meaning(n, m, loops, calls) ==
    CASE Nodes[n].kind = "command" -> MeaningOfCommand(n, m, loops, calls)
      [] Nodes[n].kind = "list" -> MeaningOfList(n, 1, m, loops, calls)
      [] Nodes[n].kind = "andor" -> MeaningOfChain(n, 1, m, loops, calls)
      [] Nodes[n].kind = "if" -> MeaningOfIf(n, 1, m, loops, calls)
      [] Nodes[n].kind = "while" -> MeaningOfWhile(n, m, loops, calls, 0)
      [] Nodes[n].kind = "for" -> MeaningOfFor(n, 1, m, loops, calls, 0)
      [] Nodes[n].kind = "funcdef" -> [Ok(m, 0) EXCEPT !.func = Nodes[n].body]

LineMeaning ==
    Meaning(line.root, [sig |-> "none", status |-> line.status, value |-> 0,
                        func |-> line.func, rest |-> log], 0, 0)

(* A finished line leaves the status, the function table and the exit      *)
(* request its structure calls for, after exactly the commands it should   *)
(* have run: flags and frames implement the structured meaning.            *)
LineMeansWhatItSays ==
    stack = <<>> /\ line.root # 0 =>
        LET m == LineMeaning IN
        /\ m.rest = <<>>
        /\ m.status = sh.last_status
        /\ m.func = func
        /\ (m.sig = "exit") = sh.want_exit
        /\ m.sig \in {"none", "exit"}
=============================================================================
