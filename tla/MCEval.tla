------------------------------- MODULE MCEval -------------------------------
(* Five lines over leaf commands that may turn out to be anything: a while *)
(* loop, nested for loops, an if with an elif that is an and-or chain with *)
(* a negation, and two functions, one of them a loop, defined and then     *)
(* called from inside a loop.                                              *)
EXTENDS EvalReference

Leaf == [kind |-> "command", negate |-> FALSE]
Not == [kind |-> "command", negate |-> TRUE]
List(nodes) == [kind |-> "list", nodes |-> nodes]
Item(op, node) == [op |-> op, node |-> node]

MCNodes == <<
    Leaf,                                                        \*  1
    Not,                                                         \*  2
    List(<<1, 1>>),                                              \*  3
    [kind |-> "while", cond |-> 1, body |-> 1],                  \*  4
    [kind |-> "for", words |-> 2, body |-> 1],                   \*  5
    List(<<5, 1>>),                                              \*  6
    [kind |-> "for", words |-> 2, body |-> 6],                   \*  7
    [kind |-> "andor",
     items |-> <<Item("first", 1), Item("and", 2), Item("or", 1)>>],  \* 8
    [kind |-> "if", conds |-> <<1, 8>>, bodies |-> <<3, 1>>,
     otherwise |-> <<1>>],                                       \*  9
    [kind |-> "funcdef", body |-> 3],                            \* 10
    [kind |-> "funcdef", body |-> 4],                            \* 11
    [kind |-> "if", conds |-> <<1>>, bodies |-> <<11>>, otherwise |-> <<>>],  \* 12
    List(<<10, 4, 1>>),                                          \* 13
    List(<<12, 5>>) >>                                           \* 14

MCRoots == {4, 7, 9, 13, 14}
=============================================================================
