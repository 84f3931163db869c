------------------------------ MODULE MCPrompt ------------------------------
(* Lines of up to two characters, one of them blank, a history of two      *)
(* entries, one submitted line over any number of shells.                  *)
EXTENDS Prompt

MCChars == {"a", " "}

\* xterm and console encodings of the keys of the manual, and of keys it
\* does not list
Csi(s) == <<"ESC", "[">> \o s
Ss3(b) == <<"ESC", "O", b>>

Encoding ==
    [Left |-> {Csi(<<"D">>)}, Right |-> {Ss3("C")},
     Home |-> {<<"^A">>, Csi(<<"1", "~">>)}, End |-> {Ss3("F"), Csi(<<"8", "~">>)},
     Backspace |-> {<<"DEL">>}, Delete |-> {Csi(<<"3", "~">>)},
     KillEnd |-> {<<"^K">>}, KillStart |-> {<<"^U">>}, KillWord |-> {<<"^W">>},
     Up |-> {Csi(<<"A">>)}, Down |-> {Ss3("B")},
     Enter |-> {<<"CR">>}, CtrlC |-> {<<"^C">>}, CtrlD |-> {<<"^D">>},
     Escape |-> {<<"ESC">>}, Bell |-> {<<"^G">>},
     F5 |-> {Csi(<<"1", "5", "~">>)},
     CtrlUp |-> {Csi(<<"1", ";", "5", "A">>)}]

Typed == [c \in MCChars |-> {<<c>>}]

MCKeyBytes ==
    [k \in MCChars \cup DOMAIN Encoding |-> IF k \in MCChars THEN Typed[k] ELSE Encoding[k]]

ASSUME KeyboardAssumption == Speaks(MCKeyBytes)

\* the keys of a Linux console user, and a click in a terminal that reports it
JunkKeyBytes ==
    [a |-> {<<"a">>}, Enter |-> {<<"CR">>}, F5 |-> {Csi(<<"1", "5", "~">>)},
     ConsoleF1 |-> {Csi(<<"[", "A">>)}, Mouse |-> {Csi(<<"<", "0", ";", "1", ";", "1", "M">>)}]

MCText ==
    UNION {UNION {{bytes[i] : i \in DOMAIN bytes} : bytes \in kb[key]} :
           <<kb, key>> \in ({MCKeyBytes} \X DOMAIN MCKeyBytes)
                             \cup ({JunkKeyBytes} \X DOMAIN JunkKeyBytes)}

MCFiles == {<<>>, <<<<"a">>, <<"a">>, <<" ">>, <<"a">>>>}
=============================================================================
