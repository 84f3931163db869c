------------------------------- MODULE MCRepl -------------------------------
(* Kinds of input, each over the few chunks that interact, and at least as *)
(* long as its shortest complete construct.                                *)
EXTENDS Repl

Words(ws) == {<<w, " ">> : w \in ws}
Units(us) == {<<u>> : u \in us}

\* values that hold a dollar, a longer name than another, a home and none
Ctx(home) ==
    [env |-> (<<"a">> :> <<"$", "a">>) @@ (<<"a", "2">> :> <<"b">>) @@ (<<"HOME">> :> home),
     argv |-> <<<<"x">>, <<"$", "y">>>>, status |-> 1]
NoCtx == [env |-> <<"HOME">> :> <<>>, argv |-> <<>>, status |-> 0]

Expanding(chunks, room, ctx) ==
    [interactive |-> TRUE, chunks |-> Units(chunks), room |-> room, ctx |-> ctx]

Session(interactive, chunks, room) ==
    [interactive |-> interactive, chunks |-> chunks, room |-> room, ctx |-> NoCtx]

Clause(kw) == <<kw, " ", "a", ";">>

MCSessions ==
    {Expanding({"$", "{", "}", "a", "2"}, 5, Ctx(<<"h">>)),
     Expanding({"$", "?", "#", "1", "{"}, 4, Ctx(<<"h">>)),
     Expanding({"~", "/", "SQ", "DQ", "$"}, 4, Ctx(<<"h">>)),
     Expanding({"~", "/", "#", "0", "$"}, 3, NoCtx),
     Session(TRUE, Units({"SQ", "DQ", "BS", "a", "#", " "}), 5),
     Session(TRUE, Words({"if"}) \cup Units({"a", "BS", "#", "SQ"}), 6),
     Session(FALSE, Units({"2", "a", ">", "<", "#"}), 5),
     Session(TRUE, Units({"a", "|", "&", ">"}) \cup Words({"!"}), 6),
     Session(TRUE, Words({"if", "then", "else", "fi"}) \cup {<<"a", ";">>}, 10),
     Session(TRUE, {Clause(kw) : kw \in {"if", "then", "elif", "else"}} \cup Words({"fi"}), 18),
     Session(TRUE, Words({"while", "a"}) \cup {<<";", "do", " ">>, <<";", "done">>}, 12),
     Session(FALSE, Words({"for", "in", "a"}) \cup {<<";", "do", " ">>, <<";", "done">>}, 13),
     Session(TRUE, Units({"f", "(", ")"}) \cup Words({"{"}) \cup {<<";", "}">>}, 8)}

EscapeSessions == {Expanding({"DQ", "BS", "$", "a"}, 5, NoCtx)}
=============================================================================
