--------------------------- MODULE MCWebConsole ---------------------------
(* Two sessions: one with output that looks like a prompt, one that exits. *)
EXTENDS WebConsole

MCFile == [s \in Sessions |-> IF s = 1 THEN <<"run", "run">> ELSE <<"run", "exit">>]
MCOutputs == [s \in Sessions |-> IF s = 1 THEN {<< >>, <<"L">>, <<"%", "blank", "L">>}
                                          ELSE {<<"L", "L">>}]
====
