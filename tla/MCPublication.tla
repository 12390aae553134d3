--------------------------- MODULE MCPublication ---------------------------
(* Two versions: between them one trigger stays, one changes and one comes. *)
EXTENDS Publication

CONSTANTS v1, v2

T(n, c) == [node |-> n, content |-> c]
MCTriggersOf ==
    [v \in {v1, v2} |-> IF v = v1 THEN {T("a", 1), T("b", 1)} ELSE {T("a", 1), T("b", 2), T("c", 1)}]
=============================================================================
