---------------------------- MODULE MCTestRunner ----------------------------
(* Two evaluation runs that compete for the evaluation queue. *)
EXTENDS TestRunner

CONSTANTS CasesA, CasesB  \* the cases of the two runs

MCRuns == {"A", "B"}
MCCallers == CasesA \cup CasesB
MCRunOf == [c \in MCCallers |-> IF c \in CasesA THEN "A" ELSE "B"]
MCModeOf == [c \in MCCallers |-> "evaluation"]
Unlimited == -1
=============================================================================
