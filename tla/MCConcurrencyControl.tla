------------------------ MODULE MCConcurrencyControl ------------------------
(* The gate with a few callers of each kind. *)
EXTENDS ConcurrencyControl, TLC

CONSTANTS Production, Evaluation, Manual  \* sets of model values

MCCallers == Production \cup Evaluation \cup Manual
MCModeOf == [c \in MCCallers |-> CASE c \in Production -> "webhook"
                                   [] c \in Evaluation -> "evaluation"
                                   [] OTHER -> "manual"]

Unlimited == -1  \* a configuration file holds no negative number

\* Callers of one kind differ in nothing.
Symmetry == Permutations(Production) \cup Permutations(Evaluation)
=============================================================================
