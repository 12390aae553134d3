------------------------- MODULE MCActiveExecutions -------------------------
(* Webhook-triggered runs, and resumes of waiting executions. *)
EXTENDS ActiveExecutions, TLC

CONSTANTS
    Creates,  \* runs that create an execution, named after it
    Resumes   \* runs that resume one of these executions, all the same one

\* All resumes go for one execution, so that they compete.
Target == CHOOSE r \in Creates : TRUE
MCCallers == Creates \cup Resumes
MCExecOf == [r \in MCCallers |-> IF r \in Creates THEN r ELSE Target]
MCModeOf == [r \in MCCallers |-> "webhook"]

\* Without resumes the created executions are alike, and so are the resumes.
CreateSymmetry == Permutations(Creates)
ResumeSymmetry == Permutations(Resumes)
=============================================================================
