---------------------------- MODULE MCQueueMode ----------------------------
(* Two mains and two workers.  Liveness is checked, so no symmetry. *)
EXTENDS QueueMode
=============================================================================
