-------------------------- MODULE MCLeaderElection --------------------------
(* Three mains.  Liveness is checked, so no symmetry. *)
EXTENDS LeaderElection
=============================================================================
