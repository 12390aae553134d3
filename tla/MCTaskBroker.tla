---------------------------- MODULE MCTaskBroker ----------------------------
(* Requests and runners of the two task types. *)
EXTENDS TaskBroker, TLC

CONSTANTS JsRequests, PyRequests, JsRunners, PyRunners

MCRequests == JsRequests \cup PyRequests
MCRunners == JsRunners \cup PyRunners
MCTypeOf == [x \in MCRequests \cup MCRunners |->
               IF x \in JsRequests \cup JsRunners THEN "javascript" ELSE "python"]

\* Requests of one type differ in nothing, and neither do its runners.
Symmetry == Permutations(JsRequests) \cup Permutations(JsRunners)
=============================================================================
