------------------------ MODULE MCSubagentScheduler ------------------------
(* Three top-level sub-agents and one nested in the first.                  *)
EXTENDS SubagentScheduler, TLC

CONSTANTS a1, a2, a3, n1

MCRequester == (n1 :> a1) @@ [a \in {a1, a2, a3} |-> NoAgent]
=============================================================================
