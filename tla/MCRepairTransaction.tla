------------------------ MODULE MCRepairTransaction -------------------------
(* Two files, and an invoker that may ask again while an operation runs.    *)
(* The configuration is repaired or restored and the other file, a derived  *)
(* state, is quarantined.                                                   *)
EXTENDS RepairTransaction

CONSTANTS config, tabs

Action(t, k) == [target |-> t, kind |-> k]
MCPlans ==
    { <<Action(config, "repair"), Action(tabs, "quarantine")>>,
      <<Action(tabs, "quarantine"), Action(config, "restore")>> }
=============================================================================
