--------------------------- MODULE MCBackgroundJobs ---------------------------
(* Three scenarios: two calls racing for the cap; two jobs side by side;    *)
(* one job through several mishaps.                                         *)
EXTENDS BackgroundJobs

MCScales ==
    {[capped |-> TRUE, jobs |-> 2, kinds |-> {"task"}, turns |-> 1, mishaps |-> 1],
     [capped |-> FALSE, jobs |-> 2, kinds |-> {"task"}, turns |-> 1, mishaps |-> 1],
     [capped |-> FALSE, jobs |-> 1, kinds |-> {"task", "fleet"}, turns |-> 2, mishaps |-> 2]}
===============================================================================
