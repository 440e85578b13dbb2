-------------------------- MODULE MCWorkspaceLease --------------------------
(* Two processes: one with two sessions, the first of which has two runs    *)
(* and a background job, and one with a single session.                     *)
EXTENDS WorkspaceLease, TLC

CONSTANTS p1, p2, o1, o2, o3, r1, r2, r3, r4, j1

MCProcessOf == o1 :> p1 @@ o2 :> p1 @@ o3 :> p2
MCOwnerOf == r1 :> o1 @@ r2 :> o1 @@ r3 :> o2 @@ r4 :> o3 @@ j1 :> o1
=============================================================================
