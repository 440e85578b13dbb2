--------------------------- MODULE MCSessionStore ---------------------------
(* Two runtimes and one session of up to three messages.  The runtimes are  *)
(* alike and one write fails, so it may as well be one of r2.               *)
EXTENDS SessionStore, TLC
=============================================================================
