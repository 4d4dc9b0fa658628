---------------------------- MODULE MCKoboSync -----------------------------
(* Small instances of KoboSync for TLC.  Books are not declared symmetric:  *)
(* the run checks liveness.                                                 *)
EXTENDS KoboSync
=============================================================================
