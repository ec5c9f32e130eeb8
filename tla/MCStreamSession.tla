-------------------------- MODULE MCStreamSession --------------------------
(* Model-checking instances of StreamSession.                              *)
EXTENDS StreamSession, TLC
=============================================================================
