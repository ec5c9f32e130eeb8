---------------------------- MODULE MCRouterConn ----------------------------
(* Model-checking instances of RouterConn.                                 *)
EXTENDS RouterConn, TLC

\* The goroutines are interchangeable in every safety property.
ProcSymmetry == Permutations(Procs)
=============================================================================
