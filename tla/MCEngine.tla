------------------------------ MODULE MCEngine ------------------------------
(* Model-checking instances of Engine.                                     *)
EXTENDS Engine, TLC

\* The routers are interchangeable in every safety property.
RouterSymmetry == Permutations(Routers)
=============================================================================
