------------------------------ MODULE PointLog ------------------------------
(***************************************************************************)
(* What a time-series writer promises: points are taken, stored in any     *)
(* order, and acknowledged in the order in which they were taken, when     *)
(* they are stored.  A point that was taken is never dropped.              *)
(***************************************************************************)
EXTENDS Naturals

VARIABLES taken,       \* the number of points taken
          stored,      \* the points in the database
          acknowledged \* how many the writer need not keep any longer

logVars == <<taken, stored, acknowledged>>

LogInit == taken = 0 /\ stored = {} /\ acknowledged = 0

Take ==
  /\ taken' = taken + 1
  /\ UNCHANGED <<stored, acknowledged>>

Store ==
  /\ stored \subseteq stored' /\ stored' \subseteq 1..taken
  /\ UNCHANGED <<taken, acknowledged>>

Acknowledge ==
  /\ acknowledged' \in acknowledged..taken
  /\ 1..acknowledged' \subseteq stored
  /\ UNCHANGED <<taken, stored>>

LogNext == Take \/ Store \/ Acknowledge

LogSpec == LogInit /\ [][LogNext]_logVars
=============================================================================
