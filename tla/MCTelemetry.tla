---------------------------- MODULE MCTelemetry -----------------------------
EXTENDS Telemetry

\* Every two specs of one router, and every spec on two routers.
Pairs ==
  {{<<"r1", s>>, <<"r1", t>>} : s, t \in DOMAIN Catalog}
    \cup {{<<"r1", s>>, <<"r2", s>>} : s \in DOMAIN Catalog}

Secrets == {{<<"r1", "PPPSecret">>}}
Sessions == {{<<"r1", "PPPActive">>}}
=============================================================================
