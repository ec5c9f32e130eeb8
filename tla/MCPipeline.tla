----------------------------- MODULE MCPipeline -----------------------------
(* A model-checking instance of Pipeline.                                  *)
EXTENDS Pipeline
=============================================================================
