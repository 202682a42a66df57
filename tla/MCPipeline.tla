----------------------------- MODULE MCPipeline -----------------------------
(* The pipeline on the engines it runs by default.                         *)
EXTENDS Pipeline

BothEngines == <<"cockroachdb", "postgresql">>
=============================================================================
