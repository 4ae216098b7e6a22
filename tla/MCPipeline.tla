------------------------------ MODULE MCPipeline ------------------------------
(* Model-checking instance of Pipeline: one event, worked by two processes   *)
(* that die twice, two attempts at the event and at its job.                 *)
EXTENDS Pipeline
=============================================================================
