-------------------------- MODULE MCPipelineService --------------------------
(***************************************************************************)
(* A small instance of PipelineService for TLC.                            *)
(***************************************************************************)
EXTENDS PipelineServiceProperties, TLC

CONSTANTS w1, w2, r1, r2

\* The direct request comes to the first process, the other one to either.
MCRoute == {f \in [Request -> Worker] : f[r1] = w1}
=============================================================================
