-------------------------- MODULE MCArtifactDelivery --------------------------
(***************************************************************************)
(* A small instance of ArtifactDelivery for TLC.                           *)
(***************************************************************************)
EXTENDS ArtifactDeliveryProperties, TLC

CONSTANTS d, n, profiling, traces, big, small, root, span

MCHome == (big :> n) @@ (small :> n) @@ (root :> d) @@ (span :> d)
MCOf == (big :> profiling) @@ (small :> profiling) @@ (root :> profiling) @@ (span :> traces)
MCLength == (big :> 2) @@ (small :> 1) @@ (root :> 1) @@ (span :> 1)
MCOrder == <<traces, profiling>>
MCModes == [strict : BOOLEAN, remote : BOOLEAN]
=============================================================================
