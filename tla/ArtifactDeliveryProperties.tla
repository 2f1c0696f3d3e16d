---------------------- MODULE ArtifactDeliveryProperties ----------------------
(***************************************************************************)
(* What the delivery of artifacts must guarantee.                          *)
(***************************************************************************)
EXTENDS ArtifactDelivery

\* At its destination a file holds at least what it held when it was staged.
Whole(f) == out[f].from = 1 /\ out[f].to >= Length[f]

(***************************************************************************)
(* A node is only reported in nodes_ok when each of its files is whole at  *)
(* the destination (_consume_ready_ref), save files that grew while they   *)
(* were streamed: chunks after the one announced as the last reopen, and   *)
(* so truncate, what was written (_process_chunk).                         *)
(***************************************************************************)
OkIsWhole ==
  kind # "none" /\ step \in {"seed", "wait", "next", "over"} =>
    \A n \in Node : verdict[n] = "ok" =>
      \A f \in StagedOn(n, kind) : Whole(f) \/ f \in torn

(***************************************************************************)
(* The driver's staged files are only removed when they are at their       *)
(* destinations, or, in lenient mode, by a delivery that reported what it  *)
(* lost: the upload of that file, or the node (_cleanup_kind_staging).     *)
(***************************************************************************)
Removed(f) ==
  f \notin staged /\ (f \in Flushed => \A i \in 1..Len(hooks) : hooks[i] # "flush")

Reported(f) == f \in unsent \/ <<Home[f], Of[f]>> \in lost

RemovedWasDelivered ==
  \A f \in File : Removed(f) =>
    Whole(f) \/ f \in torn \/ (~mode.strict /\ Reported(f))

(***************************************************************************)
(* When the driver leaves Ray, all artifacts, those its flush hook staged  *)
(* included, are at their destinations if nothing failed and nobody called *)
(* collect before the flush (shutdown_cluster, profiling_scope).           *)
(***************************************************************************)
ShutdownDelivers ==
  pc = "down" /\ faults = 0 =>
    \A f \in File : Whole(f) \/ f \in torn \/ (f \in Flushed /\ Of[f] \in early)

(***************************************************************************)
(* Once a kind is collected, what was delivered of it is not written       *)
(* again, by a second call or a late chunk (ArtifactDelivery.collect),     *)
(* save the files an uploader had left to upload when it was killed:       *)
(* ray.kill is not waited for.                                             *)
(***************************************************************************)
DeliveredIsFinal ==
  [][\A f \in File : Of[f] \in collected /\ f \notin loose => out'[f] = out[f]]_vars

(***************************************************************************)
(* Shutting down comes to its end, whatever fails, unless a generator      *)
(* neither yields nor ends: the stall guard covers ray.wait only.          *)
(***************************************************************************)
ShutdownEnds ==
  pc = "hooks" ~> (pc = "down" \/ \E n \in Node : life[n] = "mute")
=============================================================================
