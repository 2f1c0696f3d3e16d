--------------------------- MODULE RunLifecycle ---------------------------
(***************************************************************************)
(* What the manifest of a managed run promises to everyone who reads it,   *)
(* whoever writes it and in whatever order.                                *)
(*                                                                         *)
(*  - A run enrolls worker lanes while it is open and never afterwards;    *)
(*    an enrolled lane is never renumbered, replaced or forgotten.         *)
(*  - From its first reason to end, a run has a verdict.  Later reasons    *)
(*    can only make it worse: a success may turn into a failure, and       *)
(*    either into a requested stop, never the other way.                   *)
(*  - What is published is that verdict, and it is final.                  *)
(***************************************************************************)
EXTENDS Naturals

CONSTANT Member   \* the lane records that may be enrolled

VARIABLES
  phase,     \* how far the run got
  crew,      \* the lanes it enrolled
  verdict    \* what it would end with now

vars == <<phase, crew, verdict>>

Open == {"SUBMITTING", "STARTING", "ACTIVE"}
Verdict == {"SUCCEEDED", "FAILED", "STOPPED"}

Severity(v) ==
  CASE v = "none" -> 0
    [] v = "SUCCEEDED" -> 1
    [] v = "FAILED" -> 2
    [] v = "STOPPED" -> 3

Init == phase = "SUBMITTING" /\ crew = {} /\ verdict = "none"

\* One lane more; no two lanes share a number or a job.
Enroll ==
  /\ phase \in Open
  /\ \E l \in crew' :
       /\ l \in Member /\ crew' = crew \cup {l}
       /\ \A k \in crew : k.lane # l.lane /\ k.job # l.job
  /\ UNCHANGED <<phase, verdict>>

Submitted ==
  /\ phase = "SUBMITTING" /\ phase' = "STARTING"
  /\ UNCHANGED <<crew, verdict>>

Drive ==
  /\ phase = "STARTING" /\ phase' = "ACTIVE"
  /\ UNCHANGED <<crew, verdict>>

Doom(v) ==
  /\ phase \in Open \cup {"STOPPING"}
  /\ Severity(v) > Severity(verdict)
  /\ phase' = "STOPPING" /\ verdict' = v
  /\ UNCHANGED crew

Settle ==
  /\ phase = "STOPPING" /\ phase' = "over"
  /\ UNCHANGED <<crew, verdict>>

\* A run that vanished without a reason to end has failed.
Abandon ==
  /\ phase \in Open /\ phase' = "over" /\ verdict' = "FAILED"
  /\ UNCHANGED crew

Next ==
  \/ Enroll \/ Submitted \/ Drive \/ Settle \/ Abandon
  \/ \E v \in Verdict : Doom(v)

Spec == Init /\ [][Next]_vars
=============================================================================
