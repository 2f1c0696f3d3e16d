---------------------- MODULE PipelineServiceProperties ----------------------
(***************************************************************************)
(* What the NVCF service must guarantee.                                   *)
(***************************************************************************)
EXTENDS PipelineService

\* The pipeline of a request is at work, here or in Ray.
Active(r) == pipe[r] \in {"prepare", "job", "upload"} \/ job[r] = "running"

(***************************************************************************)
(* The service runs one pipeline at a time (PipelineLockMiddleware), save  *)
(* after a marker or lock file was removed on behalf of somebody else, or  *)
(* a process entered its own lock twice: these are the only ways.          *)
(***************************************************************************)
OnePipeline ==
  breach = {} => \A q, r \in Request : Active(q) /\ Active(r) => q = r

(***************************************************************************)
(* A request whose job ran is only reported done with its outputs          *)
(* uploaded, and only reported failed in spite of an upload when it was    *)
(* terminated (curate_video, update_progress, _terminate_last_job).        *)
(***************************************************************************)
HonestVerdict ==
  \A r \in Request :
    /\ "done" \in files[r] => uploaded[r] \/ job[r] = "none"
    /\ "failed" \in files[r] /\ uploaded[r] => term.target = r /\ term.hit

(***************************************************************************)
(* A verdict given to a client that polls stays: failed is final, and done *)
(* turns into failed only when a termination of the request overtakes it.  *)
(***************************************************************************)
VerdictStays ==
  [][\A r \in Request :
       /\ "failed" \in files[r] => files'[r] = files[r]
       /\ "done" \in files[r] /\ "failed" \in files'[r] =>
            "failed" \in files[r] \/ (term.target = r /\ term.hit)]_vars

(***************************************************************************)
(* An accepted request gets a verdict, unless its process dies.            *)
(***************************************************************************)
AcceptedIsJudged ==
  \A r \in Request :
    pipe[r] = "prepare" ~> (files[r] \cap {"done", "failed"} # {} \/ pipe[r] = "dead")

(***************************************************************************)
(* No busy marker is left behind: the service does not go on rejecting     *)
(* requests, even after a process died with its pipeline.                  *)
(***************************************************************************)
MarkerGoes == []<>~marker
=============================================================================
