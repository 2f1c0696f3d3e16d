--------------------------- MODULE PipelineService ---------------------------
(***************************************************************************)
(* The NVCF service (cosmos_curator.core.cf.nvcf_main): server processes   *)
(* that each run an asyncio event loop, accept one pipeline at a time by a *)
(* lock file and a busy marker, run it in the loop or, for a direct invo-  *)
(* cation, in a background thread, follow it with a progress thread that   *)
(* records the verdict, and let clients poll and terminate it.  Processes  *)
(* may die and be started again.                                           *)
(*                                                                         *)
(* Coroutines of one process interleave at awaits only: from the time a    *)
(* request takes the loop until it gives it back no other one runs there,  *)
(* while threads, the other process and Ray go on.  Request IDs are taken  *)
(* to be different; logs and percentages are left out.                     *)
(***************************************************************************)
EXTENDS Naturals, FiniteSets

CONSTANTS
  Worker,     \* server processes (uvicorn, workers=2)
  Request,    \* invocations of a pipeline
  Direct,     \* those with the direct-mode header
  Route,      \* ways to spread requests over processes, up to renaming of these
  Faults      \* bound on deaths of processes and termination requests together

ASSUME ServiceAssumption ==
  /\ Worker # {} /\ Direct \subseteq Request
  /\ Route \subseteq [Request -> Worker]
  /\ Faults \in Nat
  /\ {"free", "idle", "term"} \cap (Worker \cup Request) = {}
  /\ "force" \notin Request

VARIABLES
  marker,     \* whether the busy marker pipeline_status exists
  lock,       \* the process that holds the file pipeline.lock names, or "free"
  depth,      \* how often each process's FileLock is acquired
  loop,       \* what occupies each event loop: a request, "term" or "idle"
  up,         \* "up", "down" or "starting", for each process
  at,         \* the process each request comes to
  pc,         \* how far each request is in PipelineLockMiddleware.dispatch
  pipe,       \* how far its invocation is in curate_video
  job,        \* its Ray job
  ipc,        \* its ipc_status
  thread,     \* its progress thread
  files,      \* its progress, done and failed files
  uploaded,   \* whether its outputs were gathered and uploaded
  term,       \* the handling of a termination request
  faults,     \* deaths and termination requests so far
  breach      \* ways in which the exclusion was undone so far, see Breach

exclusion == <<marker, lock, depth, breach>>
invocation == <<pipe, job, ipc, thread, files, uploaded>>
environment == <<up, term, faults>>
vars == <<exclusion, loop, at, pc, invocation, environment>>

(***************************************************************************)
(*  marker   the marker of a request still at work was removed             *)
(*  lock     the lock file was removed from under the process holding it   *)
(*  reentry  a process acquired its own lock a second time                 *)
(***************************************************************************)
Breach == {"marker", "lock", "reentry"}

ExclusionTypeOK ==
  /\ marker \in BOOLEAN /\ lock \in Worker \cup {"free"}
  /\ depth \in [Worker -> Nat]
  /\ loop \in [Worker -> Request \cup {"idle", "term"}]
  /\ up \in [Worker -> {"up", "down", "starting"}]
  /\ faults \in 0..Faults /\ breach \subseteq Breach

RequestTypeOK ==
  /\ at \in [Request -> Worker]
  /\ pc \in [Request -> {"new", "acquire", "recheck", "marking", "marked", "body",
                         "run", "returned", "answered", "clean", "unlink",
                         "release", "closed", "dead"}]
  /\ pipe \in [Request -> {"none", "prepare", "job", "upload", "settle", "clean",
                           "unlink", "over", "dead"}]
  /\ job \in [Request -> {"none", "running", "succeeded", "failed", "stopped"}]
  /\ ipc \in [Request -> BOOLEAN]
  /\ thread \in [Request -> {"none", "live", "gone"}]
  /\ files \in [Request -> SUBSET {"progress", "done", "failed"}]
  /\ uploaded \in [Request -> BOOLEAN]

TermTypeOK ==
  term \in [pc : {"unused", "stopping", "over"}, at : Worker,
            target : Request \cup {"force"}, jobs : SUBSET Request, hit : BOOLEAN]

TypeOK == ExclusionTypeOK /\ RequestTypeOK /\ TermTypeOK

Init ==
  /\ marker = FALSE /\ lock = "free" /\ depth = [w \in Worker |-> 0]
  /\ loop = [w \in Worker |-> "idle"] /\ up = [w \in Worker |-> "up"]
  /\ at \in Route
  /\ pc = [r \in Request |-> "new"] /\ pipe = [r \in Request |-> "none"]
  /\ job = [r \in Request |-> "none"] /\ ipc = [r \in Request |-> FALSE]
  /\ thread = [r \in Request |-> "none"] /\ files = [r \in Request |-> {}]
  /\ uploaded = [r \in Request |-> FALSE]
  /\ term = [pc |-> "unused", at |-> CHOOSE w \in Worker : TRUE,
             target |-> "force", jobs |-> {}, hit |-> FALSE]
  /\ faults = 0 /\ breach = {}

PcTo(r, p) == pc' = [pc EXCEPT ![r] = p]
PipeTo(r, p) == pipe' = [pipe EXCEPT ![r] = p]
Takes(w, x) == loop[w] = "idle" /\ up[w] = "up" /\ loop' = [loop EXCEPT ![w] = x]
Gives(w) == loop' = [loop EXCEPT ![w] = "idle"]

\* A request that relies on the marker, if only for a Ray job that outlives it.
AtWork(r) ==
  \/ job[r] = "running"
  \/ pc[r] \in {"marking", "marked", "body", "run"}
  \/ pipe[r] \in {"prepare", "job", "upload", "settle"}

\* _cleanup_pipeline_lock_files, its first two steps, on behalf of the requests
\* in "own" and of process "by" (or of none).
RemoveMarker(own) ==
  /\ marker' = FALSE
  /\ breach' = breach \cup
       {k \in {"marker"} : marker /\ \E q \in Request \ own : AtWork(q)}
  /\ UNCHANGED <<lock, depth>>

RemoveLock(by) ==
  /\ lock' = "free"
  /\ breach' = breach \cup {k \in {"lock"} : lock \notin {"free", by}}
  /\ UNCHANGED <<marker, depth>>

-----------------------------------------------------------------------------
(***************************************************************************)
(* PipelineLockMiddleware.dispatch.                                        *)
(***************************************************************************)
\* The first look at the marker.
Arrive(r) ==
  LET w == at[r]
  IN /\ pc[r] = "new" /\ up[w] = "up" /\ loop[w] = "idle"
     /\ \/ ~marker /\ Takes(w, r) /\ PcTo(r, "acquire")
        \/ marker /\ PcTo(r, "closed") /\ UNCHANGED loop
     /\ UNCHANGED <<exclusion, at, invocation, environment>>

\* FileLock.acquire(timeout=1) polls in the loop.  The object is reentrant in
\* its thread, and all coroutines of a process run in one thread.
Acquire(r) ==
  LET w == at[r]
  IN /\ pc[r] = "acquire"
     /\ \/ /\ depth[w] > 0 \/ lock = "free"
           /\ PcTo(r, "recheck") /\ UNCHANGED loop
           /\ lock' = IF depth[w] > 0 THEN lock ELSE w
           /\ depth' = [depth EXCEPT ![w] = @ + 1]
           /\ breach' = breach \cup {k \in {"reentry"} : depth[w] > 0}
           /\ UNCHANGED marker
        \/ /\ depth[w] = 0 /\ lock # "free"
           /\ PcTo(r, "closed") /\ Gives(w) /\ UNCHANGED exclusion
     /\ UNCHANGED <<at, invocation, environment>>

\* Trusting the first look at the marker.
RecheckSkipped(r) ==
  /\ pc[r] = "recheck" /\ PcTo(r, "marking") /\ Gives(at[r])
  /\ UNCHANGED <<exclusion, at, invocation, environment>>

\* The second look; the rejected request goes through the cleanup as well.
Recheck(r) ==
  /\ pc[r] = "recheck"
  /\ \/ marker /\ PcTo(r, "clean") /\ UNCHANGED loop
     \/ ~marker /\ PcTo(r, "marking") /\ Gives(at[r])
  /\ UNCHANGED <<exclusion, at, invocation, environment>>

\* aiofiles creates the marker in another thread.
Mark(r) ==
  /\ pc[r] = "marking" /\ PcTo(r, "marked") /\ marker' = TRUE
  /\ UNCHANGED <<lock, depth, breach, loop, at, invocation, environment>>

\* call_next has returned: a direct invocation keeps the lock files.
Return(r) ==
  /\ \/ /\ pc[r] = "returned" /\ PcTo(r, "clean")
     \/ /\ pc[r] = "answered" /\ PcTo(r, "release")
  /\ Takes(at[r], r)
  /\ UNCHANGED <<exclusion, at, invocation, environment>>

Clean(r) ==
  /\ \/ pc[r] = "clean" /\ PcTo(r, "unlink") /\ RemoveMarker({r})
     \/ pc[r] = "unlink" /\ PcTo(r, "release") /\ RemoveLock(at[r])
  /\ UNCHANGED <<loop, at, invocation, environment>>

Release(r) ==
  LET w == at[r]
  IN /\ pc[r] = "release" /\ PcTo(r, "closed") /\ Gives(w)
     /\ depth' = [depth EXCEPT ![w] = @ - 1]
     /\ lock' = IF depth[w] = 1 /\ lock = w THEN "free" ELSE lock
     /\ UNCHANGED <<marker, breach, at, invocation, environment>>

Dispatch(r) ==
  \/ Acquire(r) \/ Recheck(r) \/ Mark(r) \/ Return(r) \/ Clean(r) \/ Release(r)

-----------------------------------------------------------------------------
(***************************************************************************)
(* curate_video.                                                           *)
(***************************************************************************)
\* Up to "await request.json()": ipc_status is set and the progress thread
\* started (_setup_request), unless the request ID is refused.
Setup(r) ==
  /\ pc[r] = "marked" /\ loop[at[r]] = "idle"
  /\ \/ PcTo(r, "returned") /\ UNCHANGED <<ipc, thread, files>>
     \/ /\ PcTo(r, "body")
        /\ ipc' = [ipc EXCEPT ![r] = TRUE]
        /\ thread' = [thread EXCEPT ![r] = "live"]
        /\ files' = [files EXCEPT ![r] = @ \cup {"progress"}]
  /\ UNCHANGED <<exclusion, loop, at, pipe, job, uploaded, environment>>

\* The body is read and validated.  A refusal (400) and an error go straight
\* to the finally clause, a refusal with ipc_status still set.
Invoke(r) ==
  /\ pc[r] = "body"
  /\ \/ /\ r \in Direct
        /\ PcTo(r, "answered") /\ PipeTo(r, "prepare")
        /\ loop[at[r]] = "idle" /\ UNCHANGED <<loop, ipc>>
     \/ /\ r \notin Direct
        /\ PcTo(r, "run") /\ PipeTo(r, "prepare")
        /\ Takes(at[r], r) /\ UNCHANGED ipc
     \/ /\ PcTo(r, "run") /\ PipeTo(r, "settle")
        /\ Takes(at[r], r)
        /\ \/ UNCHANGED ipc
           \/ ipc' = [ipc EXCEPT ![r] = FALSE]
  /\ UNCHANGED <<exclusion, at, job, thread, files, uploaded, environment>>

\* An error that leaves the invocation without its finally clause.
FailingUncaught(r) == ipc' = [ipc EXCEPT ![r] = FALSE] /\ PipeTo(r, "over")

\* An error clears ipc_status, and the finally clause tells the thread to stop.
Failing(r) == ipc' = [ipc EXCEPT ![r] = FALSE] /\ PipeTo(r, "settle")

\* Inputs are fetched and the Ray job submitted; some pipeline types run none.
Prepare(r) ==
  /\ pipe[r] = "prepare"
  /\ \/ PipeTo(r, "job") /\ job' = [job EXCEPT ![r] = "running"] /\ UNCHANGED ipc
     \/ PipeTo(r, "upload") /\ UNCHANGED <<job, ipc>>
     \/ Failing(r) /\ UNCHANGED job
  /\ UNCHANGED <<exclusion, loop, at, pc, thread, files, uploaded, environment>>

\* _do_run_process returns when the submitting command has ended, and raises
\* unless that succeeded; a stopped and deleted job may look either way to it.
RunProcess(r) ==
  /\ pipe[r] = "job" /\ job[r] # "running"
  /\ \/ job[r] # "failed" /\ PipeTo(r, "upload") /\ UNCHANGED ipc
     \/ job[r] # "succeeded" /\ Failing(r)
  /\ UNCHANGED <<exclusion, loop, at, pc, job, thread, files, uploaded, environment>>

\* gather_and_upload_outputs.
Upload(r) ==
  /\ pipe[r] = "upload"
  /\ \/ /\ uploaded' = [uploaded EXCEPT ![r] = TRUE]
        /\ PipeTo(r, "settle") /\ UNCHANGED ipc
     \/ Failing(r) /\ UNCHANGED uploaded
  /\ UNCHANGED <<exclusion, loop, at, pc, job, thread, files, environment>>

\* _get_request_status.
Status(r) ==
  CASE "failed" \in files[r] -> "failed"
    [] "failed" \notin files[r] /\ "done" \in files[r] -> "done"
    [] files[r] = {"progress"} -> "running"
    [] OTHER -> "not-found"

\* Letting the progress thread end before outputs are uploaded.
RecordEarly(r) ==
  /\ thread[r] = "live"
  /\ pipe[r] \in {"upload", "settle"} \/ Status(r) # "running"
  /\ thread' = [thread EXCEPT ![r] = "gone"]
  /\ files' = [files EXCEPT ![r] =
       IF "failed" \in @ THEN @ ELSE @ \cup {IF ipc[r] THEN "done" ELSE "failed"}]
  /\ UNCHANGED <<exclusion, loop, at, pc, pipe, job, ipc, uploaded, environment>>

\* Recording the verdict over a termination.
RecordOver(r) ==
  /\ thread[r] = "live"
  /\ pipe[r] = "settle" \/ Status(r) # "running"
  /\ thread' = [thread EXCEPT ![r] = "gone"]
  /\ files' = [files EXCEPT ![r] = @ \cup {IF ipc[r] THEN "done" ELSE "failed"}]
  /\ UNCHANGED <<exclusion, loop, at, pc, pipe, job, ipc, uploaded, environment>>

\* update_progress ends when told to, or when the request is no longer running,
\* and records the verdict unless a termination has.
Record(r) ==
  /\ thread[r] = "live"
  /\ pipe[r] = "settle" \/ Status(r) # "running"
  /\ thread' = [thread EXCEPT ![r] = "gone"]
  /\ files' = [files EXCEPT ![r] =
       IF "failed" \in @ THEN @ ELSE @ \cup {IF ipc[r] THEN "done" ELSE "failed"}]
  /\ UNCHANGED <<exclusion, loop, at, pc, pipe, job, ipc, uploaded, environment>>

\* The progress thread is joined.  A background run cleans up by itself.
Join(r) ==
  /\ pipe[r] = "settle" /\ thread[r] = "gone"
  /\ \/ pc[r] = "run" /\ PipeTo(r, "over") /\ PcTo(r, "returned") /\ Gives(at[r])
     \/ pc[r] # "run" /\ PipeTo(r, "clean") /\ UNCHANGED <<pc, loop>>
  /\ UNCHANGED <<exclusion, at, job, ipc, thread, files, uploaded, environment>>

\* Leaving the lock files of a background run where they are.
BackgroundKeeps(r) ==
  /\ pipe[r] = "clean" /\ PipeTo(r, "over")
  /\ UNCHANGED <<exclusion, loop, at, pc, job, ipc, thread, files, uploaded, environment>>

Background(r) ==
  /\ \/ pipe[r] = "clean" /\ PipeTo(r, "unlink") /\ RemoveMarker({r})
     \/ pipe[r] = "unlink" /\ PipeTo(r, "over") /\ RemoveLock("free")
  /\ UNCHANGED <<loop, at, pc, job, ipc, thread, files, uploaded, environment>>

Curate(r) ==
  \/ Setup(r) \/ Invoke(r) \/ Prepare(r) \/ RunProcess(r) \/ Upload(r)
  \/ Record(r) \/ Join(r) \/ Background(r)

JobEnds(r) ==
  /\ job[r] = "running"
  /\ \E st \in {"succeeded", "failed"} : job' = [job EXCEPT ![r] = st]
  /\ UNCHANGED <<exclusion, loop, at, pc, pipe, ipc, thread, files, uploaded, environment>>

-----------------------------------------------------------------------------
(***************************************************************************)
(* _terminate_last_job, in the event loop of the process it came to.       *)
(***************************************************************************)
\* The request has to be running, unless it is the force-terminate ID; all
\* running jobs are listed, whosever they are.
Order(target, w) ==
  /\ term.pc = "unused" /\ faults < Faults /\ faults' = faults + 1
  /\ target \in Request => Status(target) = "running"
  /\ Takes(w, "term")
  /\ term' = [pc |-> "stopping", at |-> w, target |-> target,
              jobs |-> {r \in Request : job[r] = "running"}, hit |-> FALSE]
  /\ UNCHANGED <<exclusion, at, pc, invocation, up>>

\* A job is stopped, or was over by then, and deleted; stopping or deleting it
\* may fail.
StopJob(r) ==
  /\ term.pc = "stopping" /\ r \in term.jobs
  /\ \/ job' = [job EXCEPT ![r] = IF @ = "running" THEN "stopped" ELSE @]
     \/ UNCHANGED job
  /\ \/ job'[r] # "running" /\ term' = [term EXCEPT !.jobs = @ \ {r}, !.hit = TRUE]
     \/ term' = [term EXCEPT !.jobs = @ \ {r}]
  /\ UNCHANGED <<exclusion, loop, at, pc, pipe, ipc, thread, files, uploaded, up, faults>>

\* The request is marked failed if any job was stopped.
OrderEnds ==
  /\ term.pc = "stopping" /\ term.jobs = {}
  /\ term' = [term EXCEPT !.pc = "over"] /\ Gives(term.at)
  /\ files' = [r \in Request |->
       IF term.hit /\ r = term.target THEN files[r] \cup {"failed"} ELSE files[r]]
  /\ UNCHANGED <<exclusion, at, pc, pipe, job, ipc, thread, uploaded, up, faults>>

-----------------------------------------------------------------------------
(***************************************************************************)
(* Processes die with their coroutines and threads, and their locks are    *)
(* released; Ray jobs go on.  The supervisor starts them again, and on     *)
(* import setup_pipeline_middleware removes the lock files it finds.       *)
(***************************************************************************)
Here(r, w) == at[r] = w /\ pc[r] # "new"

Crash(w) ==
  /\ faults < Faults /\ faults' = faults + 1
  /\ up[w] = "up" /\ up' = [up EXCEPT ![w] = "down"]
  /\ Gives(w) /\ depth' = [depth EXCEPT ![w] = 0]
  /\ lock' = IF lock = w THEN "free" ELSE lock
  /\ pc' = [r \in Request |->
       IF Here(r, w) /\ pc[r] # "closed" THEN "dead" ELSE pc[r]]
  /\ pipe' = [r \in Request |->
       IF Here(r, w) /\ pipe[r] \notin {"none", "over"} THEN "dead" ELSE pipe[r]]
  /\ thread' = [r \in Request |->
       IF Here(r, w) /\ thread[r] = "live" THEN "gone" ELSE thread[r]]
  /\ term' = IF term.pc = "stopping" /\ term.at = w THEN [term EXCEPT !.pc = "over"] ELSE term
  /\ UNCHANGED <<marker, breach, at, job, ipc, files, uploaded>>

Restart(w) ==
  /\ \/ up[w] = "down" /\ up' = [up EXCEPT ![w] = "starting"] /\ RemoveMarker({})
     \/ up[w] = "starting" /\ up' = [up EXCEPT ![w] = "up"] /\ RemoveLock("free")
  /\ UNCHANGED <<loop, at, pc, invocation, term, faults>>

-----------------------------------------------------------------------------
RequestStep(r) == Dispatch(r) \/ Curate(r) \/ JobEnds(r)
TerminationStep == OrderEnds \/ \E r \in Request : StopJob(r)

Next ==
  \/ \E r \in Request : Arrive(r) \/ RequestStep(r)
  \/ \E w \in Worker, target \in Request \cup {"force"} : Order(target, w)
  \/ TerminationStep
  \/ \E w \in Worker : Crash(w) \/ Restart(w)

Spec == Init /\ [][Next]_vars

\* Event loops and threads run on, Ray jobs end, dead processes are restarted.
\* Requests and terminations need not come.
Fairness ==
  /\ \A r \in Request : WF_vars(Dispatch(r)) /\ WF_vars(Curate(r)) /\ WF_vars(JobEnds(r))
  /\ WF_vars(TerminationStep)
  /\ \A w \in Worker : WF_vars(Restart(w))

FairSpec == Spec /\ Fairness
=============================================================================
