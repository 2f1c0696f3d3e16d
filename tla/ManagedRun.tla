----------------------------- MODULE ManagedRun -----------------------------
(***************************************************************************)
(* One managed Slurm-Ray run: the submit, scale, stop and status commands  *)
(* on a login node, the head job's supervisor and cleanup, the worker lane *)
(* jobs, and Slurm, all meeting in the run manifest                        *)
(* (client/slurm_cli/managed_ray).                                         *)
(*                                                                         *)
(* A command holds no lock between its remote calls: each step below is    *)
(* one remote command (a manifest mutation, an sbatch, a scancel, a query) *)
(* and every other actor may move between two steps.  A client that dies   *)
(* is one that takes no further step: nothing makes the clients go on.     *)
(***************************************************************************)
EXTENDS RunManifest, FiniteSets

CONSTANTS
  HeadJob,       \* the Slurm job that hosts the Ray head and the driver
  Stopper,       \* the stop commands users run
  InitialLanes,  \* config.worker_lanes
  Targets,       \* the --workers values scale commands are given
  Faults         \* the faults that may happen in a run, see FaultKind

(***************************************************************************)
(*  sbatch    sbatch raises, before or after Slurm accepted the job        *)
(*  submit, scale, stop                                                    *)
(*            another remote command of that client raises, before or      *)
(*            after it took effect, or is not answered                     *)
(*  squeue    a lookup by name, a status query or the scancel of cleanup   *)
(*            is not answered                                              *)
(*  kill      the head allocation ends at once (node loss, KillWait)       *)
(*  oom       the supervisor is killed and its batch wrapper is not        *)
(*  teardown  releasing the head's processes raises                        *)
(*  write     a manifest write of the head raises without taking effect    *)
(*  fence     cleanup's begin-teardown raises, which it suppresses         *)
(*  read      cleanup cannot read the recorded lanes and takes them for {} *)
(***************************************************************************)
FaultKind ==
  {"sbatch", "submit", "scale", "stop", "squeue", "kill", "oom", "teardown",
   "write", "fence", "read"}

ASSUME ManagedRunAssumption ==
  /\ HeadJob \notin LaneJob
  /\ Launcher \notin Scaler
  /\ InitialLanes \in Nat
  /\ Targets \subseteq Nat
  /\ Faults \subseteq FaultKind

VARIABLES
  manifest,     \* the run manifest on shared storage
  slurm,        \* the state of every job, as Slurm knows it
  name,         \* the lane number in a lane job's exact --job-name
  submit,       \* the submit command
  scale,        \* the scale commands
  stop,         \* the stop commands
  status,       \* an operator who keeps asking for status
  head,         \* the supervisor and cleanup in the head allocation
  driver,       \* the pipeline driver process
  publishedBy   \* history: who published the terminal state

vars == <<manifest, slurm, name, submit, scale, stop, status, head, driver,
          publishedBy>>

Job == LaneJob \cup {HeadJob}
JobState == {"free", "PENDING", "RUNNING", "COMPLETING", "gone"}

\* NONTERMINAL_SLURM_STATES: the states that hold or may yet hold a node.
Nonterminal == {"PENDING", "RUNNING", "COMPLETING"}

Live(j) == slurm[j] \in Nonterminal

SubmitStep == {"head", "record-head", "lane", "append-lane", "finish",
               "record-failure", "cancel", "finalize", "done", "failed"}
ScaleStep == {"idle", "query", "sbatch", "append-lane", "rollback", "cancel",
              "done"}
StopStep == {"idle", "query", "request-stop", "cancel-lanes", "finalize",
             "done"}
HeadStep == {"none", "waiting", "starting", "launching", "driving", "teardown",
             "failing", "fence", "snapshot", "cancel", "drain", "finalize",
             "over"}
DriverState == {"none", "running", "zero", "nonzero", "killed"}
Publisher == {"nobody", "submit", "stop", "status", "cleanup"}

TypeOK ==
  /\ manifest \in Manifest
  /\ slurm \in [Job -> JobState]
  /\ name \in [LaneJob -> Nat]
  /\ submit \in [pc: SubmitStep, lane: Nat, held: SUBSET LaneJob,
                 submitted: SUBSET Job]
  /\ scale \in [Scaler -> [pc: ScaleStep, lanes: SUBSET Lane, todo: Nat,
                           lane: Nat, held: SUBSET LaneJob,
                           drop: SUBSET LaneJob]]
  /\ stop \in [Stopper -> [pc: StopStep, lanes: SUBSET LaneJob,
                           head: BOOLEAN, over: BOOLEAN, idle: BOOLEAN,
                           missed: BOOLEAN, early: BOOLEAN]]
  /\ status \in [pc: {"idle", "query", "finalize"}, head: BOOLEAN,
                 lanes: SUBSET LaneJob, revision: Nat]
  /\ head \in [pc: HeadStep, lanes: SUBSET LaneJob]
  /\ driver \in DriverState
  /\ publishedBy \in Publisher

NewScale == [pc |-> "idle", lanes |-> {}, todo |-> 0, lane |-> 0,
             held |-> {}, drop |-> {}]
NewStop == [pc |-> "idle", lanes |-> {}, head |-> FALSE, over |-> FALSE,
            idle |-> FALSE, missed |-> FALSE, early |-> FALSE]
NewStatus == [pc |-> "idle", head |-> FALSE, lanes |-> {}, revision |-> 0]

\* _create_run_directory has uploaded the manifest; nothing is submitted yet.
Init ==
  /\ manifest = NewManifest
  /\ slurm = [j \in Job |-> "free"]
  /\ name = [j \in LaneJob |-> 0]
  /\ submit = [pc |-> "head", lane |-> 0, held |-> {}, submitted |-> {}]
  /\ scale = [c \in Scaler |-> NewScale]
  /\ stop = [c \in Stopper |-> NewStop]
  /\ status = NewStatus
  /\ head = [pc |-> "none", lanes |-> {}]
  /\ driver = "none"
  /\ publishedBy = "nobody"

-----------------------------------------------------------------------------
(***************************************************************************)
(* What the commands share: mutations, sbatch with its recovery by name,   *)
(* scancel.                                                                *)
(***************************************************************************)
Mutate(n) == manifest' = Published(manifest, n)

\* A mutation whose command raises may have been applied before it did.
MutateRaises(who, n) ==
  /\ who \in Faults
  /\ manifest' \in {manifest, Published(manifest, n)}

\* finalize, remembering who published the outcome.
Publish(who, fallback) ==
  /\ Mutate(Finalize(manifest, fallback))
  /\ publishedBy' =
       IF manifest.state \in Terminal THEN publishedBy ELSE who

\* sbatch accepts lane n as job j.
Accept(n, j) ==
  /\ slurm[j] = "free"
  /\ slurm' = [slurm EXCEPT ![j] = "PENDING"]
  /\ name' = [name EXCEPT ![j] = n]

\* squeue --name lists the queued lane jobs that carry one exact name.
Named(n, states, names) ==
  {j \in LaneJob : states[j] \in Nonterminal /\ names[j] = n}

\* sbatch raised; Slurm may have accepted the job all the same.
SbatchRaises(n) ==
  /\ "sbatch" \in Faults
  /\ \/ UNCHANGED <<slurm, name>>
     \/ \E j \in LaneJob : Accept(n, j)

\* submit_script returns job j for lane n: sbatch answered, or it raised and
\* exactly one queued job carries the lane's name.
SubmitScript(n, j) ==
  \/ Accept(n, j)
  \/ SbatchRaises(n) /\ Named(n, slurm', name') = {j}

\* submit_script without the lookup by name.
SubmitScriptGivesUp(n) == SbatchRaises(n)

\* submit_script raises: the lookup failed, or found no job or several.
SubmitScriptRaises(n) ==
  /\ SbatchRaises(n)
  /\ "squeue" \in Faults \/ Cardinality(Named(n, slurm', name')) # 1

\* What scancel makes of a job.
Canceled(state) ==
  CASE state = "PENDING" -> "gone"
    [] state = "RUNNING" -> "COMPLETING"
    [] OTHER -> state

Scancel(J) ==
  slurm' = [j \in Job |-> IF j \in J THEN Canceled(slurm[j]) ELSE slurm[j]]

-----------------------------------------------------------------------------
(***************************************************************************)
(* submit: _submit_jobs                                                    *)
(***************************************************************************)
SubmitVars == <<scale, stop, status, head, driver>>

SubmitHead ==
  /\ submit.pc = "head"
  /\ slurm' = [slurm EXCEPT ![HeadJob] = "PENDING"]
  /\ submit' = [submit EXCEPT !.pc = "record-head", !.submitted = {HeadJob}]
  /\ UNCHANGED <<manifest, name, publishedBy, SubmitVars>>

\* sbatch raised and the lookup by name did not find the head either.
SubmitHeadRaises ==
  /\ submit.pc = "head"
  /\ "sbatch" \in Faults
  /\ \/ UNCHANGED slurm
     \/ /\ "squeue" \in Faults
        /\ slurm' = [slurm EXCEPT ![HeadJob] = "PENDING"]
  /\ submit' = [submit EXCEPT !.pc = "record-failure"]
  /\ UNCHANGED <<manifest, name, publishedBy, SubmitVars>>

SubmitRecordHead ==
  /\ submit.pc = "record-head"
  /\ \/ /\ Mutate(RecordHead(manifest))
        /\ submit' = [submit EXCEPT
                        !.pc = IF InitialLanes = 0 THEN "finish" ELSE "lane"]
     \/ /\ MutateRaises("submit", RecordHead(manifest))
        /\ submit' = [submit EXCEPT !.pc = "record-failure"]
  /\ UNCHANGED <<slurm, name, publishedBy, SubmitVars>>

SubmitLane ==
  /\ submit.pc = "lane"
  /\ \/ \E j \in LaneJob :
          /\ SubmitScript(submit.lane, j)
          /\ submit' = [submit EXCEPT !.pc = "append-lane", !.held = {j},
                                      !.submitted = @ \cup {j}]
     \/ /\ SubmitScriptRaises(submit.lane)
        /\ submit' = [submit EXCEPT !.pc = "record-failure"]
  /\ UNCHANGED <<manifest, publishedBy, SubmitVars>>

SubmitAppend ==
  /\ submit.pc = "append-lane"
  /\ \E j \in submit.held :
       LET l == [lane |-> submit.lane, job |-> j, at |-> Launcher] IN
       \/ /\ ~AppendRefused(manifest, l)
          /\ Mutate(AppendLane(manifest, l))
          /\ submit' = [submit EXCEPT
                          !.pc = IF submit.lane + 1 < InitialLanes
                                 THEN "lane" ELSE "finish",
                          !.lane = @ + 1, !.held = {}]
       \/ /\ \/ AppendRefused(manifest, l) /\ UNCHANGED manifest
             \/ ~AppendRefused(manifest, l)
                  /\ MutateRaises("submit", AppendLane(manifest, l))
          /\ submit' = [submit EXCEPT !.pc = "record-failure"]
  /\ UNCHANGED <<slurm, name, publishedBy, SubmitVars>>

SubmitFinish ==
  /\ submit.pc = "finish"
  /\ \/ /\ Mutate(FinishSubmission(manifest))
        /\ submit' = [submit EXCEPT !.pc = "done"]
     \/ /\ MutateRaises("submit", FinishSubmission(manifest))
        /\ submit' = [submit EXCEPT !.pc = "record-failure"]
  /\ UNCHANGED <<slurm, name, publishedBy, SubmitVars>>

\* The handler of any exception, KeyboardInterrupt included, suppresses what
\* its own three commands raise.
SubmitRecordFailure ==
  /\ submit.pc = "record-failure"
  /\ \/ Mutate(RecordFailure(manifest, "submission"))
     \/ MutateRaises("submit", RecordFailure(manifest, "submission"))
  /\ submit' = [submit EXCEPT
                  !.pc = IF submit.submitted = {} THEN "finalize"
                         ELSE "cancel",
                  !.held = {}]
  /\ UNCHANGED <<slurm, name, publishedBy, SubmitVars>>

\* cancel_jobs in reverse order of submission: the head last.  A refused
\* scancel is passed over, a raising one ends the loop.
SubmitCancel ==
  /\ submit.pc = "cancel"
  /\ \E j \in submit.submitted :
       /\ j = HeadJob => submit.submitted = {HeadJob}
       /\ \/ /\ Scancel({j}) \/ ("submit" \in Faults /\ UNCHANGED slurm)
             /\ submit' = [submit EXCEPT
                             !.pc = IF submit.submitted = {j}
                                    THEN "failed" ELSE "cancel",
                             !.submitted = @ \ {j}]
          \/ /\ "submit" \in Faults
             /\ UNCHANGED slurm
             /\ submit' = [submit EXCEPT !.pc = "failed"]
  /\ UNCHANGED <<manifest, name, publishedBy, SubmitVars>>

\* Nothing reached Slurm: the launcher publishes FAILED itself.
SubmitFinalize ==
  /\ submit.pc = "finalize"
  /\ \/ /\ ~FinalizeRefused(manifest, "none")
        /\ Publish("submit", "none")
     \/ /\ FinalizeRefused(manifest, "none") \/ "submit" \in Faults
        /\ UNCHANGED <<manifest, publishedBy>>
  /\ submit' = [submit EXCEPT !.pc = "failed"]
  /\ UNCHANGED <<slurm, name, SubmitVars>>

Submit ==
  \/ SubmitHead \/ SubmitHeadRaises \/ SubmitRecordHead \/ SubmitLane
  \/ SubmitAppend \/ SubmitFinish \/ SubmitRecordFailure \/ SubmitCancel
  \/ SubmitFinalize
-----------------------------------------------------------------------------
(***************************************************************************)
(* scale: scale_slurm_ray_run                                              *)
(***************************************************************************)
ScaleVars == <<submit, stop, status, head, driver, publishedBy>>

ScaleTo(c, r) == scale' = [scale EXCEPT ![c] = r]

\* A snapshot the command will act on.  A run without a recorded head, or in
\* another state, is refused and nothing changes.
ScaleOpen(c) ==
  /\ scale[c].pc = "idle"
  /\ manifest.head
  /\ manifest.state \in {"STARTING", "ACTIVE"}
  /\ ScaleTo(c, [scale[c] EXCEPT !.pc = "query", !.lanes = manifest.lanes])
  /\ UNCHANGED <<manifest, slurm, name, ScaleVars>>

\* Lane numbers are never reused: one more than the highest in the snapshot.
NextLane(L) == {n \in {0} \cup {l.lane + 1 : l \in L} : \A l \in L : l.lane < n}

\* The k highest-numbered of some lanes.
Highest(L, k) == {l \in L : Cardinality({m \in L : m.lane > l.lane}) < k}

ScaleRefused(c) ==
  /\ scale[c].pc = "query"
  /\ "scale" \in Faults \/ slurm[HeadJob] \notin {"PENDING", "RUNNING"}
  /\ ScaleTo(c, [scale[c] EXCEPT !.pc = "done", !.lanes = {}])
  /\ UNCHANGED <<manifest, slurm, name, ScaleVars>>

ScaleQuery(c) ==
  /\ scale[c].pc = "query"
  /\ slurm[HeadJob] \in {"PENDING", "RUNNING"}
  /\ \E target \in Targets, next \in NextLane(scale[c].lanes) :
       LET active == {l \in scale[c].lanes : Live(l.job)}
           count  == Cardinality(active)
       IN \/ /\ count < target
             /\ ScaleTo(c, [NewScale EXCEPT !.pc = "sbatch", !.lane = next,
                                            !.todo = target - count])
          \/ /\ count > target
             /\ ScaleTo(c, [NewScale EXCEPT !.pc = "cancel", !.drop =
                              {l.job : l \in Highest(active, count - target)}])
          \/ /\ count = target
             /\ ScaleTo(c, [NewScale EXCEPT !.pc = "done"])
  /\ UNCHANGED <<manifest, slurm, name, ScaleVars>>

ScaleSbatch(c) ==
  /\ scale[c].pc = "sbatch"
  /\ \/ \E j \in LaneJob :
          /\ SubmitScript(scale[c].lane, j)
          /\ ScaleTo(c, [scale[c] EXCEPT !.pc = "append-lane", !.held = {j}])
     \/ /\ SubmitScriptRaises(scale[c].lane)
        /\ ScaleTo(c, [scale[c] EXCEPT !.pc = "done"])
  /\ UNCHANGED <<manifest, ScaleVars>>

ScaleAppend(c) ==
  /\ scale[c].pc = "append-lane"
  /\ \E j \in scale[c].held :
       LET l == [lane |-> scale[c].lane, job |-> j, at |-> c] IN
       \/ /\ ~AppendRefused(manifest, l)
          /\ Mutate(AppendLane(manifest, l))
          /\ ScaleTo(c, [scale[c] EXCEPT
                            !.pc = IF scale[c].todo > 1 THEN "sbatch" ELSE "done",
                            !.todo = @ - 1, !.lane = @ + 1, !.held = {}])
       \/ /\ \/ AppendRefused(manifest, l) /\ UNCHANGED manifest
             \/ ~AppendRefused(manifest, l)
                  /\ MutateRaises("scale", AppendLane(manifest, l))
          /\ ScaleTo(c, [scale[c] EXCEPT !.pc = "rollback"])
  /\ UNCHANGED <<slurm, name, ScaleVars>>

\* The lane that could not be recorded is canceled and the command ends.
ScaleRollback(c) ==
  /\ scale[c].pc = "rollback"
  /\ \/ Scancel(scale[c].held)
     \/ "scale" \in Faults /\ UNCHANGED slurm
  /\ ScaleTo(c, [scale[c] EXCEPT !.pc = "done", !.held = {}])
  /\ UNCHANGED <<manifest, name, ScaleVars>>

\* Scale-down cancels lane by lane; the first failure ends the command.
ScaleCancel(c) ==
  /\ scale[c].pc = "cancel"
  /\ \E j \in scale[c].drop :
       \/ /\ Scancel({j})
          /\ ScaleTo(c, [scale[c] EXCEPT
                            !.pc = IF scale[c].drop = {j} THEN "done" ELSE "cancel",
                            !.drop = @ \ {j}])
       \/ /\ "scale" \in Faults
          /\ UNCHANGED slurm
          /\ ScaleTo(c, [scale[c] EXCEPT !.pc = "done", !.drop = {}])
  /\ UNCHANGED <<manifest, name, ScaleVars>>

Scale(c) ==
  \/ ScaleOpen(c) \/ ScaleRefused(c) \/ ScaleQuery(c) \/ ScaleSbatch(c)
  \/ ScaleAppend(c) \/ ScaleRollback(c) \/ ScaleCancel(c)

-----------------------------------------------------------------------------
(***************************************************************************)
(* stop: stop_slurm_ray_run                                                *)
(***************************************************************************)
StopVars == <<submit, scale, status, head, driver>>

StopTo(c, r) == stop' = [stop EXCEPT ![c] = r]

StopOpen(c) ==
  /\ stop[c].pc = "idle"
  /\ StopTo(c, [NewStop EXCEPT !.pc = "query", !.lanes = LaneJobs(manifest),
                               !.head = manifest.head,
                               !.over = manifest.state \in Terminal])
  /\ UNCHANGED <<manifest, slurm, name, publishedBy, StopVars>>

\* An unknown job state refuses the command.
StopRefused(c) ==
  /\ stop[c].pc = "query"
  /\ "stop" \in Faults
  /\ stop[c].head \/ stop[c].lanes # {}
  /\ StopTo(c, [NewStop EXCEPT !.pc = "done"])
  /\ UNCHANGED <<manifest, slurm, name, publishedBy, StopVars>>

\* What is still active is what will be canceled.  A run that is over keeps
\* its outcome: only its stragglers are canceled.
StopQuery(c) ==
  /\ stop[c].pc = "query"
  /\ LET lanes == {j \in stop[c].lanes : Live(j)}
         up    == stop[c].head /\ Live(HeadJob)
     IN StopTo(c, [stop[c] EXCEPT
                     !.pc = IF stop[c].over THEN "cancel-lanes" ELSE "request-stop",
                     !.lanes = lanes, !.head = up, !.idle = lanes = {} /\ ~up])
  /\ UNCHANGED <<manifest, slurm, name, publishedBy, StopVars>>

\* History: the stop is on record before the run was activated.
StopIsEarly ==
  manifest.state \in {"SUBMITTING", "STARTING"} /\ manifest'.stop

StopRequest(c) ==
  /\ stop[c].pc = "request-stop"
  /\ \/ /\ Mutate(RequestStop(manifest))
        /\ StopTo(c, [stop[c] EXCEPT !.pc = "cancel-lanes", !.early = StopIsEarly])
     \/ /\ MutateRaises("stop", RequestStop(manifest))
        /\ StopTo(c, [stop[c] EXCEPT !.pc = "done", !.early = StopIsEarly])
  /\ UNCHANGED <<slurm, name, publishedBy, StopVars>>

\* Every lane before the head.  A refused scancel is passed over and then
\* keeps the head from being canceled, a raising one ends the command.
StopCancelLane(c) ==
  /\ stop[c].pc = "cancel-lanes"
  /\ \E j \in stop[c].lanes :
       \/ /\ Scancel({j})
          /\ StopTo(c, [stop[c] EXCEPT !.lanes = @ \ {j}])
       \/ /\ "stop" \in Faults
          /\ UNCHANGED slurm
          /\ \/ StopTo(c, [stop[c] EXCEPT !.lanes = @ \ {j}, !.missed = TRUE])
             \/ StopTo(c, [stop[c] EXCEPT !.pc = "done"])
  /\ UNCHANGED <<manifest, name, publishedBy, StopVars>>

\* With nothing left running in the snapshot, stop finalizes the run itself.
StopCancelHead(c) ==
  /\ stop[c].pc = "cancel-lanes"
  /\ stop[c].lanes = {}
  /\ \/ /\ ~stop[c].missed
        /\ Scancel({j \in {HeadJob} : stop[c].head})
        /\ StopTo(c, [stop[c] EXCEPT !.pc = IF stop[c].idle /\ ~stop[c].over
                                            THEN "finalize" ELSE "done"])
     \/ /\ stop[c].missed \/ (stop[c].head /\ "stop" \in Faults)
        /\ UNCHANGED slurm
        /\ StopTo(c, [stop[c] EXCEPT !.pc = "done"])
  /\ UNCHANGED <<manifest, name, publishedBy, StopVars>>

StopFinalize(c) ==
  /\ stop[c].pc = "finalize"
  /\ \/ /\ ~FinalizeRefused(manifest, "none")
        /\ Publish("stop", "none")
     \/ /\ FinalizeRefused(manifest, "none") \/ "stop" \in Faults
        /\ UNCHANGED <<manifest, publishedBy>>
  /\ StopTo(c, [stop[c] EXCEPT !.pc = "done"])
  /\ UNCHANGED <<slurm, name, StopVars>>

Stop(c) ==
  \/ StopOpen(c) \/ StopRefused(c) \/ StopQuery(c) \/ StopRequest(c)
  \/ StopCancelLane(c) \/ StopCancelHead(c) \/ StopFinalize(c)

-----------------------------------------------------------------------------
(***************************************************************************)
(* status: _reconcile_terminal_state, asked again and again                *)
(***************************************************************************)
StatusVars == <<slurm, name, submit, scale, stop, head, driver>>

\* A terminal run is only reported.
StatusOpen ==
  /\ status.pc = "idle"
  /\ manifest.state \notin Terminal
  /\ status' = [pc |-> "query", head |-> manifest.head,
                lanes |-> LaneJobs(manifest), revision |-> manifest.revision]
  /\ UNCHANGED <<manifest, publishedBy, StatusVars>>

\* status asking only for the worker lanes of a run that has a head.
StatusQueryLanes ==
  /\ status.pc = "query"
  /\ status' = IF status.head /\ \A j \in status.lanes : ~Live(j)
               THEN [status EXCEPT !.pc = "finalize", !.lanes = {}]
               ELSE NewStatus
  /\ UNCHANGED <<manifest, publishedBy, StatusVars>>

\* Slurm reported every recorded job of the snapshot as over.  A head that was
\* never recorded is UNKNOWN, which is not over.
StatusQuery ==
  /\ status.pc = "query"
  /\ status' = IF status.head /\ \A j \in status.lanes \cup {HeadJob} : ~Live(j)
               THEN [status EXCEPT !.pc = "finalize", !.lanes = {}]
               ELSE NewStatus
  /\ UNCHANGED <<manifest, publishedBy, StatusVars>>

\* UNKNOWN jobs leave the run alone.
StatusUnknown ==
  /\ status.pc = "query"
  /\ "squeue" \in Faults
  /\ status' = NewStatus
  /\ UNCHANGED <<manifest, publishedBy, StatusVars>>

\* status finalizing without a fallback error.
StatusPublishesOutcome ==
  /\ status.pc = "finalize"
  /\ manifest.revision = status.revision
  /\ ~FinalizeRefused(manifest, "none")
  /\ Publish("status", "none")
  /\ status' = NewStatus
  /\ UNCHANGED StatusVars

\* status finalizing whatever was written since its query.
StatusPublishesUnconditionally ==
  /\ status.pc = "finalize"
  /\ Publish("status", "reconciled")
  /\ status' = NewStatus
  /\ UNCHANGED StatusVars

\* Conditional on the revision the query was built from.
StatusPublishes ==
  /\ status.pc = "finalize"
  /\ manifest.revision = status.revision
  /\ Publish("status", "reconciled")
  /\ status' = NewStatus
  /\ UNCHANGED StatusVars

StatusConflict ==
  /\ status.pc = "finalize"
  /\ manifest.revision # status.revision \/ "squeue" \in Faults
  /\ status' = NewStatus
  /\ UNCHANGED <<manifest, publishedBy, StatusVars>>

Status ==
  \/ StatusOpen \/ StatusQuery \/ StatusUnknown \/ StatusPublishes
  \/ StatusConflict

-----------------------------------------------------------------------------
(***************************************************************************)
(* The head allocation: the supervisor (_supervise_head, _run_head), then  *)
(* the batch wrapper's exit trap (_run_cleanup).                           *)
(***************************************************************************)
HeadVars == <<name, submit, scale, stop, status>>

HeadTo(step) == head' = [head EXCEPT !.pc = step]

\* A manifest write of the supervisor: it takes effect and goes on to one
\* step, or it raises and the supervisor fails.
HeadWrites(n, step) ==
  \/ Mutate(n) /\ HeadTo(step)
  \/ "write" \in Faults /\ UNCHANGED manifest /\ HeadTo("failing")

\* Slurm starts the head job and with it the supervisor.
HeadStarts ==
  /\ slurm[HeadJob] = "PENDING"
  /\ slurm' = [slurm EXCEPT ![HeadJob] = "RUNNING"]
  /\ HeadTo("waiting")
  /\ UNCHANGED <<manifest, driver, publishedBy, HeadVars>>

\* _wait_for_submitted_manifest and _verified_head_job_id.
HeadSeesRun ==
  /\ head.pc = "waiting"
  /\ manifest.state # "SUBMITTING"
  /\ HeadTo(IF manifest.state = "STARTING" /\ manifest.head
            THEN "starting" ELSE "failing")
  /\ UNCHANGED <<manifest, slurm, driver, publishedBy, HeadVars>>

HeadGivesUp ==
  /\ head.pc = "waiting"
  /\ manifest.state = "SUBMITTING"
  /\ HeadTo("failing")
  /\ UNCHANGED <<manifest, slurm, driver, publishedBy, HeadVars>>

\* Ray, the wait for compute or, once activated, Popen of the driver fails.
HeadStartFails ==
  /\ head.pc \in {"starting", "launching"}
  /\ HeadTo("failing")
  /\ UNCHANGED <<manifest, slurm, driver, publishedBy, HeadVars>>

\* The stop signal ends the wait for compute.
HeadStopped ==
  /\ head.pc = "starting"
  /\ slurm[HeadJob] = "COMPLETING"
  /\ HeadTo("teardown")
  /\ UNCHANGED <<manifest, slurm, driver, publishedBy, HeadVars>>

\* Only an activation answered with ACTIVE lets the driver start.
HeadActivates ==
  /\ head.pc = "starting"
  /\ LET n == Activate(manifest)
     IN HeadWrites(n, IF n.state = "ACTIVE" THEN "launching" ELSE "teardown")
  /\ UNCHANGED <<slurm, driver, publishedBy, HeadVars>>

\* _run_driver's Popen, which looks at neither manifest nor stop signal again.
HeadLaunches ==
  /\ head.pc = "launching"
  /\ HeadTo("driving") /\ driver' = "running"
  /\ UNCHANGED <<manifest, slurm, publishedBy, HeadVars>>

DriverExits ==
  /\ driver = "running"
  /\ driver' \in {"zero", "nonzero"}
  /\ UNCHANGED <<manifest, slurm, head, publishedBy, HeadVars>>

HeadRecordsExit ==
  /\ head.pc = "driving"
  /\ driver \in {"zero", "nonzero"}
  /\ HeadWrites(RecordDriverExit(manifest, driver), "teardown")
  /\ UNCHANGED <<slurm, driver, publishedBy, HeadVars>>

\* Ray died under the driver, which is then terminated.
HeadLosesRay ==
  /\ head.pc = "driving"
  /\ driver = "running"
  /\ driver' \in {"zero", "nonzero"}
  /\ HeadWrites(RecordFailureWithExit(manifest, "ray", driver'), "teardown")
  /\ UNCHANGED <<slurm, publishedBy, HeadVars>>

\* The ExitStack releases the status writer, Ray and the temporary directory.
HeadTeardown ==
  /\ head.pc = "teardown"
  /\ \/ HeadTo("fence")
     \/ "teardown" \in Faults /\ HeadTo("failing")
  /\ UNCHANGED <<manifest, slurm, driver, publishedBy, HeadVars>>

HeadRecordsFailure ==
  /\ head.pc = "failing"
  /\ \/ Mutate(RecordFailure(manifest, "head"))
     \/ "write" \in Faults /\ UNCHANGED manifest
  /\ HeadTo("fence")
  /\ UNCHANGED <<slurm, driver, publishedBy, HeadVars>>

\* The wrapper outlives a killed supervisor and runs its exit trap.
SupervisorDies ==
  /\ "oom" \in Faults
  /\ head.pc \in {"waiting", "starting", "launching", "driving", "teardown",
                 "failing"}
  /\ HeadTo("fence")
  /\ driver' = IF driver = "running" THEN "killed" ELSE driver
  /\ UNCHANGED <<manifest, slurm, publishedBy, HeadVars>>

CleanupFence ==
  /\ head.pc = "fence"
  /\ \/ Mutate(BeginTeardown(manifest, "exited"))
     \/ "fence" \in Faults /\ UNCHANGED manifest
  /\ HeadTo("snapshot")
  /\ UNCHANGED <<slurm, driver, publishedBy, HeadVars>>

CleanupSnapshot ==
  /\ head.pc = "snapshot"
  /\ \/ head' = [pc |-> "cancel", lanes |-> LaneJobs(manifest)]
     \/ "read" \in Faults /\ head' = [pc |-> "cancel", lanes |-> {}]
  /\ UNCHANGED <<manifest, slurm, driver, publishedBy, HeadVars>>

CleanupCancel ==
  /\ head.pc = "cancel"
  /\ \/ Scancel(head.lanes)
     \/ "squeue" \in Faults /\ UNCHANGED slurm
  /\ HeadTo("drain")
  /\ UNCHANGED <<manifest, driver, publishedBy, HeadVars>>

CleanupDrained ==
  /\ head.pc = "drain"
  /\ \A j \in head.lanes : ~Live(j)
  /\ HeadTo("finalize")
  /\ UNCHANGED <<manifest, slurm, driver, publishedBy, HeadVars>>

\* Out of time: the run is left STOPPING for a later status.
CleanupTimesOut ==
  /\ head.pc = "drain"
  /\ \E j \in head.lanes : Live(j)
  /\ HeadTo("over")
  /\ UNCHANGED <<manifest, slurm, driver, publishedBy, HeadVars>>

CleanupPublishes ==
  /\ head.pc = "finalize"
  /\ \/ Publish("cleanup", "exited")
     \/ "write" \in Faults /\ UNCHANGED <<manifest, publishedBy>>
  /\ HeadTo("over")
  /\ UNCHANGED <<slurm, driver, HeadVars>>

\* The batch script has exited.
HeadEnds ==
  /\ head.pc = "over"
  /\ slurm[HeadJob] \in {"RUNNING", "COMPLETING"}
  /\ slurm' = [slurm EXCEPT ![HeadJob] = "gone"]
  /\ UNCHANGED <<manifest, head, driver, publishedBy, HeadVars>>

\* The head's walltime is up: the job is signaled.
HeadSignaled ==
  /\ slurm[HeadJob] = "RUNNING"
  /\ slurm' = [slurm EXCEPT ![HeadJob] = "COMPLETING"]
  /\ UNCHANGED <<manifest, head, driver, publishedBy, HeadVars>>

HeadKilled ==
  /\ "kill" \in Faults
  /\ slurm[HeadJob] \in {"RUNNING", "COMPLETING"}
  /\ slurm' = [slurm EXCEPT ![HeadJob] = "gone"]
  /\ HeadTo("over")
  /\ driver' = IF driver = "running" THEN "killed" ELSE driver
  /\ UNCHANGED <<manifest, publishedBy, HeadVars>>

Supervise ==
  \/ HeadSeesRun \/ HeadGivesUp \/ HeadStartFails \/ HeadStopped
  \/ HeadActivates \/ HeadLaunches \/ HeadRecordsExit \/ HeadLosesRay
  \/ HeadTeardown \/ HeadRecordsFailure

Cleanup ==
  \/ CleanupFence \/ CleanupSnapshot \/ CleanupCancel \/ CleanupDrained
  \/ CleanupTimesOut \/ CleanupPublishes

-----------------------------------------------------------------------------
(***************************************************************************)
(* Worker lanes, one Slurm job each.                                       *)
(***************************************************************************)
LaneVars == <<manifest, name, submit, scale, stop, status, head, driver,
              publishedBy>>

\* A worker script without probe-head.
LaneStartsUnprobed(j) ==
  /\ slurm[j] = "PENDING"
  /\ slurm[HeadJob] \notin {"free", "PENDING"}
  /\ slurm' = [slurm EXCEPT ![j] = "RUNNING"]
  /\ UNCHANGED LaneVars

\* --dependency=after:<head>, then probe-head: an incarnation whose head is
\* not up exits before it starts anything.
LaneStarts(j) ==
  /\ slurm[j] = "PENDING"
  /\ slurm[HeadJob] \notin {"free", "PENDING"}
  /\ slurm' = [slurm EXCEPT ![j] = IF slurm[HeadJob] = "RUNNING"
                                   THEN "RUNNING" ELSE "gone"]
  /\ UNCHANGED LaneVars

\* Preempted and requeued, or succeeded by the next task of its array.
LaneRequeued(j) ==
  /\ slurm[j] = "RUNNING"
  /\ slurm' = [slurm EXCEPT ![j] = "PENDING"]
  /\ UNCHANGED LaneVars

LaneEnds(j) ==
  /\ slurm[j] \in {"RUNNING", "COMPLETING"}
  /\ slurm' = [slurm EXCEPT ![j] = "gone"]
  /\ UNCHANGED LaneVars

-----------------------------------------------------------------------------
Next ==
  \/ Submit
  \/ \E c \in Scaler : Scale(c)
  \/ \E c \in Stopper : Stop(c)
  \/ Status
  \/ HeadStarts \/ Supervise \/ DriverExits \/ SupervisorDies \/ Cleanup
  \/ HeadEnds \/ HeadSignaled \/ HeadKilled
  \/ \E j \in LaneJob : LaneStarts(j) \/ LaneRequeued(j) \/ LaneEnds(j)

Spec == Init /\ [][Next]_vars

(***************************************************************************)
(* What keeps going: Slurm starts, ends and times out jobs, the processes  *)
(* of the head allocation run, and an operator keeps asking for status and *)
(* is answered again and again.  The other commands may stop anywhere.     *)
(***************************************************************************)
Fairness ==
  /\ WF_vars(HeadStarts) /\ WF_vars(Supervise) /\ WF_vars(DriverExits)
  /\ WF_vars(Cleanup) /\ WF_vars(HeadEnds)
  /\ \A j \in LaneJob : WF_vars(LaneStarts(j)) /\ WF_vars(LaneEnds(j))
  /\ WF_vars(Status) /\ SF_vars(StatusQuery) /\ SF_vars(StatusPublishes)

FairSpec == Spec /\ Fairness
=============================================================================
