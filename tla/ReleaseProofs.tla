--------------------------- MODULE ReleaseProofs ---------------------------
(***************************************************************************)
(* Head cleanup and status publish an outcome only once every recorded     *)
(* lane has given its node back, for any number of lanes and commands and  *)
(* any fault but the two with which cleanup does not know the lanes.  And  *)
(* a lane job that waits for a node or holds one is recorded, or still in  *)
(* the hands of the command that submitted it.                             *)
(***************************************************************************)
EXTENDS OutcomeProofs

\* Cleanup's fence is written and the recorded lanes can be read: the two
\* failures _run_cleanup suppresses do not happen.
CleanupSeesLanes == "fence" \notin Faults /\ "read" \notin Faults

-----------------------------------------------------------------------------
(***************************************************************************)
(* The inductive invariant, one part per thing a publisher relies on.      *)
(***************************************************************************)
Held == submit.held \cup UNION {scale[c].held : c \in Scaler}

\* A job somebody recorded, or is about to, is one Slurm has accepted: once it
\* is gone it does not come back.
Known == \A j \in LaneJobs(manifest) \cup Held : slurm[j] # "free"

AllGone == \A j \in LaneJobs(manifest) : slurm[j] = "gone"

\* Behind its fence, cleanup works on the lanes there will ever be.
Fenced ==
  head.pc \in {"snapshot", "cancel", "drain", "finalize"} =>
    manifest.state \notin Unfinished

Snapshot ==
  head.pc \in {"cancel", "drain", "finalize"} => head.lanes = LaneJobs(manifest)

Drained == head.pc = "finalize" => AllGone

\* What status concluded holds as long as the revision does.
Current ==
  status.pc # "idle" =>
    /\ status.revision <= manifest.revision
    /\ status.revision = manifest.revision =>
         /\ status.pc = "query" => status.lanes = LaneJobs(manifest)
         /\ status.pc = "finalize" => AllGone

Settled ==
  publishedBy \in {"cleanup", "status"} => manifest.state \in Terminal /\ AllGone

ReleaseInv == Known /\ Fenced /\ Snapshot /\ Drained /\ Current /\ Settled

-----------------------------------------------------------------------------
(***************************************************************************)
(* What a step may do to Slurm, to the manifest and to what is remembered. *)
(***************************************************************************)
\* The moves of one job's state: an accepted job never becomes one that could
\* be handed out again, and a job that is gone stays gone.
Onward(states) ==
  \A j \in LaneJob :
    /\ slurm[j] # "free" => states[j] # "free"
    /\ slurm[j] = "gone" => states[j] = "gone"

\* scancel moves jobs onward.
LEMMA ScancelOnward ==
  ASSUME SlurmType, NEW J, Scancel(J)
  PROVE  Onward(slurm')
BY DEF SlurmType, Scancel, Canceled, Onward, Job, JobState

\* So do sbatch and its recovery by name, which hand out free jobs only.
LEMMA SubmitScriptOnward ==
  ASSUME SlurmType, NEW n,
         SubmitScriptRaises(n) \/ \E j \in LaneJob : SubmitScript(n, j)
  PROVE  Onward(slurm')
<1>1. SlurmType /\ \A j \in LaneJob : Accept(n, j) => Onward(slurm')
  BY DEF SlurmType, Accept, Onward, Job
<1> QED
  BY <1>1 DEF SubmitScriptRaises, SubmitScript, SbatchRaises, Onward

\* No step takes a job back (Slurm never reuses a job ID).
LEMMA StepOnward ==
  ASSUME TypeInv, [Next]_vars
  PROVE  Onward(slurm')
<1> SlurmType
  BY TypeInvParts
<1> USE ManagedRunAssumption
<1>0. UNCHANGED slurm => Onward(slurm')
  BY DEF Onward
<1>h. ASSUME NEW state, slurm' = [slurm EXCEPT ![HeadJob] = state]
      PROVE  Onward(slurm')
  BY <1>h DEF Onward, SlurmType, Job
<1>l. ASSUME NEW j \in LaneJob, NEW state \in JobState \ {"free"},
             slurm[j] # "gone", slurm' = [slurm EXCEPT ![j] = state]
      PROVE  Onward(slurm')
  BY <1>l DEF Onward, SlurmType, Job
<1>1. CASE Submit
  BY <1>1, <1>0, <1>h, ScancelOnward, SubmitScriptOnward
     DEF Submit, SubmitHead, SubmitHeadRaises, SubmitRecordHead, SubmitLane,
         SubmitAppend, SubmitFinish, SubmitRecordFailure, SubmitCancel,
         SubmitFinalize
<1>2. ASSUME NEW c \in Scaler, Scale(c) PROVE Onward(slurm')
  BY <1>2, <1>0, ScancelOnward, SubmitScriptOnward
     DEF Scale, ScaleOpen, ScaleRefused, ScaleQuery, ScaleSbatch, ScaleAppend,
         ScaleRollback, ScaleCancel
<1>3. ASSUME NEW c \in Stopper, Stop(c) PROVE Onward(slurm')
  BY <1>3, <1>0, ScancelOnward
     DEF Stop, StopOpen, StopRefused, StopQuery, StopRequest, StopCancelLane,
         StopCancelHead, StopFinalize
<1>4. CASE Status
  BY <1>4, <1>0, StatusTypes DEF StatusVars
<1>5. CASE Supervise
  BY <1>5, <1>0 DEF Supervise, HeadSeesRun, HeadGivesUp, HeadStartFails,
     HeadStopped, HeadActivates, HeadLaunches, HeadRecordsExit, HeadLosesRay,
     HeadTeardown, HeadRecordsFailure
<1>6. CASE Cleanup
  BY <1>6, <1>0, ScancelOnward
     DEF Cleanup, CleanupFence, CleanupSnapshot, CleanupCancel, CleanupDrained,
         CleanupTimesOut, CleanupPublishes
<1>7. CASE HeadStarts \/ HeadEnds \/ HeadSignaled \/ HeadKilled
  BY <1>7, <1>h DEF HeadStarts, HeadEnds, HeadSignaled, HeadKilled
<1>8. CASE DriverExits \/ SupervisorDies \/ UNCHANGED vars
  BY <1>8, <1>0 DEF DriverExits, SupervisorDies, vars
<1>9. ASSUME NEW j \in LaneJob, LaneStarts(j) \/ LaneRequeued(j) \/ LaneEnds(j)
      PROVE  Onward(slurm')
  BY <1>9, <1>l DEF LaneStarts, LaneRequeued, LaneEnds, JobState
<1> QED
  BY <1>1, <1>2, <1>3, <1>4, <1>5, <1>6, <1>7, <1>8, <1>9 DEF Next

\* A step leaves the manifest alone or moves to the next revision; behind the
\* fence it keeps the lanes, and a terminal run stays terminal.
LEMMA StepFenced ==
  ASSUME TypeInv, [Next]_vars
  PROVE  /\ manifest' = manifest \/ manifest'.revision = manifest.revision + 1
         /\ manifest.state \notin Unfinished =>
              manifest'.state \notin Unfinished /\ manifest'.lanes = manifest.lanes
         /\ manifest.state \in Terminal => manifest'.state \in Terminal
<1>m. manifest \in Manifest
  BY DEF TypeInv, TypeOK
<1>s. ManifestStep
  BY StepMutates
<1>1. CASE manifest' = manifest
  BY <1>1
<1>2. CASE manifest' # manifest
  <2>1. PICK n : Mutation(manifest, n) /\ manifest' = Published(manifest, n)
    BY <1>s, <1>2 DEF ManifestStep
  <2>2. n \in Manifest /\ n.revision = manifest.revision
    BY <1>m, <2>1, MutationType
  <2>3. /\ manifest'.revision = manifest.revision + 1
        /\ manifest'.lanes = n.lanes /\ manifest'.state = n.state
    BY <1>2, <2>1, <2>2 DEF Published, Manifest
  <2>4. manifest.state \notin Unfinished =>
          n.state \notin Unfinished /\ n.lanes = manifest.lanes
    BY <1>m, <2>1, MutationFence
  <2>5. manifest.state \in Terminal => n.state \in Terminal
    BY <1>m, <2>1, MutationTerminal
  <2> QED
    BY <2>3, <2>4, <2>5
<1> QED
  BY <1>1, <1>2

\* Every mutation but append-lane leaves the lanes as they are.
LEMMA OthersKeepLanes ==
  ASSUME NEW m \in Manifest, NEW n,
         \/ n \in {RecordHead(m), FinishSubmission(m), Activate(m), RequestStop(m)}
         \/ \E e \in ErrorKind :
              n \in {BeginTeardown(m, e), RecordFailure(m, e), Finalize(m, e)}
         \/ \E s \in ExitStatus :
              n \in {RecordDriverExit(m, s), RecordFailureWithExit(m, "ray", s)}
  PROVE  n.lanes = m.lanes /\ Published(m, n).lanes = m.lanes
<1>1. n.lanes = m.lanes /\ "lanes" \in DOMAIN n
  BY DEF RecordHead, FinishSubmission, Activate, RequestStop, BeginTeardown,
         RecordFailure, Finalize, RecordDriverExit, RecordFailureWithExit, Moved,
         Manifest
<1> QED
  BY <1>1 DEF Published

\* Only a command that holds a job enrolls it (_submit_jobs, _add_lane).
LEMMA EnrolledWasHeld ==
  ASSUME TypeInv, [Next]_vars
  PROVE  LaneJobs(manifest') \subseteq LaneJobs(manifest) \cup Held
<1>m. manifest \in Manifest
  BY DEF TypeInv, TypeOK
<1>a. ASSUME NEW l, l.job \in Held, l \in Lane,
             \/ manifest' = manifest
             \/ manifest' = Published(manifest, AppendLane(manifest, l))
      PROVE  LaneJobs(manifest') \subseteq LaneJobs(manifest) \cup Held
  <2>1. manifest'.lanes \subseteq manifest.lanes \cup {l}
    BY <1>m, <1>a DEF AppendLane, Published, Manifest
  <2> QED
    BY <1>a, <2>1 DEF LaneJobs
<1>1. CASE SubmitAppend
  <2>1. PICK j \in submit.held :
          \/ manifest' = manifest
          \/ manifest' = Published(manifest, AppendLane(manifest,
                           [lane |-> submit.lane, job |-> j, at |-> Launcher]))
    BY <1>1 DEF SubmitAppend, Mutate, MutateRaises
  <2>2. [lane |-> submit.lane, job |-> j, at |-> Launcher] \in Lane
    BY DEF TypeInv, TypeOK, Lane
  <2> QED
    BY <2>1, <2>2, <1>a DEF Held
<1>2. ASSUME NEW c \in Scaler, ScaleAppend(c)
      PROVE  LaneJobs(manifest') \subseteq LaneJobs(manifest) \cup Held
  <2>1. PICK j \in scale[c].held :
          \/ manifest' = manifest
          \/ manifest' = Published(manifest, AppendLane(manifest,
                           [lane |-> scale[c].lane, job |-> j, at |-> c]))
    BY <1>2 DEF ScaleAppend, Mutate, MutateRaises
  <2>2. [lane |-> scale[c].lane, job |-> j, at |-> c] \in Lane
    BY DEF TypeInv, TypeOK, Lane
  <2> QED
    BY <2>1, <2>2, <1>a DEF Held
<1>k. manifest'.lanes = manifest.lanes =>
        LaneJobs(manifest') \subseteq LaneJobs(manifest) \cup Held
  BY DEF LaneJobs
<1>3. CASE Submit /\ ~SubmitAppend
  <2>1. \/ UNCHANGED manifest
        \/ \E n : /\ manifest' = Published(manifest, n)
                  /\ \/ n \in {RecordHead(manifest), FinishSubmission(manifest)}
                     \/ \E e \in ErrorKind :
                          n \in {RecordFailure(manifest, e), Finalize(manifest, e)}
    BY <1>3 DEF Submit, SubmitHead, SubmitHeadRaises, SubmitRecordHead, SubmitLane,
       SubmitFinish, SubmitRecordFailure, SubmitCancel, SubmitFinalize, Mutate,
       MutateRaises, Publish, ErrorKind
  <2> QED
    BY <1>m, <2>1, <1>k, OthersKeepLanes
<1>4. ASSUME NEW c \in Scaler, Scale(c), ~ScaleAppend(c)
      PROVE  manifest' = manifest
  BY <1>4 DEF Scale, ScaleOpen, ScaleRefused, ScaleQuery, ScaleSbatch,
     ScaleRollback, ScaleCancel
<1>5. ASSUME NEW c \in Stopper, Stop(c)
      PROVE  manifest'.lanes = manifest.lanes
  <2>1. \/ UNCHANGED manifest
        \/ manifest' = Published(manifest, RequestStop(manifest))
        \/ manifest' = Published(manifest, Finalize(manifest, "none"))
    BY <1>5 DEF Stop, StopOpen, StopRefused, StopQuery, StopRequest,
       StopCancelLane, StopCancelHead, StopFinalize, Mutate, MutateRaises, Publish
  <2> QED
    BY <1>m, <2>1, OthersKeepLanes DEF ErrorKind
<1>6. CASE Status
  <2>1. \/ UNCHANGED manifest
        \/ manifest' = Published(manifest, Finalize(manifest, "reconciled"))
    BY <1>6 DEF Status, StatusOpen, StatusQuery, StatusUnknown, StatusPublishes,
       StatusConflict, Mutate, Publish
  <2> QED
    BY <1>m, <2>1, <1>k, OthersKeepLanes DEF ErrorKind
<1>7. CASE Supervise
  <2>1. \/ UNCHANGED manifest
        \/ manifest' = Published(manifest, Activate(manifest))
        \/ manifest' = Published(manifest, RecordFailure(manifest, "head"))
        \/ \E s \in {"zero", "nonzero"} :
             \/ manifest' = Published(manifest, RecordDriverExit(manifest, s))
             \/ manifest' = Published(manifest,
                              RecordFailureWithExit(manifest, "ray", s))
    BY <1>7 DEF Supervise, HeadSeesRun, HeadGivesUp, HeadStartFails, HeadStopped,
       HeadActivates, HeadLaunches, HeadRecordsExit, HeadLosesRay, HeadTeardown,
       HeadRecordsFailure, HeadWrites, Mutate
  <2> QED
    BY <1>m, <2>1, <1>k, OthersKeepLanes DEF ErrorKind, ExitStatus
<1>8. CASE Cleanup
  <2>1. \/ UNCHANGED manifest
        \/ manifest' = Published(manifest, BeginTeardown(manifest, "exited"))
        \/ manifest' = Published(manifest, Finalize(manifest, "exited"))
    BY <1>8 DEF Cleanup, CleanupFence, CleanupSnapshot, CleanupCancel,
       CleanupDrained, CleanupTimesOut, CleanupPublishes, Mutate, Publish
  <2> QED
    BY <1>m, <2>1, <1>k, OthersKeepLanes DEF ErrorKind
<1>9. CASE Environment \/ UNCHANGED vars
  BY <1>9, <1>k, EnvironmentMutates DEF vars
<1> QED
  BY <1>1, <1>2, <1>3, <1>4, <1>5, <1>6, <1>7, <1>8, <1>9, <1>k
     DEF Next, Environment

\* What a command holds is accepted by Slurm, or it held it before
\* (submit_script returns the ID of a job).
LEMMA HeldWasAccepted ==
  ASSUME TypeInv, [Next]_vars
  PROVE  \A j \in Held' : j \in Held \/ slurm'[j] # "free"
<1> SlurmType
  BY TypeInvParts
<1>a. ASSUME NEW n, NEW j \in LaneJob, SubmitScript(n, j)
      PROVE  slurm'[j] # "free"
  BY <1>a DEF SubmitScript, Accept, SbatchRaises, Named, Nonterminal, SlurmType, Job
<1>1. CASE Submit
  <2>t. submit \in OneSubmit /\ UNCHANGED scale
    BY <1>1, SubmitTypes, TypeInvParts
       DEF SubmitType, Submit, SubmitHead, SubmitHeadRaises,
       SubmitRecordHead, SubmitLane, SubmitAppend, SubmitFinish,
       SubmitRecordFailure, SubmitCancel, SubmitFinalize, SubmitVars
  <2>1. \/ submit'.held \subseteq submit.held
        \/ \E j \in LaneJob : submit'.held = {j} /\ SubmitScript(submit.lane, j)
    BY <1>1, <2>t DEF OneSubmit, Submit, SubmitHead, SubmitHeadRaises,
       SubmitRecordHead, SubmitLane, SubmitAppend, SubmitFinish,
       SubmitRecordFailure, SubmitCancel, SubmitFinalize
  <2> QED
    BY <2>t, <2>1, <1>a DEF Held
<1>2. ASSUME NEW c \in Scaler, Scale(c)
      PROVE  \A j \in Held' : j \in Held \/ slurm'[j] # "free"
  <2>t. scale \in [Scaler -> OneScale] /\ UNCHANGED submit
    BY <1>2, ScaleTypes, TypeInvParts DEF ScaleType, ScaleVars
  <2>1. \/ scale'[c].held \subseteq scale[c].held
        \/ \E j \in LaneJob :
             scale'[c].held = {j} /\ SubmitScript(scale[c].lane, j)
    <3>s. \A r : ScaleTo(c, r) => scale'[c] = r
      BY <2>t DEF ScaleTo
    <3>1. CASE ScaleSbatch(c)
      BY <2>t, <3>s, <3>1 DEF OneScale, ScaleSbatch
    <3>2. CASE ScaleOpen(c) \/ ScaleRefused(c)
      BY <2>t, <3>s, <3>2 DEF OneScale, ScaleOpen, ScaleRefused
    <3>3. CASE ScaleQuery(c)
      BY <3>s, <3>3 DEF ScaleQuery, NewScale
    <3>4. CASE ScaleAppend(c)
      BY <2>t, <3>s, <3>4 DEF OneScale, ScaleAppend
    <3>5. CASE ScaleRollback(c)
      BY <2>t, <3>s, <3>5 DEF OneScale, ScaleRollback
    <3>6. CASE ScaleCancel(c)
      BY <2>t, <3>s, <3>6 DEF OneScale, ScaleCancel
    <3> QED
      BY <1>2, <3>1, <3>2, <3>3, <3>4, <3>5, <3>6 DEF Scale
  <2>2. \A b \in Scaler \ {c} : scale'[b] = scale[b]
    BY <1>2, <2>t, ScaleTypes DEF ScaleTo
  <2> QED
    BY <2>t, <2>1, <2>2, <1>a DEF Held
<1>3. UNCHANGED <<submit, scale>> \/ Submit \/ \E c \in Scaler : Scale(c)
  <2>1. ASSUME NEW c \in Stopper, Stop(c) PROVE UNCHANGED <<submit, scale>>
    BY <2>1, StopTypes DEF StopVars
  <2>2. CASE Status
    BY <2>2, StatusTypes DEF StatusVars
  <2>3. CASE Supervise \/ Cleanup \/ Environment
    BY <2>3, SuperviseTypes, CleanupTypes, EnvironmentTypes DEF ClientVars
  <2>4. CASE UNCHANGED vars
    BY <2>4 DEF vars
  <2> QED
    BY <2>1, <2>2, <2>3, <2>4 DEF Next, Environment
<1> QED
  BY <1>1, <1>2, <1>3 DEF Held

-----------------------------------------------------------------------------
(***************************************************************************)
(* Each part of the invariant is kept by every step.                       *)
(***************************************************************************)
\* Jobs are known before they are held, and held before they are recorded.
LEMMA KnownStep ==
  ASSUME TypeInv, Known, [Next]_vars
  PROVE  Known'
<1>1. LaneJobs(manifest) \subseteq LaneJob /\ Held \subseteq LaneJob
  BY DEF TypeInv, TypeOK, Manifest, Lane, LaneJobs, Held
<1>2. Onward(slurm')
  BY StepOnward
<1> QED
  BY <1>1, <1>2, EnrolledWasHeld, HeldWasAccepted DEF Known, Onward

\* With no lane added, what is released stays released.
LEMMA AllGoneStep ==
  ASSUME TypeInv, AllGone, [Next]_vars, manifest'.lanes = manifest.lanes
  PROVE  AllGone'
<1>1. LaneJobs(manifest) \subseteq LaneJob
  BY DEF TypeInv, TypeOK, Manifest, Lane, LaneJobs
<1>2. Onward(slurm')
  BY StepOnward
<1> QED
  BY <1>1, <1>2 DEF AllGone, Onward, LaneJobs

\* A known job that does not live is gone.
LEMMA ReleasedIsGone ==
  ASSUME TypeInv, Known, \A j \in LaneJobs(manifest) : ~Live(j)
  PROVE  AllGone
<1>1. \A j \in LaneJobs(manifest) : slurm[j] \in JobState
  BY DEF TypeInv, TypeOK, Manifest, Lane, LaneJobs, Job
<1> QED
  BY <1>1 DEF Known, AllGone, Live, Nonterminal, JobState

\* How far cleanup got, as one step may change it (_run_cleanup).
CleanupPc == {"snapshot", "cancel", "drain", "finalize"}

FenceStep == head'.pc = "snapshot" /\ manifest'.state \notin Unfinished

SnapshotStep ==
  /\ head.pc = "snapshot" /\ head'.pc = "cancel"
  /\ head'.lanes = LaneJobs(manifest) /\ UNCHANGED manifest

CancelStep ==
  /\ head.pc = "cancel" /\ head'.pc = "drain"
  /\ head'.lanes = head.lanes /\ UNCHANGED manifest

DrainStep ==
  /\ head.pc = "drain" /\ head'.pc = "finalize"
  /\ head'.lanes = head.lanes /\ UNCHANGED <<manifest, slurm>>
  /\ \A j \in head.lanes : ~Live(j)

\* Nobody but cleanup takes the head through these steps.
LEMMA HeadSteps ==
  ASSUME TypeInv, CleanupSeesLanes, [Next]_vars
  PROVE  \/ UNCHANGED head \/ head'.pc \notin CleanupPc
         \/ FenceStep \/ SnapshotStep \/ CancelStep \/ DrainStep
<1>h. head \in [pc: HeadStep, lanes: SUBSET LaneJob] /\ manifest \in Manifest
  BY DEF TypeInv, TypeOK
<1>t. ASSUME NEW step, HeadTo(step)
      PROVE  head'.pc = step /\ head'.lanes = head.lanes
  BY <1>h, <1>t DEF HeadTo
<1>1. CASE Submit
  BY <1>1 DEF Submit, SubmitHead, SubmitHeadRaises, SubmitRecordHead, SubmitLane,
     SubmitAppend, SubmitFinish, SubmitRecordFailure, SubmitCancel, SubmitFinalize,
     SubmitVars
<1>2. ASSUME NEW c \in Scaler, Scale(c) PROVE UNCHANGED head
  BY <1>2, ScaleTypes DEF ScaleVars
<1>3. ASSUME NEW c \in Stopper, Stop(c) PROVE UNCHANGED head
  BY <1>3, StopTypes DEF StopVars
<1>4. CASE Status
  BY <1>4, StatusTypes DEF StatusVars
<1>5. CASE Supervise
  <2>1. PICK step \in {"starting", "failing", "teardown", "launching",
                   "driving", "fence"} :
          HeadTo(step)
    BY <1>5 DEF Supervise, HeadSeesRun, HeadGivesUp, HeadStartFails, HeadStopped,
       HeadActivates, HeadLaunches, HeadRecordsExit, HeadLosesRay, HeadTeardown,
       HeadRecordsFailure, HeadWrites
  <2> QED
    BY <2>1, <1>t DEF CleanupPc
<1>6. CASE CleanupFence
  <2>1. /\ manifest' = Published(manifest, BeginTeardown(manifest, "exited"))
        /\ head'.pc = "snapshot"
    BY <1>6, <1>t DEF CleanupFence, CleanupSeesLanes, Mutate
  <2>2. BeginTeardown(manifest, "exited").state \notin Unfinished
    BY <1>h DEF BeginTeardown, Moved, Manifest, RunState, Terminal, Unfinished
  <2>3. Published(manifest, BeginTeardown(manifest, "exited")).state
          = BeginTeardown(manifest, "exited").state
    BY <1>h DEF BeginTeardown, Moved, Published, Manifest
  <2> QED
    BY <2>1, <2>2, <2>3 DEF FenceStep
<1>7. CASE CleanupSnapshot
  BY <1>7 DEF CleanupSnapshot, CleanupSeesLanes, SnapshotStep
<1>8. CASE CleanupCancel
  BY <1>8, <1>t DEF CleanupCancel, CancelStep
<1>9. CASE CleanupDrained
  BY <1>9, <1>t DEF CleanupDrained, DrainStep
<1>10. CASE CleanupTimesOut \/ CleanupPublishes
  BY <1>10, <1>t DEF CleanupTimesOut, CleanupPublishes, CleanupPc
<1>11. CASE Environment
  BY <1>11, <1>t DEF Environment, HeadStarts, DriverExits, SupervisorDies, HeadEnds,
     HeadSignaled, HeadKilled, LaneStarts, LaneRequeued, LaneEnds, LaneVars, CleanupPc
<1>12. CASE UNCHANGED vars
  BY <1>12 DEF vars
<1> QED
  BY <1>1, <1>2, <1>3, <1>4, <1>5, <1>6, <1>7, <1>8, <1>9, <1>10, <1>11, <1>12
     DEF Next, Cleanup, Environment

\* The fence keeps the lanes cleanup read until it publishes.
LEMMA CleanupKeeps ==
  ASSUME TypeInv, CleanupSeesLanes, Known, Fenced, Snapshot, Drained, [Next]_vars
  PROVE  Fenced' /\ Snapshot' /\ Drained'
<1>f. manifest.state \notin Unfinished =>
        /\ manifest'.state \notin Unfinished /\ manifest'.lanes = manifest.lanes
        /\ LaneJobs(manifest') = LaneJobs(manifest)
        /\ AllGone => AllGone'
  BY StepFenced, AllGoneStep DEF LaneJobs
<1>1. CASE UNCHANGED head
  BY <1>1, <1>f DEF Fenced, Snapshot, Drained
<1>2. CASE head'.pc \notin CleanupPc \/ FenceStep
  BY <1>2 DEF CleanupPc, FenceStep, Fenced, Snapshot, Drained
<1>3. CASE SnapshotStep \/ CancelStep
  BY <1>3 DEF SnapshotStep, CancelStep, Fenced, Snapshot, Drained
<1>4. CASE DrainStep
  <2>1. AllGone
    BY <1>4, ReleasedIsGone DEF DrainStep, Snapshot
  <2> QED
    BY <1>4, <2>1 DEF DrainStep, Fenced, Snapshot, Drained, AllGone
<1> QED
  BY <1>1, <1>2, <1>3, <1>4, HeadSteps

\* status concludes only from the revision it read (status_slurm_ray_run).
LEMMA CurrentStep ==
  ASSUME TypeInv, Known, Current, [Next]_vars
  PROVE  Current'
<1>t. /\ manifest \in Manifest
      /\ status \in [pc: {"idle", "query", "finalize"}, head: BOOLEAN,
                     lanes: SUBSET LaneJob, revision: Nat]
  BY DEF TypeInv, TypeOK
<1>r. manifest.revision \in Nat
  BY <1>t DEF Manifest
<1>i. status'.pc = "idle" => Current'
  BY DEF Current
<1>1. CASE UNCHANGED status
  <2>1. CASE manifest' = manifest
    BY <1>1, <2>1, AllGoneStep DEF Current, LaneJobs
  <2>2. CASE manifest'.revision = manifest.revision + 1
    BY <1>1, <1>t, <1>r, <2>2 DEF Current
  <2> QED
    BY <2>1, <2>2, StepFenced
<1>2. CASE StatusOpen
  BY <1>2, <1>r DEF StatusOpen, Current
<1>3. CASE StatusQuery
  <2>1. CASE status.head /\ \A j \in status.lanes \cup {HeadJob} : ~Live(j)
    <3>1. /\ status'.pc = "finalize" /\ status'.revision = status.revision
          /\ UNCHANGED <<manifest, slurm>>
      BY <1>3, <1>t, <2>1 DEF StatusQuery, StatusVars
    <3>2. status.revision = manifest.revision => AllGone
      BY <1>3, <2>1, ReleasedIsGone DEF StatusQuery, Current
    <3> QED
      BY <1>3, <3>1, <3>2 DEF StatusQuery, Current, AllGone
  <2> QED
    BY <1>3, <2>1, <1>i DEF StatusQuery, NewStatus
<1>4. CASE StatusUnknown \/ StatusPublishes \/ StatusConflict
  BY <1>4, <1>i DEF StatusUnknown, StatusPublishes, StatusConflict, NewStatus
<1>5. UNCHANGED status \/ Status
  <2>1. ASSUME NEW c \in Scaler, Scale(c) PROVE UNCHANGED status
    BY <2>1, ScaleTypes DEF ScaleVars
  <2>2. ASSUME NEW c \in Stopper, Stop(c) PROVE UNCHANGED status
    BY <2>2, StopTypes DEF StopVars
  <2>3. CASE Submit
    BY <2>3 DEF Submit, SubmitHead, SubmitHeadRaises, SubmitRecordHead, SubmitLane,
       SubmitAppend, SubmitFinish, SubmitRecordFailure, SubmitCancel,
       SubmitFinalize, SubmitVars
  <2>4. CASE Supervise \/ Cleanup \/ Environment
    BY <2>4, SuperviseTypes, CleanupTypes, EnvironmentTypes DEF ClientVars
  <2>5. CASE UNCHANGED vars
    BY <2>5 DEF vars
  <2> QED
    BY <2>1, <2>2, <2>3, <2>4, <2>5 DEF Next, Environment
<1> QED
  BY <1>1, <1>2, <1>3, <1>4, <1>5 DEF Status

\* Who publishes an outcome (the callers of finalize).
LEMMA Publishers ==
  ASSUME TypeInv, [Next]_vars
  PROVE  \/ UNCHANGED publishedBy \/ publishedBy' \in {"submit", "stop"}
         \/ StatusPublishes \/ CleanupPublishes
<1>1. CASE Submit
  BY <1>1 DEF Submit, SubmitHead, SubmitHeadRaises, SubmitRecordHead, SubmitLane,
     SubmitAppend, SubmitFinish, SubmitRecordFailure, SubmitCancel, SubmitFinalize,
     Publish
<1>2. ASSUME NEW c \in Scaler, Scale(c) PROVE UNCHANGED publishedBy
  BY <1>2, ScaleTypes DEF ScaleVars
<1>3. ASSUME NEW c \in Stopper, Stop(c)
      PROVE  UNCHANGED publishedBy \/ publishedBy' = "stop"
  BY <1>3 DEF Stop, StopOpen, StopRefused, StopQuery, StopRequest, StopCancelLane,
     StopCancelHead, StopFinalize, Publish
<1>4. CASE Status
  BY <1>4 DEF Status, StatusOpen, StatusQuery, StatusUnknown, StatusConflict
<1>5. CASE Supervise
  BY <1>5 DEF Supervise, HeadSeesRun, HeadGivesUp, HeadStartFails, HeadStopped,
     HeadActivates, HeadLaunches, HeadRecordsExit, HeadLosesRay, HeadTeardown,
     HeadRecordsFailure
<1>6. CASE Cleanup
  BY <1>6 DEF Cleanup, CleanupFence, CleanupSnapshot, CleanupCancel,
     CleanupDrained, CleanupTimesOut
<1>7. CASE Environment
  BY <1>7 DEF Environment, HeadStarts, DriverExits, SupervisorDies, HeadEnds,
     HeadSignaled, HeadKilled, LaneStarts, LaneRequeued, LaneEnds, LaneVars
<1>8. CASE UNCHANGED vars
  BY <1>8 DEF vars
<1> QED
  BY <1>1, <1>2, <1>3, <1>4, <1>5, <1>6, <1>7, <1>8 DEF Next, Environment

\* An outcome cleanup or status publishes is one over released lanes, and no
\* lane joins the run any more.
LEMMA SettledStep ==
  ASSUME TypeInv, ReleaseInv, [Next]_vars
  PROVE  Settled'
<1>m. manifest \in Manifest
  BY DEF TypeInv, TypeOK
<1>k. ASSUME manifest.state \in Terminal PROVE manifest'.lanes = manifest.lanes
  BY <1>m, <1>k, StepFenced DEF Terminal, Unfinished
<1>1. CASE UNCHANGED publishedBy
  BY <1>1, <1>k, StepFenced, AllGoneStep DEF ReleaseInv, Settled
<1>2. CASE publishedBy' \in {"submit", "stop"}
  BY <1>2 DEF Settled
<1>p. ASSUME NEW who, NEW f \in ErrorKind \ {"none"}, Publish(who, f), AllGone
      PROVE  Settled'
  <2>1. CASE manifest.state \in Terminal
    BY <1>p, <1>k, <2>1, AllGoneStep, StepFenced DEF Settled
  <2>2. CASE manifest.state \notin Terminal
    <3> DEFINE n == Finalize(manifest, f)
    <3>1. Finalizes(manifest, n)
      BY <1>p DEF Finalizes, FinalizeRefused
    <3>2. n.state \in Terminal /\ n.lanes = manifest.lanes
      BY <1>m, <2>2, <3>1, FinalizeSettles
    <3>3. n \in Manifest /\ n.revision = manifest.revision
      BY <1>m, <3>1, MutationType DEF Mutation, Quiet
    <3>4. manifest'.state = n.state /\ manifest'.lanes = n.lanes
      BY <1>m, <1>p, <3>3, PublishedType DEF Publish, Mutate
    <3> QED
      BY <1>p, <3>2, <3>4, AllGoneStep DEF Settled
  <2> QED
    BY <2>1, <2>2
<1>3. CASE StatusPublishes
  <2>1. Publish("status", "reconciled") /\ AllGone
    BY <1>3 DEF StatusPublishes, ReleaseInv, Current
  <2> QED
    BY <1>p, <2>1 DEF ErrorKind
<1>4. CASE CleanupPublishes
  <2>1. CASE Publish("cleanup", "exited")
    BY <1>4, <1>p, <2>1 DEF CleanupPublishes, ReleaseInv, Drained, ErrorKind
  <2>2. CASE UNCHANGED publishedBy
    BY <2>2, <1>1
  <2> QED
    BY <1>4, <2>1, <2>2 DEF CleanupPublishes
<1> QED
  BY <1>1, <1>2, <1>3, <1>4, Publishers

\* The invariant holds of a run nothing was submitted for.
LEMMA ReleaseInit == ASSUME Init PROVE ReleaseInv
BY DEF Init, NewManifest, NewScale, NewStatus, LaneJobs, Held, ReleaseInv, Known,
       Fenced, Snapshot, Drained, Current, Settled

\* No outcome is published by head cleanup or status over a lane that holds or
\* waits for a node, however lanes are added, commands die and Slurm answers,
\* as long as cleanup's fence is written and it can read the lanes
\* (_run_cleanup, _reconcile_terminal_state).
THEOREM Released ==
  ASSUME CleanupSeesLanes
  PROVE  Spec => []ReleasedBeforePublished
<1>1. TypeInv /\ ReleaseInv /\ [Next]_vars => ReleaseInv'
  BY KnownStep, CleanupKeeps, CurrentStep, SettledStep DEF ReleaseInv
<1>2. ReleaseInv => ReleasedBeforePublished
  BY DEF ReleaseInv, Settled, AllGone, ReleasedBeforePublished, Live, Nonterminal
<1> QED
  BY <1>1, <1>2, TypeInit, TypeStep, ReleaseInit, PTL DEF Spec

-----------------------------------------------------------------------------
(***************************************************************************)
(* No lane is orphaned.                                                    *)
(***************************************************************************)
\* Recording a job and cancelling it are answered.  sbatch may raise after the
\* job was accepted, and the lookup, answered then, finds it by a name that is
\* the lane's own only while one scale command numbers lanes: two that read the
\* same lanes number their next one alike, and submit_script refuses to choose
\* between two jobs of one name.
CallsAnswered ==
  /\ Faults \cap {"submit", "scale"} = {}
  /\ "sbatch" \in Faults => /\ "squeue" \notin Faults
                            /\ \A c, d \in Scaler : c = d

\* Jobs that wait for a node or hold one and are not on their way out.
Up == {"PENDING", "RUNNING"}

Taken == {j \in LaneJob : slurm[j] # "free"}

\* The steps of the launcher before it has finished or failed.
Launch == {"head", "record-head", "lane", "append-lane", "finish"}

\* Until the launcher is done no run is open to a scale command.
Unopened ==
  submit.pc # "done" =>
    /\ manifest.state \notin {"STARTING", "ACTIVE"}
    /\ \A c \in Scaler : scale[c].pc = "idle"

\* A command holds the one job it is about to record, and none otherwise.
Grip ==
  /\ submit.pc = "head" => submit.submitted = {}
  /\ \A c \in Scaler :
       IF scale[c].pc \in {"append-lane", "rollback"}
       THEN \E j \in LaneJob : scale[c].held = {j}
       ELSE scale[c].held = {}

\* The jobs somebody answers for.
Tended(j) ==
  \/ j \in LaneJobs(manifest)
  \/ j \in submit.submitted
  \/ \E c \in Scaler : j \in scale[c].held

AllTended == \A j \in LaneJob : slurm[j] \in Up => Tended(j)

\* The number the next lane will be submitted under is no accepted job's name.
Numbered ==
  /\ submit.pc \in Launch =>
       \A j \in Taken :
         \/ name[j] < submit.lane
         \/ submit.pc = "append-lane" /\ name[j] = submit.lane
  /\ submit.pc = "done" =>
       \A c \in Scaler, j \in Taken :
         /\ scale[c].pc = "idle" => \E l \in manifest.lanes : l.lane = name[j]
         /\ scale[c].pc = "query" => \E l \in scale[c].lanes : l.lane = name[j]
         /\ scale[c].pc = "sbatch" => name[j] < scale[c].lane
         /\ scale[c].pc = "append-lane" => name[j] <= scale[c].lane

LaneInv ==
  /\ Unopened /\ Grip /\ AllTended
  /\ "sbatch" \in Faults => Numbered

\* The only steps by which Slurm accepts lane jobs.
Submits == SubmitLane \/ \E c \in Scaler : ScaleSbatch(c)

\* What a step leaves of the lane jobs when it submits none: the same jobs are
\* accepted, under the same names, and none comes up.
Calm ==
  /\ name' = name
  /\ \A j \in LaneJob :
       /\ slurm'[j] = "free" <=> slurm[j] = "free"
       /\ slurm'[j] \in Up => slurm[j] \in Up

\* scancel is calm.
LEMMA ScancelCalm ==
  ASSUME SlurmType, NEW J, Scancel(J), name' = name
  PROVE  Calm
BY DEF SlurmType, Scancel, Canceled, Calm, Up, Job, JobState

\* And brings its jobs down.
LEMMA ScancelDown ==
  ASSUME NEW J, Scancel(J), NEW j \in J \cap LaneJob
  PROVE  slurm'[j] \notin Up
BY DEF Scancel, Canceled, Up, Job

\* Every step that is no sbatch of a lane is calm.
LEMMA StepCalm ==
  ASSUME TypeInv, [Next]_vars, ~Submits
  PROVE  Calm
<1> SlurmType
  BY TypeInvParts
<1> USE ManagedRunAssumption
<1>0. UNCHANGED <<slurm, name>> => Calm
  BY DEF Calm
<1>h. ASSUME NEW state, slurm' = [slurm EXCEPT ![HeadJob] = state], name' = name
      PROVE  Calm
  BY <1>h DEF Calm, SlurmType, Job
<1>l. ASSUME NEW j \in LaneJob, NEW state \in JobState \ {"free"},
             slurm[j] \in {"PENDING", "RUNNING", "COMPLETING"},
             state \in Up => slurm[j] \in Up,
             slurm' = [slurm EXCEPT ![j] = state], name' = name
      PROVE  Calm
  BY <1>l DEF Calm, SlurmType, Job
<1>1. CASE Submit
  BY <1>1, <1>0, <1>h, ScancelCalm
     DEF Submits, Submit, SubmitHead, SubmitHeadRaises, SubmitRecordHead,
         SubmitAppend, SubmitFinish, SubmitRecordFailure, SubmitCancel,
         SubmitFinalize
<1>2. ASSUME NEW c \in Scaler, Scale(c) PROVE Calm
  BY <1>2, <1>0, ScancelCalm
     DEF Submits, Scale, ScaleOpen, ScaleRefused, ScaleQuery, ScaleAppend,
         ScaleRollback, ScaleCancel
<1>3. ASSUME NEW c \in Stopper, Stop(c) PROVE Calm
  BY <1>3, <1>0, ScancelCalm
     DEF Stop, StopOpen, StopRefused, StopQuery, StopRequest, StopCancelLane,
         StopCancelHead, StopFinalize
<1>4. CASE Status
  BY <1>4, <1>0, StatusTypes DEF StatusVars
<1>5. CASE Supervise
  BY <1>5, <1>0 DEF Supervise, HeadSeesRun, HeadGivesUp, HeadStartFails,
     HeadStopped, HeadActivates, HeadLaunches, HeadRecordsExit, HeadLosesRay,
     HeadTeardown, HeadRecordsFailure, HeadVars
<1>6. CASE Cleanup
  BY <1>6, <1>0, ScancelCalm
     DEF Cleanup, CleanupFence, CleanupSnapshot, CleanupCancel, CleanupDrained,
         CleanupTimesOut, CleanupPublishes, HeadVars
<1>7. CASE HeadStarts \/ HeadEnds \/ HeadSignaled \/ HeadKilled
  BY <1>7, <1>h DEF HeadStarts, HeadEnds, HeadSignaled, HeadKilled, HeadVars
<1>8. CASE DriverExits \/ SupervisorDies \/ UNCHANGED vars
  BY <1>8, <1>0 DEF DriverExits, SupervisorDies, vars, HeadVars
<1>9. ASSUME NEW j \in LaneJob, LaneStarts(j) \/ LaneRequeued(j) \/ LaneEnds(j)
      PROVE  Calm
  BY <1>9, <1>l DEF LaneStarts, LaneRequeued, LaneEnds, LaneVars, JobState, Up
<1> QED
  BY <1>1, <1>2, <1>3, <1>4, <1>5, <1>6, <1>7, <1>8, <1>9 DEF Next

\* Under a name no accepted job carries, submit_script returns the job it had
\* accepted, and raises only when it had none accepted.
LEMMA ScriptAccepts ==
  ASSUME SlurmType, CallsAnswered, NEW n,
         "sbatch" \in Faults => \A j \in Taken : name[j] # n
  PROVE  /\ \A j \in LaneJob : SubmitScript(n, j) => Accept(n, j)
         /\ SubmitScriptRaises(n) => UNCHANGED <<slurm, name>>
<1>1. CASE "sbatch" \notin Faults
  BY <1>1 DEF SubmitScript, SubmitScriptRaises, SbatchRaises
<1>2. CASE "sbatch" \in Faults
  <2>1. UNCHANGED <<slurm, name>> => Named(n, slurm', name') = {}
    BY <1>2 DEF Named, Taken, Nonterminal
  <2>2. ASSUME NEW j \in LaneJob, Accept(n, j)
        PROVE  Named(n, slurm', name') = {j}
    <3>1. \A k \in LaneJob :
            /\ slurm'[k] = IF k = j THEN "PENDING" ELSE slurm[k]
            /\ name'[k] = IF k = j THEN n ELSE name[k]
      BY <2>2 DEF Accept, SlurmType, Job
    <3> QED
      BY <1>2, <3>1 DEF Named, Taken, Nonterminal
  <2>3. \A j \in LaneJob : Cardinality({j}) = 1
    BY FS_Singleton
  <2>4. "squeue" \notin Faults
    BY <1>2 DEF CallsAnswered
  <2>5. SubmitScriptRaises(n) => UNCHANGED <<slurm, name>>
    BY <2>2, <2>3, <2>4 DEF SubmitScriptRaises, SbatchRaises
  <2>6. ASSUME NEW j \in LaneJob, SubmitScript(n, j) PROVE Accept(n, j)
    BY <2>1, <2>2, <2>6 DEF SubmitScript, SbatchRaises
  <2> QED
    BY <2>5, <2>6
<1> QED
  BY <1>1, <1>2

-----------------------------------------------------------------------------
(***************************************************************************)
(* Each part is kept by every step.                                        *)
(***************************************************************************)
\* Who steps, and whom that leaves alone.
LEMMA Steppers ==
  ASSUME TypeInv, [Next]_vars
  PROVE  \/ Submit /\ UNCHANGED scale
         \/ \E c \in Scaler : Scale(c) /\ UNCHANGED submit
         \/ ~Submits /\ UNCHANGED <<submit, scale>>
<1>1. Submit => UNCHANGED scale
  BY DEF Submit, SubmitHead, SubmitHeadRaises, SubmitRecordHead, SubmitLane,
     SubmitAppend, SubmitFinish, SubmitRecordFailure, SubmitCancel, SubmitFinalize,
     SubmitVars
<1>2. \A c \in Scaler : Scale(c) => UNCHANGED submit
  BY ScaleTypes DEF ScaleVars
<1>3. CASE ~Submit /\ ~\E c \in Scaler : Scale(c)
  <2>1. ~Submits
    BY <1>3 DEF Submits, Submit, Scale
  <2>2. ASSUME NEW c \in Stopper, Stop(c) PROVE UNCHANGED <<submit, scale>>
    BY <2>2, StopTypes DEF StopVars
  <2>3. Status => UNCHANGED <<submit, scale>>
    BY StatusTypes DEF StatusVars
  <2>4. Supervise \/ Cleanup \/ Environment => UNCHANGED <<submit, scale>>
    BY SuperviseTypes, CleanupTypes, EnvironmentTypes DEF ClientVars
  <2>5. UNCHANGED vars => UNCHANGED <<submit, scale>>
    BY DEF vars
  <2> QED
    BY <1>3, <2>1, <2>2, <2>3, <2>4, <2>5 DEF Next, Environment
<1> QED
  BY <1>1, <1>2, <1>3

\* The launcher's next step, and what it remembers across it, when none of its
\* calls goes unanswered (_submit_jobs).
SubmitMoves ==
  \/ /\ submit.pc = "head" /\ submit'.pc = "record-head"
     /\ submit'.submitted = {HeadJob} /\ submit'.lane = submit.lane
  \/ /\ submit.pc = "record-head" /\ submit'.pc \in {"lane", "finish"}
     /\ submit'.submitted = submit.submitted /\ submit'.lane = submit.lane
  \/ /\ submit.pc = "lane" /\ submit'.pc = "append-lane"
     /\ submit'.lane = submit.lane
     /\ \E j \in LaneJob :
          /\ SubmitScript(submit.lane, j)
          /\ submit'.submitted = submit.submitted \cup {j}
  \/ /\ submit.pc = "append-lane" /\ submit'.pc \in {"lane", "finish"}
     /\ submit'.submitted = submit.submitted /\ submit'.lane = submit.lane + 1
  \/ /\ submit.pc = "finish" /\ submit'.pc = "done"
     /\ submit'.submitted = submit.submitted
  \/ /\ submit.pc \notin {"finish", "done"}
     /\ submit'.pc \notin Launch \cup {"done"}
     /\ submit'.submitted = submit.submitted
     /\ submit.pc = "lane" => SubmitScriptRaises(submit.lane)
  \/ /\ submit.pc = "cancel" /\ submit'.pc \in {"cancel", "failed"}
     /\ \E j \in submit.submitted :
          Scancel({j}) /\ submit'.submitted = submit.submitted \ {j}

LEMMA SubmitProceeds ==
  ASSUME TypeInv, CallsAnswered, Submit
  PROVE  SubmitMoves
<1>p. submit \in OneSubmit /\ "submit" \notin Faults
  BY TypeInvParts DEF SubmitType, CallsAnswered
<1>n. \A who, n : MutateRaises(who, n) => who \in Faults
  BY DEF MutateRaises
<1>f. ASSUME submit.pc \in {"head", "append-lane"},
             submit' = [submit EXCEPT !.pc = "record-failure"]
      PROVE  SubmitMoves
  BY <1>p, <1>f DEF OneSubmit, Launch, SubmitMoves
<1>1. CASE SubmitHead \/ SubmitHeadRaises
  BY <1>1, <1>f, <1>p
     DEF SubmitHead, SubmitHeadRaises, OneSubmit, SubmitMoves, Launch
<1>2. CASE SubmitRecordHead
  BY <1>2, <1>p, <1>n DEF SubmitRecordHead, OneSubmit, SubmitMoves
<1>3. CASE SubmitLane
  <2>1. ASSUME NEW j \in LaneJob, SubmitScript(submit.lane, j),
               submit' = [submit EXCEPT !.pc = "append-lane", !.held = {j},
                                        !.submitted = @ \cup {j}]
        PROVE  SubmitMoves
    <3>1. /\ submit'.pc = "append-lane" /\ submit'.lane = submit.lane
          /\ submit'.submitted = submit.submitted \cup {j}
      BY <1>p, <2>1 DEF OneSubmit
    <3> QED
      BY <1>3, <2>1, <3>1 DEF SubmitLane, SubmitMoves
  <2>2. ASSUME SubmitScriptRaises(submit.lane),
               submit' = [submit EXCEPT !.pc = "record-failure"]
        PROVE  SubmitMoves
    <3>1. submit'.pc = "record-failure" /\ submit'.submitted = submit.submitted
      BY <1>p, <2>2 DEF OneSubmit
    <3> QED
      BY <1>3, <2>2, <3>1 DEF SubmitLane, SubmitMoves, Launch
  <2> QED
    BY <1>3, <2>1, <2>2 DEF SubmitLane
<1>4. CASE SubmitAppend
  <2>1. \/ \E pc \in {"lane", "finish"} :
             submit' = [submit EXCEPT !.pc = pc, !.lane = @ + 1, !.held = {}]
        \/ submit' = [submit EXCEPT !.pc = "record-failure"]
    BY <1>4 DEF SubmitAppend
  <2>2. submit.pc = "append-lane"
    BY <1>4 DEF SubmitAppend
  <2> QED
    BY <1>f, <1>p, <2>1, <2>2 DEF OneSubmit, SubmitMoves, Launch
<1>5. CASE SubmitFinish
  BY <1>5, <1>p, <1>n DEF SubmitFinish, OneSubmit, SubmitMoves
<1>6. CASE SubmitRecordFailure \/ SubmitFinalize
  BY <1>6, <1>p
     DEF SubmitRecordFailure, SubmitFinalize, OneSubmit, SubmitMoves, Launch
<1>7. CASE SubmitCancel
  <2>1. PICK j \in submit.submitted :
          /\ Scancel({j})
          /\ submit' = [submit EXCEPT
                          !.pc = IF submit.submitted = {j}
                                 THEN "failed" ELSE "cancel",
                          !.submitted = @ \ {j}]
    BY <1>7, <1>p DEF SubmitCancel
  <2>2. submit.pc = "cancel"
    BY <1>7 DEF SubmitCancel
  <2>3. /\ submit'.pc \in {"cancel", "failed"}
        /\ submit'.submitted = submit.submitted \ {j}
    BY <1>p, <2>1 DEF OneSubmit
  <2> QED
    BY <2>1, <2>2, <2>3 DEF SubmitMoves
<1> QED
  BY <1>1, <1>2, <1>3, <1>4, <1>5, <1>6, <1>7 DEF Submit

\* A scale command's next step: what it holds, numbers and remembers, when none
\* of its calls goes unanswered (scale_slurm_ray_run, _add_lane).
ScaleMoves(c, r) ==
  \/ /\ scale[c].pc = "idle" /\ r.pc = "query"
     /\ manifest.state \in {"STARTING", "ACTIVE"}
     /\ r.lanes = manifest.lanes /\ r.held = scale[c].held
  \/ /\ scale[c].pc = "query" /\ r.pc = "sbatch" /\ r.held = {}
     /\ \A l \in scale[c].lanes : l.lane < r.lane
  \/ /\ scale[c].pc \in {"query", "cancel"} /\ r.pc \in {"cancel", "done"}
     /\ r.held \in {{}, scale[c].held}
  \/ /\ scale[c].pc = "sbatch" /\ r.pc = "append-lane"
     /\ r.lane = scale[c].lane
     /\ \E j \in LaneJob : r.held = {j} /\ SubmitScript(scale[c].lane, j)
  \/ /\ scale[c].pc = "sbatch" /\ r.pc = "done" /\ r.held = scale[c].held
     /\ SubmitScriptRaises(scale[c].lane)
  \/ /\ scale[c].pc = "append-lane" /\ r.pc \in {"sbatch", "done"}
     /\ r.lane = scale[c].lane + 1 /\ r.held = {}
     /\ \E j \in scale[c].held : j \in LaneJobs(manifest')
  \/ /\ scale[c].pc = "append-lane" /\ r.pc = "rollback"
     /\ r.held = scale[c].held
  \/ /\ scale[c].pc = "rollback" /\ r.pc = "done" /\ r.held = {}
     /\ Scancel(scale[c].held)

LEMMA ScaleProceeds ==
  ASSUME TypeInv, CallsAnswered, NEW c \in Scaler, Scale(c)
  PROVE  /\ ScaleMoves(c, scale'[c])
         /\ \A d \in Scaler \ {c} : scale'[d] = scale[d]
<1>p. /\ scale \in [Scaler -> OneScale] /\ "scale" \notin Faults
      /\ manifest \in Manifest
  BY TypeInvParts DEF ScaleType, CallsAnswered, ManifestType
<1>d. \A d \in Scaler \ {c} : scale'[d] = scale[d]
  BY <1>p, ScaleTypes DEF ScaleTo
<1> SUFFICES ScaleMoves(c, scale'[c])
  BY <1>d
<1>s. \A r : ScaleTo(c, r) => scale'[c] = r
  BY <1>p DEF ScaleTo
<1>0. CASE ScaleRefused(c)
  BY <1>0, <1>p, <1>s DEF ScaleRefused, OneScale, ScaleMoves
<1>1. CASE ScaleOpen(c)
  <2>1. scale'[c] = [scale[c] EXCEPT !.pc = "query", !.lanes = manifest.lanes]
    BY <1>1, <1>s DEF ScaleOpen
  <2>2. /\ scale'[c].pc = "query" /\ scale'[c].lanes = manifest.lanes
        /\ scale'[c].held = scale[c].held
    BY <1>p, <2>1 DEF OneScale
  <2> QED
    BY <1>1, <2>2 DEF ScaleOpen, ScaleMoves
<1>2. CASE ScaleQuery(c)
  <2>1. scale[c].pc = "query"
    BY <1>2 DEF ScaleQuery
  <2>2. \/ \E next \in NextLane(scale[c].lanes) : \E todo :
             ScaleTo(c, [NewScale EXCEPT !.pc = "sbatch", !.lane = next,
                                         !.todo = todo])
        \/ \E drop : ScaleTo(c, [NewScale EXCEPT !.pc = "cancel", !.drop = drop])
        \/ ScaleTo(c, [NewScale EXCEPT !.pc = "done"])
    BY <1>2 DEF ScaleQuery
  <2> QED
    BY <1>s, <2>1, <2>2 DEF NewScale, NextLane, ScaleMoves
<1>3. CASE ScaleSbatch(c)
  BY <1>3, <1>p, <1>s DEF ScaleSbatch, OneScale, ScaleMoves
<1>4. CASE ScaleAppend(c)
  <2>0. scale[c].pc = "append-lane"
    BY <1>4 DEF ScaleAppend
  <2>1. ASSUME NEW j \in scale[c].held, NEW todo, NEW pc \in {"sbatch", "done"},
               Mutate(AppendLane(manifest,
                        [lane |-> scale[c].lane, job |-> j, at |-> c])),
               ScaleTo(c, [scale[c] EXCEPT !.pc = pc, !.todo = todo,
                                           !.lane = @ + 1, !.held = {}])
        PROVE  ScaleMoves(c, scale'[c])
    <3>1. [lane |-> scale[c].lane, job |-> j, at |-> c] \in manifest'.lanes
      BY <1>p, <2>1 DEF Mutate, AppendLane, Published, Manifest
    <3>2. j \in LaneJobs(manifest')
      BY <3>1 DEF LaneJobs
    <3>3. /\ scale'[c].pc = pc /\ scale'[c].lane = scale[c].lane + 1
          /\ scale'[c].held = {}
      BY <1>p, <1>s, <2>1 DEF OneScale
    <3> QED
      BY <2>0, <3>2, <3>3 DEF ScaleMoves
  <2>2. ASSUME ScaleTo(c, [scale[c] EXCEPT !.pc = "rollback"])
        PROVE  ScaleMoves(c, scale'[c])
    BY <1>p, <1>s, <2>0, <2>2 DEF OneScale, ScaleMoves
  <2>3. \/ \E j \in scale[c].held, pc \in {"sbatch", "done"} :
             /\ Mutate(AppendLane(manifest,
                         [lane |-> scale[c].lane, job |-> j, at |-> c]))
             /\ ScaleTo(c, [scale[c] EXCEPT !.pc = pc, !.todo = @ - 1,
                                            !.lane = @ + 1, !.held = {}])
        \/ ScaleTo(c, [scale[c] EXCEPT !.pc = "rollback"])
    BY <1>4 DEF ScaleAppend
  <2> QED
    BY <2>1, <2>2, <2>3
<1>5. CASE ScaleRollback(c) \/ ScaleCancel(c)
  BY <1>5, <1>p, <1>s DEF ScaleRollback, ScaleCancel, OneScale, ScaleMoves
<1> QED
  BY <1>0, <1>1, <1>2, <1>3, <1>4, <1>5 DEF Scale

\* finish-submission opens the run and ends the launcher's work; until then no
\* scale command gets past its snapshot (_submit_jobs, scale_slurm_ray_run).
LEMMA UnopenedStep ==
  ASSUME TypeInv, CallsAnswered, Unopened, [Next]_vars
  PROVE  Unopened'
<1> SUFFICES ASSUME submit'.pc # "done"
             PROVE  /\ manifest'.state \notin {"STARTING", "ACTIVE"}
                    /\ \A c \in Scaler : scale'[c].pc = "idle"
  BY DEF Unopened
<1>1. submit.pc # "done" /\ (submit.pc = "finish" => submit'.pc = submit.pc)
  BY Steppers, SubmitProceeds DEF SubmitMoves
<1>2. /\ manifest.state \notin {"STARTING", "ACTIVE"}
      /\ \A c \in Scaler : scale[c].pc = "idle"
  BY <1>1 DEF Unopened
<1>3. manifest'.state \notin {"STARTING", "ACTIVE"}
  BY <1>1, <1>2, StepEffect DEF Effect
<1>4. ASSUME NEW c \in Scaler, Scale(c) PROVE FALSE
  BY <1>2, <1>4, ScaleProceeds DEF ScaleMoves
<1> QED
  BY <1>2, <1>3, <1>4, Steppers

\* A command lets go of a job only by recording or canceling it (_add_lane).
LEMMA GripStep ==
  ASSUME TypeInv, CallsAnswered, Grip, [Next]_vars
  PROVE  Grip'
<1>1. submit'.pc = "head" => submit.pc = "head" /\ submit' = submit
  BY Steppers, SubmitProceeds DEF SubmitMoves, Launch
<1>2. CASE UNCHANGED scale
  BY <1>1, <1>2 DEF Grip
<1>3. ASSUME NEW c \in Scaler, Scale(c) PROVE Grip'
  <2>1. IF scale'[c].pc \in {"append-lane", "rollback"}
        THEN \E j \in LaneJob : scale'[c].held = {j}
        ELSE scale'[c].held = {}
    BY <1>3, ScaleProceeds DEF ScaleMoves, Grip
  <2> QED
    BY <1>1, <1>3, <2>1, ScaleProceeds DEF Grip
<1> QED
  BY <1>2, <1>3, Steppers

\* A job that waits for a node or holds one does not get out of sight.
LEMMA TendedStays ==
  ASSUME TypeInv, CallsAnswered, Grip, [Next]_vars,
         NEW j \in LaneJob, Tended(j), slurm'[j] \in Up
  PROVE  Tended(j)'
<1>1. ASSUME j \in LaneJobs(manifest) PROVE Tended(j)'
  BY <1>1, StepEffect DEF Effect, LaneJobs, Tended
<1>2. CASE Submit /\ UNCHANGED scale
  <2>1. ASSUME j \in submit.submitted PROVE j \in submit'.submitted
    BY <1>2, <2>1, SubmitProceeds, ScancelDown DEF SubmitMoves, Grip
  <2> QED
    BY <1>1, <1>2, <2>1 DEF Tended
<1>3. ASSUME NEW c \in Scaler, Scale(c), UNCHANGED submit PROVE Tended(j)'
  <2>1. ASSUME j \in scale[c].held PROVE Tended(j)'
    <3>1. j \in scale'[c].held \/ j \in LaneJobs(manifest')
      BY <1>3, <2>1, ScaleProceeds, ScancelDown DEF ScaleMoves, Grip
    <3> QED
      BY <3>1 DEF Tended
  <2>2. ASSUME NEW d \in Scaler \ {c}, j \in scale[d].held PROVE Tended(j)'
    BY <1>3, <2>2, ScaleProceeds DEF Tended
  <2> QED
    BY <1>1, <1>3, <2>1, <2>2 DEF Tended
<1>4. CASE UNCHANGED <<submit, scale>>
  BY <1>1, <1>4 DEF Tended
<1> QED
  BY <1>2, <1>3, <1>4, Steppers

\* The number of a lane that is about to be submitted is nobody's yet.
LEMMA NumberIsFree ==
  ASSUME TypeInv, Unopened, Numbered, NEW j \in Taken
  PROVE  /\ submit.pc = "lane" => name[j] # submit.lane
         /\ \A c \in Scaler : scale[c].pc = "sbatch" => name[j] # scale[c].lane
<1>1. /\ name[j] \in Nat /\ submit.lane \in Nat
      /\ \A c \in Scaler : scale[c].lane \in Nat
  BY DEF TypeInv, TypeOK, Taken
<1>2. submit.pc = "lane" => name[j] < submit.lane
  BY DEF Numbered, Launch
<1>3. \A c \in Scaler : scale[c].pc = "sbatch" => name[j] < scale[c].lane
  BY DEF Unopened, Numbered
<1> QED
  BY <1>1, <1>2, <1>3

\* A lane's sbatch accepts the job its command then holds, under the command's
\* next number, or none (submit_script).
LEMMA SubmitsAccepts ==
  ASSUME TypeInv, CallsAnswered, LaneInv, [Next]_vars, Submits
  PROVE  \/ UNCHANGED <<slurm, name>>
         \/ /\ submit.pc = "lane" /\ submit'.pc = "append-lane"
            /\ submit'.lane = submit.lane
            /\ \E j \in LaneJob :
                 Accept(submit.lane, j) /\ j \in submit'.submitted
         \/ \E c \in Scaler, j \in LaneJob :
              /\ scale[c].pc = "sbatch" /\ scale'[c].pc = "append-lane"
              /\ scale'[c].lane = scale[c].lane
              /\ Accept(scale[c].lane, j) /\ j \in scale'[c].held
<1>p. SlurmType
  BY TypeInvParts
<1>1. CASE SubmitLane
  <2>1. submit.pc = "lane" /\ Submit
    BY <1>1 DEF SubmitLane, Submit
  <2>2. /\ \A j \in LaneJob : SubmitScript(submit.lane, j) => Accept(submit.lane, j)
        /\ SubmitScriptRaises(submit.lane) => UNCHANGED <<slurm, name>>
    BY <1>p, <2>1, NumberIsFree, ScriptAccepts DEF LaneInv
  <2> QED
    BY <2>1, <2>2, SubmitProceeds DEF SubmitMoves
<1>2. ASSUME NEW c \in Scaler, ScaleSbatch(c)
      PROVE  \/ UNCHANGED <<slurm, name>>
             \/ /\ scale[c].pc = "sbatch" /\ scale'[c].pc = "append-lane"
                /\ scale'[c].lane = scale[c].lane
                /\ \E j \in LaneJob :
                     Accept(scale[c].lane, j) /\ j \in scale'[c].held
  <2>1. scale[c].pc = "sbatch" /\ Scale(c)
    BY <1>2 DEF ScaleSbatch, Scale
  <2>2. /\ \A j \in LaneJob : SubmitScript(scale[c].lane, j) => Accept(scale[c].lane, j)
        /\ SubmitScriptRaises(scale[c].lane) => UNCHANGED <<slurm, name>>
    BY <1>p, <2>1, NumberIsFree, ScriptAccepts DEF LaneInv
  <2>3. ScaleMoves(c, scale'[c])
    BY <2>1, ScaleProceeds
  <2> QED
    BY <2>1, <2>2, <2>3 DEF ScaleMoves
<1> QED
  BY <1>1, <1>2 DEF Submits

\* Every job that comes up is in the hands of the command that submitted it.
LEMMA AllTendedStep ==
  ASSUME TypeInv, CallsAnswered, LaneInv, [Next]_vars
  PROVE  AllTended'
<1> SlurmType
  BY TypeInvParts
<1>1. ASSUME NEW j \in LaneJob, slurm[j] \in Up, slurm'[j] \in Up PROVE Tended(j)'
  BY <1>1, TendedStays DEF LaneInv, AllTended
<1>2. ASSUME NEW n, NEW k \in LaneJob, Accept(n, k), NEW j \in LaneJob \ {k}
      PROVE  slurm'[j] = slurm[j]
  BY <1>2 DEF Accept, SlurmType, Job
<1>3. ASSUME NEW n, NEW k \in LaneJob, Accept(n, k), Tended(k)' PROVE AllTended'
  BY <1>1, <1>2, <1>3 DEF AllTended
<1>4. CASE ~Submits
  BY <1>1, <1>4, StepCalm DEF Calm, AllTended
<1>5. CASE Submits
  <2>1. CASE UNCHANGED slurm
    BY <1>1, <2>1 DEF AllTended
  <2>2. ASSUME NEW j \in LaneJob, Accept(submit.lane, j), j \in submit'.submitted
        PROVE  AllTended'
    BY <1>3, <2>2 DEF Tended
  <2>3. ASSUME NEW c \in Scaler, NEW j \in LaneJob, Accept(scale[c].lane, j),
               j \in scale'[c].held
        PROVE  AllTended'
    BY <1>3, <2>3 DEF Tended
  <2> QED
    BY <1>5, <2>1, <2>2, <2>3, SubmitsAccepts
<1> QED
  BY <1>4, <1>5

\* Lanes are numbered upwards, by the launcher first and then by the one scale
\* command from the lanes it read (_submit_jobs, scale_slurm_ray_run).
LEMMA NumberedStep ==
  ASSUME TypeInv, OutcomeInv, CallsAnswered, LaneInv, "sbatch" \in Faults,
         [Next]_vars
  PROVE  Numbered'
<1>l. Unopened /\ Numbered /\ manifest.lanes \subseteq manifest'.lanes
  BY StepEffect DEF LaneInv, Effect
<1>n. /\ submit.lane \in Nat /\ \A j \in LaneJob : name[j] \in Nat
      /\ \A c \in Scaler : scale[c].lane \in Nat /\ scale[c].lanes \subseteq Lane
  BY DEF TypeInv, TypeOK
<1>o. \A c, d \in Scaler : c = d
  BY DEF CallsAnswered
<1>1. CASE Taken' = Taken /\ name' = name
  <2>1. CASE Submit /\ UNCHANGED scale
    <3>m. SubmitMoves
      BY <2>1, SubmitProceeds
    <3>1. ASSUME submit'.pc \in Launch, NEW j \in Taken
          PROVE  \/ name[j] < submit'.lane
                 \/ submit'.pc = "append-lane" /\ name[j] = submit'.lane
      <4>1. submit.pc \in Launch
        BY <3>m, <3>1 DEF SubmitMoves, Launch
      <4>2. \/ name[j] < submit.lane
            \/ submit.pc = "append-lane" /\ name[j] = submit.lane
        BY <1>l, <4>1 DEF Numbered
      <4>3. j \in LaneJob
        BY DEF Taken
      <4> QED
        BY <1>n, <3>m, <3>1, <4>2, <4>3 DEF SubmitMoves, Launch
    <3>2. ASSUME submit'.pc = "done", NEW c \in Scaler, NEW j \in Taken
          PROVE  scale[c].pc = "idle" /\ \E l \in manifest'.lanes : l.lane = name[j]
      <4>1. submit.pc = "finish"
        BY <3>m, <3>2 DEF SubmitMoves, Launch
      <4>2. name[j] < submit.lane /\ name[j] \in Nat
        BY <1>l, <1>n, <4>1 DEF Numbered, Launch, Taken
      <4>3. Enlisted(manifest, submit.lane)
        BY <4>1 DEF OutcomeInv, Launching
      <4>4. \E l \in manifest.lanes : l.lane = name[j]
        BY <1>n, <4>2, <4>3 DEF Enlisted
      <4> QED
        BY <1>l, <4>1, <4>4 DEF Unopened
    <3> QED
      BY <1>1, <2>1, <3>1, <3>2 DEF Numbered
  <2>2. ASSUME NEW c \in Scaler, Scale(c), UNCHANGED submit PROVE Numbered'
    <3>m. ScaleMoves(c, scale'[c])
      BY <2>2, ScaleProceeds
    <3>1. ASSUME submit.pc = "done", NEW j \in Taken
          PROVE  /\ scale'[c].pc # "idle"
                 /\ scale'[c].pc = "query" =>
                      \E l \in scale'[c].lanes : l.lane = name[j]
                 /\ scale'[c].pc = "sbatch" => name[j] < scale'[c].lane
                 /\ scale'[c].pc = "append-lane" => name[j] <= scale'[c].lane
      <4>1. /\ scale[c].pc = "idle" => \E l \in manifest.lanes : l.lane = name[j]
            /\ scale[c].pc = "query" => \E l \in scale[c].lanes : l.lane = name[j]
            /\ scale[c].pc = "sbatch" => name[j] < scale[c].lane
            /\ scale[c].pc = "append-lane" => name[j] <= scale[c].lane
        BY <1>l, <3>1 DEF Numbered
      <4>2. name[j] \in Nat /\ scale[c].lane \in Nat
        BY <1>n DEF Taken
      <4> QED
        BY <3>m, <4>1, <4>2 DEF ScaleMoves
    <3>2. submit.pc \in Launch =>
            \A j \in Taken :
              \/ name[j] < submit.lane
              \/ submit.pc = "append-lane" /\ name[j] = submit.lane
      BY <1>l DEF Numbered
    <3> QED
      BY <1>o, <1>1, <2>2, <3>1, <3>2 DEF Numbered
  <2>3. CASE UNCHANGED <<submit, scale>>
    BY <1>l, <1>1, <2>3 DEF Numbered
  <2> QED
    BY <2>1, <2>2, <2>3, Steppers
<1>a. ASSUME NEW n, NEW k \in LaneJob, Accept(n, k)
      PROVE  \A j \in Taken' :
               IF j = k THEN name'[j] = n ELSE j \in Taken /\ name'[j] = name[j]
  BY <1>a, TypeInvParts DEF Accept, SlurmType, Taken, Job
<1>2. ASSUME submit.pc = "lane", submit'.pc = "append-lane",
             submit'.lane = submit.lane, NEW k \in LaneJob, Accept(submit.lane, k)
      PROVE  Numbered'
  <2>1. \A j \in Taken : name[j] < submit.lane
    BY <1>l, <1>2 DEF Numbered, Launch
  <2> QED
    BY <1>2, <1>a, <2>1 DEF Numbered
<1>3. ASSUME NEW c \in Scaler, NEW k \in LaneJob, scale[c].pc = "sbatch",
             scale'[c].pc = "append-lane", scale'[c].lane = scale[c].lane,
             Accept(scale[c].lane, k)
      PROVE  Numbered'
  <2>1. submit.pc = "done"
    BY <1>l, <1>3 DEF Unopened
  <2>2. submit' = submit
    BY <2>1, Steppers, SubmitProceeds DEF SubmitMoves
  <2>3. \A j \in Taken : name[j] < scale[c].lane /\ name[j] \in Nat
    BY <1>l, <1>n, <1>3, <2>1 DEF Numbered, Taken
  <2>4. \A j \in Taken' : name'[j] <= scale[c].lane
    BY <1>a, <1>n, <1>3, <2>3
  <2> QED
    BY <1>o, <1>3, <2>1, <2>2, <2>4 DEF Numbered, Launch
<1>4. CASE Submits
  BY <1>1, <1>2, <1>3, <1>4, SubmitsAccepts DEF Taken
<1>5. CASE ~Submits
  BY <1>1, <1>5, StepCalm DEF Calm, Taken
<1> QED
  BY <1>4, <1>5

\* The invariant holds of a run nothing was submitted for.
LEMMA LaneInit == ASSUME Init PROVE LaneInv
BY DEF Init, NewManifest, NewScale, LaneJobs, LaneInv, Unopened, Grip, AllTended,
       Up, Numbered, Taken, Job

\* A lane job that waits for a node or holds one is recorded in the manifest or
\* in the hands of the command that submitted it, whatever commands race or
\* die, whenever the head and its supervisor fail, and even where sbatch raises
\* after Slurm accepted the job and the lookup by name is answered, as long as
\* append-lane and scancel are (submit_script, _submit_jobs, _add_lane).
THEOREM NoLaneOrphaned ==
  ASSUME CallsAnswered
  PROVE  Spec => []NoOrphanLane
<1>1. TypeInv /\ OutcomeInv /\ LaneInv /\ [Next]_vars => LaneInv'
  BY UnopenedStep, GripStep, AllTendedStep, NumberedStep DEF LaneInv
<1>2. TypeInv /\ LaneInv => NoOrphanLane
  <2>1. SUFFICES ASSUME AllTended, NEW j \in LaneJob \ LaneJobs(manifest), Live(j),
                        slurm[j] # "COMPLETING"
                 PROVE  \/ j \in submit.held \cup submit.submitted
                        \/ \E c \in Scaler : j \in scale[c].held
    BY DEF LaneInv, NoOrphanLane
  <2>2. slurm[j] \in Up
    BY <2>1 DEF Live, Nonterminal, Up
  <2> QED
    BY <2>1, <2>2 DEF AllTended, Tended
<1> QED
  BY <1>1, <1>2, TypeInit, TypeStep, OutcomeInit, OutcomeStep, LaneInit, PTL DEF Spec
=============================================================================
