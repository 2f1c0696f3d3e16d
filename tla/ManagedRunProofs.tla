-------------------------- MODULE ManagedRunProofs --------------------------
(***************************************************************************)
(* Theorems about ManagedRun for any number of lanes, scale and stop       *)
(* commands, any targets and any faults.                                   *)
(***************************************************************************)
EXTENDS ManagedRunProperties, FiniteSetTheorems, TLAPS

-----------------------------------------------------------------------------
(***************************************************************************)
(* What a single manifest mutation does, whoever applies it: it returns a  *)
(* manifest, it never reopens a run, and it moves the pending verdict only *)
(* in one direction.                                                       *)
(***************************************************************************)
Unfinished == {"SUBMITTING", "STARTING", "ACTIVE"}

\* The manifests mutations meet: a stopping run has an outcome to finalize,
\* and a run whose driver has exited is not open any more.
Sealed(m) ==
  /\ m.state = "STOPPING" => ExpectedTerminal(m) # "none"
  /\ m.exit # "none" => m.state \notin Unfinished

\* Publishing a mutation's result keeps it a manifest, and changes nothing
\* but the revision (mutate_manifest).
LEMMA PublishedType ==
  ASSUME NEW m \in Manifest, NEW n \in Manifest, n.revision = m.revision
  PROVE  /\ Published(m, n) \in Manifest
         /\ Published(m, n) = m \/ Published(m, n).revision = m.revision + 1
         /\ Published(m, n).state = n.state
         /\ Published(m, n).head = n.head
         /\ Published(m, n).lanes = n.lanes
         /\ Published(m, n).stop = n.stop
         /\ Published(m, n).exit = n.exit
         /\ Published(m, n).error = n.error
BY DEF Published, Manifest

\* transition_run_state returns a manifest and touches the state alone.
LEMMA MovedType ==
  ASSUME NEW m \in Manifest, NEW s \in RunState
  PROVE  /\ Moved(m, s) \in Manifest
         /\ Moved(m, s) = [m EXCEPT !.state =
                             IF m.state \in Terminal THEN m.state ELSE s]
BY DEF Moved, Manifest, RunState

\* expected_terminal_state names a terminal state or none.
LEMMA ExpectedTerminalType ==
  ASSUME NEW m \in Manifest
  PROVE  /\ ExpectedTerminal(m) \in Terminal \cup {"none"}
         /\ m.state \in Terminal => ExpectedTerminal(m) = m.state
         /\ m.state \in Unfinished => ExpectedTerminal(m) = "none"
         /\ m.state = "STOPPING" =>
              ExpectedTerminal(m) =
                IF m.stop THEN "STOPPED"
                ELSE IF m.error # "none" THEN "FAILED"
                ELSE IF m.exit = "zero" THEN "SUCCEEDED"
                ELSE IF m.exit = "nonzero" THEN "FAILED" ELSE "none"
BY DEF ExpectedTerminal, Manifest, RunState, Terminal, ExitStatus, Unfinished

-----------------------------------------------------------------------------
(***************************************************************************)
(* A mutation of manifest m that some writer may publish as n.             *)
(***************************************************************************)
Enrolls(m, n) == \E l \in Lane : ~AppendRefused(m, l) /\ n = AppendLane(m, l)

Reasons(m, n) ==
  \/ n = RequestStop(m)
  \/ n = BeginTeardown(m, "exited")
  \/ \E e \in {"submission", "head"} : n = RecordFailure(m, e)

\* The supervisor records how its driver exited.
Exits(m, n) ==
  \E s \in {"zero", "nonzero"} :
    \/ n = RecordFailureWithExit(m, "ray", s)
    \/ m.exit = "none" /\ n = RecordDriverExit(m, s)

Ends(m, n) == Reasons(m, n) \/ Exits(m, n)

Finalizes(m, n) ==
  \E f \in ErrorKind : ~FinalizeRefused(m, f) /\ n = Finalize(m, f)

\* A mutation by anyone but the supervisor whose driver exited.
Quiet(m, n) ==
  \/ n = RecordHead(m) \/ n = FinishSubmission(m) \/ n = Activate(m)
  \/ Enrolls(m, n) \/ Reasons(m, n) \/ Finalizes(m, n)

Mutation(m, n) == Quiet(m, n) \/ Exits(m, n)

\* Nobody but that supervisor touches the exit status.
LEMMA QuietExit ==
  ASSUME NEW m \in Manifest, NEW n, Quiet(m, n)
  PROVE  n.exit = m.exit
<1>1. CASE n = RecordHead(m) \/ Enrolls(m, n)
  BY <1>1 DEF RecordHead, Enrolls, AppendLane, Manifest
<1>2. CASE n = FinishSubmission(m) \/ n = Activate(m)
  BY <1>2 DEF FinishSubmission, Activate, Moved, Manifest
<1>3. CASE Reasons(m, n)
  BY <1>3 DEF Reasons, RequestStop, BeginTeardown, RecordFailure, Moved, Manifest
<1>4. CASE Finalizes(m, n)
  BY <1>4 DEF Finalizes, Finalize, Moved, Manifest
<1> QED
  BY <1>1, <1>2, <1>3, <1>4 DEF Quiet

\* A reason to end leaves a run stopping with an outcome, never a milder one
\* than it had, and touches neither the head nor the lanes.
LEMMA EndsShape ==
  ASSUME NEW m \in Manifest, NEW n, Ends(m, n)
  PROVE  /\ n \in Manifest /\ n.revision = m.revision
         /\ n.lanes = m.lanes /\ n.head = m.head
         /\ m.state \in Terminal => n = m
         /\ m.state \notin Terminal => n.state = "STOPPING"
         /\ m.stop => n.stop
         /\ m.error # "none" => n.error # "none"
         /\ \/ n = m
            \/ n.stop \/ n.error # "none"
            \/ m.exit = "none" /\ n.exit # "none"
<1>1. CASE m.state \in Terminal
  BY <1>1 DEF Ends, Reasons, Exits, RequestStop, BeginTeardown, RecordFailure,
              RecordFailureWithExit, RecordDriverExit
<1>2. CASE m.state \notin Terminal
  <2> DEFINE M(asked, exit, error) ==
        [m EXCEPT !.state = "STOPPING", !.stop = asked, !.exit = exit,
                  !.error = error]
  <2>1. CASE n = RequestStop(m)
    <3>1. n = M(TRUE, m.exit, m.error)
      BY <1>2, <2>1 DEF RequestStop, Moved, Manifest
    <3> QED
      BY <1>2, <3>1 DEF Manifest, RunState
  <2>2. CASE n = BeginTeardown(m, "exited")
    <3>1. (n = m /\ m.state = "STOPPING") \/ n = M(m.stop, m.exit, "exited")
      BY <1>2, <2>2 DEF BeginTeardown, Moved, Manifest
    <3> QED
      BY <1>2, <3>1 DEF Manifest, RunState, ErrorKind
  <2>3. CASE \E e \in {"submission", "head"} : n = RecordFailure(m, e)
    <3>1. PICK e \in {"submission", "head"} : n = M(m.stop, m.exit, e)
      BY <1>2, <2>3 DEF RecordFailure, Moved, Manifest
    <3> QED
      BY <1>2, <3>1 DEF Manifest, RunState, ErrorKind
  <2>4. CASE \E x \in {"zero", "nonzero"} : n = RecordFailureWithExit(m, "ray", x)
    <3>1. PICK x \in {"zero", "nonzero"} : n = M(m.stop, x, "ray")
      BY <1>2, <2>4 DEF RecordFailureWithExit, Moved, Manifest
    <3> QED
      BY <1>2, <3>1 DEF Manifest, RunState, ErrorKind, ExitStatus
  <2>5. CASE \E x \in {"zero", "nonzero"} :
               m.exit = "none" /\ n = RecordDriverExit(m, x)
    <3>1. PICK x \in {"zero", "nonzero"} :
            m.exit = "none" /\ n = M(m.stop, x, m.error)
      BY <1>2, <2>5 DEF RecordDriverExit, Moved, Manifest
    <3> QED
      BY <1>2, <3>1 DEF Manifest, RunState, ExitStatus
  <2> QED
    BY <2>1, <2>2, <2>3, <2>4, <2>5 DEF Ends, Reasons, Exits
<1> QED
  BY <1>1, <1>2

\* Every mutation returns a manifest of the same revision.
LEMMA MutationType ==
  ASSUME NEW m \in Manifest, NEW n, Mutation(m, n)
  PROVE  n \in Manifest /\ n.revision = m.revision
<1>1. CASE n = RecordHead(m)
  BY <1>1 DEF RecordHead, Manifest
<1>2. CASE n = FinishSubmission(m)
  BY <1>2, MovedType DEF FinishSubmission, Manifest, RunState
<1>3. CASE n = Activate(m)
  BY <1>3, MovedType DEF Activate, Manifest, RunState
<1>4. CASE Enrolls(m, n)
  BY <1>4 DEF Enrolls, AppendLane, Manifest
<1>5. CASE Ends(m, n)
  BY <1>5, EndsShape
<1>6. CASE Finalizes(m, n)
  BY ZenonT(40), <1>6, ExpectedTerminalType
     DEF Finalizes, Finalize, Moved, Manifest, RunState, Terminal
<1> QED
  BY <1>1, <1>2, <1>3, <1>4, <1>5, <1>6 DEF Mutation, Quiet, Ends

\* A mutation leaves the lanes alone or enrolls one that is new.
LEMMA MutationLanes ==
  ASSUME NEW m \in Manifest, NEW n, Mutation(m, n)
  PROVE  \/ n.lanes = m.lanes
         \/ /\ Enrolls(m, n)
            /\ \E l \in Lane : n.lanes = m.lanes \cup {l} /\ ~AppendRefused(m, l)
<1>1. CASE n = RecordHead(m)
  BY <1>1 DEF RecordHead, Manifest
<1>2. CASE n = FinishSubmission(m) \/ n = Activate(m)
  BY <1>2 DEF FinishSubmission, Activate, Moved, Manifest
<1>3. CASE Enrolls(m, n)
  BY <1>3 DEF Enrolls, AppendLane, Manifest
<1>4. CASE Ends(m, n)
  BY <1>4, EndsShape
<1>5. CASE Finalizes(m, n)
  BY <1>5 DEF Finalizes, Finalize, Moved, Manifest
<1> QED
  BY <1>1, <1>2, <1>3, <1>4, <1>5 DEF Mutation, Quiet, Ends

\* No mutation reopens a run or enrolls a lane behind a stopping one.
LEMMA MutationFence ==
  ASSUME NEW m \in Manifest, NEW n, Mutation(m, n), m.state \notin Unfinished
  PROVE  n.state \notin Unfinished /\ n.lanes = m.lanes
<1>1. CASE n = RecordHead(m)
  BY <1>1 DEF RecordHead, Manifest
<1>2. CASE n = FinishSubmission(m) \/ n = Activate(m)
  BY <1>2 DEF FinishSubmission, Activate, Unfinished
<1>3. CASE Enrolls(m, n)
  BY <1>3 DEF Enrolls, AppendRefused, Manifest, RunState, Unfinished
<1>4. CASE Ends(m, n)
  BY <1>4, EndsShape DEF Unfinished, Terminal
<1>5. CASE Finalizes(m, n)
  BY <1>5, ExpectedTerminalType
     DEF Finalizes, FinalizeRefused, Finalize, Moved, Manifest, RunState,
         Terminal, Unfinished
<1> QED
  BY <1>1, <1>2, <1>3, <1>4, <1>5 DEF Mutation, Quiet, Ends

\* A terminal run keeps its outcome (transition_run_state).
LEMMA MutationTerminal ==
  ASSUME NEW m \in Manifest, NEW n, Mutation(m, n), m.state \in Terminal
  PROVE  n.state = m.state
<1>1. CASE n = RecordHead(m) \/ Enrolls(m, n)
  BY <1>1 DEF RecordHead, Enrolls, AppendLane, Manifest
<1>2. CASE n = FinishSubmission(m) \/ n = Activate(m)
  BY <1>2 DEF FinishSubmission, Activate, Moved
<1>3. CASE Ends(m, n)
  BY <1>3, EndsShape
<1>4. CASE Finalizes(m, n)
  BY <1>4 DEF Finalizes, Finalize
<1> QED
  BY <1>1, <1>2, <1>3, <1>4 DEF Mutation, Quiet, Ends

\* A stopping run stays sealed.
LEMMA MutationSealed ==
  ASSUME NEW m \in Manifest, NEW n, Mutation(m, n), Sealed(m)
  PROVE  Sealed(n)
<1> n \in Manifest
  BY MutationType
<1>1. CASE n = RecordHead(m)
  BY <1>1, ExpectedTerminalType DEF RecordHead, Manifest, Sealed, Unfinished
<1>2. CASE n = FinishSubmission(m) \/ n = Activate(m)
  BY <1>2 DEF FinishSubmission, Activate, Moved, Manifest, Sealed, Terminal, Unfinished
<1>3. CASE Enrolls(m, n)
  BY <1>3, ExpectedTerminalType
     DEF Enrolls, AppendLane, AppendRefused, Manifest, Sealed, Unfinished
<1>4. CASE Ends(m, n)
  BY <1>4, EndsShape, ExpectedTerminalType
     DEF Sealed, Manifest, ExitStatus, Unfinished, Terminal
<1>5. CASE Finalizes(m, n)
  BY <1>5, ExpectedTerminalType
     DEF Finalizes, Finalize, FinalizeRefused, Moved, Manifest, RunState, Sealed,
         Terminal, Unfinished
<1> QED
  BY <1>1, <1>2, <1>3, <1>4, <1>5 DEF Mutation, Quiet, Ends

-----------------------------------------------------------------------------
(***************************************************************************)
(* Types.  The lanes of a manifest, and those a scale command remembers,   *)
(* are finitely many: how many a scale command has to add is a number.     *)
(***************************************************************************)
Finite ==
  /\ IsFiniteSet(manifest.lanes)
  /\ \A c \in Scaler : IsFiniteSet(scale[c].lanes)

\* The driver's exit is recorded at most once, by the supervisor that ran it.
ExitUnrecorded == head.pc \in {"launching", "driving"} => manifest.exit = "none"

\* A scale command that submits a lane still has one to add.
LanesToAdd ==
  \A c \in Scaler : scale[c].pc \in {"sbatch", "append-lane"} => scale[c].todo > 0

TypeInv == TypeOK /\ Finite /\ LanesToAdd /\ Sealed(manifest) /\ ExitUnrecorded

\* The manifest's side of a step: nothing, or one mutation published.
ManifestStep ==
  \/ manifest' = manifest
  \/ \E n : Mutation(manifest, n) /\ manifest' = Published(manifest, n)

QuietStep ==
  \/ manifest' = manifest
  \/ \E n : Quiet(manifest, n) /\ manifest' = Published(manifest, n)

\* A step's effect on the manifest keeps it a sealed manifest of finitely many
\* lanes (mutate_manifest validates what it publishes).
LEMMA ManifestStepType ==
  ASSUME TypeInv, ManifestStep
  PROVE  manifest' \in Manifest /\ Sealed(manifest') /\ IsFiniteSet(manifest'.lanes)
<1>1. CASE manifest' = manifest
  BY <1>1 DEF TypeInv, TypeOK, Finite
<1>2. CASE \E n : Mutation(manifest, n) /\ manifest' = Published(manifest, n)
  <2>1. PICK n : Mutation(manifest, n) /\ manifest' = Published(manifest, n)
    BY <1>2
  <2>2. n \in Manifest /\ n.revision = manifest.revision /\ Sealed(n)
    BY <2>1, MutationType, MutationSealed DEF TypeInv, TypeOK
  <2>3. manifest' \in Manifest /\ manifest'.lanes = n.lanes /\ Sealed(manifest')
    BY <2>1, <2>2, PublishedType, ExpectedTerminalType
       DEF TypeInv, TypeOK, Sealed, Manifest
  <2>4. IsFiniteSet(n.lanes)
    <3>1. manifest \in Manifest /\ IsFiniteSet(manifest.lanes)
      BY DEF TypeInv, TypeOK, Finite
    <3>2. n.lanes = manifest.lanes \/ \E l : n.lanes = manifest.lanes \cup {l}
      BY <2>1, <3>1, MutationLanes
    <3> QED
      BY <3>1, <3>2, FS_AddElement
  <2> QED
    BY <2>3, <2>4
<1> QED
  BY <1>1, <1>2 DEF ManifestStep

-----------------------------------------------------------------------------
(***************************************************************************)
(* Every action's effect on the manifest is one of the mutations.          *)
(***************************************************************************)
\* A mutation that raises was applied or was not.
LEMMA RaisesStep ==
  ASSUME NEW who, NEW n, MutateRaises(who, n), Quiet(manifest, n)
  PROVE  QuietStep
BY DEF MutateRaises, QuietStep

\* The launcher records its head, its lanes and how submission ended
\* (_submit_jobs).
LEMMA SubmitMutates == ASSUME TypeInv, Submit PROVE QuietStep
<1> manifest \in Manifest /\ submit.lane \in Nat /\ submit.held \subseteq LaneJob
  BY DEF TypeInv, TypeOK
<1>1. CASE SubmitHead \/ SubmitHeadRaises \/ SubmitLane \/ SubmitCancel
  BY <1>1 DEF SubmitHead, SubmitHeadRaises, SubmitLane, SubmitCancel, QuietStep
<1>2. CASE SubmitRecordHead
  BY <1>2, RaisesStep DEF SubmitRecordHead, Mutate, Quiet, QuietStep
<1>3. CASE SubmitAppend
  <2>1. PICK j \in submit.held :
          LET l == [lane |-> submit.lane, job |-> j, at |-> Launcher] IN
          \/ manifest' = manifest
          \/ /\ ~AppendRefused(manifest, l)
             /\ \/ Mutate(AppendLane(manifest, l))
                \/ MutateRaises("submit", AppendLane(manifest, l))
    BY <1>3 DEF SubmitAppend
  <2>2. [lane |-> submit.lane, job |-> j, at |-> Launcher] \in Lane
    BY DEF Lane
  <2> QED
    BY <2>1, <2>2, RaisesStep DEF Mutate, Quiet, Enrolls, QuietStep
<1>4. CASE SubmitFinish
  BY <1>4, RaisesStep DEF SubmitFinish, Mutate, Quiet, QuietStep
<1>5. CASE SubmitRecordFailure
  BY <1>5, RaisesStep DEF SubmitRecordFailure, Mutate, Quiet, Reasons, QuietStep
<1>6. CASE SubmitFinalize
  BY <1>6 DEF SubmitFinalize, Publish, Mutate, Quiet, Finalizes, ErrorKind,
              QuietStep
<1> QED
  BY <1>1, <1>2, <1>3, <1>4, <1>5, <1>6 DEF Submit

\* A scale command writes nothing but the lanes it adds (_add_lane).
LEMMA ScaleMutates ==
  ASSUME TypeInv, NEW c \in Scaler, Scale(c) PROVE QuietStep
<1> scale[c].lane \in Nat /\ scale[c].held \subseteq LaneJob
  BY DEF TypeInv, TypeOK
<1>1. CASE ScaleAppend(c)
  <2>1. PICK j \in scale[c].held :
          LET l == [lane |-> scale[c].lane, job |-> j, at |-> c] IN
          \/ manifest' = manifest
          \/ /\ ~AppendRefused(manifest, l)
             /\ \/ Mutate(AppendLane(manifest, l))
                \/ MutateRaises("scale", AppendLane(manifest, l))
    BY <1>1 DEF ScaleAppend
  <2>2. [lane |-> scale[c].lane, job |-> j, at |-> c] \in Lane
    BY DEF Lane
  <2> QED
    BY <2>1, <2>2, RaisesStep DEF Mutate, Quiet, Enrolls, QuietStep
<1>2. CASE ~ScaleAppend(c)
  BY <1>2 DEF Scale, ScaleOpen, ScaleRefused, ScaleQuery, ScaleSbatch,
              ScaleRollback, ScaleCancel, QuietStep
<1> QED
  BY <1>1, <1>2

\* A stop command requests the stop and may finalize (stop_slurm_ray_run).
LEMMA StopMutates ==
  ASSUME TypeInv, NEW c \in Stopper, Stop(c) PROVE QuietStep
<1>1. CASE StopRequest(c)
  BY <1>1, RaisesStep DEF StopRequest, Mutate, Quiet, Reasons, QuietStep
<1>2. CASE StopFinalize(c)
  BY <1>2 DEF StopFinalize, Publish, Mutate, Quiet, Finalizes, ErrorKind,
              QuietStep
<1>3. CASE ~StopRequest(c) /\ ~StopFinalize(c)
  BY <1>3 DEF Stop, StopOpen, StopRefused, StopQuery, StopCancelLane,
              StopCancelHead, QuietStep
<1> QED
  BY <1>1, <1>2, <1>3

\* status finalizes with a fallback error, so it is never refused
\* (_reconcile_terminal_state).
LEMMA StatusMutates == ASSUME TypeInv, Status PROVE QuietStep
<1>1. CASE StatusPublishes
  BY <1>1 DEF StatusPublishes, Publish, Mutate, Quiet, Finalizes,
              FinalizeRefused, ErrorKind, QuietStep
<1>2. CASE ~StatusPublishes
  BY <1>2 DEF Status, StatusOpen, StatusQuery, StatusUnknown, StatusConflict,
              QuietStep
<1> QED
  BY <1>1, <1>2

\* The supervisor records how far it got and how it ended, its driver's exit
\* only on the way to its teardown (_supervise_head, _run_head).
LEMMA SuperviseMutates ==
  ASSUME TypeInv, Supervise
  PROVE  QuietStep \/ (ManifestStep /\ head'.pc = "teardown")
<1> head \in [pc: HeadStep, lanes: SUBSET LaneJob]
  BY DEF TypeInv, TypeOK
<1>1. CASE HeadActivates
  BY <1>1 DEF HeadActivates, HeadWrites, Mutate, Quiet, QuietStep
<1>2. CASE HeadRecordsExit
  BY <1>2 DEF HeadRecordsExit, HeadWrites, HeadTo, Mutate, Mutation, Exits,
              TypeInv, ExitUnrecorded, ManifestStep, QuietStep
<1>3. CASE HeadLosesRay
  BY <1>3 DEF HeadLosesRay, HeadWrites, HeadTo, Mutate, Mutation, Exits,
              ManifestStep, QuietStep
<1>4. CASE HeadRecordsFailure
  BY <1>4 DEF HeadRecordsFailure, Mutate, Quiet, Reasons, QuietStep
<1>5. CASE \/ HeadSeesRun \/ HeadGivesUp \/ HeadStartFails \/ HeadStopped
           \/ HeadLaunches \/ HeadTeardown
  BY <1>5 DEF HeadSeesRun, HeadGivesUp, HeadStartFails, HeadStopped,
              HeadLaunches, HeadTeardown, QuietStep
<1> QED
  BY <1>1, <1>2, <1>3, <1>4, <1>5 DEF Supervise

\* Cleanup fences and finalizes (_run_cleanup).
LEMMA CleanupMutates == ASSUME TypeInv, Cleanup PROVE QuietStep
<1>1. CASE CleanupFence
  BY <1>1 DEF CleanupFence, Mutate, Quiet, Reasons, QuietStep
<1>2. CASE CleanupPublishes
  BY <1>2 DEF CleanupPublishes, Publish, Mutate, Quiet, Finalizes,
              FinalizeRefused, ErrorKind, QuietStep
<1>3. CASE ~CleanupFence /\ ~CleanupPublishes
  BY <1>3 DEF Cleanup, CleanupSnapshot, CleanupCancel, CleanupDrained,
              CleanupTimesOut, QuietStep
<1> QED
  BY <1>1, <1>2, <1>3

\* The steps of Slurm and of the processes that write no manifest.
Environment ==
  \/ HeadStarts \/ DriverExits \/ SupervisorDies
  \/ HeadEnds \/ HeadSignaled \/ HeadKilled
  \/ \E j \in LaneJob : LaneStarts(j) \/ LaneRequeued(j) \/ LaneEnds(j)

\* Slurm and the processes' deaths write no manifest.
LEMMA EnvironmentMutates == ASSUME Environment PROVE manifest' = manifest
BY DEF Environment, HeadStarts, DriverExits, SupervisorDies, HeadEnds,
       HeadSignaled, HeadKilled, LaneStarts, LaneRequeued, LaneEnds, LaneVars

\* Whatever step is taken, the manifest is untouched or mutated once.
LEMMA StepMutates ==
  ASSUME TypeInv, [Next]_vars
  PROVE  ManifestStep /\ (QuietStep \/ head'.pc = "teardown")
<1>1. CASE Environment
  BY <1>1, EnvironmentMutates DEF QuietStep, ManifestStep
<1>2. CASE UNCHANGED vars
  BY <1>2 DEF vars, QuietStep, ManifestStep
<1>3. QuietStep => ManifestStep
  BY DEF QuietStep, ManifestStep, Mutation
<1> QED
  BY <1>1, <1>2, <1>3, SubmitMutates, ScaleMutates, StopMutates, StatusMutates,
     SuperviseMutates, CleanupMutates DEF Next, Environment

-----------------------------------------------------------------------------
(***************************************************************************)
(* Every action keeps the other variables in their types.                  *)
(***************************************************************************)
SlurmType == slurm \in [Job -> JobState] /\ name \in [LaneJob -> Nat]

OneSubmit ==
  [pc: SubmitStep, lane: Nat, held: SUBSET LaneJob, submitted: SUBSET Job]

SubmitType == submit \in OneSubmit

OneScale == [pc: ScaleStep, lanes: SUBSET Lane, todo: Nat, lane: Nat,
             held: SUBSET LaneJob, drop: SUBSET LaneJob]

OneStop == [pc: StopStep, lanes: SUBSET LaneJob, head: BOOLEAN, over: BOOLEAN,
            idle: BOOLEAN, missed: BOOLEAN, early: BOOLEAN]

StatusType == status \in [pc: {"idle", "query", "finalize"}, head: BOOLEAN,
                          lanes: SUBSET LaneJob, revision: Nat]

HeadType ==
  /\ head \in [pc: HeadStep, lanes: SUBSET LaneJob]
  /\ driver \in DriverState

\* Accepting a job and canceling jobs are moves between job states.
LEMMA AcceptType ==
  ASSUME SlurmType, NEW n \in Nat, NEW j \in LaneJob, Accept(n, j)
  PROVE  SlurmType'
BY DEF SlurmType, Accept, Job, JobState

\* The states scancel leaves jobs in.
LEMMA ScancelType ==
  ASSUME SlurmType, NEW J, Scancel(J)
  PROVE  slurm' \in [Job -> JobState]
BY DEF SlurmType, Scancel, Canceled, JobState

\* submit_script changes Slurm by at most one accepted job.
LEMMA SubmitScriptType ==
  ASSUME SlurmType, NEW n \in Nat,
         SubmitScriptRaises(n) \/ \E j \in LaneJob : SubmitScript(n, j)
  PROVE  SlurmType'
BY AcceptType DEF SubmitScriptRaises, SubmitScript, SbatchRaises, SlurmType

\* The launcher's steps (_submit_jobs).
LEMMA SubmitTypes ==
  ASSUME TypeInv, Submit
  PROVE  SlurmType' /\ SubmitType' /\ publishedBy' \in Publisher
<1> SlurmType /\ SubmitType /\ publishedBy \in Publisher
  BY DEF TypeInv, TypeOK, SlurmType, SubmitType, OneSubmit
<1> USE DEF SubmitStep
<1>1. CASE SubmitHead
  BY <1>1 DEF SubmitHead, SlurmType, SubmitType, OneSubmit, Job, JobState
<1>2. CASE SubmitHeadRaises
  BY <1>2 DEF SubmitHeadRaises, SlurmType, SubmitType, OneSubmit, Job, JobState
<1>3. CASE SubmitRecordHead
  BY <1>3 DEF SubmitRecordHead, SlurmType, SubmitType, OneSubmit
<1>4. CASE SubmitLane
  <2>1. SlurmType' /\ publishedBy' = publishedBy
    BY <1>4, SubmitScriptType DEF SubmitLane, SubmitType, OneSubmit
  <2>2. \/ \E j \in LaneJob :
             submit' = [submit EXCEPT !.pc = "append-lane", !.held = {j},
                                      !.submitted = @ \cup {j}]
        \/ submit' = [submit EXCEPT !.pc = "record-failure"]
    BY <1>4 DEF SubmitLane
  <2>3. \A j \in LaneJob : [submit EXCEPT !.pc = "append-lane", !.held = {j},
                                           !.submitted = @ \cup {j}] \in OneSubmit
    BY DEF SubmitType, OneSubmit, Job
  <2>4. [submit EXCEPT !.pc = "record-failure"] \in OneSubmit
    BY DEF SubmitType, OneSubmit
  <2> QED
    BY <2>1, <2>2, <2>3, <2>4 DEF SubmitType
<1>5. CASE SubmitAppend
  <2>1. \/ submit' = [submit EXCEPT !.pc = "record-failure"]
        \/ \E pc \in {"lane", "finish"} :
             submit' = [submit EXCEPT !.pc = pc, !.lane = @ + 1, !.held = {}]
    BY <1>5 DEF SubmitAppend
  <2>2. SlurmType' /\ publishedBy' = publishedBy
    BY <1>5 DEF SubmitAppend, SlurmType
  <2>3. [submit EXCEPT !.pc = "record-failure"] \in OneSubmit
    BY DEF SubmitType, OneSubmit
  <2>4. \A pc \in {"lane", "finish"} :
          [submit EXCEPT !.pc = pc, !.lane = @ + 1, !.held = {}] \in OneSubmit
    <3>1. submit.lane + 1 \in Nat
      BY DEF SubmitType, OneSubmit
    <3>2. \A pc \in {"lane", "finish"}, n \in Nat :
            [submit EXCEPT !.pc = pc, !.lane = n, !.held = {}] \in OneSubmit
      BY DEF SubmitType, OneSubmit
    <3> QED
      BY <3>1, <3>2
  <2> QED
    BY <2>1, <2>2, <2>3, <2>4 DEF SubmitType
<1>6. CASE SubmitFinish
  BY <1>6 DEF SubmitFinish, SlurmType, SubmitType, OneSubmit
<1>7. CASE SubmitRecordFailure
  BY <1>7 DEF SubmitRecordFailure, SlurmType, SubmitType, OneSubmit
<1>8. CASE SubmitCancel
  <2>1. SlurmType'
    BY <1>8, ScancelType DEF SubmitCancel, SlurmType
  <2> QED
    BY <1>8, <2>1 DEF SubmitCancel, SubmitType, OneSubmit
<1>9. CASE SubmitFinalize
  BY <1>9 DEF SubmitFinalize, Publish, Publisher, SlurmType, SubmitType, OneSubmit
<1> QED
  BY <1>1, <1>2, <1>3, <1>4, <1>5, <1>6, <1>7, <1>8, <1>9 DEF Submit

\* A scale command's steps: how many lanes to add is a number because the
\* lanes in its snapshot are finitely many (scale_slurm_ray_run).
LEMMA ScaleTypes ==
  ASSUME TypeInv, NEW c \in Scaler, Scale(c)
  PROVE  /\ SlurmType' /\ UNCHANGED ScaleVars
         /\ \E r \in OneScale :
              /\ IsFiniteSet(r.lanes) /\ ScaleTo(c, r)
              /\ r.pc \in {"sbatch", "append-lane"} => r.todo > 0
<1> DEFINE s == scale[c]
           Fit(r) == /\ r \in OneScale /\ IsFiniteSet(r.lanes)
                     /\ r.pc \in {"sbatch", "append-lane"} => r.todo > 0
<1>0. /\ SlurmType /\ Fit(s) /\ manifest.lanes \subseteq Lane
      /\ IsFiniteSet(manifest.lanes) /\ Targets \subseteq Nat
  BY ManagedRunAssumption
     DEF TypeInv, TypeOK, Finite, LanesToAdd, SlurmType, OneScale, Manifest
<1>e. IsFiniteSet({})
  BY FS_EmptySet
<1> SUFFICES SlurmType' /\ UNCHANGED ScaleVars /\ \E r : Fit(r) /\ ScaleTo(c, r)
  OBVIOUS
<1> HIDE DEF s
<1>1. CASE ScaleOpen(c)
  <2>1. Fit([s EXCEPT !.pc = "query", !.lanes = manifest.lanes])
    BY <1>0 DEF OneScale, ScaleStep
  <2> QED
    BY <1>0, <1>1, <2>1 DEF ScaleOpen, SlurmType, s
<1>2. CASE ScaleRefused(c)
  <2>1. Fit([s EXCEPT !.pc = "done", !.lanes = {}])
    BY <1>0, <1>e DEF OneScale, ScaleStep
  <2> QED
    BY <1>0, <1>2, <2>1 DEF ScaleRefused, SlurmType, s
<1>3. CASE ScaleQuery(c)
  <2> DEFINE active == {l \in s.lanes : Live(l.job)}
             count  == Cardinality(active)
             Drop(k) == {l.job : l \in Highest(active, k)}
  <2>1. PICK target \in Targets, next \in NextLane(s.lanes) :
          \/ /\ count < target
             /\ ScaleTo(c, [NewScale EXCEPT !.pc = "sbatch", !.lane = next,
                                            !.todo = target - count])
          \/ /\ count > target
             /\ ScaleTo(c, [NewScale EXCEPT !.pc = "cancel",
                                            !.drop = Drop(count - target)])
          \/ ScaleTo(c, [NewScale EXCEPT !.pc = "done"])
    BY <1>3 DEF ScaleQuery, s
  <2>2. count \in Nat /\ target \in Nat /\ next \in Nat
    <3>1. IsFiniteSet(active)
      BY <1>0, FS_Subset
    <3>2. \A l \in s.lanes : l.lane + 1 \in Nat
      BY <1>0 DEF OneScale, Lane
    <3> QED
      BY <1>0, <3>1, <3>2, FS_CardinalityType DEF NextLane
  <2>3. \A k : Drop(k) \subseteq LaneJob
    BY <1>0 DEF Highest, OneScale, Lane
  <2>4. SlurmType' /\ UNCHANGED ScaleVars
    BY <1>0, <1>3 DEF ScaleQuery, SlurmType
  <2> HIDE DEF count, Drop
  <2>5. ASSUME count < target
        PROVE  Fit([NewScale EXCEPT !.pc = "sbatch", !.lane = next,
                                    !.todo = target - count])
    <3>1. target - count \in Nat /\ target - count > 0
      BY <2>2, <2>5
    <3> QED
      BY <3>1, <2>2, <1>e DEF NewScale, OneScale, ScaleStep
  <2>6. \A k : Fit([NewScale EXCEPT !.pc = "cancel", !.drop = Drop(k)])
    BY <2>3, <1>e DEF NewScale, OneScale, ScaleStep
  <2>7. Fit([NewScale EXCEPT !.pc = "done"])
    BY <1>e DEF NewScale, OneScale, ScaleStep
  <2> HIDE DEF Fit
  <2> QED
    BY <2>1, <2>4, <2>5, <2>6, <2>7
<1>4. CASE ScaleSbatch(c)
  <2>1. SlurmType' /\ UNCHANGED ScaleVars
    BY <1>0, <1>4, SubmitScriptType DEF ScaleSbatch, OneScale, s
  <2>2. \A j \in LaneJob :
          s.pc = "sbatch" => Fit([s EXCEPT !.pc = "append-lane", !.held = {j}])
    BY <1>0 DEF OneScale, ScaleStep
  <2>3. Fit([s EXCEPT !.pc = "done"])
    BY <1>0 DEF OneScale, ScaleStep
  <2> HIDE DEF Fit
  <2> QED
    BY <1>4, <2>1, <2>2, <2>3 DEF ScaleSbatch, s
<1>5. CASE ScaleAppend(c)
  <2> DEFINE added == [s EXCEPT
                         !.pc = IF s.todo > 1 THEN "sbatch" ELSE "done",
                         !.todo = @ - 1, !.lane = @ + 1, !.held = {}]
  <2>1. /\ s.pc = "append-lane" /\ SlurmType' /\ UNCHANGED ScaleVars
        /\ ScaleTo(c, added) \/ ScaleTo(c, [s EXCEPT !.pc = "rollback"])
    BY <1>0, <1>5 DEF ScaleAppend, SlurmType, s
  <2>2. s.todo > 0 /\ s.todo \in Nat /\ s.lane \in Nat
    BY <1>0, <2>1 DEF OneScale
  <2>3. /\ s.todo - 1 \in Nat /\ s.lane + 1 \in Nat
        /\ s.todo > 1 => s.todo - 1 > 0
    BY <2>2
  <2>4. Fit(added)
    <3> DEFINE todo == s.todo - 1
               lane == s.lane + 1
    <3>1. added = [s EXCEPT !.pc = IF s.todo > 1 THEN "sbatch" ELSE "done",
                            !.todo = todo, !.lane = lane, !.held = {}]
      OBVIOUS
    <3>2. todo \in Nat /\ lane \in Nat /\ (s.todo > 1 => todo > 0)
      BY <2>3
    <3> HIDE DEF todo, lane, added
    <3> QED
      BY <1>0, <3>1, <3>2 DEF OneScale, ScaleStep
  <2>5. Fit([s EXCEPT !.pc = "rollback"])
    BY <1>0 DEF OneScale, ScaleStep
  <2> HIDE DEF Fit, added
  <2> QED
    BY <2>1, <2>4, <2>5
<1>6. CASE ScaleRollback(c)
  <2>1. SlurmType' /\ UNCHANGED ScaleVars
    BY <1>0, <1>6, ScancelType DEF ScaleRollback, SlurmType
  <2>2. Fit([s EXCEPT !.pc = "done", !.held = {}])
    BY <1>0 DEF OneScale, ScaleStep
  <2> HIDE DEF Fit
  <2> QED
    BY <1>6, <2>1, <2>2 DEF ScaleRollback, s
<1>7. CASE ScaleCancel(c)
  <2>1. SlurmType' /\ UNCHANGED ScaleVars
    BY <1>0, <1>7, ScancelType DEF ScaleCancel, SlurmType
  <2>2. \A J : Fit([s EXCEPT !.pc = "done", !.drop = @ \ J])
    BY <1>0 DEF OneScale, ScaleStep
  <2>3. \A J : Fit([s EXCEPT !.pc = "cancel", !.drop = @ \ J])
    BY <1>0 DEF OneScale, ScaleStep
  <2>4. Fit([s EXCEPT !.pc = "done", !.drop = {}])
    BY <1>0 DEF OneScale, ScaleStep
  <2> HIDE DEF Fit
  <2>5. PICK j \in s.drop :
          \/ ScaleTo(c, [s EXCEPT !.pc = IF s.drop = {j} THEN "done" ELSE "cancel",
                                  !.drop = @ \ {j}])
          \/ ScaleTo(c, [s EXCEPT !.pc = "done", !.drop = {}])
    BY <1>7 DEF ScaleCancel, s
  <2>6. CASE s.drop = {j}
    BY <2>1, <2>2, <2>4, <2>5, <2>6
  <2>7. CASE s.drop # {j}
    BY <2>1, <2>3, <2>4, <2>5, <2>7
  <2> QED
    BY <2>6, <2>7
<1> QED
  BY <1>1, <1>2, <1>3, <1>4, <1>5, <1>6, <1>7 DEF Scale

\* A stop command's steps (stop_slurm_ray_run).
LEMMA StopTypes ==
  ASSUME TypeInv, NEW c \in Stopper, Stop(c)
  PROVE  /\ SlurmType' /\ UNCHANGED StopVars /\ publishedBy' \in Publisher
         /\ \E r \in OneStop : StopTo(c, r)
<1> DEFINE s == stop[c]
<1>0. /\ SlurmType /\ s \in OneStop /\ publishedBy \in Publisher
      /\ manifest.head \in BOOLEAN /\ LaneJobs(manifest) \subseteq LaneJob
  BY DEF TypeInv, TypeOK, SlurmType, OneStop, Manifest, LaneJobs, Lane
<1> HIDE DEF s
<1>n. NewStop \in OneStop
  BY DEF NewStop, OneStop, StopStep
<1>1. CASE StopOpen(c)
  <2>1. \A over \in BOOLEAN :
          [NewStop EXCEPT !.pc = "query", !.lanes = LaneJobs(manifest),
                          !.head = manifest.head, !.over = over] \in OneStop
    BY <1>0, <1>n DEF OneStop, StopStep
  <2>2. (manifest.state \in Terminal) \in BOOLEAN
    OBVIOUS
  <2> QED
    BY <1>0, <1>1, <2>1, <2>2 DEF StopOpen, SlurmType
<1>2. CASE StopRefused(c)
  <2>1. [NewStop EXCEPT !.pc = "done"] \in OneStop
    BY <1>n DEF OneStop, StopStep
  <2> QED
    BY <1>0, <1>2, <2>1 DEF StopRefused, SlurmType
<1>3. CASE StopQuery(c)
  <2>1. \A pc \in {"cancel-lanes", "request-stop"}, up, idle \in BOOLEAN :
          [s EXCEPT !.pc = pc, !.lanes = {j \in s.lanes : Live(j)}, !.head = up,
                    !.idle = idle] \in OneStop
    BY <1>0 DEF OneStop, StopStep
  <2>2. \E pc \in {"cancel-lanes", "request-stop"}, up, idle \in BOOLEAN :
          StopTo(c, [s EXCEPT !.pc = pc, !.lanes = {j \in s.lanes : Live(j)},
                              !.head = up, !.idle = idle])
    <3> DEFINE lanes == {j \in s.lanes : Live(j)}
               up    == s.head /\ Live(HeadJob)
               pc    == IF s.over THEN "cancel-lanes" ELSE "request-stop"
               idle  == lanes = {} /\ ~up
    <3>1. StopTo(c, [s EXCEPT !.pc = pc, !.lanes = lanes, !.head = up, !.idle = idle])
      BY <1>3 DEF StopQuery, s
    <3>2. up \in BOOLEAN /\ idle \in BOOLEAN /\ pc \in {"cancel-lanes", "request-stop"}
      OBVIOUS
    <3> HIDE DEF up, pc, idle
    <3> QED
      BY <3>1, <3>2
  <2>3. SlurmType' /\ UNCHANGED StopVars /\ publishedBy' = publishedBy
    BY <1>0, <1>3 DEF StopQuery, SlurmType
  <2> QED
    BY <1>0, <2>1, <2>2, <2>3
<1>4. CASE StopRequest(c)
  <2>1. \A pc \in StopStep, early \in BOOLEAN :
          [s EXCEPT !.pc = pc, !.early = early] \in OneStop
    BY <1>0 DEF OneStop
  <2>2. StopIsEarly \in BOOLEAN /\ {"cancel-lanes", "done"} \subseteq StopStep
    BY DEF StopIsEarly, StopStep
  <2>3. \E pc \in {"cancel-lanes", "done"} :
          StopTo(c, [s EXCEPT !.pc = pc, !.early = StopIsEarly])
    BY <1>4 DEF StopRequest, s
  <2>4. SlurmType' /\ UNCHANGED StopVars /\ publishedBy' = publishedBy
    BY <1>0, <1>4 DEF StopRequest, SlurmType
  <2> HIDE DEF StopIsEarly
  <2> QED
    BY <1>0, <2>1, <2>2, <2>3, <2>4
<1>5. CASE StopCancelLane(c)
  <2>1. \A J : [s EXCEPT !.lanes = @ \ J] \in OneStop
    BY <1>0 DEF OneStop
  <2>2. \A J : [s EXCEPT !.lanes = @ \ J, !.missed = TRUE] \in OneStop
    BY <1>0 DEF OneStop
  <2>3. [s EXCEPT !.pc = "done"] \in OneStop
    BY <1>0 DEF OneStop, StopStep
  <2>4. SlurmType' /\ UNCHANGED StopVars /\ publishedBy' = publishedBy
    BY <1>0, <1>5, ScancelType DEF StopCancelLane, SlurmType
  <2> QED
    BY <1>0, <1>5, <2>1, <2>2, <2>3, <2>4 DEF StopCancelLane, s
<1>6. CASE StopCancelHead(c)
  <2>1. [s EXCEPT !.pc = IF s.idle /\ ~s.over THEN "finalize" ELSE "done"] \in OneStop
    BY <1>0 DEF OneStop, StopStep
  <2>2. [s EXCEPT !.pc = "done"] \in OneStop
    BY <1>0 DEF OneStop, StopStep
  <2>3. SlurmType' /\ UNCHANGED StopVars /\ publishedBy' = publishedBy
    BY <1>0, <1>6, ScancelType DEF StopCancelHead, SlurmType
  <2> QED
    BY <1>0, <1>6, <2>1, <2>2, <2>3 DEF StopCancelHead, s
<1>7. CASE StopFinalize(c)
  <2>1. [s EXCEPT !.pc = "done"] \in OneStop
    BY <1>0 DEF OneStop, StopStep
  <2>2. SlurmType' /\ UNCHANGED StopVars /\ publishedBy' \in Publisher
    BY <1>0, <1>7 DEF StopFinalize, Publish, Publisher, SlurmType
  <2> QED
    BY <1>7, <2>1, <2>2 DEF StopFinalize, s
<1> QED
  BY <1>1, <1>2, <1>3, <1>4, <1>5, <1>6, <1>7 DEF Stop

\* status remembers the revision its query was built from
\* (_reconcile_terminal_state).
LEMMA StatusTypes ==
  ASSUME TypeInv, Status
  PROVE  StatusType' /\ UNCHANGED StatusVars /\ publishedBy' \in Publisher
<1>0. /\ StatusType /\ publishedBy \in Publisher /\ NewStatus.revision \in Nat
      /\ manifest.head \in BOOLEAN /\ LaneJobs(manifest) \subseteq LaneJob
      /\ manifest.revision \in Nat
  BY DEF TypeInv, TypeOK, StatusType, Manifest, LaneJobs, Lane, NewStatus
<1>n. NewStatus \in [pc: {"idle", "query", "finalize"}, head: BOOLEAN,
                     lanes: SUBSET LaneJob, revision: Nat]
  BY DEF NewStatus
<1>1. CASE StatusOpen
  BY <1>0, <1>1 DEF StatusOpen, StatusType
<1>2. CASE StatusQuery
  <2>1. [status EXCEPT !.pc = "finalize", !.lanes = {}]
          \in [pc: {"idle", "query", "finalize"}, head: BOOLEAN,
               lanes: SUBSET LaneJob, revision: Nat]
    BY <1>0 DEF StatusType
  <2> QED
    BY <1>0, <1>2, <1>n, <2>1 DEF StatusQuery, StatusType
<1>3. CASE StatusUnknown \/ StatusConflict
  BY <1>0, <1>3, <1>n DEF StatusUnknown, StatusConflict, StatusType
<1>4. CASE StatusPublishes
  BY <1>0, <1>4, <1>n DEF StatusPublishes, Publish, Publisher, StatusType
<1> QED
  BY <1>1, <1>2, <1>3, <1>4 DEF Status

ClientVars == <<submit, scale, stop, status>>

\* A step of the head moves its program counter to one of its steps.
LEMMA HeadToType ==
  ASSUME TypeInv, NEW step \in HeadStep, HeadTo(step)
  PROVE  head' \in [pc: HeadStep, lanes: SUBSET LaneJob] /\ head'.pc = step
         /\ head'.lanes = head.lanes
BY DEF TypeInv, TypeOK, HeadTo

\* The supervisor's steps (_supervise_head, _run_head).
LEMMA SuperviseTypes ==
  ASSUME TypeInv, Supervise
  PROVE  /\ SlurmType' /\ HeadType' /\ publishedBy' \in Publisher
         /\ UNCHANGED ClientVars
         /\ head'.pc \in {"starting", "launching", "driving", "teardown",
                          "failing", "fence"}
         /\ head'.pc \in {"launching", "driving"} =>
              head.pc = "launching" \/ manifest.state \in Unfinished
<1> /\ SlurmType /\ HeadType /\ publishedBy \in Publisher
  BY DEF TypeInv, TypeOK, SlurmType, HeadType
<1> USE DEF HeadType, DriverState
<1>w. ASSUME NEW n, NEW step \in HeadStep, HeadWrites(n, step)
      PROVE  HeadTo(step) \/ HeadTo("failing")
  BY <1>w DEF HeadWrites
<1>h. {"starting", "launching", "driving", "teardown", "failing", "fence"}
        \subseteq HeadStep
  BY DEF HeadStep
<1>1. CASE HeadSeesRun
  BY <1>1, <1>h, HeadToType DEF HeadSeesRun, HeadVars, ClientVars, SlurmType
<1>2. CASE HeadGivesUp
  BY <1>2, <1>h, HeadToType DEF HeadGivesUp, HeadVars, ClientVars, SlurmType
<1>3. CASE HeadStartFails
  BY <1>3, <1>h, HeadToType DEF HeadStartFails, HeadVars, ClientVars, SlurmType
<1>4. CASE HeadStopped
  BY <1>4, <1>h, HeadToType DEF HeadStopped, HeadVars, ClientVars, SlurmType
<1>5. CASE HeadActivates
  <2>1. \/ \E step \in {"teardown", "failing"} : HeadTo(step)
        \/ HeadTo("launching") /\ manifest.state \in Unfinished
    BY <1>5, <1>h DEF HeadActivates, HeadWrites, Activate, Unfinished
  <2>2. driver' \in DriverState
        /\ SlurmType' /\ publishedBy' = publishedBy /\ UNCHANGED ClientVars
    BY <1>5 DEF HeadActivates, HeadVars, ClientVars, SlurmType
  <2> QED
    BY <1>h, <2>1, <2>2, HeadToType
<1>6. CASE HeadRecordsExit
  <2>1. \E step \in {"teardown", "failing"} : HeadTo(step)
    BY <1>6, <1>h, <1>w DEF HeadRecordsExit
  <2>2. driver' \in DriverState
        /\ SlurmType' /\ publishedBy' = publishedBy /\ UNCHANGED ClientVars
    BY <1>6 DEF HeadRecordsExit, HeadVars, ClientVars, SlurmType
  <2> QED
    BY <1>h, <2>1, <2>2, HeadToType
<1>7. CASE HeadLosesRay
  <2>1. \E step \in {"teardown", "failing"} : HeadTo(step)
    BY <1>7, <1>h, <1>w DEF HeadLosesRay
  <2>2. driver' \in DriverState
        /\ SlurmType' /\ publishedBy' = publishedBy /\ UNCHANGED ClientVars
    BY <1>7 DEF HeadLosesRay, HeadVars, ClientVars, SlurmType
  <2> QED
    BY <1>h, <2>1, <2>2, HeadToType
<1>8. CASE HeadTeardown
  BY <1>8, <1>h, HeadToType DEF HeadTeardown, HeadVars, ClientVars, SlurmType
<1>9. CASE HeadRecordsFailure
  BY <1>9, <1>h, HeadToType DEF HeadRecordsFailure, HeadVars, ClientVars, SlurmType
<1>10. CASE HeadLaunches
  BY <1>10, <1>h, HeadToType DEF HeadLaunches, HeadVars, ClientVars, SlurmType
<1> QED
  BY <1>1, <1>2, <1>3, <1>4, <1>5, <1>6, <1>7, <1>8, <1>9, <1>10 DEF Supervise

\* Cleanup's steps (_run_cleanup).
LEMMA CleanupTypes ==
  ASSUME TypeInv, Cleanup
  PROVE  /\ SlurmType' /\ HeadType' /\ publishedBy' \in Publisher
         /\ UNCHANGED ClientVars
         /\ head'.pc \in {"snapshot", "cancel", "drain", "finalize", "over"}
<1> /\ SlurmType /\ HeadType /\ publishedBy \in Publisher
    /\ LaneJobs(manifest) \subseteq LaneJob
  BY DEF TypeInv, TypeOK, SlurmType, HeadType, LaneJobs, Manifest, Lane
<1> USE DEF HeadType
<1>h. {"snapshot", "cancel", "drain", "finalize", "over"} \subseteq HeadStep
  BY DEF HeadStep
<1>1. CASE CleanupFence
  BY <1>1, <1>h, HeadToType DEF CleanupFence, HeadVars, ClientVars, SlurmType
<1>2. CASE CleanupSnapshot
  BY <1>2, <1>h DEF CleanupSnapshot, HeadVars, ClientVars, SlurmType
<1>3. CASE CleanupCancel
  BY <1>3, <1>h, HeadToType, ScancelType
     DEF CleanupCancel, HeadVars, ClientVars, SlurmType
<1>4. CASE CleanupDrained
  BY <1>4, <1>h, HeadToType DEF CleanupDrained, HeadVars, ClientVars, SlurmType
<1>5. CASE CleanupTimesOut
  BY <1>5, <1>h, HeadToType DEF CleanupTimesOut, HeadVars, ClientVars, SlurmType
<1>6. CASE CleanupPublishes
  BY <1>6, <1>h, HeadToType
     DEF CleanupPublishes, Publish, Publisher, HeadVars, ClientVars, SlurmType
<1> QED
  BY <1>1, <1>2, <1>3, <1>4, <1>5, <1>6 DEF Cleanup

\* What Slurm and failing processes do.
LEMMA EnvironmentTypes ==
  ASSUME TypeInv, Environment
  PROVE  /\ SlurmType' /\ HeadType' /\ publishedBy' \in Publisher
         /\ UNCHANGED ClientVars
         /\ \/ head' = head
            \/ head'.pc \in {"waiting", "fence", "over"} /\ head'.lanes = head.lanes
<1> /\ SlurmType /\ HeadType /\ publishedBy \in Publisher /\ HeadJob \in Job
    /\ LaneJob \subseteq Job
  BY DEF TypeInv, TypeOK, SlurmType, HeadType, Job
<1> USE DEF HeadType, DriverState
<1>h. {"waiting", "fence", "over"} \subseteq HeadStep
  BY DEF HeadStep
<1>s. \A j \in Job, state \in JobState : [slurm EXCEPT ![j] = state] \in [Job -> JobState]
  BY DEF SlurmType
<1>j. {"PENDING", "RUNNING", "COMPLETING", "gone"} \subseteq JobState
  BY DEF JobState
<1>1. CASE HeadStarts
  BY <1>1, <1>h, <1>s, <1>j, HeadToType DEF HeadStarts, HeadVars, ClientVars, SlurmType
<1>2. CASE DriverExits
  BY <1>2 DEF DriverExits, HeadVars, ClientVars, SlurmType
<1>3. CASE SupervisorDies
  BY <1>3, <1>h, HeadToType DEF SupervisorDies, HeadVars, ClientVars, SlurmType
<1>4. CASE HeadEnds \/ HeadSignaled
  BY <1>4, <1>s, <1>j DEF HeadEnds, HeadSignaled, HeadVars, ClientVars, SlurmType
<1>5. CASE HeadKilled
  BY <1>5, <1>h, <1>s, <1>j, HeadToType DEF HeadKilled, HeadVars, ClientVars, SlurmType
<1>6. CASE \E j \in LaneJob : LaneStarts(j) \/ LaneRequeued(j) \/ LaneEnds(j)
  BY <1>6, <1>s, <1>j DEF LaneStarts, LaneRequeued, LaneEnds, LaneVars, ClientVars,
     SlurmType
<1> QED
  BY <1>1, <1>2, <1>3, <1>4, <1>5, <1>6 DEF Environment

-----------------------------------------------------------------------------
ScaleType ==
  /\ scale \in [Scaler -> OneScale]
  /\ \A c \in Scaler :
       /\ IsFiniteSet(scale[c].lanes)
       /\ scale[c].pc \in {"sbatch", "append-lane"} => scale[c].todo > 0

StopType == stop \in [Stopper -> OneStop]

ManifestType ==
  manifest \in Manifest /\ IsFiniteSet(manifest.lanes) /\ Sealed(manifest)

\* The type invariant, actor by actor.
LEMMA TypeInvParts ==
  TypeInv <=> /\ ManifestType /\ SlurmType /\ SubmitType /\ ScaleType /\ StopType
              /\ StatusType /\ HeadType /\ publishedBy \in Publisher
              /\ ExitUnrecorded
BY DEF TypeInv, TypeOK, Finite, LanesToAdd, ManifestType, SlurmType, SubmitType,
       OneSubmit, ScaleType, OneScale, StopType, OneStop, StatusType, HeadType

\* And after a step.
LEMMA TypeInvNext ==
  ASSUME ManifestType', SlurmType', SubmitType', ScaleType', StopType',
         StatusType', HeadType', (publishedBy \in Publisher)', ExitUnrecorded'
  PROVE  TypeInv'
BY DEF TypeInv, TypeOK, Finite, LanesToAdd, ManifestType, SlurmType, SubmitType,
       OneSubmit, ScaleType, OneScale, StopType, OneStop, StatusType, HeadType

\* A scale command's new record keeps all of them in their type.
LEMMA ScaleToType ==
  ASSUME ScaleType, NEW c \in Scaler, NEW r \in OneScale, IsFiniteSet(r.lanes),
         r.pc \in {"sbatch", "append-lane"} => r.todo > 0, ScaleTo(c, r)
  PROVE  ScaleType'
<1>1. scale' \in [Scaler -> OneScale]
  BY DEF ScaleType, ScaleTo
<1>2. \A d \in Scaler : scale'[d] = IF d = c THEN r ELSE scale[d]
  BY DEF ScaleType, ScaleTo
<1> QED
  BY <1>1, <1>2 DEF ScaleType

\* The type invariant holds of the directory the launcher uploads.
LEMMA TypeInit == ASSUME Init PROVE TypeInv
<1>1. ManifestType /\ manifest.exit = "none"
  BY FS_EmptySet
     DEF Init, ManifestType, NewManifest, Manifest, RunState, ExitStatus, ErrorKind,
         Sealed, Unfinished
<1>2. SlurmType
  BY DEF Init, SlurmType, Job, JobState
<1>3. SubmitType
  BY DEF Init, SubmitType, OneSubmit, SubmitStep
<1>4. ScaleType
  <2>1. NewScale \in OneScale /\ NewScale.lanes = {} /\ NewScale.pc = "idle"
    BY DEF NewScale, OneScale, ScaleStep
  <2> HIDE DEF NewScale
  <2> QED
    BY <2>1, FS_EmptySet DEF Init, ScaleType
<1>5. StopType
  <2>1. NewStop \in OneStop
    BY DEF NewStop, OneStop, StopStep
  <2> QED
    BY <2>1 DEF Init, StopType
<1>6. StatusType
  BY DEF Init, StatusType, NewStatus
<1>7. HeadType /\ publishedBy \in Publisher /\ head.pc = "none"
  BY DEF Init, HeadType, HeadStep, DriverState, Publisher
<1> QED
  BY <1>1, <1>2, <1>3, <1>4, <1>5, <1>6, <1>7, TypeInvParts DEF ExitUnrecorded

\* Every step of every actor keeps it.
LEMMA TypeStep == ASSUME TypeInv, [Next]_vars PROVE TypeInv'
<1>p. /\ ManifestType /\ SlurmType /\ SubmitType /\ ScaleType /\ StopType
      /\ StatusType /\ HeadType /\ publishedBy \in Publisher
  BY TypeInvParts
<1>s. ManifestStep /\ (QuietStep \/ head'.pc = "teardown")
  BY StepMutates
<1>m. ManifestType'
  BY <1>s, ManifestStepType DEF ManifestType
<1>q. QuietStep => manifest'.exit = manifest.exit
  <2>1. ASSUME NEW n, Quiet(manifest, n), manifest' = Published(manifest, n)
        PROVE  manifest'.exit = manifest.exit
    <3>1. n \in Manifest /\ n.revision = manifest.revision
      BY <1>p, <2>1, MutationType DEF ManifestType, Mutation
    <3> QED
      BY <1>p, <2>1, <3>1, PublishedType, QuietExit DEF ManifestType
  <2> QED
    BY <2>1 DEF QuietStep
<1>e. ASSUME head'.pc \in {"launching", "driving"} =>
               \/ head.pc \in {"launching", "driving"}
               \/ manifest.state \in Unfinished
      PROVE  ExitUnrecorded'
  <2> SUFFICES ASSUME head'.pc \in {"launching", "driving"}
               PROVE  manifest'.exit = "none"
    BY DEF ExitUnrecorded
  <2>1. manifest.exit = "none"
    BY <1>e, <1>p DEF TypeInv, ExitUnrecorded, ManifestType, Sealed
  <2> QED
    BY <1>s, <1>q, <2>1
<1>k1. UNCHANGED submit => SubmitType'
  BY <1>p DEF SubmitType
<1>k2. UNCHANGED scale => ScaleType'
  BY <1>p DEF ScaleType
<1>k3. UNCHANGED stop => StopType'
  BY <1>p DEF StopType
<1>k4. UNCHANGED status => StatusType'
  BY <1>p DEF StatusType
<1>k5. UNCHANGED <<head, driver>> => HeadType'
  BY <1>p DEF HeadType
<1>1. CASE Submit
  <2>1. UNCHANGED SubmitVars
    BY <1>1 DEF Submit, SubmitHead, SubmitHeadRaises, SubmitRecordHead, SubmitLane,
       SubmitAppend, SubmitFinish, SubmitRecordFailure, SubmitCancel, SubmitFinalize
  <2> QED
    BY <1>1, <2>1, <1>k2, <1>k3, <1>k4, <1>k5, <1>e, <1>m, SubmitTypes, TypeInvNext
       DEF SubmitVars
<1>2. ASSUME NEW c \in Scaler, Scale(c) PROVE TypeInv'
  <2>1. /\ SlurmType' /\ UNCHANGED ScaleVars
        /\ \E r \in OneScale :
              /\ IsFiniteSet(r.lanes) /\ ScaleTo(c, r)
              /\ r.pc \in {"sbatch", "append-lane"} => r.todo > 0
    BY <1>2, ScaleTypes
  <2>2. ScaleType'
    BY <1>p, <2>1, ScaleToType
  <2> QED
    BY <1>p, <2>1, <2>2, <1>k1, <1>k3, <1>k4, <1>k5, <1>e, <1>m, TypeInvNext
       DEF ScaleVars
<1>3. ASSUME NEW c \in Stopper, Stop(c) PROVE TypeInv'
  <2>1. /\ SlurmType' /\ UNCHANGED StopVars /\ publishedBy' \in Publisher
        /\ \E r \in OneStop : StopTo(c, r)
    BY <1>3, StopTypes
  <2>2. StopType'
    BY <1>p, <2>1 DEF StopType, StopTo
  <2> QED
    BY <1>p, <2>1, <2>2, <1>k1, <1>k2, <1>k4, <1>k5, <1>e, <1>m, TypeInvNext
       DEF StopVars
<1>4. CASE Status
  <2>1. StatusType' /\ UNCHANGED StatusVars /\ publishedBy' \in Publisher
    BY <1>4, StatusTypes
  <2>2. SlurmType'
    BY <1>p, <2>1 DEF StatusVars, SlurmType
  <2> QED
    BY <2>1, <2>2, <1>k1, <1>k2, <1>k3, <1>k5, <1>e, <1>m, TypeInvNext
       DEF StatusVars
<1>5. CASE Supervise
  BY <1>5, <1>k1, <1>k2, <1>k3, <1>k4, <1>e, <1>m, SuperviseTypes, TypeInvNext
     DEF ClientVars
<1>6. CASE Cleanup
  BY <1>6, <1>k1, <1>k2, <1>k3, <1>k4, <1>e, <1>m, CleanupTypes, TypeInvNext
     DEF ClientVars
<1>7. CASE Environment
  BY <1>7, <1>k1, <1>k2, <1>k3, <1>k4, <1>e, <1>m, EnvironmentTypes, TypeInvNext
     DEF ClientVars
<1>8. CASE UNCHANGED vars
  <2>1. SlurmType' /\ publishedBy' \in Publisher
    BY <1>8, <1>p DEF vars, SlurmType
  <2> QED
    BY <1>8, <2>1, <1>k1, <1>k2, <1>k3, <1>k4, <1>k5, <1>e, <1>m, TypeInvNext DEF vars
<1> QED
  BY <1>1, <1>2, <1>3, <1>4, <1>5, <1>6, <1>7, <1>8 DEF Next, Environment

\* Every state a run reaches is well typed: whatever the interleaving of the
\* commands, the head and Slurm, the manifest on disk and what each of them
\* remembers of it are values the code reads back (SlurmRayRunManifest and its
\* validation on every mutation).
THEOREM TypeCorrect == Spec => []TypeOK
<1>1. TypeInv => TypeOK
  BY DEF TypeInv
<1> QED
  BY <1>1, TypeInit, TypeStep, PTL DEF Spec

-----------------------------------------------------------------------------
(***************************************************************************)
(* The manifest implements the lifecycle its readers rely on.              *)
(***************************************************************************)
Phase(m) == IF m.state \in Terminal THEN "over" ELSE m.state

\* A later reason to end never yields a milder verdict.
LEMMA EndsWorsens ==
  ASSUME NEW m \in Manifest, NEW n \in Manifest, Sealed(m), Sealed(n), Ends(m, n),
         m.state \notin Terminal
  PROVE  /\ n.state = "STOPPING" /\ n.lanes = m.lanes
         /\ ExpectedTerminal(n) \in Lifecycle!Verdict
         /\ \/ m.state = "STOPPING" /\ ExpectedTerminal(n) = ExpectedTerminal(m)
            \/ Lifecycle!Severity(ExpectedTerminal(n))
                 > Lifecycle!Severity(ExpectedTerminal(m))
<1>1. /\ n.state = "STOPPING" /\ n.lanes = m.lanes
      /\ m.stop => n.stop
      /\ m.error # "none" => n.error # "none"
      /\ n = m \/ n.stop \/ n.error # "none" \/ (m.exit = "none" /\ n.exit # "none")
  BY EndsShape
<1>2. /\ ExpectedTerminal(n) \in Lifecycle!Verdict
      /\ ExpectedTerminal(n) =
           IF n.stop THEN "STOPPED" ELSE IF n.error # "none" THEN "FAILED"
           ELSE IF n.exit = "zero" THEN "SUCCEEDED"
           ELSE IF n.exit = "nonzero" THEN "FAILED" ELSE "none"
  BY <1>1, ExpectedTerminalType DEF Sealed, Lifecycle!Verdict, Terminal
<1>3. CASE m.state \in Unfinished
  <2>1. ExpectedTerminal(m) = "none"
    BY <1>3, ExpectedTerminalType
  <2> QED
    BY <1>1, <1>2, <2>1 DEF Lifecycle!Severity, Lifecycle!Verdict
<1>4. CASE m.state = "STOPPING"
  <2>1. /\ ExpectedTerminal(m) # "none"
        /\ ExpectedTerminal(m) =
             IF m.stop THEN "STOPPED" ELSE IF m.error # "none" THEN "FAILED"
             ELSE IF m.exit = "zero" THEN "SUCCEEDED"
             ELSE IF m.exit = "nonzero" THEN "FAILED" ELSE "none"
    BY <1>4, ExpectedTerminalType DEF Sealed
  <2> QED
    BY <1>1, <1>2, <1>4, <2>1 DEF Lifecycle!Severity
<1> QED
  BY <1>3, <1>4 DEF Manifest, RunState, Unfinished

\* Finalizing publishes the verdict the run had, or FAILED when it had none.
LEMMA FinalizeSettles ==
  ASSUME NEW m \in Manifest, NEW n, Finalizes(m, n), m.state \notin Terminal
  PROVE  /\ n.state \in Terminal /\ n.lanes = m.lanes
         /\ ExpectedTerminal(n) = n.state
         /\ \/ m.state = "STOPPING" /\ n.state = ExpectedTerminal(m)
            \/ m.state = "STOPPING" /\ ExpectedTerminal(m) = "none"
            \/ m.state \in Unfinished /\ n.state = "FAILED"
<1>1. n \in Manifest
  BY MutationType DEF Mutation, Quiet
<1>2. CASE ExpectedTerminal(m) # "none"
  <2>1. n = [m EXCEPT !.state = ExpectedTerminal(m)] /\ m.state = "STOPPING"
    BY <1>2, ExpectedTerminalType
       DEF Finalizes, Finalize, Moved, Manifest, RunState, Unfinished
  <2>2. n.state = ExpectedTerminal(m) /\ n.lanes = m.lanes
    BY <2>1 DEF Manifest
  <2> QED
    BY <1>1, <1>2, <2>1, <2>2, ExpectedTerminalType
<1>3. CASE ExpectedTerminal(m) = "none"
  <2>1. PICK f \in ErrorKind : n = [m EXCEPT !.error = f, !.state = "FAILED"]
    BY <1>3 DEF Finalizes, Finalize, Moved, Manifest
  <2>2. n.state = "FAILED" /\ n.lanes = m.lanes
    BY <2>1 DEF Manifest
  <2> QED
    BY <1>1, <1>3, <2>2, ExpectedTerminalType
       DEF Terminal, Manifest, RunState, Unfinished
<1> QED
  BY <1>2, <1>3

\* Publishing a mutation changes nothing readers look at but what it mutated.
LEMMA PublishedReads ==
  ASSUME NEW m \in Manifest, NEW n \in Manifest, n.revision = m.revision
  PROVE  /\ Phase(Published(m, n)) = Phase(n)
         /\ Published(m, n).lanes = n.lanes
         /\ ExpectedTerminal(Published(m, n)) = ExpectedTerminal(n)
<1> DEFINE p == Published(m, n)
<1>1. /\ p \in Manifest /\ p.state = n.state /\ p.lanes = n.lanes
      /\ p.stop = n.stop /\ p.exit = n.exit /\ p.error = n.error
  BY PublishedType
<1> HIDE DEF p
<1>2. n.state \in Unfinished \cup {"STOPPING"} \cup Terminal
  BY DEF Manifest, RunState, Unfinished
<1>3. ExpectedTerminal(p) = ExpectedTerminal(n)
  BY <1>1, <1>2, ExpectedTerminalType
<1> QED
  BY <1>1, <1>3 DEF Phase, p

\* One published mutation is one step of the lifecycle, or none.
LEMMA LifecycleStep ==
  ASSUME TypeInv, [Next]_vars
  PROVE  [Lifecycle!Next]_Lifecycle!vars
<1> USE DEF Phase
<1>m. manifest \in Manifest /\ Sealed(manifest)
  BY DEF TypeInv, TypeOK
<1>1. CASE manifest' = manifest
  BY <1>1 DEF Lifecycle!vars
<1>2. ASSUME NEW n, Mutation(manifest, n), manifest' = Published(manifest, n)
      PROVE  [Lifecycle!Next]_Lifecycle!vars
  <2>n. n \in Manifest /\ n.revision = manifest.revision /\ Sealed(n)
    BY <1>2, <1>m, MutationType, MutationSealed
  <2>r. /\ Phase(manifest') = Phase(n) /\ manifest'.lanes = n.lanes
        /\ ExpectedTerminal(manifest') = ExpectedTerminal(n)
    BY <1>2, <1>m, <2>n, PublishedReads
  <2>1. CASE n = RecordHead(manifest)
    BY <1>m, <2>1, <2>r DEF RecordHead, Manifest, ExpectedTerminal, Lifecycle!vars
  <2>2. CASE n = FinishSubmission(manifest)
    BY <1>m, <2>2, <2>n, <2>r, ExpectedTerminalType
       DEF FinishSubmission, Moved, Manifest, Unfinished, Terminal,
           Lifecycle!vars, Lifecycle!Next, Lifecycle!Submitted
  <2>3. CASE n = Activate(manifest)
    BY <1>m, <2>3, <2>n, <2>r, ExpectedTerminalType
       DEF Activate, Moved, Manifest, Unfinished, Terminal,
           Lifecycle!vars, Lifecycle!Next, Lifecycle!Drive
  <2>4. CASE Enrolls(manifest, n)
    <3>1. PICK l \in Lane : ~AppendRefused(manifest, l) /\ n = AppendLane(manifest, l)
      BY <2>4 DEF Enrolls
    <3>2. /\ n.lanes = manifest.lanes \cup {l} /\ Phase(n) = Phase(manifest)
          /\ ExpectedTerminal(n) = ExpectedTerminal(manifest)
      BY <1>m, <3>1 DEF AppendLane, Manifest, ExpectedTerminal
    <3>3. manifest.state \in Unfinished
      BY <1>m, <3>1 DEF AppendRefused, Manifest, RunState, Unfinished
    <3>4. CASE l \in manifest.lanes
      BY <3>2, <3>4, <2>r DEF Lifecycle!vars
    <3>5. CASE l \notin manifest.lanes
      <4>1. \A k \in manifest.lanes : k.lane # l.lane /\ k.job # l.job
        BY <3>1, <3>5 DEF AppendRefused
      <4>2. Lifecycle!Enroll
        BY <3>2, <3>3, <4>1, <2>r DEF Lifecycle!Enroll, Lifecycle!Open, Unfinished,
           Terminal
      <4> QED
        BY <4>2 DEF Lifecycle!Next
    <3> QED
      BY <3>4, <3>5
  <2>5. CASE Ends(manifest, n)
    <3>1. CASE manifest.state \in Terminal
      BY <1>m, <2>5, <2>r, <3>1, EndsShape DEF Lifecycle!vars
    <3>2. CASE manifest.state \notin Terminal
      <4>1. /\ n.state = "STOPPING" /\ n.lanes = manifest.lanes
            /\ ExpectedTerminal(n) \in Lifecycle!Verdict
            /\ \/ /\ manifest.state = "STOPPING"
                  /\ ExpectedTerminal(n) = ExpectedTerminal(manifest)
               \/ Lifecycle!Severity(ExpectedTerminal(n))
                    > Lifecycle!Severity(ExpectedTerminal(manifest))
        BY <1>m, <2>5, <2>n, <3>2, EndsWorsens
      <4>2. Phase(n) = "STOPPING" /\ Phase(manifest) \in Lifecycle!Open \cup {"STOPPING"}
        BY <1>m, <3>2, <4>1 DEF Terminal, Manifest, RunState, Lifecycle!Open
      <4>3. CASE manifest.state = "STOPPING"
                   /\ ExpectedTerminal(n) = ExpectedTerminal(manifest)
        BY <2>r, <3>2, <4>1, <4>2, <4>3 DEF Lifecycle!vars
      <4>4. CASE Lifecycle!Severity(ExpectedTerminal(n))
                   > Lifecycle!Severity(ExpectedTerminal(manifest))
        <5>1. Lifecycle!Doom(ExpectedTerminal(n))
          BY <2>r, <4>1, <4>2, <4>4 DEF Lifecycle!Doom
        <5> QED
          BY <4>1, <5>1 DEF Lifecycle!Next
      <4> QED
        BY <4>1, <4>3, <4>4
    <3> QED
      BY <3>1, <3>2
  <2>6. CASE Finalizes(manifest, n)
    <3>1. CASE manifest.state \in Terminal
      BY <2>6, <2>r, <3>1 DEF Finalizes, Finalize, Lifecycle!vars
    <3>2. CASE manifest.state \notin Terminal
      <4>1. /\ n.state \in Terminal /\ n.lanes = manifest.lanes
            /\ ExpectedTerminal(n) = n.state
            /\ \/ manifest.state = "STOPPING" /\ n.state = ExpectedTerminal(manifest)
               \/ manifest.state \in Unfinished /\ n.state = "FAILED"
        BY <1>m, <2>6, <3>2, FinalizeSettles DEF Sealed
      <4>2. Phase(manifest') = "over" /\ Phase(manifest) = manifest.state
        BY <2>r, <3>2, <4>1
      <4>3. Lifecycle!Settle \/ Lifecycle!Abandon
        BY <2>r, <4>1, <4>2 DEF Lifecycle!Settle, Lifecycle!Abandon, Lifecycle!Open,
           Unfinished
      <4> QED
        BY <4>3 DEF Lifecycle!Next
    <3> QED
      BY <3>1, <3>2
  <2> QED
    BY <1>2, <2>1, <2>2, <2>3, <2>4, <2>5, <2>6 DEF Mutation, Quiet, Ends
<1> QED
  BY <1>1, <1>2, StepMutates DEF ManifestStep

\* Whoever writes the manifest and in whatever order, its readers see lanes
\* enrolled only while the run is open and never under a used number or job, a
\* verdict that only gets worse, and a terminal state that is final
\* (the mutators of slurm_ray_state.py under mutate_manifest).
THEOREM Refinement == Spec => ImplementsLifecycle
<1>1. Init => Lifecycle!Init
  BY DEF Init, NewManifest, Lifecycle!Init, ExpectedTerminal, Terminal, RunState
<1> QED
  BY <1>1, TypeInit, TypeStep, LifecycleStep, PTL
     DEF Spec, ImplementsLifecycle, Lifecycle!Spec
=============================================================================
