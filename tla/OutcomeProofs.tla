---------------------------- MODULE OutcomeProofs ----------------------------
(***************************************************************************)
(* The outcome a managed run is given is the one it earned, and nobody     *)
(* tells it while Ray is up, for any number of lanes and commands and      *)
(* every fault.                                                            *)
(***************************************************************************)
EXTENDS ManagedRunProofs

-----------------------------------------------------------------------------
(***************************************************************************)
(* The inductive invariant, one part per actor an outcome depends on.      *)
(***************************************************************************)
\* The lanes numbered below n are recorded in manifest m.
Enlisted(m, n) == \A k \in 0..(n - 1) : \E l \in m.lanes : l.lane = k

\* Everything submission set out to record is there.
Complete == manifest.head /\ Enlisted(manifest, InitialLanes)

\* How far the launcher has come is what the manifest says.
Launching ==
  /\ submit.pc = "head" => slurm[HeadJob] = "free" /\ ~manifest.head
  /\ submit.pc \in {"head", "record-head"} => submit.lane = 0
  /\ submit.pc \in {"record-head", "lane", "append-lane", "finish"} =>
       HeadJob \in submit.submitted
  /\ submit.pc \in {"lane", "append-lane", "finish"} =>
       manifest.head /\ Enlisted(manifest, submit.lane)
  /\ submit.pc = "finish" => submit.lane >= InitialLanes
  /\ \/ submit.pc = "finalize"
     \/ submit.pc = "record-failure" /\ submit.submitted = {}
     => ~manifest.head

\* A run that is still open has no reason to end.
Open ==
  /\ manifest.state \in Unfinished => ~manifest.stop /\ manifest.error = "none"
  /\ manifest.state \in {"STARTING", "ACTIVE"} => Complete

\* The supervisor lives inside its job, and goes no further than the manifest
\* it was answered with lets it.
Heading ==
  /\ slurm[HeadJob] \in {"free", "PENDING"} => head.pc = "none"
  /\ slurm[HeadJob] = "gone" => head.pc \in {"none", "over"}
  /\ head.pc \in {"starting", "launching", "driving", "teardown"} => manifest.head
  /\ head.pc \in {"launching", "driving"} => Complete
  /\ driver = "running" => head.pc = "driving"
  /\ manifest.exit # "none" =>
       head.pc \notin {"none", "waiting", "starting", "launching", "driving"}

\* What the verdict is read from is what happened.
Earned ==
  /\ manifest.exit = "zero" => driver = "zero" /\ Complete
  /\ manifest.state = "SUCCEEDED" => ~manifest.stop /\ manifest.exit = "zero"
  /\ manifest.state = "STOPPED" => manifest.stop
  /\ manifest.stop => \E c \in Stopper : stop[c].pc # "idle"

\* Whoever publishes saw the head's processes gone, or never submitted them.
Told ==
  /\ status.pc # "idle" /\ status.head => manifest.head
  /\ status.pc = "finalize" => manifest.head /\ ~Live(HeadJob)
  /\ publishedBy # "nobody" => manifest.state \in Terminal
  /\ RayDownBeforePublished

\* A driver that started, or is about to, does so in a run that was activated;
\* a stop on record before the activation keeps the run from it.
Heeded ==
  /\ head.pc \in {"launching", "driving"} \/ driver # "none" =>
       Complete /\ manifest.state \notin {"SUBMITTING", "STARTING"}
  /\ \A c \in Stopper : stop[c].early =>
       /\ manifest.state \notin Unfinished
       /\ head.pc \notin {"launching", "driving"} /\ driver = "none"

OutcomeInv == Launching /\ Open /\ Heading /\ Earned /\ Told /\ Heeded

-----------------------------------------------------------------------------
(***************************************************************************)
(* The manifest's side of a step, with who may have written it.            *)
(***************************************************************************)
\* Mutation n of the manifest, by whoever is entitled to it.
Caused(n) ==
  \/ submit.pc = "record-head" /\ n = RecordHead(manifest)
  \/ /\ submit.pc = "finish" /\ submit'.pc # "finish"
     /\ n = FinishSubmission(manifest)
  \/ head.pc = "starting" /\ n = Activate(manifest)
  \/ Enrolls(manifest, n)
  \/ (\E c \in Stopper : stop[c].pc = "request-stop") /\ n = RequestStop(manifest)
  \/ n = BeginTeardown(manifest, "exited")
  \/ \E e \in {"submission", "head"} : n = RecordFailure(manifest, e)
  \/ Finalizes(manifest, n)
  \/ /\ head.pc = "driving" /\ head'.pc = "teardown"
     /\ driver' \in {"zero", "nonzero"}
     /\ n \in {RecordDriverExit(manifest, driver'),
               RecordFailureWithExit(manifest, "ray", driver')}

CausedStep ==
  \/ manifest' = manifest
  \/ \E n : Caused(n) /\ manifest' = Published(manifest, n)

\* A cause that publishes, or raises, is a caused step.
LEMMA CauseRaises ==
  ASSUME NEW n, Caused(n), Mutate(n) \/ \E who : MutateRaises(who, n)
  PROVE  CausedStep
BY DEF Mutate, MutateRaises, CausedStep

\* Every writer keeps to its own mutations (_submit_jobs, _add_lane,
\* stop_slurm_ray_run, _reconcile_terminal_state, _supervise_head, _run_cleanup).
LEMMA StepCaused ==
  ASSUME TypeInv, [Next]_vars
  PROVE  CausedStep
<1> /\ submit.lane \in Nat /\ submit.held \subseteq LaneJob
    /\ \A c \in Scaler : scale[c].lane \in Nat /\ scale[c].held \subseteq LaneJob
    /\ head \in [pc: HeadStep, lanes: SUBSET LaneJob]
  BY DEF TypeInv, TypeOK
<1>1. CASE SubmitRecordHead
  <2>1. Caused(RecordHead(manifest))
    BY <1>1 DEF SubmitRecordHead, Caused
  <2> QED
    BY <1>1, <2>1, CauseRaises DEF SubmitRecordHead
<1>2. CASE SubmitFinish
  <2>1. submit.pc = "finish" /\ submit'.pc # "finish"
    BY <1>2, TypeInvParts DEF SubmitFinish, SubmitType, OneSubmit
  <2>2. Caused(FinishSubmission(manifest))
    BY <2>1 DEF Caused
  <2> QED
    BY <1>2, <2>2, CauseRaises DEF SubmitFinish
<1>3. ASSUME NEW l \in Lane,
             \/ manifest' = manifest
             \/ /\ ~AppendRefused(manifest, l)
                /\ \/ Mutate(AppendLane(manifest, l))
                   \/ \E who : MutateRaises(who, AppendLane(manifest, l))
      PROVE  CausedStep
  <2>1. ~AppendRefused(manifest, l) => Caused(AppendLane(manifest, l))
    BY DEF Caused, Enrolls
  <2> QED
    BY <1>3, <2>1, CauseRaises DEF CausedStep
<1>4. CASE SubmitAppend
  <2>1. PICK j \in submit.held :
          LET l == [lane |-> submit.lane, job |-> j, at |-> Launcher] IN
          \/ manifest' = manifest
          \/ /\ ~AppendRefused(manifest, l)
             /\ \/ Mutate(AppendLane(manifest, l))
                \/ MutateRaises("submit", AppendLane(manifest, l))
    BY <1>4 DEF SubmitAppend
  <2>2. [lane |-> submit.lane, job |-> j, at |-> Launcher] \in Lane
    BY DEF Lane
  <2> QED
    BY <2>1, <2>2, <1>3
<1>5. ASSUME NEW c \in Scaler, ScaleAppend(c) PROVE CausedStep
  <2>1. PICK j \in scale[c].held :
          LET l == [lane |-> scale[c].lane, job |-> j, at |-> c] IN
          \/ manifest' = manifest
          \/ /\ ~AppendRefused(manifest, l)
             /\ \/ Mutate(AppendLane(manifest, l))
                \/ MutateRaises("scale", AppendLane(manifest, l))
    BY <1>5 DEF ScaleAppend
  <2>2. [lane |-> scale[c].lane, job |-> j, at |-> c] \in Lane
    BY DEF Lane
  <2> QED
    BY <2>1, <2>2, <1>3
<1>6. ASSUME NEW c \in Stopper, StopRequest(c) PROVE CausedStep
  <2>1. Caused(RequestStop(manifest))
    BY <1>6 DEF StopRequest, Caused
  <2> QED
    BY <1>6, <2>1, CauseRaises DEF StopRequest
<1>7. \A e \in {"submission", "head"} : Caused(RecordFailure(manifest, e))
  BY DEF Caused
<1>8. CASE SubmitRecordFailure \/ HeadRecordsFailure
  BY <1>7, <1>8, CauseRaises DEF SubmitRecordFailure, HeadRecordsFailure, CausedStep
<1>9. CASE CleanupFence
  BY <1>9 DEF CleanupFence, Mutate, Caused, CausedStep
<1>10. ASSUME NEW who, NEW f \in ErrorKind, ~FinalizeRefused(manifest, f),
              Publish(who, f)
       PROVE  CausedStep
  BY <1>10 DEF Publish, Mutate, Caused, Finalizes, CausedStep
<1>11. CASE SubmitFinalize \/ StatusPublishes \/ CleanupPublishes
           \/ \E c \in Stopper : StopFinalize(c)
  <2>1. /\ {"none", "reconciled", "exited"} \subseteq ErrorKind
        /\ ~FinalizeRefused(manifest, "reconciled")
        /\ ~FinalizeRefused(manifest, "exited")
    BY DEF ErrorKind, FinalizeRefused
  <2> QED
    BY <1>10, <1>11, <2>1
       DEF SubmitFinalize, StatusPublishes, CleanupPublishes, StopFinalize, CausedStep
<1>12. CASE HeadActivates
  <2>1. Caused(Activate(manifest))
    BY <1>12 DEF HeadActivates, Caused
  <2> QED
    BY <1>12, <2>1, CauseRaises DEF HeadActivates, HeadWrites, CausedStep
<1>13. CASE HeadRecordsExit
  <2>1. CASE manifest' = manifest
    BY <2>1 DEF CausedStep
  <2>2. CASE Mutate(RecordDriverExit(manifest, driver)) /\ HeadTo("teardown")
    <3>1. Caused(RecordDriverExit(manifest, driver))
      BY <1>13, <2>2 DEF HeadRecordsExit, HeadTo, Caused
    <3> QED
      BY <2>2, <3>1, CauseRaises
  <2> QED
    BY <1>13, <2>1, <2>2 DEF HeadRecordsExit, HeadWrites
<1>14. CASE HeadLosesRay
  <2>1. CASE manifest' = manifest
    BY <2>1 DEF CausedStep
  <2>2. CASE Mutate(RecordFailureWithExit(manifest, "ray", driver'))
             /\ HeadTo("teardown")
    <3>1. Caused(RecordFailureWithExit(manifest, "ray", driver'))
      BY <1>14, <2>2 DEF HeadLosesRay, HeadTo, Caused
    <3> QED
      BY <2>2, <3>1, CauseRaises
  <2> QED
    BY <1>14, <2>1, <2>2 DEF HeadLosesRay, HeadWrites
<1>15. CASE Environment \/ UNCHANGED vars
  BY <1>15, EnvironmentMutates DEF vars, CausedStep
<1>16. CASE Submit
  BY <1>16, <1>1, <1>2, <1>4, <1>8, <1>11
     DEF Submit, SubmitHead, SubmitHeadRaises, SubmitLane, SubmitCancel, CausedStep
<1>17. ASSUME NEW c \in Scaler, Scale(c) PROVE CausedStep
  BY <1>17, <1>5 DEF Scale, ScaleOpen, ScaleRefused, ScaleQuery, ScaleSbatch,
                     ScaleRollback, ScaleCancel, CausedStep
<1>18. ASSUME NEW c \in Stopper, Stop(c) PROVE CausedStep
  BY <1>18, <1>6, <1>11 DEF Stop, StopOpen, StopRefused, StopQuery, StopCancelLane,
                            StopCancelHead, CausedStep
<1>19. CASE Status
  BY <1>19, <1>11 DEF Status, StatusOpen, StatusQuery, StatusUnknown, StatusConflict,
                      CausedStep
<1>20. CASE Supervise
  BY <1>20, <1>8, <1>12, <1>13, <1>14
     DEF Supervise, HeadSeesRun, HeadGivesUp, HeadStartFails, HeadStopped,
         HeadLaunches, HeadTeardown, CausedStep
<1>21. CASE Cleanup
  BY <1>21, <1>9, <1>11 DEF Cleanup, CleanupSnapshot, CleanupCancel, CleanupDrained,
                            CleanupTimesOut, CausedStep
<1> QED
  BY <1>15, <1>16, <1>17, <1>18, <1>19, <1>20, <1>21 DEF Next, Environment

\* What a caused mutation may change: records are only added, an open run is
\* sealed once and for all, and each field of the verdict has one cause.
Effect(n) ==
  /\ manifest.head => n.head
  /\ n.head => manifest.head \/ submit.pc = "record-head"
  /\ manifest.lanes \subseteq n.lanes
  /\ n.state \in Unfinished =>
       /\ manifest.state \in Unfinished
       /\ n.stop = manifest.stop /\ n.error = manifest.error
  /\ n.state = "STARTING" =>
       \/ manifest.state = "STARTING"
       \/ submit.pc = "finish" /\ submit'.pc # "finish"
  /\ n.state = "ACTIVE" => manifest.state \in {"STARTING", "ACTIVE"}
  /\ n.state \in {"SUBMITTING", "STARTING"} =>
       manifest.state \in {"SUBMITTING", "STARTING"}
  /\ n.stop => manifest.stop \/ \E c \in Stopper : stop[c].pc = "request-stop"
  /\ \/ n.exit = manifest.exit
     \/ /\ head.pc = "driving" /\ head'.pc = "teardown"
        /\ driver' \in {"zero", "nonzero"} /\ n.exit = driver'
  /\ n.state = "SUCCEEDED" =>
       /\ n.stop = manifest.stop /\ n.exit = manifest.exit
       /\ \/ manifest.state = "SUCCEEDED"
          \/ manifest.state = "STOPPING" /\ ~manifest.stop /\ manifest.exit = "zero"
  /\ n.state = "STOPPED" =>
       /\ n.stop = manifest.stop
       /\ manifest.state = "STOPPED" \/ manifest.stop
  /\ manifest.state \in Terminal => n.state = manifest.state

LEMMA CauseEffect ==
  ASSUME manifest \in Manifest, NEW n, Caused(n)
  PROVE  n \in Manifest /\ n.revision = manifest.revision /\ Effect(n)
<1> DEFINE m == manifest
           S == {"SUBMITTING", "STARTING", "ACTIVE", "STOPPING",
                 "SUCCEEDED", "FAILED", "STOPPED"}
<1>0. /\ m \in Manifest /\ m.state \in S /\ m.stop \in BOOLEAN /\ m.head \in BOOLEAN
      /\ DOMAIN m = {"state", "head", "lanes", "stop", "exit", "error", "revision"}
  BY DEF Manifest, RunState, Terminal
<1>1. CASE submit.pc = "record-head" /\ n = RecordHead(m)
  <2>1. n = [m EXCEPT !.head = TRUE] /\ n \in Manifest
    BY <1>1 DEF RecordHead, Manifest
  <2> QED
    BY <1>0, <1>1, <2>1 DEF Effect, Unfinished, Terminal, Manifest
<1>2. CASE submit.pc = "finish" /\ submit'.pc # "finish" /\ n = FinishSubmission(m)
  <2>1. \/ n = m
        \/ m.state = "SUBMITTING" /\ n = [m EXCEPT !.state = "STARTING"]
    BY <1>2 DEF FinishSubmission, Moved, Terminal
  <2>2. n \in Manifest
    BY <1>0, <2>1 DEF Manifest, RunState
  <2> QED
    BY <1>0, <1>2, <2>1, <2>2 DEF Effect, Unfinished, Terminal, Manifest
<1>3. CASE head.pc = "starting" /\ n = Activate(m)
  <2>1. \/ n = m
        \/ m.state = "STARTING" /\ n = [m EXCEPT !.state = "ACTIVE"]
    BY <1>3 DEF Activate, Moved, Terminal
  <2>2. n \in Manifest
    BY <1>0, <2>1 DEF Manifest, RunState
  <2> QED
    BY <1>0, <2>1, <2>2 DEF Effect, Unfinished, Terminal, Manifest
<1>4. CASE Enrolls(m, n)
  <2>1. PICK l \in Lane : ~AppendRefused(m, l) /\ n = [m EXCEPT !.lanes = @ \cup {l}]
    BY <1>4 DEF Enrolls, AppendLane
  <2>2. n \in Manifest /\ m.state \in Unfinished
    BY <1>0, <2>1 DEF Manifest, AppendRefused, Unfinished, Terminal
  <2> QED
    BY <1>0, <2>1, <2>2 DEF Effect, Unfinished, Terminal, Manifest
<1>5. CASE Finalizes(m, n)
  <2>1. CASE m.state \in Terminal
    <3>1. n = m
      BY <1>5, <2>1 DEF Finalizes, Finalize
    <3> QED
      BY <1>0, <2>1, <3>1 DEF Effect, Unfinished, Terminal
  <2>2. CASE m.state \notin Terminal /\ ExpectedTerminal(m) # "none"
    <3>1. m.state = "STOPPING" /\ n = [m EXCEPT !.state = ExpectedTerminal(m)]
      BY <1>0, <1>5, <2>2, ExpectedTerminalType
         DEF Finalizes, Finalize, Moved, Unfinished, Terminal
    <3>2. /\ ExpectedTerminal(m) \in Terminal
          /\ ExpectedTerminal(m) = "SUCCEEDED" => ~m.stop /\ m.exit = "zero"
          /\ ExpectedTerminal(m) = "STOPPED" => m.stop
      BY <1>0, <2>2, <3>1, ExpectedTerminalType
    <3>3. n \in Manifest /\ n.state = ExpectedTerminal(m)
      BY <1>0, <3>1, <3>2 DEF Manifest, RunState
    <3>4. /\ n.head = m.head /\ n.lanes = m.lanes /\ n.stop = m.stop
          /\ n.exit = m.exit /\ n.revision = m.revision
      BY <1>0, <3>1
    <3> QED
      BY <1>0, <2>2, <3>1, <3>2, <3>3, <3>4 DEF Effect, Unfinished, Terminal
  <2>3. CASE m.state \notin Terminal /\ ExpectedTerminal(m) = "none"
    <3>1. PICK f \in ErrorKind : n = [m EXCEPT !.error = f, !.state = "FAILED"]
      BY <1>0, <1>5, <2>3 DEF Finalizes, Finalize, Moved, Manifest
    <3>2. n \in Manifest
      BY <1>0, <3>1 DEF Manifest, RunState, Terminal
    <3> QED
      BY <1>0, <2>3, <3>1, <3>2 DEF Effect, Unfinished, Terminal
  <2> QED
    BY <2>1, <2>2, <2>3
<1>6. ASSUME Ends(m, n),
             n.stop => m.stop \/ \E c \in Stopper : stop[c].pc = "request-stop",
             \/ n.exit = m.exit
             \/ /\ head.pc = "driving" /\ head'.pc = "teardown"
                /\ driver' \in {"zero", "nonzero"} /\ n.exit = driver'
      PROVE  n \in Manifest /\ n.revision = m.revision /\ Effect(n)
  <2>1. /\ n \in Manifest /\ n.revision = m.revision
        /\ n.lanes = m.lanes /\ n.head = m.head
        /\ m.state \in Terminal => n = m
        /\ m.state \notin Terminal => n.state = "STOPPING"
    BY <1>0, <1>6, EndsShape
  <2>2. CASE m.state \in Terminal
    BY <1>0, <2>1, <2>2 DEF Effect, Unfinished, Terminal
  <2>3. CASE m.state \notin Terminal
    BY <1>0, <1>6, <2>1, <2>3 DEF Effect, Unfinished, Terminal
  <2> QED
    BY <2>1, <2>2, <2>3
<1>7. CASE (\E c \in Stopper : stop[c].pc = "request-stop") /\ n = RequestStop(m)
  <2>1. Ends(m, n) /\ n.exit = m.exit
    BY <1>0, <1>7 DEF Ends, Reasons, RequestStop, Moved, Manifest
  <2> QED
    BY <1>6, <1>7, <2>1
<1>8. CASE \/ n = BeginTeardown(m, "exited")
           \/ \E e \in {"submission", "head"} : n = RecordFailure(m, e)
  <2>1. Ends(m, n) /\ n.exit = m.exit /\ n.stop = m.stop
    BY <1>0, <1>8 DEF Ends, Reasons, BeginTeardown, RecordFailure, Moved, Manifest
  <2> QED
    BY <1>6, <2>1
<1>9. CASE /\ head.pc = "driving" /\ head'.pc = "teardown"
           /\ driver' \in {"zero", "nonzero"}
           /\ n \in {RecordDriverExit(m, driver'),
                     RecordFailureWithExit(m, "ray", driver')}
  <2>1. CASE m.state \in Terminal
    <3>1. n = m
      BY <1>9, <2>1 DEF RecordDriverExit, RecordFailureWithExit
    <3> QED
      BY <1>0, <2>1, <3>1 DEF Effect, Unfinished, Terminal
  <2>2. CASE m.state \notin Terminal
    <3>1. \E e \in ErrorKind :
            n = [m EXCEPT !.error = e, !.exit = driver', !.state = "STOPPING"]
      <4>1. CASE n = RecordDriverExit(m, driver')
        <5>1. n = [m EXCEPT !.error = m.error, !.exit = driver', !.state = "STOPPING"]
          BY <1>0, <2>2, <4>1 DEF RecordDriverExit, Moved, Manifest
        <5> QED
          BY <1>0, <5>1 DEF Manifest
      <4>2. CASE n = RecordFailureWithExit(m, "ray", driver')
        <5>1. n = [m EXCEPT !.error = "ray", !.exit = driver', !.state = "STOPPING"]
          BY <1>0, <2>2, <4>2 DEF RecordFailureWithExit, Moved, Manifest
        <5> QED
          BY <5>1 DEF ErrorKind
      <4> QED
        BY <1>9, <4>1, <4>2
    <3>2. n \in Manifest
      BY <1>0, <1>9, <3>1 DEF Manifest, RunState, ExitStatus
    <3> QED
      BY <1>0, <1>9, <2>2, <3>1, <3>2 DEF Effect, Unfinished, Terminal
  <2> QED
    BY <2>1, <2>2
<1> QED
  BY <1>1, <1>2, <1>3, <1>4, <1>5, <1>7, <1>8, <1>9 DEF Caused

\* A step's effect on the manifest, read off the published record.
LEMMA StepEffect ==
  ASSUME TypeInv, [Next]_vars
  PROVE  Effect(manifest')
<1>1. manifest \in Manifest
  BY DEF TypeInv, TypeOK
<1>2. CASE manifest' = manifest
  <2>1. \A n : n = manifest => Effect(n)
    BY <1>1 DEF Effect, Manifest, Unfinished, Terminal, RunState
  <2> QED
    BY <1>2, <2>1
<1>3. ASSUME NEW n, Caused(n), manifest' = Published(manifest, n)
      PROVE  Effect(manifest')
  <2>1. n \in Manifest /\ n.revision = manifest.revision /\ Effect(n)
    BY <1>1, <1>3, CauseEffect
  <2>2. /\ manifest'.state = n.state /\ manifest'.head = n.head
        /\ manifest'.lanes = n.lanes /\ manifest'.stop = n.stop
        /\ manifest'.exit = n.exit /\ manifest'.error = n.error
    BY <1>1, <1>3, <2>1, PublishedType
  <2> QED
    BY <2>1, <2>2 DEF Effect
<1> QED
  BY <1>2, <1>3, StepCaused DEF CausedStep

-----------------------------------------------------------------------------
(***************************************************************************)
(* The head allocation's side of a step.                                   *)
(***************************************************************************)
\* The head job is handed out once, by the launcher, and never taken back.
HeadJobMoves ==
  \/ slurm'[HeadJob] = slurm[HeadJob]
  \/ submit.pc = "head" /\ submit'.pc # "head" /\ head' = head
  \/ head' = head /\ slurm'[HeadJob] = Canceled(slurm[HeadJob])
  \/ slurm[HeadJob] = "PENDING" /\ slurm'[HeadJob] = "RUNNING"
  \/ head' = head /\ head.pc = "over" /\ slurm'[HeadJob] = "gone"
       /\ slurm[HeadJob] \in {"RUNNING", "COMPLETING"}
  \/ head' = head /\ slurm[HeadJob] = "RUNNING" /\ slurm'[HeadJob] = "COMPLETING"
  \/ head'.pc = "over" /\ slurm'[HeadJob] = "gone"
       /\ slurm[HeadJob] \in {"RUNNING", "COMPLETING"}

\* From where the supervisor and its driver reach each of their steps.
HeadMoves ==
  /\ head'.pc # head.pc /\ head.pc \in {"none", "over"} =>
       \/ slurm'[HeadJob] = "RUNNING" /\ slurm[HeadJob] = "PENDING"
       \/ slurm'[HeadJob] = "gone" /\ head'.pc = "over"
  /\ head'.pc # head.pc => head'.pc # "none"
  /\ head'.pc = "waiting" => head.pc = "waiting" \/ slurm[HeadJob] = "PENDING"
  /\ head'.pc = "starting" =>
       \/ head.pc = "starting"
       \/ head.pc = "waiting" /\ manifest.state = "STARTING" /\ manifest.head
  /\ head'.pc = "launching" =>
       \/ head.pc = "launching"
       \/ /\ head.pc = "starting" /\ manifest.state \in {"STARTING", "ACTIVE"}
          /\ manifest'.state = "ACTIVE"
  /\ head'.pc = "driving" => head.pc \in {"launching", "driving"}
  /\ head'.pc = "teardown" => head.pc \in {"starting", "driving", "teardown"}
  /\ driver' # driver => driver = "running" \/ head.pc = "launching"
  /\ driver' = "running" =>
       \/ head'.pc = "driving"
       \/ /\ driver = "running"
          /\ \/ head'.pc = head.pc \/ head.pc # "driving"
             \/ slurm[HeadJob] = "PENDING"

\* The clients cancel the head job and nothing else of the head allocation.
LEMMA ClientsAndHead ==
  ASSUME TypeInv,
         \/ Submit \/ Status \/ UNCHANGED vars
         \/ \E c \in Scaler : Scale(c)
         \/ \E c \in Stopper : Stop(c)
         \/ \E j \in LaneJob : LaneStarts(j) \/ LaneRequeued(j) \/ LaneEnds(j)
  PROVE  head' = head /\ driver' = driver /\ HeadJobMoves
<1> SlurmType /\ HeadJob \in Job /\ LaneJob \subseteq Job /\ HeadJob \notin LaneJob
  BY TypeInvParts, ManagedRunAssumption DEF Job
<1>a. ASSUME NEW n, NEW j \in LaneJob, Accept(n, j)
      PROVE  slurm'[HeadJob] = slurm[HeadJob]
  BY <1>a DEF Accept, SlurmType
<1>b. ASSUME NEW n, SubmitScriptRaises(n) \/ \E j \in LaneJob : SubmitScript(n, j)
      PROVE  slurm'[HeadJob] = slurm[HeadJob]
  BY <1>a, <1>b DEF SubmitScriptRaises, SubmitScript, SbatchRaises
<1>c. ASSUME NEW J, Scancel(J)
      PROVE  \/ slurm'[HeadJob] = slurm[HeadJob]
             \/ slurm'[HeadJob] = Canceled(slurm[HeadJob])
  BY <1>c DEF Scancel
<1>1. CASE Submit
  <2>1. head' = head /\ driver' = driver
    BY <1>1 DEF SubmitVars, Submit, SubmitHead, SubmitHeadRaises, SubmitRecordHead,
       SubmitLane, SubmitAppend, SubmitFinish, SubmitRecordFailure, SubmitCancel,
       SubmitFinalize
  <2>2. CASE SubmitHead \/ SubmitHeadRaises
    <3>1. submit.pc = "head" /\ submit'.pc # "head"
      BY <2>2, TypeInvParts DEF SubmitHead, SubmitHeadRaises, SubmitType, OneSubmit
    <3> QED
      BY <2>1, <3>1 DEF HeadJobMoves
  <2>3. CASE SubmitLane
    BY <2>1, <2>3, <1>b DEF SubmitLane, HeadJobMoves
  <2>4. CASE SubmitCancel
    BY <2>1, <2>4, <1>c DEF SubmitCancel, HeadJobMoves
  <2> QED
    BY <1>1, <2>1, <2>2, <2>3, <2>4
       DEF Submit, SubmitRecordHead, SubmitAppend, SubmitFinish, SubmitRecordFailure,
           SubmitFinalize, HeadJobMoves
<1>2. ASSUME NEW c \in Scaler, Scale(c)
      PROVE  head' = head /\ driver' = driver /\ HeadJobMoves
  <2>1. head' = head /\ driver' = driver
    BY <1>2, ScaleTypes DEF ScaleVars
  <2>2. CASE ScaleSbatch(c)
    BY <2>1, <2>2, <1>b DEF ScaleSbatch, HeadJobMoves
  <2>3. CASE ~ScaleSbatch(c)
    BY <1>2, <2>1, <2>3, <1>c
       DEF Scale, ScaleOpen, ScaleRefused, ScaleQuery, ScaleAppend, ScaleRollback,
           ScaleCancel, HeadJobMoves
  <2> QED
    BY <2>1, <2>2, <2>3
<1>3. ASSUME NEW c \in Stopper, Stop(c)
      PROVE  head' = head /\ driver' = driver /\ HeadJobMoves
  <2>1. head' = head /\ driver' = driver
    BY <1>3, StopTypes DEF StopVars
  <2> QED
    BY <1>3, <2>1, <1>c
       DEF Stop, StopOpen, StopRefused, StopQuery, StopRequest, StopCancelLane,
           StopCancelHead, StopFinalize, HeadJobMoves
<1>4. CASE Status
  BY <1>4, StatusTypes DEF StatusVars, HeadJobMoves
<1>5. ASSUME NEW j \in LaneJob, LaneStarts(j) \/ LaneRequeued(j) \/ LaneEnds(j)
      PROVE  head' = head /\ driver' = driver /\ HeadJobMoves
  BY <1>5 DEF LaneStarts, LaneRequeued, LaneEnds, LaneVars, SlurmType, HeadJobMoves
<1>6. CASE UNCHANGED vars
  BY <1>6 DEF vars, HeadJobMoves
<1> QED
  BY <1>1, <1>2, <1>3, <1>4, <1>5, <1>6

\* An activation answered with ACTIVE leaves the run active.
LEMMA ActivateAnswers ==
  ASSUME TypeInv, Activate(manifest).state = "ACTIVE",
         manifest' = Published(manifest, Activate(manifest))
  PROVE  manifest'.state = "ACTIVE"
<1>1. manifest \in Manifest
  BY DEF TypeInv, TypeOK
<1> QED
  BY <1>1 DEF Activate, Moved, Published, Manifest

\* Every step keeps to these moves (_supervise_head, _run_head, _run_cleanup).
LEMMA StepHead ==
  ASSUME TypeInv, [Next]_vars
  PROVE  HeadJobMoves /\ HeadMoves
<1>p. /\ SlurmType /\ HeadType /\ HeadJob \in Job /\ HeadJob \notin LaneJob
      /\ head.lanes \subseteq LaneJob
  BY TypeInvParts, ManagedRunAssumption DEF Job, HeadType
<1>k. head' = head /\ driver' = driver => HeadMoves
  BY DEF HeadMoves
<1>h. ASSUME NEW step \in HeadStep, HeadTo(step) PROVE head'.pc = step
  BY <1>h, HeadToType
<1>s. {"waiting", "starting", "launching", "driving", "teardown", "failing", "fence",
       "snapshot", "cancel", "drain", "finalize", "over"} \subseteq HeadStep
  BY DEF HeadStep
<1>0. CASE \/ Submit \/ Status \/ UNCHANGED vars
           \/ \E c \in Scaler : Scale(c)
           \/ \E c \in Stopper : Stop(c)
           \/ \E j \in LaneJob : LaneStarts(j) \/ LaneRequeued(j) \/ LaneEnds(j)
  BY <1>0, <1>k, ClientsAndHead
<1>1. CASE HeadStarts
  <2>1. head'.pc = "waiting" /\ slurm[HeadJob] = "PENDING"
        /\ slurm'[HeadJob] = "RUNNING" /\ driver' = driver
    BY <1>1, <1>p, <1>h, <1>s DEF HeadStarts, SlurmType
  <2> QED
    BY <2>1 DEF HeadMoves, HeadJobMoves
<1>2. CASE HeadSeesRun \/ HeadGivesUp
  <2>1. /\ head.pc = "waiting" /\ slurm' = slurm /\ driver' = driver
        /\ \/ head'.pc = "failing"
           \/ head'.pc = "starting" /\ manifest.state = "STARTING" /\ manifest.head
    BY <1>2, <1>h, <1>s DEF HeadSeesRun, HeadGivesUp
  <2> QED
    BY <2>1 DEF HeadMoves, HeadJobMoves
<1>3. CASE HeadStartFails \/ HeadStopped
  <2>1. /\ slurm' = slurm /\ driver' = driver
        /\ \/ head.pc = "starting" /\ head'.pc \in {"failing", "teardown"}
           \/ head.pc = "launching" /\ head'.pc = "failing"
    BY <1>3, <1>h, <1>s DEF HeadStartFails, HeadStopped
  <2> QED
    BY <2>1 DEF HeadMoves, HeadJobMoves
<1>4. CASE HeadActivates
  <2>1. /\ head.pc = "starting" /\ slurm' = slurm
        /\ driver' = driver
        /\ \/ head'.pc \in {"failing", "teardown"}
           \/ /\ head'.pc = "launching" /\ Activate(manifest).state = "ACTIVE"
              /\ Mutate(Activate(manifest))
    BY <1>4, <1>h, <1>s DEF HeadActivates, HeadWrites
  <2>2. Activate(manifest).state = "ACTIVE" => manifest.state \in {"STARTING", "ACTIVE"}
    BY DEF Activate
  <2>3. head'.pc = "launching" => manifest'.state = "ACTIVE"
    BY <2>1, ActivateAnswers DEF Mutate
  <2> QED
    BY <2>1, <2>2, <2>3 DEF HeadMoves, HeadJobMoves
<1>5. CASE DriverExits
  BY <1>5 DEF DriverExits, HeadMoves, HeadJobMoves
<1>6. CASE HeadRecordsExit \/ HeadLosesRay
  <2>1. /\ head.pc = "driving" /\ slurm' = slurm
        /\ head'.pc \in {"failing", "teardown"} /\ driver' \in {"zero", "nonzero"}
        /\ driver' # driver => driver = "running"
    BY <1>6, <1>h, <1>s DEF HeadRecordsExit, HeadLosesRay, HeadWrites
  <2> QED
    BY <2>1 DEF HeadMoves, HeadJobMoves
<1>7. CASE HeadTeardown \/ HeadRecordsFailure
  <2>1. /\ head.pc \in {"teardown", "failing"} /\ slurm' = slurm /\ driver' = driver
        /\ head'.pc \in {"fence", "failing"}
    BY <1>7, <1>h, <1>s DEF HeadTeardown, HeadRecordsFailure
  <2> QED
    BY <2>1 DEF HeadMoves, HeadJobMoves
<1>8. CASE SupervisorDies
  <2>1. /\ head.pc \in {"waiting", "starting", "launching", "driving", "teardown",
                        "failing"}
        /\ head'.pc = "fence" /\ slurm' = slurm
        /\ IF driver = "running" THEN driver' = "killed" ELSE driver' = driver
    BY <1>8, <1>h, <1>s DEF SupervisorDies
  <2> QED
    BY <2>1 DEF HeadMoves, HeadJobMoves
<1>9. CASE Cleanup
  <2>1. /\ head.pc \in {"fence", "snapshot", "cancel", "drain", "finalize"}
        /\ head'.pc \in {"snapshot", "cancel", "drain", "finalize", "over"}
        /\ driver' = driver
    BY <1>9, <1>h, <1>s
       DEF Cleanup, CleanupFence, CleanupSnapshot, CleanupCancel, CleanupDrained,
           CleanupTimesOut, CleanupPublishes
  <2>2. slurm'[HeadJob] = slurm[HeadJob]
    <3>1. Scancel(head.lanes) => slurm'[HeadJob] = slurm[HeadJob]
      BY <1>p DEF Scancel
    <3> QED
      BY <1>9, <3>1
         DEF Cleanup, CleanupFence, CleanupSnapshot, CleanupCancel, CleanupDrained,
             CleanupTimesOut, CleanupPublishes
  <2> QED
    BY <2>1, <2>2 DEF HeadMoves, HeadJobMoves
<1>10. CASE HeadEnds \/ HeadSignaled
  <2>1. /\ head' = head /\ driver' = driver
        /\ \/ head.pc = "over" /\ slurm'[HeadJob] = "gone"
                /\ slurm[HeadJob] \in {"RUNNING", "COMPLETING"}
           \/ slurm[HeadJob] = "RUNNING" /\ slurm'[HeadJob] = "COMPLETING"
    BY <1>10, <1>p DEF HeadEnds, HeadSignaled, SlurmType
  <2> QED
    BY <1>k, <2>1 DEF HeadJobMoves
<1>11. CASE HeadKilled
  <2>1. /\ head'.pc = "over" /\ slurm'[HeadJob] = "gone"
        /\ slurm[HeadJob] \in {"RUNNING", "COMPLETING"}
        /\ IF driver = "running" THEN driver' = "killed" ELSE driver' = driver
    BY <1>11, <1>p, <1>h, <1>s DEF HeadKilled, SlurmType
  <2> QED
    BY <2>1 DEF HeadMoves, HeadJobMoves
<1>12. CASE HeadLaunches
  <2>1. /\ head.pc = "launching" /\ head'.pc = "driving" /\ slurm' = slurm
        /\ driver' = "running"
    BY <1>12, <1>h, <1>s DEF HeadLaunches
  <2> QED
    BY <2>1 DEF HeadMoves, HeadJobMoves
<1> QED
  BY <1>0, <1>1, <1>2, <1>3, <1>4, <1>5, <1>6, <1>7, <1>8, <1>9, <1>10, <1>11, <1>12
     DEF Next, Supervise

-----------------------------------------------------------------------------
(***************************************************************************)
(* The publishers' side of a step.                                         *)
(***************************************************************************)
\* Finalizing a run that is not over ends it.
LEMMA PublishEnds ==
  ASSUME TypeInv, NEW who, NEW f \in ErrorKind, ~FinalizeRefused(manifest, f),
         Publish(who, f)
  PROVE  /\ manifest'.state \in Terminal
         /\ manifest.state \in Terminal => publishedBy' = publishedBy
         /\ publishedBy' \in {publishedBy, who}
<1> DEFINE n == Finalize(manifest, f)
<1>1. manifest \in Manifest /\ Finalizes(manifest, n)
  BY DEF TypeInv, TypeOK, Finalizes
<1>2. n \in Manifest /\ n.revision = manifest.revision
  BY <1>1, MutationType DEF Mutation, Quiet
<1>3. n.state \in Terminal
  BY <1>1, FinalizeSettles DEF Finalize
<1>4. manifest' = Published(manifest, n)
  BY DEF Publish, Mutate
<1>5. manifest'.state = n.state
  BY <1>1, <1>2, <1>4, PublishedType
<1> QED
  BY <1>3, <1>5 DEF Publish

\* Who publishes, and from where (_submit_jobs, stop_slurm_ray_run,
\* _reconcile_terminal_state, _run_cleanup).
PublishMoves ==
  \/ publishedBy' = publishedBy
  \/ /\ manifest.state \notin Terminal /\ manifest'.state \in Terminal
     /\ driver' = driver
     /\ \/ publishedBy' = "submit" /\ submit.pc = "finalize" /\ head' = head
        \/ publishedBy' = "stop"
        \/ publishedBy' = "status" /\ status.pc = "finalize" /\ head' = head
        \/ publishedBy' = "cleanup" /\ head'.pc = "over"

LEMMA StepPublishes == ASSUME TypeInv, [Next]_vars PROVE PublishMoves
<1>0. /\ {"none", "reconciled", "exited"} \subseteq ErrorKind
      /\ ~FinalizeRefused(manifest, "reconciled")
      /\ ~FinalizeRefused(manifest, "exited")
  BY DEF ErrorKind, FinalizeRefused
<1>1. ASSUME NEW who, NEW f \in ErrorKind, ~FinalizeRefused(manifest, f),
             Publish(who, f)
      PROVE  \/ publishedBy' = publishedBy
             \/ /\ publishedBy' = who
                /\ manifest.state \notin Terminal /\ manifest'.state \in Terminal
  BY <1>1, PublishEnds
<1>2. CASE SubmitFinalize
  BY <1>2, <1>0, <1>1 DEF SubmitFinalize, SubmitVars, PublishMoves
<1>3. ASSUME NEW c \in Stopper, StopFinalize(c) PROVE PublishMoves
  BY <1>3, <1>0, <1>1 DEF StopFinalize, StopVars, PublishMoves
<1>4. CASE StatusPublishes
  BY <1>4, <1>0, <1>1 DEF StatusPublishes, StatusVars, PublishMoves
<1>5. CASE CleanupPublishes
  <2>1. head'.pc = "over" /\ driver' = driver
    BY <1>5, HeadToType DEF CleanupPublishes, HeadStep
  <2> QED
    BY <1>5, <1>0, <1>1, <2>1 DEF CleanupPublishes, PublishMoves
<1>6. CASE Submit
  BY <1>6, <1>2 DEF Submit, SubmitHead, SubmitHeadRaises, SubmitRecordHead, SubmitLane,
     SubmitAppend, SubmitFinish, SubmitRecordFailure, SubmitCancel, PublishMoves
<1>7. ASSUME NEW c \in Scaler, Scale(c) PROVE PublishMoves
  BY <1>7, ScaleTypes DEF ScaleVars, PublishMoves
<1>8. ASSUME NEW c \in Stopper, Stop(c) PROVE PublishMoves
  BY <1>8, <1>3 DEF Stop, StopOpen, StopRefused, StopQuery, StopRequest,
                    StopCancelLane, StopCancelHead, PublishMoves
<1>9. CASE Status
  BY <1>9, <1>4 DEF Status, StatusOpen, StatusQuery, StatusUnknown, StatusConflict,
                    PublishMoves
<1>10. CASE Supervise
  BY <1>10 DEF Supervise, HeadSeesRun, HeadGivesUp, HeadStartFails, HeadStopped,
     HeadActivates, HeadLaunches, HeadRecordsExit, HeadLosesRay, HeadTeardown,
     HeadRecordsFailure, PublishMoves
<1>11. CASE Cleanup
  BY <1>11, <1>5 DEF Cleanup, CleanupFence, CleanupSnapshot, CleanupCancel,
     CleanupDrained, CleanupTimesOut, PublishMoves
<1>12. CASE Environment \/ UNCHANGED vars
  BY <1>12 DEF Environment, HeadStarts, DriverExits, SupervisorDies, HeadEnds,
     HeadSignaled, HeadKilled, LaneStarts, LaneRequeued, LaneEnds, LaneVars, vars,
     PublishMoves
<1> QED
  BY <1>6, <1>7, <1>8, <1>9, <1>10, <1>11, <1>12 DEF Next, Environment

\* What status remembers comes from the manifest and from Slurm, and stop
\* commands do not go back to where they began.
WatchMoves ==
  /\ status'.pc # "idle" /\ status'.head =>
       (status.pc # "idle" /\ status.head) \/ manifest.head
  /\ status'.pc = "finalize" =>
       \/ status.pc = "finalize"
       \/ /\ status.pc = "query" /\ status.head /\ ~Live(HeadJob)
          /\ slurm'[HeadJob] = slurm[HeadJob]
  /\ \A c \in Stopper :
       /\ stop[c].pc # "idle" => stop'[c].pc # "idle"
       /\ stop'[c].early =>
            \/ stop[c].early
            \/ StopIsEarly /\ head' = head /\ driver' = driver

LEMMA StepWatches == ASSUME TypeInv, [Next]_vars PROVE WatchMoves
<1>p. StatusType /\ StopType
  BY TypeInvParts
<1>1. CASE UNCHANGED <<status, stop>>
  BY <1>1 DEF WatchMoves
<1>2. CASE Status
  <2>1. UNCHANGED <<stop, slurm>>
    BY <1>2, StatusTypes DEF StatusVars
  <2>2. CASE StatusOpen
    <3>1. status'.pc = "query" /\ status'.head = manifest.head
      BY <2>2 DEF StatusOpen
    <3> QED
      BY <2>1, <3>1 DEF WatchMoves
  <2>3. CASE StatusQuery
    <3>1. \/ status'.pc = "idle"
          \/ /\ status.pc = "query" /\ status.head /\ ~Live(HeadJob)
             /\ status'.pc = "finalize" /\ status'.head = status.head
      BY <1>p, <2>3 DEF StatusQuery, StatusType, NewStatus
    <3> QED
      BY <2>1, <3>1 DEF WatchMoves
  <2>4. CASE StatusUnknown \/ StatusPublishes \/ StatusConflict
    <3>1. status'.pc = "idle"
      BY <2>4 DEF StatusUnknown, StatusPublishes, StatusConflict, NewStatus
    <3> QED
      BY <2>1, <3>1 DEF WatchMoves
  <2> QED
    BY <1>2, <2>2, <2>3, <2>4 DEF Status
<1>3. ASSUME NEW c \in Stopper, Stop(c) PROVE WatchMoves
  <2>1. UNCHANGED <<status, head, driver>>
    BY <1>3, StopTypes DEF StopVars
  <2>2. ASSUME NEW r, r.pc # "idle", r.early => stop[c].early \/ StopIsEarly,
               StopTo(c, r)
        PROVE  WatchMoves
    <3>1. \A d \in Stopper : stop'[d] = IF d = c THEN r ELSE stop[d]
      BY <1>p, <2>2 DEF StopType, StopTo
    <3> QED
      BY <2>1, <2>2, <3>1 DEF WatchMoves
  <2>3. stop[c] \in OneStop /\ NewStop \in OneStop /\ ~NewStop.early
    BY <1>p DEF StopType, NewStop, OneStop, StopStep
  <2>4. CASE StopOpen(c)
    <3>1. PICK lanes, up, over :
            StopTo(c, [NewStop EXCEPT !.pc = "query", !.lanes = lanes, !.head = up,
                                      !.over = over])
      BY <2>4 DEF StopOpen
    <3>2. \A r : r = [NewStop EXCEPT !.pc = "query", !.lanes = lanes, !.head = up,
                                     !.over = over]
                  => r.pc = "query" /\ ~r.early
      BY <2>3 DEF OneStop
    <3> QED
      BY <2>2, <3>1, <3>2
  <2>5. CASE StopQuery(c)
    <3>0. PICK pc \in {"cancel-lanes", "request-stop"} :
            \E lanes, up, idle :
              StopTo(c, [stop[c] EXCEPT !.pc = pc, !.lanes = lanes, !.head = up,
                                        !.idle = idle])
      BY <2>5 DEF StopQuery
    <3>1. PICK lanes, up, idle :
            StopTo(c, [stop[c] EXCEPT !.pc = pc, !.lanes = lanes, !.head = up,
                                      !.idle = idle])
      BY <3>0
    <3>2. \A r : r = [stop[c] EXCEPT !.pc = pc, !.lanes = lanes, !.head = up,
                                     !.idle = idle]
                  => r.pc = pc /\ r.early = stop[c].early
      BY <2>3 DEF OneStop
    <3> QED
      BY <2>2, <3>1, <3>2
  <2>6. ASSUME NEW pc, pc # "idle",
               \/ StopTo(c, [stop[c] EXCEPT !.pc = pc])
               \/ StopTo(c, [NewStop EXCEPT !.pc = pc])
        PROVE  WatchMoves
    <3>1. \A r : \/ r = [stop[c] EXCEPT !.pc = pc]
                 \/ r = [NewStop EXCEPT !.pc = pc]
                 => r.pc = pc /\ (r.early => stop[c].early)
      BY <2>3 DEF OneStop
    <3> QED
      BY <2>2, <2>6, <3>1
  <2>7. CASE StopRefused(c) \/ StopCancelHead(c) \/ StopFinalize(c)
    <3>1. \E pc \in {"done", "cancel-lanes", "finalize"} :
            \/ StopTo(c, [stop[c] EXCEPT !.pc = pc])
            \/ StopTo(c, [NewStop EXCEPT !.pc = pc])
      BY <2>7 DEF StopRefused, StopCancelHead, StopFinalize
    <3> QED
      BY <2>6, <3>1
  <2>9. CASE StopRequest(c)
    <3>1. \E pc \in {"done", "cancel-lanes"} :
            StopTo(c, [stop[c] EXCEPT !.pc = pc, !.early = StopIsEarly])
      BY <2>9 DEF StopRequest
    <3>2. PICK pc \in {"done", "cancel-lanes"} :
            StopTo(c, [stop[c] EXCEPT !.pc = pc, !.early = StopIsEarly])
      BY <3>1
    <3>3. \A r : r = [stop[c] EXCEPT !.pc = pc, !.early = StopIsEarly]
                  => r.pc = pc /\ (r.early => StopIsEarly)
      BY <2>3 DEF OneStop
    <3> QED
      BY <2>2, <3>2, <3>3
  <2>8. CASE StopCancelLane(c)
    <3>1. PICK j : \/ StopTo(c, [stop[c] EXCEPT !.lanes = @ \ {j}])
                   \/ StopTo(c, [stop[c] EXCEPT !.lanes = @ \ {j}, !.missed = TRUE])
                   \/ StopTo(c, [stop[c] EXCEPT !.pc = "done"])
      BY <2>8 DEF StopCancelLane
    <3>2. stop[c].pc = "cancel-lanes"
      BY <2>8 DEF StopCancelLane
    <3>3. \A r : \/ r = [stop[c] EXCEPT !.lanes = @ \ {j}]
                 \/ r = [stop[c] EXCEPT !.lanes = @ \ {j}, !.missed = TRUE]
                 => r.pc = "cancel-lanes" /\ r.early = stop[c].early
      BY <2>3, <3>2 DEF OneStop
    <3> QED
      BY <2>2, <2>6, <3>1, <3>3
  <2> QED
    BY <1>3, <2>4, <2>5, <2>7, <2>8, <2>9 DEF Stop
<1>4. CASE Submit
  <2>1. UNCHANGED SubmitVars
    BY <1>4 DEF Submit, SubmitHead, SubmitHeadRaises, SubmitRecordHead, SubmitLane,
       SubmitAppend, SubmitFinish, SubmitRecordFailure, SubmitCancel, SubmitFinalize
  <2> QED
    BY <1>1, <2>1 DEF SubmitVars
<1>5. CASE Supervise
  BY <1>1, <1>5, SuperviseTypes DEF ClientVars
<1>6. CASE Cleanup
  BY <1>1, <1>6, CleanupTypes DEF ClientVars
<1>7. CASE Environment
  BY <1>1, <1>7, EnvironmentTypes DEF ClientVars
<1>8. ASSUME NEW c \in Scaler, Scale(c) PROVE WatchMoves
  BY <1>1, <1>8, ScaleTypes DEF ScaleVars
<1> QED
  BY <1>1, <1>2, <1>3, <1>4, <1>5, <1>6, <1>7, <1>8 DEF Next, Environment, vars

-----------------------------------------------------------------------------
(***************************************************************************)
(* Every step keeps each part of the invariant.                            *)
(***************************************************************************)
\* What is recorded stays recorded.
LEMMA RecordsStay ==
  ASSUME TypeInv, [Next]_vars
  PROVE  /\ manifest.head => manifest'.head
         /\ Complete => Complete'
         /\ \A n \in Nat : Enlisted(manifest, n) => Enlisted(manifest', n)
BY StepEffect DEF Effect, Complete, Enlisted

\* The launcher's progress (_submit_jobs).
LEMMA LaunchingStep ==
  ASSUME TypeInv, OutcomeInv, [Next]_vars
  PROVE  Launching'
<1>p. /\ SubmitType /\ SlurmType /\ HeadJob \in Job /\ InitialLanes \in Nat
      /\ manifest \in Manifest /\ submit.lane \in Nat
  BY TypeInvParts, ManagedRunAssumption DEF Job, SubmitType, OneSubmit, ManifestType
<1>l. Launching
  BY DEF OutcomeInv
<1>r. /\ manifest.head => manifest'.head
      /\ \A n \in Nat : Enlisted(manifest, n) => Enlisted(manifest', n)
  BY RecordsStay
<1>e. manifest'.head => manifest.head \/ submit.pc = "record-head"
  BY StepEffect DEF Effect
<1>1. CASE UNCHANGED submit
  <2>1. submit.pc = "head" => slurm'[HeadJob] = "free"
    <3>1. submit.pc = "head" => slurm[HeadJob] = "free" /\ Canceled("free") = "free"
      BY <1>l DEF Launching, Canceled
    <3> QED
      BY <1>1, <3>1, StepHead DEF HeadJobMoves, HeadMoves, OutcomeInv, Heading
  <2> QED
    BY <1>1, <1>l, <1>p, <1>r, <1>e, <2>1 DEF Launching
<1>2. ASSUME submit'.pc \notin {"head", "record-head", "lane", "append-lane", "finish"},
             \/ submit'.pc = "finalize"
             \/ submit'.pc = "record-failure" /\ submit'.submitted = {}
             => ~manifest'.head
      PROVE  Launching'
  BY <1>2 DEF Launching
<1>3. CASE SubmitHead
  <2>1. /\ submit.pc = "head" /\ submit'.pc = "record-head"
        /\ submit'.submitted = {HeadJob} /\ submit'.lane = submit.lane
    BY <1>3, <1>p DEF SubmitHead, SubmitType, OneSubmit
  <2> QED
    BY <1>l, <2>1 DEF Launching
<1>4. CASE SubmitHeadRaises
  <2>1. submit.pc = "head" /\ submit'.pc = "record-failure"
    BY <1>4, <1>p DEF SubmitHeadRaises, SubmitType, OneSubmit
  <2>2. ~manifest'.head
    BY <1>l, <1>e, <2>1 DEF Launching
  <2> QED
    BY <1>2, <2>1, <2>2
<1>f. ASSUME submit.pc \in {"record-head", "lane", "append-lane", "finish"},
             submit' = [submit EXCEPT !.pc = "record-failure"]
      PROVE  Launching'
  <2>1. submit'.pc = "record-failure" /\ submit'.submitted # {}
    BY <1>f, <1>l, <1>p DEF Launching, SubmitType, OneSubmit
  <2> QED
    BY <1>2, <2>1
<1>5. CASE SubmitRecordHead
  <2>1. submit.pc = "record-head"
    BY <1>5 DEF SubmitRecordHead
  <2>2. CASE /\ Mutate(RecordHead(manifest))
             /\ submit' = [submit EXCEPT
                             !.pc = IF InitialLanes = 0 THEN "finish" ELSE "lane"]
    <3>1. /\ submit'.pc = IF InitialLanes = 0 THEN "finish" ELSE "lane"
          /\ submit'.lane = 0 /\ HeadJob \in submit'.submitted
      BY <1>l, <1>p, <2>1, <2>2 DEF Launching, SubmitType, OneSubmit
    <3>2. manifest'.head
      BY <1>p, <2>2 DEF Mutate, RecordHead, Published, Manifest
    <3>3. \A m : Enlisted(m, 0)
      BY DEF Enlisted
    <3> QED
      BY <3>1, <3>2, <3>3 DEF Launching
  <2> QED
    BY <1>5, <1>f, <2>1, <2>2 DEF SubmitRecordHead
<1>6. CASE SubmitLane
  <2>1. submit.pc = "lane"
    BY <1>6 DEF SubmitLane
  <2>2. ASSUME NEW j \in LaneJob,
               submit' = [submit EXCEPT !.pc = "append-lane", !.held = {j},
                                        !.submitted = @ \cup {j}]
        PROVE  Launching'
    <3>1. /\ submit'.pc = "append-lane" /\ submit'.lane = submit.lane
          /\ HeadJob \in submit'.submitted
      BY <1>l, <1>p, <2>1, <2>2 DEF Launching, SubmitType, OneSubmit
    <3>2. manifest'.head /\ Enlisted(manifest', submit.lane)
      BY <1>l, <1>p, <1>r, <2>1 DEF Launching
    <3> QED
      BY <3>1, <3>2 DEF Launching
  <2> QED
    BY <1>6, <1>f, <2>1, <2>2 DEF SubmitLane
<1>7. CASE SubmitAppend
  <2>1. submit.pc = "append-lane"
    BY <1>7 DEF SubmitAppend
  <2>2. ASSUME NEW j \in submit.held,
               Mutate(AppendLane(manifest,
                        [lane |-> submit.lane, job |-> j, at |-> Launcher])),
               submit' = [submit EXCEPT
                            !.pc = IF submit.lane + 1 < InitialLanes
                                   THEN "lane" ELSE "finish",
                            !.lane = @ + 1, !.held = {}]
        PROVE  Launching'
    <3>1. /\ submit'.pc = IF submit.lane + 1 < InitialLanes THEN "lane" ELSE "finish"
          /\ submit'.lane = submit.lane + 1 /\ HeadJob \in submit'.submitted
      BY <1>l, <1>p, <2>1, <2>2 DEF Launching, SubmitType, OneSubmit
    <3>2. manifest'.head /\ Enlisted(manifest', submit.lane)
      BY <1>l, <1>p, <1>r, <2>1 DEF Launching
    <3>3. [lane |-> submit.lane, job |-> j, at |-> Launcher] \in manifest'.lanes
      BY <1>p, <2>2 DEF Mutate, AppendLane, Published, Manifest
    <3>4. \E l \in manifest'.lanes : l.lane = submit.lane
      BY <3>3
    <3>5. Enlisted(manifest', submit.lane + 1)
      BY <1>p, <3>2, <3>4 DEF Enlisted
    <3>6. submit'.pc = "finish" => submit'.lane >= InitialLanes
      BY <1>p, <3>1
    <3>7. Enlisted(manifest', submit'.lane)
      BY <3>1, <3>5
    <3> QED
      BY <3>1, <3>2, <3>6, <3>7 DEF Launching
  <2> QED
    BY <1>7, <1>f, <2>1, <2>2 DEF SubmitAppend
<1>8. CASE SubmitFinish
  <2>1. CASE submit' = [submit EXCEPT !.pc = "done"]
    <3>1. submit'.pc = "done"
      BY <1>p, <2>1 DEF SubmitType, OneSubmit
    <3> QED
      BY <1>2, <3>1
  <2> QED
    BY <1>8, <1>f, <2>1 DEF SubmitFinish
<1>9. CASE SubmitRecordFailure
  <2>1. /\ submit.pc = "record-failure"
        /\ submit'.pc = IF submit.submitted = {} THEN "finalize" ELSE "cancel"
    BY <1>9, <1>p DEF SubmitRecordFailure, SubmitType, OneSubmit
  <2>2. submit'.pc = "finalize" => ~manifest'.head
    BY <1>l, <1>e, <2>1 DEF Launching
  <2> QED
    BY <1>2, <2>1, <2>2
<1>10. CASE SubmitCancel \/ SubmitFinalize
  <2>1. submit'.pc \in {"failed", "cancel"}
    BY <1>10, <1>p DEF SubmitCancel, SubmitFinalize, SubmitType, OneSubmit
  <2> QED
    BY <1>2, <2>1
<1>11. CASE Submit
  BY <1>11, <1>3, <1>4, <1>5, <1>6, <1>7, <1>8, <1>9, <1>10 DEF Submit
<1>12. CASE ~Submit
  <2>1. \/ Status \/ Supervise \/ Cleanup \/ Environment \/ UNCHANGED vars
        \/ \E c \in Scaler : Scale(c)
        \/ \E c \in Stopper : Stop(c)
    BY <1>12 DEF Next, Environment
  <2>2. UNCHANGED submit
    BY <2>1, ScaleTypes, StopTypes, StatusTypes, SuperviseTypes, CleanupTypes,
       EnvironmentTypes DEF ScaleVars, StopVars, StatusVars, ClientVars, vars
  <2> QED
    BY <1>1, <2>2
<1> QED
  BY <1>11, <1>12

\* A run leaves SUBMITTING for STARTING only with everything recorded
\* (finish-submission is the launcher's last mutation).
LEMMA OpenStep ==
  ASSUME TypeInv, OutcomeInv, [Next]_vars
  PROVE  Open'
<1>1. Effect(manifest') /\ (Complete => Complete')
  BY StepEffect, RecordsStay
<1>2. submit.pc = "finish" => Complete
  <2>1. submit.lane \in Nat /\ InitialLanes \in Nat
    BY ManagedRunAssumption DEF TypeInv, TypeOK
  <2> QED
    BY <2>1 DEF OutcomeInv, Launching, Complete, Enlisted
<1>3. manifest'.state \in {"STARTING", "ACTIVE"} => Complete
  BY <1>1, <1>2 DEF Effect, OutcomeInv, Open
<1>4. manifest'.state \in Unfinished => ~manifest'.stop /\ manifest'.error = "none"
  BY <1>1 DEF Effect, OutcomeInv, Open
<1> QED
  BY <1>1, <1>3, <1>4 DEF Open

\* The head allocation (_supervise_head, _run_head, _run_cleanup).
LEMMA HeadingStep ==
  ASSUME TypeInv, OutcomeInv, [Next]_vars
  PROVE  Heading'
<1>1. /\ Effect(manifest') /\ (Complete => Complete') /\ HeadJobMoves /\ HeadMoves
      /\ manifest.head => manifest'.head
  BY StepEffect, RecordsStay, StepHead
<1>2. Heading /\ Launching /\ Open
  BY DEF OutcomeInv
<1>c. /\ Canceled(slurm[HeadJob]) \in {"free", "PENDING"} => slurm[HeadJob] = "free"
      /\ Canceled(slurm[HeadJob]) = "gone" => slurm[HeadJob] \in {"PENDING", "gone"}
  <2>1. slurm[HeadJob] \in JobState
    BY DEF TypeInv, TypeOK, Job
  <2> QED
    BY <2>1 DEF Canceled, JobState
<1>3. slurm'[HeadJob] \in {"free", "PENDING"} => head'.pc = "none"
  BY <1>1, <1>2, <1>c DEF HeadJobMoves, HeadMoves, Heading, Launching
<1>4. slurm'[HeadJob] = "gone" => head'.pc \in {"none", "over"}
  BY <1>1, <1>2, <1>c DEF HeadJobMoves, HeadMoves, Heading, Launching
<1>5. head'.pc \in {"starting", "launching", "driving", "teardown"} => manifest'.head
  BY <1>1, <1>2 DEF HeadMoves, Heading
<1>6. head'.pc \in {"launching", "driving"} => Complete'
  BY <1>1, <1>2 DEF HeadMoves, Heading, Open
<1>7. driver' = "running" => head'.pc = "driving"
  BY <1>1, <1>2 DEF HeadMoves, Heading
<1>8. manifest'.exit # "none" =>
        head'.pc \notin {"none", "waiting", "starting", "launching", "driving"}
  BY <1>1, <1>2 DEF Effect, HeadMoves, Heading
<1> QED
  BY <1>3, <1>4, <1>5, <1>6, <1>7, <1>8 DEF Heading

\* The verdict (expected_terminal_state over what was recorded).
LEMMA EarnedStep ==
  ASSUME TypeInv, OutcomeInv, [Next]_vars
  PROVE  Earned'
<1>1. /\ Effect(manifest') /\ (Complete => Complete') /\ HeadMoves /\ WatchMoves
  BY StepEffect, RecordsStay, StepHead, StepWatches
<1>2. Heading /\ Earned
  BY DEF OutcomeInv
<1>3. manifest'.exit = "zero" => driver' = "zero" /\ Complete'
  <2>1. CASE manifest'.exit = manifest.exit
    BY <1>1, <1>2, <2>1 DEF HeadMoves, Heading, Earned
  <2>2. CASE manifest'.exit # manifest.exit
    BY <1>1, <1>2, <2>2 DEF Effect, Heading
  <2> QED
    BY <2>1, <2>2
<1>4. manifest'.state = "SUCCEEDED" => ~manifest'.stop /\ manifest'.exit = "zero"
  BY <1>1, <1>2 DEF Effect, Earned
<1>5. manifest'.state = "STOPPED" => manifest'.stop
  BY <1>1, <1>2 DEF Effect, Earned
<1>6. manifest'.stop => \E c \in Stopper : stop'[c].pc # "idle"
  BY <1>1, <1>2 DEF Effect, Earned, WatchMoves
<1> QED
  BY <1>3, <1>4, <1>5, <1>6 DEF Earned

\* The publishers (_run_cleanup, _reconcile_terminal_state, _submit_jobs).
LEMMA ToldStep ==
  ASSUME TypeInv, OutcomeInv, [Next]_vars
  PROVE  Told'
<1>1. /\ Effect(manifest') /\ HeadJobMoves /\ HeadMoves /\ WatchMoves /\ PublishMoves
      /\ manifest.head => manifest'.head
      /\ slurm[HeadJob] \in JobState
  BY StepEffect, RecordsStay, StepHead, StepWatches, StepPublishes
     DEF TypeInv, TypeOK, Job
<1>2. Heading /\ Launching /\ Told /\ Heading'
  BY HeadingStep DEF OutcomeInv
<1>3. status'.pc # "idle" /\ status'.head => manifest'.head
  BY <1>1, <1>2 DEF WatchMoves, Told
<1>4. status'.pc = "finalize" => manifest'.head /\ ~Live(HeadJob)'
  <2>1. CASE status.pc = "finalize"
    <3>1. manifest.head /\ slurm[HeadJob] \in {"free", "gone"} /\ submit.pc # "head"
      BY <1>1, <1>2, <2>1 DEF Told, Live, Nonterminal, JobState, Launching
    <3>2. slurm'[HeadJob] \in {"free", "gone"}
      BY <1>1, <3>1 DEF HeadJobMoves, Canceled
    <3> QED
      BY <1>1, <3>1, <3>2 DEF Live, Nonterminal
  <2>2. CASE status.pc # "finalize"
    BY <1>1, <1>2, <2>2 DEF WatchMoves, Told, Live
  <2> QED
    BY <2>1, <2>2
<1>5. publishedBy' # "nobody" => manifest'.state \in Terminal
  BY <1>1, <1>2 DEF PublishMoves, Told, Effect
<1>6. RayDownBeforePublished'
  <2>1. SUFFICES ASSUME publishedBy' \in {"cleanup", "status", "submit"}
                 PROVE  head'.pc \notin {"starting", "launching", "driving", "teardown"}
    BY <1>2 DEF RayDownBeforePublished, Heading
  <2>2. CASE publishedBy' = publishedBy
    <3>1. /\ manifest.state \in Terminal
          /\ head.pc \notin {"starting", "launching", "driving", "teardown"}
      BY <1>2, <2>1, <2>2 DEF Told, RayDownBeforePublished
    <3> QED
      BY <1>1, <3>1 DEF HeadMoves, Terminal
  <2>3. CASE publishedBy' # publishedBy
    <3>1. \/ submit.pc = "finalize" /\ head' = head
          \/ status.pc = "finalize" /\ head' = head
          \/ head'.pc = "over"
      BY <1>1, <2>1, <2>3 DEF PublishMoves
    <3>2. submit.pc = "finalize" =>
            head.pc \notin {"starting", "launching", "driving", "teardown"}
      BY <1>2 DEF Launching, Heading
    <3>3. status.pc = "finalize" => head.pc \in {"none", "over"}
      BY <1>1, <1>2 DEF Told, Heading, Live, Nonterminal, JobState
    <3> QED
      BY <3>1, <3>2, <3>3
  <2> QED
    BY <2>2, <2>3
<1> QED
  BY <1>3, <1>4, <1>5, <1>6 DEF Told

\* Activation, the driver's start and the stops of before (_activate in
\* _supervise_head, _run_driver, _request_stop).
LEMMA HeededStep ==
  ASSUME TypeInv, OutcomeInv, [Next]_vars
  PROVE  Heeded'
<1>1. /\ Effect(manifest') /\ (Complete => Complete') /\ HeadMoves /\ WatchMoves
  BY StepEffect, RecordsStay, StepHead, StepWatches
<1>2. Heading /\ Open /\ Heeded /\ Open'
  BY OpenStep DEF OutcomeInv
<1>3. head'.pc \in {"launching", "driving"} \/ driver' # "none" =>
        \/ head.pc \in {"launching", "driving"} \/ driver # "none"
        \/ /\ head.pc = "starting" /\ manifest.state \in {"STARTING", "ACTIVE"}
           /\ manifest'.state = "ACTIVE"
  BY <1>1 DEF HeadMoves
<1>4. head'.pc \in {"launching", "driving"} \/ driver' # "none" =>
        Complete' /\ manifest'.state \notin {"SUBMITTING", "STARTING"}
  BY <1>1, <1>2, <1>3 DEF Effect, Heeded, Open
<1>5. ASSUME NEW c \in Stopper, stop'[c].early
      PROVE  /\ manifest'.state \notin Unfinished
             /\ head'.pc \notin {"launching", "driving"} /\ driver' = "none"
  <2>1. CASE stop[c].early
    BY <1>1, <1>2, <1>3, <2>1 DEF Effect, Heeded, Unfinished
  <2>2. CASE StopIsEarly /\ head' = head /\ driver' = driver
    BY <1>2, <2>2 DEF StopIsEarly, Heeded, Open
  <2> QED
    BY <1>1, <1>5, <2>1, <2>2 DEF WatchMoves
<1> QED
  BY <1>4, <1>5 DEF Heeded

LEMMA OutcomeInit == ASSUME Init PROVE OutcomeInv
<1>1. /\ submit.pc = "head" /\ submit.lane = 0 /\ slurm[HeadJob] = "free"
      /\ head.pc = "none" /\ driver = "none" /\ publishedBy = "nobody"
      /\ status.pc = "idle" /\ \A c \in Stopper : ~stop[c].early
      /\ manifest.state = "SUBMITTING" /\ ~manifest.head /\ ~manifest.stop
      /\ manifest.exit = "none" /\ manifest.error = "none"
  BY DEF Init, NewManifest, NewStatus, NewStop, Job
<1> QED
  BY <1>1 DEF OutcomeInv, Launching, Open, Heading, Earned, Told, Heeded,
              Unfinished, RayDownBeforePublished

LEMMA OutcomeStep ==
  ASSUME TypeInv, OutcomeInv, [Next]_vars PROVE OutcomeInv'
BY LaunchingStep, OpenStep, HeadingStep, EarnedStep, ToldStep, HeededStep
   DEF OutcomeInv

-----------------------------------------------------------------------------
\* SUCCEEDED is told only of a driver that exited zero in a run nobody stopped
\* and whose whole initial set of lanes had been recorded, STOPPED only of a
\* run somebody asked to stop: whatever faults strike and in whatever order
\* the commands, the head and status write (expected_terminal_state,
\* _supervise_head, _submit_jobs).
THEOREM OutcomeEarned == Spec => []OutcomeIsEarned
<1>1. TypeInv /\ OutcomeInv => OutcomeIsEarned
  BY DEF OutcomeInv, Earned, Complete, Enlisted, OutcomeIsEarned
<1> QED
  BY <1>1, TypeInit, TypeStep, OutcomeInit, OutcomeStep, PTL DEF Spec

\* When cleanup, status or a launcher that submitted nothing publishes the
\* outcome, Ray and the driver are down and stay down (_run_head, _run_cleanup,
\* _reconcile_terminal_state, _submit_jobs).
THEOREM RayDown == Spec => []RayDownBeforePublished
<1>1. OutcomeInv => RayDownBeforePublished
  BY DEF OutcomeInv, Told
<1> QED
  BY <1>1, TypeInit, TypeStep, OutcomeInit, OutcomeStep, PTL DEF Spec

\* A driver that ever started did so in a run of which no stop was on record
\* before its activation, with every initial lane recorded: activation and
\* start are two steps, and any step of any actor may come between a stop and
\* either of them (_request_stop, _activate, _run_driver).
THEOREM StopWins == Spec => []StopBeatsActivation
<1>1. OutcomeInv => StopBeatsActivation
  BY DEF OutcomeInv, Heeded, Complete, Enlisted, StopBeatsActivation
<1> QED
  BY <1>1, TypeInit, TypeStep, OutcomeInit, OutcomeStep, PTL DEF Spec
=============================================================================
