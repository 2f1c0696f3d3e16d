------------------------ MODULE ManagedRunProperties ------------------------
(***************************************************************************)
(* What a managed run must keep, whatever the interleaving of commands,    *)
(* head and Slurm.                                                         *)
(***************************************************************************)
EXTENDS ManagedRun

\* The run manifest, as the readers of it may rely on it: lanes are enrolled
\* only while the run is open and under distinct numbers and jobs, the verdict
\* of a stopping run only gets worse, and a terminal run never changes
\* (the mutators of slurm_ray_state.py, applied by uncoordinated writers).
Lifecycle ==
  INSTANCE RunLifecycle WITH
    Member <- Lane,
    phase <- IF manifest.state \in Terminal THEN "over" ELSE manifest.state,
    crew <- manifest.lanes,
    verdict <- ExpectedTerminal(manifest)

ImplementsLifecycle == Lifecycle!Spec

\* Head cleanup and status publish an outcome only once every recorded lane is
\* released, even when lanes are still being appended, a client dies or Slurm
\* is not answering (the fence of _run_cleanup, the revision condition of
\* _reconcile_terminal_state).
ReleasedBeforePublished ==
  publishedBy \in {"cleanup", "status"} => \A j \in LaneJobs(manifest) : ~Live(j)

\* When head cleanup, status or a launcher that submitted nothing publishes an
\* outcome, no Ray head and no driver is up, nor will one come up later
\* (_run_head releases its processes before the wrapper cleans up, and a head
\* that finds the run terminal refuses to start Ray).
RayDownBeforePublished ==
  publishedBy \in {"cleanup", "status", "submit"} =>
    /\ head.pc \notin {"starting", "launching", "driving", "teardown"}
    /\ driver # "running"

\* SUCCEEDED is told only of a driver that exited zero in a run nobody stopped
\* and whose whole initial set of lanes had been recorded; STOPPED only of a
\* run somebody asked to stop (expected_terminal_state, _supervise_head).
OutcomeIsEarned ==
  /\ manifest.state = "SUCCEEDED" =>
       /\ driver = "zero" /\ ~manifest.stop /\ manifest.head
       /\ \A n \in 0..(InitialLanes - 1) : \E l \in manifest.lanes : l.lane = n
  /\ manifest.state = "STOPPED" => \E c \in Stopper : stop[c].pc # "idle"

\* A lane job that holds or waits for a node and that the manifest does not
\* list is still in the hands of a command that will record or cancel it
\* (recovery by job name in submit_script, rollback in _add_lane): no lane is
\* orphaned.
NoOrphanLane ==
  \A j \in LaneJob \ LaneJobs(manifest) : Live(j) =>
    \/ slurm[j] = "COMPLETING"
    \/ j \in submit.held \cup submit.submitted
    \/ \E c \in Scaler : j \in scale[c].held

\* A driver that ever started did so in a run whose initial lanes were all
\* recorded and of which no stop was on record before its activation, whatever
\* came between the request, the activation and the start (_activate and its
\* answer).  A stop recorded after the activation promises nothing: it may find
\* the driver not started yet, and the driver starts all the same.
StopBeatsActivation ==
  driver # "none" =>
    /\ \A c \in Stopper : ~stop[c].early
    /\ \A n \in 0..(InitialLanes - 1) : \E l \in manifest.lanes : l.lane = n

-----------------------------------------------------------------------------
\* A run whose head was recorded ends with a published outcome: what head
\* cleanup leaves undone (killed, out of time, a failed write, an unreachable
\* scheduler), some later status call finishes.
RecordedRunSettles == manifest.head ~> manifest.state \in Terminal

\* Once the head is gone every lane of the run gives its node back, renewals
\* and requeues included (probe-head in the worker script).
LanesFollowHead ==
  \A j \in LaneJob :
    slurm[HeadJob] = "gone" /\ Live(j) ~> slurm[j] = "gone"

-----------------------------------------------------------------------------
(***************************************************************************)
(* Claims of the design note that the code does not keep.                  *)
(***************************************************************************)

\* docs/curator/design/curator-next-slurm-ray.md: a run becomes terminal only
\* after Ray is down and every recorded allocation is terminal in Slurm
\* (against stop, whose finalize is not tied to the snapshot it was decided on).
TerminalMeansReleased ==
  manifest.state \in Terminal =>
    /\ driver # "running"
    /\ \A j \in LaneJobs(manifest) : ~Live(j)

\* The same note: a submission that failed with something recorded stays
\* STOPPING until head cleanup or a later status confirms its allocations, and
\* one with nothing recorded is published as FAILED by the launcher (against
\* the launcher, which takes a head it submitted for one it recorded).
FailedSubmissionSettles ==
  submit.pc = "failed" /\ manifest.state = "STOPPING"
    ~> manifest.state \in Terminal
=============================================================================
