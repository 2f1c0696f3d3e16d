---------------------------- MODULE RunManifest ----------------------------
(***************************************************************************)
(* The run manifest of a managed Slurm-Ray run and the named mutations     *)
(* that writers apply to it under the run lock                             *)
(* (managed_ray/onnode/slurm_ray_state.py).  A mutation is an operator     *)
(* from the manifest it finds to the manifest it leaves; the ones that can *)
(* raise have a predicate XxxRefused beside them.                          *)
(*                                                                         *)
(* Data the properties do not tell apart is abstracted: timestamps, paths, *)
(* the command and the config are left out, a free-text error is a member  *)
(* of ErrorKind, an exit status is "zero" or "nonzero", and the head job   *)
(* ID is the fact that it was recorded (a run submits one head).           *)
(***************************************************************************)
EXTENDS Naturals

CONSTANTS
  LaneJob,    \* Slurm job IDs that sbatch can hand out for worker lanes
  Scaler,     \* the scale commands users run
  Launcher    \* the submit command

Terminal == {"SUCCEEDED", "FAILED", "STOPPED"}
RunState == {"SUBMITTING", "STARTING", "ACTIVE", "STOPPING"} \cup Terminal

ErrorKind == {"none", "submission", "head", "ray", "exited", "reconciled"}
ExitStatus == {"none", "zero", "nonzero"}

\* One persisted worker lane: its number, its job and its submitted_at, which
\* tells the records of two commands apart.
Lane == [lane: Nat, job: LaneJob, at: Scaler \cup {Launcher}]

Manifest ==
  [state: RunState, head: BOOLEAN, lanes: SUBSET Lane, stop: BOOLEAN,
   exit: ExitStatus, error: ErrorKind, revision: Nat]

NewManifest ==
  [state |-> "SUBMITTING", head |-> FALSE, lanes |-> {}, stop |-> FALSE,
   exit |-> "none", error |-> "none", revision |-> 0]

LaneJobs(m) == {l.job : l \in m.lanes}

-----------------------------------------------------------------------------
\* transition_run_state: a terminal state is kept.  Its table of legal moves
\* allows every other move the mutations below ask for.
Moved(m, target) ==
  IF m.state \in Terminal THEN m ELSE [m EXCEPT !.state = target]

\* mutate_manifest publishes a new revision only when the mutation changed
\* something.
Published(m, n) ==
  IF n = m THEN m ELSE [n EXCEPT !.revision = m.revision + 1]

RecordHead(m) == [m EXCEPT !.head = TRUE]

\* append-lane without its fence on STOPPING.
AppendRefusedOnceTerminal(m, l) ==
  \/ m.state \in Terminal
  \/ \E k \in m.lanes : k # l /\ (k.lane = l.lane \/ k.job = l.job)

\* A stopping or finished run takes no lane, and a lane number or a job is
\* recorded once.  An identical record is accepted and changes nothing.
AppendRefused(m, l) ==
  \/ m.state \in {"STOPPING"} \cup Terminal
  \/ \E k \in m.lanes : k # l /\ (k.lane = l.lane \/ k.job = l.job)

AppendLane(m, l) == [m EXCEPT !.lanes = @ \cup {l}]

FinishSubmission(m) ==
  IF m.state = "SUBMITTING" THEN Moved(m, "STARTING") ELSE m

RequestStop(m) ==
  IF m.state \in Terminal THEN m
  ELSE [Moved(m, "STOPPING") EXCEPT !.stop = TRUE]

\* activate without its check that the run is still STARTING.
ActivateAlways(m) == Moved(m, "ACTIVE")

Activate(m) == IF m.state = "STARTING" THEN Moved(m, "ACTIVE") ELSE m

RecordDriverExit(m, status) ==
  IF m.state \in Terminal THEN m
  ELSE Moved([m EXCEPT !.exit = status], "STOPPING")

BeginTeardown(m, error) ==
  IF m.state \in Terminal \cup {"STOPPING"} THEN m
  ELSE Moved([m EXCEPT !.error = error], "STOPPING")

\* record-failure with and without an exit status in the mutation.
RecordFailure(m, error) ==
  IF m.state \in Terminal THEN m
  ELSE Moved([m EXCEPT !.error = error], "STOPPING")

RecordFailureWithExit(m, error, status) ==
  IF m.state \in Terminal THEN m
  ELSE Moved([m EXCEPT !.error = error, !.exit = status], "STOPPING")

\* expected_terminal_state asking for the exit status before the stop request.
ExpectedTerminalExitFirst(m) ==
  CASE m.state \in Terminal -> m.state
    [] m.state \in RunState \ (Terminal \cup {"STOPPING"}) -> "none"
    [] m.state = "STOPPING" /\ m.exit = "zero" -> "SUCCEEDED"
    [] m.state = "STOPPING" /\ m.exit # "zero" ->
         CASE m.stop -> "STOPPED"
           [] ~m.stop /\ (m.error # "none" \/ m.exit = "nonzero") -> "FAILED"
           [] OTHER -> "none"

\* expected_terminal_state: the outcome a stopping run has persisted, or
\* "none" while it has not persisted one.
ExpectedTerminal(m) ==
  CASE m.state \in Terminal -> m.state
    [] m.state \in RunState \ (Terminal \cup {"STOPPING"}) -> "none"
    [] m.state = "STOPPING" /\ m.stop -> "STOPPED"
    [] m.state = "STOPPING" /\ ~m.stop /\ m.error # "none" -> "FAILED"
    [] m.state = "STOPPING" /\ ~m.stop /\ m.error = "none" ->
         CASE m.exit = "zero" -> "SUCCEEDED"
           [] m.exit = "nonzero" -> "FAILED"
           [] m.exit = "none" -> "none"

\* finalize raises without a persisted outcome or a fallback error.
FinalizeRefused(m, fallback) ==
  ExpectedTerminal(m) = "none" /\ fallback = "none"

Finalize(m, fallback) ==
  IF m.state \in Terminal THEN m
  ELSE IF ExpectedTerminal(m) # "none" THEN Moved(m, ExpectedTerminal(m))
  ELSE Moved([m EXCEPT !.error = fallback], "FAILED")
=============================================================================
