# A TLA+ model of Cosmos Curator

TLA+ modules, TLC configurations and TLAPS proofs kept beside
`src/cosmos_curator`. They cover the parts of the repository whose correctness
rests on the order in which independent actors act:

* the **managed Slurm-Ray run** (`client/slurm_cli/managed_ray`): login-node
  commands, a head allocation and worker lanes that meet only in one manifest
  file and in Slurm;
* **checkpointed enrichment** (`next/enrichment`): drivers that stage results
  and publish them in a Lance table other writers also commit to, with deaths,
  reruns and commits whose answer is lost;
* the **publication of clips** (`next/recipes/robot_action_split`,
  `next/utils/lance_fragment_recovery.py`): a driver and its workers that append to
  a Lance table which itself knows no unique rows;
* the **continuous caption stage** (`pipelines/video/captioning`): coroutines of
  one event loop that share an engine, fail, retry and are cancelled;
* the **NVCF service** (`core/cf`): server processes, coroutines and threads that
  exclude each other by files, and die;
* the **delivery of artifacts** (`core/utils/artifacts`, shutdown hooks of
  `core/utils/infra`): actors on all nodes streaming files to one driver.

Paths below are relative to `src/cosmos_curator` unless they start with `docs/`.

    tlc -workers 2 -config ManagedRunLanes.cfg MCManagedRun.tla
    tlapm ManagedRunProofs.tla

## 1. Inventory

### Components with a life of their own

**Run manifest** (`managed_ray/onnode/slurm_ray_state.py`). State: one JSON
file per run (state, head job, lane records, stop request, driver exit, error,
revision) under a lock file. Operations: nine named mutations, each a
read-check-write under the lock; publication by rename and a new revision only
when something changed; conditional finalization on a revision. Writers on the
login node and in the head allocation share it. Correct when: lanes join only an
open run and never twice; the outcome is the worst of the reasons recorded,
whichever writer publishes it; a terminal state is final.

**Run commands** (`lifecycle.py`, `scheduler.py`, `remote.py`, `status.py`). No
state but what a command remembers between remote calls. `submit` submits the
head and the initial lanes and records each; `scale` adds or cancels lanes;
`stop` records the request, cancels lanes then head, and finalizes an inactive
run; `status` reconciles a run that Slurm has let go. Each call (sbatch, squeue,
scancel, mutation) can fail, before or after it took effect. Hard: snapshots
that are stale when used, lost sbatch answers, a client that dies anywhere.
Correct when: nothing a command submitted is forgotten, and nobody publishes an
outcome over allocations that are alive.

**Head allocation** (`onnode/slurm_ray_runtime.py`, the head script in
`render.py`). State: the supervisor's progress, Ray, the driver process. It waits
for the recorded submission, starts Ray, activates the run, runs the driver,
records its exit, releases its processes; the script's exit trap then cleans up:
fence (`begin-teardown`), snapshot of lanes, cancel, drain, finalize. Hard: stop
against activation, Ray's death against the driver's exit, a killed supervisor
whose wrapper survives, walltime in the middle of cleanup. Correct when: a stop
that is on record before the activation keeps the driver from ever starting, cleanup
publishes only what is released, and what it cannot finish remains finishable.

**Worker lanes** (the worker script in `render.py`, `_run_probe_head`,
`_run_worker`). Slurm jobs, requeued or renewed as array tasks. Correct when no
lane holds a node once the head is gone.

**Enrichment drivers** (`next/enrichment/execution.py`, `attempts.py`,
`inputs.py`, `workspace.py`, `commit.py`, `transactions.py`). State: the pinned
table, a selection, prepared column files. Operations: open and validate the
input, reconcile the workspaces found, resume or select, process under a Ray
checkpoint, prepare, refresh and commit, recover an uncertain commit, clean up.
Shared: the Lance table and its transaction history; the workspaces in storage.
Hard: every step can be the last of a run; a commit can raise after it was
applied; other recipes, producers and a second driver commit in between;
receipts vanish with old versions. Correct when: publication is atomic and never
over somebody else's results or columns; a rerun resumes; nothing staged is
deleted before it is published; everything is enriched in the end.

**Publication of clips** (`next/recipes/robot_action_split/pipeline.py`,
`recovery.py`, `processing.py`, `next/utils/lance_fragment_recovery.py`). State: the
canonical table, the files in `media_root`, `errors.json`; of a run, the version it
opened, what it found missing, the outcomes of its tasks, a buffer of successes.
Operations: open or bootstrap, validate versions, reconcile, process a batch,
publish a full buffer, resolve a commit that raised, report. Shared: the table and
the files, with other runs and with workers that are run again. Hard: Lance merges
appends, so that only the check before a commit keeps clips unique; commits whose
answer is lost; runs that die with a buffer; files shared by views; releases that
rename every clip. Correct when: a clip is published once and with its files, the
table has one contract, a run accounts for all it found, everything is published in
the end.

**Continuous caption stage** (`pipelines/video/captioning/vllm_async_stage.py`,
`models/vllm_interface.py`). State: the input queue, one pending `get()`, a dict
of trackers, a caption task per input, request tasks per window, a semaphore. The
main loop waits for an input or a completion with an idle timeout, takes a burst
of inputs, reaps tasks; a caption task spawns requests, handles completions,
starts second stages, contains errors or goes down. Hard: what completes while
the timeout cancels the wait; attempts that are cancelled and then retried;
inputs freed while a request might use them. Correct when: every input is
answered once, after its windows; only a fatal error ends the stage; nothing
uses what was freed.

**NVCF service** (`core/cf/nvcf_main.py`, `nvcf_utils.py`). State: a busy marker
and a lock file shared by the server processes, `ipc_status` and status files of a
request, its progress thread, its Ray job. The middleware rejects a request while
another is at work, `curate_video` runs it in the loop or in the background,
`terminate` stops jobs. Hard: two looks at the marker around a lock that is
reentrant for all coroutines of a process; lock files removed on somebody else's
behalf; a termination against a success; processes that die. Correct when: one
pipeline runs at a time, the verdict is honest, final and given, and the service
does not stay busy.

**Delivery of artifacts** (`core/utils/artifacts/collector.py`, `delivery.py`,
`core/utils/infra/ray_cluster_utils.py`, `profiling.py`). State: staging
directories, generators with a window of chunks, the driver's open handles and
verdicts, `_collected`, the hooks. Operations: seed, consume, advance, give up on
a stall, upload, deliver and remove, flush, leave Ray. Hard: files that grow,
streams that break off, failures in strict and lenient mode, the order of hooks.
Correct when: what is reported delivered is whole, what is removed was delivered or
reported as lost, a delivered file is not touched again, shutdown ends.

### The rest

| Component | State, operations | What would make it correct | Status |
|---|---|---|---|
| Batch scripts of managed runs (`render.py`) | text | scripts run what the model says | partly: exit trap and probe |
| Configuration and CLI of managed runs | options | settings are valid | not modelled |
| Ray checkpoint installation (`next/core/ray_checkpoints.py`) | process-global context under a lock | one plan at a time, context restored | partly: as durable list of staged results |
| Storage helpers (`next/utils/storage.py`) | none | prefix removal may stop half-way | partly: as enrichment and clip publication use them |
| `do_with_retries` (`core/utils/misc/retry_utils.py`) | attempt count | at most `max_attempts` tries | partly: in `commit_fragments`, for `errors.json` |
| Workspaces and models of the NVCF service (`core/cf`) | files | downloads complete | not modelled |
| Metrics push, GPU start throttle (`core/utils/infra`) | threads, lock files | no lost final push | not modelled |
| Sharding, sampling, alignment, smart cut (`next/core`, `next/media`, `core/sensors`) | pure functions | against reference definitions | not modelled |
| Recipes, embeddings, models, pipeline stages | per-item numeric work | not a state machine | not modelled |
| CLIs, classic Slurm launcher, charts, scripts, benchmarks | I/O, text | not a state machine | not modelled |

`PROJECT.json` has the complete list with its sources, the hazards of the code
at their lines and the properties that watch them.

## 2. Modules

    RunManifest <- ManagedRun <- ManagedRunProperties <- MCManagedRun
                                       |        ^
                                       v        +-- ManagedRunProofs
                                 RunLifecycle (abstract)     ^
                                                             +-- OutcomeProofs <- ReleaseProofs

    Enrichment <- EnrichmentProperties <- MCEnrichment
                        |          ^
                        v          +-- EnrichmentProofs
                  EnrichedTable (abstract)

    ClipPublication <- ClipPublicationProperties <- MCClipPublication
                             |             ^
                             v             +-- ClipPublicationProofs
                       ClipTable (abstract)

    ContinuousCaption <- ContinuousCaptionProperties <- MCContinuousCaption
                           |              ^
                           v              +-- ContinuousCaptionProofs
                  CaptionContract (abstract)

    PipelineService <- PipelineServiceProperties <- MCPipelineService
                                  ^
                                  +-- PipelineServiceProofs

    FileTransport <- ArtifactDelivery <- ArtifactDeliveryProperties <- MCArtifactDelivery
                                                   ^
                                                   +-- ArtifactDeliveryProofs

### RunManifest

A mutation of `slurm_ray_state.py` is an operator from the manifest it finds to
the one it leaves (`RecordHead`, `AppendLane`, `FinishSubmission`, `RequestStop`,
`Activate`, `RecordDriverExit`, `BeginTeardown`, `RecordFailure`, `Finalize`);
what can raise has a `...Refused` predicate. `Published` is `mutate_manifest`: a
new revision only for a change. The lock makes a mutation one step. Timestamps,
paths and messages are dropped; an error keeps only which writer recorded it, an
exit status only whether it was zero.

### ManagedRun

One step is one remote command. Between two steps of a command anything may
happen; a client that dies simply takes no further step, so the safety
properties cover deaths of clients everywhere without an action for them.

| Variable | Code |
|---|---|
| `manifest` | the manifest file |
| `slurm`, `name` | Slurm's job states (what can hold a node, or `gone`) and exact job names |
| `submit` | locals of `_submit_jobs` (`submitted` is `submitted_job_ids`, `held` the job not recorded yet) |
| `scale`, `stop`, `status` | what each command remembers of its snapshot |
| `head`, `driver` | progress of supervisor and cleanup; the driver process |
| `publishedBy` | history: who made the state terminal |

Actions are named for the actor and the call: `SubmitHead`, `ScaleAppend`,
`StopFinalize`, `StatusPublishes`, `HeadActivates`, `CleanupFence`, ... The
activation (`HeadActivates`, `slurm_ray_runtime.py:541`) and the driver's start
(`HeadLaunches`, its `Popen` at 613) are two steps: a stop recorded between them is
not looked at again, and the driver starts; it is ended when the stop cancels the
head. `stop[c].early` is history: whether the run had not been activated when the
stop was recorded. `Faults`
selects which calls may fail; `MutateRaises` and `SbatchRaises` allow both
"raised before" and "raised after it took effect". `SubmitScript` includes the
recovery by exact name after a lost sbatch answer.

Abstractions: one run and one head; `scontrol`'s finer job states are mapped to
those that hold or may hold a node; the supervisor is the
container's job step, so a killed supervisor takes its driver and Ray with it before
the wrapper's exit trap runs (`SupervisorDies`, which also stands for a container
that never came up); Ray's own processes are
up exactly while the supervisor is in `starting`, `launching`, `driving`, `teardown`;
`_create_run_directory` and uploading are before `Init`; the compute wait is only
its failure or success.

### RunLifecycle

What readers may rely on: lanes are enrolled while the run is open, under
distinct numbers and jobs; the verdict of a stopping run only gets worse
(succeeded, failed, stopped); what is published is the verdict; it is final.
`ManagedRun` implements it with the verdict as `ExpectedTerminal(manifest)`.

### Enrichment

| Variable | Code |
|---|---|
| `table` | latest version: per fragment its input files, owned-column file, other recipes' files |
| `proofs` | publication receipts in the transaction history still retained |
| `manifests`, `marks`, `staged` | a workspace's manifest, processing marker, staged results |
| `driver[d]` | a run: pinned table, selection, what Ray has left to do, prepared candidates, tries left |
| `published` | history: selections ever committed |
| `orphaned` | history: workspaces of which a failed removal took the manifest and left something |

One step is one durable effect or one read of shared state. `Open` reads once
where the code makes several reads of one pinned version. `Reconcile` classifies
all workspaces against the pinned version in one step, as the code does before it
removes any; the removals are steps of their own (`CleanVerified`). `Refresh` is
what a try does before committing (receipt check, `verify_inputs`, rebuilt
candidates), `Commit` the Lance commit, whose `Conflict` is Lance's rule for
updates of the same fragments; `CommitRefused` also allows the coarser refusals.
`Unsure` is the handler of a commit that raised.

Abstractions: rows and values are one file per fragment; a workspace is its
selection (fragment to input files), which is what its digest identifies;
validation is kept as uniqueness of row IDs over the table; a fragment is written
by Ray in one step and is durable before it counts as done; registering columns
is part of `Open`; deletion of fragments and schema changes are left out.

### EnrichedTable

The abstract table: a selection's results appear at once on fragments that were
pending, and change nothing else; appends and other columns are never lost.

### ClipPublication

| Variable | Code |
|---|---|
| `created`, `table` | the Lance table, as the sequence of its fragments; a fragment is its clip_ids |
| `stored` | media, action and sidecar files under `media_root` |
| `errors` | what `errors.json` names |
| `run[d]` | a run started from `d`: where it is, its contract and batches, the version it opened (`pin`), `buffer`, `failed`, the progress of each clip at the workers (`work`), the commit attempt (`tries`) |
| `release` | `MEDIA_CONTRACT_VERSION` of the code deployed now |
| `deaths`, `overlap` | bound; history: two runs were alive at once |

One step is one read or write of something shared, or one outcome taken. `Open`,
`Create` are `open_or_create_table`; `Reconcile` is `reconcile_batches` on the version
opened; `Load`, `Write`, `WriteFails` are `process_batch`, whose files are written
one by one in the order of the code and may be written though the call raised;
`Redo` is a Ray task run again; `Take` and `Finish` are the loop of
`_publish_outcomes`; `Check`, `Commit`, `CommitFails`, `Confirm` are
`append_row_fragment`, with `Present` computed from the latest version both times;
`Report` replaces `errors.json`. `Dies` ends a run anywhere; what it knew is gone.

Abstractions: rows are their clip_id, and a clip_id is a clip under a media contract,
which is what `make_clip_id` hashes; the record schema version is folded into the
contract; discovery finds any set of batches; staging a fragment is part of filling
the buffer, as what is staged is invisible until it is committed; the sequential mode
is one schedule of the workers; schema checks (`validate_table`), duplicates within a
discovery and payload shapes are left out, as are the enrichments of the table, which
add columns and no rows (`Enrichment`). A commit that raised took effect before the
handler looks, or never.

### ClipTable

What readers of the clip table rely on: it grows by whole fragments of new clips of
one contract whose files are stored, and files stay. With one driver
`ClipPublication` implements it.

### ContinuousCaption

| Variable | Code |
|---|---|
| `upstream`, `queue`, `stop` | what the executor still has, `input_queue`, `stop_event` |
| `get` | `get_task`: none, pending, or the input it returned |
| `loop`, `trackers` | where `run_continuous` is, its trackers |
| `task[i]` | the caption task of an input (`_caption_pipe_tasks`) |
| `request[w]` | the request task of a window: state, stage, attempt |
| `result`, `emitted` | captions written to windows; `put_nowait` to `output_queue` |

A step is what one coroutine does between two awaits. `Tick` is a turn of the main
loop (register, reap, emit, then `NextTurn` re-arms `get()` or leaves), `Timeout` a
turn whose wait the idle timeout cancelled, `Drain` the drain after `stop_event`.
`Handle` is `_handle_completed` with its outcomes; `Fails` cancels the siblings,
and because tenacity retries everything but a dead engine, a cancelled attempt
(`cancelling`) may come back as a queued one (`Cancelled`). `Unwind` is the return
of `_cancel_pending`, after which inputs are freed.

Abstractions: prompts and captions are a flag on the window; the engine answers
every request, some day, in one of three ways; a cancelled request that held the
semaphore gives it back at once.

### CaptionContract

What the executor relies on: inputs are offered, held, answered; answered at most
once and after every window of theirs is resolved. `Phase` and `Resolved` map the
stage's variables to it.

### PipelineService

| Variable | Code |
|---|---|
| `marker`, `lock`, `depth` | the file `pipeline_status`, who holds `pipeline.lock`, the count of each process's `FileLock` |
| `loop`, `up` | what occupies an event loop without an await; whether the process lives |
| `at`, `pc[r]` | the process a request came to, its progress in `PipelineLockMiddleware.dispatch` |
| `pipe[r]`, `job[r]`, `ipc[r]` | `curate_video` or the background run, the Ray job, `ipc_status` |
| `thread[r]`, `files[r]`, `uploaded[r]` | progress thread, status files, whether outputs were uploaded |
| `term` | one termination request, `_terminate_last_job` |
| `breach` | history: the ways in which exclusion was undone |

One step is one file operation, one await or one external event. `RemoveMarker`
and `RemoveLock` are the two halves of `_cleanup_pipeline_lock_files`, called by a
request, a background run and a restarting process; `Acquire` has the reentrance of
`FileLock`. `Crash` ends what runs in a process and releases its lock; Ray jobs go
on. Request IDs are taken to differ; logs, percentages, media upload and health
endpoints are left out.

### FileTransport and ArtifactDelivery

`FileTransport` is one collection by `RayFileTransport`: `Open` and `Read` are the
generator `stream_files` on a node, `Seed`, `Consume`, `Advance`, `Stall` and
`Collected` the driver's `_collect_inner`. `ArtifactDelivery` adds `collect` for
each kind (`Deploy`, local or by uploaders), the result in strict and lenient mode,
explicit calls, and `shutdown_cluster` with its hooks in LIFO order, the flush of
the driver's own artifacts among them. A write that fails leaves the file as it was,
truncated, or written (`WriteFails`). `ray.kill` is not waited for
(`delivery.py:1409`): what an uploader had left to upload is `loose`, and each such
file may still be written once, at any time (`LateUpload`).

| Variable | Code |
|---|---|
| `staged`, `length`, `torn` | staging directories, lengths, files that grew while streamed (history) |
| `reader`, `stream` | a node's generator and the chunks in its window |
| `pending`, `handle`, `verdict`, `step`, `at` | locals of `_collect_inner` |
| `out` | what is at each destination, as an interval of chunks |
| `life` | an actor: up, mute, cut off, dead, or its node gone |
| `collected`, `raised`, `unsent` | `_collected`, errors raised, failed uploads |
| `loose` | files of uploaders that are being killed |
| `lost` | history: nodes reported as failed by a delivery of a kind (`nodes_failed`) |
| `hooks`, `mode`, `calls`, `early` | hooks left to run, settings, explicit calls |

A file is its length in chunks; its contents, like paths and spans, are left out. A
node that is slow but alive is assumed to answer within the stall timeout; the
driver shares the fate of its node.

## 3. Runs

Every run is exhaustive within its bounds.

| Run | Instance | States | Shows |
|---|---|---|---|
| `ManagedRunLanes` | 3 lane jobs, 1 scale, 1 stop, 1 initial lane, targets 0 and 2; faults sbatch, stop, kill, oom, teardown, write | 1,200,000 | release before publication, earned outcomes, no orphan lane, `ImplementsLifecycle`, stop beats activation |
| `ManagedRunLiveness` | 2 lane jobs, 1 scale, 1 initial lane; faults squeue, kill, fence, read, write | 374,000 | no outcome over a live or future Ray head; recorded runs settle; lanes follow the head |
| `EnrichmentSingle` | 1 driver, 1 fragment and 1 append, limits 1 and 2, 2 tries, 1 death, 1 edit; faults lost, cleanup, prune, overwrite, duplicate | 920,000 | one unfinished selection, true evidence, `ImplementsTable`, workspaces outlive publication |
| `EnrichmentRivals` | 2 drivers, no death, 1 append; faults lost, relayout | 325,000 | a report of success is true; `ImplementsTable` |
| `EnrichmentLiveness` | 1 driver, 1 death, 1 append, 1 edit; faults lost, refused, latest, marker, cleanup | 100,000 | everything is enriched; workspaces disappear, manifest, marker and results |
| `ClipsSingle` | 1 driver, a batch of 2 clips, buffer 2, 2 tries, 2 releases, 2 deaths | 65,000 | each clip once, one contract, current report, `ImplementsTable`, everything is published |
| `ClipsRivals` | 2 drivers, 2 clips in 2 batches that share an action file, 1 death | 807,000 | rows backed, runs account for all, a row per rival at most |
| `CaptionContinuous` | 3 inputs (2 windows with a second stage for one; 2 windows, one without model input; none), semaphore 1, 2 attempts, burst 1 | 241,000 | nothing runs after free, contained failures, drained stop, `ImplementsContract`, end after stop, answers |
| `PipelineService` | 2 processes; a direct request to one, an ordinary one to either; 1 death or termination | 541,000 | one pipeline, honest and final verdicts, a verdict for everyone, no marker left |
| `ArtifactDelivery` | 2 nodes, 4 files of 2 kinds (2 chunks, 1 chunk, flushed, other kind), strict or lenient, local or remote, window 2, 1 growth, 1 fault, 1 explicit call | 135,000 | ok means whole, removed was delivered or reported as lost, shutdown delivers and ends, delivered is final |
| `ManagedRunStopRace`, `ManagedRunFailedSubmission` | smallest instance that shows it | | section 6 |

**Why the bounds are enough.** Three lane jobs let a scale command add two lanes
beside the initial one, so that a second append of the same command meets the
fence; two give a lost and a recorded lane. Faults of the other calls of `submit`
and `scale` (`submit`, `scale`) are in the theorems, which hold for every set of
faults, and in `ManagedRunFailedSubmission`. One stop is enough: what it records is idempotent,
and a second adds only another stale finalization, already reachable. `Targets`
holds a scale-up and a scale-down. Two fragments make "whole selection", "part of
it", "resumed with another limit" and "appended after validation" different;
two tries exhaust the retry loop; two drivers are the smallest rivalry. Bounds:
`LaneJob`, `Scaler`, `Stopper`, `Targets`, `InitialLanes`; `MaxFragment`,
`Edits`, `Attempts`, `Crashes`; `Limit`, `Retries`, `Burst`; `Faults`, `Route`;
`Window`, `Growth`, `Faults`, `Calls`; `Threshold`, `Attempts`, `Releases`, `Deaths`.
A batch of two clips fills the buffer of two, or leaves it half full when one of them
fails; with a batch each, the rivals' clips share an action file that two workers write;
runs are unbounded in number. With a semaphore of one, requests of two
inputs already wait for each other; two windows make siblings to cancel, a burst of
one leaves an input queued, and two attempts make a cancelled one come back. In
the service each of the three breaches is reachable, and each alone suffices
for a second pipeline; which process the direct request meets is immaterial. A window
of two lets a file of two chunks be all in flight and its third (grown) wait; one
fault meets every step, and two (947,000 states) changed no answer. Nothing else is
capped: revisions grow with the
finitely many mutations, and versions with the commits.

**Deadlock** is not checked: a run that is over, and a table with nothing left
to do and no writer, really stop.

**View and symmetry.** `Relevant` in `MCManagedRun` drops the revision's value,
keeping whether it equals the one `status` waits on (an old value never comes
back, and while equal the rest of what `status` remembers is what the manifest
says), the memory of commands that ended (but for a stop's `early`), the kind of error of a finished run
and names no lookup can find. No action or property of the runs using it tells
two such states apart. Lane jobs, scale commands, stop commands and drivers (of
enrichment and of clips) are interchangeable. Runs that check liveness use neither.

**Types.** The type invariants are proved for every value of the constants and are not
repeated by the runs. `NeverTorn` and `TableGrows` of clips are proved only, too.

**Mutants.** Beside a definition stands, for each property, a plausible wrong
version of it (`AppendRefusedOnceTerminal`, `StaleNever`, ...); with it in place
of the definition the run finds the property violated. They show that each
property really depends on the code it is about.

## 4. Fairness

*Managed run*: weak fairness of Slurm starting and ending jobs, of the processes
in the head allocation (all its waits have timeouts) and of an operator who keeps
calling `status`; strong fairness of `StatusQuery` and `StatusPublishes`: squeue
is not down forever, and the manifest not always changed in between (writers are
finitely many). The driver ends, if only by walltime. Submit, scale and stop may
stop at any point: no liveness rests on them.

*Enrichment*: a driver that runs goes on and is run again by its operator, which
is what the design asks for; strong fairness of an accepted commit and of a
complete removal: Lance does not refuse, and storage does not fail, every time.
Deaths, appends and edits are bounded, faults of calls are not.

*Publication of clips*: drivers and workers go on and the operator runs the recipe on
all inputs again and again; strong fairness of creating the table, of a batch that
loads whole, of each kind of write of each clip and of a commit: none of these fails
every time it is tried. Deaths are bounded.

*Captioning*: the event loop runs whatever is ready (weak fairness of each task,
request and step of the main loop), timers fire and `engine.generate` answers;
inputs and `stop_event` need not come. *Service*: event loops, threads and a
termination under way go on, Ray jobs end, the supervisor of the server restarts
a dead process; requests, terminations and deaths need not come. *Delivery*:
living actors go on, the driver goes on and its waits with a limit time out; a mute
generator has no such limit, which `ShutdownEnds` excepts.

## 5. Theorems

Proved by TLAPS for all values of the constants allowed by
`ManagedRunAssumption` (the head is not a lane job, the launcher is not a scale
command, numbers are natural, `Faults` is a set of the named kinds): any number
of lanes, scale and stop commands, every fault.

* `TypeCorrect`: `Spec => []TypeOK`. `TypeOK` is not inductive. `ScaleQuery` sets
  how many lanes to add from a cardinality, so lanes must be finite (`Finite`);
  `ScaleAppend` counts down, so the count must be positive in those steps
  (`LanesToAdd`); `StopFinalize` and the others store `ExpectedTerminal` as the
  state, so a stopping run must have an outcome (`Sealed`), and recording an exit
  is only harmless if none was recorded before (`ExitUnrecorded`). `TypeInv` is
  their conjunction.
* `StepMutates`: every step of every actor publishes at most one mutation, proved
  once per actor. The theorems below reason about mutations only.
* `MutationFence`, `MutationSealed` (`ManagedRunProofs`): no mutation reopens a
  stopping run or enrolls a lane in it; each keeps an outcome present.
* `Refinement`: `Spec => ImplementsLifecycle`. `LifecycleStep` maps one published
  mutation to one step of `RunLifecycle` or a stutter; `EndsWorsens` carries the
  ordering of verdicts, which needs `ExitUnrecorded`.

* `Released`: `Spec => []ReleasedBeforePublished` when `Faults` holds neither
  `fence` nor `read` (`CleanupSeesLanes`; section 6 says why). `ReleaseInv` adds to
  `TypeInv`: a job somebody holds or recorded was accepted by Slurm (`Known`), so
  that once it is gone it stays gone (`StepOnward`); behind the fence no lane joins
  (`Fenced`, from `MutationFence`), so cleanup's snapshot stays the set of recorded
  lanes (`Snapshot`) and what it saw drained is all there is (`Drained`); what
  `status` concluded holds while the revision does (`Current`: any mutation raises
  it); and a published outcome is terminal over released lanes (`Settled`). None of
  these can be dropped: without `Known` a recorded job could be accepted again,
  without `Current` a status call could publish over a lane appended meanwhile.
  `ReleaseInv` was model-checked before it was proved.

* `OutcomeEarned`, `RayDown`, `StopWins` (`OutcomeProofs`): `OutcomeIsEarned`,
  `RayDownBeforePublished` and `StopBeatsActivation`, with every fault. First
  `StepCaused` says who may write what: besides `StepMutates`, an activation comes
  from a head that is starting, a driver's exit from the supervisor that saw it.
  `OutcomeInv` then ties each actor's progress to the manifest: how far the launcher
  is tells what is recorded (`Launching`: without it `FinishSubmission` could open a
  run that lacks a lane), an open run was neither stopped nor in error (`Open`), the
  supervisor lives inside its job and drives only a complete run (`Heading`), a stop
  that came before the activation is on record and makes the activation answer
  otherwise than `ACTIVE` (`Heeded`, `ActivateAnswers`), the
  recorded exit and stop are those that happened (`Earned`), and whoever is about to
  publish saw the head gone, or never submitted it (`Told`).

* `NoLaneOrphaned` (`ReleaseProofs`): `Spec => []NoOrphanLane` under `CallsAnswered`:
  `append-lane` and `scancel` are answered, and where sbatch may raise after Slurm
  accepted the job, the lookup by name is answered and there is one scale command.
  TLC finds an orphan when any of these is dropped: with `submit` or `scale` one
  command can lose the answers to its recording and to its cancellation of a job, and
  two scale commands can give two jobs one name, which the lookup refuses to tell
  apart (section 6). All other faults are allowed, and so are deaths of every client.
  `LaneInv` adds to `TypeInv` and `OutcomeInv`: each lane job waiting for a node or
  holding one is recorded or in somebody's hands (`AllTended`), a command holds just
  the job it is about to record (`Grip`), no scale command runs before the launcher
  is done (`Unopened`, from `Launching`), and, where sbatch may raise, the number of
  the next lane is no accepted job's name (`Numbered`), so that the lookup finds
  exactly the job whose answer was lost (`ScriptAccepts`). Any step but a submission
  is `Calm`: no job comes up, and none loses who answers for it (`TendedStays`). TLC
  checked `LaneInv` first, on the instance of `ManagedRunLanes` without `oom`,
  `teardown` and `write` (2.6 million states), and with two scale commands and no
  sbatch fault (0.9 million).

For `Enrichment`, under `EnrichmentAssumption` (at least one attempt, limits are
positive, names of drivers differ from those of no file and of foreign files), any
drivers, fragments, crashes and faults:

* `Implements`, `Outlives`, `Accepted`, `EvidenceTrue`, `TypeCorrect`
  (`EnrichmentProofs`): `ImplementsTable`, `WorkspaceOutlivesPublication`,
  `ResultsAccepted`, `EvidenceIsTrue` and `TypeOK`. What a driver remembers goes
  stale while others write; `Sound` is the part of it that does not, for each step of
  a run: the input it pinned was validated (`Unique`), its selection named pending
  fragments of that version, what it will clean up was published, candidates cover
  the selection, and at a commit were built from the rows just read. `SoundKept`
  shows that no step of anybody else disturbs that: fragments are only added, and a
  filled column is only ever replaced by a foreign writer (`Kept`). `Vouched` closes
  the circle through the receipts, which later runs trust for validation, for
  recovery and for cleanup; `Numbered` is what lets an append take the next number.
  Without the conflict check of the commit (`Conflict`), the link between candidates
  and the rows of the table (`CommitFinds`) fails and with it `Implements`.

* `SelectionsInTurn` (`EnrichmentProofs`): `Spec => []OneUnfinished` where there is
  one driver (`OneDriver`), which is what the design asks of operators; two can start
  a selection each. `SingleInv` adds to `EnrichmentInv`: what is pending now was
  pending when the run pinned its version (`Behind`), so that reconciliation, though
  it looks at an old version, misses no unfinished workspace, and having selected, a
  run works on the only one there is (`Sole`). `PendingFalls` carries both: nothing
  empties a filled column. That reconciliation refuses to go on past workspaces it
  cannot match, and past two unfinished ones, is what makes `Sole` true
  (`ReconcileTakes`). Crashes, partial removals, rewritten inputs and lost receipts
  are all included. TLC checked `SingleInv` first (0.9 million states).

For `ClipPublication`, under `ClipAssumption` (every clip has a batch and an action
file; buffer, attempts and releases are positive), any drivers, clips, batches,
releases and deaths:

* `TypeCorrect`, `Backed`, `Accounts`, `Grown`: `TypeOK`, `RowsAreBacked`,
  `RunAccounts` and `TableGrows`, rivals or not.
* `Once`, `Uniform`, `Whole`: `EachClipOnce`, `OneContract`, `NeverTorn`, for as long
  as runs have not overlapped; `Reported`: `ReportIsCurrent`, where only one driver
  ever ran.
* `Implements`: `Spec => ImplementsTable` where there is one driver (`OneWriter`).
* `OncePerRival`: `Spec => []OnceForEachRival` for finitely many drivers. The bound
  is inductive only together with the commits still to come (`Rationed`): the
  fragments a row is in and the runs between their check and their commit of it are
  never more than the drivers. A commit turns one of the latter into one of the
  former (`CommitSpends`), and a check lets a run pass only while the row is in no
  fragment (`ChecksFindNone`); every other step leaves a run where it is or takes
  it away (`OnlyChecksLead`). TLC checked `Rationed` first, on `ClipsRivals`.

The inductive invariant is `ClipInv`. What a run knows goes stale while others
append; `Sound` is the part that stays true for each step of a run: what it calls
written is stored (`Written`), what it discovered is in the table, at the workers,
in the buffer or failed (`Accounted`). `SoundKept` shows that no step of anybody
disturbs that, because tables grow and files stay. `Single` is what holds besides
for the only run alive (`Serial`): nothing it has still to publish is in the table,
its buffer is published whole or not at all, and every row is of its contract.
`Landed` is the case the handler of a commit must tell apart, an answer lost after
the commit; without it neither `EachClipOnce` nor `NeverTorn` is inductive. `OneContract`
needs that the version check looked at all rows (`Checked`), not at those asked for.

For `ContinuousCaption`, under `CaptionAssumption` (each window has an owner, the
semaphore and the number of attempts are positive), any inputs and windows:

* `TypeCorrect`, `FreedSafely`, `Contained`, `Drains`: the type invariant and
  `NothingRunsAfterFree`, `FailuresContained`, `StopDrains`. None of the last three
  is inductive; `Inv` adds how inputs move between queue, `get_task` and trackers
  without being doubled (`Handover`), that an input not taken has no task and no
  request (`Untaken`), that a tracked input has a task (`Tracked`), how a task's state
  and its requests' agree (`Followed`: over means none is live, closed means
  resolved), who is to blame for a failed task (`Blamed`), and that all that was
  taken is kept or answered (`Kept`).
* `Implements`: `Spec => ImplementsContract`. A turn of the loop is a `Turn` of
  the contract (`TurnOfContract`), moving an input inside the stage is a turn that
  takes it (`MoveOfContract`), and writing a caption is a `Resolve`.

For `PipelineService`, under `ServiceAssumption` (there is a process, names of
processes and requests differ, `Faults` is a number), any processes and requests:

* `TypeCorrect`, `Exclusive`, `Honest`, `Final`: the type invariant, `OnePipeline`,
  `HonestVerdict` and `VerdictStays`. A `FileLock` counts the requests past `Acquire`
  in its process (`Counted`), without which `Release` could free a lock that another
  coroutine still needs, and not even the types would be inductive. `Paired` ties
  the middleware's progress to the pipeline's; `Alone` says that until `breach` the
  lock is held, and the marker kept, for one request. `Judging` is what the progress
  thread can find at each stage of a pipeline, and `Ordered` that a termination only
  hits a request that was set up: verdicts depend on both.

For `ArtifactDelivery`, under `TransportAssumption` and `DeliveryAssumption` (files
are not empty and have a node and a kind, every kind has a delivery, flushed files
are the driver's), any nodes, files, windows, growths, faults and calls:

* `TypeCorrect`, `Wholeness`, `RemovalIsSafe`, `ShutdownIsComplete`,
  `DeliveryIsFinal`: the type invariant, `OkIsWhole`, `RemovedWasDelivered`,
  `ShutdownDelivers` and `DeliveredIsFinal`. The heart is `Streamed`, about the chunks
  between a node and the driver: a chunk that does not start its file finds it open
  or follows another of it (`Linked`), what is being read continues the last chunk
  (`Reading`), what is open was opened at its start (`Opened`), and each staged file is
  whole, still to be read, or has its last chunk on the way (`Complete`); a generator
  that ends leaves nothing on the way, so the node's files are whole. `Grown` bounds
  sizes and says whose files are streamed, so that nodes cannot disturb each other;
  `Driven` is the driver's bookkeeping, `Uploaded` the same for uploaders, `Kept` and
  `Hooked` say what can have left the staging directories and which hooks are left,
  so that a file that is gone is of a kind that is collected and no longer written,
  unless by an uploader being killed, and then whole (`Writes`, `LateIsWhole`), and
  what was reported of it stays reported (`ReportedStays`);
  `Faultless` that without a fault every hook that ran collected its kind. TLC checked
  this invariant first, with two faults, two growths, two calls and a file of three
  chunks (7.7 million states).

Model-checked only: what must eventually happen, under `FairSpec`
(`LanesFollowHead`, `RecordedRunSettles`, `EverythingEnriched`,
`WorkspacesRemoved`, `AllPublished`, `RegisteredIsAnswered`, `StopEnds`,
`AcceptedIsJudged`, `MarkerGoes`, `ShutdownEnds`): liveness and `ENABLED` are out
of the prover's reach. Every other property of the passing runs is also proved.

## 6. Where documentation and code disagree

Two runs each check one claim of
`docs/curator/design/curator-next-slurm-ray.md` and find it violated.

1. `ManagedRunStopRace`: the note (line 130) makes a run terminal only after Ray
   is down and worker allocations are terminal. `stop` finalizes from the snapshot
   it opened with (`lifecycle.py:595`); if the launcher records head and lanes in
   between, `STOPPED` is published over live jobs. `status` avoids the same
   race by finalizing only at the revision it read.
2. `ManagedRunFailedSubmission`: the note (line 194) says that a failed
   submission stays `STOPPING` until cleanup or `status` confirms its allocations.
   A launcher whose `record-head` raises cancels the head and, having submitted
   something, does not finalize; no head is recorded, so nobody ever does.

Also worth knowing: the note (line 196) offers deterministic job names as the
recovery from a lost sbatch answer. Two scale commands can choose one lane number
and so one name; the lookup then finds two jobs and raises, and the job Slurm
accepted is left to nobody until its probe finds the head gone. `NoOrphanLane` is
checked with one scale command; `NoLaneOrphaned` proves it for one where sbatch may
raise, and for any number where it does not.

With the fence of cleanup suppressed (`fence`) or the recorded
lanes unreadable (`read`), cleanup can publish over a lane it did not know. The
code accepts that knowingly; `ManagedRunLiveness` includes both faults and
`ManagedRunLanes`, which checks `ReleasedBeforePublished`, does not.

The models of the other components hold what the code does, and the properties
except by name what it does not do. Reading the code for them also showed:

*Managed run.* A stop recorded between the activation and the driver's `Popen`
does not keep the driver from starting; `StopBeatsActivation` promises that only of
a stop recorded before the activation.

*Enrichment.* The design note says of a driver that exits after its commit, or of a
cleanup that fails: "A fresh invocation discovers the saved selection and verifies
its publication receipt" before retrying
(`docs/curator/design/curator-next-checkpoint-recovery.md:278`). Removing a prefix
has no order (`remove_prefix` deletes objects in batches, and a batch can fail in
part), and `discover` lists workspaces by their `workspace.json`
(`workspace.py:67`): where that went first, markers and staged results stay for
good. They block nothing, as the selection was published. `WorkspacesRemoved`
excepts these workspaces by name (`orphaned`), and only these.

*Publication of clips.*
- One splitter at a time is an assumption of the design
  (`docs/curator/design/curator-next-incremental-curation.md:78`) that nothing
  enforces. `ClipsRivals` shows what is left when it is broken: a clip in as many
  fragments as there were rivals, after which each later run that asks for it raises.
- A commit that takes effect only after its handler looked would be appended again
  (`lance_fragment_recovery.py:297`); the model does not include it.
- The same note (line 100) counts error records towards a publication batch;
  `_publish_outcomes` counts successes only, so a run of failures commits nothing.

*Captioning.*
- An input that `get()` returned just as the idle timeout ran out with
  `stop_event` set is dropped (`StopDrains` excepts it). The comments at
  `vllm_async_stage.py:1147` ("never gets dropped on the floor") and 1177 ("a late
  arrival is not lost") hold only while the stage is not stopped.
- A cancelled attempt is retried (`vllm_interface.py:1061`), so going down waits
  for a fresh generation of each sibling with an attempt left.
- After a fatal error the tasks of other inputs run on, uncancelled, until the
  executor replaces the actor.

*Service.* `OnePipeline` holds unless `breach` says how it was undone.
- A request rejected by the second look, under the lock (`nvcf_main.py:766`), goes
  through the `finally` clause and removes the marker of the pipeline it was
  rejected for; `test_nvcf_main.py:754` checks the 429 only.
- The `FileLock` is reentrant and all coroutines share one thread: two can be
  between the looks.
- The cleanup of a background run (1107) and of a restarted process (804, "Clean up
  stale lock files from previous crashed instances") removes files whosever they
  are, also while the Ray job of a dead process runs on.
- A request refused with 400 after `_setup_request` is recorded as done, with its
  job never run; `HonestVerdict` speaks of requests whose job ran.
- A termination that overtakes a success turns done into failed though the outputs
  are uploaded, and stops every running job, not only its request's.
- A request whose process died stays running for whoever polls it; a reused
  request ID meets the files of its first use.

*Delivery.*
- A file that grows while it is streamed has several last chunks; each after the
  first reopens, and so truncates, what was written, and the node is still ok.
- `next(generator)` waits without a limit (`collector.py:1117`), in spite of
  "No risk of blocking for a slow straggler" (304): the stall guard covers
  `ray.wait` only.
- A lenient delivery marks the kind collected and removes the driver's staged files
  even when it reports their node or upload as failed; `delivery.py:1301` speaks of files "preserved" in both modes.
- An uploader that was given up on may still write files of a kind that counts as
  collected; `DeliveredIsFinal` excepts what it had left to upload.
- An explicit `collect` before the flush hook leaves what that hook stages
  uncollected, as the kind counts as collected.

## 7. Not modelled

What remains keeps no state that other actors can disturb between its steps, or
rests on external runtimes the repository only calls:

* recipes, models, embeddings, pipeline stages, sensors: per-item numeric or media
  work, by far the largest share of the code; its control is a loop over items;
* configuration, CLIs, rendering of scripts, charts, benchmarks: text and options;
* storage clients, downloads, metrics push, span export: I/O around one call, whose
  failures appear where the modelled components make it;
* the other producers that append through `lance_fragment_recovery.py`
  (`multimodal_split`, `mp4_index`, `video_cut`): their commits are those of
  `ClipPublication`, their plans and files are their own;
* `CheckpointContext` (`next/core/ray_checkpoints.py`): one lock around a
  process-global setting;
* pipeline interfaces and managers, and the scheduling of stages: in cosmos-xenna,
  outside this repository.

Within the modelled components: the synchronous captioning path and engine set-up;
log and percentage updates, media upload and health endpoints of the service; the
profilers whose files are delivered.
