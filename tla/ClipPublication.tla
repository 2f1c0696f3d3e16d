-------------------------- MODULE ClipPublication --------------------------
(***************************************************************************)
(* The robot-action-split recipe and the staged-fragment protocol it       *)
(* publishes with (robot_action_split/pipeline.py, recovery.py,            *)
(* processing.py; lance_fragment_recovery.py).  A run discovers batches of *)
(* clips, opens or bootstraps the canonical table, drops what is there     *)
(* already, lets workers cut the rest and write media, action and sidecar, *)
(* and appends the clips that succeeded as fragments of one Lance commit.  *)
(* Runs die anywhere and are started again, writes and commits fail before *)
(* or after they took effect, releases change the media contract, and two  *)
(* runs may overlap.                                                       *)
(*                                                                         *)
(* Lance never rejects an append for another append: uniqueness of clips   *)
(* rests on this protocol alone.                                           *)
(***************************************************************************)
EXTENDS Naturals, Sequences, FiniteSets

CONSTANTS
  Driver,     \* places runs are started from, one run at a time in each
  Clip,       \* spans, one per view
  Batch,      \* ChunkSpanBatch: what one worker task processes
  BatchOf,    \* the batch of each clip
  ActionOf,   \* the action file of each clip, shared by views of one span
  Threshold,  \* clips_per_publish_batch
  Attempts,   \* storage_attempts
  Releases,   \* bound on media contract versions
  Deaths      \* bound on deaths of drivers and workers

ASSUME ClipAssumption ==
  /\ BatchOf \in [Clip -> Batch] /\ DOMAIN ActionOf = Clip
  /\ Threshold \in Nat \ {0} /\ Attempts \in Nat \ {0}
  /\ Releases \in Nat \ {0} /\ Deaths \in Nat

VARIABLES
  created,  \* the table exists
  table,    \* its fragments in the order of their commits, sets of clip_ids
  stored,   \* media, action and sidecar files in media_root
  errors,   \* the clips errors.json names
  run,      \* what each run knows
  release,  \* MEDIA_CONTRACT_VERSION deployed now
  deaths,
  overlap   \* history: a run was started while another one was alive

vars == <<created, table, stored, errors, run, release, deaths, overlap>>

\* make_clip_id hashes the media contract into a clip's identity.
Id == Clip \X (1..Releases)
Artifact == ({"clip", "sidecar"} \X Id)
              \cup {<<"action", ActionOf[c]>> : c \in Clip}

Ended == {"idle", "returned", "raised", "refused", "violated"}
Alive == {"opening", "creating", "reconciling", "publishing", "checking",
          "committing", "confirming", "reporting"}
Progress == {"absent", "todo", "cut", "clip", "action", "ok", "failed", "taken"}

TypeOK ==
  /\ created \in BOOLEAN /\ overlap \in BOOLEAN
  /\ table \in Seq(SUBSET Id)
  /\ stored \subseteq Artifact /\ errors \subseteq Id
  /\ release \in 1..Releases /\ deaths \in 0..Deaths
  /\ run \in [Driver -> [at : Ended \cup Alive, release : 1..Releases,
                         batches : SUBSET Batch, pin : Nat,
                         buffer : SUBSET Clip, work : [Clip -> Progress],
                         failed : SUBSET Clip, tries : 1..Attempts]]

\* A run's memory as it starts.
Fresh(at, r, B) ==
  [at |-> at, release |-> r, batches |-> B, pin |-> 0, buffer |-> {},
   work |-> [c \in Clip |-> "absent"], failed |-> {}, tries |-> 1]

Init ==
  /\ created = FALSE /\ table = <<>> /\ stored = {} /\ errors = {}
  /\ run = [d \in Driver |-> Fresh("idle", 1, {})]
  /\ release = 1 /\ deaths = 0 /\ overlap = FALSE

-----------------------------------------------------------------------------
\* The clip_ids a run gives to clips.
Ids(d, S) == {<<c, run[d].release>> : c \in S}

Wanted(d) == {c \in Clip : BatchOf[c] \in run[d].batches}

\* The rows of the table's n-th version, and whether S has two of one of them.
Rows(n) == UNION {table[i] : i \in 1..n}
Doubled(S, n) ==
  \E i, j \in 1..n : i # j /\ table[i] \cap table[j] \cap S # {}

Goes(d, at) == run' = [run EXCEPT ![d].at = at]

\* A run ends without a result; with it goes what it knew.
Forgotten(d, at) == [run EXCEPT ![d] = Fresh(at, 1, {})]

IsAlive(d) == run[d].at \in Alive

-----------------------------------------------------------------------------
(***************************************************************************)
(* Deployment, starts and ends of runs.                                    *)
(***************************************************************************)
\* A release that changes the media contract; runs alive keep their own.
Upgrade ==
  /\ release < Releases /\ release' = release + 1
  /\ UNCHANGED <<created, table, stored, errors, run, deaths, overlap>>

\* run(): discovery finds the batches its limit and inputs admit.
Start(d, B) ==
  /\ ~IsAlive(d)
  /\ run' = [run EXCEPT ![d] = Fresh("opening", release, B)]
  /\ overlap' = (overlap \/ \E e \in Driver \ {d} : IsAlive(e))
  /\ UNCHANGED <<created, table, stored, errors, release, deaths>>

\* The process is killed, or a call nobody catches raises.
Dies(d) ==
  /\ IsAlive(d) /\ deaths < Deaths
  /\ deaths' = deaths + 1 /\ run' = Forgotten(d, "raised")
  /\ UNCHANGED <<created, table, stored, errors, release, overlap>>

-----------------------------------------------------------------------------
(***************************************************************************)
(* open_or_create_table and reconcile_batches.                             *)
(***************************************************************************)
Open(d) ==
  /\ run[d].at = "opening"
  /\ run' = IF created
            THEN [run EXCEPT ![d].at = "reconciling", ![d].pin = Len(table)]
            ELSE [run EXCEPT ![d].at = "creating"]
  /\ UNCHANGED <<created, table, stored, errors, release, deaths, overlap>>

\* Creating the table anew.
CreateOverwrites == <<>>

\* mode="create" leaves a table that exists by now alone.
AfterCreate == table

\* The answer may be an error, over a table created by this run or a rival:
\* then the table is opened.
Create(d) ==
  /\ run[d].at = "creating"
  /\ created' = TRUE /\ table' = AfterCreate
  /\ run' = [run EXCEPT ![d].at = "reconciling", ![d].pin = Len(table')]
  /\ UNCHANGED <<stored, errors, release, deaths, overlap>>

CreateFails(d) ==
  /\ run[d].at = "creating" /\ ~created /\ run' = Forgotten(d, "raised")
  /\ UNCHANGED <<created, table, stored, errors, release, deaths, overlap>>

\* Only rows this run would write.
ChecksWanted(d) == Rows(run[d].pin) \cap Ids(d, Wanted(d))

\* _validate_committed_versions looks at every row of the version opened.
Checked(d) == Rows(run[d].pin)

\* Batches with nothing missing are dropped, the others kept whole.
MissingBatches(d) ==
  {c \in Wanted(d) : \E b \in Wanted(d) : /\ BatchOf[b] = BatchOf[c]
                                          /\ <<b, run[d].release>> \notin Rows(run[d].pin)}

\* The clips reconcile_batches leaves, by the version opened.
Missing(d) ==
  {c \in Wanted(d) : <<c, run[d].release>> \notin Rows(run[d].pin)}

Reconcile(d) ==
  LET known == Ids(d, Wanted(d)) IN
  /\ run[d].at = "reconciling"
  /\ run' =
       IF Wanted(d) = {} THEN [run EXCEPT ![d].at = "reporting"]
       ELSE IF \E id \in Checked(d) : id[2] # run[d].release
       THEN Forgotten(d, "refused")
       ELSE IF Doubled(known, run[d].pin) THEN Forgotten(d, "violated")
       ELSE [run EXCEPT ![d].at = "publishing",
               ![d].work = [c \in Clip |-> IF c \in Missing(d) THEN "todo" ELSE "absent"]]
  /\ UNCHANGED <<created, table, stored, errors, release, deaths, overlap>>

-----------------------------------------------------------------------------
(***************************************************************************)
(* process_batch, on a worker for each batch.                              *)
(***************************************************************************)
Of(d, b) == {c \in Clip : BatchOf[c] = b /\ run[d].work[c] # "absent"}

\* The workers of a run whose driver is publishing what others delivered.
Working(d) == run[d].at \in {"publishing", "checking", "committing", "confirming"}

Makes(d, S, w) ==
  run' = [run EXCEPT ![d].work = [c \in Clip |-> IF c \in S THEN w ELSE @[c]]]

\* Load, parse, stage and cut: F is what could not be cut, perhaps the batch.
Load(d, b, F) ==
  /\ Working(d) /\ Of(d, b) # {} /\ F \subseteq Of(d, b)
  /\ \A c \in Of(d, b) : run[d].work[c] = "todo"
  /\ run' = [run EXCEPT ![d].work =
               [c \in Clip |-> IF c \in F THEN "failed"
                               ELSE IF c \in Of(d, b) THEN "cut" ELSE @[c]]]
  /\ UNCHANGED <<created, table, stored, errors, release, deaths, overlap>>

\* The file a clip is about to get, and its progress with it.
Due(d, c) ==
  CASE run[d].work[c] = "cut"  -> <<"clip", <<c, run[d].release>>>>
    [] run[d].work[c] = "clip" -> <<"action", ActionOf[c]>>
    [] OTHER                   -> <<"sidecar", <<c, run[d].release>>>>
Then(d, c) ==
  CASE run[d].work[c] = "cut"  -> "clip"
    [] run[d].work[c] = "clip" -> "action"
    [] OTHER                   -> "ok"
Writing(d, c) == Working(d) /\ run[d].work[c] \in {"cut", "clip", "action"}

Write(d, c) ==
  /\ Writing(d, c)
  /\ stored' = stored \cup {Due(d, c)} /\ Makes(d, {c}, Then(d, c))
  /\ UNCHANGED <<created, table, errors, release, deaths, overlap>>

\* Doing without a sidecar.
SidecarOptional(d, c) == IF run[d].work[c] = "action" THEN "ok" ELSE "failed"

Outcome(d, c) == "failed"

\* Removing what a clip that failed would leave.
CleansUp(d, c) == {stored \ {<<"action", ActionOf[c]>>}}

\* write_media replaces atomically, and may raise after it did.
AfterFailure(d, c) == {stored, stored \cup {Due(d, c)}}

WriteFails(d, c) ==
  /\ Writing(d, c)
  /\ stored' \in AfterFailure(d, c) /\ Makes(d, {c}, Outcome(d, c))
  /\ UNCHANGED <<created, table, errors, release, deaths, overlap>>

\* A worker dies and Ray runs its task again.
Redo(d, b) ==
  /\ Working(d) /\ deaths < Deaths /\ deaths' = deaths + 1
  /\ \A c \in Of(d, b) : run[d].work[c] # "taken"
  /\ \E c \in Of(d, b) : run[d].work[c] # "todo"
  /\ Makes(d, Of(d, b), "todo")
  /\ UNCHANGED <<created, table, stored, errors, release, overlap>>

-----------------------------------------------------------------------------
(***************************************************************************)
(* _publish_outcomes: the driver takes outcomes of finished tasks.         *)
(***************************************************************************)
\* write_row_fragment is next: the buffer is staged, not yet committed.
Commits(d, buffer) == Cardinality(buffer) >= Threshold

Take(d, c) ==
  LET ok == run[d].work[c] = "ok"
      buffer == run[d].buffer \cup (IF ok THEN {c} ELSE {}) IN
  /\ run[d].at = "publishing" /\ run[d].work[c] \in {"ok", "failed"}
  /\ \A o \in Of(d, BatchOf[c]) : run[d].work[o] \in {"ok", "failed", "taken"}
  /\ run' = [run EXCEPT ![d].work[c] = "taken", ![d].buffer = buffer,
               ![d].failed = @ \cup (IF ok THEN {} ELSE {c}),
               ![d].at = IF Commits(d, buffer) THEN "checking" ELSE "publishing"]
  /\ UNCHANGED <<created, table, stored, errors, release, deaths, overlap>>

Flushes(d) == run[d].buffer # {}

\* The last, smaller fragment, or none.
Finish(d) ==
  /\ run[d].at = "publishing"
  /\ \A c \in Clip : run[d].work[c] \in {"absent", "taken"}
  /\ run' = IF Flushes(d)
            THEN [run EXCEPT ![d].at = "checking"]
            ELSE [run EXCEPT ![d].at = "reporting"]
  /\ UNCHANGED <<created, table, stored, errors, release, deaths, overlap>>

-----------------------------------------------------------------------------
(***************************************************************************)
(* append_row_fragment.                                                    *)
(***************************************************************************)
\* Asking the version opened when the run began.
AsksPinned(d) == run[d].pin

\* _candidate_presence opens the latest version.
Asks(d) == Len(table)

Candidate(d) == Ids(d, run[d].buffer)
Present(d) == Candidate(d) \cap Rows(Asks(d))

\* append_row_fragment returned; the buffer is emptied.
Appended(d) ==
  [run EXCEPT ![d].at = "publishing", ![d].buffer = {}, ![d].tries = 1]

\* A presence check, and what follows if no row of the candidate is there.
Resolves(d, none) ==
  run' = IF Doubled(Candidate(d), Asks(d)) THEN Forgotten(d, "violated")
         ELSE IF Present(d) = Candidate(d)
         THEN Appended(d)
         ELSE IF Present(d) # {} THEN Forgotten(d, "violated")
         ELSE none

Check(d) ==
  /\ run[d].at = "checking"
  /\ Resolves(d, [run EXCEPT ![d].at = "committing"])
  /\ UNCHANGED <<created, table, stored, errors, release, deaths, overlap>>

\* The commit is applied; its answer may be lost.
Commit(d) ==
  /\ run[d].at = "committing"
  /\ table' = Append(table, Candidate(d))
  /\ \/ run' = Appended(d)
     \/ Goes(d, "confirming")
  /\ UNCHANGED <<created, stored, errors, release, deaths, overlap>>

CommitFails(d) ==
  /\ run[d].at = "committing" /\ Goes(d, "confirming")
  /\ UNCHANGED <<created, table, stored, errors, release, deaths, overlap>>

LastTry(d) == run[d].tries = Attempts

\* The handler of a commit that raised.
Confirm(d) ==
  /\ run[d].at = "confirming"
  /\ Resolves(d, IF LastTry(d) THEN Forgotten(d, "raised")
                 ELSE [run EXCEPT ![d].at = "checking", ![d].tries = @ + 1])
  /\ UNCHANGED <<created, table, stored, errors, release, deaths, overlap>>

-----------------------------------------------------------------------------
(***************************************************************************)
(* The end of run().                                                       *)
(***************************************************************************)
\* Adding to what earlier runs reported.
ReportGrows(d) == errors \cup Ids(d, run[d].failed)

ReportOf(d) == Ids(d, run[d].failed)

Report(d) ==
  /\ run[d].at = "reporting" /\ errors' = ReportOf(d)
  /\ run' = [run EXCEPT ![d] = [Fresh("returned", @.release, @.batches)
                                   EXCEPT !.failed = run[d].failed]]
  /\ UNCHANGED <<created, table, stored, release, deaths, overlap>>

\* do_with_retries gives up; the last attempt may have been written.
ReportFails(d) ==
  /\ run[d].at = "reporting" /\ errors' \in {errors, ReportOf(d)}
  /\ run' = Forgotten(d, "raised")
  /\ UNCHANGED <<created, table, stored, release, deaths, overlap>>

-----------------------------------------------------------------------------
Driving(d) ==
  \/ Open(d) \/ Create(d) \/ Reconcile(d) \/ Finish(d) \/ Check(d) \/ Confirm(d)
  \/ Report(d) \/ \E c \in Clip : Take(d, c)

Failing(d) ==
  \/ Dies(d) \/ CreateFails(d) \/ CommitFails(d) \/ ReportFails(d)
  \/ \E c \in Clip : WriteFails(d, c)
  \/ \E b \in Batch : Redo(d, b)

Next ==
  \/ Upgrade
  \/ \E d \in Driver :
       \/ Driving(d) \/ Commit(d) \/ Failing(d)
       \/ \E B \in SUBSET Batch : Start(d, B)
       \/ \E b \in Batch : \E F \in SUBSET Clip : Load(d, b, F)
       \/ \E c \in Clip : Write(d, c)

Spec == Init /\ [][Next]_vars

\* Drivers and workers go on, an operator runs the recipe on all inputs again
\* and again, and no file, batch or commit fails every time.
FairSpec ==
  /\ Spec
  /\ \A d \in Driver :
       /\ WF_vars(Driving(d)) /\ SF_vars(Start(d, Batch)) /\ SF_vars(Commit(d))
       /\ SF_vars(Create(d))
       /\ \A b \in Batch : SF_vars(Load(d, b, {}))
       /\ \A c \in Clip, w \in {"cut", "clip", "action"} :
            SF_vars(run[d].work[c] = w /\ Write(d, c))
=============================================================================
