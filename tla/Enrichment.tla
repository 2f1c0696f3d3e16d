----------------------------- MODULE Enrichment -----------------------------
(***************************************************************************)
(* Checkpointed enrichment of a Lance table (cosmos_curator.next.enrich-   *)
(* ment): a driver pins the table, resumes a saved selection of fragments  *)
(* or selects pending ones, stages their results in a recovery workspace   *)
(* and publishes them in one Lance commit, while producers append          *)
(* fragments, other recipes fill other columns, drivers die and are run    *)
(* again, and commits are refused or their answers lost.                   *)
(*                                                                         *)
(* One driver per field group is what the design asks of operators; the    *)
(* helpers take no lease, so the model allows several.                     *)
(*                                                                         *)
(* Rows and their values are abstracted: a fragment's results are staged   *)
(* whole, and its owned columns hold one file, or none while it is         *)
(* pending.  Of input validation the model keeps the uniqueness of row IDs *)
(* over the whole table; field types and metadata are taken to be right.   *)
(***************************************************************************)
EXTENDS Naturals, FiniteSets

CONSTANTS
  Driver,        \* drivers running the same recipe on the same table
  Initial,       \* fragments of the table to begin with
  MaxFragment,   \* bound on appends: fragments are numbered 1..MaxFragment
  Edits,         \* bound on the writes of other recipes to one fragment
  Limits,        \* the values of max_fragments runs are started with
  Attempts,      \* execution.commit_attempts
  Crashes,       \* bound on deaths of drivers
  Faults         \* the faults that may happen, see FaultKind

(***************************************************************************)
(*  lost       a commit raises after Lance applied it                      *)
(*  refused    a commit raises without a conflict                          *)
(*  latest     the table cannot be reopened after a commit raised          *)
(*  marker     the processing marker cannot be written                     *)
(*  cleanup    removing a workspace raises, having removed any part of it  *)
(*  prune      old versions of the table are removed with their receipts   *)
(*  overwrite  another writer fills or replaces the owned columns          *)
(*  relayout   the input files of a fragment are rewritten                 *)
(*  duplicate  a fragment is appended that repeats IDs of another          *)
(***************************************************************************)
FaultKind ==
  {"lost", "refused", "latest", "marker", "cleanup", "prune", "overwrite",
   "relayout", "duplicate"}

ASSUME EnrichmentAssumption ==
  /\ Initial \in Nat /\ MaxFragment \in Nat /\ Initial <= MaxFragment
  /\ Edits \in Nat /\ Crashes \in Nat
  /\ Limits \subseteq Nat \ {0}
  /\ Attempts \in Nat \ {0}
  /\ Faults \subseteq FaultKind
  /\ "none" \notin Driver /\ "foreign" \notin Driver

VARIABLES
  table,      \* the latest version of the Lance table
  proofs,     \* the publication receipts in its transaction history
  manifests,  \* the workspaces that have a manifest
  marks,      \* the workspaces that have a processing marker
  staged,     \* the results staged, <<workspace, fragment, driver>>
  orphaned,   \* history: the workspaces a failed removal took the manifest of,
              \* and not the rest
  driver,     \* the drivers
  crashes,    \* deaths so far
  published   \* history: the workspaces whose results were ever committed

storage == <<manifests, marks, staged, orphaned>>
vars == <<table, proofs, storage, driver, crashes, published>>

Fragment == 1..MaxFragment

\* The owned-column files: prepared by a driver at a version, somebody else's,
\* or none yet.
None == [by |-> "none", at |-> 0]
Foreign == [by |-> "foreign", at |-> 0]
File == [by: Driver, at: Nat] \cup {None, Foreign}

\* The identity of a fragment's input files, whether they repeat IDs of an
\* earlier fragment, its owned-column file, and how often other recipes wrote
\* their columns.
Data == [layout: Nat, dup: BOOLEAN, owned: File, other: Nat]

\* What is kept per fragment.
PerFragment(h, Values) == DOMAIN h \subseteq Fragment /\ h \in [DOMAIN h -> Values]

\* Fragments by number; appends add to them and nothing removes one.
\* fields: the output columns are registered.
IsTable(t) ==
  /\ DOMAIN t = {"version", "fields", "rows"}
  /\ t.version \in Nat /\ t.fields \in BOOLEAN /\ PerFragment(t.rows, Data)

\* A workspace is named by the input files of its selection, and so is the
\* receipt of its publication (manifest_digest).
IsWorkspace(w) == PerFragment(w, Nat)

\* A receipt also records the complete input that was validated.
IsProof(p) ==
  /\ DOMAIN p = {"at", "work", "input", "files"}
  /\ p.at \in Nat /\ IsWorkspace(p.work) /\ IsWorkspace(p.input)
  /\ PerFragment(p.files, File)

\* A prepared fragment: what it was built from, and the new owned file.
Candidate == [source: Data, file: File]

Step == {"idle", "opened", "cleaning", "ensure", "start", "process",
         "prepare", "refresh", "commit", "unsure", "published"}

NoWork == [f \in {} |-> 0]
NoTable == [version |-> 0, fields |-> FALSE, rows |-> [f \in {} |-> 0]]
Idle == [pc |-> "idle", pinned |-> NoTable, seen |-> NoTable, work |-> NoWork,
         todo |-> {}, cands |-> [f \in {} |-> 0], clean |-> {}, left |-> 0]

IsDriver(r) ==
  /\ DOMAIN r = DOMAIN Idle
  /\ r.pc \in Step /\ IsTable(r.pinned) /\ IsTable(r.seen)
  /\ IsWorkspace(r.work) /\ r.todo \subseteq Fragment
  /\ PerFragment(r.cands, Candidate)
  /\ \A w \in r.clean : IsWorkspace(w)
  /\ r.left \in Nat

TypeOK ==
  /\ IsTable(table) /\ \A p \in proofs : IsProof(p)
  /\ \A w \in manifests \cup marks \cup orphaned \cup published : IsWorkspace(w)
  /\ \A r \in staged : /\ r = <<r[1], r[2], r[3]>>
                      /\ IsWorkspace(r[1]) /\ r[2] \in Fragment /\ r[3] \in Driver
  /\ DOMAIN driver = Driver /\ \A d \in Driver : IsDriver(driver[d])
  /\ crashes \in Nat

Appended(dup) == [layout |-> 0, dup |-> dup, owned |-> None, other |-> 0]

Init ==
  /\ table = [version |-> 1, fields |-> FALSE,
              rows |-> [f \in 1..Initial |-> Appended(FALSE)]]
  /\ proofs = {} /\ manifests = {} /\ marks = {} /\ staged = {} /\ orphaned = {}
  /\ driver = [d \in Driver |-> Idle]
  /\ crashes = 0 /\ published = {}

DriverTo(d, r) == driver' = [driver EXCEPT ![d] = r]

\* An error ends the run and leaves durable state alone; it can be run again.
Fails(d) == DriverTo(d, Idle)

-----------------------------------------------------------------------------
(***************************************************************************)
(* Opening the input and reconciling workspaces.                           *)
(***************************************************************************)
Pending(t) == {f \in DOMAIN t.rows : t.rows[f].owned = None}

\* resolve_workspace of a selection.
WorkspaceOf(t, S) == [f \in S |-> t.rows[f].layout]

\* register_fields: the first run adds the columns, later ones find them.
Registered(t) ==
  IF t.fields THEN t ELSE [t EXCEPT !.fields = TRUE, !.version = @ + 1]

\* input_fingerprint of the complete input.
InputOf(t) == WorkspaceOf(t, DOMAIN t.rows)

\* input_is_validated, or validating the pinned rows now finds them unique.
Validated(t) ==
  \/ \E p \in proofs : p.at <= t.version /\ p.input = InputOf(t)
  \/ \A f \in DOMAIN t.rows : ~t.rows[f].dup

\* open_enrichment_input registers, pins the latest version and validates it.
Open(d) ==
  /\ driver[d].pc = "idle"
  /\ table' = Registered(table)
  /\ \/ /\ Validated(table')
        /\ DriverTo(d, [Idle EXCEPT !.pc = "opened", !.pinned = table'])
     \/ ~Validated(table') /\ Fails(d)
  /\ UNCHANGED <<proofs, storage, crashes, published>>

\* find_transaction among the versions retained, in (after, upto].
Receipts(work, after, upto) ==
  {p \in proofs : p.work = work /\ after < p.at /\ p.at <= upto}

\* The selection's input files are still the recorded ones.
Matches(t, w) == DOMAIN w \subseteq DOMAIN t.rows /\ WorkspaceOf(t, DOMAIN w) = w

\* The newest receipt's files are still the canonical ones.
Canonical(t, P) ==
  \E p \in P : /\ \A q \in P : q.at <= p.at
               /\ \A f \in DOMAIN p.work : t.rows[f].owned = p.files[f]

\* A terminal selection taken for published without its receipt.
SelectionStateUnproven(t, w) ==
  CASE ~Matches(t, w) -> "rejected"
    [] Matches(t, w) /\ DOMAIN w \subseteq Pending(t) -> "unfinished"
    [] Matches(t, w) /\ ~(DOMAIN w \subseteq Pending(t)) -> "verified"

\* _selection_state of a discovered workspace against the pinned table.
SelectionState(t, w) ==
  LET P == Receipts(w, 0, t.version)
      remaining == DOMAIN w \cap Pending(t)
  IN CASE ~Matches(t, w) -> "rejected"
       [] Matches(t, w) /\ remaining # {} ->
            IF remaining = DOMAIN w THEN "unfinished" ELSE "rejected"
       [] Matches(t, w) /\ remaining = {} /\ P # {} ->
            IF Canonical(t, P) THEN "verified" ELSE "rejected"
       [] OTHER -> "unproven"

\* A new selection: the lowest pending fragments, up to the limit.
Lowest(S, k) == {f \in S : Cardinality({g \in S : g < f}) < k}

\* Selecting without resuming what was left unfinished.
SelectionsAfresh(t, active) ==
  {WorkspaceOf(t, Lowest(Pending(t), k)) : k \in Limits}

\* An unfinished selection is resumed as it was saved.
Selections(t, active) ==
  IF active # {} THEN active
  ELSE {WorkspaceOf(t, Lowest(Pending(t), k)) : k \in Limits}

\* reconcile_and_select_attempt: every workspace is classified before any is
\* removed; a contradiction, or two unfinished selections, fail the run.
Reconcile(d) ==
  /\ driver[d].pc = "opened"
  /\ LET t == driver[d].pinned
         In(state) == {w \in manifests : SelectionState(t, w) = state}
         active == In("unfinished")
     IN \/ /\ In("rejected") # {} \/ Cardinality(active) > 1
           /\ Fails(d)
        \/ /\ In("rejected") = {} /\ Cardinality(active) <= 1
           /\ \E work \in Selections(t, active) :
                DriverTo(d, [driver[d] EXCEPT !.pc = "cleaning", !.work = work,
                                              !.clean = In("verified")])
  /\ UNCHANGED <<table, proofs, storage, crashes, published>>

\* Nothing looks for a workspace without a manifest: discover lists manifests.
Orphans(w) ==
  {v \in {w} : v \notin manifests' /\ (v \in marks' \/ \E r \in staged' : r[1] = v)}

\* remove_prefix raised, leaving any part of the workspace behind.
RemovedPartly(w) ==
  /\ "cleanup" \in Faults
  /\ manifests' \in {manifests, manifests \ {w}}
  /\ marks' \in {marks, marks \ {w}}
  /\ \E S \in SUBSET DOMAIN w : staged' = {r \in staged : r[1] # w \/ r[2] \in S}
  /\ orphaned' = orphaned \cup Orphans(w)

\* Only the manifest, which is all that discover looks at.
RemovedManifest(w) ==
  manifests' = manifests \ {w} /\ UNCHANGED <<marks, staged, orphaned>>

\* remove_prefix.
RemovedWhole(w) ==
  /\ manifests' = manifests \ {w} /\ marks' = marks \ {w}
  /\ staged' = {r \in staged : r[1] # w}
  /\ UNCHANGED orphaned

\* Cleanup is best effort.
Removed(w) == RemovedWhole(w) \/ RemovedPartly(w)

CleanVerified(d) ==
  /\ driver[d].pc = "cleaning"
  /\ \E w \in driver[d].clean :
       /\ Removed(w)
       /\ DriverTo(d, [driver[d] EXCEPT !.clean = @ \ {w}])
  /\ UNCHANGED <<table, proofs, crashes, published>>

\* With nothing selected there is nothing to publish.
Selected(d) ==
  /\ driver[d].pc = "cleaning" /\ driver[d].clean = {}
  /\ IF driver[d].work = NoWork THEN DriverTo(d, Idle)
     ELSE DriverTo(d, [driver[d] EXCEPT !.pc = "ensure"])
  /\ UNCHANGED <<table, proofs, storage, crashes, published>>

\* The manifest is durable before processing starts.
Ensure(d) ==
  /\ driver[d].pc = "ensure"
  /\ manifests' = manifests \cup {driver[d].work}
  /\ DriverTo(d, [driver[d] EXCEPT !.pc = "start"])
  /\ UNCHANGED <<table, proofs, marks, staged, orphaned, crashes, published>>

-----------------------------------------------------------------------------
(***************************************************************************)
(* Processing: Ray stages what its checkpoint does not list.               *)
(***************************************************************************)
Copies(w, f) == {r \in staged : r[1] = w /\ r[2] = f}

\* Every selected fragment is staged exactly once (prepare_fragment).
Covered(w, S) == \A f \in S : Cardinality(Copies(w, f)) = 1

\* A valid marker skips the plan; otherwise Ray loads the checkpoint once.
Start(d) ==
  /\ driver[d].pc = "start"
  /\ LET w == driver[d].work
     IN DriverTo(d, IF w \in marks THEN [driver[d] EXCEPT !.pc = "prepare"]
                    ELSE [driver[d] EXCEPT
                            !.pc = "process",
                            !.todo = {f \in DOMAIN w : Copies(w, f) = {}}])
  /\ UNCHANGED <<table, proofs, storage, crashes, published>>

\* Results are durable before their IDs are checkpointed, and Ray reconciles
\* a write that was interrupted.
Process(d) ==
  /\ driver[d].pc = "process"
  /\ \E f \in driver[d].todo :
       /\ staged' = staged \cup {<<driver[d].work, f, d>>}
       /\ DriverTo(d, [driver[d] EXCEPT !.todo = @ \ {f}])
  /\ UNCHANGED <<table, proofs, manifests, marks, orphaned, crashes, published>>

\* Completion recorded when the write starts.
ProcessedAtOnce(d) == TRUE

Processed(d) == driver[d].todo = {}

\* record_completion, whose failure is only a warning.
Complete(d) ==
  /\ driver[d].pc = "process" /\ Processed(d)
  /\ \/ marks' = marks \cup {driver[d].work}
     \/ "marker" \in Faults /\ UNCHANGED marks
  /\ DriverTo(d, [driver[d] EXCEPT !.pc = "prepare"])
  /\ UNCHANGED <<table, proofs, manifests, staged, orphaned, crashes, published>>

-----------------------------------------------------------------------------
(***************************************************************************)
(* Publication: commit_fragments.                                          *)
(***************************************************************************)
\* Column files for fragments of one version of the table.
Prepared(d, t, S) ==
  [f \in S |-> [source |-> t.rows[f], file |-> [by |-> d, at |-> t.version]]]

\* Missing, duplicate or misaligned results fail the run.
Prepare(d) ==
  /\ driver[d].pc = "prepare"
  /\ LET w == driver[d].work
     IN \/ /\ Covered(w, DOMAIN w)
           /\ DriverTo(d, [driver[d] EXCEPT
                             !.pc = "refresh", !.left = Attempts,
                             !.cands = Prepared(d, driver[d].pinned, DOMAIN w)])
        \/ ~Covered(w, DOMAIN w) /\ Fails(d)
  /\ UNCHANGED <<table, proofs, storage, crashes, published>>
\* Input files not looked at again.
InputsAssumed(d, t) == TRUE

\* verify_inputs: the selected input files are those that were pinned.
InputsHeld(d, t) ==
  \A f \in DOMAIN driver[d].work :
    t.rows[f].layout = driver[d].pinned.rows[f].layout

\* The owned columns are those that were pinned.
OwnedHeld(d, t) ==
  \A f \in DOMAIN driver[d].work :
    t.rows[f].owned = driver[d].pinned.rows[f].owned

\* This publication's receipt, since the pinned version.
Receipted(d, t) ==
  Receipts(driver[d].work, driver[d].pinned.version, t.version) # {}

\* A receipt believed without comparing the files.
PublicationByReceipt(d, t) == InputsHeld(d, t)

\* _verify_publication: the canonical files are the ones prepared here.
Publication(d, t) ==
  /\ InputsHeld(d, t)
  /\ \A f \in DOMAIN driver[d].work :
       t.rows[f].owned = driver[d].cands[f].file

\* Files prepared once and committed whatever happened to the fragment since.
StaleNever(d, t) == {}

\* Candidates built from other files than the fragment has now.
Stale(d, t) ==
  {f \in DOMAIN driver[d].work : driver[d].cands[f].source # t.rows[f]}

\* _refresh_candidates rebuilds the stale ones at the version just read.
Refreshed(d, t) ==
  [f \in DOMAIN driver[d].work |->
     IF f \in Stale(d, t) THEN Prepared(d, t, {f})[f] ELSE driver[d].cands[f]]

\* What one try at committing does before it commits.
Refresh(d) ==
  /\ driver[d].pc = "refresh"
  /\ LET t == table
         proven == Receipted(d, t)
         fresh == /\ ~proven /\ InputsHeld(d, t) /\ OwnedHeld(d, t)
                  /\ Covered(driver[d].work, Stale(d, t))
     IN \/ /\ proven /\ Publication(d, t)
           /\ DriverTo(d, [driver[d] EXCEPT !.pc = "published"])
        \/ /\ fresh
           /\ DriverTo(d, [driver[d] EXCEPT !.pc = "commit", !.seen = t,
                                            !.cands = Refreshed(d, t)])
        \/ /\ ~fresh /\ ~(proven /\ Publication(d, t))
           /\ Fails(d)
  /\ UNCHANGED <<table, proofs, storage, crashes, published>>

\* Validation evidence for the version refreshed against, not the one pinned.
EvidenceOfSeen(d) == InputOf(driver[d].seen)

\* The receipt carries the fingerprint of the input that was validated.
Evidence(d) == InputOf(driver[d].pinned)

\* Lance's optimistic commit: another transaction since the version read
\* touched one of the fragments.
Conflict(d) ==
  \E f \in DOMAIN driver[d].work : table.rows[f] # driver[d].seen.rows[f]

\* Lance replaces the metadata of the updated fragments in a new version.
Commit(d) ==
  /\ driver[d].pc = "commit" /\ ~Conflict(d)
  /\ LET w == driver[d].work
         cands == driver[d].cands
         new == [f \in DOMAIN w |-> [cands[f].source EXCEPT !.owned = cands[f].file]]
     IN /\ table' = [table EXCEPT !.version = @ + 1,
                       !.rows = [f \in DOMAIN @ |-> IF f \in DOMAIN w THEN new[f]
                                                    ELSE @[f]]]
        /\ proofs' = proofs \cup {[at |-> table.version + 1, work |-> w,
                                   input |-> Evidence(d),
                                   files |-> [f \in DOMAIN w |-> cands[f].file]]}
        /\ published' = published \cup {w}
  /\ \/ DriverTo(d, [driver[d] EXCEPT !.pc = "published"])
     \/ "lost" \in Faults /\ DriverTo(d, [driver[d] EXCEPT !.pc = "unsure"])
  /\ UNCHANGED <<storage, crashes>>

\* It may refuse whenever the version moved.
CommitRefused(d) ==
  /\ driver[d].pc = "commit"
  /\ \/ table.version # driver[d].seen.version
     \/ "refused" \in Faults
  /\ DriverTo(d, [driver[d] EXCEPT !.pc = "unsure"])
  /\ UNCHANGED <<table, proofs, storage, crashes, published>>

\* do_with_retries gives up after commit_attempts tries.
Retries(d) ==
  IF driver[d].left = 1 THEN Fails(d)
  ELSE DriverTo(d, [driver[d] EXCEPT !.pc = "refresh", !.left = @ - 1])

\* The handler of a commit that raised looks for the receipt in the latest
\* version; when that cannot be opened either, the next try does.
Unsure(d) ==
  /\ driver[d].pc = "unsure"
  /\ \/ /\ Receipted(d, table) /\ Publication(d, table)
        /\ DriverTo(d, [driver[d] EXCEPT !.pc = "published"])
     \/ Receipted(d, table) /\ ~Publication(d, table) /\ Fails(d)
     \/ ~Receipted(d, table) /\ Retries(d)
     \/ "latest" \in Faults /\ Retries(d)
  /\ UNCHANGED <<table, proofs, storage, crashes, published>>

\* The published workspace is removed and the run is over.
Cleanup(d) ==
  /\ driver[d].pc = "published"
  /\ Removed(driver[d].work)
  /\ DriverTo(d, Idle)
  /\ UNCHANGED <<table, proofs, crashes, published>>

-----------------------------------------------------------------------------
(***************************************************************************)
(* Everybody else.                                                         *)
(***************************************************************************)
\* The driver process, or its job, dies.
Crash(d) ==
  /\ driver[d].pc # "idle" /\ crashes < Crashes
  /\ crashes' = crashes + 1
  /\ DriverTo(d, Idle)
  /\ UNCHANGED <<table, proofs, storage, published>>

\* Another writer's Lance transaction.
Written(rows) ==
  /\ table' = [table EXCEPT !.version = @ + 1, !.rows = rows]
  /\ UNCHANGED <<proofs, storage, driver, crashes, published>>

\* A producer appends a fragment.
Append ==
  LET f == Cardinality(DOMAIN table.rows) + 1
  IN /\ f \in Fragment
     /\ \E dup \in {FALSE} \cup {x \in {TRUE} : "duplicate" \in Faults} :
          Written([g \in 1..f |-> IF g = f THEN Appended(dup) ELSE table.rows[g]])

\* Another recipe fills its own columns of a fragment.
Annotate(f) ==
  /\ table.rows[f].other < Edits
  /\ Written([table.rows EXCEPT ![f].other = @ + 1])

\* Somebody fills, or replaces, the owned columns without this protocol.
Overwrite(f) ==
  /\ "overwrite" \in Faults /\ table.fields
  /\ table.rows[f].owned # Foreign
  /\ Written([table.rows EXCEPT ![f].owned = Foreign])

\* The input files of a fragment are rewritten under the same number.
Relayout(f) ==
  /\ "relayout" \in Faults
  /\ table.rows[f].layout = 0
  /\ Written([table.rows EXCEPT ![f].layout = 1])

\* Old versions are removed, with the receipts their transactions carry.
Prune ==
  /\ "prune" \in Faults
  /\ \E p \in proofs :
       /\ p.at < table.version
       /\ proofs' = {q \in proofs : q.at > p.at}
  /\ UNCHANGED <<table, storage, driver, crashes, published>>

DriverStep(d) ==
  \/ Open(d) \/ Reconcile(d) \/ CleanVerified(d) \/ Selected(d) \/ Ensure(d)
  \/ Start(d) \/ Process(d) \/ Complete(d)
  \/ Prepare(d) \/ Refresh(d) \/ Commit(d) \/ CommitRefused(d) \/ Unsure(d)
  \/ Cleanup(d)

OtherStep ==
  \/ Append \/ Prune
  \/ \E f \in DOMAIN table.rows : Annotate(f) \/ Overwrite(f) \/ Relayout(f)

Next ==
  \/ \E d \in Driver : DriverStep(d) \/ Crash(d)
  \/ OtherStep

Spec == Init /\ [][Next]_vars

\* A driver that is running goes on, and an operator runs it again; Lance
\* does not refuse, and storage does not fail, forever.
Fairness ==
  \A d \in Driver :
    /\ WF_vars(DriverStep(d))
    /\ SF_vars(Commit(d))
    /\ SF_vars(CleanVerified(d) /\ \E w \in driver[d].clean : RemovedWhole(w))
    /\ SF_vars(Cleanup(d) /\ RemovedWhole(driver[d].work))

FairSpec == Spec /\ Fairness
=============================================================================
