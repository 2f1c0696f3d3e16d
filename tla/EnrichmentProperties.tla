----------------------- MODULE EnrichmentProperties -----------------------
(***************************************************************************)
(* What checkpointed enrichment must guarantee.                            *)
(***************************************************************************)
EXTENDS Enrichment

EnrichedTable == INSTANCE EnrichedTable WITH
  Results <- [by: Driver, at: Nat], rows <- table.rows

(***************************************************************************)
(* Enrichment implements the promise of EnrichedTable: commit_fragments    *)
(* publishes a selection at once, never over results already there, from   *)
(* input files that are still the selection's, and with every column other *)
(* recipes wrote in the meantime; appended fragments are never lost.       *)
(***************************************************************************)
ImplementsTable == EnrichedTable!Spec

(***************************************************************************)
(* A run that reports its results published finds in the table the files   *)
(* its own publication prepared, or what a writer outside the protocol     *)
(* put over them since (_verify_publication, after a commit that raised).  *)
(***************************************************************************)
ResultsAccepted ==
  \A d \in Driver : driver[d].pc = "published" =>
    \A f \in DOMAIN driver[d].work :
      table.rows[f].owned \in {driver[d].cands[f].file, Foreign}

(***************************************************************************)
(* A workspace, with the results staged in it, is only removed once its    *)
(* own results have been committed: neither terminal values somebody else  *)
(* wrote, nor a lost receipt, authorise its removal (_selection_state,     *)
(* cleanup).                                                               *)
(***************************************************************************)
WorkspaceOutlivesPublication ==
  [][/\ manifests \ manifests' \subseteq published
     /\ \A r \in staged \ staged' : r[1] \in published]_vars

(***************************************************************************)
(* A single driver never has two selections in flight: what a run that     *)
(* died left unfinished is resumed before anything new is selected         *)
(* (reconcile_and_select_attempt, which refuses to run otherwise).         *)
(***************************************************************************)
OneUnfinished ==
  \A v, w \in manifests :
    /\ DOMAIN v \cap Pending(table) # {} /\ DOMAIN w \cap Pending(table) # {}
    => v = w

(***************************************************************************)
(* Validation evidence is only recorded for inputs in which every row ID   *)
(* is unique: fragments appended between validation and publication are    *)
(* not vouched for (publish_enrichment, input_is_validated).               *)
(***************************************************************************)
EvidenceIsTrue ==
  \A p \in proofs : \A f \in DOMAIN p.input : ~table.rows[f].dup

(***************************************************************************)
(* As long as operators rerun the driver, every fragment gets its results, *)
(* whatever crashes, lost answers and other writers come in between.       *)
(***************************************************************************)
EverythingEnriched ==
  \A f \in Fragment :
    (f \in DOMAIN table.rows) ~> (f \in DOMAIN table.rows /\ f \notin Pending(table))

\* The workspaces of which a manifest, a marker or a staged result is left.
Remaining == manifests \cup marks \cup {r[1] : r \in staged}

(***************************************************************************)
(* No workspace outlives its publication forever, its manifest, marker or  *)
(* results: what cleanup left behind a later run recognises by its receipt *)
(* and removes.  Except where a failed cleanup took the manifest first:    *)
(* discover finds workspaces by their manifests, and the rest of such a    *)
(* one stays (orphaned).                                                   *)
(***************************************************************************)
WorkspacesRemoved ==
  (Remaining \ orphaned # {}) ~> (Remaining \ orphaned = {})
=============================================================================
