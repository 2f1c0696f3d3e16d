--------------------- MODULE ClipPublicationProperties ---------------------
(***************************************************************************)
(* What the publication of clips promises.                                 *)
(***************************************************************************)
EXTENDS ClipPublication

Canonical == Rows(Len(table))

\* The media, action and sidecar a row refers to.
Needs == [id \in Id |-> {<<"clip", id>>, <<"sidecar", id>>,
                         <<"action", ActionOf[id[1]]>>}]

\* As long as runs do not overlap, no clip is in two fragments, whatever died,
\* was run again, or lost its commit's answer (append_row_fragment resolves an
\* ambiguous commit by the presence of its rows).
EachClipOnce ==
  ~overlap =>
    \A i, j \in 1..Len(table) : i # j => table[i] \cap table[j] = {}

\* Every row's media, action and sidecar are stored, though views of a span
\* share an action file and any write may fail or be repeated (process_batch
\* reports a success only after all three).
RowsAreBacked == \A id \in Canonical : Needs[id] \subseteq stored

\* As long as runs do not overlap, the table never mixes media contracts: a
\* new release refuses an old table even though none of its new clip_ids is
\* in it (_validate_committed_versions).
OneContract ==
  ~overlap => \A x, y \in Canonical : x[2] = y[2]

\* The "atomic append invariant" and the uniqueness the code checks for are
\* only ever found broken after runs overlapped; deaths and lost answers do
\* not leave a part of a candidate in the table (append_row_fragment, _scan_committed).
NeverTorn == \A d \in Driver : run[d].at = "violated" => overlap

\* A run that returned has every clip it discovered in the table, but for the
\* ones it counted as failed: nothing is left in a buffer or taken for granted
\* (_publish_outcomes, also with a rival).
RunAccounts ==
  \A d \in Driver : run[d].at = "returned" =>
    Ids(d, Wanted(d)) \subseteq Canonical \cup Ids(d, run[d].failed)

\* Where only one driver ever ran, the errors.json of a run that returned
\* names just the discovered clips that are not in the table, also ones that
\* earlier runs published or reported (run replaces the report after commits).
ReportIsCurrent ==
  \A d \in Driver :
    run[d].at = "returned" /\ (\A e \in Driver \ {d} : run[e].at = "idle")
      => errors = Ids(d, Wanted(d)) \ Canonical

\* Even when runs overlap, no clip gets more rows than there are rivals: each
\* can only have been between its check and its commit, once, and neither a
\* retry, a lost answer nor a rerun adds another (append_row_fragment).
OnceForEachRival ==
  \A id \in Canonical :
    Cardinality({i \in 1..Len(table) : id \in table[i]}) <= Cardinality(Driver)

\* No step, a bootstrap racing another run's included, takes rows away or
\* changes a fragment (open_or_create_table).
TableGrows ==
  [][/\ Len(table) <= Len(table')
     /\ \A i \in 1..Len(table) : table'[i] = table[i]]_vars

\* With one driver the table is what its readers rely on: whole fragments of
\* new clips of one contract, backed by files that stay.
Table == INSTANCE ClipTable
  WITH Contract <- [id \in Id |-> id[2]]
ImplementsTable == Table!Spec

\* If the recipe is run again on all inputs, every clip is published in the
\* end, whatever failed before (reconcile_batches offers what is missing again).
AllPublished ==
  [](release = 1) => \A c \in Clip : <>(<<c, 1>> \in Canonical)
=============================================================================
