-------------------------- MODULE EnrichmentProofs --------------------------
(***************************************************************************)
(* Theorems about Enrichment for any number of drivers and fragments, any  *)
(* limits, crashes and faults.                                             *)
(***************************************************************************)
EXTENDS EnrichmentProperties, FiniteSetTheorems, TLAPS

Result == [by: Driver, at: Nat]

-----------------------------------------------------------------------------
(***************************************************************************)
(* The inductive invariant.                                                *)
(***************************************************************************)
\* Fragments are numbered from one without a gap.
Numbered == \E n \in 0..MaxFragment : DOMAIN table.rows = 1..n

\* A version some run validated: every ID in it was, and is, unique.
Unique(rows) ==
  /\ rows \subseteq DOMAIN table.rows
  /\ \A f \in rows : ~table.rows[f].dup

\* A receipt vouches for an input that was validated, and for a selection that
\* was published.
Vouched == \A p \in proofs : Unique(DOMAIN p.input) /\ p.work \in published

\* A selection names the input files of pending fragments of one version.
SelectedFrom(t, w) ==
  /\ DOMAIN w \subseteq Pending(t)
  /\ w = WorkspaceOf(t, DOMAIN w)

\* What a run in record r relies on at each step.
Sound(r) ==
  r.pc # "idle" =>
    /\ Unique(DOMAIN r.pinned.rows)
    /\ r.pc # "opened" => SelectedFrom(r.pinned, r.work) /\ r.clean \subseteq published
    /\ r.pc \notin {"opened", "cleaning"} => DOMAIN r.work # {}
    /\ r.pc \in {"refresh", "commit", "unsure", "published"} =>
         /\ DOMAIN r.cands = DOMAIN r.work /\ r.left # 0
         /\ \A f \in DOMAIN r.work : r.cands[f].file \in Result
    /\ r.pc = "commit" =>
         \A f \in DOMAIN r.work :
           /\ r.cands[f].source = r.seen.rows[f]
           /\ r.seen.rows[f].layout = r.work[f]
           /\ r.seen.rows[f].owned = None
    /\ r.pc = "published" =>
         /\ r.work \in published
         /\ \A f \in DOMAIN r.work :
              table.rows[f].owned \in {r.cands[f].file, Foreign}

EnrichmentInv ==
  TypeOK /\ Numbered /\ Vouched /\ \A d \in Driver : Sound(driver[d])

-----------------------------------------------------------------------------
(***************************************************************************)
(* The values the driver computes with.                                    *)
(***************************************************************************)
Fields == {"pc", "pinned", "seen", "work", "todo", "cands", "clean", "left"}

\* A run that has not begun remembers nothing.
LEMMA IdleType == DOMAIN Idle = Fields /\ IsDriver(Idle) /\ Idle.pc = "idle"
<1>1. DOMAIN Idle = Fields
  BY DEF Idle, Fields
<1>2. IsTable(NoTable)
  BY DEF NoTable, IsTable, PerFragment
<1>3. IsWorkspace(NoWork)
  BY DEF NoWork, IsWorkspace, PerFragment
<1>4. PerFragment([f \in {} |-> 0], Candidate)
  BY DEF PerFragment
<1> HIDE DEF NoTable, NoWork
<1>5. /\ Idle.pc = "idle" /\ Idle.pinned = NoTable /\ Idle.seen = NoTable
      /\ Idle.work = NoWork /\ Idle.todo = {} /\ Idle.cands = [f \in {} |-> 0]
      /\ Idle.clean = {} /\ Idle.left = 0
  BY DEF Idle
<1> QED
  BY <1>1, <1>2, <1>3, <1>4, <1>5 DEF IsDriver, Step

\* Owned-column files that are somebody's results are not the absence of any.
LEMMA ResultsAreFiles ==
  /\ Result \subseteq File /\ None \in File /\ Foreign \in File
  /\ None \notin Result /\ Foreign \notin Result /\ None # Foreign
BY EnrichmentAssumption DEF Result, File, None, Foreign

\* A selection of a table's fragments is a workspace (resolve_workspace).
LEMMA WorkspaceType ==
  ASSUME NEW t, IsTable(t), NEW S, S \subseteq DOMAIN t.rows
  PROVE  IsWorkspace(WorkspaceOf(t, S)) /\ DOMAIN WorkspaceOf(t, S) = S
BY DEF IsTable, PerFragment, Data, WorkspaceOf, IsWorkspace

\* The files a driver prepares for fragments of a table.
LEMMA PreparedType ==
  ASSUME NEW t, IsTable(t), NEW S, S \subseteq DOMAIN t.rows, NEW d \in Driver
  PROVE  /\ DOMAIN Prepared(d, t, S) = S
         /\ PerFragment(Prepared(d, t, S), Candidate)
         /\ \A f \in S : /\ Prepared(d, t, S)[f] \in Candidate
                        /\ Prepared(d, t, S)[f].source = t.rows[f]
                        /\ Prepared(d, t, S)[f].file \in Result
<1>1. DOMAIN Prepared(d, t, S) = S
  BY DEF Prepared
<1>2. ASSUME NEW f \in S
      PROVE  /\ Prepared(d, t, S)[f] = [source |-> t.rows[f],
                                        file |-> [by |-> d, at |-> t.version]]
             /\ t.rows[f] \in Data
             /\ [by |-> d, at |-> t.version] \in Result
  BY DEF Prepared, IsTable, PerFragment, Result
<1>3. \A f \in S : /\ Prepared(d, t, S)[f] \in Candidate
                   /\ Prepared(d, t, S)[f].source = t.rows[f]
                   /\ Prepared(d, t, S)[f].file \in Result
  <2> TAKE f \in S
  <2> HIDE DEF Prepared
  <2>1. PICK row \in Data, file \in Result :
          Prepared(d, t, S)[f] = [source |-> row, file |-> file] /\ row = t.rows[f]
    BY <1>2
  <2>2. file \in File
    BY <2>1, ResultsAreFiles
  <2> QED
    BY <2>1, <2>2 DEF Candidate
<1>4. S \subseteq Fragment
  BY DEF IsTable, PerFragment
<1>5. Prepared(d, t, S) \in [S -> Candidate]
  BY <1>3 DEF Prepared
<1> QED
  BY <1>1, <1>3, <1>4, <1>5 DEF PerFragment

\* Registering the output columns touches no fragment (register_fields).
LEMMA RegisteredType ==
  ASSUME NEW t, IsTable(t)
  PROVE  IsTable(Registered(t)) /\ Registered(t).rows = t.rows
<1>1. CASE t.fields
  BY <1>1 DEF Registered
<1>2. CASE ~t.fields
  <2>1. DOMAIN t = {"version", "fields", "rows"} /\ t.version + 1 \in Nat
    BY DEF IsTable
  <2>2. Registered(t) = [t EXCEPT !.fields = TRUE, !.version = @ + 1]
    BY <1>2 DEF Registered
  <2>3. /\ Registered(t).rows = t.rows /\ DOMAIN Registered(t) = DOMAIN t
        /\ Registered(t).version = t.version + 1
    BY <2>1, <2>2
  <2>4. Registered(t).fields = TRUE
    BY <2>1, <2>2
  <2> QED
    BY <2>1, <2>3, <2>4 DEF IsTable
<1> QED
  BY <1>1, <1>2

\* One driver's new record.
LEMMA DriverUpdate ==
  ASSUME TypeOK, NEW d \in Driver, NEW r, DriverTo(d, r)
  PROVE  /\ DOMAIN driver' = Driver /\ driver'[d] = r
         /\ \A e \in Driver \ {d} : driver'[e] = driver[e]
BY DEF TypeOK, DriverTo

-----------------------------------------------------------------------------
(***************************************************************************)
(* The table's side of a step.                                             *)
(***************************************************************************)
\* What holds of the table from one step to the next: fragments stay, IDs stay
\* as unique as they were, filled columns are only ever replaced by a writer
\* outside the protocol.
Kept ==
  /\ DOMAIN table.rows \subseteq DOMAIN table'.rows
  /\ \A f \in DOMAIN table.rows :
       /\ table'.rows[f].dup = table.rows[f].dup
       /\ table.rows[f].owned # None =>
            table'.rows[f].owned \in {table.rows[f].owned, Foreign}
  /\ published \subseteq published'

TableStep == IsTable(table') /\ Numbered' /\ Kept

\* What the driver of a commit that meets no conflict finds in the table.
LEMMA CommitFinds ==
  ASSUME EnrichmentInv, NEW d \in Driver, driver[d].pc = "commit", ~Conflict(d)
  PROVE  \A f \in DOMAIN driver[d].work :
           /\ f \in DOMAIN table.rows
           /\ driver[d].cands[f].source = table.rows[f]
           /\ driver[d].cands[f].file \in Result
           /\ table.rows[f].layout = driver[d].work[f]
           /\ table.rows[f].owned = None
<1> DEFINE r == driver[d]
<1>1. Sound(r) /\ r.pc = "commit"
  BY DEF EnrichmentInv
<1> HIDE DEF r
<1>2. \A f \in DOMAIN r.work : f \in DOMAIN table.rows
  BY <1>1 DEF Sound, SelectedFrom, Pending, Unique
<1>3. \A f \in DOMAIN r.work : table.rows[f] = r.seen.rows[f]
  BY DEF Conflict, r
<1>4. \A f \in DOMAIN r.work :
        /\ r.cands[f].source = r.seen.rows[f] /\ r.cands[f].file \in Result
        /\ r.seen.rows[f].layout = r.work[f] /\ r.seen.rows[f].owned = None
  BY <1>1 DEF Sound
<1> QED
  BY <1>2, <1>3, <1>4 DEF r

\* The table a commit leaves: the selection's fragments filled, nothing else.
CommittedRows(d) ==
  [f \in DOMAIN table.rows |->
     IF f \in DOMAIN driver[d].work
     THEN [table.rows[f] EXCEPT !.owned = driver[d].cands[f].file]
     ELSE table.rows[f]]

LEMMA CommitWrites ==
  ASSUME EnrichmentInv, NEW d \in Driver, Commit(d)
  PROVE  /\ table'.version = table.version + 1 /\ table'.fields = table.fields
         /\ DOMAIN table' = DOMAIN table /\ table'.rows = CommittedRows(d)
         /\ published' = published \cup {driver[d].work}
<1> DEFINE w == driver[d].work
           cands == driver[d].cands
           new == [f \in DOMAIN w |-> [cands[f].source EXCEPT !.owned = cands[f].file]]
<1>0. IsTable(table)
  BY DEF EnrichmentInv, TypeOK
<1>1. table' = [table EXCEPT !.version = @ + 1,
                  !.rows = [f \in DOMAIN @ |-> IF f \in DOMAIN w THEN new[f] ELSE @[f]]]
  BY DEF Commit
<1>2. \A f \in DOMAIN w : cands[f].source = table.rows[f]
  BY CommitFinds DEF Commit
<1>3. [f \in DOMAIN table.rows |-> IF f \in DOMAIN w THEN new[f] ELSE table.rows[f]]
        = CommittedRows(d)
  BY <1>2 DEF CommittedRows
<1>4. published' = published \cup {w}
  BY DEF Commit
<1> QED
  BY <1>0, <1>1, <1>3, <1>4 DEF IsTable

\* A write of one fragment keeps a table a table.
LEMMA RowsType ==
  ASSUME EnrichmentInv, DOMAIN table' = DOMAIN table, table'.version \in Nat,
         table'.fields = table.fields,
         NEW n \in 0..MaxFragment, DOMAIN table'.rows = 1..n,
         table'.rows \in [1..n -> Data]
  PROVE  IsTable(table') /\ Numbered'
<1>1. 1..n \subseteq Fragment
  BY EnrichmentAssumption DEF Fragment
<1> QED
  BY <1>1 DEF EnrichmentInv, TypeOK, IsTable, PerFragment, Numbered

\* A driver changes the table by registering its columns and by committing.
LEMMA DriverTable ==
  ASSUME EnrichmentInv, NEW d \in Driver, DriverStep(d)
  PROVE  \/ Open(d) /\ table' = Registered(table) /\ published' = published
         \/ Commit(d)
         \/ UNCHANGED <<table, published>>
BY DEF DriverStep, Open, Reconcile, CleanVerified, Selected, Ensure, Start, Process,
       Complete, Prepare, Refresh, CommitRefused, Unsure, Cleanup

\* An append takes the next number (a Lance append).
LEMMA NextNumber ==
  ASSUME EnrichmentInv
  PROVE  DOMAIN table.rows = 1..Cardinality(DOMAIN table.rows)
         /\ Cardinality(DOMAIN table.rows) \in Nat
<1>1. PICK n \in 0..MaxFragment : DOMAIN table.rows = 1..n
  BY DEF EnrichmentInv, Numbered
<1>2. n \in Nat
  BY <1>1, EnrichmentAssumption
<1>3. Cardinality(1..n) = n
  <2>1. Cardinality(1..n) = IF 1 > n THEN 0 ELSE n - 1 + 1
    BY <1>2, FS_Interval
  <2> QED
    BY <1>2, <2>1
<1> QED
  BY <1>1, <1>2, <1>3

\* Other writers append a fragment or write one that is there.
LEMMA OtherTable ==
  ASSUME EnrichmentInv, OtherStep
  PROVE  /\ published' = published
         /\ \/ UNCHANGED table
            \/ Append
            \/ \E f \in DOMAIN table.rows :
                 \E row \in Data :
                   /\ row \in {[table.rows[f] EXCEPT !.other = @ + 1],
                               [table.rows[f] EXCEPT !.owned = Foreign],
                               [table.rows[f] EXCEPT !.layout = 1]}
                   /\ Written([table.rows EXCEPT ![f] = row])
<1>1. \A f \in DOMAIN table.rows : table.rows[f] \in Data
  BY DEF EnrichmentInv, TypeOK, IsTable, PerFragment
<1>2. CASE Append
  BY <1>2 DEF Append, Written
<1>3. CASE Prune
  BY <1>3 DEF Prune
<1>4. ASSUME NEW f \in DOMAIN table.rows, Annotate(f) \/ Overwrite(f) \/ Relayout(f)
      PROVE  /\ published' = published
             /\ \E row \in Data :
                  /\ row \in {[table.rows[f] EXCEPT !.other = @ + 1],
                              [table.rows[f] EXCEPT !.owned = Foreign],
                              [table.rows[f] EXCEPT !.layout = 1]}
                  /\ Written([table.rows EXCEPT ![f] = row])
  <2>1. /\ [table.rows[f] EXCEPT !.other = @ + 1] \in Data
        /\ [table.rows[f] EXCEPT !.owned = Foreign] \in Data
        /\ [table.rows[f] EXCEPT !.layout = 1] \in Data
    BY <1>1, ResultsAreFiles DEF Data
  <2>2. CASE Annotate(f)
    BY <2>1, <2>2 DEF Annotate, Written
  <2>3. CASE Overwrite(f)
    BY <2>1, <2>3 DEF Overwrite, Written
  <2>4. CASE Relayout(f)
    BY <2>1, <2>4 DEF Relayout, Written
  <2> QED
    BY <1>4, <2>2, <2>3, <2>4
<1> QED
  BY <1>2, <1>3, <1>4 DEF OtherStep

\* Every step keeps the table in its type and what runs rely on.
LEMMA StepTable == ASSUME EnrichmentInv, [Next]_vars PROVE TableStep
<1>0. IsTable(table) /\ Numbered /\ EnrichmentAssumption
  BY EnrichmentAssumption DEF EnrichmentInv, TypeOK
<1>n. PICK n \in 0..MaxFragment : DOMAIN table.rows = 1..n
  BY <1>0 DEF Numbered
<1>d. \A f \in 1..n : table.rows[f] \in Data
  BY <1>0, <1>n DEF IsTable, PerFragment
<1>v. table.version \in Nat /\ table.version + 1 \in Nat /\ DOMAIN table = {"version", "fields", "rows"}
  BY <1>0 DEF IsTable
<1>1. CASE UNCHANGED <<table, published>>
  BY <1>0, <1>1 DEF TableStep, Numbered, Kept, IsTable
<1>2. CASE table' = Registered(table) /\ published' = published
  BY <1>0, <1>2, RegisteredType DEF TableStep, Numbered, Kept
<1>3. ASSUME NEW d \in Driver, Commit(d) PROVE TableStep
  <2>1. /\ table'.version = table.version + 1 /\ table'.fields = table.fields
        /\ DOMAIN table' = DOMAIN table /\ table'.rows = CommittedRows(d)
        /\ published' = published \cup {driver[d].work}
    BY <1>3, CommitWrites
  <2>2. \A f \in DOMAIN driver[d].work :
          driver[d].cands[f].file \in Result /\ table.rows[f].owned = None
    BY <1>3, CommitFinds DEF Commit
  <2>3. ASSUME NEW f \in 1..n
        PROVE  /\ table'.rows[f] \in Data /\ table'.rows[f].dup = table.rows[f].dup
               /\ table.rows[f].owned # None => table'.rows[f] = table.rows[f]
    <3>1. CASE f \in DOMAIN driver[d].work
      <4>1. table'.rows[f] = [table.rows[f] EXCEPT !.owned = driver[d].cands[f].file]
        BY <1>n, <2>1, <3>1 DEF CommittedRows
      <4>2. driver[d].cands[f].file \in File
        BY <2>2, <3>1, ResultsAreFiles
      <4> QED
        BY <1>d, <2>2, <3>1, <4>1, <4>2 DEF Data
    <3>2. CASE f \notin DOMAIN driver[d].work
      BY <1>n, <1>d, <2>1, <3>2 DEF CommittedRows
    <3> QED
      BY <3>1, <3>2
  <2>4. DOMAIN table'.rows = 1..n /\ table'.rows \in [1..n -> Data]
    BY <1>n, <2>1, <2>3 DEF CommittedRows
  <2>5. IsTable(table') /\ Numbered'
    BY <1>v, <2>1, <2>4, RowsType
  <2> QED
    BY <1>n, <2>1, <2>3, <2>4, <2>5 DEF TableStep, Kept
<1>4. CASE Append /\ published' = published
  <2>1. /\ n = Cardinality(DOMAIN table.rows) /\ n \in Nat
    <3>1. n \in Nat /\ Cardinality(1..n) = IF 1 > n THEN 0 ELSE n - 1 + 1
      BY <1>n, <1>0, FS_Interval DEF EnrichmentAssumption
    <3> QED
      BY <1>n, <3>1
  <2>2. PICK dup \in BOOLEAN :
          /\ n + 1 \in Fragment
          /\ Written([g \in 1..(n + 1) |-> IF g = n + 1 THEN Appended(dup)
                                         ELSE table.rows[g]])
    BY <1>4, <2>1 DEF Append
  <2>3. /\ table'.version = table.version + 1 /\ table'.fields = table.fields
        /\ DOMAIN table' = DOMAIN table
        /\ table'.rows = [g \in 1..(n + 1) |-> IF g = n + 1 THEN Appended(dup)
                                               ELSE table.rows[g]]
    BY <1>v, <2>2 DEF Written
  <2>4. Appended(dup) \in Data
    BY ResultsAreFiles DEF Appended, Data
  <2>5. /\ DOMAIN table'.rows = 1..(n + 1) /\ table'.rows \in [1..(n + 1) -> Data]
        /\ \A g \in 1..n : table'.rows[g] = table.rows[g]
    BY <1>d, <2>1, <2>3, <2>4
  <2>6. n + 1 \in 0..MaxFragment
    BY <2>1, <2>2, EnrichmentAssumption DEF Fragment
  <2>7. IsTable(table') /\ Numbered'
    BY <1>v, <2>3, <2>5, <2>6, RowsType
  <2> QED
    BY <1>4, <1>n, <2>1, <2>5, <2>7 DEF TableStep, Kept
<1>5. ASSUME NEW f \in DOMAIN table.rows, NEW row \in Data,
             row \in {[table.rows[f] EXCEPT !.other = @ + 1],
                      [table.rows[f] EXCEPT !.owned = Foreign],
                      [table.rows[f] EXCEPT !.layout = 1]},
             Written([table.rows EXCEPT ![f] = row])
      PROVE  TableStep
  <2>1. /\ table'.version = table.version + 1 /\ table'.fields = table.fields
        /\ DOMAIN table' = DOMAIN table /\ table'.rows = [table.rows EXCEPT ![f] = row]
        /\ published' = published
    BY <1>5, <1>v DEF Written
  <2>2. DOMAIN table'.rows = 1..n /\ table'.rows \in [1..n -> Data]
    BY <1>n, <1>d, <1>0, <2>1 DEF IsTable, PerFragment
  <2>3. IsTable(table') /\ Numbered'
    BY <1>v, <2>1, <2>2, RowsType
  <2>4. row.dup = table.rows[f].dup /\ row.owned \in {table.rows[f].owned, Foreign}
    BY <1>5, <1>n, <1>d DEF Data
  <2> QED
    BY <1>n, <2>1, <2>3, <2>4 DEF TableStep, Kept
<1>6. CASE \E d \in Driver : Crash(d)
  BY <1>1, <1>6 DEF Crash
<1>7. CASE UNCHANGED vars
  BY <1>1, <1>7 DEF vars
<1>8. CASE OtherStep
  BY <1>1, <1>4, <1>5, <1>8, OtherTable
<1> QED
  BY <1>1, <1>2, <1>3, <1>6, <1>7, <1>8, DriverTable DEF Next

-----------------------------------------------------------------------------
(***************************************************************************)
(* What a run relies on survives the steps of everybody else.              *)
(***************************************************************************)
\* IDs found unique stay unique.
LEMMA UniqueKept ==
  ASSUME Kept
  PROVE  \A rows : Unique(rows) => Unique(rows)'
BY DEF Kept, Unique

\* Neither does an appended fragment, another recipe's columns or another
\* driver's commit undo what a run has seen (_verify_publication).
LEMMA SoundKept ==
  ASSUME EnrichmentInv, [Next]_vars
  PROVE  \A r : Sound(r) => Sound(r)'
<1>1. TAKE r
<1>2. Kept /\ (Unique(DOMAIN r.pinned.rows) => Unique(DOMAIN r.pinned.rows)')
  BY StepTable, UniqueKept DEF TableStep
<1>3. ASSUME Sound(r), r.pc = "published"
      PROVE  \A f \in DOMAIN r.work :
               table'.rows[f].owned \in {r.cands[f].file, Foreign}
  <2>1. \A f \in DOMAIN r.work :
          /\ f \in DOMAIN table.rows /\ r.cands[f].file \in Result
          /\ table.rows[f].owned \in {r.cands[f].file, Foreign}
    BY <1>3 DEF Sound, SelectedFrom, Pending, Unique
  <2>2. \A f \in DOMAIN r.work : table.rows[f].owned # None
    BY <2>1, ResultsAreFiles
  <2> QED
    BY <1>2, <2>1, <2>2 DEF Kept
<1>4. published \subseteq published'
  BY <1>2 DEF Kept
<1> QED
  BY <1>2, <1>3, <1>4 DEF Sound, Unique

\* A receipt is one of a selection that was published.
LEMMA ReceiptsPublished ==
  ASSUME EnrichmentInv, NEW w, NEW after, NEW upto, Receipts(w, after, upto) # {}
  PROVE  w \in published
BY DEF EnrichmentInv, Vouched, Receipts

-----------------------------------------------------------------------------
(***************************************************************************)
(* Each step of a driver leaves it with a record it can rely on.           *)
(***************************************************************************)
Leaves(d) == \E r : DriverTo(d, r) /\ IsDriver(r) /\ Sound(r)'

\* An error leaves nothing to rely on.
LEMMA FailsLeaves == ASSUME NEW d, Fails(d) PROVE Leaves(d)
BY IdleType DEF Fails, Leaves, Sound

\* A validated input is one whose IDs are unique, whether a receipt says so or
\* the rows were looked at (input_is_validated).
LEMMA ValidatedUnique ==
  ASSUME EnrichmentInv, NEW t, t.rows = table.rows, Validated(t)
  PROVE  Unique(DOMAIN t.rows)
<1>1. CASE \A f \in DOMAIN t.rows : ~t.rows[f].dup
  BY <1>1 DEF Unique
<1>2. CASE \E p \in proofs : p.at <= t.version /\ p.input = InputOf(t)
  <2>1. PICK p \in proofs : p.input = InputOf(t)
    BY <1>2
  <2>2. DOMAIN p.input = DOMAIN t.rows
    BY <2>1 DEF InputOf, WorkspaceOf
  <2> QED
    BY <2>2 DEF EnrichmentInv, Vouched
<1> QED
  BY <1>1, <1>2 DEF Validated

LEMMA OpenLeaves ==
  ASSUME EnrichmentInv, NEW d \in Driver, [Next]_vars, Open(d)
  PROVE  Leaves(d)
<1>0. PICK t : t = table'
  OBVIOUS
<1>1. CASE Validated(t) /\ DriverTo(d, [Idle EXCEPT !.pc = "opened", !.pinned = t])
  <2> DEFINE r == [Idle EXCEPT !.pc = "opened", !.pinned = t]
  <2>0. DOMAIN Idle = Fields /\ IsDriver(Idle)
    BY IdleType
  <2>1. /\ DOMAIN r = Fields /\ r.pc = "opened" /\ r.pinned = t
        /\ r.seen = Idle.seen /\ r.work = Idle.work /\ r.todo = Idle.todo
        /\ r.cands = Idle.cands /\ r.clean = Idle.clean /\ r.left = Idle.left
    BY <2>0 DEF Fields
  <2> HIDE DEF r
  <2>2. t.rows = table.rows /\ IsTable(t)
    BY <1>0, RegisteredType DEF Open, EnrichmentInv, TypeOK
  <2>3. IsDriver(r)
    BY <2>0, <2>1, <2>2 DEF IsDriver, Step
  <2>4. Unique(DOMAIN t.rows)'
    BY <1>1, <2>2, ValidatedUnique, StepTable, UniqueKept DEF TableStep
  <2>5. Sound(r)'
    BY <2>1, <2>4 DEF Sound
  <2> QED
    BY <1>1, <2>3, <2>5 DEF Leaves, r
<1>2. CASE Fails(d)
  BY <1>2, FailsLeaves
<1> QED
  BY <1>0, <1>1, <1>2 DEF Open

\* A selection, saved or new, is of pending fragments as they were pinned.
LEMMA SelectionIsPending ==
  ASSUME NEW t, IsTable(t), NEW active, NEW work \in Selections(t, active),
         \A w \in active : IsWorkspace(w) /\ SelectionState(t, w) = "unfinished"
  PROVE  SelectedFrom(t, work) /\ IsWorkspace(work)
<1>1. CASE active # {}
  <2>1. /\ IsWorkspace(work) /\ SelectionState(t, work) = "unfinished"
    BY <1>1 DEF Selections
  <2>2. Matches(t, work) /\ DOMAIN work \cap Pending(t) = DOMAIN work
    BY <2>1 DEF SelectionState
  <2> QED
    BY <2>1, <2>2 DEF Matches, SelectedFrom
<1>2. CASE active = {}
  <2>1. PICK k \in Limits : work = WorkspaceOf(t, Lowest(Pending(t), k))
    BY <1>2 DEF Selections
  <2>2. Lowest(Pending(t), k) \subseteq Pending(t) /\ Pending(t) \subseteq DOMAIN t.rows
    BY DEF Lowest, Pending
  <2>3. IsWorkspace(work) /\ DOMAIN work = Lowest(Pending(t), k)
    BY <2>1, <2>2, WorkspaceType
  <2> QED
    BY <2>1, <2>2, <2>3 DEF SelectedFrom
<1> QED
  BY <1>1, <1>2

\* A workspace verified by its receipts was published.
LEMMA VerifiedPublished ==
  ASSUME EnrichmentInv, NEW t, NEW w, SelectionState(t, w) = "verified"
  PROVE  w \in published
<1>1. Receipts(w, 0, t.version) # {}
  BY DEF SelectionState
<1> QED
  BY <1>1, ReceiptsPublished

LEMMA ReconcileLeaves ==
  ASSUME EnrichmentInv, NEW d \in Driver, [Next]_vars, Reconcile(d)
  PROVE  Leaves(d)
<1> DEFINE t == driver[d].pinned
           In(state) == {w \in manifests : SelectionState(t, w) = state}
<1>0. /\ IsDriver(driver[d]) /\ Sound(driver[d]) /\ driver[d].pc = "opened"
      /\ \A w \in manifests : IsWorkspace(w)
      /\ DOMAIN driver[d] = Fields
  BY IdleType DEF EnrichmentInv, TypeOK, Reconcile, IsDriver
<1>1. CASE Fails(d)
  BY <1>1, FailsLeaves
<1>2. ASSUME NEW work \in Selections(t, In("unfinished")),
             DriverTo(d, [driver[d] EXCEPT !.pc = "cleaning", !.work = work,
                                           !.clean = In("verified")])
      PROVE  Leaves(d)
  <2> DEFINE r == [driver[d] EXCEPT !.pc = "cleaning", !.work = work,
                                    !.clean = In("verified")]
  <2>1. /\ DOMAIN r = Fields /\ r.pc = "cleaning" /\ r.pinned = t
        /\ r.seen = driver[d].seen /\ r.work = work /\ r.todo = driver[d].todo
        /\ r.cands = driver[d].cands /\ r.clean = In("verified")
        /\ r.left = driver[d].left
    BY <1>0 DEF Fields
  <2> HIDE DEF r
  <2>2. IsTable(t)
    BY <1>0 DEF IsDriver
  <2>3. SelectedFrom(t, work) /\ IsWorkspace(work)
    BY <1>0, <2>2, SelectionIsPending
  <2>4. In("verified") \subseteq published /\ \A w \in In("verified") : IsWorkspace(w)
    BY <1>0, VerifiedPublished
  <2>5. IsDriver(r)
    BY <1>0, <2>1, <2>2, <2>3, <2>4, IdleType DEF IsDriver, Step
  <2>6. Sound(r)
    BY <1>0, <2>1, <2>3, <2>4 DEF Sound
  <2> QED
    BY <1>2, <2>5, <2>6, SoundKept DEF Leaves, r
<1> QED
  BY <1>1, <1>2 DEF Reconcile

\* A step of a run that keeps its version and its selection.
LEMMA MovesOn ==
  ASSUME EnrichmentInv, [Next]_vars, NEW d \in Driver,
         driver[d].pc \notin {"idle", "opened"},
         NEW r, DriverTo(d, r), DOMAIN r = Fields, r.pc \in Step \ {"idle", "opened"},
         r.pinned = driver[d].pinned, r.work = driver[d].work, IsTable(r.seen),
         r.clean \subseteq driver[d].clean, r.todo \subseteq Fragment, r.left \in Nat,
         PerFragment(r.cands, Candidate),
         r.pc # "cleaning" => DOMAIN r.work # {},
         r.pc \in {"refresh", "commit", "unsure", "published"} =>
           /\ DOMAIN r.cands = DOMAIN r.work /\ r.left # 0
           /\ \A f \in DOMAIN r.work : r.cands[f].file \in Result,
         r.pc = "commit" =>
           \A f \in DOMAIN r.work :
             /\ r.cands[f].source = r.seen.rows[f]
             /\ r.seen.rows[f].layout = r.work[f]
             /\ r.seen.rows[f].owned = None,
         r.pc = "published" =>
           /\ r.work \in published'
           /\ \A f \in DOMAIN r.work :
                table'.rows[f].owned \in {r.cands[f].file, Foreign}
  PROVE  Leaves(d)
<1>0. IsDriver(driver[d]) /\ Sound(driver[d])
  BY DEF EnrichmentInv, TypeOK
<1>1. IsDriver(r)
  BY <1>0, IdleType DEF IsDriver
<1>2. /\ Unique(DOMAIN r.pinned.rows)'
      /\ SelectedFrom(r.pinned, r.work) /\ r.clean \subseteq published'
  BY <1>0, StepTable, UniqueKept DEF Sound, TableStep, Kept
<1>3. Sound(r)'
  BY <1>2 DEF Sound
<1> QED
  BY <1>1, <1>3 DEF Leaves

\* A running driver's record, field by field.
LEMMA RunType ==
  ASSUME EnrichmentInv, NEW d \in Driver
  PROVE  LET r == driver[d]
         IN /\ DOMAIN r = Fields /\ Sound(r)
            /\ IsTable(r.pinned) /\ IsTable(r.seen) /\ IsWorkspace(r.work)
            /\ r.todo \subseteq Fragment /\ r.left \in Nat
            /\ PerFragment(r.cands, Candidate)
            /\ \A w \in r.clean : IsWorkspace(w)
BY IdleType DEF EnrichmentInv, TypeOK, IsDriver

LEMMA CleanVerifiedLeaves ==
  ASSUME EnrichmentInv, NEW d \in Driver, [Next]_vars, CleanVerified(d)
  PROVE  Leaves(d)
<1>1. PICK w : DriverTo(d, [driver[d] EXCEPT !.clean = @ \ {w}])
  BY DEF CleanVerified
<1> DEFINE r == [driver[d] EXCEPT !.clean = @ \ {w}]
<1>2. DOMAIN driver[d] = Fields /\ driver[d].pc = "cleaning"
  BY RunType DEF CleanVerified
<1>3. /\ DOMAIN r = Fields /\ r.pc = "cleaning" /\ r.pinned = driver[d].pinned
      /\ r.seen = driver[d].seen /\ r.work = driver[d].work
      /\ r.todo = driver[d].todo /\ r.cands = driver[d].cands
      /\ r.clean = driver[d].clean \ {w} /\ r.left = driver[d].left
  BY <1>2 DEF Fields
<1>4. DriverTo(d, r)
  BY <1>1
<1> HIDE DEF r
<1>5. r.pc \in Step \ {"idle", "opened"} /\ r.clean \subseteq driver[d].clean
  BY <1>3 DEF Step
<1> QED
  BY <1>2, <1>3, <1>4, <1>5, RunType, MovesOn

\* A step that only moves the program counter.
LEMMA AdvanceLeaves ==
  ASSUME EnrichmentInv, NEW d \in Driver, [Next]_vars,
         driver[d].pc \notin {"idle", "opened"}, DOMAIN driver[d].work # {},
         NEW pc \in {"ensure", "start", "prepare"},
         DriverTo(d, [driver[d] EXCEPT !.pc = pc])
  PROVE  Leaves(d)
<1> DEFINE r == [driver[d] EXCEPT !.pc = pc]
<1>2. DOMAIN driver[d] = Fields
  BY RunType
<1>3. /\ DOMAIN r = Fields /\ r.pc = pc /\ r.pinned = driver[d].pinned
      /\ r.seen = driver[d].seen /\ r.work = driver[d].work
      /\ r.todo = driver[d].todo /\ r.cands = driver[d].cands
      /\ r.clean = driver[d].clean /\ r.left = driver[d].left
  BY <1>2 DEF Fields
<1>4. DriverTo(d, r)
  OBVIOUS
<1> HIDE DEF r
<1>5. /\ r.pc \in Step \ {"idle", "opened"}
      /\ r.pc \notin {"refresh", "commit", "unsure", "published"}
  BY <1>3 DEF Step
<1> QED
  BY <1>3, <1>4, <1>5, RunType, MovesOn

LEMMA SelectedLeaves ==
  ASSUME EnrichmentInv, NEW d \in Driver, [Next]_vars, Selected(d)
  PROVE  Leaves(d)
<1>1. CASE driver[d].work = NoWork
  BY <1>1, FailsLeaves DEF Selected, Fails
<1>2. CASE driver[d].work # NoWork
  <2>1. DOMAIN driver[d].work # {}
    BY <1>2, RunType DEF IsWorkspace, PerFragment, NoWork
  <2> QED
    BY <1>2, <2>1, AdvanceLeaves DEF Selected
<1> QED
  BY <1>1, <1>2

\* Past the selection a run always has one.
LEMMA HasWork ==
  ASSUME EnrichmentInv, NEW d \in Driver,
         driver[d].pc \in {"ensure", "start", "process", "prepare", "refresh",
                           "commit", "unsure", "published"}
  PROVE  /\ DOMAIN driver[d].work # {} /\ Unique(DOMAIN driver[d].pinned.rows)
         /\ SelectedFrom(driver[d].pinned, driver[d].work)
BY RunType DEF Sound

LEMMA EnsureLeaves ==
  ASSUME EnrichmentInv, NEW d \in Driver, [Next]_vars, Ensure(d)
  PROVE  Leaves(d)
BY HasWork, AdvanceLeaves DEF Ensure

LEMMA CompleteLeaves ==
  ASSUME EnrichmentInv, NEW d \in Driver, [Next]_vars, Complete(d)
  PROVE  Leaves(d)
BY HasWork, AdvanceLeaves DEF Complete

\* What is left to process is part of the selection.
LEMMA ToDoLeaves ==
  ASSUME EnrichmentInv, NEW d \in Driver, [Next]_vars,
         driver[d].pc \in {"start", "process"},
         NEW S, S \subseteq Fragment,
         DriverTo(d, [driver[d] EXCEPT !.pc = "process", !.todo = S])
  PROVE  Leaves(d)
<1> DEFINE r == [driver[d] EXCEPT !.pc = "process", !.todo = S]
<1>2. DOMAIN driver[d] = Fields
  BY RunType
<1>3. /\ DOMAIN r = Fields /\ r.pc = "process" /\ r.pinned = driver[d].pinned
      /\ r.seen = driver[d].seen /\ r.work = driver[d].work
      /\ r.todo = S /\ r.cands = driver[d].cands
      /\ r.clean = driver[d].clean /\ r.left = driver[d].left
  BY <1>2 DEF Fields
<1>4. DriverTo(d, r)
  OBVIOUS
<1> HIDE DEF r
<1>5. r.pc \in Step \ {"idle", "opened"} /\ DOMAIN r.work # {}
  BY <1>3, HasWork DEF Step
<1> QED
  BY <1>3, <1>4, <1>5, RunType, MovesOn

LEMMA StartLeaves ==
  ASSUME EnrichmentInv, NEW d \in Driver, [Next]_vars, Start(d)
  PROVE  Leaves(d)
<1> DEFINE w == driver[d].work
           S == {f \in DOMAIN w : Copies(w, f) = {}}
<1>1. CASE w \in marks
  <2>1. DriverTo(d, [driver[d] EXCEPT !.pc = "prepare"]) /\ driver[d].pc = "start"
    BY <1>1 DEF Start
  <2> QED
    BY <2>1, HasWork, AdvanceLeaves
<1>2. CASE w \notin marks
  <2>1. /\ driver[d].pc = "start"
        /\ DriverTo(d, [driver[d] EXCEPT !.pc = "process", !.todo = S])
    BY <1>2 DEF Start
  <2>2. S \subseteq Fragment
    BY RunType DEF IsWorkspace, PerFragment
  <2> HIDE DEF S
  <2> QED
    BY <2>1, <2>2, ToDoLeaves
<1> QED
  BY <1>1, <1>2

LEMMA ProcessLeaves ==
  ASSUME EnrichmentInv, NEW d \in Driver, [Next]_vars, Process(d)
  PROVE  Leaves(d)
<1>0. DOMAIN driver[d] = Fields /\ driver[d].pc = "process"
      /\ driver[d].todo \subseteq Fragment
  BY RunType DEF Process
<1>1. PICK f : DriverTo(d, [driver[d] EXCEPT !.todo = @ \ {f}])
  BY DEF Process
<1>2. [driver[d] EXCEPT !.todo = @ \ {f}]
        = [driver[d] EXCEPT !.pc = "process", !.todo = driver[d].todo \ {f}]
  BY <1>0 DEF Fields
<1>3. DriverTo(d, [driver[d] EXCEPT !.pc = "process", !.todo = driver[d].todo \ {f}])
  BY <1>1, <1>2
<1> QED
  BY <1>0, <1>3, ToDoLeaves

\* The candidates a run takes to its commits.
LEMMA PrepareLeaves ==
  ASSUME EnrichmentInv, NEW d \in Driver, [Next]_vars, Prepare(d)
  PROVE  Leaves(d)
<1> DEFINE w == driver[d].work
           cands == Prepared(d, driver[d].pinned, DOMAIN w)
           r == [driver[d] EXCEPT !.pc = "refresh", !.left = Attempts, !.cands = cands]
<1>0. DOMAIN driver[d] = Fields /\ driver[d].pc = "prepare"
  BY RunType DEF Prepare
<1>1. CASE Fails(d)
  BY <1>1, FailsLeaves
<1>2. CASE DriverTo(d, r)
  <2>1. DOMAIN w # {} /\ DOMAIN w \subseteq DOMAIN driver[d].pinned.rows
    BY <1>0, HasWork DEF SelectedFrom, Pending
  <2>2. /\ PerFragment(cands, Candidate) /\ DOMAIN cands = DOMAIN w
        /\ \A f \in DOMAIN w : cands[f].file \in Result
    BY <2>1, RunType, PreparedType
  <2> HIDE DEF cands
  <2>3. /\ DOMAIN r = Fields /\ r.pc = "refresh" /\ r.pinned = driver[d].pinned
        /\ r.seen = driver[d].seen /\ r.work = driver[d].work
        /\ r.todo = driver[d].todo /\ r.cands = cands
        /\ r.clean = driver[d].clean /\ r.left = Attempts
    BY <1>0 DEF Fields
  <2> HIDE DEF r
  <2>4. r.pc \in Step \ {"idle", "opened"} /\ r.left # 0 /\ r.left \in Nat
    BY <2>3, EnrichmentAssumption DEF Step
  <2> QED
    BY <1>0, <1>2, <2>1, <2>2, <2>3, <2>4, RunType, MovesOn
<1> QED
  BY <1>1, <1>2 DEF Prepare

\* A run at a commit, before it and after it.
LEMMA Trying ==
  ASSUME EnrichmentInv, NEW d \in Driver,
         driver[d].pc \in {"refresh", "commit", "unsure", "published"}
  PROVE  /\ DOMAIN driver[d].cands = DOMAIN driver[d].work /\ driver[d].left # 0
         /\ \A f \in DOMAIN driver[d].work : driver[d].cands[f].file \in Result
BY RunType DEF Sound

\* A step to another state of publication.
LEMMA TryLeaves ==
  ASSUME EnrichmentInv, [Next]_vars, NEW d \in Driver,
         driver[d].pc \in {"refresh", "commit", "unsure"},
         NEW pc \in {"unsure", "published"},
         DriverTo(d, [driver[d] EXCEPT !.pc = pc]),
         pc = "published" =>
           /\ driver[d].work \in published'
           /\ \A f \in DOMAIN driver[d].work :
                table'.rows[f].owned \in {driver[d].cands[f].file, Foreign}
  PROVE  Leaves(d)
<1> PICK r : r = [driver[d] EXCEPT !.pc = pc]
  OBVIOUS
<1>0. DOMAIN driver[d] = Fields
  BY RunType
<1>1. /\ DOMAIN r = Fields /\ r.pc = pc /\ r.pinned = driver[d].pinned
      /\ r.seen = driver[d].seen /\ r.work = driver[d].work
      /\ r.todo = driver[d].todo /\ r.cands = driver[d].cands
      /\ r.clean = driver[d].clean /\ r.left = driver[d].left
  BY <1>0 DEF Fields
<1>2. DriverTo(d, r)
  OBVIOUS
<1>3. r.pc \in Step \ {"idle", "opened"} /\ DOMAIN r.work # {} /\ r.pc # "commit"
  BY <1>1, HasWork DEF Step
<1>4. /\ DOMAIN r.cands = DOMAIN r.work /\ r.left # 0
      /\ \A f \in DOMAIN r.work : r.cands[f].file \in Result
  BY <1>1, Trying
<1>5. r.pc = "published" =>
        /\ r.work \in published'
        /\ \A f \in DOMAIN r.work :
             table'.rows[f].owned \in {r.cands[f].file, Foreign}
  BY <1>1
<1> QED
  BY <1>1, <1>2, <1>3, <1>4, <1>5, RunType, MovesOn

\* Finding the receipt and the files, whoever committed them.
LEMMA FoundPublished ==
  ASSUME EnrichmentInv, [Next]_vars, NEW d \in Driver,
         driver[d].pc \in {"refresh", "unsure"}, UNCHANGED table,
         Receipted(d, table), Publication(d, table),
         DriverTo(d, [driver[d] EXCEPT !.pc = "published"])
  PROVE  Leaves(d)
<1>1. driver[d].work \in published
  BY ReceiptsPublished DEF Receipted
<1>2. published \subseteq published'
  BY StepTable DEF TableStep, Kept
<1> QED
  BY <1>1, <1>2, TryLeaves DEF Publication

\* The candidates a try commits are those of the fragments it has just read.
LEMMA RefreshedType ==
  ASSUME EnrichmentInv, NEW d \in Driver, driver[d].pc = "refresh",
         InputsHeld(d, table), OwnedHeld(d, table)
  PROVE  LET cands == Refreshed(d, table)
             w == driver[d].work
         IN /\ DOMAIN cands = DOMAIN w /\ PerFragment(cands, Candidate)
            /\ \A f \in DOMAIN w :
                 /\ cands[f].file \in Result /\ cands[f].source = table.rows[f]
                 /\ table.rows[f].layout = w[f] /\ table.rows[f].owned = None
<1> DEFINE cands == Refreshed(d, table)
           w == driver[d].work
           old == driver[d].cands
<1>1. /\ DOMAIN w \subseteq DOMAIN driver[d].pinned.rows
      /\ \A f \in DOMAIN w : /\ driver[d].pinned.rows[f].owned = None
                             /\ w[f] = driver[d].pinned.rows[f].layout
      /\ DOMAIN w \subseteq DOMAIN table.rows
  BY HasWork DEF SelectedFrom, Pending, WorkspaceOf, Unique
<1>2. \A f \in DOMAIN w : table.rows[f].layout = w[f] /\ table.rows[f].owned = None
  BY <1>1 DEF InputsHeld, OwnedHeld
<1>3. IsTable(table)
  BY DEF EnrichmentInv, TypeOK
<1>4. DOMAIN cands = DOMAIN w
  BY DEF Refreshed
<1>5. ASSUME NEW f \in DOMAIN w
      PROVE  /\ cands[f] \in Candidate /\ cands[f].file \in Result
             /\ cands[f].source = table.rows[f]
  <2>1. CASE f \in Stale(d, table)
    <3>1. cands[f] = Prepared(d, table, {f})[f]
      BY <2>1 DEF Refreshed
    <3> HIDE DEF cands
    <3> QED
      BY <1>1, <1>3, <3>1, PreparedType
  <2>2. CASE f \notin Stale(d, table)
    <3>1. cands[f] = old[f] /\ old[f].source = table.rows[f]
      BY <2>2 DEF Refreshed, Stale
    <3>2. old[f] \in Candidate /\ old[f].file \in Result
      BY Trying, RunType DEF PerFragment
    <3> QED
      BY <3>1, <3>2
  <2> QED
    BY <2>1, <2>2
<1>6. DOMAIN w \subseteq Fragment
  BY RunType DEF IsWorkspace, PerFragment
<1>7. cands \in [DOMAIN w -> Candidate]
  BY <1>5 DEF Refreshed
<1> HIDE DEF cands
<1>8. PerFragment(cands, Candidate)
  BY <1>4, <1>6, <1>7 DEF PerFragment
<1> QED
  BY <1>2, <1>4, <1>5, <1>8 DEF cands

LEMMA RefreshLeaves ==
  ASSUME EnrichmentInv, NEW d \in Driver, [Next]_vars, Refresh(d)
  PROVE  Leaves(d)
<1>0. DOMAIN driver[d] = Fields /\ driver[d].pc = "refresh" /\ UNCHANGED table
  BY RunType DEF Refresh
<1>1. CASE Fails(d)
  BY <1>1, FailsLeaves
<1>2. CASE /\ Receipted(d, table) /\ Publication(d, table)
           /\ DriverTo(d, [driver[d] EXCEPT !.pc = "published"])
  BY <1>0, <1>2, FoundPublished
<1>3. ASSUME InputsHeld(d, table), OwnedHeld(d, table),
             NEW t, t = table, NEW cands, cands = Refreshed(d, t),
             DriverTo(d, [driver[d] EXCEPT !.pc = "commit", !.seen = t,
                                           !.cands = cands])
      PROVE  Leaves(d)
  <2> PICK r : r = [driver[d] EXCEPT !.pc = "commit", !.seen = t, !.cands = cands]
    OBVIOUS
  <2>1. /\ DOMAIN r = Fields /\ r.pc = "commit" /\ r.pinned = driver[d].pinned
        /\ r.seen = t /\ r.work = driver[d].work
        /\ r.todo = driver[d].todo /\ r.cands = cands
        /\ r.clean = driver[d].clean /\ r.left = driver[d].left
    BY <1>0 DEF Fields
  <2>2. DriverTo(d, r)
    BY <1>3
  <2>3. /\ DOMAIN r.cands = DOMAIN r.work /\ PerFragment(r.cands, Candidate)
        /\ \A f \in DOMAIN r.work :
             /\ r.cands[f].file \in Result /\ r.cands[f].source = r.seen.rows[f]
             /\ r.seen.rows[f].layout = r.work[f] /\ r.seen.rows[f].owned = None
    BY <1>0, <1>3, <2>1, RefreshedType
  <2>4. /\ r.pc \in Step \ {"idle", "opened"} /\ DOMAIN r.work # {} /\ r.left # 0
        /\ IsTable(r.seen)
    BY <1>0, <1>3, <2>1, HasWork, Trying DEF Step, EnrichmentInv, TypeOK
  <2>5. \A f \in DOMAIN r.work : r.cands[f].file \in Result
    BY <2>3
  <2>6. \A f \in DOMAIN r.work :
          /\ r.cands[f].source = r.seen.rows[f]
          /\ r.seen.rows[f].layout = r.work[f] /\ r.seen.rows[f].owned = None
    BY <2>3
  <2>7. IsDriver(r)
    BY <1>0, <2>1, <2>3, <2>4, RunType, IdleType DEF IsDriver
  <2>8. /\ Unique(DOMAIN r.pinned.rows)'
        /\ SelectedFrom(r.pinned, r.work) /\ r.clean \subseteq published'
    BY <1>0, <2>1, RunType, StepTable, UniqueKept DEF Sound, TableStep, Kept
  <2>9. Sound(r)'
    BY <2>1, <2>3, <2>4, <2>5, <2>6, <2>8 DEF Sound
  <2> QED
    BY <2>2, <2>7, <2>9 DEF Leaves
<1> QED
  BY <1>1, <1>2, <1>3 DEF Refresh

\* The files a commit leaves are its candidates'.
LEMMA CommitLeaves ==
  ASSUME EnrichmentInv, NEW d \in Driver, [Next]_vars, Commit(d)
  PROVE  Leaves(d)
<1>0. driver[d].pc = "commit" /\ ~Conflict(d)
  BY DEF Commit
<1>1. /\ driver[d].work \in published' /\ table'.rows = CommittedRows(d)
  BY CommitWrites
<1>2. ASSUME NEW f \in DOMAIN driver[d].work
      PROVE  table'.rows[f].owned = driver[d].cands[f].file
  <2>1. f \in DOMAIN table.rows /\ table.rows[f] \in Data
    BY <1>0, CommitFinds DEF EnrichmentInv, TypeOK, IsTable, PerFragment
  <2>2. table'.rows[f] = [table.rows[f] EXCEPT !.owned = driver[d].cands[f].file]
    BY <1>1, <2>1 DEF CommittedRows
  <2> QED
    BY <2>1, <2>2 DEF Data
<1>3. \/ DriverTo(d, [driver[d] EXCEPT !.pc = "published"])
      \/ DriverTo(d, [driver[d] EXCEPT !.pc = "unsure"])
  BY DEF Commit
<1> QED
  BY <1>0, <1>1, <1>2, <1>3, TryLeaves

LEMMA RefusedLeaves ==
  ASSUME EnrichmentInv, NEW d \in Driver, [Next]_vars, CommitRefused(d)
  PROVE  Leaves(d)
BY TryLeaves DEF CommitRefused

LEMMA RetriesLeaves ==
  ASSUME EnrichmentInv, NEW d \in Driver, [Next]_vars, driver[d].pc = "unsure",
         Retries(d)
  PROVE  Leaves(d)
<1>1. CASE driver[d].left = 1
  BY <1>1, FailsLeaves DEF Retries
<1>2. CASE driver[d].left # 1
  <2>1. DriverTo(d, [driver[d] EXCEPT !.pc = "refresh", !.left = @ - 1])
    BY <1>2 DEF Retries
  <2> PICK r : r = [driver[d] EXCEPT !.pc = "refresh", !.left = @ - 1]
    OBVIOUS
  <2>2. DOMAIN driver[d] = Fields /\ driver[d].left \in Nat /\ driver[d].left # 0
    BY RunType, Trying
  <2>3. /\ DOMAIN r = Fields /\ r.pc = "refresh" /\ r.pinned = driver[d].pinned
        /\ r.seen = driver[d].seen /\ r.work = driver[d].work
        /\ r.todo = driver[d].todo /\ r.cands = driver[d].cands
        /\ r.clean = driver[d].clean /\ r.left = driver[d].left - 1
    BY <2>2 DEF Fields
  <2>4. /\ r.pc \in Step \ {"idle", "opened"} /\ r.left \in Nat /\ r.left # 0
        /\ DOMAIN r.work # {}
    BY <1>2, <2>2, <2>3, HasWork DEF Step
  <2>5. /\ DOMAIN r.cands = DOMAIN r.work
        /\ \A f \in DOMAIN r.work : r.cands[f].file \in Result
    BY <2>3, Trying
  <2> QED
    BY <2>1, <2>3, <2>4, <2>5, RunType, MovesOn
<1> QED
  BY <1>1, <1>2

LEMMA UnsureLeaves ==
  ASSUME EnrichmentInv, NEW d \in Driver, [Next]_vars, Unsure(d)
  PROVE  Leaves(d)
<1>0. driver[d].pc = "unsure" /\ UNCHANGED table
  BY DEF Unsure
<1>1. CASE /\ Receipted(d, table) /\ Publication(d, table)
           /\ DriverTo(d, [driver[d] EXCEPT !.pc = "published"])
  BY <1>0, <1>1, FoundPublished
<1>2. CASE Fails(d)
  BY <1>2, FailsLeaves
<1>3. CASE Retries(d)
  BY <1>0, <1>3, RetriesLeaves
<1> QED
  BY <1>1, <1>2, <1>3 DEF Unsure

\* Whatever it does, a driver is left with a record it can rely on.
LEMMA DriverLeaves ==
  ASSUME EnrichmentInv, NEW d \in Driver, [Next]_vars, DriverStep(d) \/ Crash(d)
  PROVE  Leaves(d)
<1>1. CASE Cleanup(d) \/ Crash(d)
  BY <1>1, FailsLeaves DEF Cleanup, Crash, Fails
<1> QED
  BY <1>1, OpenLeaves, ReconcileLeaves, CleanVerifiedLeaves, SelectedLeaves,
     EnsureLeaves, StartLeaves, ProcessLeaves, CompleteLeaves, PrepareLeaves,
     RefreshLeaves, CommitLeaves, RefusedLeaves, UnsureLeaves
     DEF DriverStep

-----------------------------------------------------------------------------
(***************************************************************************)
(* Storage: workspaces, staged results and receipts.                       *)
(***************************************************************************)
IsStaged(r) ==
  /\ r = <<r[1], r[2], r[3]>>
  /\ IsWorkspace(r[1]) /\ r[2] \in Fragment /\ r[3] \in Driver

\* What a step may add to storage.
Grows(works, files) ==
  /\ manifests' \subseteq manifests \cup works
  /\ marks' \subseteq marks \cup works
  /\ staged' \subseteq staged \cup files
  /\ proofs' \subseteq proofs

\* Removing a workspace, wholly or in part, adds nothing.
LEMMA RemovedGrows ==
  ASSUME NEW w, Removed(w), UNCHANGED proofs
  PROVE  Grows({}, {})
<1>1. CASE RemovedWhole(w)
  BY <1>1 DEF RemovedWhole, Grows
<1>2. CASE RemovedPartly(w)
  <2>1. \E S \in SUBSET DOMAIN w : staged' = {r \in staged : r[1] # w \/ r[2] \in S}
    BY <1>2 DEF RemovedPartly
  <2>2. staged' \subseteq staged
    BY <2>1
  <2>3. manifests' \subseteq manifests /\ marks' \subseteq marks
    BY <1>2 DEF RemovedPartly
  <2> QED
    BY <2>2, <2>3 DEF Grows
<1> QED
  BY <1>1, <1>2 DEF Removed

\* Ensure, Complete and Process store what is the selection's; nothing but a
\* commit adds a receipt.
LEMMA StorageGrows ==
  ASSUME EnrichmentInv, [Next]_vars
  PROVE  \/ Grows({}, {})
         \/ \E d \in Driver : Grows({driver[d].work}, {})
         \/ \E d \in Driver : \E f \in driver[d].todo :
              Grows({}, {<<driver[d].work, f, d>>})
         \/ \E d \in Driver : Commit(d) /\ UNCHANGED storage
<1>1. CASE UNCHANGED <<proofs, storage>>
  BY <1>1 DEF storage, Grows
<1>2. ASSUME NEW d \in Driver, Commit(d) PROVE Commit(d) /\ UNCHANGED storage
  BY <1>2 DEF Commit
<1>3. ASSUME NEW d \in Driver, CleanVerified(d) \/ Cleanup(d) PROVE Grows({}, {})
  BY <1>3, RemovedGrows DEF CleanVerified, Cleanup
<1>4. ASSUME NEW d \in Driver, Ensure(d) \/ Complete(d)
      PROVE  Grows({driver[d].work}, {})
  BY <1>4 DEF Ensure, Complete, Grows
<1>5. ASSUME NEW d \in Driver, Process(d)
      PROVE  \E f \in driver[d].todo : Grows({}, {<<driver[d].work, f, d>>})
  BY <1>5 DEF Process, Grows
<1>6. ASSUME NEW d \in Driver, Crash(d) PROVE UNCHANGED <<proofs, storage>>
  BY <1>6 DEF Crash
<1>7. ASSUME OtherStep PROVE Grows({}, {})
  <2>1. CASE Prune
    <3>1. \E p \in proofs : proofs' = {q \in proofs : q.at > p.at}
      BY <2>1 DEF Prune
    <3> QED
      BY <2>1, <3>1 DEF Prune, storage, Grows
  <2>2. CASE UNCHANGED <<proofs, storage>>
    BY <2>2 DEF storage, Grows
  <2> QED
    BY <1>7, <2>1, <2>2 DEF OtherStep, Append, Annotate, Overwrite, Relayout, Written
<1>8. ASSUME NEW d \in Driver, DriverStep(d)
      PROVE  \/ UNCHANGED <<proofs, storage>>
             \/ Commit(d) \/ CleanVerified(d) \/ Cleanup(d) \/ Ensure(d)
             \/ Complete(d) \/ Process(d)
  BY <1>8 DEF DriverStep, Open, Reconcile, Selected, Start, Prepare, Refresh,
              CommitRefused, Unsure
<1>9. CASE UNCHANGED vars
  BY <1>1, <1>9 DEF vars
<1> QED
  BY <1>1, <1>2, <1>3, <1>4, <1>5, <1>6, <1>7, <1>8, <1>9 DEF Next

\* The receipt a commit carries.
Receipt(d) ==
  [at |-> table.version + 1, work |-> driver[d].work, input |-> Evidence(d),
   files |-> [f \in DOMAIN driver[d].work |-> driver[d].cands[f].file]]

LEMMA ReceiptType ==
  ASSUME EnrichmentInv, NEW d \in Driver, Commit(d)
  PROVE  /\ proofs' = proofs \cup {Receipt(d)}
         /\ IsProof(Receipt(d)) /\ Receipt(d).work = driver[d].work
         /\ DOMAIN Receipt(d).input = DOMAIN driver[d].pinned.rows
<1> DEFINE w == driver[d].work
           files == [f \in DOMAIN w |-> driver[d].cands[f].file]
<1>0. driver[d].pc = "commit"
  BY DEF Commit
<1>1. proofs' = proofs \cup {Receipt(d)}
  BY DEF Commit, Receipt
<1>2. /\ IsWorkspace(Evidence(d))
      /\ DOMAIN Evidence(d) = DOMAIN driver[d].pinned.rows
  BY RunType, WorkspaceType DEF Evidence, InputOf
<1>3. \A f \in DOMAIN w : driver[d].cands[f].file \in File
  BY <1>0, Trying, ResultsAreFiles
<1>4. IsWorkspace(w) /\ DOMAIN w \subseteq Fragment
  BY RunType DEF IsWorkspace, PerFragment
<1>5. PerFragment(files, File)
  BY <1>3, <1>4 DEF PerFragment
<1>6. table.version + 1 \in Nat
  BY DEF EnrichmentInv, TypeOK, IsTable
<1> HIDE DEF files
<1>7. /\ DOMAIN Receipt(d) = {"at", "work", "input", "files"}
      /\ Receipt(d).at = table.version + 1 /\ Receipt(d).work = w
      /\ Receipt(d).input = Evidence(d) /\ Receipt(d).files = files
  BY DEF Receipt, files
<1> QED
  BY <1>1, <1>2, <1>4, <1>5, <1>6, <1>7 DEF IsProof

\* Storage keeps its type.
LEMMA StorageType ==
  ASSUME EnrichmentInv, [Next]_vars
  PROVE  /\ \A p \in proofs' : IsProof(p)
         /\ \A w \in manifests' \cup marks' \cup published' : IsWorkspace(w)
         /\ \A r \in staged' : IsStaged(r)
<1>0. /\ \A p \in proofs : IsProof(p)
      /\ \A w \in manifests \cup marks \cup published : IsWorkspace(w)
      /\ \A r \in staged : IsStaged(r)
      /\ \A d \in Driver : IsWorkspace(driver[d].work) /\ driver[d].todo \subseteq Fragment
  BY RunType DEF EnrichmentInv, TypeOK, IsStaged
<1>1. \A w \in published' : IsWorkspace(w)
  <2>1. \/ published' = published
        \/ \E d \in Driver : published' = published \cup {driver[d].work}
    BY DriverTable, OtherTable, CommitWrites DEF Next, Crash, vars
  <2> QED
    BY <1>0, <2>1
<1>2. CASE Grows({}, {})
  BY <1>0, <1>1, <1>2 DEF Grows
<1>3. ASSUME NEW d \in Driver, Grows({driver[d].work}, {})
      PROVE  /\ \A p \in proofs' : IsProof(p)
             /\ \A w \in manifests' \cup marks' : IsWorkspace(w)
             /\ \A r \in staged' : IsStaged(r)
  BY <1>0, <1>3 DEF Grows
<1>4. ASSUME NEW d \in Driver, NEW f \in driver[d].todo,
             Grows({}, {<<driver[d].work, f, d>>})
      PROVE  /\ \A p \in proofs' : IsProof(p)
             /\ \A w \in manifests' \cup marks' : IsWorkspace(w)
             /\ \A r \in staged' : IsStaged(r)
  <2>1. IsStaged(<<driver[d].work, f, d>>)
    BY <1>0 DEF IsStaged
  <2> QED
    BY <1>0, <1>4, <2>1 DEF Grows
<1>5. ASSUME NEW d \in Driver, Commit(d), UNCHANGED storage
      PROVE  /\ \A p \in proofs' : IsProof(p)
             /\ \A w \in manifests' \cup marks' : IsWorkspace(w)
             /\ \A r \in staged' : IsStaged(r)
  BY <1>0, <1>5, ReceiptType DEF storage
<1> QED
  BY <1>1, <1>2, <1>3, <1>4, <1>5, StorageGrows

\* Receipts go on vouching for valid inputs and published selections.
LEMMA StillVouched == ASSUME EnrichmentInv, [Next]_vars PROVE Vouched'
<1>0. Vouched /\ Kept
  BY StepTable DEF EnrichmentInv, TableStep
<1>1. ASSUME NEW p \in proofs PROVE Unique(DOMAIN p.input)' /\ p.work \in published'
  BY <1>0, UniqueKept DEF Vouched, Kept
<1>2. ASSUME NEW d \in Driver, Commit(d)
      PROVE  /\ proofs' = proofs \cup {Receipt(d)}
             /\ \A p : p = Receipt(d) =>
                  Unique(DOMAIN p.input)' /\ p.work \in published'
  <2>1. driver[d].pc = "commit" /\ published' = published \cup {driver[d].work}
    BY <1>2, CommitWrites DEF Commit
  <2>2. Unique(DOMAIN driver[d].pinned.rows)
    BY <2>1, HasWork
  <2>3. \A rows : rows = DOMAIN driver[d].pinned.rows => Unique(rows)'
    BY <1>0, <2>2, UniqueKept
  <2>4. ASSUME NEW p, p = Receipt(d)
        PROVE  Unique(DOMAIN p.input)' /\ p.work \in published'
    BY <1>2, <2>1, <2>3, <2>4, ReceiptType
  <2> QED
    BY <1>2, <2>4, ReceiptType
<1>3. \/ proofs' \subseteq proofs
      \/ \E d \in Driver : Commit(d)
  BY StorageGrows DEF Grows
<1>4. ASSUME NEW p \in proofs' PROVE Unique(DOMAIN p.input)' /\ p.work \in published'
  BY <1>1, <1>2, <1>3
<1> QED
  BY <1>4 DEF Vouched

-----------------------------------------------------------------------------
LEMMA EnrichmentInit == Init => EnrichmentInv
<1> SUFFICES ASSUME Init PROVE EnrichmentInv
  OBVIOUS
<1>1. \A d \in Driver : driver[d] = Idle /\ DOMAIN driver = Driver
  BY DEF Init
<1>2. /\ table.rows = [f \in 1..Initial |-> Appended(FALSE)]
      /\ table.version = 1 /\ table.fields = FALSE
      /\ DOMAIN table = {"version", "fields", "rows"}
  BY DEF Init
<1>3. Appended(FALSE) \in Data
  BY ResultsAreFiles DEF Appended, Data
<1>4. Initial \in 0..MaxFragment /\ 1..Initial \subseteq Fragment
  BY EnrichmentAssumption DEF Fragment
<1>5. IsTable(table) /\ Numbered
  <2>1. DOMAIN table.rows = 1..Initial /\ table.rows \in [1..Initial -> Data]
    BY <1>2, <1>3
  <2>2. PerFragment(table.rows, Data)
    BY <1>4, <2>1 DEF PerFragment
  <2>3. table.version \in Nat
    BY <1>2
  <2>4. table.fields \in BOOLEAN
    BY <1>2, Zenon
  <2>5. Numbered
    BY <1>4, <2>1 DEF Numbered
  <2> QED
    BY <1>2, <2>2, <2>3, <2>4, <2>5 DEF IsTable
<1>6. TypeOK
  BY <1>1, <1>5, IdleType DEF Init, TypeOK
<1>7. Vouched
  BY DEF Init, Vouched
<1>8. \A d \in Driver : Sound(driver[d])
  BY <1>1, IdleType DEF Sound
<1> QED
  BY <1>5, <1>6, <1>7, <1>8 DEF EnrichmentInv

\* Every driver is left with a record it can rely on, whoever moved.
LEMMA DriversKept ==
  ASSUME EnrichmentInv, [Next]_vars
  PROVE  DOMAIN driver' = Driver /\ \A e \in Driver : IsDriver(driver'[e]) /\ Sound(driver[e])'
<1>0. TypeOK /\ \A e \in Driver : IsDriver(driver[e]) /\ Sound(driver[e])
  BY DEF EnrichmentInv, TypeOK
<1>1. \A e \in Driver : \A r : r = driver[e] => Sound(r)'
  BY <1>0, SoundKept
<1>2. CASE UNCHANGED driver
  <2>1. ASSUME NEW e \in Driver PROVE IsDriver(driver'[e]) /\ Sound(driver[e])'
    <3>1. PICK r : r = driver[e]
      OBVIOUS
    <3>2. Sound(r)' /\ r = driver'[e] /\ IsDriver(r)
      BY <1>0, <1>1, <1>2, <3>1
    <3> QED
      BY <3>2 DEF Sound
  <2> QED
    BY <1>0, <1>2, <2>1 DEF TypeOK
<1>3. ASSUME NEW d \in Driver, Leaves(d)
      PROVE  DOMAIN driver' = Driver
             /\ \A e \in Driver : IsDriver(driver'[e]) /\ Sound(driver[e])'
  <2>1. PICK s : DriverTo(d, s) /\ IsDriver(s) /\ Sound(s)'
    BY <1>3 DEF Leaves
  <2>2. /\ DOMAIN driver' = Driver /\ driver'[d] = s
        /\ \A e \in Driver \ {d} : driver'[e] = driver[e]
    BY <1>0, <2>1, DriverUpdate
  <2>3. ASSUME NEW e \in Driver PROVE IsDriver(driver'[e]) /\ Sound(driver[e])'
    <3>1. PICK r : r = driver'[e]
      OBVIOUS
    <3>2. IsDriver(r) /\ Sound(r)'
      BY <1>0, <1>1, <2>1, <2>2, <3>1
    <3> QED
      BY <3>1, <3>2 DEF Sound
  <2> QED
    BY <2>2, <2>3
<1>4. CASE OtherStep \/ UNCHANGED vars
  BY <1>2, <1>4 DEF OtherStep, Append, Prune, Annotate, Overwrite, Relayout, Written,
                    vars
<1> QED
  BY <1>3, <1>4, DriverLeaves DEF Next

\* What a failed removal leaves without a manifest is a workspace.
LEMMA OrphansType ==
  ASSUME EnrichmentInv, [Next]_vars
  PROVE  \A w \in orphaned' : IsWorkspace(w)
<1>0. \A w \in orphaned : IsWorkspace(w)
  BY DEF EnrichmentInv, TypeOK
<1>1. CASE UNCHANGED orphaned
  BY <1>0, <1>1
<1>2. ASSUME NEW w, IsWorkspace(w), Removed(w)
      PROVE  \A v \in orphaned' : IsWorkspace(v)
  <2>1. orphaned' \subseteq orphaned \cup {w}
    BY <1>2 DEF Removed, RemovedWhole, RemovedPartly, Orphans
  <2> QED
    BY <1>0, <1>2, <2>1
<1>3. ASSUME NEW d \in Driver, CleanVerified(d) \/ Cleanup(d)
      PROVE  \E w : IsWorkspace(w) /\ Removed(w)
  BY <1>3, RunType DEF CleanVerified, Cleanup
<1>4. ASSUME NEW d \in Driver, DriverStep(d)
      PROVE  UNCHANGED orphaned \/ CleanVerified(d) \/ Cleanup(d)
  BY <1>4 DEF DriverStep, Open, Reconcile, Selected, Ensure, Start, Process, Complete,
     Prepare, Refresh, Commit, CommitRefused, Unsure, storage
<1>5. CASE OtherStep \/ UNCHANGED vars \/ \E d \in Driver : Crash(d)
  BY <1>1, <1>5 DEF OtherStep, Append, Prune, Annotate, Overwrite, Relayout, Written,
     Crash, vars, storage
<1> QED
  BY <1>1, <1>2, <1>3, <1>4, <1>5 DEF Next

LEMMA EnrichmentStep == EnrichmentInv /\ [Next]_vars => EnrichmentInv'
<1> SUFFICES ASSUME EnrichmentInv, [Next]_vars PROVE EnrichmentInv'
  OBVIOUS
<1>1. IsTable(table') /\ Numbered'
  BY StepTable DEF TableStep
<1>2. /\ \A p \in proofs' : IsProof(p)
      /\ \A w \in manifests' \cup marks' \cup published' : IsWorkspace(w)
      /\ \A r \in staged' : IsStaged(r)
      /\ \A w \in orphaned' : IsWorkspace(w)
  BY StorageType, OrphansType
<1>3. DOMAIN driver' = Driver /\ \A e \in Driver : IsDriver(driver'[e]) /\ Sound(driver[e])'
  BY DriversKept
<1>4. crashes' \in Nat
  <2>1. crashes \in Nat
    BY DEF EnrichmentInv, TypeOK
  <2>2. ASSUME NEW d \in Driver, DriverStep(d) PROVE UNCHANGED crashes
    BY <2>2 DEF DriverStep, Open, Reconcile, CleanVerified, Selected, Ensure, Start,
       Process, Complete, Prepare, Refresh, Commit, CommitRefused, Unsure, Cleanup
  <2>3. ASSUME NEW d \in Driver, Crash(d) PROVE crashes' \in Nat
    BY <2>1, <2>3 DEF Crash
  <2>4. ASSUME OtherStep PROVE UNCHANGED crashes
    BY <2>4 DEF OtherStep, Append, Prune, Annotate, Overwrite, Relayout, Written
  <2>5. CASE UNCHANGED vars
    BY <2>1, <2>5 DEF vars
  <2> QED
    BY <2>1, <2>2, <2>3, <2>4, <2>5 DEF Next
<1>5. TypeOK'
  BY <1>1, <1>2, <1>3, <1>4 DEF TypeOK, IsStaged
<1> QED
  BY <1>1, <1>3, <1>5, StillVouched DEF EnrichmentInv

LEMMA EnrichmentAlways == Spec => []EnrichmentInv
BY EnrichmentInit, EnrichmentStep, PTL DEF Spec

-----------------------------------------------------------------------------
(***************************************************************************)
(* Every variable keeps its type; in particular a run that retries a       *)
(* commit never counts its attempts below zero (do_with_retries).          *)
(***************************************************************************)
THEOREM TypeCorrect == Spec => []TypeOK
<1>1. EnrichmentInv => TypeOK
  BY DEF EnrichmentInv
<1> QED
  BY <1>1, EnrichmentAlways, PTL

(***************************************************************************)
(* However many drivers publish what others prepared or validated, no      *)
(* receipt vouches for an input with a repeated row ID                     *)
(* (publish_enrichment, input_is_validated).                               *)
(***************************************************************************)
THEOREM EvidenceTrue == Spec => []EvidenceIsTrue
<1>1. EnrichmentInv => EvidenceIsTrue
  BY DEF EnrichmentInv, Vouched, Unique, EvidenceIsTrue
<1> QED
  BY <1>1, EnrichmentAlways, PTL

(***************************************************************************)
(* A run that reports its results published finds its own files in the     *)
(* table, or a foreign writer's, whatever commits were lost or refused     *)
(* (_verify_publication).                                                  *)
(***************************************************************************)
THEOREM Accepted == Spec => []ResultsAccepted
<1>1. EnrichmentInv => ResultsAccepted
  <2> SUFFICES ASSUME EnrichmentInv, NEW d \in Driver, driver[d].pc = "published"
               PROVE  \A f \in DOMAIN driver[d].work :
                        table.rows[f].owned \in {driver[d].cands[f].file, Foreign}
    BY DEF ResultsAccepted
  <2> QED
    BY RunType DEF Sound
<1> QED
  BY <1>1, EnrichmentAlways, PTL

\* What cleanup removes (cleanup, reconcile_and_select_attempt).
LEMMA RemovedOnly ==
  ASSUME NEW w, Removed(w)
  PROVE  /\ manifests \ manifests' \subseteq {w}
         /\ \A r \in staged \ staged' : r[1] = w
<1>1. CASE RemovedWhole(w)
  BY <1>1 DEF RemovedWhole
<1>2. CASE RemovedPartly(w)
  <2>1. PICK S : staged' = {r \in staged : r[1] # w \/ r[2] \in S}
    BY <1>2 DEF RemovedPartly
  <2>2. manifests' \in {manifests, manifests \ {w}}
    BY <1>2 DEF RemovedPartly
  <2> QED
    BY <2>1, <2>2
<1> QED
  BY <1>1, <1>2 DEF Removed

(***************************************************************************)
(* No driver removes a workspace, or a result staged in it, before its     *)
(* selection was committed by somebody (_selection_state, cleanup).        *)
(***************************************************************************)
THEOREM Outlives == Spec => WorkspaceOutlivesPublication
<1> DEFINE Kind == /\ manifests \ manifests' \subseteq published
                   /\ \A r \in staged \ staged' : r[1] \in published
<1>1. EnrichmentInv /\ [Next]_vars => [Kind]_vars
  <2> SUFFICES ASSUME EnrichmentInv, [Next]_vars PROVE Kind
    OBVIOUS
  <2>1. CASE UNCHANGED storage
    BY <2>1 DEF storage
  <2>2. ASSUME NEW w \in published, Removed(w) PROVE Kind
    BY <2>2, RemovedOnly
  <2>3. ASSUME NEW d \in Driver, CleanVerified(d) PROVE Kind
    <3>1. PICK w \in driver[d].clean : Removed(w)
      BY <2>3 DEF CleanVerified
    <3>2. w \in published
      BY <2>3, <3>1, RunType DEF CleanVerified, Sound
    <3> QED
      BY <2>2, <3>1, <3>2
  <2>4. ASSUME NEW d \in Driver, Cleanup(d) PROVE Kind
    <3>1. driver[d].work \in published
      BY <2>4, RunType DEF Cleanup, Sound
    <3> QED
      BY <2>2, <2>4, <3>1 DEF Cleanup
  <2>5. ASSUME NEW d \in Driver, Ensure(d) \/ Process(d) \/ Complete(d) PROVE Kind
    BY <2>5 DEF Ensure, Process, Complete
  <2>6. ASSUME NEW d \in Driver, DriverStep(d) PROVE Kind
    BY <2>1, <2>3, <2>4, <2>5, <2>6 DEF DriverStep, Open, Reconcile, Selected, Start,
       Prepare, Refresh, Commit, CommitRefused, Unsure
  <2>7. CASE OtherStep \/ UNCHANGED vars \/ \E d \in Driver : Crash(d)
    BY <2>1, <2>7 DEF OtherStep, Append, Prune, Annotate, Overwrite, Relayout,
       Written, Crash, vars
  <2> QED
    BY <2>6, <2>7 DEF Next
<1> QED
  BY <1>1, EnrichmentAlways, PTL DEF Spec, WorkspaceOutlivesPublication

-----------------------------------------------------------------------------
\* A commit publishes its selection at once, over nothing.
LEMMA CommitPublishes ==
  ASSUME EnrichmentInv, NEW d \in Driver, Commit(d)
  PROVE  EnrichedTable!Publish(DOMAIN driver[d].work)
         /\ DOMAIN driver[d].work \subseteq DOMAIN table.rows
<1> DEFINE S == DOMAIN driver[d].work
<1>0. driver[d].pc = "commit" /\ ~Conflict(d)
  BY DEF Commit
<1>1. /\ table'.rows = CommittedRows(d)
      /\ published' = published \cup {driver[d].work}
  BY CommitWrites
<1>2. S # {} /\ S \subseteq DOMAIN table.rows
  BY <1>0, HasWork, CommitFinds
<1>3. /\ DOMAIN table'.rows = DOMAIN table.rows \cup S
      /\ \A f \in DOMAIN table.rows \ S : table'.rows[f] = table.rows[f]
  BY <1>1, <1>2 DEF CommittedRows
<1>4. ASSUME NEW f \in S
      PROVE  /\ table.rows[f].owned = None
             /\ table'.rows[f].owned \in Result
             /\ table'.rows[f] = [table.rows[f] EXCEPT !.owned = table'.rows[f].owned]
             /\ driver[d].work[f] = table.rows[f].layout
  <2>1. /\ table.rows[f].owned = None /\ driver[d].cands[f].file \in Result
        /\ driver[d].work[f] = table.rows[f].layout
    BY <1>0, CommitFinds
  <2>2. table.rows[f] \in Data
    BY <1>2 DEF EnrichmentInv, TypeOK, IsTable, PerFragment
  <2>3. table'.rows[f] = [table.rows[f] EXCEPT !.owned = driver[d].cands[f].file]
    BY <1>1, <1>2 DEF CommittedRows
  <2>4. table'.rows[f].owned = driver[d].cands[f].file
    BY <2>2, <2>3 DEF Data
  <2> QED
    BY <2>1, <2>3, <2>4
<1>5. driver[d].work = [f \in S |-> table.rows[f].layout]
  BY <1>4, RunType DEF IsWorkspace, PerFragment
<1> QED
  BY <1>1, <1>2, <1>3, <1>4, <1>5
     DEF EnrichedTable!Publish, EnrichedTable!Touches, Result

\* An append adds a pending fragment.
LEMMA AppendAppends ==
  ASSUME EnrichmentInv, Append
  PROVE  \E f \in DOMAIN table'.rows \ DOMAIN table.rows : EnrichedTable!Append(f)
<1> DEFINE n == Cardinality(DOMAIN table.rows)
<1>1. DOMAIN table.rows = 1..n /\ n \in Nat
  BY NextNumber
<1> HIDE DEF n
<1>2. PICK dup \in BOOLEAN :
        Written([g \in 1..(n + 1) |-> IF g = n + 1 THEN Appended(dup)
                                      ELSE table.rows[g]])
  BY DEF Append, n
<1>3. IsTable(table)
  BY DEF EnrichmentInv, TypeOK
<1>4. /\ table'.rows = [g \in 1..(n + 1) |-> IF g = n + 1 THEN Appended(dup)
                                             ELSE table.rows[g]]
      /\ published' = published
  BY <1>2, <1>3 DEF Written, IsTable
<1>5. /\ DOMAIN table'.rows = DOMAIN table.rows \cup {n + 1}
      /\ n + 1 \notin DOMAIN table.rows
      /\ \A g \in DOMAIN table.rows : table'.rows[g] = table.rows[g]
      /\ table'.rows[n + 1] = Appended(dup)
  BY <1>1, <1>4
<1>6. Appended(dup) = EnrichedTable!New(dup)
  BY DEF Appended, EnrichedTable!New
<1>7. EnrichedTable!Append(n + 1)
  BY <1>4, <1>5, <1>6 DEF EnrichedTable!Append, EnrichedTable!Touches
<1> QED
  BY <1>5, <1>7

LEMMA WriteWrites ==
  ASSUME EnrichmentInv, NEW f \in DOMAIN table.rows, NEW row \in Data,
         row \in {[table.rows[f] EXCEPT !.other = @ + 1],
                  [table.rows[f] EXCEPT !.owned = Foreign],
                  [table.rows[f] EXCEPT !.layout = 1]},
         Written([table.rows EXCEPT ![f] = row])
  PROVE  EnrichedTable!Write(f)
<1>1. IsTable(table)
  BY DEF EnrichmentInv, TypeOK
<1>2. table'.rows = [table.rows EXCEPT ![f] = row] /\ published' = published
  BY <1>1 DEF Written, IsTable
<1>3. /\ DOMAIN table'.rows = DOMAIN table.rows \cup {f} /\ table'.rows[f] = row
      /\ \A g \in DOMAIN table.rows \ {f} : table'.rows[g] = table.rows[g]
  BY <1>1, <1>2 DEF IsTable, PerFragment
<1> QED
  BY <1>2, <1>3 DEF EnrichedTable!Write, EnrichedTable!Touches

(***************************************************************************)
(* Enrichment implements EnrichedTable for any number of drivers: a        *)
(* selection appears at once, over fragments nobody had filled and input   *)
(* files that are still the selection's (commit_fragments).                *)
(***************************************************************************)
THEOREM Implements == Spec => ImplementsTable
<1>1. Init => EnrichedTable!Init
  BY DEF Init, EnrichedTable!Init, EnrichedTable!New, Appended
<1>2. EnrichmentInv /\ [Next]_vars => [EnrichedTable!Next]_<<table.rows, published>>
  <2> SUFFICES ASSUME EnrichmentInv, [Next]_vars
               PROVE  EnrichedTable!Next \/ UNCHANGED <<table.rows, published>>
    OBVIOUS
  <2>1. ASSUME NEW d \in Driver, Commit(d) PROVE EnrichedTable!Next
    BY <2>1, CommitPublishes DEF EnrichedTable!Next
  <2>2. ASSUME NEW d \in Driver, DriverStep(d), ~Commit(d)
        PROVE  UNCHANGED <<table.rows, published>>
    <3>1. IsTable(table)
      BY DEF EnrichmentInv, TypeOK
    <3> QED
      BY <2>2, <3>1, DriverTable, RegisteredType
  <2>3. CASE OtherStep
    BY <2>3, OtherTable, AppendAppends, WriteWrites DEF EnrichedTable!Next
  <2>4. CASE UNCHANGED vars \/ \E d \in Driver : Crash(d)
    BY <2>4 DEF Crash, vars
  <2> QED
    BY <2>1, <2>2, <2>3, <2>4 DEF Next
<1> QED
  BY <1>1, <1>2, EnrichmentAlways, PTL DEF Spec, ImplementsTable, EnrichedTable!Spec

-----------------------------------------------------------------------------
(***************************************************************************)
(* With one driver, at most one selection is unfinished.                   *)
(***************************************************************************)
\* What the design asks of operators: one driver per field group.
OneDriver == \A d, e \in Driver : d = e

\* A selection some of whose fragments have no results yet.
Unfinished(w) == DOMAIN w \cap Pending(table) # {}

\* What is pending now was pending when the run pinned the table.
Behind(r) ==
  r.pc # "idle" => DOMAIN r.pinned.rows \cap Pending(table) \subseteq Pending(r.pinned)

\* Past its selection a run works on the only unfinished one there is.
Sole(r) ==
  r.pc \notin {"idle", "opened"} =>
    \A w \in manifests : Unfinished(w) => w = r.work

SingleInv ==
  /\ IsFiniteSet(manifests)
  /\ \A w \in manifests : DOMAIN w \subseteq DOMAIN table.rows
  /\ OneUnfinished
  /\ \A d \in Driver : Behind(driver[d]) /\ Sole(driver[d])

\* Two members of a set of at most one are the same.
LEMMA AtMostOne ==
  ASSUME NEW S, IsFiniteSet(S), Cardinality(S) <= 1, NEW x \in S, NEW y \in S
  PROVE  x = y
<1> SUFFICES ASSUME x # y PROVE FALSE
  OBVIOUS
<1>1. IsFiniteSet({x}) /\ Cardinality({x}) = 1
  BY FS_Singleton
<1>2. Cardinality({x} \cup {y}) = 2
  <2>1. y \notin {x}
    OBVIOUS
  <2>2. Cardinality({x} \cup {y}) = Cardinality({x}) + 1
    BY <1>1, <2>1, FS_AddElement
  <2> QED
    BY <1>1, <2>2
<1>3. Cardinality({x} \cup {y}) <= Cardinality(S) /\ Cardinality(S) \in Nat
  BY FS_Subset, FS_CardinalityType
<1> QED
  BY <1>2, <1>3

\* A fragment with results never becomes pending again, and a saved selection
\* with results never becomes unfinished again (commit_fragments).
LEMMA PendingFalls ==
  ASSUME EnrichmentInv, [Next]_vars
  PROVE  /\ DOMAIN table.rows \cap Pending(table)' \subseteq Pending(table)
         /\ \A w : /\ DOMAIN w \subseteq DOMAIN table.rows
                   /\ Unfinished(w)'
                   => Unfinished(w)
<1>1. Kept
  BY StepTable DEF TableStep
<1>2. ASSUME NEW f \in DOMAIN table.rows, f \in Pending(table)'
      PROVE  f \in Pending(table)
  BY <1>1, <1>2, ResultsAreFiles DEF Kept, Pending
<1>3. DOMAIN table.rows \cap Pending(table)' \subseteq Pending(table)
  BY <1>2
<1> QED
  BY <1>3 DEF Unfinished

\* Between selecting and ending, a run keeps its version and its selection.
Goes(d) ==
  /\ driver[d].pc \notin {"idle", "opened"}
  /\ driver'[d].pc # "idle" => /\ driver'[d].pinned = driver[d].pinned
                               /\ driver'[d].work = driver[d].work

LEMMA StepGoes ==
  ASSUME EnrichmentInv, NEW d \in Driver, DriverStep(d), ~Open(d), ~Reconcile(d)
  PROVE  Goes(d)
<1>0. TypeOK /\ DOMAIN driver[d] = Fields /\ Idle.pc = "idle"
  BY RunType, IdleType DEF EnrichmentInv
<1>1. ASSUME NEW r, DriverTo(d, r),
             r = Idle \/ (r.pinned = driver[d].pinned /\ r.work = driver[d].work),
             driver[d].pc \notin {"idle", "opened"}
      PROVE  Goes(d)
  BY <1>0, <1>1, DriverUpdate DEF Goes
<1>2. CASE CleanVerified(d)
  <2>1. PICK w : DriverTo(d, [driver[d] EXCEPT !.clean = @ \ {w}])
    BY <1>2 DEF CleanVerified
  <2> QED
    BY <1>0, <1>1, <1>2, <2>1 DEF CleanVerified, Fields
<1>3. CASE Selected(d)
  BY <1>0, <1>1, <1>3 DEF Selected, Fields
<1>4. CASE Ensure(d)
  BY <1>0, <1>1, <1>4 DEF Ensure, Fields
<1>5. CASE Start(d)
  <2>1. \/ DriverTo(d, [driver[d] EXCEPT !.pc = "prepare"])
        \/ \E S : DriverTo(d, [driver[d] EXCEPT !.pc = "process", !.todo = S])
    BY <1>5 DEF Start
  <2> QED
    BY <1>0, <1>1, <1>5, <2>1 DEF Start, Fields
<1>6. CASE Process(d)
  <2>1. PICK f : DriverTo(d, [driver[d] EXCEPT !.todo = @ \ {f}])
    BY <1>6 DEF Process
  <2> QED
    BY <1>0, <1>1, <1>6, <2>1 DEF Process, Fields
<1>7. CASE Complete(d)
  BY <1>0, <1>1, <1>7 DEF Complete, Fields
<1>8. CASE Prepare(d)
  <2>1. \/ Fails(d)
        \/ \E c : DriverTo(d, [driver[d] EXCEPT !.pc = "refresh", !.left = Attempts,
                                                !.cands = c])
    BY <1>8 DEF Prepare
  <2> QED
    BY <1>0, <1>1, <1>8, <2>1 DEF Prepare, Fails, Fields
<1>9. CASE Refresh(d)
  <2>1. \/ Fails(d)
        \/ DriverTo(d, [driver[d] EXCEPT !.pc = "published"])
        \/ \E t, c : DriverTo(d, [driver[d] EXCEPT !.pc = "commit", !.seen = t,
                                                   !.cands = c])
    BY <1>9 DEF Refresh
  <2> QED
    BY <1>0, <1>1, <1>9, <2>1 DEF Refresh, Fails, Fields
<1>10. CASE Commit(d) \/ CommitRefused(d)
  <2>1. \/ DriverTo(d, [driver[d] EXCEPT !.pc = "published"])
        \/ DriverTo(d, [driver[d] EXCEPT !.pc = "unsure"])
    BY <1>10 DEF Commit, CommitRefused
  <2>2. driver[d].pc = "commit"
    BY <1>10 DEF Commit, CommitRefused
  <2> QED
    BY <1>0, <1>1, <2>1, <2>2 DEF Fields
<1>11. CASE Unsure(d)
  <2>1. \/ Fails(d)
        \/ DriverTo(d, [driver[d] EXCEPT !.pc = "published"])
        \/ DriverTo(d, [driver[d] EXCEPT !.pc = "refresh", !.left = @ - 1])
    BY <1>11 DEF Unsure, Retries
  <2> QED
    BY <1>0, <1>1, <1>11, <2>1 DEF Unsure, Fails, Fields
<1>12. CASE Cleanup(d)
  BY <1>0, <1>1, <1>12 DEF Cleanup
<1> QED
  BY <1>2, <1>3, <1>4, <1>5, <1>6, <1>7, <1>8, <1>9, <1>10, <1>11, <1>12 DEF DriverStep

\* Only making a selection durable adds a workspace (ensure_workspace).
LEMMA ManifestsMove ==
  ASSUME EnrichmentInv, [Next]_vars
  PROVE  \/ manifests' \subseteq manifests
         \/ \E d \in Driver : /\ Ensure(d)
                             /\ manifests' = manifests \cup {driver[d].work}
<1>1. ASSUME NEW w, Removed(w) PROVE manifests' \subseteq manifests
  BY <1>1 DEF Removed, RemovedWhole, RemovedPartly
<1>2. ASSUME NEW d \in Driver, DriverStep(d)
      PROVE  \/ manifests' \subseteq manifests
             \/ Ensure(d) /\ manifests' = manifests \cup {driver[d].work}
  BY <1>1, <1>2 DEF DriverStep, Open, Reconcile, CleanVerified, Selected, Ensure, Start,
     Process, Complete, Prepare, Refresh, Commit, CommitRefused, Unsure, Cleanup, storage
<1>3. CASE OtherStep \/ UNCHANGED vars \/ \E d \in Driver : Crash(d)
  BY <1>3 DEF OtherStep, Append, Prune, Annotate, Overwrite, Relayout, Written, Crash,
     vars, storage
<1> QED
  BY <1>2, <1>3 DEF Next

\* A driver's record is its own.
LEMMA OthersRest ==
  ASSUME EnrichmentInv, [Next]_vars, NEW d \in Driver
  PROVE  DriverStep(d) \/ Crash(d) \/ driver'[d] = driver[d]
<1>0. TypeOK
  BY DEF EnrichmentInv
<1>1. ASSUME NEW e \in Driver, e # d, DriverStep(e) \/ Crash(e)
      PROVE  driver'[d] = driver[d]
  <2>1. PICK r : DriverTo(e, r)
    BY <1>1, DriverLeaves DEF Leaves
  <2> QED
    BY <1>0, <1>1, <2>1, DriverUpdate
<1>2. CASE OtherStep \/ UNCHANGED vars
  BY <1>2 DEF OtherStep, Append, Prune, Annotate, Overwrite, Relayout, Written, vars
<1> QED
  BY <1>1, <1>2 DEF Next

LEMMA WithinStays ==
  ASSUME EnrichmentInv, SingleInv, [Next]_vars
  PROVE  /\ IsFiniteSet(manifests)'
         /\ \A w \in manifests' : DOMAIN w \subseteq DOMAIN table'.rows
<1>0. IsFiniteSet(manifests) /\ \A w \in manifests : DOMAIN w \subseteq DOMAIN table.rows
  BY DEF SingleInv
<1>1. DOMAIN table.rows \subseteq DOMAIN table'.rows
  BY StepTable DEF TableStep, Kept
<1>2. CASE manifests' \subseteq manifests
  BY <1>0, <1>1, <1>2, FS_Subset
<1>3. ASSUME NEW d \in Driver, Ensure(d), manifests' = manifests \cup {driver[d].work}
      PROVE  /\ IsFiniteSet(manifests)'
             /\ \A w \in manifests' : DOMAIN w \subseteq DOMAIN table'.rows
  <2>1. IsFiniteSet(manifests \cup {driver[d].work})
    BY <1>0, FS_AddElement
  <2>2. DOMAIN driver[d].work \subseteq DOMAIN table.rows
    BY <1>3, HasWork DEF Ensure, SelectedFrom, Pending, Unique
  <2> QED
    BY <1>0, <1>1, <1>3, <2>1, <2>2
<1> QED
  BY <1>2, <1>3, ManifestsMove

\* What a run makes durable is the unfinished selection, or there was none.
LEMMA OneStays ==
  ASSUME EnrichmentInv, SingleInv, [Next]_vars
  PROVE  OneUnfinished'
<1>1. \A w \in manifests : Unfinished(w)' => Unfinished(w)
  BY PendingFalls DEF SingleInv
<1>2. \A v, w \in manifests : Unfinished(v) /\ Unfinished(w) => v = w
  BY DEF SingleInv, OneUnfinished, Unfinished
<1>3. CASE manifests' \subseteq manifests
  BY <1>1, <1>2, <1>3 DEF OneUnfinished, Unfinished
<1>4. ASSUME NEW d \in Driver, Ensure(d), manifests' = manifests \cup {driver[d].work}
      PROVE  OneUnfinished'
  <2>1. \A w \in manifests : Unfinished(w) => w = driver[d].work
    BY <1>4 DEF SingleInv, Sole, Ensure
  <2>2. \A w \in manifests' : Unfinished(w)' => w = driver[d].work
    BY <1>1, <1>4, <2>1
  <2> QED
    BY <2>2 DEF OneUnfinished, Unfinished
<1> QED
  BY <1>3, <1>4, ManifestsMove

\* A run that pins the latest table sees all that is pending.
LEMMA BehindStays ==
  ASSUME EnrichmentInv, SingleInv, [Next]_vars, NEW d \in Driver
  PROVE  Behind(driver[d])'
<1> DEFINE r == driver[d]
<1>0. IsTable(table) /\ TypeOK /\ Sound(r) /\ Behind(r)
  BY DEF EnrichmentInv, TypeOK, SingleInv
<1>1. CASE /\ r.pc # "idle"
           /\ driver'[d].pc # "idle" => driver'[d].pinned = r.pinned
  <2>1. DOMAIN r.pinned.rows \subseteq DOMAIN table.rows
    BY <1>0, <1>1 DEF Sound, Unique
  <2>2. DOMAIN r.pinned.rows \cap Pending(table)' \subseteq Pending(r.pinned)
    BY <1>0, <1>1, <2>1, PendingFalls DEF Behind
  <2>3. driver'[d].pc # "idle" =>
          DOMAIN driver'[d].pinned.rows \cap Pending(table)'
            \subseteq Pending(driver'[d].pinned)
    BY <1>1, <2>2
  <2> QED
    BY <2>3 DEF Behind
<1>2. CASE r.pc = "idle" /\ driver'[d] = r
  BY <1>2 DEF Behind
<1>3. CASE Open(d)
  <2>0. PICK t : t = table'
    OBVIOUS
  <2>1. \/ DriverTo(d, [Idle EXCEPT !.pc = "opened", !.pinned = t])
        \/ DriverTo(d, Idle)
    BY <1>3, <2>0 DEF Open, Fails
  <2>2. \A s : s = [Idle EXCEPT !.pc = "opened", !.pinned = t] => s.pinned = t
    BY IdleType DEF Fields
  <2>3. PICK s : DriverTo(d, s) /\ (s = Idle \/ s.pinned = t)
    BY <2>1, <2>2
  <2>4. driver'[d].pc # "idle" => driver'[d].pinned = table'
    BY <1>0, <2>0, <2>3, IdleType, DriverUpdate
  <2> QED
    BY <2>4 DEF Behind
<1>4. CASE Reconcile(d)
  <2>1. \/ DriverTo(d, Idle)
        \/ \E work, clean :
             DriverTo(d, [r EXCEPT !.pc = "cleaning", !.work = work, !.clean = clean])
    BY <1>4 DEF Reconcile, Fails
  <2>0. \A work, clean, s :
          s = [r EXCEPT !.pc = "cleaning", !.work = work, !.clean = clean]
          => s.pinned = r.pinned
    BY RunType DEF Fields
  <2>2. PICK s : DriverTo(d, s) /\ (s = Idle \/ s.pinned = r.pinned)
    BY <2>0, <2>1
  <2>3. driver'[d].pc # "idle" => driver'[d].pinned = r.pinned
    BY <1>0, <2>2, IdleType, DriverUpdate
  <2> QED
    BY <1>1, <1>4, <2>3 DEF Reconcile
<1>5. CASE DriverStep(d) /\ ~Open(d) /\ ~Reconcile(d)
  BY <1>1, <1>5, StepGoes DEF Goes
<1>6. CASE Crash(d)
  <2>1. driver'[d].pc = "idle"
    BY <1>0, <1>6, IdleType, DriverUpdate DEF Crash
  <2> QED
    BY <2>1 DEF Behind
<1>7. CASE driver'[d] = r
  BY <1>1, <1>2, <1>7
<1> QED
  BY <1>3, <1>4, <1>5, <1>6, <1>7, OthersRest DEF Next

\* Reconciliation takes up the unfinished selection, or finds there is none: it
\* refuses to go on past one it cannot match (reconcile_and_select_attempt).
LEMMA ReconcileTakes ==
  ASSUME EnrichmentInv, SingleInv, NEW d \in Driver, Reconcile(d), driver'[d].pc # "idle"
  PROVE  \A w \in manifests : Unfinished(w) => w = driver'[d].work
<1> DEFINE r == driver[d]
           t == driver[d].pinned
           In(state) == {w \in manifests : SelectionState(t, w) = state}
           active == In("unfinished")
<1>0. TypeOK /\ r.pc = "opened" /\ DOMAIN r = Fields /\ Behind(r) /\ IsFiniteSet(manifests)
  BY RunType DEF EnrichmentInv, SingleInv, Reconcile
<1>1. ~Fails(d)
  BY <1>0, IdleType, DriverUpdate DEF Fails
<1>2. PICK work \in Selections(t, active) :
        DriverTo(d, [r EXCEPT !.pc = "cleaning", !.work = work, !.clean = In("verified")])
  BY <1>1 DEF Reconcile
<1>3. In("rejected") = {} /\ Cardinality(active) <= 1
  BY <1>1 DEF Reconcile
<1>4. \A s : s = [r EXCEPT !.pc = "cleaning", !.work = work, !.clean = In("verified")]
               => s.work = work
  BY <1>0 DEF Fields
<1>5. driver'[d].work = work
  BY <1>0, <1>2, <1>4, DriverUpdate
<1>6. ASSUME NEW w \in manifests, Unfinished(w) PROVE w \in active
  <2>1. SelectionState(t, w) # "rejected"
    BY <1>3
  <2>2. Matches(t, w)
    BY <2>1 DEF SelectionState
  <2>3. DOMAIN w \subseteq DOMAIN t.rows
    BY <2>2 DEF Matches
  <2>4. DOMAIN w \cap Pending(t) # {}
    BY <1>0, <1>6, <2>3 DEF Behind, Unfinished
  <2>5. SelectionState(t, w) \in {"unfinished", "rejected"}
    BY <2>2, <2>4 DEF SelectionState
  <2> QED
    BY <2>1, <2>5
<1>7. IsFiniteSet(active)
  BY <1>0, FS_Subset
<1>8. \A w \in active : w = work
  <2> SUFFICES ASSUME NEW w \in active PROVE w = work
    OBVIOUS
  <2>1. work \in active
    BY DEF Selections
  <2> HIDE DEF active
  <2> QED
    BY <1>3, <1>7, <2>1, AtMostOne
<1> QED
  BY <1>5, <1>6, <1>8

LEMMA SoleStays ==
  ASSUME OneDriver, EnrichmentInv, SingleInv, [Next]_vars, NEW d \in Driver
  PROVE  Sole(driver[d])'
<1> DEFINE r == driver[d]
<1>0. TypeOK /\ Sole(r) /\ \A w \in manifests : Unfinished(w)' => Unfinished(w)
  BY PendingFalls DEF EnrichmentInv, SingleInv
<1>1. CASE /\ r.pc \notin {"idle", "opened"}
           /\ driver'[d].pc # "idle" => driver'[d].work = r.work
  <2>1. \A w \in manifests' : w \in manifests \/ w = r.work
    BY ManifestsMove DEF OneDriver
  <2>2. \A w \in manifests' : Unfinished(w)' => w = r.work
    BY <1>0, <1>1, <2>1 DEF Sole
  <2> QED
    BY <1>1, <2>2 DEF Sole
<1>2. CASE r.pc \in {"idle", "opened"} /\ driver'[d] = r
  BY <1>2 DEF Sole
<1>3. CASE Open(d)
  <2>0. PICK t : t = table'
    OBVIOUS
  <2>1. \/ DriverTo(d, [Idle EXCEPT !.pc = "opened", !.pinned = t])
        \/ DriverTo(d, Idle)
    BY <1>3, <2>0 DEF Open, Fails
  <2>2. \A s : s = [Idle EXCEPT !.pc = "opened", !.pinned = t] => s.pc = "opened"
    BY IdleType DEF Fields
  <2>3. PICK s : DriverTo(d, s) /\ s.pc \in {"idle", "opened"}
    BY <2>1, <2>2, IdleType
  <2>4. driver'[d].pc \in {"idle", "opened"}
    BY <1>0, <2>3, DriverUpdate
  <2> QED
    BY <2>4 DEF Sole
<1>4. CASE Reconcile(d)
  <2>1. driver'[d].pc # "idle" =>
          \A w \in manifests : Unfinished(w) => w = driver'[d].work
    BY <1>4, ReconcileTakes
  <2>2. manifests' = manifests
    BY <1>4 DEF Reconcile, storage
  <2> QED
    BY <1>0, <2>1, <2>2 DEF Sole
<1>5. CASE DriverStep(d) /\ ~Open(d) /\ ~Reconcile(d)
  BY <1>1, <1>5, StepGoes DEF Goes
<1>6. CASE Crash(d)
  <2>1. driver'[d].pc = "idle"
    BY <1>0, <1>6, IdleType, DriverUpdate DEF Crash
  <2> QED
    BY <2>1 DEF Sole
<1>7. CASE driver'[d] = r
  BY <1>1, <1>2, <1>7
<1> QED
  BY <1>3, <1>4, <1>5, <1>6, <1>7, OthersRest

(***************************************************************************)
(* With one driver per field group, as the design asks of operators, two   *)
(* selections are never unfinished at once, whatever dies, is refused,     *)
(* rewritten or left behind in between: what a dead run left is resumed    *)
(* before anything new is selected (reconcile_and_select_attempt).         *)
(***************************************************************************)
THEOREM SelectionsInTurn == ASSUME OneDriver PROVE Spec => []OneUnfinished
<1>1. Init => SingleInv
  <2> SUFFICES ASSUME Init PROVE SingleInv
    OBVIOUS
  <2>1. manifests = {} /\ \A d \in Driver : driver[d] = Idle
    BY DEF Init
  <2> QED
    BY <2>1, IdleType, FS_EmptySet DEF SingleInv, OneUnfinished, Behind, Sole
<1>2. EnrichmentInv /\ SingleInv /\ [Next]_vars => SingleInv'
  BY WithinStays, OneStays, BehindStays, SoleStays DEF SingleInv
<1>3. SingleInv => OneUnfinished
  BY DEF SingleInv
<1> QED
  BY <1>1, <1>2, <1>3, EnrichmentAlways, PTL DEF Spec
=============================================================================
