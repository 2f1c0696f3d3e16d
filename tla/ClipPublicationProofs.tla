------------------------ MODULE ClipPublicationProofs ------------------------
(***************************************************************************)
(* Theorems about ClipPublication for any number of drivers, clips and     *)
(* batches, any fragment size, number of attempts, releases and deaths.    *)
(***************************************************************************)
EXTENDS ClipPublicationProperties, FiniteSetTheorems, TLAPS

-----------------------------------------------------------------------------
(***************************************************************************)
(* The inductive invariant.  What a run knows is taken as a record r, so   *)
(* that what other runs' steps leave true of it can be said once.          *)
(***************************************************************************)
Run == [at : Ended \cup Alive, release : 1..Releases,
        batches : SUBSET Batch, pin : Nat,
        buffer : SUBSET Clip, work : [Clip -> Progress],
        failed : SUBSET Clip, tries : 1..Attempts]

Busy == {"publishing", "checking", "committing", "confirming"}
Appending == {"checking", "committing", "confirming"}
Unpublished == {"todo", "cut", "clip", "action", "ok", "failed"}

IdOf(r, c) == <<c, r.release>>
IdsOf(r, S) == {IdOf(r, c) : c \in S}
WantedOf(r) == {c \in Clip : BatchOf[c] \in r.batches}

\* Each file of a clip is stored before its worker goes on to the next.
Written(r) ==
  /\ \A c \in Clip :
       /\ r.work[c] \in {"clip", "action", "ok"} => <<"clip", IdOf(r, c)>> \in stored
       /\ r.work[c] \in {"action", "ok"} => <<"action", ActionOf[c]>> \in stored
       /\ r.work[c] = "ok" => <<"sidecar", IdOf(r, c)>> \in stored
  /\ \A c \in r.buffer : Needs[IdOf(r, c)] \subseteq stored

\* No discovered clip is lost between the table, the buffer, the failures and
\* the workers.
Accounted(r) ==
  /\ r.at \in Busy =>
       \A c \in WantedOf(r) : \/ IdOf(r, c) \in Canonical
                              \/ c \in r.buffer \cup r.failed
                              \/ r.work[c] \in Unpublished
  /\ r.at \in {"reporting", "returned"} =>
       IdsOf(r, WantedOf(r)) \subseteq Canonical \cup IdsOf(r, r.failed)

\* Holds of every run, whatever the others do.
Sound(r) ==
  /\ r.pin <= Len(table)
  /\ r.at \in Appending => r.buffer # {}
  /\ r.at \notin Busy => r.buffer = {}
  /\ r.at \notin Busy \cup {"reporting", "returned"} => r.failed = {}
  /\ Written(r) /\ Accounted(r)

\* The buffer's rows are new, or are the fragment whose commit lost its answer.
Landed(r) ==
  /\ r.at = "confirming" /\ table # <<>> /\ IdsOf(r, r.buffer) = table[Len(table)]

\* Holds of a run that is the only one alive, as long as runs do not overlap.
Single(r) ==
  /\ r.at = "reconciling" => r.pin = Len(table)
  /\ r.at \in Busy => /\ \A id \in Canonical : id[2] = r.release
                      /\ IdsOf(r, r.buffer) \cap Canonical = {} \/ Landed(r)
                      /\ \A c \in r.buffer : r.work[c] = "taken"
                      /\ \A c \in Clip : r.work[c] \in Unpublished
                                           => IdOf(r, c) \notin Canonical
  /\ \A c \in r.failed : /\ c \in WantedOf(r) /\ c \notin r.buffer
                         /\ r.at \in Busy => r.work[c] = "taken"
                         /\ r.at \in Busy \cup {"reporting"} => IdOf(r, c) \notin Canonical
  /\ r.at \in Busy => \A c \in Clip : r.work[c] # "absent" => c \in WantedOf(r)

Serial ==
  ~overlap =>
    /\ \A d, e \in Driver : IsAlive(d) /\ IsAlive(e) => d = e
    /\ \A d \in Driver : IsAlive(d) => Single(run[d])

\* Runs overlap only where more than one driver ran.
Overlapped ==
  overlap => \E d, e \in Driver : d # e /\ run[d].at # "idle" /\ run[e].at # "idle"

ClipInv ==
  /\ TypeOK /\ RowsAreBacked /\ EachClipOnce /\ OneContract /\ NeverTorn
  /\ ReportIsCurrent /\ Serial /\ Overlapped
  /\ \A d \in Driver : Sound(run[d])

-----------------------------------------------------------------------------
(***************************************************************************)
(* The records runs keep.                                                  *)
(***************************************************************************)
\* One run comes to know s.
Becomes(d, s) == run' = [run EXCEPT ![d] = s]

\* A run that begins, or has ended, remembers only its release and batches.
LEMMA FreshType ==
  ASSUME NEW at \in Ended \cup Alive, NEW r \in 1..Releases, NEW B \in SUBSET Batch
  PROVE  /\ Fresh(at, r, B) \in Run
         /\ Fresh(at, r, B).at = at /\ Fresh(at, r, B).release = r
         /\ Fresh(at, r, B).batches = B /\ Fresh(at, r, B).pin = 0
         /\ Fresh(at, r, B).buffer = {} /\ Fresh(at, r, B).failed = {}
         /\ \A c \in Clip : Fresh(at, r, B).work[c] = "absent"
<1>1. [c \in Clip |-> "absent"] \in [Clip -> Progress]
  BY DEF Progress
<1>2. 1 \in 1..Attempts
  BY ClipAssumption
<1> QED
  BY <1>1, <1>2 DEF Fresh, Run

\* What changing one run leaves of the others.
LEMMA Update ==
  ASSUME run \in [Driver -> Run], NEW d \in Driver, NEW s \in Run, Becomes(d, s)
  PROVE  /\ run' \in [Driver -> Run] /\ run'[d] = s
         /\ \A e \in Driver \ {d} : run'[e] = run[e]
BY DEF Becomes

LEMMA RunsType == ASSUME TypeOK PROVE run \in [Driver -> Run]
BY DEF TypeOK, Run

\* The rows of a version do not change, and a commit adds its fragment's.
LEMMA AppendedRows ==
  ASSUME TypeOK, NEW S \in SUBSET Id, table' = Append(table, S)
  PROVE  /\ table' \in Seq(SUBSET Id) /\ Len(table') = Len(table) + 1
         /\ \A i \in 1..Len(table) : table'[i] = table[i]
         /\ table'[Len(table) + 1] = S
         /\ Canonical' = Canonical \cup S
<1>1. table \in Seq(SUBSET Id)
  BY DEF TypeOK
<1>2. /\ table' \in Seq(SUBSET Id) /\ Len(table') = Len(table) + 1
      /\ \A i \in 1..Len(table) : table'[i] = table[i]
      /\ table'[Len(table) + 1] = S
  BY <1>1
<1>3. ASSUME NEW id \in Canonical' PROVE id \in Canonical \cup S
  <2>1. PICK i \in 1..Len(table') : id \in table'[i]
    BY <1>3 DEF Canonical, Rows
  <2>2. i \in 1..Len(table) \/ i = Len(table) + 1
    BY <1>1, <1>2, <2>1
  <2> QED
    BY <1>2, <2>1, <2>2 DEF Canonical, Rows
<1>4. ASSUME NEW id \in Canonical \cup S PROVE id \in Canonical'
  <2>1. CASE id \in S
    BY <1>1, <1>2, <2>1 DEF Canonical, Rows
  <2>2. CASE id \in Canonical
    <3>1. PICK i \in 1..Len(table) : id \in table[i]
      BY <2>2 DEF Canonical, Rows
    <3>2. i \in 1..Len(table') /\ id \in table'[i]
      BY <1>1, <1>2, <3>1
    <3> QED
      BY <3>2 DEF Canonical, Rows
  <2> QED
    BY <1>4, <2>1, <2>2
<1> QED
  BY <1>2, <1>3, <1>4

\* Rows of an earlier version are in the latest.
LEMMA EarlierRows ==
  ASSUME TypeOK, NEW n \in Nat, n <= Len(table)
  PROVE  Rows(n) \subseteq Canonical /\ Canonical \subseteq Id
<1>1. table \in Seq(SUBSET Id)
  BY DEF TypeOK
<1>2. Rows(n) \subseteq Canonical
  BY <1>1 DEF Rows, Canonical
<1>3. Canonical \subseteq Id
  BY <1>1 DEF Rows, Canonical
<1> QED
  BY <1>2, <1>3

-----------------------------------------------------------------------------
(***************************************************************************)
(* What other runs' steps leave of what a run relies on.                   *)
(***************************************************************************)
Grows ==
  /\ Len(table) <= Len(table')
  /\ \A i \in 1..Len(table) : table'[i] = table[i]
  /\ Canonical \subseteq Canonical' /\ stored \subseteq stored'

LEMMA SameTable ==
  ASSUME TypeOK, table' = table, stored \subseteq stored'
  PROVE  Grows /\ Canonical' = Canonical
BY DEF Grows, Canonical, Rows, TypeOK

LEMMA SoundKept ==
  ASSUME TypeOK, Grows
  PROVE  \A r \in Run : Sound(r) => Sound(r)'
<1> SUFFICES ASSUME NEW r \in Run, Sound(r) PROVE Sound(r)'
  OBVIOUS
<1>1. r.pin <= Len(table')
  BY DEF Sound, Grows, Run, TypeOK
<1>2. Written(r)'
  BY DEF Sound, Written, Grows, Needs, Id
<1>3. Accounted(r)'
  BY DEF Sound, Accounted, Grows
<1> QED
  BY <1>1, <1>2, <1>3 DEF Sound

-----------------------------------------------------------------------------
(***************************************************************************)
(* What each step of a run leaves it knowing.                              *)
(***************************************************************************)
OwnStep(d) ==
  \E s \in Run :
    /\ Becomes(d, s) /\ s.at # "idle" /\ Sound(s)'
    /\ ~overlap' /\ s.at \in Alive => Single(s)'
    /\ s.at = "violated" => overlap
    /\ s.at = "returned" => Report(d)

\* A step that touches neither table nor files.
Quiet == table' = table /\ stored' = stored

LEMMA Unmoved ==
  ASSUME Quiet
  PROVE  /\ Canonical' = Canonical
         /\ \A s : Sound(s)' <=> Sound(s)
         /\ \A s : Single(s)' <=> Single(s)
<1>1. Canonical' = Canonical
  BY DEF Quiet, Canonical, Rows
<1>2. ASSUME NEW s PROVE Sound(s)' <=> Sound(s)
  BY <1>1 DEF Quiet, Sound, Written, Accounted
<1>3. ASSUME NEW s PROVE Single(s)' <=> Single(s)
  BY <1>1 DEF Quiet, Single, Landed
<1> QED
  BY <1>1, <1>2, <1>3

\* It is enough to look at the run's new record then.
LEMMA QuietStep ==
  ASSUME Quiet, NEW d \in Driver, NEW s \in Run, Becomes(d, s), s.at # "idle", Sound(s),
         ~overlap' /\ s.at \in Alive => Single(s), s.at = "violated" => overlap,
         s.at = "returned" => Report(d)
  PROVE  OwnStep(d)
BY Unmoved DEF OwnStep

\* What is known of a run that is alive.
LEMMA RunIsSound ==
  ASSUME ClipInv, NEW d \in Driver
  PROVE  /\ run \in [Driver -> Run] /\ run[d] \in Run /\ Sound(run[d])
         /\ ~overlap /\ IsAlive(d) => Single(run[d])
BY RunsType DEF ClipInv, Serial

\* A run that is over, or just begins, relies on nothing.
LEMMA FreshSound ==
  ASSUME TypeOK, NEW at \in Ended \cup {"opening"}, NEW r \in 1..Releases,
         NEW B \in SUBSET Batch, at # "returned", NEW s, s = Fresh(at, r, B)
  PROVE  s \in Run /\ s.at = at /\ Sound(s) /\ Single(s)
<1>1. /\ s \in Run /\ s.at = at /\ s.pin = 0 /\ s.buffer = {} /\ s.failed = {}
      /\ \A c \in Clip : s.work[c] = "absent"
  BY FreshType DEF Ended, Alive
<1>2. Sound(s)
  BY <1>1 DEF Sound, Written, Accounted, Ended, Busy, Appending, TypeOK
<1>3. Single(s)
  BY <1>1 DEF Single, Ended, Busy
<1> QED
  BY <1>1, <1>2, <1>3

LEMMA ForgottenStep ==
  ASSUME TypeOK, Quiet, NEW d \in Driver, NEW at \in {"raised", "refused", "violated"},
         run' = Forgotten(d, at), at = "violated" => overlap
  PROVE  OwnStep(d)
<1>1. PICK s : s = Fresh(at, 1, {})
  OBVIOUS
<1>2. 1 \in 1..Releases /\ at \in Ended /\ {} \in SUBSET Batch
  BY ClipAssumption DEF Ended
<1>3. s \in Run /\ s.at = at /\ Sound(s)
  BY <1>1, <1>2, FreshSound
<1>4. Becomes(d, s)
  BY <1>1 DEF Forgotten, Becomes
<1> QED
  BY <1>3, <1>4, QuietStep DEF Alive

\* run(): a start.
LEMMA StartStep ==
  ASSUME ClipInv, NEW d \in Driver, NEW B \in SUBSET Batch, Start(d, B)
  PROVE  OwnStep(d)
<1>1. PICK s : s = Fresh("opening", release, B)
  OBVIOUS
<1>2. release \in 1..Releases /\ TypeOK /\ Quiet
  BY DEF ClipInv, TypeOK, Start, Quiet
<1>3. s \in Run /\ s.at = "opening" /\ Sound(s) /\ Single(s)
  BY <1>1, <1>2, FreshSound
<1>4. Becomes(d, s)
  BY <1>1 DEF Start, Becomes
<1> QED
  BY <1>2, <1>3, <1>4, QuietStep

\* All of a run's record that matters, but for its place and the version opened.
Keeps(r, s) ==
  /\ s.release = r.release /\ s.batches = r.batches /\ s.work = r.work
  /\ s.buffer = r.buffer /\ s.failed = r.failed

LEMMA KeptSets ==
  ASSUME NEW r, NEW s, Keeps(r, s)
  PROVE  /\ WantedOf(s) = WantedOf(r) /\ \A c : IdOf(s, c) = IdOf(r, c)
         /\ \A S : IdsOf(s, S) = IdsOf(r, S)
BY DEF Keeps, WantedOf, IdOf, IdsOf

\* open_or_create_table.
LEMMA OpenStep ==
  ASSUME ClipInv, NEW d \in Driver, Open(d) \/ Create(d)
  PROVE  OwnStep(d)
<1> DEFINE r == run[d]
<1>1. /\ run \in [Driver -> Run] /\ r \in Run /\ Sound(r)
      /\ Quiet /\ Len(table) \in Nat /\ r.at \in {"opening", "creating"}
  BY RunIsSound DEF Open, Create, AfterCreate, Quiet, ClipInv, TypeOK
<1>2. PICK s \in Run :
        /\ Becomes(d, s) /\ Keeps(r, s) /\ s.at \in {"creating", "reconciling"}
        /\ IF s.at = "creating" THEN s.pin = r.pin ELSE s.pin = Len(table)
  <2>1. CASE run' = [run EXCEPT ![d].at = "creating"]
    <3> DEFINE s == [r EXCEPT !.at = "creating"]
    <3>1. /\ s \in Run /\ s.at = "creating" /\ s.pin = r.pin /\ Keeps(r, s)
      BY <1>1 DEF Run, Keeps, Alive
    <3>2. Becomes(d, s)
      BY <1>1, <2>1 DEF Becomes, Run
    <3> QED
      BY <3>1, <3>2
  <2>2. CASE run' = [run EXCEPT ![d].at = "reconciling", ![d].pin = Len(table)]
    <3> DEFINE s == [r EXCEPT !.at = "reconciling", !.pin = Len(table)]
    <3>1. /\ s \in Run /\ s.at = "reconciling" /\ s.pin = Len(table) /\ Keeps(r, s)
      BY <1>1 DEF Run, Keeps, Alive
    <3>2. Becomes(d, s)
      BY <1>1, <2>2 DEF Becomes, Run
    <3> QED
      BY <3>1, <3>2
  <2> QED
    BY <1>1, <2>1, <2>2 DEF Open, Create, Quiet
<1> HIDE DEF r
<1>3. r.buffer = {} /\ r.failed = {} /\ Written(r) /\ r.pin <= Len(table)
  BY <1>1 DEF Sound, Busy
<1>4. Written(s)
  BY ZenonT(40), <1>2, <1>3, KeptSets DEF Written, Keeps
<1>5. Sound(s)
  BY <1>1, <1>2, <1>3, <1>4 DEF Sound, Accounted, Keeps, Busy, Appending
<1>6. Single(s)
  BY <1>2, <1>3 DEF Single, Keeps, Busy
<1> QED
  BY <1>1, <1>2, <1>5, <1>6, QuietStep

\* A step that moves a run on.
LEMMA Moved ==
  ASSUME run \in [Driver -> Run], NEW d \in Driver, NEW at \in Ended \cup Alive,
         run' = [run EXCEPT ![d].at = at]
  PROVE  \E s \in Run : /\ Becomes(d, s) /\ Keeps(run[d], s)
                        /\ s.at = at /\ s.pin = run[d].pin
<1> DEFINE s == [run[d] EXCEPT !.at = at]
<1>1. s \in Run /\ s.at = at /\ s.pin = run[d].pin /\ Keeps(run[d], s)
  BY DEF Run, Keeps
<1>2. Becomes(d, s)
  BY DEF Becomes, Run
<1> QED
  BY <1>1, <1>2

\* A step of the workers, in a run that is publishing.
LEMMA Worked ==
  ASSUME run \in [Driver -> Run], NEW d \in Driver, NEW w \in [Clip -> Progress],
         run' = [run EXCEPT ![d].work = w]
  PROVE  \E s \in Run :
           /\ Becomes(d, s) /\ s.work = w /\ s.at = run[d].at /\ s.pin = run[d].pin
           /\ s.release = run[d].release /\ s.batches = run[d].batches
           /\ s.buffer = run[d].buffer /\ s.failed = run[d].failed
<1> DEFINE s == [run[d] EXCEPT !.work = w]
<1>1. /\ s \in Run /\ s.work = w /\ s.at = run[d].at /\ s.pin = run[d].pin
      /\ s.release = run[d].release /\ s.batches = run[d].batches
      /\ s.buffer = run[d].buffer /\ s.failed = run[d].failed
  BY DEF Run
<1>2. Becomes(d, s)
  BY DEF Becomes, Run
<1> QED
  BY <1>1, <1>2

\* Nothing is in the table twice unless runs overlapped.
LEMMA NoneDoubled ==
  ASSUME ClipInv, NEW S, NEW n \in Nat, n <= Len(table), Doubled(S, n)
  PROVE  overlap
<1>1. PICK i, j \in 1..n : i # j /\ table[i] \cap table[j] \cap S # {}
  BY DEF Doubled
<1>2. i \in 1..Len(table) /\ j \in 1..Len(table)
  BY DEF ClipInv, TypeOK
<1> QED
  BY <1>1, <1>2 DEF ClipInv, EachClipOnce

\* reconcile_batches.
LEMMA ReconcileStep ==
  ASSUME ClipInv, NEW d \in Driver, Reconcile(d)
  PROVE  OwnStep(d)
<1> DEFINE r == run[d]
<1>1. /\ TypeOK /\ run \in [Driver -> Run] /\ r \in Run /\ Sound(r) /\ Quiet
      /\ r.at = "reconciling" /\ (~overlap => Single(r))
  BY RunIsSound DEF Reconcile, Quiet, ClipInv, IsAlive, Alive
<1>2. /\ r.buffer = {} /\ r.failed = {} /\ Written(r)
      /\ r.pin \in Nat /\ r.pin <= Len(table)
  BY <1>1 DEF Sound, Busy, Run
<1>3. Wanted(d) = WantedOf(r)
  BY DEF Wanted, WantedOf
<1>4. CASE Wanted(d) = {}
  <2>1. run' = [run EXCEPT ![d].at = "reporting"]
    BY <1>4 DEF Reconcile
  <2>2. PICK s \in Run : /\ Becomes(d, s) /\ Keeps(r, s)
                         /\ s.at = "reporting" /\ s.pin = r.pin
    BY <1>1, <2>1, Moved DEF Alive
  <2> HIDE DEF r
  <2>3. Written(s) /\ WantedOf(s) = {}
    BY ZenonT(40), <1>2, <1>3, <1>4, <2>2, KeptSets DEF Written, Keeps
  <2>4. Sound(s)
    BY <1>2, <2>2, <2>3 DEF Sound, Accounted, Keeps, Busy, Appending, IdsOf
  <2>5. Single(s)
    BY <1>2, <2>2 DEF Single, Keeps, Busy
  <2> QED
    BY <1>1, <2>2, <2>4, <2>5, QuietStep
<1>5. CASE Wanted(d) # {} /\ \E id \in Checked(d) : id[2] # run[d].release
  BY <1>1, <1>5, ForgottenStep DEF Reconcile
<1>6. CASE /\ Wanted(d) # {} /\ ~\E id \in Checked(d) : id[2] # run[d].release
           /\ Doubled(Ids(d, Wanted(d)), run[d].pin)
  <2>1. overlap
    BY <1>2, <1>6, NoneDoubled
  <2> QED
    BY <1>1, <1>6, <2>1, ForgottenStep DEF Reconcile
<1>7. CASE /\ Wanted(d) # {} /\ ~\E id \in Checked(d) : id[2] # run[d].release
           /\ ~Doubled(Ids(d, Wanted(d)), run[d].pin)
  <2> DEFINE w == [c \in Clip |-> IF c \in Missing(d) THEN "todo" ELSE "absent"]
             s == [r EXCEPT !.at = "publishing", !.work = w]
  <2>1. run' = [run EXCEPT ![d].at = "publishing", ![d].work = w]
    BY <1>7 DEF Reconcile
  <2>2. w \in [Clip -> Progress]
    BY DEF Progress
  <2> HIDE DEF w
  <2>3. /\ s \in Run /\ s.at = "publishing" /\ s.work = w /\ s.pin = r.pin
        /\ s.release = r.release /\ s.batches = r.batches
        /\ s.buffer = {} /\ s.failed = {}
    BY <1>1, <1>2, <2>2 DEF Run, Alive
  <2>4. Becomes(d, s)
    BY <1>1, <2>1, <2>2 DEF Becomes, Run
  <2> HIDE DEF s
  <2>5. /\ WantedOf(s) = Wanted(d)
        /\ \A c \in Clip : s.work[c] = IF c \in Missing(d) THEN "todo" ELSE "absent"
        /\ \A c : IdOf(s, c) = <<c, r.release>>
    BY <1>3, <2>3 DEF WantedOf, IdOf, w
  <2>6. \A c \in Wanted(d) : IdOf(s, c) \in Rows(r.pin) \/ s.work[c] = "todo"
    BY <2>5 DEF Missing, Wanted
  <2>7. Rows(r.pin) \subseteq Canonical
    BY <1>1, <1>2, EarlierRows
  <2>8. Sound(s)
    <3>1. Written(s)
      BY <2>3, <2>5 DEF Written
    <3>2. Accounted(s)
      BY <2>3, <2>5, <2>6, <2>7 DEF Accounted, Unpublished
    <3> QED
      BY <1>2, <2>3, <3>1, <3>2 DEF Sound, Busy, Appending
  <2>9. ASSUME ~overlap PROVE Single(s)
    <3>1. Rows(r.pin) = Canonical
      BY <1>1, <2>9 DEF Single, Canonical
    <3>2. \A id \in Canonical : id[2] = s.release
      BY <1>7, <2>3, <3>1 DEF Checked
    <3>3. \A c \in Clip : s.work[c] # "absent" =>
            c \in Wanted(d) /\ IdOf(s, c) \notin Canonical
      BY <2>5, <3>1 DEF Missing, Wanted
    <3>4. IdsOf(s, s.buffer) \cap Canonical = {}
      BY <2>3 DEF IdsOf
    <3> QED
      BY <2>3, <2>5, <3>2, <3>3, <3>4 DEF Single, Unpublished
  <2>10. overlap' = overlap
    BY DEF Reconcile
  <2> QED
    BY <1>1, <2>3, <2>4, <2>8, <2>9, <2>10, QuietStep
<1> QED
  BY <1>4, <1>5, <1>6, <1>7

\* Workers that change what they have only of clips that are theirs, from
\* unpublished to unpublished.
LEMMA WorkSound ==
  ASSUME NEW r \in Run, NEW s \in Run, Sound(r), r.at \in Busy,
         s.at = r.at, s.pin = r.pin, s.release = r.release, s.batches = r.batches,
         s.buffer = r.buffer, s.failed = r.failed,
         \A c \in Clip : \/ s.work[c] = r.work[c]
                         \/ s.work[c] \in Unpublished /\ r.work[c] \in Unpublished
  PROVE  Accounted(s) /\ (Single(r) => Single(s))
<1>1. /\ WantedOf(s) = WantedOf(r) /\ \A c : IdOf(s, c) = IdOf(r, c)
      /\ \A S : IdsOf(s, S) = IdsOf(r, S)
  BY DEF WantedOf, IdOf, IdsOf
<1>2. Accounted(s)
  BY <1>1 DEF Sound, Accounted, Busy, WantedOf
<1>3. ASSUME Single(r) PROVE Single(s)
  <2>1. s.at # "reconciling"
    BY DEF Busy
  <2>2. \A id \in Canonical : id[2] = s.release
    BY <1>3 DEF Single
  <2>3. IdsOf(s, s.buffer) \cap Canonical = {} \/ Landed(s)
    BY <1>1, <1>3 DEF Single, Landed
  <2>4. \A c \in s.buffer : s.work[c] = "taken"
    BY <1>3 DEF Single, Unpublished, Run
  <2>5. \A c \in Clip : s.work[c] \in Unpublished => IdOf(s, c) \notin Canonical
    BY <1>1, <1>3 DEF Single
  <2>6. \A c \in s.failed : /\ c \in WantedOf(s) /\ c \notin s.buffer
                            /\ s.work[c] = "taken" /\ IdOf(s, c) \notin Canonical
    BY <1>1, <1>3 DEF Single, Unpublished, Run
  <2>7. \A c \in Clip : s.work[c] # "absent" => c \in WantedOf(s)
    BY <1>1, <1>3 DEF Single, Unpublished
  <2> QED
    BY <2>1, <2>2, <2>3, <2>4, <2>5, <2>6, <2>7 DEF Single
<1> QED
  BY <1>2, <1>3

\* Loading a batch, and running it again, in process_batch.
LEMMA BatchStep ==
  ASSUME ClipInv, NEW d \in Driver, NEW b \in Batch,
         Redo(d, b) \/ \E F \in SUBSET Clip : Load(d, b, F)
  PROVE  OwnStep(d)
<1> DEFINE r == run[d]
<1>1. /\ TypeOK /\ run \in [Driver -> Run] /\ r \in Run /\ Sound(r) /\ Quiet
      /\ r.at \in Busy /\ (~overlap => Single(r)) /\ overlap' = overlap
  BY RunIsSound DEF Redo, Load, Working, Quiet, ClipInv, IsAlive, Alive, Busy
<1>2. PICK w \in [Clip -> Progress] :
        /\ run' = [run EXCEPT ![d].work = w]
        /\ \A c \in Clip : \/ w[c] = r.work[c]
                           \/ w[c] \in {"todo", "cut", "failed"} /\ r.work[c] \in Unpublished
  <2>1. CASE Redo(d, b)
    <3> DEFINE w == [c \in Clip |-> IF c \in Of(d, b) THEN "todo" ELSE r.work[c]]
    <3>1. \A c \in Of(d, b) : c \in Clip /\ r.work[c] \in Unpublished
      BY <1>1, <2>1 DEF Redo, Of, Run, Progress, Unpublished
    <3>2. run' = [run EXCEPT ![d].work = w]
      BY <1>1, <2>1 DEF Redo, Makes, Run
    <3>3. w \in [Clip -> Progress]
      BY <1>1 DEF Run, Progress
    <3> QED
      BY <3>1, <3>2, <3>3
  <2>2. CASE \E F \in SUBSET Clip : Load(d, b, F)
    <3>1. PICK F \in SUBSET Clip : Load(d, b, F)
      BY <2>2
    <3> DEFINE w == [c \in Clip |-> IF c \in F THEN "failed"
                                    ELSE IF c \in Of(d, b) THEN "cut" ELSE r.work[c]]
    <3>2. \A c \in Of(d, b) \cup F : c \in Clip /\ r.work[c] \in Unpublished
      BY <1>1, <3>1 DEF Load, Of, Unpublished
    <3>3. run' = [run EXCEPT ![d].work = w]
      BY <1>1, <3>1 DEF Load, Run
    <3>4. w \in [Clip -> Progress]
      BY <1>1 DEF Run, Progress
    <3> QED
      BY <3>2, <3>3, <3>4
  <2> QED
    BY <2>1, <2>2
<1>3. PICK s \in Run :
        /\ Becomes(d, s) /\ s.work = w /\ s.at = r.at /\ s.pin = r.pin
        /\ s.release = r.release /\ s.batches = r.batches
        /\ s.buffer = r.buffer /\ s.failed = r.failed
  BY <1>1, <1>2, Worked
<1> HIDE DEF r
<1>4. \A c : IdOf(s, c) = IdOf(r, c)
  BY <1>3 DEF IdOf
<1>5. Written(s)
  BY <1>1, <1>2, <1>3, <1>4 DEF Sound, Written
<1>6. Sound(s) /\ (Single(r) => Single(s))
  <2>1. \A c \in Clip : \/ s.work[c] = r.work[c]
                        \/ s.work[c] \in Unpublished /\ r.work[c] \in Unpublished
    BY <1>2, <1>3 DEF Unpublished
  <2> QED
    BY <1>1, <1>3, <1>5, <2>1, WorkSound DEF Sound, Busy
<1> QED
  BY <1>1, <1>3, <1>6, QuietStep DEF Busy

\* Media, action and sidecar of a clip: written, or not.
LEMMA WriteStep ==
  ASSUME ClipInv, NEW d \in Driver, NEW c \in Clip, Write(d, c) \/ WriteFails(d, c)
  PROVE  OwnStep(d) /\ Grows
<1>0. PICK r \in Run : r = run[d]
  BY RunIsSound
<1>1. /\ TypeOK /\ run \in [Driver -> Run] /\ Sound(r)
      /\ table' = table /\ stored \subseteq stored'
      /\ r.at \in Busy /\ (~overlap => Single(r)) /\ overlap' = overlap
      /\ r.work[c] \in {"cut", "clip", "action"}
  BY <1>0, RunIsSound
     DEF Write, WriteFails, Writing, AfterFailure, Working, ClipInv, IsAlive, Alive, Busy
<1>2. Grows /\ Canonical' = Canonical /\ Sound(r)'
  BY <1>1, SameTable, SoundKept
<1>3. PICK x \in {"clip", "action", "ok", "failed"} :
        /\ Makes(d, {c}, x)
        /\ x # "failed" => /\ x = Then(d, c) /\ Due(d, c) \in stored'
  <2>1. Then(d, c) \in {"clip", "action", "ok"}
    BY DEF Then
  <2> QED
    BY <2>1 DEF Write, WriteFails, Outcome
<1> DEFINE w == [o \in Clip |-> IF o = c THEN x ELSE r.work[o]]
<1>4. w \in [Clip -> Progress] /\ run' = [run EXCEPT ![d].work = w]
  <2>1. w \in [Clip -> Progress]
    BY <1>1 DEF Run, Progress
  <2>2. run' = [run EXCEPT ![d].work = w]
    BY <1>0, <1>1, <1>3 DEF Makes, Run
  <2> QED
    BY <2>1, <2>2
<1>5. PICK s \in Run :
        /\ Becomes(d, s) /\ s.work = w /\ s.at = r.at /\ s.pin = r.pin
        /\ s.release = r.release /\ s.batches = r.batches
        /\ s.buffer = r.buffer /\ s.failed = r.failed
  <2> HIDE DEF w
  <2> QED
    BY <1>0, <1>1, <1>4, Worked
<1>6. /\ \A o \in Clip \ {c} : s.work[o] = r.work[o]
      /\ s.work[c] = x
      /\ \A o : IdOf(s, o) = IdOf(r, o)
  BY <1>5 DEF IdOf
<1> HIDE DEF w
<1>7. Written(s)'
  <2>1. Written(r)'
    BY <1>2 DEF Sound
  <2>2. \A o \in s.buffer : Needs[IdOf(s, o)] \subseteq stored'
    BY <1>5, <1>6, <2>1 DEF Written, Needs
  <2>3. /\ x = "clip" => <<"clip", IdOf(r, c)>> \in stored'
        /\ x = "action" => r.work[c] = "clip" /\ <<"action", ActionOf[c]>> \in stored'
        /\ x = "ok" => r.work[c] = "action" /\ <<"sidecar", IdOf(r, c)>> \in stored'
    BY <1>0, <1>1, <1>3 DEF Then, Due, IdOf
  <2>4. \A o \in Clip :
          /\ s.work[o] \in {"clip", "action", "ok"} => <<"clip", IdOf(s, o)>> \in stored'
          /\ s.work[o] \in {"action", "ok"} => <<"action", ActionOf[o]>> \in stored'
          /\ s.work[o] = "ok" => <<"sidecar", IdOf(s, o)>> \in stored'
    <3> TAKE o \in Clip
    <3>1. CASE o # c
      BY <1>6, <2>1, <3>1 DEF Written
    <3>2. CASE o = c
      BY <1>3, <1>6, <2>1, <2>3, <3>2 DEF Written
    <3> QED
      BY <3>1, <3>2
  <2> QED
    BY <2>2, <2>4 DEF Written
<1>8. Accounted(s) /\ (Single(r) => Single(s))
  <2>1. \A o \in Clip : \/ s.work[o] = r.work[o]
                        \/ s.work[o] \in Unpublished /\ r.work[o] \in Unpublished
    BY <1>1, <1>3, <1>6 DEF Unpublished
  <2> QED
    BY <1>1, <1>5, <2>1, WorkSound
<1>9. Accounted(s)' /\ (Single(s) => Single(s)')
  BY <1>1, <1>2, <1>8 DEF Accounted, Single, Landed
<1>10. Sound(s)'
  BY <1>1, <1>2, <1>5, <1>7, <1>9 DEF Sound
<1> QED
  BY <1>1, <1>2, <1>5, <1>8, <1>9, <1>10 DEF OwnStep, Busy

\* _publish_outcomes takes the outcome of a clip.
LEMMA TakeStep ==
  ASSUME ClipInv, NEW d \in Driver, NEW c \in Clip, Take(d, c)
  PROVE  OwnStep(d)
<1>0. PICK r \in Run : r = run[d]
  BY RunIsSound
<1>1. /\ run \in [Driver -> Run] /\ Sound(r) /\ Quiet /\ r.at = "publishing"
      /\ (~overlap => Single(r)) /\ overlap' = overlap /\ r.work[c] \in {"ok", "failed"}
  BY <1>0, RunIsSound DEF Take, Quiet, IsAlive, Alive
<1>2. PICK w \in [Clip -> Progress], buffer \in SUBSET Clip, failed \in SUBSET Clip,
           at \in {"checking", "publishing"} :
        /\ run' = [run EXCEPT ![d].work = w, ![d].buffer = buffer,
                     ![d].failed = failed, ![d].at = at]
        /\ w[c] = "taken" /\ \A o \in Clip \ {c} : w[o] = r.work[o]
        /\ buffer = r.buffer \cup (IF r.work[c] = "ok" THEN {c} ELSE {})
        /\ failed = r.failed \cup (IF r.work[c] = "ok" THEN {} ELSE {c})
        /\ at = "checking" => buffer # {}
  <2> DEFINE w == [r.work EXCEPT ![c] = "taken"]
             buffer == r.buffer \cup (IF r.work[c] = "ok" THEN {c} ELSE {})
             failed == r.failed \cup (IF r.work[c] = "ok" THEN {} ELSE {c})
             at == IF Commits(d, buffer) THEN "checking" ELSE "publishing"
  <2>1. w \in [Clip -> Progress] /\ buffer \in SUBSET Clip /\ failed \in SUBSET Clip
    BY DEF Run, Progress
  <2>2. w[c] = "taken" /\ \A o \in Clip \ {c} : w[o] = r.work[o]
    BY DEF Run
  <2>3. at = "checking" => buffer # {}
    <3>1. Cardinality({}) = 0 /\ Threshold \in Nat \ {0}
      BY FS_EmptySet, ClipAssumption
    <3>2. ~Commits(d, {})
      BY <3>1 DEF Commits
    <3> QED
      BY <3>2
  <2>4. run' = [run EXCEPT ![d].work = w, ![d].buffer = buffer,
                  ![d].failed = failed, ![d].at = at]
    BY <1>0, <1>1 DEF Take, Run
  <2> HIDE DEF w
  <2> QED
    BY <2>1, <2>2, <2>3, <2>4
<1>3. PICK s \in Run :
        /\ Becomes(d, s) /\ s.at = at /\ s.work = w /\ s.pin = r.pin
        /\ s.release = r.release /\ s.batches = r.batches
        /\ s.buffer = buffer /\ s.failed = failed
  <2> DEFINE s == [r EXCEPT !.work = w, !.buffer = buffer, !.failed = failed, !.at = at]
  <2>1. /\ s \in Run /\ s.at = at /\ s.work = w /\ s.pin = r.pin
        /\ s.release = r.release /\ s.batches = r.batches
        /\ s.buffer = buffer /\ s.failed = failed
    BY DEF Run, Alive
  <2>2. Becomes(d, s)
    BY <1>0, <1>1, <1>2 DEF Becomes, Run
  <2> QED
    BY <2>1, <2>2
<1>4. /\ \A o \in s.buffer : o \in r.buffer \/ (o = c /\ r.work[c] = "ok")
      /\ \A o \in s.failed : o \in r.failed \/ (o = c /\ r.work[c] = "failed")
      /\ r.buffer \subseteq s.buffer /\ r.failed \subseteq s.failed
      /\ c \in s.buffer \cup s.failed
      /\ r.work[c] = "ok" => s.failed = r.failed
      /\ r.work[c] = "failed" => s.buffer = r.buffer
      /\ s.at = "checking" => s.buffer # {}
      /\ s.work[c] = "taken" /\ \A o \in Clip \ {c} : s.work[o] = r.work[o]
  <2>1. s.at = "checking" => s.buffer # {}
    BY <1>2, <1>3
  <2>2. s.work[c] = "taken" /\ \A o \in Clip \ {c} : s.work[o] = r.work[o]
    BY <1>2, <1>3
  <2>3. r.work[c] = "ok" => s.buffer = r.buffer \cup {c} /\ s.failed = r.failed
    BY <1>2, <1>3
  <2>4. r.work[c] = "failed" => s.buffer = r.buffer /\ s.failed = r.failed \cup {c}
    BY <1>2, <1>3
  <2> QED
    BY <1>1, <2>1, <2>2, <2>3, <2>4
<1>5. WantedOf(s) = WantedOf(r) /\ \A o : IdOf(s, o) = IdOf(r, o)
  BY <1>3 DEF WantedOf, IdOf
<1>6. Written(s)
  <2>1. Written(r)
    BY <1>1 DEF Sound
  <2>2. \A o \in Clip :
          /\ s.work[o] \in {"clip", "action", "ok"} => <<"clip", IdOf(s, o)>> \in stored
          /\ s.work[o] \in {"action", "ok"} => <<"action", ActionOf[o]>> \in stored
          /\ s.work[o] = "ok" => <<"sidecar", IdOf(s, o)>> \in stored
    <3> TAKE o \in Clip
    <3>1. s.work[o] = "taken" \/ s.work[o] = r.work[o]
      BY <1>4
    <3> QED
      BY <1>5, <2>1, <3>1 DEF Written
  <2>3. ASSUME NEW o \in s.buffer PROVE Needs[IdOf(s, o)] \subseteq stored
    <3>1. CASE o \in r.buffer
      BY <1>5, <2>1, <3>1 DEF Written
    <3>2. CASE o = c /\ r.work[c] = "ok"
      <4>1. IdOf(r, c) \in Id /\ IdOf(r, c)[1] = c
        BY DEF Id, IdOf, Run
      <4>2. /\ <<"clip", IdOf(r, c)>> \in stored /\ <<"action", ActionOf[c]>> \in stored
            /\ <<"sidecar", IdOf(r, c)>> \in stored
        BY <2>1, <3>2 DEF Written
      <4> QED
        BY <1>5, <3>2, <4>1, <4>2 DEF Needs
    <3> QED
      BY <1>4, <3>1, <3>2
  <2> QED
    BY <2>2, <2>3 DEF Written
<1>7. Sound(s)
  <2>1. ASSUME NEW o \in WantedOf(s)
        PROVE  \/ IdOf(s, o) \in Canonical
               \/ o \in s.buffer \cup s.failed
               \/ s.work[o] \in Unpublished
    <3>1. CASE o = c
      BY <1>4, <3>1
    <3>2. CASE o # c
      <4>1. o \in Clip /\ o \in WantedOf(r)
        BY <1>5 DEF WantedOf
      <4>2. \/ IdOf(r, o) \in Canonical \/ o \in r.buffer \cup r.failed
            \/ r.work[o] \in Unpublished
        BY <1>1, <4>1 DEF Sound, Accounted, Busy
      <4> QED
        BY <1>4, <1>5, <3>2, <4>1, <4>2
    <3> QED
      BY <3>1, <3>2
  <2>2. Accounted(s)
    BY <1>3, <2>1 DEF Accounted
  <2> QED
    BY <1>1, <1>3, <1>4, <1>6, <2>2 DEF Sound, Busy, Appending
<1>8. ASSUME Single(r) PROVE Single(s)
  <2>1. s.at \in Busy /\ r.at \in Busy /\ s.at # "reconciling"
    BY <1>1, <1>3 DEF Busy
  <2>2. /\ \A id \in Canonical : id[2] = r.release
        /\ IdsOf(r, r.buffer) \cap Canonical = {}
        /\ \A o \in r.buffer : r.work[o] = "taken"
        /\ \A o \in Clip : r.work[o] \in Unpublished => IdOf(r, o) \notin Canonical
        /\ \A o \in r.failed : /\ o \in WantedOf(r) /\ o \notin r.buffer
                               /\ r.work[o] = "taken" /\ IdOf(r, o) \notin Canonical
        /\ \A o \in Clip : r.work[o] # "absent" => o \in WantedOf(r)
    BY <1>1, <1>8, <2>1 DEF Single, Landed
  <2>3. /\ r.work[c] \in Unpublished /\ r.work[c] # "taken" /\ r.work[c] # "absent"
        /\ IdOf(r, c) \notin Canonical
    BY <1>1, <2>2 DEF Unpublished
  <2>4. IdsOf(s, s.buffer) \cap Canonical = {}
    BY <1>4, <1>5, <2>2, <2>3 DEF IdsOf
  <2>5. \A o \in s.buffer : s.work[o] = "taken"
    BY <1>4, <2>2 DEF Run
  <2>6. \A o \in Clip : s.work[o] \in Unpublished => IdOf(s, o) \notin Canonical
    BY <1>4, <1>5, <2>2, <2>3
  <2>7. ASSUME NEW o \in s.failed
        PROVE  /\ o \in WantedOf(s) /\ o \notin s.buffer
               /\ s.work[o] = "taken" /\ IdOf(s, o) \notin Canonical
    <3>1. CASE o \in r.failed
      <4>1. o # c /\ o \in Clip
        BY <2>2, <2>3, <3>1 DEF Run
      <4> QED
        BY <1>4, <1>5, <2>2, <3>1, <4>1
    <3>2. CASE o = c /\ r.work[c] = "failed"
      <4>1. c \notin r.buffer /\ c \in WantedOf(r)
        BY <2>2, <2>3
      <4> QED
        BY <1>4, <1>5, <2>3, <3>2, <4>1
    <3> QED
      BY <1>4, <3>1, <3>2
  <2>8. \A o \in Clip : s.work[o] # "absent" => o \in WantedOf(s)
    BY <1>4, <1>5, <2>2, <2>3
  <2>9. \A id \in Canonical : id[2] = s.release
    BY <1>3, <2>2
  <2> QED
    BY <2>1, <2>4, <2>5, <2>6, <2>7, <2>8, <2>9 DEF Single
<1> QED
  BY <1>1, <1>3, <1>7, <1>8, QuietStep

\* A run that keeps what it knows of clips, at another step of publishing.
LEMMA KeptSound ==
  ASSUME NEW r \in Run, NEW s \in Run, Keeps(r, s), s.pin = r.pin, Sound(r),
         r.at \in Busy, s.at \in Busy, s.at \in Appending => s.buffer # {}
  PROVE  /\ Sound(s)
         /\ Single(r) /\ (Landed(r) => Landed(s)) => Single(s)
<1>1. /\ WantedOf(s) = WantedOf(r) /\ \A c : IdOf(s, c) = IdOf(r, c)
      /\ \A S : IdsOf(s, S) = IdsOf(r, S)
  BY KeptSets
<1>2. Written(s) /\ Accounted(s)
  <2>1. s.at \notin {"reporting", "returned"}
    BY DEF Busy
  <2> QED
    BY <1>1, <2>1 DEF Sound, Written, Accounted, Keeps
<1>3. Sound(s)
  BY <1>2 DEF Sound, Keeps
<1>4. ASSUME Single(r), Landed(r) => Landed(s) PROVE Single(s)
  <2>1. s.at # "reconciling"
    BY DEF Busy
  <2> QED
    BY <1>1, <1>4, <2>1 DEF Single, Keeps
<1> QED
  BY <1>3, <1>4

\* The last fragment is next, or there is none.
LEMMA FinishStep ==
  ASSUME ClipInv, NEW d \in Driver, Finish(d)
  PROVE  OwnStep(d)
<1>0. PICK r \in Run : r = run[d]
  BY RunIsSound
<1>1. /\ run \in [Driver -> Run] /\ Sound(r) /\ Quiet /\ r.at = "publishing"
      /\ (~overlap => Single(r)) /\ overlap' = overlap
      /\ \A c \in Clip : r.work[c] \in {"absent", "taken"}
  BY <1>0, RunIsSound DEF Finish, Quiet, IsAlive, Alive
<1>2. CASE Flushes(d)
  <2>1. PICK s \in Run : /\ Becomes(d, s) /\ Keeps(r, s)
                         /\ s.at = "checking" /\ s.pin = r.pin
    <3>1. run' = [run EXCEPT ![d].at = "checking"]
      BY <1>2 DEF Finish
    <3>2. \E s \in Run : /\ Becomes(d, s) /\ Keeps(run[d], s)
                         /\ s.at = "checking" /\ s.pin = run[d].pin
      BY <1>1, <3>1, Moved DEF Alive
    <3> QED
      BY <1>0, <3>2
  <2>2. s.buffer # {}
    BY <1>0, <1>2, <2>1 DEF Flushes, Keeps
  <2>3. Sound(s) /\ (Single(r) => Single(s))
    BY <1>1, <2>1, <2>2, KeptSound DEF Busy, Landed
  <2> QED
    BY <1>1, <2>1, <2>3, QuietStep
<1>3. CASE ~Flushes(d)
  <2>1. PICK s \in Run : /\ Becomes(d, s) /\ Keeps(r, s)
                         /\ s.at = "reporting" /\ s.pin = r.pin
    <3>1. run' = [run EXCEPT ![d].at = "reporting"]
      BY <1>3 DEF Finish
    <3>2. \E s \in Run : /\ Becomes(d, s) /\ Keeps(run[d], s)
                         /\ s.at = "reporting" /\ s.pin = run[d].pin
      BY <1>1, <3>1, Moved DEF Alive
    <3> QED
      BY <1>0, <3>2
  <2>2. s.buffer = {} /\ r.buffer = {}
    BY <1>0, <1>3, <2>1 DEF Flushes, Keeps
  <2>3. /\ WantedOf(s) = WantedOf(r) /\ \A c : IdOf(s, c) = IdOf(r, c)
        /\ \A S : IdsOf(s, S) = IdsOf(r, S)
    BY <2>1, KeptSets
  <2>4. Sound(s)
    <3>1. Written(s)
      BY <1>1, <2>1, <2>3 DEF Sound, Written, Keeps
    <3>2. \A c \in WantedOf(r) : IdOf(r, c) \in Canonical \/ c \in r.failed
      BY <1>1, <2>2 DEF Sound, Accounted, Busy, Unpublished, WantedOf
    <3>3. IdsOf(s, WantedOf(s)) \subseteq Canonical \cup IdsOf(s, s.failed)
      BY <2>1, <2>3, <3>2 DEF IdsOf, Keeps
    <3> QED
      BY <1>1, <2>1, <2>2, <3>1, <3>3 DEF Sound, Accounted, Busy, Appending
  <2>5. ASSUME Single(r) PROVE Single(s)
    BY <1>1, <2>1, <2>2, <2>3, <2>5 DEF Single, Keeps, Busy
  <2> QED
    BY <1>1, <2>1, <2>4, <2>5, QuietStep
<1> QED
  BY <1>2, <1>3

\* append_row_fragment returns: the candidate is in the table, whoever put it
\* there.
LEMMA AppendedStep ==
  ASSUME ClipInv, NEW d \in Driver, run[d].at \in Appending, run' = Appended(d),
         Grows, overlap' = overlap, Candidate(d) \subseteq Canonical',
         Canonical' \subseteq Canonical \cup Candidate(d)
  PROVE  OwnStep(d)
<1>0. PICK r \in Run : r = run[d]
  BY RunIsSound
<1>1. /\ TypeOK /\ run \in [Driver -> Run] /\ Sound(r)
      /\ r.at \in Busy /\ (~overlap => Single(r))
  BY <1>0, RunIsSound DEF ClipInv, IsAlive, Alive, Appending, Busy
<1>2. PICK s \in Run :
        /\ Becomes(d, s) /\ s.at = "publishing" /\ s.pin = r.pin /\ s.work = r.work
        /\ s.release = r.release /\ s.batches = r.batches
        /\ s.buffer = {} /\ s.failed = r.failed
  <2> DEFINE s == [r EXCEPT !.at = "publishing", !.buffer = {}, !.tries = 1]
  <2>0. 1 \in 1..Attempts
    BY ClipAssumption
  <2>1. /\ s \in Run /\ s.at = "publishing" /\ s.pin = r.pin /\ s.work = r.work
        /\ s.release = r.release /\ s.batches = r.batches
        /\ s.buffer = {} /\ s.failed = r.failed
    BY <2>0 DEF Run, Alive
  <2>2. Becomes(d, s)
    BY <1>0, <1>1, <2>0 DEF Appended, Becomes, Run
  <2> QED
    BY <2>1, <2>2
<1>3. /\ WantedOf(s) = WantedOf(r) /\ \A c : IdOf(s, c) = IdOf(r, c)
      /\ Candidate(d) = {IdOf(r, c) : c \in r.buffer}
  BY <1>0, <1>2 DEF WantedOf, IdOf, Candidate, Ids
<1>4. Sound(r)'
  BY <1>1, SoundKept
<1>5. Sound(s)'
  <2>1. Written(s)'
    BY <1>2, <1>3, <1>4 DEF Sound, Written
  <2>2. \A c \in r.buffer : IdOf(r, c) \in Canonical'
    BY <1>3
  <2>3. Accounted(s)'
    BY <1>1, <1>2, <1>3, <1>4, <2>2 DEF Sound, Accounted, Busy
  <2> QED
    BY <1>2, <1>4, <2>1, <2>3 DEF Sound, Busy, Appending
<1>6. ASSUME Single(r) PROVE Single(s)'
  <2>1. /\ \A id \in Canonical : id[2] = r.release
        /\ \A c \in r.buffer : r.work[c] = "taken"
        /\ \A c \in Clip : r.work[c] \in Unpublished => IdOf(r, c) \notin Canonical
        /\ \A c \in r.failed : /\ c \in WantedOf(r) /\ c \notin r.buffer
                               /\ r.work[c] = "taken" /\ IdOf(r, c) \notin Canonical
        /\ \A c \in Clip : r.work[c] # "absent" => c \in WantedOf(r)
    BY <1>1, <1>6 DEF Single
  <2>2. \A c : IdOf(r, c) \in Candidate(d) => c \in r.buffer
    BY <1>3 DEF IdOf
  <2>3. \A id \in Canonical' : id[2] = s.release
    BY <1>2, <1>3, <2>1 DEF IdOf
  <2>4. \A c \in Clip : s.work[c] \in Unpublished => IdOf(s, c) \notin Canonical'
    BY <1>2, <1>3, <2>1, <2>2 DEF Unpublished
  <2>5. \A c \in s.failed : /\ c \in WantedOf(s) /\ c \notin s.buffer
                            /\ s.work[c] = "taken" /\ IdOf(s, c) \notin Canonical'
    BY <1>2, <1>3, <2>1, <2>2
  <2>6. IdsOf(s, s.buffer) \cap Canonical' = {}
    BY <1>2 DEF IdsOf
  <2> QED
    BY <1>2, <1>3, <2>1, <2>3, <2>4, <2>5, <2>6 DEF Single
<1> QED
  BY <1>1, <1>2, <1>5, <1>6 DEF OwnStep, Alive

\* The presence check; the case that nothing is there is left to its callers.
LEMMA ResolvesStep ==
  ASSUME ClipInv, NEW d \in Driver, run[d].at \in {"checking", "confirming"}, Quiet,
         overlap' = overlap, NEW none, Resolves(d, none),
         run' = none /\ IdsOf(run[d], run[d].buffer) \cap Canonical = {} => OwnStep(d)
  PROVE  OwnStep(d)
<1>0. PICK r \in Run : r = run[d]
  BY RunIsSound
<1>1. /\ TypeOK /\ run \in [Driver -> Run] /\ Sound(r)
      /\ r.at \in Busy /\ (~overlap => Single(r))
  BY <1>0, RunIsSound DEF ClipInv, IsAlive, Alive, Busy
<1>2. /\ Candidate(d) = IdsOf(r, r.buffer) /\ Present(d) = Candidate(d) \cap Canonical
      /\ Len(table) \in Nat
  BY <1>0, <1>1 DEF Candidate, Ids, IdsOf, IdOf, Present, Asks, Canonical, TypeOK
<1>3. CASE Doubled(Candidate(d), Asks(d))
  <2>1. overlap
    BY <1>2, <1>3, NoneDoubled DEF Asks
  <2> QED
    BY <1>1, <1>3, <2>1, ForgottenStep DEF Resolves
<1>4. CASE ~Doubled(Candidate(d), Asks(d)) /\ Present(d) = Candidate(d)
  <2>1. Grows /\ Canonical' = Canonical
    BY <1>1, SameTable DEF Quiet
  <2>2. run' = Appended(d) /\ run[d].at \in Appending
    BY <1>4 DEF Resolves, Appending
  <2>3. Candidate(d) \subseteq Canonical'
    BY <1>2, <1>4, <2>1
  <2> QED
    BY <2>1, <2>2, <2>3, AppendedStep
<1>5. CASE /\ ~Doubled(Candidate(d), Asks(d)) /\ Present(d) # Candidate(d)
           /\ Present(d) # {}
  <2>1. ASSUME ~overlap PROVE FALSE
    <3>1. Candidate(d) \cap Canonical # {} /\ ~(Candidate(d) \subseteq Canonical)
      BY <1>2, <1>5
    <3>2. Landed(r)
      BY <1>1, <1>2, <2>1, <3>1 DEF Single
    <3>3. Len(table) \in 1..Len(table) /\ Candidate(d) = table[Len(table)]
      BY <1>1, <1>2, <3>2 DEF Landed, TypeOK
    <3>4. table[Len(table)] \subseteq Canonical
      BY <3>3 DEF Canonical, Rows
    <3> QED
      BY <3>1, <3>3, <3>4
  <2>2. run' = Forgotten(d, "violated")
    BY <1>5 DEF Resolves
  <2> QED
    BY <1>1, <2>1, <2>2, ForgottenStep
<1>6. CASE /\ ~Doubled(Candidate(d), Asks(d)) /\ Present(d) # Candidate(d)
           /\ Present(d) = {}
  BY <1>0, <1>2, <1>6 DEF Resolves
<1> QED
  BY <1>3, <1>4, <1>5, <1>6

LEMMA CheckStep ==
  ASSUME ClipInv, NEW d \in Driver, Check(d)
  PROVE  OwnStep(d)
<1>0. PICK r \in Run : r = run[d]
  BY RunIsSound
<1>1. /\ run \in [Driver -> Run] /\ Sound(r) /\ Quiet /\ r.at = "checking"
      /\ run[d].at \in {"checking", "confirming"}
      /\ (~overlap => Single(r)) /\ overlap' = overlap
  BY <1>0, RunIsSound DEF Check, Quiet, IsAlive, Alive
<1>2. ASSUME run' = [run EXCEPT ![d].at = "committing"]
      PROVE  OwnStep(d)
  <2>1. \E s \in Run : /\ Becomes(d, s) /\ Keeps(run[d], s)
                       /\ s.at = "committing" /\ s.pin = run[d].pin
    BY <1>1, <1>2, Moved DEF Alive
  <2>2. PICK s \in Run : /\ Becomes(d, s) /\ Keeps(r, s)
                         /\ s.at = "committing" /\ s.pin = r.pin
    BY <1>0, <2>1
  <2>3. s.buffer # {}
    BY <1>1, <2>2 DEF Sound, Appending, Keeps
  <2>4. Sound(s) /\ (Single(r) => Single(s))
    BY <1>1, <2>2, <2>3, KeptSound DEF Busy, Landed
  <2> QED
    BY <1>1, <2>2, <2>4, QuietStep
<1>3. Resolves(d, [run EXCEPT ![d].at = "committing"])
  BY DEF Check
<1> QED
  BY <1>1, <1>2, <1>3, ResolvesStep

\* The commit raised without taking effect.
LEMMA CommitFailsStep ==
  ASSUME ClipInv, NEW d \in Driver, CommitFails(d)
  PROVE  OwnStep(d)
<1>0. PICK r \in Run : r = run[d]
  BY RunIsSound
<1>1. /\ run \in [Driver -> Run] /\ Sound(r) /\ Quiet /\ r.at = "committing"
      /\ (~overlap => Single(r)) /\ overlap' = overlap
      /\ run' = [run EXCEPT ![d].at = "confirming"]
  BY <1>0, RunIsSound DEF CommitFails, Goes, Quiet, IsAlive, Alive
<1>2. \E s \in Run : /\ Becomes(d, s) /\ Keeps(run[d], s)
                     /\ s.at = "confirming" /\ s.pin = run[d].pin
  BY <1>1, Moved DEF Alive
<1>3. PICK s \in Run : /\ Becomes(d, s) /\ Keeps(r, s)
                       /\ s.at = "confirming" /\ s.pin = r.pin
  BY <1>0, <1>2
<1>4. s.buffer # {}
  BY <1>1, <1>3 DEF Sound, Appending, Keeps
<1>5. Sound(s) /\ (Single(r) => Single(s))
  BY <1>1, <1>3, <1>4, KeptSound DEF Busy, Landed
<1> QED
  BY <1>1, <1>3, <1>5, QuietStep

\* The handler of a commit that raised.
LEMMA ConfirmStep ==
  ASSUME ClipInv, NEW d \in Driver, Confirm(d)
  PROVE  OwnStep(d)
<1>0. PICK r \in Run : r = run[d]
  BY RunIsSound
<1>1. /\ TypeOK /\ run \in [Driver -> Run] /\ Sound(r) /\ Quiet /\ r.at = "confirming"
      /\ run[d].at \in {"checking", "confirming"}
      /\ (~overlap => Single(r)) /\ overlap' = overlap
  BY <1>0, RunIsSound DEF Confirm, Quiet, ClipInv, IsAlive, Alive
<1>2. CASE LastTry(d)
  <2>1. run' = Forgotten(d, "raised") => OwnStep(d)
    BY <1>1, ForgottenStep
  <2>2. Resolves(d, Forgotten(d, "raised"))
    BY <1>2 DEF Confirm
  <2> QED
    BY <1>1, <2>1, <2>2, ResolvesStep
<1>3. CASE ~LastTry(d)
  <2> DEFINE s == [r EXCEPT !.at = "checking", !.tries = r.tries + 1]
             none == [run EXCEPT ![d].at = "checking", ![d].tries = @ + 1]
  <2>1. /\ s \in Run /\ s.at = "checking" /\ s.pin = r.pin /\ Keeps(r, s)
    <3>1. r.tries + 1 \in 1..Attempts
      BY <1>0, <1>3, ClipAssumption DEF LastTry, Run
    <3> QED
      BY <3>1 DEF Run, Keeps, Alive
  <2>2. run' = none => Becomes(d, s)
    BY <1>0, <1>1 DEF Becomes, Run
  <2> HIDE DEF s
  <2>3. s.buffer # {}
    BY <1>1, <2>1 DEF Sound, Appending, Keeps
  <2>4. ASSUME run' = none, IdsOf(run[d], run[d].buffer) \cap Canonical = {}
        PROVE  OwnStep(d)
    <3>1. ~Landed(r)
      <4>1. Len(table) \in Nat
        BY <1>1 DEF TypeOK
      <4>2. ASSUME Landed(r) PROVE FALSE
        <5>1. Len(table) \in 1..Len(table) /\ IdsOf(r, r.buffer) = table[Len(table)]
          BY <1>1, <4>2 DEF Landed, TypeOK
        <5>2. table[Len(table)] \subseteq Canonical
          BY <5>1 DEF Canonical, Rows
        <5>3. IdsOf(r, r.buffer) # {}
          BY <1>1 DEF Sound, Appending, IdsOf
        <5> QED
          BY <1>0, <2>4, <5>1, <5>2, <5>3
      <4> QED
        BY <4>2
    <3>2. Sound(s) /\ (Single(r) => Single(s))
      BY <1>1, <2>1, <2>3, <3>1, KeptSound DEF Busy
    <3> QED
      BY <1>1, <2>1, <2>2, <2>4, <3>2, QuietStep
  <2>5. Resolves(d, none)
    BY <1>3 DEF Confirm
  <2> HIDE DEF none
  <2> QED
    BY <1>1, <2>4, <2>5, ResolvesStep
<1> QED
  BY <1>2, <1>3

\* The commit is applied, and its answer arrives or not.
LEMMA CommitStep ==
  ASSUME ClipInv, NEW d \in Driver, Commit(d)
  PROVE  OwnStep(d) /\ Grows
<1>0. PICK r \in Run : r = run[d]
  BY RunIsSound
<1>1. /\ TypeOK /\ run \in [Driver -> Run] /\ Sound(r) /\ r.at = "committing"
      /\ (~overlap => Single(r)) /\ overlap' = overlap /\ stored' = stored
      /\ table' = Append(table, Candidate(d)) /\ run[d].at \in Appending
  BY <1>0, RunIsSound DEF Commit, ClipInv, IsAlive, Alive, Appending
<1>2. Candidate(d) = IdsOf(r, r.buffer) /\ Candidate(d) \in SUBSET Id
  BY <1>0 DEF Candidate, Ids, IdsOf, IdOf, Id, Run
<1>3. /\ Len(table') = Len(table) + 1 /\ Len(table) \in Nat
      /\ table'[Len(table')] = Candidate(d) /\ table' # <<>>
      /\ Canonical' = Canonical \cup Candidate(d)
      /\ \A i \in 1..Len(table) : table'[i] = table[i]
  <2>1. /\ table' \in Seq(SUBSET Id) /\ Len(table') = Len(table) + 1
        /\ \A i \in 1..Len(table) : table'[i] = table[i]
        /\ table'[Len(table) + 1] = Candidate(d)
        /\ Canonical' = Canonical \cup Candidate(d)
    BY <1>1, <1>2, AppendedRows
  <2>2. Len(table) \in Nat
    BY <1>1 DEF TypeOK
  <2> QED
    BY <2>1, <2>2
<1>4. Grows
  BY <1>1, <1>3 DEF Grows
<1>5. CASE run' = Appended(d)
  BY <1>1, <1>3, <1>4, <1>5, AppendedStep
<1>6. CASE Goes(d, "confirming")
  <2>1. \E s \in Run : /\ Becomes(d, s) /\ Keeps(run[d], s)
                       /\ s.at = "confirming" /\ s.pin = run[d].pin
    BY <1>1, <1>6, Moved DEF Alive, Goes
  <2>2. PICK s \in Run : /\ Becomes(d, s) /\ Keeps(r, s)
                         /\ s.at = "confirming" /\ s.pin = r.pin
    BY <1>0, <2>1
  <2>3. /\ WantedOf(s) = WantedOf(r) /\ \A c : IdOf(s, c) = IdOf(r, c)
        /\ \A S : IdsOf(s, S) = IdsOf(r, S)
    BY <2>2, KeptSets
  <2>4. Sound(s)'
    <3>1. Sound(r)'
      BY <1>1, <1>4, SoundKept
    <3>2. Written(s)'
      BY <2>2, <2>3, <3>1 DEF Sound, Written, Keeps
    <3>3. Accounted(s)'
      BY <1>1, <2>2, <2>3, <3>1 DEF Sound, Accounted, Keeps, Busy
    <3> QED
      BY <1>1, <2>2, <3>1, <3>2, <3>3 DEF Sound, Keeps, Busy, Appending
  <2>5. ASSUME Single(r) PROVE Single(s)'
    <3>1. /\ \A id \in Canonical : id[2] = r.release
          /\ \A c \in r.buffer : r.work[c] = "taken"
          /\ \A c \in Clip : r.work[c] \in Unpublished => IdOf(r, c) \notin Canonical
          /\ \A c \in r.failed : /\ c \in WantedOf(r) /\ c \notin r.buffer
                                 /\ r.work[c] = "taken" /\ IdOf(r, c) \notin Canonical
          /\ \A c \in Clip : r.work[c] # "absent" => c \in WantedOf(r)
      BY <1>1, <2>5 DEF Single, Busy
    <3>2. \A c : IdOf(r, c) \in Candidate(d) => c \in r.buffer
      BY <1>2 DEF IdsOf, IdOf
    <3>3. \A id \in Canonical' : id[2] = s.release
      BY <1>2, <1>3, <2>2, <3>1 DEF IdsOf, IdOf, Keeps
    <3>4. \A c \in Clip : s.work[c] \in Unpublished => IdOf(s, c) \notin Canonical'
      BY <1>3, <2>2, <2>3, <3>1, <3>2 DEF Unpublished, Keeps
    <3>5. \A c \in s.failed : /\ c \in WantedOf(s) /\ c \notin s.buffer
                              /\ s.work[c] = "taken" /\ IdOf(s, c) \notin Canonical'
      BY <1>3, <2>2, <2>3, <3>1, <3>2 DEF Keeps
    <3>6. Landed(s)'
      BY <1>2, <1>3, <2>2, <2>3 DEF Landed, Keeps
    <3> QED
      BY <2>2, <2>3, <3>1, <3>3, <3>4, <3>5, <3>6 DEF Single, Keeps
  <2> QED
    BY <1>1, <1>4, <2>2, <2>4, <2>5 DEF OwnStep
<1> QED
  BY <1>4, <1>5, <1>6 DEF Commit

\* The run is over, and its report is written.
LEMMA ReportStep ==
  ASSUME ClipInv, NEW d \in Driver, Report(d)
  PROVE  OwnStep(d)
<1>0. PICK r \in Run : r = run[d]
  BY RunIsSound
<1>1. /\ run \in [Driver -> Run] /\ Sound(r) /\ Quiet /\ r.at = "reporting"
      /\ run' = [run EXCEPT ![d] = [Fresh("returned", r.release, r.batches)
                                      EXCEPT !.failed = r.failed]]
  BY <1>0, RunIsSound DEF Report, Quiet
<1> DEFINE f == Fresh("returned", r.release, r.batches)
           s == [f EXCEPT !.failed = r.failed]
<1>2. /\ f \in Run /\ f.at = "returned" /\ f.release = r.release /\ f.batches = r.batches
      /\ f.pin = 0 /\ f.buffer = {} /\ \A c \in Clip : f.work[c] = "absent"
  BY FreshType DEF Run, Ended
<1>3. Becomes(d, s)
  BY <1>1 DEF Becomes
<1> HIDE DEF f
<1>4. /\ s \in Run /\ s.at = "returned" /\ s.release = r.release /\ s.batches = r.batches
      /\ s.pin = 0 /\ s.buffer = {} /\ \A c \in Clip : s.work[c] = "absent"
      /\ s.failed = r.failed
  BY <1>2 DEF Run
<1> HIDE DEF s
<1>5. /\ WantedOf(s) = WantedOf(r) /\ IdsOf(s, WantedOf(s)) = IdsOf(r, WantedOf(r))
      /\ IdsOf(s, s.failed) = IdsOf(r, r.failed)
  BY <1>4 DEF WantedOf, IdsOf, IdOf
<1>6. Sound(s)
  <2>1. Accounted(s)
    BY <1>1, <1>4, <1>5 DEF Sound, Accounted, Busy
  <2>2. Written(s)
    BY <1>4 DEF Written
  <2>3. 0 <= Len(table)
    BY DEF ClipInv, TypeOK
  <2> QED
    BY <1>4, <2>1, <2>2, <2>3 DEF Sound, Busy, Appending
<1> QED
  BY <1>1, <1>3, <1>4, <1>6, QuietStep DEF Alive

LEMMA EndStep ==
  ASSUME ClipInv, NEW d \in Driver, Dies(d) \/ CreateFails(d) \/ ReportFails(d)
  PROVE  OwnStep(d)
<1>1. TypeOK /\ Quiet /\ run' = Forgotten(d, "raised")
  BY DEF ClipInv, Dies, CreateFails, ReportFails, Quiet
<1> QED
  BY <1>1, ForgottenStep

-----------------------------------------------------------------------------
(***************************************************************************)
(* A step of a run, whichever it is.                                       *)
(***************************************************************************)
Starts(d) == \E B \in SUBSET Batch : Start(d, B)

Acts(d) ==
  \/ Driving(d) \/ Commit(d) \/ Failing(d) \/ Starts(d)
  \/ \E b \in Batch : \E F \in SUBSET Clip : Load(d, b, F)
  \/ \E c \in Clip : Write(d, c)

\* A run starts where none is alive, and only runs alive act otherwise; a run
\* that starts while another is alive is remembered.
Turn(d) ==
  \/ ~IsAlive(d) /\ overlap' = (overlap \/ \E e \in Driver \ {d} : IsAlive(e))
  \/ IsAlive(d) /\ overlap' = overlap

LEMMA RunStep ==
  ASSUME ClipInv, NEW d \in Driver, Acts(d)
  PROVE  OwnStep(d) /\ Grows /\ Turn(d)
<1>1. CASE Starts(d)
  <2>1. PICK B \in SUBSET Batch : Start(d, B)
    BY <1>1 DEF Starts
  <2>2. TypeOK /\ table' = table /\ stored' = stored /\ Turn(d)
    BY <2>1 DEF ClipInv, Start, Turn
  <2> QED
    BY <2>1, <2>2, StartStep, SameTable
<1>2. CASE Driving(d)
  <2>1. OwnStep(d)
    BY <1>2, OpenStep, ReconcileStep, FinishStep, CheckStep, ConfirmStep, ReportStep, TakeStep
       DEF Driving
  <2>2. TypeOK /\ table' = table /\ stored' = stored /\ Turn(d)
    BY <1>2 DEF ClipInv, Driving, Open, Create, AfterCreate, Reconcile, Finish, Check,
                Confirm, Report, Take, Turn, IsAlive, Alive
  <2> QED
    BY <2>1, <2>2, SameTable
<1>3. CASE Commit(d)
  BY <1>3, CommitStep DEF Commit, Turn, IsAlive, Alive
<1>4. CASE \E c \in Clip : Write(d, c) \/ WriteFails(d, c)
  <2>1. PICK c \in Clip : Write(d, c) \/ WriteFails(d, c)
    BY <1>4
  <2>2. Turn(d)
    BY <2>1 DEF Write, WriteFails, Writing, Working, Turn, IsAlive, Alive
  <2> QED
    BY <2>1, <2>2, WriteStep
<1>5. CASE \E b \in Batch : Redo(d, b) \/ \E F \in SUBSET Clip : Load(d, b, F)
  <2>1. PICK b \in Batch : Redo(d, b) \/ \E F \in SUBSET Clip : Load(d, b, F)
    BY <1>5
  <2>2. TypeOK /\ table' = table /\ stored' = stored /\ Turn(d)
    BY <2>1 DEF ClipInv, Redo, Load, Working, Turn, IsAlive, Alive
  <2> QED
    BY <2>1, <2>2, BatchStep, SameTable
<1>6. CASE Dies(d) \/ CreateFails(d) \/ ReportFails(d) \/ CommitFails(d)
  <2>1. TypeOK /\ table' = table /\ stored' = stored /\ Turn(d)
    BY <1>6 DEF ClipInv, Dies, CreateFails, ReportFails, CommitFails, Turn, IsAlive, Alive
  <2> QED
    BY <1>6, <2>1, EndStep, CommitFailsStep, SameTable
<1> QED
  BY <1>1, <1>2, <1>3, <1>4, <1>5, <1>6 DEF Acts, Failing

\* What a run's step does to table and files: it writes a file, or commits a
\* fragment whose rows are backed, of its release, and new unless runs overlap.
Publishes(S) ==
  /\ S # {} /\ S \subseteq Id /\ table' = Append(table, S)
  /\ \A id \in S : Needs[id] \subseteq stored
  /\ ~overlap => /\ S \cap Canonical = {}
                 /\ \A x \in S, y \in S \cup Canonical : x[2] = y[2]

LEMMA CommitPublishes ==
  ASSUME ClipInv, NEW d \in Driver, Commit(d)
  PROVE  Publishes(Candidate(d)) /\ stored' = stored
<1>0. PICK r \in Run : r = run[d]
  BY RunIsSound
<1>1. /\ Sound(r) /\ r.at = "committing" /\ (~overlap => Single(r))
      /\ table' = Append(table, Candidate(d)) /\ stored' = stored
  BY <1>0, RunIsSound DEF Commit, IsAlive, Alive
<1>2. /\ Candidate(d) = {IdOf(r, c) : c \in r.buffer} /\ IdsOf(r, r.buffer) = Candidate(d)
      /\ Candidate(d) \subseteq Id
  BY <1>0 DEF Candidate, Ids, IdsOf, IdOf, Id, Run
<1>3. Candidate(d) # {} /\ \A id \in Candidate(d) : Needs[id] \subseteq stored
  BY <1>1, <1>2 DEF Sound, Written, Appending
<1>4. ASSUME ~overlap
      PROVE  /\ Candidate(d) \cap Canonical = {}
             /\ \A x \in Candidate(d), y \in Candidate(d) \cup Canonical : x[2] = y[2]
  <2>1. /\ Candidate(d) \cap Canonical = {}
        /\ \A id \in Canonical : id[2] = r.release
    BY <1>1, <1>2, <1>4 DEF Single, Landed, Busy
  <2>2. \A id \in Candidate(d) : id[2] = r.release
    BY <1>2 DEF IdOf
  <2> QED
    BY <2>1, <2>2
<1> QED
  BY <1>1, <1>2, <1>3, <1>4 DEF Publishes

LEMMA NextIs ==
  ASSUME Next
  PROVE  Upgrade \/ \E d \in Driver : Acts(d)
BY DEF Next, Acts, Starts

-----------------------------------------------------------------------------
(***************************************************************************)
(* The invariant is inductive.                                             *)
(***************************************************************************)
\* What a run's record satisfies, the run does.
LEMMA AfterStep ==
  ASSUME NEW d, NEW s, run'[d] = s
  PROVE  /\ Sound(s)' => Sound(run[d])'
         /\ Single(s)' => Single(run[d])'
<1>1. ASSUME Sound(s)' PROVE Sound(run[d])'
  <2>1. Written(run[d])'
    BY <1>1 DEF Sound, Written, IdOf
  <2>2. Accounted(run[d])'
    BY <1>1 DEF Sound, Accounted, IdOf, IdsOf, WantedOf
  <2> QED
    BY <1>1, <2>1, <2>2 DEF Sound
<1>2. ASSUME Single(s)' PROVE Single(run[d])'
  BY <1>2 DEF Single, Landed, IdOf, IdsOf, WantedOf
<1> QED
  BY <1>1, <1>2

LEMMA TypeStep ==
  ASSUME ClipInv, NEW d \in Driver, Acts(d), run' \in [Driver -> Run]
  PROVE  TypeOK'
<1>1. TypeOK
  BY DEF ClipInv
<1>2. created' \in BOOLEAN /\ overlap' \in BOOLEAN /\ release' \in 1..Releases
  <2>1. overlap' \in BOOLEAN
    BY <1>1, RunStep DEF Turn, TypeOK
  <2>2. created' \in BOOLEAN /\ release' = release
    BY <1>1 DEF Acts, Driving, Commit, Failing, Starts, Load, Write, Open, Create, Reconcile,
         Finish, Check, Confirm, Report, Take, Dies, CreateFails, CommitFails, ReportFails,
         WriteFails, Redo, Start, TypeOK
  <2> QED
    BY <1>1, <2>1, <2>2 DEF TypeOK
<1>3. table' \in Seq(SUBSET Id)
  <2>1. CASE Commit(d)
    BY <1>1, <2>1, CommitPublishes, AppendedRows DEF Publishes
  <2>2. CASE ~Commit(d)
    <3>1. table' = table
      BY <2>2 DEF Acts, Driving, Failing, Starts, Load, Write, Open, Create, AfterCreate,
         Reconcile, Finish, Check, Confirm, Report, Take, Dies, CreateFails, CommitFails,
         ReportFails, WriteFails, Redo, Start
    <3> QED
      BY <1>1, <3>1 DEF TypeOK
  <2> QED
    BY <2>1, <2>2
<1>4. stored' \subseteq Artifact
  <2>1. \A c \in Clip : Due(d, c) \in Artifact
    <3>1. \A c \in Clip : <<c, run[d].release>> \in Id
      BY <1>1, RunsType DEF Id, Run
    <3> QED
      BY <3>1 DEF Due, Artifact
  <2>2. \/ stored' = stored
        \/ \E c \in Clip : stored' = stored \cup {Due(d, c)}
    BY DEF Acts, Driving, Commit, Failing, Starts, Load, Write, Open, Create, Reconcile,
         Finish, Check, Confirm, Report, Take, Dies, CreateFails, CommitFails, ReportFails,
         WriteFails, AfterFailure, Redo, Start
  <2> QED
    BY <1>1, <2>1, <2>2 DEF TypeOK
<1>5. errors' \subseteq Id
  <2>1. ReportOf(d) \subseteq Id
    BY <1>1, RunsType DEF ReportOf, Ids, Id, Run
  <2>2. errors' = errors \/ errors' = ReportOf(d)
    BY DEF Acts, Driving, Commit, Failing, Starts, Load, Write, Open, Create, Reconcile,
         Finish, Check, Confirm, Report, Take, Dies, CreateFails, CommitFails, ReportFails,
         WriteFails, Redo, Start
  <2> QED
    BY <1>1, <2>1, <2>2 DEF TypeOK
<1>6. deaths' \in 0..Deaths
  <2>1. deaths' = deaths \/ (deaths < Deaths /\ deaths' = deaths + 1)
    BY DEF Acts, Driving, Commit, Failing, Starts, Load, Write, Open, Create, Reconcile,
         Finish, Check, Confirm, Report, Take, Dies, CreateFails, CommitFails, ReportFails,
         WriteFails, Redo, Start
  <2> QED
    BY <1>1, <2>1, ClipAssumption DEF TypeOK
<1> QED
  BY <1>2, <1>3, <1>4, <1>5, <1>6 DEF TypeOK, Run

\* Only a commit changes the table.
LEMMA TableStep ==
  ASSUME ClipInv, NEW d \in Driver, Acts(d)
  PROVE  table' = table \/ \E S : Publishes(S) /\ stored' = stored
<1>1. CASE Commit(d)
  BY <1>1, CommitPublishes
<1>2. CASE ~Commit(d)
  BY <1>2 DEF Acts, Driving, Failing, Starts, Load, Write, Open, Create, AfterCreate,
     Reconcile, Finish, Check, Confirm, Report, Take, Dies, CreateFails, CommitFails,
     ReportFails, WriteFails, Redo, Start
<1> QED
  BY <1>1, <1>2

\* What a commit leaves of uniqueness, of the files behind the rows and of their
\* contract.
LEMMA PublishedKept ==
  ASSUME ClipInv, NEW S, Publishes(S), stored' = stored, overlap => overlap'
  PROVE  RowsAreBacked' /\ EachClipOnce' /\ OneContract'
<1>1. TypeOK /\ RowsAreBacked /\ EachClipOnce /\ OneContract
  BY DEF ClipInv
<1>2. /\ Len(table') = Len(table) + 1 /\ Len(table) \in Nat
      /\ \A i \in 1..Len(table) : table'[i] = table[i]
      /\ table'[Len(table) + 1] = S
      /\ Canonical' = Canonical \cup S
  <2>1. Len(table) \in Nat
    BY <1>1 DEF TypeOK
  <2> QED
    BY <1>1, <2>1, AppendedRows DEF Publishes
<1>3. RowsAreBacked'
  BY <1>1, <1>2 DEF RowsAreBacked, Publishes, Needs
<1>4. ASSUME ~overlap',
             NEW i \in 1..Len(table'), NEW j \in 1..Len(table'), i # j
      PROVE  table'[i] \cap table'[j] = {}
  <2>1. ~overlap /\ S \cap Canonical = {}
    BY <1>4 DEF Publishes
  <2>2. \A k \in 1..Len(table) : table[k] \cap S = {}
    BY <2>1 DEF Canonical, Rows
  <2>3. \/ i \in 1..Len(table) /\ j \in 1..Len(table)
        \/ i \in 1..Len(table) /\ j = Len(table) + 1
        \/ j \in 1..Len(table) /\ i = Len(table) + 1
    BY <1>2, <1>4
  <2>4. i \in 1..Len(table) /\ j \in 1..Len(table) => table[i] \cap table[j] = {}
    BY <1>1, <1>4, <2>1 DEF EachClipOnce
  <2> QED
    BY <1>2, <2>2, <2>3, <2>4
<1>5. EachClipOnce'
  BY <1>4 DEF EachClipOnce
<1>6. OneContract'
  BY <1>1, <1>2 DEF OneContract, Publishes
<1> QED
  BY <1>3, <1>5, <1>6

LEMMA TableKept ==
  ASSUME ClipInv, NEW d \in Driver, Acts(d)
  PROVE  RowsAreBacked' /\ EachClipOnce' /\ OneContract'
<1>1. Grows /\ (overlap => overlap')
  BY RunStep DEF Turn
<1>2. TypeOK /\ RowsAreBacked /\ EachClipOnce /\ OneContract
  BY DEF ClipInv
<1>3. CASE table' = table
  <2>1. Canonical' = Canonical
    BY <1>3 DEF Canonical, Rows
  <2>2. RowsAreBacked'
    BY <1>1, <1>2, <2>1 DEF RowsAreBacked, Grows, Needs
  <2> QED
    BY <1>1, <1>2, <1>3, <2>1, <2>2 DEF EachClipOnce, OneContract
<1> QED
  BY <1>1, <1>3, PublishedKept, TableStep

\* The report is written by the run that returns, when no other run was there.
LEMMA ReportKept ==
  ASSUME ClipInv, NEW d \in Driver, Acts(d), run' \in [Driver -> Run], run'[d].at # "idle",
         run'[d].at = "returned" => Report(d),
         \A e \in Driver \ {d} : run'[e] = run[e]
  PROVE  ReportIsCurrent'
<1> SUFFICES ASSUME NEW o \in Driver, run'[o].at = "returned",
                    \A e \in Driver \ {o} : run'[e].at = "idle"
             PROVE  errors' = Ids(o, Wanted(o))' \ Canonical'
  BY DEF ReportIsCurrent
<1>1. o = d /\ Report(d)
  OBVIOUS
<1>2. PICK r \in Run : r = run[d]
  BY RunIsSound
<1>3. ~overlap
  <2>1. \A e \in Driver \ {d} : run[e].at = "idle"
    BY <1>1
  <2> QED
    BY <2>1 DEF ClipInv, Overlapped
<1>4. r.at = "reporting" /\ Sound(r) /\ Single(r)
  BY <1>1, <1>2, <1>3, RunIsSound DEF Report, IsAlive, Alive
<1>5. errors' = IdsOf(r, r.failed) /\ Canonical' = Canonical
  BY <1>1, <1>2 DEF Report, ReportOf, Ids, IdsOf, IdOf, Canonical, Rows
<1>6. run'[d].release = r.release /\ run'[d].batches = r.batches
  <2> DEFINE f == Fresh("returned", r.release, r.batches)
  <2>1. f \in Run /\ f.release = r.release /\ f.batches = r.batches
    BY FreshType DEF Run, Ended
  <2>2. run'[d] = [f EXCEPT !.failed = r.failed]
    BY <1>1, <1>2, RunIsSound DEF Report
  <2> HIDE DEF f
  <2> QED
    BY <2>1, <2>2 DEF Run
<1>7. Ids(o, Wanted(o))' = IdsOf(r, WantedOf(r))
  BY <1>1, <1>6 DEF Ids, Wanted, IdsOf, IdOf, WantedOf
<1>8. IdsOf(r, r.failed) = IdsOf(r, WantedOf(r)) \ Canonical
  <2>1. IdsOf(r, WantedOf(r)) \subseteq Canonical \cup IdsOf(r, r.failed)
    BY <1>4 DEF Sound, Accounted
  <2>2. \A c \in r.failed : c \in WantedOf(r) /\ IdOf(r, c) \notin Canonical
    BY <1>4 DEF Single
  <2>3. IdsOf(r, r.failed) \subseteq IdsOf(r, WantedOf(r)) \ Canonical
    BY <2>2 DEF IdsOf
  <2> QED
    BY <2>1, <2>3
<1> QED
  BY <1>5, <1>7, <1>8

LEMMA RunKept ==
  ASSUME ClipInv, NEW d \in Driver, Acts(d)
  PROVE  ClipInv'
<1>1. PICK s \in Run :
        /\ Becomes(d, s) /\ s.at # "idle" /\ Sound(s)'
        /\ ~overlap' /\ s.at \in Alive => Single(s)'
        /\ s.at = "violated" => overlap
        /\ s.at = "returned" => Report(d)
  BY RunStep DEF OwnStep
<1>2. Grows /\ Turn(d) /\ run \in [Driver -> Run] /\ TypeOK
  BY RunStep, RunIsSound DEF ClipInv
<1>3. /\ run' \in [Driver -> Run] /\ run'[d] = s
      /\ \A e \in Driver \ {d} : run'[e] = run[e]
  BY <1>1, <1>2, Update
<1>4. TypeOK'
  BY <1>3, TypeStep
<1>5. RowsAreBacked' /\ EachClipOnce' /\ OneContract'
  BY TableKept
<1>6. NeverTorn'
  <2>1. overlap => overlap'
    BY <1>2 DEF Turn
  <2> QED
    BY <1>1, <1>3, <2>1 DEF ClipInv, NeverTorn
<1>7. ReportIsCurrent'
  BY <1>1, <1>3, ReportKept
<1>8. Serial'
  <2> SUFFICES ASSUME ~overlap'
               PROVE  /\ \A e, o \in Driver : IsAlive(e)' /\ IsAlive(o)' => e = o
                      /\ \A e \in Driver : IsAlive(e)' => Single(run[e])'
    BY DEF Serial
  <2>1. \A e \in Driver \ {d} : ~IsAlive(e)
    <3>1. CASE IsAlive(d) /\ overlap' = overlap
      <4>1. \A e, o \in Driver : IsAlive(e) /\ IsAlive(o) => e = o
        BY <3>1 DEF ClipInv, Serial
      <4> QED
        BY <3>1, <4>1
    <3>2. CASE overlap' = (overlap \/ \E e \in Driver \ {d} : IsAlive(e))
      BY <3>2
    <3> QED
      BY <1>2, <3>1, <3>2 DEF Turn
  <2>2. \A e \in Driver \ {d} : ~IsAlive(e)'
    BY <1>3, <2>1 DEF IsAlive
  <2>3. IsAlive(d)' => Single(run[d])'
    BY <1>1, <1>3, AfterStep DEF IsAlive
  <2> QED
    BY <2>2, <2>3
<1>9. Overlapped'
  <2>1. CASE overlap
    <3>1. PICK e, o \in Driver : e # o /\ run[e].at # "idle" /\ run[o].at # "idle"
      BY <2>1 DEF ClipInv, Overlapped
    <3>2. run'[e].at # "idle" /\ run'[o].at # "idle"
      BY <1>1, <1>3, <3>1
    <3> QED
      BY <3>1, <3>2 DEF Overlapped
  <2>2. CASE ~overlap /\ overlap'
    <3>1. PICK e \in Driver \ {d} : IsAlive(e)
      BY <1>2, <2>2 DEF Turn
    <3>2. run'[e].at # "idle" /\ run'[d].at # "idle"
      BY <1>1, <1>3, <3>1 DEF IsAlive, Alive
    <3> QED
      BY <3>1, <3>2 DEF Overlapped
  <2> QED
    BY <2>1, <2>2 DEF Overlapped
<1>10. ASSUME NEW e \in Driver PROVE Sound(run[e])'
  <2>1. CASE e = d
    BY <1>1, <1>3, <2>1, AfterStep
  <2>2. CASE e # d
    <3>1. PICK r \in Run : r = run[e] /\ Sound(r)
      BY RunIsSound
    <3>2. Sound(r)'
      BY <1>2, <3>1, SoundKept
    <3>3. run'[e] = r
      BY <1>3, <2>2, <3>1
    <3> QED
      BY <3>2, <3>3, AfterStep
  <2> QED
    BY <2>1, <2>2
<1> QED
  BY <1>4, <1>5, <1>6, <1>7, <1>8, <1>9, <1>10 DEF ClipInv

LEMMA InitInv == Init => ClipInv
<1> SUFFICES ASSUME Init PROVE ClipInv
  OBVIOUS
<1>1. TypeOK
  <2>1. 1 \in 1..Releases /\ 0 \in 0..Deaths /\ {} \in SUBSET Batch
    BY ClipAssumption
  <2>2. Fresh("idle", 1, {}) \in Run
    BY <2>1, FreshType DEF Ended
  <2>3. run \in [Driver -> Run]
    BY <2>2 DEF Init
  <2>4. table \in Seq(SUBSET Id)
    BY DEF Init
  <2> QED
    BY <2>1, <2>3, <2>4 DEF Init, TypeOK, Run
<1>2. Canonical = {}
  BY DEF Init, Canonical, Rows
<1>3. ASSUME NEW d \in Driver
      PROVE  run[d].at = "idle" /\ Sound(run[d])
  <2>1. 1 \in 1..Releases /\ {} \in SUBSET Batch
    BY ClipAssumption
  <2>2. run[d] = Fresh("idle", 1, {})
    BY DEF Init
  <2> QED
    BY <1>1, <2>1, <2>2, FreshSound DEF Ended
<1>4. RowsAreBacked /\ EachClipOnce /\ OneContract
  BY <1>2 DEF Init, RowsAreBacked, EachClipOnce, OneContract
<1>5. NeverTorn /\ ReportIsCurrent /\ Serial /\ Overlapped
  BY <1>3 DEF Init, NeverTorn, ReportIsCurrent, Serial, Overlapped, IsAlive, Alive
<1> QED
  BY <1>1, <1>3, <1>4, <1>5 DEF ClipInv

\* A release changes nothing of this.
LEMMA StillInv ==
  ASSUME ClipInv, UNCHANGED <<created, table, stored, errors, run, deaths, overlap>>,
         release' \in 1..Releases
  PROVE  ClipInv'
<1>1. Quiet /\ TypeOK' /\ Canonical' = Canonical
  BY DEF Quiet, ClipInv, TypeOK, Canonical, Rows
<1>2. RowsAreBacked' /\ EachClipOnce' /\ OneContract' /\ NeverTorn'
  BY <1>1 DEF ClipInv, RowsAreBacked, EachClipOnce, OneContract, NeverTorn, Needs
<1>3. ReportIsCurrent'
  BY <1>1 DEF ClipInv, ReportIsCurrent, Ids, Wanted
<1>4. ASSUME NEW d \in Driver
      PROVE  Sound(run[d])' /\ (Single(run[d]) => Single(run[d])')
  <2>1. PICK r : r = run[d]
    OBVIOUS
  <2> QED
    BY <1>1, <2>1, RunIsSound, Unmoved, AfterStep
<1>5. Serial'
  BY <1>4 DEF ClipInv, Serial, IsAlive
<1>6. Overlapped'
  BY DEF ClipInv, Overlapped
<1> QED
  BY <1>1, <1>2, <1>3, <1>4, <1>5, <1>6 DEF ClipInv

LEMMA StepInv == ClipInv /\ [Next]_vars => ClipInv'
<1> SUFFICES ASSUME ClipInv, [Next]_vars PROVE ClipInv'
  OBVIOUS
<1>1. CASE Upgrade \/ UNCHANGED vars
  <2>1. release' \in 1..Releases
    BY <1>1, ClipAssumption DEF Upgrade, vars, ClipInv, TypeOK
  <2> QED
    BY <1>1, <2>1, StillInv DEF Upgrade, vars
<1>2. CASE \E d \in Driver : Acts(d)
  BY <1>2, RunKept
<1> QED
  BY <1>1, <1>2, NextIs

LEMMA Inductive == Spec => []ClipInv
BY InitInv, StepInv, PTL DEF Spec

-----------------------------------------------------------------------------
(***************************************************************************)
(* The theorems.                                                           *)
(***************************************************************************)
\* Runs keep records of the type declared, tries within the attempts among them.
THEOREM TypeCorrect == Spec => []TypeOK
BY Inductive, PTL DEF ClipInv

\* Every row's media, action and sidecar are stored, with any number of rivals
\* and whatever dies (process_batch writes all three before it reports success).
THEOREM Backed == Spec => []RowsAreBacked
BY Inductive, PTL DEF ClipInv

\* Without overlapping runs no clip is published twice, by no sequence of
\* deaths, lost answers, retries and reruns (append_row_fragment).
THEOREM Once == Spec => []EachClipOnce
BY Inductive, PTL DEF ClipInv

\* Without overlapping runs the table keeps to one media contract through any
\* number of releases (_validate_committed_versions).
THEOREM Uniform == Spec => []OneContract
BY Inductive, PTL DEF ClipInv

\* The invariants the code checks for are never found broken without overlap.
THEOREM Whole == Spec => []NeverTorn
BY Inductive, PTL DEF ClipInv

\* A run that returned has published or counted as failed every clip it
\* discovered, with any rivals (run, _publish_outcomes).
THEOREM Accounts == Spec => []RunAccounts
<1>1. ClipInv => RunAccounts
  BY DEF ClipInv, RunAccounts, Sound, Accounted, Ids, IdsOf, IdOf, Wanted, WantedOf
<1> QED
  BY <1>1, Inductive, PTL

\* errors.json names what is missing when only one driver ever ran (run).
THEOREM Reported == Spec => []ReportIsCurrent
BY Inductive, PTL DEF ClipInv

\* No step takes rows away or changes a fragment (open_or_create_table).
THEOREM Grown == Spec => TableGrows
<1>1. ClipInv /\ [Next]_vars =>
        [/\ Len(table) <= Len(table')
         /\ \A i \in 1..Len(table) : table'[i] = table[i]]_vars
  <2>1. ASSUME ClipInv, Upgrade
        PROVE  Len(table) <= Len(table') /\ \A i \in 1..Len(table) : table'[i] = table[i]
    BY <2>1 DEF Upgrade, ClipInv, TypeOK
  <2>2. ASSUME ClipInv, NEW d \in Driver, Acts(d)
        PROVE  Len(table) <= Len(table') /\ \A i \in 1..Len(table) : table'[i] = table[i]
    BY <2>2, RunStep DEF Grows
  <2> QED
    BY <2>1, <2>2, NextIs
<1> QED
  BY <1>1, Inductive, PTL DEF Spec, TableGrows

\* Where there is one place to run from, the protocol implements the table its
\* readers rely on.
OneWriter == \A d, e \in Driver : d = e

LEMMA TableStore ==
  ASSUME TypeOK', table' = table, stored \subseteq stored'
  PROVE  Table!Next
BY DEF Table!Next, Table!Store, TypeOK

LEMMA TablePublish ==
  ASSUME TypeOK, ~overlap, NEW S, Publishes(S), stored' = stored
  PROVE  Table!Next
<1>1. Table!Canonical = Canonical /\ Canonical \subseteq Id
  BY DEF Table!Canonical, Canonical, Rows, TypeOK
<1>2. S # {} /\ S \cap Canonical = {} /\ S \in SUBSET Id /\ table' = Append(table, S)
  BY DEF Publishes
<1>3. \A id \in S : Needs[id] \subseteq stored
  BY DEF Publishes
<1>4. \A id \in S, other \in S \cup Canonical :
        [i \in Id |-> i[2]][id] = [i \in Id |-> i[2]][other]
  BY <1>1, <1>2 DEF Publishes
<1>5. Table!Publish(S)
  BY <1>1, <1>2, <1>3, <1>4 DEF Table!Publish
<1> QED
  BY <1>2, <1>5 DEF Table!Next

THEOREM Implements == ASSUME OneWriter PROVE Spec => ImplementsTable
<1>1. Init => Table!Init
  BY DEF Init, Table!Init
<1>2. ClipInv /\ [Next]_vars /\ ClipInv' => [Table!Next]_<<table, stored>>
  <2> SUFFICES ASSUME ClipInv, Next, ClipInv'
               PROVE  [Table!Next]_<<table, stored>>
    BY DEF vars
  <2>1. CASE Upgrade
    BY <2>1 DEF Upgrade
  <2>2. CASE \E d \in Driver : Acts(d)
    <3>1. PICK d \in Driver : Acts(d)
      BY <2>2
    <3>2. CASE table' = table
      <4>1. stored \subseteq stored' /\ TypeOK'
        BY <3>1, RunStep DEF Grows, ClipInv
      <4> QED
        BY <3>2, <4>1, TableStore
    <3>3. CASE \E S : Publishes(S) /\ stored' = stored
      <4>1. ~overlap /\ TypeOK
        BY DEF ClipInv, Overlapped, OneWriter
      <4> QED
        BY <3>3, <4>1, TablePublish
    <3> QED
      BY <3>1, <3>2, <3>3, TableStep
  <2> QED
    BY <2>1, <2>2, NextIs
<1> QED
  BY <1>1, <1>2, Inductive, PTL DEF Spec, ImplementsTable, Table!Spec

-----------------------------------------------------------------------------
(***************************************************************************)
(* How many rows of a clip rivals can add.                                 *)
(***************************************************************************)
\* The fragments a row is in, and the runs that found none and have yet to
\* commit theirs.
Copies(id) == {i \in 1..Len(table) : id \in table[i]}
Poised(id) == {d \in Driver : run[d].at = "committing" /\ id \in Candidate(d)}

\* A commit spends its run's place between check and commit on one row, and no
\* run gets to that place any more once there is a row.
Rationed ==
  \A id \in Id : Cardinality(Copies(id)) + Cardinality(Poised(id)) <= Cardinality(Driver)

\* A run that is about to commit was so before, with the same candidate.
StaysPoised(d) ==
  run'[d].at = "committing" => /\ run[d].at = "committing"
                               /\ run'[d].buffer = run[d].buffer
                               /\ run'[d].release = run[d].release

\* Only a run's own steps change what it knows.
LEMMA OthersRest ==
  ASSUME ClipInv, NEW d \in Driver, Acts(d)
  PROVE  \A e \in Driver \ {d} : run'[e] = run[e]
BY RunStep, RunIsSound, Update DEF OwnStep

\* Workers, discovery, bootstrap, taking outcomes and ends bring no run to a
\* commit.
LEMMA OnlyChecksLead ==
  ASSUME ClipInv, NEW d \in Driver, Acts(d), ~Check(d), ~Commit(d)
  PROVE  StaysPoised(d)
<1>0. run \in [Driver -> Run] /\ run[d] \in Run
  BY RunIsSound
<1>1. ASSUME NEW at, at # "committing", NEW r, NEW B, run' = [run EXCEPT ![d] = Fresh(at, r, B)]
      PROVE  StaysPoised(d)
  BY <1>0, <1>1 DEF Fresh, StaysPoised
<1>2. CASE Starts(d) \/ Dies(d) \/ CreateFails(d) \/ ReportFails(d)
  <2>1. \E at \in {"opening", "raised"} : \E r, B : run' = [run EXCEPT ![d] = Fresh(at, r, B)]
    BY <1>2 DEF Starts, Start, Dies, CreateFails, ReportFails, Forgotten
  <2> QED
    BY <1>1, <2>1
<1>3. CASE Open(d) \/ Create(d) \/ Finish(d) \/ CommitFails(d)
  BY <1>0, <1>3 DEF Open, Create, Finish, CommitFails, Goes, StaysPoised, Run
<1>4. CASE Reconcile(d)
  <2>1. \/ \E at \in {"refused", "violated"} : run' = Forgotten(d, at)
        \/ run' = [run EXCEPT ![d].at = "reporting"]
        \/ \E w : run' = [run EXCEPT ![d].at = "publishing", ![d].work = w]
    BY <1>4 DEF Reconcile
  <2> QED
    BY <1>0, <1>1, <2>1 DEF Forgotten, StaysPoised, Run
<1>5. CASE Confirm(d)
  <2>1. \/ \E at \in {"raised", "violated"} : run' = Forgotten(d, at)
        \/ run' = Appended(d)
        \/ \E n : run' = [run EXCEPT ![d].at = "checking", ![d].tries = n]
    BY <1>5 DEF Confirm, Resolves
  <2>2. CASE \E at \in {"raised", "violated"} : run' = Forgotten(d, at)
    BY <1>1, <2>2 DEF Forgotten
  <2>3. CASE run' = Appended(d)
    BY <1>0, <2>3 DEF Appended, StaysPoised, Run
  <2>4. CASE \E n : run' = [run EXCEPT ![d].at = "checking", ![d].tries = n]
    BY <1>0, <2>4 DEF StaysPoised, Run
  <2> QED
    BY <2>1, <2>2, <2>3, <2>4
<1>6. CASE Report(d)
  <2>1. run' = [run EXCEPT ![d] = [Fresh("returned", run[d].release, run[d].batches)
                                     EXCEPT !.failed = run[d].failed]]
    BY <1>0, <1>6 DEF Report
  <2> QED
    BY <1>0, <2>1 DEF Fresh, StaysPoised
<1>7. ASSUME NEW c \in Clip, Take(d, c) PROVE StaysPoised(d)
  <2>1. \E w, b, f, at :
          /\ at # "committing"
          /\ run' = [run EXCEPT ![d].work[c] = w, ![d].buffer = b, ![d].failed = f,
                                ![d].at = at]
    BY <1>7 DEF Take
  <2> QED
    BY <1>0, <2>1 DEF StaysPoised, Run
<1>8. CASE \/ \E c \in Clip : Write(d, c) \/ WriteFails(d, c)
           \/ \E b \in Batch : Redo(d, b) \/ \E F \in SUBSET Clip : Load(d, b, F)
  <2>1. \E w : run' = [run EXCEPT ![d].work = w]
    BY <1>8 DEF Write, WriteFails, Redo, Load, Makes
  <2> QED
    BY <1>0, <2>1 DEF StaysPoised, Run
<1> QED
  BY <1>2, <1>3, <1>4, <1>5, <1>6, <1>7, <1>8 DEF Acts, Driving, Failing

\* A check lets a run commit only if no row of its candidate is in the latest
\* version (append_row_fragment).
LEMMA ChecksFindNone ==
  ASSUME ClipInv, NEW d \in Driver, Check(d), run'[d].at = "committing"
  PROVE  /\ run'[d].buffer = run[d].buffer /\ run'[d].release = run[d].release
         /\ Candidate(d) \cap Canonical = {}
<1>0. run \in [Driver -> Run] /\ run[d] \in Run
  BY RunIsSound
<1>1. run' # Appended(d)
  BY <1>0 DEF Appended, Run
<1>2. run' # Forgotten(d, "violated")
  BY <1>0 DEF Forgotten, Fresh
<1>3. /\ Present(d) = {}
      /\ run' = [run EXCEPT ![d].at = "committing"]
  BY <1>1, <1>2 DEF Check, Resolves
<1>4. run'[d].buffer = run[d].buffer /\ run'[d].release = run[d].release
  BY <1>0, <1>3 DEF Run
<1> QED
  BY <1>3, <1>4 DEF Present, Asks, Canonical

LEMMA CountsFinite ==
  ASSUME ClipInv, IsFiniteSet(Driver), NEW id
  PROVE  /\ IsFiniteSet(Copies(id)) /\ Cardinality(Copies(id)) \in Nat
         /\ IsFiniteSet(Poised(id)) /\ Cardinality(Poised(id)) \in Nat
         /\ Cardinality(Driver) \in Nat
<1>1. Len(table) \in Nat
  BY DEF ClipInv, TypeOK
<1>2. IsFiniteSet(1..Len(table))
  BY <1>1, FS_Interval
<1>3. Copies(id) \subseteq 1..Len(table) /\ Poised(id) \subseteq Driver
  BY DEF Copies, Poised
<1> QED
  BY <1>2, <1>3, FS_Subset, FS_CardinalityType

\* A commit's row takes the place of its run.
LEMMA CommitSpends ==
  ASSUME ClipInv, Rationed, IsFiniteSet(Driver), NEW d \in Driver, Commit(d), NEW id \in Id
  PROVE  Cardinality(Copies(id)') + Cardinality(Poised(id)') <= Cardinality(Driver)
<1>0. /\ Acts(d) /\ run[d].at = "committing" /\ run[d] \in Run /\ run \in [Driver -> Run]
      /\ Len(table) \in Nat
      /\ table' = Append(table, Candidate(d)) /\ Candidate(d) \in SUBSET Id
  BY RunIsSound DEF Acts, Commit, ClipInv, TypeOK, Candidate, Ids, Id, Run
<1>1. run'[d].at # "committing"
  BY <1>0 DEF Commit, Appended, Goes, Run
<1>2. Poised(id)' = Poised(id) \ {d}
  BY <1>0, <1>1, OthersRest DEF Poised, Candidate, Ids
<1>3. /\ Len(table') = Len(table) + 1 /\ table'[Len(table) + 1] = Candidate(d)
      /\ \A i \in 1..Len(table) : table'[i] = table[i]
  BY <1>0, AppendedRows DEF ClipInv
<1>4. Copies(id)' = IF id \in Candidate(d) THEN Copies(id) \cup {Len(table) + 1}
                    ELSE Copies(id)
  BY <1>0, <1>3 DEF Copies
<1>5. /\ IsFiniteSet(Copies(id)) /\ Cardinality(Copies(id)) \in Nat
      /\ IsFiniteSet(Poised(id)) /\ Cardinality(Poised(id)) \in Nat
      /\ Cardinality(Driver) \in Nat
      /\ Cardinality(Copies(id)) + Cardinality(Poised(id)) <= Cardinality(Driver)
  BY CountsFinite DEF Rationed
<1>6. CASE id \in Candidate(d)
  <2>1. d \in Poised(id)
    BY <1>0, <1>6 DEF Poised
  <2>2. Cardinality(Poised(id)') = Cardinality(Poised(id)) - 1
    BY <1>2, <1>5, <2>1, FS_RemoveElement
  <2>3. Len(table) + 1 \notin Copies(id)
    BY <1>0 DEF Copies
  <2>4. Cardinality(Copies(id)') = Cardinality(Copies(id)) + 1
    BY <1>4, <1>5, <1>6, <2>3, FS_AddElement
  <2> QED
    BY <1>5, <2>2, <2>4
<1>7. CASE id \notin Candidate(d)
  <2>1. /\ Cardinality(Poised(id)') <= Cardinality(Poised(id))
        /\ Cardinality(Poised(id)') \in Nat
    <3>1. Poised(id) \ {d} \subseteq Poised(id)
      OBVIOUS
    <3> QED
      BY <1>2, <1>5, <3>1, FS_Subset, FS_CardinalityType
  <2>2. Copies(id)' = Copies(id)
    BY <1>4, <1>7
  <2> QED
    BY <1>5, <2>1, <2>2
<1> QED
  BY <1>6, <1>7

\* Any other step leaves the table, and adds a place only to rows that are in
\* no fragment.
LEMMA OthersSpend ==
  ASSUME ClipInv, Rationed, IsFiniteSet(Driver), NEW d \in Driver, Acts(d), ~Commit(d),
         NEW id \in Id
  PROVE  Cardinality(Copies(id)') + Cardinality(Poised(id)') <= Cardinality(Driver)
<1>0. table' = table /\ \A e \in Driver \ {d} : run'[e] = run[e]
  <2>1. table' = table
    BY DEF Acts, Driving, Failing, Starts, Load, Write, Open, Create, AfterCreate,
       Reconcile, Finish, Check, Confirm, Report, Take, Dies, CreateFails, CommitFails,
       ReportFails, WriteFails, Redo, Start
  <2> QED
    BY <2>1, OthersRest
<1>1. /\ IsFiniteSet(Copies(id)) /\ Cardinality(Copies(id)) \in Nat
      /\ IsFiniteSet(Poised(id)) /\ Cardinality(Poised(id)) \in Nat
      /\ Cardinality(Driver) \in Nat
      /\ Cardinality(Copies(id)) + Cardinality(Poised(id)) <= Cardinality(Driver)
  BY CountsFinite DEF Rationed
<1>2. Copies(id)' = Copies(id)
  BY <1>0 DEF Copies
<1>3. CASE Poised(id)' \subseteq Poised(id)
  <2>1. /\ Cardinality(Poised(id)') <= Cardinality(Poised(id))
        /\ Cardinality(Poised(id)') \in Nat
    BY <1>1, <1>3, FS_Subset, FS_CardinalityType
  <2> QED
    BY <1>1, <1>2, <2>1
<1>4. CASE Copies(id) = {}
  <2>1. Poised(id)' \subseteq Driver
    BY DEF Poised
  <2>2. /\ Cardinality(Poised(id)') <= Cardinality(Driver)
        /\ Cardinality(Poised(id)') \in Nat
    BY <2>1, FS_Subset, FS_CardinalityType
  <2>3. Cardinality(Copies(id)') = 0
    BY <1>2, <1>4, FS_EmptySet
  <2> QED
    BY <1>1, <2>2, <2>3
<1>5. CASE StaysPoised(d)
  <2>1. ASSUME NEW e \in Poised(id)' PROVE e \in Poised(id)
    BY <1>0, <1>5, <2>1 DEF Poised, StaysPoised, Candidate, Ids
  <2> QED
    BY <1>3, <2>1
<1>6. CASE Check(d) /\ run'[d].at = "committing"
  <2>1. /\ run'[d].buffer = run[d].buffer /\ run'[d].release = run[d].release
        /\ Candidate(d) \cap Canonical = {}
    BY <1>6, ChecksFindNone
  <2>2. CASE id \in Candidate(d)
    <3>1. Copies(id) = {}
      BY <2>1, <2>2 DEF Copies, Canonical, Rows
    <3> QED
      BY <1>4, <3>1
  <2>3. CASE id \notin Candidate(d)
    <3>1. ASSUME NEW e \in Poised(id)' PROVE e \in Poised(id)
      BY <1>0, <2>1, <2>3, <3>1 DEF Poised, Candidate, Ids
    <3> QED
      BY <1>3, <3>1
  <2> QED
    BY <2>2, <2>3
<1>7. CASE Check(d) /\ run'[d].at # "committing"
  BY <1>5, <1>7 DEF StaysPoised
<1> QED
  BY <1>5, <1>6, <1>7, OnlyChecksLead

LEMMA RationedStep ==
  ASSUME ClipInv, Rationed, IsFiniteSet(Driver), [Next]_vars
  PROVE  Rationed'
<1>1. CASE Upgrade \/ UNCHANGED vars
  <2>1. table' = table /\ run' = run
    BY <1>1 DEF Upgrade, vars
  <2> QED
    BY <2>1 DEF Rationed, Copies, Poised, Candidate, Ids
<1>2. ASSUME NEW d \in Driver, Acts(d) PROVE Rationed'
  BY <1>2, CommitSpends, OthersSpend DEF Rationed
<1> QED
  BY <1>1, <1>2, NextIs

\* However many runs overlap, no clip gets more rows than there are rivals:
\* each was between its check and its commit once before there was a row, and
\* no retry, lost answer or rerun gets there again (append_row_fragment).
THEOREM OncePerRival == ASSUME IsFiniteSet(Driver) PROVE Spec => []OnceForEachRival
<1>1. Init => Rationed
  <2> SUFFICES ASSUME Init, NEW id \in Id
               PROVE  Cardinality(Copies(id)) + Cardinality(Poised(id)) <= Cardinality(Driver)
    BY DEF Rationed
  <2>1. Copies(id) = {} /\ Poised(id) = {}
    BY DEF Init, Fresh, Copies, Poised
  <2> QED
    BY <2>1, FS_EmptySet, FS_CardinalityType
<1>2. ClipInv /\ Rationed /\ [Next]_vars => Rationed'
  BY RationedStep
<1>3. ClipInv /\ Rationed => OnceForEachRival
  <2> SUFFICES ASSUME ClipInv, Rationed, NEW id \in Canonical
               PROVE  Cardinality(Copies(id)) <= Cardinality(Driver)
    BY DEF OnceForEachRival, Copies
  <2>1. id \in Id
    BY EarlierRows DEF ClipInv, TypeOK, Canonical
  <2> QED
    BY <2>1, CountsFinite DEF Rationed
<1> QED
  BY <1>1, <1>2, <1>3, Inductive, PTL DEF Spec
=============================================================================
