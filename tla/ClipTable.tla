----------------------------- MODULE ClipTable -----------------------------
(***************************************************************************)
(* What readers of the canonical clip table may rely on while one run at a *)
(* time produces it: it grows by whole fragments of clips that are new to  *)
(* it, made under one media contract, and whose files are all there; and   *)
(* files stay.                                                             *)
(***************************************************************************)
EXTENDS Naturals, Sequences

CONSTANTS
  Id,        \* clip_ids
  Artifact,  \* files
  Needs,     \* the files a row refers to
  Contract   \* the media contract of an id

VARIABLES table, stored

Canonical == UNION {table[i] : i \in 1..Len(table)}

Init == table = <<>> /\ stored = {}

Store ==
  /\ stored' \in SUBSET Artifact /\ stored \subseteq stored'
  /\ UNCHANGED table

Publish(S) ==
  /\ S # {} /\ S \cap Canonical = {}
  /\ \A id \in S : Needs[id] \subseteq stored
  /\ \A id \in S, other \in S \cup Canonical : Contract[id] = Contract[other]
  /\ table' = Append(table, S) /\ UNCHANGED stored

Next == Store \/ \E S \in SUBSET Id : Publish(S)

Spec == Init /\ [][Next]_<<table, stored>>
=============================================================================
