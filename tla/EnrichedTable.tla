--------------------------- MODULE EnrichedTable ---------------------------
(***************************************************************************)
(* What enrichment promises about the table, whatever drivers, crashes and *)
(* failed commits there are: a selection's results appear all at once, on  *)
(* fragments nobody had filled and whose input files are the selection's;  *)
(* and no publication disturbs another fragment or another recipe's        *)
(* columns.                                                                *)
(***************************************************************************)
EXTENDS Naturals

CONSTANTS Initial,  \* fragments to begin with
          Results,  \* the owned-column files drivers may publish
          None,     \* the owned columns of a pending fragment
          Foreign   \* what a writer outside the protocol leaves in them

VARIABLES rows,      \* fragment number |-> its input, owned and other files
          published  \* the selections published

New(dup) == [layout |-> 0, dup |-> dup, owned |-> None, other |-> 0]

Init ==
  /\ rows = [f \in 1..Initial |-> New(FALSE)]
  /\ published = {}

\* Only the fragments in S change.
Touches(S) == /\ DOMAIN rows' = DOMAIN rows \cup S
              /\ \A f \in DOMAIN rows \ S : rows'[f] = rows[f]

\* Results for a whole selection, every fragment of it pending until now.
Publish(S) ==
  /\ S # {} /\ Touches(S)
  /\ \A f \in S : /\ rows[f].owned = None
                 /\ rows'[f].owned \in Results
                 /\ rows'[f] = [rows[f] EXCEPT !.owned = rows'[f].owned]
  /\ published' = published \cup {[f \in S |-> rows[f].layout]}

Append(f) ==
  /\ f \notin DOMAIN rows /\ Touches({f})
  /\ \E dup \in BOOLEAN : rows'[f] = New(dup)
  /\ UNCHANGED published

\* Another recipe, a writer outside the protocol, or a rewrite of the input.
Write(f) ==
  /\ Touches({f})
  /\ rows'[f] \in {[rows[f] EXCEPT !.other = @ + 1],
                  [rows[f] EXCEPT !.owned = Foreign],
                  [rows[f] EXCEPT !.layout = 1]}
  /\ UNCHANGED published

Next ==
  \/ \E S \in SUBSET DOMAIN rows : Publish(S)
  \/ \E f \in DOMAIN rows' \ DOMAIN rows : Append(f)
  \/ \E f \in DOMAIN rows : Write(f)

Spec == Init /\ [][Next]_<<rows, published>>
=============================================================================
