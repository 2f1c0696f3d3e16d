--------------------------- MODULE CaptionContract ---------------------------
(***************************************************************************)
(* What the continuous caption stage promises its executor: an input it    *)
(* takes is answered at most once, and only when each of its windows has   *)
(* been given a caption or the caption of a failed window.                 *)
(***************************************************************************)
CONSTANTS Input, Window, Owner

VARIABLES
  phase,     \* "offered", "held" or "answered", for each input
  resolved   \* the windows that have been given a caption

Init == phase = [i \in Input |-> "offered"] /\ resolved = {}

\* Windows get their captions while the stage holds their input.
Resolve ==
  \E S \in SUBSET (Window \ resolved) :
    /\ S # {}
    /\ \A w \in S : phase[Owner[w]] = "held"
    /\ resolved' = resolved \cup S
    /\ UNCHANGED phase

\* One turn of the loop takes some inputs and answers some it holds.
Turn ==
  \E taken, answered \in SUBSET Input :
    /\ \A i \in taken : phase[i] = "offered"
    /\ \A i \in answered : i \in taken \/ phase[i] = "held"
    /\ \A w \in Window : Owner[w] \in answered => w \in resolved
    /\ phase' = [i \in Input |->
                   IF i \in answered THEN "answered"
                   ELSE IF i \in taken THEN "held" ELSE phase[i]]
    /\ UNCHANGED resolved

Next == Resolve \/ Turn

Spec == Init /\ [][Next]_<<phase, resolved>>
=============================================================================
