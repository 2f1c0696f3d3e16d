---------------------------- MODULE MCManagedRun ----------------------------
(***************************************************************************)
(* Small instances of ManagedRun.  Lane jobs, scale commands and stop      *)
(* commands are interchangeable: no action and no property names one.      *)
(***************************************************************************)
EXTENDS ManagedRunProperties, TLC

Interchangeable ==
  Permutations(LaneJob) \cup Permutations(Scaler) \cup Permutations(Stopper)

(***************************************************************************)
(* What tells two states apart.  The manifest's revision only matters as   *)
(* equal to, or different from, the one status is waiting on; it never     *)
(* comes back to an old value, and while it is equal the rest of what      *)
(* status remembers is still what the manifest says.  The wording of an    *)
(* error does not matter once the run is over, nor what a command that is  *)
(* over remembers; a job's name only matters while a lookup may find it.   *)
(***************************************************************************)
Ended == {"done", "failed"}

Relevant ==
  <<[manifest EXCEPT !.revision = 0,
                       !.error = IF manifest.state \in Terminal /\ @ # "none"
                                 THEN "some" ELSE @], slurm,
    IF "sbatch" \in Faults THEN {<<j, name[j]>> : j \in {k \in LaneJob : Live(k)}}
                           ELSE {},
    IF submit.pc \in Ended THEN "over" ELSE submit,
    [c \in Scaler |-> IF scale[c].pc \in Ended THEN "over" ELSE scale[c]],
    [c \in Stopper |-> IF stop[c].pc \in Ended THEN <<"over", stop[c].early>>
                       ELSE stop[c]],
    status.pc, status.pc # "idle" /\ status.revision = manifest.revision,
    IF head.pc \in {"cancel", "drain"} THEN head ELSE head.pc,
    driver, publishedBy>>
=============================================================================
