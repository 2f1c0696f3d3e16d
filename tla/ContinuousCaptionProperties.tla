--------------------- MODULE ContinuousCaptionProperties ---------------------
(***************************************************************************)
(* What the continuous vLLM caption stage must guarantee.                  *)
(***************************************************************************)
EXTENDS ContinuousCaption

Offered(i) == i \in upstream \/ \E k \in 1..Len(queue) : queue[k] = i

Phase == [i \in Input |->
  CASE emitted[i] = 0 /\ Offered(i)  -> "offered"
    [] emitted[i] = 0 /\ ~Offered(i) -> "held"
    [] emitted[i] = 1 /\ ~Offered(i) -> "answered"
    [] OTHER                         -> "broken"]

Resolved == {w \in Window : result[w] # "none"}

Contract == INSTANCE CaptionContract WITH phase <- Phase, resolved <- Resolved

(***************************************************************************)
(* However completions, bursts of inputs, timeouts and stop_event          *)
(* interleave, an input is answered once, after every one of its windows   *)
(* has its caption (run_continuous, _AsyncCaptioner).                      *)
(***************************************************************************)
ImplementsContract == Contract!Spec

(***************************************************************************)
(* _caption_pipe_tasks frees the model inputs of its windows when it ends: *)
(* by then none of their requests waits for the engine or is in it.        *)
(***************************************************************************)
NothingRunsAfterFree ==
  \A w \in Window : task[Owner[w]] \in Over => request[w].st \notin Live

(***************************************************************************)
(* The stage only goes down over a fatal error (a dead engine, output that *)
(* cannot be decoded); an ordinary one never costs more than its window    *)
(* its caption (_handle_completed, _reap_tracker_done).                    *)
(***************************************************************************)
FailuresContained ==
  loop = "raised" => \E w \in Window : request[w].st = "fatal"

(***************************************************************************)
(* A stage that was stopped leaves behind at most one of the inputs it     *)
(* took: the one get() returned just as the idle timeout ran out.          *)
(***************************************************************************)
StopDrains ==
  loop = "exited" =>
    \A i \in Input : Offered(i) \/ emitted[i] = 1 \/ get = i

(***************************************************************************)
(* Once stopped, run_continuous ends.                                      *)
(***************************************************************************)
StopEnds == stop ~> loop \in {"exited", "raised"}

(***************************************************************************)
(* An input with windows that was registered is answered, or the stage     *)
(* goes down.                                                              *)
(***************************************************************************)
RegisteredIsAnswered ==
  \A i \in Input : i \in trackers ~> (emitted[i] = 1 \/ loop = "raised")
=============================================================================
