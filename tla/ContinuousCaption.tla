-------------------------- MODULE ContinuousCaption --------------------------
(***************************************************************************)
(* The continuous vLLM caption stage (VllmAsyncCaptionStage.run_continu-   *)
(* ous, _AsyncCaptioner): one asyncio event loop runs the stage's main     *)
(* coroutine, a get() on the executor's input queue, one caption task for  *)
(* each input taken, and under it one request task for each of the input's *)
(* windows.  Requests share a semaphore, are retried, may go through a     *)
(* second stage, and fail alone or, when the engine is dead or its output  *)
(* cannot be decoded, take the whole stage down.                           *)
(*                                                                         *)
(* A step is what a coroutine does between two awaits.  The completions    *)
(* one asyncio.wait returns to a captioner are handled by steps of their   *)
(* own: handling one neither awaits nor reads another.                     *)
(***************************************************************************)
EXTENDS Naturals, Sequences, FiniteSets

CONSTANTS
  Input,      \* inputs the executor hands over
  Window,     \* the windows of all inputs
  Owner,      \* the input each window belongs to
  TwoStage,   \* the windows with a stage-2 prompt
  Blank,      \* the windows whose prepared model input is missing
  Limit,      \* max_concurrent_requests
  Retries,    \* max_retries, attempts of one request
  Burst       \* _MAX_ACCEPT_PER_LOOP

ASSUME CaptionAssumption ==
  /\ Owner \in [Window -> Input]
  /\ TwoStage \subseteq Window /\ Blank \subseteq Window
  /\ Limit \in Nat \ {0} /\ Retries \in Nat \ {0} /\ Burst \in Nat
  /\ "none" \notin Input /\ "pending" \notin Input

VARIABLES
  upstream,   \* inputs the executor still has
  queue,      \* input_queue
  get,        \* get_task: "none", "pending", or the input it returned
  stop,       \* stop_event
  loop,       \* where run_continuous is
  trackers,   \* the inputs in the trackers dict
  task,       \* the caption task of each input
  request,    \* the request of each window
  result,     \* what _scatter_one wrote to each window
  emitted     \* how often each input was put on output_queue

vars == <<upstream, queue, get, stop, loop, trackers, task, request, result,
          emitted>>
executor == <<upstream, stop>>
main == <<queue, get, loop, trackers, emitted>>

WindowsOf(i) == {w \in Window : Owner[w] = i}

Over == {"done", "failed"}
Live == {"queued", "generating", "cancelling"}
Request(st, stage, tries) == [st |-> st, stage |-> stage, tries |-> tries]

TypeOK ==
  /\ upstream \subseteq Input /\ queue \in Seq(Input)
  /\ get \in Input \cup {"none", "pending"}
  /\ stop \in BOOLEAN
  /\ loop \in {"main", "drain", "exited", "raised"}
  /\ trackers \subseteq Input
  /\ task \in [Input -> {"absent", "created", "running", "cancelling"} \cup Over]
  /\ request \in [Window ->
       [st : {"idle", "captioned", "error", "fatal", "closed", "cancelled"} \cup Live,
        stage : 1..2, tries : 1..Retries]]
  /\ result \in [Window -> {"none", "caption", "unknown"}]
  /\ emitted \in [Input -> Nat]

Init ==
  /\ upstream = Input /\ queue = <<>> /\ get = "pending"
  /\ stop = FALSE /\ loop = "main" /\ trackers = {}
  /\ task = [i \in Input |-> "absent"]
  /\ request = [w \in Window |-> Request("idle", 1, 1)]
  /\ result = [w \in Window |-> "none"]
  /\ emitted = [i \in Input |-> 0]

-----------------------------------------------------------------------------
(***************************************************************************)
(* The executor, and the get() task.                                       *)
(***************************************************************************)
Put(i) ==
  /\ i \in upstream
  /\ upstream' = upstream \ {i} /\ queue' = Append(queue, i)
  /\ UNCHANGED <<get, stop, loop, trackers, task, request, result, emitted>>

Stop ==
  /\ ~stop /\ stop' = TRUE
  /\ UNCHANGED <<upstream, main, task, request, result>>

GetReturns ==
  /\ get = "pending" /\ queue # <<>>
  /\ get' = Head(queue) /\ queue' = Tail(queue)
  /\ UNCHANGED <<executor, loop, trackers, task, request, result, emitted>>

-----------------------------------------------------------------------------
(***************************************************************************)
(* run_continuous.                                                         *)
(***************************************************************************)
\* _build_output and put_nowait for some inputs.
Emits(S) == [i \in Input |-> IF i \in S THEN emitted[i] + 1 ELSE emitted[i]]

\* The inputs get_task and the _drain_input_queue behind it deliver.
Drained == IF Burst < Len(queue) THEN Burst ELSE Len(queue)
Delivered ==
  IF get \in Input THEN {get} \cup {queue[k] : k \in 1..Drained} ELSE {}

\* The trackers whose caption task asyncio.wait returned.
Completed == {i \in trackers : task[i] \in Over}

\* Taking every completed task for a success.
ReapedBlindly(over) == TRUE

\* _reap_tracker_done raises what a completed task raised.
Reaped(over) == \A i \in over : task[i] = "done"

\* Leaving as soon as stop_event is seen.
NextTurnExits(get1) ==
  IF stop THEN loop' = "exited" /\ get' = get1
  ELSE loop' = "main" /\ get' = IF get1 = "none" THEN "pending" ELSE get1

\* The loop checks stop_event before it waits again, and leaves with whatever
\* get_task holds; only a pending get() is cancelled.
NextTurn(get1) ==
  IF stop
  THEN /\ loop' = IF trackers' = {} THEN "exited" ELSE "drain"
       /\ get' = IF get1 = "pending" THEN "none" ELSE get1
  ELSE /\ loop' = "main"
       /\ get' = IF get1 = "none" THEN "pending" ELSE get1

\* A turn of the main loop: new inputs are registered (one without windows is
\* answered at once), completed caption tasks reaped, their inputs answered.
Tick ==
  LET got == Delivered
      work == {i \in got : WindowsOf(i) # {}}
      over == Completed
  IN /\ loop = "main" /\ (got # {} \/ over # {})
     /\ queue' = IF got = {} THEN queue
                 ELSE SubSeq(queue, Drained + 1, Len(queue))
     /\ task' = [i \in Input |-> IF i \in work THEN "created" ELSE task[i]]
     /\ \/ /\ Reaped(over)
           /\ emitted' = Emits((got \ work) \cup over)
           /\ trackers' = (trackers \cup work) \ over
           /\ NextTurn(IF got = {} THEN get ELSE "none")
        \/ /\ ~Reaped(over)
           /\ emitted' = Emits(got \ work)
           /\ trackers' = trackers \cup work
           /\ loop' = "raised" /\ get' = "none"
     /\ UNCHANGED <<executor, request, result>>

\* Waiting for a completion or an input without a timeout.
TimeoutNever == FALSE /\ UNCHANGED vars

\* asyncio.timeout cancels the wait even if something completed meanwhile.
\* With stop_event clear the loop only waits again.
Timeout ==
  /\ loop = "main" /\ stop
  /\ UNCHANGED <<executor, queue, trackers, task, request, result, emitted>>
  /\ NextTurn(get)

\* The final drain waits for the tasks in flight, and takes no more inputs.
Drain ==
  LET over == Completed
  IN /\ loop = "drain" /\ over # {}
     /\ \/ /\ Reaped(over)
           /\ emitted' = Emits(over) /\ trackers' = trackers \ over
           /\ loop' = IF trackers' = {} THEN "exited" ELSE "drain"
        \/ /\ ~Reaped(over)
           /\ loop' = "raised" /\ UNCHANGED <<emitted, trackers>>
     /\ UNCHANGED <<executor, queue, get, task, request, result>>

-----------------------------------------------------------------------------
(***************************************************************************)
(* The caption task of an input (_caption_pipe_tasks, _AsyncCaptioner).    *)
(***************************************************************************)
TaskTo(i, st) == task' = [task EXCEPT ![i] = st]

\* _emit_final and _emit_unknown scatter a result and release the window.
Closes(w, text) ==
  /\ request' = [request EXCEPT ![w].st = "closed"]
  /\ result' = [result EXCEPT ![w] = text]

\* _AsyncCaptioner.run spawns a request for each window; one without model
\* input is given the unknown caption at once.
Start(i) ==
  /\ task[i] = "created" /\ TaskTo(i, "running")
  /\ request' = [w \in Window |->
       IF Owner[w] # i THEN request[w]
       ELSE Request(IF w \in Blank THEN "closed" ELSE "queued", 1, 1)]
  /\ result' = [w \in Window |->
       IF Owner[w] = i /\ w \in Blank THEN "unknown" ELSE result[w]]
  /\ UNCHANGED <<executor, main>>

\* Going down without waiting for the requests cancelled.
FailsAtOnce(w) ==
  /\ request' = [request EXCEPT ![w].st = "fatal"]
  /\ TaskTo(Owner[w], "failed")
  /\ UNCHANGED result

\* A fatal request takes the captioner down: _cancel_pending cancels the others.
Fails(w) ==
  /\ request' = [v \in Window |->
       CASE v = w -> [request[v] EXCEPT !.st = "fatal"]
         [] v # w /\ Owner[v] = Owner[w] /\ request[v].st \in Live ->
              [request[v] EXCEPT !.st = "cancelling"]
         [] OTHER -> request[v]]
  /\ TaskTo(Owner[w], "cancelling")
  /\ UNCHANGED result

\* Treating every exception of a window as fatal.
HandleUncontained(w) ==
  /\ task[Owner[w]] = "running"
  /\ \/ /\ request[w].st = "captioned"
        /\ UNCHANGED task /\ Closes(w, "caption")
     \/ /\ request[w].st = "error"
        /\ TaskTo(Owner[w], "cancelling") /\ UNCHANGED <<request, result>>
  /\ UNCHANGED <<executor, main>>

\* Building the second stage's request without spawning it.
HandleUnspawned(w) ==
  /\ task[Owner[w]] = "running"
  /\ \/ /\ request[w].st = "captioned" /\ w \notin TwoStage
        /\ Closes(w, "caption") /\ UNCHANGED task
     \/ /\ request[w].st = "captioned" /\ w \in TwoStage
        /\ request' = [request EXCEPT ![w] = Request("idle", 2, 1)]
        /\ UNCHANGED <<task, result>>
     \/ request[w].st = "error" /\ Closes(w, "unknown") /\ UNCHANGED task
     \/ request[w].st = "fatal" /\ Fails(w)
  /\ UNCHANGED <<executor, main>>

\* _handle_completed: a caption is final, or goes to the second stage, whose
\* request may fail to build; an exception is contained, or fatal.
Handle(w) ==
  LET refining == w \in TwoStage /\ request[w].stage = 1
  IN /\ task[Owner[w]] = "running"
     /\ \/ /\ request[w].st = "captioned" /\ ~refining
           /\ Closes(w, "caption") /\ UNCHANGED task
        \/ /\ request[w].st = "captioned" /\ refining
           /\ request' = [request EXCEPT ![w] = Request("queued", 2, 1)]
           /\ UNCHANGED <<task, result>>
        \/ /\ request[w].st = "error" \/ (request[w].st = "captioned" /\ refining)
           /\ Closes(w, "unknown") /\ UNCHANGED task
        \/ /\ request[w].st = "fatal" \/ (request[w].st = "captioned" /\ refining)
           /\ Fails(w)
     /\ UNCHANGED <<executor, main>>

\* run returns once no request is pending; then the inputs are freed.
Finish(i) ==
  /\ task[i] = "running"
  /\ \A w \in WindowsOf(i) : request[w].st = "closed"
  /\ TaskTo(i, "done")
  /\ UNCHANGED <<executor, main, request, result>>

\* _cancel_pending has awaited every request; then the inputs are freed.
Unwind(i) ==
  /\ task[i] = "cancelling"
  /\ \A w \in WindowsOf(i) : request[w].st \notin Live
  /\ TaskTo(i, "failed")
  /\ UNCHANGED <<executor, main, request, result>>

-----------------------------------------------------------------------------
(***************************************************************************)
(* A window's request (_drive_request).                                    *)
(***************************************************************************)
Generating == {w \in Window : request[w].st = "generating"}

RequestTo(w, st) ==
  /\ request' = [request EXCEPT ![w].st = st]
  /\ UNCHANGED <<executor, main, task, result>>

\* async with semaphore.
Acquire(w) ==
  /\ request[w].st = "queued" /\ Cardinality(Generating) < Limit
  /\ RequestTo(w, "generating")

\* The attempt ends and releases the semaphore: with a caption, with an error
\* (of the last attempt, or of decoding), or with one that is never retried.
GenerateEnds(w) ==
  /\ request[w].st = "generating"
  /\ \E st \in {"captioned", "error", "fatal"} : RequestTo(w, st)

\* Tenacity runs the next attempt, which waits for the semaphore again.
NextAttempt(w) ==
  /\ request' = [request EXCEPT ![w].st = "queued", ![w].tries = @ + 1]
  /\ UNCHANGED <<executor, main, task, result>>

Retry(w) ==
  request[w].st = "generating" /\ request[w].tries < Retries /\ NextAttempt(w)

\* Only EngineDeadError is exempt from retrying: an attempt that is cancelled
\* has failed like any other, and _cancel_pending waits for the next one too.
\* Outside of an attempt the cancellation ends the request.
Cancelled(w) ==
  /\ request[w].st = "cancelling"
  /\ \/ RequestTo(w, "cancelled")
     \/ request[w].tries < Retries /\ NextAttempt(w)

-----------------------------------------------------------------------------
TaskStep(i) == Start(i) \/ Finish(i) \/ Unwind(i)
RequestStep(w) ==
  Acquire(w) \/ GenerateEnds(w) \/ Retry(w) \/ Cancelled(w) \/ Handle(w)

Next ==
  \/ \E i \in Input : Put(i)
  \/ Stop \/ GetReturns \/ Tick \/ Timeout \/ Drain
  \/ \E i \in Input : TaskStep(i)
  \/ \E w \in Window : RequestStep(w)

Spec == Init /\ [][Next]_vars

\* The event loop runs whatever is ready, timers fire, the engine answers.
Fairness ==
  /\ WF_vars(GetReturns) /\ WF_vars(Tick) /\ WF_vars(Timeout) /\ WF_vars(Drain)
  /\ \A i \in Input : WF_vars(TaskStep(i))
  /\ \A w \in Window : WF_vars(RequestStep(w))

FairSpec == Spec /\ Fairness
=============================================================================
