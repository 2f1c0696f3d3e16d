----------------------- MODULE ContinuousCaptionProofs -----------------------
(***************************************************************************)
(* The continuous caption stage keeps its contract with the executor, for  *)
(* every set of inputs, windows and limits.  The invariant relates, input  *)
(* by input, where it is (offered, held by get_task, tracked, answered) to *)
(* how far its caption task is, and that to its windows' requests.         *)
(***************************************************************************)
EXTENDS ContinuousCaptionProperties, SequenceTheorems, TLAPS

\* An input is in one place of the hand-over, and there once.
Handover ==
  /\ \A j, k \in 1..Len(queue) : queue[j] = queue[k] => j = k
  /\ \A k \in 1..Len(queue) : queue[k] \notin upstream

\* What the loop has not registered is untouched.
Untaken ==
  \A i \in Input :
    /\ get = i => ~Offered(i)
    /\ Offered(i) \/ get = i => task[i] = "absent" /\ emitted[i] = 0 /\ i \notin trackers

\* A tracked input is not answered, and a caption task at work is tracked.
Tracked ==
  \A i \in Input :
    /\ emitted[i] \in 0..1
    /\ i \in trackers => emitted[i] = 0 /\ task[i] # "absent"
    /\ task[i] \in {"created", "running", "cancelling"} => i \in trackers

\* The requests of an input follow its caption task.
Followed ==
  \A w \in Window :
    /\ task[Owner[w]] \in {"absent", "created"} => request[w].st = "idle"
    /\ task[Owner[w]] = "done" => request[w].st = "closed"
    /\ task[Owner[w]] = "failed" => request[w].st \notin Live
    /\ request[w].st = "closed" <=> result[w] # "none"

\* A caption task only goes down over a fatal error.
Blamed ==
  /\ \A i \in Input : task[i] \in {"cancelling", "failed"} =>
       \E w \in Window : Owner[w] = i /\ request[w].st = "fatal"
  /\ loop = "raised" => \E w \in Window : request[w].st = "fatal"

\* Unless the stage goes down, no input is lost track of.
Kept ==
  /\ loop # "raised" => \A i \in Input :
       Offered(i) \/ emitted[i] = 1 \/ get = i \/ i \in trackers
  /\ loop = "exited" => trackers = {}

Inv == TypeOK /\ Handover /\ Untaken /\ Tracked /\ Followed /\ Blamed /\ Kept

-----------------------------------------------------------------------------
\* put_nowait of an input that is not queued adds just that input.
LEMMA PutQueue ==
  ASSUME Inv, NEW i \in Input, Put(i)
  PROVE  /\ queue' \in Seq(Input) /\ Handover'
         /\ \A j \in Input : Offered(j)' <=> Offered(j)
<1>1. /\ queue \in Seq(Input) /\ i \in upstream
      /\ queue' = Append(queue, i) /\ upstream' = upstream \ {i}
  BY DEF Inv, TypeOK, Put
<1>2. /\ queue' \in Seq(Input) /\ Len(queue') = Len(queue) + 1
      /\ \A k \in 1..Len(queue) : queue'[k] = queue[k]
      /\ queue'[Len(queue) + 1] = i /\ Len(queue) \in Nat
  BY <1>1
<1>3. Handover'
  BY <1>1, <1>2 DEF Inv, Handover
<1>4. ASSUME NEW j \in Input PROVE Offered(j)' <=> Offered(j)
  BY <1>1, <1>2 DEF Offered
<1> QED BY <1>2, <1>3, <1>4

\* A get() that returns takes the input at the head.
LEMMA GetQueue ==
  ASSUME Inv, GetReturns
  PROVE  /\ queue' \in Seq(Input) /\ get' \in Input /\ Handover'
         /\ \A j \in Input : IF j = get' THEN Offered(j) /\ ~Offered(j)'
                             ELSE Offered(j)' <=> Offered(j)
<1>1. /\ queue \in Seq(Input) /\ queue # <<>> /\ upstream' = upstream
      /\ get' = Head(queue) /\ queue' = Tail(queue)
  BY DEF Inv, TypeOK, GetReturns, executor
<1>2. /\ queue' \in Seq(Input) /\ Len(queue') = Len(queue) - 1 /\ get' \in Input
      /\ \A k \in 1..Len(queue') : queue'[k] = queue[k + 1]
      /\ get' = queue[1] /\ Len(queue) \in Nat \ {0}
  BY <1>1, HeadTailProperties, EmptySeq
<1>3. Handover'
  BY <1>1, <1>2 DEF Inv, Handover
<1>4. ASSUME NEW j \in Input, j = get' PROVE Offered(j) /\ ~Offered(j)'
  <2>1. Offered(j) /\ j \notin upstream
    BY <1>2, <1>4 DEF Inv, Handover, Offered
  <2>2. \A k \in 1..Len(queue') : queue'[k] # j
    BY <1>2, <1>4 DEF Inv, Handover
  <2> QED BY <1>1, <2>1, <2>2 DEF Offered
<1>5. ASSUME NEW j \in Input, j # get' PROVE Offered(j)' <=> Offered(j)
  <2>1. ASSUME NEW k \in 1..Len(queue), queue[k] = j
        PROVE  k - 1 \in 1..Len(queue') /\ queue'[k - 1] = j
    BY <1>2, <1>5, <2>1
  <2>2. ASSUME NEW k \in 1..Len(queue'), queue'[k] = j
        PROVE  k + 1 \in 1..Len(queue) /\ queue[k + 1] = j
    BY <1>2, <2>2
  <2> QED BY <1>1, <2>1, <2>2 DEF Offered
<1> QED BY <1>2, <1>3, <1>4, <1>5

\* A turn that has an input at hand takes it and the head of the queue.
LEMMA TurnQueue ==
  ASSUME Inv, get \in Input, upstream' = upstream,
         queue' = SubSeq(queue, Drained + 1, Len(queue))
  PROVE  /\ queue' \in Seq(Input) /\ Handover' /\ Delivered \subseteq Input
         /\ \A j \in Input : Offered(j)' <=> Offered(j) /\ j \notin Delivered
         /\ \A j \in Delivered : j = get \/ Offered(j)
<1>1. /\ queue \in Seq(Input) /\ Len(queue) \in Nat
      /\ \A k \in 1..Len(queue) : queue[k] \in Input
  BY DEF Inv, TypeOK
<1>2. Drained \in 0..Len(queue)
  BY <1>1, CaptionAssumption DEF Drained, CaptionAssumption
<1>3. /\ queue' \in Seq(Input) /\ Len(queue') = Len(queue) - Drained
      /\ \A k \in 1..Len(queue') : queue'[k] = queue[k + Drained]
  <2>1. \A k \in Drained + 1 .. Len(queue) : queue[k] \in Input
    BY <1>1, <1>2
  <2>2. /\ queue' \in Seq(Input)
        /\ Len(queue') = IF Drained + 1 <= Len(queue) THEN Len(queue) - (Drained + 1) + 1 ELSE 0
        /\ \A k \in 1 .. Len(queue) - (Drained + 1) + 1 : queue'[k] = queue[Drained + 1 + k - 1]
    BY <1>1, <1>2, <2>1, SubSeqProperties
  <2> QED BY <1>1, <1>2, <2>2
<1>4. Handover'
  BY <1>1, <1>2, <1>3 DEF Inv, Handover
<1>5. Delivered = {get} \cup {queue[k] : k \in 1..Drained}
  BY DEF Delivered
<1>6. Delivered \subseteq Input /\ \A j \in Delivered : j = get \/ Offered(j)
  BY <1>1, <1>2, <1>5 DEF Offered
<1>7. ASSUME NEW j \in Input PROVE Offered(j)' <=> Offered(j) /\ j \notin Delivered
  <2>1. ASSUME NEW k \in 1..Len(queue), queue[k] = j, j \notin Delivered
        PROVE  k - Drained \in 1..Len(queue') /\ queue'[k - Drained] = j
    <3>1. k > Drained
      BY <1>1, <1>2, <1>5, <2>1
    <3> QED BY <1>1, <1>2, <1>3, <2>1, <3>1
  <2>2. ASSUME NEW k \in 1..Len(queue'), queue'[k] = j
        PROVE  Offered(j) /\ j \notin Delivered
    <3>1. k + Drained \in 1..Len(queue) /\ queue[k + Drained] = j
      BY <1>1, <1>2, <1>3, <2>2
    <3>2. Offered(j) /\ j # get
      BY <3>1 DEF Offered, Inv, Untaken
    <3>3. \A l \in 1..Drained : queue[l] # j
      BY <1>1, <1>2, <3>1 DEF Inv, Handover
    <3> QED BY <1>5, <3>2, <3>3
  <2>3. ASSUME j \in upstream PROVE j \notin Delivered
    <3>1. j # get
      BY <2>3 DEF Offered, Inv, Untaken
    <3>2. \A l \in 1..Drained : queue[l] # j
      BY <1>1, <1>2, <2>3 DEF Inv, Handover
    <3> QED BY <1>5, <3>1, <3>2
  <2> QED BY <2>1, <2>2, <2>3 DEF Offered
<1> QED BY <1>3, <1>4, <1>6, <1>7

-----------------------------------------------------------------------------
\* Initially nothing was handed over.
LEMMA InitInv == Init => Inv
<1> SUFFICES ASSUME Init PROVE Inv
  OBVIOUS
<1> USE CaptionAssumption DEF CaptionAssumption
<1>1. TypeOK
  <2>1. Request("idle", 1, 1) \in
          [st : {"idle", "captioned", "error", "fatal", "closed", "cancelled"} \cup Live,
           stage : 1..2, tries : 1..Retries]
    BY DEF Request
  <2>2. queue \in Seq(Input)
    BY EmptySeq DEF Init
  <2> QED BY <2>1, <2>2 DEF Init, TypeOK
<1>2. Len(queue) = 0
  BY DEF Init
<1>3. Handover /\ Untaken /\ Tracked
  BY <1>2 DEF Init, Handover, Untaken, Tracked, Offered
<1>4. Followed /\ Blamed /\ Kept
  BY <1>2 DEF Init, Followed, Blamed, Kept, Offered, Request, Live
<1> QED BY <1>1, <1>3, <1>4 DEF Inv

LEMMA PutInv == ASSUME Inv, NEW i \in Input, Put(i) PROVE Inv'
<1> USE DEF Put
<1>1. TypeOK'
  BY PutQueue DEF Inv, TypeOK
<1>2. Untaken' /\ Tracked' /\ Followed' /\ Blamed' /\ Kept'
  BY PutQueue DEF Inv, TypeOK, Untaken, Tracked, Followed, Blamed, Kept
<1> QED BY <1>1, <1>2, PutQueue DEF Inv

LEMMA GetInv == ASSUME Inv, GetReturns PROVE Inv'
<1> USE DEF GetReturns, executor
<1>1. TypeOK'
  BY GetQueue DEF Inv, TypeOK
<1>2. Untaken' /\ Tracked' /\ Followed' /\ Blamed'
  BY GetQueue DEF Inv, TypeOK, Untaken, Tracked, Followed, Blamed
<1>3. Kept'
  BY GetQueue, CaptionAssumption DEF Inv, TypeOK, Kept, CaptionAssumption
<1> QED BY <1>1, <1>2, <1>3, GetQueue DEF Inv

LEMMA StopInv == ASSUME Inv, Stop \/ Timeout PROVE Inv'
<1>1. /\ UNCHANGED <<upstream, queue, trackers, task, request, result, emitted>>
      /\ stop' \in BOOLEAN
      /\ \/ UNCHANGED <<get, loop>>
         \/ /\ loop = "main" /\ loop' = (IF trackers = {} THEN "exited" ELSE "drain")
            /\ get' = IF get = "pending" THEN "none" ELSE get
  BY DEF Stop, Timeout, NextTurn, main, executor, Inv, TypeOK
<1>2. TypeOK'
  BY <1>1 DEF Inv, TypeOK
<1>3. \A i \in Input : (Offered(i)' <=> Offered(i)) /\ (get' = i <=> get = i)
  BY <1>1, CaptionAssumption DEF Offered, CaptionAssumption
<1>4. Handover' /\ Untaken' /\ Tracked' /\ Followed' /\ Blamed' /\ Kept'
  BY <1>1, <1>3 DEF Inv, Handover, Untaken, Tracked, Followed, Blamed, Kept
<1> QED BY <1>2, <1>4 DEF Inv

\* A turn of the loop, in the terms of the hand-over: some inputs are taken,
\* of these and the completed ones some are answered.
LEMMA TickEffect ==
  ASSUME Inv, Tick
  PROVE  /\ queue' \in Seq(Input) /\ Handover' /\ Delivered \subseteq Input
         /\ \A j \in Input : Offered(j)' <=> Offered(j) /\ j \notin Delivered
         /\ \A j \in Delivered : j = get \/ Offered(j)
         /\ get \in Delivered <=> get \in Input
<1>1. upstream' = upstream
  BY DEF Tick, executor
<1>2. CASE get \in Input
  <2>1. Delivered # {} /\ get \in Delivered
    BY <1>2 DEF Delivered
  <2>2. queue' = SubSeq(queue, Drained + 1, Len(queue))
    BY <2>1 DEF Tick
  <2> QED BY <1>1, <1>2, <2>1, <2>2, TurnQueue
<1>3. CASE get \notin Input
  <2>1. Delivered = {} /\ queue' = queue
    BY <1>3 DEF Delivered, Tick
  <2> QED BY <1>1, <1>3, <2>1 DEF Inv, TypeOK, Handover, Offered
<1> QED BY <1>2, <1>3

LEMMA TickInv == ASSUME Inv, Tick PROVE Inv'
<1> DEFINE got == Delivered
           work == {i \in got : WindowsOf(i) # {}}
           over == Completed
<1>1. /\ loop = "main" /\ UNCHANGED <<upstream, stop, request, result>>
      /\ task' = [i \in Input |-> IF i \in work THEN "created" ELSE task[i]]
  BY DEF Tick, executor
<1>2. /\ got \subseteq Input /\ \A j \in got : j = get \/ Offered(j)
      /\ \A j \in Input : Offered(j)' <=> Offered(j) /\ j \notin got
      /\ queue' \in Seq(Input) /\ Handover' /\ (get \in got <=> get \in Input)
  BY TickEffect
<1>3. \A j \in got : task[j] = "absent" /\ emitted[j] = 0 /\ j \notin trackers
  BY <1>2 DEF Inv, Untaken
<1>4. over \subseteq trackers /\ (\A j \in over : task[j] \in Over) /\ over \subseteq Input
  BY DEF Completed, Inv, TypeOK
<1>5. \A w \in Window : Owner[w] \in got => Owner[w] \in work
  BY DEF WindowsOf
<1>6. \A w \in Window : Owner[w] \in Input
  BY CaptionAssumption DEF CaptionAssumption
<1>7. \/ /\ \A i \in over : task[i] = "done"
         /\ emitted' = Emits((got \ work) \cup over)
         /\ trackers' = (trackers \cup work) \ over
         /\ \/ /\ loop' = IF trackers' = {} THEN "exited" ELSE "drain"
               /\ get' = IF got # {} \/ get = "pending" THEN "none" ELSE get
            \/ /\ loop' = "main"
               /\ get' = IF got # {} \/ get = "none" THEN "pending" ELSE get
      \/ /\ ~Reaped(over)
         /\ emitted' = Emits(got \ work)
         /\ trackers' = trackers \cup work
         /\ loop' = "raised" /\ get' = "none"
  BY DEF Tick, Reaped, NextTurn
<1>8. \A i \in Input : get' # i \/ (get' = get /\ got = {} /\ get \notin Input)
  BY <1>2, <1>7, CaptionAssumption DEF CaptionAssumption, Inv, TypeOK
<1>9. TypeOK'
  <2>1. emitted' \in [Input -> Nat]
    <3>1. ASSUME NEW S PROVE Emits(S) \in [Input -> Nat]
      BY DEF Emits, Inv, TypeOK
    <3> QED BY <1>7, <3>1
  <2>2. task' \in [Input -> {"absent", "created", "running", "cancelling"} \cup Over]
    BY <1>1 DEF Inv, TypeOK
  <2>3. trackers' \subseteq Input /\ loop' \in {"main", "drain", "exited", "raised"}
        /\ get' \in Input \cup {"none", "pending"}
    BY <1>2, <1>7 DEF Inv, TypeOK
  <2> QED BY <1>1, <1>2, <2>1, <2>2, <2>3 DEF Inv, TypeOK
<1>10. Untaken'
  BY <1>1, <1>2, <1>4, <1>7, <1>8 DEF Inv, Untaken, TypeOK, Emits
<1>11. Tracked'
  BY <1>1, <1>2, <1>3, <1>4, <1>7 DEF Inv, Tracked, TypeOK, Emits, Over
<1>12. Followed'
  BY <1>1, <1>3, <1>6 DEF Inv, Followed, TypeOK
<1>13. Blamed'
  <2>1. \A i \in Input : task'[i] \in {"cancelling", "failed"} => task[i] = task'[i]
    BY <1>1
  <2>2. ~Reaped(over) => \E i \in Input : task[i] = "failed"
    BY <1>4 DEF Reaped, Over
  <2> QED BY <1>1, <1>7, <2>1, <2>2 DEF Inv, Blamed
<1>14. Kept'
  <2>1. loop' # "raised" => \A i \in Input :
          Offered(i)' \/ emitted'[i] = 1 \/ i \in trackers'
    <3> SUFFICES ASSUME loop' # "raised", NEW i \in Input
                 PROVE  Offered(i)' \/ emitted'[i] = 1 \/ i \in trackers'
      OBVIOUS
    <3>1. Offered(i) \/ emitted[i] = 1 \/ get = i \/ i \in trackers
      BY <1>1 DEF Inv, Kept
    <3>2. get = i => i \in got
      BY <1>2
    <3>3. i \in got => emitted[i] = 0
      BY <1>3
    <3>4. i \in over => emitted[i] = 0
      BY <1>4 DEF Inv, Tracked
    <3>5. emitted'[i] = IF i \in (got \ work) \cup over THEN emitted[i] + 1 ELSE emitted[i]
      BY <1>7 DEF Emits
    <3> QED BY <1>2, <1>7, <3>1, <3>2, <3>3, <3>4, <3>5
  <2>2. loop' = "exited" => trackers' = {}
    BY <1>7
  <2> QED BY <2>1, <2>2 DEF Kept
<1> QED BY <1>2, <1>9, <1>10, <1>11, <1>12, <1>13, <1>14 DEF Inv

\* The final drain answers what it reaped.
LEMMA DrainInv == ASSUME Inv, Drain PROVE Inv'
<1>1. /\ loop = "drain" /\ UNCHANGED <<upstream, stop, queue, get, task, request, result>>
      /\ Completed \subseteq trackers /\ \A j \in Completed : task[j] \in Over
      /\ \/ /\ \A i \in Completed : task[i] = "done"
            /\ emitted' = Emits(Completed) /\ trackers' = trackers \ Completed
            /\ loop' = IF trackers' = {} THEN "exited" ELSE "drain"
         \/ ~Reaped(Completed) /\ loop' = "raised" /\ UNCHANGED <<emitted, trackers>>
  BY DEF Drain, Reaped, Completed, executor
<1>2. TypeOK'
  BY <1>1 DEF Inv, TypeOK, Emits
<1>3. Handover' /\ \A i \in Input : Offered(i)' <=> Offered(i)
  BY <1>1 DEF Inv, Handover, Offered
<1>4. Untaken' /\ Tracked' /\ Followed'
  BY <1>1, <1>3 DEF Inv, TypeOK, Untaken, Tracked, Followed, Emits, Over
<1>5. Blamed'
  <2>1. ~Reaped(Completed) => \E i \in Input : task[i] = "failed"
    BY <1>1 DEF Reaped, Over, Inv, TypeOK
  <2> QED BY <1>1, <2>1 DEF Inv, Blamed
<1>6. Kept'
  BY <1>1, <1>3 DEF Inv, TypeOK, Tracked, Kept, Emits
<1> QED BY <1>2, <1>3, <1>4, <1>5, <1>6 DEF Inv

-----------------------------------------------------------------------------
(***************************************************************************)
(* The steps of caption tasks and requests leave the hand-over alone.  An  *)
(* input's windows move with its task: "Moves" says which moves are safe.  *)
(***************************************************************************)
RequestType ==
  [st : {"idle", "captioned", "error", "fatal", "closed", "cancelled"} \cup Live,
   stage : 1..2, tries : 1..Retries]

Moves ==
  /\ UNCHANGED <<executor, main>>
  /\ task' \in [Input -> {"absent", "created", "running", "cancelling"} \cup Over]
  /\ request' \in [Window -> RequestType]
  /\ result' \in [Window -> {"none", "caption", "unknown"}]
  /\ \A i \in Input : task'[i] # task[i] =>
       /\ task[i] \in {"created", "running", "cancelling"}
       /\ task'[i] \in {"running", "cancelling"} \cup Over
       /\ task'[i] \in {"cancelling", "failed"} =>
            \E w \in Window : Owner[w] = i /\ request'[w].st = "fatal"
  /\ \A w \in Window :
       /\ request'[w].st = "closed" <=> result'[w] # "none"
       /\ request'[w] # request[w] => task[Owner[w]] \in {"created", "running", "cancelling"}
       /\ request[w].st \in {"fatal", "closed"} => request'[w].st = request[w].st
       /\ task'[Owner[w]] \in {"absent", "created"} => request'[w].st = "idle"
       /\ task'[Owner[w]] = "done" => request'[w].st = "closed"
       /\ task'[Owner[w]] = "failed" => request'[w].st \notin Live

LEMMA MovesInv == ASSUME Inv, Moves PROVE Inv'
<1>1. UNCHANGED <<upstream, stop, queue, get, loop, trackers, emitted>>
  BY DEF Moves, executor, main
<1>2. TypeOK'
  BY <1>1 DEF Inv, TypeOK, Moves, RequestType
<1>3. Handover' /\ \A i \in Input : Offered(i)' <=> Offered(i)
  BY <1>1 DEF Inv, Handover, Offered
<1>4. Untaken' /\ Tracked'
  BY <1>1, <1>3 DEF Inv, Untaken, Tracked, Moves, Over
<1>5. Followed'
  BY DEF Moves, Followed
<1>6. Blamed'
  <2>1. ASSUME NEW i \in Input, task'[i] \in {"cancelling", "failed"}
        PROVE  \E w \in Window : Owner[w] = i /\ request'[w].st = "fatal"
    <3>1. CASE task'[i] # task[i]
      BY <2>1, <3>1 DEF Moves
    <3>2. CASE task'[i] = task[i]
      <4>1. PICK w \in Window : Owner[w] = i /\ request[w].st = "fatal"
        BY <2>1, <3>2 DEF Inv, Blamed
      <4> QED BY <4>1 DEF Moves
    <3> QED BY <3>1, <3>2
  <2>2. loop' = "raised" => \E w \in Window : request'[w].st = "fatal"
    <3>1. SUFFICES ASSUME loop' = "raised"
                   PROVE  \E w \in Window : request'[w].st = "fatal"
      OBVIOUS
    <3>2. PICK w \in Window : request[w].st = "fatal"
      BY <1>1, <3>1 DEF Inv, Blamed
    <3> QED BY <3>2 DEF Moves
  <2> QED BY <2>1, <2>2 DEF Blamed
<1>7. Kept'
  BY <1>1, <1>3 DEF Inv, Kept
<1> QED BY <1>2, <1>3, <1>4, <1>5, <1>6, <1>7 DEF Inv

\* Every step of a caption task is such a move.
LEMMA TaskMoves == ASSUME Inv, NEW i \in Input, TaskStep(i) PROVE Moves
<1>0. /\ task \in [Input -> {"absent", "created", "running", "cancelling"} \cup Over]
      /\ request \in [Window -> RequestType]
      /\ result \in [Window -> {"none", "caption", "unknown"}]
      /\ \A w \in Window : Owner[w] \in Input
  BY CaptionAssumption DEF Inv, TypeOK, RequestType, CaptionAssumption
<1>1. CASE Start(i)
  <2>1. /\ task[i] = "created" /\ task' = [task EXCEPT ![i] = "running"]
        /\ UNCHANGED <<executor, main>>
    BY <1>1 DEF Start, TaskTo
  <2>2. \A w \in Window : request'[w] =
          IF Owner[w] # i THEN request[w]
          ELSE Request(IF w \in Blank THEN "closed" ELSE "queued", 1, 1)
    BY <1>1 DEF Start
  <2>3. \A w \in Window : result'[w] =
          IF Owner[w] = i /\ w \in Blank THEN "unknown" ELSE result[w]
    BY <1>1 DEF Start
  <2>4. \A w \in Window : Owner[w] = i => request[w].st = "idle" /\ result[w] = "none"
    BY <2>1 DEF Inv, Followed
  <2>5. \A st \in {"closed", "queued"} :
          Request(st, 1, 1) \in RequestType /\ Request(st, 1, 1).st = st
    BY CaptionAssumption DEF Request, RequestType, Live, CaptionAssumption
  <2>6. request' \in [Window -> RequestType] /\ result' \in [Window -> {"none", "caption", "unknown"}]
    <3>1. \A w \in Window : request'[w] \in RequestType
      BY <1>0, <2>2, <2>5
    <3> QED BY <1>0, <1>1, <3>1 DEF Start
  <2>7. \A w \in Window : Owner[w] = i =>
          /\ request'[w].st = IF w \in Blank THEN "closed" ELSE "queued"
          /\ result'[w] = IF w \in Blank THEN "unknown" ELSE "none"
    BY <2>2, <2>3, <2>4, <2>5
  <2>8. \A w \in Window : Owner[w] # i =>
          request'[w] = request[w] /\ result'[w] = result[w] /\ task'[Owner[w]] = task[Owner[w]]
    BY <1>0, <2>1, <2>2, <2>3
  <2>9. \A w \in Window :
       /\ request'[w].st = "closed" <=> result'[w] # "none"
       /\ request'[w] # request[w] => task[Owner[w]] \in {"created", "running", "cancelling"}
       /\ request[w].st \in {"fatal", "closed"} => request'[w].st = request[w].st
       /\ task'[Owner[w]] \in {"absent", "created"} => request'[w].st = "idle"
       /\ task'[Owner[w]] = "done" => request'[w].st = "closed"
       /\ task'[Owner[w]] = "failed" => request'[w].st \notin Live
    <3> SUFFICES ASSUME NEW w \in Window
                 PROVE  /\ request'[w].st = "closed" <=> result'[w] # "none"
                        /\ request'[w] # request[w] => task[Owner[w]] \in {"created", "running", "cancelling"}
                        /\ request[w].st \in {"fatal", "closed"} => request'[w].st = request[w].st
                        /\ task'[Owner[w]] \in {"absent", "created"} => request'[w].st = "idle"
                        /\ task'[Owner[w]] = "done" => request'[w].st = "closed"
                        /\ task'[Owner[w]] = "failed" => request'[w].st \notin Live
      OBVIOUS
    <3>1. CASE Owner[w] = i
      BY <1>0, <2>1, <2>4, <2>7, <3>1
    <3>2. CASE Owner[w] # i
      BY <2>8, <3>2 DEF Inv, Followed
    <3> QED BY <3>1, <3>2
  <2> QED BY <1>0, <2>1, <2>6, <2>9 DEF Moves
<1>2. CASE Finish(i)
  BY <1>0, <1>2 DEF Finish, TaskTo, WindowsOf, Moves, Inv, Followed, Over
<1>3. CASE Unwind(i)
  BY <1>0, <1>3 DEF Unwind, TaskTo, WindowsOf, Moves, Inv, Followed, Blamed, Over
<1> QED BY <1>1, <1>2, <1>3 DEF TaskStep

\* A step of a window's request replaces that request, gives the window its
\* caption if it closes it, and if it is fatal takes the caption task down and
\* cancels its other requests.
LEMMA RequestEffect ==
  ASSUME Inv, NEW w \in Window, RequestStep(w)
  PROVE  /\ UNCHANGED <<executor, main>>
         /\ task[Owner[w]] \in {"running", "cancelling"}
         /\ request[w].st \notin {"closed", "cancelled"}
         /\ \E r \in RequestType, text \in {"none", "caption", "unknown"} :
              /\ result' = [result EXCEPT ![w] = text]
              /\ r.st = "closed" <=> text # "none"
              /\ request[w].st = "fatal" => r.st = "fatal"
              /\ \/ task' = task /\ request' = [request EXCEPT ![w] = r]
                 \/ /\ r.st = "fatal" /\ task' = [task EXCEPT ![Owner[w]] = "cancelling"]
                    /\ request' = [v \in Window |->
                         IF v = w THEN r
                         ELSE IF Owner[v] = Owner[w] /\ request[v].st \in Live
                              THEN [request[v] EXCEPT !.st = "cancelling"]
                              ELSE request[v]]
<1> DEFINE Becomes(r, text) ==
      /\ result' = [result EXCEPT ![w] = text]
      /\ r.st = "closed" <=> text # "none"
      /\ request[w].st = "fatal" => r.st = "fatal"
      /\ task' = task /\ request' = [request EXCEPT ![w] = r]
<1>0. /\ request \in [Window -> RequestType] /\ request[w] \in RequestType
      /\ result \in [Window -> {"none", "caption", "unknown"}]
      /\ request[w].st = "closed" <=> result[w] # "none"
      /\ Owner[w] \in Input
      /\ task[Owner[w]] \in {"absent", "created", "running", "cancelling"} \cup Over
  BY CaptionAssumption DEF Inv, TypeOK, RequestType, Followed, CaptionAssumption
<1>1. ASSUME NEW st \in {"generating", "captioned", "error", "fatal", "cancelled", "closed"}
      PROVE  /\ [request[w] EXCEPT !.st = st] \in RequestType
             /\ [request[w] EXCEPT !.st = st].st = st
             /\ [request EXCEPT ![w].st = st] = [request EXCEPT ![w] = [request[w] EXCEPT !.st = st]]
  BY <1>0 DEF RequestType, Live
<1>2. request[w].st \in Live => task[Owner[w]] \in {"running", "cancelling"}
  BY <1>0 DEF Inv, Followed, Live, Over
<1>3. CASE \E st \in {"generating", "captioned", "error", "fatal", "cancelled"} :
             RequestTo(w, st) /\ request[w].st \in Live
  <2>1. PICK st \in {"generating", "captioned", "error", "fatal", "cancelled"} :
          RequestTo(w, st) /\ request[w].st \in Live
    BY <1>3
  <2>2. Becomes([request[w] EXCEPT !.st = st], "none")
    BY <1>0, <1>1, <2>1 DEF RequestTo, Live
  <2> QED BY <1>1, <1>2, <2>1, <2>2 DEF RequestTo, Live
<1>4. CASE NextAttempt(w) /\ request[w].tries < Retries /\ request[w].st \in Live
  <2>1. request[w].tries + 1 \in 1..Retries
    BY <1>0, <1>4, CaptionAssumption DEF RequestType, CaptionAssumption
  <2> DEFINE r == [request[w] EXCEPT !.st = "queued", !.tries = @ + 1]
  <2>2. r \in RequestType /\ r.st = "queued"
    BY <1>0, <2>1 DEF RequestType, Live
  <2>3. Becomes(r, "none")
    BY <1>0, <1>4, <2>2 DEF NextAttempt, Live
  <2> QED BY <1>2, <1>4, <2>2, <2>3 DEF NextAttempt, Live
<1>5. CASE Handle(w)
  <2>1. /\ UNCHANGED <<executor, main>> /\ task[Owner[w]] = "running"
        /\ request[w].st \in {"captioned", "error", "fatal"}
    BY <1>5 DEF Handle
  <2>2. CASE (\E text \in {"caption", "unknown"} : Closes(w, text)) /\ UNCHANGED task
                /\ request[w].st # "fatal"
    <3>1. PICK text \in {"caption", "unknown"} : Closes(w, text)
      BY <2>2
    <3>2. Becomes([request[w] EXCEPT !.st = "closed"], text)
      BY <1>0, <1>1, <2>1, <2>2, <3>1 DEF Closes
    <3> QED BY <1>1, <2>1, <3>2
  <2>3. CASE /\ request' = [request EXCEPT ![w] = Request("queued", 2, 1)]
             /\ UNCHANGED <<task, result>> /\ request[w].st = "captioned"
    <3>1. Request("queued", 2, 1) \in RequestType /\ Request("queued", 2, 1).st = "queued"
      BY CaptionAssumption DEF Request, RequestType, Live, CaptionAssumption
    <3>2. Becomes(Request("queued", 2, 1), "none")
      BY <1>0, <2>3, <3>1
    <3> QED BY <2>1, <3>1, <3>2
  <2>4. CASE Fails(w)
    <3> DEFINE r == [request[w] EXCEPT !.st = "fatal"]
    <3>1. r \in RequestType /\ r.st = "fatal"
      BY <1>1
    <3>2. /\ task' = [task EXCEPT ![Owner[w]] = "cancelling"]
          /\ result' = [result EXCEPT ![w] = "none"]
      BY <1>0, <2>1, <2>4 DEF Fails, TaskTo
    <3>3. ASSUME NEW v \in Window
          PROVE  (CASE v = w -> r
                    [] v # w /\ Owner[v] = Owner[w] /\ request[v].st \in Live ->
                         [request[v] EXCEPT !.st = "cancelling"]
                    [] OTHER -> request[v])
                 = IF v = w THEN r
                   ELSE IF Owner[v] = Owner[w] /\ request[v].st \in Live
                        THEN [request[v] EXCEPT !.st = "cancelling"]
                        ELSE request[v]
      OBVIOUS
    <3>4. request' = [v \in Window |->
            CASE v = w -> [request[v] EXCEPT !.st = "fatal"]
              [] v # w /\ Owner[v] = Owner[w] /\ request[v].st \in Live ->
                   [request[v] EXCEPT !.st = "cancelling"]
              [] OTHER -> request[v]]
      BY <2>4 DEF Fails
    <3>5. request' = [v \in Window |->
            IF v = w THEN r
            ELSE IF Owner[v] = Owner[w] /\ request[v].st \in Live
                 THEN [request[v] EXCEPT !.st = "cancelling"]
                 ELSE request[v]]
      BY <3>3, <3>4
    <3> QED BY <2>1, <3>1, <3>2, <3>5
  <2> QED BY <1>5, <2>2, <2>3, <2>4 DEF Handle
<1>6. CASE Acquire(w) \/ GenerateEnds(w)
  BY <1>3, <1>6 DEF Acquire, GenerateEnds, Live
<1>7. CASE Retry(w) \/ Cancelled(w)
  BY <1>3, <1>4, <1>7 DEF Retry, Cancelled, Live
<1> QED BY <1>5, <1>6, <1>7 DEF RequestStep

\* So it is a safe move, too.
LEMMA RequestMoves == ASSUME Inv, NEW w \in Window, RequestStep(w) PROVE Moves
<1>0. /\ task \in [Input -> {"absent", "created", "running", "cancelling"} \cup Over]
      /\ request \in [Window -> RequestType]
      /\ result \in [Window -> {"none", "caption", "unknown"}]
      /\ Owner[w] \in Input /\ UNCHANGED <<executor, main>>
      /\ task[Owner[w]] \in {"running", "cancelling"}
      /\ request[w].st \notin {"closed", "cancelled"}
  BY CaptionAssumption, RequestEffect DEF Inv, TypeOK, RequestType, CaptionAssumption
<1>1. PICK r \in RequestType, text \in {"none", "caption", "unknown"} :
        /\ result' = [result EXCEPT ![w] = text]
        /\ r.st = "closed" <=> text # "none"
        /\ request[w].st = "fatal" => r.st = "fatal"
        /\ \/ task' = task /\ request' = [request EXCEPT ![w] = r]
           \/ /\ r.st = "fatal" /\ task' = [task EXCEPT ![Owner[w]] = "cancelling"]
              /\ request' = [v \in Window |->
                   IF v = w THEN r
                   ELSE IF Owner[v] = Owner[w] /\ request[v].st \in Live
                        THEN [request[v] EXCEPT !.st = "cancelling"]
                        ELSE request[v]]
  BY RequestEffect
<1>2. /\ task' \in [Input -> {"absent", "created", "running", "cancelling"} \cup Over]
      /\ result' \in [Window -> {"none", "caption", "unknown"}]
      /\ request'[w] = r /\ result'[w] = text
      /\ \A v \in Window \ {w} : result'[v] = result[v]
      /\ \A i \in Input : task'[i] = task[i] \/ (i = Owner[w] /\ task'[i] = "cancelling" /\ r.st = "fatal")
  BY <1>0, <1>1
<1>3. \A v \in Window \ {w} :
        \/ request'[v] = request[v]
        \/ /\ Owner[v] = Owner[w] /\ request[v].st \in Live
           /\ request'[v] = [request[v] EXCEPT !.st = "cancelling"]
           /\ request'[v].st = "cancelling" /\ request'[v] \in RequestType
  <2>1. \A v \in Window : /\ [request[v] EXCEPT !.st = "cancelling"] \in RequestType
                          /\ [request[v] EXCEPT !.st = "cancelling"].st = "cancelling"
    BY <1>0 DEF RequestType, Live
  <2> QED BY <1>0, <1>1, <2>1
<1>4. request' \in [Window -> RequestType]
  <2>1. \A v \in Window : request'[v] \in RequestType
    BY <1>0, <1>2, <1>3
  <2>2. request' = [v \in Window |-> request'[v]]
    BY <1>0, <1>1
  <2> QED BY <2>1, <2>2
<1>5. ASSUME NEW i \in Input, task'[i] # task[i]
      PROVE  /\ task[i] \in {"created", "running", "cancelling"}
             /\ task'[i] \in {"running", "cancelling"} \cup Over
             /\ \E v \in Window : Owner[v] = i /\ request'[v].st = "fatal"
  BY <1>0, <1>2, <1>5
<1>6. ASSUME NEW v \in Window
      PROVE  /\ request'[v].st = "closed" <=> result'[v] # "none"
             /\ request'[v] # request[v] => task[Owner[v]] \in {"created", "running", "cancelling"}
             /\ request[v].st \in {"fatal", "closed"} => request'[v].st = request[v].st
             /\ task'[Owner[v]] \in {"absent", "created"} => request'[v].st = "idle"
             /\ task'[Owner[v]] = "done" => request'[v].st = "closed"
             /\ task'[Owner[v]] = "failed" => request'[v].st \notin Live
  <2>1. Owner[v] \in Input
    BY CaptionAssumption DEF CaptionAssumption
  <2>2. task'[Owner[v]] \in {"absent", "created", "done", "failed"} =>
          Owner[v] # Owner[w] /\ task[Owner[v]] = task'[Owner[v]]
    BY <1>0, <1>2, <2>1
  <2>3. CASE v = w
    BY <1>0, <1>1, <1>2, <2>2, <2>3
  <2>4. CASE v # w /\ request'[v] = request[v]
    BY <1>2, <2>2, <2>4 DEF Inv, Followed
  <2>5. CASE v # w /\ request'[v] # request[v]
    <3>1. /\ Owner[v] = Owner[w] /\ request[v].st \in Live /\ request'[v].st = "cancelling"
          /\ result'[v] = result[v]
      BY <1>2, <1>3, <2>5
    <3>2. result[v] = "none"
      BY <3>1 DEF Inv, Followed, Live
    <3> QED BY <1>0, <2>2, <3>1, <3>2 DEF Live
  <2> QED BY <2>3, <2>4, <2>5
<1> QED BY <1>0, <1>2, <1>4, <1>5, <1>6 DEF Moves

\* A step of the specification, or a stutter, preserves the invariant.
LEMMA StepInv == Inv /\ [Next]_vars => Inv'
<1> SUFFICES ASSUME Inv, [Next]_vars PROVE Inv'
  OBVIOUS
<1>1. CASE Next
  BY <1>1, PutInv, GetInv, StopInv, TickInv, DrainInv, TaskMoves, RequestMoves, MovesInv DEF Next
<1>2. CASE UNCHANGED vars
  <2>1. UNCHANGED <<upstream, queue, get, loop, trackers, task, request, result, emitted>>
        /\ stop' \in BOOLEAN
    BY <1>2 DEF vars, Inv, TypeOK
  <2>2. TypeOK' /\ Handover' /\ \A i \in Input : Offered(i)' <=> Offered(i)
    BY <2>1 DEF Inv, TypeOK, Handover, Offered
  <2>3. Untaken' /\ Tracked' /\ Followed' /\ Blamed' /\ Kept'
    BY <2>1, <2>2 DEF Inv, Untaken, Tracked, Followed, Blamed, Kept
  <2> QED BY <2>2, <2>3 DEF Inv
<1> QED BY <1>1, <1>2

\* The invariant holds in every state the stage reaches.
THEOREM Invariant == Spec => []Inv
<1>1. Init => Inv
  BY InitInv
<1>2. Inv /\ [Next]_vars => Inv'
  BY StepInv
<1> QED BY <1>1, <1>2, PTL DEF Spec


-----------------------------------------------------------------------------
(***************************************************************************)
(* Every variable keeps its type (run_continuous, _AsyncCaptioner).        *)
(***************************************************************************)
THEOREM TypeCorrect == Spec => []TypeOK
<1>1. Inv => TypeOK
  BY DEF Inv
<1> QED BY <1>1, Invariant, PTL

(***************************************************************************)
(* By the time _caption_pipe_tasks frees the model inputs, none of their   *)
(* requests waits for the engine or is in it.                              *)
(***************************************************************************)
THEOREM FreedSafely == Spec => []NothingRunsAfterFree
<1>1. Inv => NothingRunsAfterFree
  BY DEF Inv, Followed, NothingRunsAfterFree, Over, Live
<1> QED BY <1>1, Invariant, PTL

(***************************************************************************)
(* run_continuous raises only over a fatal error of some request.          *)
(***************************************************************************)
THEOREM Contained == Spec => []FailuresContained
<1>1. Inv => FailuresContained
  BY DEF Inv, Blamed, FailuresContained
<1> QED BY <1>1, Invariant, PTL

(***************************************************************************)
(* run_continuous returns with every input it took answered, but for one   *)
(* that get_task returned as the idle timeout ran out.                     *)
(***************************************************************************)
THEOREM Drains == Spec => []StopDrains
<1>1. Inv => StopDrains
  BY DEF Inv, Kept, StopDrains
<1> QED BY <1>1, Invariant, PTL

-----------------------------------------------------------------------------
\* The phase of an input, without the case no state is in.
LEMMA Phases ==
  ASSUME Inv, Inv'
  PROVE  /\ Phase = [i \in Input |-> IF emitted[i] = 1 THEN "answered"
                                     ELSE IF Offered(i) THEN "offered" ELSE "held"]
         /\ Phase' = [i \in Input |-> IF emitted'[i] = 1 THEN "answered"
                                      ELSE IF Offered(i)' THEN "offered" ELSE "held"]
<1>1. ASSUME NEW i \in Input
      PROVE  /\ emitted[i] \in {0, 1} /\ (Offered(i) => emitted[i] = 0)
             /\ emitted'[i] \in {0, 1} /\ (Offered(i)' => emitted'[i] = 0)
  BY DEF Inv, Untaken, Tracked
<1>2. ASSUME NEW i \in Input
      PROVE  (CASE emitted[i] = 0 /\ Offered(i)  -> "offered"
                [] emitted[i] = 0 /\ ~Offered(i) -> "held"
                [] emitted[i] = 1 /\ ~Offered(i) -> "answered"
                [] OTHER                         -> "broken")
             = IF emitted[i] = 1 THEN "answered"
               ELSE IF Offered(i) THEN "offered" ELSE "held"
  BY <1>1
<1>3. ASSUME NEW i \in Input
      PROVE  (CASE emitted'[i] = 0 /\ Offered(i)'  -> "offered"
                [] emitted'[i] = 0 /\ ~Offered(i)' -> "held"
                [] emitted'[i] = 1 /\ ~Offered(i)' -> "answered"
                [] OTHER                           -> "broken")
             = IF emitted'[i] = 1 THEN "answered"
               ELSE IF Offered(i)' THEN "offered" ELSE "held"
  BY <1>1
<1> QED BY <1>2, <1>3 DEF Phase

\* A turn of the contract: what is taken was offered and no longer is, what is
\* answered is tracked or was taken, and every window of it has its caption.
LEMMA TurnOfContract ==
  ASSUME Inv, Inv', UNCHANGED result,
         NEW taken \in SUBSET Input, NEW answered \in SUBSET Input,
         \A i \in Input : Offered(i)' <=> Offered(i) /\ i \notin taken,
         \A i \in taken : Offered(i),
         \A i \in answered : emitted[i] = 0 /\ (i \in taken \/ ~Offered(i)),
         \A i \in Input : emitted'[i] = IF i \in answered THEN emitted[i] + 1 ELSE emitted[i],
         \A w \in Window : Owner[w] \in answered => result[w] # "none"
  PROVE  Contract!Turn
<1>1. \A i \in taken : Phase[i] = "offered"
  BY Phases DEF Inv, Untaken
<1>2. \A i \in answered : i \in taken \/ Phase[i] = "held"
  BY Phases
<1>3. \A w \in Window : Owner[w] \in answered => w \in Resolved
  BY DEF Resolved
<1>4. Phase' = [i \in Input |-> IF i \in answered THEN "answered"
                                ELSE IF i \in taken THEN "held" ELSE Phase[i]]
  <2>1. ASSUME NEW i \in Input
        PROVE  (IF emitted'[i] = 1 THEN "answered" ELSE IF Offered(i)' THEN "offered" ELSE "held")
               = IF i \in answered THEN "answered"
                 ELSE IF i \in taken THEN "held" ELSE Phase[i]
    BY Phases DEF Inv, Untaken
  <2> QED BY <2>1, Phases
<1>5. Resolved' = Resolved
  BY DEF Resolved
<1> QED BY <1>1, <1>2, <1>3, <1>4, <1>5 DEF Contract!Turn

\* A move of tasks and requests resolves windows of inputs that are held.
LEMMA MoveOfContract ==
  ASSUME Inv, Inv', Moves
  PROVE  Contract!Resolve \/ UNCHANGED <<Phase, Resolved>>
<1> DEFINE S == Resolved' \ Resolved
<1>1. UNCHANGED <<upstream, queue, emitted>>
  BY DEF Moves, executor, main
<1>2. Phase' = Phase
  <2>1. \A i \in Input : Offered(i)' <=> Offered(i)
    BY <1>1 DEF Offered
  <2> QED BY <1>1, <2>1, Phases
<1>3. Resolved \subseteq Resolved'
  BY DEF Resolved, Moves, Inv, Followed
<1>4. \A w \in S : Phase[Owner[w]] = "held"
  <2> SUFFICES ASSUME NEW w \in S PROVE Phase[Owner[w]] = "held"
    OBVIOUS
  <2>1. w \in Window /\ result[w] = "none" /\ result'[w] # "none" /\ Owner[w] \in Input
    BY CaptionAssumption DEF Resolved, CaptionAssumption
  <2>2. request'[w] # request[w]
    BY <2>1 DEF Moves, Inv, Followed
  <2>3. Owner[w] \in trackers
    BY <2>1, <2>2 DEF Moves, Inv, Tracked
  <2>4. emitted[Owner[w]] = 0 /\ ~Offered(Owner[w])
    BY <2>1, <2>3 DEF Inv, Tracked, Untaken
  <2> QED BY <2>1, <2>4, Phases
<1>5. CASE S = {}
  BY <1>2, <1>3, <1>5
<1>6. CASE S # {}
  <2>1. S \in SUBSET (Window \ Resolved) /\ Resolved' = Resolved \cup S
    BY <1>3 DEF Resolved
  <2> QED BY <1>2, <1>4, <1>6, <2>1 DEF Contract!Resolve
<1> QED BY <1>5, <1>6

\* A turn of the main loop is a turn of the contract.
LEMMA TickOfContract == ASSUME Inv, Inv', Tick PROVE Contract!Turn
<1> DEFINE work == {i \in Delivered : WindowsOf(i) # {}}
           taken == {i \in Delivered : Offered(i)}
<1>1. /\ Delivered \subseteq Input /\ \A j \in Delivered : j = get \/ Offered(j)
      /\ \A j \in Input : Offered(j)' <=> Offered(j) /\ j \notin Delivered
  BY TickEffect
<1>2. PICK answered \in {(Delivered \ work) \cup Completed, Delivered \ work} :
        /\ emitted' = Emits(answered)
        /\ answered = (Delivered \ work) \cup Completed =>
             Reaped(Completed) \/ answered = Delivered \ work
  BY DEF Tick
<1>3. /\ \A i \in Delivered : emitted[i] = 0
      /\ \A i \in Completed : emitted[i] = 0 /\ ~Offered(i) /\ i \in Input
  BY <1>1 DEF Inv, TypeOK, Untaken, Tracked, Completed
<1>4. \A w \in Window : Owner[w] \in answered => result[w] # "none"
  <2> SUFFICES ASSUME NEW w \in Window, Owner[w] \in answered PROVE result[w] # "none"
    OBVIOUS
  <2>1. Owner[w] \notin Delivered \ work
    BY DEF WindowsOf
  <2>2. Owner[w] \in Completed /\ Reaped(Completed)
    BY <1>2, <2>1
  <2> QED BY <2>2 DEF Reaped, Inv, Followed
<1>5. \A i \in Input : emitted'[i] = IF i \in answered THEN emitted[i] + 1 ELSE emitted[i]
  BY <1>2 DEF Emits
<1>6. taken \in SUBSET Input /\ answered \in SUBSET Input
  BY <1>1, <1>2, <1>3
<1>7. /\ UNCHANGED result
      /\ \A i \in Input : Offered(i)' <=> Offered(i) /\ i \notin taken
      /\ \A i \in taken : Offered(i)
      /\ \A i \in answered : emitted[i] = 0 /\ (i \in taken \/ ~Offered(i))
  BY <1>1, <1>2, <1>3 DEF Tick
<1> QED BY <1>4, <1>5, <1>6, <1>7, TurnOfContract

\* Reaping in the final drain is one, too.
LEMMA DrainOfContract == ASSUME Inv, Inv', Drain PROVE Contract!Turn
<1>1. PICK answered \in {Completed, {}} :
        /\ \A i \in Input : emitted'[i] = IF i \in answered THEN emitted[i] + 1 ELSE emitted[i]
        /\ answered # {} => Reaped(Completed)
  BY DEF Drain, Emits, Inv, TypeOK
<1> DEFINE taken == {}
<1>2. /\ taken \in SUBSET Input /\ answered \in SUBSET Input
      /\ \A i \in taken : Offered(i)
      /\ \A i \in answered : emitted[i] = 0 /\ (i \in taken \/ ~Offered(i))
  BY <1>1 DEF Inv, TypeOK, Untaken, Tracked, Completed
<1>3. \A w \in Window : Owner[w] \in answered => result[w] # "none"
  BY <1>1 DEF Reaped, Inv, Followed
<1>4. UNCHANGED result /\ \A i \in Input : Offered(i)' <=> Offered(i) /\ i \notin taken
  BY DEF Drain, executor, Offered
<1> HIDE DEF taken
<1> QED BY <1>1, <1>2, <1>3, <1>4, TurnOfContract

\* Every other step of the loop and the executor takes one input or none.
LEMMA HandOverOfContract ==
  ASSUME Inv, Inv', (\E i \in Input : Put(i)) \/ Stop \/ Timeout \/ GetReturns
  PROVE  Contract!Turn \/ UNCHANGED <<Phase, Resolved>>
<1>1. UNCHANGED <<result, emitted>>
  BY DEF Put, Stop, Timeout, GetReturns, main
<1>2. CASE \A i \in Input : Offered(i)' <=> Offered(i)
  BY <1>1, <1>2, Phases DEF Resolved
<1>3. CASE GetReturns
  <2>1. /\ get' \in Input /\ Offered(get')
        /\ \A i \in Input : Offered(i)' <=> Offered(i) /\ i # get'
    BY <1>3, GetQueue
  <2> DEFINE taken == {get'}
             answered == {}
  <2>2. /\ taken \in SUBSET Input /\ answered \in SUBSET Input
        /\ \A i \in Input : Offered(i)' <=> Offered(i) /\ i \notin taken
        /\ \A i \in taken : Offered(i)
        /\ \A i \in answered : emitted[i] = 0 /\ (i \in taken \/ ~Offered(i))
        /\ \A i \in Input : emitted'[i] = IF i \in answered THEN emitted[i] + 1 ELSE emitted[i]
        /\ \A w \in Window : Owner[w] \in answered => result[w] # "none"
    BY <1>1, <2>1
  <2> HIDE DEF taken, answered
  <2> QED BY <1>1, <2>2, TurnOfContract
<1>4. CASE \E i \in Input : Put(i)
  BY <1>2, <1>4, PutQueue
<1>5. CASE Stop \/ Timeout
  <2>1. UNCHANGED <<upstream, queue>>
    BY <1>5 DEF Stop, Timeout, main, executor
  <2> QED BY <1>2, <2>1 DEF Offered
<1> QED BY <1>3, <1>4, <1>5

(***************************************************************************)
(* The stage implements its contract with the executor: each input is      *)
(* answered at most once, after all of its windows.                        *)
(***************************************************************************)
THEOREM Implements == Spec => ImplementsContract
<1>1. Init => Contract!Init
  <2> SUFFICES ASSUME Init PROVE Contract!Init
    OBVIOUS
  <2>1. \A i \in Input : Offered(i) /\ emitted[i] = 0
    BY DEF Init, Offered
  <2>2. Phase = [i \in Input |-> "offered"]
    BY <2>1 DEF Phase
  <2>3. Resolved = {}
    BY DEF Init, Resolved
  <2> QED BY <2>2, <2>3 DEF Contract!Init
<1>2. Inv /\ Inv' /\ [Next]_vars => [Contract!Next]_<<Phase, Resolved>>
  <2> SUFFICES ASSUME Inv, Inv', [Next]_vars
               PROVE  Contract!Turn \/ Contract!Resolve \/ UNCHANGED <<Phase, Resolved>>
    BY DEF Contract!Next
  <2>1. CASE Next
    BY <2>1, TickOfContract, DrainOfContract, HandOverOfContract, MoveOfContract,
       TaskMoves, RequestMoves DEF Next
  <2>2. CASE UNCHANGED vars
    <3>1. UNCHANGED <<upstream, queue, emitted, result>>
      BY <2>2 DEF vars
    <3>2. \A i \in Input : Offered(i)' <=> Offered(i)
      BY <3>1 DEF Offered
    <3> QED BY <3>1, <3>2, Phases DEF Resolved
  <2> QED BY <2>1, <2>2
<1> QED BY <1>1, <1>2, Invariant, PTL DEF Spec, ImplementsContract, Contract!Spec

=============================================================================
