------------------------ MODULE PipelineServiceProofs ------------------------
(***************************************************************************)
(* Exclusion and verdicts of the NVCF service, for any processes, requests *)
(* and number of faults.                                                   *)
(***************************************************************************)
EXTENDS PipelineServiceProperties, FiniteSetTheorems, TLAPS

\* A request between Acquire and Release.
Locked == {"recheck", "marking", "marked", "body", "run", "returned", "answered",
           "clean", "unlink"}
Entered == Locked \cup {"release"}
Holders(w) == {r \in Request : at[r] = w /\ pc[r] \in Entered}

\* A process's FileLock counts the requests that are past Acquire there.
Counted ==
  \A w \in Worker : IsFiniteSet(Holders(w)) /\ depth[w] = Cardinality(Holders(w))

\* How far the invocation is, given how far dispatch is.
Paired ==
  \A r \in Request :
    /\ pc[r] \in {"new", "acquire", "recheck", "marking", "marked", "body"} => pipe[r] = "none"
    /\ pc[r] = "run" => pipe[r] \in {"prepare", "job", "upload", "settle"}
    /\ pc[r] \in {"returned", "clean", "unlink"} => pipe[r] \in {"none", "over"}
    /\ pipe[r] \in {"none", "prepare"} => job[r] = "none"
    /\ job[r] = "running" => pipe[r] \in {"job", "dead"}

\* Until its exclusion is undone the service holds the lock and keeps the
\* marker for at most one request.
Alone ==
  breach = {} =>
    /\ \A q, r \in Request :
         pc[q] \in Entered /\ pc[r] \in Entered /\ at[q] = at[r] => q = r
    /\ \A r \in Request : pc[r] \in Locked => lock = at[r]
    /\ \A r \in Request : AtWork(r) /\ pc[r] # "marking" => marker
    /\ \A q, r \in Request : AtWork(q) /\ AtWork(r) => q = r

\* A termination is of a request that was set up, and stops jobs when ordered.
Ordered ==
  /\ term.hit => term.pc # "unused"
  /\ term.pc # "unused" /\ term.target \in Request => "progress" \in files[term.target]

\* What the progress thread will find.
Judging ==
  \A r \in Request :
    /\ pc[r] \in {"new", "acquire", "recheck", "marking", "marked"} =>
         thread[r] = "none" /\ files[r] = {}
    /\ thread[r] = "live" => "progress" \in files[r] /\ "done" \notin files[r]
    /\ pc[r] = "body" => ipc[r]
    /\ pipe[r] \in {"none", "prepare", "job", "upload"} =>
         ~uploaded[r] /\ "done" \notin files[r]
    /\ pipe[r] \in {"prepare", "job", "upload"} => ipc[r]
    /\ pipe[r] \in {"none", "prepare", "job", "upload"} /\ "failed" \in files[r] =>
         term.target = r /\ term.hit
    /\ pipe[r] = "settle" /\ ipc[r] => uploaded[r] \/ job[r] = "none"
    /\ pipe[r] = "settle" /\ ~ipc[r] => ~uploaded[r]

Inv == TypeOK /\ Counted /\ Paired /\ Alone /\ Ordered /\ Judging /\ HonestVerdict

-----------------------------------------------------------------------------
\* Where each value of the lock files and event loops comes from.
LEMMA ExclusionTypeStep == Inv /\ [Next]_vars => ExclusionTypeOK'
<1> SUFFICES ASSUME Inv, [Next]_vars PROVE ExclusionTypeOK'
  OBVIOUS
<1> USE DEF ExclusionTypeOK, RequestTypeOK, TypeOK, Inv, Takes, Gives, RemoveMarker, RemoveLock,
            Breach, exclusion, invocation, environment
<1>1. ASSUME NEW r \in Request, Arrive(r) \/ Recheck(r) \/ Mark(r) \/ Return(r)
      PROVE  ExclusionTypeOK'
  <2>1. CASE Arrive(r) BY <2>1 DEF Arrive
  <2>2. CASE Recheck(r) BY <2>2 DEF Recheck
  <2>3. CASE Mark(r) BY <2>3 DEF Mark
  <2>4. CASE Return(r) BY <2>4 DEF Return
  <2> QED BY <1>1, <2>1, <2>2, <2>3, <2>4
<1>2. ASSUME NEW r \in Request, Acquire(r) \/ Clean(r) PROVE ExclusionTypeOK'
  <2>1. CASE Acquire(r)
    <3>1. at[r] \in Worker /\ depth[at[r]] \in Nat
      BY DEF Acquire
    <3>2. /\ lock' \in {lock, at[r]} /\ loop' \in {loop, [loop EXCEPT ![at[r]] = "idle"]}
          /\ depth' \in {depth, [depth EXCEPT ![at[r]] = @ + 1]}
          /\ breach' \in {breach, breach \cup {"reentry"}}
          /\ UNCHANGED <<marker, up, faults>>
      BY SMTT(60), <2>1 DEF Acquire
    <3> QED BY <3>1, <3>2
  <2>2. CASE Clean(r) BY ZenonT(40), <2>2 DEF Clean
  <2> QED BY <1>2, <2>1, <2>2
<1>3. ASSUME NEW r \in Request, Release(r) PROVE ExclusionTypeOK'
  <2>1. IsFiniteSet(Holders(at[r])) /\ depth[at[r]] = Cardinality(Holders(at[r]))
    BY DEF Counted
  <2>2. r \in Holders(at[r])
    BY <1>3 DEF Release, Holders, Entered
  <2>3. depth[at[r]] # 0
    BY <2>1, <2>2, FS_EmptySet
  <2> QED BY SMTT(30), <1>3, <2>3 DEF Release
<1>4. ASSUME NEW r \in Request, Curate(r) PROVE ExclusionTypeOK'
  <2>1. CASE Setup(r) \/ Prepare(r) \/ RunProcess(r) \/ Upload(r)
    BY ZenonT(40), <2>1 DEF Setup, Prepare, RunProcess, Upload
  <2>2. CASE Invoke(r) BY <2>2 DEF Invoke
  <2>3. CASE Record(r) BY <2>3 DEF Record
  <2>4. CASE Join(r) BY <2>4 DEF Join
  <2>5. CASE Background(r) BY ZenonT(40), <2>5 DEF Background
  <2> QED BY <1>4, <2>1, <2>2, <2>3, <2>4, <2>5 DEF Curate
<1>5. ASSUME NEW r \in Request, JobEnds(r) \/ StopJob(r) PROVE ExclusionTypeOK'
  BY <1>5 DEF JobEnds, StopJob
<1>6. ASSUME NEW w \in Worker, NEW target \in Request \cup {"force"}, Order(target, w)
      PROVE  ExclusionTypeOK'
  BY <1>6, ServiceAssumption DEF Order
<1>7. CASE OrderEnds
  BY <1>7 DEF OrderEnds, TermTypeOK
<1>8. ASSUME NEW w \in Worker, Crash(w) \/ Restart(w) PROVE ExclusionTypeOK'
  <2>1. CASE Crash(w) BY <2>1, ServiceAssumption DEF Crash
  <2>2. CASE Restart(w) BY ZenonT(40), <2>2 DEF Restart
  <2> QED BY <1>8, <2>1, <2>2
<1>9. CASE UNCHANGED vars
  BY <1>9 DEF vars
<1> QED
  BY <1>1, <1>2, <1>3, <1>4, <1>5, <1>6, <1>7, <1>8, <1>9
     DEF Next, RequestStep, Dispatch, TerminationStep

LEMMA RequestTypeStep == Inv /\ [Next]_vars => RequestTypeOK'
<1> SUFFICES ASSUME Inv, [Next]_vars PROVE RequestTypeOK'
  OBVIOUS
<1> USE DEF RequestTypeOK, TypeOK, Inv, PcTo, PipeTo, exclusion, invocation, environment
<1>1. ASSUME NEW r \in Request, Arrive(r) \/ Dispatch(r) PROVE RequestTypeOK'
  BY <1>1 DEF Arrive, Dispatch, Acquire, Recheck, Mark, Return, Clean, Release
<1>2. ASSUME NEW r \in Request, Setup(r) \/ Invoke(r) \/ Prepare(r) \/ RunProcess(r)
      PROVE  RequestTypeOK'
  <2>1. CASE Setup(r)
    <3>1. /\ \E p \in {"returned", "body"} : pc' = [pc EXCEPT ![r] = p]
          /\ ipc' \in {ipc, [ipc EXCEPT ![r] = TRUE]}
          /\ thread' \in {thread, [thread EXCEPT ![r] = "live"]}
          /\ files' \in {files, [files EXCEPT ![r] = @ \cup {"progress"}]}
          /\ UNCHANGED <<at, pipe, job, uploaded>>
      BY <2>1 DEF Setup
    <3>2. files' \in [Request -> SUBSET {"progress", "done", "failed"}]
      BY <3>1
    <3>3. ipc' \in [Request -> BOOLEAN] /\ thread' \in [Request -> {"none", "live", "gone"}]
      BY <3>1
    <3>4. pc' \in [Request -> {"new", "acquire", "recheck", "marking", "marked", "body",
                              "run", "returned", "answered", "clean", "unlink",
                              "release", "closed", "dead"}]
      BY <3>1
    <3> QED BY <3>1, <3>2, <3>3, <3>4
  <2>2. CASE Invoke(r) BY ZenonT(40), <2>2 DEF Invoke
  <2>3. CASE Prepare(r) BY <2>3 DEF Prepare, Failing
  <2>4. CASE RunProcess(r) BY <2>4 DEF RunProcess, Failing
  <2> QED BY <1>2, <2>1, <2>2, <2>3, <2>4
<1>3. ASSUME NEW r \in Request, Upload(r) \/ Join(r) \/ Background(r) PROVE RequestTypeOK'
  BY ZenonT(40), <1>3 DEF Upload, Join, Background, Failing
<1>4. ASSUME NEW r \in Request, Record(r) PROVE RequestTypeOK'
  BY <1>4 DEF Record
<1>5. ASSUME NEW r \in Request, JobEnds(r) \/ StopJob(r) PROVE RequestTypeOK'
  BY <1>5 DEF JobEnds, StopJob
<1>6. ASSUME NEW w \in Worker, NEW target \in Request \cup {"force"}, Order(target, w)
      PROVE  RequestTypeOK'
  BY <1>6 DEF Order
<1>7. CASE OrderEnds
  BY <1>7 DEF OrderEnds
<1>8. ASSUME NEW w \in Worker, Crash(w) PROVE RequestTypeOK'
  BY <1>8 DEF Crash
<1>9. ASSUME NEW w \in Worker, Restart(w) PROVE RequestTypeOK'
  BY <1>9 DEF Restart
<1>10. CASE UNCHANGED vars
  BY <1>10 DEF vars
<1> QED
  BY <1>1, <1>2, <1>3, <1>4, <1>5, <1>6, <1>7, <1>8, <1>9, <1>10
     DEF Next, RequestStep, Curate, TerminationStep

LEMMA TermTypeStep == Inv /\ [Next]_vars => TermTypeOK'
<1> SUFFICES ASSUME Inv, [Next]_vars PROVE TermTypeOK'
  OBVIOUS
<1> USE DEF TermTypeOK, TypeOK, Inv
<1>1. ASSUME NEW r \in Request, Arrive(r) \/ Dispatch(r) \/ JobEnds(r) PROVE UNCHANGED term
  BY <1>1 DEF Arrive, Dispatch, Acquire, Recheck, Mark, Return, Clean, Release, JobEnds,
              environment
<1>2. ASSUME NEW r \in Request, Curate(r) PROVE UNCHANGED term
  BY <1>2 DEF Curate, Setup, Invoke, Prepare, RunProcess, Upload, Record, Join, Background,
              environment
<1>3. ASSUME NEW w \in Worker, NEW target \in Request \cup {"force"}, Order(target, w)
      PROVE  TermTypeOK'
  BY <1>3 DEF Order
<1>4. ASSUME NEW r \in Request, StopJob(r) PROVE TermTypeOK'
  BY <1>4 DEF StopJob
<1>5. CASE OrderEnds
  BY <1>5 DEF OrderEnds
<1>6. ASSUME NEW w \in Worker, Crash(w) \/ Restart(w) PROVE TermTypeOK'
  BY <1>6 DEF Crash, Restart
<1>7. CASE UNCHANGED vars
  BY <1>7 DEF vars, environment
<1> QED
  BY <1>1, <1>2, <1>3, <1>4, <1>5, <1>6, <1>7 DEF Next, RequestStep, TerminationStep

-----------------------------------------------------------------------------
\* Requests stay where they came, and only a few steps enter or leave the lock.
LEMMA Enters ==
  ASSUME Inv, [Next]_vars
  PROVE  /\ UNCHANGED at
         /\ \/ \E r \in Request : Acquire(r) \/ Release(r)
            \/ \E w \in Worker : Crash(w)
            \/ /\ UNCHANGED depth
               /\ \A r \in Request : pc'[r] \in Entered <=> pc[r] \in Entered
<1> DEFINE Quiet == UNCHANGED depth /\ \A r \in Request : pc'[r] \in Entered <=> pc[r] \in Entered
<1> USE DEF PcTo, PipeTo, exclusion, invocation, environment
<1>1. pc \in [Request -> {"new", "acquire", "recheck", "marking", "marked", "body",
                          "run", "returned", "answered", "clean", "unlink",
                          "release", "closed", "dead"}]
  BY DEF Inv, TypeOK, RequestTypeOK
<1>2. ASSUME NEW r \in Request, Arrive(r) \/ Recheck(r) \/ Mark(r) \/ Return(r) \/ Clean(r)
      PROVE  UNCHANGED at /\ Quiet
  BY <1>1, <1>2 DEF Arrive, Recheck, Mark, Return, Clean, RemoveMarker, RemoveLock, Entered, Locked
<1>3. ASSUME NEW r \in Request, Setup(r) \/ Invoke(r) \/ Join(r)
      PROVE  UNCHANGED at /\ Quiet
  BY <1>1, <1>3 DEF Setup, Invoke, Join, Entered, Locked
<1>4. ASSUME NEW r \in Request,
             \/ Prepare(r) \/ RunProcess(r) \/ Upload(r) \/ Record(r) \/ Background(r)
             \/ JobEnds(r) \/ StopJob(r)
      PROVE  UNCHANGED at /\ Quiet
  BY <1>4 DEF Prepare, RunProcess, Upload, Record, Background, JobEnds, StopJob,
              RemoveMarker, RemoveLock
<1>5. CASE OrderEnds \/ \E w \in Worker, target \in Request \cup {"force"} : Order(target, w)
  BY <1>5 DEF OrderEnds, Order
<1>6. ASSUME NEW w \in Worker, Restart(w) PROVE UNCHANGED at /\ Quiet
  BY <1>6 DEF Restart, RemoveMarker, RemoveLock
<1>7. CASE UNCHANGED vars
  BY <1>7 DEF vars
<1>8. ASSUME NEW r \in Request, Acquire(r) \/ Release(r) PROVE UNCHANGED at
  BY <1>8 DEF Acquire, Release
<1>9. ASSUME NEW w \in Worker, Crash(w) PROVE UNCHANGED at
  BY <1>9 DEF Crash
<1> QED
  BY <1>2, <1>3, <1>4, <1>5, <1>6, <1>7, <1>8, <1>9
     DEF Next, RequestStep, Dispatch, Curate, TerminationStep

\* A process's FileLock goes on counting the requests that hold it.
LEMMA CountedStep == Inv /\ [Next]_vars => Counted'
<1> SUFFICES ASSUME Inv, [Next]_vars, NEW w \in Worker
             PROVE  IsFiniteSet(Holders(w)') /\ depth'[w] = Cardinality(Holders(w)')
  BY DEF Counted
<1>1. /\ IsFiniteSet(Holders(w)) /\ depth[w] = Cardinality(Holders(w))
      /\ depth \in [Worker -> Nat] /\ UNCHANGED at
      /\ pc \in [Request -> {"new", "acquire", "recheck", "marking", "marked", "body",
                             "run", "returned", "answered", "clean", "unlink",
                             "release", "closed", "dead"}]
  BY Enters DEF Inv, Counted, TypeOK, RequestTypeOK, ExclusionTypeOK
<1>2. CASE UNCHANGED depth /\ \A r \in Request : pc'[r] \in Entered <=> pc[r] \in Entered
  <2>1. Holders(w)' = Holders(w)
    BY <1>1, <1>2 DEF Holders
  <2> QED BY <1>1, <1>2, <2>1
<1>3. ASSUME NEW r \in Request, Acquire(r)
      PROVE  IsFiniteSet(Holders(w)') /\ depth'[w] = Cardinality(Holders(w)')
  <2>1. CASE pc'[r] = "recheck" /\ at[r] = w
    <3>1. depth'[w] = depth[w] + 1 /\ pc' = [pc EXCEPT ![r] = "recheck"]
      BY <1>1, <1>3, <2>1 DEF Acquire, PcTo
    <3>2. Holders(w)' = Holders(w) \cup {r} /\ r \notin Holders(w)
      BY <1>1, <1>3, <2>1, <3>1 DEF Holders, Acquire, Entered, Locked
    <3> QED BY <1>1, <3>1, <3>2, FS_AddElement
  <2>2. CASE pc'[r] # "recheck" \/ at[r] # w
    <3>1. depth'[w] = depth[w]
      BY <1>1, <1>3, <2>2 DEF Acquire, PcTo, exclusion
    <3>2. Holders(w)' = Holders(w)
      BY <1>1, <1>3, <2>2 DEF Holders, Acquire, PcTo, Entered, Locked
    <3> QED BY <1>1, <3>1, <3>2
  <2> QED BY <2>1, <2>2
<1>4. ASSUME NEW r \in Request, Release(r)
      PROVE  IsFiniteSet(Holders(w)') /\ depth'[w] = Cardinality(Holders(w)')
  <2>1. CASE at[r] = w
    <3>1. depth'[w] = depth[w] - 1
      BY <1>1, <1>4, <2>1 DEF Release
    <3>2. Holders(w)' = Holders(w) \ {r} /\ r \in Holders(w)
      BY <1>1, <1>4, <2>1 DEF Holders, Release, PcTo, Entered, Locked
    <3> QED BY <1>1, <3>1, <3>2, FS_RemoveElement
  <2>2. CASE at[r] # w
    <3>1. depth'[w] = depth[w]
      BY <1>1, <1>4, <2>2 DEF Release
    <3>2. Holders(w)' = Holders(w)
      BY <1>1, <1>4, <2>2 DEF Holders, Release, PcTo, Entered, Locked
    <3> QED BY <1>1, <3>1, <3>2
  <2> QED BY <2>1, <2>2
<1>5. ASSUME NEW v \in Worker, Crash(v)
      PROVE  IsFiniteSet(Holders(w)') /\ depth'[w] = Cardinality(Holders(w)')
  <2>1. CASE v = w
    <3>1. Holders(w)' = {} /\ depth'[w] = 0
      BY <1>1, <1>5, <2>1 DEF Holders, Crash, Here, Entered, Locked
    <3> QED BY <3>1, FS_EmptySet
  <2>2. CASE v # w
    <3>1. Holders(w)' = Holders(w) /\ depth'[w] = depth[w]
      BY <1>1, <1>5, <2>2 DEF Holders, Crash, Here, Entered, Locked
    <3> QED BY <1>1, <3>1
  <2> QED BY <2>1, <2>2
<1> QED BY <1>2, <1>3, <1>4, <1>5, Enters

\* Dispatch, the invocation and its job keep in step.
LEMMA PairedStep == Inv /\ [Next]_vars => Paired'
<1> SUFFICES ASSUME Inv, [Next]_vars PROVE Paired'
  OBVIOUS
<1> USE DEF Paired, PcTo, PipeTo, exclusion, invocation, environment, RequestTypeOK, TypeOK, Inv
<1>1. ASSUME NEW r \in Request, Arrive(r) \/ Acquire(r) \/ Recheck(r) \/ Mark(r) PROVE Paired'
  BY <1>1 DEF Arrive, Acquire, Recheck, Mark
<1>2. ASSUME NEW r \in Request, Return(r) \/ Clean(r) \/ Release(r) PROVE Paired'
  BY <1>2 DEF Return, Clean, Release
<1>3. ASSUME NEW r \in Request, Setup(r) \/ Invoke(r) \/ Join(r) PROVE Paired'
  BY <1>3 DEF Setup, Invoke, Join
<1>4. ASSUME NEW r \in Request, Prepare(r) \/ RunProcess(r) \/ Upload(r) \/ Record(r)
      PROVE  Paired'
  BY <1>4 DEF Prepare, RunProcess, Upload, Record, Failing
<1>5. ASSUME NEW r \in Request, Background(r) \/ JobEnds(r) PROVE Paired'
  BY <1>5 DEF Background, JobEnds
<1>6. ASSUME NEW r \in Request, StopJob(r) PROVE Paired'
  BY <1>6 DEF StopJob
<1>7. CASE OrderEnds \/ \E w \in Worker, target \in Request \cup {"force"} : Order(target, w)
  BY <1>7 DEF OrderEnds, Order
<1>8. ASSUME NEW w \in Worker, Crash(w) PROVE Paired'
  BY <1>8 DEF Crash, Here
<1>9. ASSUME NEW w \in Worker, Restart(w) PROVE Paired'
  BY <1>9 DEF Restart
<1>10. CASE UNCHANGED vars
  BY <1>10 DEF vars
<1> QED
  BY <1>1, <1>2, <1>3, <1>4, <1>5, <1>6, <1>7, <1>8, <1>9, <1>10
     DEF Next, RequestStep, Dispatch, Curate, TerminationStep

-----------------------------------------------------------------------------
\* Only the second look under the lock lets a request go to work, and a request
\* that goes on from there has made its marker.
LEMMA WorkBegins ==
  ASSUME Inv, [Next]_vars, NEW q \in Request, AtWork(q)'
  PROVE  /\ AtWork(q) \/ (pc[q] = "recheck" /\ ~marker /\ pc'[q] = "marking" /\ UNCHANGED marker)
         /\ pc[q] = "marking" /\ pc'[q] # "marking" => marker'
<1> USE DEF AtWork, PcTo, PipeTo, exclusion, invocation, environment, RequestTypeOK, TypeOK, Inv,
            Paired
<1> DEFINE Goal ==
      /\ AtWork(q) \/ (pc[q] = "recheck" /\ ~marker /\ pc'[q] = "marking" /\ UNCHANGED marker)
      /\ pc[q] = "marking" /\ pc'[q] # "marking" => marker'
<1>1. ASSUME NEW r \in Request, Arrive(r) \/ Acquire(r) \/ Recheck(r) \/ Mark(r) PROVE Goal
  BY <1>1 DEF Arrive, Acquire, Recheck, Mark
<1>2. ASSUME NEW r \in Request, Return(r) \/ Clean(r) \/ Release(r) PROVE Goal
  BY <1>2 DEF Return, Clean, Release
<1>3. ASSUME NEW r \in Request, Setup(r) \/ Invoke(r) \/ Join(r) PROVE Goal
  BY <1>3 DEF Setup, Invoke, Join
<1>4. ASSUME NEW r \in Request, Prepare(r) \/ RunProcess(r) \/ Upload(r) \/ Record(r) PROVE Goal
  BY <1>4 DEF Prepare, RunProcess, Upload, Record, Failing
<1>5. ASSUME NEW r \in Request, Background(r) \/ JobEnds(r) PROVE Goal
  BY <1>5 DEF Background, JobEnds
<1>6. ASSUME NEW r \in Request, StopJob(r) PROVE Goal
  BY <1>6 DEF StopJob
<1>7. CASE OrderEnds \/ \E w \in Worker, target \in Request \cup {"force"} : Order(target, w)
  BY <1>7 DEF OrderEnds, Order
<1>8. ASSUME NEW w \in Worker, Crash(w) PROVE Goal
  BY <1>8 DEF Crash, Here
<1>9. ASSUME NEW w \in Worker, Restart(w) PROVE Goal
  BY <1>9 DEF Restart
<1>10. CASE UNCHANGED vars
  BY <1>10 DEF vars
<1> QED
  BY <1>1, <1>2, <1>3, <1>4, <1>5, <1>6, <1>7, <1>8, <1>9, <1>10
     DEF Next, RequestStep, Dispatch, Curate, TerminationStep

\* What has been undone stays undone; without it, a marker goes when nobody is
\* at work, and the lock is given up by the request that held it.
LEMMA Undone ==
  ASSUME Inv, [Next]_vars, breach' = {}
  PROVE  /\ breach = {}
         /\ marker /\ ~marker' => \A q \in Request : ~AtWork(q)
         /\ \/ UNCHANGED lock
            \/ \E r \in Request : /\ Acquire(r) /\ lock = "free" /\ lock' = at[r]
            \/ \E r \in Request : /\ pc[r] \in Entered /\ lock = at[r]
                                  /\ pc' = [pc EXCEPT ![r] = "release"]
            \/ \E r \in Request : Release(r) /\ lock = at[r]
            \/ \E w \in Worker : Crash(w) /\ lock = w
<1> DEFINE Marked == marker /\ ~marker' => \A q \in Request : ~AtWork(q)
<1> USE DEF PcTo, PipeTo, exclusion, invocation, environment
<1>1. ASSUME NEW r \in Request,
             \/ Arrive(r) \/ Recheck(r) \/ Mark(r) \/ Return(r) \/ Release(r)
             \/ Setup(r) \/ Invoke(r) \/ Join(r)
      PROVE  breach = {} /\ Marked /\ (UNCHANGED lock \/ (Release(r) /\ lock = at[r]))
  BY <1>1 DEF Arrive, Recheck, Mark, Return, Release, Setup, Invoke, Join
<1>2. ASSUME NEW r \in Request,
             \/ Prepare(r) \/ RunProcess(r) \/ Upload(r) \/ Record(r)
             \/ JobEnds(r) \/ StopJob(r)
      PROVE  breach = {} /\ Marked /\ UNCHANGED lock
  BY <1>2 DEF Prepare, RunProcess, Upload, Record, JobEnds, StopJob
<1>3. ASSUME NEW r \in Request, Acquire(r)
      PROVE  breach = {} /\ Marked /\ (UNCHANGED lock \/ (lock = "free" /\ lock' = at[r]))
  BY <1>3 DEF Acquire
<1>4. ASSUME NEW r \in Request, Clean(r)
      PROVE  /\ breach = {} /\ Marked
             /\ \/ UNCHANGED lock
                \/ pc[r] \in Entered /\ lock = at[r] /\ pc' = [pc EXCEPT ![r] = "release"]
  <2>1. CASE pc[r] = "clean"
    <3>1. RemoveMarker({r}) /\ ~AtWork(r)
      BY <1>4, <2>1 DEF Clean, AtWork, Inv, Paired
    <3> QED BY <3>1 DEF RemoveMarker
  <2>2. CASE pc[r] = "unlink" /\ RemoveLock(at[r]) /\ PcTo(r, "release")
    BY <2>2 DEF RemoveLock, Entered, Locked
  <2> QED BY <1>4, <2>1, <2>2 DEF Clean
<1>5. ASSUME NEW r \in Request, Background(r) PROVE breach = {} /\ Marked /\ UNCHANGED lock
  <2>1. CASE pipe[r] = "clean"
    <3>1. RemoveMarker({r}) /\ ~AtWork(r)
      BY <1>5, <2>1 DEF Background, AtWork, Inv, Paired
    <3> QED BY <3>1 DEF RemoveMarker
  <2>2. CASE RemoveLock("free")
    BY <2>2 DEF RemoveLock
  <2> QED BY <1>5, <2>1, <2>2 DEF Background
<1>6. CASE OrderEnds \/ \E w \in Worker, target \in Request \cup {"force"} : Order(target, w)
  BY <1>6 DEF OrderEnds, Order
<1>7. ASSUME NEW w \in Worker, Crash(w)
      PROVE  breach = {} /\ Marked /\ (UNCHANGED lock \/ lock = w)
  BY <1>7 DEF Crash
<1>8. ASSUME NEW w \in Worker, Restart(w) PROVE breach = {} /\ Marked /\ UNCHANGED lock
  <2>1. CASE RemoveMarker({})
    BY <2>1 DEF RemoveMarker
  <2>2. CASE RemoveLock("free")
    BY <2>2 DEF RemoveLock
  <2> QED BY <1>8, <2>1, <2>2 DEF Restart
<1>9. CASE UNCHANGED vars
  BY <1>9 DEF vars
<1> QED
  BY <1>1, <1>2, <1>3, <1>4, <1>5, <1>6, <1>7, <1>8, <1>9
     DEF Next, RequestStep, Dispatch, Curate, TerminationStep

\* A request comes to hold the lock by acquiring it.
LEMMA LockedBefore ==
  ASSUME Inv, [Next]_vars, NEW q \in Request, pc'[q] \in Locked
  PROVE  pc[q] \in Locked \/ (Acquire(q) /\ pc'[q] = "recheck")
<1> DEFINE Goal == pc[q] \in Locked \/ (Acquire(q) /\ pc'[q] = "recheck")
<1> USE DEF PcTo, PipeTo, exclusion, invocation, environment, Inv, TypeOK, RequestTypeOK, Locked
<1>1. ASSUME NEW r \in Request,
             \/ Arrive(r) \/ Recheck(r) \/ Mark(r) \/ Return(r) \/ Clean(r) \/ Release(r)
      PROVE  Goal
  BY <1>1 DEF Arrive, Recheck, Mark, Return, Clean, Release
<1>2. ASSUME NEW r \in Request, Acquire(r) PROVE Goal
  BY <1>2 DEF Acquire
<1>3. ASSUME NEW r \in Request, Setup(r) \/ Invoke(r) \/ Join(r) PROVE Goal
  BY <1>3 DEF Setup, Invoke, Join
<1>4. ASSUME NEW r \in Request,
             \/ Prepare(r) \/ RunProcess(r) \/ Upload(r) \/ Record(r) \/ Background(r)
             \/ JobEnds(r) \/ StopJob(r)
      PROVE  Goal
  BY <1>4 DEF Prepare, RunProcess, Upload, Record, Background, JobEnds, StopJob
<1>5. CASE OrderEnds \/ \E w \in Worker, target \in Request \cup {"force"} : Order(target, w)
  BY <1>5 DEF OrderEnds, Order
<1>6. ASSUME NEW w \in Worker, Crash(w) \/ Restart(w) PROVE Goal
  BY <1>6 DEF Crash, Restart
<1>7. CASE UNCHANGED vars
  BY <1>7 DEF vars
<1> QED
  BY <1>1, <1>2, <1>3, <1>4, <1>5, <1>6, <1>7
     DEF Next, RequestStep, Dispatch, Curate, TerminationStep

\* Exclusion is kept unless it is undone.
LEMMA AloneStep == Inv /\ [Next]_vars => Alone'
<1> SUFFICES ASSUME Inv, [Next]_vars, breach' = {} PROVE Alone'
  BY DEF Alone
<1>1. /\ breach = {} /\ UNCHANGED at
      /\ \A q, r \in Request : pc[q] \in Entered /\ pc[r] \in Entered /\ at[q] = at[r] => q = r
      /\ \A r \in Request : pc[r] \in Locked => lock = at[r]
      /\ \A r \in Request : AtWork(r) /\ pc[r] # "marking" => marker
      /\ \A q, r \in Request : AtWork(q) /\ AtWork(r) => q = r
  BY Undone, Enters DEF Inv, Alone
<1>2. /\ pc \in [Request -> {"new", "acquire", "recheck", "marking", "marked", "body",
                          "run", "returned", "answered", "clean", "unlink",
                          "release", "closed", "dead"}]
      /\ at \in [Request -> Worker]
  BY DEF Inv, TypeOK, RequestTypeOK
<1>3. \A q, r \in Request : pc'[q] \in Entered /\ pc'[r] \in Entered /\ at'[q] = at'[r] => q = r
  <2>1. ASSUME NEW s \in Request, Acquire(s), NEW q \in Request, q # s, pc'[q] \in Entered,
               pc'[s] \in Entered
        PROVE  at[q] # at[s]
    <3>1. depth[at[s]] = 0
      BY <1>1, <1>2, <2>1 DEF Acquire, PcTo, Entered, Locked, Inv, TypeOK, ExclusionTypeOK
    <3>2. Holders(at[s]) = {}
      BY <1>2, <3>1, FS_EmptySet DEF Inv, Counted
    <3>3. pc[q] \in Entered
      BY <1>2, <2>1 DEF Acquire, PcTo
    <3> QED BY <3>2, <3>3 DEF Holders
  <2>2. ASSUME NEW s \in Request, Acquire(s), NEW q \in Request, q # s, pc'[q] \in Entered
        PROVE  pc[q] \in Entered
    BY <1>2, <2>2 DEF Acquire, PcTo
  <2>3. ASSUME NEW s \in Request, Release(s), NEW q \in Request, pc'[q] \in Entered
        PROVE  pc[q] \in Entered
    BY <1>2, <2>3 DEF Release, PcTo, Entered, Locked
  <2>4. ASSUME NEW w \in Worker, Crash(w), NEW q \in Request, pc'[q] \in Entered
        PROVE  pc[q] \in Entered
    BY <1>2, <2>4 DEF Crash, Entered, Locked
  <2> QED BY <1>1, <2>1, <2>2, <2>3, <2>4, Enters
<1>4. \A r \in Request : pc'[r] \in Locked => lock' = at'[r]
  <2>1. ASSUME NEW r \in Request, pc'[r] \in Locked
        PROVE  pc[r] \in Locked \/ (Acquire(r) /\ pc'[r] = "recheck")
    BY <1>2, <2>1, LockedBefore
  <2>2. ASSUME NEW r \in Request, Acquire(r), pc'[r] = "recheck" PROVE lock' = at'[r]
    <3>1. depth[at[r]] \in Nat /\ ~(depth[at[r]] > 0)
      BY <1>1, <1>2, <2>2 DEF Acquire, PcTo, Inv, TypeOK, ExclusionTypeOK
    <3> QED BY <1>1, <1>2, <2>2, <3>1 DEF Acquire, PcTo
  <2>3. ASSUME NEW r \in Request, pc'[r] \in Locked, pc[r] \in Locked PROVE lock' = at'[r]
    <3>1. lock = at[r] /\ lock # "free" /\ pc[r] \in Entered
      BY <1>1, <1>2, <2>3, ServiceAssumption DEF Entered
    <3>2. ASSUME NEW s \in Request, pc[s] \in Entered, lock = at[s],
                 pc' = [pc EXCEPT ![s] = "release"]
          PROVE  FALSE
      BY <1>1, <1>2, <2>3, <3>1, <3>2 DEF Locked
    <3>3. ASSUME NEW s \in Request, Release(s), lock = at[s] PROVE FALSE
      BY <1>1, <1>2, <2>3, <3>1, <3>3 DEF Release, PcTo, Entered, Locked
    <3>4. ASSUME NEW w \in Worker, Crash(w), lock = w PROVE FALSE
      BY <1>2, <2>3, <3>1, <3>4 DEF Crash, Here, Locked
    <3> QED BY <1>1, <3>1, <3>2, <3>3, <3>4, Undone
  <2> QED BY <2>1, <2>2, <2>3
<1>5. \A r \in Request : AtWork(r)' /\ pc'[r] # "marking" => marker'
  BY <1>1, WorkBegins, Undone
<1>6. \A q, r \in Request : AtWork(q)' /\ AtWork(r)' => q = r
  <2>1. ASSUME NEW q \in Request, pc[q] = "recheck", ~marker, NEW r \in Request, AtWork(r)
        PROVE  q = r
    <3>1. pc[r] = "marking" /\ lock = at[q] /\ lock = at[r]
      BY <1>1, <2>1 DEF Locked
    <3> QED BY <1>1, <2>1, <3>1 DEF Entered, Locked
  <2>2. ASSUME NEW q \in Request, pc[q] = "recheck", NEW r \in Request, pc[r] = "recheck"
        PROVE  q = r
    BY <1>1, <2>2 DEF Entered, Locked
  <2> QED BY <1>1, <2>1, <2>2, WorkBegins
<1> QED BY <1>3, <1>4, <1>5, <1>6 DEF Alone

-----------------------------------------------------------------------------
(***************************************************************************)
(* Verdicts.                                                               *)
(***************************************************************************)
\* A live progress thread finds its request running, or terminated.
LEMMA LiveRuns ==
  ASSUME Inv, NEW r \in Request, thread[r] = "live", "failed" \notin files[r]
  PROVE  Status(r) = "running"
<1>1. "progress" \in files[r] /\ "done" \notin files[r] /\ files[r] \subseteq {"progress", "done", "failed"}
  BY DEF Inv, Judging, TypeOK, RequestTypeOK
<1>2. files[r] = {"progress"}
  BY <1>1
<1> QED BY <1>2 DEF Status

\* What a step of the progress thread does.
LEMMA Records ==
  ASSUME Inv, NEW r \in Request, Record(r)
  PROVE  \/ UNCHANGED files
         \/ /\ pipe[r] = "settle" /\ "failed" \notin files[r]
            /\ files' = [files EXCEPT ![r] = @ \cup {IF ipc[r] THEN "done" ELSE "failed"}]
<1>1. files \in [Request -> SUBSET {"progress", "done", "failed"}]
  BY DEF Inv, TypeOK, RequestTypeOK
<1>2. CASE "failed" \in files[r]
  <2>1. files' = [files EXCEPT ![r] = files[r]]
    BY <1>2 DEF Record
  <2> QED BY <1>1, <2>1
<1>3. CASE "failed" \notin files[r]
  <2>1. thread[r] = "live" /\ (pipe[r] = "settle" \/ Status(r) # "running")
    BY DEF Record
  <2> QED BY <1>3, <2>1, LiveRuns DEF Record
<1> QED BY <1>2, <1>3

LEMMA VerdictStep == Inv /\ [Next]_vars => Ordered' /\ Judging' /\ HonestVerdict'
<1> SUFFICES ASSUME Inv, [Next]_vars PROVE Ordered' /\ Judging' /\ HonestVerdict'
  OBVIOUS
<1> DEFINE Goal == Ordered' /\ Judging' /\ HonestVerdict'
<1> USE DEF PcTo, PipeTo, exclusion, invocation, environment, Inv, TypeOK, RequestTypeOK, Paired,
            Ordered, Judging, HonestVerdict
<1>1. ASSUME NEW r \in Request, Arrive(r) \/ Acquire(r) \/ Recheck(r) \/ Mark(r) PROVE Goal
  BY <1>1 DEF Arrive, Acquire, Recheck, Mark
<1>2. ASSUME NEW r \in Request, Return(r) \/ Clean(r) \/ Release(r) PROVE Goal
  BY <1>2 DEF Return, Clean, Release
<1>3. ASSUME NEW r \in Request, Setup(r) PROVE Goal
  BY <1>3 DEF Setup
<1>4. ASSUME NEW r \in Request, Invoke(r) \/ Join(r) PROVE Goal
  BY <1>4 DEF Invoke, Join
<1>5. ASSUME NEW r \in Request, Prepare(r) \/ RunProcess(r) PROVE Goal
  BY <1>5 DEF Prepare, RunProcess, Failing
<1>6. ASSUME NEW r \in Request, Upload(r) PROVE Goal
  BY <1>6 DEF Upload, Failing
<1>7. ASSUME NEW r \in Request, Record(r) PROVE Goal
  <2>1. /\ thread[r] = "live" /\ thread' = [thread EXCEPT ![r] = "gone"]
        /\ UNCHANGED <<pc, pipe, job, ipc, uploaded, term>>
    BY <1>7 DEF Record
  <2>2. CASE UNCHANGED files
    <3>1. Ordered' /\ HonestVerdict'
      BY <2>1, <2>2
    <3>2. Judging'
      BY <2>1, <2>2
    <3> QED BY <3>1, <3>2
  <2>3. CASE /\ pipe[r] = "settle" /\ "failed" \notin files[r]
             /\ files' = [files EXCEPT ![r] = @ \cup {IF ipc[r] THEN "done" ELSE "failed"}]
    <3>1. /\ \A q \in Request : q # r => files'[q] = files[q] /\ thread'[q] = thread[q]
          /\ thread'[r] = "gone"
          /\ "done" \in files'[r] => "done" \in files[r] \/ ipc[r]
          /\ "failed" \in files'[r] => ~ipc[r]
      BY <2>1, <2>3
    <3>2. Judging'
      BY <2>1, <2>3, <3>1
    <3>3. HonestVerdict'
      BY <2>1, <2>3, <3>1
    <3>4. Ordered'
      BY <2>1, <2>3
    <3> QED BY <3>2, <3>3, <3>4
  <2> QED BY <1>7, <2>2, <2>3, Records
<1>8. ASSUME NEW r \in Request, Background(r) \/ JobEnds(r) PROVE Goal
  BY <1>8 DEF Background, JobEnds
<1>9. ASSUME NEW r \in Request, StopJob(r) PROVE Goal
  <2>1. /\ term'.pc = term.pc /\ term'.target = term.target /\ (term.hit => term'.hit)
        /\ term.pc = "stopping"
    <3>1. CASE term' = [term EXCEPT !.jobs = @ \ {r}]
      BY <1>9, <3>1 DEF StopJob, TermTypeOK
    <3>2. CASE term' = [term EXCEPT !.jobs = @ \ {r}, !.hit = TRUE]
      <4>1. term'.pc = term.pc /\ term'.target = term.target /\ term'.hit
        BY <3>2 DEF TermTypeOK
      <4> QED BY <1>9, <4>1 DEF StopJob
    <3> QED BY <1>9, <3>1, <3>2 DEF StopJob
  <2>2. /\ \A q \in Request : job[q] = "none" => job'[q] = "none"
        /\ UNCHANGED <<pc, pipe, ipc, thread, files, uploaded>>
    BY <1>9 DEF StopJob
  <2>3. Ordered'
    BY <2>1, <2>2
  <2>4. HonestVerdict'
    BY <2>1, <2>2
  <2>5. ASSUME NEW q \in Request, pipe[q] = "settle" PROVE job'[q] = "none" \/ job[q] # "none"
    BY <2>2
  <2>6. Judging'
    BY <2>1, <2>2, <2>5
  <2> QED BY <2>3, <2>4, <2>6
<1>10. CASE OrderEnds
  BY <1>10 DEF OrderEnds, TermTypeOK
<1>11. ASSUME NEW w \in Worker, NEW target \in Request \cup {"force"}, Order(target, w) PROVE Goal
  <2>1. target \in Request => "progress" \in files[target]
    BY <1>11 DEF Order, Status
  <2> QED BY <1>11, <2>1 DEF Order, TermTypeOK
<1>12. ASSUME NEW w \in Worker, Crash(w) PROVE Goal
  BY <1>12 DEF Crash, Here, TermTypeOK
<1>13. ASSUME NEW w \in Worker, Restart(w) PROVE Goal
  BY <1>13 DEF Restart
<1>14. CASE UNCHANGED vars
  BY <1>14 DEF vars
<1> QED
  BY <1>1, <1>2, <1>3, <1>4, <1>5, <1>6, <1>7, <1>8, <1>9, <1>10, <1>11, <1>12, <1>13, <1>14
     DEF Next, RequestStep, Dispatch, Curate, TerminationStep

-----------------------------------------------------------------------------
LEMMA InitInv == Init => Inv
<1> SUFFICES ASSUME Init PROVE Inv
  OBVIOUS
<1>1. TypeOK
  <2>1. (CHOOSE w \in Worker : TRUE) \in Worker
    BY ServiceAssumption
  <2>2. TermTypeOK
    BY <2>1 DEF Init, TermTypeOK
  <2>3. RequestTypeOK
    <3>1. at \in [Request -> Worker]
      BY ServiceAssumption DEF Init
    <3>2. files \in [Request -> SUBSET {"progress", "done", "failed"}]
      BY DEF Init
    <3> QED BY <3>1, <3>2 DEF Init, RequestTypeOK
  <2>4. ExclusionTypeOK
    <3>1. faults \in 0..Faults /\ breach \subseteq Breach
      BY ServiceAssumption DEF Init
    <3>2. loop \in [Worker -> Request \cup {"idle", "term"}] /\ depth \in [Worker -> Nat]
      BY DEF Init
    <3> QED BY <3>1, <3>2 DEF Init, ExclusionTypeOK
  <2> QED BY <2>2, <2>3, <2>4 DEF TypeOK
<1>2. Counted
  <2>1. ASSUME NEW w \in Worker PROVE Holders(w) = {} /\ depth[w] = 0
    BY DEF Init, Holders, Entered, Locked
  <2> QED BY <2>1, FS_EmptySet DEF Counted
<1>3. Paired /\ Alone
  BY DEF Init, Paired, Alone, AtWork, Entered, Locked
<1>4. Ordered /\ Judging /\ HonestVerdict
  BY ServiceAssumption DEF Init, Ordered, Judging, HonestVerdict
<1> QED BY <1>1, <1>2, <1>3, <1>4 DEF Inv

THEOREM Invariant == Spec => []Inv
<1>1. Inv /\ [Next]_vars => Inv'
  BY ExclusionTypeStep, RequestTypeStep, TermTypeStep, CountedStep, PairedStep, AloneStep, VerdictStep
     DEF Inv, TypeOK
<1> QED BY <1>1, InitInv, PTL DEF Spec

(***************************************************************************)
(* Every variable keeps its type; the depth of a lock never goes below     *)
(* zero (FileLock.release).                                                *)
(***************************************************************************)
THEOREM TypeCorrect == Spec => []TypeOK
<1>1. Inv => TypeOK
  BY DEF Inv
<1> QED BY <1>1, Invariant, PTL

(***************************************************************************)
(* Two pipelines only run at a time after a marker or lock file was removed*)
(* on behalf of somebody else, or a process entered its own lock twice     *)
(* (PipelineLockMiddleware).                                               *)
(***************************************************************************)
THEOREM Exclusive == Spec => []OnePipeline
<1>1. Inv => OnePipeline
  BY DEF Inv, Alone, OnePipeline, Active, AtWork
<1> QED BY <1>1, Invariant, PTL

(***************************************************************************)
(* A request whose job ran is only reported done with its outputs uploaded,*)
(* and one whose outputs were uploaded is only reported failed when it was *)
(* terminated (update_progress, _terminate_last_job).                      *)
(***************************************************************************)
THEOREM Honest == Spec => []HonestVerdict
<1>1. Inv => HonestVerdict
  BY DEF Inv
<1> QED BY <1>1, Invariant, PTL

(***************************************************************************)
(* A verdict is final, but for a termination that overtakes a success      *)
(* (_get_request_status).                                                  *)
(***************************************************************************)
THEOREM Final == Spec => VerdictStays
<1> DEFINE Stays == \A r \in Request :
       /\ "failed" \in files[r] => files'[r] = files[r]
       /\ "done" \in files[r] /\ "failed" \in files'[r] =>
            "failed" \in files[r] \/ (term.target = r /\ term.hit)
<1>1. Inv /\ [Next]_vars => [Stays]_vars
  <2> SUFFICES ASSUME Inv, Next PROVE Stays
    OBVIOUS
  <2> USE DEF exclusion, invocation, environment
  <2>1. files \in [Request -> SUBSET {"progress", "done", "failed"}]
    BY DEF Inv, TypeOK, RequestTypeOK
  <2>2. CASE UNCHANGED files
    BY <2>2
  <2>3. ASSUME NEW r \in Request, Arrive(r) \/ Dispatch(r) \/ JobEnds(r) \/ StopJob(r)
        PROVE  UNCHANGED files
    BY <2>3 DEF Arrive, Dispatch, Acquire, Recheck, Mark, Return, Clean, Release, JobEnds, StopJob
  <2>4. ASSUME NEW r \in Request,
               Invoke(r) \/ Prepare(r) \/ RunProcess(r) \/ Upload(r) \/ Join(r) \/ Background(r)
        PROVE  UNCHANGED files
    BY <2>4 DEF Invoke, Prepare, RunProcess, Upload, Join, Background
  <2>5. ASSUME NEW r \in Request, Setup(r) PROVE Stays
    <3>1. files[r] = {}
      BY <2>5 DEF Setup, Inv, Judging
    <3> QED BY <2>1, <2>5, <3>1 DEF Setup
  <2>6. ASSUME NEW r \in Request, Record(r) PROVE Stays
    <3>1. CASE /\ pipe[r] = "settle" /\ "failed" \notin files[r]
               /\ files' = [files EXCEPT ![r] = @ \cup {IF ipc[r] THEN "done" ELSE "failed"}]
      <4>1. "done" \notin files[r]
        BY <2>6 DEF Record, Inv, Judging
      <4> QED BY <2>1, <3>1, <4>1
    <3> QED BY <2>2, <2>6, <3>1, Records
  <2>7. CASE OrderEnds
    BY <2>1, <2>7 DEF OrderEnds
  <2>8. ASSUME NEW w \in Worker, NEW target \in Request \cup {"force"}, Order(target, w)
        PROVE  UNCHANGED files
    BY <2>8 DEF Order
  <2>9. ASSUME NEW w \in Worker, Crash(w) \/ Restart(w) PROVE UNCHANGED files
    BY <2>9 DEF Crash, Restart
  <2> QED
    BY <2>2, <2>3, <2>4, <2>5, <2>6, <2>7, <2>8, <2>9
       DEF Next, RequestStep, Curate, TerminationStep
<1> QED BY <1>1, Invariant, PTL DEF Spec, VerdictStays
=============================================================================
