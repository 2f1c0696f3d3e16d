--------------------------- MODULE ArtifactDelivery ---------------------------
(***************************************************************************)
(* ArtifactDelivery (cosmos_curator.core.utils.artifacts.delivery) and     *)
(* shutdown_cluster (core.utils.infra.ray_cluster_utils): every kind of    *)
(* artifact is staged on all nodes and delivered once, by a pre-shutdown   *)
(* hook or an explicit call, through RayFileTransport to a local directory *)
(* or by an uploader on each node to remote storage.  Hooks run in LIFO    *)
(* order, those that flush the driver's own artifacts (profiling_scope)    *)
(* are registered last, and the cluster is left when all have run.         *)
(***************************************************************************)
EXTENDS FileTransport

CONSTANTS
  Driver,     \* the driver's node
  Flushed,    \* the files that the flush hook stages
  Order,      \* the kinds in the order their deliveries were created
  Modes,      \* the deliveries' settings: [strict, remote : BOOLEAN]
  Calls       \* bound on explicit calls of collect

ASSUME DeliveryAssumption ==
  /\ Driver \in Node /\ Flushed \subseteq {f \in File : Home[f] = Driver}
  /\ Order \in Seq(Kind) /\ \A k \in Kind : \E j \in 1..Len(Order) : Order[j] = k
  /\ Modes \subseteq [strict : BOOLEAN, remote : BOOLEAN]
  /\ Calls \in Nat /\ "flush" \notin Kind

VARIABLES
  pc,         \* "pipeline", "hooks" or, when the driver has left Ray, "down"
  hooks,      \* _pre_shutdown_hooks
  mode,       \* strict and remote, for all deliveries
  collected,  \* the kinds with _collected set
  raised,     \* the kinds a call of collect raised an error for
  unsent,     \* files that could not be uploaded
  loose,      \* files of uploaders being killed, which may still write them
  lost,       \* history: the nodes and kinds delivered with a failure of the node
  calls,      \* explicit calls so far
  early       \* kinds for which an explicit call came before the flush

delivery == <<pc, hooks, mode, collected, raised, unsent, loose, lost, calls, early>>
vars == <<transportVars, delivery>>

TypeOK ==
  /\ TransportTypeOK
  /\ pc \in {"pipeline", "hooks", "down"} /\ mode \in Modes
  /\ hooks \in Seq(Kind \cup {"flush"}) /\ Len(hooks) <= Len(Order) + 1
  /\ collected \subseteq Kind /\ raised \subseteq Kind /\ early \subseteq Kind
  /\ unsent \subseteq File /\ loose \subseteq File /\ lost \subseteq Node \X Kind
  /\ calls \in 0..Calls

Init ==
  /\ staged = File \ Flushed /\ length = Length /\ torn = {}
  /\ out = [f \in File |-> Nothing]
  /\ life = [n \in Node |-> "up"] /\ kind = "none" /\ step = "idle" /\ at = "none"
  /\ reader = [n \in Node |-> Idle] /\ stream = [n \in Node |-> <<>>]
  /\ handle = [n \in Node |-> "none"] /\ pending = {}
  /\ verdict = [n \in Node |-> "none"] /\ faults = 0
  /\ pc = "pipeline" /\ hooks = Order \o <<"flush">> /\ mode \in Modes
  /\ collected = {} /\ raised = {} /\ unsent = {} /\ calls = 0 /\ early = {}
  /\ loose = {} /\ lost = {}

-----------------------------------------------------------------------------
(***************************************************************************)
(* collect().                                                              *)
(***************************************************************************)
\* New actors are deployed on the nodes that are live.
Deploy(k) ==
  /\ kind' = k /\ step' = IF mode.remote THEN "upload" ELSE "seed"
  /\ life' = [n \in Node |-> IF life[n] = "gone" THEN "gone" ELSE "up"]
  /\ verdict' = [n \in Node |-> IF life[n] = "gone" THEN "absent" ELSE "none"]
  /\ pending' = IF mode.remote THEN {n \in Node : life[n] # "gone"} ELSE {}
  /\ reader' = [n \in Node |-> [Idle EXCEPT !.todo = StagedOn(n, k)]]
  /\ UNCHANGED <<staged, length, torn, stream, at, handle, out, faults, collected, lost>>
  /\ unsent' = unsent \ {f \in File : Of[f] = k}

\* A lenient error after which the kind counts as delivered.
UndeployedCleans(k) ==
  /\ Fault /\ raised' = IF mode.strict THEN raised \cup {k} ELSE raised
  /\ collected' = IF mode.strict THEN collected ELSE collected \cup {k}
  /\ staged' = IF mode.strict THEN staged ELSE staged \ StagedOn(Driver, k)
  /\ UNCHANGED <<length, torn, node, driver, out, life, kind, unsent, lost>>

\* An error before anything was deployed, such as no answer from Ray.
Undeployed(k) ==
  /\ Fault /\ raised' = IF mode.strict THEN raised \cup {k} ELSE raised
  /\ UNCHANGED <<disk, node, driver, out, life, kind, collected, unsent, lost>>

\* Collecting a kind again although it was collected.
CollectAgain(k) ==
  \/ Deploy(k) /\ UNCHANGED raised
  \/ Undeployed(k)

Collect(k) ==
  \/ k \notin collected /\ Deploy(k) /\ UNCHANGED raised
  \/ k \notin collected /\ Undeployed(k)
  \/ k \in collected /\ UNCHANGED <<transportVars, collected, raised, unsent, lost>>

\* The end of a collection: an error, or _collected set and the driver's staging
\* directory of the kind removed.
Abandon ==
  /\ raised' = raised \cup {kind} /\ UNCHANGED <<staged, collected, lost>>

Deliver ==
  /\ collected' = collected \cup {kind}
  /\ lost' = lost \cup {<<n, kind>> : n \in {m \in Node : verdict[m] = "failed"}}
  /\ staged' = staged \ StagedOn(Driver, kind)
  /\ UNCHANGED raised

Leave == kind' = "none" /\ step' = "idle"

Lossy == \E n \in Node : verdict[n] = "failed"

\* _collect_local, after the transport.
CollectLocal ==
  /\ kind # "none" /\ step = "over" /\ Leave
  /\ IF mode.strict /\ Lossy THEN Abandon ELSE Deliver
  /\ UNCHANGED <<length, torn, node, at, handle, pending, verdict, out, life, faults>>
  /\ UNCHANGED <<pc, hooks, mode, unsent, loose, calls, early>>

-----------------------------------------------------------------------------
(***************************************************************************)
(* _collect_remote and _NodeUploader.upload.                               *)
(***************************************************************************)
\* One file is uploaded, or fails to be.
UploadFile(n, f) ==
  /\ step = "upload" /\ n \in pending /\ life[n] \in {"up", "cut"} /\ f \in reader[n].todo
  /\ reader' = [reader EXCEPT ![n].todo = @ \ {f}]
  /\ \/ /\ out' = [out EXCEPT ![f] = [from |-> 1, to |-> length[f]]]
        /\ UNCHANGED <<unsent, faults>>
     \/ Fault /\ unsent' = unsent \cup {f} /\ UNCHANGED out
  /\ UNCHANGED <<disk, stream, driver, life, kind>>
  /\ UNCHANGED <<pc, hooks, mode, collected, raised, loose, lost, calls, early>>

Broken(n) == life[n] \in {"dead", "gone"} \/ (mode.strict /\ \E f \in unsent : Home[f] = n /\ Of[f] = kind)

\* _process_upload_results: the answer of a node, or none for too long.
Answer(n) ==
  /\ step = "upload" /\ n \in pending /\ pending' = pending \ {n}
  /\ \/ reader[n].todo = {} /\ life[n] = "up" /\ ~Broken(n)
        /\ verdict' = [verdict EXCEPT ![n] = "ok"]
     \/ Broken(n) /\ verdict' = [verdict EXCEPT ![n] = "failed"]
  /\ UNCHANGED <<disk, node, out, life, kind, faults, step, at, handle, delivery>>

UploadStall ==
  /\ step = "upload" /\ pending # {} /\ pending' = {}
  /\ \A n \in pending : life[n] \in {"mute", "cut"}
  /\ verdict' = [n \in Node |-> IF n \in pending THEN "failed" ELSE verdict[n]]
  /\ UNCHANGED <<disk, node, out, life, kind, faults, step, at, handle, delivery>>

\* What uploaders that were not waited for have still to upload.
Unfinished ==
  {f \in File : \E n \in Node : f \in reader[n].todo /\ life[n] \notin {"dead", "gone"}}

\* A failure ends the collection at once in strict mode.  ray.kill is not
\* waited for.
CollectRemote ==
  /\ step = "upload" /\ Leave
  /\ \/ mode.strict /\ Lossy /\ Abandon
     \/ ~(mode.strict /\ Lossy) /\ pending = {} /\ Deliver
  /\ pending' = {} /\ reader' = [n \in Node |-> Idle]
  /\ loose' = loose \cup Unfinished
  /\ UNCHANGED <<length, torn, stream, at, handle, verdict, out, life, faults>>
  /\ UNCHANGED <<pc, hooks, mode, unsent, calls, early>>

\* An uploader that is being killed gets one more file through.
LateUpload(f) ==
  /\ f \in loose /\ life[Home[f]] # "gone" /\ loose' = loose \ {f}
  /\ out' = [out EXCEPT ![f] = [from |-> 1, to |-> length[f]]]
  /\ UNCHANGED <<disk, node, driver, life, kind, faults>>
  /\ UNCHANGED <<pc, hooks, mode, collected, raised, unsent, lost, calls, early>>

-----------------------------------------------------------------------------
(***************************************************************************)
(* The driver program and shutdown_cluster.                                *)
(***************************************************************************)
Free == kind = "none"

Call(k) ==
  /\ pc = "pipeline" /\ Free /\ calls < Calls /\ calls' = calls + 1
  /\ Collect(k) /\ early' = early \cup {k}
  /\ UNCHANGED <<pc, hooks, mode, loose>>

Shutdown ==
  /\ pc = "pipeline" /\ Free /\ pc' = "hooks"
  /\ UNCHANGED <<transportVars, hooks, mode, collected, raised, unsent, loose, lost,
                 calls, early>>

\* Running the hooks in the order of their registration.
HookFirst ==
  /\ pc = "hooks" /\ Free /\ hooks # <<>>
  /\ hooks' = Tail(hooks)
  /\ LET h == Head(hooks)
     IN \/ h \in Kind /\ Collect(h)
        \/ /\ h = "flush" /\ staged' = staged \cup Flushed
           /\ UNCHANGED <<length, torn, node, driver, out, life, kind, faults>>
           /\ UNCHANGED <<collected, raised, unsent, lost>>
  /\ UNCHANGED <<pc, mode, loose, calls, early>>

\* The hook registered last runs first; its errors are swallowed.
Hook ==
  /\ pc = "hooks" /\ Free /\ hooks # <<>>
  /\ hooks' = SubSeq(hooks, 1, Len(hooks) - 1)
  /\ LET h == hooks[Len(hooks)]
     IN \/ h \in Kind /\ Collect(h)
        \/ /\ h = "flush" /\ staged' = staged \cup Flushed
           /\ UNCHANGED <<length, torn, node, driver, out, life, kind, faults>>
           /\ UNCHANGED <<collected, raised, unsent, lost>>
  /\ UNCHANGED <<pc, mode, loose, calls, early>>

LeaveRay ==
  /\ pc = "hooks" /\ Free /\ hooks = <<>> /\ pc' = "down"
  /\ UNCHANGED <<transportVars, hooks, mode, collected, raised, unsent, loose, lost,
                 calls, early>>

-----------------------------------------------------------------------------
CollectStep ==
  \/ TransportStep /\ UNCHANGED delivery
  \/ \E n \in Node : Answer(n) \/ \E f \in File : UploadFile(n, f)
  \/ UploadStall \/ CollectLocal \/ CollectRemote

ShutdownStep == Hook \/ LeaveRay

\* A driver does not outlive the node it runs on.
Environment ==
  \/ /\ \/ \E f \in File : pc # "down" /\ Grow(f)
        \/ \E n \in Node : pc # "down" /\ Break(n) /\ life'[Driver] # "gone"
     /\ UNCHANGED delivery
  \/ \E f \in File : LateUpload(f)

Next ==
  \/ CollectStep \/ ShutdownStep \/ Shutdown \/ Environment
  \/ \E k \in Kind : Call(k)

Spec == Init /\ [][Next]_vars

\* Actors that are up go on streaming and uploading, the driver goes on, and its
\* waits time out.
Fairness ==
  /\ WF_vars(ShutdownStep) /\ WF_vars(CollectLocal \/ CollectRemote \/ UploadStall)
  /\ WF_vars((Seeded \/ Advance \/ Stall \/ Collected) /\ UNCHANGED delivery)
  /\ \A n \in Node :
       /\ WF_vars((Open(n) \/ Read(n)) /\ UNCHANGED delivery)
       /\ WF_vars((Seed(n) \/ Consume(n)) /\ UNCHANGED delivery)
       /\ WF_vars(Answer(n)) /\ WF_vars(\E f \in File : UploadFile(n, f))

FairSpec == Spec /\ Fairness
=============================================================================
