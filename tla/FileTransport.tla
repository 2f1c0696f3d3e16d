---------------------------- MODULE FileTransport ----------------------------
(***************************************************************************)
(* RayFileTransport (cosmos_curator.core.utils.artifacts.collector): one   *)
(* actor on each node streams the files of a staging directory in chunks,  *)
(* and the driver writes them below one output directory.                  *)
(*                                                                         *)
(* A chunk is a pair of positions in its file; what is at the destination  *)
(* of a file is such a pair as well.  Paths of different nodes differ, as  *)
(* they hold the host name and the process ID.  The transport is always    *)
(* called leniently (strict=False), for one kind of artifacts at a time.   *)
(***************************************************************************)
EXTENDS Naturals, Sequences, FiniteSets

CONSTANTS
  Node, File, Kind,
  Home,       \* the node each file is staged on
  Of,         \* the kind of each file
  Length,     \* how many chunks a staged file fills at first
  Window,     \* _BACKPRESSURE_OBJECTS
  Growth,     \* bound on the staged files that grow, by a chunk each
  Faults      \* bound on faults of nodes, writes and uploads

ASSUME TransportAssumption ==
  /\ Home \in [File -> Node] /\ Of \in [File -> Kind] /\ Length \in [File -> Nat \ {0}]
  /\ Window \in Nat \ {0} /\ Growth \in Nat /\ Faults \in Nat
  /\ "none" \notin File \cup Kind \cup Node

VARIABLES
  staged,     \* the files in the staging directories
  length,     \* their lengths
  torn,       \* files that grew while their chunks were being streamed
  out,        \* what is at the destination of each file, or Nothing
  life,       \* the state of the actor on each node, see Life
  kind,       \* the kind being collected, or "none"
  step,       \* how far _collect_inner is
  at,         \* the node whose chunk is being consumed
  reader,     \* stream_files on each node
  stream,     \* the chunks it has yielded that were not taken
  handle,     \* _NodeState.current_arcname
  pending,    \* the nodes with a reference in pending
  verdict,    \* ok_nodes and failed_nodes; "absent" for a node that is not live
  faults      \* faults so far

disk == <<staged, length, torn>>
node == <<reader, stream>>
driver == <<step, at, handle, pending, verdict>>
transportVars == <<disk, node, driver, out, life, kind, faults>>

(***************************************************************************)
(*  mute   its generator yields nothing more, and does not end             *)
(*  cut    the chunks it yielded do not reach the driver                   *)
(*  dead   the actor died or raised an error                               *)
(*  gone   the node left the cluster                                       *)
(***************************************************************************)
Life == {"up", "mute", "cut", "dead", "gone"}

Part == [from : Nat, to : Nat]
Chunk == [file : File, from : Nat, to : Nat, last : BOOLEAN]
Nothing == [from |-> 0, to |-> 0]
Idle == [todo |-> {}, file |-> "none", pos |-> 0, size |-> 0]

TransportTypeOK ==
  /\ staged \subseteq File /\ torn \subseteq File
  /\ length \in [File -> Nat] /\ out \in [File -> Part]
  /\ life \in [Node -> Life] /\ kind \in Kind \cup {"none"}
  /\ step \in {"idle", "seed", "wait", "next", "upload", "over"}
  /\ at \in Node \cup {"none"}
  /\ reader \in [Node -> [todo : SUBSET File, file : File \cup {"none"},
                          pos : Nat, size : Nat]]
  /\ stream \in [Node -> Seq(Chunk)] /\ \A n \in Node : Len(stream[n]) <= Window
  /\ handle \in [Node -> File \cup {"none"}]
  /\ pending \subseteq Node
  /\ verdict \in [Node -> {"none", "ok", "failed", "absent"}]
  /\ faults \in 0..Faults

StagedOn(n, k) == {f \in staged : Home[f] = n /\ Of[f] = k}

Fault == faults < Faults /\ faults' = faults + 1

-----------------------------------------------------------------------------
(***************************************************************************)
(* _NodeCollector.stream_files, on its node.                               *)
(***************************************************************************)
Streaming(n) ==
  /\ step \in {"seed", "wait", "next"} /\ life[n] \in {"up", "cut"}
  /\ Len(stream[n]) < Window

Yield(n, f, from, to, last) ==
  stream' = [stream EXCEPT ![n] =
    Append(@, [file |-> f, from |-> from, to |-> to, last |-> last])]

\* The next file: read whole if one chunk is enough, opened otherwise, its size
\* taken before.
Open(n) ==
  /\ Streaming(n) /\ reader[n].file = "none"
  /\ \E f \in reader[n].todo :
       \/ /\ length[f] = 1
          /\ reader' = [reader EXCEPT ![n].todo = @ \ {f}]
          /\ Yield(n, f, 1, 1, TRUE)
       \/ /\ length[f] > 1
          /\ reader' = [reader EXCEPT ![n] =
               [todo |-> @.todo \ {f}, file |-> f, pos |-> 0, size |-> length[f]]]
          /\ UNCHANGED stream
  /\ UNCHANGED <<disk, driver, out, life, kind, faults>>

\* A chunk is the last one if it reaches the size taken before.
Read(n) ==
  LET r == reader[n]
  IN /\ Streaming(n) /\ r.file # "none"
     /\ \/ /\ r.pos < length[r.file]
           /\ Yield(n, r.file, r.pos + 1, r.pos + 1, r.pos + 1 >= r.size)
           /\ reader' = [reader EXCEPT ![n].pos = @ + 1]
        \/ /\ r.pos >= length[r.file] /\ UNCHANGED stream
           /\ reader' = [reader EXCEPT ![n] = [Idle EXCEPT !.todo = r.todo]]
     /\ UNCHANGED <<disk, driver, out, life, kind, faults>>

Exhausted(n) ==
  /\ stream[n] = <<>> /\ reader[n].todo = {} /\ reader[n].file = "none"
  /\ life[n] \in {"up", "cut"}

\* A reference to the next chunk, or to the error that ended the generator.
Offers(n) == stream[n] # <<>> \/ life[n] \in {"dead", "gone"}

\* Whoever writes an artifact may still be at it.
Grow(f) ==
  /\ f \in staged /\ length[f] = Length[f]
  /\ Cardinality({g \in File : length[g] # Length[g]}) < Growth
  /\ length' = [length EXCEPT ![f] = @ + 1]
  /\ torn' = torn \cup ({f} \cap {reader[Home[f]].file})
  /\ UNCHANGED <<staged, node, driver, out, life, kind, faults>>

-----------------------------------------------------------------------------
(***************************************************************************)
(* _collect_inner, in the driver.  next(generator) blocks without a limit. *)
(***************************************************************************)
\* _seed_generators, node by node.
Seed(n) ==
  /\ step = "seed" /\ n \notin pending /\ verdict[n] = "none"
  /\ \/ Offers(n) /\ pending' = pending \cup {n} /\ UNCHANGED verdict
     \/ /\ Exhausted(n) /\ UNCHANGED pending
        /\ verdict' = [verdict EXCEPT ![n] = "ok"]
  /\ UNCHANGED <<disk, node, out, life, kind, faults, step, at, handle>>

Seeded ==
  /\ step = "seed" /\ \A n \in Node : n \in pending \/ verdict[n] # "none"
  /\ step' = "wait"
  /\ UNCHANGED <<disk, node, out, life, kind, faults, at, handle, pending, verdict>>

Fail(n) ==
  /\ verdict' = [verdict EXCEPT ![n] = "failed"]
  /\ handle' = [handle EXCEPT ![n] = "none"]

\* _process_chunk: another path than the one being written is opened afresh.
Written(n, c) ==
  IF handle[n] = c.file THEN [out[c.file] EXCEPT !.to = c.to]
  ELSE [from |-> c.from, to |-> c.to]

Write(n, c) ==
  /\ out' = [out EXCEPT ![c.file] = Written(n, c)]
  /\ handle' = [handle EXCEPT ![n] = IF c.last THEN "none" ELSE c.file]

\* A write that fails does so before the file is opened, and so truncated, or
\* after that, or when all is written.
WriteFails(n, c) ==
  \E part \in {out[c.file], Written(n, c)}
               \cup (IF handle[n] = c.file THEN {} ELSE {Nothing}) :
    out' = [out EXCEPT ![c.file] = part]

\* _consume_ready_ref: ray.get and the write, either of which may fail.
Consume(n) ==
  /\ step = "wait" /\ n \in pending /\ life[n] # "cut" /\ Offers(n)
  /\ pending' = pending \ {n}
  /\ \/ /\ stream[n] # <<>> /\ Write(n, Head(stream[n]))
        /\ stream' = [stream EXCEPT ![n] = Tail(@)]
        /\ step' = "next" /\ at' = n
        /\ UNCHANGED <<verdict, faults>>
     \/ /\ stream[n] # <<>> /\ Fault /\ WriteFails(n, Head(stream[n]))
        /\ Fail(n) /\ UNCHANGED <<stream, step, at>>
     \/ /\ life[n] \in {"dead", "gone"}
        /\ Fail(n) /\ UNCHANGED <<stream, out, step, at, faults>>
  /\ UNCHANGED <<disk, life, kind, reader>>

\* Taking a generator that was lost for one that came to its end.
AdvanceAnyhow ==
  /\ step = "next" /\ step' = "wait" /\ at' = "none"
  /\ \/ stream[at] # <<>> /\ pending' = pending \cup {at} /\ UNCHANGED <<verdict, handle>>
     \/ /\ stream[at] = <<>> /\ ~(life[at] = "mute")
        /\ verdict' = [verdict EXCEPT ![at] = "ok"]
        /\ handle' = [handle EXCEPT ![at] = "none"] /\ UNCHANGED pending
  /\ UNCHANGED <<disk, node, out, life, kind, faults>>

\* _consume_ready_ref, its next(generator).
Advance ==
  /\ step = "next" /\ step' = "wait" /\ at' = "none"
  /\ \/ Offers(at) /\ pending' = pending \cup {at} /\ UNCHANGED <<verdict, handle>>
     \/ /\ Exhausted(at)
        /\ verdict' = [verdict EXCEPT ![at] = "ok"]
        /\ handle' = [handle EXCEPT ![at] = "none"] /\ UNCHANGED pending
  /\ UNCHANGED <<disk, node, out, life, kind, faults>>

\* Waiting for chunks as long as it takes.
StallNever == FALSE /\ UNCHANGED transportVars

\* No chunk came for timeout_s: _handle_timeout gives the rest up.
Stall ==
  /\ step = "wait" /\ pending # {} /\ \A n \in pending : life[n] = "cut"
  /\ verdict' = [n \in Node |-> IF n \in pending THEN "failed" ELSE verdict[n]]
  /\ handle' = [n \in Node |-> IF n \in pending THEN "none" ELSE handle[n]]
  /\ pending' = {}
  /\ UNCHANGED <<disk, node, out, life, kind, faults, step, at>>

\* The result; handles are closed and actors killed.
Collected ==
  /\ step = "wait" /\ pending = {} /\ step' = "over"
  /\ reader' = [n \in Node |-> Idle] /\ stream' = [n \in Node |-> <<>>]
  /\ handle' = [n \in Node |-> "none"]
  /\ UNCHANGED <<disk, out, life, kind, faults, at, pending, verdict>>

-----------------------------------------------------------------------------
TransportStep ==
  \/ Seeded \/ Advance \/ Stall \/ Collected
  \/ \E n \in Node : Open(n) \/ Read(n) \/ Seed(n) \/ Consume(n)

\* A fault of the actor on a node, or of the node.
Break(n) ==
  /\ Fault /\ life[n] = "up"
  /\ \E l \in Life \ {"up"} : life' = [life EXCEPT ![n] = l]
  /\ UNCHANGED <<disk, node, driver, out, kind>>
=============================================================================
