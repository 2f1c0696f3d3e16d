------------------------ MODULE ArtifactDeliveryProofs ------------------------
(***************************************************************************)
(* The delivery of artifacts, for any nodes, files, kinds, windows and     *)
(* faults: what a node is reported ok for is whole, and what is removed    *)
(* was delivered.                                                          *)
(***************************************************************************)
EXTENDS ArtifactDeliveryProperties, SequenceTheorems, TLAPS

Collecting == step \in {"seed", "wait", "next"}

\* The driver's bookkeeping: a node is waited for until there is a verdict.
Driven ==
  /\ \A n \in pending : verdict[n] = "none"
  /\ step = "next" => at \in Node /\ at \notin pending /\ verdict[at] = "none"
  /\ step = "wait" => \A n \in Node : n \in pending \/ verdict[n] # "none"
  /\ step = "next" => \A n \in Node : n \in pending \/ n = at \/ verdict[n] # "none"
  /\ step = "over" => \A n \in Node : verdict[n] # "none"
  /\ step = "upload" => \A n \in Node : n \in pending \/ verdict[n] # "none"
  /\ step = "idle" <=> kind = "none"
  /\ ~Collecting => \A n \in Node :
       stream[n] = <<>> /\ handle[n] = "none" /\ reader[n].file = "none"
  /\ step \in {"idle", "over"} => \A n \in Node : reader[n].todo = {}

\* What a node has to stream, and what is open of it, are files of the node.
Own(n, f) == Home[f] = n /\ Of[f] = kind
Owned(n) ==
  /\ \A f \in reader[n].todo : Own(n, f)
  /\ reader[n].file # "none" => Own(n, reader[n].file)
  /\ handle[n] # "none" => Own(n, handle[n])
  /\ \A i \in 1..Len(stream[n]) : Own(n, stream[n][i].file)

\* Files only grow, and one that does while it is read counts as torn.
Sized(n) ==
  LET r == reader[n]
  IN r.file # "none" =>
       /\ 1 < r.size /\ Length[r.file] <= r.size /\ r.size <= length[r.file]
       /\ r.file \in torn \/ r.size = length[r.file]
Grown ==
  /\ \A f \in File : Length[f] <= length[f]
  /\ \A n \in Node : Owned(n) /\ Sized(n)

\* Some last chunk of the file comes after chunk i.
Followed(n, f, i) ==
  \E j \in i + 1..Len(stream[n]) : stream[n][j].file = f /\ stream[n][j].last

\* A chunk that does not start its file finds it open, and one that does not
\* end it is followed by one that does.
Linked(n) ==
  \A i \in 1..Len(stream[n]) :
    LET c == stream[n][i]
    IN /\ c.last => c.to >= Length[c.file]
       /\ c.from # 1 /\ c.file \notin torn =>
            IF i = 1 THEN handle[n] = c.file
            ELSE stream[n][i-1].file = c.file /\ ~stream[n][i-1].last
       /\ ~c.last => reader[n].file = c.file \/ Followed(n, c.file, i)

\* The file being read is the one the last chunk was of.
Reading(n) ==
  LET r == reader[n]
      q == stream[n]
  IN r.file # "none" /\ r.pos > 0 =>
       /\ r.pos < r.size => IF q = <<>> THEN handle[n] = r.file
                            ELSE q[Len(q)].file = r.file /\ ~q[Len(q)].last
       /\ r.pos >= r.size => IF q = <<>> THEN Whole(r.file) \/ r.file \in torn
                             ELSE q[Len(q)].file = r.file /\ q[Len(q)].last

\* What is open was opened at its start.
Opened(n) == handle[n] # "none" => out[handle[n]].from = 1 \/ handle[n] \in torn

\* A file of the node is delivered or still to come.
Coming(n, f) == f \in reader[n].todo \/ f = reader[n].file \/ Followed(n, f, 0)
Complete(n) ==
  \A f \in StagedOn(n, kind) : Whole(f) \/ f \in torn \/ Coming(n, f)

Streams(n) == Linked(n) /\ Reading(n) /\ Opened(n) /\ Complete(n)

Streamed == Collecting => \A n \in Node : verdict[n] = "none" => Streams(n)

\* An upload leaves a file whole, or unsent.
Uploaded ==
  step = "upload" =>
    \A n \in Node : \A f \in StagedOn(n, kind) :
      /\ n \in pending => Whole(f) \/ f \in unsent \/ f \in reader[n].todo
      /\ verdict[n] = "ok" => Whole(f) \/ (f \in unsent /\ ~mode.strict)

\* Staged files go with the collection of their kind, or come with the flush.
Unflushed == \E i \in 1..Len(hooks) : hooks[i] = "flush"
Kept ==
  /\ kind \notin collected
  /\ \A f \in File : f \in staged \/ (f \in Flushed /\ Unflushed) \/ Of[f] \in collected
  /\ life[Driver] # "gone" /\ verdict[Driver] # "absent"

\* Without a fault every collection succeeds.
Faultless ==
  faults = 0 =>
    /\ \A n \in Node : life[n] = "up" /\ verdict[n] \in {"none", "ok"}
    /\ unsent = {}
    /\ \A f \in File : Of[f] \in collected =>
         Whole(f) \/ f \in torn \/ (f \in Flushed /\ Of[f] \in early)
    /\ \A j \in 1..Len(Order) : j > Len(hooks) => Order[j] \in collected \/ kind = Order[j]

\* Hooks go from the end of the list, the flush first; until then only calls
\* have collected anything.
Hooked ==
  /\ Len(hooks) <= Len(Order) + 1
  /\ \A i \in 1..Len(hooks) : hooks[i] = IF i <= Len(Order) THEN Order[i] ELSE "flush"
  /\ pc = "pipeline" => Len(hooks) = Len(Order) + 1
  /\ Len(hooks) = Len(Order) + 1 /\ kind # "none" => kind \in early
  /\ pc = "down" => hooks = <<>> /\ kind = "none"

Inv ==
  /\ TypeOK /\ Driven /\ Grown /\ Streamed /\ Uploaded /\ Kept /\ Hooked
  /\ OkIsWhole /\ RemovedWasDelivered /\ Faultless

-----------------------------------------------------------------------------
\* The generators' side of the types.
Generator == [todo : SUBSET File, file : File \cup {"none"}, pos : Nat, size : Nat]
NodeTyped ==
  /\ reader \in [Node -> Generator]
  /\ stream \in [Node -> Seq(Chunk)] /\ \A n \in Node : Len(stream[n]) <= Window

LEMMA NodeTypeStep == Inv /\ [Next]_vars => NodeTyped'
<1> SUFFICES ASSUME Inv, [Next]_vars PROVE NodeTyped'
  OBVIOUS
<1> USE DEF NodeTyped
<1>1. /\ NodeTyped /\ length \in [File -> Nat] /\ staged \subseteq File
      /\ Window \in Nat /\ Window > 0
  BY TransportAssumption DEF Inv, TypeOK, TransportTypeOK, Generator
<1>2. ASSUME NEW n \in Node, NEW c \in Chunk, Len(stream[n]) < Window,
             stream' = [stream EXCEPT ![n] = Append(@, c)]
      PROVE  stream' \in [Node -> Seq(Chunk)] /\ \A m \in Node : Len(stream'[m]) <= Window
  <2>1. Append(stream[n], c) \in Seq(Chunk) /\ Len(Append(stream[n], c)) = Len(stream[n]) + 1
    BY <1>1, <1>2
  <2>2. stream' \in [Node -> Seq(Chunk)]
    BY <1>1, <1>2, <2>1
  <2>3. ASSUME NEW m \in Node PROVE Len(stream'[m]) <= Window
    BY <1>1, <1>2, <2>1
  <2> QED BY <2>2, <2>3
<1>3. ASSUME NEW n \in Node, Open(n) PROVE NodeTyped'
  <2>1. PICK f \in reader[n].todo :
           \/ /\ length[f] = 1
              /\ reader' = [reader EXCEPT ![n].todo = @ \ {f}]
              /\ Yield(n, f, 1, 1, TRUE)
           \/ /\ length[f] > 1
              /\ reader' = [reader EXCEPT ![n] =
                   [todo |-> @.todo \ {f}, file |-> f, pos |-> 0, size |-> length[f]]]
              /\ UNCHANGED stream
    BY <1>3 DEF Open
  <2>2. f \in File
    BY <1>1 DEF Generator
  <2>3. reader' \in [Node -> Generator]
    <3>1. reader[n] \in Generator /\ length[f] \in Nat
      BY <1>1, <2>2
    <3>2. /\ [reader[n] EXCEPT !.todo = @ \ {f}] \in Generator
          /\ [todo |-> reader[n].todo \ {f}, file |-> f, pos |-> 0, size |-> length[f]] \in Generator
      BY <2>2, <3>1 DEF Generator
    <3> QED BY <1>1, <2>1, <3>2
  <2>4. [file |-> f, from |-> 1, to |-> 1, last |-> TRUE] \in Chunk
    BY <2>2 DEF Chunk
  <2> QED BY <1>1, <1>2, <1>3, <2>1, <2>3, <2>4 DEF Open, Streaming, Yield
<1>4. ASSUME NEW n \in Node, Read(n) PROVE NodeTyped'
  <2>1. reader' \in [Node -> Generator]
    <3>1. reader[n] \in Generator
      BY <1>1
    <3>2. /\ [reader[n] EXCEPT !.pos = @ + 1] \in Generator
          /\ [Idle EXCEPT !.todo = reader[n].todo] \in Generator
      BY <3>1 DEF Generator, Idle
    <3> QED BY <1>1, <1>4, <3>2 DEF Read
  <2>2. reader[n].file \in File /\ reader[n].pos \in Nat /\ reader[n].size \in Nat
    BY <1>1, <1>4 DEF Read, Generator
  <2>3. [file |-> reader[n].file, from |-> reader[n].pos + 1, to |-> reader[n].pos + 1,
         last |-> reader[n].pos + 1 >= reader[n].size] \in Chunk
    BY <2>2 DEF Chunk
  <2> QED BY <1>1, <1>2, <1>4, <2>1, <2>3 DEF Read, Streaming, Yield
<1>5. ASSUME NEW n \in Node, Consume(n) PROVE NodeTyped'
  <2>1. CASE UNCHANGED stream
    BY <1>1, <1>5, <2>1 DEF Consume
  <2>2. CASE stream[n] # <<>> /\ stream' = [stream EXCEPT ![n] = Tail(@)]
    <3>1. Tail(stream[n]) \in Seq(Chunk) /\ Len(Tail(stream[n])) = Len(stream[n]) - 1
      BY <1>1, <2>2
    <3>2. \A m \in Node : Len(stream'[m]) <= Window
      BY <1>1, <2>2, <3>1
    <3> QED BY <1>1, <1>5, <2>2, <3>1, <3>2 DEF Consume
  <2> QED BY <1>5, <2>1, <2>2 DEF Consume
<1>6. CASE Collected
  <2>1. stream' \in [Node -> Seq(Chunk)] /\ \A m \in Node : Len(stream'[m]) <= Window
    BY <1>1, <1>6 DEF Collected
  <2> QED BY <1>6, <2>1 DEF Collected, Idle, Generator
<1>7. ASSUME NEW k, Deploy(k) PROVE NodeTyped'
  <2>1. \A n \in Node : StagedOn(n, k) \subseteq File
    BY <1>1 DEF StagedOn
  <2> QED BY <1>1, <1>7, <2>1 DEF Deploy, Idle, Generator
<1>8. ASSUME NEW n \in Node, NEW f \in File, UploadFile(n, f) PROVE NodeTyped'
  BY <1>1, <1>8 DEF UploadFile, Generator
<1>9. CASE CollectRemote
  BY <1>1, <1>9 DEF CollectRemote, Idle, Generator
<1>10. CASE UNCHANGED <<reader, stream>>
  BY <1>1, <1>10
<1>11. CASE \/ Seeded \/ Advance \/ Stall \/ \E n \in Node : Seed(n) \/ Answer(n) \/ Break(n)
            \/ UploadStall \/ CollectLocal \/ LeaveRay \/ Shutdown \/ UNCHANGED vars
            \/ \E f \in File : Grow(f) \/ LateUpload(f)
  BY <1>10, <1>11 DEF Seeded, Advance, Stall, Seed, Answer, Break, UploadStall, CollectLocal,
                      LeaveRay, Shutdown, Grow, LateUpload, vars, transportVars, node
<1>12. ASSUME NEW k, Collect(k) PROVE NodeTyped'
  BY <1>7, <1>10, <1>12 DEF Collect, Undeployed, transportVars, node
<1>13. CASE Hook \/ \E k \in Kind : Call(k)
  BY <1>10, <1>12, <1>13 DEF Hook, Call, node
<1> QED
  BY <1>3, <1>4, <1>5, <1>6, <1>8, <1>9, <1>11, <1>13
     DEF Next, CollectStep, TransportStep, ShutdownStep, Environment

\* The driver's side of the types, and of the files.
DriverTyped ==
  /\ step \in {"idle", "seed", "wait", "next", "upload", "over"}
  /\ at \in Node \cup {"none"} /\ pending \subseteq Node
  /\ handle \in [Node -> File \cup {"none"}]
  /\ verdict \in [Node -> {"none", "ok", "failed", "absent"}]

FilesTyped ==
  /\ staged \subseteq File /\ torn \subseteq File
  /\ length \in [File -> Nat] /\ out \in [File -> Part]
  /\ life \in [Node -> Life] /\ kind \in Kind \cup {"none"} /\ faults \in 0..Faults

\* The chunk a driver takes is one of the file's.
LEMMA HeadChunk ==
  ASSUME Inv, NEW n \in Node, stream[n] # <<>>
  PROVE  Head(stream[n]) \in Chunk /\ Head(stream[n]).file \in File
<1>1. stream[n] \in Seq(Chunk)
  BY DEF Inv, TypeOK, TransportTypeOK
<1>2. Head(stream[n]) \in Chunk
  BY <1>1
<1> QED BY <1>2 DEF Chunk

\* What a chunk makes of its file is a part of it.
LEMMA WrittenPart ==
  ASSUME Inv, NEW n \in Node, NEW c \in Chunk
  PROVE  Written(n, c) \in Part
<1>1. c.file \in File /\ c.from \in Nat /\ c.to \in Nat
  BY DEF Chunk
<1>2. out[c.file] \in Part
  BY <1>1 DEF Inv, TypeOK, TransportTypeOK
<1>3. [out[c.file] EXCEPT !.to = c.to] \in Part
  BY <1>1, <1>2 DEF Part
<1>4. [from |-> c.from, to |-> c.to] \in Part
  BY <1>1 DEF Part
<1> QED BY <1>3, <1>4 DEF Written

LEMMA DriverTypeStep == Inv /\ [Next]_vars => DriverTyped'
<1> SUFFICES ASSUME Inv, [Next]_vars PROVE DriverTyped'
  OBVIOUS
<1> USE DEF DriverTyped
<1>1. DriverTyped
  BY DEF Inv, TypeOK, TransportTypeOK
<1>2. ASSUME NEW n \in Node, Consume(n) PROVE DriverTyped'
  <2>1. CASE stream[n] # <<>> /\ Write(n, Head(stream[n])) /\ step' = "next" /\ at' = n
    BY <1>1, <1>2, <2>1, HeadChunk DEF Consume, Write
  <2>2. CASE Fail(n) /\ UNCHANGED <<step, at>>
    BY <1>1, <1>2, <2>2 DEF Consume, Fail
  <2> QED BY <1>2, <2>1, <2>2 DEF Consume
<1>3. ASSUME NEW n \in Node, Seed(n) \/ Answer(n) PROVE DriverTyped'
  BY <1>1, <1>3 DEF Seed, Answer
<1>4. CASE Seeded \/ Stall \/ Collected \/ UploadStall
  BY <1>1, <1>4 DEF Seeded, Stall, Collected, UploadStall
<1>5. CASE Advance
  <2>1. at \in Node
    BY <1>5 DEF Advance, Inv, Driven
  <2> QED BY <1>1, <1>5, <2>1 DEF Advance
<1>6. CASE CollectLocal \/ CollectRemote
  BY <1>1, <1>6 DEF CollectLocal, CollectRemote, Leave
<1>7. ASSUME NEW k, Deploy(k) PROVE DriverTyped'
  BY <1>1, <1>7 DEF Deploy
<1>8. CASE UNCHANGED driver
  BY <1>1, <1>8 DEF driver
<1>9. CASE \/ \E n \in Node : Open(n) \/ Read(n) \/ Break(n) \/ \E f \in File : UploadFile(n, f)
           \/ LeaveRay \/ Shutdown \/ UNCHANGED vars \/ \E f \in File : Grow(f) \/ LateUpload(f)
  BY <1>8, <1>9 DEF Open, Read, Break, UploadFile, LeaveRay, Shutdown, Grow, LateUpload, vars,
                    transportVars
<1>10. ASSUME NEW k, Collect(k) PROVE DriverTyped'
  BY <1>7, <1>8, <1>10 DEF Collect, Undeployed, transportVars
<1>11. CASE Hook \/ \E k \in Kind : Call(k)
  BY <1>8, <1>10, <1>11 DEF Hook, Call
<1> QED
  BY <1>2, <1>3, <1>4, <1>5, <1>6, <1>9, <1>11
     DEF Next, CollectStep, TransportStep, ShutdownStep, Environment

LEMMA FilesTypeStep == Inv /\ [Next]_vars => FilesTyped'
<1> SUFFICES ASSUME Inv, [Next]_vars PROVE FilesTyped'
  OBVIOUS
<1> USE TransportAssumption DEF FilesTyped
<1>1. FilesTyped /\ Driver \in Node
  BY DeliveryAssumption DEF Inv, TypeOK, TransportTypeOK
<1>2. ASSUME NEW n \in Node, Consume(n) PROVE FilesTyped'
  <2>1. CASE stream[n] # <<>> /\ Write(n, Head(stream[n])) /\ UNCHANGED faults
    <3>1. out' \in [File -> Part]
      BY <1>1, <2>1, HeadChunk, WrittenPart DEF Write
    <3> QED BY <1>1, <1>2, <2>1, <3>1 DEF Consume, disk
  <2>2. CASE UNCHANGED out
    BY <1>1, <1>2, <2>2 DEF Consume, disk, Fault
  <2>3. CASE stream[n] # <<>> /\ WriteFails(n, Head(stream[n])) /\ Fault
    <3>1. PICK part : /\ out' = [out EXCEPT ![Head(stream[n]).file] = part]
                      /\ part \in {out[Head(stream[n]).file], Written(n, Head(stream[n])), Nothing}
      BY <2>3 DEF WriteFails
    <3>2. /\ out[Head(stream[n]).file] \in Part /\ Nothing \in Part
          /\ Written(n, Head(stream[n])) \in Part
      BY <1>1, <2>3, HeadChunk, WrittenPart DEF Part, Nothing
    <3>3. out' \in [File -> Part]
      BY <1>1, <3>1, <3>2
    <3> QED BY <1>1, <1>2, <2>3, <3>3 DEF Consume, disk, Fault
  <2> QED BY <1>2, <2>1, <2>2, <2>3 DEF Consume
<1>3. CASE CollectLocal \/ CollectRemote
  BY <1>1, <1>3 DEF CollectLocal, CollectRemote, Leave, Abandon, Deliver
<1>4. ASSUME NEW k \in Kind, Deploy(k) PROVE FilesTyped'
  BY <1>1, <1>4 DEF Deploy, Life
<1>5. ASSUME NEW k \in Kind, Undeployed(k) PROVE FilesTyped'
  BY <1>1, <1>5 DEF Undeployed, Fault, disk
<1>6. ASSUME NEW n \in Node, NEW f \in File, UploadFile(n, f) PROVE FilesTyped'
  <2>1. out' \in [File -> Part]
    BY <1>1, <1>6 DEF UploadFile, Part
  <2> QED BY <1>1, <1>6, <2>1 DEF UploadFile, Fault, disk
<1>7. ASSUME NEW n \in Node, Break(n) PROVE FilesTyped'
  BY <1>1, <1>7 DEF Break, Fault, disk, Life
<1>8. ASSUME NEW f \in File, Grow(f) PROVE FilesTyped'
  BY <1>1, <1>8 DEF Grow
<1>13. ASSUME NEW f \in File, LateUpload(f) PROVE FilesTyped'
  <2>1. out' \in [File -> Part]
    BY <1>1, <1>13 DEF LateUpload, Part
  <2> QED BY <1>1, <1>13, <2>1 DEF LateUpload, disk
<1>9. CASE UNCHANGED <<disk, out, life, kind, faults>>
  BY <1>1, <1>9 DEF disk
<1>10. CASE \/ \E n \in Node : Open(n) \/ Read(n) \/ Seed(n) \/ Answer(n)
            \/ Seeded \/ Advance \/ Stall \/ Collected \/ UploadStall \/ LeaveRay \/ Shutdown
            \/ UNCHANGED vars
  BY <1>9, <1>10 DEF Open, Read, Seed, Answer, Seeded, Advance, Stall, Collected, UploadStall,
                     LeaveRay, Shutdown, vars, transportVars
<1>11. ASSUME NEW k \in Kind, Collect(k) PROVE FilesTyped'
  BY <1>4, <1>5, <1>9, <1>11 DEF Collect, transportVars
<1>12. CASE (\E k \in Kind : Call(k)) \/ Hook
  <2>1. CASE staged' = staged \cup Flushed /\ UNCHANGED <<length, torn, out, life, kind, faults>>
    BY <1>1, <2>1, DeliveryAssumption
  <2> QED BY <1>11, <1>12, <2>1 DEF Call, Hook
<1> QED
  BY <1>2, <1>3, <1>6, <1>7, <1>8, <1>10, <1>12, <1>13
     DEF Next, CollectStep, TransportStep, ShutdownStep, Environment

\* What is left of the hooks when the last one is taken.
LEMMA Front ==
  ASSUME NEW S, NEW s \in Seq(S), s # <<>>, NEW t, t = SubSeq(s, 1, Len(s) - 1)
  PROVE  /\ t \in Seq(S) /\ Len(t) = Len(s) - 1 /\ Len(t) \in Nat
         /\ \A i \in 1..Len(t) : t[i] = s[i]
<1> DEFINE m == Len(s) - 1
<1>1. Len(s) \in Nat /\ m \in Nat /\ \A i \in 1..m : s[i] \in S
  OBVIOUS
<1>2. t = SubSeq(s, 1, m)
  OBVIOUS
<1> HIDE DEF m
<1>3. /\ t \in Seq(S)
      /\ Len(t) = IF 1 <= m THEN m - 1 + 1 ELSE 0
      /\ \A i \in 1..m - 1 + 1 : t[i] = s[1 + i - 1]
  BY <1>1, <1>2, SubSeqProperties
<1>4. Len(t) = m
  BY <1>1, <1>3
<1>5. ASSUME NEW i \in 1..Len(t) PROVE t[i] = s[i]
  BY <1>1, <1>3, <1>4
<1> QED BY <1>1, <1>3, <1>4, <1>5 DEF m

\* The side of the deliveries.
DeliveryTyped ==
  /\ pc \in {"pipeline", "hooks", "down"} /\ mode \in Modes
  /\ hooks \in Seq(Kind \cup {"flush"}) /\ Len(hooks) <= Len(Order) + 1
  /\ collected \subseteq Kind /\ raised \subseteq Kind /\ early \subseteq Kind
  /\ unsent \subseteq File /\ loose \subseteq File /\ lost \subseteq Node \X Kind
  /\ calls \in 0..Calls

LEMMA DeliveryTypeStep == Inv /\ [Next]_vars => DeliveryTyped'
<1> SUFFICES ASSUME Inv, [Next]_vars PROVE DeliveryTyped'
  OBVIOUS
<1> USE DeliveryAssumption DEF DeliveryTyped
<1>1. DeliveryTyped
  BY DEF Inv, TypeOK
<1>2. kind \in Kind \cup {"none"} /\ (step = "idle" <=> kind = "none")
  BY DEF Inv, TypeOK, TransportTypeOK, Driven
<1>3. CASE CollectLocal \/ CollectRemote
  <2>1. kind \in Kind
    BY <1>2, <1>3 DEF CollectLocal, CollectRemote
  <2>2. lost' \subseteq Node \X Kind /\ loose' \subseteq File
    <3>1. {<<n, kind>> : n \in {m \in Node : verdict[m] = "failed"}} \subseteq Node \X Kind
      BY <2>1
    <3>2. Unfinished \subseteq File
      BY DEF Unfinished
    <3> QED BY <1>1, <1>3, <3>1, <3>2 DEF CollectLocal, CollectRemote, Abandon, Deliver
  <2> QED BY <1>1, <1>3, <2>1, <2>2 DEF CollectLocal, CollectRemote, Abandon, Deliver
<1>4. ASSUME NEW n \in Node, NEW f \in File, UploadFile(n, f) PROVE DeliveryTyped'
  BY <1>1, <1>4 DEF UploadFile
<1>10. ASSUME NEW f \in File, LateUpload(f) PROVE DeliveryTyped'
  BY <1>1, <1>10 DEF LateUpload
<1>5. ASSUME NEW k \in Kind, Collect(k)
      PROVE  collected' \subseteq Kind /\ raised' \subseteq Kind /\ unsent' \subseteq File /\ lost' = lost
  <2>1. collected' \subseteq Kind /\ raised' \subseteq Kind /\ lost' = lost
    BY <1>1, <1>5 DEF Collect, Deploy, Undeployed
  <2>2. unsent' \subseteq unsent
    BY <1>5 DEF Collect, Deploy, Undeployed
  <2> QED BY <1>1, <2>1, <2>2
<1>6. CASE \E k \in Kind : Call(k)
  <2> HIDE DeliveryAssumption
  <2>1. PICK k \in Kind : Call(k)
    BY <1>6
  <2>2. /\ collected' \subseteq Kind /\ raised' \subseteq Kind /\ unsent' \subseteq File
        /\ lost' = lost
    BY <1>5, <2>1 DEF Call
  <2>3. /\ calls < Calls /\ calls' = calls + 1 /\ early' = early \cup {k}
        /\ UNCHANGED <<pc, hooks, mode, loose>>
    BY <2>1 DEF Call
  <2>4. calls' \in 0..Calls
    BY <1>1, <2>3, DeliveryAssumption
  <2> QED BY <1>1, <2>2, <2>3, <2>4
<1>7. CASE Hook
  <2>1. /\ hooks' = SubSeq(hooks, 1, Len(hooks) - 1) /\ hooks # <<>>
        /\ UNCHANGED <<pc, mode, loose, calls, early>>
    BY <1>7 DEF Hook
  <2>2. hooks' \in Seq(Kind \cup {"flush"}) /\ Len(hooks') = Len(hooks) - 1
    BY <1>1, <2>1, Front
  <2>3. /\ collected' \subseteq Kind /\ raised' \subseteq Kind /\ unsent' \subseteq File
        /\ lost' = lost
    <3>1. CASE \E k \in Kind : Collect(k)
      BY <1>5, <3>1
    <3>2. CASE UNCHANGED <<collected, raised, unsent, lost>>
      BY <1>1, <3>2
    <3> QED BY <1>7, <3>1, <3>2 DEF Hook
  <2>4. Len(hooks') <= Len(Order) + 1
    <3>1. Len(hooks) \in Nat /\ Len(Order) \in Nat
      BY <1>1
    <3> QED BY <1>1, <2>2, <3>1
  <2>5. lost' \subseteq Node \X Kind /\ loose' \subseteq File
    BY <1>1, <2>1, <2>3
  <2> HIDE DeliveryAssumption
  <2> QED BY <1>1, <2>1, <2>2, <2>3, <2>4, <2>5
<1>8. CASE Shutdown \/ LeaveRay
  BY <1>1, <1>8 DEF Shutdown, LeaveRay
<1>9. CASE UNCHANGED delivery
  BY <1>1, <1>9 DEF delivery
<1> QED
  BY <1>3, <1>4, <1>6, <1>7, <1>8, <1>9, <1>10
     DEF Next, CollectStep, ShutdownStep, Environment, Answer, UploadStall, vars

LEMMA TypeStep == Inv /\ [Next]_vars => TypeOK'
BY NodeTypeStep, DriverTypeStep, FilesTypeStep, DeliveryTypeStep
   DEF NodeTyped, DriverTyped, FilesTyped, DeliveryTyped, TypeOK, TransportTypeOK, Generator

-----------------------------------------------------------------------------

-----------------------------------------------------------------------------
LEMMA DrivenStep == Inv /\ [Next]_vars => Driven'
<1> SUFFICES ASSUME Inv, [Next]_vars PROVE Driven'
  OBVIOUS
<1> USE TransportAssumption DEF Collecting
<1>1. Driven /\ step \in {"idle", "seed", "wait", "next", "upload", "over"}
  BY DEF Inv, TypeOK, TransportTypeOK
<1>2. /\ at \in Node \cup {"none"} /\ pending \subseteq Node
      /\ handle \in [Node -> File \cup {"none"}]
      /\ verdict \in [Node -> {"none", "ok", "failed", "absent"}]
      /\ reader \in [Node -> Generator] /\ stream \in [Node -> Seq(Chunk)]
  BY DEF Inv, TypeOK, TransportTypeOK, Generator
<1>3. ASSUME NEW n \in Node, Open(n) \/ Read(n) PROVE Driven'
  BY <1>1, <1>3 DEF Driven, Open, Read, Streaming, driver
<1>4. ASSUME NEW n \in Node, Seed(n) PROVE Driven'
  BY <1>1, <1>2, <1>4 DEF Driven, Seed, node
<1>5. CASE Seeded
  BY <1>1, <1>2, <1>5 DEF Driven, Seeded, node
<1>6. ASSUME NEW n \in Node, Consume(n) PROVE Driven'
  <2>1. CASE Write(n, Head(stream[n])) /\ step' = "next" /\ at' = n /\ UNCHANGED verdict
    BY <1>1, <1>2, <1>6, <2>1 DEF Driven, Consume
  <2>2. CASE Fail(n) /\ UNCHANGED <<step, at>>
    BY <1>1, <1>2, <1>6, <2>2 DEF Driven, Consume, Fail
  <2> QED BY <1>6, <2>1, <2>2 DEF Consume
<1>7. CASE Advance
  <2>1. /\ at \in Node /\ step = "next" /\ step' = "wait" /\ at' = "none"
        /\ UNCHANGED <<reader, stream, kind>>
    BY <1>1, <1>7 DEF Driven, Advance, node
  <2>2. CASE pending' = pending \cup {at} /\ UNCHANGED <<verdict, handle>>
    BY <1>1, <1>2, <2>1, <2>2 DEF Driven
  <2>3. CASE UNCHANGED pending /\ verdict' = [verdict EXCEPT ![at] = "ok"]
    BY <1>1, <1>2, <2>1, <2>3 DEF Driven
  <2> QED BY <1>7, <2>2, <2>3 DEF Advance
<1>8. CASE Stall
  BY <1>1, <1>2, <1>8 DEF Driven, Stall, node
<1>9. CASE Collected
  BY <1>1, <1>2, <1>9 DEF Driven, Collected, Idle
<1>10. ASSUME NEW n \in Node, NEW f \in File, UploadFile(n, f) PROVE Driven'
  BY <1>1, <1>2, <1>10 DEF Driven, UploadFile, driver, Generator
<1>11. ASSUME NEW n \in Node, Answer(n) PROVE Driven'
  BY <1>1, <1>2, <1>11 DEF Driven, Answer, node
<1>12. CASE UploadStall
  BY <1>1, <1>2, <1>12 DEF Driven, UploadStall, node
<1>13. CASE CollectLocal
  BY <1>1, <1>2, <1>13 DEF Driven, CollectLocal, Leave, node
<1>14. CASE CollectRemote
  BY <1>1, <1>2, <1>14 DEF Driven, CollectRemote, Leave, Idle
<1>15. ASSUME NEW k \in Kind, kind = "none", Deploy(k) PROVE Driven'
  BY <1>1, <1>2, <1>15 DEF Driven, Deploy, Idle
<1>16. CASE UNCHANGED <<node, driver, kind>>
  BY <1>1, <1>16 DEF Driven, node, driver
<1>17. CASE \/ Environment \/ LeaveRay \/ Shutdown \/ UNCHANGED vars
  BY <1>16, <1>17 DEF Environment, Grow, Break, LateUpload, LeaveRay, Shutdown, vars, transportVars
<1>18. ASSUME NEW k \in Kind, kind = "none", Collect(k) PROVE Driven'
  BY <1>15, <1>16, <1>18 DEF Collect, Undeployed, transportVars
<1>19. CASE Hook \/ \E k \in Kind : Call(k)
  BY <1>16, <1>18, <1>19 DEF Hook, Call, Free
<1> QED
  BY <1>3, <1>4, <1>5, <1>6, <1>7, <1>8, <1>9, <1>10, <1>11, <1>12, <1>13, <1>14, <1>17, <1>19
     DEF Next, CollectStep, TransportStep, ShutdownStep

\* What the generators and the driver work on has a type.
LEMMA NodeFacts ==
  ASSUME Inv
  PROVE  /\ \A n \in Node : /\ reader[n] \in Generator /\ stream[n] \in Seq(Chunk)
                            /\ Len(stream[n]) \in Nat /\ Owned(n)
                            /\ handle[n] \in File \cup {"none"}
                            /\ \A i \in 1..Len(stream[n]) :
                                 stream[n][i] \in Chunk /\ stream[n][i].file \in File
         /\ \A n \in Node : /\ reader[n].todo \subseteq File /\ reader[n].pos \in Nat
                            /\ reader[n].size \in Nat /\ reader[n].file \in File \cup {"none"}
<1>1. \A n \in Node : /\ reader[n] \in Generator /\ stream[n] \in Seq(Chunk)
                      /\ handle[n] \in File \cup {"none"} /\ Owned(n)
  BY DEF Inv, TypeOK, TransportTypeOK, Generator, Grown
<1>2. \A n \in Node : Len(stream[n]) \in Nat /\ \A i \in 1..Len(stream[n]) : stream[n][i] \in Chunk
  BY <1>1
<1>3. \A n \in Node : \A i \in 1..Len(stream[n]) : stream[n][i].file \in File
  BY <1>2 DEF Chunk
<1> QED BY <1>1, <1>2, <1>3 DEF Generator

\* A chunk is added at the end of a stream.
LEMMA Yields ==
  ASSUME Inv, NEW n \in Node, NEW c, stream' = [stream EXCEPT ![n] = Append(@, c)]
  PROVE  /\ \A m \in Node \ {n} : stream'[m] = stream[m]
         /\ stream'[n] # <<>> /\ Len(stream'[n]) = Len(stream[n]) + 1
         /\ \A i \in 1..Len(stream[n]) : stream'[n][i] = stream[n][i]
         /\ stream'[n][Len(stream[n]) + 1] = c
<1>1. stream \in [Node -> Seq(Chunk)]
  BY DEF Inv, TypeOK, TransportTypeOK
<1>2. stream'[n] = Append(stream[n], c) /\ stream[n] \in Seq(Chunk)
  BY <1>1
<1>3. /\ Append(stream[n], c) # <<>> /\ Len(Append(stream[n], c)) = Len(stream[n]) + 1
      /\ \A i \in 1..Len(stream[n]) : Append(stream[n], c)[i] = stream[n][i]
      /\ Append(stream[n], c)[Len(stream[n]) + 1] = c
  BY <1>2
<1>4. \A m \in Node \ {n} : stream'[m] = stream[m]
  BY <1>1
<1> QED BY <1>2, <1>3, <1>4

\* A chunk is taken from the head of a stream.
LEMMA Takes ==
  ASSUME Inv, NEW n \in Node, stream[n] # <<>>, stream' = [stream EXCEPT ![n] = Tail(@)]
  PROVE  /\ \A m \in Node \ {n} : stream'[m] = stream[m]
         /\ Len(stream'[n]) = Len(stream[n]) - 1 /\ Len(stream'[n]) \in Nat
         /\ \A i \in 1..Len(stream'[n]) : stream'[n][i] = stream[n][i+1]
         /\ Len(stream[n]) > 0 /\ Head(stream[n]) = stream[n][1]
         /\ stream'[n] = <<>> <=> Len(stream[n]) = 1
<1>1. stream \in [Node -> Seq(Chunk)] /\ stream[n] \in Seq(Chunk)
  BY DEF Inv, TypeOK, TransportTypeOK
<1>2. stream'[n] = Tail(stream[n]) /\ \A m \in Node \ {n} : stream'[m] = stream[m]
  BY <1>1
<1> DEFINE q == stream[n]
           t == stream'[n]
<1>3. q \in Seq(Chunk) /\ q # <<>> /\ t = Tail(q)
  BY <1>1, <1>2
<1> HIDE DEF q, t
<1>4. /\ Len(t) = Len(q) - 1 /\ Len(t) \in Nat /\ Len(q) \in Nat /\ Len(q) > 0
      /\ t \in Seq(Chunk) /\ Head(q) = q[1] /\ \A i \in 1..Len(t) : t[i] = q[i+1]
  BY <1>3
<1>5. t = <<>> <=> Len(t) = 0
  BY <1>4, EmptySeq
<1>6. t = <<>> <=> Len(q) = 1
  BY <1>4, <1>5
<1> QED BY <1>2, <1>4, <1>6 DEF q, t

LEMMA GrownStep == Inv /\ [Next]_vars => Grown'
<1> SUFFICES ASSUME Inv, [Next]_vars PROVE Grown'
  OBVIOUS
<1> USE TransportAssumption
<1>1. /\ \A f \in File : Length[f] <= length[f] /\ length[f] \in Nat /\ Length[f] \in Nat \ {0}
      /\ length \in [File -> Nat] /\ reader \in [Node -> Generator]
      /\ handle \in [Node -> File \cup {"none"}] /\ stream \in [Node -> Seq(Chunk)]
      /\ step = "idle" <=> kind = "none"
      /\ ~Collecting => \A n \in Node :
           stream[n] = <<>> /\ handle[n] = "none" /\ reader[n].file = "none"
      /\ step \in {"idle", "over"} => \A n \in Node : reader[n].todo = {}
  BY DEF Inv, TypeOK, TransportTypeOK, Grown, Driven, Generator
<1>2. \A n \in Node : Owned(n) /\ Sized(n)
  BY DEF Inv, Grown
<1>3. \A f \in File : Length[f] <= length'[f]
  <2>1. CASE \E f \in File : Grow(f)
    BY <1>1, <2>1 DEF Grow
  <2>2. CASE UNCHANGED length
    BY <1>1, <2>2
  <2> QED
    BY <2>1, <2>2 DEF Next, CollectStep, TransportStep, ShutdownStep, Environment, Open, Read, Seed,
       Consume, Seeded, Advance, Stall, Collected, Answer, UploadFile, UploadStall, CollectLocal,
       CollectRemote, Call, Collect, Deploy, Undeployed, Shutdown, Hook, LeaveRay, Break, LateUpload,
       disk, vars, transportVars
<1>4. ASSUME NEW n \in Node,
             UNCHANGED <<reader[n], handle[n], stream[n], length, kind>>, torn \subseteq torn'
      PROVE  Owned(n)' /\ Sized(n)'
  BY <1>2, <1>4 DEF Owned, Sized, Own
<1>5. ASSUME NEW n \in Node, Open(n) PROVE Grown'
  <2>1. PICK f \in reader[n].todo :
           \/ /\ length[f] = 1
              /\ reader' = [reader EXCEPT ![n].todo = @ \ {f}]
              /\ Yield(n, f, 1, 1, TRUE)
           \/ /\ length[f] > 1
              /\ reader' = [reader EXCEPT ![n] =
                   [todo |-> @.todo \ {f}, file |-> f, pos |-> 0, size |-> length[f]]]
              /\ UNCHANGED stream
    BY <1>5 DEF Open
  <2>2. f \in File /\ Own(n, f) /\ UNCHANGED <<disk, handle, kind>> /\ reader[n].file = "none"
    BY <1>1, <1>2, <1>5, <2>1, NodeFacts DEF Open, Owned, driver
  <2>3. ASSUME NEW m \in Node \ {n} PROVE Owned(m)' /\ Sized(m)'
    <3>1. stream'[m] = stream[m]
      BY <1>1, <2>1 DEF Yield
    <3>2. reader'[m] = reader[m]
      BY <1>1, <2>1
    <3> QED BY <1>4, <2>2, <3>1, <3>2 DEF disk
  <2>4. CASE Yield(n, f, 1, 1, TRUE) /\ reader' = [reader EXCEPT ![n].todo = @ \ {f}]
    <3>1. reader'[n].file = "none" /\ reader'[n].todo \subseteq reader[n].todo
      BY <1>1, <2>2, <2>4 DEF Generator
    <3>2. ASSUME NEW i \in 1..Len(stream'[n]) PROVE Own(n, stream'[n][i].file)
      <4>1. /\ Len(stream'[n]) = Len(stream[n]) + 1 /\ Len(stream[n]) \in Nat
            /\ \A j \in 1..Len(stream[n]) : stream'[n][j] = stream[n][j]
            /\ stream'[n][Len(stream[n]) + 1].file = f
        <5>1. PICK c : c.file = f /\ stream' = [stream EXCEPT ![n] = Append(@, c)]
          BY <2>4 DEF Yield
        <5>2. stream'[n][Len(stream[n]) + 1] = c
          BY <5>1, Yields
        <5>3. /\ Len(stream'[n]) = Len(stream[n]) + 1
              /\ \A j \in 1..Len(stream[n]) : stream'[n][j] = stream[n][j]
          BY <5>1, Yields
        <5>4. Len(stream[n]) \in Nat
          BY NodeFacts
        <5> QED BY <5>1, <5>2, <5>3, <5>4
      <4>2. CASE i \in 1..Len(stream[n])
        BY <1>2, <4>1, <4>2 DEF Owned
      <4>3. CASE i = Len(stream[n]) + 1
        BY <2>2, <4>1, <4>3
      <4> QED BY <4>1, <4>2, <4>3
    <3> QED BY <1>2, <1>3, <2>2, <2>3, <3>1, <3>2 DEF Grown, Owned, Sized, Own
  <2>5. CASE /\ length[f] > 1 /\ UNCHANGED stream
             /\ reader' = [reader EXCEPT ![n] =
                   [todo |-> @.todo \ {f}, file |-> f, pos |-> 0, size |-> length[f]]]
    <3>1. /\ reader'[n].file = f /\ reader'[n].size = length[f]
          /\ reader'[n].todo \subseteq reader[n].todo
      BY <1>1, <2>2, <2>5 DEF Generator
    <3>2. Owned(n)'
      BY <1>2, <2>2, <2>5, <3>1 DEF Owned, Own
    <3>3. Sized(n)'
      BY <1>1, <2>2, <2>5, <3>1 DEF Sized, disk
    <3> QED BY <1>3, <2>3, <3>2, <3>3 DEF Grown
  <2> QED BY <2>1, <2>4, <2>5
<1>6. ASSUME NEW n \in Node, Read(n) PROVE Grown'
  <2> DEFINE f == reader[n].file
  <2>1. f \in File /\ Own(n, f) /\ UNCHANGED <<disk, handle, kind>>
    BY <1>2, <1>6, NodeFacts DEF Read, Owned, driver
  <2>2. CASE /\ Yield(n, f, reader[n].pos + 1, reader[n].pos + 1, reader[n].pos + 1 >= reader[n].size)
             /\ reader' = [reader EXCEPT ![n].pos = @ + 1]
    <3>1. /\ \A m \in Node : reader'[m].file = reader[m].file /\ reader'[m].size = reader[m].size
                             /\ reader'[m].todo = reader[m].todo
      BY <1>1, <2>2 DEF Generator
    <3>2. ASSUME NEW m \in Node, NEW i \in 1..Len(stream'[m]) PROVE Own(m, stream'[m][i].file)
      <4>1. /\ Len(stream'[n]) = Len(stream[n]) + 1 /\ Len(stream[n]) \in Nat
            /\ \A j \in 1..Len(stream[n]) : stream'[n][j] = stream[n][j]
            /\ stream'[n][Len(stream[n]) + 1].file = f
            /\ m # n => stream'[m] = stream[m]
        <5>1. PICK c : c.file = f /\ stream' = [stream EXCEPT ![n] = Append(@, c)]
          BY <2>2 DEF Yield
        <5>2. stream'[n][Len(stream[n]) + 1] = c
          BY <5>1, Yields
        <5>3. /\ Len(stream'[n]) = Len(stream[n]) + 1
              /\ \A j \in 1..Len(stream[n]) : stream'[n][j] = stream[n][j]
          BY <5>1, Yields
        <5>4. m # n => stream'[m] = stream[m]
          BY <5>1, Yields
        <5>5. Len(stream[n]) \in Nat
          BY NodeFacts
        <5> QED BY <5>1, <5>2, <5>3, <5>4, <5>5
      <4>2. CASE m # n \/ i \in 1..Len(stream[n])
        BY <1>2, <4>1, <4>2 DEF Owned
      <4>3. CASE m = n /\ i = Len(stream[n]) + 1
        BY <2>1, <4>1, <4>3
      <4> QED BY <4>1, <4>2, <4>3
    <3> QED BY <1>2, <1>3, <2>1, <3>1, <3>2 DEF Grown, Owned, Sized, Own, disk
  <2>3. CASE UNCHANGED stream /\ reader' = [reader EXCEPT ![n] = [Idle EXCEPT !.todo = reader[n].todo]]
    <3>1. reader'[n].file = "none" /\ reader'[n].todo = reader[n].todo
      BY <1>1, <2>3 DEF Generator, Idle
    <3>2. \A m \in Node \ {n} : reader'[m] = reader[m]
      BY <1>1, <2>3
    <3> QED BY <1>2, <1>3, <1>4, <2>1, <2>3, <3>1, <3>2 DEF Grown, Owned, Sized, Own, disk
  <2> QED BY <1>6, <2>2, <2>3 DEF Read
<1>7. ASSUME NEW n \in Node, Consume(n) PROVE Grown'
  <2>1. UNCHANGED <<disk, reader, kind>>
    BY <1>7 DEF Consume
  <2>2. CASE stream[n] # <<>> /\ Write(n, Head(stream[n])) /\ stream' = [stream EXCEPT ![n] = Tail(@)]
    <3>1. \A m \in Node : \A i \in 1..Len(stream'[m]) : Own(m, stream'[m][i].file)
      BY <1>2, <2>2, Takes, NodeFacts DEF Owned
    <3>2. handle'[n] \in {"none", stream[n][1].file} /\ Own(n, stream[n][1].file)
      <4>1. Head(stream[n]) = stream[n][1] /\ 1 \in 1..Len(stream[n])
        BY <2>2, Takes, NodeFacts
      <4> QED BY <1>1, <1>2, <2>2, <4>1 DEF Write, Owned
    <3>3. \A m \in Node : handle'[m] # "none" => Own(m, handle'[m])
      BY <1>1, <1>2, <2>2, <3>2 DEF Write, Owned
    <3> QED BY <1>2, <1>3, <2>1, <3>1, <3>3 DEF Grown, Owned, Sized, Own, disk
  <2>3. CASE Fail(n) /\ UNCHANGED stream
    <3>1. \A m \in Node : handle'[m] \in {"none", handle[m]}
      BY <1>1, <2>3 DEF Fail
    <3> QED BY <1>2, <1>3, <2>1, <2>3, <3>1 DEF Grown, Owned, Sized, Own, disk
  <2> QED BY <1>7, <2>2, <2>3 DEF Consume
<1>8. CASE /\ UNCHANGED <<disk, node, kind>>
           /\ \A m \in Node : handle'[m] \in {"none", handle[m]}
  BY <1>2, <1>3, <1>8 DEF Grown, Owned, Sized, Own, disk, node
<1>9. CASE Advance \/ Stall
  BY <1>1, <1>8, <1>9 DEF Advance, Stall
<1>10. ASSUME NEW n \in Node, Seed(n) \/ Answer(n) \/ Break(n) PROVE Grown'
  BY <1>8, <1>10 DEF Seed, Answer, Break, driver
<1>11. CASE Seeded \/ UploadStall \/ LeaveRay \/ Shutdown \/ UNCHANGED vars \/ \E f \in File : LateUpload(f)
  BY <1>8, <1>11 DEF Seeded, UploadStall, LeaveRay, Shutdown, LateUpload, transportVars, vars, driver
<1>12. CASE \A n \in Node : /\ reader'[n].file = "none" /\ reader'[n].todo = {}
                            /\ handle'[n] = "none" /\ stream'[n] = <<>>
  BY <1>3, <1>12 DEF Grown, Owned, Sized, Own
<1>13. CASE Collected \/ CollectLocal \/ CollectRemote
  <2>1. ASSUME NEW n \in Node PROVE /\ reader'[n].file = "none" /\ reader'[n].todo = {}
                                    /\ handle'[n] = "none" /\ stream'[n] = <<>>
    BY <1>1, <1>13 DEF Collected, CollectLocal, CollectRemote, node, Idle, Collecting
  <2> QED BY <1>12, <2>1
<1>14. ASSUME NEW n \in Node, NEW f \in File, UploadFile(n, f) PROVE Grown'
  <2>1. /\ \A m \in Node : /\ reader'[m].file = reader[m].file /\ reader'[m].todo \subseteq reader[m].todo
                           /\ reader'[m].size = reader[m].size
        /\ UNCHANGED <<stream, handle, kind, length, torn>>
    BY <1>1, <1>14 DEF UploadFile, driver, disk, Generator
  <2> QED BY <1>2, <1>3, <2>1 DEF Grown, Owned, Sized, Own
<1>15. ASSUME NEW f \in File, Grow(f) PROVE Grown'
  <2>1. /\ length' = [length EXCEPT ![f] = @ + 1] /\ UNCHANGED <<node, handle, kind>>
        /\ torn' = torn \cup ({f} \cap {reader[Home[f]].file})
    BY <1>15 DEF Grow, driver
  <2>2. ASSUME NEW n \in Node PROVE Owned(n)'
    BY <1>2, <2>1 DEF Owned, Own, node
  <2>3. ASSUME NEW n \in Node, reader[n].file # "none" PROVE Sized(n)'
    <3>1. CASE reader[n].file = f
      <4>1. Home[f] = n /\ f \in torn'
        BY <1>2, <2>1, <2>3, <3>1 DEF Owned, Own
      <4>2. length'[f] = length[f] + 1 /\ length[f] \in Nat /\ reader[n].size \in Nat
        BY <1>1, <2>1, NodeFacts
      <4> QED BY <1>1, <1>2, <2>1, <2>3, <3>1, <4>1, <4>2 DEF Sized, node
    <3>2. CASE reader[n].file # f
      <4>1. reader[n].file \in File
        BY <2>3, NodeFacts
      <4> QED BY <1>1, <1>2, <2>1, <2>3, <3>2, <4>1 DEF Sized, node
    <3> QED BY <3>1, <3>2
  <2> QED BY <1>3, <2>1, <2>2, <2>3 DEF Grown, Sized, node
<1>16. ASSUME NEW k \in Kind, kind = "none", Deploy(k) PROVE Grown'
  <2>1. ASSUME NEW n \in Node
        PROVE  /\ reader'[n].file = "none" /\ reader'[n].todo = StagedOn(n, k)
               /\ handle'[n] = "none" /\ stream'[n] = <<>>
    BY <1>1, <1>16 DEF Deploy, Idle, Collecting
  <2> QED BY <1>3, <1>16, <2>1 DEF Grown, Owned, Sized, Own, Deploy, StagedOn
<1>17. ASSUME NEW k \in Kind, kind = "none", Collect(k) PROVE Grown'
  BY <1>8, <1>16, <1>17 DEF Collect, Undeployed, transportVars, driver
<1>18. CASE Hook
  <2>1. CASE UNCHANGED <<length, torn, node, driver, kind>>
    BY <1>2, <1>3, <2>1 DEF Grown, Owned, Sized, Own, node, driver
  <2> QED BY <1>17, <1>18, <2>1 DEF Hook, Free
<1>19. CASE \E k \in Kind : Call(k)
  BY <1>17, <1>19 DEF Call, Free
<1> QED
  BY <1>5, <1>6, <1>7, <1>9, <1>10, <1>11, <1>13, <1>14, <1>15, <1>18, <1>19
     DEF Next, CollectStep, TransportStep, ShutdownStep, Environment

-----------------------------------------------------------------------------
\* What happens elsewhere leaves the stream of a node as it should be.
LEMMA StreamsKept ==
  ASSUME Inv, NEW n \in Node, Streams(n),
         UNCHANGED <<reader[n], stream[n], handle[n], kind>>,
         torn \subseteq torn', staged' \subseteq staged,
         \A f \in File : Own(n, f) => out'[f] = out[f] \/ Whole(f)'
  PROVE  Streams(n)'
<1> USE TransportAssumption
<1>1. Owned(n)
  BY NodeFacts
<1>2. Linked(n)'
  BY DEF Streams, Linked, Followed
<1>3. Reading(n)'
  <2>1. reader[n].file # "none" => reader[n].file \in File /\ Own(n, reader[n].file)
    BY <1>1, NodeFacts DEF Owned
  <2> QED BY <2>1 DEF Streams, Reading, Whole
<1>4. Opened(n)'
  <2>1. handle[n] # "none" => handle[n] \in File /\ Own(n, handle[n])
    BY <1>1, NodeFacts DEF Owned
  <2> QED BY <2>1 DEF Streams, Opened, Whole
<1>5. Complete(n)'
  <2>1. StagedOn(n, kind)' \subseteq StagedOn(n, kind)
    BY DEF StagedOn
  <2>2. \A f \in StagedOn(n, kind) : f \in File /\ Own(n, f)
    BY DEF StagedOn, Own, Inv, TypeOK, TransportTypeOK
  <2> QED BY <2>1, <2>2 DEF Streams, Complete, Coming, Followed, Whole
<1> QED BY <1>2, <1>3, <1>4, <1>5 DEF Streams

\* A chunk that is added disturbs none of those before it.
LEMMA LinkedAppend ==
  ASSUME Inv, NEW n \in Node, NEW c \in Chunk, Linked(n),
         stream' = [stream EXCEPT ![n] = Append(@, c)],
         UNCHANGED <<handle, torn>>, reader'[n].file = reader[n].file,
         c.last => c.to >= Length[c.file],
         c.from # 1 /\ c.file \notin torn =>
           IF stream[n] = <<>> THEN handle[n] = c.file
           ELSE stream[n][Len(stream[n])].file = c.file /\ ~stream[n][Len(stream[n])].last,
         ~c.last => reader[n].file = c.file
  PROVE  Linked(n)' /\ \A f : \A i \in Nat : Followed(n, f, i) => Followed(n, f, i)'
<1> DEFINE q == stream[n]
           p == stream'[n]
<1>1. /\ q \in Seq(Chunk) /\ Len(q) \in Nat /\ Len(p) = Len(q) + 1
      /\ \A i \in 1..Len(q) : p[i] = q[i]
      /\ p[Len(q) + 1] = c
  BY Yields, NodeFacts
<1>2. q = <<>> <=> Len(q) = 0
  BY <1>1, EmptySeq
<1>3. ASSUME NEW f, NEW i \in Nat, Followed(n, f, i) PROVE Followed(n, f, i)'
  BY <1>1, <1>3 DEF Followed
<1>4. ASSUME NEW i \in 1..Len(p)
      PROVE  /\ p[i].last => p[i].to >= Length[p[i].file]
             /\ p[i].from # 1 /\ p[i].file \notin torn =>
                  IF i = 1 THEN handle[n] = p[i].file ELSE p[i-1].file = p[i].file /\ ~p[i-1].last
             /\ \A f : f = p[i].file /\ ~p[i].last => reader'[n].file = f \/ Followed(n, f, i)'
  <2>1. CASE i \in 1..Len(q)
    <3>1. p[i] = q[i] /\ (i # 1 => p[i-1] = q[i-1]) /\ i \in Nat
      BY <1>1, <2>1
    <3>2. /\ q[i].last => q[i].to >= Length[q[i].file]
          /\ q[i].from # 1 /\ q[i].file \notin torn =>
               IF i = 1 THEN handle[n] = q[i].file ELSE q[i-1].file = q[i].file /\ ~q[i-1].last
          /\ ~q[i].last => reader[n].file = q[i].file \/ Followed(n, q[i].file, i)
      BY <2>1 DEF Linked
    <3>3. \A f : Followed(n, f, i) => Followed(n, f, i)'
      BY <1>3, <3>1
    <3> HIDE DEF q, p
    <3> QED BY <3>1, <3>2, <3>3
  <2>2. CASE i = Len(q) + 1
    <3>1. p[i] = c /\ (i = 1 <=> q = <<>>) /\ (i # 1 => p[i-1] = q[Len(q)])
      BY <1>1, <1>2, <2>2
    <3> QED BY <3>1
  <2> QED BY <1>1, <2>1, <2>2
<1> QED BY <1>3, <1>4 DEF Linked

LEMMA StreamsOpen == ASSUME Inv, NEW n \in Node, Open(n), Streams(n) PROVE Streams(n)'
<1> USE TransportAssumption
<1>1. PICK f \in reader[n].todo :
         \/ /\ length[f] = 1
            /\ reader' = [reader EXCEPT ![n].todo = @ \ {f}]
            /\ Yield(n, f, 1, 1, TRUE)
         \/ /\ length[f] > 1
            /\ reader' = [reader EXCEPT ![n] =
                 [todo |-> @.todo \ {f}, file |-> f, pos |-> 0, size |-> length[f]]]
            /\ UNCHANGED stream
  BY DEF Open
<1>2. /\ f \in File /\ reader[n].file = "none" /\ UNCHANGED <<disk, handle, out, kind>>
      /\ reader \in [Node -> Generator] /\ staged \subseteq File
      /\ Length[f] \in Nat \ {0} /\ Length[f] <= length[f]
  BY NodeFacts DEF Open, driver, Inv, TypeOK, TransportTypeOK, Generator, Grown
<1>3. Opened(n)'
  BY <1>2 DEF Streams, Opened, disk
<1>4. \A g \in StagedOn(n, kind)' : g \in StagedOn(n, kind) /\ g \in File
  BY <1>2 DEF StagedOn, disk
<1>5. CASE length[f] = 1 /\ reader' = [reader EXCEPT ![n].todo = @ \ {f}] /\ Yield(n, f, 1, 1, TRUE)
  <2>1. PICK c \in Chunk : /\ c.file = f /\ c.from = 1 /\ c.to = 1 /\ c.last
                           /\ stream' = [stream EXCEPT ![n] = Append(@, c)]
    BY <1>2, <1>5 DEF Yield, Chunk
  <2>2. reader'[n].file = reader[n].file /\ reader'[n].todo = reader[n].todo \ {f}
    BY <1>2, <1>5 DEF Generator
  <2>3. Linked(n)' /\ \A g : \A i \in Nat : Followed(n, g, i) => Followed(n, g, i)'
    <3>1. c.last => c.to >= Length[c.file]
      BY <1>2, <1>5, <2>1
    <3> QED BY <1>2, <2>1, <2>2, <3>1, LinkedAppend DEF Streams, disk
  <2>4. Followed(n, f, 0)'
    <3>1. /\ Len(stream[n]) \in Nat /\ Len(stream'[n]) = Len(stream[n]) + 1
          /\ stream'[n][Len(stream[n]) + 1] = c
      BY <2>1, Yields, NodeFacts
    <3>2. Len(stream[n]) + 1 \in 0 + 1..Len(stream'[n])
      BY <3>1
    <3> QED BY <2>1, <3>1, <3>2 DEF Followed
  <2>5. Complete(n)'
    BY <1>2, <1>4, <2>2, <2>3, <2>4 DEF Streams, Complete, Coming, Whole, disk
  <2> QED BY <1>2, <1>3, <2>2, <2>3, <2>5 DEF Streams, Reading
<1>6. CASE /\ length[f] > 1 /\ UNCHANGED stream
           /\ reader' = [reader EXCEPT ![n] =
                 [todo |-> @.todo \ {f}, file |-> f, pos |-> 0, size |-> length[f]]]
  <2>1. reader'[n].file = f /\ reader'[n].todo = reader[n].todo \ {f} /\ reader'[n].pos = 0
    BY <1>2, <1>6 DEF Generator
  <2>2. Linked(n)'
    <3>1. \A i \in 1..Len(stream[n]) : ~stream[n][i].last => Followed(n, stream[n][i].file, i)
      BY <1>2, NodeFacts DEF Streams, Linked
    <3> QED BY <1>2, <1>6, <3>1 DEF Streams, Linked, Followed, disk
  <2>3. Complete(n)'
    <3>1. \A g : Followed(n, g, 0) => Followed(n, g, 0)'
      BY <1>6 DEF Followed
    <3>2. \A g : Coming(n, g) => Coming(n, g)' \/ g = "none"
      BY <1>2, <2>1, <3>1 DEF Coming
    <3>3. ASSUME NEW g \in StagedOn(n, kind) PROVE Whole(g) \/ g \in torn \/ Coming(n, g)'
      <4>1. g # "none"
        BY <1>2, <1>4 DEF StagedOn
      <4> QED BY <3>2, <4>1 DEF Streams, Complete
    <3> QED BY <1>2, <3>3 DEF Complete, StagedOn, Whole, disk
  <2> QED BY <1>3, <2>1, <2>2, <2>3 DEF Streams, Reading
<1> QED BY <1>1, <1>5, <1>6

LEMMA StreamsRead == ASSUME Inv, NEW n \in Node, Read(n), Streams(n) PROVE Streams(n)'
<1> USE TransportAssumption
<1> DEFINE r == reader[n]
           q == stream[n]
<1>1. /\ r.file \in File /\ r.pos \in Nat /\ r.size \in Nat /\ reader \in [Node -> Generator]
      /\ 1 < r.size /\ Length[r.file] <= r.size /\ r.size <= length[r.file]
      /\ r.file \in torn \/ r.size = length[r.file]
      /\ Length[r.file] \in Nat /\ length[r.file] \in Nat
      /\ UNCHANGED <<disk, handle, out, kind>> /\ staged \subseteq File
      /\ q \in Seq(Chunk) /\ Len(q) \in Nat
  BY NodeFacts DEF Read, driver, Inv, TypeOK, TransportTypeOK, Generator, Grown, Sized
<1>2. q = <<>> <=> Len(q) = 0
  BY <1>1, EmptySeq
<1>3. Opened(n)'
  BY <1>1 DEF Streams, Opened, disk
<1>4. \A g \in StagedOn(n, kind)' : g \in StagedOn(n, kind) /\ g \in File
  BY <1>1 DEF StagedOn, disk
<1>5. /\ r.pos > 0 /\ r.pos < r.size =>
           IF q = <<>> THEN handle[n] = r.file ELSE q[Len(q)].file = r.file /\ ~q[Len(q)].last
      /\ r.pos > 0 /\ r.pos >= r.size =>
           IF q = <<>> THEN Whole(r.file) \/ r.file \in torn
           ELSE q[Len(q)].file = r.file /\ q[Len(q)].last
  BY <1>1 DEF Streams, Reading
<1>6. CASE /\ r.pos < length[r.file]
           /\ Yield(n, r.file, r.pos + 1, r.pos + 1, r.pos + 1 >= r.size)
           /\ reader' = [reader EXCEPT ![n].pos = @ + 1]
  <2>1. PICK c \in Chunk :
          /\ c.file = r.file /\ c.from = r.pos + 1 /\ c.to = r.pos + 1
          /\ c.last <=> r.pos + 1 >= r.size
          /\ stream' = [stream EXCEPT ![n] = Append(@, c)]
    <3>1. [file |-> r.file, from |-> r.pos + 1, to |-> r.pos + 1, last |-> (r.pos + 1 >= r.size)]
            \in Chunk
      BY <1>1 DEF Chunk
    <3> QED BY <1>6, <3>1 DEF Yield
  <2>2. /\ reader'[n].file = r.file /\ reader'[n].todo = r.todo
        /\ reader'[n].pos = r.pos + 1 /\ reader'[n].size = r.size
    BY <1>1, <1>6 DEF Generator
  <2>3. Linked(n)' /\ \A g : \A i \in Nat : Followed(n, g, i) => Followed(n, g, i)'
    <3>1. c.last => c.to >= Length[c.file]
      BY <1>1, <2>1
    <3>2. c.from # 1 /\ c.file \notin torn => r.pos > 0 /\ r.pos < r.size
      BY <1>1, <1>6, <2>1
    <3> QED BY <1>1, <1>5, <2>1, <2>2, <3>1, <3>2, LinkedAppend DEF Streams, disk
  <2>4. stream'[n] # <<>> /\ stream'[n][Len(stream'[n])] = c
    <3>1. /\ stream'[n] # <<>> /\ Len(stream'[n]) = Len(stream[n]) + 1
          /\ stream'[n][Len(stream[n]) + 1] = c
      BY <2>1, Yields
    <3> QED BY <3>1
  <2>5. Reading(n)'
    BY <1>1, <2>1, <2>2, <2>4 DEF Reading
  <2>6. Complete(n)'
    BY <1>1, <1>4, <2>2, <2>3 DEF Streams, Complete, Coming, Whole, disk
  <2> QED BY <1>3, <2>3, <2>5, <2>6 DEF Streams
<1>7. CASE /\ r.pos >= length[r.file] /\ UNCHANGED stream
           /\ reader' = [reader EXCEPT ![n] = [Idle EXCEPT !.todo = r.todo]]
  <2>1. reader'[n].file = "none" /\ reader'[n].todo = r.todo
    BY <1>1, <1>7 DEF Generator, Idle
  <2>2. r.pos > 0 /\ r.pos >= r.size
    BY <1>1, <1>7
  <2>3. q # <<>> => Len(q) \in 1..Len(q) /\ q[Len(q)].file = r.file /\ q[Len(q)].last
    BY <1>1, <1>2, <1>5, <2>2
  <2>4. \A i \in 1..Len(q) : ~q[i].last => Followed(n, q[i].file, i)
    <3>1. ASSUME NEW i \in 1..Len(q), ~q[i].last, r.file = q[i].file PROVE Followed(n, q[i].file, i)
      <4>1. q # <<>> /\ i # Len(q)
        BY <1>1, <1>2, <2>3, <3>1
      <4>2. Len(q) \in i + 1..Len(q)
        BY <1>1, <4>1
      <4> QED BY <2>3, <3>1, <4>1, <4>2 DEF Followed
    <3> QED BY <3>1 DEF Streams, Linked
  <2>5. Linked(n)'
    BY <1>1, <1>7, <2>4 DEF Streams, Linked, Followed, disk
  <2>6. Whole(r.file) \/ r.file \in torn \/ Followed(n, r.file, 0)
    <3>1. CASE q = <<>>
      BY <1>5, <2>2, <3>1
    <3>2. CASE q # <<>>
      <4>1. Len(q) \in 0 + 1..Len(q)
        BY <2>3, <3>2
      <4> QED BY <2>3, <3>2, <4>1 DEF Followed
    <3> QED BY <3>1, <3>2
  <2>7. Complete(n)'
    BY <1>1, <1>4, <1>7, <2>1, <2>6 DEF Streams, Complete, Coming, Followed, Whole, disk
  <2> QED BY <1>3, <2>1, <2>5, <2>7 DEF Streams, Reading
<1> QED BY <1>6, <1>7 DEF Read

LEMMA StreamsConsume ==
  ASSUME Inv, NEW n \in Node, Streams(n), stream[n] # <<>>, Write(n, Head(stream[n])),
         stream' = [stream EXCEPT ![n] = Tail(@)], UNCHANGED <<disk, reader, kind>>
  PROVE  Streams(n)'
<1> USE TransportAssumption
<1> DEFINE r == reader[n]
           q == stream[n]
           p == stream'[n]
           c == q[1]
<1>1. /\ q \in Seq(Chunk) /\ Len(q) \in Nat /\ Len(q) > 0 /\ Len(p) = Len(q) - 1 /\ Len(p) \in Nat
      /\ \A i \in 1..Len(p) : p[i] = q[i+1]
      /\ Head(q) = c /\ (p = <<>> <=> Len(q) = 1)
      /\ c \in Chunk /\ c.file \in File /\ c.from \in Nat /\ c.to \in Nat /\ 1 \in 1..Len(q)
  <2>1. /\ q \in Seq(Chunk) /\ Len(q) \in Nat /\ Len(q) > 0 /\ Len(p) = Len(q) - 1 /\ Len(p) \in Nat
        /\ \A i \in 1..Len(p) : p[i] = q[i+1]
        /\ Head(q) = c /\ (p = <<>> <=> Len(q) = 1)
    BY Takes, NodeFacts
  <2>2. 1 \in 1..Len(q)
    BY <2>1
  <2>3. c \in Chunk
    BY <2>1, <2>2
  <2> QED BY <2>1, <2>2, <2>3 DEF Chunk
<1>2. /\ out \in [File -> Part] /\ handle \in [Node -> File \cup {"none"}] /\ staged \subseteq File
      /\ Length[c.file] \in Nat /\ r.file \in File \cup {"none"}
  BY <1>1, NodeFacts DEF Inv, TypeOK, TransportTypeOK
<1>3. handle'[n] = IF c.last THEN "none" ELSE c.file
  BY <1>1, <1>2 DEF Write
<1>4. \A f \in File : f # c.file => out'[f] = out[f]
  BY <1>1, <1>2 DEF Write
<1>13. out'[c.file] = Written(n, c)
  BY <1>1, <1>2 DEF Write
<1>5. out'[c.file].to = c.to /\ (out'[c.file].from = 1 \/ c.file \in torn)
  <2>1. CASE handle[n] = c.file
    <3>1. out'[c.file] = [out[c.file] EXCEPT !.to = c.to] /\ out[c.file] \in Part
      BY <1>1, <1>2, <1>13, <2>1 DEF Written
    <3>2. out[c.file].from = 1 \/ c.file \in torn
      BY <1>1, <2>1 DEF Streams, Opened
    <3> QED BY <3>1, <3>2 DEF Part
  <2>2. CASE handle[n] # c.file
    <3>1. out'[c.file] = [from |-> c.from, to |-> c.to]
      BY <1>13, <2>2 DEF Written
    <3>2. c.from = 1 \/ c.file \in torn
      BY <1>1, <2>2 DEF Streams, Linked
    <3> QED BY <3>1, <3>2
  <2> QED BY <2>1, <2>2
<1>6. ASSUME NEW f, f = c.file, c.last PROVE Whole(f)' \/ f \in torn
  <2>1. c.to >= Length[c.file]
    BY <1>1, <1>6 DEF Streams, Linked
  <2> QED BY <1>5, <1>6, <2>1 DEF Whole
<1>7. Opened(n)'
  BY <1>3, <1>5 DEF Opened, disk
<1>8. ASSUME NEW f, NEW i \in Nat, Followed(n, f, i + 1) PROVE Followed(n, f, i)'
  <2>1. PICK j \in i + 1 + 1..Len(q) : q[j].file = f /\ q[j].last
    BY <1>8 DEF Followed
  <2>2. j - 1 \in i + 1..Len(p) /\ p[j - 1] = q[j]
    BY <1>1, <2>1
  <2> QED BY <2>1, <2>2 DEF Followed
<1>9. ASSUME NEW i \in 1..Len(p)
      PROVE  /\ p[i].last => p[i].to >= Length[p[i].file]
             /\ p[i].from # 1 /\ p[i].file \notin torn =>
                  IF i = 1 THEN handle'[n] = p[i].file ELSE p[i-1].file = p[i].file /\ ~p[i-1].last
             /\ \A f : f = p[i].file /\ ~p[i].last => r.file = f \/ Followed(n, f, i)'
  <2>1. i + 1 \in 1..Len(q) /\ p[i] = q[i+1] /\ (i # 1 => p[i-1] = q[i]) /\ i \in Nat
    <3>1. i \in Nat /\ 1 <= i /\ i <= Len(p)
      BY <1>1
    <3>2. i + 1 \in 1..Len(q)
      <4> HIDE DEF p, q
      <4> QED BY <1>1, <3>1
    <3>3. i # 1 => i - 1 \in 1..Len(p) /\ (i - 1) + 1 = i
      <4> HIDE DEF p, q
      <4> QED BY <1>1, <3>1
    <3> HIDE DEF p, q
    <3> QED BY <1>1, <3>1, <3>2, <3>3
  <2>2. /\ q[i+1].last => q[i+1].to >= Length[q[i+1].file]
        /\ q[i+1].from # 1 /\ q[i+1].file \notin torn => q[i].file = q[i+1].file /\ ~q[i].last
        /\ ~q[i+1].last => r.file = q[i+1].file \/ Followed(n, q[i+1].file, i + 1)
    <3>1. i + 1 # 1 /\ (i + 1) - 1 = i
      BY <2>1
    <3> QED BY <2>1, <3>1 DEF Streams, Linked
  <2>3. \A f : Followed(n, f, i + 1) => Followed(n, f, i)'
    BY <1>8, <2>1
  <2> HIDE DEF p, q, r
  <2> QED BY <1>3, <2>1, <2>2, <2>3 DEF c
<1>10. Linked(n)'
  BY <1>9 DEF Linked, disk
<1>11. Reading(n)'
  <2>1. ASSUME p # <<>> PROVE q # <<>> /\ p[Len(p)] = q[Len(q)]
    <3>1. Len(p) \in 1..Len(p) /\ Len(p) + 1 = Len(q)
      BY <1>1, <2>1
    <3> QED BY <1>1, <3>1
  <2>2. ASSUME p = <<>> PROVE q[Len(q)] = c
    BY <1>1, <2>2
  <2>3. ASSUME r.file # "none", r.pos > 0
        PROVE  /\ r.pos < r.size => q[Len(q)].file = r.file /\ ~q[Len(q)].last
               /\ r.pos >= r.size => q[Len(q)].file = r.file /\ q[Len(q)].last
    BY <2>3 DEF Streams, Reading
  <2>4. ASSUME r.file # "none", r.pos > 0, r.pos < r.size
        PROVE  IF p = <<>> THEN handle'[n] = r.file ELSE p[Len(p)].file = r.file /\ ~p[Len(p)].last
    BY <1>3, <2>1, <2>2, <2>3, <2>4
  <2>5. ASSUME r.file # "none", r.pos > 0, r.pos >= r.size
        PROVE  \A f : f = r.file => IF p = <<>> THEN Whole(f)' \/ f \in torn
                                    ELSE p[Len(p)].file = f /\ p[Len(p)].last
    <3>1. \A f : f = c.file /\ c.last => Whole(f)' \/ f \in torn
      BY <1>6
    <3> QED BY <2>1, <2>2, <2>3, <2>5, <3>1
  <2> QED BY <2>4, <2>5 DEF Reading, disk, Whole
<1>12. Complete(n)'
  <2>1. ASSUME NEW f \in StagedOn(n, kind), f # c.file
        PROVE  Whole(f)' \/ f \in torn \/ Coming(n, f)'
    <3>1. f \in File /\ (Whole(f) \/ f \in torn \/ Coming(n, f))
      BY <1>2 DEF Streams, Complete, StagedOn
    <3>2. CASE Followed(n, f, 0)
      <4>1. PICK j \in 0 + 1..Len(q) : q[j].file = f /\ q[j].last
        BY <3>2 DEF Followed
      <4>2. j \in 0 + 1 + 1..Len(q)
        BY <1>1, <2>1, <4>1
      <4>3. Followed(n, f, 0 + 1)
        BY <4>1, <4>2 DEF Followed
      <4> QED BY <1>8, <4>3 DEF Coming
    <3>3. CASE ~Followed(n, f, 0)
      BY <1>4, <2>1, <3>1, <3>3 DEF Coming, Whole
    <3> QED BY <3>2, <3>3
  <2>2. ASSUME NEW f, f = c.file PROVE Whole(f)' \/ f \in torn \/ Coming(n, f)'
    <3>1. CASE c.last
      BY <1>6, <2>2, <3>1
    <3>2. CASE ~c.last
      <4>1. r.file = f \/ Followed(n, f, 1)
        BY <1>1, <2>2, <3>2 DEF Streams, Linked
      <4>2. Followed(n, f, 0 + 1) => Followed(n, f, 0)'
        BY <1>8
      <4> QED BY <4>1, <4>2 DEF Coming
    <3> QED BY <3>1, <3>2
  <2> QED BY <2>1, <2>2 DEF Complete, StagedOn, disk
<1> QED BY <1>7, <1>10, <1>11, <1>12 DEF Streams

-----------------------------------------------------------------------------
\* An uploader that is being killed writes one file, and the whole of it.
LEMMA LateIsWhole ==
  ASSUME Inv, NEW f \in File, LateUpload(f)
  PROVE  /\ Whole(f)' /\ f \in loose /\ \A g \in File \ {f} : out'[g] = out[g]
         /\ UNCHANGED <<disk, node, driver, life, kind, faults>>
         /\ UNCHANGED <<pc, hooks, mode, collected, raised, unsent, lost, calls, early>>
<1>1. out \in [File -> Part] /\ Length[f] <= length[f]
  BY DEF Inv, TypeOK, TransportTypeOK, Grown
<1>2. out'[f] = [from |-> 1, to |-> length[f]] /\ \A g \in File \ {f} : out'[g] = out[g]
  BY <1>1 DEF LateUpload
<1> QED BY <1>1, <1>2 DEF LateUpload, Whole

\* Only files of the kind being collected are written, and of a node that
\* there is no verdict about, unless the uploader is being killed.
LEMMA Writes ==
  ASSUME Inv, [Next]_vars, NEW f \in File, out'[f] # out[f], ~LateUpload(f)
  PROVE  Of[f] = kind /\ verdict[Home[f]] = "none" /\ Home[f] \in pending
<1> USE TransportAssumption
<1>1. out \in [File -> Part] /\ \A n \in pending : verdict[n] = "none"
  BY DEF Inv, TypeOK, TransportTypeOK, Driven
<1>2. ASSUME NEW n \in Node, Consume(n)
      PROVE  Of[f] = kind /\ verdict[Home[f]] = "none" /\ Home[f] \in pending
  <2>1. stream[n] # <<>> /\ n \in pending
    BY <1>2 DEF Consume
  <2>2. Head(stream[n]) = stream[n][1] /\ 1 \in 1..Len(stream[n])
    <3>1. Len(stream[n]) > 0 /\ Head(stream[n]) = stream[n][1]
      BY <2>1, NodeFacts
    <3> QED BY <3>1, NodeFacts
  <2>3. PICK part : out' = [out EXCEPT ![Head(stream[n]).file] = part]
    BY <1>2, <1>1 DEF Consume, Write, WriteFails
  <2>4. f = stream[n][1].file
    BY <1>1, <2>2, <2>3
  <2>5. Own(n, f)
    BY <2>2, <2>4, NodeFacts DEF Owned
  <2> QED BY <1>1, <2>1, <2>5 DEF Own
<1>3. ASSUME NEW n \in Node, NEW g \in File, UploadFile(n, g)
      PROVE  Of[f] = kind /\ verdict[Home[f]] = "none" /\ Home[f] \in pending
  <2>1. g = f
    BY <1>1, <1>3 DEF UploadFile
  <2>2. Own(n, f)
    BY <1>3, <2>1, NodeFacts DEF Owned, UploadFile
  <2> QED BY <1>1, <1>3, <2>2 DEF Own, UploadFile
<1>4. ASSUME NEW g \in File PROVE ~LateUpload(g)
  BY LateIsWhole, <1>4
<1>5. out' # out
  OBVIOUS
<1> QED
  BY <1>2, <1>3, <1>4, <1>5
     DEF Next, CollectStep, TransportStep, ShutdownStep, Environment, Open, Read, Seed, Seeded,
         Advance, Stall, Collected, Answer, UploadStall, CollectLocal, CollectRemote, Call, Collect,
         Deploy, Undeployed, Shutdown, Hook, LeaveRay, Break, Grow, vars, transportVars

\* What was collected of a kind stays as it is, or is written whole.
LEMMA StaysWhole ==
  ASSUME Inv, [Next]_vars, NEW f \in File,
         Of[f] # kind \/ verdict[Home[f]] # "none"
  PROVE  out'[f] = out[f] \/ Whole(f)'
BY Writes, LateIsWhole

LEMMA StreamedStep == Inv /\ [Next]_vars => Streamed'
<1> SUFFICES ASSUME Inv, [Next]_vars, Collecting', NEW n \in Node, verdict'[n] = "none"
             PROVE  Streams(n)'
  BY DEF Streamed
<1> USE TransportAssumption
<1>1. /\ Collecting /\ verdict[n] = "none" => Streams(n)
      /\ step = "idle" <=> kind = "none"
      /\ ~Collecting => stream[n] = <<>> /\ handle[n] = "none"
      /\ verdict \in [Node -> {"none", "ok", "failed", "absent"}]
      /\ handle \in [Node -> File \cup {"none"}]
      /\ stream \in [Node -> Seq(Chunk)] /\ reader \in [Node -> Generator]
  BY DEF Inv, Streamed, Driven, TypeOK, TransportTypeOK, Generator
<1>2. CASE /\ Collecting /\ verdict[n] = "none"
           /\ UNCHANGED <<reader[n], stream[n], handle[n], kind>>
           /\ torn \subseteq torn' /\ staged' \subseteq staged
           /\ \A f \in File : Own(n, f) => out'[f] = out[f] \/ Whole(f)'
  BY <1>1, <1>2, StreamsKept
<1>3. ASSUME NEW m \in Node, Open(m) PROVE Streams(n)'
  <2>1. Collecting /\ verdict[n] = "none" /\ UNCHANGED <<disk, handle, out, kind>>
    BY <1>3 DEF Open, Streaming, Collecting, driver
  <2>2. CASE m = n
    BY <1>1, <1>3, <2>1, <2>2, StreamsOpen
  <2>3. CASE m # n
    <3>1. UNCHANGED <<reader[n], stream[n]>>
      BY <1>1, <1>3, <2>3 DEF Open, Yield
    <3> QED BY <1>1, <1>2, <2>1, <3>1 DEF disk
  <2> QED BY <2>2, <2>3
<1>4. ASSUME NEW m \in Node, Read(m) PROVE Streams(n)'
  <2>1. Collecting /\ verdict[n] = "none" /\ UNCHANGED <<disk, handle, out, kind>>
    BY <1>4 DEF Read, Streaming, Collecting, driver
  <2>2. CASE m = n
    BY <1>1, <1>4, <2>1, <2>2, StreamsRead
  <2>3. CASE m # n
    <3>1. UNCHANGED <<reader[n], stream[n]>>
      BY <1>1, <1>4, <2>3 DEF Read, Yield
    <3> QED BY <1>1, <1>2, <2>1, <3>1 DEF disk
  <2> QED BY <2>2, <2>3
<1>5. ASSUME NEW m \in Node, Consume(m) PROVE Streams(n)'
  <2>1. Collecting /\ UNCHANGED <<disk, reader, kind>>
    BY <1>5 DEF Consume, Collecting
  <2>2. CASE /\ stream[m] # <<>> /\ Write(m, Head(stream[m])) /\ UNCHANGED verdict
             /\ stream' = [stream EXCEPT ![m] = Tail(@)]
    <3>1. CASE m = n
      BY <1>1, <2>1, <2>2, <3>1, StreamsConsume
    <3>2. CASE m # n
      <4>1. Head(stream[m]) = stream[m][1] /\ 1 \in 1..Len(stream[m])
        BY <2>2, Takes, NodeFacts
      <4>2. Own(m, stream[m][1].file)
        BY <4>1, NodeFacts DEF Owned
      <4>3. \A f \in File : Own(n, f) => out'[f] = out[f]
        <5>1. out \in [File -> Part]
          BY DEF Inv, TypeOK, TransportTypeOK
        <5> QED BY <2>2, <3>2, <4>1, <4>2, <5>1 DEF Write, Own
      <4>4. UNCHANGED <<reader[n], stream[n], handle[n]>>
        BY <1>1, <2>1, <2>2, <3>2 DEF Write
      <4> QED BY <1>2, <2>1, <2>2, <4>3, <4>4 DEF disk
    <3> QED BY <3>1, <3>2
  <2>3. CASE Fail(m) /\ UNCHANGED stream
    <3>1. m # n /\ verdict[n] = "none" /\ UNCHANGED handle[n]
      BY <1>1, <2>3 DEF Fail
    <3>2. ASSUME NEW f \in File, Own(n, f) PROVE out'[f] = out[f] \/ Whole(f)'
      <4>1. stream[m] # <<>> => Head(stream[m]) = stream[m][1] /\ 1 \in 1..Len(stream[m])
        BY NodeFacts
      <4>2. stream[m] # <<>> => Own(m, Head(stream[m]).file)
        BY <4>1, NodeFacts DEF Owned
      <4>3. \/ UNCHANGED out
            \/ /\ stream[m] # <<>>
               /\ \E part : out' = [out EXCEPT ![Head(stream[m]).file] = part]
        BY <1>5 DEF Consume, Write, WriteFails
      <4>4. out \in [File -> Part]
        BY DEF Inv, TypeOK, TransportTypeOK
      <4> QED BY <3>1, <3>2, <4>2, <4>3, <4>4 DEF Own
    <3> QED BY <1>2, <2>1, <2>3, <3>1, <3>2 DEF disk
  <2> QED BY <1>5, <2>2, <2>3 DEF Consume
<1>6. ASSUME NEW m \in Node, Seed(m) PROVE Streams(n)'
  <2>1. verdict[n] = "none"
    BY <1>1, <1>6 DEF Seed
  <2> QED BY <1>2, <1>6, <2>1 DEF Seed, Collecting, disk, node
<1>7. CASE Seeded
  BY <1>2, <1>7 DEF Seeded, Collecting, disk, node
<1>8. CASE Advance
  <2>1. at \in Node
    BY <1>8 DEF Advance, Inv, Driven
  <2>2. verdict[n] = "none" /\ UNCHANGED handle[n]
    BY <1>1, <1>8, <2>1 DEF Advance
  <2> QED BY <1>2, <1>8, <2>2 DEF Advance, Collecting, disk, node
<1>9. CASE Stall
  <2>1. verdict[n] = "none" /\ UNCHANGED handle[n]
    BY <1>1, <1>9 DEF Stall
  <2> QED BY <1>2, <1>9, <2>1 DEF Stall, Collecting, disk, node
<1>10. CASE Collected \/ CollectLocal \/ CollectRemote
  BY <1>10 DEF Collected, CollectLocal, CollectRemote, Leave, Collecting
<1>11. ASSUME NEW m \in Node, Answer(m) \/ \E f \in File : UploadFile(m, f) PROVE Streams(n)'
  BY <1>11 DEF Answer, UploadFile, driver, Collecting
<1>12. CASE UploadStall
  BY <1>12 DEF UploadStall, Collecting
<1>13. CASE /\ UNCHANGED <<node, driver, out, kind>>
            /\ torn \subseteq torn' /\ staged' \subseteq staged
  BY <1>2, <1>13 DEF node, driver, Collecting
<1>19. ASSUME NEW g \in File, LateUpload(g) PROVE Streams(n)'
  <2>1. UNCHANGED <<disk, node, driver, kind>> /\ \A f \in File : out'[f] = out[f] \/ Whole(f)'
    BY <1>19, LateIsWhole
  <2> QED BY <1>2, <2>1 DEF disk, node, driver, Collecting
<1>14. CASE Environment \/ LeaveRay \/ Shutdown \/ UNCHANGED vars
  BY <1>13, <1>14, <1>19
     DEF Environment, Grow, Break, LeaveRay, Shutdown, vars, transportVars, disk
<1>15. ASSUME NEW k \in Kind, kind = "none", Deploy(k) PROVE Streams(n)'
  <2>1. /\ reader'[n].file = "none" /\ reader'[n].todo = StagedOn(n, k)
        /\ handle'[n] = "none" /\ stream'[n] = <<>> /\ kind' = k /\ UNCHANGED staged
    BY <1>1, <1>15 DEF Deploy, Idle, Collecting
  <2>2. Linked(n)' /\ Reading(n)' /\ Opened(n)'
    BY <2>1 DEF Linked, Reading, Opened
  <2>3. Complete(n)'
    BY <2>1 DEF Complete, Coming, StagedOn
  <2> QED BY <2>2, <2>3 DEF Streams
<1>16. ASSUME NEW k \in Kind, kind = "none", Collect(k) PROVE Streams(n)'
  BY <1>13, <1>15, <1>16 DEF Collect, Undeployed, transportVars, disk
<1>17. CASE Hook
  <2>1. CASE UNCHANGED driver
    BY <1>1, <1>17, <2>1 DEF Hook, Free, driver, Collecting
  <2> QED BY <1>16, <1>17, <2>1 DEF Hook, Free
<1>18. CASE \E k \in Kind : Call(k)
  BY <1>16, <1>18 DEF Call, Free
<1> QED
  BY <1>3, <1>4, <1>5, <1>6, <1>7, <1>8, <1>9, <1>10, <1>11, <1>12, <1>14, <1>17, <1>18
     DEF Next, CollectStep, TransportStep, ShutdownStep

\* A generator that came to its end had every file of the node delivered.
LEMMA ExhaustedIsWhole ==
  ASSUME Inv, NEW n \in Node, Collecting, verdict[n] = "none", Exhausted(n)
  PROVE  \A f \in StagedOn(n, kind) : Whole(f) \/ f \in torn
<1>1. Complete(n) /\ staged \subseteq File
  BY DEF Inv, Streamed, Streams, TypeOK, TransportTypeOK
<1>2. \A f \in StagedOn(n, kind) : f \in File /\ f # "none"
  BY <1>1, TransportAssumption DEF StagedOn
<1>3. stream[n] = <<>> /\ reader[n].todo = {} /\ reader[n].file = "none"
  BY DEF Exhausted
<1>4. Len(stream[n]) = 0
  BY <1>3
<1>5. \A f : ~Followed(n, f, 0)
  BY <1>4 DEF Followed
<1> QED BY <1>1, <1>2, <1>3, <1>5 DEF Complete, Coming

LEMMA OkIsWholeStep == Inv /\ [Next]_vars => OkIsWhole'
<1> DEFINE Chunked == {"seed", "wait", "next", "over"}
<1> SUFFICES ASSUME Inv, [Next]_vars, kind' # "none", step' \in Chunked, NEW n \in Node,
                    verdict'[n] = "ok", NEW f \in File, f \in StagedOn(n, kind)'
             PROVE  Whole(f)' \/ f \in torn'
  BY FilesTypeStep DEF OkIsWhole, StagedOn, FilesTyped
<1> USE TransportAssumption
<1>1. /\ verdict \in [Node -> {"none", "ok", "failed", "absent"}] /\ staged \subseteq File
      /\ step = "idle" <=> kind = "none"
  BY DEF Inv, TypeOK, TransportTypeOK, Driven
<1>2. CASE /\ step \in Chunked /\ verdict[n] = "ok" /\ kind' = kind
           /\ staged' \subseteq staged /\ torn \subseteq torn'
  <2>1. f \in StagedOn(n, kind) /\ Home[f] = n
    BY <1>2 DEF StagedOn
  <2>2. Whole(f) \/ f \in torn
    BY <1>1, <1>2, <2>1 DEF Inv, OkIsWhole
  <2>3. out'[f] = out[f] \/ Whole(f)'
    BY <1>2, <2>1, StaysWhole
  <2> QED BY <1>2, <2>2, <2>3 DEF Whole
<1>3. CASE /\ Collecting /\ verdict[n] = "none" /\ Exhausted(n)
           /\ UNCHANGED <<staged, torn, out, kind>>
  BY <1>3, ExhaustedIsWhole DEF Whole, StagedOn
<1>4. ASSUME NEW m \in Node, Seed(m) PROVE Whole(f)' \/ f \in torn'
  BY <1>1, <1>2, <1>3, <1>4 DEF Seed, disk, Collecting
<1>5. CASE Advance
  <2>1. at \in Node /\ verdict[at] = "none"
    BY <1>5 DEF Advance, Inv, Driven
  <2> QED BY <1>1, <1>2, <1>3, <1>5, <2>1 DEF Advance, disk, Collecting
<1>6. ASSUME NEW m \in Node, Open(m) \/ Read(m) PROVE Whole(f)' \/ f \in torn'
  BY <1>2, <1>6 DEF Open, Read, Streaming, disk, driver
<1>7. ASSUME NEW m \in Node, Consume(m) PROVE Whole(f)' \/ f \in torn'
  <2>1. verdict[n] = "ok"
    BY <1>1, <1>7 DEF Consume, Fail
  <2> QED BY <1>2, <1>7, <2>1 DEF Consume, disk
<1>8. CASE Seeded \/ Stall \/ Collected
  BY <1>1, <1>2, <1>8 DEF Seeded, Stall, Collected, disk
<1>9. CASE CollectLocal \/ CollectRemote
  BY <1>9 DEF CollectLocal, CollectRemote, Leave
<1>10. CASE UploadStall \/ \E m \in Node : Answer(m) \/ \E g \in File : UploadFile(m, g)
  BY <1>10 DEF UploadStall, Answer, UploadFile, driver
<1>11. CASE UNCHANGED <<driver, kind>> /\ staged' \subseteq staged /\ torn \subseteq torn'
  BY <1>2, <1>11 DEF driver
<1>12. CASE Environment \/ LeaveRay \/ Shutdown \/ UNCHANGED vars
  BY <1>11, <1>12
     DEF Environment, Grow, Break, LateUpload, LeaveRay, Shutdown, vars, transportVars, disk
<1>13. ASSUME NEW k \in Kind, kind = "none", Collect(k) PROVE Whole(f)' \/ f \in torn'
  BY <1>11, <1>13 DEF Collect, Deploy, Undeployed, transportVars, disk
<1>14. CASE Hook
  <2>1. CASE UNCHANGED <<driver, kind>>
    BY <1>14, <2>1 DEF Hook, Free
  <2> QED BY <1>13, <1>14, <2>1 DEF Hook, Free
<1>15. CASE \E k \in Kind : Call(k)
  BY <1>13, <1>15 DEF Call, Free
<1> QED
  BY <1>4, <1>5, <1>6, <1>7, <1>8, <1>9, <1>10, <1>12, <1>14, <1>15
     DEF Next, CollectStep, TransportStep, ShutdownStep

LEMMA UploadedStep == Inv /\ [Next]_vars => Uploaded'
<1> DEFINE Sent(f, n) ==
      /\ n \in pending => Whole(f) \/ f \in unsent \/ f \in reader[n].todo
      /\ verdict[n] = "ok" => Whole(f) \/ (f \in unsent /\ ~mode.strict)
<1> SUFFICES ASSUME Inv, [Next]_vars, step' = "upload", NEW n \in Node,
                    NEW f \in File, f \in StagedOn(n, kind)'
             PROVE  Sent(f, n)'
  BY FilesTypeStep DEF Uploaded, StagedOn, FilesTyped
<1> USE TransportAssumption
<1>1. /\ verdict \in [Node -> {"none", "ok", "failed", "absent"}] /\ staged \subseteq File
      /\ step = "idle" <=> kind = "none"
      /\ reader \in [Node -> Generator] /\ out \in [File -> Part]
      /\ Length[f] <= length[f]
  BY DEF Inv, TypeOK, TransportTypeOK, Driven, Grown, Generator
<1>2. step = "upload" /\ f \in StagedOn(n, kind) => Sent(f, n)
  BY DEF Inv, Uploaded
<1>3. CASE /\ UNCHANGED <<step, kind, staged, pending, verdict, unsent, reader, mode>>
           /\ out'[f] = out[f] \/ Whole(f)'
  BY <1>2, <1>3 DEF Whole, StagedOn
<1>4. ASSUME NEW m \in Node, NEW g \in File, UploadFile(m, g) PROVE Sent(f, n)'
  <2>1. /\ step = "upload" /\ UNCHANGED <<kind, staged, pending, verdict, mode>>
        /\ f \in StagedOn(n, kind) /\ reader' = [reader EXCEPT ![m].todo = @ \ {g}]
    BY <1>4 DEF UploadFile, disk, driver, StagedOn
  <2>2. f # g => (f \in reader[n].todo => f \in reader'[n].todo)
    BY <1>1, <2>1 DEF Generator
  <2>3. CASE out' = [out EXCEPT ![g] = [from |-> 1, to |-> length[g]]] /\ UNCHANGED unsent
    <3>1. CASE f = g
      <4>1. Whole(f)'
        BY <1>1, <2>3, <3>1 DEF Whole
      <4> QED BY <4>1
    <3>2. CASE f # g
      BY <1>1, <1>2, <2>1, <2>2, <2>3, <3>2 DEF Whole
    <3> QED BY <3>1, <3>2
  <2>4. CASE unsent' = unsent \cup {g} /\ UNCHANGED out
    <3>1. f \in reader[n].todo => f \in unsent' \/ f \in reader'[n].todo
      BY <2>2, <2>4
    <3> QED BY <1>2, <2>1, <2>4, <3>1 DEF Whole
  <2> QED BY <1>4, <2>3, <2>4 DEF UploadFile
<1>5. ASSUME NEW m \in Node, Answer(m) PROVE Sent(f, n)'
  <2>1. /\ step = "upload" /\ f \in StagedOn(n, kind) /\ m \in pending /\ pending' = pending \ {m}
        /\ UNCHANGED <<out, reader, unsent, mode>>
    BY <1>5 DEF Answer, disk, node, delivery, StagedOn
  <2>2. CASE m = n /\ verdict'[n] = "ok"
    <3>1. reader[n].todo = {} /\ ~Broken(n)
      BY <1>1, <1>5, <2>2 DEF Answer
    <3>2. Whole(f) \/ f \in unsent
      BY <1>2, <2>1, <2>2, <3>1
    <3>3. f \in unsent => ~mode.strict
      BY <2>1, <3>1 DEF Broken, StagedOn
    <3> QED BY <2>1, <2>2, <3>2, <3>3 DEF Whole
  <2>3. CASE m # n
    BY <1>1, <1>2, <1>5, <2>1, <2>3 DEF Answer, Whole
  <2>4. CASE m = n /\ verdict'[n] # "ok"
    BY <2>1, <2>4
  <2> QED BY <2>2, <2>3, <2>4
<1>6. CASE UploadStall
  BY <1>1, <1>2, <1>6 DEF UploadStall, disk, node, delivery, StagedOn, Whole
<1>7. CASE Environment
  <2>1. CASE \E g \in File : LateUpload(g)
    <3>1. /\ UNCHANGED <<disk, node, driver, kind, unsent, mode>>
          /\ out'[f] = out[f] \/ Whole(f)'
      BY <2>1, LateIsWhole
    <3> QED BY <1>3, <3>1 DEF disk, node, driver
  <2>2. CASE ~\E g \in File : LateUpload(g)
    BY <1>3, <1>7, <2>2 DEF Environment, Grow, Break, driver, node, disk, delivery
  <2> QED BY <2>1, <2>2
<1>8. CASE Shutdown \/ LeaveRay \/ UNCHANGED vars
  BY <1>3, <1>8 DEF Shutdown, LeaveRay, vars, transportVars, disk, driver, node, delivery
<1>9. CASE TransportStep
  BY <1>9 DEF TransportStep, Seeded, Advance, Stall, Collected, Open, Read, Seed, Consume, Streaming,
              driver
<1>10. CASE CollectLocal \/ CollectRemote
  BY <1>10 DEF CollectLocal, CollectRemote, Leave
<1>11. ASSUME NEW k \in Kind, kind = "none", Collect(k) PROVE Sent(f, n)'
  <2>1. CASE Deploy(k)
    <3>1. /\ kind' = k /\ UNCHANGED staged /\ verdict'[n] # "ok"
          /\ reader'[n].todo = StagedOn(n, k)
      BY <1>1, <2>1 DEF Deploy, Idle
    <3> QED BY <3>1 DEF StagedOn
  <2>2. CASE UNCHANGED step
    BY <1>1, <1>11, <2>2
  <2> QED BY <1>11, <2>1, <2>2 DEF Collect, Undeployed, driver, transportVars
<1>12. CASE Hook
  <2>1. CASE UNCHANGED driver
    BY <1>1, <1>12, <2>1 DEF Hook, Free, driver
  <2> QED BY <1>11, <1>12, <2>1 DEF Hook, Free
<1>13. CASE \E k \in Kind : Call(k)
  BY <1>11, <1>13 DEF Call, Free
<1> QED
  BY <1>4, <1>5, <1>6, <1>7, <1>8, <1>9, <1>10, <1>12, <1>13 DEF Next, CollectStep, ShutdownStep

-----------------------------------------------------------------------------
\* Whether a hook is taken, and which.
LEMMA Hooks ==
  ASSUME Inv, Hook
  PROVE  /\ Len(hooks') = Len(hooks) - 1 /\ Len(hooks) \in Nat /\ Len(hooks') \in Nat
         /\ Len(Order) \in Nat /\ Len(hooks') <= Len(Order)
         /\ \A i \in 1..Len(hooks') : hooks'[i] = hooks[i]
         /\ hooks[Len(hooks)] = IF Len(hooks) = Len(Order) + 1 THEN "flush" ELSE Order[Len(hooks)]
         /\ Len(hooks) \in 1..Len(hooks)
         /\ Len(hooks) <= Len(Order) => Order[Len(hooks)] \in Kind
         /\ ~Unflushed'
<1>1. /\ hooks \in Seq(Kind \cup {"flush"}) /\ hooks # <<>> /\ Len(hooks) <= Len(Order) + 1
      /\ hooks' = SubSeq(hooks, 1, Len(hooks) - 1) /\ Order \in Seq(Kind)
      /\ \A i \in 1..Len(hooks) : hooks[i] = IF i <= Len(Order) THEN Order[i] ELSE "flush"
  BY DeliveryAssumption DEF Inv, TypeOK, Hook, Hooked
<1>2. /\ Len(hooks') = Len(hooks) - 1 /\ Len(hooks') \in Nat
      /\ \A i \in 1..Len(hooks') : hooks'[i] = hooks[i]
  <2>1. /\ hooks \in Seq(Kind \cup {"flush"}) /\ hooks # <<>>
        /\ hooks' = SubSeq(hooks, 1, Len(hooks) - 1)
    BY <1>1
  <2>2. Len(hooks') = Len(hooks) - 1
    BY <2>1, Front
  <2>3. Len(hooks') \in Nat
    BY <2>1, Front
  <2>4. \A i \in 1..Len(hooks') : hooks'[i] = hooks[i]
    BY <2>1, Front
  <2> QED BY <2>2, <2>3, <2>4
<1>3. Len(hooks) \in Nat /\ Len(Order) \in Nat /\ Len(hooks) \in 1..Len(hooks)
  BY <1>1, <1>2
<1>4. \A i \in 1..Len(Order) : Order[i] \in Kind /\ Order[i] # "flush"
  BY <1>1, DeliveryAssumption
<1>5. hooks[Len(hooks)] = IF Len(hooks) = Len(Order) + 1 THEN "flush" ELSE Order[Len(hooks)]
  BY <1>1, <1>3
<1>6. ASSUME NEW i \in 1..Len(hooks') PROVE hooks'[i] # "flush"
  <2>1. i \in 1..Len(hooks) /\ i \in 1..Len(Order)
    BY <1>1, <1>2, <1>3
  <2> QED BY <1>1, <1>2, <1>4, <2>1
<1> QED BY <1>1, <1>2, <1>3, <1>4, <1>5, <1>6 DEF Unflushed

LEMMA HookedStep == Inv /\ [Next]_vars => Hooked'
<1> SUFFICES ASSUME Inv, [Next]_vars PROVE Hooked'
  OBVIOUS
<1> USE TransportAssumption
<1>1. Hooked /\ Len(Order) \in Nat /\ kind \in Kind \cup {"none"} /\ (step = "idle" <=> kind = "none")
  BY DeliveryAssumption DEF Inv, Driven, TypeOK, TransportTypeOK
<1>2. CASE UNCHANGED <<hooks, early>> /\ kind' \in {kind, "none"} /\ (pc' = pc \/ Shutdown \/ LeaveRay)
  BY <1>1, <1>2 DEF Hooked, Shutdown, LeaveRay, Free, transportVars
<1>3. CASE TransportStep /\ UNCHANGED delivery
  BY <1>2, <1>3 DEF TransportStep, Seeded, Advance, Stall, Collected, Open, Read, Seed, Consume, delivery
<1>4. CASE \/ CollectLocal \/ CollectRemote \/ UploadStall
           \/ \E m \in Node : Answer(m) \/ \E f \in File : UploadFile(m, f)
  BY <1>2, <1>4 DEF CollectLocal, CollectRemote, Leave, UploadStall, Answer, UploadFile, delivery
<1>5. CASE Environment \/ Shutdown \/ LeaveRay \/ UNCHANGED vars
  BY <1>2, <1>5
     DEF Environment, Grow, Break, LateUpload, Shutdown, LeaveRay, vars, transportVars, delivery
<1>6. CASE \E k \in Kind : Call(k)
  <2>1. PICK k \in Kind : Collect(k) /\ early' = early \cup {k} /\ UNCHANGED <<pc, hooks>>
                          /\ pc = "pipeline" /\ kind = "none"
    BY <1>6 DEF Call, Free
  <2>2. kind' \in {k, kind}
    BY <2>1 DEF Collect, Deploy, Undeployed, transportVars
  <2> QED BY <1>1, <2>1, <2>2 DEF Hooked
<1>7. CASE Hook
  <2>1. pc = "hooks" /\ pc' = "hooks"
    BY <1>7 DEF Hook
  <2> QED BY <1>1, <1>7, <2>1, Hooks DEF Hooked
<1> QED BY <1>3, <1>4, <1>5, <1>6, <1>7 DEF Next, CollectStep, ShutdownStep

LEMMA KeptStep == Inv /\ [Next]_vars => Kept'
<1> SUFFICES ASSUME Inv, [Next]_vars PROVE Kept'
  OBVIOUS
<1> USE TransportAssumption, DeliveryAssumption
<1>1. /\ Kept /\ kind \in Kind \cup {"none"} /\ staged \subseteq File /\ Driver \in Node
      /\ verdict \in [Node -> {"none", "ok", "failed", "absent"}]
      /\ life \in [Node -> Life] /\ collected \subseteq Kind
      /\ (step = "idle" <=> kind = "none")
  BY DEF Inv, Driven, TypeOK, TransportTypeOK
<1>2. CASE /\ UNCHANGED <<kind, collected, staged, hooks>>
           /\ life'[Driver] # "gone" /\ verdict'[Driver] # "absent"
  BY <1>1, <1>2 DEF Kept, Unflushed
<1>3. CASE TransportStep /\ UNCHANGED delivery
  <2>1. UNCHANGED <<kind, collected, staged, hooks, life>>
    BY <1>3 DEF TransportStep, Seeded, Advance, Stall, Collected, Open, Read, Seed, Consume, delivery,
                disk
  <2>2. verdict'[Driver] # "absent"
    <3>1. CASE \/ Seeded \/ Collected \/ \E n \in Node : Open(n) \/ Read(n)
      BY <1>1, <3>1 DEF Kept, Seeded, Collected, Open, Read, driver
    <3>2. CASE Advance
      BY <1>1, <3>2 DEF Kept, Advance
    <3>3. CASE Stall
      BY <1>1, <3>3 DEF Kept, Stall
    <3>4. ASSUME NEW n \in Node, Seed(n) \/ Consume(n) PROVE verdict'[Driver] # "absent"
      BY <1>1, <3>4 DEF Kept, Seed, Consume, Fail
    <3> QED BY <1>3, <3>1, <3>2, <3>3, <3>4 DEF TransportStep
  <2> QED BY <1>1, <1>2, <2>1, <2>2 DEF Kept
<1>4. ASSUME NEW n \in Node, Answer(n) PROVE Kept'
  BY <1>1, <1>2, <1>4 DEF Kept, Answer, disk, delivery
<1>5. ASSUME NEW n \in Node, NEW f \in File, UploadFile(n, f) PROVE Kept'
  BY <1>1, <1>2, <1>5 DEF Kept, UploadFile, disk, driver
<1>6. CASE UploadStall
  BY <1>1, <1>2, <1>6 DEF Kept, UploadStall, disk, delivery
<1>7. CASE CollectLocal \/ CollectRemote
  <2>1. /\ kind' = "none" /\ UNCHANGED <<hooks, life, verdict>>
        /\ \/ UNCHANGED <<staged, collected>>
           \/ /\ collected' = collected \cup {kind} /\ kind \in Kind
              /\ staged' = staged \ StagedOn(Driver, kind)
    BY <1>1, <1>7 DEF CollectLocal, CollectRemote, Leave, Abandon, Deliver
  <2>2. ASSUME NEW f \in File
        PROVE  f \in staged' \/ (f \in Flushed /\ Unflushed') \/ Of[f] \in collected'
    BY <1>1, <2>1, <2>2 DEF Kept, Unflushed, StagedOn
  <2>3. kind' \notin collected'
    BY <1>1, <2>1
  <2> QED BY <1>1, <2>1, <2>2, <2>3 DEF Kept
<1>8. ASSUME NEW k \in Kind, Collect(k)
      PROVE  /\ kind' \notin collected' /\ UNCHANGED <<staged, collected>>
             /\ life'[Driver] # "gone" /\ verdict'[Driver] # "absent"
  <2>1. CASE k \notin collected /\ Deploy(k)
    BY <1>1, <2>1 DEF Kept, Deploy
  <2>2. CASE UNCHANGED <<staged, collected, kind, life, verdict>>
    BY <1>1, <2>2 DEF Kept
  <2> QED BY <1>8, <2>1, <2>2 DEF Collect, Undeployed, transportVars, disk, driver
<1>9. CASE \E k \in Kind : Call(k)
  BY <1>1, <1>8, <1>9 DEF Kept, Call, Unflushed
<1>10. CASE Hook
  <2>1. ASSUME Unflushed PROVE hooks[Len(hooks)] = "flush"
    <3>1. PICK i \in 1..Len(hooks) : hooks[i] = "flush"
      BY <2>1 DEF Unflushed
    <3>2. CASE i \in 1..Len(hooks')
      BY <1>10, <3>1, <3>2, Hooks DEF Unflushed
    <3>3. CASE i = Len(hooks)
      BY <3>1, <3>3
    <3> QED BY <1>10, <3>2, <3>3, Hooks
  <2>2. CASE \E k \in Kind : k = hooks[Len(hooks)] /\ Collect(k)
    <3>1. hooks[Len(hooks)] # "flush"
      BY <2>2
    <3> QED BY <1>1, <1>8, <2>1, <2>2, <3>1 DEF Kept
  <2>3. CASE staged' = staged \cup Flushed /\ UNCHANGED <<kind, collected, life, verdict>>
    BY <1>1, <2>3 DEF Kept
  <2> QED BY <1>10, <2>2, <2>3 DEF Hook, driver
<1>11. CASE Environment
  <2>1. UNCHANGED <<kind, collected, staged, hooks, verdict>> /\ life'[Driver] # "gone"
    BY <1>1, <1>11 DEF Kept, Environment, Grow, Break, LateUpload, disk, driver, delivery
  <2> QED BY <1>1, <1>2, <2>1 DEF Kept
<1>12. CASE Shutdown \/ LeaveRay \/ UNCHANGED vars
  BY <1>1, <1>2, <1>12 DEF Kept, Shutdown, LeaveRay, vars, transportVars, disk, driver, delivery
<1> QED
  BY <1>3, <1>4, <1>5, <1>6, <1>7, <1>9, <1>10, <1>11, <1>12
     DEF Next, CollectStep, ShutdownStep

\* What never changes back.
LEMMA Lasting ==
  Inv /\ [Next]_vars => torn \subseteq torn' /\ lost \subseteq lost' /\ mode' = mode
BY DEF Next, CollectStep, TransportStep, ShutdownStep, Environment, Open, Read, Seed, Consume, Seeded,
       Advance, Stall, Collected, Answer, UploadFile, UploadStall, CollectLocal, CollectRemote, Call,
       Collect, Deploy, Undeployed, Shutdown, Hook, LeaveRay, Break, Grow, LateUpload, Abandon,
       Deliver, vars, transportVars, delivery, disk

\* What a collection that succeeds delivered of a node without a failure.
LEMMA OkDelivers ==
  ASSUME Inv, NEW n \in Node, verdict[n] \notin {"failed", "absent"},
         step = "over" \/ (step = "upload" /\ pending = {}),
         NEW f \in StagedOn(n, kind)
  PROVE  Whole(f) \/ f \in torn \/ (f \in unsent /\ ~mode.strict)
<1>1. verdict[n] = "ok" /\ kind # "none"
  BY DEF Inv, Driven, TypeOK, TransportTypeOK
<1> QED BY <1>1 DEF Inv, OkIsWhole, Uploaded

\* What a collection says it could not deliver is not forgotten while the kind
\* counts as delivered.
LEMMA ReportedStays ==
  ASSUME Inv, [Next]_vars, NEW f \in File, Of[f] \in collected, Reported(f)
  PROVE  Reported(f)'
<1>1. lost \subseteq lost'
  BY Lasting
<1>2. f \in unsent => f \in unsent'
  BY DEF Next, CollectStep, TransportStep, ShutdownStep, Environment, UploadFile, UploadStall, Answer,
         CollectLocal, CollectRemote, Call, Collect, Deploy, Undeployed, Shutdown, Hook, LeaveRay,
         LateUpload, vars, transportVars, delivery
<1> QED BY <1>1, <1>2 DEF Reported

LEMMA RemovedStep == Inv /\ [Next]_vars => RemovedWasDelivered'
<1> DEFINE Safe(f) == Whole(f) \/ f \in torn \/ (~mode.strict /\ Reported(f))
<1> SUFFICES ASSUME Inv, [Next]_vars, NEW f \in File, Removed(f)'
             PROVE  Safe(f)'
  BY DEF RemovedWasDelivered
<1> USE TransportAssumption, DeliveryAssumption
<1>1. Kept /\ torn \subseteq torn' /\ mode' = mode /\ Driver \in Node /\ staged \subseteq File
  BY Lasting DEF Inv, TypeOK, TransportTypeOK
<1>2. CASE Removed(f)
  <2>1. Safe(f)
    BY <1>2 DEF Inv, RemovedWasDelivered
  <2>2. Of[f] \in collected
    BY <1>1, <1>2 DEF Kept, Removed, Unflushed
  <2>3. Whole(f) => Whole(f)'
    <3>1. out'[f] = out[f] \/ Whole(f)'
      BY <1>1, <2>2, StaysWhole DEF Kept
    <3> QED BY <3>1 DEF Whole
  <2>4. Reported(f) => Reported(f)'
    BY <2>2, ReportedStays
  <2> QED BY <1>1, <2>1, <2>3, <2>4
<1>3. CASE UNCHANGED <<collected, staged, hooks>>
  BY <1>2, <1>3 DEF Removed
<1>4. ASSUME Deliver, UNCHANGED <<hooks, out, unsent, mode>>, ~(mode.strict /\ Lossy),
             step = "over" \/ (step = "upload" /\ pending = {})
      PROVE  Safe(f)'
  <2>1. /\ collected' = collected \cup {kind} /\ staged' = staged \ StagedOn(Driver, kind)
        /\ lost' = lost \cup {<<n, kind>> : n \in {m \in Node : verdict[m] = "failed"}}
    BY <1>4 DEF Deliver
  <2>2. CASE f \in staged
    <3>1. f \in StagedOn(Driver, kind) /\ Home[f] = Driver /\ Of[f] = kind
      BY <2>1, <2>2 DEF Removed, StagedOn
    <3>2. CASE verdict[Driver] = "failed"
      <4>1. <<Home[f], Of[f]>> \in lost'
        BY <1>1, <2>1, <3>1, <3>2
      <4>2. ~mode'.strict
        BY <1>1, <1>4, <3>2 DEF Lossy
      <4> QED BY <4>1, <4>2 DEF Reported
    <3>3. CASE verdict[Driver] # "failed"
      <4>1. verdict[Driver] \notin {"failed", "absent"}
        BY <1>1, <3>3 DEF Kept
      <4>2. Whole(f) \/ f \in torn \/ (f \in unsent /\ ~mode.strict)
        BY <1>1, <1>4, <3>1, <4>1, OkDelivers
      <4> QED BY <1>1, <1>4, <4>2 DEF Whole, Reported
    <3> QED BY <3>2, <3>3
  <2>3. CASE f \notin staged
    <3>1. Removed(f)
      BY <1>4, <2>3 DEF Removed
    <3> QED BY <1>2, <3>1
  <2> QED BY <2>2, <2>3
<1>5. CASE CollectLocal \/ CollectRemote
  <2>1. UNCHANGED <<hooks, out, unsent, mode>>
    BY <1>5 DEF CollectLocal, CollectRemote
  <2>2. CASE Abandon
    BY <1>3, <2>1, <2>2 DEF Abandon
  <2>3. CASE /\ Deliver /\ ~(mode.strict /\ Lossy)
             /\ step = "over" \/ (step = "upload" /\ pending = {})
    BY <1>4, <2>1, <2>3
  <2> QED BY <1>5, <2>2, <2>3 DEF CollectLocal, CollectRemote
<1>6. ASSUME NEW k \in Kind, Collect(k) PROVE UNCHANGED <<collected, staged>>
  BY <1>6 DEF Collect, Deploy, Undeployed, transportVars, disk
<1>7. CASE Hook
  <2>1. CASE \E k \in Kind : k = hooks[Len(hooks)] /\ Collect(k)
    <3>1. hooks[Len(hooks)] # "flush" /\ UNCHANGED <<collected, staged>>
      BY <1>6, <2>1
    <3>2. ASSUME NEW i \in 1..Len(hooks) PROVE hooks[i] # "flush"
      <4>1. CASE i \in 1..Len(hooks')
        BY <1>7, <4>1, Hooks DEF Unflushed
      <4>2. CASE i = Len(hooks)
        BY <3>1, <4>2
      <4>3. Len(hooks') = Len(hooks) - 1 /\ Len(hooks) \in Nat
        BY <1>7, Hooks
      <4>4. i \in 1..Len(hooks') \/ i = Len(hooks)
        <5> HIDE TransportAssumption, DeliveryAssumption
        <5> QED BY <4>3
      <4> QED BY <4>1, <4>2, <4>4
    <3> QED BY <1>2, <3>1, <3>2 DEF Removed
  <2>2. CASE staged' = staged \cup Flushed /\ UNCHANGED collected
    BY <1>2, <2>2 DEF Removed
  <2> QED BY <1>7, <2>1, <2>2 DEF Hook
<1>8. CASE \E k \in Kind : Call(k)
  BY <1>3, <1>6, <1>8 DEF Call
<1>9. CASE TransportStep /\ UNCHANGED delivery
  BY <1>3, <1>9 DEF TransportStep, Seeded, Advance, Stall, Collected, Open, Read, Seed, Consume,
                    delivery, disk
<1>10. CASE UploadStall \/ \E n \in Node : Answer(n) \/ \E g \in File : UploadFile(n, g)
  BY <1>3, <1>10 DEF UploadStall, Answer, UploadFile, delivery, disk
<1>11. CASE Environment \/ Shutdown \/ LeaveRay \/ UNCHANGED vars
  BY <1>3, <1>11
     DEF Environment, Grow, Break, LateUpload, Shutdown, LeaveRay, vars, transportVars, delivery, disk
<1> QED BY <1>5, <1>7, <1>8, <1>9, <1>10, <1>11 DEF Next, CollectStep, ShutdownStep

\* A run without a fault so far.
Smooth == (\A n \in Node : life[n] = "up" /\ verdict[n] \in {"none", "ok"}) /\ unsent = {}

LEMMA SmoothStep == Inv /\ [Next]_vars /\ faults' = 0 => faults = 0 /\ Smooth /\ Smooth'
<1> SUFFICES ASSUME Inv, [Next]_vars, faults' = 0 PROVE faults = 0 /\ Smooth /\ Smooth'
  OBVIOUS
<1> USE TransportAssumption
<1>1. /\ faults \in Nat /\ life \in [Node -> Life]
      /\ verdict \in [Node -> {"none", "ok", "failed", "absent"}]
      /\ faults = 0 => Smooth
  BY DEF Inv, TypeOK, TransportTypeOK, Faultless, Smooth
<1>2. ~Fault
  BY <1>1 DEF Fault
<1>3. faults = 0
  BY <1>1, <1>2 DEF Next, CollectStep, TransportStep, ShutdownStep, Environment, Open, Read, Seed,
       Consume, Seeded, Advance, Stall, Collected, Answer, UploadFile, UploadStall, CollectLocal,
       CollectRemote, Call, Collect, Deploy, Undeployed, Shutdown, Hook, LeaveRay, Break, Grow,
       LateUpload, vars, transportVars
<1>4. ASSUME UNCHANGED <<life, verdict, unsent>> PROVE Smooth'
  BY <1>1, <1>3, <1>4 DEF Smooth
<1>5. ASSUME NEW n \in Node, Seed(n) \/ Consume(n), UNCHANGED delivery PROVE Smooth'
  <2>1. UNCHANGED <<life, unsent>> /\ (UNCHANGED verdict \/ verdict' = [verdict EXCEPT ![n] = "ok"])
    BY <1>1, <1>2, <1>3, <1>5 DEF Smooth, Seed, Consume, delivery
  <2> QED BY <1>1, <1>3, <2>1 DEF Smooth
<1>6. ASSUME Advance, UNCHANGED delivery PROVE Smooth'
  <2>1. UNCHANGED <<life, unsent>> /\ (UNCHANGED verdict \/ verdict' = [verdict EXCEPT ![at] = "ok"])
    BY <1>6 DEF Advance, delivery
  <2> QED BY <1>1, <1>3, <2>1 DEF Smooth
<1>7. ASSUME Stall \/ UploadStall PROVE Smooth'
  <2>1. pending # {} /\ pending \subseteq Node /\ \A n \in pending : life[n] # "up"
    BY <1>7 DEF Stall, UploadStall, Inv, TypeOK, TransportTypeOK
  <2> QED BY <1>1, <1>3, <2>1 DEF Smooth
<1>8. ASSUME NEW n \in Node, Answer(n) PROVE Smooth'
  <2>1. ~Broken(n)
    BY <1>1, <1>3, <1>8 DEF Smooth, Broken
  <2>2. UNCHANGED <<life, unsent>> /\ verdict' = [verdict EXCEPT ![n] = "ok"]
    BY <1>8, <2>1 DEF Answer, delivery
  <2> QED BY <1>1, <1>3, <2>2 DEF Smooth
<1>9. ASSUME NEW n \in Node, NEW f \in File, UploadFile(n, f) PROVE Smooth'
  BY <1>2, <1>4, <1>9 DEF UploadFile, driver
<1>10. ASSUME NEW n \in Node, Break(n) PROVE FALSE
  BY <1>2, <1>10 DEF Break
<1>11. ASSUME NEW k \in Kind, Collect(k) PROVE Smooth'
  <2>1. ASSUME Deploy(k) PROVE Smooth'
    BY <1>1, <1>3, <2>1 DEF Smooth, Deploy
  <2> QED BY <1>2, <1>4, <1>11, <2>1 DEF Collect, Undeployed, transportVars, driver
<1>12. ASSUME Hook PROVE Smooth'
  <2>1. ASSUME UNCHANGED <<driver, life, unsent>> PROVE Smooth'
    BY <1>4, <2>1 DEF driver
  <2> QED BY <1>11, <1>12, <2>1 DEF Hook
<1>13. ASSUME NEW k \in Kind, Call(k) PROVE Smooth'
  BY <1>11, <1>13 DEF Call
<1>14. ASSUME (Seeded \/ Collected \/ \E n \in Node : Open(n) \/ Read(n)) /\ UNCHANGED delivery
       PROVE  Smooth'
  BY <1>4, <1>14 DEF Seeded, Collected, Open, Read, driver, delivery
<1>15. ASSUME \/ CollectLocal \/ CollectRemote \/ Shutdown \/ LeaveRay \/ UNCHANGED vars
              \/ (\E f \in File : Grow(f)) /\ UNCHANGED delivery
              \/ \E f \in File : LateUpload(f)
       PROVE  Smooth'
  BY <1>4, <1>15 DEF CollectLocal, CollectRemote, Shutdown, LeaveRay, Grow, LateUpload, vars, transportVars,
                     driver, delivery
<1>16. Smooth'
  BY <1>5, <1>6, <1>7, <1>8, <1>9, <1>10, <1>12, <1>13, <1>14, <1>15
     DEF Next, CollectStep, TransportStep, ShutdownStep, Environment
<1> QED BY <1>1, <1>3, <1>16

LEMMA FaultlessStep == Inv /\ [Next]_vars => Faultless'
<1> SUFFICES ASSUME Inv, [Next]_vars, faults' = 0
             PROVE  /\ Smooth'
                    /\ \A f \in File : Of[f] \in collected' =>
                         Whole(f)' \/ f \in torn' \/ (f \in Flushed /\ Of[f] \in early')
                    /\ \A j \in 1..Len(Order) : j > Len(hooks') => Order[j] \in collected' \/ kind' = Order[j]
  BY DEF Faultless, Smooth
<1> USE TransportAssumption, DeliveryAssumption
<1>1. faults = 0 /\ Smooth /\ Smooth' /\ torn \subseteq torn'
  BY SmoothStep, Lasting
<1>2. /\ Faultless /\ Kept /\ Hooked /\ kind \in Kind \cup {"none"} /\ staged \subseteq File
      /\ collected \subseteq Kind /\ (step = "idle" <=> kind = "none")
      /\ hooks \in Seq(Kind \cup {"flush"}) /\ Len(hooks) \in Nat /\ Len(Order) \in Nat
      /\ \A j \in 1..Len(Order) : Order[j] \in Kind
  <2>1. /\ Faultless /\ Kept /\ Hooked /\ kind \in Kind \cup {"none"} /\ staged \subseteq File
        /\ collected \subseteq Kind /\ (step = "idle" <=> kind = "none")
        /\ hooks \in Seq(Kind \cup {"flush"})
    BY DEF Inv, Driven, TypeOK, TransportTypeOK
  <2>2. Len(hooks) \in Nat
    BY <2>1
  <2>3. Len(Order) \in Nat /\ \A j \in 1..Len(Order) : Order[j] \in Kind
    OBVIOUS
  <2> QED BY <2>1, <2>2, <2>3
<1>3. ~Fault /\ ~Lossy
  <2>1. faults \in Nat
    BY DEF Inv, TypeOK, TransportTypeOK
  <2>2. ~Fault
    BY <1>1, <2>1 DEF Fault
  <2>3. ~Lossy
    BY <1>1 DEF Smooth, Lossy
  <2> QED BY <2>2, <2>3
<1>4. \/ UNCHANGED collected /\ early \subseteq early'
      \/ /\ collected' = collected \cup {kind} /\ UNCHANGED <<early, out>>
         /\ step = "over" \/ (step = "upload" /\ pending = {})
  <2>1. CASE CollectLocal \/ CollectRemote
    BY <1>3, <2>1 DEF CollectLocal, CollectRemote, Deliver
  <2>2. CASE TransportStep /\ UNCHANGED delivery
    BY <2>2 DEF delivery
  <2>3. CASE UploadStall \/ \E n \in Node : Answer(n) \/ \E g \in File : UploadFile(n, g)
    BY <2>3 DEF UploadStall, Answer, UploadFile, delivery
  <2>4. CASE Hook \/ \E k \in Kind : Call(k)
    BY <2>4 DEF Hook, Call, Collect, Deploy, Undeployed
  <2>5. CASE Environment \/ Shutdown \/ LeaveRay \/ UNCHANGED vars
    BY <2>5 DEF Environment, LateUpload, Shutdown, LeaveRay, vars, delivery
  <2> QED BY <2>1, <2>2, <2>3, <2>4, <2>5 DEF Next, CollectStep, ShutdownStep
<1>5. ASSUME NEW f \in File, Of[f] \in collected'
      PROVE  Whole(f)' \/ f \in torn' \/ (f \in Flushed /\ Of[f] \in early')
  <2>1. CASE Of[f] \in collected
    <3>1. Whole(f) \/ f \in torn \/ (f \in Flushed /\ Of[f] \in early)
      BY <1>1, <1>2, <2>1 DEF Faultless
    <3>2. out'[f] = out[f] \/ Whole(f)'
      BY <1>2, <2>1, StaysWhole DEF Kept
    <3> QED BY <1>1, <1>4, <3>1, <3>2 DEF Whole
  <2>2. CASE Of[f] \notin collected
    <3>1. /\ Of[f] = kind /\ UNCHANGED <<early, out>>
          /\ step = "over" \/ (step = "upload" /\ pending = {})
      BY <1>4, <1>5, <2>2
    <3>2. CASE f \in staged
      <4>1. Home[f] \in Node /\ f \in StagedOn(Home[f], kind)
        BY <3>1, <3>2 DEF StagedOn
      <4>2. Whole(f) \/ f \in torn
        BY <1>1, <3>1, <4>1, OkDelivers DEF Smooth
      <4> QED BY <1>1, <3>1, <4>2 DEF Whole
    <3>3. CASE f \notin staged
      <4>1. f \in Flushed /\ Unflushed
        BY <1>2, <2>2, <3>3 DEF Kept
      <4>2. PICK i \in 1..Len(hooks) : hooks[i] = "flush"
        BY <4>1 DEF Unflushed
      <4>3. ~(i <= Len(Order))
        <5>1. hooks[i] = IF i <= Len(Order) THEN Order[i] ELSE "flush"
          BY <1>2, <4>2 DEF Hooked
        <5>2. i \in 1..Len(Order) => Order[i] # "flush"
          BY <1>2
        <5>3. i \in Nat /\ 1 <= i
          BY <1>2, <4>2
        <5>4. i <= Len(Order) => i \in 1..Len(Order)
          BY <1>2, <5>3
        <5> HIDE TransportAssumption, DeliveryAssumption
        <5> QED BY <4>2, <5>1, <5>2, <5>4
      <4>4. Len(hooks) = Len(Order) + 1
        BY <1>2, <4>2, <4>3 DEF Hooked
      <4> QED BY <1>2, <3>1, <4>1, <4>4 DEF Hooked
    <3> QED BY <3>2, <3>3
  <2> QED BY <2>1, <2>2
<1>6. kind' = kind \/ kind = "none" \/ kind \in collected'
  <2>1. CASE CollectLocal \/ CollectRemote
    BY <1>3, <2>1 DEF CollectLocal, CollectRemote, Deliver
  <2>2. CASE TransportStep
    BY <2>2 DEF TransportStep, Seeded, Advance, Stall, Collected, Open, Read, Seed, Consume
  <2>3. CASE UploadStall \/ \E n \in Node : Answer(n) \/ \E g \in File : UploadFile(n, g)
    BY <2>3 DEF UploadStall, Answer, UploadFile
  <2>4. CASE Hook \/ \E k \in Kind : Call(k)
    BY <2>4 DEF Hook, Call, Free
  <2>5. CASE Environment \/ Shutdown \/ LeaveRay \/ UNCHANGED vars
    BY <2>5 DEF Environment, Grow, Break, LateUpload, Shutdown, LeaveRay, vars, transportVars
  <2> QED BY <2>1, <2>2, <2>3, <2>4, <2>5 DEF Next, CollectStep, ShutdownStep
<1>7. ASSUME NEW j \in 1..Len(Order), j > Len(hooks')
      PROVE  Order[j] \in collected' \/ kind' = Order[j]
  <2>1. CASE j > Len(hooks)
    <3>1. Order[j] \in collected \/ kind = Order[j]
      BY <1>1, <1>2, <2>1 DEF Faultless
    <3>2. Order[j] # "none" /\ collected \subseteq collected'
      BY <1>2, <1>4
    <3> QED BY <1>6, <3>1, <3>2
  <2>2. CASE ~(j > Len(hooks))
    <3>1. hooks' # hooks
      BY <1>7, <2>2
    <3>2. Hook
      BY <3>1 DEF Next, CollectStep, ShutdownStep, Environment, CollectLocal, CollectRemote,
         UploadStall, Answer, UploadFile, Call, Shutdown, LeaveRay, LateUpload, vars, delivery
    <3>3. j = Len(hooks) /\ Len(hooks) <= Len(Order) /\ hooks[Len(hooks)] = Order[j]
      <4>1. /\ Len(hooks') = Len(hooks) - 1 /\ Len(hooks') \in Nat /\ Len(hooks') <= Len(Order)
            /\ hooks[Len(hooks)] = IF Len(hooks) = Len(Order) + 1 THEN "flush" ELSE Order[Len(hooks)]
        BY <3>2, Hooks
      <4> QED BY SMTT(20), <1>2, <1>7, <2>2, <4>1
    <3>4. Order[j] \in Kind /\ Order[j] # "flush"
      BY <1>2
    <3>5. Collect(Order[j])
      BY <3>2, <3>3, <3>4 DEF Hook
    <3> QED BY <1>3, <3>5 DEF Collect, Deploy, Undeployed
  <2> QED BY <2>1, <2>2
<1> QED BY <1>1, <1>5, <1>7

-----------------------------------------------------------------------------
LEMMA InitInv == Init => Inv
<1> SUFFICES ASSUME Init PROVE Inv
  OBVIOUS
<1> USE TransportAssumption, DeliveryAssumption
<1>1. hooks \in Seq(Kind \cup {"flush"}) /\ Len(hooks) = Len(Order) + 1 /\ Len(Order) \in Nat
      /\ \A i \in 1..Len(hooks) : hooks[i] = IF i <= Len(Order) THEN Order[i] ELSE "flush"
  <2>1. Order \in Seq(Kind \cup {"flush"}) /\ <<"flush">> \in Seq(Kind \cup {"flush"})
    BY SeqMonotonic
  <2> QED BY <2>1 DEF Init
<1>2. reader \in [Node -> Generator] /\ stream \in [Node -> Seq(Chunk)]
  BY DEF Init, Idle, Generator
<1>3. out \in [File -> Part] /\ length \in [File -> Nat]
  BY DEF Init, Part, Nothing
<1>4. TypeOK
  <2>1. TransportTypeOK
    BY <1>2, <1>3 DEF Init, TransportTypeOK, Generator, Life
  <2> QED BY <1>1, <2>1 DEF Init, TypeOK
<1>5. Driven /\ Grown /\ Streamed
  BY <1>3 DEF Init, Driven, Grown, Owned, Sized, Streamed, Collecting, Idle
<1>9. hooks[Len(hooks)] = "flush" /\ Len(hooks) \in 1..Len(hooks)
  <2> HIDE TransportAssumption, DeliveryAssumption
  <2> DEFINE last == Len(hooks)
  <2>1. last = Len(Order) + 1 /\ Len(Order) \in Nat
    BY <1>1
  <2>2. last \in 1..last /\ ~(last <= Len(Order))
    <3> HIDE DEF last
    <3> QED BY <2>1
  <2>3. hooks[last] = IF last <= Len(Order) THEN Order[last] ELSE "flush"
    BY <1>1, <2>2
  <2> QED BY <2>2, <2>3
<1>6. Uploaded /\ OkIsWhole /\ RemovedWasDelivered
  <2>1. Uploaded /\ OkIsWhole
    BY DEF Init, Uploaded, OkIsWhole
  <2>3. \A f \in File : ~Removed(f)
    BY <1>9 DEF Init, Removed
  <2> QED BY <2>1, <2>3 DEF RemovedWasDelivered
<1>7. Kept
  BY <1>9 DEF Init, Kept, Unflushed
<1>8. Hooked /\ Faultless
  BY <1>1 DEF Init, Hooked, Faultless
<1> QED BY <1>4, <1>5, <1>6, <1>7, <1>8 DEF Inv

(***************************************************************************)
(* The inductive invariant.                                                *)
(***************************************************************************)
THEOREM Invariant == Spec => []Inv
<1>1. Inv /\ [Next]_vars => Inv'
  BY TypeStep, DrivenStep, GrownStep, StreamedStep, UploadedStep, KeptStep, HookedStep,
     OkIsWholeStep, RemovedStep, FaultlessStep DEF Inv
<1> QED BY <1>1, InitInv, PTL DEF Spec

(***************************************************************************)
(* Every variable keeps to its type (_collect_inner, collect).             *)
(***************************************************************************)
THEOREM TypeCorrect == Spec => []TypeOK
<1>1. Inv => TypeOK
  BY DEF Inv
<1> QED BY <1>1, Invariant, PTL

(***************************************************************************)
(* A node in nodes_ok has its files whole at the destination, whatever the *)
(* order in which chunks came (_consume_ready_ref, _process_chunk).        *)
(***************************************************************************)
THEOREM Wholeness == Spec => []OkIsWhole
<1>1. Inv => OkIsWhole
  BY DEF Inv
<1> QED BY <1>1, Invariant, PTL

(***************************************************************************)
(* Nothing the driver staged is removed but what was delivered, or, in     *)
(* lenient mode, what a delivery reported as lost (_cleanup_kind_staging). *)
(***************************************************************************)
THEOREM RemovalIsSafe == Spec => []RemovedWasDelivered
<1>1. Inv => RemovedWasDelivered
  BY DEF Inv
<1> QED BY <1>1, Invariant, PTL

(***************************************************************************)
(* Without a failure, and unless collect was called before the flush, all  *)
(* is delivered when the driver leaves Ray (shutdown_cluster).             *)
(***************************************************************************)
THEOREM ShutdownIsComplete == Spec => []ShutdownDelivers
<1>1. Inv => ShutdownDelivers
  <2> SUFFICES ASSUME Inv, pc = "down", faults = 0, NEW f \in File
               PROVE  Whole(f) \/ f \in torn \/ (f \in Flushed /\ Of[f] \in early)
    BY DEF ShutdownDelivers
  <2>1. Of[f] \in Kind
    BY TransportAssumption
  <2>2. PICK j \in 1..Len(Order) : Order[j] = Of[f]
    BY <2>1, DeliveryAssumption
  <2>3. j > Len(hooks) /\ kind # Order[j]
    <3>1. hooks = <<>> /\ kind = "none" /\ Len(Order) \in Nat
      BY DeliveryAssumption DEF Inv, Hooked
    <3> QED BY <2>1, <2>2, <3>1, TransportAssumption
  <2> QED BY <2>2, <2>3 DEF Inv, Faultless
<1> QED BY <1>1, Invariant, PTL

(***************************************************************************)
(* What was delivered of a kind that was collected is not written again,   *)
(* save by an uploader that is being killed (ArtifactDelivery.collect).    *)
(***************************************************************************)
THEOREM DeliveryIsFinal == Spec => DeliveredIsFinal
<1>1. ASSUME Inv, [Next]_vars, NEW f \in File, Of[f] \in collected, f \notin loose
      PROVE  out'[f] = out[f]
  <2>1. ~LateUpload(f) /\ Of[f] # kind
    BY <1>1 DEF LateUpload, Inv, Kept
  <2> QED BY <1>1, <2>1, Writes
<1>2. Inv /\ [Next]_vars => \A f \in File : Of[f] \in collected /\ f \notin loose => out'[f] = out[f]
  BY <1>1
<1> QED BY <1>2, Invariant, PTL DEF Spec, DeliveredIsFinal

=============================================================================
