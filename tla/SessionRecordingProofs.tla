----------------------- MODULE SessionRecordingProofs -----------------------
(***************************************************************************)
(* Proofs about the durable recording, for every number of recordings,     *)
(* queue capacity, byte limit, offer, fault and crash.                     *)
(*                                                                         *)
(* Each safety property of SessionRecording follows from one inductive     *)
(* invariant, Inv.  Its parts are proved in the order of what they rest    *)
(* on: those about control, admission and the disk in                      *)
(* SessionRecordingSteps, and here the bytes of the channel (BytesOK), the *)
(* types, and what the invariant implies.                                  *)
(***************************************************************************)
EXTENDS SessionRecordingSteps

\* The prover of every leaf that does not name another one.
USE ZenonT(30)
USE DEF NoGeneration

-----------------------------------------------------------------------------
\* Sums: what BytesOf computes.

\* A nonempty set of naturals has a least element: the induction that the proofs
\* about sums and names need.
LEMMA LeastElement ==
  ASSUME NEW T \in SUBSET Nat, T # {}
  PROVE  \E n \in T : \A m \in T : n =< m
  <1>1. \E x \in T : \A y \in T : ~ (<<y, x>> \in OpToRel(<, Nat))
    BY NatLessThanWellFounded, WFMin
  <1>2. PICK x \in T : \A y \in T : ~ (<<y, x>> \in OpToRel(<, Nat))
    BY <1>1
  <1>3. \A y \in T : ~ (y < x)
    BY <1>2 DEF OpToRel
  <1> QED BY <1>3, SMTT(30)

\* f[n] is the sum of the bytes of the first n records of q.
Sums(q, f) ==
    f = [n \in 0..Len(q) |-> IF n = 0 THEN 0 ELSE f[n - 1] + q[n].bytes]

\* The size of a queued record is a natural number (queued_size in the code).
LEMMA QueuedBytesNatural ==
  ASSUME NEW q \in Seq(QueuedRecords)
  PROVE  Len(q) \in Nat /\ \A n \in 1..Len(q) : q[n].bytes \in Nat
  <1>1. Len(q) \in Nat /\ \A n \in 1..Len(q) : q[n] \in QueuedRecords
    BY SMTT(30)
  <1> QED BY <1>1 DEF QueuedRecords

\* The partial sums of q exist up to k.
SumsUpTo(q, k) ==
    \E f \in [0..k -> Nat] :
        \A n \in 0..k : f[n] = IF n = 0 THEN 0 ELSE f[n - 1] + q[n].bytes

\* Every queue has partial sums: the recursive definition in BytesOf defines a
\* function.
LEMMA SumsExist ==
  ASSUME NEW q \in Seq(QueuedRecords)
  PROVE  \E f \in [0..Len(q) -> Nat] : Sums(q, f)
  <1> DEFINE Bad == {k \in 0..Len(q) : ~SumsUpTo(q, k)}
  <1>0. Len(q) \in Nat /\ \A n \in 1..Len(q) : q[n].bytes \in Nat
    BY QueuedBytesNatural
  <1>1. SumsUpTo(q, 0)
    <2> DEFINE f == [n \in 0..0 |-> 0]
    <2>1. /\ f \in [0..0 -> Nat]
          /\ \A n \in 0..0 : f[n] = IF n = 0 THEN 0 ELSE f[n - 1] + q[n].bytes
      BY SMTT(30)
    <2> HIDE DEF f
    <2> QED BY <2>1 DEF SumsUpTo
  <1>2. ASSUME NEW k \in 0..Len(q), k + 1 \in 0..Len(q), SumsUpTo(q, k)
        PROVE  SumsUpTo(q, k + 1)
    <2>1. PICK f \in [0..k -> Nat] :
              \A n \in 0..k : f[n] = IF n = 0 THEN 0 ELSE f[n - 1] + q[n].bytes
      BY <1>2 DEF SumsUpTo
    <2>2. k \in Nat /\ k + 1 \in 1..Len(q) /\ q[k + 1].bytes \in Nat /\ f[k] \in Nat
      BY <1>0, <1>2, SMTT(30)
    <2> DEFINE g == [n \in 0..(k + 1) |-> IF n = k + 1 THEN f[k] + q[k + 1].bytes ELSE f[n]]
    <2>3. g \in [0..(k + 1) -> Nat]
      BY <2>2, SMTT(30)
    <2>4. ASSUME NEW n \in 0..(k + 1)
          PROVE  g[n] = IF n = 0 THEN 0 ELSE g[n - 1] + q[n].bytes
      <3>1. CASE n = k + 1
        <4>1. g[n] = f[k] + q[k + 1].bytes /\ n # 0
          BY <3>1, <2>2, SMTT(30)
        <4>2. n - 1 = k /\ g[k] = f[k]
          BY <3>1, <2>2, SMTT(30)
        <4> QED BY <3>1, <4>1, <4>2
      <3>2. CASE n \in 0..k
        <4>1. g[n] = f[n] /\ (n # 0 => n - 1 \in 0..k /\ g[n - 1] = f[n - 1])
          BY <3>2, <2>2, SMTT(30)
        <4>2. f[n] = IF n = 0 THEN 0 ELSE f[n - 1] + q[n].bytes
          BY <3>2, <2>1
        <4> QED BY <4>1, <4>2
      <3> QED BY <3>1, <3>2, <2>2, SMTT(30)
    <2> HIDE DEF g
    <2> QED BY <2>3, <2>4 DEF SumsUpTo
  <1>3. Bad = {}
    <2> SUFFICES ASSUME Bad # {} PROVE FALSE
      OBVIOUS
    <2>1. Bad \in SUBSET Nat
      BY <1>0, SMTT(30)
    <2>2. PICK k \in Bad : \A m \in Bad : k =< m
      BY <2>1, LeastElement
    <2>3. k # 0 /\ k \in 0..Len(q) /\ ~SumsUpTo(q, k)
      BY <1>1, <2>2
    <2>4. k - 1 \in 0..Len(q) /\ k - 1 \notin Bad
      BY <2>2, <2>3, <1>0, SMTT(30)
    <2>5. SumsUpTo(q, k - 1)
      BY <2>4
    <2>6. SumsUpTo(q, (k - 1) + 1)
      BY <2>3, <2>4, <2>5, <1>2, <1>0, SMTT(30)
    <2> QED BY <2>3, <2>6, <1>0, SMTT(30)
  <1>4. SumsUpTo(q, Len(q))
    BY <1>3, <1>0, SMTT(30)
  <1>5. PICK f \in [0..Len(q) -> Nat] :
            \A n \in 0..Len(q) : f[n] = IF n = 0 THEN 0 ELSE f[n - 1] + q[n].bytes
    BY <1>4 DEF SumsUpTo
  <1> QED BY <1>5 DEF Sums

\* The partial sums of a queue are unique.
LEMMA SumsUnique ==
  ASSUME NEW q \in Seq(QueuedRecords), NEW f, NEW g, Sums(q, f), Sums(q, g)
  PROVE  f = g
  <1> DEFINE Bad == {n \in 0..Len(q) : f[n] # g[n]}
  <1>0. Len(q) \in Nat
    BY SMTT(30)
  <1>1. \A n \in 0..Len(q) : /\ f[n] = IF n = 0 THEN 0 ELSE f[n - 1] + q[n].bytes
                             /\ g[n] = IF n = 0 THEN 0 ELSE g[n - 1] + q[n].bytes
    BY DEF Sums
  <1>2. Bad = {}
    <2> SUFFICES ASSUME Bad # {} PROVE FALSE
      OBVIOUS
    <2>1. Bad \in SUBSET Nat
      BY <1>0, SMTT(30)
    <2>2. PICK k \in Bad : \A m \in Bad : k =< m
      BY <2>1, LeastElement
    <2>3. k # 0 /\ k \in 0..Len(q) /\ f[k] # g[k]
      BY <1>1, <2>2
    <2>4. k - 1 \in 0..Len(q) /\ k - 1 \notin Bad
      BY <2>2, <2>3, <1>0, SMTT(30)
    <2>5. f[k - 1] = g[k - 1]
      BY <2>4
    <2> QED BY <2>3, <2>5, <1>1
  <1>3. \A n \in 0..Len(q) : f[n] = g[n]
    BY <1>2
  <1>4. [n \in 0..Len(q) |-> IF n = 0 THEN 0 ELSE f[n - 1] + q[n].bytes] =
        [n \in 0..Len(q) |-> IF n = 0 THEN 0 ELSE g[n - 1] + q[n].bytes]
    BY <1>3, <1>1
  <1> QED BY <1>4 DEF Sums

\* BytesOf, the reserved bytes of a queue, is the last partial sum.
LEMMA BytesAreSums ==
  ASSUME NEW q \in Seq(QueuedRecords), NEW f, Sums(q, f)
  PROVE  BytesOf(q) = f[Len(q)]
  <1> DEFINE s == CHOOSE s : Sums(q, s)
  <1>1. Sums(q, s)
    OBVIOUS
  <1>2. s = f
    BY <1>1, SumsUnique
  <1>3. BytesOf(q) = s[Len(q)]
    BY DEF BytesOf, Sums
  <1> QED BY <1>2, <1>3

\* An empty channel reserves nothing.
LEMMA BytesEmpty == BytesOf(<<>>) = 0
  <1>1. <<>> \in Seq(QueuedRecords) /\ Len(<<>>) = 0
    BY SMTT(30)
  <1>2. PICK f : Sums(<<>>, f)
    BY <1>1, SumsExist
  <1>3. f[0] = 0
    BY <1>1, <1>2, SMTT(30) DEF Sums
  <1> QED BY <1>1, <1>2, <1>3, BytesAreSums

\* The reserved bytes of a queue are a natural number.
LEMMA BytesNatural ==
  ASSUME NEW q \in Seq(QueuedRecords) PROVE BytesOf(q) \in Nat
  <1>1. PICK f \in [0..Len(q) -> Nat] : Sums(q, f)
    BY SumsExist
  <1> QED BY <1>1, BytesAreSums, SMTT(30)

\* Accepting a record reserves its bytes (reserve_queued_bytes).
LEMMA BytesAppend ==
  ASSUME NEW q \in Seq(QueuedRecords), NEW r \in QueuedRecords
  PROVE  BytesOf(Append(q, r)) = BytesOf(q) + r.bytes
  <1>0. Len(q) \in Nat /\ r.bytes \in Nat
    BY SMTT(30) DEF QueuedRecords
  <1>1. PICK f \in [0..Len(q) -> Nat] : Sums(q, f)
    BY SumsExist
  <1> DEFINE p == Append(q, r)
             g == [n \in 0..(Len(q) + 1) |-> IF n = Len(q) + 1 THEN f[Len(q)] + r.bytes ELSE f[n]]
  <1>2. p \in Seq(QueuedRecords) /\ Len(p) = Len(q) + 1
        /\ p[Len(q) + 1] = r /\ \A n \in 1..Len(q) : p[n] = q[n]
    BY SMTT(30)
  <1>3. \A n \in 0..Len(q) : f[n] = IF n = 0 THEN 0 ELSE f[n - 1] + q[n].bytes
    BY <1>1 DEF Sums
  <1>4. \A n \in 0..(Len(q) + 1) : g[n] = IF n = 0 THEN 0 ELSE g[n - 1] + p[n].bytes
    BY <1>0, <1>2, <1>3, SMTT(30)
  <1>5. Sums(p, g)
    BY <1>2, <1>4 DEF Sums
  <1>6. BytesOf(p) = g[Len(q) + 1]
    BY <1>2, <1>5, BytesAreSums
  <1>7. BytesOf(q) = f[Len(q)]
    BY <1>1, BytesAreSums
  <1> QED BY <1>0, <1>6, <1>7, SMTT(30)

\* Taking a record off the channel frees its bytes (release_queued_bytes).
LEMMA BytesPrepend ==
  ASSUME NEW q \in Seq(QueuedRecords), NEW r \in QueuedRecords
  PROVE  BytesOf(<<r>> \o q) = r.bytes + BytesOf(q)
  <1>0. Len(q) \in Nat /\ r.bytes \in Nat
    BY SMTT(30) DEF QueuedRecords
  <1>1. PICK f \in [0..Len(q) -> Nat] : Sums(q, f)
    BY SumsExist
  <1> DEFINE p == <<r>> \o q
             g == [n \in 0..(Len(q) + 1) |-> IF n = 0 THEN 0 ELSE f[n - 1] + r.bytes]
  <1>2. p \in Seq(QueuedRecords) /\ Len(p) = Len(q) + 1
        /\ p[1] = r /\ \A n \in 2..(Len(q) + 1) : p[n] = q[n - 1]
    BY SMTT(30)
  <1>3. \A n \in 0..Len(q) : f[n] = IF n = 0 THEN 0 ELSE f[n - 1] + q[n].bytes
    BY <1>1 DEF Sums
  <1>4. \A n \in 0..(Len(q) + 1) : g[n] = IF n = 0 THEN 0 ELSE g[n - 1] + p[n].bytes
    <2> SUFFICES ASSUME NEW n \in 0..(Len(q) + 1), n # 0
                 PROVE  g[n] = g[n - 1] + p[n].bytes
      BY <1>0
    <2>1. CASE n = 1
      BY <2>1, <1>0, <1>2, <1>3, SMTT(30)
    <2>2. CASE n \in 2..(Len(q) + 1)
      <3>1. n - 1 \in 0..Len(q) /\ n - 1 # 0 /\ n - 2 \in 0..Len(q) /\ (n - 1) - 1 = n - 2
        BY <2>2, <1>0, SMTT(30)
      <3>2. f[n - 1] = f[n - 2] + q[n - 1].bytes
        BY <3>1, <1>3
      <3>3. g[n] = f[n - 1] + r.bytes /\ g[n - 1] = f[n - 2] + r.bytes
        BY <3>1, <1>0, SMTT(30)
      <3>4. f[n - 1] \in Nat /\ f[n - 2] \in Nat /\ q[n - 1].bytes \in Nat
        <4>1. n - 1 \in 1..Len(q)
          BY <3>1, <1>0, SMTT(30)
        <4>2. q[n - 1].bytes \in Nat
          BY <4>1, QueuedBytesNatural
        <4> QED BY <3>1, <4>2
      <3> QED BY <3>2, <3>3, <3>4, <1>0, <1>2, <2>2, SMTT(30)
    <2> QED BY <2>1, <2>2, <1>0, SMTT(30)
  <1>5. Sums(p, g)
    BY <1>2, <1>4 DEF Sums
  <1>6. BytesOf(p) = g[Len(q) + 1]
    BY <1>2, <1>5, BytesAreSums
  <1>7. BytesOf(q) = f[Len(q)]
    BY <1>1, BytesAreSums
  <1> QED BY <1>0, <1>6, <1>7, SMTT(30)

-----------------------------------------------------------------------------
\* A step that touches neither the channel nor the reservation keeps the balance.
LEMMA BytesFrame ==
  ASSUME BytesOK, UNCHANGED <<queue, hand, queuedBytes>>
  PROVE  BytesOK'
  BY DEF BytesOK, InFlight

\* Every step keeps the reservation equal to the bytes of the records in flight, and
\* within the limit.
LEMMA BytesStep ==
  ASSUME TypeOK, ControlOK, OrderOK, BytesOK, Next
  PROVE  BytesOK'
  <1>0. /\ queue \in Seq(QueuedRecords) /\ hand \in QueuedRecords
        /\ InFlight \in Seq(QueuedRecords) /\ MaxQueuedBytes \in Nat
    BY CapacityAssumption, SMTT(30) DEF TypeOK, InFlight
  <1>1. ASSUME NEW g \in Generations, NEW size \in Sizes, Offer(g, size) PROVE BytesOK'
    <2>0. UNCHANGED hand
      BY <1>1 DEF Offer, actorVars
    <2>1. CASE DropOffer(size)
      BY <2>0, <2>1, BytesFrame DEF DropOffer
    <2>2. CASE AcceptOffer(size)
      <3> DEFINE r == [sequence |-> admission.lastAccepted + 1, bytes |-> size]
      <3>1. r \in QueuedRecords /\ r.bytes = size
        BY SizesAssumption, SMTT(30) DEF QueuedRecords, TypeOK, Admissions
      <3>2. /\ queue' = Append(queue, r) /\ queuedBytes' = queuedBytes + size
            /\ queuedBytes + size =< MaxQueuedBytes
        BY <2>2 DEF AcceptOffer, Fits
      <3> HIDE DEF r
      <3>3. InFlight' = Append(InFlight, r)
        BY <1>0, <2>0, <3>1, <3>2, SMTT(30) DEF InFlight
      <3>4. BytesOf(InFlight') = BytesOf(InFlight) + size
        BY <1>0, <3>1, <3>3, BytesAppend
      <3> QED BY <3>2, <3>4 DEF BytesOK
    <2> QED BY <1>1, <2>1, <2>2 DEF Offer
  <1>2. ASSUME NEW r \in QueuedRecords, NEW q \in Seq(QueuedRecords),
               InFlight = <<r>> \o q, InFlight' = q, queuedBytes' = queuedBytes - r.bytes
        PROVE  BytesOK'
    <2>1. BytesOf(InFlight) = r.bytes + BytesOf(q)
      BY <1>2, BytesPrepend
    <2>2. BytesOf(q) \in Nat /\ r.bytes \in Nat
      BY BytesNatural DEF QueuedRecords
    <2>3. BytesOf(InFlight') = BytesOf(q)
      BY <1>2
    <2>4. queuedBytes = r.bytes + BytesOf(q) /\ queuedBytes =< MaxQueuedBytes
      BY <2>1 DEF BytesOK
    <2>5. queuedBytes' = BytesOf(q) /\ BytesOf(q) =< MaxQueuedBytes
      BY <1>0, <1>2, <2>2, <2>4, SMTT(30)
    <2> QED BY <2>3, <2>5 DEF BytesOK
  <1>3. ASSUME DrainRecord PROVE BytesOK'
    <2>1. /\ queue # <<>> /\ queue' = Tail(queue) /\ UNCHANGED hand
          /\ queuedBytes' = queuedBytes - Head(queue).bytes
          /\ pc = "drain"
      BY <1>3 DEF DrainRecord, Release
    <2>2. hand = NoRecord
      BY <2>1 DEF ControlOK
    <2>3. queue = <<Head(queue)>> \o Tail(queue)
      BY <1>0, <2>1, SMTT(30)
    <2> QED BY <1>2, <2>1, <2>2, <2>3, HeadIsRecord DEF InFlight
  <1>4. ASSUME WriteQueued PROVE BytesOK'
    <2>1. /\ UNCHANGED queue /\ hand' = NoRecord /\ pc = "write"
          /\ queuedBytes' = queuedBytes - hand.bytes
      BY <1>4 DEF WriteQueued, Release
    <2>2. hand # NoRecord
      BY <2>1 DEF ControlOK
    <2> QED BY <1>0, <1>2, <2>1, <2>2 DEF InFlight
  <1>5. ASSUME ReceiveData PROVE BytesOK'
    <2>1. CASE queue = <<>>
      BY <1>5, <2>1, BytesFrame DEF ReceiveData
    <2>2. CASE queue # <<>>
      <3>1. hand' = Head(queue) /\ queue' = Tail(queue) /\ pc = "data" /\ UNCHANGED queuedBytes
        BY <1>5, <2>2 DEF ReceiveData
      <3>2. hand = NoRecord
        BY <3>1 DEF ControlOK
      <3>3. queue = <<Head(queue)>> \o Tail(queue)
        BY <1>0, <2>2, SMTT(30)
      <3>4. InFlight' = InFlight
        BY <2>2, <3>1, <3>2, <3>3, HeadIsRecord DEF InFlight
      <3> QED BY <3>1, <3>4 DEF BytesOK
    <2> QED BY <2>1, <2>2
  <1>6. ASSUME Crash PROVE BytesOK'
    <2>1. InFlight' = <<>> /\ queuedBytes' = 0
      BY <1>6 DEF Crash, InFlight
    <2> QED BY <1>0, <2>1, BytesEmpty, SMTT(30) DEF BytesOK
  <1>7. ASSUME Caller PROVE BytesOK'
    BY <1>7, BytesFrame DEF Caller, CallPrepare, CallRecordControl, CallRecordBiasChange,
       CallMarkCompletion, CallFinalize, CallShutdown, Send, actorVars, admissionVars
  <1>8. ASSUME Prepare \/ RecordControl \/ RecordBiasChange \/ MarkCompletion \/ Finalizing
                  \/ WriteEndEvent \/ PeriodicCheckpoint
        PROVE  BytesOK'
    BY <1>8, Begun, BytesFrame
    DEF Prepare, RecordControl, RecordBiasChange, MarkCompletion, WriteCompletion, Finalizing,
        WriteEndEvent, PeriodicCheckpoint, Answer, admissionVars
  <1>9. ASSUME Finalize \/ Retire \/ Validate \/ Shutdown \/ ControlIdle
        PROVE  BytesOK'
    BY <1>9, BytesFrame
    DEF Finalize, Retire, Validate, Shutdown, ControlIdle, Answer, admissionVars
  <1>10. ASSUME FlushSyncStreams \/ PublishJsonExclusive \/ SyncDirectory
         PROVE  BytesOK'
    <2>1. ASSUME PublishFailed PROVE BytesOK'
      BY <2>1, BytesFrame DEF PublishFailed, Answer
    <2>2. ASSUME PublishDone PROVE BytesOK'
      BY <2>2, BytesFrame DEF PublishDone, Answer, admissionVars
    <2> QED
      BY <1>10, <2>1, <2>2, BytesFrame
      DEF FlushSyncStreams, PublishJsonExclusive, SyncDirectory, admissionVars
  <1>11. ASSUME NEW g \in Generations, RecordExternalLoss(g) PROVE BytesOK'
    BY <1>11, BytesFrame DEF RecordExternalLoss, actorVars
  <1> QED
    BY <1>1, <1>3, <1>4, <1>5, <1>6, <1>7, <1>8, <1>9, <1>10, <1>11
    DEF Next, Producer, Actor

\* The initial values of the writer's state are well formed.
LEMMA ConstantTypes ==
  /\ NoCall \in Calls /\ NoJob \in Jobs /\ NoRecord \in QueuedRecords
  /\ NoAdmission \in Admissions /\ NoRecording \in Recordings
  /\ [generation |-> NoGeneration, dropped |-> 0] \in Losses
  /\ NoDirectory \in Directories /\ NoAnswer \in Answers
  <1>1. /\ NoCall \in Calls /\ NoJob \in Jobs /\ NoRecord \in QueuedRecords
        /\ NoAdmission \in Admissions /\ NoRecording \in Recordings
        /\ [generation |-> NoGeneration, dropped |-> 0] \in Losses
        /\ NoAnswer \in Answers
    BY DEF NoCall, Calls, CallKinds, NoJob, Jobs, Ops, NoRecord, QueuedRecords, NoAdmission,
           Admissions, NoRecording, Recordings, Losses, NoAnswer, Answers, Named
  <1>2. NoDirectory \in Directories
    BY SMTT(30) DEF NoDirectory, Directories
  <1> QED BY <1>1, <1>2

\* BeginPublish leaves a well-formed job.
LEMMA BegunTypes ==
  ASSUME NEW op \in Ops, NEW loss \in Nat, BeginPublish(op, loss)
  PROVE  /\ pc' \in Rounds /\ job' \in Jobs /\ UNCHANGED <<hand, crashes>>
  <1>1. job' = [op |-> op, loss |-> loss, published |-> FALSE, completed |-> FALSE]
    BY Begun
  <1>2. [op |-> op, loss |-> loss, published |-> FALSE, completed |-> FALSE] \in Jobs
    BY DEF Jobs
  <1>3. pc' = "flush" /\ "flush" \in Rounds /\ UNCHANGED <<hand, crashes>>
    BY Begun DEF Rounds
  <1> QED BY <1>1, <1>2, <1>3

\* Answering a command leaves a well-formed actor.
LEMMA AnswerTypes ==
  ASSUME Answer
  PROVE  /\ pc' \in Rounds /\ call' \in Calls /\ job' \in Jobs /\ UNCHANGED <<hand, crashes>>
  BY ConstantTypes DEF Answer, Rounds

\* merge_loss of two counts is a count.
LEMMA LossNatural ==
  ASSUME TypeOK, NEW g PROVE LossOf(g) \in Nat
  BY SMTT(30) DEF LossOf, TypeOK, Admissions, Losses

\* write_record keeps the directories well formed.
LEMMA WriteRowTypes ==
  ASSUME TypeOK, recording.generation # NoGeneration, NEW row \in LogRows, WriteRow(row)
  PROVE  disk' \in [Generations -> Directories] /\ faults' \in Nat
  <1>1. Directory \in Generations
    BY DEF TypeOK, Recordings, Named, Directory
  <1> QED BY <1>1, RowAppended DEF WriteRow, NoFault, TypeOK

\* A failing write_record keeps the directories well formed.
LEMMA TearRowTypes ==
  ASSUME TypeOK, recording.generation # NoGeneration, TearRow
  PROVE  disk' \in [Generations -> Directories] /\ faults' \in Nat
  <1>1. Directory \in Generations
    BY DEF TypeOK, Recordings, Named, Directory
  <1>2. Row("torn") \in LogRows
    BY RowTypes DEF RowKinds
  <1>3. faults' \in Nat
    BY SMTT(30) DEF TearRow, Fault, TypeOK
  <1> QED BY <1>1, <1>2, <1>3, RowAppended DEF TearRow, TypeOK

\* A failed checkpoint leaves a well-formed actor.
LEMMA PublishFailedTypes ==
  ASSUME TypeOK, PublishFailed
  PROVE  /\ admission' \in Admissions /\ recording' \in Recordings /\ active' \in BOOLEAN
         /\ job' \in Jobs /\ pc' \in Rounds /\ call' \in Calls
         /\ UNCHANGED <<queue, hand, externalLoss, crashes, acked, reached>>
  <1>1. [recording EXCEPT !.lastError = TRUE] \in Recordings
    BY DEF TypeOK, Recordings
  <1>2. [admission EXCEPT !.accepting = FALSE] \in Admissions
    BY DEF TypeOK, Admissions
  <1>3. {"data", "retire", "control"} \subseteq Rounds
    BY DEF Rounds
  <1> QED
    BY <1>1, <1>2, <1>3, AnswerTypes, ConstantTypes
    DEF PublishFailed, TypeOK, SetNotAccepting, historyVars, Answer

\* A durable checkpoint leaves a well-formed actor.
LEMMA PublishDoneTypes ==
  ASSUME TypeOK, recording.generation # NoGeneration, PublishDone
  PROVE  /\ admission' \in Admissions /\ recording' \in Recordings /\ active' \in BOOLEAN
         /\ job' \in Jobs /\ pc' \in Rounds /\ call' \in Calls /\ externalLoss' \in Losses
         /\ acked' \in [Generations -> Answers]
         /\ UNCHANGED <<queue, hand, crashes, reached>>
  <1>1. Directory \in Generations
    BY DEF TypeOK, Recordings, Named, Directory
  <1>2. [NoAdmission EXCEPT !.generation = Directory, !.accepting = TRUE] \in Admissions
    BY <1>1 DEF NoAdmission, Admissions, Named
  <1>3. [generation |-> Directory, dropped |-> 0] \in Losses
    BY <1>1 DEF Losses, Named
  <1>4. [job EXCEPT !.published = TRUE] \in Jobs
    BY DEF TypeOK, Jobs
  <1>5. {"data", "retire", "control", "endEvent"} \subseteq Rounds
    BY DEF Rounds
  <1>6. ASSUME job.op = "completion" PROVE acked' \in [Generations -> Answers]
    <2>1. acked' = [acked EXCEPT ![Directory] =
                      [acked[Directory] EXCEPT !.completion = @ \/ NoTornRow]]
      BY <1>6 DEF PublishDone, Acknowledge
    <2>2. acked[Directory] \in Answers
      BY <1>1 DEF TypeOK
    <2>3. (acked[Directory].completion \/ NoTornRow) \in BOOLEAN
      OBVIOUS
    <2>4. [acked[Directory] EXCEPT !.completion = @ \/ NoTornRow] \in Answers
      BY <2>2, <2>3 DEF Answers
    <2> QED BY <2>1, <2>4 DEF TypeOK
  <1>7. acked' \in [Generations -> Answers]
    BY <1>6 DEF PublishDone, historyVars, TypeOK
  <1>8. admission' \in Admissions /\ externalLoss' \in Losses
    BY <1>2, <1>3 DEF PublishDone, TypeOK, admissionVars
  <1>9. job' \in Jobs /\ pc' \in Rounds /\ call' \in Calls
    BY <1>4, <1>5, ConstantTypes DEF PublishDone, TypeOK, Answer
  <1>10. /\ UNCHANGED <<queue, hand, crashes, reached, recording>> /\ active' \in BOOLEAN
    BY DEF PublishDone, TypeOK, Answer, admissionVars, historyVars
  <1> QED BY <1>7, <1>8, <1>9, <1>10 DEF TypeOK

\* Every step keeps the state well formed.  That the reserved bytes stay natural
\* follows from their balance.
LEMMA TypeStep ==
  ASSUME TypeOK, ControlOK, OrderOK, BytesOK', Next
  PROVE  TypeOK'
  <1> DEFINE Queued == queue' \in Seq(QueuedRecords) /\ hand' \in QueuedRecords
             Rest == /\ admission' \in Admissions /\ externalLoss' \in Losses
                     /\ call' \in Calls /\ pc' \in Rounds /\ recording' \in Recordings
                     /\ active' \in BOOLEAN /\ job' \in Jobs
                     /\ disk' \in [Generations -> Directories]
                     /\ faults' \in Nat /\ crashes' \in Nat
                     /\ acked' \in [Generations -> Answers] /\ reached' \subseteq Generations
  <1>1. ASSUME Queued, Rest PROVE TypeOK'
    <2>1. InFlight' \in Seq(QueuedRecords)
      BY <1>1, SMTT(30) DEF InFlight
    <2>2. queuedBytes' \in Nat
      BY <2>1, BytesNatural DEF BytesOK
    <2> QED BY <1>1, <2>2 DEF TypeOK
  <1>2. ASSUME UNCHANGED <<queue, hand>> PROVE Queued
    BY <1>2 DEF TypeOK
  <1>3. ASSUME NEW g \in Generations, NEW size \in Sizes, Offer(g, size) PROVE TypeOK'
    <2>1. UNCHANGED <<externalLoss, call, pc, hand, recording, active, job, disk, faults,
                      crashes, acked, reached>>
      BY <1>3 DEF Offer, actorVars, historyVars
    <2>2. admission' \in Admissions
      <3>1. /\ [admission EXCEPT !.offers = @ + 1, !.lastAccepted = @ + 1] \in Admissions
            /\ [admission EXCEPT !.offers = @ + 1, !.dropped = @ + 1] \in Admissions
        <4>1. admission \in Admissions
          BY DEF TypeOK
        <4>2. /\ admission.offers + 1 \in Nat /\ admission.lastAccepted + 1 \in Nat
              /\ admission.dropped + 1 \in Nat
          BY <4>1, SMTT(30) DEF Admissions
        <4> QED BY <4>1, <4>2 DEF Admissions
      <3> QED BY <1>3, <3>1 DEF Offer, AcceptOffer, DropOffer
    <2>3. [sequence |-> admission.lastAccepted + 1, bytes |-> size] \in QueuedRecords
      BY SizesAssumption, SMTT(30) DEF QueuedRecords, TypeOK, Admissions
    <2>4. queue' \in Seq(QueuedRecords)
      BY <1>3, <2>3, SMTT(30) DEF Offer, AcceptOffer, DropOffer, TypeOK
    <2> QED BY <1>1, <2>1, <2>2, <2>4 DEF TypeOK
  <1>4. ASSUME NEW g \in Generations, RecordExternalLoss(g) PROVE TypeOK'
    <2>1. externalLoss' \in Losses
      BY <1>4, SMTT(30) DEF RecordExternalLoss, TypeOK, Losses
    <2> QED BY <1>1, <1>2, <1>4, <2>1 DEF RecordExternalLoss, TypeOK, actorVars, historyVars
  <1>5. ASSUME Caller PROVE TypeOK'
    <2>1. UNCHANGED <<queue, externalLoss, pc, hand, recording, active, job, disk, faults,
                      crashes, acked>>
      BY <1>5 DEF Caller, CallPrepare, CallRecordControl, CallRecordBiasChange,
           CallMarkCompletion, CallFinalize, CallShutdown, Send, actorVars, admissionVars,
           historyVars
    <2>2. admission' \in Admissions
      BY <1>5 DEF Caller, CallPrepare, CallRecordControl, CallRecordBiasChange,
           CallMarkCompletion, CallFinalize, CallShutdown, admissionVars, TypeOK, Admissions
    <2>3. ASSUME NEW kind \in CallKinds, NEW g \in Named PROVE Command(kind, g) \in Calls
      BY <2>3 DEF Command, NoCall, Calls, Named
    <2>4. ASSUME NEW g \in Generations, NEW threshold \in BOOLEAN, CallFinalize(g, threshold)
          PROVE  call' \in Calls
      <3>1. LossOf(g) \in Nat /\ admission.lastAccepted \in Nat
        BY LossNatural DEF TypeOK, Admissions
      <3> QED BY <2>4, <3>1 DEF CallFinalize, Send, Calls, CallKinds, Named
    <2>5. call' \in Calls
      BY <1>5, <2>3, <2>4 DEF Caller, CallPrepare, CallRecordControl, CallRecordBiasChange,
           CallMarkCompletion, CallShutdown, Send, CallKinds, Named
    <2>6. reached' \subseteq Generations
      BY <1>5 DEF Caller, CallPrepare, CallRecordControl, CallRecordBiasChange,
           CallMarkCompletion, CallFinalize, CallShutdown, historyVars, TypeOK
    <2> QED BY <1>1, <1>2, <2>1, <2>2, <2>5, <2>6 DEF TypeOK
  <1>6. ASSUME Prepare PROVE TypeOK'
    <2>1. UNCHANGED <<admission, queue, externalLoss, active, acked, reached>>
      BY <1>6 DEF Prepare, admissionVars, historyVars
    <2>2. call.generation \in Generations /\ call.generation # NoGeneration
      BY <1>6 DEF Prepare, ControlOK, TypeOK, Calls, Named
    <2>3. NewRecording(call.generation) \in Recordings
      BY <2>2 DEF NewRecording, NoRecording, Recordings, Named
    <2>4. recording' \in Recordings
      BY <1>6, <2>3 DEF Prepare, TypeOK
    <2>5. job' \in Jobs /\ pc' \in Rounds /\ call' \in Calls /\ UNCHANGED <<hand, crashes>>
      BY <1>6, BegunTypes, AnswerTypes DEF Prepare, Ops, TypeOK
    <2>6. faults' \in Nat
      BY <1>6, SMTT(30) DEF Prepare, NoFault, Fault, TypeOK
    <2>7. disk' \in [Generations -> Directories]
      <3>1. Row("started") \in LogRows /\ Row("torn") \in LogRows
        BY RowTypes DEF RowKinds
      <3>2. <<Row("started")>> \in Seq(LogRows) /\ <<Row("torn")>> \in Seq(LogRows)
        BY <3>1, SMTT(30)
      <3>3. /\ [NoDirectory EXCEPT !.manifest = "durable", !.log = <<Row("started")>>] \in Directories
            /\ [NoDirectory EXCEPT !.manifest = "visible"] \in Directories
            /\ [NoDirectory EXCEPT !.manifest = "durable"] \in Directories
            /\ [NoDirectory EXCEPT !.manifest = "durable", !.log = <<Row("torn")>>] \in Directories
        BY <3>2, ConstantTypes DEF Directories
      <3> QED BY <1>6, <2>2, <3>3, ConstantTypes DEF Prepare, TypeOK
    <2> QED BY <1>1, <1>2, <2>1, <2>4, <2>5, <2>6, <2>7 DEF TypeOK
  <1>7. ASSUME NEW kind, Handles(kind)
        PROVE  recording.generation # NoGeneration /\ LossOf(Directory) \in Nat
    BY <1>7, LossNatural DEF Handles, ControlOK
  <1>8. /\ Row("event") \in LogRows /\ Row("bias") \in LogRows /\ Row("completion") \in LogRows
        /\ \A n \in Nat : RecordRow(n) \in LogRows
    BY RowTypes DEF RowKinds
  <1>9. ASSUME RecordControl PROVE TypeOK'
    <2>1. UNCHANGED <<admission, queue, externalLoss, recording, active, acked, reached>>
      BY <1>9 DEF RecordControl, admissionVars, historyVars
    <2>2. disk' \in [Generations -> Directories] /\ faults' \in Nat
      BY <1>7, <1>8, <1>9, WriteRowTypes, TearRowTypes DEF RecordControl
    <2>3. job' \in Jobs /\ pc' \in Rounds /\ call' \in Calls /\ UNCHANGED <<hand, crashes>>
      BY <1>7, <1>9, BegunTypes, AnswerTypes DEF RecordControl, Ops, TypeOK
    <2> QED BY <1>1, <1>2, <2>1, <2>2, <2>3 DEF TypeOK
  <1>10. ASSUME RecordBiasChange PROVE TypeOK'
    <2>1. UNCHANGED <<admission, queue, externalLoss, active, acked, reached>>
      BY <1>10 DEF RecordBiasChange, admissionVars, historyVars
    <2>2. disk' \in [Generations -> Directories] /\ faults' \in Nat
      BY <1>7, <1>8, <1>10, WriteRowTypes, TearRowTypes DEF RecordBiasChange, TypeOK
    <2>3. job' \in Jobs /\ pc' \in Rounds /\ call' \in Calls /\ UNCHANGED <<hand, crashes>>
      BY <1>7, <1>10, BegunTypes, AnswerTypes DEF RecordBiasChange, Ops, TypeOK
    <2>4. recording' \in Recordings
      <3>1. /\ [recording EXCEPT !.bias = @ + 1] \in Recordings
            /\ [recording EXCEPT !.lastError = TRUE] \in Recordings
        <4>1. recording \in Recordings
          BY DEF TypeOK
        <4>2. recording.bias + 1 \in Nat
          BY <4>1, SMTT(30) DEF Recordings
        <4> QED BY <4>1, <4>2 DEF Recordings
      <3> QED BY <1>10, <3>1 DEF RecordBiasChange, TypeOK
    <2> QED BY <1>1, <1>2, <2>1, <2>2, <2>3, <2>4 DEF TypeOK
  <1>11. ASSUME MarkCompletion PROVE TypeOK'
    <2>1. UNCHANGED <<admission, queue, externalLoss, active, acked, reached>>
      BY <1>11 DEF MarkCompletion, admissionVars, historyVars
    <2>2. disk' \in [Generations -> Directories] /\ faults' \in Nat
      BY <1>7, <1>8, <1>11, WriteRowTypes, TearRowTypes
      DEF MarkCompletion, WriteCompletion, TypeOK
    <2>3. job' \in Jobs /\ pc' \in Rounds /\ call' \in Calls /\ UNCHANGED <<hand, crashes>>
      BY <1>7, <1>11, BegunTypes, AnswerTypes DEF MarkCompletion, WriteCompletion, Ops, TypeOK
    <2>4. recording' \in Recordings
      BY <1>11 DEF MarkCompletion, WriteCompletion, TypeOK, Recordings
    <2> QED BY <1>1, <1>2, <2>1, <2>2, <2>3, <2>4 DEF TypeOK
  <1>12. ASSUME Finalize \/ ControlIdle PROVE TypeOK'
    <2>1. /\ UNCHANGED <<admission, queue, externalLoss, call, hand, recording, job, disk, faults,
                         crashes, acked, reached>>
          /\ active' \in BOOLEAN /\ pc' \in Rounds
      BY <1>12 DEF Finalize, ControlIdle, admissionVars, historyVars, Rounds, TypeOK
    <2> QED BY <1>1, <1>2, <2>1 DEF TypeOK
  <1>13. ASSUME DrainRecord PROVE TypeOK'
    <2>1. /\ UNCHANGED <<admission, externalLoss, call, pc, hand, active, job, crashes,
                         acked, reached>>
          /\ pc = "drain" /\ queue # <<>> /\ queue' = Tail(queue)
      BY <1>13 DEF DrainRecord, historyVars
    <2>2. Head(queue) \in QueuedRecords /\ queue' \in Seq(QueuedRecords)
      BY <2>1, HeadIsRecord
    <2>3. Head(queue).sequence \in Nat
      BY <2>2 DEF QueuedRecords
    <2>4. recording' \in Recordings
      BY <1>13, <2>3 DEF DrainRecord, TypeOK, Recordings
    <2>5. recording.generation # NoGeneration
      BY <2>1 DEF ControlOK, Closing
    <2>6. disk' \in [Generations -> Directories] /\ faults' \in Nat
      BY <1>8, <1>13, <2>3, <2>5, WriteRowTypes, TearRowTypes DEF DrainRecord, TypeOK
    <2> QED BY <1>1, <2>1, <2>2, <2>4, <2>6 DEF TypeOK
  <1>14. ASSUME Finalizing \/ WriteEndEvent PROVE TypeOK'
    <2>1. /\ UNCHANGED <<admission, queue, externalLoss, call, active, acked, reached>>
          /\ pc \in {"drain", "endEvent"}
      BY <1>14 DEF Finalizing, WriteEndEvent, WriteCompletion, admissionVars, historyVars
    <2>2. recording.generation # NoGeneration /\ call.loss \in Nat
      BY <2>1 DEF ControlOK, Closing, TypeOK, Calls
    <2>3. disk' \in [Generations -> Directories] /\ faults' \in Nat
      BY <1>8, <1>14, <2>2, WriteRowTypes, TearRowTypes
      DEF Finalizing, WriteEndEvent, WriteCompletion, TypeOK
    <2>4. "retire" \in Rounds /\ "endEvent" \in Rounds
      BY DEF Rounds
    <2>5. job' \in Jobs /\ pc' \in Rounds /\ UNCHANGED <<hand, crashes>>
      BY <1>14, <2>2, <2>4, BegunTypes, ConstantTypes
      DEF Finalizing, WriteEndEvent, WriteCompletion, Ops, TypeOK
    <2>6. recording' \in Recordings
      BY <1>14 DEF Finalizing, WriteEndEvent, WriteCompletion, TypeOK, Recordings
    <2> QED BY <1>1, <1>2, <2>1, <2>3, <2>5, <2>6 DEF TypeOK
  <1>15. ASSUME Retire PROVE TypeOK'
    <2>1. UNCHANGED <<queue, hand, externalLoss, active, disk, faults, acked, reached, crashes>>
      BY <1>15 DEF Retire, Answer, historyVars
    <2>2. admission' \in Admissions
      BY <1>15 DEF Retire, TypeOK, Admissions, Named
    <2>3. [NoJob EXCEPT !.completed = recording.completionDurable] \in Jobs
      BY ConstantTypes DEF Jobs, TypeOK, Recordings
    <2>4. recording' \in Recordings /\ job' \in Jobs /\ pc' \in Rounds /\ call' \in Calls
      BY <1>15, <2>3, ConstantTypes, AnswerTypes DEF Retire, TypeOK, Rounds
    <2> QED BY <1>1, <1>2, <2>1, <2>2, <2>4 DEF TypeOK
  <1>16. ASSUME Validate PROVE TypeOK'
    <2>1. UNCHANGED <<admission, queue, hand, externalLoss, recording, active, disk, reached,
                      crashes>>
      BY <1>16 DEF Validate, Answer, admissionVars
    <2>2. faults' \in Nat /\ job' \in Jobs /\ pc' \in Rounds /\ call' \in Calls
      BY <1>16, AnswerTypes, SMTT(30) DEF Validate, NoFault, Fault, TypeOK
    <2>3. acked' \in [Generations -> Answers]
      <3>1. call.generation \in Generations
        BY <1>16 DEF Validate, ControlOK, TypeOK, Calls, Named
      <3>2. acked[call.generation] \in Answers
        BY <3>1 DEF TypeOK
      <3>3. FinalizedAnswer \in Answers
        BY <3>2 DEF FinalizedAnswer, Answers, TypeOK, Jobs, Calls
      <3> QED BY <1>16, <3>3 DEF Validate, Acknowledge, TypeOK
    <2> QED BY <1>1, <1>2, <2>1, <2>2, <2>3 DEF TypeOK
  <1>17. ASSUME Shutdown PROVE TypeOK'
    <2>1. UNCHANGED <<admission, queue, hand, externalLoss, recording, active, disk, faults,
                      acked, reached, crashes>>
      BY <1>17 DEF Shutdown, Answer, admissionVars, historyVars
    <2>2. job' \in Jobs /\ pc' \in Rounds /\ call' \in Calls
      BY <1>17, AnswerTypes, ConstantTypes DEF Shutdown, TypeOK, Rounds
    <2> QED BY <1>1, <1>2, <2>1, <2>2 DEF TypeOK
  <1>18. ASSUME PeriodicCheckpoint PROVE TypeOK'
    <2>1. UNCHANGED <<admission, queue, hand, externalLoss, call, recording, active, disk, faults,
                      acked, reached>>
      BY <1>18, Begun DEF PeriodicCheckpoint, admissionVars, historyVars
    <2>2. job' \in Jobs /\ pc' \in Rounds /\ UNCHANGED crashes
      BY <1>18, BegunTypes, LossNatural DEF PeriodicCheckpoint, Ops
    <2> QED BY <1>1, <1>2, <2>1, <2>2 DEF TypeOK
  <1>19. ASSUME ReceiveData PROVE TypeOK'
    <2>1. Queued
      BY <1>19, HeadIsRecord DEF ReceiveData, TypeOK
    <2>2. Rest
      BY <1>19 DEF ReceiveData, TypeOK, historyVars, Rounds
    <2> QED BY <1>1, <2>1, <2>2
  <1>20. ASSUME WriteQueued PROVE TypeOK'
    <2>1. /\ UNCHANGED <<queue, externalLoss, call, active, job, crashes, acked, reached>>
          /\ active /\ pc = "write" /\ hand' = NoRecord /\ pc' = "control"
      BY <1>20 DEF WriteQueued, historyVars
    <2>2. hand.sequence \in Nat
      BY DEF TypeOK, QueuedRecords
    <2>3. recording' \in Recordings
      BY <1>20, <2>2 DEF WriteQueued, TypeOK, Recordings
    <2>4. admission' \in Admissions
      BY <1>20 DEF WriteQueued, SetNotAccepting, TypeOK, Admissions
    <2>5. recording.generation # NoGeneration
      BY <2>1 DEF ControlOK
    <2>6. disk' \in [Generations -> Directories] /\ faults' \in Nat
      BY <1>8, <1>20, <2>2, <2>5, WriteRowTypes, TearRowTypes DEF WriteQueued, TypeOK
    <2> QED BY <1>1, <2>1, <2>3, <2>4, <2>6, ConstantTypes DEF TypeOK, Rounds
  <1>21. ASSUME PublishFailed, Fault, UNCHANGED disk PROVE TypeOK'
    <2>1. faults' \in Nat
      BY <1>21, SMTT(30) DEF Fault, TypeOK
    <2> QED BY <1>1, <1>2, <1>21, <2>1, PublishFailedTypes DEF TypeOK
  <1>22. pc \in Publishing => recording.generation # NoGeneration /\ Directory \in Generations
    BY DEF ControlOK, Directory, TypeOK, Recordings, Named
  <1>23. ASSUME FlushSyncStreams PROVE TypeOK'
    <2>1. ASSUME disk' = [disk EXCEPT ![Directory].synced = Len(Log)], pc' = "publish",
                 recording' = IF job.op = "final" THEN recording
                              ELSE [recording EXCEPT !.ordinal = @ + 1],
                 NoFault,
                 UNCHANGED <<admissionVars, call, hand, active, job, crashes, historyVars>>
          PROVE  TypeOK'
      <3>1. Directory \in Generations
        BY <1>22, <1>23 DEF FlushSyncStreams, Publishing
      <3>2. disk[Directory] \in Directories /\ Len(Log) \in Nat
        <4>1. disk[Directory] \in Directories
          BY <3>1 DEF TypeOK
        <4>2. Log \in Seq(LogRows)
          BY <4>1, DirectoryTypes DEF Log
        <4> QED BY <4>1, <4>2, SMTT(30)
      <3>3. disk' \in [Generations -> Directories]
        BY <2>1, <3>1, <3>2, DirectoryTypes DEF TypeOK
      <3>4. recording' \in Recordings
        <4>1. recording \in Recordings
          BY DEF TypeOK
        <4>2. recording.ordinal + 1 \in Nat
          BY <4>1, SMTT(30) DEF Recordings
        <4>3. [recording EXCEPT !.ordinal = @ + 1] \in Recordings
          BY <4>1, <4>2 DEF Recordings
        <4> QED BY <2>1, <4>1, <4>3
      <3> QED BY <1>1, <1>2, <2>1, <3>3, <3>4
             DEF TypeOK, admissionVars, historyVars, NoFault, Rounds
    <2> QED BY <1>21, <1>23, <2>1 DEF FlushSyncStreams
  <1>24. ASSUME PublishJsonExclusive PROVE TypeOK'
    <2>1. ASSUME disk' = [disk EXCEPT
                            ![Directory].artifacts = @ \cup {PublishedArtifact},
                            ![Directory].unsynced = @ \cup {PublishedArtifact}],
                 pc' = "syncDirectory", NoFault,
                 UNCHANGED <<admissionVars, call, hand, recording, active, job, crashes,
                             historyVars>>
          PROVE  TypeOK'
      <3>1. Directory \in Generations
        <4>1. pc \in Publishing
          BY <1>24 DEF PublishJsonExclusive, Publishing
        <4> QED BY <1>22, <4>1
      <3>2. disk[Directory] \in Directories /\ Len(Log) \in Nat
        <4>1. disk[Directory] \in Directories
          BY <3>1 DEF TypeOK
        <4>2. Log \in Seq(LogRows)
          BY <4>1, DirectoryTypes DEF Log
        <4> QED BY <4>1, <4>2, SMTT(30)
      <3>3. PublishedArtifact \in Artifacts
        BY <3>2 DEF PublishedArtifact, Artifact, Artifacts, FinalName, TypeOK, Recordings, Jobs
      <3> DEFINE dir == disk[Directory]
      <3>4. disk' = [disk EXCEPT ![Directory] =
                       [dir EXCEPT !.artifacts = dir.artifacts \cup {PublishedArtifact},
                                   !.unsynced = dir.unsynced \cup {PublishedArtifact}]]
        BY <2>1, <3>1, <3>2 DEF TypeOK, Directories
      <3>5. disk' \in [Generations -> Directories]
        BY <3>1, <3>2, <3>3, <3>4, DirectoryTypes DEF TypeOK
      <3> QED BY <1>1, <1>2, <2>1, <3>5 DEF TypeOK, admissionVars, historyVars, NoFault, Rounds
    <2> QED BY <1>21, <1>24, <2>1 DEF PublishJsonExclusive
  <1>25. ASSUME SyncDirectory PROVE TypeOK'
    <2>1. ASSUME disk' = [disk EXCEPT ![Directory].unsynced = {}], NoFault, PublishDone
          PROVE  TypeOK'
      <3>1. Directory \in Generations /\ recording.generation # NoGeneration
        BY <1>22, <1>25 DEF SyncDirectory, Publishing
      <3>2. disk[Directory] \in Directories
        BY <3>1 DEF TypeOK
      <3>3. disk' \in [Generations -> Directories]
        BY <2>1, <3>1, <3>2, DirectoryTypes DEF TypeOK
      <3> QED BY <1>1, <1>2, <2>1, <3>1, <3>3, PublishDoneTypes DEF TypeOK, NoFault
    <2> QED BY <1>21, <1>25, <2>1 DEF SyncDirectory
  <1>26. ASSUME Crash PROVE TypeOK'
    <2>1. disk' \in [Generations -> Directories]
      <3>1. ASSUME NEW g \in Generations PROVE SurvivingDirectory(disk[g]) \subseteq Directories
        <4> DEFINE dir == disk[g]
        <4>1. dir \in Directories
          BY DEF TypeOK
        <4>2. dir.log \in Seq(LogRows) /\ dir.synced \in Nat /\ dir.artifacts \subseteq Artifacts
          BY <4>1, DirectoryTypes
        <4>3. ASSUME NEW n \in dir.synced..Len(dir.log)
              PROVE  n \in Nat /\ SubSeq(dir.log, 1, n) \in Seq(LogRows)
          BY <4>2, SMTT(30)
        <4>4. ASSUME NEW n \in dir.synced..Len(dir.log), NEW lost \in SUBSET dir.unsynced,
                     NEW m \in {"absent", "visible", "durable"}
              PROVE  Survivor(dir, n, lost, m) \in Directories
          BY <4>1, <4>2, <4>3 DEF Directories, Survivor
        <4>5. dir.manifest \in {"absent", "visible", "durable"}
          BY <4>1 DEF Directories
        <4> HIDE DEF dir
        <4>6. SurvivingDirectory(dir) \subseteq Directories
          <5> SUFFICES ASSUME NEW d \in SurvivingDirectory(dir) PROVE d \in Directories
            OBVIOUS
          <5>1. PICK n \in dir.synced..Len(dir.log), lost \in SUBSET dir.unsynced,
                     m \in IF dir.manifest = "visible" THEN {"absent", "durable"}
                           ELSE {dir.manifest} :
                    d = Survivor(dir, n, lost, m)
            BY SMTT(30) DEF SurvivingDirectory
          <5>2. m \in {"absent", "visible", "durable"}
            BY <4>5
          <5> QED BY <4>4, <5>1, <5>2
        <4> QED BY <4>6 DEF dir
      <3> QED BY <1>26, <3>1 DEF Crash
    <2>2. /\ admission' = NoAdmission /\ queue' = <<>>
          /\ externalLoss' = [generation |-> NoGeneration, dropped |-> 0]
          /\ call' = NoCall /\ pc' = "control" /\ hand' = NoRecord
          /\ recording' = NoRecording /\ active' = FALSE /\ job' = NoJob
          /\ crashes' = crashes + 1 /\ UNCHANGED <<faults, acked, reached>>
      BY <1>26 DEF Crash, historyVars
    <2>3. Queued
      BY <2>2, ConstantTypes, SMTT(30)
    <2>4. Rest
      <3>1. "control" \in Rounds /\ crashes + 1 \in Nat
        BY SMTT(30) DEF Rounds, TypeOK
      <3> QED BY <2>1, <2>2, <3>1, ConstantTypes DEF TypeOK
    <2> QED BY <1>1, <2>3, <2>4
  <1> QED
    BY <1>3, <1>4, <1>5, <1>6, <1>9, <1>10, <1>11, <1>12, <1>13, <1>14, <1>15, <1>16, <1>17,
       <1>18, <1>19, <1>20, <1>23, <1>24, <1>25, <1>26 DEF Next, Producer, Actor

-----------------------------------------------------------------------------
\* The invariant holds before anything was recorded.
LEMMA InvInit == Init => Inv
  <1> SUFFICES ASSUME Init PROVE Inv
    OBVIOUS
  <1> USE DEF Init
  <1>1. TypeOK
    <2>1. /\ admission \in Admissions /\ externalLoss \in Losses /\ call \in Calls
          /\ recording \in Recordings /\ job \in Jobs /\ hand \in QueuedRecords
      BY ConstantTypes
    <2>2. disk \in [Generations -> Directories] /\ acked \in [Generations -> Answers]
      BY ConstantTypes
    <2>3. /\ queue \in Seq(QueuedRecords) /\ queuedBytes \in Nat /\ pc \in Rounds
          /\ active \in BOOLEAN /\ faults \in Nat /\ crashes \in Nat /\ reached \subseteq Generations
      <3>1. queue \in Seq(QueuedRecords)
        BY SMTT(30)
      <3>2. pc \in Rounds /\ active \in BOOLEAN /\ reached \subseteq Generations
        BY DEF Rounds
      <3>3. queuedBytes \in Nat /\ faults \in Nat /\ crashes \in Nat
        OBVIOUS
      <3> QED BY <3>1, <3>2, <3>3
    <2> HIDE DEF Init
    <2> QED BY <2>1, <2>2, <2>3 DEF TypeOK
  <1>2. ControlOK
    BY DEF ControlOK, NoRecord, NoRecording, NoJob, NoCall, Publishing
  <1>3. AdmissionOK
    BY DEF AdmissionOK, NoAdmission, NoRecording, NoJob, NoCall, Preparing
  <1>4. OrderOK /\ ProgressOK
    BY DEF OrderOK, ProgressOK, NoAdmission, NoJob, Preparing, FinalOps
  <1>5. BytesOK
    BY BytesEmpty, CapacityAssumption, SMTT(30) DEF BytesOK, InFlight
  <1>6. LiveOK /\ CallOK /\ ValidatingOK
    BY DEF LiveOK, CallOK, ValidatingOK, NoRecording, NoCall
  <1>7. DirectoriesOK
    <2>1. NoDirectory.artifacts = {} /\ NoDirectory.synced = 0 /\ NoDirectory.log = <<>>
      BY DEF NoDirectory
    <2>2. \A done : DirectoryOK(NoDirectory, done)
      BY <2>1, SMTT(30) DEF DirectoryOK
    <2> QED BY <2>2 DEF DirectoriesOK
  <1>8. FinalizationsOK /\ CompletionsOK
    BY DEF FinalizationsOK, CompletionsOK, NoAnswer
  <1> QED BY <1>1, <1>2, <1>3, <1>4, <1>5, <1>6, <1>7, <1>8 DEF Inv

\* A step that changes nothing keeps the invariant.
LEMMA InvStutter ==
  ASSUME Inv, UNCHANGED vars
  PROVE  Inv'
  <1> USE DEF vars, Inv
  <1>1. TypeOK'
    BY DEF TypeOK
  <1>2. ControlOK' /\ AdmissionOK' /\ ProgressOK'
    BY DEF ControlOK, Closing, AdmissionOK, ProgressOK, Preparing
  <1>3. OrderOK' /\ BytesOK'
    BY DEF OrderOK, InHand, BytesOK, InFlight
  <1>4. LiveOK'
    BY LiveFrame
  <1>5. CallOK' /\ ValidatingOK'
    BY DEF CallOK, Preparing, ValidatingOK
  <1>6. DirectoriesOK' /\ FinalizationsOK' /\ CompletionsOK'
    BY DEF DirectoriesOK, FinalizationsOK, CompletionsOK
  <1> QED BY <1>1, <1>2, <1>3, <1>4, <1>5, <1>6

\* Every step keeps the invariant.
LEMMA InvStep == Inv /\ [Next]_vars => Inv'
  <1> SUFFICES ASSUME Inv, [Next]_vars PROVE Inv'
    OBVIOUS
  <1>1. CASE Next
    <2> USE DEF Inv
    <2>1. ControlOK' /\ AdmissionOK' /\ OrderOK' /\ ProgressOK'
      BY <1>1, ControlStep, AdmissionStep, OrderStep, ProgressStep
    <2>2. BytesOK'
      BY <1>1, BytesStep
    <2>3. TypeOK'
      BY <1>1, <2>2, TypeStep
    <2>4. LiveOK' /\ CallOK' /\ ValidatingOK'
      BY <1>1, LiveStep, CallStep, ValidatingStep
    <2>5. DirectoriesOK'
      BY <1>1, <2>3, DirectoriesStep
    <2>6. FinalizationsOK' /\ CompletionsOK'
      BY <1>1, <2>3, FinalizationsStep, CompletionsStep
    <2> QED BY <2>1, <2>2, <2>3, <2>4, <2>5, <2>6
  <1>2. CASE UNCHANGED vars
    BY <1>2, InvStutter
  <1> QED BY <1>1, <1>2

\* The invariant holds always.
LEMMA SpecInv == Spec => []Inv
  BY InvInit, InvStep, PTL DEF Spec

-----------------------------------------------------------------------------
\* The writer's state is always well formed; in particular release_queued_bytes never
\* takes the reserved bytes below zero.
THEOREM WriterTypes == Spec => []TypeOK
  <1>1. Inv => TypeOK
    BY DEF Inv
  <1> QED BY <1>1, SpecInv, PTL

\* The exact channel follows from the order and the balance of the invariant.
LEMMA QueueFollows ==
  ASSUME TypeOK, ControlOK, OrderOK, BytesOK
  PROVE  QueueExact
  <1>1. /\ queue \in Seq(QueuedRecords) /\ hand \in QueuedRecords
        /\ admission.lastAccepted \in Nat /\ recording.consumed \in Nat
    BY DEF TypeOK, Admissions, Recordings
  <1>2. CASE pc = "write"
    <2>1. InFlight = <<hand>> \o queue /\ InHand = 1 /\ admission.generation # NoGeneration
      BY <1>2 DEF InFlight, InHand, ControlOK, OrderOK
    <2>2. /\ Len(<<hand>> \o queue) = Len(queue) + 1 /\ (<<hand>> \o queue)[1] = hand
          /\ \A i \in 1..Len(queue) : (<<hand>> \o queue)[i + 1] = queue[i]
      BY <1>1, SMTT(30)
    <2>3. hand.sequence = recording.consumed + 1
      BY <1>2, <2>1 DEF OrderOK
    <2>4. ASSUME NEW i \in 1..(Len(queue) + 1)
          PROVE  InFlight[i].sequence = recording.consumed + i
      <3>1. CASE i = 1
        BY <2>1, <2>2, <2>3, <3>1
      <3>2. CASE i # 1
        <4>1. i - 1 \in 1..Len(queue) /\ (i - 1) + 1 = i
          BY <1>1, <3>2, SMTT(30)
        <4>2. InFlight[i] = queue[i - 1]
          BY <2>1, <2>2, <4>1
        <4>3. queue[i - 1].sequence = recording.consumed + 1 + (i - 1)
          BY <2>1, <4>1 DEF OrderOK
        <4> QED BY <1>1, <4>2, <4>3, SMTT(30)
      <3> QED BY <3>1, <3>2
    <2>5. Len(InFlight) = admission.lastAccepted - recording.consumed
      BY <2>1, <2>2 DEF OrderOK
    <2> QED BY <2>1, <2>2, <2>4, <2>5 DEF QueueExact, BytesOK
  <1>3. CASE pc # "write"
    <2>1. InFlight = queue /\ InHand = 0
      BY <1>3 DEF InFlight, InHand, ControlOK
    <2>2. admission.generation = NoGeneration => InFlight = <<>>
      BY <2>1 DEF OrderOK
    <2>3. ASSUME admission.generation # NoGeneration
          PROVE  /\ Len(InFlight) = admission.lastAccepted - recording.consumed
                 /\ \A i \in 1..Len(InFlight) : InFlight[i].sequence = recording.consumed + i
      <3>1. /\ Len(queue) + 0 = admission.lastAccepted - recording.consumed
            /\ \A i \in 1..Len(queue) : queue[i].sequence = recording.consumed + 0 + i
        BY <2>1, <2>3 DEF OrderOK
      <3> QED BY <1>1, <2>1, <3>1, SMTT(30)
    <2> QED BY <2>2, <2>3 DEF QueueExact, BytesOK
  <1> QED BY <1>2, <1>3

\* The channel holds exactly the accepted records not yet consumed, in order, with
\* their bytes reserved, for every capacity and any number of recordings, faults and
\* crashes: write_queued's sequence-gap check never fires, and Prepare never meets an
\* earlier recording's records.
THEOREM QueueIsExact == Spec => []QueueExact
  <1>1. Inv => QueueExact
    BY QueueFollows DEF Inv
  <1> QED BY <1>1, SpecInv, PTL

\* No artifact has its name before every row it declares is on the medium:
\* flush_sync_streams before publish_json_exclusive.
THEOREM ArtifactsAreDurable == Spec => []ArtifactsDurable
  <1>1. Inv => ArtifactsDurable
    BY DEF Inv, DirectoriesOK, DirectoryOK, ArtifactsDurable
  <1> QED BY <1>1, SpecInv, PTL

\* What the writer acknowledged as finalized is what every later recovery reports,
\* with every record up to the cutoff in order, whatever fails or crashes.
THEOREM FinalizationSurvives == Spec => []FinalizedSurvives
  <1>1. Inv => FinalizedSurvives
    BY DEF Inv, FinalizationsOK, FinalizedOK, FinalizedSurvives
  <1> QED BY <1>1, SpecInv, PTL

\* Recovery finds the valid checkpoint with the greatest ordinal whenever there is
\* one.
LEMMA LatestIsLatest ==
  ASSUME NEW d \in Directories, NEW bound \in Nat, \A a \in d.artifacts : a.name =< bound,
         ValidCheckpoints(d) # {}
  PROVE  /\ LatestValidCheckpoint(d) \in ValidCheckpoints(d)
         /\ \A b \in ValidCheckpoints(d) : b.name =< LatestValidCheckpoint(d).name
  <1> DEFINE V == ValidCheckpoints(d)
             U == {n \in Nat : \A b \in V : b.name =< n}
  <1>1. V \subseteq d.artifacts /\ \A b \in V : b.name \in Nat
    <2>1. d.artifacts \subseteq Artifacts
      BY DirectoryTypes
    <2> QED BY <2>1 DEF ValidCheckpoints, Artifacts
  <1>2. bound \in U
    BY <1>1
  <1>3. PICK m \in U : \A n \in U : m =< n
    BY <1>2, LeastElement
  <1>4. V # {}
    OBVIOUS
  <1> HIDE DEF V
  <1>5. \E b \in V : b.name = m
    <2> SUFFICES ASSUME \A b \in V : b.name # m PROVE FALSE
      OBVIOUS
    <2>1. m \in Nat /\ \A b \in V : b.name =< m
      BY <1>3
    <2>2. m - 1 \in Nat /\ \A b \in V : b.name =< m - 1
      BY <1>1, <1>4, <2>1, SMTT(30)
    <2>3. m - 1 \in U
      BY <2>2
    <2> QED BY <1>3, <2>1, <2>3, SMTT(30)
  <1>6. \E a \in V : \A b \in V : b.name =< a.name
    BY <1>3, <1>5
  <1> QED BY <1>6 DEF LatestValidCheckpoint, V

\* Recovery from a checkpoint reports an acknowledged completion, and none that was
\* not asked for.
LEMMA CheckpointCompleted ==
  ASSUME NEW d \in Directories, NEW done, DirectoryOK(d, done), NEW retained
  PROVE  /\ RecoverFromCheckpoint(d, retained).completed => done
         /\ CompletionOK(d) => RecoverFromCheckpoint(d, retained).completed
  <1>1. ASSUME NEW disposition, NEW completed, NEW error
        PROVE  Recovered(disposition, completed, error).completed = completed
    BY DEF Recovered
  <1>2. CASE ValidCheckpoints(d) = {}
    <2>1. RecoverFromCheckpoint(d, retained) = Recovered("Corrupt", FALSE, "checkpoint")
      BY <1>2 DEF RecoverFromCheckpoint
    <2>2. RecoverFromCheckpoint(d, retained).completed = FALSE
      BY <2>1, SMTT(30) DEF Recovered
    <2>3. ~CompletionOK(d)
      BY <1>2 DEF CompletionOK, ValidCheckpoints
    <2> QED BY <2>2, <2>3
  <1>3. CASE ValidCheckpoints(d) # {}
    <2> DEFINE a == LatestValidCheckpoint(d)
    <2>1. a \in ValidCheckpoints(d) /\ \A b \in ValidCheckpoints(d) : b.name =< a.name
      BY <1>3, LatestIsLatest DEF DirectoryOK
    <2>2. RecoverFromCheckpoint(d, retained) =
             Recovered("Interrupted", a.completed,
                       IF retained # "none" THEN retained ELSE LossError(a))
      BY <1>3 DEF RecoverFromCheckpoint
    <2> HIDE DEF a
    <2>3. RecoverFromCheckpoint(d, retained).completed = a.completed
      BY <2>2, SMTT(30) DEF Recovered
    <2>4. a \in d.artifacts /\ d.artifacts \subseteq Artifacts
      <3>1. d.artifacts \subseteq Artifacts
        BY DirectoryTypes
      <3> QED BY <2>1, <3>1 DEF ValidCheckpoints
    <2>5. a.completed => done
      BY <2>4 DEF DirectoryOK
    <2>6. ASSUME CompletionOK(d) PROVE a.completed
      <3>1. PICK c \in d.artifacts \ d.unsynced :
               /\ c.name # FinalName /\ ValidTerminal(d, c)
               /\ \A b \in d.artifacts : b.name = FinalName \/ b.name >= c.name => b.completed
        BY <2>6 DEF CompletionOK
      <3>2. c \in ValidCheckpoints(d)
        BY <3>1 DEF ValidCheckpoints
      <3>3. c.name =< a.name /\ c.name \in Nat /\ a.name \in Nat
        BY <2>1, <2>4, <3>1, <3>2 DEF Artifacts
      <3>4. a.name >= c.name
        BY <3>3
      <3> QED BY <2>4, <3>1, <3>4
    <2> QED BY <2>3, <2>5, <2>6
  <1> QED BY <1>2, <1>3

\* Recovery reports an acknowledged completion, and none that was not asked for.
LEMMA RecoveredCompleted ==
  ASSUME NEW d \in Directories, NEW done, DirectoryOK(d, done)
  PROVE  /\ RecoverSession(d).completed => done
         /\ CompletionOK(d) => RecoverSession(d).completed
  <1> DEFINE f == CHOOSE a \in FinalArtifacts(d) : TRUE
  <1>1. RecoverSession(d) =
           IF d.manifest = "absent" THEN Recovered("Corrupt", FALSE, "manifest")
           ELSE IF FinalArtifacts(d) = {} THEN RecoverFromCheckpoint(d, "none")
           ELSE IF ValidTerminal(d, f) THEN Recovered("Finalized", f.completed, LossError(f))
                ELSE RecoverFromCheckpoint(d, "final-invalid")
    BY DEF RecoverSession
  <1>2. FinalArtifacts(d) # {} => f \in FinalArtifacts(d)
    OBVIOUS
  <1> HIDE DEF f
  <1>3. CASE d.manifest = "absent"
    <2>1. RecoverSession(d).completed = FALSE
      BY <1>1, <1>3, SMTT(30) DEF Recovered
    <2>2. ~CompletionOK(d)
      BY <1>3 DEF CompletionOK, DirectoryOK
    <2> QED BY <2>1, <2>2
  <1>4. CASE d.manifest # "absent" /\ FinalArtifacts(d) # {} /\ ValidTerminal(d, f)
    <2>1. RecoverSession(d) = Recovered("Finalized", f.completed, LossError(f))
      BY <1>1, <1>4
    <2>2. RecoverSession(d).completed = f.completed
      BY <2>1, SMTT(30) DEF Recovered
    <2>3. f \in d.artifacts /\ f.name = FinalName
      BY <1>2, <1>4 DEF FinalArtifacts
    <2>4. f.completed => done
      BY <2>3 DEF DirectoryOK
    <2>5. CompletionOK(d) => f.completed
      BY <2>3 DEF CompletionOK
    <2> QED BY <2>2, <2>4, <2>5
  <1>5. CASE d.manifest # "absent" /\ (FinalArtifacts(d) = {} \/ ~ValidTerminal(d, f))
    <2>1. PICK retained : RecoverSession(d) = RecoverFromCheckpoint(d, retained)
      BY <1>1, <1>5
    <2>2. /\ RecoverFromCheckpoint(d, retained).completed => done
          /\ CompletionOK(d) => RecoverFromCheckpoint(d, retained).completed
      BY CheckpointCompleted
    <2> QED BY <2>1, <2>2
  <1> QED BY <1>3, <1>4, <1>5

\* A completion the writer acknowledged, on a recording with no torn row, is reported
\* by every later recovery, and none is reported that was not asked for.
THEOREM CompletionIsKept == Spec => []CompletionSurvives
  <1>1. ASSUME Inv PROVE CompletionSurvives
    <2> SUFFICES ASSUME NEW g \in Generations
                 PROVE  /\ acked[g].completion => RecoverSession(disk[g]).completed
                        /\ RecoverSession(disk[g]).completed => g \in reached
      BY DEF CompletionSurvives
    <2>1. disk[g] \in Directories /\ DirectoryOK(disk[g], g \in reached)
      BY <1>1 DEF Inv, TypeOK, DirectoriesOK
    <2>2. acked[g].completion => CompletionOK(disk[g])
      BY <1>1 DEF Inv, CompletionsOK
    <2>3. /\ RecoverSession(disk[g]).completed => g \in reached
          /\ CompletionOK(disk[g]) => RecoverSession(disk[g]).completed
      BY <2>1, RecoveredCompleted
    <2> QED BY <2>2, <2>3
  <1> QED BY <1>1, SpecInv, PTL

\* A running process only adds rows and artifacts: it never erases or rewrites
\* recorded evidence.
THEOREM EvidenceIsPreserved == Spec => EvidencePreserved
  <1> DEFINE Kept(d, e) == /\ Len(d.log) =< Len(e.log)
                           /\ SubSeq(e.log, 1, Len(d.log)) = d.log
                           /\ d.artifacts \subseteq e.artifacts
             Keeps == crashes' = crashes => \A g \in Generations : Kept(disk[g], disk'[g])
  <1>1. ASSUME NEW log \in Seq(LogRows) PROVE SubSeq(log, 1, Len(log)) = log
    BY SMTT(30)
  <1>2. ASSUME NEW log \in Seq(LogRows), NEW row \in LogRows
        PROVE  /\ SubSeq(Append(log, row), 1, Len(log)) = log
               /\ Len(log) =< Len(Append(log, row))
    BY SMTT(30)
  <1>3. ASSUME NEW d \in Directories, NEW e \in Directories,
               \/ Grows(d, e) \/ (\E p : Publishes(d, e, p)) \/ Starts(d, e)
        PROVE  Kept(d, e)
    <2>0. d.log \in Seq(LogRows) /\ e.log \in Seq(LogRows)
      BY DirectoryTypes
    <2>1. CASE Grows(d, e)
      <3>1. d.artifacts \subseteq e.artifacts
        BY <2>1 DEF Grows
      <3>2. CASE e.log = d.log
        BY <1>1, <2>0, <3>1, <3>2, SMTT(30)
      <3>3. ASSUME NEW row \in LogRows, e.log = Append(d.log, row) PROVE Kept(d, e)
        BY <1>2, <2>0, <3>1, <3>3
      <3> QED BY <2>1, <3>2, <3>3 DEF Grows
    <2>2. CASE \E p : Publishes(d, e, p)
      <3>1. e.log = d.log /\ d.artifacts \subseteq e.artifacts
        BY <2>2 DEF Publishes
      <3> QED BY <1>1, <2>0, <3>1, SMTT(30)
    <2>3. CASE Starts(d, e)
      <3>1. d.log = <<>> /\ d.artifacts = {}
        BY <2>3 DEF Starts, NoDirectory
      <3> QED BY <2>0, <3>1, SMTT(30)
    <2> QED BY <1>3, <2>1, <2>2, <2>3
  <1> HIDE DEF Kept
  <1>4. ASSUME Inv, Inv', Next PROVE Keeps
    <2>1. CASE Crash
      BY <1>4, <2>1, SMTT(30) DEF Crash, Inv, TypeOK
    <2>2. CASE Producer \/ Caller \/ Actor
      <3> SUFFICES ASSUME NEW g \in Generations PROVE Kept(disk[g], disk'[g])
        OBVIOUS
      <3>1. disk[g] \in Directories /\ disk'[g] \in Directories
        BY <1>4 DEF Inv, TypeOK
      <3>2. Grows(disk[g], disk'[g]) \/ (\E p : Publishes(disk[g], disk'[g], p))
            \/ Starts(disk[g], disk'[g])
        BY <1>4, <2>2, DiskStep DEF Inv
      <3> QED BY <1>3, <3>1, <3>2
    <2> QED BY <1>4, <2>1, <2>2 DEF Next
  <1>5. Inv /\ Inv' /\ [Next]_vars => [Keeps]_vars
    BY <1>4
  <1>6. Spec => [][Keeps]_vars
    BY <1>5, SpecInv, PTL DEF Spec
  <1> QED BY <1>6 DEF EvidencePreserved, Kept
=============================================================================
