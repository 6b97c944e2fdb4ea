--------------------------- MODULE SessionRecording ---------------------------
(***************************************************************************)
(* The durable recording of a session: the bounded admission of records,   *)
(* the writer actor that owns the files, and what recovery makes of the    *)
(* directory it finds (session_recording_writer.rs,                        *)
(* session_recording_recovery.rs).                                         *)
(*                                                                         *)
(* Producers offer records under the admission lock while the actor works. *)
(* The session worker sends one control command at a time and blocks until *)
(* it is answered.  The actor's file operations are steps of their own:    *)
(* each may fail, and the process may die between any two of them.         *)
(*                                                                         *)
(* The six row streams are one log here: they are flushed and synced       *)
(* together, and a published artifact declares the length of each.  A      *)
(* recording is named by its generation, which is fresh for every Prepare, *)
(* as the time stamp that names its directory is.  Commands with another   *)
(* generation, and offers turned away with no effect, are stuttering.      *)
(***************************************************************************)
EXTENDS Integers, Sequences, FiniteSets

CONSTANTS Generations,      \* recordings that may be prepared, a set 1..n
          Sizes,            \* payload sizes a producer may offer, in bytes
          QueueCapacity,    \* data_queue_capacity
          MaxQueuedBytes,   \* max_queued_bytes
          MaxOffers,        \* bound: records offered to one recording
          MaxExternalLoss,  \* bound: records lost outside the queue
          MaxOrdinal,       \* bound: checkpoints of one recording
          MaxRows,          \* bound: rows of one recording
          MaxFaults,        \* bound: file operations that fail
          MaxCrashes        \* bound: times the process dies

ASSUME GenerationsAssumption == Generations \subseteq Nat \ {0}
ASSUME SizesAssumption == Sizes \subseteq Nat \ {0}
ASSUME CapacityAssumption == QueueCapacity \in Nat /\ MaxQueuedBytes \in Nat

VARIABLES admission,     \* AdmissionState, behind the admission mutex
          queue,         \* the bounded data channel
          queuedBytes,   \* the bytes reserved for queued records
          externalLoss,  \* ExternalLossLedger: records lost outside the queue
          call,          \* the control command the worker waits for
          pc,            \* where the actor is
          hand,          \* the record the actor has taken off the channel
          recording,     \* the actor's ActiveRecording
          active,        \* whether `active` owns it, or a handler under way
          job,           \* what the file operation under way is for
          disk,          \* the session directories
          faults, crashes,
          \* History variables, read by properties only.
          acked,         \* what the writer has answered for a recording
          reached        \* recordings whose completion was asked for

actorVars == <<pc, hand, recording, active, job>>
admissionVars == <<admission, queue, queuedBytes, externalLoss>>
historyVars == <<acked, reached>>
vars == <<admission, queue, queuedBytes, externalLoss, call, pc, hand, recording,
          active, job, disk, faults, crashes, acked, reached>>

NoGeneration == 0
NoCall == [kind |-> "none", generation |-> NoGeneration, cutoff |-> 0,
           loss |-> 0, reached |-> FALSE]
Command(kind, g) == [NoCall EXCEPT !.kind = kind, !.generation = g]
NoJob == [op |-> "none", loss |-> 0, published |-> FALSE, completed |-> FALSE]
NoRecord == [sequence |-> 0, bytes |-> 0]

NoAdmission == [generation |-> NoGeneration, accepting |-> FALSE,
                finalizeRequested |-> FALSE, lastAccepted |-> 0, offers |-> 0,
                dropped |-> 0]
NoRecording == [generation |-> NoGeneration, consumed |-> 0, written |-> 0,
                ordinal |-> 0, completionDurable |-> FALSE, lastError |-> FALSE,
                bias |-> 0]
NewRecording(g) == [NoRecording EXCEPT !.generation = g]

\* Rows of the log: queued records carry their sequence; a torn row is what a
\* write that failed half-way leaves behind.
Row(kind) == [kind |-> kind, sequence |-> 0]
RecordRow(n) == [kind |-> "record", sequence |-> n]

\* A published artifact: checkpoint `name`, or final.json.  It describes the log
\* up to `length`.
FinalName == 0
Artifact(name, completed, length, bias, dropped) ==
    [name |-> name, completed |-> completed, length |-> length, bias |-> bias,
     dropped |-> dropped]
NoDirectory == [manifest |-> "absent", log |-> <<>>, synced |-> 0,
                artifacts |-> {}, unsynced |-> {}]
NoAnswer == [completion |-> FALSE, finalized |-> FALSE, saved |-> FALSE,
             completed |-> FALSE, cutoff |-> 0]

-----------------------------------------------------------------------------
\* Recovery: what a later process makes of a session directory.

Rows(log, length, kind) == {i \in 1..length : log[i].kind = kind}

\* validate_terminal_files: an artifact is good if the rows it declares are all
\* there, none is torn, and they agree with what it says.
ValidTerminal(dir, a) ==
    /\ a.length =< Len(dir.log)
    /\ Rows(dir.log, a.length, "torn") = {}
    /\ Cardinality(Rows(dir.log, a.length, "started")) = 1
    /\ Cardinality(Rows(dir.log, a.length, "bias")) = a.bias
    /\ Cardinality(Rows(dir.log, a.length, "completion")) =
          (IF a.completed THEN 1 ELSE 0)
LossError(a) == IF a.dropped = 0 THEN "none" ELSE "records-dropped"

FinalArtifacts(dir) == {a \in dir.artifacts : a.name = FinalName}
ValidCheckpoints(dir) ==
    {a \in dir.artifacts : a.name # FinalName /\ ValidTerminal(dir, a)}
LatestValidCheckpoint(dir) ==
    CHOOSE a \in ValidCheckpoints(dir) :
        \A b \in ValidCheckpoints(dir) : b.name =< a.name

Recovered(disposition, completed, error) ==
    [disposition |-> disposition, completed |-> completed, error |-> error]
RecoverFromCheckpoint(dir, retained) ==
    IF ValidCheckpoints(dir) = {} THEN Recovered("Corrupt", FALSE, "checkpoint")
    ELSE LET a == LatestValidCheckpoint(dir) IN
         Recovered("Interrupted", a.completed,
                   IF retained # "none" THEN retained ELSE LossError(a))
RecoverSession(dir) ==
    IF dir.manifest = "absent" THEN Recovered("Corrupt", FALSE, "manifest")
    ELSE IF FinalArtifacts(dir) = {} THEN RecoverFromCheckpoint(dir, "none")
    ELSE LET a == CHOOSE f \in FinalArtifacts(dir) : TRUE IN
         IF ValidTerminal(dir, a)
         THEN Recovered("Finalized", a.completed, LossError(a))
         ELSE RecoverFromCheckpoint(dir, "final-invalid")

-----------------------------------------------------------------------------
Init ==
    /\ admission = NoAdmission /\ queue = <<>> /\ queuedBytes = 0
    /\ externalLoss = [generation |-> NoGeneration, dropped |-> 0]
    /\ call = NoCall /\ pc = "control" /\ hand = NoRecord
    /\ recording = NoRecording /\ active = FALSE /\ job = NoJob
    /\ disk = [g \in Generations |-> NoDirectory]
    /\ faults = 0 /\ crashes = 0
    /\ acked = [g \in Generations |-> NoAnswer] /\ reached = {}

-----------------------------------------------------------------------------
\* Producers.

\* offer_to_queue, under the admission lock: a record is accepted with the next
\* sequence, or dropped and counted when it is too large, its bytes cannot be
\* reserved or the channel is full.
Fits(size) ==
    /\ queuedBytes + size =< MaxQueuedBytes
    /\ Len(queue) < QueueCapacity
AcceptOffer(size) ==
    /\ Fits(size)
    /\ admission' = [admission EXCEPT !.offers = @ + 1, !.lastAccepted = @ + 1]
    /\ queue' = Append(queue, [sequence |-> admission.lastAccepted + 1,
                               bytes |-> size])
    /\ queuedBytes' = queuedBytes + size

\* Mutant: the sequence is taken before the channel is known to have room.
DropOfferTakesSequence(size) ==
    /\ ~Fits(size)
    /\ admission' = [admission EXCEPT !.offers = @ + 1, !.dropped = @ + 1,
                                      !.lastAccepted = @ + 1]
    /\ UNCHANGED <<queue, queuedBytes>>

DropOffer(size) ==
    /\ ~Fits(size)
    /\ admission' = [admission EXCEPT !.offers = @ + 1, !.dropped = @ + 1]
    /\ UNCHANGED <<queue, queuedBytes>>
Offer(g, size) ==
    /\ admission.generation = g /\ admission.accepting
    /\ admission.offers < MaxOffers
    /\ AcceptOffer(size) \/ DropOffer(size)
    /\ UNCHANGED <<externalLoss, call, actorVars, disk, faults, crashes,
                   historyVars>>

\* record_external_loss: a record that could not even enter the retry lane.
RecordExternalLoss(g) ==
    /\ externalLoss.generation = g /\ externalLoss.dropped < MaxExternalLoss
    /\ externalLoss' = [externalLoss EXCEPT !.dropped = @ + 1]
    /\ UNCHANGED <<admission, queue, queuedBytes, call, actorVars, disk, faults,
                   crashes, historyVars>>

\* merge_loss of the admission's and the ledger's losses.
LossOf(g) ==
    (IF admission.generation = g THEN admission.dropped ELSE 0)
    + (IF externalLoss.generation = g THEN externalLoss.dropped ELSE 0)

-----------------------------------------------------------------------------
\* The session worker's calls.  `receive` blocks: one call at a time.

Send(command) ==
    /\ call = NoCall /\ pc # "stopped"
    /\ call' = command
    /\ UNCHANGED <<actorVars, disk, faults, crashes>>

\* Mutant: the directory of an earlier recording is used again.
CallPrepareReuses(g) ==
    /\ Send(Command("prepare", g))
    /\ UNCHANGED <<admissionVars, historyVars>>

CallPrepare(g) ==
    /\ \A h \in Generations : disk[h] = NoDirectory <=> h >= g
    /\ Send(Command("prepare", g))
    /\ UNCHANGED <<admissionVars, historyVars>>
CallRecordControl(g) ==
    /\ recording.generation = g
    /\ Len(disk[g].log) < MaxRows /\ recording.ordinal < MaxOrdinal
    /\ Send(Command("control", g))
    /\ UNCHANGED <<admissionVars, historyVars>>
CallRecordBiasChange(g) ==
    /\ recording.generation = g
    /\ Len(disk[g].log) < MaxRows /\ recording.ordinal < MaxOrdinal
    /\ Send(Command("bias", g))
    /\ UNCHANGED <<admissionVars, historyVars>>
CallMarkCompletion(g) ==
    /\ recording.generation = g
    /\ Len(disk[g].log) < MaxRows /\ recording.ordinal < MaxOrdinal
    /\ Send(Command("completion", g))
    /\ reached' = reached \cup {g}
    /\ UNCHANGED <<admissionVars, acked>>
CallShutdown ==
    /\ Send(Command("shutdown", NoGeneration))
    /\ UNCHANGED <<admissionVars, historyVars>>

\* Mutant: the cutoff is the next sequence, not the last accepted one.
CallFinalizeNextSequence(g, threshold) ==
    /\ admission.generation = g /\ ~admission.finalizeRequested
    /\ g \in reached => threshold
    /\ Send([kind |-> "finalize", generation |-> g, reached |-> threshold,
             cutoff |-> admission.lastAccepted + 1, loss |-> LossOf(g)])
    /\ admission' = [admission EXCEPT !.accepting = FALSE,
                                      !.finalizeRequested = TRUE]
    /\ reached' = IF threshold THEN reached \cup {g} ELSE reached
    /\ UNCHANGED <<queue, queuedBytes, externalLoss, acked>>

\* try_finalize: closes admission, and takes the cutoff and the loss under its
\* lock.  The worker says `threshold` once completion was asked for.
CallFinalize(g, threshold) ==
    /\ admission.generation = g /\ ~admission.finalizeRequested
    /\ g \in reached => threshold
    /\ Send([kind |-> "finalize", generation |-> g, reached |-> threshold,
             cutoff |-> admission.lastAccepted, loss |-> LossOf(g)])
    /\ admission' = [admission EXCEPT !.accepting = FALSE,
                                      !.finalizeRequested = TRUE]
    /\ reached' = IF threshold THEN reached \cup {g} ELSE reached
    /\ UNCHANGED <<queue, queuedBytes, externalLoss, acked>>

-----------------------------------------------------------------------------
\* The actor's file operations.

Directory == recording.generation
Log == disk[Directory].log
NoFault == UNCHANGED faults
Fault == faults < MaxFaults /\ faults' = faults + 1

\* The actor goes back to its loop and the caller's receive returns.
Answer ==
    /\ pc' = "control" /\ call' = NoCall /\ job' = NoJob
    /\ UNCHANGED <<hand, crashes>>
SetNotAccepting == admission' = [admission EXCEPT !.accepting = FALSE]

\* write_record: the row reaches the stream buffer whole.
WriteRow(row) ==
    /\ disk' = [disk EXCEPT ![Directory].log = Append(@, row)]
    /\ NoFault
\* write_record failing: some of the row may be in the stream already.
TearRow ==
    /\ \/ UNCHANGED disk
       \/ disk' = [disk EXCEPT ![Directory].log = Append(@, Row("torn"))]
    /\ Fault

\* A handler goes on to checkpoint, or to publish final.json.
BeginPublish(op, loss) ==
    /\ pc' = "flush" /\ job' = [NoJob EXCEPT !.op = op, !.loss = loss]
    /\ UNCHANGED <<hand, crashes>>

\* What each handler does with a checkpoint that failed: a periodic one and a
\* bias change leave the recording faulted, a preparation drops it, a
\* finalization goes on to retire it.
PublishFailed ==
    /\ \/ /\ job.op = "prepare"
          /\ recording' = NoRecording
          /\ Answer /\ UNCHANGED <<active, admission>>
       \/ /\ job.op = "periodic"
          /\ recording' = [recording EXCEPT !.lastError = TRUE]
          /\ SetNotAccepting
          /\ pc' = "data" /\ job' = NoJob
          /\ UNCHANGED <<hand, active, call, crashes>>
       \/ /\ job.op = "bias"
          /\ recording' = [recording EXCEPT !.lastError = TRUE]
          /\ Answer /\ UNCHANGED <<active, admission>>
       \/ /\ job.op \in {"control", "completion"}
          /\ Answer /\ UNCHANGED <<recording, active, admission>>
       \/ /\ job.op \in {"finalCompletion", "final"}
          /\ pc' = "retire"
          /\ UNCHANGED <<hand, recording, active, job, call, admission, crashes>>
    /\ UNCHANGED <<queue, queuedBytes, externalLoss, historyVars>>

\* Mutant: the streams are flushed to the kernel but not synced.
FlushWithoutSync ==
    /\ pc = "flush"
    /\ recording' = IF job.op = "final" THEN recording
                    ELSE [recording EXCEPT !.ordinal = @ + 1]
    /\ pc' = "publish" /\ NoFault
    /\ UNCHANGED <<admissionVars, call, hand, active, job, disk, crashes,
                   historyVars>>

\* flush_sync_streams: everything written so far is on the medium.
FlushSyncStreams ==
    /\ pc = "flush"
    /\ \/ /\ disk' = [disk EXCEPT ![Directory].synced = Len(Log)]
          /\ recording' = IF job.op = "final" THEN recording
                          ELSE [recording EXCEPT !.ordinal = @ + 1]
          /\ pc' = "publish" /\ NoFault
          /\ UNCHANGED <<admissionVars, call, hand, active, job, crashes,
                         historyVars>>
       \/ Fault /\ PublishFailed /\ UNCHANGED disk

\* publish_json_exclusive up to the rename: the whole artifact has its name, but
\* the directory entry is not on the medium yet.
PublishedArtifact ==
    Artifact(IF job.op = "final" THEN FinalName ELSE recording.ordinal,
             recording.completionDurable, Len(Log),
             recording.bias, job.loss)
PublishJsonExclusive ==
    /\ pc = "publish"
    /\ \/ /\ disk' = [disk EXCEPT
                        ![Directory].artifacts = @ \cup {PublishedArtifact},
                        ![Directory].unsynced = @ \cup {PublishedArtifact}]
          /\ pc' = "syncDirectory" /\ NoFault
          /\ UNCHANGED <<admissionVars, call, hand, recording, active, job,
                         crashes, historyVars>>
       \/ Fault /\ PublishFailed /\ UNCHANGED disk

\* What each handler does once its artifact is durable.
Acknowledge(g, answer) == acked' = [acked EXCEPT ![g] = answer]
NoTornRow == Rows(Log, Len(Log), "torn") = {}
PublishDone ==
    \/ /\ job.op = "prepare"
       /\ active' = TRUE
       /\ admission' = [NoAdmission EXCEPT !.generation = Directory,
                                           !.accepting = TRUE]
       /\ externalLoss' = [generation |-> Directory, dropped |-> 0]
       /\ Answer /\ UNCHANGED <<queue, queuedBytes, recording, historyVars>>
    \/ /\ job.op = "periodic"
       /\ pc' = "data" /\ job' = NoJob
       /\ UNCHANGED <<admissionVars, call, hand, recording, active, crashes,
                      historyVars>>
    \/ /\ job.op \in {"bias", "control"}
       /\ Answer /\ UNCHANGED <<admissionVars, recording, active, historyVars>>
    \/ /\ job.op = "completion"
       /\ Acknowledge(Directory,
                      [acked[Directory] EXCEPT !.completion = @ \/ NoTornRow])
       /\ Answer /\ UNCHANGED <<admissionVars, recording, active, reached>>
    \/ /\ job.op = "finalCompletion"
       /\ pc' = "endEvent"
       /\ UNCHANGED <<admissionVars, call, hand, recording, active, job, crashes,
                      historyVars>>
    \/ /\ job.op = "final"
       /\ pc' = "retire" /\ job' = [job EXCEPT !.published = TRUE]
       /\ UNCHANGED <<admissionVars, call, hand, recording, active, crashes,
                      historyVars>>

\* Mutant: the directory is not synced after the rename.
RenameWithoutSync ==
    /\ pc = "syncDirectory"
    /\ NoFault /\ PublishDone /\ UNCHANGED disk

\* The directory sync that ends publish_json_exclusive.
SyncDirectory ==
    /\ pc = "syncDirectory"
    /\ \/ /\ disk' = [disk EXCEPT ![Directory].unsynced = {}]
          /\ NoFault /\ PublishDone
       \/ Fault /\ PublishFailed /\ UNCHANGED disk

-----------------------------------------------------------------------------
\* The actor's loop.

\* Prepare: the directory and its parent entry, then the manifest, the streams
\* and the Started row, then a first checkpoint.  Nothing is erased on failure.
Prepare ==
    /\ pc = "control" /\ call.kind = "prepare"
    /\ IF active \/ queuedBytes # 0
       THEN Answer /\ UNCHANGED <<recording, disk, faults>>
       ELSE \/ /\ recording' = NewRecording(call.generation)
               /\ disk' = [disk EXCEPT ![call.generation] =
                             [NoDirectory EXCEPT !.manifest = "durable",
                                                 !.log = <<Row("started")>>]]
               /\ BeginPublish("prepare", 0) /\ NoFault /\ UNCHANGED call
            \/ /\ \E left \in {NoDirectory, [NoDirectory EXCEPT !.manifest = "visible"],
                               [NoDirectory EXCEPT !.manifest = "durable"],
                               [NoDirectory EXCEPT !.manifest = "durable",
                                                   !.log = <<Row("torn")>>]} :
                     disk' = [disk EXCEPT ![call.generation] = left]
               /\ Fault /\ Answer /\ UNCHANGED recording
    /\ UNCHANGED <<admissionVars, active, historyVars>>

\* A control command for the recording that `active` holds.
Handles(kind) ==
    /\ pc = "control" /\ call.kind = kind
    /\ active /\ recording.generation = call.generation

\* RecordControl: an event row and a checkpoint.
RecordControl ==
    /\ Handles("control")
    /\ \/ WriteRow(Row("event")) /\ BeginPublish("control", LossOf(Directory))
          /\ UNCHANGED call
       \/ TearRow /\ Answer
    /\ UNCHANGED <<admissionVars, recording, active, historyVars>>

\* RecordBiasChange: refused once the recording is faulted; the row, the new
\* revision and a checkpoint otherwise.  Any error faults the recording.
RecordBiasChange ==
    /\ Handles("bias")
    /\ \/ /\ ~recording.lastError
          /\ WriteRow(Row("bias"))
          /\ recording' = [recording EXCEPT !.bias = @ + 1]
          /\ BeginPublish("bias", LossOf(Directory)) /\ UNCHANGED call
       \/ /\ ~recording.lastError
          /\ TearRow
          /\ recording' = [recording EXCEPT !.lastError = TRUE]
          /\ Answer
       \/ recording.lastError /\ Answer /\ UNCHANGED <<recording, disk, faults>>
    /\ UNCHANGED <<admissionVars, active, historyVars>>

\* mark_completion: at most one CompletionReached row.  The flag is set once the
\* row is written, before the checkpoint that makes it durable.
WriteCompletion(op, loss) ==
    /\ ~recording.completionDurable
    /\ WriteRow(Row("completion"))
    /\ recording' = [recording EXCEPT !.completionDurable = TRUE]
    /\ BeginPublish(op, loss) /\ UNCHANGED call
MarkCompletion ==
    /\ Handles("completion")
    /\ \/ WriteCompletion("completion", LossOf(Directory))
       \/ ~recording.completionDurable /\ TearRow /\ Answer /\ UNCHANGED recording
       \/ /\ recording.completionDurable
          /\ BeginPublish("completion", LossOf(Directory))
          /\ UNCHANGED <<recording, disk, faults, call>>
    /\ UNCHANGED <<admissionVars, active, historyVars>>

\* Finalize takes the recording out of `active`; the records accepted up to the
\* cutoff are drained first.
Finalize ==
    /\ Handles("finalize")
    /\ active' = FALSE /\ pc' = "drain"
    /\ UNCHANGED <<admissionVars, call, hand, recording, job, disk, faults, crashes,
                   historyVars>>

\* Mutant: a record's bytes are released twice.
ReleaseTwice(record) == queuedBytes' = queuedBytes - 2 * record.bytes

\* Taking a record off the channel frees its bytes.
Release(record) == queuedBytes' = queuedBytes - record.bytes

\* drain_to_cutoff writes the next record; once the recording is faulted
\* retire_to_cutoff only consumes it.  Both block on an empty channel.
DrainRecord ==
    /\ pc = "drain" /\ recording.consumed < call.cutoff
    /\ queue # <<>>
    /\ queue' = Tail(queue) /\ Release(Head(queue))
    /\ \/ /\ ~recording.lastError
          /\ WriteRow(RecordRow(Head(queue).sequence))
          /\ recording' = [recording EXCEPT !.consumed = Head(queue).sequence,
                                            !.written = Head(queue).sequence]
       \/ /\ ~recording.lastError
          /\ TearRow
          /\ recording' = [recording EXCEPT !.consumed = Head(queue).sequence,
                                            !.lastError = TRUE]
       \/ /\ recording.lastError
          /\ recording' = [recording EXCEPT !.consumed = Head(queue).sequence]
          /\ UNCHANGED <<disk, faults>>
    /\ UNCHANGED <<admission, externalLoss, call, pc, hand, active, job, crashes,
                   historyVars>>

\* ActiveRecording::finalize: refused on a faulted recording; completion is
\* persisted first when the session reached it and no row says so yet.
Finalizing ==
    /\ pc = "drain" /\ recording.consumed = call.cutoff
    /\ \/ /\ recording.lastError
          /\ pc' = "retire"
          /\ UNCHANGED <<call, hand, recording, job, disk, faults, crashes>>
       \/ /\ ~recording.lastError /\ call.reached /\ ~recording.completionDurable
          /\ \/ WriteCompletion("finalCompletion", call.loss)
             \/ /\ TearRow /\ pc' = "retire"
                /\ UNCHANGED <<call, hand, recording, job, crashes>>
       \/ /\ ~recording.lastError /\ (call.reached => recording.completionDurable)
          /\ pc' = "endEvent"
          /\ UNCHANGED <<call, hand, recording, job, disk, faults, crashes>>
    /\ UNCHANGED <<admissionVars, active, historyVars>>
WriteEndEvent ==
    /\ pc = "endEvent"
    /\ \/ WriteRow(Row("event")) /\ BeginPublish("final", call.loss)
       \/ /\ TearRow /\ pc' = "retire"
          /\ job' = NoJob /\ UNCHANGED <<hand, crashes>>
    /\ UNCHANGED <<admissionVars, call, recording, active, historyVars>>

\* The recording is dropped and admission closed, whether or not final.json was
\* published; a failure is answered at once.
Retire ==
    /\ pc = "retire"
    /\ admission' = [admission EXCEPT !.generation = NoGeneration,
                                      !.accepting = FALSE,
                                      !.finalizeRequested = TRUE]
    /\ recording' = NoRecording
    /\ IF job.published
       THEN /\ pc' = "validate"
            /\ job' = [NoJob EXCEPT !.completed = recording.completionDurable]
            /\ UNCHANGED <<hand, call, crashes>>
       ELSE Answer
    /\ UNCHANGED <<queue, queuedBytes, externalLoss, active, disk, faults,
                   historyVars>>

\* The directory is recovered as a later process would (validate_current_recovery),
\* the index is published, and only then is the save acknowledged.
CurrentRecovery == RecoverSession(disk[call.generation])

\* Mutant: the save is acknowledged without recovering the directory.
NoCurrentRecovery == TRUE

ValidCurrentRecovery ==
    /\ CurrentRecovery.disposition = "Finalized"
    /\ CurrentRecovery.error = (IF call.loss = 0 THEN "none" ELSE "records-dropped")
FinalizedAnswer ==
    [acked[call.generation] EXCEPT !.finalized = TRUE, !.saved = (call.loss = 0),
                                   !.completed = job.completed, !.cutoff = call.cutoff]
Validate ==
    /\ pc = "validate"
    /\ \/ /\ ValidCurrentRecovery
          /\ Acknowledge(call.generation, FinalizedAnswer) /\ NoFault
       \/ ~ValidCurrentRecovery /\ UNCHANGED acked /\ NoFault
       \/ Fault /\ UNCHANGED acked
    /\ Answer
    /\ UNCHANGED <<admissionVars, recording, active, disk, reached>>

Shutdown ==
    /\ pc = "control" /\ call.kind = "shutdown"
    /\ IF active THEN Answer
       ELSE pc' = "stopped" /\ call' = NoCall /\ UNCHANGED <<hand, job, crashes>>
    /\ UNCHANGED <<admissionVars, recording, active, disk, faults, historyVars>>

\* With no command waiting: a checkpoint when one is due, then the data channel.
PeriodicCheckpoint ==
    /\ pc = "control" /\ call = NoCall
    /\ active /\ recording.ordinal < MaxOrdinal
    /\ BeginPublish("periodic", LossOf(Directory))
    /\ UNCHANGED <<admissionVars, call, recording, active, disk, faults,
                   historyVars>>
ControlIdle ==
    /\ pc = "control" /\ call = NoCall
    /\ pc' = "data"
    /\ UNCHANGED <<admissionVars, call, hand, recording, active, job, disk, faults,
                   crashes, historyVars>>
ReceiveData ==
    /\ pc = "data"
    /\ \/ /\ queue # <<>>
          /\ hand' = Head(queue) /\ queue' = Tail(queue) /\ pc' = "write"
       \/ /\ queue = <<>>
          /\ pc' = "control" /\ UNCHANGED <<hand, queue>>
    /\ UNCHANGED <<admission, queuedBytes, externalLoss, call, recording, active,
                   job, disk, faults, crashes, historyVars>>

\* The record's bytes are released, then it is written.  A failure closes
\* admission; later records are still written.
WriteQueued ==
    /\ pc = "write" /\ active
    /\ Release(hand) /\ hand' = NoRecord /\ pc' = "control"
    /\ \/ /\ WriteRow(RecordRow(hand.sequence))
          /\ recording' = [recording EXCEPT !.consumed = hand.sequence,
                                            !.written = hand.sequence]
          /\ UNCHANGED admission
       \/ /\ TearRow
          /\ recording' = [recording EXCEPT !.consumed = hand.sequence,
                                            !.lastError = TRUE]
          /\ SetNotAccepting
    /\ UNCHANGED <<queue, externalLoss, call, active, job, crashes, historyVars>>

-----------------------------------------------------------------------------
\* The process dies and is started again: what was not synced may be gone.
Survivor(dir, n, lost, m) ==
    [dir EXCEPT !.log = SubSeq(@, 1, n), !.synced = n, !.unsynced = {},
                !.artifacts = @ \ lost, !.manifest = m]
SurvivingDirectory(dir) ==
    {Survivor(dir, n, lost, m) :
        n \in dir.synced..Len(dir.log),
        lost \in SUBSET dir.unsynced,
        m \in IF dir.manifest = "visible" THEN {"absent", "durable"}
              ELSE {dir.manifest}}
Crash ==
    /\ crashes < MaxCrashes
    /\ crashes' = crashes + 1
    /\ disk' \in {f \in [Generations -> UNION {SurvivingDirectory(disk[g]) :
                                                  g \in Generations}] :
                    \A g \in Generations : f[g] \in SurvivingDirectory(disk[g])}
    /\ admission' = NoAdmission /\ queue' = <<>> /\ queuedBytes' = 0
    /\ externalLoss' = [generation |-> NoGeneration, dropped |-> 0]
    /\ call' = NoCall /\ pc' = "control" /\ hand' = NoRecord
    /\ recording' = NoRecording /\ active' = FALSE /\ job' = NoJob
    /\ UNCHANGED <<faults, historyVars>>

-----------------------------------------------------------------------------
Producer ==
    \E g \in Generations :
        \/ \E size \in Sizes : Offer(g, size)
        \/ RecordExternalLoss(g)
Caller ==
    \/ \E g \in Generations :
          \/ CallPrepare(g) \/ CallRecordControl(g) \/ CallRecordBiasChange(g)
          \/ CallMarkCompletion(g)
          \/ \E threshold \in BOOLEAN : CallFinalize(g, threshold)
    \/ CallShutdown
Actor ==
    \/ Prepare \/ RecordControl \/ RecordBiasChange \/ MarkCompletion
    \/ Finalize \/ DrainRecord \/ Finalizing \/ WriteEndEvent \/ Retire \/ Validate
    \/ Shutdown \/ PeriodicCheckpoint \/ ControlIdle \/ ReceiveData \/ WriteQueued
    \/ FlushSyncStreams \/ PublishJsonExclusive \/ SyncDirectory
Next == Producer \/ Caller \/ Actor \/ Crash
Spec == Init /\ [][Next]_vars

\* The actor's thread is always scheduled again.
FairSpec == Spec /\ WF_vars(Actor)

-----------------------------------------------------------------------------
\* Properties.

Rounds == {"control", "data", "write", "flush", "publish", "syncDirectory", "drain",
           "endEvent", "retire", "validate", "stopped"}
CallKinds == {"none", "prepare", "control", "bias", "completion", "finalize", "shutdown"}
Ops == {"none", "prepare", "periodic", "bias", "control", "completion",
        "finalCompletion", "final"}
RowKinds == {"started", "event", "bias", "completion", "record", "torn"}
QueuedRecords == [sequence : Nat, bytes : Nat]
LogRows == [kind : RowKinds, sequence : Nat]
Artifacts == [name : Nat, completed : BOOLEAN, length : Nat, bias : Nat, dropped : Nat]
Named == Generations \cup {NoGeneration}
Admissions == [generation : Named, accepting : BOOLEAN, finalizeRequested : BOOLEAN,
               lastAccepted : Nat, offers : Nat, dropped : Nat]
Losses == [generation : Named, dropped : Nat]
Calls == [kind : CallKinds, generation : Named, cutoff : Nat, loss : Nat,
          reached : BOOLEAN]
Recordings == [generation : Named, consumed : Nat, written : Nat, ordinal : Nat,
               completionDurable : BOOLEAN, lastError : BOOLEAN, bias : Nat]
Jobs == [op : Ops, loss : Nat, published : BOOLEAN, completed : BOOLEAN]
Directories == [manifest : {"absent", "visible", "durable"}, log : Seq(LogRows),
                synced : Nat, artifacts : SUBSET Artifacts,
                unsynced : SUBSET Artifacts]
Answers == [completion : BOOLEAN, finalized : BOOLEAN, saved : BOOLEAN,
            completed : BOOLEAN, cutoff : Nat]

\* The state of the writer, the channel and the directories is well formed: in
\* particular the reserved bytes never go below zero (release_queued_bytes).
TypeOK ==
    /\ admission \in Admissions
    /\ queue \in Seq(QueuedRecords) /\ hand \in QueuedRecords
    /\ queuedBytes \in Nat
    /\ externalLoss \in Losses
    /\ call \in Calls
    /\ pc \in Rounds
    /\ recording \in Recordings
    /\ active \in BOOLEAN
    /\ job \in Jobs
    /\ disk \in [Generations -> Directories]
    /\ faults \in Nat /\ crashes \in Nat
    /\ acked \in [Generations -> Answers]
    /\ reached \subseteq Generations

\* The channel holds exactly the accepted records that the actor has not
\* consumed, in order, and nothing at all between recordings: write_queued's
\* sequence-gap and generation checks never fire, drain_to_cutoff finds every
\* record it waits for, and Prepare never meets an earlier recording's queue.  The
\* bytes reserved are those of the records in flight, within the limit:
\* reserve_queued_bytes and release_queued_bytes balance on every path.
InFlight == IF hand = NoRecord THEN queue ELSE <<hand>> \o queue
BytesOf(q) ==
    LET sum[n \in 0..Len(q)] == IF n = 0 THEN 0 ELSE sum[n - 1] + q[n].bytes
    IN  sum[Len(q)]
QueueExact ==
    /\ IF admission.generation = NoGeneration THEN InFlight = <<>>
       ELSE /\ Len(InFlight) = admission.lastAccepted - recording.consumed
            /\ \A i \in 1..Len(InFlight) : InFlight[i].sequence = recording.consumed + i
    /\ queuedBytes = BytesOf(InFlight)
    /\ queuedBytes =< MaxQueuedBytes

\* Whatever a published artifact declares is on the medium before it has its
\* name, so no crash can leave an artifact without its rows: flush_sync_streams
\* comes before publish_json_exclusive.
ArtifactsDurable ==
    \A g \in Generations : \A a \in disk[g].artifacts : a.length =< disk[g].synced

\* A finalization the writer acknowledged is what every later recovery reports,
\* after any fault or crash: the same completion, no error if it was saved, and
\* every accepted record up to the cutoff in order.
RecordsInOrder(log, length, cutoff) ==
    /\ {log[i].sequence : i \in Rows(log, length, "record")} = 1..cutoff
    /\ \A i, j \in Rows(log, length, "record") :
          i < j => log[i].sequence < log[j].sequence
FinalizedSurvives ==
    \A g \in Generations : acked[g].finalized =>
        /\ RecoverSession(disk[g]) =
              Recovered("Finalized", acked[g].completed,
                        IF acked[g].saved THEN "none" ELSE "records-dropped")
        /\ \E a \in FinalArtifacts(disk[g]) :
              RecordsInOrder(disk[g].log, a.length, acked[g].cutoff)

\* A completion the writer acknowledged on a recording with no torn row is
\* reported by every later recovery, whatever fails or crashes afterwards, and
\* none is reported that was not asked for.
CompletionSurvives ==
    \A g \in Generations :
        /\ acked[g].completion => RecoverSession(disk[g]).completed
        /\ RecoverSession(disk[g]).completed => g \in reached

\* A running process never erases or rewrites recorded evidence: rows and
\* artifacts are only added ("never erase or reuse it silently").
EvidencePreserved ==
    [][crashes' = crashes =>
         \A g \in Generations :
             /\ Len(disk[g].log) =< Len(disk'[g].log)
             /\ SubSeq(disk'[g].log, 1, Len(disk[g].log)) = disk[g].log
             /\ disk[g].artifacts \subseteq disk'[g].artifacts]_vars

\* Every control command is answered: the worker's receive, which has no
\* timeout, always returns.
CallAnswered == (call # NoCall) ~> (call = NoCall)

\* "The latest checkpoint remains recoverable": once a recording has been
\* retired, its newest checkpoint is one that recovery accepts.
Checkpoints(g) == {a \in disk[g].artifacts : a.name # FinalName}
LatestCheckpointRecoverable ==
    \A g \in Generations :
        (recording.generation # g /\ Checkpoints(g) # {}) =>
            \A a \in Checkpoints(g) :
                (\A b \in Checkpoints(g) : b.name =< a.name) => ValidTerminal(disk[g], a)
=============================================================================
