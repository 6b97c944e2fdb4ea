----------------------- MODULE SessionRecordingSteps ------------------------
(***************************************************************************)
(* The durable recording, step by step: the parts of the inductive         *)
(* invariant of SessionRecordingProofs, and the proofs that every step     *)
(* keeps those about where the actor is (ControlOK), about what admission  *)
(* and the channel hold (AdmissionOK, OrderOK, ProgressOK), about the live *)
(* recording (LiveOK), the call under way and the recording being          *)
(* validated (CallOK, ValidatingOK), and about what every directory keeps  *)
(* through faults and crashes (DirectoriesOK, FinalizationsOK,             *)
(* CompletionsOK).                                                         *)
(***************************************************************************)
EXTENDS SessionRecording, TLAPS, FiniteSetTheorems

\* The prover of every leaf that does not name another one.
USE ZenonT(30)

-----------------------------------------------------------------------------
\* The parts of the inductive invariant.  First, names for the phases of the actor:
\* a file operation under way, the jobs of a recording that `active` holds, those of
\* a finalization, a preparation, and a recording that Finalize has taken.
Publishing == {"flush", "publish", "syncDirectory"}
ActiveOps == {"periodic", "bias", "control", "completion"}
FinalOps == {"finalCompletion", "final"}
Preparing == job.op = "prepare"
Closing ==
    /\ ~active /\ recording.generation # NoGeneration
    /\ call.kind = "finalize" /\ call.generation = recording.generation

\* Where the actor is.
ControlOK ==
    /\ hand # NoRecord <=> pc = "write"
    /\ pc \in {"control", "data", "write"} =>
          job = NoJob /\ (active <=> recording.generation # NoGeneration)
    /\ pc \in Publishing =>
          /\ recording.generation # NoGeneration
          /\ job.op # "none"
          /\ active <=> job.op \in ActiveOps
          /\ job.op \in {"prepare", "bias", "control", "completion"} =>
                call.kind = job.op /\ call.generation = recording.generation
          /\ job.op \in FinalOps => Closing
    /\ pc \in {"drain", "endEvent", "retire"} => Closing /\ job.op \in FinalOps \cup {"none"}
    /\ pc \in {"validate", "stopped"} =>
          ~active /\ recording.generation = NoGeneration /\ job.op = "none"
    /\ pc = "validate" => call.kind = "finalize"
    /\ call.kind \in {"prepare", "finalize"} => call.generation # NoGeneration
    /\ job.published => job.op = "final" /\ pc = "retire"

\* Admission is open for the recording that the actor holds, and a finalization has
\* closed it at the cutoff it carries.
AdmissionOK ==
    /\ admission.generation = IF Preparing THEN NoGeneration ELSE recording.generation
    /\ call.kind = "finalize" =>
          /\ ~admission.accepting /\ call.cutoff = admission.lastAccepted
          /\ pc = "validate" \/ (call.generation = recording.generation /\ ~Preparing)

\* The accepted records not yet consumed are the one in the actor's hand and those
\* on the channel, numbered without a gap.
InHand == IF pc = "write" THEN 1 ELSE 0
OrderOK ==
    /\ admission.generation = NoGeneration => queue = <<>> /\ pc # "write"
    /\ admission.generation # NoGeneration =>
          /\ Len(queue) + InHand = admission.lastAccepted - recording.consumed
          /\ pc = "write" => hand.sequence = recording.consumed + 1
          /\ \A i \in 1..Len(queue) :
                queue[i].sequence = recording.consumed + InHand + i
\* Nothing is consumed while a recording is prepared, and everything up to the cutoff
\* is before final.json is written.
ProgressOK ==
    /\ Preparing => recording.consumed = 0
    /\ pc \in {"endEvent", "retire"} \/ job.op \in FinalOps =>
          recording.consumed = call.cutoff
\* The reserved bytes are those of the records in flight.
BytesOK == queuedBytes = BytesOf(InFlight) /\ queuedBytes =< MaxQueuedBytes

\* The rows of a live recording are the ones its counters say.
LogOK(r, dir) ==
    /\ dir.manifest = "durable"
    /\ Cardinality(Rows(dir.log, Len(dir.log), "started")) = 1
    /\ Cardinality(Rows(dir.log, Len(dir.log), "bias")) = r.bias
    /\ Cardinality(Rows(dir.log, Len(dir.log), "completion")) =
          IF r.completionDurable THEN 1 ELSE 0
    /\ ~r.lastError => RecordsInOrder(dir.log, Len(dir.log), r.consumed)

\* The directory of the recording under way, and what its artifacts say in each
\* phase of a publication.
Here == disk[Directory]
FlowOK ==
    /\ recording.completionDurable => Directory \in reached
    /\ \A a \in Here.artifacts : a.name =< recording.ordinal
    /\ pc = "endEvent" \/ job.op \in FinalOps => ~recording.lastError
    /\ job.op = "completion" => recording.completionDurable
    /\ pc \in {"publish", "syncDirectory"} =>
          /\ Here.synced = Len(Here.log)
          /\ job.op # "final" => recording.ordinal >= 1
    /\ pc = "publish" /\ job.op # "final" =>
          \A a \in Here.artifacts : a.name < recording.ordinal
    /\ pc = "syncDirectory" =>
          /\ PublishedArtifact \in Here.artifacts
          /\ \A a \in Here.artifacts : a.name = PublishedArtifact.name => a = PublishedArtifact
    /\ \A a \in FinalArtifacts(Here) :
          /\ job.op = "final" /\ pc \in {"syncDirectory", "retire"}
          /\ a.length = Len(Here.log) /\ a.completed = recording.completionDurable
    /\ job.published => Here.unsynced = {}
LiveOK == recording.generation # NoGeneration => LogOK(recording, Here) /\ FlowOK

\* What the command that the worker waits for says of the directories and of the
\* completions asked for.
CallOK ==
    /\ call.kind = "prepare" /\ ~Preparing => disk[call.generation] = NoDirectory
    /\ call.kind = "completion" => call.generation \in reached
    /\ call.kind = "finalize" /\ call.reached => call.generation \in reached
\* While the save is validated, the directory is durable and its final.json declares
\* the records up to the cutoff and the completion of the recording.
ValidatingOK ==
    pc = "validate" =>
        /\ disk[call.generation].unsynced = {}
        /\ \A a \in FinalArtifacts(disk[call.generation]) :
              /\ a.completed = job.completed
              /\ RecordsInOrder(disk[call.generation].log, a.length, call.cutoff)

\* What holds of a directory whether or not it is being written.
DirectoryOK(dir, done) ==
    /\ dir.synced =< Len(dir.log)
    /\ \A a \in dir.artifacts : a.length =< dir.synced
    /\ dir.artifacts # {} => dir.manifest = "durable"
    /\ \E bound \in Nat : \A a \in dir.artifacts : a.name =< bound
    /\ \A a \in dir.artifacts : a.completed => done

\* What recovery makes of a directory whose finalization was acknowledged.
FinalizedOK(dir, answer) ==
    /\ dir.unsynced = {}
    /\ RecoverSession(dir) = Recovered("Finalized", answer.completed,
                                       IF answer.saved THEN "none" ELSE "records-dropped")
    /\ \E a \in FinalArtifacts(dir) : RecordsInOrder(dir.log, a.length, answer.cutoff)

\* A directory whose completion was acknowledged has a durable, valid checkpoint
\* saying so, and no artifact that recovery could prefer to it denies it.
CompletionOK(dir) ==
    \E a \in dir.artifacts \ dir.unsynced :
        /\ a.name # FinalName /\ ValidTerminal(dir, a)
        /\ \A b \in dir.artifacts : b.name = FinalName \/ b.name >= a.name => b.completed

\* The three for every directory.
DirectoriesOK == \A g \in Generations : DirectoryOK(disk[g], g \in reached)
FinalizationsOK ==
    \A g \in Generations : acked[g].finalized =>
        recording.generation # g /\ FinalizedOK(disk[g], acked[g])
CompletionsOK ==
    \A g \in Generations : acked[g].completion =>
        /\ recording.generation = g => recording.completionDurable
        /\ CompletionOK(disk[g])

\* The inductive invariant.
Inv ==
    /\ TypeOK /\ ControlOK /\ AdmissionOK /\ OrderOK /\ ProgressOK /\ BytesOK
    /\ LiveOK /\ CallOK /\ ValidatingOK
    /\ DirectoriesOK /\ FinalizationsOK /\ CompletionsOK

-----------------------------------------------------------------------------
USE DEF NoGeneration

\* No recording has the generation that stands for none.
LEMMA GenerationsPositive == \A g \in Generations : g # NoGeneration
  BY GenerationsAssumption

\* Arithmetic: what the names and lengths of artifacts are compared by.
LEMMA Compare ==
  ASSUME NEW a \in Nat, NEW b \in Nat
  PROVE  0 =< a /\ a =< a /\ (a < b => a # b)
  BY SMTT(30)

\* What BeginPublish leaves in the actor's job.
LEMMA Begun ==
  ASSUME NEW op, NEW loss, BeginPublish(op, loss)
  PROVE  /\ pc' = "flush" /\ UNCHANGED <<hand, crashes>>
         /\ job' = [op |-> op, loss |-> loss, published |-> FALSE, completed |-> FALSE]
         /\ job'.op = op /\ job'.loss = loss /\ ~job'.published
  <1>1. job' = [op |-> op, loss |-> loss, published |-> FALSE, completed |-> FALSE]
    BY DEF BeginPublish, NoJob
  <1>2. pc' = "flush" /\ UNCHANGED <<hand, crashes>>
    BY DEF BeginPublish
  <1>3. job'.op = op /\ job'.loss = loss /\ ~job'.published
    BY <1>1
  <1> QED BY <1>1, <1>2, <1>3

\* The head of a non-empty channel is the next record to consume: write_queued's
\* sequence check cannot fail.
LEMMA HeadIsRecord ==
  ASSUME TypeOK, OrderOK, queue # <<>>
  PROVE  /\ Head(queue) \in QueuedRecords /\ Head(queue) # NoRecord
         /\ Head(queue) = queue[1] /\ 1 \in 1..Len(queue)
         /\ Tail(queue) \in Seq(QueuedRecords)
         /\ admission.generation # NoGeneration
         /\ Head(queue).sequence = recording.consumed + InHand + 1
  <1>1. /\ Head(queue) \in QueuedRecords /\ Head(queue) = queue[1]
        /\ 1 \in 1..Len(queue) /\ Tail(queue) \in Seq(QueuedRecords)
    BY SMTT(30) DEF TypeOK
  <1>2. admission.generation # NoGeneration
    BY DEF OrderOK
  <1>3. Head(queue).sequence = recording.consumed + InHand + 1
    BY <1>1, <1>2 DEF OrderOK
  <1>4. recording.consumed + InHand + 1 # 0
    BY SMTT(30) DEF TypeOK, Recordings, InHand
  <1>5. Head(queue) # NoRecord
    BY <1>3, <1>4, SMTT(30) DEF NoRecord
  <1> QED BY <1>1, <1>2, <1>3, <1>5

\* The parts of a directory, and the updates that keep it a directory.
LEMMA DirectoryTypes ==
  ASSUME NEW dir \in Directories
  PROVE  /\ dir.log \in Seq(LogRows) /\ dir.synced \in Nat
         /\ dir.artifacts \subseteq Artifacts /\ dir.unsynced \subseteq Artifacts
         /\ \A log \in Seq(LogRows) : [dir EXCEPT !.log = log] \in Directories
         /\ \A n \in Nat : [dir EXCEPT !.synced = n] \in Directories
         /\ \A as, us \in SUBSET Artifacts :
               [dir EXCEPT !.artifacts = as, !.unsynced = us] \in Directories
         /\ [dir EXCEPT !.unsynced = {}] \in Directories
  BY DEF Directories

\* Rows are appended to the log of the recording under way, and nothing else.
LEMMA RowAppended ==
  ASSUME NEW row, disk \in [Generations -> Directories], Directory \in Generations,
         disk' = [disk EXCEPT ![Directory].log = Append(@, row)]
  PROVE  /\ disk'[Directory] = [disk[Directory] EXCEPT !.log = Append(@, row)]
         /\ \A g \in Generations : g # Directory => disk'[g] = disk[g]
         /\ row \in LogRows => disk' \in [Generations -> Directories]
  <1>1. disk'[Directory] = [disk[Directory] EXCEPT !.log = Append(@, row)]
    OBVIOUS
  <1>2. \A g \in Generations : g # Directory => disk'[g] = disk[g]
    OBVIOUS
  <1>3. ASSUME row \in LogRows PROVE disk' \in [Generations -> Directories]
    <2>1. disk[Directory] \in Directories
      OBVIOUS
    <2>2. [disk[Directory] EXCEPT !.log = Append(@, row)] \in Directories
      <3>1. disk[Directory].log \in Seq(LogRows)
        BY <2>1, DirectoryTypes
      <3>2. Append(disk[Directory].log, row) \in Seq(LogRows)
        BY <1>3, <3>1, SMTT(30)
      <3> QED BY <2>1, <3>2, DirectoryTypes
    <2> QED BY <1>1, <1>2, <2>2
  <1> QED BY <1>1, <1>2, <1>3

\* The rows that write_record appends are rows.
LEMMA RowTypes ==
  /\ \A kind \in RowKinds : Row(kind) \in LogRows
  /\ \A n \in Nat : RecordRow(n) \in LogRows
  BY DEF Row, RecordRow, LogRows, RowKinds

-----------------------------------------------------------------------------
\* Every step keeps the actor's phase consistent with its job, the recording it
\* holds and the command under way.
LEMMA ControlStep ==
  ASSUME TypeOK, ControlOK, OrderOK, Next
  PROVE  ControlOK'
  <1> USE DEF ControlOK, Closing, Publishing, ActiveOps, FinalOps, NoJob, NoCall,
              NoRecording
  <1>1. ASSUME NEW g \in Generations, NEW size \in Sizes, Offer(g, size) PROVE ControlOK'
    BY <1>1 DEF Offer, actorVars
  <1>2. ASSUME NEW g \in Generations, RecordExternalLoss(g) PROVE ControlOK'
    BY <1>2 DEF RecordExternalLoss, actorVars
  <1>3. ASSUME NEW g \in Generations, CallPrepare(g) PROVE ControlOK'
    BY <1>3, GenerationsPositive DEF CallPrepare, Send, Command, actorVars
  <1>4. ASSUME NEW g \in Generations, CallRecordControl(g) PROVE ControlOK'
    BY <1>4 DEF CallRecordControl, Send, Command, actorVars
  <1>5. ASSUME NEW g \in Generations, CallRecordBiasChange(g) PROVE ControlOK'
    BY <1>5 DEF CallRecordBiasChange, Send, Command, actorVars
  <1>6. ASSUME NEW g \in Generations, CallMarkCompletion(g) PROVE ControlOK'
    BY <1>6 DEF CallMarkCompletion, Send, Command, actorVars
  <1>7. ASSUME NEW g \in Generations, NEW threshold \in BOOLEAN, CallFinalize(g, threshold)
        PROVE  ControlOK'
    BY <1>7, GenerationsPositive DEF CallFinalize, Send, actorVars
  <1>8. ASSUME CallShutdown PROVE ControlOK'
    BY <1>8 DEF CallShutdown, Send, Command, actorVars
  <1>9. ASSUME Prepare PROVE ControlOK'
    <2>1. CASE BeginPublish("prepare", 0)
      <3>1. /\ recording'.generation = call.generation /\ UNCHANGED <<call, active>> /\ ~active
            /\ call.kind = "prepare"
        BY <1>9, <2>1, Begun DEF Prepare, Answer, NewRecording
      <3> QED BY <1>9, <2>1, <3>1, Begun, SMTT(30) DEF Prepare
    <2> QED BY <1>9, <2>1, SMTT(30) DEF Prepare, Answer
  <1>10. ASSUME RecordControl PROVE ControlOK'
    <2>1. CASE BeginPublish("control", LossOf(Directory)) /\ UNCHANGED call
      BY <1>10, <2>1, Begun DEF RecordControl, Handles
    <2> QED BY <1>10, <2>1, SMTT(30) DEF RecordControl, Handles, Answer
  <1>11. ASSUME RecordBiasChange PROVE ControlOK'
    <2>0. recording'.generation = recording.generation
      BY <1>11 DEF RecordBiasChange, TypeOK, Recordings
    <2>1. CASE BeginPublish("bias", LossOf(Directory)) /\ UNCHANGED call
      BY <1>11, <2>0, <2>1, Begun DEF RecordBiasChange, Handles
    <2> QED BY <1>11, <2>0, <2>1, SMTT(30) DEF RecordBiasChange, Handles, Answer
  <1>12. ASSUME MarkCompletion PROVE ControlOK'
    <2>0. recording'.generation = recording.generation
      BY <1>12 DEF MarkCompletion, WriteCompletion, TypeOK, Recordings
    <2>1. CASE BeginPublish("completion", LossOf(Directory)) /\ UNCHANGED call
      BY <1>12, <2>0, <2>1, Begun DEF MarkCompletion, Handles
    <2> QED BY <1>12, <2>0, <2>1, SMTT(30) DEF MarkCompletion, WriteCompletion, Handles, Answer
  <1>13. ASSUME Finalize PROVE ControlOK'
    BY <1>13, SMTT(30) DEF Finalize, Handles
  <1>14. ASSUME DrainRecord PROVE ControlOK'
    BY <1>14 DEF DrainRecord, TypeOK, Recordings
  <1>15. ASSUME Finalizing PROVE ControlOK'
    BY <1>15 DEF Finalizing, WriteCompletion, BeginPublish, TypeOK, Recordings
  <1>16. ASSUME WriteEndEvent PROVE ControlOK'
    <2>1. CASE BeginPublish("final", call.loss)
      BY <1>16, <2>1, Begun, SMTT(30) DEF WriteEndEvent
    <2> QED BY <1>16, <2>1, SMTT(30) DEF WriteEndEvent
  <1>17. ASSUME Retire PROVE ControlOK'
    BY <1>17, SMTT(30) DEF Retire, Answer
  <1>18. ASSUME Validate PROVE ControlOK'
    BY <1>18 DEF Validate, Answer
  <1>19. ASSUME Shutdown PROVE ControlOK'
    BY <1>19, SMTT(30) DEF Shutdown, Answer
  <1>20. ASSUME PeriodicCheckpoint PROVE ControlOK'
    BY <1>20 DEF PeriodicCheckpoint, BeginPublish
  <1>21. ASSUME ControlIdle PROVE ControlOK'
    BY <1>21 DEF ControlIdle
  <1>22. ASSUME ReceiveData PROVE ControlOK'
    BY <1>22, HeadIsRecord DEF ReceiveData
  <1>23. ASSUME WriteQueued PROVE ControlOK'
    BY <1>23 DEF WriteQueued, TypeOK, Recordings
  <1>24. ASSUME pc \in Publishing, PublishFailed PROVE ControlOK'
    BY <1>24, SMTT(30) DEF PublishFailed, Answer, TypeOK, Recordings
  <1>25. ASSUME FlushSyncStreams PROVE ControlOK'
    BY <1>24, <1>25, SMTT(30) DEF FlushSyncStreams, TypeOK, Recordings
  <1>26. ASSUME PublishJsonExclusive PROVE ControlOK'
    BY <1>24, <1>26, SMTT(30) DEF PublishJsonExclusive
  <1>27. ASSUME pc = "syncDirectory", PublishDone PROVE ControlOK'
    BY <1>27, SMTT(30) DEF PublishDone, Answer, TypeOK, Jobs
  <1>28. ASSUME SyncDirectory PROVE ControlOK'
    BY <1>24, <1>27, <1>28 DEF SyncDirectory
  <1>29. ASSUME Crash PROVE ControlOK'
    BY <1>29 DEF Crash
  <1> HIDE DEF ControlOK
  <1> QED
    BY <1>1, <1>2, <1>3, <1>4, <1>5, <1>6, <1>7, <1>8, <1>9, <1>10, <1>11, <1>12, <1>13,
       <1>14, <1>15, <1>16, <1>17, <1>18, <1>19, <1>20, <1>21, <1>22, <1>23, <1>25,
       <1>26, <1>28, <1>29 DEF Next, Producer, Caller, Actor

\* Every step keeps admission consistent with the actor's recording and with the
\* finalization under way.
LEMMA AdmissionStep ==
  ASSUME TypeOK, ControlOK, AdmissionOK, Next
  PROVE  AdmissionOK'
  <1> USE DEF ControlOK, AdmissionOK, Preparing, Closing, Publishing, ActiveOps, FinalOps,
              NoJob, NoCall, NoRecording
  <1>1. ASSUME NEW g \in Generations, NEW size \in Sizes, Offer(g, size) PROVE AdmissionOK'
    <2>1. admission'.generation = admission.generation /\ call.kind # "finalize"
      BY <1>1 DEF Offer, AcceptOffer, DropOffer, TypeOK, Admissions
    <2> QED BY <1>1, <2>1 DEF Offer, actorVars
  <1>2. ASSUME NEW g \in Generations, RecordExternalLoss(g) PROVE AdmissionOK'
    BY <1>2 DEF RecordExternalLoss, actorVars
  <1>3. ASSUME NEW g \in Generations, CallPrepare(g) PROVE AdmissionOK'
    BY <1>3 DEF CallPrepare, Send, Command, actorVars, admissionVars
  <1>4. ASSUME NEW g \in Generations, CallRecordControl(g) PROVE AdmissionOK'
    BY <1>4 DEF CallRecordControl, Send, Command, actorVars, admissionVars
  <1>5. ASSUME NEW g \in Generations, CallRecordBiasChange(g) PROVE AdmissionOK'
    BY <1>5 DEF CallRecordBiasChange, Send, Command, actorVars, admissionVars
  <1>6. ASSUME NEW g \in Generations, CallMarkCompletion(g) PROVE AdmissionOK'
    BY <1>6 DEF CallMarkCompletion, Send, Command, actorVars, admissionVars
  <1>7. ASSUME NEW g \in Generations, NEW threshold \in BOOLEAN, CallFinalize(g, threshold)
        PROVE  AdmissionOK'
    <2>1. /\ admission'.generation = admission.generation /\ ~admission'.accepting
          /\ admission'.lastAccepted = admission.lastAccepted
      BY <1>7 DEF CallFinalize, TypeOK, Admissions
    <2>2. /\ call'.kind = "finalize" /\ call'.generation = g
          /\ call'.cutoff = admission.lastAccepted
      BY <1>7 DEF CallFinalize, Send
    <2>3. UNCHANGED <<recording, job, pc>>
      BY <1>7 DEF CallFinalize, Send, actorVars
    <2> QED BY <1>7, <2>1, <2>2, <2>3, GenerationsPositive DEF CallFinalize
  <1>8. ASSUME CallShutdown PROVE AdmissionOK'
    BY <1>8 DEF CallShutdown, Send, Command, actorVars, admissionVars
  <1>9. ASSUME Prepare PROVE AdmissionOK'
    <2>1. CASE BeginPublish("prepare", 0) /\ UNCHANGED call
      <3>1. job'.op = "prepare" /\ UNCHANGED <<admission, call>> /\ call.kind = "prepare"
            /\ admission.generation = NoGeneration
        BY <1>9, <2>1, Begun DEF Prepare, Answer, admissionVars
      <3> QED BY <3>1
    <2> QED BY <1>9, <2>1, SMTT(30) DEF Prepare, Answer, admissionVars
  <1>10. ASSUME RecordControl PROVE AdmissionOK'
    <2>1. CASE BeginPublish("control", LossOf(Directory)) /\ UNCHANGED call
      BY <1>10, <2>1, Begun, SMTT(30) DEF RecordControl, Handles, admissionVars
    <2> QED BY <1>10, <2>1, SMTT(30) DEF RecordControl, Handles, Answer, admissionVars
  <1>11. ASSUME RecordBiasChange PROVE AdmissionOK'
    <2>0. recording'.generation = recording.generation
      BY <1>11 DEF RecordBiasChange, TypeOK, Recordings
    <2>1. CASE BeginPublish("bias", LossOf(Directory)) /\ UNCHANGED call
      BY <1>11, <2>0, <2>1, Begun, SMTT(30) DEF RecordBiasChange, Handles, admissionVars
    <2> QED BY <1>11, <2>0, <2>1, SMTT(30) DEF RecordBiasChange, Handles, Answer, admissionVars
  <1>12. ASSUME MarkCompletion PROVE AdmissionOK'
    <2>0. recording'.generation = recording.generation
      BY <1>12 DEF MarkCompletion, WriteCompletion, TypeOK, Recordings
    <2>1. CASE BeginPublish("completion", LossOf(Directory)) /\ UNCHANGED call
      BY <1>12, <2>0, <2>1, Begun, SMTT(30) DEF MarkCompletion, Handles, admissionVars
    <2> QED BY <1>12, <2>0, <2>1, SMTT(30) DEF MarkCompletion, WriteCompletion, Handles, Answer, admissionVars
  <1>13. ASSUME Finalize PROVE AdmissionOK'
    BY <1>13 DEF Finalize, Handles, admissionVars
  <1>14. ASSUME DrainRecord PROVE AdmissionOK'
    <2>0. recording'.generation = recording.generation
      BY <1>14 DEF DrainRecord, TypeOK, Recordings
    <2> QED BY <1>14, <2>0 DEF DrainRecord
  <1>15. ASSUME Finalizing PROVE AdmissionOK'
    <2>0. recording'.generation = recording.generation
      BY <1>15 DEF Finalizing, WriteCompletion, TypeOK, Recordings
    <2>1. CASE BeginPublish("finalCompletion", call.loss)
      BY <1>15, <2>0, <2>1, Begun, SMTT(30) DEF Finalizing, WriteCompletion, admissionVars
    <2> QED BY <1>15, <2>0, <2>1 DEF Finalizing, WriteCompletion, admissionVars
  <1>16. ASSUME WriteEndEvent PROVE AdmissionOK'
    <2>1. CASE BeginPublish("final", call.loss)
      BY <1>16, <2>1, Begun, SMTT(30) DEF WriteEndEvent, admissionVars
    <2> QED BY <1>16, <2>1, SMTT(30) DEF WriteEndEvent, admissionVars
  <1>17. ASSUME Retire PROVE AdmissionOK'
    <2>1. /\ admission'.generation = NoGeneration /\ ~admission'.accepting
          /\ admission'.lastAccepted = admission.lastAccepted
      BY <1>17 DEF Retire, TypeOK, Admissions
    <2>2. /\ recording'.generation = NoGeneration
          /\ \/ pc' = "validate" /\ UNCHANGED call /\ job'.op = "none"
             \/ call' = NoCall /\ job' = NoJob
      BY <1>17 DEF Retire, Answer
    <2> QED BY <1>17, <2>1, <2>2, SMTT(30) DEF Retire
  <1>18. ASSUME Validate PROVE AdmissionOK'
    BY <1>18 DEF Validate, Answer, admissionVars
  <1>19. ASSUME Shutdown PROVE AdmissionOK'
    BY <1>19, SMTT(30) DEF Shutdown, Answer, admissionVars
  <1>20. ASSUME PeriodicCheckpoint PROVE AdmissionOK'
    BY <1>20, Begun, SMTT(30) DEF PeriodicCheckpoint, admissionVars
  <1>21. ASSUME ControlIdle PROVE AdmissionOK'
    BY <1>21 DEF ControlIdle, admissionVars
  <1>22. ASSUME ReceiveData PROVE AdmissionOK'
    BY <1>22 DEF ReceiveData
  <1>23. ASSUME WriteQueued PROVE AdmissionOK'
    <2>0. recording'.generation = recording.generation
      BY <1>23 DEF WriteQueued, TypeOK, Recordings
    <2>1. /\ admission'.generation = admission.generation
          /\ admission'.lastAccepted = admission.lastAccepted
          /\ admission'.accepting => admission.accepting
      BY <1>23 DEF WriteQueued, SetNotAccepting, TypeOK, Admissions
    <2> QED BY <1>23, <2>0, <2>1 DEF WriteQueued
  <1>24. ASSUME pc \in Publishing, PublishFailed PROVE AdmissionOK'
    <2>1. /\ admission'.generation = admission.generation
          /\ admission'.lastAccepted = admission.lastAccepted
          /\ admission'.accepting => admission.accepting
      BY <1>24 DEF PublishFailed, SetNotAccepting, TypeOK, Admissions
    <2>2. job.op = "prepare" => recording' = NoRecording /\ call' = NoCall /\ job' = NoJob
      BY <1>24 DEF PublishFailed, Answer
    <2>3. job.op # "prepare" => recording'.generation = recording.generation
      BY <1>24 DEF PublishFailed, TypeOK, Recordings
    <2>4. job.op # "prepare" =>
             /\ job'.op # "prepare"
             /\ call' = call \/ call' = NoCall
      BY <1>24, SMTT(30) DEF PublishFailed, Answer
    <2> QED BY <1>24, <2>1, <2>2, <2>3, <2>4, SMTT(30)
  <1>25. ASSUME FlushSyncStreams PROVE AdmissionOK'
    <2>1. ASSUME UNCHANGED <<admissionVars, call, job>>, pc' = "publish",
                 recording' = IF job.op = "final" THEN recording
                              ELSE [recording EXCEPT !.ordinal = @ + 1]
          PROVE  AdmissionOK'
      <3>1. recording'.generation = recording.generation
        BY <2>1 DEF TypeOK, Recordings
      <3> QED BY <1>25, <2>1, <3>1 DEF FlushSyncStreams, admissionVars
    <2> QED BY <1>24, <1>25, <2>1 DEF FlushSyncStreams
  <1>26. ASSUME PublishJsonExclusive PROVE AdmissionOK'
    BY <1>24, <1>26 DEF PublishJsonExclusive, admissionVars
  <1>27. ASSUME pc = "syncDirectory", PublishDone PROVE AdmissionOK'
    <2>1. CASE job.op = "prepare"
      <3>1. /\ admission'.generation = recording.generation
            /\ call' = NoCall /\ job' = NoJob /\ UNCHANGED recording
        BY <1>27, <2>1 DEF PublishDone, Answer, NoAdmission, Directory
      <3> QED BY <3>1
    <2>2. CASE job.op # "prepare"
      <3>1. UNCHANGED <<admission, recording>>
        BY <1>27, <2>2 DEF PublishDone, admissionVars
      <3>2. job'.op # "prepare" /\ (call' = call \/ call' = NoCall)
        BY <1>27, <2>2, SMTT(30) DEF PublishDone, Answer, TypeOK, Jobs
      <3> QED BY <1>27, <2>2, <3>1, <3>2, SMTT(30)
    <2> QED BY <2>1, <2>2
  <1>28. ASSUME SyncDirectory PROVE AdmissionOK'
    BY <1>24, <1>27, <1>28 DEF SyncDirectory
  <1>29. ASSUME Crash PROVE AdmissionOK'
    BY <1>29 DEF Crash, NoAdmission
  <1> HIDE DEF AdmissionOK
  <1> QED
    BY <1>1, <1>2, <1>3, <1>4, <1>5, <1>6, <1>7, <1>8, <1>9, <1>10, <1>11, <1>12, <1>13,
       <1>14, <1>15, <1>16, <1>17, <1>18, <1>19, <1>20, <1>21, <1>22, <1>23, <1>25,
       <1>26, <1>28, <1>29 DEF Next, Producer, Caller, Actor

\* A step that touches neither the channel nor the counters keeps the records in
\* order.
LEMMA OrderFrame ==
  ASSUME OrderOK, UNCHANGED <<queue, hand>>, pc' = "write" <=> pc = "write",
         admission'.generation = admission.generation,
         admission.generation # NoGeneration =>
            /\ admission'.lastAccepted = admission.lastAccepted
            /\ recording'.consumed = recording.consumed
  PROVE  OrderOK'
  BY DEF OrderOK, InHand

\* Every step keeps the records in flight in order and without a gap: offer_to_queue,
\* write_queued, drain_to_cutoff and retire_to_cutoff.
LEMMA OrderStep ==
  ASSUME TypeOK, ControlOK, AdmissionOK, OrderOK, ProgressOK, Next
  PROVE  OrderOK'
  <1> USE DEF Publishing, FinalOps, ActiveOps, NoRecording, Preparing
  <1>1. ASSUME NEW g \in Generations, NEW size \in Sizes, Offer(g, size) PROVE OrderOK'
    <2>0. UNCHANGED <<recording, pc, hand>> /\ admission.generation # NoGeneration
      BY <1>1, GenerationsPositive DEF Offer, actorVars
    <2>1. CASE DropOffer(size)
      <3>1. /\ admission'.generation = admission.generation
            /\ admission'.lastAccepted = admission.lastAccepted
        BY <2>1 DEF DropOffer, TypeOK, Admissions
      <3> QED BY <2>0, <2>1, <3>1, OrderFrame DEF DropOffer
    <2>2. CASE AcceptOffer(size)
      <3> DEFINE r == [sequence |-> admission.lastAccepted + 1, bytes |-> size]
      <3>1. /\ admission'.generation = admission.generation
            /\ admission'.lastAccepted = admission.lastAccepted + 1
        BY <2>2 DEF AcceptOffer, TypeOK, Admissions
      <3>2. queue' = Append(queue, r)
        BY <2>2 DEF AcceptOffer
      <3>3. /\ admission.lastAccepted \in Nat /\ recording.consumed \in Nat
            /\ queue \in Seq(QueuedRecords) /\ InHand \in Nat
        BY DEF TypeOK, Admissions, Recordings, InHand
      <3>4. r \in QueuedRecords /\ r.sequence = admission.lastAccepted + 1
        BY <3>3, SizesAssumption, SMTT(30) DEF QueuedRecords
      <3> HIDE DEF r
      <3>5. /\ Len(queue') = Len(queue) + 1 /\ queue'[Len(queue) + 1] = r
            /\ \A i \in 1..Len(queue) : queue'[i] = queue[i]
            /\ Len(queue) \in Nat
        BY <3>2, <3>3, <3>4, SMTT(30)
      <3>6. Len(queue) + InHand = admission.lastAccepted - recording.consumed
        BY <2>0 DEF OrderOK
      <3>7. r.sequence = recording.consumed + InHand + (Len(queue) + 1)
        <4>1. admission.lastAccepted + 1 = recording.consumed + InHand + (Len(queue) + 1)
          <5> DEFINE n == Len(queue)
          <5>1. n \in Nat /\ n + InHand = admission.lastAccepted - recording.consumed
            BY <3>5, <3>6
          <5> HIDE DEF n
          <5>2. admission.lastAccepted + 1 = recording.consumed + InHand + (n + 1)
            BY <3>3, <5>1, SMTT(30)
          <5> QED BY <5>2 DEF n
        <4> QED BY <3>4, <4>1
      <3>8. ASSUME NEW i \in 1..Len(queue')
            PROVE  queue'[i].sequence = recording.consumed + InHand + i
        <4>1. CASE i = Len(queue) + 1
          BY <4>1, <3>5, <3>7
        <4>2. CASE i \in 1..Len(queue)
          BY <4>2, <3>5, <2>0 DEF OrderOK
        <4> QED BY <3>5, <4>1, <4>2, SMTT(30)
      <3>9. InHand' = InHand
        BY <2>0 DEF InHand
      <3>10. Len(queue') + InHand' = admission'.lastAccepted - recording'.consumed
        <4>1. (Len(queue) + 1) + InHand = (admission.lastAccepted + 1) - recording.consumed
          <5> DEFINE n == Len(queue)
          <5>1. n \in Nat /\ n + InHand = admission.lastAccepted - recording.consumed
            BY <3>5, <3>6
          <5> HIDE DEF n
          <5>2. (n + 1) + InHand = (admission.lastAccepted + 1) - recording.consumed
            BY <3>3, <5>1, SMTT(30)
          <5> QED BY <5>2 DEF n
        <4> QED BY <2>0, <3>1, <3>5, <3>9, <4>1
      <3> QED BY <2>0, <3>1, <3>8, <3>9, <3>10 DEF OrderOK
    <2> QED BY <1>1, <2>1, <2>2 DEF Offer
  <1>2. ASSUME NEW g \in Generations, RecordExternalLoss(g) PROVE OrderOK'
    BY <1>2, OrderFrame DEF RecordExternalLoss, actorVars
  <1>3. ASSUME Caller PROVE OrderOK'
    <2>1. UNCHANGED <<queue, hand, pc, recording>>
      BY <1>3 DEF Caller, CallPrepare, CallRecordControl, CallRecordBiasChange,
           CallMarkCompletion, CallFinalize, CallShutdown, Send, actorVars, admissionVars
    <2>2. /\ admission'.generation = admission.generation
          /\ admission'.lastAccepted = admission.lastAccepted
      BY <1>3 DEF Caller, CallPrepare, CallRecordControl, CallRecordBiasChange,
           CallMarkCompletion, CallFinalize, CallShutdown, admissionVars, TypeOK, Admissions
    <2> QED BY <2>1, <2>2, OrderFrame
  <1>9. ASSUME Prepare PROVE OrderOK'
    <2>1. UNCHANGED <<queue, hand, admission>> /\ pc = "control" /\ pc' # "write"
      BY <1>9, Begun DEF Prepare, admissionVars, Answer
    <2>2. recording' = recording \/ admission.generation = NoGeneration
      BY <1>9 DEF Prepare, ControlOK, AdmissionOK, NoJob
    <2> QED BY <2>1, <2>2, OrderFrame
  <1>10. ASSUME RecordControl PROVE OrderOK'
    <2>1. UNCHANGED <<queue, hand, admission, recording>> /\ pc = "control" /\ pc' # "write"
      BY <1>10, Begun DEF RecordControl, Handles, admissionVars, Answer
    <2> QED BY <2>1, OrderFrame
  <1>11. ASSUME RecordBiasChange PROVE OrderOK'
    <2>1. UNCHANGED <<queue, hand, admission>> /\ pc = "control" /\ pc' # "write"
      BY <1>11, Begun DEF RecordBiasChange, Handles, admissionVars, Answer
    <2>2. recording'.consumed = recording.consumed
      BY <1>11 DEF RecordBiasChange, TypeOK, Recordings
    <2> QED BY <2>1, <2>2, OrderFrame
  <1>12. ASSUME MarkCompletion PROVE OrderOK'
    <2>1. UNCHANGED <<queue, hand, admission>> /\ pc = "control" /\ pc' # "write"
      BY <1>12, Begun DEF MarkCompletion, WriteCompletion, Handles, admissionVars, Answer
    <2>2. recording'.consumed = recording.consumed
      BY <1>12 DEF MarkCompletion, WriteCompletion, TypeOK, Recordings
    <2> QED BY <2>1, <2>2, OrderFrame
  <1>13. ASSUME Finalize PROVE OrderOK'
    BY <1>13, OrderFrame DEF Finalize, Handles, admissionVars
  <1>14. ASSUME DrainRecord PROVE OrderOK'
    <2>1. /\ queue # <<>> /\ queue' = Tail(queue) /\ UNCHANGED <<admission, pc, hand>>
          /\ pc = "drain"
      BY <1>14 DEF DrainRecord
    <2>2. recording'.consumed = Head(queue).sequence
      BY <1>14 DEF DrainRecord, TypeOK, Recordings
    <2>3. InHand = 0 /\ InHand' = 0
      BY <2>1 DEF InHand
    <2>4. /\ queue \in Seq(QueuedRecords) /\ recording.consumed \in Nat
          /\ admission.lastAccepted \in Nat
      BY DEF TypeOK, Recordings, Admissions
    <2>5. recording'.consumed = recording.consumed + 1 /\ admission.generation # NoGeneration
      BY <2>1, <2>2, <2>3, <2>4, HeadIsRecord, SMTT(30)
    <2>6. /\ Len(queue) \in Nat /\ Len(queue') = Len(queue) - 1
          /\ \A i \in 1..Len(queue') : queue'[i] = queue[i + 1] /\ i + 1 \in 1..Len(queue)
      BY <2>1, <2>4, SMTT(30)
    <2>7. /\ Len(queue) = admission.lastAccepted - recording.consumed
          /\ \A i \in 1..Len(queue) : queue[i].sequence = recording.consumed + i
      BY <2>3, <2>4, <2>5, <2>6, SMTT(30) DEF OrderOK
    <2>8. Len(queue') = admission'.lastAccepted - recording'.consumed
      BY <2>1, <2>4, <2>5, <2>6, <2>7, SMTT(30)
    <2>9. ASSUME NEW i \in 1..Len(queue')
          PROVE  queue'[i].sequence = recording'.consumed + i
      <3>1. queue'[i].sequence = recording.consumed + (i + 1)
        BY <2>6, <2>7
      <3>2. i \in Nat
        BY <2>6, SMTT(30)
      <3>3. recording.consumed + (i + 1) = (recording.consumed + 1) + i
        BY <3>2, <2>4, SMTT(30)
      <3> QED BY <3>1, <3>3, <2>5
    <2> QED BY <2>1, <2>3, <2>4, <2>5, <2>6, <2>8, <2>9, SMTT(30) DEF OrderOK
  <1>15. ASSUME Finalizing PROVE OrderOK'
    <2>1. UNCHANGED <<queue, hand, admission>> /\ pc = "drain" /\ pc' # "write"
      BY <1>15, Begun DEF Finalizing, WriteCompletion, admissionVars
    <2>2. recording'.consumed = recording.consumed
      BY <1>15 DEF Finalizing, WriteCompletion, TypeOK, Recordings
    <2> QED BY <2>1, <2>2, OrderFrame
  <1>16. ASSUME WriteEndEvent PROVE OrderOK'
    <2>1. UNCHANGED <<queue, hand, admission, recording>> /\ pc = "endEvent" /\ pc' # "write"
      BY <1>16, Begun DEF WriteEndEvent, admissionVars
    <2> QED BY <2>1, OrderFrame
  <1>17. ASSUME Retire PROVE OrderOK'
    <2>1. /\ admission'.generation = NoGeneration /\ UNCHANGED queue
          /\ pc = "retire" /\ pc' # "write"
      BY <1>17 DEF Retire, Answer, TypeOK, Admissions
    <2>2. recording.consumed = admission.lastAccepted
      BY <2>1 DEF ProgressOK, ControlOK, Closing, AdmissionOK
    <2>3. InHand = 0 /\ admission.lastAccepted \in Nat /\ queue \in Seq(QueuedRecords)
      BY <2>1 DEF InHand, TypeOK, Admissions
    <2>4. queue = <<>>
      <3>1. CASE admission.generation = NoGeneration
        BY <3>1 DEF OrderOK
      <3>2. CASE admission.generation # NoGeneration
        <4>1. Len(queue) = 0
          BY <3>2, <2>2, <2>3, SMTT(30) DEF OrderOK
        <4> QED BY <4>1, <2>3, SMTT(30)
      <3> QED BY <3>1, <3>2
    <2> QED BY <2>1, <2>4 DEF OrderOK
  <1>18. ASSUME Validate PROVE OrderOK'
    BY <1>18, OrderFrame DEF Validate, Answer, admissionVars
  <1>19. ASSUME Shutdown PROVE OrderOK'
    BY <1>19, OrderFrame DEF Shutdown, Answer, admissionVars
  <1>20. ASSUME PeriodicCheckpoint PROVE OrderOK'
    BY <1>20, Begun, OrderFrame DEF PeriodicCheckpoint, admissionVars
  <1>21. ASSUME ControlIdle PROVE OrderOK'
    BY <1>21, OrderFrame DEF ControlIdle, admissionVars
  <1>22. ASSUME ReceiveData PROVE OrderOK'
    <2>0. UNCHANGED <<admission, recording>> /\ pc = "data"
      BY <1>22 DEF ReceiveData
    <2>1. CASE queue = <<>>
      BY <1>22, <2>0, <2>1, OrderFrame DEF ReceiveData
    <2>2. CASE queue # <<>>
      <3>1. hand' = Head(queue) /\ queue' = Tail(queue) /\ pc' = "write"
        BY <1>22, <2>2 DEF ReceiveData
      <3>2. InHand = 0 /\ InHand' = 1
        BY <2>0, <3>1 DEF InHand
      <3>3. /\ queue \in Seq(QueuedRecords) /\ recording.consumed \in Nat
            /\ admission.lastAccepted \in Nat
        BY DEF TypeOK, Recordings, Admissions
      <3>4. hand'.sequence = recording.consumed + 1 /\ admission.generation # NoGeneration
        BY <2>2, <3>1, <3>2, <3>3, HeadIsRecord, SMTT(30)
      <3>5. /\ Len(queue) \in Nat /\ Len(queue') = Len(queue) - 1
            /\ \A i \in 1..Len(queue') : queue'[i] = queue[i + 1] /\ i + 1 \in 1..Len(queue)
        BY <2>2, <3>1, <3>3, SMTT(30)
      <3>6. /\ Len(queue) = admission.lastAccepted - recording.consumed
            /\ \A i \in 1..Len(queue) : queue[i].sequence = recording.consumed + i
        BY <3>2, <3>3, <3>4, <3>5, SMTT(30) DEF OrderOK
      <3>7. Len(queue') + 1 = admission'.lastAccepted - recording'.consumed
        BY <2>0, <3>3, <3>5, <3>6, SMTT(30)
      <3>8. ASSUME NEW i \in 1..Len(queue')
            PROVE  queue'[i].sequence = recording'.consumed + 1 + i
        <4>1. queue'[i].sequence = recording.consumed + (i + 1)
          BY <3>5, <3>6
        <4>2. i \in Nat
          BY <3>5, SMTT(30)
        <4>3. recording.consumed + (i + 1) = recording.consumed + 1 + i
          BY <4>2, <3>3, SMTT(30)
        <4> QED BY <4>1, <4>3, <2>0
      <3> QED BY <2>0, <3>1, <3>2, <3>4, <3>7, <3>8 DEF OrderOK
    <2> QED BY <2>1, <2>2
  <1>23. ASSUME WriteQueued PROVE OrderOK'
    <2>1. UNCHANGED queue /\ pc = "write" /\ pc' = "control"
      BY <1>23 DEF WriteQueued
    <2>2. /\ admission'.generation = admission.generation
          /\ admission'.lastAccepted = admission.lastAccepted
      BY <1>23 DEF WriteQueued, SetNotAccepting, TypeOK, Admissions
    <2>3. recording'.consumed = hand.sequence
      BY <1>23 DEF WriteQueued, TypeOK, Recordings
    <2>4. InHand = 1 /\ InHand' = 0
      BY <2>1 DEF InHand
    <2>5. /\ queue \in Seq(QueuedRecords) /\ recording.consumed \in Nat
          /\ admission.lastAccepted \in Nat
      BY DEF TypeOK, Recordings, Admissions
    <2>6. /\ admission.generation # NoGeneration
          /\ Len(queue) + 1 = admission.lastAccepted - recording.consumed
          /\ hand.sequence = recording.consumed + 1
          /\ \A i \in 1..Len(queue) : queue[i].sequence = recording.consumed + 1 + i
      BY <2>1, <2>4 DEF OrderOK
    <2>7. Len(queue') = admission'.lastAccepted - recording'.consumed
      BY <2>1, <2>2, <2>3, <2>5, <2>6, SMTT(30)
    <2>8. \A i \in 1..Len(queue') : queue'[i].sequence = recording'.consumed + i
      BY <2>1, <2>3, <2>6
    <2>9. Len(queue') \in Nat /\ recording'.consumed \in Nat
      BY <2>1, <2>3, <2>5, <2>6, SMTT(30)
    <2> QED BY <2>1, <2>2, <2>4, <2>6, <2>7, <2>8, <2>9, SMTT(30) DEF OrderOK
  <1>24. ASSUME pc \in Publishing, PublishFailed PROVE OrderOK'
    <2>1. UNCHANGED <<queue, hand>> /\ pc' # "write"
      BY <1>24 DEF PublishFailed, Answer
    <2>2. /\ admission'.generation = admission.generation
          /\ admission'.lastAccepted = admission.lastAccepted
      BY <1>24 DEF PublishFailed, SetNotAccepting, TypeOK, Admissions
    <2>3. recording'.consumed = recording.consumed \/ admission.generation = NoGeneration
      BY <1>24 DEF PublishFailed, TypeOK, Recordings, AdmissionOK
    <2> QED BY <1>24, <2>1, <2>2, <2>3, OrderFrame
  <1>25. ASSUME FlushSyncStreams PROVE OrderOK'
    <2>1. ASSUME UNCHANGED <<admissionVars, hand>>, pc' = "publish",
                 recording' = IF job.op = "final" THEN recording
                              ELSE [recording EXCEPT !.ordinal = @ + 1]
          PROVE  OrderOK'
      <3>1. recording'.consumed = recording.consumed
        BY <2>1 DEF TypeOK, Recordings
      <3> QED BY <1>25, <2>1, <3>1, OrderFrame DEF FlushSyncStreams, admissionVars
    <2> QED BY <1>24, <1>25, <2>1 DEF FlushSyncStreams
  <1>26. ASSUME PublishJsonExclusive PROVE OrderOK'
    BY <1>24, <1>26, OrderFrame DEF PublishJsonExclusive, admissionVars
  <1>27. ASSUME pc = "syncDirectory", PublishDone PROVE OrderOK'
    <2>1. UNCHANGED <<queue, hand, recording>> /\ pc' # "write"
      BY <1>27 DEF PublishDone, Answer, admissionVars
    <2>2. CASE job.op = "prepare"
      <3>1. admission'.lastAccepted = 0
        BY <1>27, <2>2 DEF PublishDone, NoAdmission
      <3>2. queue = <<>> /\ recording.consumed = 0
        BY <2>2 DEF AdmissionOK, OrderOK, ProgressOK
      <3>3. InHand' = 0 /\ Len(<<>>) = 0
        BY <2>1 DEF InHand
      <3> QED BY <2>1, <3>1, <3>2, <3>3, SMTT(30) DEF OrderOK
    <2>3. CASE job.op # "prepare"
      <3>1. UNCHANGED admission
        BY <1>27, <2>3 DEF PublishDone, admissionVars
      <3> QED BY <1>27, <2>1, <3>1, OrderFrame
    <2> QED BY <2>2, <2>3
  <1>28. ASSUME SyncDirectory PROVE OrderOK'
    BY <1>24, <1>27, <1>28 DEF SyncDirectory
  <1>29. ASSUME Crash PROVE OrderOK'
    BY <1>29 DEF Crash, NoAdmission, OrderOK
  <1> QED
    BY <1>1, <1>2, <1>3, <1>9, <1>10, <1>11, <1>12, <1>13,
       <1>14, <1>15, <1>16, <1>17, <1>18, <1>19, <1>20, <1>21, <1>22, <1>23, <1>25,
       <1>26, <1>28, <1>29 DEF Next, Producer, Actor

\* Every step keeps what is known of the consumed records: drain_to_cutoff stops at
\* the cutoff, before ActiveRecording::finalize writes.
LEMMA ProgressStep ==
  ASSUME TypeOK, ControlOK, AdmissionOK, ProgressOK, Next
  PROVE  ProgressOK'
  <1> USE DEF Publishing, FinalOps, ActiveOps, NoRecording, Preparing, NoJob
  <1>0. ASSUME job'.op \notin FinalOps \cup {"prepare"}, pc' \notin {"endEvent", "retire"}
        PROVE  ProgressOK'
    BY <1>0 DEF ProgressOK
  <1>00. ASSUME UNCHANGED <<recording, call, job>>, pc' \notin {"endEvent", "retire"}
         PROVE  ProgressOK'
    BY <1>00 DEF ProgressOK
  <1>1. ASSUME Producer PROVE ProgressOK'
    BY <1>1 DEF Producer, Offer, RecordExternalLoss, actorVars, ProgressOK
  <1>3. ASSUME Caller PROVE ProgressOK'
    <2>1. UNCHANGED <<recording, pc, job>> /\ call = NoCall
      BY <1>3 DEF Caller, CallPrepare, CallRecordControl, CallRecordBiasChange,
           CallMarkCompletion, CallFinalize, CallShutdown, Send, actorVars
    <2>2. call.kind = "none"
      BY <2>1 DEF NoCall
    <2>3. pc \notin {"endEvent", "retire"} /\ job.op \notin FinalOps
      BY <2>2, SMTT(30) DEF ControlOK, Closing, TypeOK, Rounds
    <2> QED BY <2>1, <2>3 DEF ProgressOK
  <1>9. ASSUME Prepare PROVE ProgressOK'
    <2>1. pc' \in {"flush", "control"} /\ job'.op \in {"prepare", "none"}
      BY <1>9, Begun, SMTT(30) DEF Prepare, Answer
    <2>2. job'.op = "prepare" => recording'.consumed = 0
      BY <1>9, Begun, SMTT(30) DEF Prepare, Answer, NewRecording
    <2> QED BY <2>1, <2>2 DEF ProgressOK
  <1>10. ASSUME RecordControl PROVE ProgressOK'
    BY <1>0, <1>10, Begun, SMTT(30) DEF RecordControl, Answer
  <1>11. ASSUME RecordBiasChange PROVE ProgressOK'
    BY <1>0, <1>11, Begun, SMTT(30) DEF RecordBiasChange, Answer
  <1>12. ASSUME MarkCompletion PROVE ProgressOK'
    BY <1>0, <1>12, Begun, SMTT(30) DEF MarkCompletion, WriteCompletion, Answer
  <1>13. ASSUME Finalize PROVE ProgressOK'
    BY <1>00, <1>13 DEF Finalize
  <1>14. ASSUME DrainRecord PROVE ProgressOK'
    <2>1. /\ pc = "drain" /\ UNCHANGED <<pc, job, call>>
          /\ recording.consumed < call.cutoff
      BY <1>14 DEF DrainRecord
    <2>2. job.op \notin FinalOps
      BY <2>1, SMTT(30) DEF ProgressOK, TypeOK, Recordings, Calls
    <2>3. job.op # "prepare"
      BY <2>1 DEF ControlOK
    <2> QED BY <2>1, <2>2, <2>3 DEF ProgressOK
  <1>15. ASSUME Finalizing PROVE ProgressOK'
    <2>1. UNCHANGED call /\ recording.consumed = call.cutoff
      BY <1>15 DEF Finalizing, WriteCompletion
    <2>2. recording'.consumed = recording.consumed
      BY <1>15 DEF Finalizing, WriteCompletion, TypeOK, Recordings
    <2>3. job'.op # "prepare"
      BY <1>15, Begun DEF Finalizing, WriteCompletion, ControlOK
    <2> QED BY <2>1, <2>2, <2>3 DEF ProgressOK
  <1>16. ASSUME WriteEndEvent PROVE ProgressOK'
    <2>1. UNCHANGED <<call, recording>> /\ pc = "endEvent"
      BY <1>16 DEF WriteEndEvent
    <2>2. job'.op # "prepare"
      BY <1>16, Begun, SMTT(30) DEF WriteEndEvent
    <2> QED BY <2>1, <2>2 DEF ProgressOK
  <1>17. ASSUME Retire PROVE ProgressOK'
    BY <1>0, <1>17, SMTT(30) DEF Retire, Answer
  <1>18. ASSUME Validate PROVE ProgressOK'
    BY <1>0, <1>18 DEF Validate, Answer
  <1>19. ASSUME Shutdown PROVE ProgressOK'
    <2>1. job = NoJob
      BY <1>19 DEF Shutdown, ControlOK
    <2> QED BY <1>0, <1>19, <2>1, SMTT(30) DEF Shutdown, Answer
  <1>20. ASSUME PeriodicCheckpoint PROVE ProgressOK'
    BY <1>0, <1>20, Begun, SMTT(30) DEF PeriodicCheckpoint
  <1>21. ASSUME ControlIdle PROVE ProgressOK'
    BY <1>00, <1>21 DEF ControlIdle
  <1>22. ASSUME ReceiveData PROVE ProgressOK'
    BY <1>00, <1>22 DEF ReceiveData
  <1>23. ASSUME WriteQueued PROVE ProgressOK'
    <2>1. job = NoJob /\ UNCHANGED job /\ pc' = "control"
      BY <1>23 DEF WriteQueued, ControlOK
    <2> QED BY <1>0, <2>1
  <1>24. ASSUME pc \in Publishing, PublishFailed PROVE ProgressOK'
    <2>1. CASE job.op \in FinalOps
      BY <1>24, <2>1 DEF PublishFailed, ProgressOK
    <2>2. CASE job.op \notin FinalOps
      BY <1>0, <1>24, <2>2, SMTT(30) DEF PublishFailed, Answer
    <2> QED BY <2>1, <2>2
  <1>25. ASSUME FlushSyncStreams PROVE ProgressOK'
    <2>1. ASSUME UNCHANGED <<job, call>>, pc' = "publish",
                 recording' = IF job.op = "final" THEN recording
                              ELSE [recording EXCEPT !.ordinal = @ + 1]
          PROVE  ProgressOK'
      <3>1. recording'.consumed = recording.consumed
        BY <2>1 DEF TypeOK, Recordings
      <3> QED BY <2>1, <3>1 DEF ProgressOK
    <2> QED BY <1>24, <1>25, <2>1 DEF FlushSyncStreams
  <1>26. ASSUME PublishJsonExclusive PROVE ProgressOK'
    BY <1>00, <1>24, <1>26 DEF PublishJsonExclusive
  <1>27. ASSUME pc = "syncDirectory", PublishDone PROVE ProgressOK'
    <2>1. CASE job.op \in FinalOps
      <3>1. UNCHANGED <<recording, call>>
        BY <1>27, <2>1 DEF PublishDone
      <3>2. job'.op = job.op
        BY <1>27, <2>1 DEF PublishDone, TypeOK, Jobs
      <3> QED BY <2>1, <3>1, <3>2 DEF ProgressOK
    <2>2. CASE job.op \notin FinalOps
      BY <1>0, <1>27, <2>2, SMTT(30) DEF PublishDone, Answer
    <2> QED BY <2>1, <2>2
  <1>28. ASSUME SyncDirectory PROVE ProgressOK'
    BY <1>24, <1>27, <1>28 DEF SyncDirectory
  <1>29. ASSUME Crash PROVE ProgressOK'
    BY <1>0, <1>29 DEF Crash
  <1> QED
    BY <1>1, <1>3, <1>9, <1>10, <1>11, <1>12, <1>13,
       <1>14, <1>15, <1>16, <1>17, <1>18, <1>19, <1>20, <1>21, <1>22, <1>23, <1>25,
       <1>26, <1>28, <1>29 DEF Next, Actor

-----------------------------------------------------------------------------
\* Logs that agree on their first rows.

\* Two logs with the same first n rows.
Agree(p, q, n) == n =< Len(p) /\ n =< Len(q) /\ \A i \in 1..n : p[i] = q[i]

\* Logs that agree have the same rows of each kind.
LEMMA AgreeRows ==
  ASSUME NEW p, NEW q, NEW n, Agree(p, q, n), NEW kind
  PROVE  Rows(p, n, kind) = Rows(q, n, kind)
  BY DEF Agree, Rows

\* Logs that agree hold the same records in the same order.
LEMMA AgreeOrder ==
  ASSUME NEW p, NEW q, NEW n, Agree(p, q, n), NEW cutoff, RecordsInOrder(p, n, cutoff)
  PROVE  RecordsInOrder(q, n, cutoff)
  <1> DEFINE R == Rows(p, n, "record")
  <1>1. R = Rows(q, n, "record")
    BY AgreeRows, SMTT(30)
  <1>2. \A i \in R : p[i] = q[i]
    BY DEF Agree, Rows
  <1>3. {p[i].sequence : i \in R} = {q[i].sequence : i \in R}
    BY <1>2
  <1>4. \A i, j \in R : i < j => q[i].sequence < q[j].sequence
    BY <1>2 DEF RecordsInOrder
  <1> QED BY <1>1, <1>3, <1>4 DEF RecordsInOrder

\* validate_terminal_files reads no more than the rows that the artifact declares.
LEMMA AgreeTerminal ==
  ASSUME NEW d, NEW e, NEW a, Agree(d.log, e.log, a.length)
  PROVE  ValidTerminal(d, a) <=> ValidTerminal(e, a)
  <1>1. \A kind : Rows(d.log, a.length, kind) = Rows(e.log, a.length, kind)
    BY AgreeRows, SMTT(30)
  <1>2. a.length =< Len(d.log) /\ a.length =< Len(e.log)
    BY DEF Agree
  <1> QED BY <1>1, <1>2 DEF ValidTerminal

\* Appending a row leaves the earlier ones.
LEMMA AppendAgrees ==
  ASSUME NEW log \in Seq(LogRows), NEW row \in LogRows, NEW n \in Nat, n =< Len(log)
  PROVE  Agree(log, Append(log, row), n)
  BY SMTT(30) DEF Agree

\* Truncating a log leaves the rows before the cut.
LEMMA PrefixAgrees ==
  ASSUME NEW log \in Seq(LogRows), NEW m \in 0..Len(log), NEW n \in Nat, n =< m
  PROVE  Agree(log, SubSeq(log, 1, m), n)
  BY SMTT(30) DEF Agree

\* The rows of a kind are finitely many.
LEMMA RowsFinite ==
  ASSUME NEW log, NEW n \in Nat, NEW kind
  PROVE  IsFiniteSet(Rows(log, n, kind)) /\ Rows(log, n, kind) \subseteq 1..n
  <1>1. IsFiniteSet(1..n)
    BY FS_Interval, SMTT(30)
  <1>2. Rows(log, n, kind) \subseteq 1..n
    BY DEF Rows
  <1> QED BY <1>1, <1>2, FS_Subset

\* Appending a row adds one to the rows of its kind and changes no other.
LEMMA RowsAppend ==
  ASSUME NEW log \in Seq(LogRows), NEW row \in LogRows, NEW kind
  PROVE  LET n == Len(log) IN
         /\ row.kind # kind =>
               Rows(Append(log, row), n + 1, kind) = Rows(log, n, kind)
         /\ row.kind = kind =>
               /\ Rows(Append(log, row), n + 1, kind) = Rows(log, n, kind) \cup {n + 1}
               /\ Cardinality(Rows(Append(log, row), n + 1, kind)) =
                     Cardinality(Rows(log, n, kind)) + 1
  <1> DEFINE n == Len(log)
             next == Append(log, row)
  <1>1. n \in Nat /\ next[n + 1] = row /\ \A i \in 1..n : next[i] = log[i]
    BY SMTT(30)
  <1> HIDE DEF next
  <1>2. ASSUME row.kind # kind PROVE Rows(next, n + 1, kind) = Rows(log, n, kind)
    BY <1>1, <1>2, SMTT(30) DEF Rows
  <1>3. ASSUME row.kind = kind
        PROVE  Rows(next, n + 1, kind) = Rows(log, n, kind) \cup {n + 1}
    BY <1>1, <1>3, SMTT(30) DEF Rows
  <1>4. IsFiniteSet(Rows(log, n, kind)) /\ n + 1 \notin Rows(log, n, kind)
    BY <1>1, RowsFinite, SMTT(30)
  <1>5. Cardinality(Rows(log, n, kind) \cup {n + 1}) = Cardinality(Rows(log, n, kind)) + 1
    BY <1>4, FS_AddElement
  <1> QED BY <1>2, <1>3, <1>5 DEF next

\* Appending the next record keeps the records in order, and so does any other row.
LEMMA OrderAppend ==
  ASSUME NEW log \in Seq(LogRows), NEW row \in LogRows, NEW c \in Nat,
         RecordsInOrder(log, Len(log), c),
         row.kind = "record" => row.sequence = c + 1
  PROVE  RecordsInOrder(Append(log, row), Len(log) + 1,
                        IF row.kind = "record" THEN c + 1 ELSE c)
  <1> DEFINE n == Len(log)
             next == Append(log, row)
             R == Rows(log, n, "record")
             N == Rows(next, n + 1, "record")
  <1>1. /\ n \in Nat /\ next[n + 1] = row /\ \A i \in 1..n : next[i] = log[i]
    BY SMTT(30)
  <1>2. R \subseteq 1..n
    BY DEF Rows
  <1>3. {log[i].sequence : i \in R} = 1..c
    BY DEF RecordsInOrder
  <1>4. \A i, j \in R : i < j => log[i].sequence < log[j].sequence
    BY DEF RecordsInOrder
  <1>5. CASE row.kind # "record"
    <2>1. N = R
      BY <1>5, RowsAppend
    <2>2. \A i \in R : next[i] = log[i]
      BY <1>1, <1>2
    <2> HIDE DEF next, N, R
    <2>3. {next[i].sequence : i \in R} = 1..c
      BY <1>3, <2>2
    <2>4. \A i, j \in R : i < j => next[i].sequence < next[j].sequence
      BY <1>4, <2>2
    <2>5. RecordsInOrder(next, n + 1, c)
      BY <2>1, <2>3, <2>4 DEF RecordsInOrder, N
    <2> QED BY <1>5, <2>5 DEF next
  <1>6. CASE row.kind = "record"
    <2>1. N = R \cup {n + 1}
      BY <1>6, RowsAppend
    <2>2. \A i \in R : next[i] = log[i] /\ i \in 1..n
      BY <1>1, <1>2
    <2>3. next[n + 1].sequence = c + 1
      BY <1>1, <1>6
    <2> HIDE DEF next, N, R
    <2>4. \A i \in R : next[i].sequence \in 1..c
      BY <1>3, <2>2
    <2>5. {next[i].sequence : i \in N} = 1..(c + 1)
      <3>1. {next[i].sequence : i \in N} = {next[i].sequence : i \in R} \cup {c + 1}
        BY <2>1, <2>3
      <3>2. {next[i].sequence : i \in R} = 1..c
        BY <1>3, <2>2
      <3>3. 1..(c + 1) = (1..c) \cup {c + 1}
        BY SMTT(30)
      <3> QED BY <3>1, <3>2, <3>3
    <2>6. ASSUME NEW i \in N, NEW j \in N, i < j
          PROVE  next[i].sequence < next[j].sequence
      <3>1. CASE j = n + 1
        <4>1. i \in R
          BY <2>1, <2>6, <3>1, <1>1, SMTT(30)
        <4> QED BY <4>1, <3>1, <2>3, <2>4, SMTT(30)
      <3>2. CASE j # n + 1
        <4>1. j \in R /\ j \in 1..n
          BY <2>1, <3>2, <2>2
        <4>2. i \in R
          BY <2>1, <2>6, <4>1, <1>1, SMTT(30)
        <4> QED BY <4>1, <4>2, <2>6, <1>4, <2>2
      <3> QED BY <3>1, <3>2
    <2>7. RecordsInOrder(next, n + 1, c + 1)
      BY <2>5, <2>6 DEF RecordsInOrder, N
    <2> QED BY <1>6, <2>7 DEF next
  <1> QED BY <1>5, <1>6

-----------------------------------------------------------------------------
\* What a step may do to a directory.

\* The log may grow by a row, and more of it may be on the medium.
Grows(d, e) ==
    /\ e.artifacts = d.artifacts /\ e.manifest = d.manifest
    /\ e.unsynced \in {d.unsynced, {}}
    /\ e.log = d.log \/ \E row \in LogRows : e.log = Append(d.log, row)
    /\ e.synced \in {d.synced, Len(d.log)}
\* An artifact gets its name.
Publishes(d, e, p) ==
    /\ e.artifacts = d.artifacts \cup {p} /\ e.unsynced = d.unsynced \cup {p}
    /\ e.manifest = d.manifest /\ e.log = d.log /\ e.synced = d.synced
\* A preparation makes the directory.
Starts(d, e) ==
    d = NoDirectory /\ e.artifacts = {} /\ e.unsynced = {} /\ e.synced = 0

\* Recovery reads no more than the artifacts and the rows they declare.
SameEvidence(d, e) ==
    /\ e.artifacts = d.artifacts /\ e.manifest = d.manifest
    /\ \A a \in d.artifacts : Agree(d.log, e.log, a.length)

\* Recovery of two directories with the same evidence is the same.
LEMMA SameRecovery ==
  ASSUME NEW d, NEW e, SameEvidence(d, e)
  PROVE  /\ RecoverSession(e) = RecoverSession(d)
         /\ FinalArtifacts(e) = FinalArtifacts(d)
         /\ \A a \in d.artifacts : ValidTerminal(d, a) <=> ValidTerminal(e, a)
  <1>1. \A a \in d.artifacts : ValidTerminal(d, a) <=> ValidTerminal(e, a)
    BY AgreeTerminal DEF SameEvidence
  <1>2. FinalArtifacts(e) = FinalArtifacts(d)
    BY DEF FinalArtifacts, SameEvidence
  <1>3. ValidCheckpoints(e) = ValidCheckpoints(d)
    BY <1>1 DEF ValidCheckpoints, SameEvidence
  <1>4. LatestValidCheckpoint(e) = LatestValidCheckpoint(d)
    BY <1>3 DEF LatestValidCheckpoint
  <1>5. \A retained : RecoverFromCheckpoint(e, retained) = RecoverFromCheckpoint(d, retained)
    BY <1>3, <1>4 DEF RecoverFromCheckpoint
  <1>6. e.manifest = d.manifest
    BY DEF SameEvidence
  <1> DEFINE f == CHOOSE a \in FinalArtifacts(d) : TRUE
             h == CHOOSE a \in FinalArtifacts(e) : TRUE
  <1>7. FinalArtifacts(d) # {} => f \in d.artifacts
    BY DEF FinalArtifacts
  <1>8. FinalArtifacts(d) # {} => (ValidTerminal(d, f) <=> ValidTerminal(e, f))
    BY <1>1, <1>7
  <1>9. h = f
    BY <1>2
  <1> HIDE DEF f, h
  <1>10. RecoverSession(d) =
            IF d.manifest = "absent" THEN Recovered("Corrupt", FALSE, "manifest")
            ELSE IF FinalArtifacts(d) = {} THEN RecoverFromCheckpoint(d, "none")
            ELSE IF ValidTerminal(d, f) THEN Recovered("Finalized", f.completed, LossError(f))
                 ELSE RecoverFromCheckpoint(d, "final-invalid")
    BY DEF RecoverSession, f
  <1>11. RecoverSession(e) =
            IF e.manifest = "absent" THEN Recovered("Corrupt", FALSE, "manifest")
            ELSE IF FinalArtifacts(e) = {} THEN RecoverFromCheckpoint(e, "none")
            ELSE IF ValidTerminal(e, h) THEN Recovered("Finalized", h.completed, LossError(h))
                 ELSE RecoverFromCheckpoint(e, "final-invalid")
    BY DEF RecoverSession, h
  <1>12. RecoverSession(e) = RecoverSession(d)
    <2>1. CASE d.manifest = "absent"
      BY <1>6, <1>10, <1>11, <2>1
    <2>2. CASE d.manifest # "absent" /\ FinalArtifacts(d) = {}
      <3>1. RecoverSession(d) = RecoverFromCheckpoint(d, "none")
        BY <1>10, <2>2
      <3>2. RecoverSession(e) = RecoverFromCheckpoint(e, "none")
        BY <1>2, <1>6, <1>11, <2>2
      <3> QED BY <1>5, <3>1, <3>2
    <2>3. CASE d.manifest # "absent" /\ FinalArtifacts(d) # {}
      <3>1. RecoverSession(d) =
               IF ValidTerminal(d, f) THEN Recovered("Finalized", f.completed, LossError(f))
               ELSE RecoverFromCheckpoint(d, "final-invalid")
        BY <1>10, <2>3
      <3>2. RecoverSession(e) =
               IF ValidTerminal(e, f) THEN Recovered("Finalized", f.completed, LossError(f))
               ELSE RecoverFromCheckpoint(e, "final-invalid")
        BY <1>2, <1>6, <1>9, <1>11, <2>3
      <3>3. RecoverFromCheckpoint(e, "final-invalid") = RecoverFromCheckpoint(d, "final-invalid")
        BY <1>5
      <3> QED BY <1>8, <2>3, <3>1, <3>2, <3>3, SMTT(30)
    <2> QED BY <2>1, <2>2, <2>3
  <1> QED BY <1>1, <1>2, <1>12

\* A directory that grows keeps its evidence.
LEMMA GrowsKeeps ==
  ASSUME NEW d \in Directories, NEW e \in Directories, Grows(d, e), NEW done,
         DirectoryOK(d, done)
  PROVE  DirectoryOK(e, done) /\ SameEvidence(d, e) /\ e.unsynced \subseteq d.unsynced
  <1>1. /\ d.log \in Seq(LogRows) /\ d.synced \in Nat /\ e.log \in Seq(LogRows)
        /\ d.artifacts \subseteq Artifacts
    BY DirectoryTypes
  <1>2. /\ d.synced =< Len(d.log) /\ Len(d.log) \in Nat
        /\ \A a \in d.artifacts : a.length =< d.synced /\ a.length \in Nat
    BY <1>1, SMTT(30) DEF DirectoryOK, Artifacts
  <1>3. e.log = d.log \/ \E row \in LogRows : e.log = Append(d.log, row)
    BY DEF Grows
  <1>4. Len(e.log) \in Nat /\ Len(d.log) =< Len(e.log)
    BY <1>1, <1>2, <1>3, SMTT(30)
  <1>5. \A a \in d.artifacts : Agree(d.log, e.log, a.length)
    <2> SUFFICES ASSUME NEW a \in d.artifacts PROVE Agree(d.log, e.log, a.length)
      OBVIOUS
    <2>1. a.length \in Nat /\ a.length =< Len(d.log)
      BY <1>1, <1>2, SMTT(30)
    <2>2. CASE e.log = d.log
      BY <2>1, <2>2 DEF Agree
    <2>3. CASE \E row \in LogRows : e.log = Append(d.log, row)
      BY <1>1, <2>1, <2>3, AppendAgrees
    <2> QED BY <1>3, <2>2, <2>3
  <1>6. SameEvidence(d, e)
    BY <1>5 DEF SameEvidence, Grows
  <1>7. e.synced \in {d.synced, Len(d.log)} /\ e.artifacts = d.artifacts
        /\ e.manifest = d.manifest /\ e.unsynced \subseteq d.unsynced
    BY DEF Grows
  <1>8. e.synced =< Len(e.log) /\ \A a \in e.artifacts : a.length =< e.synced
    BY <1>1, <1>2, <1>4, <1>7, SMTT(30)
  <1>9. DirectoryOK(e, done)
    BY <1>7, <1>8 DEF DirectoryOK
  <1> QED BY <1>6, <1>7, <1>9

\* A directory with the same evidence is recovered as finalized again.
LEMMA FinalizedKept ==
  ASSUME NEW d, NEW e, SameEvidence(d, e), e.unsynced \subseteq d.unsynced, NEW answer,
         FinalizedOK(d, answer)
  PROVE  FinalizedOK(e, answer)
  <1>1. PICK a \in FinalArtifacts(d) : RecordsInOrder(d.log, a.length, answer.cutoff)
    BY DEF FinalizedOK
  <1>2. Agree(d.log, e.log, a.length)
    BY <1>1 DEF SameEvidence, FinalArtifacts
  <1>3. RecordsInOrder(e.log, a.length, answer.cutoff)
    BY <1>1, <1>2, AgreeOrder
  <1>4. RecoverSession(e) = RecoverSession(d) /\ FinalArtifacts(e) = FinalArtifacts(d)
    BY SameRecovery
  <1>5. e.unsynced = {}
    BY DEF FinalizedOK
  <1> QED BY <1>1, <1>3, <1>4, <1>5 DEF FinalizedOK

\* A directory with the same evidence still says that completion was reached.
LEMMA CompletionKept ==
  ASSUME NEW d, NEW e, SameEvidence(d, e), e.unsynced \subseteq d.unsynced, CompletionOK(d)
  PROVE  CompletionOK(e)
  <1>1. PICK a \in d.artifacts \ d.unsynced :
            /\ a.name # FinalName /\ ValidTerminal(d, a)
            /\ \A b \in d.artifacts : b.name = FinalName \/ b.name >= a.name => b.completed
    BY DEF CompletionOK
  <1>2. ValidTerminal(e, a) /\ e.artifacts = d.artifacts
    BY <1>1, SameRecovery DEF SameEvidence
  <1>3. a \in e.artifacts \ e.unsynced
    BY <1>1, <1>2
  <1> QED BY <1>1, <1>2, <1>3 DEF CompletionOK

\* An artifact that declares only synced rows leaves the directory good
\* (publish_json_exclusive after flush_sync_streams).
LEMMA PublishKeeps ==
  ASSUME NEW d \in Directories, NEW e \in Directories, NEW p \in Artifacts,
         Publishes(d, e, p), NEW done, DirectoryOK(d, done),
         d.manifest = "durable", p.length =< d.synced, p.completed => done,
         NEW bound \in Nat, \A a \in d.artifacts : a.name =< bound, p.name =< bound
  PROVE  DirectoryOK(e, done)
  <1>1. /\ e.artifacts = d.artifacts \cup {p} /\ e.manifest = d.manifest
        /\ e.log = d.log /\ e.synced = d.synced
    BY DEF Publishes
  <1>2. \A a \in e.artifacts : a.name =< bound
    BY <1>1
  <1> QED BY <1>1, <1>2 DEF DirectoryOK

\* A later artifact of a completed recording does not hide its completion.
LEMMA PublishedCompletion ==
  ASSUME NEW d, NEW e, NEW p, Publishes(d, e, p), p \notin d.artifacts,
         CompletionOK(d), p.completed
  PROVE  CompletionOK(e)
  <1>1. PICK a \in d.artifacts \ d.unsynced :
            /\ a.name # FinalName /\ ValidTerminal(d, a)
            /\ \A b \in d.artifacts : b.name = FinalName \/ b.name >= a.name => b.completed
    BY DEF CompletionOK
  <1>2. /\ e.artifacts = d.artifacts \cup {p} /\ e.unsynced = d.unsynced \cup {p}
        /\ e.log = d.log
    BY DEF Publishes
  <1>3. ValidTerminal(e, a)
    BY <1>1, <1>2 DEF ValidTerminal
  <1>4. a \in e.artifacts \ e.unsynced
    BY <1>1, <1>2
  <1>5. \A b \in e.artifacts : b.name = FinalName \/ b.name >= a.name => b.completed
    BY <1>1, <1>2
  <1> QED BY <1>1, <1>3, <1>4, <1>5 DEF CompletionOK

\* A crash leaves every durable artifact, with the rows it declares.
LEMMA CrashKeeps ==
  ASSUME NEW d \in Directories, NEW e \in SurvivingDirectory(d), NEW done, DirectoryOK(d, done)
  PROVE  /\ DirectoryOK(e, done) /\ e.unsynced = {}
         /\ e.artifacts \subseteq d.artifacts /\ d.artifacts \ d.unsynced \subseteq e.artifacts
         /\ d.artifacts # {} => e.manifest = "durable"
         /\ \A a \in d.artifacts : Agree(d.log, e.log, a.length)
  <1>1. PICK n \in d.synced..Len(d.log), lost \in SUBSET d.unsynced,
             m \in IF d.manifest = "visible" THEN {"absent", "durable"} ELSE {d.manifest} :
            e = Survivor(d, n, lost, m)
    BY SMTT(30) DEF SurvivingDirectory
  <1>2. /\ d.log \in Seq(LogRows) /\ d.synced \in Nat
        /\ d.artifacts \subseteq Artifacts
    BY DirectoryTypes
  <1>3. /\ e.log = SubSeq(d.log, 1, n) /\ e.synced = n /\ e.unsynced = {}
        /\ e.artifacts = d.artifacts \ lost /\ e.manifest = m
    BY <1>1 DEF Directories, Survivor
  <1>4. /\ d.synced =< n /\ n \in 0..Len(d.log) /\ n \in Nat
        /\ \A a \in d.artifacts : a.length =< d.synced /\ a.length \in Nat
    BY <1>1, <1>2, SMTT(30) DEF DirectoryOK, Artifacts
  <1>5. Len(e.log) = n
    BY <1>2, <1>3, <1>4, SMTT(30)
  <1>6. \A a \in d.artifacts : Agree(d.log, e.log, a.length) /\ a.length =< n
    <2> SUFFICES ASSUME NEW a \in d.artifacts
                 PROVE  Agree(d.log, e.log, a.length) /\ a.length =< n
      OBVIOUS
    <2>1. a.length \in Nat /\ a.length =< n
      BY <1>2, <1>4, SMTT(30)
    <2> QED BY <1>2, <1>3, <1>4, <2>1, PrefixAgrees
  <1>7. d.artifacts # {} => m = "durable"
    BY <1>1 DEF DirectoryOK
  <1>8. \E bound \in Nat : \A a \in e.artifacts : a.name =< bound
    BY <1>3 DEF DirectoryOK
  <1>9. \A a \in e.artifacts : a.completed => done
    BY <1>3 DEF DirectoryOK
  <1>10. DirectoryOK(e, done)
    BY <1>3, <1>4, <1>5, <1>6, <1>7, <1>8, <1>9, SMTT(30) DEF DirectoryOK
  <1> QED BY <1>1, <1>3, <1>6, <1>7, <1>10

-----------------------------------------------------------------------------
\* The live recording.

\* The log of a recording agrees with its counters as long as neither changes.
LEMMA LogFrame ==
  ASSUME NEW r, NEW s, NEW d, NEW e, LogOK(r, d),
         e.log = d.log, e.manifest = d.manifest,
         s.bias = r.bias, s.completionDurable = r.completionDurable,
         ~s.lastError => ~r.lastError /\ s.consumed = r.consumed
  PROVE  LogOK(s, e)
  BY DEF LogOK

\* The counters of the recording follow the row that is appended.
Counts(r, s, row) ==
    /\ row.kind # "started"
    /\ s.bias = IF row.kind = "bias" THEN r.bias + 1 ELSE r.bias
    /\ row.kind = "completion" => ~r.completionDurable /\ s.completionDurable
    /\ row.kind # "completion" => s.completionDurable = r.completionDurable
    /\ ~s.lastError =>
          /\ ~r.lastError
          /\ row.kind = "record" => row.sequence = r.consumed + 1
          /\ s.consumed = IF row.kind = "record" THEN r.consumed + 1 ELSE r.consumed

\* A row appended together with its counter keeps the log in agreement.
LEMMA LogAppend ==
  ASSUME NEW r \in Recordings, NEW s, NEW d \in Directories, NEW row \in LogRows,
         NEW e, LogOK(r, d), Counts(r, s, row),
         e.log = Append(d.log, row), e.manifest = d.manifest
  PROVE  LogOK(s, e)
  <1> DEFINE n == Len(d.log)
             C(log, m, kind) == Cardinality(Rows(log, m, kind))
  <1>1. d.log \in Seq(LogRows)
    BY DirectoryTypes
  <1>2. Len(e.log) = n + 1
    BY <1>1, SMTT(30)
  <1>3. ASSUME NEW kind
        PROVE  C(e.log, n + 1, kind) =
                  IF row.kind = kind THEN C(d.log, n, kind) + 1 ELSE C(d.log, n, kind)
    BY <1>1, RowsAppend, SMTT(30)
  <1>4. /\ C(d.log, n, "started") = 1 /\ C(d.log, n, "bias") = r.bias
        /\ C(d.log, n, "completion") = IF r.completionDurable THEN 1 ELSE 0
    BY DEF LogOK
  <1> HIDE DEF C
  <1>5. C(e.log, n + 1, "started") = 1
    BY <1>3, <1>4 DEF Counts
  <1>6. C(e.log, n + 1, "bias") = s.bias
    BY <1>3, <1>4 DEF Counts
  <1>7. C(e.log, n + 1, "completion") = IF s.completionDurable THEN 1 ELSE 0
    <2>1. CASE row.kind = "completion"
      BY <1>3, <1>4, <2>1, SMTT(30) DEF Counts
    <2>2. CASE row.kind # "completion"
      BY <1>3, <1>4, <2>2 DEF Counts
    <2> QED BY <2>1, <2>2
  <1>8. ASSUME ~s.lastError PROVE RecordsInOrder(e.log, n + 1, s.consumed)
    <2>1. RecordsInOrder(d.log, n, r.consumed) /\ r.consumed \in Nat
      BY <1>8 DEF LogOK, Counts, Recordings
    <2>2. row.kind = "record" => row.sequence = r.consumed + 1
      BY <1>8 DEF Counts
    <2>3. RecordsInOrder(e.log, n + 1, IF row.kind = "record" THEN r.consumed + 1
                                       ELSE r.consumed)
      BY <1>1, <2>1, <2>2, OrderAppend
    <2> QED BY <1>8, <2>3 DEF Counts
  <1> QED BY <1>2, <1>5, <1>6, <1>7, <1>8 DEF LogOK, C

\* A new recording's log, which holds the Started row, agrees with its counters.
LEMMA StartedLog ==
  ASSUME NEW r, NEW d, d.log = <<Row("started")>>, d.manifest = "durable",
         r.bias = 0, ~r.completionDurable, r.consumed = 0
  PROVE  LogOK(r, d)
  <1>1. Len(d.log) = 1 /\ d.log[1] = Row("started") /\ d.log[1].kind = "started"
    BY SMTT(30) DEF Row
  <1>2. Rows(d.log, 1, "started") = {1}
    BY <1>1, SMTT(30) DEF Rows
  <1>3. /\ Rows(d.log, 1, "bias") = {} /\ Rows(d.log, 1, "completion") = {}
        /\ Rows(d.log, 1, "record") = {}
    BY <1>1, SMTT(30) DEF Rows
  <1>4. Cardinality({}) = 0 /\ Cardinality({1}) = 1
    BY FS_EmptySet, FS_Singleton
  <1>5. RecordsInOrder(d.log, 1, 0)
    <2>1. {d.log[i].sequence : i \in {}} = {} /\ 1..0 = {}
      BY SMTT(30)
    <2> QED BY <1>3, <2>1 DEF RecordsInOrder
  <1> QED BY <1>1, <1>2, <1>3, <1>4, <1>5 DEF LogOK

\* What is true of a recording nobody is publishing for.
Quiet(names) ==
    /\ recording.completionDurable => Directory \in reached
    /\ \A a \in names : a.name =< recording.ordinal /\ a.name # FinalName

\* Until final.json is published, the artifacts are numbered checkpoints.
LEMMA FlowIsQuiet ==
  ASSUME FlowOK, pc \notin {"syncDirectory", "retire"} \/ job.op # "final"
  PROVE  Quiet(Here.artifacts)
  BY DEF FlowOK, Quiet, FinalArtifacts

\* The step leaves the recording with nothing published half-way.
Settles ==
    /\ recording'.generation = recording.generation
    /\ recording'.ordinal = recording.ordinal
    /\ recording'.completionDurable => Directory \in reached'
    /\ pc' \notin {"publish", "syncDirectory"}
    /\ pc' = "endEvent" \/ job'.op \in FinalOps => ~recording'.lastError
    /\ job'.op = "completion" => recording'.completionDurable
    /\ ~job'.published
\* The counters that the log must agree with do not change.
SameCounts ==
    /\ recording'.bias = recording.bias
    /\ recording'.completionDurable = recording.completionDurable
    /\ ~recording'.lastError => ~recording.lastError /\ recording'.consumed = recording.consumed

\* A step that leaves nothing half-way keeps the recording live if its log agrees.
LEMMA Settled ==
  ASSUME Quiet(Here.artifacts), Settles, Here'.artifacts = Here.artifacts,
         LogOK(recording', Here')
  PROVE  LiveOK'
  <1>1. Directory' = Directory
    BY DEF Settles, Directory
  <1>2. \A a \in Here'.artifacts : a.name =< recording'.ordinal /\ a.name # FinalName
    BY DEF Quiet, Settles
  <1>3. FinalArtifacts(Here') = {}
    BY <1>2 DEF FinalArtifacts
  <1>4. FlowOK'
    BY <1>1, <1>2, <1>3 DEF Settles, FlowOK
  <1> QED BY <1>4 DEF LiveOK

\* A step that leaves the log and the counters alone keeps the recording live.
LEMMA StillLive ==
  ASSUME Quiet(Here.artifacts), LogOK(recording, Here), Settles, SameCounts,
         Here'.artifacts = Here.artifacts, Here'.log = Here.log,
         Here'.manifest = Here.manifest
  PROVE  LiveOK'
  <1>1. LogOK(recording', Here')
    BY LogFrame DEF SameCounts
  <1> QED BY <1>1, Settled

\* write_record with its counter keeps the recording live.
LEMMA RowLive ==
  ASSUME TypeOK, recording.generation # NoGeneration,
         Quiet(Here.artifacts), LogOK(recording, Here), Settles,
         NEW row \in LogRows, disk' = [disk EXCEPT ![Directory].log = Append(@, row)],
         Counts(recording, recording', row)
  PROVE  LiveOK'
  <1>1. Directory \in Generations /\ recording \in Recordings
    BY DEF TypeOK, Recordings, Named, Directory
  <1>2. disk \in [Generations -> Directories] /\ Here \in Directories
    BY <1>1 DEF TypeOK, Here
  <1>3. Here' = [Here EXCEPT !.log = Append(@, row)]
    BY <1>1, <1>2, RowAppended DEF Here, Settles, Directory
  <1>4. /\ Here'.log = Append(Here.log, row) /\ Here'.artifacts = Here.artifacts
        /\ Here'.manifest = Here.manifest
    BY <1>2, <1>3 DEF Directories
  <1>5. LogOK(recording', Here')
    BY <1>1, <1>2, <1>4, LogAppend
  <1> QED BY <1>4, <1>5, Settled

\* A failing write_record keeps the recording live.
LEMMA TornLive ==
  ASSUME TypeOK, recording.generation # NoGeneration,
         Quiet(Here.artifacts), LogOK(recording, Here), Settles, SameCounts, TearRow
  PROVE  LiveOK'
  <1>1. CASE UNCHANGED disk
    <2>1. Here' = Here
      BY <1>1 DEF Here, Settles, Directory
    <2> QED BY <2>1, StillLive
  <1>2. CASE disk' = [disk EXCEPT ![Directory].log = Append(@, Row("torn"))]
    <2>1. Row("torn") \in LogRows /\ Row("torn").kind = "torn"
      BY RowTypes DEF Row, RowKinds
    <2>2. Counts(recording, recording', Row("torn"))
      BY <2>1 DEF Counts, SameCounts
    <2> QED BY <1>2, <2>1, <2>2, RowLive
  <1> QED BY <1>1, <1>2 DEF TearRow

\* A step of a producer or of the worker leaves the live recording alone.
LEMMA LiveFrame ==
  ASSUME LiveOK, UNCHANGED <<recording, pc, job, disk>>, reached \subseteq reached'
  PROVE  LiveOK'
  <1>1. Here' = Here /\ Directory' = Directory
    BY DEF Here, Directory
  <1>2. PublishedArtifact' = PublishedArtifact
    BY DEF PublishedArtifact, Log, Directory
  <1>3. FlowOK => FlowOK'
    BY <1>1, <1>2 DEF FlowOK
  <1> QED BY <1>1, <1>3 DEF LiveOK

\* A failed checkpoint leaves the recording's evidence as it was.
LEMMA PublishFailedLive ==
  ASSUME TypeOK, ControlOK, LiveOK, pc \in Publishing, PublishFailed, UNCHANGED disk
  PROVE  LiveOK'
  <1> USE DEF Publishing, FinalOps, NoJob
  <1>0. /\ recording.generation # NoGeneration /\ LogOK(recording, Here) /\ FlowOK
        /\ UNCHANGED reached /\ ~job.published
    BY DEF ControlOK, LiveOK, PublishFailed, historyVars
  <1>1. CASE job.op = "prepare"
    BY <1>1, SMTT(30) DEF PublishFailed, LiveOK, NoRecording
  <1>2. CASE job.op \in {"periodic", "bias"}
    <2>1. recording' = [recording EXCEPT !.lastError = TRUE] /\ pc' \in {"data", "control"}
          /\ job' = NoJob
      BY <1>2 DEF PublishFailed, Answer
    <2>2. /\ recording'.generation = recording.generation /\ recording'.ordinal = recording.ordinal
          /\ recording'.completionDurable = recording.completionDurable
          /\ recording'.bias = recording.bias /\ recording'.lastError
      BY <2>1 DEF TypeOK, Recordings
    <2>3. Quiet(Here.artifacts)
      BY <1>0, <1>2, FlowIsQuiet
    <2>4. Settles
      BY <1>0, <2>1, <2>2 DEF Settles, FlowOK
    <2>5. SameCounts
      BY <2>2 DEF SameCounts
    <2>6. Here' = Here
      BY <2>2 DEF Here, Directory
    <2> QED BY <1>0, <2>3, <2>4, <2>5, <2>6, StillLive
  <1>3. CASE job.op \in {"control", "completion"}
    <2>1. UNCHANGED recording /\ pc' = "control" /\ job' = NoJob
      BY <1>3 DEF PublishFailed, Answer
    <2>2. Quiet(Here.artifacts)
      BY <1>0, <1>3, FlowIsQuiet
    <2>3. Settles
      BY <1>0, <2>1 DEF Settles, FlowOK
    <2>4. SameCounts /\ Here' = Here
      BY <2>1 DEF SameCounts, Here, Directory
    <2> QED BY <1>0, <2>2, <2>3, <2>4, StillLive
  <1>4. CASE job.op \in FinalOps
    <2>1. UNCHANGED <<recording, job>> /\ pc' = "retire"
      BY <1>4 DEF PublishFailed
    <2>2. Here' = Here /\ Directory' = Directory
      BY <2>1 DEF Here, Directory
    <2>3. FlowOK'
      BY <1>0, <1>4, <2>1, <2>2 DEF FlowOK
    <2> QED BY <1>0, <2>1, <2>2, <2>3 DEF LiveOK
  <1>5. job.op # "none"
    BY DEF ControlOK
  <1> QED BY <1>1, <1>2, <1>3, <1>4, <1>5 DEF TypeOK, Jobs, Ops

\* A durable checkpoint leaves the recording's evidence as it was.
LEMMA PublishDoneLive ==
  ASSUME TypeOK, ControlOK, LiveOK, pc = "syncDirectory", PublishDone,
         disk' = [disk EXCEPT ![Directory].unsynced = {}]
  PROVE  LiveOK'
  <1> USE DEF Publishing, FinalOps, NoJob
  <1>0. /\ recording.generation # NoGeneration /\ LogOK(recording, Here) /\ FlowOK
        /\ UNCHANGED <<reached, recording>> /\ ~job.published
    BY DEF ControlOK, LiveOK, PublishDone, historyVars
  <1>1. Directory \in Generations /\ Directory' = Directory
    BY <1>0 DEF TypeOK, Recordings, Named, Directory
  <1>2. Here \in Directories /\ Here' = [Here EXCEPT !.unsynced = {}]
    BY <1>1 DEF TypeOK, Here
  <1>3. /\ Here'.artifacts = Here.artifacts /\ Here'.log = Here.log
        /\ Here'.manifest = Here.manifest /\ Here'.unsynced = {}
    BY <1>2 DEF Directories
  <1>4. CASE job.op # "final"
    <2>1. Quiet(Here.artifacts)
      BY <1>0, <1>4, FlowIsQuiet
    <2>2. /\ pc' \in {"control", "data", "endEvent"} /\ job' \in {NoJob, job}
          /\ (pc' = "endEvent" \/ job' = job) => job.op = "finalCompletion"
      BY <1>4, SMTT(30) DEF PublishDone, Answer
    <2>3. Settles
      BY <1>0, <2>2, SMTT(30) DEF Settles, FlowOK
    <2>4. SameCounts
      BY <1>0 DEF SameCounts
    <2> QED BY <1>0, <1>3, <2>1, <2>3, <2>4, StillLive
  <1>5. CASE job.op = "final"
    <2>1. pc' = "retire" /\ job' = [job EXCEPT !.published = TRUE]
      BY <1>5 DEF PublishDone
    <2>2. job'.op = "final"
      BY <1>5, <2>1 DEF TypeOK, Jobs
    <2>3. FinalArtifacts(Here') = FinalArtifacts(Here)
      BY <1>3 DEF FinalArtifacts
    <2>4. FlowOK'
      BY <1>0, <1>1, <1>3, <1>5, <2>1, <2>2, <2>3 DEF FlowOK
    <2>5. LogOK(recording', Here')
      BY <1>0, <1>3, LogFrame
    <2> QED BY <2>4, <2>5 DEF LiveOK
  <1> QED BY <1>4, <1>5

\* flush_sync_streams takes the next ordinal with every row on the medium.
LEMMA FlushLive ==
  ASSUME TypeOK, ControlOK, LiveOK, pc = "flush", pc' = "publish",
         disk' = [disk EXCEPT ![Directory].synced = Len(Log)],
         recording' = IF job.op = "final" THEN recording
                      ELSE [recording EXCEPT !.ordinal = @ + 1],
         UNCHANGED <<job, reached>>
  PROVE  LiveOK'
  <1> USE DEF Publishing, FinalOps
  <1>0. /\ recording.generation # NoGeneration /\ LogOK(recording, Here) /\ FlowOK
        /\ ~job.published
    BY DEF ControlOK, LiveOK
  <1>1. /\ recording'.generation = recording.generation
        /\ recording'.completionDurable = recording.completionDurable
        /\ recording'.bias = recording.bias /\ recording'.lastError = recording.lastError
        /\ recording'.consumed = recording.consumed
    BY DEF TypeOK, Recordings
  <1>2. /\ recording'.ordinal = IF job.op = "final" THEN recording.ordinal
                                ELSE recording.ordinal + 1
        /\ recording.ordinal \in Nat
    BY DEF TypeOK, Recordings
  <1>3. Directory \in Generations /\ Directory' = Directory
    BY <1>0, <1>1 DEF TypeOK, Recordings, Named, Directory
  <1>4. Here \in Directories /\ Here' = [Here EXCEPT !.synced = Len(Here.log)]
    BY <1>3 DEF TypeOK, Here, Log
  <1>5. /\ Here'.artifacts = Here.artifacts /\ Here'.log = Here.log
        /\ Here'.manifest = Here.manifest /\ Here'.unsynced = Here.unsynced
        /\ Here'.synced = Len(Here.log)
    BY <1>4 DEF Directories
  <1>6. Quiet(Here.artifacts)
    BY <1>0, FlowIsQuiet
  <1>7. \A a \in Here.artifacts : /\ a.name =< recording.ordinal /\ a.name # FinalName
                                  /\ a.name \in Nat
    BY <1>4, <1>6, DirectoryTypes DEF Quiet, Artifacts
  <1>8. \A a \in Here'.artifacts :
            /\ a.name =< recording'.ordinal /\ a.name # FinalName
            /\ job.op # "final" => a.name < recording'.ordinal
    BY <1>2, <1>5, <1>7, SMTT(30)
  <1>9. FinalArtifacts(Here') = {}
    BY <1>8 DEF FinalArtifacts
  <1>10. job.op # "final" => recording'.ordinal >= 1
    BY <1>2, SMTT(30)
  <1>11. FlowOK'
    BY <1>0, <1>1, <1>3, <1>5, <1>8, <1>9, <1>10 DEF FlowOK
  <1>12. LogOK(recording', Here')
    BY <1>0, <1>1, <1>5, LogFrame
  <1> QED BY <1>11, <1>12 DEF LiveOK

\* publish_json_exclusive adds an artifact with a name of its own, which declares the
\* whole synced log.
LEMMA PublishLive ==
  ASSUME TypeOK, ControlOK, LiveOK, pc = "publish", pc' = "syncDirectory",
         disk' = [disk EXCEPT ![Directory].artifacts = @ \cup {PublishedArtifact},
                              ![Directory].unsynced = @ \cup {PublishedArtifact}],
         UNCHANGED <<job, recording, reached>>
  PROVE  /\ LiveOK' /\ Directory \in Generations
         /\ Publishes(Here, disk'[Directory], PublishedArtifact)
         /\ PublishedArtifact \notin Here.artifacts
         /\ PublishedArtifact \in Artifacts
  <1> USE DEF Publishing, FinalOps
  <1> DEFINE p == PublishedArtifact
  <1>0. /\ recording.generation # NoGeneration /\ LogOK(recording, Here) /\ FlowOK
        /\ ~job.published
    BY DEF ControlOK, LiveOK
  <1>1. Directory \in Generations /\ Directory' = Directory
    BY <1>0 DEF TypeOK, Recordings, Named, Directory
  <1>2. Here \in Directories
    BY <1>1 DEF TypeOK, Here
  <1>3. Here' = [Here EXCEPT !.artifacts = @ \cup {p}, !.unsynced = @ \cup {p}]
    BY <1>1, <1>2 DEF TypeOK, Here, Directories
  <1>4. /\ Here'.artifacts = Here.artifacts \cup {p} /\ Here'.log = Here.log
        /\ Here'.manifest = Here.manifest /\ Here'.unsynced = Here.unsynced \cup {p}
        /\ Here'.synced = Here.synced
    BY <1>2, <1>3 DEF Directories
  <1>5. Len(Here.log) \in Nat /\ Here.artifacts \subseteq Artifacts
    <2>1. Here.log \in Seq(LogRows) /\ Here.artifacts \subseteq Artifacts
      BY <1>2, DirectoryTypes
    <2> QED BY <2>1, SMTT(30)
  <1>6. /\ p.name = (IF job.op = "final" THEN FinalName ELSE recording.ordinal)
        /\ p.length = Len(Here.log) /\ p.completed = recording.completionDurable
        /\ p \in Artifacts
    BY <1>5 DEF PublishedArtifact, Artifact, Log, Here, Artifacts, TypeOK, Recordings, Jobs,
                FinalName
  <1>7. p' = p
    BY <1>1, <1>4 DEF PublishedArtifact, Log, Here
  <1> HIDE DEF p
  <1>8. Quiet(Here.artifacts)
    BY <1>0, FlowIsQuiet
  <1>9. recording.ordinal \in Nat
    BY DEF TypeOK, Recordings
  <1>10. \A a \in Here.artifacts : a.name # p.name
    <2> TAKE a \in Here.artifacts
    <2>1. CASE job.op = "final"
      BY <1>6, <1>8, <2>1 DEF Quiet
    <2>2. CASE job.op # "final"
      <3>1. a.name < recording.ordinal /\ p.name = recording.ordinal
        BY <1>0, <1>6, <2>2 DEF FlowOK
      <3>2. a.name \in Nat
        BY <1>5 DEF Artifacts
      <3> QED BY <1>9, <3>1, <3>2, Compare
    <2> QED BY <2>1, <2>2
  <1>11. \A a \in Here'.artifacts : a.name =< recording'.ordinal
    BY <1>4, <1>6, <1>8, <1>9, SMTT(30) DEF Quiet, FinalName
  <1>12. \A a \in FinalArtifacts(Here') : a = p /\ job.op = "final"
    <2>1. \A a \in Here.artifacts : a.name # FinalName
      BY <1>8 DEF Quiet
    <2>2. job.op # "final" => p.name # FinalName
      BY <1>0, <1>6, <1>9, SMTT(30) DEF FlowOK, FinalName
    <2> QED BY <1>4, <2>1, <2>2 DEF FinalArtifacts
  <1>13. FlowOK'
    <2>1. Here'.synced = Len(Here'.log) /\ (job.op # "final" => recording.ordinal >= 1)
      BY <1>0, <1>4 DEF FlowOK
    <2>2. p \in Here'.artifacts /\ \A a \in Here'.artifacts : a.name = p.name => a = p
      BY <1>4, <1>10
    <2>3. \A a \in FinalArtifacts(Here') :
             /\ job.op = "final" /\ a.length = Len(Here'.log)
             /\ a.completed = recording.completionDurable
      BY <1>4, <1>6, <1>12
    <2> QED BY <1>0, <1>1, <1>7, <1>11, <2>1, <2>2, <2>3 DEF FlowOK, p
  <1>14. LogOK(recording', Here')
    BY <1>0, <1>4, LogFrame
  <1>15. disk'[Directory] = Here'
    BY <1>1 DEF Here
  <1>16. Publishes(Here, disk'[Directory], p)
    BY <1>4, <1>15 DEF Publishes
  <1>17. p \notin Here.artifacts
    BY <1>10
  <1> QED BY <1>1, <1>6, <1>13, <1>14, <1>16, <1>17 DEF LiveOK, p

\* Every step keeps the rows and artifacts of the live recording in agreement with
\* the actor's counters.
LEMMA LiveStep ==
  ASSUME TypeOK, ControlOK, OrderOK, ProgressOK, CallOK, LiveOK, Next
  PROVE  LiveOK'
  <1> USE DEF Publishing, FinalOps, NoJob
  <1>0. \A kind \in RowKinds : Row(kind) \in LogRows /\ Row(kind).kind = kind
    BY RowTypes DEF Row
  <1>00. ASSUME NEW n \in Nat
         PROVE  /\ RecordRow(n) \in LogRows /\ RecordRow(n).kind = "record"
                /\ RecordRow(n).sequence = n
    BY RowTypes DEF RecordRow
  <1>1. ASSUME Producer PROVE LiveOK'
    BY <1>1, LiveFrame DEF Producer, Offer, RecordExternalLoss, actorVars, historyVars
  <1>2. ASSUME Caller PROVE LiveOK'
    BY <1>2, LiveFrame DEF Caller, CallPrepare, CallRecordControl, CallRecordBiasChange,
       CallMarkCompletion, CallFinalize, CallShutdown, Send, actorVars, historyVars
  <1>3. ASSUME Prepare PROVE LiveOK'
    <2>1. CASE active \/ queuedBytes # 0
      <3>1. UNCHANGED <<recording, disk, reached>> /\ pc' = "control" /\ job' = NoJob /\ pc = "control"
        BY <1>3, <2>1 DEF Prepare, Answer, historyVars
      <3>2. UNCHANGED <<pc, job>>
        BY <3>1 DEF ControlOK
      <3> QED BY <3>1, <3>2, LiveFrame
    <2>2. CASE ~(active \/ queuedBytes # 0)
      <3>1. recording.generation = NoGeneration
        BY <1>3, <2>2 DEF Prepare, ControlOK
      <3>2. CASE UNCHANGED recording
        BY <3>1, <3>2 DEF LiveOK
      <3>3. CASE ~UNCHANGED recording
        <4> DEFINE d == [NoDirectory EXCEPT !.manifest = "durable", !.log = <<Row("started")>>]
        <4>1. /\ recording' = NewRecording(call.generation)
              /\ disk' = [disk EXCEPT ![call.generation] = d]
              /\ BeginPublish("prepare", 0)
          BY <1>3, <2>2, <3>3 DEF Prepare
        <4>2. call.generation \in Generations
          BY <1>3 DEF Prepare, ControlOK, TypeOK, Calls, Named
        <4>3. /\ d.manifest = "durable" /\ d.log = <<Row("started")>> /\ d.artifacts = {}
              /\ d.unsynced = {}
          BY DEF NoDirectory
        <4> HIDE DEF d
        <4>4. /\ recording'.generation = call.generation /\ recording'.bias = 0
              /\ ~recording'.completionDurable /\ recording'.consumed = 0
          BY <4>1 DEF NewRecording, NoRecording
        <4>5. Here' = d
          BY <4>1, <4>2, <4>4 DEF Here, Directory, TypeOK
        <4>6. LogOK(recording', Here')
          BY <4>3, <4>4, <4>5, StartedLog
        <4>7. pc' = "flush" /\ job'.op = "prepare" /\ ~job'.published
          BY <4>1, Begun
        <4>8. FinalArtifacts(Here') = {} /\ Here'.artifacts = {}
          BY <4>3, <4>5 DEF FinalArtifacts
        <4>9. FlowOK'
          BY <4>4, <4>7, <4>8 DEF FlowOK
        <4> QED BY <4>6, <4>9 DEF LiveOK
      <3> QED BY <3>2, <3>3
    <2> QED BY <2>1, <2>2
  <1>4. ASSUME recording.generation # NoGeneration,
               pc \notin {"syncDirectory", "retire"} \/ job.op # "final"
        PROVE  /\ LogOK(recording, Here) /\ Quiet(Here.artifacts) /\ FlowOK
               /\ recording.completionDurable => Directory \in reached
    BY <1>4, FlowIsQuiet DEF LiveOK, FlowOK
  <1>5. ASSUME UNCHANGED recording PROVE SameCounts
    BY <1>5 DEF SameCounts
  <1>6. ASSUME NEW kind, Handles(kind)
        PROVE  /\ recording.generation # NoGeneration /\ pc = "control"
               /\ recording.generation = call.generation /\ call.kind = kind
    BY <1>6 DEF Handles, ControlOK
  <1>7. ASSUME RecordControl PROVE LiveOK'
    <2>1. recording.generation # NoGeneration /\ pc = "control"
      BY <1>6, <1>7 DEF RecordControl
    <2>2. UNCHANGED <<recording, reached>>
      BY <1>7 DEF RecordControl, historyVars
    <2>3. pc' \in {"flush", "control"} /\ job'.op \in {"control", "none"} /\ ~job'.published
      BY <1>7, Begun, SMTT(30) DEF RecordControl, Answer
    <2>4. Settles
      BY <1>4, <2>1, <2>2, <2>3 DEF Settles
    <2>5. CASE WriteRow(Row("event"))
      <3>1. Row("event") \in LogRows /\ Row("event").kind = "event"
        BY <1>0 DEF RowKinds
      <3>2. Counts(recording, recording', Row("event"))
        BY <2>2, <3>1 DEF Counts
      <3> QED BY <1>4, <2>1, <2>4, <2>5, <3>1, <3>2, RowLive DEF WriteRow
    <2>6. CASE TearRow
      BY <1>4, <1>5, <2>1, <2>2, <2>4, <2>6, TornLive
    <2> QED BY <1>7, <2>5, <2>6 DEF RecordControl
  <1>8. ASSUME RecordBiasChange PROVE LiveOK'
    <2>1. recording.generation # NoGeneration /\ pc = "control" /\ UNCHANGED reached
      BY <1>6, <1>8 DEF RecordBiasChange, historyVars
    <2>3. pc' \in {"flush", "control"} /\ job'.op \in {"bias", "none"} /\ ~job'.published
      BY <1>8, Begun, SMTT(30) DEF RecordBiasChange, Answer
    <2>4. ASSUME recording' = [recording EXCEPT !.bias = @ + 1], WriteRow(Row("bias"))
          PROVE  LiveOK'
      <3>1. Row("bias") \in LogRows /\ Row("bias").kind = "bias"
        BY <1>0 DEF RowKinds
      <3>2. /\ recording'.bias = recording.bias + 1 /\ recording'.consumed = recording.consumed
            /\ recording'.completionDurable = recording.completionDurable
            /\ recording'.lastError = recording.lastError
            /\ recording'.generation = recording.generation
            /\ recording'.ordinal = recording.ordinal
        BY <2>4 DEF TypeOK, Recordings
      <3>3. Counts(recording, recording', Row("bias"))
        BY <3>1, <3>2 DEF Counts
      <3>4. Settles
        BY <1>4, <2>1, <2>3, <3>2 DEF Settles
      <3> QED BY <1>4, <2>1, <2>4, <3>1, <3>3, <3>4, RowLive DEF WriteRow
    <2>5. ASSUME recording' = [recording EXCEPT !.lastError = TRUE], TearRow
          PROVE  LiveOK'
      <3>2. /\ recording'.bias = recording.bias /\ recording'.lastError
            /\ recording'.completionDurable = recording.completionDurable
            /\ recording'.generation = recording.generation
            /\ recording'.ordinal = recording.ordinal
        BY <2>5 DEF TypeOK, Recordings
      <3>3. SameCounts
        BY <3>2 DEF SameCounts
      <3>4. Settles
        BY <1>4, <2>1, <2>3, <3>2 DEF Settles
      <3> QED BY <1>4, <2>1, <2>5, <3>3, <3>4, TornLive
    <2>6. ASSUME Answer, UNCHANGED <<recording, disk>> PROVE LiveOK'
      <3>1. job' = NoJob /\ pc' = "control"
        BY <2>6 DEF Answer
      <3>2. UNCHANGED <<pc, job>>
        BY <2>1, <3>1 DEF ControlOK
      <3> QED BY <2>1, <2>6, <3>2, LiveFrame
    <2> QED BY <1>8, <2>4, <2>5, <2>6 DEF RecordBiasChange
  <1>9. ASSUME NEW op \in {"completion", "finalCompletion"}, NEW loss, WriteCompletion(op, loss),
               recording.generation # NoGeneration, pc \in {"control", "drain"},
               recording.generation \in reached, UNCHANGED reached,
               op = "finalCompletion" => ~recording.lastError
        PROVE  LiveOK'
    <2>1. /\ ~recording.completionDurable /\ WriteRow(Row("completion"))
          /\ recording' = [recording EXCEPT !.completionDurable = TRUE]
          /\ BeginPublish(op, loss)
      BY <1>9 DEF WriteCompletion
    <2>2. /\ recording'.bias = recording.bias /\ recording'.consumed = recording.consumed
          /\ recording'.completionDurable
          /\ recording'.lastError = recording.lastError
          /\ recording'.generation = recording.generation
          /\ recording'.ordinal = recording.ordinal
      BY <2>1 DEF TypeOK, Recordings
    <2>3. pc' = "flush" /\ job'.op = op /\ ~job'.published
      BY <2>1, Begun
    <2>4. Row("completion") \in LogRows /\ Row("completion").kind = "completion"
      BY <1>0 DEF RowKinds
    <2>5. Counts(recording, recording', Row("completion"))
      BY <2>1, <2>2, <2>4 DEF Counts
    <2>6. Settles
      BY <1>9, <2>2, <2>3 DEF Settles, Directory
    <2> QED BY <1>4, <1>9, <2>1, <2>4, <2>5, <2>6, RowLive DEF WriteRow
  <1>10. ASSUME MarkCompletion PROVE LiveOK'
    <2>1. /\ recording.generation # NoGeneration /\ pc = "control" /\ UNCHANGED reached
          /\ recording.generation \in reached
      BY <1>6, <1>10 DEF MarkCompletion, historyVars, CallOK
    <2>2. ASSUME TearRow, Answer, UNCHANGED recording PROVE LiveOK'
      <3>1. Settles
        BY <1>4, <2>1, <2>2 DEF Settles, Answer
      <3> QED BY <1>4, <1>5, <2>1, <2>2, <3>1, TornLive
    <2>3. ASSUME recording.completionDurable, BeginPublish("completion", LossOf(Directory)),
                 UNCHANGED <<recording, disk>>
          PROVE  LiveOK'
      <3>1. pc' = "flush" /\ job'.op = "completion" /\ ~job'.published
        BY <2>3, Begun
      <3>2. Settles
        BY <1>4, <2>1, <2>3, <3>1 DEF Settles
      <3>3. Here' = Here
        BY <2>3 DEF Here, Directory
      <3> QED BY <1>4, <1>5, <2>1, <2>3, <3>2, <3>3, StillLive
    <2> QED BY <1>9, <1>10, <2>1, <2>2, <2>3 DEF MarkCompletion
  <1>11. ASSUME UNCHANGED <<recording, disk, reached, job>>, recording.generation # NoGeneration,
                pc \notin Publishing \cup {"retire"}, ~job.published,
                job.op \notin FinalOps \cup {"completion"} \/ pc = "drain",
                pc' \notin Publishing, pc' = "endEvent" => ~recording.lastError
         PROVE  LiveOK'
    <2>1. Settles
      BY <1>4, <1>11 DEF Settles, FlowOK
    <2>2. Here' = Here
      BY <1>11 DEF Here, Directory
    <2> QED BY <1>4, <1>5, <1>11, <2>1, <2>2, StillLive
  <1>12. ASSUME Finalize PROVE LiveOK'
    <2>1. recording.generation # NoGeneration /\ pc = "control" /\ job = NoJob
      BY <1>6, <1>12 DEF Finalize, ControlOK
    <2> QED BY <1>11, <1>12, <2>1 DEF Finalize, historyVars
  <1>13. ASSUME DrainRecord PROVE LiveOK'
    <2>1. /\ pc = "drain" /\ UNCHANGED <<pc, job, reached>> /\ queue # <<>>
          /\ recording.consumed < call.cutoff
      BY <1>13 DEF DrainRecord, historyVars
    <2>2. recording.generation # NoGeneration /\ ~job.published /\ job.op \in FinalOps \cup {"none"}
      BY <2>1 DEF ControlOK, Closing
    <2>3. job.op = "none"
      BY <2>1, <2>2, SMTT(30) DEF ProgressOK, TypeOK, Recordings, Calls
    <2> DEFINE n == Head(queue).sequence
    <2>4. n \in Nat /\ n = recording.consumed + 1
      <3>1. Head(queue) \in QueuedRecords /\ n = recording.consumed + InHand + 1 /\ InHand = 0
        BY <2>1, HeadIsRecord DEF InHand
      <3> QED BY <3>1, SMTT(30) DEF QueuedRecords, TypeOK, Recordings
    <2> HIDE DEF n
    <2>5. ASSUME ~recording.lastError, WriteRow(RecordRow(n)),
                 recording' = [recording EXCEPT !.consumed = n, !.written = n]
          PROVE  LiveOK'
      <3>1. /\ recording'.bias = recording.bias /\ recording'.consumed = n
            /\ recording'.completionDurable = recording.completionDurable
            /\ recording'.lastError = recording.lastError
            /\ recording'.generation = recording.generation
            /\ recording'.ordinal = recording.ordinal
        BY <2>5 DEF TypeOK, Recordings
      <3>2. Counts(recording, recording', RecordRow(n))
        BY <1>00, <2>4, <3>1 DEF Counts
      <3>3. Settles
        BY <1>4, <2>1, <2>2, <2>3, <3>1 DEF Settles
      <3> QED BY <1>00, <1>4, <2>1, <2>2, <2>4, <2>5, <3>2, <3>3, RowLive DEF WriteRow
    <2>6. ASSUME TearRow, recording' = [recording EXCEPT !.consumed = n, !.lastError = TRUE]
          PROVE  LiveOK'
      <3>1. /\ recording'.bias = recording.bias /\ recording'.lastError
            /\ recording'.completionDurable = recording.completionDurable
            /\ recording'.generation = recording.generation
            /\ recording'.ordinal = recording.ordinal
        BY <2>6 DEF TypeOK, Recordings
      <3>2. SameCounts
        BY <3>1 DEF SameCounts
      <3>3. Settles
        BY <1>4, <2>1, <2>2, <2>3, <3>1 DEF Settles
      <3> QED BY <1>4, <2>1, <2>2, <2>6, <3>2, <3>3, TornLive
    <2>7. ASSUME recording.lastError, recording' = [recording EXCEPT !.consumed = n], UNCHANGED disk
          PROVE  LiveOK'
      <3>1. /\ recording'.bias = recording.bias /\ recording'.lastError = recording.lastError
            /\ recording'.completionDurable = recording.completionDurable
            /\ recording'.generation = recording.generation
            /\ recording'.ordinal = recording.ordinal
        BY <2>7 DEF TypeOK, Recordings
      <3>2. SameCounts
        BY <2>7, <3>1 DEF SameCounts
      <3>3. Settles
        BY <1>4, <2>1, <2>2, <2>3, <3>1 DEF Settles
      <3>4. Here' = Here
        BY <2>7, <3>1 DEF Here, Directory
      <3> QED BY <1>4, <2>1, <2>2, <3>2, <3>3, <3>4, StillLive
    <2> QED BY <1>13, <2>5, <2>6, <2>7 DEF DrainRecord, n
  <1>14. ASSUME Finalizing PROVE LiveOK'
    <2>1. /\ pc = "drain" /\ UNCHANGED reached /\ recording.generation # NoGeneration
          /\ ~job.published /\ call.kind = "finalize" /\ call.generation = recording.generation
      BY <1>14 DEF Finalizing, historyVars, ControlOK, Closing
    <2>2. ASSUME pc' \in {"retire", "endEvent"}, UNCHANGED <<recording, job, disk>>,
                 pc' = "endEvent" => ~recording.lastError
          PROVE  LiveOK'
      BY <1>11, <2>1, <2>2
    <2>3. ASSUME call.reached, ~recording.lastError, WriteCompletion("finalCompletion", call.loss)
          PROVE  LiveOK'
      <3>1. recording.generation \in reached
        BY <2>1, <2>3 DEF CallOK
      <3> QED BY <1>9, <2>1, <2>3, <3>1
    <2>4. ASSUME ~recording.lastError, TearRow, pc' = "retire", UNCHANGED <<recording, job>>
          PROVE  LiveOK'
      <3>1. job.op \in FinalOps \cup {"none"}
        BY <2>1 DEF ControlOK
      <3>2. Settles
        BY <1>4, <2>1, <2>4, <3>1 DEF Settles
      <3> QED BY <1>4, <1>5, <2>1, <2>4, <3>2, TornLive
    <2> QED BY <1>14, <2>2, <2>3, <2>4 DEF Finalizing
  <1>15. ASSUME WriteEndEvent PROVE LiveOK'
    <2>1. /\ pc = "endEvent" /\ UNCHANGED <<reached, recording>>
          /\ recording.generation # NoGeneration
      BY <1>15 DEF WriteEndEvent, historyVars, ControlOK, Closing
    <2>2. ~recording.lastError
      BY <1>4, <2>1 DEF FlowOK
    <2>3. ASSUME WriteRow(Row("event")), BeginPublish("final", call.loss) PROVE LiveOK'
      <3>1. Row("event") \in LogRows /\ Row("event").kind = "event"
        BY <1>0 DEF RowKinds
      <3>2. Counts(recording, recording', Row("event"))
        BY <2>1, <3>1 DEF Counts
      <3>3. pc' = "flush" /\ job'.op = "final" /\ ~job'.published
        BY <2>3, Begun
      <3>4. Settles
        BY <1>4, <2>1, <2>2, <3>3 DEF Settles
      <3> QED BY <1>4, <2>1, <2>3, <3>1, <3>2, <3>4, RowLive DEF WriteRow
    <2>4. ASSUME TearRow, pc' = "retire", job' = NoJob PROVE LiveOK'
      <3>1. Settles
        BY <1>4, <2>1, <2>4 DEF Settles
      <3> QED BY <1>4, <1>5, <2>1, <2>4, <3>1, TornLive
    <2> QED BY <1>15, <2>3, <2>4 DEF WriteEndEvent
  <1>16. ASSUME Retire \/ Crash PROVE LiveOK'
    BY <1>16, SMTT(30) DEF Retire, Crash, LiveOK, NoRecording
  <1>17. ASSUME Validate PROVE LiveOK'
    BY <1>17 DEF Validate, LiveOK, ControlOK
  <1>18. ASSUME Shutdown PROVE LiveOK'
    <2>1. CASE active
      <3>1. UNCHANGED <<recording, disk, reached>> /\ pc' = "control" /\ job' = NoJob /\ pc = "control"
        BY <1>18, <2>1 DEF Shutdown, Answer, historyVars
      <3>2. UNCHANGED <<pc, job>>
        BY <3>1 DEF ControlOK
      <3> QED BY <3>1, <3>2, LiveFrame
    <2>2. CASE ~active
      BY <1>18, <2>2 DEF Shutdown, LiveOK, ControlOK
    <2> QED BY <2>1, <2>2
  <1>19. ASSUME PeriodicCheckpoint PROVE LiveOK'
    <2>1. /\ pc = "control" /\ UNCHANGED <<recording, disk, reached>>
          /\ recording.generation # NoGeneration
      BY <1>19 DEF PeriodicCheckpoint, historyVars, ControlOK
    <2>2. pc' = "flush" /\ job'.op = "periodic" /\ ~job'.published
      BY <1>19, Begun DEF PeriodicCheckpoint
    <2>3. Settles
      BY <1>4, <2>1, <2>2 DEF Settles
    <2>4. Here' = Here
      BY <2>1 DEF Here, Directory
    <2> QED BY <1>4, <1>5, <2>1, <2>3, <2>4, StillLive
  <1>20. ASSUME ControlIdle \/ ReceiveData PROVE LiveOK'
    <2>1. /\ pc \in {"control", "data"} /\ pc' \in {"control", "data", "write"}
          /\ UNCHANGED <<recording, disk, reached, job>>
      BY <1>20 DEF ControlIdle, ReceiveData, historyVars
    <2>2. job = NoJob
      BY <2>1 DEF ControlOK
    <2>3. CASE recording.generation = NoGeneration
      BY <2>1, <2>3 DEF LiveOK
    <2>4. CASE recording.generation # NoGeneration
      BY <1>11, <2>1, <2>2, <2>4
    <2> QED BY <2>3, <2>4
  <1>21. ASSUME WriteQueued PROVE LiveOK'
    <2>1. /\ pc = "write" /\ pc' = "control" /\ UNCHANGED <<job, reached>>
          /\ recording.generation # NoGeneration
      BY <1>21 DEF WriteQueued, historyVars, ControlOK
    <2>2. job = NoJob
      BY <2>1 DEF ControlOK
    <2> DEFINE n == hand.sequence
    <2>3. n \in Nat /\ n = recording.consumed + 1
      BY <2>1 DEF OrderOK, TypeOK, QueuedRecords
    <2> HIDE DEF n
    <2>4. ASSUME WriteRow(RecordRow(n)),
                 recording' = [recording EXCEPT !.consumed = n, !.written = n]
          PROVE  LiveOK'
      <3>1. /\ recording'.bias = recording.bias /\ recording'.consumed = n
            /\ recording'.completionDurable = recording.completionDurable
            /\ recording'.lastError = recording.lastError
            /\ recording'.generation = recording.generation
            /\ recording'.ordinal = recording.ordinal
        BY <2>4 DEF TypeOK, Recordings
      <3>2. Counts(recording, recording', RecordRow(n))
        BY <1>00, <2>3, <3>1 DEF Counts
      <3>3. Settles
        BY <1>4, <2>1, <2>2, <3>1 DEF Settles
      <3> QED BY <1>00, <1>4, <2>1, <2>3, <2>4, <3>2, <3>3, RowLive DEF WriteRow
    <2>5. ASSUME TearRow, recording' = [recording EXCEPT !.consumed = n, !.lastError = TRUE]
          PROVE  LiveOK'
      <3>1. /\ recording'.bias = recording.bias /\ recording'.lastError
            /\ recording'.completionDurable = recording.completionDurable
            /\ recording'.generation = recording.generation
            /\ recording'.ordinal = recording.ordinal
        BY <2>5 DEF TypeOK, Recordings
      <3>2. SameCounts
        BY <3>1 DEF SameCounts
      <3>3. Settles
        BY <1>4, <2>1, <2>2, <3>1 DEF Settles
      <3> QED BY <1>4, <2>1, <2>5, <3>2, <3>3, TornLive
    <2> QED BY <1>21, <2>4, <2>5 DEF WriteQueued, n
  <1>22. ASSUME FlushSyncStreams PROVE LiveOK'
    BY <1>22, FlushLive, PublishFailedLive DEF FlushSyncStreams, historyVars
  <1>23. ASSUME PublishJsonExclusive PROVE LiveOK'
    BY <1>23, PublishLive, PublishFailedLive DEF PublishJsonExclusive, historyVars
  <1>24. ASSUME SyncDirectory PROVE LiveOK'
    BY <1>24, PublishDoneLive, PublishFailedLive DEF SyncDirectory
  <1> QED
    BY <1>1, <1>2, <1>3, <1>7, <1>8, <1>10, <1>12, <1>13, <1>14, <1>15, <1>16, <1>17, <1>18,
       <1>19, <1>20, <1>21, <1>22, <1>23, <1>24 DEF Next, Actor

\* What a running process does to the directories, to the recording under way and
\* to what it has acknowledged.
LEMMA DiskStep ==
  ASSUME TypeOK, ControlOK, OrderOK, LiveOK, CallOK, Producer \/ Caller \/ Actor
  PROVE  \A g \in Generations :
           \/ Grows(disk[g], disk'[g])
           \/ /\ g = Directory /\ pc = "publish" /\ UNCHANGED <<recording, acked, reached>>
              /\ Publishes(disk[g], disk'[g], PublishedArtifact)
              /\ PublishedArtifact \notin disk[g].artifacts /\ PublishedArtifact \in Artifacts
           \/ Starts(disk[g], disk'[g])
  <1> DEFINE Result == \A g \in Generations :
           \/ Grows(disk[g], disk'[g])
           \/ /\ g = Directory /\ pc = "publish" /\ UNCHANGED <<recording, acked, reached>>
              /\ Publishes(disk[g], disk'[g], PublishedArtifact)
              /\ PublishedArtifact \notin disk[g].artifacts /\ PublishedArtifact \in Artifacts
           \/ Starts(disk[g], disk'[g])
  <1>0. recording.generation # NoGeneration => Directory \in Generations
    BY DEF TypeOK, Recordings, Named, Directory
  <1>1. ASSUME NEW d PROVE Grows(d, d)
    BY DEF Grows
  <1>2. ASSUME UNCHANGED disk PROVE Result
    BY <1>1, <1>2
  <1>3. ASSUME recording.generation # NoGeneration, NEW row \in LogRows,
               disk' = [disk EXCEPT ![Directory].log = Append(@, row)]
        PROVE  Result
    <2>1. disk \in [Generations -> Directories] /\ disk[Directory] \in Directories
      BY <1>0, <1>3 DEF TypeOK
    <2>2. /\ disk'[Directory] = [disk[Directory] EXCEPT !.log = Append(@, row)]
          /\ \A g \in Generations : g # Directory => disk'[g] = disk[g]
      BY <1>0, <1>3, <2>1, RowAppended
    <2>3. /\ disk'[Directory].log = Append(disk[Directory].log, row)
          /\ disk'[Directory].artifacts = disk[Directory].artifacts
          /\ disk'[Directory].unsynced = disk[Directory].unsynced
          /\ disk'[Directory].manifest = disk[Directory].manifest
          /\ disk'[Directory].synced = disk[Directory].synced
      BY <2>1, <2>2 DEF Directories
    <2>4. Grows(disk[Directory], disk'[Directory])
      BY <1>3, <2>3 DEF Grows
    <2> QED BY <1>1, <2>2, <2>4
  <1>4. ASSUME recording.generation # NoGeneration, NEW kind \in RowKinds, WriteRow(Row(kind))
        PROVE  Result
    BY <1>3, <1>4, RowTypes DEF WriteRow
  <1>5. ASSUME recording.generation # NoGeneration, NEW n \in Nat, WriteRow(RecordRow(n))
        PROVE  Result
    BY <1>3, <1>5, RowTypes DEF WriteRow
  <1>6. ASSUME recording.generation # NoGeneration, TearRow PROVE Result
    <2>1. Row("torn") \in LogRows
      BY RowTypes DEF RowKinds
    <2> QED BY <1>2, <1>3, <1>6, <2>1 DEF TearRow
  <1>7. {"event", "bias", "completion", "torn"} \subseteq RowKinds
    BY DEF RowKinds
  <1>8. CASE Producer
    BY <1>2, <1>8 DEF Producer, Offer, RecordExternalLoss
  <1>9. CASE Caller
    BY <1>2, <1>9 DEF Caller, CallPrepare, CallRecordControl, CallRecordBiasChange,
       CallMarkCompletion, CallFinalize, CallShutdown, Send
  <1>10. CASE Prepare
    <2>1. CASE UNCHANGED disk
      BY <1>2, <2>1
    <2>2. CASE ~UNCHANGED disk
      <3>1. PICK d : disk' = [disk EXCEPT ![call.generation] = d]
                     /\ d \in {NoDirectory, [NoDirectory EXCEPT !.manifest = "visible"],
                               [NoDirectory EXCEPT !.manifest = "durable"],
                               [NoDirectory EXCEPT !.manifest = "durable",
                                                   !.log = <<Row("torn")>>],
                               [NoDirectory EXCEPT !.manifest = "durable",
                                                   !.log = <<Row("started")>>]}
        BY <1>10, <2>2 DEF Prepare
      <3>2. d.artifacts = {} /\ d.unsynced = {} /\ d.synced = 0
        <4> DEFINE Fresh(e) == e.artifacts = {} /\ e.unsynced = {} /\ e.synced = 0
        <4>1. Fresh(NoDirectory)
          BY DEF NoDirectory
        <4>2. ASSUME NEW m PROVE Fresh([NoDirectory EXCEPT !.manifest = m])
          BY DEF NoDirectory
        <4>3. ASSUME NEW m, NEW log
              PROVE  Fresh([NoDirectory EXCEPT !.manifest = m, !.log = log])
          BY DEF NoDirectory
        <4> HIDE DEF Fresh
        <4>4. \/ d = NoDirectory
              \/ \E m : d = [NoDirectory EXCEPT !.manifest = m]
              \/ \E m, log : d = [NoDirectory EXCEPT !.manifest = m, !.log = log]
          BY <3>1
        <4>5. Fresh(d)
          <5>1. CASE d = NoDirectory
            BY <4>1, <5>1
          <5>2. ASSUME NEW m, d = [NoDirectory EXCEPT !.manifest = m] PROVE Fresh(d)
            BY <4>2, <5>2
          <5>3. ASSUME NEW m, NEW log, d = [NoDirectory EXCEPT !.manifest = m, !.log = log]
                PROVE  Fresh(d)
            BY <4>3, <5>3
          <5> QED BY <4>4, <5>1, <5>2, <5>3
        <4> QED BY <4>5 DEF Fresh
      <3>3. call.kind = "prepare" /\ pc = "control"
        BY <1>10 DEF Prepare
      <3>4. ~Preparing
        BY <3>3, SMTT(30) DEF ControlOK, Preparing, NoJob
      <3>5. disk[call.generation] = NoDirectory
        BY <3>3, <3>4 DEF CallOK
      <3>6. call.generation \in Generations
        BY <3>3 DEF ControlOK, TypeOK, Calls, Named
      <3>7. Starts(disk[call.generation], disk'[call.generation])
        BY <3>1, <3>2, <3>5, <3>6 DEF Starts, TypeOK
      <3>8. \A g \in Generations : g # call.generation => disk'[g] = disk[g]
        BY <3>1 DEF TypeOK
      <3> QED BY <1>1, <3>7, <3>8
    <2> QED BY <2>1, <2>2
  <1>11. CASE RecordControl
    BY <1>4, <1>6, <1>7, <1>11 DEF RecordControl, Handles, ControlOK
  <1>12. CASE RecordBiasChange
    BY <1>2, <1>4, <1>6, <1>7, <1>12 DEF RecordBiasChange, Handles, ControlOK
  <1>13. CASE MarkCompletion
    BY <1>2, <1>4, <1>6, <1>7, <1>13 DEF MarkCompletion, WriteCompletion, Handles, ControlOK
  <1>14. CASE DrainRecord
    <2>1. recording.generation # NoGeneration /\ Head(queue).sequence \in Nat
      BY <1>14, HeadIsRecord DEF DrainRecord, ControlOK, Closing, QueuedRecords
    <2> QED BY <1>2, <1>5, <1>6, <1>14, <2>1 DEF DrainRecord
  <1>15. CASE Finalizing
    BY <1>2, <1>4, <1>6, <1>7, <1>15 DEF Finalizing, WriteCompletion, ControlOK, Closing
  <1>16. CASE WriteEndEvent
    BY <1>4, <1>6, <1>7, <1>16 DEF WriteEndEvent, ControlOK, Closing
  <1>17. CASE WriteQueued
    <2>1. recording.generation # NoGeneration /\ hand.sequence \in Nat
      BY <1>17 DEF WriteQueued, ControlOK, TypeOK, QueuedRecords
    <2> QED BY <1>5, <1>6, <1>17, <2>1 DEF WriteQueued
  <1>18. CASE Finalize \/ Retire \/ Validate \/ Shutdown \/ PeriodicCheckpoint \/ ControlIdle
              \/ ReceiveData
    BY <1>2, <1>18 DEF Finalize, Retire, Validate, Shutdown, PeriodicCheckpoint, ControlIdle,
       ReceiveData
  <1>19. pc \in Publishing =>
            /\ Directory \in Generations /\ disk[Directory] \in Directories
            /\ disk \in [Generations -> Directories]
    BY <1>0 DEF ControlOK, TypeOK
  <1>20. CASE FlushSyncStreams
    <2>1. CASE disk' = [disk EXCEPT ![Directory].synced = Len(Log)]
      <3>0. /\ Directory \in Generations /\ disk[Directory] \in Directories
            /\ disk \in [Generations -> Directories]
        BY <1>19, <1>20 DEF FlushSyncStreams, Publishing
      <3>1. /\ disk'[Directory] = [disk[Directory] EXCEPT !.synced = Len(Log)]
            /\ \A g \in Generations : g # Directory => disk'[g] = disk[g]
        BY <2>1, <3>0
      <3>2. /\ disk'[Directory].log = disk[Directory].log
            /\ disk'[Directory].artifacts = disk[Directory].artifacts
            /\ disk'[Directory].unsynced = disk[Directory].unsynced
            /\ disk'[Directory].manifest = disk[Directory].manifest
            /\ disk'[Directory].synced = Len(disk[Directory].log)
        BY <3>0, <3>1 DEF Directories, Log
      <3>3. Grows(disk[Directory], disk'[Directory])
        BY <3>2 DEF Grows
      <3> QED BY <1>1, <3>1, <3>3
    <2> QED BY <1>2, <1>20, <2>1 DEF FlushSyncStreams
  <1>21. CASE PublishJsonExclusive
    <2>1. CASE disk' = [disk EXCEPT ![Directory].artifacts = @ \cup {PublishedArtifact},
                                    ![Directory].unsynced = @ \cup {PublishedArtifact}]
      <3>0. pc = "publish" /\ Directory \in Generations
        BY <1>19, <1>21 DEF PublishJsonExclusive, Publishing
      <3>1. \A g \in Generations : g # Directory => disk'[g] = disk[g]
        BY <2>1, <3>0 DEF TypeOK
      <3>2. UNCHANGED disk \/ (pc' = "syncDirectory"
                               /\ UNCHANGED <<job, recording, acked, reached>>)
        BY <1>21 DEF PublishJsonExclusive, historyVars
      <3>3. CASE pc' = "syncDirectory" /\ UNCHANGED <<job, recording, acked, reached>>
        <4>1. /\ Publishes(Here, disk'[Directory], PublishedArtifact)
              /\ PublishedArtifact \notin Here.artifacts
              /\ PublishedArtifact \in Artifacts
          BY <2>1, <3>0, <3>3, PublishLive
        <4> QED BY <1>1, <3>0, <3>1, <3>3, <4>1 DEF Here
      <3> QED BY <1>2, <3>2, <3>3
    <2> QED BY <1>2, <1>21, <2>1 DEF PublishJsonExclusive
  <1>22. CASE SyncDirectory
    <2>1. CASE disk' = [disk EXCEPT ![Directory].unsynced = {}]
      <3>0. /\ Directory \in Generations /\ disk[Directory] \in Directories
            /\ disk \in [Generations -> Directories]
        BY <1>19, <1>22 DEF SyncDirectory, Publishing
      <3>1. /\ disk'[Directory] = [disk[Directory] EXCEPT !.unsynced = {}]
            /\ \A g \in Generations : g # Directory => disk'[g] = disk[g]
        BY <2>1, <3>0
      <3>2. /\ disk'[Directory].log = disk[Directory].log
            /\ disk'[Directory].artifacts = disk[Directory].artifacts
            /\ disk'[Directory].unsynced = {}
            /\ disk'[Directory].manifest = disk[Directory].manifest
            /\ disk'[Directory].synced = disk[Directory].synced
        BY <3>0, <3>1 DEF Directories
      <3>3. Grows(disk[Directory], disk'[Directory])
        BY <3>2 DEF Grows
      <3> QED BY <1>1, <3>1, <3>3
    <2> QED BY <1>2, <1>22, <2>1 DEF SyncDirectory
  <1>23. Result
    BY <1>8, <1>9, <1>10, <1>11, <1>12, <1>13, <1>14, <1>15, <1>16, <1>17, <1>18, <1>20,
       <1>21, <1>22 DEF Actor
  <1> QED BY <1>23

\* The recording the actor holds is dropped, kept with its completion, or started in
\* a directory that did not exist.
LEMMA RecordingStep ==
  ASSUME TypeOK, ControlOK, OrderOK, CallOK, Producer \/ Caller \/ Actor
  PROVE  \/ recording'.generation = NoGeneration
         \/ /\ recording'.generation = recording.generation
            /\ recording.completionDurable => recording'.completionDurable
         \/ /\ recording.generation = NoGeneration
            /\ recording'.generation \in Generations
            /\ disk[recording'.generation] = NoDirectory
  <1>1. CASE Producer
    BY <1>1 DEF Producer, Offer, RecordExternalLoss, actorVars
  <1>2. CASE Caller
    BY <1>2 DEF Caller, CallPrepare, CallRecordControl, CallRecordBiasChange,
       CallMarkCompletion, CallFinalize, CallShutdown, Send, actorVars
  <1>3. CASE Prepare
    <2>1. CASE recording' = NewRecording(call.generation) /\ ~active
      <3>1. call.kind = "prepare" /\ pc = "control"
        BY <1>3 DEF Prepare
      <3>2. ~Preparing
        BY <3>1, SMTT(30) DEF ControlOK, Preparing, NoJob
      <3>3. disk[call.generation] = NoDirectory
        BY <3>1, <3>2 DEF CallOK
      <3>4. call.generation \in Generations /\ recording.generation = NoGeneration
        BY <2>1, <3>1 DEF ControlOK, TypeOK, Calls, Named
      <3>5. recording'.generation = call.generation
        BY <2>1 DEF NewRecording, NoRecording
      <3> QED BY <3>3, <3>4, <3>5
    <2> QED BY <1>3, <2>1 DEF Prepare
  <1>4. ASSUME \/ UNCHANGED recording
               \/ recording' = NoRecording
               \/ recording' = [recording EXCEPT !.lastError = TRUE]
               \/ recording' = [recording EXCEPT !.bias = @ + 1]
               \/ recording' = [recording EXCEPT !.ordinal = @ + 1]
               \/ recording' = [recording EXCEPT !.completionDurable = TRUE]
               \/ \E n : \/ recording' = [recording EXCEPT !.consumed = n]
                         \/ recording' = [recording EXCEPT !.consumed = n, !.written = n]
                         \/ recording' = [recording EXCEPT !.consumed = n, !.lastError = TRUE]
        PROVE  \/ recording'.generation = NoGeneration
               \/ /\ recording'.generation = recording.generation
                  /\ recording.completionDurable => recording'.completionDurable
    <2>1. CASE recording' = NoRecording
      BY <2>1 DEF NoRecording
    <2>2. CASE UNCHANGED recording
      BY <2>2
    <2>3. CASE \/ recording' = [recording EXCEPT !.lastError = TRUE]
               \/ recording' = [recording EXCEPT !.bias = @ + 1]
               \/ recording' = [recording EXCEPT !.ordinal = @ + 1]
      BY <2>3 DEF TypeOK, Recordings
    <2>4. CASE recording' = [recording EXCEPT !.completionDurable = TRUE]
      BY <2>4 DEF TypeOK, Recordings
    <2>5. ASSUME NEW n, \/ recording' = [recording EXCEPT !.consumed = n]
                        \/ recording' = [recording EXCEPT !.consumed = n, !.written = n]
                        \/ recording' = [recording EXCEPT !.consumed = n, !.lastError = TRUE]
          PROVE  /\ recording'.generation = recording.generation
                 /\ recording'.completionDurable = recording.completionDurable
      BY <2>5 DEF TypeOK, Recordings
    <2> QED BY <1>4, <2>1, <2>2, <2>3, <2>4, <2>5
  <1>5. CASE RecordControl \/ RecordBiasChange \/ MarkCompletion \/ Finalize
    BY <1>4, <1>5 DEF RecordControl, RecordBiasChange, MarkCompletion, Finalize,
       WriteCompletion
  <1>6. CASE DrainRecord
    BY <1>4, <1>6 DEF DrainRecord
  <1>7. CASE Finalizing \/ WriteEndEvent \/ Retire \/ Validate \/ Shutdown
    BY <1>4, <1>7 DEF Finalizing, WriteCompletion, WriteEndEvent, Retire, Validate, Shutdown
  <1>8. CASE PeriodicCheckpoint \/ ControlIdle \/ ReceiveData
    BY <1>4, <1>8 DEF PeriodicCheckpoint, ControlIdle, ReceiveData
  <1>9. CASE WriteQueued
    BY <1>4, <1>9 DEF WriteQueued
  <1>10. CASE FlushSyncStreams \/ PublishJsonExclusive \/ SyncDirectory
    BY <1>4, <1>10 DEF FlushSyncStreams, PublishJsonExclusive, SyncDirectory,
       PublishFailed, PublishDone
  <1> QED BY <1>1, <1>2, <1>3, <1>5, <1>6, <1>7, <1>8, <1>9, <1>10 DEF Actor

\* Only two steps acknowledge anything: the durable checkpoint of mark_completion and
\* the validation of a save.
LEMMA AckedStep ==
  ASSUME Next
  PROVE  /\ reached \subseteq reached'
         /\ \/ UNCHANGED acked
            \/ /\ pc = "validate" /\ UNCHANGED <<disk, recording>>
               /\ ValidCurrentRecovery /\ Acknowledge(call.generation, FinalizedAnswer)
            \/ /\ pc = "syncDirectory" /\ job.op = "completion" /\ UNCHANGED recording
               /\ disk' = [disk EXCEPT ![Directory].unsynced = {}]
               /\ Acknowledge(Directory,
                              [acked[Directory] EXCEPT !.completion = @ \/ NoTornRow])
  <1> USE DEF historyVars
  <1>1. CASE Producer
    BY <1>1 DEF Producer, Offer, RecordExternalLoss
  <1>2. CASE Caller
    BY <1>2 DEF Caller, CallPrepare, CallRecordControl, CallRecordBiasChange,
       CallMarkCompletion, CallFinalize, CallShutdown, Send
  <1>3. CASE Crash
    BY <1>3 DEF Crash
  <1>4. CASE Prepare \/ RecordControl \/ RecordBiasChange \/ MarkCompletion \/ Finalize
             \/ DrainRecord \/ Finalizing \/ WriteEndEvent \/ Retire
    BY <1>4 DEF Prepare, RecordControl, RecordBiasChange, MarkCompletion, Finalize,
       DrainRecord, Finalizing, WriteEndEvent, Retire
  <1>5. CASE Validate
    BY <1>5 DEF Validate
  <1>6. CASE Shutdown \/ PeriodicCheckpoint \/ ControlIdle \/ ReceiveData \/ WriteQueued
    BY <1>6 DEF Shutdown, PeriodicCheckpoint, ControlIdle, ReceiveData, WriteQueued
  <1>7. CASE FlushSyncStreams \/ PublishJsonExclusive
    BY <1>7 DEF FlushSyncStreams, PublishJsonExclusive, PublishFailed
  <1>8. CASE SyncDirectory
    BY <1>8 DEF SyncDirectory, PublishFailed, PublishDone
  <1> QED BY <1>1, <1>2, <1>3, <1>4, <1>5, <1>6, <1>7, <1>8 DEF Next, Actor

\* Every step, a crash included, keeps each artifact's rows on the medium and each
\* completion asked for.
LEMMA DirectoriesStep ==
  ASSUME TypeOK, TypeOK', ControlOK, OrderOK, LiveOK, CallOK, DirectoriesOK, Next
  PROVE  DirectoriesOK'
  <1> SUFFICES ASSUME NEW g \in Generations PROVE DirectoryOK(disk'[g], g \in reached')
    BY DEF DirectoriesOK
  <1>1. /\ disk[g] \in Directories /\ disk'[g] \in Directories
        /\ DirectoryOK(disk[g], g \in reached)
    BY DEF TypeOK, DirectoriesOK
  <1>2. DirectoryOK(disk'[g], g \in reached) => DirectoryOK(disk'[g], g \in reached')
    BY AckedStep DEF DirectoryOK
  <1>3. CASE Crash
    <2>1. disk'[g] \in SurvivingDirectory(disk[g])
      BY <1>3 DEF Crash
    <2> QED BY <1>1, <1>2, <2>1, CrashKeeps
  <1>4. CASE Grows(disk[g], disk'[g])
    BY <1>1, <1>2, <1>4, GrowsKeeps
  <1>5. CASE /\ g = Directory /\ pc = "publish"
             /\ Publishes(disk[g], disk'[g], PublishedArtifact)
             /\ PublishedArtifact \in Artifacts
    <2> DEFINE p == PublishedArtifact
    <2>1. LogOK(recording, Here) /\ FlowOK
      BY <1>5 DEF LiveOK, ControlOK, Publishing
    <2>2. Here = disk[g]
      BY <1>5 DEF Here
    <2>3. /\ p.length = Len(disk[g].log) /\ p.completed = recording.completionDurable
          /\ p.name = (IF job.op = "final" THEN FinalName ELSE recording.ordinal)
      BY <1>5 DEF PublishedArtifact, Artifact, Log
    <2>4. recording.ordinal \in Nat /\ disk[g].synced \in Nat
      BY <1>1, DirectoryTypes DEF TypeOK, Recordings
    <2> HIDE DEF p
    <2>5. p.length =< disk[g].synced
      <3>1. p.length = disk[g].synced
        BY <1>5, <2>1, <2>2, <2>3 DEF FlowOK
      <3> QED BY <2>4, <3>1, Compare
    <2>6. p.completed => g \in reached
      BY <1>5, <2>1, <2>3 DEF FlowOK
    <2>7. p.name =< recording.ordinal /\ \A a \in disk[g].artifacts : a.name =< recording.ordinal
      <3>1. \A a \in disk[g].artifacts : a.name =< recording.ordinal
        BY <2>1, <2>2 DEF FlowOK
      <3>2. p.name = 0 \/ p.name = recording.ordinal
        BY <2>3 DEF FinalName
      <3> QED BY <2>4, <3>1, <3>2, Compare
    <2>8. disk[g].manifest = "durable"
      BY <2>1, <2>2 DEF LogOK
    <2>9. p \in Artifacts /\ Publishes(disk[g], disk'[g], p)
      BY <1>5 DEF p
    <2> QED BY <1>1, <1>2, <2>4, <2>5, <2>6, <2>7, <2>8, <2>9, PublishKeeps
  <1>6. CASE Starts(disk[g], disk'[g])
    <2>1. disk'[g].artifacts = {} /\ disk'[g].synced = 0 /\ Len(disk'[g].log) \in Nat
      <3>1. disk'[g].log \in Seq(LogRows)
        BY <1>1, DirectoryTypes
      <3> QED BY <1>6, <3>1, SMTT(30) DEF Starts
    <2>2. disk'[g].synced =< Len(disk'[g].log) /\ 0 \in Nat
      BY <2>1, Compare
    <2> QED BY <2>1, <2>2 DEF DirectoryOK
  <1> QED BY <1>3, <1>4, <1>5, <1>6, DiskStep DEF Next

\* Nothing has been recovered from a directory that is not there.
LEMMA NothingThere ==
  /\ \A answer : ~FinalizedOK(NoDirectory, answer)
  /\ ~CompletionOK(NoDirectory)
  <1>1. NoDirectory.artifacts = {}
    BY DEF NoDirectory
  <1> QED BY <1>1 DEF FinalizedOK, CompletionOK, FinalArtifacts

\* A directory that recovery finds finalized has a valid final.json.
LEMMA FinalizedIsValid ==
  ASSUME NEW d, RecoverSession(d).disposition = "Finalized"
  PROVE  \E a \in FinalArtifacts(d) :
            /\ ValidTerminal(d, a)
            /\ RecoverSession(d) = Recovered("Finalized", a.completed, LossError(a))
  <1>2. ASSUME NEW retained PROVE RecoverFromCheckpoint(d, retained).disposition # "Finalized"
    <2>1. \/ RecoverFromCheckpoint(d, retained) = Recovered("Corrupt", FALSE, "checkpoint")
          \/ \E completed, error :
                RecoverFromCheckpoint(d, retained) = Recovered("Interrupted", completed, error)
      BY DEF RecoverFromCheckpoint
    <2>2. RecoverFromCheckpoint(d, retained).disposition \in {"Corrupt", "Interrupted"}
      <3>1. CASE RecoverFromCheckpoint(d, retained) = Recovered("Corrupt", FALSE, "checkpoint")
        BY <3>1, SMTT(30) DEF Recovered
      <3>2. ASSUME NEW completed, NEW error,
                   RecoverFromCheckpoint(d, retained) = Recovered("Interrupted", completed, error)
            PROVE  RecoverFromCheckpoint(d, retained).disposition = "Interrupted"
        BY <3>2, SMTT(30) DEF Recovered
      <3> QED BY <2>1, <3>1, <3>2
    <2> QED BY <2>2
  <1> DEFINE f == CHOOSE a \in FinalArtifacts(d) : TRUE
  <1>3. RecoverSession(d) =
           IF d.manifest = "absent" THEN Recovered("Corrupt", FALSE, "manifest")
           ELSE IF FinalArtifacts(d) = {} THEN RecoverFromCheckpoint(d, "none")
           ELSE IF ValidTerminal(d, f) THEN Recovered("Finalized", f.completed, LossError(f))
                ELSE RecoverFromCheckpoint(d, "final-invalid")
    BY DEF RecoverSession
  <1>4. FinalArtifacts(d) # {} => f \in FinalArtifacts(d)
    OBVIOUS
  <1> HIDE DEF f
  <1>5. FinalArtifacts(d) # {} /\ ValidTerminal(d, f)
        /\ RecoverSession(d) = Recovered("Finalized", f.completed, LossError(f))
    <2>1. d.manifest # "absent"
      <3>1. SUFFICES ASSUME d.manifest = "absent" PROVE FALSE
        OBVIOUS
      <3>2. RecoverSession(d) = Recovered("Corrupt", FALSE, "manifest")
        BY <1>3, <3>1
      <3>3. RecoverSession(d).disposition = "Corrupt"
        BY <3>2, SMTT(30) DEF Recovered
      <3> QED BY <3>3
    <2>2. FinalArtifacts(d) # {}
      BY <1>2, <1>3, <2>1
    <2>3. ValidTerminal(d, f)
      BY <1>2, <1>3, <2>1, <2>2
    <2> QED BY <1>3, <2>1, <2>2, <2>3
  <1> QED BY <1>4, <1>5

\* Every step, a crash included, keeps what recovery makes of an acknowledged
\* finalization.
LEMMA FinalizationsStep ==
  ASSUME TypeOK, ControlOK, OrderOK, LiveOK, CallOK, ValidatingOK, DirectoriesOK,
         FinalizationsOK, TypeOK', Next
  PROVE  FinalizationsOK'
  <1> SUFFICES ASSUME NEW g \in Generations, acked'[g].finalized
               PROVE  recording'.generation # g /\ FinalizedOK(disk'[g], acked'[g])
    BY DEF FinalizationsOK
  <1>1. /\ disk[g] \in Directories /\ disk'[g] \in Directories
        /\ DirectoryOK(disk[g], g \in reached)
        /\ acked \in [Generations -> Answers] /\ g # NoGeneration
    BY GenerationsPositive DEF TypeOK, DirectoriesOK
  <1>2. ASSUME acked[g].finalized, acked'[g] = acked[g]
        PROVE  recording'.generation # g /\ FinalizedOK(disk'[g], acked'[g])
    <2>1. recording.generation # g /\ FinalizedOK(disk[g], acked[g]) /\ disk[g] # NoDirectory
      BY <1>2, NothingThere DEF FinalizationsOK
    <2>2. CASE Crash
      <3>1. disk'[g] \in SurvivingDirectory(disk[g]) /\ recording'.generation = NoGeneration
        BY <2>2 DEF Crash, NoRecording
      <3>2. /\ disk[g].unsynced = {} /\ disk[g].artifacts # {}
            /\ disk[g].manifest = "durable"
        BY <1>1, <2>1 DEF FinalizedOK, FinalArtifacts, DirectoryOK
      <3>3. /\ disk'[g].unsynced = {} /\ disk'[g].artifacts = disk[g].artifacts
            /\ disk'[g].manifest = "durable"
            /\ \A a \in disk[g].artifacts : Agree(disk[g].log, disk'[g].log, a.length)
        <4>1. /\ disk'[g].unsynced = {} /\ disk'[g].artifacts \subseteq disk[g].artifacts
              /\ disk[g].artifacts \ disk[g].unsynced \subseteq disk'[g].artifacts
              /\ disk[g].artifacts # {} => disk'[g].manifest = "durable"
              /\ \A a \in disk[g].artifacts : Agree(disk[g].log, disk'[g].log, a.length)
          BY <1>1, <3>1, CrashKeeps
        <4>2. disk'[g].artifacts = disk[g].artifacts
          BY <3>2, <4>1
        <4> QED BY <3>2, <4>1, <4>2
      <3>4. SameEvidence(disk[g], disk'[g])
        BY <3>2, <3>3 DEF SameEvidence
      <3>5. disk'[g].unsynced \subseteq disk[g].unsynced
        BY <3>3
      <3>6. FinalizedOK(disk'[g], acked[g])
        BY <2>1, <3>4, <3>5, FinalizedKept
      <3> QED BY <1>1, <1>2, <3>1, <3>6
    <2>3. CASE Producer \/ Caller \/ Actor
      <3>1. recording'.generation # g
        BY <1>1, <2>1, <2>3, RecordingStep
      <3>2. Grows(disk[g], disk'[g])
        BY <2>1, <2>3, DiskStep DEF Starts, Directory
      <3>3. FinalizedOK(disk'[g], acked[g])
        BY <1>1, <2>1, <3>2, GrowsKeeps, FinalizedKept
      <3> QED BY <1>2, <3>1, <3>3
    <2> QED BY <2>2, <2>3 DEF Next
  <1>3. CASE UNCHANGED acked
    BY <1>2, <1>3
  <1>4. CASE /\ pc = "validate" /\ UNCHANGED <<disk, recording>>
             /\ ValidCurrentRecovery /\ Acknowledge(call.generation, FinalizedAnswer)
    <2>1. call.generation \in Generations /\ recording.generation = NoGeneration
      BY <1>4 DEF ControlOK, TypeOK, Calls, Named
    <2>2. CASE g # call.generation
      <3>1. acked'[g] = acked[g]
        BY <1>1, <1>4, <2>1, <2>2 DEF Acknowledge
      <3> QED BY <1>2, <3>1
    <2>3. CASE g = call.generation
      <3>1. acked'[g] = FinalizedAnswer /\ acked[g] \in Answers
        BY <1>1, <1>4, <2>1, <2>3 DEF Acknowledge
      <3>2. /\ acked'[g].completed = job.completed /\ acked'[g].saved = (call.loss = 0)
            /\ acked'[g].cutoff = call.cutoff
        BY <2>3, <3>1 DEF FinalizedAnswer, Answers
      <3>3. PICK a \in FinalArtifacts(disk[g]) :
               RecoverSession(disk[g]) = Recovered("Finalized", a.completed, LossError(a))
        BY <1>4, <2>3, FinalizedIsValid DEF ValidCurrentRecovery, CurrentRecovery
      <3>4. LossError(a) = IF call.loss = 0 THEN "none" ELSE "records-dropped"
        BY <1>4, <2>3, <3>3, SMTT(30) DEF ValidCurrentRecovery, CurrentRecovery, Recovered
      <3>5. /\ disk[g].unsynced = {} /\ a.completed = job.completed
            /\ RecordsInOrder(disk[g].log, a.length, call.cutoff)
        BY <1>4, <2>3, <3>3 DEF ValidatingOK
      <3>6. RecoverSession(disk[g]) =
               Recovered("Finalized", acked'[g].completed,
                         IF acked'[g].saved THEN "none" ELSE "records-dropped")
        BY <3>2, <3>3, <3>4, <3>5
      <3>7. FinalizedOK(disk[g], acked'[g])
        BY <3>2, <3>3, <3>5, <3>6 DEF FinalizedOK
      <3> QED BY <1>1, <1>4, <2>1, <3>7
    <2> QED BY <2>2, <2>3
  <1>5. CASE /\ pc = "syncDirectory"
             /\ Acknowledge(Directory,
                            [acked[Directory] EXCEPT !.completion = @ \/ NoTornRow])
    <2>1. Directory \in Generations
      BY <1>5 DEF ControlOK, Publishing, TypeOK, Recordings, Named, Directory
    <2>2. CASE g # Directory
      <3>1. acked'[g] = acked[g]
        BY <1>1, <1>5, <2>1, <2>2 DEF Acknowledge
      <3> QED BY <1>2, <3>1
    <2>3. CASE g = Directory
      <3>1. acked'[g] = [acked[g] EXCEPT !.completion = @ \/ NoTornRow] /\ acked[g] \in Answers
        BY <1>1, <1>5, <2>1, <2>3 DEF Acknowledge
      <3>2. acked[g].finalized
        BY <3>1 DEF Answers
      <3> QED BY <2>3, <3>2 DEF FinalizationsOK, Directory
    <2> QED BY <2>2, <2>3
  <1> QED BY <1>3, <1>4, <1>5, AckedStep

\* Every step, a crash included, keeps the evidence of an acknowledged completion.
LEMMA CompletionsStep ==
  ASSUME TypeOK, ControlOK, OrderOK, LiveOK, CallOK, DirectoriesOK, CompletionsOK, TypeOK', Next
  PROVE  CompletionsOK'
  <1> SUFFICES ASSUME NEW g \in Generations, acked'[g].completion
               PROVE  /\ recording'.generation = g => recording'.completionDurable
                      /\ CompletionOK(disk'[g])
    BY DEF CompletionsOK
  <1>1. /\ disk[g] \in Directories /\ disk'[g] \in Directories
        /\ DirectoryOK(disk[g], g \in reached)
        /\ acked \in [Generations -> Answers] /\ g # NoGeneration
    BY GenerationsPositive DEF TypeOK, DirectoriesOK
  <1>2. ASSUME acked[g].completion
        PROVE  /\ recording'.generation = g => recording'.completionDurable
               /\ CompletionOK(disk'[g])
    <2>1. /\ recording.generation = g => recording.completionDurable
          /\ CompletionOK(disk[g]) /\ disk[g] # NoDirectory
      BY <1>2, NothingThere DEF CompletionsOK
    <2>2. CASE Crash
      <3>1. disk'[g] \in SurvivingDirectory(disk[g]) /\ recording'.generation = NoGeneration
        BY <2>2 DEF Crash, NoRecording
      <3>2. /\ disk'[g].unsynced = {} /\ disk'[g].artifacts \subseteq disk[g].artifacts
            /\ disk[g].artifacts \ disk[g].unsynced \subseteq disk'[g].artifacts
            /\ \A a \in disk[g].artifacts : Agree(disk[g].log, disk'[g].log, a.length)
        BY <1>1, <3>1, CrashKeeps
      <3>3. PICK a \in disk[g].artifacts \ disk[g].unsynced :
               /\ a.name # FinalName /\ ValidTerminal(disk[g], a)
               /\ \A b \in disk[g].artifacts : b.name = FinalName \/ b.name >= a.name => b.completed
        BY <2>1 DEF CompletionOK
      <3>4. ValidTerminal(disk'[g], a) /\ a \in disk'[g].artifacts \ disk'[g].unsynced
        BY <3>2, <3>3, AgreeTerminal
      <3>5. CompletionOK(disk'[g])
        BY <3>2, <3>3, <3>4 DEF CompletionOK
      <3> QED BY <1>1, <3>1, <3>5
    <2>3. CASE Producer \/ Caller \/ Actor
      <3>1. recording'.generation = g => recording'.completionDurable
        BY <1>1, <2>1, <2>3, RecordingStep
      <3>2. CASE Grows(disk[g], disk'[g])
        BY <1>1, <2>1, <3>1, <3>2, GrowsKeeps, CompletionKept
      <3>3. CASE /\ g = Directory /\ Publishes(disk[g], disk'[g], PublishedArtifact)
                 /\ PublishedArtifact \notin disk[g].artifacts
        <4>1. PublishedArtifact.completed
          BY <2>1, <3>3 DEF PublishedArtifact, Artifact, Directory
        <4> QED BY <2>1, <3>1, <3>3, <4>1, PublishedCompletion
      <3> QED BY <2>1, <2>3, <3>1, <3>2, <3>3, DiskStep DEF Starts
    <2> QED BY <2>2, <2>3 DEF Next
  <1>3. CASE UNCHANGED acked
    BY <1>2, <1>3
  <1>4. CASE pc = "validate" /\ Acknowledge(call.generation, FinalizedAnswer)
    <2>1. call.generation \in Generations
      BY <1>4 DEF ControlOK, TypeOK, Calls, Named
    <2>2. acked[g].completion
      <3>1. CASE g # call.generation
        BY <1>1, <1>4, <2>1, <3>1 DEF Acknowledge
      <3>2. CASE g = call.generation
        <4>1. acked'[g] = FinalizedAnswer /\ acked[g] \in Answers
          BY <1>1, <1>4, <2>1, <3>2 DEF Acknowledge
        <4> QED BY <3>2, <4>1 DEF FinalizedAnswer, Answers
      <3> QED BY <3>1, <3>2
    <2> QED BY <1>2, <2>2
  <1>5. CASE /\ pc = "syncDirectory" /\ job.op = "completion" /\ UNCHANGED recording
             /\ disk' = [disk EXCEPT ![Directory].unsynced = {}]
             /\ Acknowledge(Directory,
                            [acked[Directory] EXCEPT !.completion = @ \/ NoTornRow])
    <2>1. Directory \in Generations /\ LogOK(recording, Here) /\ FlowOK
      BY <1>5 DEF ControlOK, Publishing, TypeOK, Recordings, Named, Directory, LiveOK
    <2>2. CASE g # Directory
      <3>1. acked'[g] = acked[g]
        BY <1>1, <1>5, <2>1, <2>2 DEF Acknowledge
      <3> QED BY <1>2, <3>1
    <2>3. CASE g = Directory /\ ~acked[g].completion
      <3>1. acked'[g] = [acked[g] EXCEPT !.completion = @ \/ NoTornRow] /\ acked[g] \in Answers
        BY <1>1, <1>5, <2>1, <2>3 DEF Acknowledge
      <3>2. acked'[g].completion = (acked[g].completion \/ NoTornRow)
        BY <3>1 DEF Answers
      <3>3. NoTornRow
        BY <2>3, <3>2
      <3> DEFINE p == PublishedArtifact
      <3>4. /\ p.length = Len(Here.log) /\ p.completed = recording.completionDurable
            /\ p.bias = recording.bias /\ p.name = recording.ordinal
        BY <1>5 DEF PublishedArtifact, Artifact, Log, Here
      <3>5. Here = disk[g] /\ disk'[g] = [disk[g] EXCEPT !.unsynced = {}]
        BY <1>5, <2>1, <2>3 DEF Here, TypeOK
      <3>6. /\ disk'[g].artifacts = Here.artifacts /\ disk'[g].unsynced = {}
            /\ disk'[g].log = Here.log
        BY <1>1, <3>5 DEF Directories
      <3>7. recording.completionDurable /\ recording.ordinal >= 1 /\ recording.ordinal \in Nat
        BY <1>5, <2>1 DEF FlowOK, TypeOK, Recordings
      <3>8. /\ p \in Here.artifacts /\ \A a \in Here.artifacts : a.name = p.name => a = p
            /\ \A a \in Here.artifacts : a.name =< recording.ordinal /\ a.name # FinalName
        BY <1>5, <2>1 DEF FlowOK, FinalArtifacts
      <3> HIDE DEF p
      <3>9. Here.artifacts \subseteq Artifacts /\ Len(Here.log) \in Nat
        <4>1. Here.artifacts \subseteq Artifacts /\ Here.log \in Seq(LogRows)
          BY <1>1, <3>5, DirectoryTypes
        <4> QED BY <4>1, SMTT(30)
      <3>10. ValidTerminal(disk'[g], p)
        BY <2>1, <3>3, <3>4, <3>6, <3>9, SMTT(30) DEF ValidTerminal, LogOK, NoTornRow, Log, Here
      <3>11. \A b \in disk'[g].artifacts : b.name = FinalName \/ b.name >= p.name => b.completed
        <4> SUFFICES ASSUME NEW b \in Here.artifacts, b.name = FinalName \/ b.name >= p.name
                     PROVE  b.completed
          BY <3>6
        <4>1. b.name \in Nat /\ b.name =< recording.ordinal /\ b.name # FinalName
          BY <3>8, <3>9 DEF Artifacts
        <4>2. b.name = p.name
          BY <3>4, <3>7, <4>1, SMTT(30)
        <4>3. b = p
          BY <3>8, <4>2
        <4> QED BY <3>4, <3>7, <4>3
      <3>12. p.name # FinalName
        BY <3>4, <3>7, SMTT(30) DEF FinalName
      <3>13. CompletionOK(disk'[g])
        BY <3>6, <3>8, <3>10, <3>11, <3>12 DEF CompletionOK
      <3> QED BY <1>5, <3>7, <3>13
    <2> QED BY <1>2, <2>2, <2>3
  <1> QED BY <1>3, <1>4, <1>5, AckedStep

\* The actor writes only in the directory of its recording; Prepare alone makes one.
LEMMA OtherDirectories ==
  ASSUME TypeOK, Producer \/ Caller \/ Actor, ~Prepare, NEW g \in Generations, g # Directory
  PROVE  disk'[g] = disk[g]
  <1>0. disk \in [Generations -> Directories]
    BY DEF TypeOK
  <1>1. ASSUME UNCHANGED disk PROVE disk'[g] = disk[g]
    BY <1>1
  <1>2. ASSUME NEW row, WriteRow(row) PROVE disk'[g] = disk[g]
    BY <1>0, <1>2 DEF WriteRow
  <1>3. ASSUME TearRow PROVE disk'[g] = disk[g]
    BY <1>0, <1>3 DEF TearRow
  <1>4. CASE Producer
    BY <1>1, <1>4 DEF Producer, Offer, RecordExternalLoss
  <1>5. CASE Caller
    BY <1>1, <1>5 DEF Caller, CallPrepare, CallRecordControl, CallRecordBiasChange,
       CallMarkCompletion, CallFinalize, CallShutdown, Send
  <1>6. CASE RecordControl
    BY <1>2, <1>3, <1>6 DEF RecordControl
  <1>7. CASE RecordBiasChange
    BY <1>1, <1>2, <1>3, <1>7 DEF RecordBiasChange
  <1>8. CASE MarkCompletion
    BY <1>1, <1>2, <1>3, <1>8 DEF MarkCompletion, WriteCompletion
  <1>9. CASE DrainRecord
    BY <1>1, <1>2, <1>3, <1>9 DEF DrainRecord
  <1>10. CASE Finalizing
    BY <1>1, <1>2, <1>3, <1>10 DEF Finalizing, WriteCompletion
  <1>11. CASE WriteEndEvent
    BY <1>2, <1>3, <1>11 DEF WriteEndEvent
  <1>12. CASE WriteQueued
    BY <1>2, <1>3, <1>12 DEF WriteQueued
  <1>13. CASE Finalize \/ Retire \/ Validate \/ Shutdown \/ PeriodicCheckpoint \/ ControlIdle
              \/ ReceiveData
    BY <1>1, <1>13 DEF Finalize, Retire, Validate, Shutdown, PeriodicCheckpoint, ControlIdle,
       ReceiveData
  <1>14. CASE FlushSyncStreams
    BY <1>0, <1>1, <1>14 DEF FlushSyncStreams
  <1>15. CASE PublishJsonExclusive
    BY <1>0, <1>1, <1>15 DEF PublishJsonExclusive
  <1>16. CASE SyncDirectory
    BY <1>0, <1>1, <1>16 DEF SyncDirectory
  <1> QED BY <1>4, <1>5, <1>6, <1>7, <1>8, <1>9, <1>10, <1>11, <1>12, <1>13, <1>14, <1>15,
             <1>16 DEF Actor

\* The actor answers a command or keeps it; a preparation is kept until it ends.
LEMMA CallKept ==
  ASSUME TypeOK, ControlOK, Actor
  PROVE  \/ call' = NoCall
         \/ call' = call /\ (Preparing \/ Prepare => Preparing')
  <1> USE DEF Preparing
  <1>0. pc \notin Publishing => ~Preparing
    BY SMTT(30) DEF ControlOK, Publishing, FinalOps, NoJob, TypeOK, Rounds
  <1>1. CASE Prepare
    BY <1>1, Begun DEF Prepare, Answer
  <1>2. CASE RecordControl \/ RecordBiasChange \/ MarkCompletion
    <2>1. ~Preparing
      BY <1>0, <1>2 DEF RecordControl, RecordBiasChange, MarkCompletion, Handles, Publishing
    <2>2. call' = NoCall \/ call' = call
      BY <1>2 DEF RecordControl, RecordBiasChange, MarkCompletion, WriteCompletion, Answer
    <2>3. ~Prepare
      BY <1>2 DEF RecordControl, RecordBiasChange, MarkCompletion, Handles, Prepare
    <2> QED BY <2>1, <2>2, <2>3
  <1>3. CASE Finalize \/ DrainRecord \/ Finalizing \/ WriteEndEvent \/ Retire \/ Validate
    <2>1. ~Preparing
      BY <1>0, <1>3 DEF Finalize, DrainRecord, Finalizing, WriteEndEvent, Retire, Validate,
         Handles, Publishing
    <2>2. call' = NoCall \/ call' = call
      BY <1>3 DEF Finalize, DrainRecord, Finalizing, WriteEndEvent, WriteCompletion,
         Retire, Validate, Answer
    <2>3. ~Prepare
      BY <1>3 DEF Finalize, DrainRecord, Finalizing, WriteEndEvent, Retire, Validate,
         Handles, Prepare
    <2> QED BY <2>1, <2>2, <2>3
  <1>4. CASE Shutdown \/ PeriodicCheckpoint \/ ControlIdle \/ ReceiveData \/ WriteQueued
    <2>1. ~Preparing
      BY <1>0, <1>4 DEF Shutdown, PeriodicCheckpoint, ControlIdle, ReceiveData, WriteQueued,
         Publishing
    <2>2. call' = NoCall \/ call' = call
      BY <1>4 DEF Shutdown, PeriodicCheckpoint, ControlIdle, ReceiveData, WriteQueued, Answer
    <2>3. ~Prepare
      BY <1>4, SMTT(30) DEF Shutdown, PeriodicCheckpoint, ControlIdle, ReceiveData, WriteQueued, Prepare,
         NoCall
    <2> QED BY <2>1, <2>2, <2>3
  <1>5. ASSUME PublishFailed PROVE call' = NoCall \/ (call' = call /\ ~Preparing)
    BY <1>5 DEF PublishFailed, Answer
  <1>6. ASSUME PublishDone PROVE call' = NoCall \/ (call' = call /\ ~Preparing)
    BY <1>6 DEF PublishDone, Answer
  <1>7. CASE FlushSyncStreams \/ PublishJsonExclusive \/ SyncDirectory
    <2>1. ~Prepare
      BY <1>7 DEF FlushSyncStreams, PublishJsonExclusive, SyncDirectory, Prepare
    <2> QED BY <1>5, <1>6, <1>7, <2>1 DEF FlushSyncStreams, PublishJsonExclusive, SyncDirectory
  <1> QED BY <1>1, <1>2, <1>3, <1>4, <1>7 DEF Actor

\* Every step keeps what the command under way says.
LEMMA CallStep ==
  ASSUME TypeOK, ControlOK, LiveOK, CallOK, Next
  PROVE  CallOK'
  <1>0. reached \subseteq reached'
    BY AckedStep
  <1>1. CASE Producer
    BY <1>0, <1>1 DEF Producer, Offer, RecordExternalLoss, actorVars, CallOK, Preparing
  <1>2. ASSUME NEW g \in Generations, CallPrepare(g) PROVE CallOK'
    <2>1. disk[g] = NoDirectory
      BY <1>2, GenerationsAssumption, SMTT(30) DEF CallPrepare
    <2>2. call'.kind = "prepare" /\ call'.generation = g /\ UNCHANGED disk
      BY <1>2 DEF CallPrepare, Send, Command, NoCall
    <2> QED BY <2>1, <2>2 DEF CallOK
  <1>3. ASSUME NEW g \in Generations,
               CallRecordControl(g) \/ CallRecordBiasChange(g)
        PROVE  CallOK'
    <2>1. call'.kind \in {"control", "bias"}
      BY <1>3 DEF CallRecordControl, CallRecordBiasChange, Send, Command, NoCall
    <2> QED BY <2>1 DEF CallOK
  <1>4. ASSUME NEW g \in Generations, CallMarkCompletion(g) PROVE CallOK'
    <2>1. call'.kind = "completion" /\ call'.generation = g /\ g \in reached'
      BY <1>4 DEF CallMarkCompletion, Send, Command, NoCall
    <2> QED BY <2>1 DEF CallOK
  <1>5. ASSUME NEW g \in Generations, NEW threshold \in BOOLEAN, CallFinalize(g, threshold)
        PROVE  CallOK'
    <2>1. /\ call'.kind = "finalize" /\ call'.generation = g
          /\ call'.reached => g \in reached'
      BY <1>5 DEF CallFinalize, Send
    <2> QED BY <2>1 DEF CallOK
  <1>6. ASSUME CallShutdown PROVE CallOK'
    <2>1. call'.kind = "shutdown"
      BY <1>6 DEF CallShutdown, Send, Command, NoCall
    <2> QED BY <2>1 DEF CallOK
  <1>7. CASE Crash
    BY <1>7 DEF Crash, CallOK, NoCall
  <1>8. CASE Actor
    <2>1. CASE call' = NoCall
      BY <2>1 DEF CallOK, NoCall
    <2>2. CASE call' = call /\ (Preparing \/ Prepare => Preparing')
      <3>1. ASSUME call.kind = "prepare", ~Preparing'
            PROVE  disk'[call.generation] = NoDirectory
        <4>1. disk[call.generation] = NoDirectory /\ ~Prepare
          BY <2>2, <3>1 DEF CallOK
        <4>2. call.generation \in Generations
          BY <3>1 DEF ControlOK, TypeOK, Calls, Named
        <4>3. call.generation # Directory
          <5>1. recording.generation # NoGeneration => disk[Directory].manifest = "durable"
            BY DEF LiveOK, LogOK, Here
          <5>2. NoDirectory.manifest = "absent"
            BY DEF NoDirectory
          <5> QED BY <4>1, <4>2, <5>1, <5>2, GenerationsPositive DEF Directory
        <4> QED BY <1>8, <4>1, <4>2, <4>3, OtherDirectories
      <3> QED BY <1>0, <2>2, <3>1 DEF CallOK
    <2> QED BY <1>8, <2>1, <2>2, CallKept
  <1> QED BY <1>1, <1>2, <1>3, <1>4, <1>5, <1>6, <1>7, <1>8 DEF Next, Caller

\* The recording that is retired after final.json declares the records up to the
\* cutoff in a durable directory.
LEMMA ValidatingStep ==
  ASSUME TypeOK, ControlOK, OrderOK, ProgressOK, LiveOK, ValidatingOK, Next
  PROVE  ValidatingOK'
  <1> SUFFICES ASSUME pc' = "validate" PROVE ValidatingOK'
    BY DEF ValidatingOK
  <1>1. CASE pc = "validate"
    <2>1. ~Caller /\ ~Crash
      BY <1>1, SMTT(30) DEF ControlOK, NoCall, Caller, CallPrepare, CallRecordControl,
         CallRecordBiasChange, CallMarkCompletion, CallFinalize, CallShutdown, Send, Crash
    <2>2. ~Actor
      BY <1>1 DEF Actor, Prepare, RecordControl, RecordBiasChange, MarkCompletion, Finalize,
         DrainRecord, Finalizing, WriteEndEvent, Retire, Validate, Answer, Shutdown,
         PeriodicCheckpoint, ControlIdle, ReceiveData, WriteQueued, FlushSyncStreams,
         PublishJsonExclusive, SyncDirectory, Handles
    <2>3. UNCHANGED <<pc, call, job, disk>>
      BY <2>1, <2>2 DEF Next, Producer, Offer, RecordExternalLoss, actorVars
    <2> QED BY <2>3 DEF ValidatingOK
  <1>2. CASE pc # "validate"
    <2>1. ~Producer /\ ~Caller /\ ~Crash
      BY <1>2 DEF Producer, Offer, RecordExternalLoss, Caller, CallPrepare, CallRecordControl,
         CallRecordBiasChange, CallMarkCompletion, CallFinalize, CallShutdown, Send, Crash,
         actorVars
    <2>2. ~(Prepare \/ RecordControl \/ RecordBiasChange \/ MarkCompletion \/ Finalize
            \/ Validate \/ Shutdown)
      BY Begun DEF Prepare, RecordControl, RecordBiasChange, MarkCompletion, WriteCompletion,
         Finalize, Validate, Shutdown, Answer
    <2>3. ~(DrainRecord \/ Finalizing \/ WriteEndEvent \/ PeriodicCheckpoint \/ ControlIdle
            \/ ReceiveData \/ WriteQueued)
      BY Begun DEF DrainRecord, Finalizing, WriteCompletion, WriteEndEvent, PeriodicCheckpoint,
         ControlIdle, ReceiveData, WriteQueued
    <2>4. ~PublishFailed /\ ~PublishDone
      BY DEF PublishFailed, PublishDone, Answer
    <2>5. ~(FlushSyncStreams \/ PublishJsonExclusive \/ SyncDirectory)
      BY <2>4 DEF FlushSyncStreams, PublishJsonExclusive, SyncDirectory
    <2>6. Retire
      BY <2>1, <2>2, <2>3, <2>5 DEF Next, Actor
    <2>7. /\ pc = "retire" /\ job.published /\ UNCHANGED <<call, disk>>
          /\ job' = [NoJob EXCEPT !.completed = recording.completionDurable]
      BY <2>6 DEF Retire, Answer
    <2>8. /\ recording.generation # NoGeneration /\ call.generation = recording.generation
          /\ job.op = "final"
      BY <2>7 DEF ControlOK, Closing
    <2>9. job'.completed = recording.completionDurable
      BY <2>7 DEF NoJob
    <2>10. LogOK(recording, Here) /\ FlowOK /\ Here = disk[call.generation]
      BY <2>8 DEF LiveOK, Here, Directory
    <2>11. ~recording.lastError /\ recording.consumed = call.cutoff
      BY <2>7, <2>8, <2>10 DEF FlowOK, FinalOps, ProgressOK
    <2>12. RecordsInOrder(Here.log, Len(Here.log), call.cutoff)
      BY <2>10, <2>11 DEF LogOK
    <2>13. /\ Here.unsynced = {}
           /\ \A a \in FinalArtifacts(Here) :
                 a.length = Len(Here.log) /\ a.completed = recording.completionDurable
      BY <2>7, <2>10 DEF FlowOK
    <2> QED BY <2>7, <2>9, <2>10, <2>12, <2>13 DEF ValidatingOK
  <1> QED BY <1>1, <1>2

=============================================================================
