---------------------------- MODULE SessionEffects ----------------------------
(***************************************************************************)
(* The session worker carrying out what the reducer asks for               *)
(* (`process_effects` and its callers in experiment_session_runtime.rs)    *)
(* against a recording backend whose every call may fail.                  *)
(*                                                                         *)
(* The worker is one thread, so `todo` is the rest of the effects of the   *)
(* operation under way.  An effect may apply another command, whose        *)
(* effects are carried out first: they are put in front.  Every error of   *)
(* the recursion is passed on with `?` or returned, so an error drops all  *)
(* of `todo`, the effects of the outer calls included; where the code      *)
(* stops the session before it returns the error, `todo` becomes the       *)
(* effects of the stop alone.  `Cleanup` is the tail of the FinalizeRecording *)
(* arm, which runs only when the nested effects succeed.                   *)
(*                                                                         *)
(* `reconcile_*` and the timed tick apply commands of the reducer like any *)
(* client.  Nested commands carry the time of their operation, which is    *)
(* the reducer's last.  `pending_start` is always there when a start is    *)
(* carried out, and is left out.                                           *)
(***************************************************************************)
EXTENDS ExperimentSession

CONSTANTS Presentations,  \* the presentations clients report
          MaxBias         \* bound on bias decisions in one session

ASSUME PresentationsAssumption == Presentations \subseteq PresentationStates
ASSUME MaxBiasAssumption == MaxBias \in Nat

VARIABLES todo,       \* effects of this operation still to be carried out
          failure,    \* completion_persistence_failure is set
          lane,       \* [gate, active, bridge, bias]: what producers read
          rec,        \* the recording the writer actor holds, or held last
          writer,     \* the writer thread: "up" or "down"
          stopped,    \* stop_after_ack: the worker has left its loop
          uncertain   \* history: a durable write of this session failed

workerVars == <<todo, failure, lane, rec, writer, stopped, uncertain>>
allVars == <<vars, workerVars>>

NoRecording == [generation |-> 0, completed |-> FALSE, fault |-> FALSE,
                loss |-> FALSE, bias |-> 0, finalizes |-> 0]
ClosedLane == [gate |-> 0, active |-> 0, bridge |-> FALSE, bias |-> 0]
Cleanup == Effect("Cleanup", "none")

EffectsInit ==
    /\ Init
    /\ todo = <<>> /\ failure = FALSE /\ lane = ClosedLane
    /\ rec = NoRecording /\ writer = "up"
    /\ stopped = FALSE /\ uncertain = FALSE

Open == rec.generation # 0
LaneIdle == todo = <<>> /\ ~stopped
Rest == Tail(todo)
Head1(kind) == todo # <<>> /\ Head(todo).kind = kind

-----------------------------------------------------------------------------
\* apply_parsed and the worker's own commands: the reducer decides, its effects
\* become the operation.
ClientCommand(at) ==
    \/ AudioPrepared(at)
    \/ OfficialStart(at) \/ Pause(at) \/ Resume(at)
    \/ \E p \in Presentations : PresentationChanged(at, p)
    \/ Tick(at)
    \/ AudioStarted(at) \/ AudioEnded(at) \/ AudioError(at)
    \/ RestartToExperimenter(at)
    \/ SaveAndExit(at) \/ ImmersiveOwnerDestroyed(at)

Command(at) ==
    /\ LaneIdle
    /\ ClientCommand(at)
    /\ todo' = effects'
    /\ UNCHANGED <<failure, lane, rec, writer, stopped, uncertain>>

StartCommand(at) ==
    /\ LaneIdle /\ generation < MaxGeneration
    /\ \E explicit \in BOOLEAN, c \in Conditions, th \in Thresholds :
          Arm(at, explicit, c, th)
    /\ todo' = effects' /\ uncertain' = FALSE
    /\ UNCHANGED <<failure, lane, rec, writer, stopped>>

\* The session is stopped before the error is returned: the stop's effects are
\* all that is left to do.
StopAndFail ==
    /\ failure' = TRUE
    /\ RestartToExperimenter(lastMonotonic)
    /\ todo' = effects'
    /\ uncertain' = TRUE

\* apply_bias_change: the writer commits the decision before the worker applies
\* it.  A failed commit may have reached the file.
BiasChange(at) ==
    /\ LaneIdle /\ Fenced(at) /\ phase = "Active"
    /\ controlState \in {"Armed", "Running", "Paused"} /\ lane.bias < MaxBias
    /\ \/ /\ ~rec.fault
          /\ rec' = [rec EXCEPT !.bias = @ + 1]
          /\ lane' = [lane EXCEPT !.bias = @ + 1]
          /\ UNCHANGED <<vars, todo, failure, uncertain>>
       \/ /\ \E n \in {rec.bias, rec.bias + 1} :
                rec' = [rec EXCEPT !.bias = n, !.fault = TRUE]
          /\ failure' = TRUE /\ uncertain' = TRUE
          /\ RestartToExperimenter(at)
          /\ todo' = effects'
          /\ UNCHANGED lane
    /\ UNCHANGED <<writer, stopped>>

-----------------------------------------------------------------------------
\* PrepareRecording: recovery, guided breath and the writer's own preparation,
\* any of which may fail.  The writer refuses while it still holds a recording.
PrepareOk ==
    /\ ~Open /\ writer = "up"
    /\ rec' = [NoRecording EXCEPT !.generation = generation]
    /\ lane' = [gate |-> generation, active |-> generation, bridge |-> TRUE,
                bias |-> 0]
    /\ RecordingPrepared(lastMonotonic)
    /\ todo' = effects' \o Rest
PrepareFails ==
    /\ lane' = [lane EXCEPT !.active = 0]
    /\ RecordingPrepareFailed(lastMonotonic, "Prepare")
    /\ todo' = effects'
    /\ UNCHANGED rec
DoPrepare ==
    /\ Head1("PrepareRecording")
    /\ PrepareOk \/ PrepareFails
    /\ UNCHANGED <<failure, writer, stopped, uncertain>>

\* offer_control_event: accepted, dropped and counted as loss, or turned away
\* uncounted (the admission lock is busy, or the writer has a fault).
DoOffer ==
    /\ Head1("RecordPresentation") \/ Head1("RecordAudioStarted")
          \/ Head1("RecordAudioEnded") \/ Head1("RecordAudioError")
    /\ \/ ~rec.fault /\ todo' = Rest /\ UNCHANGED rec
       \/ ~rec.fault /\ todo' = <<>> /\ rec' = [rec EXCEPT !.loss = TRUE]
       \/ todo' = <<>> /\ UNCHANGED rec
    /\ UNCHANGED <<vars, failure, lane, writer, stopped, uncertain>>

\* RecordControl: written and checkpointed, or the session is stopped.
\* Mutant: the error is returned and the session runs on.
ControlErrorReturned ==
    /\ Head1("RecordControl")
    /\ \/ todo' = Rest /\ UNCHANGED uncertain
       \/ todo' = <<>> /\ uncertain' = TRUE
    /\ UNCHANGED <<vars, failure, lane, rec, writer, stopped>>

DoRecordControl ==
    /\ Head1("RecordControl")
    /\ \/ todo' = Rest /\ UNCHANGED <<vars, failure, uncertain>>
       \/ StopAndFail
    /\ UNCHANGED <<lane, rec, writer, stopped>>

\* PersistCompletion: a failure outside a stop stops the session; inside one the
\* FinalizeRecording that follows carries on.  A failed checkpoint comes after the
\* writer has set its completion flag.
MaybeCompleted == \E c \in {rec.completed, TRUE} :
                     rec' = [rec EXCEPT !.completed = c]
\* Mutant: during a stop the failure is returned, and the finalization dropped.
CompletionErrorReturned ==
    /\ Head1("PersistCompletion")
    /\ \/ /\ rec' = [rec EXCEPT !.completed = TRUE]
          /\ CompletionDurable(lastMonotonic)
          /\ todo' = effects' \o Rest /\ UNCHANGED <<failure, uncertain>>
       \/ phase = "Active" /\ MaybeCompleted /\ StopAndFail
       \/ /\ phase # "Active" /\ MaybeCompleted
          /\ failure' = TRUE /\ uncertain' = TRUE /\ todo' = <<>>
          /\ UNCHANGED vars
    /\ UNCHANGED <<lane, writer, stopped>>

DoPersistCompletion ==
    /\ Head1("PersistCompletion")
    /\ \/ /\ rec' = [rec EXCEPT !.completed = TRUE]
          /\ CompletionDurable(lastMonotonic)
          /\ todo' = effects' \o Rest
          /\ UNCHANGED <<failure, uncertain>>
       \/ /\ phase = "Active" /\ MaybeCompleted
          /\ StopAndFail
       \/ /\ phase # "Active" /\ MaybeCompleted
          /\ failure' = TRUE /\ uncertain' = TRUE /\ todo' = Rest
          /\ UNCHANGED vars
    /\ UNCHANGED <<lane, writer, stopped>>

-----------------------------------------------------------------------------
\* FinalizeRecording: the gate is closed first.  A finalization the writer
\* admits always lets go of the recording.  It retries a completion that was not
\* persisted.  One it never admits (250 ms of a busy lock) leaves it open.
CloseGate == lane' = [lane EXCEPT !.gate = 0]
Finalized(held) ==
    [rec EXCEPT !.generation = IF held THEN @ ELSE 0, !.finalizes = @ + 1]

\* A reducer that refuses the result ends the operation with an error, and the
\* session stays where it is.
Conclude(result, after) ==
    IF (completion # "NotReached") = result.completed
    THEN /\ RecordingFinalized(lastMonotonic, result.completed, result.saved)
         /\ todo' = effects' \o after
    ELSE todo' = <<>> /\ UNCHANGED vars

\* Mutant: the result of a recording with a failed write is taken as it is.
FinalizeOkUnchecked ==
    /\ Open /\ ~rec.fault
    /\ rec' = [Finalized(FALSE) EXCEPT !.completed = @ \/ Head(todo).reached]
    /\ failure' = FALSE
    /\ Conclude([completed |-> rec'.completed, saved |-> ~rec.loss],
                <<Cleanup>> \o Rest)

FinalizeOk ==
    /\ Open /\ ~rec.fault
    /\ rec' = [Finalized(FALSE) EXCEPT !.completed = @ \/ Head(todo).reached]
    /\ failure' = FALSE
    /\ IF failure
       THEN /\ RecordingFinalizationFailed(lastMonotonic,
                                           completion = "Durable", "DataLoss")
            /\ todo' = effects' \o <<Cleanup>>
       ELSE Conclude([completed |-> rec'.completed, saved |-> ~rec.loss],
                     <<Cleanup>> \o Rest)

FinalizeFails ==
    /\ \E held \in {FALSE, Open} : rec' = Finalized(held)
    /\ failure' = FALSE
    /\ RecordingFinalizationFailed(lastMonotonic, completion = "Durable",
                                   "Finalize")
    /\ todo' = effects' \o <<Cleanup>>
DoFinalize ==
    /\ Head1("FinalizeRecording")
    /\ CloseGate
    /\ FinalizeOk \/ FinalizeFails
    /\ UNCHANGED <<writer, stopped, uncertain>>

\* Mutant: the lane keeps the generation that was finalized.
CleanupKeepsGeneration ==
    /\ Head1("Cleanup")
    /\ lane' = [lane EXCEPT !.bridge = FALSE, !.bias = 0]
    /\ todo' = Rest
    /\ UNCHANGED <<vars, failure, rec, writer, stopped, uncertain>>

DoCleanup ==
    /\ Head1("Cleanup")
    /\ lane' = [lane EXCEPT !.active = 0, !.bridge = FALSE, !.bias = 0]
    /\ todo' = Rest
    /\ UNCHANGED <<vars, failure, rec, writer, stopped, uncertain>>

\* Kiosk, defaults and routes: nothing here can fail or changes this state.
DoRoute ==
    /\ \/ Head1("DisarmKiosk") \/ Head1("ResetRuntimeDefaults")
       \/ Head1("ShowExperimenter") \/ Head1("ReturnToPreparation")
    /\ todo' = Rest
    /\ UNCHANGED <<vars, failure, lane, rec, writer, stopped, uncertain>>

\* ShutdownApp: the writer is joined, unless it refuses because it still holds a
\* recording, or the join fails.
DoShutdown ==
    /\ Head1("ShutdownApp")
    /\ writer' = "down"
    /\ \/ ~Open /\ stopped' = TRUE /\ todo' = Rest
       \/ UNCHANGED stopped /\ todo' = <<>>
    /\ UNCHANGED <<vars, failure, lane, rec, uncertain>>

\* run_actor: a queued write or a periodic checkpoint fails on the writer thread.
WriterFault ==
    /\ Open /\ ~rec.fault
    /\ rec' = [rec EXCEPT !.fault = TRUE]
    /\ UNCHANGED <<vars, todo, failure, lane, writer, stopped, uncertain>>

EffectsNext ==
    \/ \E at \in Times : Command(at) \/ StartCommand(at) \/ BiasChange(at)
    \/ DoPrepare \/ DoOffer \/ DoRecordControl \/ DoPersistCompletion
    \/ DoFinalize \/ DoCleanup \/ DoRoute \/ DoShutdown
    \/ WriterFault

EffectsSpec == EffectsInit /\ [][EffectsNext]_allVars

-----------------------------------------------------------------------------
\* However the backend fails, an operation ends with the session waiting,
\* running or closed: no dropped effect leaves it preparing or finalizing, where
\* no command could bring it out again (the early returns of process_effects).
\* A failure remembered for the finalization does not outlive the operation,
\* where it would turn the next session's saved recording into a lost one.
NeverStuck == todo = <<>> => phase \in {"Idle", "Active", "Closed"} /\ ~failure

\* Between operations a running session has the writer's recording of its own
\* generation, never one the writer kept after a refused finalization, and
\* everything its producers need; a waiting one has neither gate, generation,
\* clock nor bias left of an earlier session.  At any time a bias is applied only
\* once the writer has committed it ("committed-before-application").
LaneFollowsSession ==
    /\ todo = <<>> =>
        /\ phase = "Active" =>
              /\ rec.generation = generation /\ rec.finalizes = 0
              /\ lane.gate = generation /\ lane.active = generation /\ lane.bridge
        /\ phase = "Idle" => lane = ClosedLane
    /\ phase = "Active" => /\ lane.bias =< rec.bias
                           /\ ~uncertain => lane.bias = rec.bias

\* "An uncertain control checkpoint must never leave an apparently running
\* experiment": once a control row, completion or bias decision may not be
\* durable, the session is over when the operation ends, reported unsaved.
UncertainEndsTheSession ==
    uncertain /\ todo = <<>> => /\ phase # "Active"
                                /\ recordingResult.status = "Unsaved"

\* A session is reported saved only if every durable write of it succeeded, the
\* writer counted no loss, and the completion it claims is in the recording.
SavedIsWhole ==
    recordingResult.status = "Saved" =>
        /\ ~uncertain /\ ~rec.loss /\ ~Open
        /\ rec.completed = recordingResult.completed

=============================================================================
