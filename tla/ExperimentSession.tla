-------------------------- MODULE ExperimentSession --------------------------
(***************************************************************************)
(* The experiment-session reducer, `ExperimentSessionController` in        *)
(* experiment_session.rs: one action per `SessionCommand`, plus the        *)
(* renderer observation that bypasses `apply`.                             *)
(*                                                                         *)
(* Every action is `apply` of one command with a fresh operation token,    *)
(* the current generation and a time `at` that does not regress: the three *)
(* fences in front of `reduce`.  A command that a fence or `reduce` turns  *)
(* down changes nothing here, so it is a stuttering step; what the history *)
(* of operation tokens does with repeated commands is OperationHistory.    *)
(* The `revision` counter is left out: no guard reads it.                  *)
(***************************************************************************)
EXTENDS Integers, Sequences

CONSTANTS Times,          \* elapsed-realtime instants a command may carry
          Thresholds,     \* completion thresholds a client may ask for
          Conditions,     \* condition keys a client may select
          NoCondition,    \* the `None` of `condition`
          MaxGeneration   \* where `generation` saturates (u64::MAX)

ASSUME TimesAssumption == Times \subseteq Nat
ASSUME ThresholdsAssumption == Thresholds \subseteq Nat
ASSUME ConditionsAssumption == NoCondition \notin Conditions
ASSUME GenerationAssumption == MaxGeneration \in Nat \ {0}

VARIABLES preparationMode, phase, controlState, explicitStart, audioPrepared,
          presentation, generation, lastMonotonic, activeSince, activeTime,
          completionThreshold, completion, condition, audioStarted, audioEnded,
          audioError, recordingResult,
          effects,        \* what the last accepted command asks the worker to do
          \* History variables: read by properties, never by an action.
          immersiveTime,  \* time this session spent running and immersive
          issued          \* effects issued for this session, by kind

modeVars    == <<preparationMode>>
timeVars    == <<activeSince, activeTime>>
audioVars   == <<audioStarted, audioEnded, audioError>>
setupVars   == <<explicitStart, completionThreshold, condition>>
historyVars == <<immersiveTime, issued>>
vars == <<preparationMode, phase, controlState, explicitStart, audioPrepared,
          presentation, generation, lastMonotonic, activeSince, activeTime,
          completionThreshold, completion, condition, audioStarted, audioEnded,
          audioError, recordingResult, effects, immersiveTime, issued>>

NoTime == -1

PreparationModes == {"LocalPanel", "RemoteVr"}
SessionPhases == {"Idle", "Preparing", "Active", "FinalizingRestart", "Exiting",
                  "Closed"}
ControlStates == {"Idle", "Arming", "Armed", "Running", "Paused", "Finalizing"}
PresentationStates == {"Experimenter", "Transition", "ImmersiveActive",
                       "Developer", "Unfocused"}
CompletionProgress == {"NotReached", "PersistencePending", "Durable"}
RecordingFailures == {"Prepare", "Finalize", "DataLoss"}

\* RecordingResult: `error` is "none" unless the recording is unsaved.
RecordingResults ==
    [status : {"None", "Saved", "Unsaved"}, completed : BOOLEAN,
     error : RecordingFailures \cup {"none"}]
NoResult == [status |-> "None", completed |-> FALSE, error |-> "none"]
Saved(completed) ==
    [status |-> "Saved", completed |-> completed, error |-> "none"]
Unsaved(completed, error) ==
    [status |-> "Unsaved", completed |-> completed, error |-> error]

\* SessionEffect: `detail` is the event, presentation or stop reason it carries
\* and `reached` the threshold_reached flag of FinalizeRecording.
Effect(kind, detail) == [kind |-> kind, detail |-> detail, reached |-> FALSE]
FinalizeRecording(reason, reached) ==
    [kind |-> "FinalizeRecording", detail |-> reason, reached |-> reached]
TrackedKinds == {"PrepareRecording", "PersistCompletion", "FinalizeRecording",
                 "ShutdownApp"}
Occurs(kind, effs) == \E i \in DOMAIN effs : effs[i].kind = kind

\* Where a session that has ended leaves the participant.
PreparationPresentation ==
    IF preparationMode = "RemoteVr" THEN "Unfocused" ELSE "Experimenter"
ReturnRoute ==
    IF preparationMode = "RemoteVr" THEN "ReturnToPreparation"
                                    ELSE "ShowExperimenter"

-----------------------------------------------------------------------------
Init ==
    /\ preparationMode \in PreparationModes
    /\ phase = "Idle" /\ controlState = "Idle"
    /\ explicitStart = FALSE /\ audioPrepared = FALSE
    /\ presentation = PreparationPresentation
    /\ generation = 0 /\ lastMonotonic = NoTime
    /\ activeSince = NoTime /\ activeTime = 0
    /\ completionThreshold = 0 /\ completion = "NotReached"
    /\ condition = NoCondition
    /\ audioStarted = FALSE /\ audioEnded = FALSE /\ audioError = FALSE
    /\ recordingResult = NoResult
    /\ effects = <<>>
    /\ immersiveTime = 0 /\ issued = [k \in TrackedKinds |-> 0]

-----------------------------------------------------------------------------
\* advance_active_time: credits the interval since `activeSince`, and notices
\* the first crossing of the completion threshold.
Counting == presentation = "ImmersiveActive" /\ controlState = "Running"

Elapsed(at) ==
    IF Counting /\ activeSince # NoTime /\ activeSince =< at
    THEN at - activeSince ELSE 0

\* Mutant: the threshold must be exceeded.
CrossesLate(at) ==
    /\ Counting /\ activeSince # NoTime /\ completion = "NotReached"
    /\ activeTime + Elapsed(at) > completionThreshold

Crosses(at) ==
    /\ Counting /\ activeSince # NoTime /\ activeSince =< at
    /\ completion = "NotReached"
    /\ activeTime + Elapsed(at) >= completionThreshold

\* Mutant: time stops counting once completion is reached.
AdvanceUntilReached(at) ==
    /\ activeTime' = IF completion = "NotReached" THEN activeTime + Elapsed(at)
                                                  ELSE activeTime
    /\ completion' = IF Crosses(at) THEN "PersistencePending" ELSE completion

AdvanceActiveTime(at) ==
    /\ activeTime' = activeTime + Elapsed(at)
    /\ completion' = IF Crosses(at) THEN "PersistencePending" ELSE completion
AdvanceEffects(at) ==
    IF Crosses(at) THEN <<Effect("PersistCompletion", "none")>> ELSE <<>>

SinceAfter(at, counting) == IF counting THEN at ELSE NoTime

\* completion_deadline: when the worker must apply its own Tick.
HasDeadline == /\ phase = "Active" /\ Counting
               /\ completion = "NotReached" /\ activeSince # NoTime

CompletionDeadline ==
    activeSince + (IF completionThreshold > activeTime
                   THEN completionThreshold - activeTime ELSE 0)

\* The accepted half of `apply`: the clock advances to `at` and the outcome
\* carries the effects.  The history variables are kept here.
Accept(at, effs) ==
    /\ lastMonotonic' = at
    /\ effects' = effs
    /\ immersiveTime' = immersiveTime +
           (IF phase = "Active" /\ Counting THEN at - lastMonotonic ELSE 0)
    /\ issued' = [k \in TrackedKinds |->
                     issued[k] + (IF Occurs(k, effs) THEN 1 ELSE 0)]
Fenced(at) == at >= lastMonotonic

-----------------------------------------------------------------------------
\* Arm and Start differ in `explicit` only: Start runs as soon as the recording
\* is prepared, Arm waits for AudioPrepared and OfficialStart.
Arm(at, explicit, c, threshold) ==
    /\ Fenced(at) /\ phase = "Idle" /\ threshold # 0
    /\ generation' = IF generation < MaxGeneration THEN generation + 1
                                                   ELSE MaxGeneration
    /\ phase' = "Preparing" /\ controlState' = "Arming"
    /\ explicitStart' = explicit /\ audioPrepared' = FALSE
    /\ presentation' = "Transition"
    /\ activeSince' = NoTime /\ activeTime' = 0
    /\ completionThreshold' = threshold /\ completion' = "NotReached"
    /\ condition' = c
    /\ audioStarted' = FALSE /\ audioEnded' = FALSE /\ audioError' = FALSE
    /\ recordingResult' = NoResult
    /\ lastMonotonic' = at
    /\ effects' = <<Effect("PrepareRecording", "none")>>
    /\ immersiveTime' = 0
    /\ issued' = [k \in TrackedKinds |-> IF k = "PrepareRecording" THEN 1 ELSE 0]
    /\ UNCHANGED preparationMode

RecordingPrepared(at) ==
    /\ Fenced(at) /\ phase = "Preparing"
    /\ phase' = "Active"
    /\ controlState' = IF explicitStart THEN "Arming" ELSE "Running"
    /\ Accept(at, <<>>)
    /\ UNCHANGED <<modeVars, setupVars, timeVars, audioVars, audioPrepared,
                   presentation, generation, completion, recordingResult>>

RecordingPrepareFailed(at, error) ==
    /\ Fenced(at) /\ phase \in {"Preparing", "Exiting"}
    /\ recordingResult' = Unsaved(FALSE, error)
    /\ controlState' = "Idle"
    /\ \/ /\ phase = "Exiting"
          /\ phase' = "Closed" /\ presentation' = "Unfocused"
          /\ Accept(at, <<Effect("ShutdownApp", "none")>>)
          /\ UNCHANGED condition
       \/ /\ phase = "Preparing"
          /\ phase' = "Idle" /\ presentation' = PreparationPresentation
          /\ condition' = NoCondition
          /\ Accept(at, <<Effect("ResetRuntimeDefaults", "none"),
                          Effect(ReturnRoute, "none")>>)
    /\ UNCHANGED <<modeVars, timeVars, audioVars, audioPrepared, explicitStart,
                   generation, completionThreshold, completion>>

AudioPrepared(at) ==
    /\ Fenced(at) /\ phase = "Active" /\ controlState = "Arming"
    /\ audioPrepared' = TRUE /\ controlState' = "Armed"
    /\ Accept(at, <<Effect("RecordControl", "Armed")>>)
    /\ UNCHANGED <<modeVars, setupVars, timeVars, audioVars, phase, presentation,
                   generation, completion, recordingResult>>

\* OfficialStart and Resume: only from confirmed immersive presentation.
EnterRunning(at, event) ==
    /\ presentation = "ImmersiveActive"
    /\ AdvanceActiveTime(at)
    /\ controlState' = "Running" /\ audioError' = FALSE
    /\ activeSince' = at
    /\ Accept(at, Append(AdvanceEffects(at), Effect("RecordControl", event)))
    /\ UNCHANGED <<modeVars, setupVars, phase, audioPrepared, presentation,
                   generation, audioStarted, audioEnded, recordingResult>>
OfficialStart(at) ==
    /\ Fenced(at) /\ phase = "Active" /\ controlState = "Armed"
    /\ EnterRunning(at, "OfficialStart")
Resume(at) ==
    /\ Fenced(at) /\ phase = "Active" /\ controlState = "Paused" /\ ~audioError
    /\ EnterRunning(at, "ExperimentResumed")
Pause(at) ==
    /\ Fenced(at) /\ phase = "Active" /\ controlState = "Running"
    /\ AdvanceActiveTime(at)
    /\ controlState' = "Paused" /\ activeSince' = NoTime
    /\ Accept(at, Append(AdvanceEffects(at),
                         Effect("RecordControl", "ExperimentPaused")))
    /\ UNCHANGED <<modeVars, setupVars, audioVars, phase, audioPrepared,
                   presentation, generation, recordingResult>>

\* The renderer's or panel's view of what the participant sees.
PresentationChanged(at, p) ==
    /\ Fenced(at)
    /\ presentation' = p
    /\ \/ /\ phase = "Idle" /\ preparationMode = "RemoteVr"
          /\ Accept(at, <<>>)
          /\ UNCHANGED <<timeVars, completion>>
       \/ /\ phase = "Active"
          /\ AdvanceActiveTime(at)
          /\ activeSince' = SinceAfter(at, p = "ImmersiveActive"
                                           /\ controlState = "Running")
          /\ Accept(at, Append(AdvanceEffects(at),
                               Effect("RecordPresentation", p)))
    /\ UNCHANGED <<modeVars, setupVars, audioVars, phase, controlState,
                   audioPrepared, generation, recordingResult>>

\* Renderer observations in waiting, outside `apply`: no clock, no recording.
ObservePreparationPresentation(p) ==
    /\ phase = "Idle" /\ preparationMode = "RemoteVr" /\ presentation # p
    /\ presentation' = p
    /\ UNCHANGED <<modeVars, setupVars, timeVars, audioVars, historyVars, phase,
                   controlState, audioPrepared, generation, lastMonotonic,
                   completion, recordingResult, effects>>

Tick(at) ==
    /\ Fenced(at) /\ phase = "Active"
    /\ AdvanceActiveTime(at)
    /\ activeSince' = SinceAfter(at, Counting)
    /\ Accept(at, AdvanceEffects(at))
    /\ UNCHANGED <<modeVars, setupVars, audioVars, phase, controlState,
                   audioPrepared, presentation, generation, recordingResult>>

\* The audio lifecycle: each row is recorded once per session.
AudioStarted(at) ==
    /\ Fenced(at) /\ phase = "Active"
    /\ AdvanceActiveTime(at)
    /\ activeSince' = SinceAfter(at, Counting)
    /\ audioStarted' = TRUE
    /\ Accept(at, AdvanceEffects(at) \o
           (IF audioStarted THEN <<>>
                            ELSE <<Effect("RecordAudioStarted", "none")>>))
    /\ UNCHANGED <<modeVars, setupVars, audioEnded, audioError, phase,
                   controlState, audioPrepared, presentation, generation,
                   recordingResult>>
AudioEnded(at) ==
    /\ Fenced(at) /\ phase = "Active"
    /\ AdvanceActiveTime(at)
    /\ activeSince' = SinceAfter(at, Counting)
    /\ audioEnded' = TRUE
    /\ Accept(at, AdvanceEffects(at) \o
           (IF audioEnded THEN <<>>
                          ELSE <<Effect("RecordAudioEnded", "none")>>))
    /\ UNCHANGED <<modeVars, setupVars, audioStarted, audioError, phase,
                   controlState, audioPrepared, presentation, generation,
                   recordingResult>>

\* An audio error holds an explicitly started experiment: it pauses it.
AudioError(at) ==
    LET holds == explicitStart /\ controlState = "Running" IN
    /\ Fenced(at) /\ phase = "Active"
    /\ AdvanceActiveTime(at)
    /\ activeSince' = SinceAfter(at, Counting /\ ~holds)
    /\ audioError' = TRUE
    /\ controlState' = IF holds THEN "Paused" ELSE controlState
    /\ Accept(at, AdvanceEffects(at) \o
           (IF audioError THEN <<>>
                          ELSE <<Effect("RecordAudioError", "none")>>) \o
           (IF holds THEN <<Effect("RecordControl", "ExperimentPaused")>>
                     ELSE <<>>))
    /\ UNCHANGED <<modeVars, setupVars, audioStarted, audioEnded, phase,
                   audioPrepared, presentation, generation, recordingResult>>

CompletionDurable(at) ==
    /\ Fenced(at) /\ phase \in {"Active", "FinalizingRestart", "Exiting"}
    /\ completion = "PersistencePending"
    /\ completion' = "Durable"
    /\ Accept(at, <<>>)
    /\ UNCHANGED <<modeVars, setupVars, timeVars, audioVars, phase, controlState,
                   audioPrepared, presentation, generation, recordingResult>>

\* Mutant: the recording is finalized before the completion is persisted.
StopRecordingFirst(at, before, reason) ==
    LET crosses == phase = "Active" /\ Crosses(at) IN
    /\ phase \in {"Preparing", "Active"}
    /\ \/ /\ phase = "Active" /\ AdvanceActiveTime(at)
       \/ /\ phase = "Preparing" /\ UNCHANGED <<activeTime, completion>>
    /\ activeSince' = NoTime
    /\ controlState' = "Finalizing"
    /\ Accept(at, before \o
           <<FinalizeRecording(reason, completion # "NotReached" \/ crosses)>> \o
           (IF crosses THEN AdvanceEffects(at) ELSE <<>>))
    /\ UNCHANGED <<modeVars, setupVars, audioVars, audioPrepared, generation,
                   recordingResult>>

\* A live recording is stopped: time is credited for the last time and exactly
\* one FinalizeRecording follows the PersistCompletion the crossing may need.
StopRecording(at, before, reason) ==
    LET crosses == phase = "Active" /\ Crosses(at) IN
    /\ phase \in {"Preparing", "Active"}
    /\ \/ /\ phase = "Active" /\ AdvanceActiveTime(at)
       \/ /\ phase = "Preparing" /\ UNCHANGED <<activeTime, completion>>
    /\ activeSince' = NoTime
    /\ controlState' = "Finalizing"
    /\ Accept(at, before \o (IF crosses THEN AdvanceEffects(at) ELSE <<>>) \o
           <<FinalizeRecording(reason, completion # "NotReached" \/ crosses)>>)
    /\ UNCHANGED <<modeVars, setupVars, audioVars, audioPrepared, generation,
                   recordingResult>>

RestartToExperimenter(at) ==
    /\ Fenced(at)
    /\ StopRecording(at, <<>>, "RestartToExperimenter")
    /\ phase' = "FinalizingRestart"
    /\ presentation' = IF preparationMode = "LocalPanel" THEN "Experimenter"
                                                         ELSE presentation

\* SaveAndExit and ImmersiveOwnerDestroyed: the same exit, for two reasons.
Exit(at, reason) ==
    LET disarm == <<Effect("DisarmKiosk", "none")>> IN
    /\ Fenced(at)
    /\ \/ /\ phase \in {"Closed", "Exiting"}
          /\ Accept(at, disarm)
          /\ UNCHANGED <<modeVars, setupVars, timeVars, audioVars, phase,
                         controlState, audioPrepared, presentation, generation,
                         completion, recordingResult>>
       \/ /\ phase = "FinalizingRestart"
          /\ phase' = "Exiting" /\ presentation' = "Unfocused"
          /\ Accept(at, disarm)
          /\ UNCHANGED <<modeVars, setupVars, timeVars, audioVars, controlState,
                         audioPrepared, generation, completion, recordingResult>>
       \/ /\ StopRecording(at, disarm, reason)
          /\ phase' = "Exiting" /\ presentation' = "Unfocused"
       \/ /\ phase = "Idle"
          /\ phase' = "Closed" /\ presentation' = "Unfocused"
          /\ activeSince' = NoTime
          /\ Accept(at, Append(disarm, Effect("ShutdownApp", "none")))
          /\ UNCHANGED <<modeVars, setupVars, audioVars, controlState,
                         audioPrepared, generation, activeTime, completion,
                         recordingResult>>
SaveAndExit(at) == Exit(at, "SaveAndExit")
ImmersiveOwnerDestroyed(at) == Exit(at, "InterruptedRecovery")

\* finish_terminal_transition: back to waiting after a restart, else closed.
FinishTerminal(at) ==
    /\ controlState' = "Idle"
    /\ \/ /\ phase = "FinalizingRestart"
          /\ phase' = "Idle"
          /\ presentation' = IF preparationMode = "LocalPanel"
                             THEN "Experimenter" ELSE presentation
          /\ condition' = NoCondition
          /\ completion' = "NotReached" /\ completionThreshold' = 0
          /\ activeTime' = 0
          /\ audioStarted' = FALSE /\ audioEnded' = FALSE /\ audioError' = FALSE
          /\ Accept(at, <<Effect("ResetRuntimeDefaults", "none"),
                          Effect(ReturnRoute, "none")>>)
       \/ /\ phase = "Exiting"
          /\ phase' = "Closed"
          /\ Accept(at, <<Effect("ShutdownApp", "none")>>)
          /\ UNCHANGED <<presentation, condition, completion,
                         completionThreshold, activeTime, audioVars>>
    /\ UNCHANGED <<modeVars, explicitStart, audioPrepared, generation,
                   activeSince>>

RecordingFinalized(at, durable, saved) ==
    /\ Fenced(at)
    /\ (completion # "NotReached") = durable
    /\ recordingResult' = IF saved THEN Saved(durable)
                                   ELSE Unsaved(durable, "DataLoss")
    /\ FinishTerminal(at)
RecordingFinalizationFailed(at, durable, error) ==
    /\ Fenced(at)
    /\ (completion = "Durable") = durable
    /\ recordingResult' = Unsaved(durable, error)
    /\ FinishTerminal(at)

-----------------------------------------------------------------------------
Next ==
    \/ \E p \in PresentationStates : ObservePreparationPresentation(p)
    \/ \E at \in Times :
        \/ \E explicit \in BOOLEAN, c \in Conditions, th \in Thresholds :
              Arm(at, explicit, c, th)
        \/ RecordingPrepared(at)
        \/ \E e \in RecordingFailures : RecordingPrepareFailed(at, e)
        \/ AudioPrepared(at)
        \/ OfficialStart(at) \/ Pause(at) \/ Resume(at)
        \/ \E p \in PresentationStates : PresentationChanged(at, p)
        \/ Tick(at)
        \/ AudioStarted(at) \/ AudioEnded(at) \/ AudioError(at)
        \/ CompletionDurable(at)
        \/ RestartToExperimenter(at)
        \/ SaveAndExit(at) \/ ImmersiveOwnerDestroyed(at)
        \/ \E d, s \in BOOLEAN : RecordingFinalized(at, d, s)
        \/ \E d \in BOOLEAN, e \in RecordingFailures :
              RecordingFinalizationFailed(at, d, e)

Spec == Init /\ [][Next]_vars

-----------------------------------------------------------------------------
\* Type correctness: every field of ExperimentSessionController stays in its
\* Rust type, and the active interval starts within the observed clock.
TypeOK ==
    /\ preparationMode \in PreparationModes
    /\ phase \in SessionPhases
    /\ controlState \in ControlStates
    /\ explicitStart \in BOOLEAN /\ audioPrepared \in BOOLEAN
    /\ presentation \in PresentationStates
    /\ generation \in 0..MaxGeneration
    /\ lastMonotonic \in Nat \cup {NoTime}
    /\ activeSince \in Nat \cup {NoTime}
    /\ activeTime \in Nat
    /\ completionThreshold \in Nat
    /\ completion \in CompletionProgress
    /\ condition \in Conditions \cup {NoCondition}
    /\ audioStarted \in BOOLEAN /\ audioEnded \in BOOLEAN
    /\ audioError \in BOOLEAN
    /\ recordingResult \in RecordingResults
    /\ immersiveTime \in Nat
    /\ issued \in [TrackedKinds -> Nat]

Live == phase \in {"Active", "FinalizingRestart", "Exiting"}

\* The clock of a session is exact: whatever the interleaving of pauses, focus
\* changes, audio errors, ticks and exits, the time credited so far plus the
\* open interval is the time spent running and immersive, and a stopped session
\* has credited all of it (advance_active_time and every reset of active_since).
OpenInterval == IF activeSince = NoTime THEN 0 ELSE lastMonotonic - activeSince
ActiveTimeExact ==
    /\ Live => immersiveTime = activeTime + OpenInterval
    /\ phase # "Active" => activeSince = NoTime

\* Completion is reached exactly when the credited time reaches the threshold
\* the session was started with, in every live phase, the terminal ones
\* included: no command forgets to look, none looks twice.
CompletionMatchesTime ==
    Live => (completion # "NotReached" <=> activeTime >= completionThreshold)

\* Per session the recording is prepared once, finalized at most once and
\* exactly once when the session is stopping (a SaveAndExit that overtakes a
\* restart does not finalize again), completion is persisted once, and the
\* application is shut down exactly when the session is closed.  When one command
\* both crosses the threshold and stops the recording, the worker is told to
\* persist completion before it is told to finalize, and the finalization carries
\* threshold_reached as the session has it afterwards.
RecordingLifecycle ==
    /\ phase \in {"Preparing", "Active"} =>
          issued["PrepareRecording"] = 1 /\ issued["FinalizeRecording"] = 0
    /\ phase \in {"FinalizingRestart", "Exiting"} =>
          issued["PrepareRecording"] = 1 /\ issued["FinalizeRecording"] = 1
    /\ Live => issued["PersistCompletion"] =
                   (IF completion = "NotReached" THEN 0 ELSE 1)
    /\ issued["ShutdownApp"] = (IF phase = "Closed" THEN 1 ELSE 0)
    /\ \A j \in DOMAIN effects : effects[j].kind = "FinalizeRecording" =>
          /\ \A i \in DOMAIN effects : effects[i].kind = "PersistCompletion" => i < j
          /\ phase \in {"FinalizingRestart", "Exiting"}
          /\ effects[j].reached = (completion # "NotReached")

\* The deadline the worker sleeps to is exact: a command at time `at` crosses
\* the threshold if and only if the deadline has passed (completion_deadline
\* against advance_active_time).
DeadlineExact ==
    HasDeadline => \A at \in Times :
        at >= lastMonotonic => (Crosses(at) <=> at >= CompletionDeadline)

\* A session that runs and is seen has an open interval: no command leaves the
\* clock stopped while the participant is in the experiment.
ClockRuns == phase = "Active" => (Counting <=> activeSince # NoTime)

\* An explicitly started experiment only runs with prepared audio and without
\* an unacknowledged audio error: the technical hold cannot be resumed away.
AudioHold ==
    phase = "Active" /\ explicitStart /\ controlState = "Running" =>
        audioPrepared /\ ~audioError

\* Waiting is clean: nothing of an earlier session (its time, completion,
\* condition, audio rows or open interval) is left when the next one may start.
IdleIsClean ==
    phase = "Idle" =>
        /\ controlState = "Idle" /\ condition = NoCondition
        /\ activeSince = NoTime /\ activeTime = 0 /\ completion = "NotReached"
        /\ ~audioStarted /\ ~audioEnded /\ ~audioError

\* A result the session reports tells the truth about the experiment: `completed`
\* in a saved result says that the participant spent the threshold immersed, and
\* an unsaved one never claims a completion that did not happen.
ResultTruthful ==
    [][recordingResult' # recordingResult =>
         /\ recordingResult'.status = "Saved" =>
               (recordingResult'.completed <=> immersiveTime >= completionThreshold)
         /\ recordingResult'.completed => immersiveTime >= completionThreshold]_vars

\* An accepted exit wins: once exiting, a session never returns to waiting, even
\* when the finalization under way was started by a restart, and a closed one
\* never changes its phase or its result again.
ExitIsFinal ==
    [][/\ phase = "Exiting" => phase' \in {"Exiting", "Closed"}
       /\ phase = "Closed" => UNCHANGED <<phase, recordingResult, generation>>]_vars

=============================================================================
