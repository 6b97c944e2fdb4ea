----------------------- MODULE ExperimentSessionProofs -----------------------
(***************************************************************************)
(* Proofs about the experiment-session reducer and about the worker that   *)
(* carries its effects out, for every set of instants, thresholds and      *)
(* conditions.  The reducer's own theorems come first; the second half     *)
(* shows that reducer and worker together behave as the reducer alone, and *)
(* what a failing effect leaves behind.                                    *)
(***************************************************************************)
EXTENDS SessionEffects, TLAPS

\* The prover of every leaf that does not name another one.
USE ZenonT(30)

\* What the three time invariants need to be inductive: the open interval lies
\* in the past, the clock is known once a session exists, and a session that is
\* still preparing has accumulated nothing and is not yet seen.
ClockKnown ==
    /\ activeSince # NoTime => activeSince =< lastMonotonic
    /\ phase # "Idle" => lastMonotonic # NoTime
FreshWhilePreparing ==
    phase = "Preparing" =>
        /\ activeTime = 0 /\ immersiveTime = 0 /\ completion = "NotReached"
        /\ presentation = "Transition"
ThresholdKept ==
    phase \in {"Preparing", "Active", "FinalizingRestart", "Exiting"} =>
        completionThreshold > 0
TimeInv ==
    /\ TypeOK /\ ClockKnown /\ FreshWhilePreparing /\ ThresholdKept
    /\ ClockRuns /\ ActiveTimeExact /\ CompletionMatchesTime

USE DEF NoTime

\* Nothing is open: the credited time is all of it.
LEMMA PlusZero == \A n \in Nat : n + 0 = n
  BY SMTT(30)

\* The initial state of with_preparation_mode satisfies the time invariant.
LEMMA InitTimeInv == Init => TimeInv
  <1> SUFFICES ASSUME Init PROVE TimeInv
    OBVIOUS
  <1>1. recordingResult \in RecordingResults
    BY DEF Init, RecordingResults, NoResult
  <1>2. presentation \in PresentationStates
    BY DEF Init, PreparationPresentation, PresentationStates
  <1>3. generation \in 0..MaxGeneration
    BY GenerationAssumption, SMTT(30) DEF Init
  <1>4. TypeOK
    BY <1>1, <1>2, <1>3 DEF Init, TypeOK, PreparationModes, SessionPhases,
       ControlStates, CompletionProgress
  <1> QED
    BY <1>4 DEF Init, TimeInv, ClockKnown, FreshWhilePreparing, ThresholdKept,
       ClockRuns, ActiveTimeExact, CompletionMatchesTime, Live, OpenInterval

\* Every command keeps the history counters natural numbers.
LEMMA AcceptTyped ==
  ASSUME TypeOK, NEW at \in Nat, Fenced(at), lastMonotonic # NoTime \/ ~Live,
         NEW effs, Accept(at, effs)
  PROVE  /\ lastMonotonic' \in Nat /\ lastMonotonic' = at
         /\ immersiveTime' \in Nat /\ issued' \in [TrackedKinds -> Nat]
         /\ immersiveTime' = immersiveTime +
              (IF phase = "Active" /\ Counting THEN at - lastMonotonic ELSE 0)
  BY SMTT(30) DEF TypeOK, Fenced, Accept, Live

\* A command that advances an active session credits everything up to `at`, and
\* completion follows the credited time (advance_active_time).
LEMMA AdvanceExact ==
  ASSUME TimeInv, phase = "Active", NEW at \in Nat, Fenced(at),
         AdvanceActiveTime(at), NEW effs, Accept(at, effs)
  PROVE  /\ activeTime' \in Nat /\ completion' \in CompletionProgress
         /\ immersiveTime' = activeTime'
         /\ completion' # "NotReached" <=> activeTime' >= completionThreshold
  <1>1. immersiveTime' = immersiveTime +
              (IF phase = "Active" /\ Counting THEN at - lastMonotonic ELSE 0)
    BY AcceptTyped DEF TimeInv, ClockKnown
  <1>2. /\ lastMonotonic \in Nat /\ lastMonotonic =< at
        /\ activeTime \in Nat /\ completionThreshold \in Nat
        /\ completion \in CompletionProgress
        /\ activeSince \in Nat \cup {NoTime}
        /\ Counting <=> activeSince # NoTime
        /\ activeSince # NoTime => activeSince =< lastMonotonic
        /\ immersiveTime = activeTime + OpenInterval
        /\ completion # "NotReached" <=> activeTime >= completionThreshold
    BY DEF TimeInv, TypeOK, ClockKnown, ClockRuns, ActiveTimeExact,
       CompletionMatchesTime, Live, Fenced
  <1>3. activeTime' = immersiveTime'
    BY <1>1, <1>2, SMTT(30) DEF AdvanceActiveTime, Elapsed, OpenInterval
  <1>4. activeTime' \in Nat
    BY <1>2, SMTT(30) DEF AdvanceActiveTime, Elapsed
  <1>5. completion' \in CompletionProgress
    BY <1>2 DEF AdvanceActiveTime, CompletionProgress
  <1>6. completion' # "NotReached" <=> activeTime' >= completionThreshold
    BY <1>2, SMTT(30) DEF AdvanceActiveTime, Elapsed, Crosses
  <1> QED
    BY <1>3, <1>4, <1>5, <1>6

\* What an action of an active session has to show for the time invariant.
LEMMA ActiveStep ==
  ASSUME TimeInv, phase = "Active", NEW at \in Nat, Fenced(at),
         AdvanceActiveTime(at), NEW effs, Accept(at, effs),
         phase' \in {"Active", "FinalizingRestart", "Exiting"},
         controlState' \in ControlStates, presentation' \in PresentationStates,
         activeSince' = IF phase' = "Active" /\ Counting' THEN at ELSE NoTime,
         audioPrepared' \in BOOLEAN, audioStarted' \in BOOLEAN,
         audioEnded' \in BOOLEAN, audioError' \in BOOLEAN,
         UNCHANGED <<modeVars, setupVars, generation, recordingResult>>
  PROVE  TimeInv'
  <1>1. /\ activeTime' \in Nat /\ completion' \in CompletionProgress
        /\ immersiveTime' = activeTime'
        /\ completion' # "NotReached" <=> activeTime' >= completionThreshold
    BY AdvanceExact
  <1>2. /\ lastMonotonic' \in Nat /\ lastMonotonic' = at
        /\ immersiveTime' \in Nat /\ issued' \in [TrackedKinds -> Nat]
    BY AcceptTyped DEF TimeInv, ClockKnown
  <1>3. phase' \in SessionPhases
    BY DEF SessionPhases
  <1>4. TypeOK'
    BY <1>1, <1>2, <1>3 DEF TimeInv, TypeOK, modeVars, setupVars
  <1>5. ClockKnown' /\ FreshWhilePreparing'
    BY <1>2, SMTT(30) DEF ClockKnown, FreshWhilePreparing
  <1>6. completionThreshold' = completionThreshold /\ completionThreshold > 0
    BY DEF TimeInv, ThresholdKept, setupVars
  <1>7. ClockRuns' /\ ThresholdKept'
    BY <1>6, SMTT(30) DEF ClockRuns, ThresholdKept
  <1>8. ActiveTimeExact'
    <2>1. OpenInterval' = 0
      BY <1>2, SMTT(30) DEF OpenInterval
    <2>2. phase' # "Active" => activeSince' = NoTime
      OBVIOUS
    <2>3. immersiveTime' = activeTime' + 0
      BY <1>1, PlusZero
    <2> QED
      BY <2>1, <2>2, <2>3 DEF ActiveTimeExact
  <1>9. CompletionMatchesTime'
    BY <1>1, <1>6 DEF CompletionMatchesTime, Live
  <1> QED
    BY <1>4, <1>5, <1>7, <1>8, <1>9 DEF TimeInv

\* What a command outside an active session has to show: it leaves the clock
\* stopped and its time alone.
LEMMA StoppedStep ==
  ASSUME TimeInv, phase # "Active", NEW at \in Nat, Fenced(at),
         NEW effs, Accept(at, effs),
         phase' \in SessionPhases, phase' # "Preparing",
         phase' \in {"FinalizingRestart", "Exiting"} =>
             phase \in {"Preparing", "FinalizingRestart", "Exiting"},
         phase' # "Active", controlState' \in ControlStates,
         presentation' \in PresentationStates,
         completion' \in CompletionProgress,
         completion' = completion \/ (phase' \notin {"FinalizingRestart", "Exiting"})
             \/ (completion # "NotReached" /\ completion' # "NotReached"),
         condition' \in Conditions \cup {NoCondition},
         (activeTime' = activeTime /\ completionThreshold' = completionThreshold)
             \/ (activeTime' = 0 /\ completionThreshold' = 0 /\ phase' = "Idle"),
         audioStarted' \in BOOLEAN, audioEnded' \in BOOLEAN,
         audioError' \in BOOLEAN, recordingResult' \in RecordingResults,
         activeSince' = NoTime,
         UNCHANGED <<modeVars, explicitStart, audioPrepared, generation>>
  PROVE  TimeInv'
  <1>1. /\ lastMonotonic' \in Nat /\ lastMonotonic' = at
        /\ immersiveTime' \in Nat /\ issued' \in [TrackedKinds -> Nat]
        /\ immersiveTime' = immersiveTime + 0
    BY AcceptTyped DEF TimeInv, ClockKnown, Live
  <1>2. TypeOK'
    BY <1>1, SMTT(30) DEF TimeInv, TypeOK, modeVars
  <1>3. ClockKnown' /\ FreshWhilePreparing' /\ ClockRuns'
    BY <1>1, SMTT(30) DEF ClockKnown, FreshWhilePreparing, ClockRuns
  <1>4. CASE phase' \in {"FinalizingRestart", "Exiting"}
    <2>1. /\ activeTime' = activeTime /\ completionThreshold' = completionThreshold
          /\ completion' # "NotReached" <=> completion # "NotReached"
          /\ phase \in {"Preparing", "FinalizingRestart", "Exiting"}
      BY <1>4
    <2>2. /\ activeTime \in Nat /\ immersiveTime = activeTime + 0
          /\ completionThreshold \in Nat /\ completionThreshold > 0
          /\ completion # "NotReached" <=> activeTime >= completionThreshold
      BY <2>1, SMTT(30) DEF TimeInv, TypeOK, ActiveTimeExact, OpenInterval, Live,
         FreshWhilePreparing, ThresholdKept, CompletionMatchesTime
    <2>3. OpenInterval' = 0
      BY DEF OpenInterval
    <2>4. immersiveTime' = activeTime' + 0
      BY <1>1, <2>1, <2>2, SMTT(30)
    <2>5. ActiveTimeExact'
      BY <2>3, <2>4 DEF ActiveTimeExact
    <2>6. CompletionMatchesTime' /\ ThresholdKept'
      BY <2>1, <2>2 DEF CompletionMatchesTime, ThresholdKept
    <2> QED
      BY <1>2, <1>3, <2>5, <2>6 DEF TimeInv
  <1>5. CASE phase' \notin {"FinalizingRestart", "Exiting"}
    BY <1>2, <1>3, <1>5 DEF TimeInv, ActiveTimeExact, CompletionMatchesTime,
       ThresholdKept, Live
  <1> QED
    BY <1>4, <1>5

\* Stopping a live recording keeps the time invariant.
LEMMA StopStep ==
  ASSUME TimeInv, NEW at \in Nat, Fenced(at), NEW before, NEW reason,
         StopRecording(at, before, reason),
         phase' \in {"FinalizingRestart", "Exiting"},
         presentation' \in PresentationStates
  PROVE  TimeInv'
  <1>1. /\ phase \in {"Preparing", "Active"} /\ activeSince' = NoTime
        /\ controlState' \in ControlStates
        /\ UNCHANGED <<modeVars, setupVars, audioVars, audioPrepared, generation,
                       recordingResult>>
    BY DEF StopRecording, ControlStates
  <1>2. PICK effs : Accept(at, effs)
    BY DEF StopRecording
  <1>3. /\ audioPrepared' \in BOOLEAN /\ audioStarted' \in BOOLEAN
        /\ audioEnded' \in BOOLEAN /\ audioError' \in BOOLEAN
    BY <1>1 DEF TimeInv, TypeOK, audioVars
  <1>4. CASE phase = "Active"
    <2>1. AdvanceActiveTime(at)
      BY <1>4 DEF StopRecording
    <2> QED
      BY <1>1, <1>2, <1>3, <1>4, <2>1, ActiveStep
  <1>5. CASE phase = "Preparing"
    <2>1. UNCHANGED <<activeTime, completion>>
      BY <1>5 DEF StopRecording
    <2>2. /\ condition' \in Conditions \cup {NoCondition}
          /\ completion' \in CompletionProgress
          /\ completionThreshold' = completionThreshold
          /\ recordingResult' \in RecordingResults
          /\ phase' \in SessionPhases
          /\ UNCHANGED <<modeVars, explicitStart, audioPrepared, generation>>
      BY <1>1, <2>1 DEF TimeInv, TypeOK, setupVars, SessionPhases
    <2> QED
      BY <1>1, <1>2, <1>3, <1>5, <2>1, <2>2, StoppedStep
  <1> QED
    BY <1>1, <1>4, <1>5

\* A finalization that ends keeps the time invariant.
LEMMA FinishStep ==
  ASSUME TimeInv, NEW at \in Nat, Fenced(at), FinishTerminal(at),
         recordingResult' \in RecordingResults
  PROVE  TimeInv'
  <1>1. /\ phase \in {"FinalizingRestart", "Exiting"}
        /\ phase' \in {"Idle", "Closed"} /\ phase' \in SessionPhases
        /\ controlState' \in ControlStates
        /\ presentation' \in PresentationStates
        /\ completion' \in CompletionProgress
        /\ condition' \in Conditions \cup {NoCondition}
    BY DEF FinishTerminal, TimeInv, TypeOK, SessionPhases, ControlStates,
       PresentationStates, CompletionProgress
  <1>2. /\ \/ activeTime' = activeTime /\ completionThreshold' = completionThreshold
           \/ activeTime' = 0 /\ completionThreshold' = 0 /\ phase' = "Idle"
        /\ audioStarted' \in BOOLEAN /\ audioEnded' \in BOOLEAN
        /\ audioError' \in BOOLEAN
        /\ UNCHANGED <<modeVars, explicitStart, audioPrepared, generation>>
    BY DEF FinishTerminal, TimeInv, TypeOK, audioVars
  <1>3. activeSince' = NoTime
    BY <1>1 DEF FinishTerminal, TimeInv, ActiveTimeExact
  <1>4. PICK effs : Accept(at, effs)
    BY DEF FinishTerminal
  <1> QED
    BY <1>1, <1>2, <1>3, <1>4, StoppedStep

\* A command of an active session that neither advances nor stops the clock:
\* the open interval grows by what the history variable counts.
LEMMA QuietStep ==
  ASSUME TimeInv, phase = "Active", NEW at \in Nat, Fenced(at),
         NEW effs, Accept(at, effs), phase' = "Active",
         controlState' \in ControlStates, Counting' <=> Counting,
         audioPrepared' \in BOOLEAN, completion' \in CompletionProgress,
         completion' # "NotReached" <=> completion # "NotReached",
         UNCHANGED <<modeVars, setupVars, timeVars, audioVars, presentation,
                     generation, recordingResult>>
  PROVE  TimeInv'
  <1>1. /\ lastMonotonic' \in Nat /\ lastMonotonic' = at
        /\ immersiveTime' \in Nat /\ issued' \in [TrackedKinds -> Nat]
        /\ immersiveTime' = immersiveTime +
             (IF phase = "Active" /\ Counting THEN at - lastMonotonic ELSE 0)
    BY AcceptTyped DEF TimeInv, ClockKnown
  <1>2. TypeOK'
    BY <1>1 DEF TimeInv, TypeOK, modeVars, setupVars, timeVars, audioVars
  <1>3. /\ lastMonotonic \in Nat /\ lastMonotonic =< at
        /\ activeTime \in Nat /\ activeSince \in Nat \cup {NoTime}
        /\ Counting <=> activeSince # NoTime
        /\ activeSince # NoTime => activeSince =< lastMonotonic
        /\ immersiveTime = activeTime + OpenInterval
        /\ completionThreshold \in Nat /\ completionThreshold > 0
        /\ completion # "NotReached" <=> activeTime >= completionThreshold
    BY DEF TimeInv, TypeOK, ClockKnown, ClockRuns, ActiveTimeExact, Live,
       CompletionMatchesTime, ThresholdKept, Fenced
  <1>4. /\ activeSince' = activeSince /\ activeTime' = activeTime
        /\ completionThreshold' = completionThreshold
    BY DEF timeVars, setupVars
  <1>5. immersiveTime' = activeTime + (IF activeSince = NoTime THEN 0
                                                     ELSE at - activeSince)
    BY <1>1, <1>3, SMTT(30) DEF OpenInterval
  <1>6. ActiveTimeExact'
    BY <1>1, <1>4, <1>5 DEF ActiveTimeExact, OpenInterval
  <1>7. ClockKnown' /\ FreshWhilePreparing' /\ ThresholdKept' /\ ClockRuns'
    BY <1>1, <1>3, <1>4, SMTT(30) DEF ClockKnown, FreshWhilePreparing, ThresholdKept,
       ClockRuns
  <1>8. CompletionMatchesTime'
    BY <1>3, <1>4 DEF CompletionMatchesTime
  <1> QED
    BY <1>2, <1>6, <1>7, <1>8 DEF TimeInv

\* Both ways of exiting keep the time invariant.
LEMMA ExitStep ==
  ASSUME TimeInv, NEW at \in Nat, NEW reason, Exit(at, reason)
  PROVE  TimeInv'
  <1>1. Fenced(at)
    BY DEF Exit
  <1>2. CASE phase \in {"Preparing", "Active"}
    <2>1. PICK before : StopRecording(at, before, reason)
      BY <1>2 DEF Exit
    <2>2. /\ phase' \in {"FinalizingRestart", "Exiting"}
          /\ presentation' \in PresentationStates
      BY <1>2 DEF Exit, PresentationStates
    <2> QED
      BY <1>1, <2>1, <2>2, StopStep
  <1>3. CASE phase \notin {"Preparing", "Active"}
    <2>1. /\ phase' \in SessionPhases /\ phase' \notin {"Preparing", "Active"}
          /\ phase' \in {"FinalizingRestart", "Exiting"} =>
                phase \in {"FinalizingRestart", "Exiting"}
          /\ controlState' = controlState /\ completion' = completion
          /\ presentation' \in PresentationStates
          /\ activeTime' = activeTime
          /\ UNCHANGED <<modeVars, setupVars, audioVars, audioPrepared,
                         generation, recordingResult>>
      BY <1>3 DEF Exit, StopRecording, SessionPhases, PresentationStates,
         timeVars, TimeInv, TypeOK
    <2>2. activeSince' = NoTime
      BY <1>3 DEF Exit, StopRecording, timeVars, TimeInv, ActiveTimeExact
    <2>3. PICK effs : Accept(at, effs)
      BY <1>3 DEF Exit, StopRecording
    <2>4. /\ controlState' \in ControlStates
          /\ completion' \in CompletionProgress
          /\ completionThreshold' = completionThreshold
          /\ condition' \in Conditions \cup {NoCondition}
          /\ audioStarted' \in BOOLEAN /\ audioEnded' \in BOOLEAN
          /\ audioError' \in BOOLEAN /\ recordingResult' \in RecordingResults
          /\ UNCHANGED <<modeVars, explicitStart, audioPrepared, generation>>
      BY <2>1 DEF TimeInv, TypeOK, audioVars, setupVars
    <2> QED
      BY <1>1, <1>3, <2>1, <2>2, <2>3, <2>4, StoppedStep
  <1> QED
    BY <1>2, <1>3

\* Every command keeps the time invariant.
LEMMA TimeInvStep == TimeInv /\ [Next]_vars => TimeInv'
  <1> SUFFICES ASSUME TimeInv, [Next]_vars PROVE TimeInv'
    OBVIOUS
  <1> USE TimesAssumption, ThresholdsAssumption
  <1>1. ASSUME NEW p \in PresentationStates, ObservePreparationPresentation(p)
        PROVE  TimeInv'
    BY <1>1 DEF ObservePreparationPresentation, TimeInv, TypeOK, ClockKnown,
       FreshWhilePreparing, ThresholdKept, ClockRuns, ActiveTimeExact,
       CompletionMatchesTime, Live, OpenInterval, modeVars, setupVars, timeVars,
       audioVars, historyVars
  <1>2. ASSUME NEW at \in Times, NEW explicit \in BOOLEAN, NEW c \in Conditions,
               NEW th \in Thresholds, Arm(at, explicit, c, th)
        PROVE  TimeInv'
    <2>1. recordingResult' \in RecordingResults
      BY <1>2 DEF Arm, RecordingResults, NoResult
    <2>2. generation' \in 0..MaxGeneration
      BY <1>2, GenerationAssumption, SMTT(30) DEF Arm, TimeInv, TypeOK
    <2>3. issued' \in [TrackedKinds -> Nat]
      BY <1>2 DEF Arm
    <2>4. TypeOK'
      BY <1>2, <2>1, <2>2, <2>3 DEF Arm, TimeInv, TypeOK, SessionPhases,
         ControlStates, PresentationStates, CompletionProgress
    <2> QED
      BY <1>2, <2>4, SMTT(30) DEF Arm, TimeInv, ClockKnown, FreshWhilePreparing,
         ThresholdKept, ClockRuns, ActiveTimeExact, CompletionMatchesTime, Live
  <1>3. ASSUME NEW at \in Times, Pause(at)
        PROVE  TimeInv'
    <2>1. at \in Nat /\ Fenced(at) /\ phase = "Active" /\ AdvanceActiveTime(at)
      BY <1>3 DEF Pause
    <2>2. /\ phase' = "Active" /\ controlState' \in ControlStates
          /\ presentation' \in PresentationStates
          /\ activeSince' = IF Counting' THEN at ELSE NoTime
      BY <1>3, <2>1 DEF Pause, ControlStates, Counting, SinceAfter,
         TimeInv, TypeOK
    <2>3. /\ audioPrepared' \in BOOLEAN /\ audioStarted' \in BOOLEAN
          /\ audioEnded' \in BOOLEAN /\ audioError' \in BOOLEAN
          /\ UNCHANGED <<modeVars, setupVars, generation, recordingResult>>
      BY <1>3 DEF Pause, TimeInv, TypeOK, audioVars
    <2>4. PICK effs : Accept(at, effs)
      BY <1>3 DEF Pause
    <2> QED
      BY <2>1, <2>2, <2>3, <2>4, ActiveStep
  <1>4. ASSUME NEW at \in Times, OfficialStart(at)
        PROVE  TimeInv'
    <2>1. at \in Nat /\ Fenced(at) /\ phase = "Active" /\ AdvanceActiveTime(at)
      BY <1>4 DEF OfficialStart, EnterRunning
    <2>2. /\ phase' = "Active" /\ controlState' \in ControlStates
          /\ presentation' \in PresentationStates
          /\ activeSince' = IF Counting' THEN at ELSE NoTime
      BY <1>4, <2>1 DEF OfficialStart, EnterRunning, ControlStates, Counting, SinceAfter,
         TimeInv, TypeOK
    <2>3. /\ audioPrepared' \in BOOLEAN /\ audioStarted' \in BOOLEAN
          /\ audioEnded' \in BOOLEAN /\ audioError' \in BOOLEAN
          /\ UNCHANGED <<modeVars, setupVars, generation, recordingResult>>
      BY <1>4 DEF OfficialStart, EnterRunning, TimeInv, TypeOK, audioVars
    <2>4. PICK effs : Accept(at, effs)
      BY <1>4 DEF OfficialStart, EnterRunning
    <2> QED
      BY <2>1, <2>2, <2>3, <2>4, ActiveStep
  <1>5. ASSUME NEW at \in Times, Resume(at)
        PROVE  TimeInv'
    <2>1. at \in Nat /\ Fenced(at) /\ phase = "Active" /\ AdvanceActiveTime(at)
      BY <1>5 DEF Resume, EnterRunning
    <2>2. /\ phase' = "Active" /\ controlState' \in ControlStates
          /\ presentation' \in PresentationStates
          /\ activeSince' = IF Counting' THEN at ELSE NoTime
      BY <1>5, <2>1 DEF Resume, EnterRunning, ControlStates, Counting, SinceAfter,
         TimeInv, TypeOK
    <2>3. /\ audioPrepared' \in BOOLEAN /\ audioStarted' \in BOOLEAN
          /\ audioEnded' \in BOOLEAN /\ audioError' \in BOOLEAN
          /\ UNCHANGED <<modeVars, setupVars, generation, recordingResult>>
      BY <1>5 DEF Resume, EnterRunning, TimeInv, TypeOK, audioVars
    <2>4. PICK effs : Accept(at, effs)
      BY <1>5 DEF Resume, EnterRunning
    <2> QED
      BY <2>1, <2>2, <2>3, <2>4, ActiveStep
  <1>6. ASSUME NEW at \in Times, Tick(at)
        PROVE  TimeInv'
    <2>1. at \in Nat /\ Fenced(at) /\ phase = "Active" /\ AdvanceActiveTime(at)
      BY <1>6 DEF Tick
    <2>2. /\ phase' = "Active" /\ controlState' \in ControlStates
          /\ presentation' \in PresentationStates
          /\ activeSince' = IF Counting' THEN at ELSE NoTime
      BY <1>6, <2>1 DEF Tick, ControlStates, Counting, SinceAfter,
         TimeInv, TypeOK
    <2>3. /\ audioPrepared' \in BOOLEAN /\ audioStarted' \in BOOLEAN
          /\ audioEnded' \in BOOLEAN /\ audioError' \in BOOLEAN
          /\ UNCHANGED <<modeVars, setupVars, generation, recordingResult>>
      BY <1>6 DEF Tick, TimeInv, TypeOK, audioVars
    <2>4. PICK effs : Accept(at, effs)
      BY <1>6 DEF Tick
    <2> QED
      BY <2>1, <2>2, <2>3, <2>4, ActiveStep
  <1>7. ASSUME NEW at \in Times, AudioStarted(at)
        PROVE  TimeInv'
    <2>1. at \in Nat /\ Fenced(at) /\ phase = "Active" /\ AdvanceActiveTime(at)
      BY <1>7 DEF AudioStarted
    <2>2. /\ phase' = "Active" /\ controlState' \in ControlStates
          /\ presentation' \in PresentationStates
          /\ activeSince' = IF Counting' THEN at ELSE NoTime
      BY <1>7, <2>1 DEF AudioStarted, ControlStates, Counting, SinceAfter,
         TimeInv, TypeOK
    <2>3. /\ audioPrepared' \in BOOLEAN /\ audioStarted' \in BOOLEAN
          /\ audioEnded' \in BOOLEAN /\ audioError' \in BOOLEAN
          /\ UNCHANGED <<modeVars, setupVars, generation, recordingResult>>
      BY <1>7 DEF AudioStarted, TimeInv, TypeOK, audioVars
    <2>4. PICK effs : Accept(at, effs)
      BY <1>7 DEF AudioStarted
    <2> QED
      BY <2>1, <2>2, <2>3, <2>4, ActiveStep
  <1>8. ASSUME NEW at \in Times, AudioEnded(at)
        PROVE  TimeInv'
    <2>1. at \in Nat /\ Fenced(at) /\ phase = "Active" /\ AdvanceActiveTime(at)
      BY <1>8 DEF AudioEnded
    <2>2. /\ phase' = "Active" /\ controlState' \in ControlStates
          /\ presentation' \in PresentationStates
          /\ activeSince' = IF Counting' THEN at ELSE NoTime
      BY <1>8, <2>1 DEF AudioEnded, ControlStates, Counting, SinceAfter,
         TimeInv, TypeOK
    <2>3. /\ audioPrepared' \in BOOLEAN /\ audioStarted' \in BOOLEAN
          /\ audioEnded' \in BOOLEAN /\ audioError' \in BOOLEAN
          /\ UNCHANGED <<modeVars, setupVars, generation, recordingResult>>
      BY <1>8 DEF AudioEnded, TimeInv, TypeOK, audioVars
    <2>4. PICK effs : Accept(at, effs)
      BY <1>8 DEF AudioEnded
    <2> QED
      BY <2>1, <2>2, <2>3, <2>4, ActiveStep
  <1>9. ASSUME NEW at \in Times, AudioError(at)
        PROVE  TimeInv'
    <2>1. at \in Nat /\ Fenced(at) /\ phase = "Active" /\ AdvanceActiveTime(at)
      BY <1>9 DEF AudioError
    <2>2. /\ phase' = "Active" /\ controlState' \in ControlStates
          /\ presentation' \in PresentationStates
          /\ activeSince' = IF Counting' THEN at ELSE NoTime
      BY <1>9, <2>1 DEF AudioError, ControlStates, Counting, SinceAfter,
         TimeInv, TypeOK
    <2>3. /\ audioPrepared' \in BOOLEAN /\ audioStarted' \in BOOLEAN
          /\ audioEnded' \in BOOLEAN /\ audioError' \in BOOLEAN
          /\ UNCHANGED <<modeVars, setupVars, generation, recordingResult>>
      BY <1>9 DEF AudioError, TimeInv, TypeOK, audioVars
    <2>4. PICK effs : Accept(at, effs)
      BY <1>9 DEF AudioError
    <2> QED
      BY <2>1, <2>2, <2>3, <2>4, ActiveStep
  <1>10. ASSUME NEW at \in Times, NEW p \in PresentationStates,
                PresentationChanged(at, p)
         PROVE  TimeInv'
    <2>1. at \in Nat /\ Fenced(at) /\ presentation' = p
      BY <1>10 DEF PresentationChanged
    <2>2. /\ phase' = phase /\ controlState' = controlState
          /\ UNCHANGED <<modeVars, setupVars, audioVars, audioPrepared,
                         generation, recordingResult>>
      BY <1>10 DEF PresentationChanged
    <2>3. PICK effs : Accept(at, effs)
      BY <1>10 DEF PresentationChanged
    <2>4. CASE phase = "Active"
      <3>1. AdvanceActiveTime(at) /\ activeSince' = IF Counting' THEN at ELSE NoTime
        BY <1>10, <2>1, <2>2, <2>4
           DEF PresentationChanged, SinceAfter, Counting
      <3>2. /\ controlState' \in ControlStates /\ audioPrepared' \in BOOLEAN
            /\ audioStarted' \in BOOLEAN /\ audioEnded' \in BOOLEAN
            /\ audioError' \in BOOLEAN
        BY <2>2 DEF TimeInv, TypeOK, audioVars
      <3> QED
        BY <2>1, <2>2, <2>3, <2>4, <3>1, <3>2, ActiveStep
    <2>5. CASE phase # "Active"
      <3>1. phase = "Idle" /\ UNCHANGED <<timeVars, completion>>
        BY <1>10, <2>5 DEF PresentationChanged
      <3>2. /\ phase' \in SessionPhases /\ controlState' \in ControlStates
            /\ completion' \in CompletionProgress
            /\ condition' \in Conditions \cup {NoCondition}
            /\ activeTime' = activeTime
            /\ completionThreshold' = completionThreshold
            /\ audioStarted' \in BOOLEAN /\ audioEnded' \in BOOLEAN
            /\ audioError' \in BOOLEAN /\ recordingResult' \in RecordingResults
            /\ activeSince' = NoTime
            /\ UNCHANGED <<modeVars, explicitStart, audioPrepared, generation>>
        BY <2>2, <3>1 DEF TimeInv, TypeOK, ActiveTimeExact, audioVars, setupVars,
           timeVars
      <3> QED
        BY <2>1, <2>2, <2>3, <3>1, <3>2, StoppedStep
    <2> QED
      BY <2>4, <2>5
  <1>11. ASSUME NEW at \in Times, RecordingPrepared(at)
         PROVE  TimeInv'
    <2>1. /\ at \in Nat /\ Fenced(at) /\ phase = "Preparing" /\ phase' = "Active"
          /\ controlState' \in ControlStates /\ Accept(at, <<>>)
          /\ activeSince' = activeSince /\ activeTime' = activeTime
          /\ completion' = completion /\ presentation' = presentation
          /\ completionThreshold' = completionThreshold
      BY <1>11 DEF RecordingPrepared, ControlStates, timeVars, setupVars
    <2>2. /\ lastMonotonic' \in Nat /\ lastMonotonic' = at
          /\ immersiveTime' \in Nat /\ issued' \in [TrackedKinds -> Nat]
          /\ immersiveTime' = immersiveTime + 0
      BY <2>1, AcceptTyped DEF TimeInv, ClockKnown
    <2>3. TypeOK'
      BY <1>11, <2>1, <2>2 DEF RecordingPrepared, TimeInv, TypeOK, modeVars,
         setupVars, timeVars, audioVars, SessionPhases
    <2>4. /\ activeSince' = NoTime /\ immersiveTime = 0 /\ activeTime = 0
          /\ completion = "NotReached" /\ presentation = "Transition"
          /\ completionThreshold \in Nat /\ completionThreshold > 0
      BY <2>1 DEF TimeInv, TypeOK, ActiveTimeExact, FreshWhilePreparing,
         ThresholdKept
    <2>5. immersiveTime' = 0 /\ activeTime' = 0 /\ OpenInterval' = 0
      BY <2>1, <2>2, <2>4, SMTT(30) DEF OpenInterval
    <2>6. ActiveTimeExact'
      BY <2>1, <2>5, SMTT(30) DEF ActiveTimeExact
    <2>7. ClockKnown' /\ FreshWhilePreparing' /\ ThresholdKept' /\ ClockRuns'
      BY <2>1, <2>2, <2>4, SMTT(30) DEF ClockKnown, FreshWhilePreparing, ThresholdKept,
         ClockRuns, Counting
    <2>8. CompletionMatchesTime'
      BY <2>1, <2>4, SMTT(30) DEF CompletionMatchesTime
    <2> QED
      BY <2>3, <2>6, <2>7, <2>8 DEF TimeInv
  <1>12. ASSUME NEW at \in Times, NEW e \in RecordingFailures,
                RecordingPrepareFailed(at, e)
         PROVE  TimeInv'
    <2>1. /\ at \in Nat /\ Fenced(at) /\ phase \in {"Preparing", "Exiting"}
          /\ phase' \in {"Idle", "Closed"} /\ phase' \in SessionPhases
          /\ controlState' \in ControlStates
          /\ presentation' \in PresentationStates
          /\ condition' \in Conditions \cup {NoCondition}
      BY <1>12 DEF RecordingPrepareFailed, SessionPhases, ControlStates, TimeInv,
         TypeOK, PresentationStates, PreparationPresentation
    <2>2. recordingResult' \in RecordingResults
      BY <1>12 DEF RecordingPrepareFailed, Unsaved, RecordingResults
    <2>3. /\ activeTime' = activeTime /\ completionThreshold' = completionThreshold
          /\ completion' \in CompletionProgress
          /\ audioStarted' \in BOOLEAN /\ audioEnded' \in BOOLEAN
          /\ audioError' \in BOOLEAN /\ activeSince' = activeSince
          /\ UNCHANGED <<modeVars, explicitStart, audioPrepared, generation>>
      BY <1>12 DEF RecordingPrepareFailed, TimeInv, TypeOK, timeVars, audioVars
    <2>4. activeSince' = NoTime
      BY <2>1, <2>3 DEF TimeInv, ActiveTimeExact
    <2>5. PICK effs : Accept(at, effs)
      BY <1>12 DEF RecordingPrepareFailed
    <2> QED
      BY <2>1, <2>2, <2>3, <2>4, <2>5, StoppedStep
  <1>13. ASSUME NEW at \in Times, AudioPrepared(at)
         PROVE  TimeInv'
    <2>1. /\ at \in Nat /\ Fenced(at) /\ phase = "Active" /\ phase' = "Active"
          /\ controlState' \in ControlStates /\ ~Counting /\ ~Counting'
          /\ audioPrepared' \in BOOLEAN /\ completion' = completion
          /\ UNCHANGED <<modeVars, setupVars, timeVars, audioVars, presentation,
                         generation, recordingResult>>
      BY <1>13 DEF AudioPrepared, ControlStates, Counting
    <2>2. PICK effs : Accept(at, effs)
      BY <1>13 DEF AudioPrepared
    <2>3. completion' \in CompletionProgress
      BY <2>1 DEF TimeInv, TypeOK
    <2> QED
      BY <2>1, <2>2, <2>3, QuietStep
  <1>14. ASSUME NEW at \in Times, CompletionDurable(at)
         PROVE  TimeInv'
    <2>1. /\ at \in Nat /\ Fenced(at)
          /\ phase \in {"Active", "FinalizingRestart", "Exiting"}
          /\ Accept(at, <<>>) /\ completion' \in CompletionProgress
          /\ completion # "NotReached" /\ completion' # "NotReached"
          /\ UNCHANGED <<modeVars, setupVars, timeVars, audioVars, phase,
                         controlState, audioPrepared, presentation, generation,
                         recordingResult>>
      BY <1>14 DEF CompletionDurable, CompletionProgress
    <2>2. /\ controlState' \in ControlStates /\ audioPrepared' \in BOOLEAN
          /\ phase' \in SessionPhases /\ presentation' \in PresentationStates
          /\ condition' \in Conditions \cup {NoCondition}
          /\ activeTime' = activeTime
          /\ completionThreshold' = completionThreshold
          /\ audioStarted' \in BOOLEAN /\ audioEnded' \in BOOLEAN
          /\ audioError' \in BOOLEAN /\ recordingResult' \in RecordingResults
          /\ activeSince' = activeSince
          /\ UNCHANGED <<modeVars, explicitStart, audioPrepared, generation>>
      BY <2>1 DEF TimeInv, TypeOK, audioVars, setupVars, timeVars
    <2>3. CASE phase = "Active"
      <3>1. phase' = "Active" /\ (Counting' <=> Counting)
        BY <2>1, <2>3 DEF Counting
      <3> QED
        BY <2>1, <2>2, <2>3, <3>1, QuietStep
    <2>4. CASE phase # "Active"
      <3>1. activeSince' = NoTime
        BY <2>2, <2>4 DEF TimeInv, ActiveTimeExact
      <3> QED
        BY <2>1, <2>2, <2>4, <3>1, StoppedStep
    <2> QED
      BY <2>3, <2>4
  <1>15. ASSUME NEW at \in Times, RestartToExperimenter(at)
         PROVE  TimeInv'
    <2>1. /\ at \in Nat /\ Fenced(at)
          /\ StopRecording(at, <<>>, "RestartToExperimenter")
          /\ phase' \in {"FinalizingRestart", "Exiting"}
          /\ presentation' \in PresentationStates
      BY <1>15 DEF RestartToExperimenter, TimeInv, TypeOK, PresentationStates
    <2> QED
      BY <2>1, StopStep
  <1>16. ASSUME NEW at \in Times, SaveAndExit(at)
         PROVE  TimeInv'
    BY <1>16, ExitStep DEF SaveAndExit
  <1>17. ASSUME NEW at \in Times, ImmersiveOwnerDestroyed(at)
         PROVE  TimeInv'
    BY <1>17, ExitStep DEF ImmersiveOwnerDestroyed
  <1>18. ASSUME NEW at \in Times, NEW d \in BOOLEAN, NEW sv \in BOOLEAN,
                RecordingFinalized(at, d, sv)
         PROVE  TimeInv'
    <2>1. recordingResult' \in RecordingResults
      BY <1>18 DEF RecordingFinalized, Saved, Unsaved, RecordingResults,
         RecordingFailures
    <2> QED
      BY <1>18, <2>1, FinishStep DEF RecordingFinalized
  <1>19. ASSUME NEW at \in Times, NEW d \in BOOLEAN,
                NEW e \in RecordingFailures, RecordingFinalizationFailed(at, d, e)
         PROVE  TimeInv'
    <2>1. recordingResult' \in RecordingResults
      BY <1>19 DEF RecordingFinalizationFailed, Unsaved, RecordingResults
    <2> QED
      BY <1>19, <2>1, FinishStep DEF RecordingFinalizationFailed
  <1>20. CASE UNCHANGED vars
    BY <1>20, SMTT(30) DEF vars, TimeInv, TypeOK, ClockKnown, FreshWhilePreparing,
       ThresholdKept, ClockRuns, ActiveTimeExact, CompletionMatchesTime, Live,
       OpenInterval, Counting
  <1> QED
    BY <1>1, <1>2, <1>3, <1>4, <1>5, <1>6, <1>7, <1>8, <1>9, <1>10, <1>11,
       <1>12, <1>13, <1>14, <1>15, <1>16, <1>17, <1>18, <1>19, <1>20 DEF Next

\* The time of a session is right, in every reachable state: the time invariant
\* holds for every set of instants, thresholds and conditions.
THEOREM TimeInvariant == Spec => []TimeInv
  BY InitTimeInv, TimeInvStep, PTL DEF Spec

\* Every field of the controller keeps its type.
THEOREM TypeCorrect == Spec => []TypeOK
  <1>1. TimeInv => TypeOK
    BY DEF TimeInv
  <1> QED
    BY <1>1, TimeInvariant, PTL

\* The clock of a session is exact, whatever the order of commands.
THEOREM ActiveTimeIsExact == Spec => []ActiveTimeExact
  <1>1. TimeInv => ActiveTimeExact
    BY DEF TimeInv
  <1> QED
    BY <1>1, TimeInvariant, PTL

\* Completion is reported exactly when the threshold has been spent immersed.
THEOREM CompletionIsExact == Spec => []CompletionMatchesTime
  <1>1. TimeInv => CompletionMatchesTime
    BY DEF TimeInv
  <1> QED
    BY <1>1, TimeInvariant, PTL

\* The clock of an active session runs exactly while the experiment runs and is
\* seen.
THEOREM ClockAlwaysRuns == Spec => []ClockRuns
  <1>1. TimeInv => ClockRuns
    BY DEF TimeInv
  <1> QED
    BY <1>1, TimeInvariant, PTL

\* The deadline the worker sleeps to is the first instant at which a command
\* crosses the threshold: completion_deadline agrees with advance_active_time.
THEOREM DeadlineIsExact == Spec => []DeadlineExact
  <1>1. ASSUME TimeInv PROVE DeadlineExact
    <2> SUFFICES ASSUME HasDeadline, NEW at \in Times, at >= lastMonotonic
                 PROVE Crosses(at) <=> at >= CompletionDeadline
      BY DEF DeadlineExact
    <2>1. /\ activeTime \in Nat /\ completionThreshold \in Nat
          /\ at \in Nat /\ activeSince \in Nat /\ lastMonotonic \in Nat
          /\ activeSince =< lastMonotonic
      BY <1>1, TimesAssumption DEF TimeInv, TypeOK, HasDeadline, ClockKnown
    <2>2. activeTime < completionThreshold
      BY <1>1, <2>1, SMTT(30) DEF TimeInv, CompletionMatchesTime, Live, HasDeadline
    <2>3. Elapsed(at) = at - activeSince
      BY <2>1, SMTT(30) DEF Elapsed, HasDeadline
    <2>4. Crosses(at) <=> activeTime + (at - activeSince) >= completionThreshold
      BY <2>1, <2>3, SMTT(30) DEF Crosses, HasDeadline
    <2>5. CompletionDeadline = activeSince + (completionThreshold - activeTime)
      BY <2>1, <2>2 DEF CompletionDeadline
    <2> QED
      BY <2>1, <2>4, <2>5, SMTT(30)
  <1> QED
    BY <1>1, TimeInvariant, PTL

\* A finalized session has credited all its time, so its completion tells how
\* long the participant was immersed.
LEMMA StoppedIsCredited ==
  ASSUME TimeInv, phase \in {"FinalizingRestart", "Exiting"}
  PROVE completion # "NotReached" <=> immersiveTime >= completionThreshold
  <1>1. immersiveTime = activeTime + 0 /\ activeTime \in Nat
    BY DEF TimeInv, TypeOK, ActiveTimeExact, OpenInterval, Live
  <1>2. completion # "NotReached" <=> activeTime >= completionThreshold
    BY DEF TimeInv, CompletionMatchesTime, Live
  <1> QED
    BY <1>1, <1>2, PlusZero

\* The step property of ResultTruthful.
Truthful ==
    recordingResult' # recordingResult =>
        /\ recordingResult'.status = "Saved" =>
              (recordingResult'.completed <=> immersiveTime >= completionThreshold)
        /\ recordingResult'.completed => immersiveTime >= completionThreshold

\* A finalization reports the completion of the session it ends.
LEMMA FinishTruthful ==
  ASSUME TimeInv, NEW at \in Times, NEW d \in BOOLEAN, NEW e \in RecordingFailures,
         FinishTerminal(at),
         \/ /\ (completion # "NotReached") = d
            /\ recordingResult' \in {Saved(d), Unsaved(d, e)}
         \/ /\ (completion = "Durable") = d
            /\ recordingResult' = Unsaved(d, e)
  PROVE Truthful
  <1>1. completion # "NotReached" <=> immersiveTime >= completionThreshold
    BY StoppedIsCredited DEF FinishTerminal
  <1>2. recordingResult'.completed = d
    BY SMTT(30) DEF Saved, Unsaved
  <1>3. recordingResult'.status = "Saved" => (completion # "NotReached") = d
    BY SMTT(30) DEF Saved, Unsaved
  <1>4. d => completion # "NotReached"
    OBVIOUS
  <1> QED
    BY <1>1, <1>2, <1>3, <1>4 DEF Truthful

\* Every result the session reports is true of the experiment, after any
\* sequence of commands: saved results carry the exact completion and unsaved
\* ones never claim one that did not happen.
THEOREM ResultsAreTruthful == Spec => ResultTruthful
  <1>1. ASSUME TimeInv, [Next]_vars PROVE [Truthful]_vars
    <2>1. CASE UNCHANGED vars
      BY <2>1
    <2>2. ASSUME NEW at \in Times, NEW d \in BOOLEAN, NEW s \in BOOLEAN,
                 RecordingFinalized(at, d, s)
          PROVE Truthful
      <3>1. recordingResult' \in {Saved(d), Unsaved(d, "DataLoss")}
        BY <2>2 DEF RecordingFinalized
      <3>2. "DataLoss" \in RecordingFailures
        BY DEF RecordingFailures
      <3> QED
        BY <1>1, <2>2, <3>1, <3>2, FinishTruthful DEF RecordingFinalized
    <2>3. ASSUME NEW at \in Times, NEW d \in BOOLEAN, NEW e \in RecordingFailures,
                 RecordingFinalizationFailed(at, d, e)
          PROVE Truthful
      BY <1>1, <2>3, FinishTruthful DEF RecordingFinalizationFailed
    <2>4. ASSUME NEW at \in Times, NEW e \in RecordingFailures,
                 RecordingPrepareFailed(at, e)
          PROVE Truthful
      BY <2>4 DEF RecordingPrepareFailed, Unsaved, Truthful
    <2>5. ASSUME NEW at \in Times, NEW explicit \in BOOLEAN, NEW c \in Conditions,
                 NEW th \in Thresholds, Arm(at, explicit, c, th)
          PROVE Truthful
      BY <2>5 DEF Arm, NoResult, Truthful
    <2>6. CASE UNCHANGED recordingResult
      BY <2>6 DEF Truthful
    <2>7. ASSUME NEW at \in Times,
                 \/ RecordingPrepared(at) \/ AudioPrepared(at)
                 \/ OfficialStart(at) \/ Pause(at) \/ Resume(at)
                 \/ Tick(at) \/ AudioStarted(at) \/ AudioEnded(at)
                 \/ AudioError(at) \/ CompletionDurable(at)
                 \/ RestartToExperimenter(at) \/ SaveAndExit(at)
                 \/ ImmersiveOwnerDestroyed(at)
          PROVE UNCHANGED recordingResult
      BY <2>7 DEF RecordingPrepared, AudioPrepared, OfficialStart, Pause, Resume,
           EnterRunning, Tick, AudioStarted, AudioEnded, AudioError,
           CompletionDurable, RestartToExperimenter, StopRecording, SaveAndExit,
           ImmersiveOwnerDestroyed, Exit
    <2>8. ASSUME NEW p \in PresentationStates, ObservePreparationPresentation(p)
          PROVE UNCHANGED recordingResult
      BY <2>8 DEF ObservePreparationPresentation
    <2>9. ASSUME NEW p \in PresentationStates, NEW at \in Times,
                 PresentationChanged(at, p)
          PROVE UNCHANGED recordingResult
      BY <2>9 DEF PresentationChanged
    <2> QED
      BY <1>1, <2>1, <2>2, <2>3, <2>4, <2>5, <2>6, <2>7, <2>8, <2>9 DEF Next
  <1> QED
    BY <1>1, TimeInvariant, PTL DEF Spec, ResultTruthful, Truthful

-----------------------------------------------------------------------------
\* The effects of a command, one by one.

EffectKinds ==
    TrackedKinds \cup
    {"RecordControl", "RecordPresentation", "RecordAudioStarted", "RecordAudioEnded",
     "RecordAudioError", "DisarmKiosk", "ResetRuntimeDefaults", "ReturnToPreparation",
     "ShowExperimenter"}
StopReasons == {"RestartToExperimenter", "SaveAndExit", "InterruptedRecovery"}
EffectDetails ==
    PresentationStates \cup StopReasons \cup
    {"none", "Armed", "OfficialStart", "ExperimentResumed", "ExperimentPaused"}
EffectRecords == [kind : EffectKinds, detail : EffectDetails, reached : BOOLEAN]

\* An effect occurs in a list exactly if it occurs in one of its parts.
LEMMA OccursIn ==
  ASSUME NEW s \in Seq(EffectRecords), NEW t \in Seq(EffectRecords),
         NEW e \in EffectRecords, NEW k
  PROVE  /\ s \o t \in Seq(EffectRecords) /\ Append(s, e) \in Seq(EffectRecords)
         /\ <<e>> \in Seq(EffectRecords)
         /\ Occurs(k, s \o t) <=> Occurs(k, s) \/ Occurs(k, t)
         /\ Occurs(k, Append(s, e)) <=> Occurs(k, s) \/ e.kind = k
         /\ Occurs(k, <<e>>) <=> e.kind = k
         /\ ~Occurs(k, <<>>)
  <1>1. Occurs(k, s \o t) <=> Occurs(k, s) \/ Occurs(k, t)
    <2>1. ASSUME Occurs(k, s \o t) PROVE Occurs(k, s) \/ Occurs(k, t)
      <3>1. PICK i \in 1..(Len(s) + Len(t)) : (s \o t)[i].kind = k
        BY <2>1, SMTT(30) DEF Occurs
      <3>2. CASE i =< Len(s)
        BY <3>1, <3>2, SMTT(30) DEF Occurs
      <3>3. CASE i > Len(s)
        <4>1. i - Len(s) \in 1..Len(t) /\ (s \o t)[i] = t[i - Len(s)]
          BY <3>3, SMTT(30)
        <4> QED BY <3>1, <4>1, SMTT(30) DEF Occurs
      <3> QED BY <3>2, <3>3, SMTT(30)
    <2>2. ASSUME Occurs(k, s) PROVE Occurs(k, s \o t)
      <3>1. PICK i \in 1..Len(s) : s[i].kind = k
        BY <2>2, SMTT(30) DEF Occurs
      <3>2. i \in 1..(Len(s) + Len(t)) /\ (s \o t)[i] = s[i]
        BY <3>1, SMTT(30)
      <3> QED BY <3>1, <3>2, SMTT(30) DEF Occurs
    <2>3. ASSUME Occurs(k, t) PROVE Occurs(k, s \o t)
      <3>1. PICK i \in 1..Len(t) : t[i].kind = k
        BY <2>3, SMTT(30) DEF Occurs
      <3>2. Len(s) + i \in 1..(Len(s) + Len(t)) /\ (s \o t)[Len(s) + i] = t[i]
        BY <3>1, SMTT(30)
      <3> QED BY <3>1, <3>2, SMTT(30) DEF Occurs
    <2> QED BY <2>1, <2>2, <2>3
  <1>2. Occurs(k, Append(s, e)) <=> Occurs(k, s) \/ e.kind = k
    <2>1. ASSUME Occurs(k, Append(s, e)) PROVE Occurs(k, s) \/ e.kind = k
      <3>1. PICK i \in 1..(Len(s) + 1) : Append(s, e)[i].kind = k
        BY <2>1, SMTT(30) DEF Occurs
      <3> QED BY <3>1, SMTT(30) DEF Occurs
    <2>2. ASSUME Occurs(k, s) PROVE Occurs(k, Append(s, e))
      <3>1. PICK i \in 1..Len(s) : s[i].kind = k
        BY <2>2, SMTT(30) DEF Occurs
      <3> QED BY <3>1, SMTT(30) DEF Occurs
    <2>3. ASSUME e.kind = k PROVE Occurs(k, Append(s, e))
      <3>1. Len(s) + 1 \in 1..(Len(s) + 1) /\ Append(s, e)[Len(s) + 1] = e
        BY SMTT(30)
      <3> QED BY <2>3, <3>1, SMTT(30) DEF Occurs
    <2> QED BY <2>1, <2>2, <2>3
  <1>3. Occurs(k, <<e>>) <=> e.kind = k
    BY SMTT(30) DEF Occurs
  <1>4. ~Occurs(k, <<>>)
    BY SMTT(30) DEF Occurs
  <1> QED BY <1>1, <1>2, <1>3, <1>4, SMTT(30)

\* Every effect of the reducer is one of the kinds.
LEMMA EffectTypes ==
  ASSUME NEW kind \in EffectKinds, NEW detail \in EffectDetails
  PROVE  Effect(kind, detail) \in EffectRecords /\ Effect(kind, detail).kind = kind
  BY DEF Effect, EffectRecords

\* The same for the effect that finalizes the recording.
LEMMA FinalizeTypes ==
  ASSUME NEW reason \in StopReasons, NEW reached \in BOOLEAN
  PROVE  /\ FinalizeRecording(reason, reached) \in EffectRecords
         /\ FinalizeRecording(reason, reached).kind = "FinalizeRecording"
         /\ FinalizeRecording(reason, reached).reached = reached
  <1>1. "FinalizeRecording" \in EffectKinds /\ reason \in EffectDetails
    BY DEF EffectKinds, EffectDetails, TrackedKinds
  <1> QED BY <1>1 DEF FinalizeRecording, EffectRecords

\* A command that crosses the threshold persists completion, and only such a one
\* (advance_active_time).
LEMMA AdvanceOccurs ==
  ASSUME NEW at, NEW k
  PROVE  /\ AdvanceEffects(at) \in Seq(EffectRecords)
         /\ Occurs(k, AdvanceEffects(at)) <=> Crosses(at) /\ k = "PersistCompletion"
  <1>1. /\ Effect("PersistCompletion", "none") \in EffectRecords
        /\ Effect("PersistCompletion", "none").kind = "PersistCompletion"
    <2>1. "PersistCompletion" \in EffectKinds /\ "none" \in EffectDetails
      BY DEF EffectKinds, EffectDetails, TrackedKinds
    <2> QED BY <2>1, EffectTypes
  <1>2. <<>> \in Seq(EffectRecords)
    BY SMTT(30)
  <1>3. CASE Crosses(at)
    <2>1. AdvanceEffects(at) = <<Effect("PersistCompletion", "none")>>
      BY <1>3 DEF AdvanceEffects
    <2>2. PICK e \in EffectRecords :
             AdvanceEffects(at) = <<e>> /\ e.kind = "PersistCompletion"
      BY <1>1, <2>1
    <2>3. <<e>> \in Seq(EffectRecords) /\ (Occurs(k, <<e>>) <=> e.kind = k)
      BY <1>2, OccursIn
    <2> QED BY <1>3, <2>2, <2>3
  <1>4. CASE ~Crosses(at)
    <2>1. AdvanceEffects(at) = <<>>
      BY <1>4 DEF AdvanceEffects
    <2>2. ~Occurs(k, <<>>)
      BY SMTT(30) DEF Occurs
    <2> QED BY <1>2, <1>4, <2>1, <2>2
  <1> QED BY <1>3, <1>4

\* What RecordingLifecycle needs to be inductive: nothing was persisted for a
\* session that is still preparing.
IssuedInv ==
    /\ RecordingLifecycle
    /\ phase = "Preparing" => issued["PersistCompletion"] = 0

\* What the accepted half of `apply` counts.
LEMMA AcceptCounts ==
  ASSUME TypeOK, NEW at, NEW effs, Accept(at, effs)
  PROVE  /\ effects' = effs
         /\ \A k \in TrackedKinds :
               /\ issued[k] \in Nat
               /\ Occurs(k, effs) => issued'[k] = issued[k] + 1
               /\ ~Occurs(k, effs) => issued'[k] = issued[k]
  BY SMTT(30) DEF Accept, TypeOK

\* A command with none of the tracked effects keeps the lifecycle.
LEMMA PlainCommand ==
  ASSUME TypeOK, IssuedInv, NEW at, NEW effs, Accept(at, effs),
         \A k \in TrackedKinds : ~Occurs(k, effs),
         \/ phase' = phase
         \/ phase = "Preparing" /\ phase' = "Active"
         \/ phase = "FinalizingRestart" /\ phase' \in {"Exiting", "Idle"}
         \/ phase = "Preparing" /\ phase' = "Idle",
         phase = "Preparing" => completion = "NotReached",
         phase' # "Idle" => (completion' = "NotReached" <=> completion = "NotReached")
  PROVE  IssuedInv'
  <1>1. /\ effects' = effs
        /\ \A k \in TrackedKinds : issued'[k] = issued[k]
    BY AcceptCounts
  <1>2. \A j \in DOMAIN effects' : effects'[j].kind # "FinalizeRecording"
    BY <1>1 DEF Occurs, TrackedKinds
  <1>3. /\ issued'["PrepareRecording"] = issued["PrepareRecording"]
        /\ issued'["FinalizeRecording"] = issued["FinalizeRecording"]
        /\ issued'["PersistCompletion"] = issued["PersistCompletion"]
        /\ issued'["ShutdownApp"] = issued["ShutdownApp"]
    BY <1>1 DEF TrackedKinds
  <1> QED BY <1>2, <1>3 DEF IssuedInv, RecordingLifecycle, Live

\* A command that credits active time persists completion when it crosses.
LEMMA CreditingCommand ==
  ASSUME TypeOK, IssuedInv, NEW at, NEW effs, Accept(at, effs), AdvanceActiveTime(at),
         \A k \in TrackedKinds : Occurs(k, effs) <=> Crosses(at) /\ k = "PersistCompletion",
         phase = "Active", phase' = "Active"
  PROVE  IssuedInv'
  <1>1. /\ effects' = effs
        /\ issued'["PrepareRecording"] = issued["PrepareRecording"]
        /\ issued'["FinalizeRecording"] = issued["FinalizeRecording"]
        /\ issued'["ShutdownApp"] = issued["ShutdownApp"]
        /\ Crosses(at) => issued'["PersistCompletion"] = issued["PersistCompletion"] + 1
        /\ ~Crosses(at) => issued'["PersistCompletion"] = issued["PersistCompletion"]
    BY AcceptCounts DEF TrackedKinds
  <1>2. \A j \in DOMAIN effects' : effects'[j].kind # "FinalizeRecording"
    BY <1>1 DEF Occurs, TrackedKinds
  <1>3. issued["PersistCompletion"] = IF completion = "NotReached" THEN 0 ELSE 1
    BY DEF IssuedInv, RecordingLifecycle, Live
  <1>4. issued'["PersistCompletion"] = IF completion' = "NotReached" THEN 0 ELSE 1
    <2>1. CASE Crosses(at)
      <3>1. completion = "NotReached" /\ completion' = "PersistencePending"
        BY <2>1 DEF AdvanceActiveTime, Crosses
      <3> QED BY <1>1, <1>3, <2>1, <3>1, SMTT(30)
    <2>2. CASE ~Crosses(at)
      <3>1. completion' = completion
        BY <2>2 DEF AdvanceActiveTime
      <3> QED BY <1>1, <1>3, <2>2, <3>1
    <2> QED BY <2>1, <2>2
  <1> QED BY <1>1, <1>2, <1>4 DEF IssuedInv, RecordingLifecycle, Live

\* A command that ends the application does so once.
LEMMA ClosingCommand ==
  ASSUME TypeOK, IssuedInv, NEW at, NEW effs, Accept(at, effs),
         \A k \in TrackedKinds : Occurs(k, effs) <=> k = "ShutdownApp",
         phase # "Closed", phase' = "Closed"
  PROVE  IssuedInv'
  <1>1. effects' = effs /\ issued'["ShutdownApp"] = issued["ShutdownApp"] + 1
    BY AcceptCounts DEF TrackedKinds
  <1>2. \A j \in DOMAIN effects' : effects'[j].kind # "FinalizeRecording"
    BY <1>1 DEF Occurs, TrackedKinds
  <1>3. issued["ShutdownApp"] = 0
    BY DEF IssuedInv, RecordingLifecycle
  <1> QED BY <1>1, <1>2, <1>3, SMTT(30) DEF IssuedInv, RecordingLifecycle, Live

\* A command that stops the recording finalizes it once, after persisting the
\* completion it may have crossed, and says whether completion was reached.
LEMMA StoppingCommand ==
  ASSUME TypeOK, FreshWhilePreparing, IssuedInv, NEW at, NEW reason \in StopReasons,
         NEW before \in Seq(EffectRecords), \A k \in TrackedKinds : ~Occurs(k, before),
         StopRecording(at, before, reason), phase' \in {"FinalizingRestart", "Exiting"}
  PROVE  IssuedInv'
  <1> DEFINE crosses == phase = "Active" /\ Crosses(at)
             crossing == IF crosses THEN AdvanceEffects(at) ELSE <<>>
             rest == before \o crossing
             reached == completion # "NotReached" \/ crosses
             last == FinalizeRecording(reason, reached)
             effs == rest \o <<last>>
  <1>1. Accept(at, effs)
    BY DEF StopRecording
  <1>2. /\ last \in EffectRecords /\ last.kind = "FinalizeRecording"
        /\ last.reached = reached
    <2>1. reached \in BOOLEAN
      OBVIOUS
    <2> HIDE DEF reached
    <2> QED BY <2>1, FinalizeTypes
  <1>3. /\ crossing \in Seq(EffectRecords)
        /\ \A k : Occurs(k, crossing) <=> crosses /\ k = "PersistCompletion"
    <2>1. CASE crosses
      <3>1. crossing = AdvanceEffects(at) /\ Crosses(at)
        BY <2>1
      <3>2. ASSUME NEW k
            PROVE  /\ AdvanceEffects(at) \in Seq(EffectRecords)
                   /\ Occurs(k, AdvanceEffects(at)) <=> k = "PersistCompletion"
        BY <3>1, AdvanceOccurs
      <3> QED BY <2>1, <3>1, <3>2
    <2>2. CASE ~crosses
      <3>1. crossing = <<>> /\ <<>> \in Seq(EffectRecords)
        BY <2>2, SMTT(30)
      <3>2. \A k : ~Occurs(k, <<>>)
        BY SMTT(30) DEF Occurs
      <3> QED BY <2>2, <3>1, <3>2
    <2> QED BY <2>1, <2>2
  <1> HIDE DEF crossing, last, crosses
  <1>4. /\ rest \in Seq(EffectRecords)
        /\ \A k \in TrackedKinds : Occurs(k, rest) <=> crosses /\ k = "PersistCompletion"
    <2>1. rest \in Seq(EffectRecords)
      BY <1>2, <1>3, OccursIn
    <2>2. ASSUME NEW k \in TrackedKinds
          PROVE  Occurs(k, rest) <=> crosses /\ k = "PersistCompletion"
      <3>1. Occurs(k, rest) <=> Occurs(k, before) \/ Occurs(k, crossing)
        BY <1>2, <1>3, OccursIn
      <3> QED BY <1>3, <3>1
    <2> QED BY <2>1, <2>2
  <1> HIDE DEF rest
  <1>5. /\ effs \in Seq(EffectRecords) /\ <<last>> \in Seq(EffectRecords)
        /\ \A k \in TrackedKinds : Occurs(k, effs) <=>
              (crosses /\ k = "PersistCompletion") \/ k = "FinalizeRecording"
    <2>1. effs \in Seq(EffectRecords) /\ <<last>> \in Seq(EffectRecords)
      BY <1>2, <1>4, SMTT(30)
    <2>2. ASSUME NEW k \in TrackedKinds
          PROVE  Occurs(k, effs) <=>
                    (crosses /\ k = "PersistCompletion") \/ k = "FinalizeRecording"
      <3>1. Occurs(k, effs) <=> Occurs(k, rest) \/ Occurs(k, <<last>>)
        BY <1>2, <1>4, <2>1, OccursIn
      <3>2. Occurs(k, <<last>>) <=> last.kind = k
        BY <1>2, <1>4, OccursIn
      <3> QED BY <1>2, <1>4, <3>1, <3>2
    <2> QED BY <2>1, <2>2
  <1>6. \A i \in DOMAIN effs : i \in 1..(Len(rest) + 1)
    BY <1>2, <1>4, SMTT(30)
  <1>7. \A i \in 1..Len(rest) : effs[i].kind # "FinalizeRecording"
    <2>1. \A i \in 1..Len(rest) : effs[i] = rest[i]
      BY <1>2, <1>4, SMTT(30)
    <2>2. ~Occurs("FinalizeRecording", rest)
      BY <1>4 DEF TrackedKinds
    <2> QED BY <1>4, <2>1, <2>2, SMTT(30) DEF Occurs
  <1>8. effs[Len(rest) + 1] = last /\ Len(rest) \in Nat
    BY <1>2, <1>4, SMTT(30)
  <1> HIDE DEF effs
  <1>9. /\ effects' = effs
        /\ issued'["PrepareRecording"] = issued["PrepareRecording"]
        /\ issued'["FinalizeRecording"] = issued["FinalizeRecording"] + 1
        /\ issued'["ShutdownApp"] = issued["ShutdownApp"]
        /\ crosses => issued'["PersistCompletion"] = issued["PersistCompletion"] + 1
        /\ ~crosses => issued'["PersistCompletion"] = issued["PersistCompletion"]
    BY <1>1, <1>5, AcceptCounts DEF TrackedKinds
  <1>10. /\ phase \in {"Preparing", "Active"}
         /\ issued["PersistCompletion"] = IF completion = "NotReached" THEN 0 ELSE 1
    BY DEF StopRecording, IssuedInv, RecordingLifecycle, Live, FreshWhilePreparing
  <1>11. /\ crosses => completion = "NotReached" /\ completion' # "NotReached"
         /\ ~crosses => completion' = completion
    BY DEF StopRecording, AdvanceActiveTime, Crosses, crosses
  <1>12. last.reached = (completion' # "NotReached")
    BY <1>2, <1>11 DEF reached
  <1>13. issued'["PersistCompletion"] = IF completion' = "NotReached" THEN 0 ELSE 1
    BY <1>9, <1>10, <1>11, SMTT(30)
  <1>14. ASSUME NEW j \in DOMAIN effects', effects'[j].kind = "FinalizeRecording"
         PROVE  /\ \A i \in DOMAIN effects' : effects'[i].kind = "PersistCompletion" => i < j
                /\ effects'[j].reached = (completion' # "NotReached")
    <2>1. j = Len(rest) + 1
      BY <1>6, <1>7, <1>8, <1>9, <1>14, SMTT(30)
    <2>2. effects'[j].reached = (completion' # "NotReached")
      BY <1>8, <1>9, <1>12, <2>1
    <2>3. ASSUME NEW i \in DOMAIN effects', effects'[i].kind = "PersistCompletion"
          PROVE  i < j
      <3>1. i # j
        BY <1>14, <2>3
      <3> QED BY <1>6, <1>8, <1>9, <2>1, <2>3, <3>1, SMTT(30)
    <2> QED BY <2>2, <2>3
  <1>15. /\ issued["PrepareRecording"] = 1 /\ issued["FinalizeRecording"] = 0
         /\ issued["ShutdownApp"] = 0
    BY <1>10 DEF IssuedInv, RecordingLifecycle
  <1> QED BY <1>9, <1>13, <1>14, <1>15, SMTT(30) DEF IssuedInv, RecordingLifecycle, Live

\* The same, for every time and kind.
LEMMA AdvanceAlways ==
  \A at, k : /\ AdvanceEffects(at) \in Seq(EffectRecords)
             /\ Occurs(k, AdvanceEffects(at)) <=> (Crosses(at) /\ k = "PersistCompletion")
  BY AdvanceOccurs

\* The kinds the lifecycle does not count.
PlainKinds == EffectKinds \ TrackedKinds

\* A single effect of an uncounted kind.
LEMMA PlainEffect ==
  ASSUME NEW kind \in PlainKinds, NEW detail \in EffectDetails
  PROVE  /\ Effect(kind, detail) \in EffectRecords
         /\ <<Effect(kind, detail)>> \in Seq(EffectRecords)
         /\ \A k \in TrackedKinds : ~Occurs(k, <<Effect(kind, detail)>>)
         /\ \A k \in TrackedKinds : Effect(kind, detail).kind # k
  <1>1. Effect(kind, detail) \in EffectRecords /\ Effect(kind, detail).kind = kind
    BY EffectTypes DEF PlainKinds
  <1>2. \A k \in TrackedKinds : Effect(kind, detail).kind # k
    BY <1>1 DEF PlainKinds
  <1>3. PICK e \in EffectRecords : e = Effect(kind, detail)
    BY <1>1
  <1>4. <<e>> \in Seq(EffectRecords) /\ <<>> \in Seq(EffectRecords)
    BY SMTT(30)
  <1>5. ASSUME NEW k \in TrackedKinds PROVE ~Occurs(k, <<e>>)
    BY <1>2, <1>3, <1>4, OccursIn
  <1> QED BY <1>1, <1>2, <1>3, <1>4, <1>5

\* What a crediting command lists, with an uncounted effect or list appended.
LEMMA CreditOccurs ==
  ASSUME NEW at, NEW t \in Seq(EffectRecords), \A k \in TrackedKinds : ~Occurs(k, t),
         NEW e \in EffectRecords, \A k \in TrackedKinds : e.kind # k
  PROVE  \A k \in TrackedKinds :
           /\ Occurs(k, AdvanceEffects(at)) <=> Crosses(at) /\ k = "PersistCompletion"
           /\ Occurs(k, AdvanceEffects(at) \o t) <=>
                 Crosses(at) /\ k = "PersistCompletion"
           /\ Occurs(k, Append(AdvanceEffects(at), e)) <=>
                 Crosses(at) /\ k = "PersistCompletion"
  <1> SUFFICES ASSUME NEW k \in TrackedKinds
               PROVE  /\ Occurs(k, AdvanceEffects(at)) <=>
                            Crosses(at) /\ k = "PersistCompletion"
                      /\ Occurs(k, AdvanceEffects(at) \o t) <=>
                            Crosses(at) /\ k = "PersistCompletion"
                      /\ Occurs(k, Append(AdvanceEffects(at), e)) <=>
                            Crosses(at) /\ k = "PersistCompletion"
    OBVIOUS
  <1>1. /\ AdvanceEffects(at) \in Seq(EffectRecords)
        /\ Occurs(k, AdvanceEffects(at)) <=> Crosses(at) /\ k = "PersistCompletion"
    BY AdvanceAlways, SMTT(30)
  <1>2. /\ Occurs(k, AdvanceEffects(at) \o t) <=>
              Occurs(k, AdvanceEffects(at)) \/ Occurs(k, t)
        /\ Occurs(k, Append(AdvanceEffects(at), e)) <=>
              Occurs(k, AdvanceEffects(at)) \/ e.kind = k
    BY <1>1, OccursIn
  <1> QED BY <1>1, <1>2

\* An uncounted list followed by another one.
LEMMA PlainConcat ==
  ASSUME NEW s \in Seq(EffectRecords), \A k \in TrackedKinds : ~Occurs(k, s),
         NEW t \in Seq(EffectRecords), \A k \in TrackedKinds : ~Occurs(k, t)
  PROVE  s \o t \in Seq(EffectRecords) /\ \A k \in TrackedKinds : ~Occurs(k, s \o t)
  <1>1. s \o t \in Seq(EffectRecords)
    BY SMTT(30)
  <1>2. ASSUME NEW k \in TrackedKinds PROVE ~Occurs(k, s \o t)
    <2>1. PICK e : e \in EffectRecords
      <3>1. "DisarmKiosk" \in PlainKinds /\ "none" \in EffectDetails
        BY DEF PlainKinds, EffectKinds, EffectDetails, TrackedKinds
      <3> QED BY <3>1, PlainEffect
    <2> QED BY <2>1, OccursIn
  <1> QED BY <1>1, <1>2

\* An empty list counts nothing.
LEMMA NoEffects == <<>> \in Seq(EffectRecords) /\ \A k : ~Occurs(k, <<>>)
  BY SMTT(30) DEF Occurs

\* The two effects that lead back to waiting.
LEMMA ReturnEffects ==
  \A k \in TrackedKinds :
     ~Occurs(k, <<Effect("ResetRuntimeDefaults", "none"), Effect(ReturnRoute, "none")>>)
  <1> SUFFICES ASSUME NEW k \in TrackedKinds,
                      Occurs(k, <<Effect("ResetRuntimeDefaults", "none"),
                                  Effect(ReturnRoute, "none")>>)
               PROVE  FALSE
    OBVIOUS
  <1>1. k \in {"ResetRuntimeDefaults", ReturnRoute}
    BY SMTT(30) DEF Occurs, Effect
  <1> QED BY <1>1 DEF ReturnRoute, TrackedKinds

\* The one effect that ends the application, alone or after disarming the kiosk.
LEMMA ShutdownEffects ==
  \A k \in TrackedKinds :
     /\ Occurs(k, <<Effect("ShutdownApp", "none")>>) <=> k = "ShutdownApp"
     /\ Occurs(k, Append(<<Effect("DisarmKiosk", "none")>>, Effect("ShutdownApp", "none")))
           <=> k = "ShutdownApp"
  <1> SUFFICES ASSUME NEW k \in TrackedKinds
               PROVE  /\ Occurs(k, <<Effect("ShutdownApp", "none")>>) <=> k = "ShutdownApp"
                      /\ Occurs(k, Append(<<Effect("DisarmKiosk", "none")>>,
                                          Effect("ShutdownApp", "none")))
                            <=> k = "ShutdownApp"
    OBVIOUS
  <1>1. /\ "DisarmKiosk" \in PlainKinds /\ "ShutdownApp" \in EffectKinds
        /\ "none" \in EffectDetails
    BY DEF PlainKinds, EffectKinds, EffectDetails, TrackedKinds
  <1>2. PICK s \in Seq(EffectRecords) :
           s = <<Effect("DisarmKiosk", "none")>> /\ ~Occurs(k, s)
    BY <1>1, PlainEffect
  <1>3. PICK e \in EffectRecords : e = Effect("ShutdownApp", "none") /\ e.kind = "ShutdownApp"
    BY <1>1, EffectTypes
  <1>4. /\ Occurs(k, <<e>>) <=> e.kind = k
        /\ Occurs(k, Append(s, e)) <=> Occurs(k, s) \/ e.kind = k
    BY <1>2, OccursIn
  <1> QED BY <1>2, <1>3, <1>4

\* Exit keeps the lifecycle, whatever state it meets the session in.
LEMMA ExitIssued ==
  ASSUME TimeInv, IssuedInv, NEW at \in Times, NEW reason \in StopReasons, Exit(at, reason)
  PROVE  IssuedInv'
  <1>1. TypeOK /\ FreshWhilePreparing /\ (phase = "Preparing" => completion = "NotReached")
    BY DEF TimeInv, FreshWhilePreparing
  <1>2. "DisarmKiosk" \in PlainKinds /\ "none" \in EffectDetails
    BY DEF PlainKinds, EffectKinds, EffectDetails, TrackedKinds
  <1>3. PICK disarm \in Seq(EffectRecords) :
           /\ disarm = <<Effect("DisarmKiosk", "none")>>
           /\ \A k \in TrackedKinds : ~Occurs(k, disarm)
    BY <1>2, PlainEffect
  <1>4. CASE /\ phase \in {"Closed", "Exiting"} /\ Accept(at, disarm)
             /\ phase' = phase /\ completion' = completion
    BY <1>1, <1>3, <1>4, PlainCommand
  <1>5. CASE /\ phase = "FinalizingRestart" /\ phase' = "Exiting" /\ Accept(at, disarm)
             /\ completion' = completion
    BY <1>1, <1>3, <1>5, PlainCommand
  <1>6. CASE StopRecording(at, disarm, reason) /\ phase' = "Exiting"
    BY <1>1, <1>3, <1>6, StoppingCommand
  <1>7. CASE /\ phase = "Idle" /\ phase' = "Closed"
             /\ Accept(at, Append(disarm, Effect("ShutdownApp", "none")))
    BY <1>1, <1>3, <1>7, ShutdownEffects, ClosingCommand
  <1> QED BY <1>3, <1>4, <1>5, <1>6, <1>7 DEF Exit

\* finish_terminal_transition keeps the lifecycle.
LEMMA FinishIssued ==
  ASSUME TimeInv, IssuedInv, NEW at \in Times, FinishTerminal(at)
  PROVE  IssuedInv'
  <1>1. TypeOK
    BY DEF TimeInv
  <1>2. CASE phase = "FinalizingRestart"
    <2>1. /\ phase' = "Idle"
          /\ Accept(at, <<Effect("ResetRuntimeDefaults", "none"),
                          Effect(ReturnRoute, "none")>>)
      BY <1>2 DEF FinishTerminal
    <2> QED BY <1>1, <1>2, <2>1, ReturnEffects, PlainCommand
  <1>3. CASE phase = "Exiting"
    <2>1. phase' = "Closed" /\ Accept(at, <<Effect("ShutdownApp", "none")>>)
      BY <1>3 DEF FinishTerminal
    <2> QED BY <1>1, <1>3, <2>1, ShutdownEffects, ClosingCommand
  <1> QED BY <1>2, <1>3 DEF FinishTerminal

\* The initial state has issued nothing.
LEMMA IssuedInit == Init => IssuedInv
  <1>1. "PrepareRecording" \in TrackedKinds /\ "ShutdownApp" \in TrackedKinds
    BY DEF TrackedKinds
  <1> QED BY <1>1, SMTT(30) DEF Init, IssuedInv, RecordingLifecycle, Live

\* One step per command: the lifecycle is kept.
LEMMA IssuedStep ==
  ASSUME TimeInv, IssuedInv, [Next]_vars
  PROVE  IssuedInv'
  <1>0. /\ TypeOK /\ FreshWhilePreparing
        /\ phase = "Preparing" => completion = "NotReached"
    BY DEF TimeInv, FreshWhilePreparing
  <1>99. /\ "none" \in EffectDetails /\ "Armed" \in EffectDetails
         /\ "OfficialStart" \in EffectDetails /\ "ExperimentResumed" \in EffectDetails
         /\ "ExperimentPaused" \in EffectDetails
         /\ "RecordControl" \in PlainKinds /\ "RecordPresentation" \in PlainKinds
         /\ "RecordAudioStarted" \in PlainKinds /\ "RecordAudioEnded" \in PlainKinds
         /\ "RecordAudioError" \in PlainKinds /\ "DisarmKiosk" \in PlainKinds
         /\ PresentationStates \subseteq EffectDetails
    BY DEF PlainKinds, EffectKinds, EffectDetails, TrackedKinds
  <1>1. ASSUME NEW p \in PresentationStates, ObservePreparationPresentation(p)
        PROVE  IssuedInv'
    BY <1>1 DEF ObservePreparationPresentation, IssuedInv, RecordingLifecycle, Live,
       historyVars
  <1>2. ASSUME NEW at \in Times, NEW explicit \in BOOLEAN, NEW c \in Conditions,
               NEW th \in Thresholds, Arm(at, explicit, c, th)
        PROVE  IssuedInv'
    <2>1. /\ issued'["PrepareRecording"] = 1 /\ issued'["FinalizeRecording"] = 0
          /\ issued'["PersistCompletion"] = 0 /\ issued'["ShutdownApp"] = 0
      BY <1>2 DEF Arm, TrackedKinds
    <2>2. phase' = "Preparing" /\ effects' = <<Effect("PrepareRecording", "none")>>
      BY <1>2 DEF Arm
    <2>3. \A j \in DOMAIN effects' : effects'[j].kind # "FinalizeRecording"
      BY <2>2, SMTT(30) DEF Effect
    <2> QED BY <2>1, <2>2, <2>3 DEF IssuedInv, RecordingLifecycle, Live
  <1>3. ASSUME NEW at \in Times, Pause(at)
        PROVE  IssuedInv'
    <2>1. /\ phase = "Active" /\ phase' = "Active" /\ AdvanceActiveTime(at)
          /\ Accept(at, Append(AdvanceEffects(at), Effect("RecordControl", "ExperimentPaused")))
      BY <1>3 DEF Pause
    <2>2. /\ Effect("RecordControl", "ExperimentPaused") \in EffectRecords
          /\ \A k \in TrackedKinds : Effect("RecordControl", "ExperimentPaused").kind # k
      BY <1>99, PlainEffect
    <2>3. \A k \in TrackedKinds :
             Occurs(k, Append(AdvanceEffects(at), Effect("RecordControl", "ExperimentPaused"))) <=>
                Crosses(at) /\ k = "PersistCompletion"
      BY <2>2, NoEffects, CreditOccurs
    <2> QED BY <1>0, <2>1, <2>3, CreditingCommand
  <1>4. ASSUME NEW at \in Times, OfficialStart(at)
        PROVE  IssuedInv'
    <2>1. /\ phase = "Active" /\ phase' = "Active" /\ AdvanceActiveTime(at)
          /\ Accept(at, Append(AdvanceEffects(at), Effect("RecordControl", "OfficialStart")))
      BY <1>4 DEF OfficialStart, EnterRunning
    <2>2. /\ Effect("RecordControl", "OfficialStart") \in EffectRecords
          /\ \A k \in TrackedKinds : Effect("RecordControl", "OfficialStart").kind # k
      BY <1>99, PlainEffect
    <2>3. \A k \in TrackedKinds :
             Occurs(k, Append(AdvanceEffects(at), Effect("RecordControl", "OfficialStart"))) <=>
                Crosses(at) /\ k = "PersistCompletion"
      BY <2>2, NoEffects, CreditOccurs
    <2> QED BY <1>0, <2>1, <2>3, CreditingCommand
  <1>5. ASSUME NEW at \in Times, Resume(at)
        PROVE  IssuedInv'
    <2>1. /\ phase = "Active" /\ phase' = "Active" /\ AdvanceActiveTime(at)
          /\ Accept(at, Append(AdvanceEffects(at), Effect("RecordControl", "ExperimentResumed")))
      BY <1>5 DEF Resume, EnterRunning
    <2>2. /\ Effect("RecordControl", "ExperimentResumed") \in EffectRecords
          /\ \A k \in TrackedKinds : Effect("RecordControl", "ExperimentResumed").kind # k
      BY <1>99, PlainEffect
    <2>3. \A k \in TrackedKinds :
             Occurs(k, Append(AdvanceEffects(at), Effect("RecordControl", "ExperimentResumed"))) <=>
                Crosses(at) /\ k = "PersistCompletion"
      BY <2>2, NoEffects, CreditOccurs
    <2> QED BY <1>0, <2>1, <2>3, CreditingCommand
  <1>6. ASSUME NEW at \in Times, Tick(at)
        PROVE  IssuedInv'
    <2>1. /\ phase = "Active" /\ phase' = "Active" /\ AdvanceActiveTime(at)
          /\ Accept(at, AdvanceEffects(at))
      BY <1>6 DEF Tick
    <2>2. \A k \in TrackedKinds : Occurs(k, AdvanceEffects(at)) <=>
                                     Crosses(at) /\ k = "PersistCompletion"
      BY AdvanceAlways, SMTT(30)
    <2> QED BY <1>0, <2>1, <2>2, CreditingCommand
  <1>7. ASSUME NEW at \in Times, AudioStarted(at)
        PROVE  IssuedInv'
    <2> DEFINE row == IF audioStarted THEN <<>> ELSE <<Effect("RecordAudioStarted", "none")>>
    <2>1. /\ phase = "Active" /\ phase' = "Active" /\ AdvanceActiveTime(at)
          /\ Accept(at, AdvanceEffects(at) \o row)
      BY <1>7 DEF AudioStarted
    <2>2. /\ row \in Seq(EffectRecords)
          /\ \A k \in TrackedKinds : ~Occurs(k, row)
      BY <1>99, PlainEffect, NoEffects
    <2> HIDE DEF row
    <2>3. PICK e \in EffectRecords : \A k \in TrackedKinds : e.kind # k
      BY <1>99, PlainEffect
    <2>4. \A k \in TrackedKinds : Occurs(k, AdvanceEffects(at) \o row) <=>
                                     Crosses(at) /\ k = "PersistCompletion"
      BY <2>2, <2>3, CreditOccurs
    <2> QED BY <1>0, <2>1, <2>4, CreditingCommand
  <1>8. ASSUME NEW at \in Times, AudioEnded(at)
        PROVE  IssuedInv'
    <2> DEFINE row == IF audioEnded THEN <<>> ELSE <<Effect("RecordAudioEnded", "none")>>
    <2>1. /\ phase = "Active" /\ phase' = "Active" /\ AdvanceActiveTime(at)
          /\ Accept(at, AdvanceEffects(at) \o row)
      BY <1>8 DEF AudioEnded
    <2>2. /\ row \in Seq(EffectRecords)
          /\ \A k \in TrackedKinds : ~Occurs(k, row)
      BY <1>99, PlainEffect, NoEffects
    <2> HIDE DEF row
    <2>3. PICK e \in EffectRecords : \A k \in TrackedKinds : e.kind # k
      BY <1>99, PlainEffect
    <2>4. \A k \in TrackedKinds : Occurs(k, AdvanceEffects(at) \o row) <=>
                                     Crosses(at) /\ k = "PersistCompletion"
      BY <2>2, <2>3, CreditOccurs
    <2> QED BY <1>0, <2>1, <2>4, CreditingCommand
  <1>9. ASSUME NEW at \in Times, AudioError(at)
        PROVE  IssuedInv'
    <2> DEFINE row == IF audioError THEN <<>> ELSE <<Effect("RecordAudioError", "none")>>
               hold == IF explicitStart /\ controlState = "Running"
                       THEN <<Effect("RecordControl", "ExperimentPaused")>> ELSE <<>>
    <2>1. /\ phase = "Active" /\ phase' = "Active" /\ AdvanceActiveTime(at)
          /\ Accept(at, (AdvanceEffects(at) \o row) \o hold)
      BY <1>9 DEF AudioError
    <2>2. row \in Seq(EffectRecords) /\ \A k \in TrackedKinds : ~Occurs(k, row)
      BY <1>99, PlainEffect, NoEffects
    <2>3. hold \in Seq(EffectRecords) /\ \A k \in TrackedKinds : ~Occurs(k, hold)
      BY <1>99, PlainEffect, NoEffects
    <2> HIDE DEF row, hold
    <2>4. AdvanceEffects(at) \in Seq(EffectRecords)
      BY AdvanceAlways
    <2>5. (AdvanceEffects(at) \o row) \o hold = AdvanceEffects(at) \o (row \o hold)
      BY <2>2, <2>3, <2>4, SMTT(30)
    <2>6. row \o hold \in Seq(EffectRecords) /\ \A k \in TrackedKinds : ~Occurs(k, row \o hold)
      BY <2>2, <2>3, PlainConcat
    <2>7. PICK e \in EffectRecords : \A k \in TrackedKinds : e.kind # k
      BY <1>99, PlainEffect
    <2>8. \A k \in TrackedKinds : Occurs(k, AdvanceEffects(at) \o (row \o hold)) <=>
                                     Crosses(at) /\ k = "PersistCompletion"
      BY <2>6, <2>7, CreditOccurs
    <2> QED BY <1>0, <2>1, <2>5, <2>8, CreditingCommand
  <1>10. ASSUME NEW at \in Times, NEW p \in PresentationStates, PresentationChanged(at, p)
         PROVE  IssuedInv'
    <2>1. CASE phase = "Active"
      <3>1. /\ phase' = "Active" /\ AdvanceActiveTime(at)
            /\ Accept(at, Append(AdvanceEffects(at), Effect("RecordPresentation", p)))
        BY <1>10, <2>1 DEF PresentationChanged
      <3>2. /\ Effect("RecordPresentation", p) \in EffectRecords
            /\ \A k \in TrackedKinds : Effect("RecordPresentation", p).kind # k
        BY <1>10, <1>99, PlainEffect
      <3>3. \A k \in TrackedKinds :
               Occurs(k, Append(AdvanceEffects(at), Effect("RecordPresentation", p))) <=>
                  Crosses(at) /\ k = "PersistCompletion"
        BY <3>2, NoEffects, CreditOccurs
      <3> QED BY <1>0, <2>1, <3>1, <3>3, CreditingCommand
    <2>2. CASE phase # "Active"
      <3>1. Accept(at, <<>>) /\ phase' = phase /\ completion' = completion
        BY <1>10, <2>2 DEF PresentationChanged
      <3> QED BY <1>0, <3>1, NoEffects, PlainCommand
    <2> QED BY <2>1, <2>2
  <1>11. ASSUME NEW at \in Times, RecordingPrepared(at)
         PROVE  IssuedInv'
    <2>1. /\ Accept(at, <<>>) /\ phase = "Preparing" /\ phase' = "Active"
          /\ completion' = completion
      BY <1>11 DEF RecordingPrepared
    <2> QED BY <1>0, <2>1, NoEffects, PlainCommand
  <1>12. ASSUME NEW at \in Times, NEW e \in RecordingFailures, RecordingPrepareFailed(at, e)
         PROVE  IssuedInv'
    <2>1. CASE phase = "Preparing"
      <3>1. /\ phase' = "Idle" /\ completion' = completion
            /\ Accept(at, <<Effect("ResetRuntimeDefaults", "none"),
                            Effect(ReturnRoute, "none")>>)
        BY <1>12, <2>1 DEF RecordingPrepareFailed
      <3> QED BY <1>0, <2>1, <3>1, ReturnEffects, PlainCommand
    <2>2. CASE phase = "Exiting"
      <3>1. phase' = "Closed" /\ Accept(at, <<Effect("ShutdownApp", "none")>>)
        BY <1>12, <2>2 DEF RecordingPrepareFailed
      <3> QED BY <1>0, <2>2, <3>1, ShutdownEffects, ClosingCommand
    <2> QED BY <1>12, <2>1, <2>2 DEF RecordingPrepareFailed
  <1>13. ASSUME NEW at \in Times, AudioPrepared(at)
         PROVE  IssuedInv'
    <2>1. /\ Accept(at, <<Effect("RecordControl", "Armed")>>) /\ phase' = phase
          /\ completion' = completion
      BY <1>13 DEF AudioPrepared
    <2>2. \A k \in TrackedKinds : ~Occurs(k, <<Effect("RecordControl", "Armed")>>)
      BY <1>99, PlainEffect
    <2> QED BY <1>0, <2>1, <2>2, PlainCommand
  <1>14. ASSUME NEW at \in Times, CompletionDurable(at)
         PROVE  IssuedInv'
    <2>1. /\ Accept(at, <<>>) /\ phase' = phase
          /\ completion' # "NotReached" /\ completion # "NotReached"
      BY <1>14 DEF CompletionDurable
    <2> QED BY <1>0, <2>1, NoEffects, PlainCommand
  <1>15. ASSUME NEW at \in Times, RestartToExperimenter(at)
         PROVE  IssuedInv'
    <2>1. /\ StopRecording(at, <<>>, "RestartToExperimenter")
          /\ phase' \in {"FinalizingRestart", "Exiting"}
          /\ "RestartToExperimenter" \in StopReasons
      BY <1>15 DEF RestartToExperimenter, StopReasons
    <2> QED BY <1>0, <2>1, NoEffects, StoppingCommand
  <1>16. ASSUME NEW at \in Times, SaveAndExit(at)
         PROVE  IssuedInv'
    <2>1. "SaveAndExit" \in StopReasons
      BY DEF StopReasons
    <2> QED BY <1>16, <2>1, ExitIssued DEF SaveAndExit
  <1>17. ASSUME NEW at \in Times, ImmersiveOwnerDestroyed(at)
         PROVE  IssuedInv'
    <2>1. "InterruptedRecovery" \in StopReasons
      BY DEF StopReasons
    <2> QED BY <1>17, <2>1, ExitIssued DEF ImmersiveOwnerDestroyed
  <1>18. ASSUME NEW at \in Times, NEW d \in BOOLEAN, NEW sv \in BOOLEAN,
                RecordingFinalized(at, d, sv)
         PROVE  IssuedInv'
    BY <1>18, FinishIssued DEF RecordingFinalized
  <1>19. ASSUME NEW at \in Times, NEW d \in BOOLEAN,
                NEW e \in RecordingFailures, RecordingFinalizationFailed(at, d, e)
         PROVE  IssuedInv'
    BY <1>19, FinishIssued DEF RecordingFinalizationFailed
  <1>20. CASE UNCHANGED vars
    BY <1>20 DEF vars, IssuedInv, RecordingLifecycle, Live
  <1> QED
    BY <1>1, <1>2, <1>3, <1>4, <1>5, <1>6, <1>7, <1>8, <1>9, <1>10, <1>11,
       <1>12, <1>13, <1>14, <1>15, <1>16, <1>17, <1>18, <1>19, <1>20 DEF Next

\* Per session the recording is prepared once, finalized at most once and after the
\* completion it may have crossed was persisted, and the application is shut down
\* exactly when the session closes.
THEOREM RecordingIsFinalizedOnce == Spec => []RecordingLifecycle
  <1>1. IssuedInv => RecordingLifecycle
    BY DEF IssuedInv
  <1>2. TimeInv /\ IssuedInv /\ [Next]_vars => IssuedInv'
    BY IssuedStep
  <1> QED BY <1>1, <1>2, IssuedInit, TimeInvariant, PTL DEF Spec

-----------------------------------------------------------------------------
\* What the audio hold and the clean wait need to be inductive: a session that is
\* preparing has no audio rows yet, and an explicitly started one is only armed or
\* paused after its audio was prepared.
HoldInv ==
    /\ IdleIsClean /\ AudioHold
    /\ phase = "Preparing" => ~audioStarted /\ ~audioEnded /\ ~audioError
    /\ phase = "Active" /\ explicitStart /\ controlState \in {"Armed", "Paused"} =>
          audioPrepared

\* The audio hold and the clean wait survive every command.
LEMMA HoldStep ==
  ASSUME TimeInv, HoldInv, [Next]_vars
  PROVE  HoldInv'
  <1> USE DEF HoldInv, IdleIsClean, AudioHold
  <1>1. ASSUME NEW p \in PresentationStates, ObservePreparationPresentation(p)
        PROVE  HoldInv'
    BY <1>1 DEF ObservePreparationPresentation, setupVars, timeVars, audioVars
  <1>2. ASSUME NEW at \in Times, NEW explicit \in BOOLEAN, NEW c \in Conditions,
               NEW th \in Thresholds, Arm(at, explicit, c, th)
        PROVE  HoldInv'
    BY <1>2 DEF Arm
  <1>3. ASSUME NEW at \in Times, Pause(at)
        PROVE  HoldInv'
    BY <1>3 DEF Pause, setupVars, audioVars
  <1>4. ASSUME NEW at \in Times, OfficialStart(at) \/ Resume(at)
        PROVE  HoldInv'
    BY <1>4, SMTT(30) DEF OfficialStart, Resume, EnterRunning, setupVars
  <1>5. ASSUME NEW at \in Times, NEW p \in PresentationStates, PresentationChanged(at, p)
        PROVE  HoldInv'
    BY <1>5 DEF PresentationChanged, setupVars, audioVars, timeVars
  <1>6. ASSUME NEW at \in Times, Tick(at)
        PROVE  HoldInv'
    BY <1>6 DEF Tick, setupVars, audioVars
  <1>7. ASSUME NEW at \in Times, AudioStarted(at) \/ AudioEnded(at)
        PROVE  HoldInv'
    BY <1>7, SMTT(30) DEF AudioStarted, AudioEnded, setupVars
  <1>8. ASSUME NEW at \in Times, AudioError(at)
        PROVE  HoldInv'
    BY <1>8 DEF AudioError, setupVars
  <1>9. ASSUME NEW at \in Times, RecordingPrepared(at)
        PROVE  HoldInv'
    BY <1>9 DEF RecordingPrepared, setupVars
  <1>10. ASSUME NEW at \in Times, NEW e \in RecordingFailures, RecordingPrepareFailed(at, e)
         PROVE  HoldInv'
    <2>1. phase = "Preparing" =>
             activeSince = NoTime /\ activeTime = 0 /\ completion = "NotReached"
      BY DEF TimeInv, FreshWhilePreparing, ActiveTimeExact
    <2> QED BY <1>10, <2>1 DEF RecordingPrepareFailed, timeVars, audioVars
  <1>11. ASSUME NEW at \in Times, AudioPrepared(at)
         PROVE  HoldInv'
    BY <1>11 DEF AudioPrepared, setupVars
  <1>12. ASSUME NEW at \in Times, CompletionDurable(at)
         PROVE  HoldInv'
    BY <1>12 DEF CompletionDurable, setupVars, audioVars
  <1>13. ASSUME NEW at \in Times, RestartToExperimenter(at)
         PROVE  HoldInv'
    BY <1>13 DEF RestartToExperimenter
  <1>14. ASSUME NEW at \in Times, NEW reason, Exit(at, reason)
         PROVE  HoldInv'
    BY <1>14 DEF Exit
  <1>15. ASSUME NEW at \in Times, FinishTerminal(at)
         PROVE  HoldInv'
    <2>1. activeSince' = NoTime
      BY <1>15 DEF FinishTerminal, TimeInv, ActiveTimeExact
    <2> QED BY <1>15, <2>1 DEF FinishTerminal
  <1>16. CASE UNCHANGED vars
    BY <1>16 DEF vars
  <1> QED
    BY <1>1, <1>2, <1>3, <1>4, <1>5, <1>6, <1>7, <1>8, <1>9, <1>10, <1>11, <1>12,
       <1>13, <1>14, <1>15, <1>16
       DEF Next, SaveAndExit, ImmersiveOwnerDestroyed, RecordingFinalized,
           RecordingFinalizationFailed

\* The hold invariant holds in every reachable state.
THEOREM HoldInvariant == Spec => []HoldInv
  <1>1. Init => HoldInv
    BY DEF Init, HoldInv, IdleIsClean, AudioHold
  <1>2. TimeInv /\ HoldInv /\ [Next]_vars => HoldInv'
    BY HoldStep
  <1> QED BY <1>1, <1>2, TimeInvariant, PTL DEF Spec

\* An explicitly started experiment never runs without prepared audio or over an
\* audio error that was not resumed from: Resume and OfficialStart are its only ways
\* to run, and both come after AudioPrepared.
THEOREM HoldIsKept == Spec => []AudioHold
  <1>1. HoldInv => AudioHold
    BY DEF HoldInv
  <1> QED BY <1>1, HoldInvariant, PTL

\* Nothing of an ended session is left when the next one may start: a failed
\* preparation and a finished restart both lead to a clean wait.
THEOREM WaitingIsClean == Spec => []IdleIsClean
  <1>1. HoldInv => IdleIsClean
    BY DEF HoldInv
  <1> QED BY <1>1, HoldInvariant, PTL

\* The step property of ExitIsFinal.
ExitKept ==
    /\ phase = "Exiting" => phase' \in {"Exiting", "Closed"}
    /\ phase = "Closed" => UNCHANGED <<phase, recordingResult, generation>>

\* An accepted exit wins over whatever was under way, and a closed session is over.
THEOREM ExitWins == Spec => ExitIsFinal
  <1>1. ASSUME [Next]_vars PROVE [ExitKept]_vars
    <2> SUFFICES ASSUME Next PROVE ExitKept
      BY <1>1
    <2>1. ASSUME NEW p \in PresentationStates, ObservePreparationPresentation(p)
          PROVE  ExitKept
      BY <2>1 DEF ObservePreparationPresentation, ExitKept
    <2>2. ASSUME NEW at \in Times, NEW explicit \in BOOLEAN, NEW c \in Conditions,
                 NEW th \in Thresholds, Arm(at, explicit, c, th)
          PROVE  ExitKept
      BY <2>2 DEF Arm, ExitKept
    <2>3. ASSUME NEW at \in Times, NEW p \in PresentationStates, PresentationChanged(at, p)
          PROVE  ExitKept
      BY <2>3 DEF PresentationChanged, ExitKept
    <2>4. ASSUME NEW at \in Times,
                 \/ Pause(at) \/ OfficialStart(at) \/ Resume(at) \/ Tick(at)
                 \/ AudioPrepared(at) \/ RecordingPrepared(at)
                 \/ AudioStarted(at) \/ AudioEnded(at) \/ AudioError(at)
          PROVE  ExitKept
      <3>1. phase \in {"Preparing", "Active"}
        BY <2>4 DEF Pause, OfficialStart, Resume, Tick, AudioPrepared, RecordingPrepared,
           AudioStarted, AudioEnded, AudioError
      <3> QED BY <3>1 DEF ExitKept
    <2>5. ASSUME NEW at \in Times, NEW e \in RecordingFailures, RecordingPrepareFailed(at, e)
          PROVE  ExitKept
      BY <2>5 DEF RecordingPrepareFailed, ExitKept
    <2>6. ASSUME NEW at \in Times, CompletionDurable(at)
          PROVE  ExitKept
      BY <2>6 DEF CompletionDurable, ExitKept
    <2>7. ASSUME NEW at \in Times, RestartToExperimenter(at)
          PROVE  ExitKept
      BY <2>7 DEF RestartToExperimenter, StopRecording, ExitKept
    <2>8. ASSUME NEW at \in Times, NEW reason, Exit(at, reason)
          PROVE  ExitKept
      BY <2>8 DEF Exit, StopRecording, ExitKept
    <2>9. ASSUME NEW at \in Times, FinishTerminal(at)
          PROVE  ExitKept
      BY <2>9 DEF FinishTerminal, ExitKept
    <2> QED
      BY <2>1, <2>2, <2>3, <2>4, <2>5, <2>6, <2>7, <2>8, <2>9
         DEF Next, SaveAndExit, ImmersiveOwnerDestroyed, RecordingFinalized,
             RecordingFinalizationFailed
  <1> QED BY <1>1, PTL DEF Spec, ExitIsFinal, ExitKept
-----------------------------------------------------------------------------
(* The worker that carries the effects out.  What its four invariants need to *)
(* be inductive: the effects still to be carried out fit the phase the session *)
(* is in, a failure remembered for the finalization is still to meet it, and a *)
(* session that is under way has no result yet.                                *)

RecordKinds == {"RecordControl", "RecordPresentation", "RecordAudioStarted",
                "RecordAudioEnded", "RecordAudioError"}
WaitKinds == {"ResetRuntimeDefaults", "ReturnToPreparation", "ShowExperimenter",
              "Cleanup"}
ClosingKinds == {"DisarmKiosk", "ShutdownApp", "Cleanup"}
Stopping == {"FinalizingRestart", "Exiting"}

Todos == [kind : EffectKinds \cup {"Cleanup"}, detail : EffectDetails, reached : BOOLEAN]
Within(s, kinds) == \A i \in DOMAIN s : s[i].kind \in kinds
Credits(s, reached) ==
    \A i \in DOMAIN s : \/ s[i].kind \in RecordKinds
                        \/ s[i].kind = "PersistCompletion" /\ reached
StopsWith(s, reached) ==
    /\ s # <<>>
    /\ s[Len(s)].kind = "FinalizeRecording" /\ s[Len(s)].reached = reached
    /\ \A i \in 1..(Len(s) - 1) : \/ s[i].kind = "DisarmKiosk"
                                  \/ s[i].kind = "PersistCompletion" /\ reached
TodoFits(s, p, reached) ==
    /\ s \in Seq(Todos)
    /\ p = "Preparing" => s = <<Effect("PrepareRecording", "none")>>
    /\ p = "Active" => Credits(s, reached)
    /\ p \in Stopping => StopsWith(s, reached)
    /\ p = "Idle" => Within(s, WaitKinds)
    /\ p = "Closed" => Within(s, ClosingKinds)

Recordings == [generation : Nat, completed : BOOLEAN, fault : BOOLEAN, loss : BOOLEAN,
               bias : Nat, finalizes : Nat]
Lanes == [gate : Nat, active : Nat, bridge : BOOLEAN, bias : Nat]
WorkerTypes ==
    /\ rec \in Recordings /\ lane \in Lanes
    /\ failure \in BOOLEAN /\ uncertain \in BOOLEAN
    /\ todo # <<>> => lastMonotonic \in Times
SessionRecorded ==
    /\ rec.generation = generation /\ rec.finalizes = 0 /\ rec.bias = lane.bias
    /\ lane.gate = generation /\ lane.active = generation /\ lane.bridge
WorkerInv ==
    /\ WorkerTypes /\ TodoFits(todo, phase, completion # "NotReached")
    /\ failure => phase \in Stopping
    /\ phase = "Preparing" => lane = ClosedLane
    /\ phase = "Active" => SessionRecorded
    /\ phase = "Idle" => lane.gate = 0 /\ (lane = ClosedLane \/ Occurs("Cleanup", todo))
    /\ uncertain => \/ phase \in Stopping /\ failure
                    \/ phase \in {"Idle", "Closed"} /\ recordingResult.status = "Unsaved"
    /\ phase \in {"Preparing", "Active"} \cup Stopping => recordingResult = NoResult
    /\ Live /\ rec.completed => completion # "NotReached"
    /\ SavedIsWhole

\* The effects of the reducer are effects the worker carries out.
LEMMA EffectsAreTodos ==
  /\ EffectRecords \subseteq Todos /\ Seq(EffectRecords) \subseteq Seq(Todos)
  /\ Cleanup \in Todos /\ Cleanup.kind = "Cleanup"
  <1>1. EffectRecords \subseteq Todos
    BY DEF EffectRecords, Todos
  <1>2. Seq(EffectRecords) \subseteq Seq(Todos)
    BY <1>1, SMTT(30)
  <1>3. "Cleanup" \in EffectKinds \cup {"Cleanup"} /\ "none" \in EffectDetails
    BY DEF EffectDetails
  <1>4. Cleanup \in Todos /\ Cleanup.kind = "Cleanup"
    BY <1>3 DEF Cleanup, Effect, Todos
  <1> QED BY <1>1, <1>2, <1>4

\* Places in a list of length n.
LEMMA Places ==
  /\ \A n \in Nat \ {0} :
        n # 1 => 1 \in 1..(n - 1) /\ n - 1 \in 1..(n - 1) /\ n - 1 + 1 = n
  /\ \A n \in Nat, i \in Nat : i \in 1..n /\ i # 1 => i - 1 \in 1..(n - 1) /\ i - 1 + 1 = i
  /\ \A n \in Nat : n - 1 = 0 <=> n = 1
  BY SMTT(30)

\* A list without elements is the empty one.
LEMMA EmptyList ==
  ASSUME NEW S, NEW t \in Seq(S)
  PROVE  Len(t) = 0 <=> t = <<>>
  BY SMTT(30)

\* The first element of a list, and the rest.
LEMMA ListParts ==
  ASSUME NEW S, NEW s \in Seq(S), s # <<>>
  PROVE  /\ Len(s) \in Nat \ {0} /\ Head(s) = s[1] /\ Head(s) \in S
         /\ DOMAIN s = 1..Len(s) /\ 1 \in DOMAIN s
         /\ Tail(s) \in Seq(S) /\ Len(Tail(s)) = Len(s) - 1
         /\ DOMAIN Tail(s) = 1..(Len(s) - 1)
         /\ \A i \in 1..(Len(s) - 1) : i + 1 \in 1..Len(s) /\ Tail(s)[i] = s[i + 1]
         /\ Len(s) = 1 <=> Tail(s) = <<>>
  <1>1. Len(s) \in Nat \ {0} /\ DOMAIN s = 1..Len(s) /\ 1 \in DOMAIN s
    BY SMTT(30)
  <1>2. Head(s) = s[1] /\ Head(s) \in S
    BY <1>1, SMTT(30)
  <1>3. /\ Tail(s) \in Seq(S) /\ Len(Tail(s)) = Len(s) - 1
        /\ DOMAIN Tail(s) = 1..(Len(s) - 1)
    BY SMTT(30)
  <1>4. \A i \in 1..(Len(s) - 1) : i + 1 \in 1..Len(s) /\ Tail(s)[i] = s[i + 1]
    BY <1>1, SMTT(30)
  <1>5. Len(s) = 1 <=> Tail(s) = <<>>
    <2>1. Len(Tail(s)) = 0 <=> Tail(s) = <<>>
      BY <1>3, EmptyList
    <2>2. Len(s) \in Nat
      BY SMTT(30)
    <2> QED BY <1>3, <2>1, <2>2, Places
  <1> QED BY <1>1, <1>2, <1>3, <1>4, <1>5

\* What is carried out first tells where the session is.
LEMMA HeadFits ==
  ASSUME NEW s, s # <<>>, NEW p \in SessionPhases, NEW r \in BOOLEAN, TodoFits(s, p, r)
  PROVE  /\ s \in Seq(Todos) /\ Head(s) \in Todos /\ Tail(s) \in Seq(Todos)
         /\ Head(s).kind = "PrepareRecording" => p = "Preparing" /\ Tail(s) = <<>>
         /\ Head(s).kind \in RecordKinds => p = "Active"
         /\ Head(s).kind = "PersistCompletion" => p \in {"Active"} \cup Stopping /\ r
         /\ Head(s).kind = "FinalizeRecording" =>
               p \in Stopping /\ Tail(s) = <<>> /\ Head(s).reached = r
         /\ Head(s).kind = "Cleanup" => p \in {"Idle", "Closed"}
         /\ Head(s).kind = "ShutdownApp" => p = "Closed"
         /\ Head(s).kind \in WaitKinds \cup ClosingKinds =>
               p \in {"Idle", "Closed"} \cup Stopping
  <1>1. /\ s \in Seq(Todos) /\ Len(s) \in Nat \ {0} /\ Head(s) = s[1] /\ 1 \in DOMAIN s
        /\ Head(s) \in Todos /\ Tail(s) \in Seq(Todos)
        /\ Len(s) = 1 => Tail(s) = <<>>
    <2>1. s \in Seq(Todos)
      BY DEF TodoFits
    <2> QED BY <2>1, ListParts
  <1>2. CASE p = "Preparing"
    <2>1. Len(s) = 1 /\ Head(s).kind = "PrepareRecording"
      BY <1>2, SMTT(30) DEF TodoFits, Effect
    <2> QED BY <1>1, <1>2, <2>1 DEF RecordKinds, WaitKinds, ClosingKinds, Stopping
  <1>3. CASE p = "Active"
    BY <1>1, <1>3 DEF TodoFits, Credits, RecordKinds, WaitKinds, ClosingKinds
  <1>4. CASE p \in Stopping
    <2>1. StopsWith(s, r)
      BY <1>4 DEF TodoFits
    <2>2. CASE Len(s) = 1
      <3>1. Head(s).kind = "FinalizeRecording" /\ Head(s).reached = r /\ Tail(s) = <<>>
        BY <1>1, <2>1, <2>2 DEF StopsWith
      <3> QED BY <1>1, <1>4, <3>1 DEF RecordKinds, WaitKinds, ClosingKinds
    <2>3. CASE Len(s) # 1
      <3>0. Len(s) \in Nat \ {0}
        BY <1>1
      <3>1. 1 \in 1..(Len(s) - 1)
        BY <2>3, <3>0, Places
      <3>2. Head(s).kind = "DisarmKiosk" \/ (Head(s).kind = "PersistCompletion" /\ r)
        BY <1>1, <2>1, <3>1 DEF StopsWith
      <3> QED BY <1>1, <1>4, <3>2 DEF RecordKinds, WaitKinds, ClosingKinds
    <2> QED BY <2>2, <2>3
  <1>5. CASE p = "Idle"
    BY <1>1, <1>5 DEF TodoFits, Within, RecordKinds, WaitKinds, ClosingKinds
  <1>6. CASE p = "Closed"
    BY <1>1, <1>6 DEF TodoFits, Within, RecordKinds, WaitKinds, ClosingKinds
  <1> QED BY <1>2, <1>3, <1>4, <1>5, <1>6 DEF SessionPhases, Stopping

\* What is left after the first effect still fits, unless that was the preparation or
\* the finalization.
LEMMA TailFits ==
  ASSUME NEW s, s # <<>>, NEW p \in SessionPhases, NEW r \in BOOLEAN, TodoFits(s, p, r),
         Head(s).kind \notin {"PrepareRecording", "FinalizeRecording"}
  PROVE  TodoFits(Tail(s), p, r)
  <1>1. /\ s \in Seq(Todos) /\ Len(s) \in Nat \ {0} /\ Head(s) = s[1]
        /\ Tail(s) \in Seq(Todos) /\ Len(Tail(s)) = Len(s) - 1
        /\ \A i \in 1..(Len(s) - 1) : i + 1 \in 1..Len(s) /\ Tail(s)[i] = s[i + 1]
        /\ DOMAIN Tail(s) = 1..(Len(s) - 1) /\ DOMAIN s = 1..Len(s)
        /\ Len(s) = 1 <=> Tail(s) = <<>>
    <2>1. s \in Seq(Todos)
      BY DEF TodoFits
    <2> QED BY <2>1, ListParts
  <1>2. p # "Preparing"
    BY SMTT(30) DEF TodoFits, Effect
  <1>3. ASSUME p = "Active" PROVE Credits(Tail(s), r)
    BY <1>1, <1>3 DEF TodoFits, Credits
  <1>4. ASSUME p \in Stopping PROVE StopsWith(Tail(s), r)
    <2>1. StopsWith(s, r)
      BY <1>4 DEF TodoFits
    <2>2. Len(s) # 1
      BY <1>1, <2>1 DEF StopsWith
    <2>3. /\ Len(s) - 1 \in 1..(Len(s) - 1) /\ Tail(s) # <<>>
          /\ Tail(s)[Len(s) - 1] = s[Len(s)]
      <3>1. Len(s) \in Nat \ {0}
        BY <1>1
      <3>2. Len(s) - 1 \in 1..(Len(s) - 1) /\ Len(s) - 1 + 1 = Len(s)
        BY <2>2, <3>1, Places
      <3> QED BY <1>1, <2>2, <3>2
    <2>4. ASSUME NEW i \in 1..(Len(Tail(s)) - 1)
          PROVE  \/ Tail(s)[i].kind = "DisarmKiosk"
                 \/ Tail(s)[i].kind = "PersistCompletion" /\ r
      <3>1. i \in 1..(Len(s) - 1) /\ i + 1 \in 1..(Len(s) - 1)
        BY <1>1, <2>2, SMTT(30)
      <3> QED BY <1>1, <2>1, <3>1 DEF StopsWith
    <2> QED BY <1>1, <2>1, <2>3, <2>4 DEF StopsWith
  <1>5. ASSUME p \in {"Idle", "Closed"}
        PROVE  \A kinds : Within(s, kinds) => Within(Tail(s), kinds)
    BY <1>1 DEF Within
  <1> QED BY <1>1, <1>2, <1>3, <1>4, <1>5 DEF TodoFits

\* A cleanup still to come is not lost to an effect in front of it.
LEMMA CleanupStays ==
  ASSUME NEW s \in Seq(Todos), Occurs("Cleanup", s), Head(s).kind # "Cleanup"
  PROVE  Occurs("Cleanup", Tail(s))
  <1>1. PICK i \in 1..Len(s) : s[i].kind = "Cleanup"
    BY SMTT(30) DEF Occurs
  <1>2. s # <<>> /\ Len(s) \in Nat
    BY <1>1, SMTT(30)
  <1>3. /\ Head(s) = s[1] /\ DOMAIN Tail(s) = 1..(Len(s) - 1)
        /\ \A j \in 1..(Len(s) - 1) : Tail(s)[j] = s[j + 1]
    BY <1>2, ListParts
  <1>4. i # 1
    BY <1>1, <1>3
  <1>5. i - 1 \in 1..(Len(s) - 1) /\ i - 1 + 1 = i
    <2>1. i \in Nat
      BY <1>2, SMTT(30)
    <2> QED BY <1>2, <1>4, <2>1, Places
  <1> QED BY <1>1, <1>3, <1>5 DEF Occurs

\* Lists built by the reducer, end to end.
LEMMA CreditsJoined ==
  ASSUME NEW r \in BOOLEAN, NEW s \in Seq(Todos), Credits(s, r),
         NEW t \in Seq(Todos), Credits(t, r), NEW e \in Todos, e.kind \in RecordKinds
  PROVE  /\ s \o t \in Seq(Todos) /\ Credits(s \o t, r)
         /\ Append(s, e) \in Seq(Todos) /\ Credits(Append(s, e), r)
         /\ <<e>> \in Seq(Todos) /\ Credits(<<e>>, r)
         /\ <<>> \in Seq(Todos) /\ Credits(<<>>, r)
  <1>1. s \o t \in Seq(Todos) /\ Append(s, e) \in Seq(Todos) /\ <<e>> \in Seq(Todos)
        /\ <<>> \in Seq(Todos)
    BY SMTT(30)
  <1>2. Credits(s \o t, r)
    <2> SUFFICES ASSUME NEW i \in 1..(Len(s) + Len(t))
                 PROVE  \/ (s \o t)[i].kind \in RecordKinds
                        \/ (s \o t)[i].kind = "PersistCompletion" /\ r
      BY SMTT(30) DEF Credits
    <2>1. CASE i =< Len(s)
      BY <2>1, SMTT(30) DEF Credits
    <2>2. CASE i > Len(s)
      <3>1. i - Len(s) \in 1..Len(t) /\ (s \o t)[i] = t[i - Len(s)]
        BY <2>2, SMTT(30)
      <3> QED BY <3>1, SMTT(30) DEF Credits
    <2> QED BY <2>1, <2>2, SMTT(30)
  <1>3. Credits(Append(s, e), r)
    <2> SUFFICES ASSUME NEW i \in 1..(Len(s) + 1)
                 PROVE  \/ Append(s, e)[i].kind \in RecordKinds
                        \/ Append(s, e)[i].kind = "PersistCompletion" /\ r
      BY SMTT(30) DEF Credits
    <2>1. CASE i =< Len(s)
      BY <2>1, SMTT(30) DEF Credits
    <2>2. CASE i = Len(s) + 1
      BY <2>2, SMTT(30)
    <2> QED BY <2>1, <2>2, SMTT(30)
  <1>4. Credits(<<e>>, r) /\ Credits(<<>>, r)
    BY SMTT(30) DEF Credits
  <1> QED BY <1>1, <1>2, <1>3, <1>4

\* The effect of the crossing, where completion is reached afterwards.
LEMMA AdvanceCredits ==
  ASSUME NEW at, NEW r \in BOOLEAN, Crosses(at) => r
  PROVE  AdvanceEffects(at) \in Seq(Todos) /\ Credits(AdvanceEffects(at), r)
  <1>1. AdvanceEffects(at) \in Seq(EffectRecords)
    BY AdvanceAlways
  <1>2. CASE Crosses(at)
    <2>1. AdvanceEffects(at) = <<Effect("PersistCompletion", "none")>>
      BY <1>2 DEF AdvanceEffects
    <2>2. \A i \in DOMAIN AdvanceEffects(at) : AdvanceEffects(at)[i].kind = "PersistCompletion"
      BY <2>1, SMTT(30) DEF Effect
    <2> QED BY <1>1, <1>2, <2>2, EffectsAreTodos DEF Credits
  <1>3. CASE ~Crosses(at)
    <2>1. AdvanceEffects(at) = <<>>
      BY <1>3 DEF AdvanceEffects
    <2>2. Credits(<<>>, r)
      BY SMTT(30) DEF Credits
    <2> QED BY <1>1, <2>1, <2>2, EffectsAreTodos
  <1> QED BY <1>2, <1>3

\* A row of the recording is an effect of its kind.
LEMMA RecordEffect ==
  ASSUME NEW kind \in RecordKinds, NEW detail \in EffectDetails, NEW r
  PROVE  /\ Effect(kind, detail) \in Todos /\ Effect(kind, detail).kind \in RecordKinds
         /\ <<Effect(kind, detail)>> \in Seq(Todos) /\ Credits(<<Effect(kind, detail)>>, r)
  <1>1. kind \in EffectKinds
    BY DEF RecordKinds, EffectKinds
  <1>2. PICK e \in Todos : e = Effect(kind, detail) /\ e.kind \in RecordKinds
    BY <1>1, EffectTypes, EffectsAreTodos
  <1>3. <<e>> \in Seq(Todos)
    BY SMTT(30)
  <1>4. Credits(<<e>>, r)
    BY <1>2, SMTT(30) DEF Credits
  <1> QED BY <1>2, <1>3, <1>4

\* A stop lists the crossing it may have made, then the finalization with what it says of
\* completion (StopRecording).
LEMMA StopFits ==
  ASSUME NEW at, NEW reason \in StopReasons, NEW before \in Seq(Todos),
         \A i \in DOMAIN before : before[i].kind = "DisarmKiosk",
         StopRecording(at, before, reason)
  PROVE  /\ effects' \in Seq(Todos) /\ StopsWith(effects', completion' # "NotReached")
         /\ completion # "NotReached" => completion' # "NotReached"
  <1> DEFINE crosses == phase = "Active" /\ Crosses(at)
             crossing == IF crosses THEN AdvanceEffects(at) ELSE <<>>
             rest == before \o crossing
             reached == completion # "NotReached" \/ crosses
             last == FinalizeRecording(reason, reached)
  <1>1. effects' = rest \o <<last>>
    BY DEF StopRecording, Accept
  <1>2. reached = (completion' # "NotReached")
        /\ (completion # "NotReached" => completion' # "NotReached")
    BY DEF StopRecording, AdvanceActiveTime, Crosses
  <1>3. last \in Todos /\ last.kind = "FinalizeRecording" /\ last.reached = reached
    <2>1. reached \in BOOLEAN
      OBVIOUS
    <2> HIDE DEF reached
    <2> QED BY <2>1, FinalizeTypes, EffectsAreTodos
  <1>4. /\ crossing \in Seq(Todos)
        /\ \A i \in DOMAIN crossing : crossing[i].kind = "PersistCompletion" /\ reached
    <2>1. CASE crosses
      <3>1. crossing = <<Effect("PersistCompletion", "none")>> /\ reached
            /\ crossing = AdvanceEffects(at)
        BY <2>1 DEF AdvanceEffects
      <3>2. \A i \in DOMAIN crossing : crossing[i].kind = "PersistCompletion"
        BY <3>1, SMTT(30) DEF Effect
      <3> QED BY <3>1, <3>2, AdvanceAlways, EffectsAreTodos
    <2>2. CASE ~crosses
      <3>1. crossing = <<>>
        BY <2>2
      <3>2. <<>> \in Seq(Todos) /\ \A i \in DOMAIN <<>> : FALSE
        BY SMTT(30)
      <3> HIDE DEF crossing
      <3> QED BY <3>1, <3>2
    <2> QED BY <2>1, <2>2
  <1> HIDE DEF crossing, last, reached
  <1>5. /\ rest \in Seq(Todos) /\ Len(rest) \in Nat
        /\ \A i \in 1..Len(rest) : \/ rest[i].kind = "DisarmKiosk"
                                   \/ rest[i].kind = "PersistCompletion" /\ reached
    <2>1. rest \in Seq(Todos) /\ Len(rest) = Len(before) + Len(crossing)
      BY <1>4, SMTT(30)
    <2>2. ASSUME NEW i \in 1..Len(rest)
          PROVE  \/ rest[i].kind = "DisarmKiosk"
                 \/ rest[i].kind = "PersistCompletion" /\ reached
      <3>1. CASE i =< Len(before)
        BY <1>4, <2>1, <3>1, SMTT(30)
      <3>2. CASE i > Len(before)
        <4>1. i - Len(before) \in 1..Len(crossing) /\ rest[i] = crossing[i - Len(before)]
          BY <1>4, <2>1, <3>2, SMTT(30)
        <4> QED BY <1>4, <4>1, SMTT(30)
      <3> QED BY <2>1, <3>1, <3>2, SMTT(30)
    <2> QED BY <2>1, <2>2, SMTT(30)
  <1> HIDE DEF rest
  <1>6. /\ effects' \in Seq(Todos) /\ effects' # <<>> /\ Len(effects') = Len(rest) + 1
        /\ effects'[Len(rest) + 1] = last
        /\ \A i \in 1..Len(rest) : effects'[i] = rest[i]
    BY <1>1, <1>3, <1>5, SMTT(30)
  <1>7. Len(effects') - 1 = Len(rest)
    BY <1>5, <1>6, SMTT(30)
  <1> QED BY <1>2, <1>3, <1>5, <1>6, <1>7 DEF StopsWith

\* What a client's command leaves to be carried out fits the phase it leads to.
LEMMA ClientFits ==
  ASSUME TypeOK, phase \in {"Idle", "Active", "Closed"}, NEW at \in Times, ClientCommand(at)
  PROVE  /\ TodoFits(effects', phase', completion' # "NotReached")
         /\ lastMonotonic' = at
         /\ UNCHANGED <<recordingResult, generation>>
         /\ \/ phase' = phase
            \/ phase = "Active" /\ phase' \in Stopping
            \/ phase = "Idle" /\ phase' = "Closed"
         /\ phase = "Active" /\ completion # "NotReached" => completion' # "NotReached"
         /\ phase = "Idle" /\ phase' = "Idle" => effects' = <<>>
  <1> DEFINE r == completion' # "NotReached"
             Goal == /\ TodoFits(effects', phase', r)
                     /\ lastMonotonic' = at
                     /\ UNCHANGED <<recordingResult, generation>>
                     /\ \/ phase' = phase
                        \/ phase = "Active" /\ phase' \in Stopping
                        \/ phase = "Idle" /\ phase' = "Closed"
                     /\ phase = "Active" /\ completion # "NotReached" => r
                     /\ phase = "Idle" /\ phase' = "Idle" => effects' = <<>>
  <1>1. /\ "none" \in EffectDetails /\ "Armed" \in EffectDetails
        /\ "OfficialStart" \in EffectDetails /\ "ExperimentResumed" \in EffectDetails
        /\ "ExperimentPaused" \in EffectDetails /\ PresentationStates \subseteq EffectDetails
    BY DEF EffectDetails
  <1>2. /\ "RecordControl" \in RecordKinds /\ "RecordPresentation" \in RecordKinds
        /\ "RecordAudioStarted" \in RecordKinds /\ "RecordAudioEnded" \in RecordKinds
        /\ "RecordAudioError" \in RecordKinds
    BY DEF RecordKinds
  <1>3. ASSUME phase = "Active", phase' = "Active", effects' \in Seq(Todos),
               Credits(effects', r), lastMonotonic' = at,
               UNCHANGED <<recordingResult, generation>>, completion # "NotReached" => r
        PROVE  Goal
    BY <1>3 DEF TodoFits, Stopping
  <1>4. ASSUME AdvanceActiveTime(at)
        PROVE  /\ completion # "NotReached" => r
               /\ AdvanceEffects(at) \in Seq(Todos) /\ Credits(AdvanceEffects(at), r)
    <2>1. (Crosses(at) => r) /\ (completion # "NotReached" => r) /\ r \in BOOLEAN
      BY <1>4 DEF AdvanceActiveTime, Crosses
    <2> HIDE DEF r
    <2> QED BY <2>1, AdvanceCredits
  <1>5. CASE AudioPrepared(at)
    <2>1. /\ phase = "Active" /\ phase' = "Active" /\ lastMonotonic' = at
          /\ effects' = <<Effect("RecordControl", "Armed")>>
          /\ completion' = completion /\ UNCHANGED <<recordingResult, generation>>
      BY <1>5 DEF AudioPrepared, Accept
    <2>2. effects' \in Seq(Todos) /\ Credits(effects', r)
      BY <1>1, <1>2, <2>1, RecordEffect
    <2> QED BY <1>3, <2>1, <2>2
  <1>6. ASSUME NEW kind \in RecordKinds, NEW detail \in EffectDetails,
               phase = "Active", phase' = "Active", AdvanceActiveTime(at),
               Accept(at, Append(AdvanceEffects(at), Effect(kind, detail))),
               UNCHANGED <<recordingResult, generation>>
        PROVE  Goal
    <2>1. /\ AdvanceEffects(at) \in Seq(Todos) /\ Credits(AdvanceEffects(at), r)
          /\ completion # "NotReached" => r
      BY <1>4, <1>6
    <2>2. Effect(kind, detail) \in Todos /\ Effect(kind, detail).kind \in RecordKinds
      BY RecordEffect
    <2>3. /\ effects' = Append(AdvanceEffects(at), Effect(kind, detail))
          /\ lastMonotonic' = at
      BY <1>6 DEF Accept
    <2>4. r \in BOOLEAN
      OBVIOUS
    <2> HIDE DEF r
    <2>5. effects' \in Seq(Todos) /\ Credits(effects', r)
      BY <2>1, <2>2, <2>3, <2>4, CreditsJoined
    <2> QED BY <1>3, <1>6, <2>1, <2>3, <2>5
  <1>7. CASE OfficialStart(at) \/ Resume(at) \/ Pause(at)
    <2>1. /\ phase = "Active" /\ phase' = "Active" /\ AdvanceActiveTime(at)
          /\ UNCHANGED <<recordingResult, generation>>
          /\ \E event \in {"OfficialStart", "ExperimentResumed", "ExperimentPaused"} :
                Accept(at, Append(AdvanceEffects(at), Effect("RecordControl", event)))
      BY <1>7 DEF OfficialStart, Resume, Pause, EnterRunning
    <2> QED BY <1>1, <1>2, <1>6, <2>1
  <1>8. ASSUME NEW p \in Presentations, PresentationChanged(at, p)
        PROVE  Goal
    <2>0. p \in EffectDetails
      BY <1>1, PresentationsAssumption
    <2>1. CASE phase = "Active"
      <3>1. /\ phase' = "Active" /\ AdvanceActiveTime(at)
            /\ Accept(at, Append(AdvanceEffects(at), Effect("RecordPresentation", p)))
            /\ UNCHANGED <<recordingResult, generation>>
        BY <1>8, <2>1 DEF PresentationChanged
      <3> QED BY <1>2, <1>6, <2>0, <2>1, <3>1
    <2>2. CASE phase # "Active"
      <3>1. /\ phase = "Idle" /\ phase' = "Idle" /\ effects' = <<>> /\ lastMonotonic' = at
            /\ UNCHANGED <<recordingResult, generation>>
        BY <1>8, <2>2 DEF PresentationChanged, Accept
      <3>2. <<>> \in Seq(Todos) /\ Within(<<>>, WaitKinds)
        BY SMTT(30) DEF Within
      <3>3. TodoFits(effects', phase', r)
        BY <3>1, <3>2 DEF TodoFits, Stopping
      <3> QED BY <3>1, <3>3
    <2> QED BY <2>1, <2>2
  <1>9. CASE Tick(at)
    <2>1. /\ phase = "Active" /\ phase' = "Active" /\ AdvanceActiveTime(at)
          /\ effects' = AdvanceEffects(at) /\ lastMonotonic' = at
          /\ UNCHANGED <<recordingResult, generation>>
      BY <1>9 DEF Tick, Accept
    <2> QED BY <1>3, <1>4, <2>1
  <1>10. ASSUME NEW t \in Seq(Todos), Credits(t, r),
                phase = "Active", phase' = "Active", AdvanceActiveTime(at),
                Accept(at, AdvanceEffects(at) \o t), UNCHANGED <<recordingResult, generation>>
         PROVE  Goal
    <2>1. /\ AdvanceEffects(at) \in Seq(Todos) /\ Credits(AdvanceEffects(at), r)
          /\ completion # "NotReached" => r
      BY <1>4, <1>10
    <2>2. /\ Effect("RecordControl", "Armed") \in Todos
          /\ Effect("RecordControl", "Armed").kind \in RecordKinds
      BY <1>1, <1>2, RecordEffect
    <2>3. effects' = AdvanceEffects(at) \o t /\ lastMonotonic' = at
      BY <1>10 DEF Accept
    <2>4. r \in BOOLEAN
      OBVIOUS
    <2> HIDE DEF r
    <2>5. effects' \in Seq(Todos) /\ Credits(effects', r)
      BY <1>10, <2>1, <2>2, <2>3, <2>4, CreditsJoined
    <2> QED BY <1>3, <1>10, <2>1, <2>3, <2>5
  <1>11. ASSUME NEW kind \in RecordKinds, NEW done
         PROVE  LET row == IF done THEN <<>> ELSE <<Effect(kind, "none")>>
                IN  row \in Seq(Todos) /\ Credits(row, r)
    <2>1. <<>> \in Seq(Todos) /\ Credits(<<>>, r)
      BY SMTT(30) DEF Credits
    <2>2. <<Effect(kind, "none")>> \in Seq(Todos) /\ Credits(<<Effect(kind, "none")>>, r)
      BY <1>1, RecordEffect
    <2> HIDE DEF r
    <2> QED BY <2>1, <2>2
  <1>12. CASE AudioStarted(at)
    <2>1. /\ phase = "Active" /\ phase' = "Active" /\ AdvanceActiveTime(at)
          /\ Accept(at, AdvanceEffects(at) \o
                (IF audioStarted THEN <<>> ELSE <<Effect("RecordAudioStarted", "none")>>))
          /\ UNCHANGED <<recordingResult, generation>>
      BY <1>12 DEF AudioStarted
    <2> QED BY <1>2, <1>10, <1>11, <2>1
  <1>13. CASE AudioEnded(at)
    <2>1. /\ phase = "Active" /\ phase' = "Active" /\ AdvanceActiveTime(at)
          /\ Accept(at, AdvanceEffects(at) \o
                (IF audioEnded THEN <<>> ELSE <<Effect("RecordAudioEnded", "none")>>))
          /\ UNCHANGED <<recordingResult, generation>>
      BY <1>13 DEF AudioEnded
    <2> QED BY <1>2, <1>10, <1>11, <2>1
  <1>14. CASE AudioError(at)
    <2> DEFINE holds == explicitStart /\ controlState = "Running"
               row == IF audioError THEN <<>> ELSE <<Effect("RecordAudioError", "none")>>
               hold == IF holds THEN <<Effect("RecordControl", "ExperimentPaused")>>
                                ELSE <<>>
    <2>1. /\ phase = "Active" /\ phase' = "Active" /\ AdvanceActiveTime(at)
          /\ Accept(at, (AdvanceEffects(at) \o row) \o hold)
          /\ UNCHANGED <<recordingResult, generation>>
      BY <1>14 DEF AudioError
    <2>2. row \in Seq(Todos) /\ Credits(row, r)
      BY <1>2, <1>11
    <2>3. hold \in Seq(Todos) /\ Credits(hold, r)
      <3>1. <<>> \in Seq(Todos) /\ Credits(<<>>, r)
        BY SMTT(30) DEF Credits
      <3>2. /\ <<Effect("RecordControl", "ExperimentPaused")>> \in Seq(Todos)
            /\ Credits(<<Effect("RecordControl", "ExperimentPaused")>>, r)
        BY <1>1, <1>2, RecordEffect
      <3> HIDE DEF r, holds
      <3> QED BY <3>1, <3>2
    <2> HIDE DEF row, hold
    <2>4. /\ AdvanceEffects(at) \in Seq(Todos) /\ Credits(AdvanceEffects(at), r)
          /\ completion # "NotReached" => r
      BY <1>4, <2>1
    <2>5. /\ Effect("RecordControl", "Armed") \in Todos
          /\ Effect("RecordControl", "Armed").kind \in RecordKinds
      BY <1>1, <1>2, RecordEffect
    <2>6. effects' = (AdvanceEffects(at) \o row) \o hold /\ lastMonotonic' = at
      BY <2>1 DEF Accept
    <2>7. r \in BOOLEAN
      OBVIOUS
    <2> HIDE DEF r
    <2>8. AdvanceEffects(at) \o row \in Seq(Todos) /\ Credits(AdvanceEffects(at) \o row, r)
      BY <2>2, <2>4, <2>5, <2>7, CreditsJoined
    <2>9. effects' \in Seq(Todos) /\ Credits(effects', r)
      BY <2>3, <2>5, <2>6, <2>7, <2>8, CreditsJoined
    <2> QED BY <1>3, <2>1, <2>4, <2>6, <2>9 DEF r
  <1>15. /\ "RestartToExperimenter" \in StopReasons /\ "SaveAndExit" \in StopReasons
         /\ "InterruptedRecovery" \in StopReasons
    BY DEF StopReasons
  <1>16. ASSUME NEW reason \in StopReasons, NEW before \in Seq(Todos), phase = "Active",
                \A i \in DOMAIN before : before[i].kind = "DisarmKiosk",
                StopRecording(at, before, reason), phase' \in Stopping
         PROVE  Goal
    <2>1. /\ effects' \in Seq(Todos) /\ StopsWith(effects', r)
          /\ completion # "NotReached" => r
      BY <1>16, StopFits
    <2>2. lastMonotonic' = at /\ UNCHANGED <<recordingResult, generation>>
      BY <1>16 DEF StopRecording, Accept
    <2>3. TodoFits(effects', phase', r)
      BY <1>16, <2>1 DEF TodoFits, Stopping
    <2> QED BY <1>16, <2>1, <2>2, <2>3 DEF Stopping
  <1>17. CASE RestartToExperimenter(at)
    <2>1. <<>> \in Seq(Todos) /\ \A i \in DOMAIN <<>> : <<>>[i].kind = "DisarmKiosk"
      BY SMTT(30)
    <2>2. /\ StopRecording(at, <<>>, "RestartToExperimenter")
          /\ phase' = "FinalizingRestart"
      BY <1>17 DEF RestartToExperimenter
    <2>3. phase = "Active" /\ phase' \in Stopping
      BY <2>2 DEF StopRecording, Stopping
    <2> QED BY <1>15, <1>16, <2>1, <2>2, <2>3
  <1>18. ASSUME NEW reason \in StopReasons, Exit(at, reason) PROVE Goal
    <2> DEFINE disarm == <<Effect("DisarmKiosk", "none")>>
    <2>0. /\ Effect("DisarmKiosk", "none") \in Todos /\ Effect("ShutdownApp", "none") \in Todos
          /\ Effect("DisarmKiosk", "none").kind = "DisarmKiosk"
          /\ Effect("ShutdownApp", "none").kind = "ShutdownApp"
      <3>1. "DisarmKiosk" \in EffectKinds /\ "ShutdownApp" \in EffectKinds
        BY DEF EffectKinds, TrackedKinds
      <3> QED BY <1>1, <3>1, EffectTypes, EffectsAreTodos
    <2>1. disarm \in Seq(Todos) /\ \A i \in DOMAIN disarm : disarm[i].kind = "DisarmKiosk"
      BY <2>0, SMTT(30)
    <2>2. Within(disarm, ClosingKinds)
      BY <2>1 DEF Within, ClosingKinds
    <2>3. /\ Append(disarm, Effect("ShutdownApp", "none")) \in Seq(Todos)
          /\ Within(Append(disarm, Effect("ShutdownApp", "none")), ClosingKinds)
      BY <2>0, SMTT(30) DEF Within, ClosingKinds
    <2> HIDE DEF disarm
    <2>4. CASE phase = "Closed"
      <3>1. /\ phase' = "Closed" /\ effects' = disarm /\ lastMonotonic' = at
            /\ UNCHANGED <<recordingResult, generation, completion>>
        BY <1>18, <2>4 DEF Exit, Accept, StopRecording, disarm
      <3>2. TodoFits(effects', phase', r)
        BY <2>1, <2>2, <3>1 DEF TodoFits, Stopping
      <3> QED BY <2>4, <3>1, <3>2
    <2>5. CASE phase = "Idle"
      <3>1. /\ phase' = "Closed" /\ effects' = Append(disarm, Effect("ShutdownApp", "none"))
            /\ lastMonotonic' = at /\ UNCHANGED <<recordingResult, generation, completion>>
        BY <1>18, <2>5 DEF Exit, Accept, StopRecording, disarm
      <3>2. TodoFits(effects', phase', r)
        BY <2>3, <3>1 DEF TodoFits, Stopping
      <3> QED BY <2>5, <3>1, <3>2
    <2>6. CASE phase = "Active"
      <3>1. StopRecording(at, disarm, reason) /\ phase' = "Exiting"
        BY <1>18, <2>6 DEF Exit, disarm
      <3>2. phase' \in Stopping
        BY <3>1 DEF Stopping
      <3> QED BY <1>16, <2>1, <2>6, <3>1, <3>2
    <2> QED BY <2>4, <2>5, <2>6
  <1>19. CASE SaveAndExit(at) \/ ImmersiveOwnerDestroyed(at)
    BY <1>15, <1>18, <1>19 DEF SaveAndExit, ImmersiveOwnerDestroyed
  <1> QED
    BY <1>5, <1>7, <1>8, <1>9, <1>12, <1>13, <1>14, <1>17, <1>19 DEF ClientCommand

\* The cleanup put behind a list of effects.
LEMMA CleanupBehind ==
  ASSUME NEW s \in Seq(Todos), NEW kinds, Within(s, kinds), "Cleanup" \in kinds
  PROVE  /\ s \o <<Cleanup>> \in Seq(Todos) /\ Within(s \o <<Cleanup>>, kinds)
         /\ Occurs("Cleanup", s \o <<Cleanup>>)
  <1>1. PICK d \in Todos : d = Cleanup /\ d.kind = "Cleanup"
    BY EffectsAreTodos
  <1>2. /\ s \o <<d>> \in Seq(Todos) /\ DOMAIN (s \o <<d>>) = 1..(Len(s) + 1)
        /\ (s \o <<d>>)[Len(s) + 1] = d /\ Len(s) \in Nat
        /\ \A i \in 1..Len(s) : (s \o <<d>>)[i] = s[i]
    BY SMTT(30)
  <1>3. Len(s) + 1 \in 1..(Len(s) + 1)
        /\ \A i \in 1..(Len(s) + 1) : i = Len(s) + 1 \/ i \in 1..Len(s)
    BY <1>2, SMTT(30)
  <1>4. DOMAIN s = 1..Len(s)
    BY SMTT(30)
  <1>5. Within(s \o <<d>>, kinds) /\ Occurs("Cleanup", s \o <<d>>)
    BY <1>1, <1>2, <1>3, <1>4 DEF Within, Occurs
  <1> QED BY <1>1, <1>2, <1>5

\* What the end of a stop leaves to be carried out, with the cleanup of the worker's
\* finalization behind it (finish_terminal_transition).
LEMMA FinishFits ==
  ASSUME NEW at, FinishTerminal(at)
  PROVE  /\ phase' \in {"Idle", "Closed"} /\ lastMonotonic' = at
         /\ TodoFits(effects' \o <<Cleanup>>, phase', completion' # "NotReached")
         /\ Occurs("Cleanup", effects' \o <<Cleanup>>)
  <1> DEFINE all == effects' \o <<Cleanup>>
  <1>2. /\ "none" \in EffectDetails /\ "ShutdownApp" \in EffectKinds
        /\ "ResetRuntimeDefaults" \in EffectKinds /\ ReturnRoute \in EffectKinds
        /\ ReturnRoute \in WaitKinds
    BY DEF EffectDetails, EffectKinds, TrackedKinds, ReturnRoute, WaitKinds
  <1>3. PICK a \in Todos, b \in Todos, c \in Todos :
           /\ a = Effect("ResetRuntimeDefaults", "none") /\ a.kind = "ResetRuntimeDefaults"
           /\ b = Effect(ReturnRoute, "none") /\ b.kind = ReturnRoute
           /\ c = Effect("ShutdownApp", "none") /\ c.kind = "ShutdownApp"
    BY <1>2, EffectTypes, EffectsAreTodos
  <1>4. CASE phase = "FinalizingRestart"
    <2>1. phase' = "Idle" /\ effects' = <<a, b>> /\ lastMonotonic' = at
      BY <1>3, <1>4 DEF FinishTerminal, Accept
    <2>2. <<a, b>> \in Seq(Todos) /\ Within(<<a, b>>, WaitKinds)
      BY <1>2, <1>3, SMTT(30) DEF Within, WaitKinds
    <2>3. "Cleanup" \in WaitKinds
      BY DEF WaitKinds
    <2>4. all \in Seq(Todos) /\ Within(all, WaitKinds) /\ Occurs("Cleanup", all)
      BY <2>1, <2>2, <2>3, CleanupBehind
    <2> HIDE DEF all
    <2>5. TodoFits(all, phase', completion' # "NotReached")
      BY <2>1, <2>4 DEF TodoFits, Stopping
    <2> QED BY <2>1, <2>4, <2>5 DEF all
  <1>5. CASE phase # "FinalizingRestart"
    <2>1. phase' = "Closed" /\ effects' = <<c>> /\ lastMonotonic' = at
      BY <1>3, <1>5 DEF FinishTerminal, Accept
    <2>2. <<c>> \in Seq(Todos) /\ Within(<<c>>, ClosingKinds)
      BY <1>3, SMTT(30) DEF Within, ClosingKinds
    <2>3. "Cleanup" \in ClosingKinds
      BY DEF ClosingKinds
    <2>4. all \in Seq(Todos) /\ Within(all, ClosingKinds) /\ Occurs("Cleanup", all)
      BY <2>1, <2>2, <2>3, CleanupBehind
    <2> HIDE DEF all
    <2>5. TodoFits(all, phase', completion' # "NotReached")
      BY <2>1, <2>4 DEF TodoFits, Stopping
    <2> QED BY <2>1, <2>4, <2>5 DEF all
  <1> QED BY <1>4, <1>5

\* Between operations the session waits, runs or is closed, whatever was dropped.
LEMMA IdleLane ==
  ASSUME TypeOK, WorkerInv, todo = <<>>
  PROVE  /\ phase \in {"Idle", "Active", "Closed"} /\ ~failure
         /\ phase = "Idle" => lane = ClosedLane
         /\ uncertain => phase \in {"Idle", "Closed"}
  <1>1. phase \notin Stopping
    BY DEF WorkerInv, TodoFits, StopsWith
  <1>2. phase # "Preparing"
    BY DEF WorkerInv, TodoFits
  <1>3. phase \in {"Idle", "Active", "Closed"}
    BY <1>1, <1>2 DEF TypeOK, SessionPhases, Stopping
  <1>4. ~Occurs("Cleanup", todo)
    BY SMTT(30) DEF Occurs
  <1> QED BY <1>1, <1>3, <1>4 DEF WorkerInv

\* The worker begins with nothing to do.
LEMMA WorkerInit == EffectsInit => WorkerInv
  <1> SUFFICES ASSUME EffectsInit PROVE WorkerInv
    OBVIOUS
  <1>1. /\ phase = "Idle" /\ todo = <<>> /\ failure = FALSE /\ lane = ClosedLane
        /\ rec = NoRecording /\ uncertain = FALSE /\ recordingResult = NoResult
    BY DEF EffectsInit, Init
  <1>2. NoRecording \in Recordings /\ ClosedLane \in Lanes /\ ClosedLane.gate = 0
    BY DEF NoRecording, ClosedLane, Recordings, Lanes
  <1>3. WorkerTypes
    BY <1>1, <1>2 DEF WorkerTypes
  <1>4. TodoFits(todo, phase, completion # "NotReached")
    BY <1>1, SMTT(30) DEF TodoFits, Within, Stopping
  <1>5. SavedIsWhole
    BY <1>1 DEF SavedIsWhole, NoResult
  <1> QED BY <1>1, <1>2, <1>3, <1>4, <1>5 DEF WorkerInv, Live, Stopping

\* A command accepted between operations: the reducer's effects become the operation.
LEMMA CommandKeeps ==
  ASSUME TypeOK, WorkerInv, NEW at \in Times, Command(at)
  PROVE  WorkerInv'
  <1>1. /\ todo = <<>> /\ ClientCommand(at) /\ todo' = effects'
        /\ UNCHANGED <<failure, lane, rec, uncertain>>
    BY DEF Command, LaneIdle
  <1>2. /\ phase \in {"Idle", "Active", "Closed"} /\ ~failure
        /\ phase = "Idle" => lane = ClosedLane
        /\ uncertain => phase \in {"Idle", "Closed"}
    BY <1>1, IdleLane
  <1>3. /\ TodoFits(todo', phase', completion' # "NotReached")
        /\ lastMonotonic' \in Times
        /\ UNCHANGED <<recordingResult, generation>>
        /\ \/ phase' = phase
           \/ phase = "Active" /\ phase' \in Stopping
           \/ phase = "Idle" /\ phase' = "Closed"
        /\ phase = "Active" /\ completion # "NotReached" => completion' # "NotReached"
    BY <1>1, <1>2, ClientFits
  <1>4. WorkerTypes'
    BY <1>1, <1>3 DEF WorkerInv, WorkerTypes
  <1>5. SavedIsWhole'
    BY <1>1, <1>3 DEF WorkerInv, SavedIsWhole, Open
  <1>6. phase' = "Active" => SessionRecorded'
    BY <1>1, <1>2, <1>3 DEF WorkerInv, SessionRecorded, Stopping
  <1>7. Live' /\ rec'.completed => completion' # "NotReached"
    BY <1>1, <1>2, <1>3 DEF WorkerInv, Live
  <1>8. uncertain' => \/ phase' \in Stopping /\ failure'
                      \/ phase' \in {"Idle", "Closed"} /\ recordingResult'.status = "Unsaved"
    BY <1>1, <1>2, <1>3 DEF WorkerInv, Stopping
  <1>9. phase' \in {"Preparing", "Active"} \cup Stopping => recordingResult' = NoResult
    BY <1>1, <1>2, <1>3 DEF WorkerInv, Stopping
  <1>10. /\ failure' => phase' \in Stopping
         /\ phase' = "Preparing" => lane' = ClosedLane
         /\ phase' = "Idle" => lane'.gate = 0 /\ (lane' = ClosedLane \/ Occurs("Cleanup", todo'))
    BY <1>1, <1>2, <1>3, SMTT(30) DEF ClosedLane, Stopping
  <1> QED BY <1>3, <1>4, <1>5, <1>6, <1>7, <1>8, <1>9, <1>10 DEF WorkerInv

\* A start begins a session of its own: nothing of an earlier one is uncertain here.
LEMMA StartKeeps ==
  ASSUME TypeOK, WorkerInv, NEW at \in Times, StartCommand(at)
  PROVE  WorkerInv'
  <1>1. /\ todo = <<>> /\ todo' = effects' /\ uncertain' = FALSE
        /\ UNCHANGED <<failure, lane, rec>>
        /\ \E explicit \in BOOLEAN, c \in Conditions, th \in Thresholds :
              Arm(at, explicit, c, th)
    BY DEF StartCommand, LaneIdle
  <1>2. /\ phase = "Idle" /\ phase' = "Preparing" /\ recordingResult' = NoResult
        /\ effects' = <<Effect("PrepareRecording", "none")>> /\ lastMonotonic' = at
    BY <1>1 DEF Arm
  <1>3. lane = ClosedLane /\ ~failure
    BY <1>1, <1>2, IdleLane
  <1>4. WorkerTypes'
    BY <1>1, <1>2 DEF WorkerInv, WorkerTypes
  <1>5. <<Effect("PrepareRecording", "none")>> \in Seq(Todos)
    <2>1. "PrepareRecording" \in EffectKinds /\ "none" \in EffectDetails
      BY DEF EffectKinds, TrackedKinds, EffectDetails
    <2>2. PICK e \in Todos : e = Effect("PrepareRecording", "none")
      BY <2>1, EffectTypes, EffectsAreTodos
    <2>3. <<e>> \in Seq(Todos)
      BY SMTT(30)
    <2> QED BY <2>2, <2>3
  <1>6. TodoFits(todo', phase', completion' # "NotReached")
    BY <1>1, <1>2, <1>5 DEF TodoFits, Stopping
  <1>7. SavedIsWhole'
    BY <1>2 DEF SavedIsWhole, NoResult
  <1> QED BY <1>1, <1>2, <1>3, <1>4, <1>6, <1>7 DEF WorkerInv, Live, Stopping

\* A durable write that may have failed stops the session first (StopAndFail and the bias
\* change): the failure is kept for the finalization that is now to come.
LEMMA StopKeeps ==
  ASSUME TypeOK, WorkerInv, phase = "Active", NEW at \in Times, RestartToExperimenter(at),
         todo' = effects', failure' = TRUE, uncertain' = TRUE, UNCHANGED lane,
         rec' \in Recordings, rec'.completed => rec.completed \/ completion # "NotReached"
  PROVE  WorkerInv'
  <1>1. ClientCommand(at)
    BY DEF ClientCommand
  <1>2. /\ TodoFits(todo', phase', completion' # "NotReached") /\ lastMonotonic' \in Times
        /\ UNCHANGED recordingResult
        /\ completion # "NotReached" => completion' # "NotReached"
    BY <1>1, ClientFits
  <1>3. phase' = "FinalizingRestart"
    BY DEF RestartToExperimenter
  <1>4. WorkerTypes'
    BY <1>2 DEF WorkerInv, WorkerTypes
  <1>5. recordingResult' = NoResult
    BY <1>2 DEF WorkerInv
  <1>6. rec'.completed => completion' # "NotReached"
    BY <1>2 DEF WorkerInv, Live
  <1>7. SavedIsWhole'
    BY <1>5 DEF SavedIsWhole, NoResult
  <1> QED BY <1>2, <1>3, <1>4, <1>5, <1>6, <1>7 DEF WorkerInv, Stopping

\* An effect carried out that changes neither the session nor the lane: what is left fits,
\* and what the writer now holds is still this session's.
LEMMA CarriedOut ==
  ASSUME TypeOK, WorkerInv, UNCHANGED <<vars, failure, lane, uncertain>>,
         TodoFits(todo', phase, completion # "NotReached"),
         todo' # <<>> => todo # <<>>,
         phase = "Idle" /\ Occurs("Cleanup", todo) => Occurs("Cleanup", todo'),
         rec' \in Recordings, rec'.generation = rec.generation, rec'.finalizes = rec.finalizes,
         rec'.bias = rec.bias, rec'.completed = rec.completed,
         rec'.loss # rec.loss => phase = "Active"
  PROVE  WorkerInv'
  <1>1. UNCHANGED <<phase, completion, generation, lastMonotonic, recordingResult>>
    BY DEF vars
  <1>2. WorkerTypes'
    BY <1>1 DEF WorkerInv, WorkerTypes
  <1>3. SavedIsWhole'
    <2>1. CASE phase = "Active"
      BY <1>1, <2>1, SMTT(30) DEF WorkerInv, SavedIsWhole, NoResult
    <2>2. CASE phase # "Active"
      BY <1>1, <2>2 DEF WorkerInv, SavedIsWhole, Open
    <2> QED BY <2>1, <2>2
  <1>4. phase' = "Active" => SessionRecorded'
    BY <1>1 DEF WorkerInv, SessionRecorded
  <1> QED BY <1>1, <1>2, <1>3, <1>4 DEF WorkerInv, Live

\* A bias decision: committed and then applied, or the session is stopped.
LEMMA BiasKeeps ==
  ASSUME TypeOK, WorkerInv, NEW at \in Times, BiasChange(at)
  PROVE  WorkerInv'
  <1>1. phase = "Active" /\ todo = <<>>
    BY DEF BiasChange, LaneIdle
  <1>2. /\ rec \in Recordings /\ lane \in Lanes /\ rec.bias \in Nat /\ lane.bias \in Nat
        /\ SessionRecorded
    BY <1>1 DEF WorkerInv, WorkerTypes, Recordings, Lanes
  <1>3. CASE /\ rec' = [rec EXCEPT !.bias = @ + 1] /\ lane' = [lane EXCEPT !.bias = @ + 1]
             /\ UNCHANGED <<vars, todo, failure, uncertain>>
    <2>1. UNCHANGED <<phase, completion, generation, lastMonotonic, recordingResult>>
      BY <1>3 DEF vars
    <2>2. rec' \in Recordings /\ lane' \in Lanes
      BY <1>2, <1>3, SMTT(30) DEF Recordings, Lanes
    <2>3. SessionRecorded' /\ rec'.completed = rec.completed
      BY <1>2, <1>3, <2>1 DEF SessionRecorded, Recordings, Lanes
    <2>4. WorkerTypes'
      BY <1>3, <2>1, <2>2 DEF WorkerInv, WorkerTypes
    <2>5. recordingResult' = NoResult
      BY <1>1, <2>1 DEF WorkerInv
    <2>6. SavedIsWhole'
      BY <2>5 DEF SavedIsWhole, NoResult
    <2> QED BY <1>1, <1>3, <2>1, <2>3, <2>4, <2>5, <2>6 DEF WorkerInv, Live
  <1>4. CASE /\ \E n \in {rec.bias, rec.bias + 1} :
                   rec' = [rec EXCEPT !.bias = n, !.fault = TRUE]
             /\ failure' = TRUE /\ uncertain' = TRUE /\ RestartToExperimenter(at)
             /\ todo' = effects' /\ UNCHANGED lane
    <2>1. PICK n \in {rec.bias, rec.bias + 1} : rec' = [rec EXCEPT !.bias = n, !.fault = TRUE]
      BY <1>4
    <2>2. n \in Nat
      BY <1>2, SMTT(30)
    <2>3. rec' \in Recordings /\ rec'.completed = rec.completed
      BY <1>2, <2>1, <2>2 DEF Recordings
    <2> QED BY <1>1, <1>4, <2>3, StopKeeps
  <1> QED BY <1>3, <1>4 DEF BiasChange

\* The preparation of the recording succeeds, and the session runs on it, or fails, and
\* the session waits again.
LEMMA PrepareKeeps ==
  ASSUME TypeOK, WorkerInv, DoPrepare
  PROVE  WorkerInv'
  <1>1. todo # <<>> /\ Head(todo).kind = "PrepareRecording"
    BY DEF DoPrepare, Head1
  <1>2. phase \in SessionPhases /\ (completion # "NotReached") \in BOOLEAN
    BY DEF TypeOK
  <1>3. phase = "Preparing" /\ Tail(todo) = <<>>
    BY <1>1, <1>2, HeadFits DEF WorkerInv
  <1>4. /\ lane = ClosedLane /\ ~uncertain /\ ~failure /\ lastMonotonic \in Times
        /\ recordingResult = NoResult
    BY <1>1, <1>3 DEF WorkerInv, WorkerTypes, Stopping
  <1>5. UNCHANGED <<failure, uncertain>>
    BY DEF DoPrepare
  <1>6. CASE PrepareOk
    <2>1. /\ phase' = "Active" /\ effects' = <<>> /\ lastMonotonic' = lastMonotonic
          /\ UNCHANGED <<generation, recordingResult, completion>>
          /\ rec' = [NoRecording EXCEPT !.generation = generation]
          /\ lane' = [gate |-> generation, active |-> generation, bridge |-> TRUE, bias |-> 0]
      BY <1>6 DEF PrepareOk, RecordingPrepared, Accept
    <2>2. todo' = <<>>
      <3>1. todo' = effects' \o Rest
        BY <1>6 DEF PrepareOk
      <3>2. <<>> \o <<>> = <<>>
        BY SMTT(30)
      <3> QED BY <1>3, <2>1, <3>1, <3>2 DEF Rest
    <2>3. generation \in Nat
      BY GenerationAssumption, SMTT(30) DEF TypeOK
    <2>4. /\ rec' \in Recordings /\ lane' \in Lanes /\ SessionRecorded'
          /\ ~rec'.completed
      BY <2>1, <2>3 DEF NoRecording, Recordings, Lanes, SessionRecorded
    <2>5. WorkerTypes'
      BY <1>5, <2>2, <2>4 DEF WorkerInv, WorkerTypes
    <2>6. TodoFits(todo', phase', completion' # "NotReached")
      BY <2>1, <2>2, SMTT(30) DEF TodoFits, Credits, Stopping
    <2>7. SavedIsWhole'
      BY <1>4, <2>1 DEF SavedIsWhole, NoResult
    <2> QED BY <1>4, <1>5, <2>1, <2>4, <2>5, <2>6, <2>7 DEF WorkerInv
  <1>7. CASE PrepareFails
    <2>1. /\ phase' = "Idle" /\ lastMonotonic' = lastMonotonic
          /\ effects' = <<Effect("ResetRuntimeDefaults", "none"), Effect(ReturnRoute, "none")>>
          /\ recordingResult' = Unsaved(FALSE, "Prepare") /\ todo' = effects' /\ UNCHANGED rec
          /\ lane' = [lane EXCEPT !.active = 0]
      BY <1>3, <1>7 DEF PrepareFails, RecordingPrepareFailed, Accept
    <2>2. lane' = ClosedLane
      BY <1>4, <2>1 DEF ClosedLane
    <2>3. lane' \in Lanes /\ lane'.gate = 0
      BY <2>2 DEF ClosedLane, Lanes
    <2>4. WorkerTypes'
      BY <1>4, <1>5, <2>1, <2>3 DEF WorkerInv, WorkerTypes
    <2>5. TodoFits(todo', phase', completion' # "NotReached")
      <3>1. /\ "ResetRuntimeDefaults" \in EffectKinds /\ ReturnRoute \in EffectKinds
            /\ "none" \in EffectDetails /\ ReturnRoute \in WaitKinds
            /\ "ResetRuntimeDefaults" \in WaitKinds
        BY DEF EffectDetails, EffectKinds, TrackedKinds, ReturnRoute, WaitKinds
      <3>2. PICK a \in Todos, b \in Todos :
               /\ a = Effect("ResetRuntimeDefaults", "none") /\ a.kind \in WaitKinds
               /\ b = Effect(ReturnRoute, "none") /\ b.kind \in WaitKinds
        BY <3>1, EffectTypes, EffectsAreTodos
      <3>3. <<a, b>> \in Seq(Todos) /\ Within(<<a, b>>, WaitKinds)
        BY <3>2, SMTT(30) DEF Within
      <3>4. todo' = <<a, b>>
        BY <2>1, <3>2
      <3> QED BY <2>1, <3>3, <3>4 DEF TodoFits, Stopping
    <2>6. recordingResult'.status = "Unsaved"
      BY <2>1 DEF Unsaved
    <2>7. SavedIsWhole'
      BY <2>6 DEF SavedIsWhole
    <2> QED BY <1>4, <1>5, <2>1, <2>2, <2>3, <2>4, <2>5, <2>7 DEF WorkerInv, Live, Stopping
  <1> QED BY <1>6, <1>7 DEF DoPrepare

\* Rows offered to the writer, control rows, and what cannot fail.
LEMMA RowsKeep ==
  ASSUME TypeOK, WorkerInv, DoOffer \/ DoRecordControl \/ DoRoute \/ DoShutdown \/ WriterFault
  PROVE  WorkerInv'
  <1> DEFINE r == completion # "NotReached"
  <1>1. /\ phase \in SessionPhases /\ r \in BOOLEAN /\ TodoFits(todo, phase, r)
        /\ rec \in Recordings
    BY DEF TypeOK, WorkerInv, WorkerTypes
  <1> HIDE DEF r
  <1>2. ASSUME todo # <<>>, Head(todo).kind \notin {"PrepareRecording", "FinalizeRecording"}
        PROVE  TodoFits(Tail(todo), phase, r) /\ todo \in Seq(Todos)
    BY <1>1, <1>2, TailFits, HeadFits
  <1>3. ASSUME phase \in {"Active", "Closed"} PROVE TodoFits(<<>>, phase, r)
    BY <1>3, SMTT(30) DEF TodoFits, Credits, Within, Stopping
  <1>4. CASE DoOffer
    <2>1. /\ todo # <<>> /\ Head(todo).kind \in RecordKinds
          /\ UNCHANGED <<vars, failure, lane, uncertain>>
          /\ todo' = Tail(todo) \/ todo' = <<>>
          /\ rec' = rec \/ rec' = [rec EXCEPT !.loss = TRUE]
      BY <1>4 DEF DoOffer, Head1, Rest, RecordKinds
    <2>2. phase = "Active"
      BY <1>1, <2>1, HeadFits
    <2>3. Head(todo).kind \notin {"PrepareRecording", "FinalizeRecording"}
      BY <2>1 DEF RecordKinds
    <2>4. TodoFits(todo', phase, r)
      BY <1>2, <1>3, <2>1, <2>2, <2>3
    <2>5. /\ rec' \in Recordings /\ rec'.generation = rec.generation
          /\ rec'.finalizes = rec.finalizes /\ rec'.bias = rec.bias
          /\ rec'.completed = rec.completed
      BY <1>1, <2>1 DEF Recordings
    <2> QED BY <2>1, <2>2, <2>4, <2>5, CarriedOut DEF r
  <1>5. CASE DoRecordControl
    <2>1. todo # <<>> /\ Head(todo).kind = "RecordControl" /\ UNCHANGED <<lane, rec>>
      BY <1>5 DEF DoRecordControl, Head1
    <2>2. phase = "Active"
      <3>1. Head(todo).kind \in RecordKinds
        BY <2>1 DEF RecordKinds
      <3> QED BY <1>1, <2>1, <3>1, HeadFits
    <2>3. CASE todo' = Rest /\ UNCHANGED <<vars, failure, uncertain>>
      <3>1. TodoFits(todo', phase, r)
        <4>1. Head(todo).kind \notin {"PrepareRecording", "FinalizeRecording"}
          BY <2>1
        <4> QED BY <1>2, <2>1, <2>3, <4>1 DEF Rest
      <3> QED BY <1>1, <2>1, <2>2, <2>3, <3>1, CarriedOut DEF r
    <2>4. CASE StopAndFail
      <3>1. /\ RestartToExperimenter(lastMonotonic) /\ todo' = effects' /\ failure' = TRUE
            /\ uncertain' = TRUE /\ lastMonotonic \in Times
        BY <2>1, <2>4 DEF StopAndFail, WorkerInv, WorkerTypes
      <3> QED BY <1>1, <2>1, <2>2, <3>1, StopKeeps
    <2> QED BY <1>5, <2>3, <2>4 DEF DoRecordControl
  <1>6. CASE DoRoute
    <2>1. /\ todo # <<>> /\ todo' = Tail(todo) /\ UNCHANGED <<vars, failure, lane, rec, uncertain>>
          /\ Head(todo).kind \in {"DisarmKiosk", "ResetRuntimeDefaults", "ShowExperimenter",
                                  "ReturnToPreparation"}
      BY <1>6 DEF DoRoute, Head1, Rest
    <2>2. /\ Head(todo).kind \notin {"PrepareRecording", "FinalizeRecording"}
          /\ Head(todo).kind # "Cleanup"
      BY <2>1
    <2>3. TodoFits(todo', phase, r) /\ todo \in Seq(Todos)
      BY <1>2, <2>1, <2>2
    <2>4. Occurs("Cleanup", todo) => Occurs("Cleanup", todo')
      BY <2>1, <2>2, <2>3, CleanupStays
    <2> QED BY <1>1, <2>1, <2>3, <2>4, CarriedOut DEF r
  <1>7. CASE DoShutdown
    <2>1. /\ todo # <<>> /\ Head(todo).kind = "ShutdownApp"
          /\ todo' = Tail(todo) \/ todo' = <<>>
          /\ UNCHANGED <<vars, failure, lane, rec, uncertain>>
      BY <1>7 DEF DoShutdown, Head1, Rest
    <2>2. phase = "Closed"
      BY <1>1, <2>1, HeadFits
    <2>3. Head(todo).kind \notin {"PrepareRecording", "FinalizeRecording"}
      BY <2>1
    <2>4. TodoFits(todo', phase, r)
      BY <1>2, <1>3, <2>1, <2>2, <2>3
    <2> QED BY <1>1, <2>1, <2>2, <2>4, CarriedOut DEF r
  <1>8. CASE WriterFault
    <2>1. /\ rec' = [rec EXCEPT !.fault = TRUE]
          /\ UNCHANGED <<vars, todo, failure, lane, uncertain>>
      BY <1>8 DEF WriterFault
    <2>2. /\ rec' \in Recordings /\ rec'.generation = rec.generation
          /\ rec'.finalizes = rec.finalizes /\ rec'.bias = rec.bias
          /\ rec'.completed = rec.completed /\ rec'.loss = rec.loss
      BY <1>1, <2>1 DEF Recordings
    <2> QED BY <1>1, <2>1, <2>2, CarriedOut DEF r
  <1> QED BY <1>4, <1>5, <1>6, <1>7, <1>8

\* Completion is persisted, or the failure stops the session, or the stop that is under
\* way carries on to the finalization that answers for it.
LEMMA PersistKeeps ==
  ASSUME TypeOK, WorkerInv, DoPersistCompletion
  PROVE  WorkerInv'
  <1> DEFINE r == completion # "NotReached"
  <1>1. /\ phase \in SessionPhases /\ r \in BOOLEAN /\ TodoFits(todo, phase, r)
        /\ rec \in Recordings
    BY DEF TypeOK, WorkerInv, WorkerTypes
  <1>2. todo # <<>> /\ Head(todo).kind = "PersistCompletion" /\ UNCHANGED lane
    BY DEF DoPersistCompletion, Head1
  <1> HIDE DEF r
  <1>3. /\ phase \in {"Active"} \cup Stopping /\ r /\ Tail(todo) \in Seq(Todos)
        /\ lastMonotonic \in Times
    BY <1>1, <1>2, HeadFits DEF WorkerInv, WorkerTypes
  <1>4. TodoFits(Tail(todo), phase, r)
    <2>1. Head(todo).kind \notin {"PrepareRecording", "FinalizeRecording"}
      BY <1>2
    <2> QED BY <1>1, <1>2, <2>1, TailFits
  <1>5. recordingResult = NoResult
    BY <1>3 DEF WorkerInv
  <1>6. ASSUME NEW c \in BOOLEAN, rec' = [rec EXCEPT !.completed = c]
        PROVE  /\ rec' \in Recordings /\ rec'.generation = rec.generation
               /\ rec'.finalizes = rec.finalizes /\ rec'.bias = rec.bias
    BY <1>1, <1>6 DEF Recordings
  <1>7. CASE /\ rec' = [rec EXCEPT !.completed = TRUE] /\ CompletionDurable(lastMonotonic)
             /\ todo' = effects' \o Rest /\ UNCHANGED <<failure, uncertain>>
    <2>1. /\ completion' = "Durable" /\ effects' = <<>> /\ lastMonotonic' = lastMonotonic
          /\ UNCHANGED <<phase, generation, recordingResult>>
      BY <1>7 DEF CompletionDurable, Accept
    <2>2. todo' = Tail(todo)
      <3>1. <<>> \o Tail(todo) = Tail(todo)
        BY <1>3, SMTT(30)
      <3> QED BY <1>7, <2>1, <3>1 DEF Rest
    <2>3. completion' # "NotReached" /\ (completion' # "NotReached") = r
      BY <1>1, <1>3, <2>1
    <2>4. /\ rec' \in Recordings /\ rec'.generation = rec.generation
          /\ rec'.finalizes = rec.finalizes /\ rec'.bias = rec.bias
      BY <1>6, <1>7
    <2>5. WorkerTypes'
      BY <1>3, <1>7, <1>2, <2>1, <2>4 DEF WorkerInv, WorkerTypes
    <2>6. TodoFits(todo', phase', completion' # "NotReached")
      BY <1>4, <2>1, <2>2, <2>3
    <2>7. SavedIsWhole'
      BY <1>5, <2>1 DEF SavedIsWhole, NoResult
    <2>8. phase' = "Active" => SessionRecorded'
      BY <1>2, <2>1, <2>4 DEF WorkerInv, SessionRecorded
    <2>9. phase' # "Idle" /\ phase' # "Preparing"
      BY <1>3, <2>1 DEF Stopping
    <2> QED BY <1>2, <1>7, <2>1, <2>3, <2>5, <2>6, <2>7, <2>8, <2>9 DEF WorkerInv
  <1>8. ASSUME MaybeCompleted
        PROVE  rec' \in Recordings
    <2>1. PICK c \in {rec.completed, TRUE} : rec' = [rec EXCEPT !.completed = c]
      BY <1>8 DEF MaybeCompleted
    <2>2. c \in BOOLEAN
      BY <1>1 DEF Recordings
    <2> QED BY <1>6, <2>1, <2>2
  <1>9. CASE phase = "Active" /\ MaybeCompleted /\ StopAndFail
    <2>1. /\ RestartToExperimenter(lastMonotonic) /\ todo' = effects' /\ failure' = TRUE
          /\ uncertain' = TRUE
      BY <1>9 DEF StopAndFail
    <2> QED BY <1>2, <1>3, <1>8, <1>9, <2>1, StopKeeps DEF r
  <1>10. CASE /\ phase # "Active" /\ MaybeCompleted /\ failure' = TRUE /\ uncertain' = TRUE
              /\ todo' = Rest /\ UNCHANGED vars
    <2>1. UNCHANGED <<phase, completion, generation, lastMonotonic, recordingResult>>
      BY <1>10 DEF vars
    <2>2. phase \in Stopping
      BY <1>3, <1>10
    <2>3. WorkerTypes'
      BY <1>2, <1>3, <1>8, <1>10, <2>1 DEF WorkerInv, WorkerTypes
    <2>4. TodoFits(todo', phase', completion' # "NotReached") /\ completion' # "NotReached"
      BY <1>3, <1>4, <1>10, <2>1 DEF Rest, r
    <2>5. SavedIsWhole'
      BY <1>5, <2>1 DEF SavedIsWhole, NoResult
    <2>6. phase' # "Idle" /\ phase' # "Preparing" /\ phase' # "Active" /\ phase' \in Stopping
      BY <2>1, <2>2 DEF Stopping
    <2> QED BY <1>5, <1>10, <2>1, <2>3, <2>4, <2>5, <2>6 DEF WorkerInv
  <1> QED BY <1>7, <1>9, <1>10 DEF DoPersistCompletion

\* The finalization: the session is over, its result is what the writer and the worker
\* know of it, and the cleanup of the lane is still to come.
LEMMA FinalizeKeeps ==
  ASSUME TypeOK, WorkerInv, DoFinalize
  PROVE  WorkerInv'
  <1> DEFINE r == completion # "NotReached"
             last == lane'
  <1>1. /\ phase \in SessionPhases /\ r \in BOOLEAN /\ TodoFits(todo, phase, r)
        /\ rec \in Recordings /\ lane \in Lanes /\ uncertain \in BOOLEAN
    BY DEF TypeOK, WorkerInv, WorkerTypes
  <1>2. /\ todo # <<>> /\ Head(todo).kind = "FinalizeRecording" /\ UNCHANGED uncertain
        /\ lane' = [lane EXCEPT !.gate = 0]
    BY DEF DoFinalize, Head1, CloseGate
  <1> HIDE DEF r
  <1>3. /\ phase \in Stopping /\ Tail(todo) = <<>> /\ Head(todo).reached = r
        /\ lastMonotonic \in Times
    BY <1>1, <1>2, HeadFits DEF WorkerInv, WorkerTypes
  <1>4. lane' \in Lanes /\ lane'.gate = 0
    BY <1>1, <1>2 DEF Lanes
  <1>5. rec.completed \in BOOLEAN /\ (rec.completed => r) /\ rec.generation \in Nat
        /\ rec.finalizes \in Nat /\ rec.loss \in BOOLEAN
    BY <1>1, <1>3 DEF Recordings, WorkerInv, Live, Stopping, r
  <1>6. ASSUME FinishTerminal(lastMonotonic), failure' = FALSE, rec' \in Recordings,
               todo' = effects' \o <<Cleanup>>, SavedIsWhole',
               uncertain => recordingResult'.status = "Unsaved"
        PROVE  WorkerInv'
    <2>1. /\ phase' \in {"Idle", "Closed"} /\ lastMonotonic' = lastMonotonic
          /\ TodoFits(todo', phase', completion' # "NotReached") /\ Occurs("Cleanup", todo')
      BY <1>6, FinishFits
    <2>2. WorkerTypes'
      BY <1>1, <1>2, <1>3, <1>4, <1>6, <2>1 DEF WorkerTypes
    <2>3. /\ phase' \notin {"Preparing", "Active"} \cup Stopping /\ ~Live'
          /\ phase' # "Preparing" /\ phase' # "Active"
      BY <2>1 DEF Stopping, Live
    <2> QED BY <1>2, <1>4, <1>6, <2>1, <2>2, <2>3 DEF WorkerInv
  <1>7. CASE FinalizeOk
    <2>1. /\ Open /\ failure' = FALSE
          /\ rec' = [Finalized(FALSE) EXCEPT !.completed = @ \/ Head(todo).reached]
      BY <1>7 DEF FinalizeOk
    <2>2. /\ rec' \in Recordings /\ rec'.completed = (rec.completed \/ Head(todo).reached)
          /\ rec'.generation = 0 /\ rec'.loss = rec.loss
      <3>1. (rec.completed \/ Head(todo).reached) \in BOOLEAN
        OBVIOUS
      <3>2. PICK fin : fin = Finalized(FALSE)
        OBVIOUS
      <3>3. rec.finalizes + 1 \in Nat
        BY <1>5, SMTT(30)
      <3>4. fin = [rec EXCEPT !.generation = 0, !.finalizes = rec.finalizes + 1]
        BY <3>2 DEF Finalized
      <3>5. /\ fin \in Recordings /\ fin.completed = rec.completed /\ fin.generation = 0
            /\ fin.loss = rec.loss
        BY <1>1, <3>3, <3>4 DEF Recordings
      <3>6. rec' = [fin EXCEPT !.completed = fin.completed \/ Head(todo).reached]
        BY <2>1, <3>2
      <3> QED BY <3>1, <3>5, <3>6 DEF Recordings
    <2>3. rec'.completed = r
      BY <1>1, <1>3, <1>5, <2>2
    <2>4. CASE failure
      <3>1. /\ RecordingFinalizationFailed(lastMonotonic, completion = "Durable", "DataLoss")
            /\ todo' = effects' \o <<Cleanup>>
        BY <1>7, <2>4 DEF FinalizeOk
      <3>2. FinishTerminal(lastMonotonic) /\ recordingResult'.status = "Unsaved"
        BY <3>1 DEF RecordingFinalizationFailed, Unsaved
      <3>3. SavedIsWhole'
        BY <3>2 DEF SavedIsWhole
      <3> QED BY <1>6, <2>1, <2>2, <3>1, <3>2, <3>3
    <2>5. CASE ~failure
      <3>1. Conclude([completed |-> rec'.completed, saved |-> ~rec.loss], <<Cleanup>> \o Rest)
        BY <1>7, <2>5 DEF FinalizeOk
      <3>2. /\ RecordingFinalized(lastMonotonic, rec'.completed, ~rec.loss)
            /\ todo' = effects' \o (<<Cleanup>> \o Rest)
        BY <2>3, <3>1 DEF Conclude, r
      <3>3. <<Cleanup>> \o Rest = <<Cleanup>>
        <4>1. PICK d \in Todos : d = Cleanup
          BY EffectsAreTodos
        <4>2. <<d>> \o <<>> = <<d>>
          BY SMTT(30)
        <4> QED BY <1>3, <4>1, <4>2 DEF Rest
      <3>4. /\ FinishTerminal(lastMonotonic)
            /\ recordingResult' = IF ~rec.loss THEN Saved(rec'.completed)
                                               ELSE Unsaved(rec'.completed, "DataLoss")
        BY <3>2 DEF RecordingFinalized
      <3>5. ~uncertain
        BY <1>3, <2>5 DEF WorkerInv, Stopping
      <3>6. SavedIsWhole'
        BY <1>2, <1>5, <2>2, <3>4, <3>5 DEF SavedIsWhole, Saved, Unsaved, Open
      <3>7. todo' = effects' \o <<Cleanup>>
        BY <3>2, <3>3
      <3> QED BY <1>6, <2>1, <2>2, <3>4, <3>5, <3>6, <3>7
    <2> QED BY <2>4, <2>5
  <1>8. CASE FinalizeFails
    <2>1. /\ \E held \in {FALSE, Open} : rec' = Finalized(held)
          /\ failure' = FALSE /\ todo' = effects' \o <<Cleanup>>
          /\ RecordingFinalizationFailed(lastMonotonic, completion = "Durable", "Finalize")
      BY <1>8 DEF FinalizeFails
    <2>2. rec' \in Recordings
      <3>1. PICK held : rec' = Finalized(held)
        BY <2>1
      <3>2. (IF held THEN rec.generation ELSE 0) \in Nat /\ rec.finalizes + 1 \in Nat
        BY <1>5, SMTT(30)
      <3> QED BY <1>1, <3>1, <3>2 DEF Finalized, Recordings
    <2>3. FinishTerminal(lastMonotonic) /\ recordingResult'.status = "Unsaved"
      BY <2>1 DEF RecordingFinalizationFailed, Unsaved
    <2>4. SavedIsWhole'
      BY <2>3 DEF SavedIsWhole
    <2> QED BY <1>6, <2>1, <2>2, <2>3, <2>4
  <1> QED BY <1>7, <1>8 DEF DoFinalize

\* The tail of the finalization closes what producers read.
LEMMA CleanupKeeps ==
  ASSUME TypeOK, WorkerInv, DoCleanup
  PROVE  WorkerInv'
  <1> DEFINE r == completion # "NotReached"
  <1>1. /\ phase \in SessionPhases /\ r \in BOOLEAN /\ TodoFits(todo, phase, r)
        /\ lane \in Lanes
    BY DEF TypeOK, WorkerInv, WorkerTypes
  <1>2. /\ todo # <<>> /\ Head(todo).kind = "Cleanup" /\ todo' = Tail(todo)
        /\ lane' = [lane EXCEPT !.active = 0, !.bridge = FALSE, !.bias = 0]
        /\ UNCHANGED <<vars, failure, rec, uncertain>>
    BY DEF DoCleanup, Head1, Rest
  <1>3. UNCHANGED <<phase, completion, generation, lastMonotonic, recordingResult>>
    BY <1>2 DEF vars
  <1>4. TodoFits(todo', phase, r)
    <2>1. Head(todo).kind \notin {"PrepareRecording", "FinalizeRecording"}
      BY <1>2
    <2> HIDE DEF r
    <2> QED BY <1>1, <1>2, <2>1, TailFits
  <1>5. phase \in {"Idle", "Closed"}
    <2> HIDE DEF r
    <2> QED BY <1>1, <1>2, HeadFits
  <1>6. lane' \in Lanes /\ (lane.gate = 0 => lane' = ClosedLane /\ lane'.gate = 0)
    BY <1>1, <1>2 DEF Lanes, ClosedLane
  <1>7. WorkerTypes'
    BY <1>2, <1>3, <1>6 DEF WorkerInv, WorkerTypes
  <1>8. SavedIsWhole'
    BY <1>2, <1>3 DEF WorkerInv, SavedIsWhole, Open
  <1>9. phase' # "Active" /\ phase' # "Preparing" /\ ~Live'
        /\ phase' \notin {"Preparing", "Active"} \cup Stopping
    BY <1>3, <1>5 DEF Live, Stopping
  <1> QED BY <1>2, <1>3, <1>4, <1>6, <1>7, <1>8, <1>9 DEF WorkerInv

\* The worker's invariant survives every operation, every failure of the backend included.
LEMMA WorkerStep ==
  ASSUME TypeOK, WorkerInv, [EffectsNext]_allVars
  PROVE  WorkerInv'
  <1>1. CASE UNCHANGED allVars
    <2>1. /\ UNCHANGED <<todo, failure, lane, rec, uncertain>>
          /\ UNCHANGED <<phase, completion, generation, lastMonotonic, recordingResult>>
      BY <1>1 DEF allVars, vars, workerVars
    <2> QED BY <2>1 DEF WorkerInv, WorkerTypes, SessionRecorded, SavedIsWhole, Open, Live
  <1>2. CASE EffectsNext
    BY <1>2, CommandKeeps, StartKeeps, BiasKeeps, PrepareKeeps, RowsKeep, PersistKeeps,
       FinalizeKeeps, CleanupKeeps DEF EffectsNext
  <1> QED BY <1>1, <1>2

\* Whatever the backend does, a step of the worker is one command of the reducer at the
\* time of its operation, or none.
LEMMA WorkerCommands ==
  ASSUME TypeOK, WorkerInv, [EffectsNext]_allVars
  PROVE  [Next]_vars
  <1>1. CASE UNCHANGED allVars
    BY <1>1 DEF allVars
  <1>2. ASSUME NEW at \in Times, ClientCommand(at) PROVE Next
    BY <1>2, PresentationsAssumption DEF ClientCommand, Next
  <1>3. ASSUME NEW at \in Times, Command(at) PROVE [Next]_vars
    BY <1>2, <1>3 DEF Command
  <1>4. ASSUME NEW at \in Times, StartCommand(at) PROVE [Next]_vars
    BY <1>4 DEF StartCommand, Next
  <1>5. ASSUME NEW at \in Times, RestartToExperimenter(at) PROVE Next
    BY <1>5 DEF Next
  <1>6. ASSUME NEW at \in Times, BiasChange(at) PROVE [Next]_vars
    BY <1>5, <1>6 DEF BiasChange
  <1>7. todo # <<>> => lastMonotonic \in Times
    BY DEF WorkerInv, WorkerTypes
  <1>8. "Prepare" \in RecordingFailures /\ "Finalize" \in RecordingFailures
        /\ "DataLoss" \in RecordingFailures
    BY DEF RecordingFailures
  <1>9. CASE DoPrepare
    <2>1. todo # <<>> /\ (PrepareOk \/ PrepareFails)
      BY <1>9 DEF DoPrepare, Head1
    <2> QED BY <1>7, <1>8, <2>1 DEF PrepareOk, PrepareFails, Next
  <1>10. CASE DoOffer \/ DoCleanup \/ DoRoute \/ DoShutdown \/ WriterFault
    BY <1>10 DEF DoOffer, DoCleanup, DoRoute, DoShutdown, WriterFault
  <1>11. CASE DoRecordControl
    <2>1. todo # <<>> /\ (UNCHANGED vars \/ StopAndFail)
      BY <1>11 DEF DoRecordControl, Head1
    <2> QED BY <1>5, <1>7, <2>1 DEF StopAndFail
  <1>12. CASE DoPersistCompletion
    <2>1. todo # <<>> /\ (UNCHANGED vars \/ StopAndFail \/ CompletionDurable(lastMonotonic))
      BY <1>12 DEF DoPersistCompletion, Head1
    <2> QED BY <1>5, <1>7, <2>1 DEF StopAndFail, Next
  <1>13. CASE DoFinalize
    <2>1. lastMonotonic \in Times /\ (FinalizeOk \/ FinalizeFails)
      BY <1>7, <1>13 DEF DoFinalize, Head1
    <2>2. (completion = "Durable") \in BOOLEAN /\ (~rec.loss) \in BOOLEAN
      OBVIOUS
    <2>3. ASSUME NEW e \in RecordingFailures,
                 RecordingFinalizationFailed(lastMonotonic, completion = "Durable", e)
          PROVE  Next
      BY <2>1, <2>2, <2>3 DEF Next
    <2>4. ASSUME NEW c, NEW after, Conclude([completed |-> c, saved |-> ~rec.loss], after)
          PROVE  [Next]_vars
      <3>1. CASE (completion # "NotReached") = c
        <4>1. c \in BOOLEAN /\ RecordingFinalized(lastMonotonic, c, ~rec.loss)
          BY <2>4, <3>1 DEF Conclude
        <4> QED BY <2>1, <2>2, <4>1 DEF Next
      <3>2. CASE (completion # "NotReached") # c
        BY <2>4, <3>2 DEF Conclude
      <3> QED BY <3>1, <3>2
    <2> QED BY <1>8, <2>1, <2>3, <2>4 DEF FinalizeOk, FinalizeFails
  <1> QED
    BY <1>1, <1>3, <1>4, <1>6, <1>9, <1>10, <1>11, <1>12, <1>13 DEF EffectsNext

\* The worker, its effects and a backend whose every call may fail implement the reducer's
\* specification: carrying out an effect never takes a step no command could take, so what
\* is proved of the reducer holds of the running system.
THEOREM WorkerRunsTheReducer == EffectsSpec => Spec
  <1>1. EffectsInit => Init /\ TimeInv /\ WorkerInv
    BY InitTimeInv, WorkerInit DEF EffectsInit
  <1>2. TimeInv /\ WorkerInv /\ [EffectsNext]_allVars =>
           TimeInv' /\ WorkerInv' /\ [Next]_vars
    <2>1. TimeInv => TypeOK
      BY DEF TimeInv
    <2> QED BY <2>1, WorkerStep, WorkerCommands, TimeInvStep
  <1> QED BY <1>1, <1>2, PTL DEF EffectsSpec, Spec

\* The worker's invariant holds in every reachable state.
THEOREM WorkerInvariant == EffectsSpec => [](TypeOK /\ WorkerInv)
  <1>1. EffectsInit => WorkerInv
    BY WorkerInit
  <1>2. TypeOK /\ WorkerInv /\ [EffectsNext]_allVars => WorkerInv'
    BY WorkerStep
  <1> QED BY <1>1, <1>2, WorkerRunsTheReducer, TypeCorrect, PTL DEF EffectsSpec

\* The clock, the completion and the lifecycle of the recording are exact in the running
\* system too, whichever writes fail and whatever effects are dropped.
THEOREM RunningIsExact ==
  EffectsSpec => [](ActiveTimeExact /\ CompletionMatchesTime /\ RecordingLifecycle)
  BY WorkerRunsTheReducer, ActiveTimeIsExact, CompletionIsExact, RecordingIsFinalizedOnce, PTL

\* However the backend fails, an operation ends with the session waiting, running or
\* closed, and no failure it remembered outlives the operation (process_effects).
THEOREM NoFailureStrands == EffectsSpec => []NeverStuck
  <1>1. TypeOK /\ WorkerInv => NeverStuck
    BY IdleLane DEF NeverStuck
  <1> QED BY <1>1, WorkerInvariant, PTL

\* Between operations the lane producers read is the running session's or closed, and a
\* bias is applied only once it is committed.
THEOREM LaneIsTheSession == EffectsSpec => []LaneFollowsSession
  <1>1. ASSUME TypeOK, WorkerInv PROVE LaneFollowsSession
    <2>1. todo = <<>> /\ phase = "Idle" => lane = ClosedLane
      BY <1>1, IdleLane
    <2>2. phase = "Active" => SessionRecorded
      BY <1>1 DEF WorkerInv
    <2>3. rec.bias \in Nat
      BY <1>1 DEF WorkerInv, WorkerTypes, Recordings
    <2> QED BY <2>1, <2>2, <2>3, SMTT(30) DEF LaneFollowsSession, SessionRecorded
  <1>2. TypeOK /\ WorkerInv => LaneFollowsSession
    BY <1>1
  <1> QED BY <1>2, WorkerInvariant, PTL

\* A control row, completion or bias decision that may not be durable ends the session,
\* and its result says unsaved.
THEOREM UncertainNeverRuns == EffectsSpec => []UncertainEndsTheSession
  <1>1. ASSUME TypeOK, WorkerInv PROVE UncertainEndsTheSession
    <2>1. todo = <<>> => ~failure /\ (uncertain => phase \in {"Idle", "Closed"})
      BY <1>1, IdleLane
    <2>2. uncertain => \/ phase \in Stopping /\ failure
                       \/ phase \in {"Idle", "Closed"} /\ recordingResult.status = "Unsaved"
      BY <1>1 DEF WorkerInv
    <2> QED BY <2>1, <2>2 DEF UncertainEndsTheSession
  <1>2. TypeOK /\ WorkerInv => UncertainEndsTheSession
    BY <1>1
  <1> QED BY <1>2, WorkerInvariant, PTL

\* A session reported saved lost nothing: every durable write of it succeeded, the writer
\* counted no loss and let the recording go, and the completion claimed is in it.
THEOREM SavedLostNothing == EffectsSpec => []SavedIsWhole
  <1>1. TypeOK /\ WorkerInv => SavedIsWhole
    BY DEF WorkerInv
  <1> QED BY <1>1, WorkerInvariant, PTL
=============================================================================
