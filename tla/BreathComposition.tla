-------------------------- MODULE BreathComposition --------------------------
(***************************************************************************)
(* The breath composition: the authority that selects a source and a       *)
(* mapping (composition.rs), the native runtime that queues the actions    *)
(* of its two adapters (breath_composition_runtime.rs), the frame of the   *)
(* XR thread that applies them (openxr_stimulus_actions.rs), and the       *)
(* session worker that arms a guided session and waits for the adapter.    *)
(*                                                                         *)
(* Panel, worker and XR thread share the runtime behind one lock.  The     *)
(* Polar adapter lives behind that lock; the controller's belongs to the   *)
(* XR thread, which takes the lock once for each thing it reads or says.   *)
(* The feature lock is active.  The projections and the direction of a     *)
(* selection are one field, inverted.                                      *)
(***************************************************************************)
EXTENDS Integers, Sequences

CONSTANTS
    Selectable,         \* the selections the panel asks for
    Unavailable,        \* <<source, mapping>> pairs the package does not list
    QueueCapacity,      \* MAX_PENDING_ACTIONS
    MaxBreath, MaxTuning, MaxSession,                \* bounds
    ControllerElsewhere \* another feature runs the controller adapter as well

ASSUME QueueAssumption == QueueCapacity \in Nat \ {0}
ASSUME BreathAssumption ==
    MaxBreath \in Nat \ {0} /\ MaxTuning \in Nat /\ MaxSession \in Nat \ {0}
ASSUME ElsewhereAssumption == ControllerElsewhere \in BOOLEAN

VARIABLES
    rt,          \* the runtime: authority, pending_actions, latest_calibration
    tuning,      \* PolarStateTuningControl
    boundary,    \* polar_parameter_boundary
    adapters,    \* one for each source
    frame,       \* where the XR thread is in sync_and_poll, and what it holds
    arm          \* the worker in prepare_guided_arm

compositionVars == <<rt, tuning, boundary, adapters, frame, arm>>

Sources == {"Controller", "Polar"}
Mappings == {"Volume", "State"}
Requests == [source : Sources, mapping : Mappings, inverted : BOOLEAN]
ASSUME SelectableAssumption == Selectable \subseteq Requests
NoRequest == [source |-> "none", mapping |-> "none", inverted |-> FALSE]
Statuses == {"Disabled", "RejectedUnavailable", "Selected", "Configured", "Running",
             "Cancelled"}
BreathGenerations == 0..MaxBreath                          \* 0 is None
NoOutput == [source |-> "none", mapping |-> "none", generation |-> 0]
NoCalibration == [lifecycle |-> "none", generation |-> 0]

\* A tuning request: the session it names, its generation, its parameters.
Parameters == {"guided", "other"}
Tunings == [session : 1..MaxSession, generation : 0..MaxTuning, parameters : Parameters]
NoTuning == [session |-> 0, generation |-> 0, parameters |-> "none"]

\* pending_actions, split by the source each action names: an action is only ever
\* looked up, taken or dropped by its source.
Actions == [kind : {"Configure", "Start", "Cancel", "Reset"}, generation : BreathGenerations]
Act(kind, g) == [kind |-> kind, generation |-> g]
For(source, actions) == [s \in Sources |-> IF s = source THEN actions ELSE <<>>]
Nothing == For("none", <<>>)
Total(queues) == Len(queues["Controller"]) + Len(queues["Polar"])

\* An adapter and its calibration: "Active" is collecting or ready; highest is the
\* calibration's own fence; configure fixes inverted, the tuning replaces the phase.
Lifecycles == {"absent", "Disabled", "Configured", "Active", "Failed", "Cancelled"}
NewAdapter == [lifecycle |-> "Disabled", generation |-> 0, highest |-> 0,
               inverted |-> FALSE, phase |-> "none", phaseInverted |-> FALSE]
NoAdapter == [NewAdapter EXCEPT !.lifecycle = "absent"]

Idle == [at |-> "idle", selection |-> NoRequest, generation |-> 0, tuning |-> NoTuning]
AtFrame(place) == [at |-> place, hand |-> Act("Reset", 0),
                   calibration |-> NoCalibration, generation |-> 0]

NewRuntime == [effective |-> NoRequest, status |-> "Disabled", generation |-> 0,
               next |-> 1, output |-> NoOutput, pending |-> Nothing,
               latest |-> NoCalibration]
NewTuning(session) == [session |-> session, generation |-> 0, requested |-> NoTuning,
                       effective |-> NoTuning, pending |-> NoTuning]

CompositionInit ==
    /\ rt = NewRuntime /\ tuning = NewTuning(1) /\ boundary = NoTuning
    /\ adapters = [s \in Sources |-> IF s = "Polar" THEN NoAdapter ELSE NewAdapter]
    /\ frame = AtFrame("gone") /\ arm = Idle

-----------------------------------------------------------------------------
(* The authority.  An action that is rejected changes nothing but the reason.         *)

Supported(r) == r # NoRequest /\ <<r.source, r.mapping>> \notin Unavailable

\* hard_reset
Cleared(a) == [a EXCEPT !.generation = 0, !.output = NoOutput]

SameAssessment(r, q) == r.source = q.source /\ r.inverted = q.inverted
HardResets(a, r) ==
    \/ ~Supported(r) /\ (r = NoRequest => a.effective # NoRequest)
    \/ Supported(r) /\ a.effective # NoRequest /\ ~SameAssessment(a.effective, r)

\* Mutant: a change of the mapping keeps the last output.
SelectedKeepingOutput(a, r) ==
    IF ~Supported(r)
    THEN [Cleared(a) EXCEPT !.effective = NoRequest,
              !.status = IF r = NoRequest THEN "Disabled" ELSE "RejectedUnavailable"]
    ELSE IF SameAssessment(a.effective, r) /\ a.effective.mapping # r.mapping
    THEN [a EXCEPT !.effective = r]
    ELSE [(IF a.effective = r THEN a ELSE Cleared(a)) EXCEPT !.effective = r,
              !.status = "Selected"]

\* select: selecting again what is selected keeps the generation and the output.
Selected(a, r) ==
    IF ~Supported(r)
    THEN [Cleared(a) EXCEPT !.effective = NoRequest,
              !.status = IF r = NoRequest THEN "Disabled" ELSE "RejectedUnavailable"]
    ELSE IF SameAssessment(a.effective, r) /\ a.effective.mapping # r.mapping
    THEN [a EXCEPT !.effective = r, !.output = NoOutput]
    ELSE [(IF a.effective = r THEN a ELSE Cleared(a)) EXCEPT !.effective = r,
              !.status = "Selected"]

Configurable(a) ==
    a.effective # NoRequest /\ a.status \in {"Selected", "Cancelled", "Configured"}
Configured(a) == [Cleared(a) EXCEPT !.status = "Configured"]
Startable(a) ==
    a.effective # NoRequest /\ a.status \in {"Configured", "Cancelled"}
Started(a) == [a EXCEPT !.generation = a.next, !.next = a.next + 1,
                        !.output = NoOutput, !.status = "Running"]

Admits(a, source, g) ==
    a.status = "Running" /\ a.effective.source = source /\ a.generation = g

\* observe; usable is what its age, tracking and the mapping's own checks find.
Observed(a, source, g, usable) ==
    [a EXCEPT !.output =
        IF Admits(a, source, g) /\ usable
        THEN [source |-> source, mapping |-> a.effective.mapping, generation |-> g]
        ELSE NoOutput]

-----------------------------------------------------------------------------
(* The runtime *)

\* Mutant: the queue takes one action too many.
FitsOneMore(r, actions) == Total(r.pending) + Total(actions) <= QueueCapacity + 1
Fits(r, actions) == Total(r.pending) + Total(actions) <= QueueCapacity
Extended(queues, actions) == [s \in Sources |-> queues[s] \o actions[s]]

\* Mutant: the authority moves on although its actions cannot be retained.
CommitAnyway(r, candidate, actions, clear) ==
    [candidate EXCEPT
        !.pending = IF Fits(r, actions) THEN Extended(r.pending, actions) ELSE r.pending,
        !.latest = IF clear THEN NoCalibration ELSE r.latest]

\* commit_transition
Commit(r, candidate, actions, clear) ==
    IF ~Fits(r, actions) THEN r
    ELSE [candidate EXCEPT !.pending = Extended(r.pending, actions),
                           !.latest = IF clear THEN NoCalibration ELSE r.latest]

\* reset_actions
ResetActions(previous, target) ==
    [s \in Sources |-> IF s \in {previous, target} THEN <<Act("Reset", 0)>> ELSE <<>>]

SelectActions(r, request) ==
    IF ~HardResets(r, request) \/ r.effective = NoRequest THEN Nothing
    ELSE ResetActions(r.effective.source,
                      IF Supported(request) THEN request.source ELSE "none")
AfterSelect(r, request) ==
    Commit(r, Selected(r, request), SelectActions(r, request),
           request = NoRequest \/ HardResets(r, request))

\* start_calibration_inner
CalibrationActions(r) ==
    For(r.effective.source,
        (IF r.status = "Running" THEN <<Act("Reset", 0)>> ELSE <<>>)
        \o <<Act("Configure", 0), Act("Start", r.next)>>)
AfterStartCalibration(r) ==
    Commit(r, Started(Configured(r)), CalibrationActions(r), TRUE)

\* ensure_running_for_experiment_arm
Healthy(r) == r.status = "Running" /\ r.latest.lifecycle # "Failed"
AfterEnsureRunning(r) == IF Healthy(r) THEN r ELSE AfterStartCalibration(r)

\* Bound: a later session starts fewer generations, and tunes less.
Bounded(r) == r.next + tuning.session <= MaxBreath + 2

\* submit_calibration: c is what the adapter's calibration answered.
SubmitCalibration(r, source, c) ==
    IF /\ r.status = "Running" /\ r.effective.source = source
       /\ c # NoCalibration /\ c.generation = r.generation
    THEN [r EXCEPT !.latest = c] ELSE r

\* The commands of the panel.  One that is refused leaves the runtime as it is.
PanelCommand(new) == Bounded(new) /\ rt' = new /\ UNCHANGED <<boundary, adapters, frame, arm>>
OnEffective(kind, g, candidate, clear) ==
    Commit(rt, candidate, For(rt.effective.source, <<Act(kind, g)>>), clear)

SelectCommand(r) == PanelCommand(AfterSelect(rt, r)) /\ UNCHANGED tuning
ConfigureCommand ==
    /\ Configurable(rt) /\ UNCHANGED tuning
    /\ PanelCommand(OnEffective("Configure", 0, Configured(rt), TRUE))
StartCommand ==
    /\ Startable(rt) /\ UNCHANGED tuning
    /\ PanelCommand(OnEffective("Start", rt.next, Started(rt), FALSE))
StartCalibrationCommand ==
    /\ rt.effective # NoRequest /\ UNCHANGED tuning
    /\ PanelCommand(AfterStartCalibration(rt))
CancelCommand ==
    /\ rt.status = "Running" /\ UNCHANGED tuning
    /\ PanelCommand(OnEffective("Cancel", rt.generation,
                           [Cleared(rt) EXCEPT !.status = "Cancelled"], TRUE))
ResetCommand ==
    /\ rt.effective # NoRequest /\ UNCHANGED tuning
    /\ PanelCommand(OnEffective("Reset", 0, [Cleared(rt) EXCEPT !.status = "Selected"], TRUE))

\* PolarStateTuningControl::accept, with a generation and request_id never used before
Tuned(t, parameters) ==
    LET request == [session |-> t.session, generation |-> t.generation + 1,
                    parameters |-> parameters]
    IN [t EXCEPT !.generation = request.generation, !.requested = request,
                 !.pending = request]
ConfigurePolarState ==
    /\ tuning.generation + tuning.session <= MaxTuning
    /\ tuning' = Tuned(tuning, "other")
    /\ UNCHANGED <<rt, boundary, adapters, frame, arm>>

-----------------------------------------------------------------------------
(* The adapters *)

\* AcceptedFrameCalibration as its adapters use it
AdapterStarted(a, g) ==
    IF a.lifecycle \in {"Configured", "Cancelled", "Failed"} /\ g > a.highest
    THEN [a EXCEPT !.lifecycle = "Active", !.generation = g, !.highest = g]
    ELSE a
AdapterCancelled(a, g) ==
    IF a.lifecycle \in {"Active", "Failed"} /\ g = a.generation
    THEN [a EXCEPT !.lifecycle = "Cancelled", !.generation = 0] ELSE a
AdapterReset(a) ==
    IF a.lifecycle = "absent" THEN a
    ELSE [a EXCEPT !.lifecycle = "Disabled", !.generation = 0]

\* apply_polar_configuration_boundary and apply_composition_controller_actions, one
\* action: configure reads the selection e of now, not that of the command.
Applied(a, source, action, e, parameters) ==
    CASE action.kind = "Configure" /\ e # NoRequest ->
            [lifecycle |-> "Configured", generation |-> 0,
             highest |-> IF source = "Polar" THEN 0 ELSE a.highest,
             inverted |-> e.inverted, phase |-> parameters, phaseInverted |-> e.inverted]
      [] action.kind = "Configure" /\ e = NoRequest ->
            IF source = "Polar" THEN NoAdapter ELSE a
      [] action.kind = "Start" -> AdapterStarted(a, action.generation)
      [] action.kind = "Cancel" -> AdapterCancelled(a, action.generation)
      [] action.kind = "Reset" -> AdapterReset(a)

\* What submit_calibration is told after an action: only a start is a receipt.
Receipt(a, action) ==
    IF action.kind = "Start" /\ a.lifecycle = "Active" /\ a.generation = action.generation
    THEN [lifecycle |-> "Active", generation |-> a.generation] ELSE NoCalibration

Of(source) == rt.pending[source]
NotOf(source) == [rt.pending EXCEPT ![source] = <<>>]

\* An observation of the adapter: its watchdog may fail the calibration.
AfterFrame(a, fails) ==
    IF fails /\ a.lifecycle = "Active" THEN [a EXCEPT !.lifecycle = "Failed"] ELSE a
Answer(a) == IF a.lifecycle = "Active" THEN [lifecycle |-> "Active", generation |-> a.generation]
             ELSE NoCalibration
FailedAnswer(a, fails) ==
    IF fails /\ a.lifecycle = "Active"
    THEN [lifecycle |-> "Failed", generation |-> a.generation] ELSE Answer(a)

-----------------------------------------------------------------------------
(* The XR thread: sync_and_poll.  The lock is released between any two of its steps. *)

At(place) == frame.at = place

\* take_adapter_action
FrameTakes ==
    /\ At("take")
    /\ IF Of("Controller") = <<>>
       THEN frame' = AtFrame("observe") /\ UNCHANGED rt
       ELSE /\ frame' = [AtFrame("apply") EXCEPT !.hand = Head(Of("Controller"))]
            /\ rt' = [rt EXCEPT !.pending["Controller"] = Tail(@)]
    /\ UNCHANGED <<tuning, boundary, adapters, arm>>

FrameApplies ==
    /\ At("apply")
    /\ LET new == Applied(adapters["Controller"], "Controller", frame.hand,
                          rt.effective, "none") IN
       /\ adapters' = [adapters EXCEPT !["Controller"] = new]
       /\ frame' = [AtFrame("report") EXCEPT !.calibration = Receipt(new, frame.hand)]
    /\ UNCHANGED <<rt, tuning, boundary, arm>>

FrameReports ==
    /\ At("report") /\ frame' = AtFrame("take")
    /\ rt' = SubmitCalibration(rt, "Controller", frame.calibration)
    /\ UNCHANGED <<tuning, boundary, adapters, arm>>

\* ensure_running, when the controller's breath is used outside the composition
EnsuredRunning(a) ==
    IF a.generation # 0 \/ a.highest >= MaxBreath THEN a
    ELSE AdapterStarted([a EXCEPT !.lifecycle = IF @ = "Disabled" THEN "Configured" ELSE @],
                        a.highest + 1)

FrameObserves(fails) ==
    /\ At("observe")
    /\ LET selected == rt.effective.source = "Controller"
           a == IF selected \/ ~ControllerElsewhere THEN adapters["Controller"]
                ELSE EnsuredRunning(adapters["Controller"])
       IN IF a.generation = 0 \/ ~(selected \/ ControllerElsewhere)
          THEN frame' = AtFrame("poll") /\ adapters' = [adapters EXCEPT !["Controller"] = a]
          ELSE /\ adapters' = [adapters EXCEPT !["Controller"] = AfterFrame(a, fails)]
               /\ frame' = IF ~selected THEN AtFrame("poll")
                           ELSE [AtFrame("answer") EXCEPT
                                     !.calibration = FailedAnswer(a, fails),
                                     !.generation = a.generation]
    /\ UNCHANGED <<rt, tuning, boundary, arm>>

FrameAnswers ==
    /\ At("answer") /\ frame' = [frame EXCEPT !.at = "submit", !.calibration = NoCalibration]
    /\ rt' = SubmitCalibration(rt, "Controller", frame.calibration)
    /\ UNCHANGED <<tuning, boundary, adapters, arm>>

FrameSubmits(usable) ==
    /\ At("submit") /\ frame' = AtFrame("poll")
    /\ rt' = Observed(rt, "Controller", frame.generation, usable)
    /\ UNCHANGED <<tuning, boundary, adapters, arm>>

\* apply_polar_configuration_boundary: every queued action of the Polar adapter, then the
\* pending tuning.
BoundaryAction(x, action) ==
    LET new == Applied(x.adapter, "Polar", action, rt.effective,
                       tuning.effective.parameters) IN
    [adapter |-> new,
     boundary |-> IF action.kind = "Configure" THEN NoTuning ELSE x.boundary,
     rt |-> SubmitCalibration(x.rt, "Polar", Receipt(new, action))]
BoundaryActions ==
    LET done[n \in 0..Len(Of("Polar"))] ==
            IF n = 0 THEN [adapter |-> adapters["Polar"], boundary |-> boundary,
                           rt |-> [rt EXCEPT !.pending = NotOf("Polar")]]
            ELSE BoundaryAction(done[n - 1], Of("Polar")[n])
    IN  done[Len(Of("Polar"))]
TuningApplies(a) == tuning.pending # NoTuning /\ a.lifecycle # "absent"

\* poll_polar: then a frame, or the one report of a missing one, or nothing.
FramePolls(observes, fails, usable) ==
    /\ At("poll") /\ frame' = AtFrame("take")
    /\ LET x == BoundaryActions
           a == IF TuningApplies(x.adapter)
                THEN [x.adapter EXCEPT !.phase = tuning.pending.parameters,
                                       !.phaseInverted = rt.effective.inverted]
                ELSE x.adapter
           sees == /\ observes /\ rt.generation # 0 /\ rt.effective.source = "Polar"
                   /\ a.generation = rt.generation
       IN /\ IF TuningApplies(x.adapter)
             THEN /\ boundary' = tuning.pending
                  /\ tuning' = [tuning EXCEPT !.effective = tuning.pending,
                                              !.pending = NoTuning]
             ELSE boundary' = x.boundary /\ UNCHANGED tuning
          /\ adapters' = [adapters EXCEPT !["Polar"] = IF sees THEN AfterFrame(a, fails) ELSE a]
          /\ rt' = IF sees
                   THEN Observed(SubmitCalibration(x.rt, "Polar", FailedAnswer(a, fails)),
                                 "Polar", a.generation, usable)
                   ELSE x.rt
    /\ UNCHANGED arm

-----------------------------------------------------------------------------
(* A relaunch installs a new runtime while no frame runs; the new XR session then      *)
(* makes its own controller adapter and invalidates the Polar one.                     *)

Install ==
    /\ At("take") /\ tuning.session < MaxSession
    /\ rt' = NewRuntime /\ tuning' = NewTuning(tuning.session + 1)
    /\ boundary' = NoTuning /\ frame' = AtFrame("gone")
    /\ adapters' = [adapters EXCEPT !["Polar"] = NoAdapter] /\ UNCHANGED arm

\* invalidate_polar_clock_owner
Invalidated(r) ==
    IF r.effective.source # "Polar" THEN [r EXCEPT !.pending = NotOf("Polar")]
    ELSE [Cleared(r) EXCEPT !.pending = NotOf("Polar"), !.status = "Selected",
                            !.latest = NoCalibration]
NewXrSession ==
    /\ At("gone") /\ frame' = AtFrame("take")
    /\ rt' = Invalidated(rt) /\ tuning' = [tuning EXCEPT !.pending = NoTuning]
    /\ boundary' = NoTuning /\ UNCHANGED arm
    /\ adapters' = [adapters EXCEPT !["Polar"] = NoAdapter, !["Controller"] = NewAdapter]

-----------------------------------------------------------------------------
(* The worker: prepare_guided_arm.  It asks under the lock, lets it go, and looks until *)
(* the adapter has applied what it asked or the deadline is over.                       *)

Desired(r) == [r.effective EXCEPT !.source = "Polar", !.mapping = "State"]

\* acknowledged_phase_configuration, compared with the guided parameters
HasGuidedPhase(r) ==
    /\ adapters["Polar"].generation # 0 /\ adapters["Polar"].generation = r.generation
    /\ adapters["Polar"].phaseInverted = r.effective.inverted
    /\ adapters["Polar"].phase = "guided"
AlreadyAcknowledged(r) ==
    /\ boundary.parameters = "guided" /\ tuning.pending = NoTuning
    /\ tuning.requested = boundary
    /\ r.pending["Polar"] = <<>>
    /\ HasGuidedPhase(r)

\* request_guided_arm: a step that fails keeps what the steps before it committed.
ArmRequest ==
    /\ arm.at # "waiting" /\ rt.effective # NoRequest
    /\ LET desired == Desired(rt)
           selected == IF rt.effective = desired THEN rt ELSE AfterSelect(rt, desired)
           running == AfterEnsureRunning(selected)
           ok == selected.effective = desired /\ running.status = "Running"
                 /\ (Healthy(selected) \/ running # selected)
           asked == IF AlreadyAcknowledged(running) THEN tuning ELSE Tuned(tuning, "guided")
       IN IF ok
          THEN /\ Bounded(running) /\ asked.generation <= MaxTuning
               /\ rt' = running /\ tuning' = asked
               /\ arm' = [at |-> "waiting", selection |-> desired,
                          generation |-> running.generation, tuning |-> asked.requested]
          ELSE rt' = selected /\ arm' = Idle /\ UNCHANGED tuning
    /\ UNCHANGED <<boundary, adapters, frame>>

\* Mutant: only another selection or tuning supersedes a request.
SupersededByRequest == rt.effective # arm.selection \/ tuning.requested # arm.tuning

\* acknowledged_guided_arm
Superseded ==
    \/ rt.effective # arm.selection \/ rt.generation # arm.generation
    \/ tuning.requested # arm.tuning
StillPending == tuning.pending = arm.tuning \/ Of("Polar") # <<>>

Acknowledged ==
    /\ HasGuidedPhase(rt)
    /\ boundary = arm.tuning /\ boundary.parameters = "guided"
    /\ tuning.pending = NoTuning /\ tuning.effective = boundary

ArmLooks ==
    /\ arm.at = "waiting" /\ (Superseded \/ ~StillPending)
    /\ arm' = IF ~Superseded /\ Acknowledged THEN [Idle EXCEPT !.at = "armed"] ELSE Idle
    /\ UNCHANGED <<rt, tuning, boundary, adapters, frame>>

\* The deadline is over: cancel_guided_arm.
ArmTimesOut ==
    /\ arm.at = "waiting" /\ arm' = Idle
    /\ IF rt.generation = arm.generation /\ tuning.requested = arm.tuning
       THEN LET kept == [rt EXCEPT !.pending = NotOf("Polar")] IN
            /\ tuning' = [tuning EXCEPT !.pending = IF @ = arm.tuning THEN NoTuning ELSE @]
            /\ rt' = Commit(kept, [Cleared(kept) EXCEPT !.status = "Selected"],
                            For("Polar", <<Act("Reset", 0)>>), TRUE)
       ELSE UNCHANGED <<rt, tuning>>
    /\ UNCHANGED <<boundary, adapters, frame>>

\* ensure_running_for_experiment_arm of a session without guidance
EnsureRunning ==
    /\ rt.effective # NoRequest /\ UNCHANGED tuning
    /\ PanelCommand(AfterEnsureRunning(rt))

-----------------------------------------------------------------------------

Panel ==
    \/ \E r \in Selectable \cup {NoRequest} : SelectCommand(r)
    \/ ConfigureCommand \/ StartCommand \/ StartCalibrationCommand
    \/ CancelCommand \/ ResetCommand \/ ConfigurePolarState
Frame ==
    \/ FrameTakes \/ FrameApplies \/ FrameReports \/ FrameAnswers
    \/ \E fails \in BOOLEAN : FrameObserves(fails)
    \/ \E usable \in BOOLEAN : FrameSubmits(usable)
    \/ \E observes, fails, usable \in BOOLEAN : FramePolls(observes, fails, usable)
Launch == Install \/ NewXrSession
ArmWorker == ArmRequest \/ ArmLooks \/ ArmTimesOut \/ EnsureRunning

CompositionNext == Panel \/ Frame \/ Launch \/ ArmWorker
CompositionSpec == CompositionInit /\ [][CompositionNext]_compositionVars

-----------------------------------------------------------------------------
(* Properties *)

\* The queue of adapter actions stays within MAX_PENDING_ACTIONS, and every field in its
\* range: a transition whose actions do not fit commits nothing.
CompositionTypeOK ==
    /\ rt \in [effective : Requests \cup {NoRequest}, status : Statuses,
                generation : BreathGenerations, next : 1..(MaxBreath + 1),
                output : [source : Sources, mapping : Mappings, generation : BreathGenerations]
                         \cup {NoOutput},
                pending : [Sources -> Seq(Actions)],
                latest : [lifecycle : {"Active", "Failed"}, generation : BreathGenerations]
                         \cup {NoCalibration}]
    /\ Total(rt.pending) <= QueueCapacity /\ boundary \in Tunings \cup {NoTuning}
    /\ \A s \in Sources : adapters[s].lifecycle \in Lifecycles
    /\ arm.at \in {"idle", "waiting", "armed"}

\* What is shown is of the selection and the generation in force: what a source said of
\* an earlier generation, another mapping or before a change is never the output, and a
\* calibration the panel reads is of this generation however late its receipt came.
OutputIsCurrent ==
    /\ rt.output # NoOutput =>
          /\ rt.output.source = rt.effective.source
          /\ rt.output.mapping = rt.effective.mapping
          /\ rt.output.generation = rt.generation /\ rt.generation # 0
    /\ rt.latest # NoCalibration =>
          rt.generation # 0 /\ rt.latest.generation = rt.generation

\* Once the actions of the selected source are applied, its adapter runs the generation
\* the authority calls running, configured for the selection in force.
HandEmpty(source) ==
    Of(source) = <<>> /\ (source = "Controller" => frame.at \notin {"apply", "gone"})
AdapterFollows ==
    rt.status = "Running" /\ HandEmpty(rt.effective.source) =>
        LET a == adapters[rt.effective.source] IN
        a.generation = rt.generation /\ a.inverted = rt.effective.inverted

\* A guided session is acknowledged only when the Polar adapter itself runs the generation
\* the worker asked for, in the direction selected, with the guided parameters.
AcknowledgedIsApplied ==
    [][arm.at = "waiting" /\ arm'.at = "armed" =>
          /\ rt.effective = arm.selection /\ rt.generation = arm.generation
          /\ adapters["Polar"].generation = arm.generation
          /\ adapters["Polar"].inverted = arm.selection.inverted
          /\ adapters["Polar"].phase = "guided" /\ tuning.effective = arm.tuning]_compositionVars
=============================================================================
