---------------------------- MODULE BreathContract ----------------------------
(***************************************************************************)
(* The contract that admits breath samples, BreathContract in the breath   *)
(* contract crate: a lifecycle, generations that are never reused, and the *)
(* latest accepted sample of the running generation.  A sample is its time *)
(* and whether its value and quality are finite and in bounds; counters of *)
(* telemetry, which no decision reads, are left out.                       *)
(***************************************************************************)
EXTENDS Integers

CONSTANTS MaxTime,              \* bound: injected times, in microseconds
          LastGeneration,        \* u64::MAX, where start is refused
          StaleIntervals, DiscontinuityIntervals

\* What is assumed of the constants.
ContractAssumption ==
    /\ MaxTime \in Nat /\ LastGeneration \in Nat \ {0}
    /\ StaleIntervals \subseteq Nat /\ DiscontinuityIntervals \subseteq Nat

VARIABLES lifecycle, configuration, activeGeneration, nextGeneration, lastActionAt,
          lastInputAt, sample, status

configured == <<configuration, nextGeneration>>
contractVars == <<lifecycle, configuration, activeGeneration, nextGeneration, lastActionAt,
          lastInputAt, sample, status>>

Instants == 0..MaxTime
None == -1
NoConfiguration == [stale |-> 0, discontinuity |-> 0]
NoSample == [sampledAt |-> None, observedAt |-> None]

\* BreathContractConfiguration::new
Configurations ==
    {c \in [stale : StaleIntervals, discontinuity : DiscontinuityIntervals] :
        c.stale > 0 /\ c.discontinuity > c.stale}

ContractInit ==
    /\ lifecycle = "Disabled" /\ configuration = NoConfiguration
    /\ activeGeneration = None /\ nextGeneration = 1
    /\ lastActionAt = None /\ lastInputAt = None
    /\ sample = NoSample /\ status = "Disabled"

-----------------------------------------------------------------------------
\* A rejection names its reason and keeps everything else.
Reject(reason) ==
    /\ status' = reason
    /\ UNCHANGED <<lifecycle, configuration, activeGeneration, nextGeneration, lastActionAt,
                   lastInputAt, sample>>

TimeRegressed(at) == lastActionAt # None /\ at < lastActionAt

\* What every accepted lifecycle action does.
Enter(at, state) ==
    /\ lifecycle' = state /\ status' = state
    /\ lastActionAt' = at /\ lastInputAt' = None /\ sample' = NoSample

Reset(at) ==
    \/ TimeRegressed(at) /\ Reject("RejectedTimeRegression")
    \/ /\ ~TimeRegressed(at) /\ Enter(at, "Disabled")
       /\ configuration' = NoConfiguration /\ activeGeneration' = None
       /\ UNCHANGED nextGeneration

Configure(at, valid, c) ==
    \/ TimeRegressed(at) /\ Reject("RejectedTimeRegression")
    \/ ~TimeRegressed(at) /\ lifecycle = "Running" /\ Reject("RejectedInvalidLifecycle")
    \/ /\ ~TimeRegressed(at) /\ lifecycle # "Running" /\ ~valid
       /\ Reject("RejectedInvalidConfiguration")
    \/ /\ ~TimeRegressed(at) /\ lifecycle # "Running" /\ valid
       /\ Enter(at, "Configured")
       /\ configuration' = c /\ activeGeneration' = None /\ UNCHANGED nextGeneration

Startable == configuration # NoConfiguration /\ lifecycle \in {"Configured", "Cancelled"}

Start(at) ==
    \/ TimeRegressed(at) /\ Reject("RejectedTimeRegression")
    \/ ~TimeRegressed(at) /\ ~Startable /\ Reject("RejectedInvalidLifecycle")
    \/ /\ ~TimeRegressed(at) /\ Startable /\ nextGeneration = LastGeneration
       /\ Reject("RejectedGenerationExhausted")
    \/ /\ ~TimeRegressed(at) /\ Startable /\ nextGeneration < LastGeneration
       /\ Enter(at, "Running")
       /\ activeGeneration' = nextGeneration /\ nextGeneration' = nextGeneration + 1
       /\ UNCHANGED configuration

\* Cancel and observe look at the lifecycle, then the generation, then the time.
Admitted(at, g, action) ==
    \/ lifecycle # "Running" /\ Reject("RejectedInvalidLifecycle")
    \/ lifecycle = "Running" /\ g # activeGeneration /\ Reject("RejectedGeneration")
    \/ /\ lifecycle = "Running" /\ g = activeGeneration /\ TimeRegressed(at)
       /\ Reject("RejectedTimeRegression")
    \/ lifecycle = "Running" /\ g = activeGeneration /\ ~TimeRegressed(at) /\ action

Cancel(at, g) ==
    Admitted(at, g, /\ Enter(at, "Cancelled") /\ activeGeneration' = None
                    /\ UNCHANGED configured)

Observed(at, result, accepted) ==
    /\ lastActionAt' = at /\ sample' = accepted /\ status' = result
    /\ UNCHANGED <<lifecycle, activeGeneration, configured>>

IsStale(at, sampledAt) == at - sampledAt > configuration.stale

OutOfOrder(sampledAt) == lastInputAt # None /\ sampledAt <= lastInputAt

\* Observe without the three checks of Admitted; sampledAt = None is Missing.
ObserveInput(at, sampledAt, wellFormed) ==
    IF at - lastActionAt > configuration.discontinuity
    THEN Observed(at, "TimeDiscontinuity", NoSample) /\ UNCHANGED lastInputAt
    ELSE IF sampledAt = None
    THEN Observed(at, "MissingInput", NoSample) /\ UNCHANGED lastInputAt
    ELSE IF sampledAt > at
    THEN Observed(at, "RejectedMalformedInput", NoSample) /\ UNCHANGED lastInputAt
    ELSE IF OutOfOrder(sampledAt)
    THEN Observed(at, "RejectedOutOfOrderInput", NoSample) /\ UNCHANGED lastInputAt
    ELSE /\ lastInputAt' = sampledAt
         /\ IF ~wellFormed THEN Observed(at, "RejectedMalformedInput", NoSample)
            ELSE IF IsStale(at, sampledAt) THEN Observed(at, "StaleInput", NoSample)
            ELSE Observed(at, "SampleAccepted",
                          [sampledAt |-> sampledAt, observedAt |-> at])
Observe(at, g, sampledAt, wellFormed) ==
    Admitted(at, g, ObserveInput(at, sampledAt, wellFormed))

ContractNext ==
    \E at \in Instants :
       \/ Reset(at) \/ Start(at)
       \/ \E c \in Configurations, valid \in BOOLEAN : Configure(at, valid, c)
       \/ \E g \in 1..LastGeneration :
             \/ Cancel(at, g)
             \/ \E sampledAt \in Instants \cup {None}, wellFormed \in BOOLEAN :
                   Observe(at, g, sampledAt, wellFormed)
ContractSpec == ContractInit /\ [][ContractNext]_contractVars

-----------------------------------------------------------------------------
\* Every field is in its range; in particular the allocator of generations never runs
\* past the largest one, where start is refused.
ContractTypeOK ==
    /\ lifecycle \in {"Disabled", "Configured", "Running", "Cancelled"}
    /\ configuration \in Configurations \cup {NoConfiguration}
    /\ activeGeneration \in 1..LastGeneration \cup {None}
    /\ nextGeneration \in 1..LastGeneration
    /\ lastActionAt \in Instants \cup {None} /\ lastInputAt \in Instants \cup {None}
    /\ sample \in {NoSample} \cup [sampledAt : Instants, observedAt : Instants]

\* The sample a reader sees was accepted by the last accepted action of the running
\* generation, is its newest input and was fresh: no cancelled generation, gap,
\* missing, malformed, late or stale input leaves an earlier sample behind.
SampleIsCurrent ==
    sample # NoSample =>
        /\ lifecycle = "Running" /\ activeGeneration # None
        /\ sample.observedAt = lastActionAt /\ sample.sampledAt = lastInputAt
        /\ sample.sampledAt <= sample.observedAt
        /\ sample.observedAt - sample.sampledAt <= configuration.stale

\* A sample never passes from one generation to another, and within one the accepted
\* times only grow, also across gaps and rejected inputs.
SamplesAdvance ==
    [][/\ activeGeneration' # activeGeneration => sample' = NoSample
       /\ (sample' # sample /\ sample' # NoSample) =>
             sample'.sampledAt > lastInputAt]_contractVars

\* A generation is new when it starts and stays current while it runs: whatever is
\* reset, configured or cancelled, one that has been left is never current again.
GenerationsAreFresh ==
    [][/\ nextGeneration' >= nextGeneration
       /\ (activeGeneration' # activeGeneration /\ activeGeneration' # None) =>
             /\ activeGeneration' = nextGeneration
             /\ nextGeneration' > activeGeneration']_contractVars
=============================================================================
