--------------------------- MODULE OperationHistory ---------------------------
(***************************************************************************)
(* The command history of the session reducer (apply, remember in          *)
(* experiment_session.rs).  The reducer remembers its latest decisions in  *)
(* a ring; a token that leaves the ring raises a floor under which no      *)
(* token is decided any more.  What a command does to the session is       *)
(* module ExperimentSession; here it is accepted or rejected, and may      *)
(* begin a new generation.                                                 *)
(***************************************************************************)
EXTENDS Integers, Sequences, FiniteSets

CONSTANTS Tokens,         \* OperationToken values
          Commands,       \* session commands, as far as two can differ
          Times,          \* monotonic times
          MaxGeneration,  \* bound: sessions armed
          Capacity        \* OPERATION_HISTORY_CAPACITY

ASSUME TokensAssumption == Tokens \subseteq Nat \ {0}
ASSUME TimesAssumption == Times \subseteq Nat
ASSUME CapacityAssumption == Capacity \in Nat \ {0}
ASSUME GenerationAssumption == MaxGeneration \in Nat

VARIABLES operations,     \* the ring of AppliedOperation entries
          retiredFloor,   \* retired_operation_floor
          generation, lastMonotonic, revision,
          reply,          \* the outcome apply returned last
          decided         \* history variable: the decision on each token

vars == <<operations, retiredFloor, generation, lastMonotonic, revision, reply,
          decided>>

CommandRejection == {"OperationConflict", "OperationRetired", "StaleGeneration",
                     "MonotonicTimeRegression", "InvalidPhase"}
Envelopes == [operation : Tokens, expectedGeneration : 0..MaxGeneration,
              at : Times, command : Commands]
Outcomes == [accepted : BOOLEAN, revision : Nat, generation : 0..MaxGeneration,
             rejection : CommandRejection \cup {"none"}]
NoOutcome == [accepted |-> FALSE, revision |-> 0, generation |-> 0,
              rejection |-> "undecided"]
Rejected(rejection) ==
    [accepted |-> FALSE, revision |-> revision, generation |-> generation,
     rejection |-> rejection]
Refusals == [accepted : {FALSE}, revision : Nat, generation : 0..MaxGeneration,
             rejection : {"OperationConflict", "OperationRetired"}]

Init ==
    /\ operations = <<>> /\ retiredFloor = 0
    /\ generation = 0 /\ lastMonotonic = 0 /\ revision = 0
    /\ reply = NoOutcome /\ decided = [t \in Tokens |-> NoOutcome]

Known(t) == \E i \in 1..Len(operations) : operations[i].envelope.operation = t

\* The ring without its oldest entry, once it is full.
Kept == IF Len(operations) = Capacity THEN Tail(operations) ELSE operations

\* Mutant: an operation that leaves the ring is forgotten.
FloorForgets == retiredFloor

\* remember: at capacity the oldest entry leaves the ring and raises the floor.
FloorAfter ==
    IF Len(operations) = Capacity /\ operations[1].envelope.operation > retiredFloor
    THEN operations[1].envelope.operation ELSE retiredFloor

Remember(e, outcome) ==
    /\ operations' = Append(Kept, [envelope |-> e, outcome |-> outcome])
    /\ retiredFloor' = FloorAfter
    /\ decided' = [decided EXCEPT ![e.operation] = outcome]
    /\ reply' = outcome

Refuse(rejection) ==
    /\ reply' = Rejected(rejection)
    /\ UNCHANGED <<operations, retiredFloor, generation, lastMonotonic, revision,
                   decided>>

\* A token in the ring is answered from it, if the command is the same one.
Duplicate(e) ==
    /\ \E i \in 1..Len(operations) :
          operations[i].envelope = e /\ reply' = operations[i].outcome
    /\ UNCHANGED <<operations, retiredFloor, generation, lastMonotonic, revision,
                   decided>>
Conflict(e) ==
    /\ \E i \in 1..Len(operations) : /\ operations[i].envelope.operation = e.operation
                                     /\ operations[i].envelope # e
    /\ Refuse("OperationConflict")
Retired(e) ==
    /\ ~Known(e.operation) /\ e.operation =< retiredFloor
    /\ Refuse("OperationRetired")

\* The fences of apply; a command they stop is remembered as rejected.
Fresh(e) == ~Known(e.operation) /\ e.operation > retiredFloor
Stale(e) ==
    /\ Fresh(e) /\ e.expectedGeneration # generation
    /\ Remember(e, Rejected("StaleGeneration"))
    /\ UNCHANGED <<generation, lastMonotonic, revision>>
Regressed(e) ==
    /\ Fresh(e) /\ e.expectedGeneration = generation /\ e.at < lastMonotonic
    /\ Remember(e, Rejected("MonotonicTimeRegression"))
    /\ UNCHANGED <<generation, lastMonotonic, revision>>

\* reduce accepts the command, and may begin a generation, or rejects it.
Admissible(e) ==
    Fresh(e) /\ e.expectedGeneration = generation /\ e.at >= lastMonotonic

Accepted(e) ==
    /\ Admissible(e)
    /\ lastMonotonic' = e.at /\ revision' = revision + 1
    /\ generation' \in {generation, generation + 1} /\ generation' =< MaxGeneration
    /\ Remember(e, [accepted |-> TRUE, revision |-> revision + 1,
                    generation |-> generation', rejection |-> "none"])

RejectedByReduce(e) ==
    /\ Admissible(e)
    /\ Remember(e, Rejected("InvalidPhase"))
    /\ UNCHANGED <<generation, lastMonotonic, revision>>

Apply(e) ==
    \/ Duplicate(e) \/ Conflict(e) \/ Retired(e)
    \/ Stale(e) \/ Regressed(e) \/ Accepted(e) \/ RejectedByReduce(e)
Next == \E e \in Envelopes : Apply(e)
Spec == Init /\ [][Next]_vars

-----------------------------------------------------------------------------
\* Properties.

\* The history, the fences and the reply are well formed.
TypeOK ==
    /\ operations \in Seq([envelope : Envelopes, outcome : Outcomes])
    /\ retiredFloor \in Nat
    /\ generation \in 0..MaxGeneration
    /\ lastMonotonic \in Nat /\ revision \in Nat
    /\ reply \in Outcomes \cup {NoOutcome}
    /\ decided \in [Tokens -> Outcomes \cup {NoOutcome}]

\* The ring never exceeds its capacity and holds no token twice, so `find` has
\* one entry to find.
RingExact ==
    /\ Len(operations) =< Capacity
    /\ \A i, j \in 1..Len(operations) :
          operations[i].envelope.operation = operations[j].envelope.operation => i = j

\* A decided token is still in the ring or under the floor, whatever the order
\* the tokens came in: nothing the reducer decided can be decided again.
DecidedIsFenced ==
    \A t \in Tokens : decided[t] # NoOutcome => Known(t) \/ t =< retiredFloor

\* What the ring holds for a token is the decision on it.
RingIsTrue ==
    \A i \in 1..Len(operations) :
        decided[operations[i].envelope.operation] = operations[i].outcome

\* The tokens whose command was accepted.
AcceptedTokens == {t \in Tokens : decided[t].accepted}

\* The revision counts the accepted operations, each once, although most of them
\* have left the ring (apply increments it next to remember).
RevisionExact == revision = Cardinality(AcceptedTokens)

\* The reducer implements at-most-once decisions: no duplicate, late or
\* reordered command is ever reduced a second time, and a repeated one gets the
\* outcome of the first.
Once == INSTANCE AtMostOnce WITH decided <- decided, reply <- reply
AppliedAtMostOnce == Once!Spec
=============================================================================
