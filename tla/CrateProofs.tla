----------------------------- MODULE CrateProofs -----------------------------
(***************************************************************************)
(* Proofs about five parts of the library crates: the command history of   *)
(* the session reducer, for any set of tokens, any capacity and any order  *)
(* in which commands arrive; the breath contract, for all times,           *)
(* generations and configurations; package updates, for all tuples,        *)
(* manifests, policies and clocks; the owner dispatch, for any number of   *)
(* tickets, incarnations and crashes and any capacities; and the process   *)
(* fence, for any number of processes, runs and generations.               *)
(***************************************************************************)
EXTENDS OperationHistory, BreathContract, PackageRollback, OwnerDispatch, ProcessFence,
        FiniteSetTheorems, TLAPS

\* The prover of every leaf that does not name another one.
USE ZenonT(30)

-----------------------------------------------------------------------------
(* The command history of rusty-quest-experiment-session *)

Entries == [envelope : Envelopes, outcome : Outcomes]

\* The inductive invariant.  DecidedIsFenced alone says that a decided token is
\* not decided again; that a repeated one gets the same answer needs RingIsTrue.
HistoryInv == TypeOK /\ RingExact /\ DecidedIsFenced /\ RingIsTrue

\* How far remember moves the entries it keeps.
Shift == IF Len(operations) = Capacity THEN 1 ELSE 0

\* NoOutcome is not the outcome of any command.
LEMMA NoOutcomeIsNone == NoOutcome \notin Outcomes
  BY DEF NoOutcome, Outcomes, CommandRejection

\* Which entries remember keeps, and where they are afterwards.
LEMMA KeptEntries ==
  ASSUME TypeOK, RingExact
  PROVE  /\ Kept \in Seq(Entries)
         /\ Len(Kept) = Len(operations) - Shift
         /\ Len(Kept) < Capacity
         /\ \A i \in 1..Len(Kept) : Kept[i] = operations[i + Shift]
  <1> Len(operations) \in Nat /\ operations \in Seq(Entries)
    BY SMTT(30) DEF TypeOK, Entries
  <1>1. CASE Len(operations) = Capacity
    <2>1. operations # <<>>
      BY <1>1, CapacityAssumption
    <2> QED
      BY <1>1, <2>1, CapacityAssumption, SMTT(30) DEF Kept, Shift
  <1>2. CASE Len(operations) # Capacity
    BY <1>2, CapacityAssumption, SMTT(30) DEF Kept, Shift, RingExact
  <1> QED
    BY <1>1, <1>2

\* A fresh token is undecided: this is where the fence is used.
LEMMA FreshIsUndecided ==
  ASSUME HistoryInv, NEW e \in Envelopes, Fresh(e)
  PROVE  decided[e.operation] = NoOutcome
  <1> e.operation \in Tokens /\ e.operation \in Nat /\ retiredFloor \in Nat
    BY TokensAssumption DEF Envelopes, HistoryInv, TypeOK
  <1> QED
    BY SMTT(30) DEF HistoryInv, DecidedIsFenced, Fresh

\* Remembering a fresh token keeps the invariant's parts about the history.
LEMMA RememberStep ==
  ASSUME HistoryInv, NEW e \in Envelopes, NEW o \in Outcomes,
         Fresh(e), Remember(e, o)
  PROVE  /\ operations' \in Seq(Entries)
         /\ retiredFloor' \in Nat
         /\ reply' \in Outcomes
         /\ decided' \in [Tokens -> Outcomes \cup {NoOutcome}]
         /\ RingExact' /\ DecidedIsFenced' /\ RingIsTrue'
  <1> DEFINE entry == [envelope |-> e, outcome |-> o]
  <1>1. /\ operations \in Seq(Entries) /\ Len(operations) \in Nat
        /\ Capacity \in Nat \ {0} /\ Len(operations) =< Capacity
        /\ retiredFloor \in Nat
        /\ e.operation \in Tokens /\ Tokens \subseteq Nat \ {0}
    BY CapacityAssumption, TokensAssumption, SMTT(30)
       DEF HistoryInv, TypeOK, RingExact, Entries, Envelopes
  <1>2. /\ Kept \in Seq(Entries)
        /\ Len(Kept) = Len(operations) - Shift
        /\ Len(Kept) < Capacity
        /\ \A i \in 1..Len(Kept) : Kept[i] = operations[i + Shift]
    BY KeptEntries DEF HistoryInv
  <1>3. Shift \in {0, 1} /\ (Shift = 1 <=> Len(operations) = Capacity)
    BY SMTT(30) DEF Shift
  <1>4. entry \in Entries
    BY DEF Entries
  <1>5. /\ operations' \in Seq(Entries)
        /\ Len(operations') = Len(Kept) + 1
        /\ operations'[Len(Kept) + 1] = entry
        /\ \A i \in 1..Len(Kept) : operations'[i] = operations[i + Shift]
    BY <1>1, <1>2, <1>4, SMTT(30) DEF Remember
  <1>6. Len(Kept) \in Nat
    BY <1>2, SMTT(30)
  <1>7. \A i \in 1..Len(operations) :
           /\ operations[i].envelope.operation \in Tokens
           /\ operations[i].envelope.operation # e.operation
    <2> TAKE i \in 1..Len(operations)
    <2>1. operations[i] \in Entries
      BY <1>1, SMTT(30)
    <2>2. operations[i].envelope.operation \in Tokens
      BY <2>1 DEF Entries, Envelopes
    <2>3. operations[i].envelope.operation # e.operation
      BY DEF Fresh, Known
    <2> QED
      BY <2>2, <2>3
  <1>8. decided \in [Tokens -> Outcomes \cup {NoOutcome}]
    BY DEF HistoryInv, TypeOK
  <1>9. decided' = [decided EXCEPT ![e.operation] = o]
    BY DEF Remember
  <1>10. /\ retiredFloor' \in Nat /\ retiredFloor =< retiredFloor'
         /\ Shift = 1 => operations[1].envelope.operation =< retiredFloor'
    <2>1. Shift = 1 => operations[1].envelope.operation \in Nat
      <3> SUFFICES ASSUME Shift = 1
                   PROVE  operations[1].envelope.operation \in Nat
        OBVIOUS
      <3>1. Len(operations) = Capacity
        BY <1>3
      <3>2. 1 \in 1..Len(operations)
        BY <1>1, <3>1, SMTT(30)
      <3>3. operations[1].envelope.operation \in Tokens
        BY <1>7, <3>2
      <3> QED
        BY <1>1, <3>3
    <2> QED
      BY <1>1, <1>3, <2>1, SMTT(30) DEF Remember, FloorAfter
  <1>11. RingExact'
    <2>1. Len(operations') =< Capacity
      BY <1>1, <1>2, <1>5, <1>6, SMTT(30)
    <2>2. ASSUME NEW i \in 1..Len(operations'), NEW j \in 1..Len(operations'),
                 operations'[i].envelope.operation = operations'[j].envelope.operation
          PROVE  i = j
      <3>1. CASE i =< Len(Kept) /\ j =< Len(Kept)
        <4>1. i + Shift \in 1..Len(operations) /\ j + Shift \in 1..Len(operations)
          BY <1>1, <1>2, <1>3, <1>6, <3>1, SMTT(30)
        <4>2. i + Shift = j + Shift
          BY <1>5, <2>2, <3>1, <4>1, <1>6, SMTT(30) DEF HistoryInv, RingExact
        <4> QED
          BY <1>3, <4>2, SMTT(30)
      <3>2. CASE i = Len(Kept) + 1 /\ j =< Len(Kept)
        <4>1. j + Shift \in 1..Len(operations)
          BY <1>1, <1>2, <1>3, <1>6, <3>2, SMTT(30)
        <4> QED
          BY <1>5, <1>6, <1>7, <2>2, <3>2, <4>1, SMTT(30)
      <3>3. CASE i =< Len(Kept) /\ j = Len(Kept) + 1
        <4>1. i + Shift \in 1..Len(operations)
          BY <1>1, <1>2, <1>3, <1>6, <3>3, SMTT(30)
        <4> QED
          BY <1>5, <1>6, <1>7, <2>2, <3>3, <4>1, SMTT(30)
      <3> QED
        BY <1>5, <1>6, <3>1, <3>2, <3>3, SMTT(30)
    <2> QED
      BY <2>1, <2>2 DEF RingExact
  <1>12. DecidedIsFenced'
    <2> SUFFICES ASSUME NEW t \in Tokens, decided'[t] # NoOutcome, ~(t =< retiredFloor')
                 PROVE  \E i \in 1..Len(operations') :
                           operations'[i].envelope.operation = t
      BY DEF DecidedIsFenced, Known
    <2>1. CASE t = e.operation
      BY <1>5, <1>6, <2>1, SMTT(30)
    <2>2. CASE t # e.operation
      <3>1. decided[t] # NoOutcome
        BY <1>8, <1>9, <2>2
      <3>2. ~(t =< retiredFloor)
        BY <1>1, <1>10, SMTT(30)
      <3>3. PICK i \in 1..Len(operations) : operations[i].envelope.operation = t
        BY <3>1, <3>2 DEF HistoryInv, DecidedIsFenced, Known
      <3>4. ~(Shift = 1 /\ i = 1)
        BY <1>10, <3>3
      <3>5. i - Shift \in 1..Len(Kept) /\ (i - Shift) + Shift = i
        BY <1>1, <1>2, <1>3, <1>6, <3>4, SMTT(30)
      <3>6. operations'[i - Shift].envelope.operation = t
        BY <1>5, <3>3, <3>5
      <3> QED
        BY <1>5, <1>6, <3>5, <3>6, SMTT(30)
    <2> QED
      BY <2>1, <2>2
  <1>13. RingIsTrue'
    <2> SUFFICES ASSUME NEW i \in 1..Len(operations')
                 PROVE  decided'[operations'[i].envelope.operation]
                          = operations'[i].outcome
      BY DEF RingIsTrue
    <2>1. CASE i = Len(Kept) + 1
      BY <1>1, <1>5, <1>8, <1>9, <2>1, SMTT(30)
    <2>2. CASE i \in 1..Len(Kept)
      <3>1. i + Shift \in 1..Len(operations)
        BY <1>1, <1>2, <1>3, <1>6, <2>2, SMTT(30)
      <3>2. decided[operations[i + Shift].envelope.operation]
              = operations[i + Shift].outcome
        BY <3>1 DEF HistoryInv, RingIsTrue
      <3> QED
        BY <1>5, <1>7, <1>8, <1>9, <2>2, <3>1, <3>2
    <2> QED
      BY <1>5, <1>6, <2>1, <2>2, SMTT(30)
  <1> QED
    BY <1>5, <1>8, <1>9, <1>10, <1>11, <1>12, <1>13, <1>1 DEF Remember

\* A new reducer has an empty history and has decided nothing.
LEMMA InitHistoryInv == Init => HistoryInv
  <1> SUFFICES ASSUME Init PROVE HistoryInv
    OBVIOUS
  <1> USE DEF Init
  <1>1. TypeOK
    <2>1. operations \in Seq([envelope : Envelopes, outcome : Outcomes])
      BY SMTT(30)
    <2>2. generation \in 0..MaxGeneration
      BY GenerationAssumption, SMTT(30)
    <2>3. /\ retiredFloor \in Nat /\ lastMonotonic \in Nat /\ revision \in Nat
          /\ reply \in Outcomes \cup {NoOutcome}
          /\ decided \in [Tokens -> Outcomes \cup {NoOutcome}]
      OBVIOUS
    <2> QED
      BY <2>1, <2>2, <2>3 DEF TypeOK
  <1>2. RingExact
    BY CapacityAssumption, SMTT(30) DEF RingExact
  <1>3. DecidedIsFenced
    BY DEF DecidedIsFenced
  <1>4. RingIsTrue
    BY SMTT(30) DEF RingIsTrue
  <1> QED
    BY <1>1, <1>2, <1>3, <1>4 DEF HistoryInv

\* What a decision remembers is an outcome, whichever fence or rule made it.
LEMMA DecisionRemembers ==
  ASSUME HistoryInv, NEW e \in Envelopes,
         Stale(e) \/ Regressed(e) \/ Accepted(e) \/ RejectedByReduce(e)
  PROVE  /\ Fresh(e)
         /\ \E o \in Outcomes : Remember(e, o)
         /\ generation' \in 0..MaxGeneration
         /\ lastMonotonic' \in Nat
         /\ revision' \in Nat
  <1>1. /\ generation \in 0..MaxGeneration /\ MaxGeneration \in Nat
        /\ lastMonotonic \in Nat /\ revision \in Nat
        /\ e.at \in Nat
    BY GenerationAssumption, TimesAssumption DEF HistoryInv, TypeOK, Envelopes
  <1>2. \A r \in CommandRejection : Rejected(r) \in Outcomes
    BY <1>1 DEF Rejected, Outcomes
  <1>3. CASE Stale(e)
    BY <1>1, <1>2, <1>3 DEF Stale, CommandRejection
  <1>4. CASE Regressed(e)
    BY <1>1, <1>2, <1>4 DEF Regressed, CommandRejection
  <1>5. CASE RejectedByReduce(e)
    BY <1>1, <1>2, <1>5 DEF RejectedByReduce, Admissible, CommandRejection
  <1>6. CASE Accepted(e)
    <2>1. PICK g \in {generation, generation + 1} : g = generation' /\ g =< MaxGeneration
      BY <1>6 DEF Accepted
    <2>2. g \in 0..MaxGeneration
      BY <1>1, <2>1, SMTT(30)
    <2>3. [accepted |-> TRUE, revision |-> revision + 1, generation |-> g,
           rejection |-> "none"] \in Outcomes
      BY <1>1, <2>2, SMTT(30) DEF Outcomes
    <2>4. Remember(e, [accepted |-> TRUE, revision |-> revision + 1,
                       generation |-> g, rejection |-> "none"])
      BY <1>6, <2>1 DEF Accepted
    <2> QED
      BY <1>1, <1>6, <2>1, <2>2, <2>3, <2>4, SMTT(30) DEF Accepted, Admissible
  <1> QED
    BY <1>3, <1>4, <1>5, <1>6

\* A refusal changes nothing but the reply.
LEMMA RefuseStep ==
  ASSUME HistoryInv, NEW r \in {"OperationConflict", "OperationRetired"}, Refuse(r)
  PROVE  HistoryInv' /\ reply' \in Refusals /\ decided' = decided
  <1>1. Rejected(r) \in Refusals /\ Rejected(r) \in Outcomes
    BY DEF Rejected, Refusals, Outcomes, CommandRejection, HistoryInv, TypeOK
  <1> QED
    BY <1>1 DEF Refuse, HistoryInv, TypeOK, RingExact, DecidedIsFenced, RingIsTrue, Known

\* An answer from the ring changes nothing but the reply either.
LEMMA DuplicateStep ==
  ASSUME HistoryInv, NEW e \in Envelopes, Duplicate(e)
  PROVE  /\ HistoryInv'
         /\ decided' = decided
         /\ reply' = decided[e.operation]
         /\ reply' \in Outcomes
  <1>1. PICK i \in 1..Len(operations) :
           operations[i].envelope = e /\ reply' = operations[i].outcome
    BY DEF Duplicate
  <1>2. operations[i] \in Entries
    <2>1. operations \in Seq(Entries)
      BY DEF HistoryInv, TypeOK, Entries
    <2> QED
      BY <2>1, SMTT(30)
  <1>3. reply' \in Outcomes
    BY <1>1, <1>2 DEF Entries
  <1>4. reply' = decided[e.operation]
    BY <1>1 DEF HistoryInv, RingIsTrue
  <1> QED
    BY <1>3, <1>4
       DEF Duplicate, HistoryInv, TypeOK, RingExact, DecidedIsFenced, RingIsTrue, Known

\* Every step of the reducer is a step of AtMostOnce, and keeps the invariant.
LEMMA HistoryStep ==
  ASSUME HistoryInv, Next
  PROVE  HistoryInv' /\ Once!Next
  <1>1. PICK e \in Envelopes : Apply(e)
    BY DEF Next
  <1>2. e.operation \in Tokens
    BY DEF Envelopes
  <1>3. CASE Duplicate(e)
    <2>1. HistoryInv' /\ decided' = decided /\ reply' = decided[e.operation]
          /\ reply' \in Outcomes
      BY <1>3, DuplicateStep
    <2>2. decided[e.operation] # NoOutcome
      BY <2>1, NoOutcomeIsNone
    <2> QED
      BY <1>2, <2>1, <2>2 DEF Once!Next, Once!Repeat
  <1>4. CASE Conflict(e) \/ Retired(e)
    <2>1. PICK r \in {"OperationConflict", "OperationRetired"} : Refuse(r)
      BY <1>4 DEF Conflict, Retired
    <2>2. HistoryInv' /\ reply' \in Refusals /\ decided' = decided
      BY <2>1, RefuseStep
    <2> QED
      BY <2>2 DEF Once!Next, Once!Refuse
  <1>5. CASE Stale(e) \/ Regressed(e) \/ Accepted(e) \/ RejectedByReduce(e)
    <2>1. /\ Fresh(e)
          /\ \E o \in Outcomes : Remember(e, o)
          /\ generation' \in 0..MaxGeneration
          /\ lastMonotonic' \in Nat
          /\ revision' \in Nat
      BY <1>5, DecisionRemembers
    <2>2. PICK o \in Outcomes : Remember(e, o)
      BY <2>1
    <2>3. /\ operations' \in Seq(Entries)
          /\ retiredFloor' \in Nat
          /\ reply' \in Outcomes
          /\ decided' \in [Tokens -> Outcomes \cup {NoOutcome}]
          /\ RingExact' /\ DecidedIsFenced' /\ RingIsTrue'
      BY <2>1, <2>2, RememberStep
    <2>4. HistoryInv'
      BY <2>1, <2>3 DEF HistoryInv, TypeOK, Entries
    <2>5. decided[e.operation] = NoOutcome
      BY <2>1, FreshIsUndecided
    <2>6. Once!Decide(e.operation)
      BY <2>2, <2>3, <2>5 DEF Once!Decide, Remember
    <2> QED
      BY <1>2, <2>4, <2>6 DEF Once!Next
  <1> QED
    BY <1>1, <1>3, <1>4, <1>5 DEF Apply

\* The history is well formed, and every decided token is fenced, for ever.
THEOREM HistoryInvariant == Spec => []HistoryInv
  <1>1. HistoryInv /\ UNCHANGED vars => HistoryInv'
    BY DEF vars, HistoryInv, TypeOK, RingExact, DecidedIsFenced, RingIsTrue, Known
  <1> QED
    BY InitHistoryInv, HistoryStep, <1>1, PTL DEF Spec

\* A token the reducer decided is in the ring or under the floor: it can never
\* be reduced again, in whatever order the tokens come.
THEOREM DecidedStaysFenced == Spec => []DecidedIsFenced
  <1>1. HistoryInv => DecidedIsFenced
    BY DEF HistoryInv
  <1> QED
    BY HistoryInvariant, <1>1, PTL

\* The ring is bounded and holds no token twice.
THEOREM RingStaysExact == Spec => []RingExact
  <1>1. HistoryInv => RingExact
    BY DEF HistoryInv
  <1> QED
    BY HistoryInvariant, <1>1, PTL

\* apply implements at-most-once decisions for every capacity of the ring.
THEOREM AtMostOnceImplemented == Spec => AppliedAtMostOnce
  <1>1. Init => Once!Init
    BY DEF Init, Once!Init
  <1>2. HistoryInv /\ [Next]_vars => [Once!Next]_<<decided, reply>>
    BY HistoryStep DEF vars
  <1> QED
    BY <1>1, <1>2, HistoryInvariant, PTL DEF Spec, AppliedAtMostOnce, Once!Spec

\* What the count of accepted operations needs to be inductive.
RevisionInv == IsFiniteSet(AcceptedTokens) /\ RevisionExact

\* A step adds the one token it accepts to the accepted ones, or none.
LEMMA RevisionStep ==
  ASSUME HistoryInv, RevisionInv, Next
  PROVE  RevisionInv'
  <1>1. PICK e \in Envelopes : Apply(e)
    BY DEF Next
  <1>2. /\ e.operation \in Tokens /\ revision \in Nat
        /\ decided \in [Tokens -> Outcomes \cup {NoOutcome}]
    BY DEF Envelopes, HistoryInv, TypeOK
  <1>3. CASE Duplicate(e) \/ Conflict(e) \/ Retired(e)
    <2>1. decided' = decided /\ revision' = revision
      BY <1>3 DEF Duplicate, Conflict, Retired, Refuse
    <2> QED BY <2>1 DEF RevisionInv, RevisionExact, AcceptedTokens
  <1>4. ASSUME NEW r, Fresh(e), Remember(e, Rejected(r)), revision' = revision
        PROVE  RevisionInv'
    <2>1. decided[e.operation] = NoOutcome
      BY <1>4, FreshIsUndecided
    <2>2. ASSUME NEW t \in Tokens PROVE decided'[t].accepted = decided[t].accepted
      <3>1. CASE t = e.operation
        <4>1. decided'[t] = Rejected(r)
          BY <1>2, <1>4, <3>1 DEF Remember
        <4>2. Rejected(r).accepted = FALSE /\ NoOutcome.accepted = FALSE
          BY DEF Rejected, NoOutcome
        <4>3. decided[t] = NoOutcome
          BY <2>1, <3>1
        <4> QED BY <4>1, <4>2, <4>3, Zenon
      <3>2. CASE t # e.operation
        <4>1. decided'[t] = decided[t]
          BY <1>2, <1>4, <3>2 DEF Remember
        <4> QED BY <4>1
      <3> QED BY <3>1, <3>2
    <2>3. AcceptedTokens' = AcceptedTokens
      BY <2>2 DEF AcceptedTokens
    <2> QED BY <1>4, <2>3 DEF RevisionInv, RevisionExact
  <1>5. CASE Stale(e) \/ Regressed(e) \/ RejectedByReduce(e)
    BY <1>4, <1>5 DEF Stale, Regressed, RejectedByReduce, Admissible
  <1>6. CASE Accepted(e)
    <2>1. Fresh(e) /\ revision' = revision + 1
      BY <1>6 DEF Accepted, Admissible
    <2>2. decided[e.operation] = NoOutcome
      BY <2>1, FreshIsUndecided
    <2>3. \A t \in Tokens : decided'[t].accepted <=> decided[t].accepted \/ t = e.operation
      BY <1>2, <1>6, <2>2 DEF Accepted, Remember
    <2>4. /\ AcceptedTokens' = AcceptedTokens \cup {e.operation}
          /\ e.operation \notin AcceptedTokens
      BY <1>2, <2>2, <2>3, SMTT(30) DEF AcceptedTokens, NoOutcome
    <2>5. /\ IsFiniteSet(AcceptedTokens \cup {e.operation})
          /\ Cardinality(AcceptedTokens \cup {e.operation}) = Cardinality(AcceptedTokens) + 1
      <3> DEFINE S == AcceptedTokens
      <3>1. IsFiniteSet(S) /\ e.operation \notin S
        BY <2>4 DEF RevisionInv
      <3> HIDE DEF S
      <3>2. /\ IsFiniteSet(S \cup {e.operation})
            /\ Cardinality(S \cup {e.operation}) = Cardinality(S) + 1
        BY <3>1, FS_AddElement
      <3> QED BY <3>2 DEF S
    <2> QED BY <2>1, <2>4, <2>5 DEF RevisionInv, RevisionExact
  <1> QED BY <1>1, <1>3, <1>5, <1>6 DEF Apply

\* The revision counts the accepted operations, each once, whatever was repeated,
\* refused or has left the ring: apply increments it exactly when it accepts.
THEOREM RevisionCountsOnce == Spec => []RevisionExact
  <1>1. Init => RevisionInv
    <2> SUFFICES ASSUME Init PROVE RevisionInv
      OBVIOUS
    <2>1. AcceptedTokens = {}
      BY DEF Init, AcceptedTokens, NoOutcome
    <2> QED BY <2>1, FS_EmptySet DEF Init, RevisionInv, RevisionExact
  <1>2. HistoryInv /\ RevisionInv /\ [Next]_vars => RevisionInv'
    <2>1. RevisionInv /\ UNCHANGED vars => RevisionInv'
      BY DEF vars, RevisionInv, RevisionExact, AcceptedTokens
    <2> QED BY <2>1, RevisionStep
  <1>3. RevisionInv => RevisionExact
    BY DEF RevisionInv
  <1> QED BY <1>1, <1>2, <1>3, HistoryInvariant, PTL DEF Spec

-----------------------------------------------------------------------------
(* rusty-quest-breath-contract *)


\* A running generation is named, configured and has a last action.
RunningIsWhole ==
    lifecycle = "Running" =>
        activeGeneration # None /\ configuration \in Configurations /\ lastActionAt \in Instants

ContractInv == ContractTypeOK /\ RunningIsWhole /\ SampleIsCurrent

\* Injected times compare as integers; None is below all of them.
LEMMA TimesAreIntegers ==
    ASSUME ContractAssumption, NEW t \in Instants \cup {None}
    PROVE  t \in Int /\ (t # None => t \in Nat)
  BY SMTT(30) DEF ContractAssumption, Instants, None

\* The default contract is disabled and shows no sample.
LEMMA ContractInitInv == ASSUME ContractAssumption PROVE ContractInit => ContractInv
  BY SMTT(30) DEF ContractAssumption, ContractInit, ContractInv, ContractTypeOK,
         RunningIsWhole, SampleIsCurrent, None, NoSample, Instants

\* A rejection changes only the status.
LEMMA RejectInv ==
    ASSUME ContractInv, NEW reason, Reject(reason)
    PROVE  ContractInv'
  BY DEF ContractInv, ContractTypeOK, RunningIsWhole, SampleIsCurrent, Reject

\* An accepted lifecycle action leaves no sample; it needs only the types of the
\* fields it sets, and a generation and a configuration if it starts.
LEMMA EnterInv ==
    ASSUME ContractInv, NEW at \in Instants,
           NEW state \in {"Disabled", "Configured", "Running", "Cancelled"},
           Enter(at, state),
           configuration' \in Configurations \cup {NoConfiguration},
           activeGeneration' \in 1..LastGeneration \cup {None},
           nextGeneration' \in 1..LastGeneration,
           state = "Running" => activeGeneration' # None /\ configuration' \in Configurations
    PROVE  ContractInv'
  <1>1. ContractTypeOK'
    BY DEF ContractInv, ContractTypeOK, Enter
  <1>2. RunningIsWhole'
    BY DEF Enter, RunningIsWhole
  <1>3. SampleIsCurrent'
    BY DEF Enter, SampleIsCurrent
  <1> QED BY <1>1, <1>2, <1>3 DEF ContractInv

\* start takes the next generation, or is refused at the last one.
LEMMA StartInv ==
    ASSUME ContractAssumption, ContractInv, NEW at \in Instants, Start(at)
    PROVE  ContractInv'
  <1>1. ASSUME NEW reason, Reject(reason) PROVE ContractInv'
    BY <1>1, RejectInv
  <1>2. CASE /\ ~TimeRegressed(at) /\ Startable /\ nextGeneration < LastGeneration
             /\ Enter(at, "Running")
             /\ activeGeneration' = nextGeneration /\ nextGeneration' = nextGeneration + 1
             /\ UNCHANGED configuration
    <2>1. nextGeneration \in 1..LastGeneration /\ LastGeneration \in Nat
      BY DEF ContractInv, ContractTypeOK, ContractAssumption
    <2>2. activeGeneration' \in 1..LastGeneration /\ activeGeneration' # None
      BY <1>2, <2>1, SMTT(30) DEF None
    <2>3. nextGeneration' \in 1..LastGeneration
      BY <1>2, <2>1, SMTT(30)
    <2>4. configuration' \in Configurations
      BY <1>2 DEF ContractInv, ContractTypeOK, Startable
    <2> QED BY <1>2, <2>2, <2>3, <2>4, EnterInv
  <1> QED BY <1>1, <1>2 DEF Start

\* reset forgets the configuration and the generation together.
LEMMA ResetInv ==
    ASSUME ContractInv, NEW at \in Instants, Reset(at)
    PROVE  ContractInv'
  <1>1. CASE Reject("RejectedTimeRegression")
    BY <1>1, RejectInv
  <1>2. CASE /\ ~TimeRegressed(at) /\ Enter(at, "Disabled")
             /\ configuration' = NoConfiguration /\ activeGeneration' = None
             /\ UNCHANGED nextGeneration
    BY <1>2, EnterInv DEF ContractInv, ContractTypeOK
  <1> QED BY <1>1, <1>2 DEF Reset

\* configure is refused while running and leaves no generation.
LEMMA ConfigureInv ==
    ASSUME ContractInv, NEW at \in Instants, NEW c \in Configurations, NEW valid \in BOOLEAN,
           Configure(at, valid, c)
    PROVE  ContractInv'
  <1>1. ASSUME NEW reason, Reject(reason) PROVE ContractInv'
    BY <1>1, RejectInv
  <1>2. CASE /\ ~TimeRegressed(at) /\ lifecycle # "Running" /\ valid
             /\ Enter(at, "Configured")
             /\ configuration' = c /\ activeGeneration' = None /\ UNCHANGED nextGeneration
    BY <1>2, EnterInv DEF ContractInv, ContractTypeOK
  <1> QED BY <1>1, <1>2 DEF Configure

\* cancel drops the generation and its sample together.
LEMMA CancelInv ==
    ASSUME ContractInv, NEW at \in Instants, NEW g, Cancel(at, g)
    PROVE  ContractInv'
  <1>1. ASSUME NEW reason, Reject(reason) PROVE ContractInv'
    BY <1>1, RejectInv
  <1>2. CASE Enter(at, "Cancelled") /\ activeGeneration' = None /\ UNCHANGED configured
    BY <1>2, EnterInv DEF ContractInv, ContractTypeOK, configured
  <1> QED BY <1>1, <1>2 DEF Cancel, Admitted

\* What an observation may leave behind: no sample, or the one it accepted.
LEMMA ObservedSample ==
    ASSUME ContractInv, NEW at \in Instants,
           NEW sampledAt \in Instants \cup {None}, NEW wellFormed \in BOOLEAN,
           ObserveInput(at, sampledAt, wellFormed)
    PROVE  /\ lastActionAt' = at
           /\ UNCHANGED <<lifecycle, activeGeneration, configured>>
           /\ \/ sample' = NoSample /\ lastInputAt' \in {lastInputAt, sampledAt}
              \/ /\ sample' = [sampledAt |-> sampledAt, observedAt |-> at]
                 /\ sampledAt # None /\ ~(sampledAt > at) /\ ~OutOfOrder(sampledAt)
                 /\ ~IsStale(at, sampledAt) /\ lastInputAt' = sampledAt
  BY DEF ObserveInput, Observed

\* observe keeps the invariant whichever of its outcomes it reaches.
LEMMA ObserveInv ==
    ASSUME ContractAssumption, ContractInv, NEW at \in Instants, NEW g,
           NEW sampledAt \in Instants \cup {None}, NEW wellFormed \in BOOLEAN,
           Observe(at, g, sampledAt, wellFormed)
    PROVE  ContractInv'
  <1>1. ASSUME NEW reason, Reject(reason) PROVE ContractInv'
    BY <1>1, RejectInv
  <1>2. CASE lifecycle = "Running" /\ ObserveInput(at, sampledAt, wellFormed)
    <2>1. /\ UNCHANGED <<lifecycle, activeGeneration, configuration, nextGeneration>>
          /\ lastActionAt' = at
      BY <1>2, ObservedSample DEF configured
    <2>2. RunningIsWhole'
      BY <1>2, <2>1 DEF ContractInv, RunningIsWhole
    <2>3. CASE sample' = NoSample /\ lastInputAt' \in {lastInputAt, sampledAt}
      <3>1. ContractTypeOK'
        BY <2>1, <2>3 DEF ContractInv, ContractTypeOK
      <3>2. SampleIsCurrent'
        BY <2>3 DEF SampleIsCurrent
      <3> QED BY <2>2, <3>1, <3>2 DEF ContractInv
    <2>4. CASE /\ sample' = [sampledAt |-> sampledAt, observedAt |-> at]
               /\ sampledAt # None /\ ~(sampledAt > at)
               /\ ~IsStale(at, sampledAt) /\ lastInputAt' = sampledAt
      <3>1. sampledAt \in Instants /\ sample' \in [sampledAt : Instants, observedAt : Instants]
        BY <2>4
      <3>2. ContractTypeOK'
        BY <2>1, <2>4, <3>1 DEF ContractInv, ContractTypeOK
      <3>3. sample'.observedAt = lastActionAt' /\ sample'.sampledAt = lastInputAt'
        BY <2>1, <2>4
      <3>4. at \in Int /\ sampledAt \in Int
        BY TimesAreIntegers
      <3>5. configuration.stale \in Nat
        BY <1>2 DEF ContractInv, RunningIsWhole, Configurations, ContractAssumption
      <3>6. sampledAt <= at /\ at - sampledAt <= configuration.stale
        BY <2>4, <3>4, <3>5, SMTT(30) DEF IsStale
      <3>7. SampleIsCurrent'
        BY <1>2, <2>1, <2>4, <3>3, <3>6 DEF ContractInv, RunningIsWhole, SampleIsCurrent
      <3> QED BY <2>2, <3>2, <3>7 DEF ContractInv
    <2> QED BY <1>2, <2>3, <2>4, ObservedSample
  <1> QED BY <1>1, <1>2 DEF Observe, Admitted

\* Every call of the breath contract keeps the invariant.
LEMMA ContractNextInv ==
    ASSUME ContractAssumption
    PROVE  ContractInv /\ [ContractNext]_contractVars => ContractInv'
  <1> SUFFICES ASSUME ContractInv, [ContractNext]_contractVars PROVE ContractInv'
    OBVIOUS
  <1>1. CASE UNCHANGED contractVars
    BY <1>1 DEF contractVars, ContractInv, ContractTypeOK, RunningIsWhole, SampleIsCurrent
  <1>2. CASE ContractNext
    <2> PICK at \in Instants :
             \/ Reset(at) \/ Start(at)
             \/ \E c \in Configurations, valid \in BOOLEAN : Configure(at, valid, c)
             \/ \E g \in 1..LastGeneration :
                   \/ Cancel(at, g)
                   \/ \E sampledAt \in Instants \cup {None}, wellFormed \in BOOLEAN :
                         Observe(at, g, sampledAt, wellFormed)
      BY <1>2 DEF ContractNext
    <2> QED BY ResetInv, StartInv, ConfigureInv, CancelInv, ObserveInv
  <1> QED BY <1>1, <1>2

\* The invariant of the breath contract holds in every reachable state.
LEMMA ContractSpecInv == ASSUME ContractAssumption PROVE ContractSpec => []ContractInv
  <1>1. ContractInit => ContractInv
    BY ContractInitInv
  <1>2. ContractInv /\ [ContractNext]_contractVars => ContractInv'
    BY ContractNextInv
  <1> QED BY <1>1, <1>2, PTL DEF ContractSpec

\* Every field stays in its range; the allocator of generations never passes its
\* last value (apply_start's checked increment).
THEOREM ContractTypesHold == ASSUME ContractAssumption PROVE ContractSpec => []ContractTypeOK
  <1>1. ContractInv => ContractTypeOK
    BY DEF ContractInv
  <1> QED BY <1>1, ContractSpecInv, PTL

\* A sample that is shown is the newest input of the running generation and was
\* fresh when the last action accepted it (observe).
THEOREM ShownSampleIsCurrent == ASSUME ContractAssumption PROVE ContractSpec => []SampleIsCurrent
  <1>1. ContractInv => SampleIsCurrent
    BY DEF ContractInv
  <1> QED BY <1>1, ContractSpecInv, PTL

\* What each accepted action does to the generation and to the sample.
LEMMA StepEffects ==
    ASSUME ContractAssumption, ContractInv, ContractNext
    PROVE  \/ UNCHANGED <<activeGeneration, nextGeneration, sample>>
           \/ /\ sample' = NoSample
              /\ \/ UNCHANGED nextGeneration /\ activeGeneration' \in {activeGeneration, None}
                 \/ activeGeneration' = nextGeneration /\ nextGeneration' = nextGeneration + 1
           \/ /\ UNCHANGED <<activeGeneration, nextGeneration>>
              /\ sample'.sampledAt \in Instants /\ ~OutOfOrder(sample'.sampledAt)
  <1> PICK at \in Instants :
           \/ Reset(at) \/ Start(at)
           \/ \E c \in Configurations, valid \in BOOLEAN : Configure(at, valid, c)
           \/ \E g \in 1..LastGeneration :
                 \/ Cancel(at, g)
                 \/ \E sampledAt \in Instants \cup {None}, wellFormed \in BOOLEAN :
                       Observe(at, g, sampledAt, wellFormed)
    BY DEF ContractNext
  <1>1. CASE Reset(at)
    BY <1>1 DEF Reset, Reject, Enter
  <1>2. CASE Start(at)
    BY <1>2 DEF Start, Reject, Enter
  <1>3. ASSUME NEW c \in Configurations, NEW valid \in BOOLEAN, Configure(at, valid, c)
        PROVE  \/ UNCHANGED <<activeGeneration, nextGeneration, sample>>
               \/ sample' = NoSample /\ UNCHANGED nextGeneration /\ activeGeneration' = None
    BY <1>3 DEF Configure, Reject, Enter
  <1>4. ASSUME NEW g \in 1..LastGeneration, Cancel(at, g)
        PROVE  \/ UNCHANGED <<activeGeneration, nextGeneration, sample>>
               \/ sample' = NoSample /\ UNCHANGED nextGeneration /\ activeGeneration' = None
    BY <1>4 DEF Cancel, Admitted, Reject, Enter, configured
  <1>5. ASSUME NEW g \in 1..LastGeneration, NEW sampledAt \in Instants \cup {None},
               NEW wellFormed \in BOOLEAN, Observe(at, g, sampledAt, wellFormed)
        PROVE  \/ UNCHANGED <<activeGeneration, nextGeneration, sample>>
               \/ sample' = NoSample /\ UNCHANGED <<activeGeneration, nextGeneration>>
               \/ /\ UNCHANGED <<activeGeneration, nextGeneration>>
                  /\ sample'.sampledAt \in Instants /\ ~OutOfOrder(sample'.sampledAt)
    <2>1. CASE ObserveInput(at, sampledAt, wellFormed)
      BY <2>1, ObservedSample, SMTT(30) DEF configured
    <2>2. ASSUME NEW reason, Reject(reason)
          PROVE  UNCHANGED <<activeGeneration, nextGeneration, sample>>
      BY <2>2 DEF Reject
    <2> QED BY <1>5, <2>1, <2>2 DEF Observe, Admitted
  <1> QED BY <1>1, <1>2, <1>3, <1>4, <1>5

\* No sample passes from one generation to another, and accepted times only grow
\* (observe, enter).
THEOREM AcceptedSamplesAdvance == ASSUME ContractAssumption PROVE ContractSpec => SamplesAdvance
  <1> DEFINE Step == /\ activeGeneration' # activeGeneration => sample' = NoSample
                     /\ (sample' # sample /\ sample' # NoSample) =>
                           sample'.sampledAt > lastInputAt
  <1>1. ASSUME ContractInv, ContractNext PROVE Step
    <2>1. ASSUME sample'.sampledAt \in Instants, ~OutOfOrder(sample'.sampledAt)
          PROVE  sample'.sampledAt > lastInputAt
      <3>1. lastInputAt \in Instants \cup {None}
        BY <1>1 DEF ContractInv, ContractTypeOK
      <3>2. CASE lastInputAt = None
        BY <2>1, <3>2, TimesAreIntegers, SMTT(30) DEF None, Instants
      <3>3. CASE lastInputAt # None
        <4> DEFINE t == sample'.sampledAt
        <4>1. t \in Int /\ lastInputAt \in Int /\ ~(t <= lastInputAt)
          BY <2>1, <3>1, <3>3, TimesAreIntegers DEF OutOfOrder
        <4> HIDE DEF t
        <4>2. t > lastInputAt
          BY <4>1, SMTT(30)
        <4> QED BY <4>2 DEF t
      <3> QED BY <3>2, <3>3
    <2> QED BY <1>1, <2>1, StepEffects
  <1>2. ContractInv /\ [ContractNext]_contractVars => [Step]_contractVars
    BY <1>1
  <1>3. ContractSpec => [][Step]_contractVars
    BY <1>2, ContractSpecInv, PTL DEF ContractSpec
  <1> QED BY <1>3 DEF SamplesAdvance

\* A generation that has been left is never current again (allocate_generation).
THEOREM GenerationsNeverReturn ==
    ASSUME ContractAssumption PROVE ContractSpec => GenerationsAreFresh
  <1> DEFINE Step == /\ nextGeneration' >= nextGeneration
                     /\ (activeGeneration' # activeGeneration /\ activeGeneration' # None) =>
                           /\ activeGeneration' = nextGeneration
                           /\ nextGeneration' > activeGeneration'
  <1>1. ASSUME ContractInv, ContractNext PROVE Step
    <2>1. nextGeneration \in Nat
      BY <1>1, SMTT(30) DEF ContractInv, ContractTypeOK
    <2> QED BY <1>1, <2>1, StepEffects, SMTT(30)
  <1>2. ContractInv /\ [ContractNext]_contractVars => [Step]_contractVars
    BY <1>1
  <1>3. ContractSpec => [][Step]_contractVars
    BY <1>2, ContractSpecInv, PTL DEF ContractSpec
  <1> QED BY <1>3 DEF GenerationsAreFresh

-----------------------------------------------------------------------------
(* rusty-quest-package-updater *)

\* What makes CommittedWasInstalled inductive: callers hold only authentic
\* manifests, so an APK they commit has a version, and every installed APK
\* with a version has been recorded when it was installed.
Held == \A m \in verified : m \in Manifests /\ Authentic(m)
Device ==
    /\ installed \in [Tuples -> [version : Nat, apk : {"none"} \cup {m.apk : m \in Manifests}]]
    /\ \A t \in Tuples : installed[t].version # 0 => <<t, installed[t]>> \in everInstalled
Filed == checkpoints \in [Tuples -> Checkpoints \cup {Nothing}]
RollbackInv == Filed /\ Held /\ Device /\ CommittedWasInstalled /\ now \in 0..MaxClock

\* The fields of a manifest have the types of the envelope's parsed fields.
LEMMA ManifestFields ==
    ASSUME RollbackAssumption, NEW m \in Manifests
    PROVE  /\ m.tuple \in Tuples /\ m.sequence \in Nat /\ m.version \in Nat
           /\ m.expires \in Nat /\ m.authentic \in BOOLEAN
  BY DEF RollbackAssumption

\* At first nothing is installed, verified or filed.
LEMMA RollbackInitInv == ASSUME RollbackAssumption PROVE RollbackInit => RollbackInv
  <1> SUFFICES ASSUME RollbackInit PROVE RollbackInv
    OBVIOUS
  <1>1. Filed
    BY DEF RollbackInit, Filed
  <1>2. Held /\ CommittedWasInstalled
    BY DEF RollbackInit, Held, CommittedWasInstalled
  <1>3. \A t \in Tuples : installed[t] = [version |-> 0, apk |-> "none"]
    BY DEF RollbackInit
  <1>4. installed \in [Tuples -> [version : Nat, apk : {"none"} \cup {m.apk : m \in Manifests}]]
    BY <1>3, SMTT(30) DEF RollbackInit
  <1>5. Device
    BY <1>3, <1>4, SMTT(30) DEF Device
  <1>6. now \in 0..MaxClock
    BY SMTT(30) DEF RollbackInit, RollbackAssumption
  <1> QED BY <1>1, <1>2, <1>5, <1>6 DEF RollbackInv

\* Admission changes only what callers hold.
LEMMA VerifyInv ==
    ASSUME RollbackAssumption, RollbackInv, NEW m \in Manifests, VerifyManifest(m)
    PROVE  RollbackInv'
  <1>1. Held'
    BY DEF RollbackInv, Held, VerifyManifest, Authentic
  <1>2. Filed' /\ Device' /\ CommittedWasInstalled' /\ (now \in 0..MaxClock)'
    BY DEF RollbackInv, Filed, Device, CommittedWasInstalled, VerifyManifest
  <1> QED BY <1>1, <1>2 DEF RollbackInv

\* An installation is recorded, and checkpoints stay.
LEMMA InstallInv ==
    ASSUME RollbackAssumption, RollbackInv, NEW m \in Manifests, Install(m)
    PROVE  RollbackInv'
  <1>1. Apk(m) \in [version : Nat, apk : {"none"} \cup {n.apk : n \in Manifests}]
    BY ManifestFields DEF Apk
  <1>2. m.tuple \in Tuples
    BY ManifestFields
  <1>3. Device'
    <2>1. installed' \in [Tuples -> [version : Nat, apk : {"none"} \cup {n.apk : n \in Manifests}]]
      BY <1>1, <1>2 DEF RollbackInv, Device, Install
    <2>2. ASSUME NEW t \in Tuples, installed'[t].version # 0
          PROVE  <<t, installed'[t]>> \in everInstalled'
      <3>1. CASE t = m.tuple
        BY <1>2, <3>1 DEF RollbackInv, Device, Install
      <3>2. CASE t # m.tuple
        BY <1>2, <2>2, <3>2 DEF RollbackInv, Device, Install
      <3> QED BY <3>1, <3>2
    <2> QED BY <2>1, <2>2 DEF Device
  <1>4. Held' /\ Filed' /\ (now \in 0..MaxClock)'
    BY DEF RollbackInv, Held, Filed, Install, Authentic
  <1>5. CommittedWasInstalled'
    BY DEF RollbackInv, CommittedWasInstalled, Install
  <1> QED BY <1>3, <1>4, <1>5 DEF RollbackInv

\* A commit files a checkpoint only for the APK it observes on the device.
LEMMA CommitInv ==
    ASSUME RollbackAssumption, RollbackInv, NEW m \in Manifests, CommitInstalledApk(m)
    PROVE  RollbackInv'
  <1> DEFINE filed == [sequence |-> m.sequence, version |-> m.version, apk |-> m.apk]
  <1>1. m.tuple \in Tuples /\ m.sequence \in Nat \ {0} /\ m.version \in Nat \ {0}
    BY ManifestFields DEF RollbackInv, Held, Authentic, CommitInstalledApk
  <1>2. filed \in Checkpoints
    BY <1>1 DEF Checkpoints
  <1>3. checkpoints' = [checkpoints EXCEPT ![m.tuple] = filed]
    BY DEF CommitInstalledApk
  <1>4. Filed'
    BY <1>1, <1>2, <1>3 DEF RollbackInv, Filed
  <1>5. <<m.tuple, Apk(m)>> \in everInstalled
    <2>1. installed[m.tuple] = Apk(m)
      BY DEF CommitInstalledApk, ObservedExact
    <2>2. Apk(m).version # 0
      BY <1>1 DEF Apk
    <2> QED BY <1>1, <2>1, <2>2 DEF RollbackInv, Device
  <1>6. CommittedWasInstalled'
    <2> SUFFICES ASSUME NEW t \in Tuples, checkpoints'[t] # Nothing
                 PROVE  <<t, [version |-> checkpoints'[t].version, apk |-> checkpoints'[t].apk]>>
                            \in everInstalled'
      BY DEF CommittedWasInstalled
    <2>1. everInstalled' = everInstalled
      BY DEF CommitInstalledApk
    <2>2. CASE t = m.tuple
      <3>1. checkpoints'[t] = filed
        BY <1>1, <1>3, <2>2 DEF RollbackInv, Filed
      <3>2. [version |-> checkpoints'[t].version, apk |-> checkpoints'[t].apk] = Apk(m)
        BY <3>1, SMTT(30) DEF Apk
      <3> QED BY <1>5, <2>1, <2>2, <3>2
    <2>3. CASE t # m.tuple
      <3>1. checkpoints'[t] = checkpoints[t]
        BY <1>3, <2>3 DEF RollbackInv, Filed
      <3> QED BY <2>1, <3>1 DEF RollbackInv, CommittedWasInstalled
    <2> QED BY <2>2, <2>3
  <1>7. Held' /\ Device' /\ (now \in 0..MaxClock)'
    BY DEF RollbackInv, Held, Device, CommitInstalledApk, Authentic
  <1> QED BY <1>4, <1>6, <1>7 DEF RollbackInv

\* Every call of the anti-rollback state keeps the invariant.
LEMMA RollbackNextInv ==
    ASSUME RollbackAssumption
    PROVE  RollbackInv /\ [RollbackNext]_rollbackVars => RollbackInv'
  <1> SUFFICES ASSUME RollbackInv, [RollbackNext]_rollbackVars PROVE RollbackInv'
    OBVIOUS
  <1>1. CASE Tick
    <2>1. (now \in 0..MaxClock)'
      BY <1>1, SMTT(30) DEF RollbackInv, Tick, RollbackAssumption
    <2>2. Held' /\ Filed' /\ Device' /\ CommittedWasInstalled'
      BY <1>1 DEF RollbackInv, Tick, Held, Filed, Device, CommittedWasInstalled, Authentic
    <2> QED BY <2>1, <2>2 DEF RollbackInv
  <1>2. ASSUME NEW m \in Manifests, VerifyManifest(m) PROVE RollbackInv'
    BY <1>2, VerifyInv
  <1>3. ASSUME NEW m \in Manifests, Install(m) PROVE RollbackInv'
    BY <1>3, InstallInv
  <1>4. ASSUME NEW m \in Manifests, CommitInstalledApk(m) PROVE RollbackInv'
    BY <1>4, CommitInv
  <1>5. CASE UNCHANGED rollbackVars
    BY <1>5 DEF rollbackVars, RollbackInv, Held, Filed, Device, CommittedWasInstalled, Authentic
  <1> QED BY <1>1, <1>2, <1>3, <1>4, <1>5 DEF RollbackNext

\* The anti-rollback invariant holds in every reachable state.
LEMMA RollbackSpecInv == ASSUME RollbackAssumption PROVE RollbackSpec => []RollbackInv
  BY RollbackInitInv, RollbackNextInv, PTL DEF RollbackSpec

\* Checkpoints and what callers hold keep their types (validate).
THEOREM RollbackTypesHold == ASSUME RollbackAssumption PROVE RollbackSpec => []RollbackTypeOK
  <1>1. RollbackInv => RollbackTypeOK
    BY DEF RollbackInv, Filed, Held, Device, RollbackTypeOK
  <1> QED BY <1>1, RollbackSpecInv, PTL

\* No update is ever filed that was not on the device (commit_installed_apk,
\* validate_observed_apk), for any set of manifests and any order of calls.
THEOREM OnlyInstalledIsFiled ==
    ASSUME RollbackAssumption
    PROVE  RollbackSpec => []CommittedWasInstalled
  <1>1. RollbackInv => CommittedWasInstalled
    BY DEF RollbackInv
  <1> QED BY <1>1, RollbackSpecInv, PTL

\* A commit moves one checkpoint, upwards in sequence and version, however long
\* ago its manifest was admitted (commit_installed_apk compares again).
THEOREM RollbackIsRefused == ASSUME RollbackAssumption PROVE RollbackSpec => CheckpointsAdvance
  <1> DEFINE Step == \A t \in Tuples :
          checkpoints'[t] # checkpoints[t] =>
              /\ checkpoints'[t].sequence > checkpoints[t].sequence
              /\ checkpoints'[t].version > checkpoints[t].version
              /\ \A u \in Tuples \ {t} : checkpoints'[u] = checkpoints[u]
  <1>1. ASSUME RollbackInv, NEW m \in Manifests, CommitInstalledApk(m) PROVE Step
    <2> DEFINE filed == [sequence |-> m.sequence, version |-> m.version, apk |-> m.apk]
    <2>1. m.tuple \in Tuples /\ m.sequence \in Nat \ {0} /\ m.version \in Nat \ {0}
      BY <1>1, ManifestFields DEF RollbackInv, Held, Authentic, CommitInstalledApk
    <2>2. checkpoints' = [checkpoints EXCEPT ![m.tuple] = filed]
      BY <1>1 DEF CommitInstalledApk
    <2>3. \A u \in Tuples \ {m.tuple} : checkpoints'[u] = checkpoints[u]
      BY <1>1, <2>2 DEF RollbackInv, Filed
    <2>4. checkpoints'[m.tuple] = filed
      BY <1>1, <2>1, <2>2 DEF RollbackInv, Filed
    <2>5. m.sequence > checkpoints[m.tuple].sequence /\ m.version > checkpoints[m.tuple].version
      <3>1. CASE checkpoints[m.tuple] = Nothing
        BY <2>1, <3>1, SMTT(30) DEF Nothing
      <3>2. CASE checkpoints[m.tuple] # Nothing
        BY <1>1, <3>2 DEF CommitInstalledApk, Advances
      <3> QED BY <3>1, <3>2
    <2> QED BY <2>1, <2>3, <2>4, <2>5, SMTT(30)
  <1>2. RollbackInv /\ [RollbackNext]_rollbackVars => [Step]_rollbackVars
    <2> SUFFICES ASSUME RollbackInv, RollbackNext PROVE Step
      OBVIOUS
    <2>1. CASE checkpoints' = checkpoints
      BY <2>1
    <2>2. ASSUME NEW m \in Manifests, CommitInstalledApk(m) PROVE Step
      BY <1>1, <2>2
    <2> QED BY <2>1, <2>2 DEF RollbackNext, Tick, VerifyManifest, Install
  <1>3. RollbackSpec => [][Step]_rollbackVars
    BY <1>2, RollbackSpecInv, PTL DEF RollbackSpec
  <1> QED BY <1>3 DEF CheckpointsAdvance

-----------------------------------------------------------------------------
(***************************************************************************)
(* Proofs about the peer that executes owner tickets, for any number of    *)
(* ids, senders, crashes and pending requests.                             *)
(*                                                                         *)
(* The inductive invariant is about one replay state at a time, Settled:   *)
(* an id that was executed is remembered, and a filed completion is true.  *)
(* It holds of the memory and of the file although a failed commit leaves  *)
(* them different, because each is reached from a settled state by a       *)
(* reservation or a result that is itself settled.                         *)
(***************************************************************************)
Typed(t) ==
    /\ t = [pending |-> t.pending, terminal |-> t.terminal]
    /\ PendingIds(t) \subseteq Ids /\ Terminal(t) \subseteq Ids
    /\ \A i \in PendingIds(t) : t.pending[i] \in 1..MaxSender
    /\ \A i \in Terminal(t) : t.terminal[i] \in Stored

FiledIn(t, a) ==
    /\ a.req.id \in Terminal(t)
    /\ t.terminal[a.req.id] = [body |-> a.req.body, status |-> a.status]

\* An executed id is remembered, a filed completion was executed, and answers
\* that may not be contradicted are filed.
Settled(t, effs, reps, srv) ==
    /\ PendingIds(t) \cap Terminal(t) = {}
    /\ \A i \in Ids : effs[i] # << >> => i \in PendingIds(t) \cup Terminal(t)
    /\ \A i \in Terminal(t) :
          t.terminal[i].status = "completed" => effs[i] = <<t.terminal[i].body>>
    /\ \A a \in reps : (a.status = "completed" \/ srv = "activation") => FiledIn(t, a)

\* The file has every answer that the memory has.
Keeps(t, u) ==
    \A i \in Terminal(t) : i \in Terminal(u) /\ u.terminal[i] = t.terminal[i]

\* The request under way is reserved in memory and in the file, and has been
\* executed only if the platform has answered.
CallOK ==
    call # NoCall =>
        /\ call.req \in Requests
        /\ call.req.id \in PendingIds(mem) \cap PendingIds(file)
        /\ call.result = "none" => effects[call.req.id] = << >>
        /\ call.result = "completed" => effects[call.req.id] = <<call.req.body>>

SimpleTypes ==
    /\ server \in Servers
    /\ up \in BOOLEAN
    /\ call \in [req : Requests \cup {NoRequest}, result : {"none"} \cup Statuses]
    /\ call.req = NoRequest => call = NoCall
    /\ frames \subseteq Requests
    /\ sender \in [body : 1..MaxSender, next : 1..(MaxSeq + 1),
                   last : Requests \cup {NoRequest}, waiting : BOOLEAN]
    /\ effects \in [Ids -> Seq(1..MaxSender)]
    /\ replies \subseteq [req : Requests, status : Statuses]
    /\ crashes \in 0..MaxCrashes

DispatchInv ==
    /\ SimpleTypes
    /\ Typed(mem) /\ Typed(file)
    /\ Settled(mem, effects, replies, server)
    /\ Settled(file, effects, replies, server)
    /\ Keeps(mem, file)
    /\ CallOK
    /\ EffectOnce

-----------------------------------------------------------------------------
(* What the two operations on a replay state do to it. *)

LEMMA ReservedFacts ==
    ASSUME NEW t, Typed(t), NEW r \in Requests
    PROVE  /\ Typed(Reserved(t, r))
           /\ PendingIds(Reserved(t, r)) = PendingIds(t) \cup {r.id}
           /\ Reserved(t, r).terminal = t.terminal
  <1>1. Reserved(t, r) = [pending |-> With(t.pending, r.id, r.body), terminal |-> t.terminal]
    BY SMTT(30) DEF Typed, Reserved
  <1>2. r.id \in Ids /\ r.body \in 1..MaxSender
    BY DEF Requests
  <1>3. PendingIds(Reserved(t, r)) = PendingIds(t) \cup {r.id}
    BY <1>1, SMTT(30) DEF PendingIds, With
  <1>4. Typed(Reserved(t, r))
    BY <1>1, <1>2, SMTT(30) DEF Typed, PendingIds, Terminal, With
  <1> QED BY <1>1, <1>3, <1>4, SMTT(30)

LEMMA FinishedFacts ==
    ASSUME NEW t, Typed(t), NEW r \in Requests, NEW outcome \in Statuses
    PROVE  /\ Typed(Finished(t, r, outcome))
           /\ PendingIds(Finished(t, r, outcome)) = PendingIds(t) \ {r.id}
           /\ Terminal(Finished(t, r, outcome)) = Terminal(t) \cup {r.id}
           /\ Finished(t, r, outcome).terminal[r.id] = [body |-> r.body, status |-> outcome]
           /\ \A i \in Terminal(t) \ {r.id} :
                 Finished(t, r, outcome).terminal[i] = t.terminal[i]
  <1> DEFINE n == Finished(t, r, outcome)
  <1>1. /\ n.pending = Without(t.pending, r.id)
        /\ n.terminal = With(t.terminal, r.id, [body |-> r.body, status |-> outcome])
        /\ n = [pending |-> n.pending, terminal |-> n.terminal]
    BY DEF Finished
  <1> HIDE DEF n
  <1>2. r.id \in Ids /\ [body |-> r.body, status |-> outcome] \in Stored
    BY DEF Requests, Stored
  <1>3. PendingIds(n) = PendingIds(t) \ {r.id} /\ Terminal(n) = Terminal(t) \cup {r.id}
    BY <1>1 DEF PendingIds, Terminal, With, Without
  <1>4. \A i \in PendingIds(n) : n.pending[i] = t.pending[i]
    BY <1>1 DEF PendingIds, Without
  <1>5. /\ n.terminal[r.id] = [body |-> r.body, status |-> outcome]
        /\ \A i \in Terminal(t) \ {r.id} : n.terminal[i] = t.terminal[i]
    BY <1>1 DEF Terminal, With
  <1>6. Typed(n)
    BY <1>1, <1>2, <1>3, <1>4, <1>5 DEF Typed
  <1> QED BY <1>3, <1>5, <1>6 DEF n

\* A reservation of an id that is new keeps a state settled.
LEMMA ReservedSettled ==
    ASSUME NEW t, Typed(t), NEW r \in Requests, NEW effs, NEW reps, NEW srv,
           Settled(t, effs, reps, srv), r.id \notin PendingIds(t) \cup Terminal(t)
    PROVE  Settled(Reserved(t, r), effs, reps, srv) /\ Keeps(t, Reserved(t, r))
  BY ReservedFacts, SMTT(30) DEF Settled, Keeps, FiledIn, Terminal

\* So does the result of a reserved id, if a completion was executed.
LEMMA FinishedSettled ==
    ASSUME NEW t, Typed(t), NEW r \in Requests, NEW outcome \in Statuses,
           NEW effs, NEW reps, NEW srv,
           Settled(t, effs, reps, srv), r.id \in PendingIds(t),
           outcome = "completed" => effs[r.id] = <<r.body>>
    PROVE  /\ Settled(Finished(t, r, outcome), effs, reps, srv)
           /\ Keeps(t, Finished(t, r, outcome))
           /\ FiledIn(Finished(t, r, outcome), [req |-> r, status |-> outcome])
  <1> DEFINE n == Finished(t, r, outcome)
  <1>1. /\ PendingIds(n) = PendingIds(t) \ {r.id} /\ Terminal(n) = Terminal(t) \cup {r.id}
        /\ n.terminal[r.id] = [body |-> r.body, status |-> outcome]
        /\ \A i \in Terminal(t) \ {r.id} : n.terminal[i] = t.terminal[i]
    BY FinishedFacts, SMTT(30)
  <1>2. r.id \notin Terminal(t)
    BY DEF Settled
  <1> HIDE DEF n
  <1>3. Keeps(t, n)
    BY <1>1, <1>2 DEF Keeps
  <1>4. \A a \in reps : FiledIn(t, a) => FiledIn(n, a)
    BY <1>1, <1>2 DEF FiledIn
  <1>5. \A i \in Terminal(n) :
           n.terminal[i].status = "completed" => effs[i] = <<n.terminal[i].body>>
    BY <1>1, <1>2, SMTT(30) DEF Settled
  <1>6. Settled(n, effs, reps, srv)
    BY <1>1, <1>4, <1>5 DEF Settled
  <1>7. FiledIn(n, [req |-> r, status |-> outcome])
    BY <1>1 DEF FiledIn
  <1> QED BY <1>3, <1>6, <1>7 DEF n

\* An answer that is filed may be returned.
LEMMA AnswerSettled ==
    ASSUME NEW t, NEW effs, NEW reps, NEW srv, NEW a,
           Settled(t, effs, reps, srv),
           (a.status = "completed" \/ srv = "activation") => FiledIn(t, a)
    PROVE  Settled(t, effs, reps \cup {a}, srv)
  BY DEF Settled
-----------------------------------------------------------------------------
(* The invariant holds at first and is kept by every step. *)

LEMMA DispatchInitInv == ASSUME OwnerDispatchAssumption PROVE DispatchInit => DispatchInv
  <1> SUFFICES ASSUME DispatchInit PROVE DispatchInv
    OBVIOUS
  <1>1. MaxSeq \in Nat \ {0} /\ MaxSender \in Nat \ {0} /\ MaxCrashes \in Nat
    BY DEF OwnerDispatchAssumption
  <1>2. PendingIds(EmptyReplay) = {} /\ Terminal(EmptyReplay) = {}
    BY SMTT(30) DEF PendingIds, Terminal, EmptyReplay
  <1>3. Typed(EmptyReplay)
    BY <1>2 DEF Typed, EmptyReplay
  <1>4. Settled(EmptyReplay, effects, {}, server)
    BY <1>2 DEF DispatchInit, Settled
  <1>5. Keeps(EmptyReplay, EmptyReplay)
    BY <1>2 DEF Keeps
  <1>6. effects \in [Ids -> Seq(1..MaxSender)] /\ EffectOnce
    BY SMTT(30) DEF DispatchInit, EffectOnce
  <1>7. sender \in [body : 1..MaxSender, next : 1..(MaxSeq + 1),
                    last : Requests \cup {NoRequest}, waiting : BOOLEAN]
    BY <1>1, SMTT(30) DEF DispatchInit
  <1>8. SimpleTypes
    BY <1>1, <1>6, <1>7, SMTT(30) DEF DispatchInit, SimpleTypes, NoCall
  <1> QED BY <1>3, <1>4, <1>5, <1>6, <1>8 DEF DispatchInit, DispatchInv, CallOK

\* The variables the sender's steps leave alone.
LEMMA SenderInv ==
    ASSUME DispatchInv, UNCHANGED serverVars,
           frames' \subseteq Requests,
           sender' \in [body : 1..MaxSender, next : 1..(MaxSeq + 1),
                        last : Requests \cup {NoRequest}, waiting : BOOLEAN]
    PROVE  DispatchInv'
  <1>1. SimpleTypes'
    BY DEF DispatchInv, SimpleTypes, serverVars
  <1> QED BY <1>1 DEF DispatchInv, serverVars, CallOK, EffectOnce, PendingIds

LEMMA SendInv ==
    ASSUME OwnerDispatchAssumption, DispatchInv, Send
    PROVE  DispatchInv'
  <1> DEFINE r == [id |-> sender.next, body |-> sender.body]
  <1>1. /\ sender \in [body : 1..MaxSender, next : 1..(MaxSeq + 1),
                       last : Requests \cup {NoRequest}, waiting : BOOLEAN]
        /\ frames \subseteq Requests /\ MaxSeq \in Nat
    BY DEF DispatchInv, SimpleTypes, OwnerDispatchAssumption
  <1>2. sender.next \in Ids /\ sender.next + 1 \in 1..(MaxSeq + 1)
    BY <1>1, SMTT(30) DEF Send, Ids
  <1>3. r \in Requests
    BY <1>1, <1>2 DEF Requests
  <1>4. frames' \subseteq Requests
    BY <1>1, <1>3 DEF Send
  <1>5. sender' \in [body : 1..MaxSender, next : 1..(MaxSeq + 1),
                     last : Requests \cup {NoRequest}, waiting : BOOLEAN]
    BY <1>1, <1>2, <1>3 DEF Send
  <1> QED BY <1>4, <1>5, SenderInv DEF Send

LEMMA SenderStepsInv ==
    ASSUME OwnerDispatchAssumption, DispatchInv, Resend \/ GiveUp \/ SenderRestart
    PROVE  DispatchInv'
  <1>1. /\ sender \in [body : 1..MaxSender, next : 1..(MaxSeq + 1),
                       last : Requests \cup {NoRequest}, waiting : BOOLEAN]
        /\ frames \subseteq Requests
        /\ MaxSeq \in Nat \ {0} /\ MaxSender \in Nat
    BY DEF DispatchInv, SimpleTypes, OwnerDispatchAssumption
  <1>2. CASE Resend
    BY <1>1, <1>2, SenderInv DEF Resend
  <1>3. CASE GiveUp
    BY <1>1, <1>3, SenderInv DEF GiveUp
  <1>4. CASE SenderRestart
    <2>1. sender.body \in 1..MaxSender
      BY <1>1
    <2>2. sender.body + 1 \in 1..MaxSender /\ 1 \in 1..(MaxSeq + 1)
      BY <1>1, <1>4, <2>1, SMTT(30) DEF SenderRestart
    <2>3. sender' \in [body : 1..MaxSender, next : 1..(MaxSeq + 1),
                       last : Requests \cup {NoRequest}, waiting : BOOLEAN]
      BY <1>4, <2>2 DEF SenderRestart
    <2> QED BY <1>1, <1>4, <2>3, SenderInv DEF SenderRestart
  <1> QED BY <1>2, <1>3, <1>4

\* What returning an answer does to the types.
LEMMA ReturnTypes ==
    ASSUME DispatchInv, NEW r \in Requests, NEW outcome \in Statuses, Return(r, outcome)
    PROVE  /\ replies' = replies \cup {[req |-> r, status |-> outcome]}
           /\ replies' \subseteq [req : Requests, status : Statuses]
           /\ sender' \in [body : 1..MaxSender, next : 1..(MaxSeq + 1),
                           last : Requests \cup {NoRequest}, waiting : BOOLEAN]
  <1>1. sender \in [body : 1..MaxSender, next : 1..(MaxSeq + 1),
                    last : Requests \cup {NoRequest}, waiting : BOOLEAN]
    BY DEF DispatchInv, SimpleTypes
  <1>2. (sender.waiting /\ sender.last # r) \in BOOLEAN
    OBVIOUS
  <1>3. sender' = [sender EXCEPT !.waiting = sender.waiting /\ sender.last # r]
    BY DEF Return
  <1>4. sender' \in [body : 1..MaxSender, next : 1..(MaxSeq + 1),
                     last : Requests \cup {NoRequest}, waiting : BOOLEAN]
    BY <1>1, <1>2, <1>3
  <1> QED BY <1>4, SMTT(30) DEF Return, DispatchInv, SimpleTypes

\* A stored or an uncertain answer is given to a frame.
LEMMA RepeatInv ==
    ASSUME DispatchInv, NEW r \in Requests, Repeat(r)
    PROVE  DispatchInv'
  <1> DEFINE outcome == mem.terminal[r.id].status
             a == [req |-> r, status |-> outcome]
  <1>1. mem.terminal[r.id] \in Stored /\ mem.terminal[r.id].body = r.body
    BY DEF DispatchInv, Typed, Repeat, SameBody
  <1>2. outcome \in Statuses /\ mem.terminal[r.id] = [body |-> r.body, status |-> outcome]
    BY <1>1 DEF Stored
  <1>3. FiledIn(mem, a) /\ FiledIn(file, a)
    BY <1>2 DEF FiledIn, Repeat, DispatchInv, Keeps
  <1>4. /\ Settled(mem, effects, replies \cup {a}, server)
        /\ Settled(file, effects, replies \cup {a}, server)
    BY <1>3, AnswerSettled DEF DispatchInv
  <1>5. Return(r, outcome)
    BY DEF Repeat
  <1>6. SimpleTypes' /\ replies' = replies \cup {a}
    BY <1>2, <1>5, ReturnTypes DEF DispatchInv, SimpleTypes, Repeat, Take
  <1> QED BY <1>4, <1>6 DEF DispatchInv, Repeat, CallOK, EffectOnce

LEMMA UncertainInv ==
    ASSUME DispatchInv, NEW r \in Requests, Uncertain(r)
    PROVE  DispatchInv'
  <1> DEFINE a == [req |-> r, status |-> "uncertain"]
  <1>1. server # "activation" /\ a.status # "completed"
    BY DEF Uncertain
  <1>2. /\ Settled(mem, effects, replies \cup {a}, server)
        /\ Settled(file, effects, replies \cup {a}, server)
    BY <1>1, AnswerSettled DEF DispatchInv
  <1>3. SimpleTypes' /\ replies' = replies \cup {a}
    BY ReturnTypes DEF DispatchInv, SimpleTypes, Uncertain, Take, Statuses
  <1> QED BY <1>2, <1>3 DEF DispatchInv, Uncertain, CallOK, EffectOnce

LEMMA RefuseInv ==
    ASSUME DispatchInv, NEW r \in Requests, RefuseTicket(r)
    PROVE  DispatchInv'
  <1>1. SimpleTypes'
    BY DEF DispatchInv, SimpleTypes, RefuseTicket, Take
  <1> QED BY <1>1 DEF DispatchInv, RefuseTicket, CallOK, EffectOnce
\* A commit that succeeds, fails before the file is replaced, or after it.
LEMMA CommitKeeps ==
    ASSUME DispatchInv, NEW w \in Writes, NEW n, Typed(n),
           Settled(n, effects, replies, server), Keeps(mem, n),
           file' = IF w = "not_written" THEN file ELSE n,
           mem' = IF w = "done" THEN n ELSE mem
    PROVE  /\ Typed(mem') /\ Typed(file')
           /\ Settled(mem', effects, replies, server)
           /\ Settled(file', effects, replies, server)
           /\ Keeps(mem', file')
           /\ w = "done" => mem' = n /\ file' = n
           /\ w # "done" => mem' = mem
  <1>1. Keeps(n, n)
    BY DEF Keeps
  <1> QED BY <1>1 DEF DispatchInv, Writes

LEMMA ReserveInv ==
    ASSUME DispatchInv, NEW r \in Requests, NEW w \in Writes, Reserve(r, w)
    PROVE  DispatchInv'
  <1> DEFINE n == Reserved(mem, r)
  <1>1. r.id \in Ids /\ r.id \notin PendingIds(mem) \cup Terminal(mem) /\ call = NoCall
    BY DEF Reserve, Idle, Requests
  <1>2. Typed(n) /\ PendingIds(n) = PendingIds(mem) \cup {r.id}
    BY ReservedFacts DEF DispatchInv
  <1>3. Settled(n, effects, replies, server) /\ Keeps(mem, n)
    BY <1>1, ReservedSettled DEF DispatchInv
  <1>4. /\ file' = IF w = "not_written" THEN file ELSE n
        /\ mem' = IF w = "done" THEN n ELSE mem
    BY DEF Reserve
  <1> HIDE DEF n
  <1>5. /\ Typed(mem') /\ Typed(file') /\ Keeps(mem', file')
        /\ Settled(mem', effects, replies, server)
        /\ Settled(file', effects, replies, server)
        /\ w = "done" => mem' = n /\ file' = n
    BY <1>2, <1>3, <1>4, CommitKeeps
  <1>6. effects[r.id] = << >>
    BY <1>1 DEF DispatchInv, Settled
  <1>7. CallOK'
    <2>1. CASE w = "done"
      <3>1. call' = [req |-> r, result |-> "none"] /\ effects' = effects
        BY <2>1 DEF Reserve
      <3>2. r.id \in PendingIds(mem') \cap PendingIds(file')
        BY <1>2, <1>5, <2>1
      <3> QED BY <1>6, <3>1, <3>2 DEF CallOK
    <2>2. CASE w # "done"
      BY <1>1, <2>2 DEF Reserve, CallOK
    <2> QED BY <2>1, <2>2
  <1>8. SimpleTypes'
    <2>1. r # NoRequest
      BY <1>1, SMT DEF NoRequest, Ids
    <2> QED BY <1>1, <2>1 DEF DispatchInv, SimpleTypes, Reserve, Take
  <1> QED BY <1>5, <1>7, <1>8 DEF DispatchInv, Reserve, EffectOnce

LEMMA TerminalizeInv ==
    ASSUME DispatchInv, NEW r \in Requests, NEW w \in Writes, TerminalizePending(r, w)
    PROVE  DispatchInv'
  <1> DEFINE n == Finished(mem, r, "uncertain")
             a == [req |-> r, status |-> "uncertain"]
  <1>1. r.id \in PendingIds(mem) /\ call = NoCall /\ "uncertain" \in Statuses
    BY DEF TerminalizePending, Idle, Statuses
  <1>2. Typed(n)
    BY <1>1, FinishedFacts DEF DispatchInv
  <1>3. Settled(n, effects, replies, server) /\ Keeps(mem, n) /\ FiledIn(n, a)
    BY <1>1, FinishedSettled DEF DispatchInv
  <1>4. /\ file' = IF w = "not_written" THEN file ELSE n
        /\ mem' = IF w = "done" THEN n ELSE mem
    BY DEF TerminalizePending
  <1> HIDE DEF n
  <1>5. /\ Typed(mem') /\ Typed(file') /\ Keeps(mem', file')
        /\ Settled(mem', effects, replies, server)
        /\ Settled(file', effects, replies, server)
        /\ w = "done" => mem' = n /\ file' = n
    BY <1>2, <1>3, <1>4, CommitKeeps
  <1>6. CallOK' /\ EffectOnce' /\ effects' = effects /\ server' = server
    BY <1>1 DEF DispatchInv, TerminalizePending, CallOK, EffectOnce
  <1>7. CASE w = "done"
    <2>1. Return(r, "uncertain")
      BY <1>7 DEF TerminalizePending
    <2>2. SimpleTypes' /\ replies' = replies \cup {a}
      BY <1>1, <2>1, ReturnTypes DEF DispatchInv, SimpleTypes, TerminalizePending, Take
    <2>3. Settled(n, effects, replies \cup {a}, server)
      BY <1>3, AnswerSettled
    <2> QED BY <1>5, <1>6, <1>7, <2>2, <2>3 DEF DispatchInv
  <1>8. CASE w # "done"
    <2>1. SimpleTypes' /\ replies' = replies
      BY <1>8 DEF DispatchInv, SimpleTypes, TerminalizePending, Take
    <2> QED BY <1>5, <1>6, <2>1 DEF DispatchInv
  <1> QED BY <1>7, <1>8

LEMMA FinishInv ==
    ASSUME DispatchInv, NEW w \in Writes, Finish(w)
    PROVE  DispatchInv'
  <1> DEFINE r == call.req
             outcome == call.result
             n == Finished(mem, r, outcome)
             a == [req |-> r, status |-> outcome]
  <1>1. call # NoCall
    BY SMTT(30) DEF Finish, NoCall
  <1>2. r \in Requests /\ outcome \in Statuses /\ r.id \in PendingIds(mem)
    BY <1>1 DEF DispatchInv, CallOK, SimpleTypes, Finish
  <1>3. outcome = "completed" => effects[r.id] = <<r.body>>
    BY <1>1 DEF DispatchInv, CallOK
  <1>4. Typed(n)
    BY <1>2, FinishedFacts DEF DispatchInv
  <1>5. Settled(n, effects, replies, server) /\ Keeps(mem, n) /\ FiledIn(n, a)
    BY <1>2, <1>3, FinishedSettled DEF DispatchInv
  <1>6. /\ file' = IF w = "not_written" THEN file ELSE n
        /\ mem' = IF w = "done" THEN n ELSE mem
    BY DEF Finish
  <1> HIDE DEF n
  <1>7. /\ Typed(mem') /\ Typed(file') /\ Keeps(mem', file')
        /\ Settled(mem', effects, replies, server)
        /\ Settled(file', effects, replies, server)
        /\ w = "done" => mem' = n /\ file' = n
    BY <1>4, <1>5, <1>6, CommitKeeps
  <1>8. CallOK' /\ EffectOnce' /\ effects' = effects /\ server' = server
    BY DEF DispatchInv, Finish, CallOK, EffectOnce
  <1>9. CASE w = "done"
    <2>1. Return(r, outcome)
      BY <1>9 DEF Finish
    <2>2. SimpleTypes' /\ replies' = replies \cup {a}
      BY <1>2, <2>1, ReturnTypes DEF DispatchInv, SimpleTypes, Finish, NoCall
    <2>3. Settled(n, effects, replies \cup {a}, server)
      BY <1>5, AnswerSettled
    <2> QED BY <1>7, <1>8, <1>9, <2>2, <2>3 DEF DispatchInv
  <1>10. CASE w # "done"
    <2>1. SimpleTypes' /\ replies' = replies
      BY <1>10 DEF DispatchInv, SimpleTypes, Finish, NoCall
    <2> QED BY <1>7, <1>8, <2>1 DEF DispatchInv
  <1> QED BY <1>9, <1>10

LEMMA ExecuteInv ==
    ASSUME DispatchInv, NEW result \in Statuses, NEW happened \in BOOLEAN, Execute(result, happened)
    PROVE  DispatchInv'
  <1> DEFINE r == call.req
  <1>1. /\ r \in Requests /\ r.id \in PendingIds(mem) \cap PendingIds(file)
        /\ effects[r.id] = << >>
    BY DEF DispatchInv, CallOK, Execute
  <1>2. r.id \in Ids /\ r.body \in 1..MaxSender
    BY <1>1 DEF Requests
  <1>3. r.id \notin Terminal(mem) /\ r.id \notin Terminal(file)
    BY <1>1 DEF DispatchInv, Settled
  <1>4. Append(effects[r.id], r.body) = <<r.body>>
    BY <1>1, SMTT(30)
  <1>5. /\ \A i \in Ids \ {r.id} : effects'[i] = effects[i]
        /\ effects'[r.id] \in {<< >>, <<r.body>>}
        /\ result = "completed" => effects'[r.id] = <<r.body>>
    BY <1>1, <1>2, <1>4 DEF DispatchInv, SimpleTypes, Execute
  <1>6. effects' \in [Ids -> Seq(1..MaxSender)]
    <2>1. <<r.body>> \in Seq(1..MaxSender)
      BY <1>2, SMTT(30)
    <2> QED BY <1>2, <1>4, <2>1 DEF DispatchInv, SimpleTypes, Execute
  <1>7. /\ Settled(mem, effects', replies, server)
        /\ Settled(file, effects', replies, server)
    <2>1. /\ Terminal(mem) \subseteq Ids /\ Terminal(file) \subseteq Ids
          /\ \A i \in Terminal(mem) : effects'[i] = effects[i]
          /\ \A i \in Terminal(file) : effects'[i] = effects[i]
      BY <1>3, <1>5 DEF DispatchInv, Typed
    <2> QED BY <1>1, <1>5, <2>1 DEF DispatchInv, Settled
  <1>8. EffectOnce'
    <2>1. \A i \in Ids : Len(effects'[i]) <= 1
      <3> SUFFICES ASSUME NEW i \in Ids PROVE Len(effects'[i]) <= 1
        OBVIOUS
      <3>1. CASE i = r.id
        <4>1. Len(<< >>) = 0 /\ Len(<<r.body>>) = 1
          OBVIOUS
        <4>2. effects'[i] = << >> \/ effects'[i] = <<r.body>>
          BY <1>5, <3>1
        <4>3. Len(effects'[i]) = 0 \/ Len(effects'[i]) = 1
          BY <4>1, <4>2, Zenon
        <4>4. 0 <= 1 /\ 1 <= 1
          BY SMTT(30)
        <4> QED BY <4>3, <4>4, Zenon
      <3>2. CASE i # r.id
        BY <1>5, <3>2 DEF DispatchInv, EffectOnce
      <3> QED BY <3>1, <3>2
    <2> QED BY <2>1 DEF EffectOnce
  <1>9. call' = [req |-> r, result |-> result]
    BY DEF Execute, DispatchInv, SimpleTypes
  <1>10. CallOK'
    BY <1>1, <1>5, <1>9 DEF CallOK, Execute, Statuses
  <1>11. SimpleTypes'
    <2>1. r # NoRequest
      BY <1>2, SMT DEF NoRequest, Ids
    <2> QED BY <1>1, <1>6, <1>9, <2>1 DEF DispatchInv, SimpleTypes, Execute
  <1> QED BY <1>7, <1>8, <1>10, <1>11 DEF DispatchInv, Execute

LEMMA PeerCrashInv ==
    ASSUME OwnerDispatchAssumption, DispatchInv, PeerCrash
    PROVE  DispatchInv'
  <1>1. crashes' \in 0..MaxCrashes
    BY SMTT(30) DEF DispatchInv, SimpleTypes, PeerCrash, OwnerDispatchAssumption
  <1>2. up' \in BOOLEAN
    BY DEF PeerCrash, Valid
  <1>3. SimpleTypes'
    BY <1>1, <1>2 DEF DispatchInv, SimpleTypes, PeerCrash, NoCall
  <1>4. Keeps(file, file)
    BY DEF Keeps
  <1> QED BY <1>3, <1>4 DEF DispatchInv, PeerCrash, CallOK, EffectOnce

LEMMA DispatchNextInv == ASSUME OwnerDispatchAssumption PROVE DispatchInv /\ [DispatchNext]_dispatchVars => DispatchInv'
  <1> SUFFICES ASSUME DispatchInv, [DispatchNext]_dispatchVars PROVE DispatchInv'
    OBVIOUS
  <1>1. CASE Send
    BY <1>1, SendInv
  <1>2. CASE Resend \/ GiveUp \/ SenderRestart
    BY <1>2, SenderStepsInv
  <1>3. CASE PeerCrash
    BY <1>3, PeerCrashInv
  <1>4. ASSUME NEW r \in Requests, Repeat(r) \/ Uncertain(r) \/ RefuseTicket(r) PROVE DispatchInv'
    BY <1>4, RepeatInv, UncertainInv, RefuseInv
  <1>5. ASSUME NEW r \in Requests, NEW w \in Writes, Reserve(r, w) \/ TerminalizePending(r, w)
        PROVE  DispatchInv'
    BY <1>5, ReserveInv, TerminalizeInv
  <1>6. ASSUME NEW result \in Statuses, NEW happened \in BOOLEAN, Execute(result, happened)
        PROVE  DispatchInv'
    BY <1>6, ExecuteInv
  <1>7. ASSUME NEW w \in Writes, Finish(w) PROVE DispatchInv'
    BY <1>7, FinishInv
  <1>8. CASE UNCHANGED dispatchVars
    <2>1. SimpleTypes'
      BY <1>8 DEF dispatchVars, DispatchInv, SimpleTypes
    <2> QED BY <1>8, <2>1 DEF dispatchVars, DispatchInv, CallOK, EffectOnce
  <1> QED BY <1>1, <1>2, <1>3, <1>4, <1>5, <1>6, <1>7, <1>8 DEF DispatchNext

LEMMA DispatchSpecInv == ASSUME OwnerDispatchAssumption PROVE DispatchSpec => []DispatchInv
  <1>1. DispatchInit => DispatchInv
    BY DispatchInitInv
  <1>2. DispatchInv /\ [DispatchNext]_dispatchVars => DispatchInv'
    BY DispatchNextInv
  <1> QED BY <1>1, <1>2, PTL DEF DispatchSpec

-----------------------------------------------------------------------------
(* The limits of the dispatch server: Fits is asked before a reservation   *)
(* only, and still bounds the responses when the result is filed.          *)

Small(t) ==
    /\ Cardinality(PendingIds(t)) <= MaxPending
    /\ Cardinality(Terminal(t)) <= MaxTerminal

SizeOK ==
    server = "dispatch" =>
        /\ Small(mem) /\ Small(file)
        /\ call # NoCall => Cardinality(Terminal(mem)) < MaxTerminal

LEMMA SizesAreNumbers ==
    ASSUME OwnerDispatchAssumption, NEW t, Typed(t)
    PROVE  /\ IsFiniteSet(PendingIds(t)) /\ IsFiniteSet(Terminal(t))
           /\ Cardinality(PendingIds(t)) \in Nat /\ Cardinality(Terminal(t)) \in Nat
  <1>1. IsFiniteSet(Ids)
    <2>1. 1 \in Int /\ MaxSeq \in Int
      BY SMTT(30) DEF OwnerDispatchAssumption
    <2> QED BY <2>1, FS_Interval DEF Ids
  <1>2. IsFiniteSet(PendingIds(t)) /\ IsFiniteSet(Terminal(t))
    BY <1>1, FS_Subset DEF Typed
  <1> QED BY <1>2, FS_CardinalityType

LEMMA InitSizes == ASSUME OwnerDispatchAssumption PROVE DispatchInit => SizeOK
  <1>1. PendingIds(EmptyReplay) = {} /\ Terminal(EmptyReplay) = {}
    BY SMTT(30) DEF EmptyReplay, PendingIds, Terminal
  <1>2. Small(EmptyReplay)
    BY <1>1, FS_EmptySet, SMTT(30) DEF Small, OwnerDispatchAssumption
  <1> QED BY <1>2 DEF DispatchInit, SizeOK

LEMMA ReserveSizes ==
    ASSUME OwnerDispatchAssumption, DispatchInv, SizeOK, NEW r \in Requests, NEW w \in Writes,
           Reserve(r, w)
    PROVE  SizeOK'
  <1> SUFFICES ASSUME server = "dispatch" PROVE SizeOK'
    BY DEF SizeOK, Reserve
  <1> DEFINE n == Reserved(mem, r)
  <1>1. PendingIds(n) = PendingIds(mem) \cup {r.id} /\ Terminal(n) = Terminal(mem)
    BY ReservedFacts DEF DispatchInv, Terminal
  <1>2. /\ file' = IF w = "not_written" THEN file ELSE n
        /\ mem' = IF w = "done" THEN n ELSE mem
    BY DEF Reserve
  <1> HIDE DEF n
  <1>3. /\ IsFiniteSet(PendingIds(mem))
        /\ Cardinality(PendingIds(mem)) \in Nat /\ Cardinality(Terminal(mem)) \in Nat
    BY SizesAreNumbers DEF DispatchInv
  <1>4. Cardinality(PendingIds(mem)) < MaxPending /\ Cardinality(Terminal(mem)) < MaxTerminal
    BY DEF Reserve, Fits
  <1>5. Cardinality(PendingIds(n)) = IF r.id \in PendingIds(mem) THEN Cardinality(PendingIds(mem))
                                  ELSE Cardinality(PendingIds(mem)) + 1
    BY <1>1, <1>3, FS_AddElement
  <1>6. Cardinality(PendingIds(n)) <= MaxPending
    BY <1>3, <1>4, <1>5, SMTT(30) DEF OwnerDispatchAssumption
  <1>7. Small(n) /\ Cardinality(Terminal(n)) < MaxTerminal
    BY <1>1, <1>3, <1>4, <1>6, SMTT(30) DEF Small, OwnerDispatchAssumption
  <1> QED BY <1>2, <1>4, <1>7 DEF SizeOK, Writes

LEMMA FinishSizes ==
    ASSUME OwnerDispatchAssumption, DispatchInv, SizeOK, NEW w \in Writes, Finish(w)
    PROVE  SizeOK'
  <1> SUFFICES ASSUME server = "dispatch" PROVE SizeOK'
    BY DEF SizeOK, Finish
  <1> DEFINE n == Finished(mem, call.req, call.result)
  <1>1. call # NoCall /\ call.req \in Requests /\ call.result \in Statuses
    BY SMTT(30) DEF DispatchInv, CallOK, SimpleTypes, Finish, NoCall
  <1>2. /\ PendingIds(n) = PendingIds(mem) \ {call.req.id}
        /\ Terminal(n) = Terminal(mem) \cup {call.req.id}
    BY DEF Finished, PendingIds, Terminal, With, Without
  <1>3. /\ file' = IF w = "not_written" THEN file ELSE n
        /\ mem' = IF w = "done" THEN n ELSE mem
        /\ call' = NoCall
    BY DEF Finish
  <1> HIDE DEF n
  <1>4. /\ IsFiniteSet(PendingIds(mem)) /\ IsFiniteSet(Terminal(mem))
        /\ Cardinality(PendingIds(mem)) \in Nat /\ Cardinality(Terminal(mem)) \in Nat
    BY SizesAreNumbers DEF DispatchInv
  <1>5. Cardinality(PendingIds(mem)) <= MaxPending /\ Cardinality(Terminal(mem)) < MaxTerminal
    BY <1>1 DEF SizeOK, Small
  <1>6. Cardinality(Terminal(n)) = IF call.req.id \in Terminal(mem)
                                   THEN Cardinality(Terminal(mem))
                                   ELSE Cardinality(Terminal(mem)) + 1
    BY <1>2, <1>4, FS_AddElement
  <1>7. Cardinality(PendingIds(n)) = IF call.req.id \in PendingIds(mem)
                                  THEN Cardinality(PendingIds(mem)) - 1
                                  ELSE Cardinality(PendingIds(mem))
    BY <1>2, <1>4, FS_RemoveElement
  <1>8. Small(n)
    <2>1. MaxPending \in Nat /\ MaxTerminal \in Nat
      BY DEF OwnerDispatchAssumption
    <2>2. Cardinality(PendingIds(n)) <= MaxPending
      BY <1>4, <1>5, <1>7, <2>1, SMTT(30)
    <2>3. Cardinality(Terminal(n)) <= MaxTerminal
      BY <1>4, <1>5, <1>6, <2>1, SMTT(30)
    <2> QED BY <2>2, <2>3 DEF Small
  <1> QED BY <1>3, <1>8 DEF SizeOK, Writes

LEMMA SpecSizes == ASSUME OwnerDispatchAssumption PROVE DispatchSpec => []SizeOK
  <1>1. DispatchInv /\ SizeOK /\ [DispatchNext]_dispatchVars => SizeOK'
    <2> SUFFICES ASSUME DispatchInv, SizeOK, [DispatchNext]_dispatchVars PROVE SizeOK'
      OBVIOUS
    <2>1. CASE Send \/ Resend \/ GiveUp \/ SenderRestart
      BY <2>1 DEF SizeOK, Send, Resend, GiveUp, SenderRestart, serverVars
    <2>2. CASE PeerCrash
      BY <2>2 DEF SizeOK, PeerCrash
    <2>3. ASSUME NEW r \in Requests, Repeat(r) \/ Uncertain(r) \/ RefuseTicket(r)
          PROVE  SizeOK'
      BY <2>3 DEF SizeOK, Repeat, Uncertain, RefuseTicket
    <2>4. ASSUME NEW r \in Requests, NEW w \in Writes, Reserve(r, w)
          PROVE  SizeOK'
      BY <2>4, ReserveSizes
    <2>5. ASSUME NEW r \in Requests, NEW w \in Writes, TerminalizePending(r, w)
          PROVE  SizeOK'
      BY <2>5 DEF SizeOK, TerminalizePending
    <2>6. ASSUME NEW result \in Statuses, NEW happened \in BOOLEAN, Execute(result, happened)
          PROVE  SizeOK'
      BY <2>6 DEF SizeOK, Execute
    <2>7. ASSUME NEW w \in Writes, Finish(w) PROVE SizeOK'
      BY <2>7, FinishSizes
    <2>8. CASE UNCHANGED dispatchVars
      BY <2>8 DEF dispatchVars, SizeOK
    <2> QED BY <2>1, <2>2, <2>3, <2>4, <2>5, <2>6, <2>7, <2>8 DEF DispatchNext
  <1> QED BY <1>1, InitSizes, DispatchSpecInv, PTL DEF DispatchSpec

-----------------------------------------------------------------------------
\* The state of the sender, the server and its file keeps its types.
THEOREM DispatchTypesHold == ASSUME OwnerDispatchAssumption PROVE DispatchSpec => []DispatchTypeOK
  <1>1. DispatchInv => DispatchTypeOK
    BY DEF DispatchInv, SimpleTypes, Typed, DispatchTypeOK
  <1> QED BY <1>1, DispatchSpecInv, PTL

\* The platform executes an id at most once, for any limits and any number of
\* retries, failed commits, crashes and restarts of the sender (execute_platform).
THEOREM ExecutedAtMostOnce == ASSUME OwnerDispatchAssumption PROVE DispatchSpec => []EffectOnce
  <1>1. DispatchInv => EffectOnce
    BY DEF DispatchInv
  <1> QED BY <1>1, DispatchSpecInv, PTL

\* What was answered as completed was executed and is in the file (commit_terminal
\* before the response is returned).
THEOREM CompletionIsDurable == ASSUME OwnerDispatchAssumption PROVE DispatchSpec => []CompletedIsKept
  <1>1. ASSUME DispatchInv PROVE CompletedIsKept
    <2> SUFFICES ASSUME NEW a \in replies, a.status = "completed"
                 PROVE  /\ effects[a.req.id] = <<a.req.body>>
                        /\ a.req.id \in Terminal(file)
                        /\ file.terminal[a.req.id] =
                              [body |-> a.req.body, status |-> "completed"]
      BY DEF CompletedIsKept
    <2>1. FiledIn(file, a)
      BY <1>1 DEF DispatchInv, Settled
    <2>2. /\ a.req.id \in Terminal(file)
          /\ file.terminal[a.req.id] = [body |-> a.req.body, status |-> "completed"]
      BY <2>1 DEF FiledIn
    <2> QED BY <1>1, <2>2, SMTT(30) DEF DispatchInv, Settled
  <1> QED BY <1>1, DispatchSpecInv, PTL

\* The activation server gives one request one answer, for good
\* (terminalize_pending commits the uncertainty before it is returned).
THEOREM ActivationIsConsistent ==
    ASSUME OwnerDispatchAssumption PROVE DispatchSpec => []ActivationAgrees
  <1>1. ASSUME DispatchInv PROVE ActivationAgrees
    <2> SUFFICES ASSUME server = "activation", NEW a \in replies, NEW b \in replies,
                        a.req = b.req
                 PROVE  a.status = b.status
      BY DEF ActivationAgrees
    <2>1. FiledIn(file, a) /\ FiledIn(file, b)
      BY <1>1 DEF DispatchInv, Settled
    <2>2. [body |-> a.req.body, status |-> a.status] = [body |-> b.req.body, status |-> b.status]
      BY <2>1 DEF FiledIn
    <2> QED BY <2>2
  <1> QED BY <1>1, DispatchSpecInv, PTL
\* What the dispatch server writes stays within the limits that its restore
\* checks (MAX_OWNER_DISPATCH_PENDING, MAX_OWNER_DISPATCH_REPLAYS).
THEOREM DispatchIsRestorable == ASSUME OwnerDispatchAssumption PROVE DispatchSpec => []Restorable
  <1>1. DispatchInv /\ SizeOK => Restorable
    BY DEF DispatchInv, Settled, SizeOK, Small, Restorable, Valid
  <1> QED BY <1>1, DispatchSpecInv, SpecSizes, PTL

-----------------------------------------------------------------------------
(***************************************************************************)
(* Proofs about the process fence, for any number of processes, runs and   *)
(* generations.                                                            *)
(*                                                                         *)
(* ClearMeansClosed is not inductive: whether a record may become clear    *)
(* depends on what the process that writes it knows.  The invariant says   *)
(* that effects nobody has accounted for are either the ones this process  *)
(* owns (reg.owned) or ones it may only recover (fence.recoveryOnly), that *)
(* memory and record are pending for as long as they exist, and that the   *)
(* steps which clear or publish are taken when there are none (Quiet).     *)
(***************************************************************************)
Claiming == {"pending_rec", "pending_comp", "claim"}
Recovering == {"enter_rec", "retire"}
Recovered == {"active", "finish_rec", "finish_comp", "joined"}
\* The steps at which no effect is unaccounted for.
Quiet ==
    Claiming \cup Recovered \cup
    {"select_rec", "absence_rec", "absence_comp", "absence",
     "clear_rec", "clear_comp", "publish"}

\* A dead process holds nothing.
DeadHoldsNothing == ~alive => pc = "idle" /\ fence = NoFence /\ reg = EmptyRegistry

\* Effects that are not accounted for keep the fence pending, and belong to this
\* process unless it may only recover.
OpenIsFenced ==
    open # {} =>
        /\ rec # Torn => rec.phase = "pending"
        /\ alive => Pending
        /\ alive /\ ~fence.recoveryOnly => reg.owned

\* The capability this process owns is the latest generation.
OwnedIsLatest ==
    reg.owned => /\ nat # Torn /\ reg.cap = nat.counter
                 /\ reg.prior # 0 /\ ~fence.recoveryOnly

\* A readable counter bounds every generation that is written anywhere.
CounterIsLatest ==
    nat # Torn =>
        /\ open \subseteq {nat.counter} /\ (open # {} => ~nat.retired)
        /\ reg.cap <= nat.counter
        /\ \A r \in Runs : closed[r] <= nat.counter /\ release[r] <= nat.counter

\* What the command lane has established at each of its steps.
LaneOK ==
    /\ pc \in Quiet => open = {}
    /\ pc \in Claiming => ~fence.recoveryOnly /\ ~reg.owned /\ Pending
    /\ pc \in {"pending_comp", "claim"} => rec = fence.mem
    /\ pc \in Recovering \cup Recovered => nat # Torn /\ ~reg.owned
    /\ pc \in Recovering => fence.recoveryOnly /\ (~nat.retired => nat.owner # proc)

Inv ==
    /\ FenceTypeOK
    /\ DeadHoldsNothing /\ OpenIsFenced /\ OwnedIsLatest /\ CounterIsLatest
    /\ LaneOK /\ HandoffIsEarned
-----------------------------------------------------------------------------
LEMMA Constants ==
    /\ MaxProc \in Nat \ {0, 1} /\ MaxRun \in Nat \ {0, 1} /\ MaxGen \in Nat \ {0, 1}
    /\ NoRecord \in Records /\ Runs \subseteq Nat \ {0} /\ 1 \in Runs /\ 1 \in Procs
  BY BoundsArePositive, SMTT(30) DEF NoRecord, Records, Runs, Procs, Gens, Phases

\* What is known at a step that writes is known at the step that follows.
LEMMA AfterFacts ==
    ASSUME NEW p \in RecordSteps \cup CompanionSteps \cup StampSteps
    PROVE  /\ After[p] \in Steps
           /\ After[p] \in Quiet => p \in Quiet
           /\ After[p] \in Claiming => p \in Claiming
           /\ After[p] \in Recovering \cup Recovered => p \in Recovering \cup Recovered
           /\ After[p] \in Recovering => p \in Recovering
           /\ After[p] = "pending_comp" => p = "pending_rec"
           /\ After[p] = "claim" => p = "pending_comp"
  BY SMTT(30) DEF RecordSteps, CompanionSteps, StampSteps, After, Steps, Quiet, Claiming, Recovering,
         Recovered

\* The fence in memory keeps its type under the three ways it is changed.
FenceType == [mem : Records, acq : Records, recoveryOnly : BOOLEAN, bound : BOOLEAN]

LEMMA PhaseTypes ==
    ASSUME NEW r \in Records
    PROVE  /\ AsClear(r) \in Records /\ AsPending(r) \in Records
           /\ AsClear(r).phase = "clear" /\ AsPending(r).phase = "pending"
           /\ AsClear(r).run = r.run /\ AsPending(r).run = r.run
           /\ r.run \in Runs /\ r.gen \in Gens /\ r.phase \in Phases
  BY DEF Records, Phases, AsClear, AsPending

LEMMA InitInv == FenceInit => Inv
  <1> SUFFICES ASSUME FenceInit PROVE Inv
    OBVIOUS
  <1>1. [gen |-> 2, run |-> 1, phase |-> "clear"] \in Records
    BY Constants, SMTT(30) DEF Records, Phases, Gens
  <1>2. fence \in FenceType /\ rec \in Records
    BY <1>1, Constants DEF FenceInit, NoFence, FenceType
  <1>3. nat \in Counters /\ nat # Torn
    <2>1. nat = [counter |-> 0, app |-> NoRecord, owner |-> 0, retired |-> FALSE]
      BY DEF FenceInit
    <2>2. nat \in Counters
      BY <2>1, Constants DEF Counters
    <2> QED BY <2>2, TornIsNeither
  <1>4. FenceTypeOK
    BY <1>2, <1>3, Constants
       DEF FenceInit, FenceTypeOK, FenceType, NoCompanion, EmptyRegistry, Natives, Steps, Procs, Runs
  <1> QED BY <1>3, <1>4, SMTT(30) DEF FenceInit, Inv, DeadHoldsNothing, OpenIsFenced, OwnedIsLatest,
       CounterIsLatest, LaneOK, HandoffIsEarned, EmptyRegistry, Quiet, Claiming, Recovering,
       Recovered

LEMMA AcquireInv == ASSUME Inv, Acquire PROVE Inv'
  <1>1. rec \in Records /\ rec.gen + 1 \in Gens /\ sel \in Runs
    BY Constants, SMTT(30) DEF Inv, FenceTypeOK, Acquire, Records, Gens
  <1>2. [rec EXCEPT !.gen = @ + 1] \in Records /\ [rec EXCEPT !.gen = @ + 1].phase = rec.phase
    BY <1>1 DEF Records
  <1>3. /\ fence' = [mem |-> [rec EXCEPT !.gen = @ + 1], acq |-> rec,
                     recoveryOnly |-> (rec.phase = "pending"), bound |-> FALSE]
        /\ pc' = "acquire" /\ reg' = EmptyRegistry /\ alive'
    BY DEF Acquire, NoFence, Inv, DeadHoldsNothing
  <1>4. phases' \in [Runs -> SUBSET Records]
    BY <1>1 DEF Inv, FenceTypeOK, Acquire
  <1>5. proc' \in Procs
    BY Constants, SMTT(30) DEF Inv, FenceTypeOK, Acquire, Procs
  <1>6. fence' \in FenceType /\ fence'.recoveryOnly = (rec.phase = "pending")
        /\ fence'.mem.phase = rec.phase
    BY <1>1, <1>2, <1>3 DEF FenceType
  <1>7. FenceTypeOK'
    BY <1>3, <1>4, <1>5, <1>6
       DEF Inv, FenceTypeOK, Acquire, FenceType, Steps, RecordSteps, EmptyRegistry, Natives
  <1>8. OpenIsFenced'
    BY <1>6 DEF Inv, Acquire, OpenIsFenced, Pending
  <1>9. OwnedIsLatest' /\ CounterIsLatest'
    <2>1. ~reg'.owned /\ reg'.cap = 0 /\ reg' = reg
      BY <1>3, SMTT(30) DEF EmptyRegistry, Acquire
    <2> QED BY <2>1 DEF Inv, Acquire, OwnedIsLatest, CounterIsLatest
  <1>10. LaneOK'
    BY <1>3 DEF LaneOK, Quiet, Claiming, Recovering, Recovered
  <1> QED BY <1>3, <1>7, <1>8, <1>9, <1>10 DEF Inv, Acquire, DeadHoldsNothing, HandoffIsEarned

LEMMA WriteRecordInv == ASSUME Inv, WriteRecord PROVE Inv'
  <1>1. fence.mem \in Records /\ fence.mem # Torn
    BY TornIsNeither DEF Inv, FenceTypeOK
  <1>2. FenceTypeOK'
    BY <1>1, AfterFacts DEF Inv, FenceTypeOK, WriteRecord
  <1>3. LaneOK'
    BY AfterFacts DEF Inv, LaneOK, WriteRecord, Pending
  <1> QED BY <1>1, <1>2, <1>3 DEF Inv, WriteRecord, DeadHoldsNothing, OpenIsFenced, OwnedIsLatest,
       CounterIsLatest, HandoffIsEarned, Pending

LEMMA WriteCompanionInv == ASSUME Inv, WriteCompanion PROVE Inv'
  <1>1. fence.mem \in Records /\ Run \in Runs
    BY PhaseTypes DEF Inv, FenceTypeOK, Run
  <1>2. comps' \in [Runs -> [owner : {0} \cup Procs, orig : Records, cur : Records,
                             broken : BOOLEAN]]
    BY <1>1 DEF Inv, FenceTypeOK, WriteCompanion
  <1>3. FenceTypeOK'
    BY <1>2, AfterFacts DEF Inv, FenceTypeOK, WriteCompanion
  <1>4. LaneOK'
    BY AfterFacts DEF Inv, LaneOK, WriteCompanion, Pending, CompanionSteps
  <1> QED BY <1>3, <1>4 DEF Inv, WriteCompanion, DeadHoldsNothing, OpenIsFenced, OwnedIsLatest,
       CounterIsLatest, HandoffIsEarned, Pending

LEMMA StampCompanionInv == ASSUME Inv, StampCompanion PROVE Inv'
  <1>1. fence.mem \in Records /\ Run \in Runs /\ proc \in Procs
    BY PhaseTypes DEF Inv, FenceTypeOK, Run
  <1>2. comps' \in [Runs -> [owner : {0} \cup Procs, orig : Records, cur : Records,
                             broken : BOOLEAN]]
    BY <1>1 DEF Inv, FenceTypeOK, StampCompanion
  <1>3. FenceTypeOK'
    BY <1>2, AfterFacts DEF Inv, FenceTypeOK, StampCompanion
  <1>4. LaneOK'
    BY AfterFacts DEF Inv, LaneOK, StampCompanion, Pending, StampSteps
  <1> QED BY <1>3, <1>4 DEF Inv, StampCompanion, DeadHoldsNothing, OpenIsFenced, OwnedIsLatest,
       CounterIsLatest, HandoffIsEarned, Pending
LEMMA BindInv == ASSUME Inv, Bind PROVE Inv'
  <1>1. fence' \in FenceType /\ fence'.mem = fence.mem
        /\ fence'.recoveryOnly = fence.recoveryOnly
    BY DEF Inv, FenceTypeOK, Bind, FenceType
  <1>2. FenceTypeOK'
    BY <1>1 DEF Inv, FenceTypeOK, Bind, disk, FenceType, Steps, StampSteps
  <1> QED BY <1>1, <1>2 DEF Inv, Bind, At, disk, DeadHoldsNothing, OpenIsFenced, OwnedIsLatest,
       CounterIsLatest, LaneOK, HandoffIsEarned, Pending, Quiet, Claiming, Recovering, Recovered

LEMMA BeforeRuntimeEffectsInv == ASSUME Inv, BeforeRuntimeEffects PROVE Inv'
  <1>1. /\ fence' \in FenceType /\ fence'.mem.phase = "pending"
        /\ fence'.recoveryOnly = fence.recoveryOnly
    <2>1. AsPending(fence.mem) \in Records /\ AsPending(fence.mem).phase = "pending"
      BY PhaseTypes DEF Inv, FenceTypeOK
    <2>2. fence' = [fence EXCEPT !.mem = AsPending(fence.mem)]
      BY DEF BeforeRuntimeEffects
    <2> QED BY <2>1, <2>2 DEF Inv, FenceTypeOK, FenceType
  <1>2. FenceTypeOK'
    BY <1>1 DEF Inv, FenceTypeOK, BeforeRuntimeEffects, disk, FenceType, Steps, RecordSteps
  <1>3. open = {}
    BY DEF Inv, OpenIsFenced, BeforeRuntimeEffects, At
  <1> QED BY <1>1, <1>2, <1>3 DEF Inv, BeforeRuntimeEffects, At, disk, DeadHoldsNothing,
       OpenIsFenced, OwnedIsLatest, CounterIsLatest, LaneOK, HandoffIsEarned, Pending, Quiet,
       Claiming, Recovering, Recovered

LEMMA ClaimInv == ASSUME Inv, Claim PROVE Inv'
  <1>1. /\ open = {} /\ rec = fence.mem /\ Pending /\ alive
        /\ ~fence.recoveryOnly /\ ~reg.owned /\ nat \in Counters
    BY DEF Inv, FenceTypeOK, LaneOK, Claim, At, Quiet, Claiming
  <1>2. pc' = "idle" /\ alive' /\ fence' = fence /\ rec' = rec
    BY <1>1 DEF Claim
  <1>3. LaneOK' /\ DeadHoldsNothing'
    BY <1>2 DEF LaneOK, DeadHoldsNothing, Quiet, Claiming, Recovering, Recovered
  <1>4. CASE ~Eligible
    <2>1. nat' = nat /\ reg' = reg /\ open' = open
      BY <1>4 DEF Claim
    <2> QED BY <1>2, <1>3, <2>1 DEF Inv, FenceTypeOK, Claim, Steps, OpenIsFenced, OwnedIsLatest,
         CounterIsLatest, HandoffIsEarned, Pending
  <1>5. CASE Eligible
    <2> DEFINE c == nat.counter + 1
    <2>1. nat.counter \in Nat
      BY <1>1 DEF Counters
    <2>2. /\ nat' = [counter |-> c, app |-> fence.mem, owner |-> proc, retired |-> FALSE]
          /\ reg' = [cap |-> c, prior |-> Run, owned |-> TRUE]
          /\ open' = {c}
      BY <1>1, <1>5 DEF Claim
    <2>3. c \in Nat /\ c > nat.counter
      BY <2>1, SMTT(30)
    <2>4. fence.mem \in Records /\ Run \in Runs /\ proc \in Procs
      BY PhaseTypes DEF Inv, FenceTypeOK, Run
    <2> HIDE DEF c
    <2>5. nat' \in Counters /\ nat' # Torn /\ nat'.counter = c /\ ~nat'.retired
      <3>1. nat' \in Counters
        BY <2>2, <2>3, <2>4 DEF Counters
      <3> QED BY <3>1, <2>2, TornIsNeither
    <2>6. Run # 0
      BY <2>4, Constants
    <2>7. FenceTypeOK'
      BY <1>2, <2>2, <2>3, <2>4, <2>5 DEF Inv, FenceTypeOK, Claim, Steps, Natives
    <2>8. \A r \in Runs : /\ closed[r] \in Nat /\ closed[r] <= nat.counter
                          /\ release[r] \in Nat /\ release[r] <= nat.counter
      BY DEF Inv, FenceTypeOK, CounterIsLatest, Claim, Natives
    <2>9. \A r \in Runs : /\ closed[r] <= c /\ closed[r] # c
                          /\ release[r] <= c /\ release[r] # c
      BY <2>1, <2>3, <2>8, SMTT(30)
    <2>10. closed' = closed /\ release' = release
      BY DEF Claim
    <2>11. CounterIsLatest' /\ HandoffIsEarned'
      BY <2>2, <2>3, <2>5, <2>9, <2>10, SMTT(30) DEF CounterIsLatest, HandoffIsEarned
    <2>12. OwnedIsLatest' /\ OpenIsFenced'
      BY <1>1, <1>2, <2>2, <2>5, <2>6 DEF OwnedIsLatest, OpenIsFenced, Pending
    <2> QED BY <1>3, <2>7, <2>11, <2>12 DEF Inv
  <1> QED BY <1>4, <1>5

LEMMA ClearedFence ==
    ASSUME FenceTypeOK
    PROVE  LET f == [fence EXCEPT !.mem = AsClear(@)]
           IN  f \in FenceType /\ f.recoveryOnly = fence.recoveryOnly
  <1>1. AsClear(fence.mem) \in Records
    BY PhaseTypes DEF FenceTypeOK
  <1>2. [fence EXCEPT !.mem = AsClear(@)] = [fence EXCEPT !.mem = AsClear(fence.mem)]
    OBVIOUS
  <1> QED BY <1>1, <1>2 DEF FenceTypeOK, FenceType

LEMMA CloseWholeInv == ASSUME Inv, CloseWhole PROVE Inv'
  <1>1. open' = {}
    BY DEF Inv, CloseWhole, OwnedIsLatest, CounterIsLatest
  <1>2. fence' \in FenceType /\ fence'.recoveryOnly = fence.recoveryOnly
    BY ClearedFence DEF Inv, CloseWhole
  <1>3. /\ reg' \in [cap : Natives, prior : {0} \cup Runs, owned : BOOLEAN]
        /\ ~reg'.owned /\ reg'.cap = reg.cap
    BY DEF Inv, FenceTypeOK, CloseWhole
  <1>4. FenceTypeOK'
    BY <1>1, <1>2, <1>3 DEF Inv, FenceTypeOK, CloseWhole, disk, FenceType, Steps, RecordSteps
  <1> QED BY <1>1, <1>2, <1>3, <1>4 DEF Inv, CloseWhole, At, disk, DeadHoldsNothing, OpenIsFenced,
       OwnedIsLatest, CounterIsLatest, LaneOK, HandoffIsEarned, Claiming, Recovering, Recovered

LEMMA BeforeNativeAbsenceRetirementInv == ASSUME Inv, BeforeNativeAbsenceRetirement PROVE Inv'
  <1>1. open = {}
    BY DEF Inv, OpenIsFenced, OwnedIsLatest, BeforeNativeAbsenceRetirement, At
  <1>2. /\ fence' \in FenceType /\ fence'.recoveryOnly = fence.recoveryOnly
    <2>1. AsPending(fence.mem) \in Records
      BY PhaseTypes DEF Inv, FenceTypeOK
    <2>2. fence' = [fence EXCEPT !.mem = AsPending(fence.mem)]
      BY DEF BeforeNativeAbsenceRetirement
    <2> QED BY <2>1, <2>2 DEF Inv, FenceTypeOK, FenceType
  <1>3. pc' \in {"absence", "absence_rec"}
    BY DEF BeforeNativeAbsenceRetirement
  <1>4. FenceTypeOK'
    BY <1>2, <1>3 DEF Inv, FenceTypeOK, BeforeNativeAbsenceRetirement, disk, FenceType, Steps,
       RecordSteps
  <1> QED BY <1>1, <1>2, <1>3, <1>4 DEF Inv, BeforeNativeAbsenceRetirement, At, disk,
       DeadHoldsNothing, OpenIsFenced, OwnedIsLatest, CounterIsLatest, LaneOK, HandoffIsEarned,
       Claiming, Recovering, Recovered

LEMMA RetireNeverClaimedInv == ASSUME Inv, RetireNeverClaimed PROVE Inv'
  <1>1. open = {}
    BY DEF Inv, LaneOK, RetireNeverClaimed, At, Quiet
  <1>2. fence' \in FenceType /\ fence'.recoveryOnly = fence.recoveryOnly
    BY ClearedFence DEF Inv, RetireNeverClaimed
  <1>3. Run \in Runs /\ Run # 0
    BY PhaseTypes, Constants DEF Inv, FenceTypeOK, Run
  <1>4. /\ reg' \in [cap : Natives, prior : {0} \cup Runs, owned : BOOLEAN]
        /\ reg'.owned = reg.owned /\ reg'.cap = reg.cap /\ reg'.prior = Run
    BY <1>3 DEF Inv, FenceTypeOK, RetireNeverClaimed
  <1>5. FenceTypeOK'
    BY <1>2, <1>4 DEF Inv, FenceTypeOK, RetireNeverClaimed, disk, FenceType, Steps, RecordSteps
  <1> QED BY <1>1, <1>2, <1>3, <1>4, <1>5 DEF Inv, RetireNeverClaimed, At, disk, DeadHoldsNothing,
       OpenIsFenced, OwnedIsLatest, CounterIsLatest, LaneOK, HandoffIsEarned, Claiming, Recovering,
       Recovered

LEMMA PublishInv == ASSUME Inv, Publish PROVE Inv'
  <1>1. open = {} /\ Run \in Runs /\ reg.cap \in Nat
    BY PhaseTypes DEF Inv, FenceTypeOK, LaneOK, Publish, At, Quiet, Run, Natives
  <1>2. \/ closed' = closed
        \/ closed' = [closed EXCEPT ![Run] = reg.cap]
    BY DEF Publish
  <1>3. closed' \in [Runs -> Natives]
    BY <1>1, <1>2 DEF Inv, FenceTypeOK, Natives
  <1>4. FenceTypeOK'
    BY <1>3 DEF Inv, FenceTypeOK, Publish, Steps
  <1>5. \A r \in Runs : closed'[r] \in {closed[r], reg.cap}
    BY <1>1, <1>2 DEF Inv, FenceTypeOK
  <1>6. CounterIsLatest'
    BY <1>5 DEF Inv, CounterIsLatest, Publish
  <1> QED BY <1>1, <1>4, <1>6 DEF Inv, Publish, At, DeadHoldsNothing, OpenIsFenced, OwnedIsLatest,
       LaneOK, HandoffIsEarned, Pending, Quiet, Claiming, Recovering, Recovered
LEMMA SelectRunInv == ASSUME Inv, NEW r \in Runs, SelectRun(r) PROVE Inv'
  <1>1. open = {}
    BY DEF Inv, OpenIsFenced, SelectRun, At
  <1>2. fence.mem.gen + 1 \in Gens
    <2>1. fence.mem.gen \in 0..MaxGen /\ fence.mem.gen < MaxGen
      BY PhaseTypes DEF Inv, FenceTypeOK, SelectRun, Gens
    <2> QED BY <2>1, Constants, SMTT(30) DEF Gens
  <1>3. /\ fence' = [mem |-> [gen |-> fence.mem.gen + 1, run |-> r, phase |-> "clear"],
                     acq |-> NoRecord, recoveryOnly |-> FALSE, bound |-> FALSE]
        /\ pc' = "select_rec"
    BY DEF SelectRun, NoFence
  <1>4. [gen |-> fence.mem.gen + 1, run |-> r, phase |-> "clear"] \in Records
    BY <1>2 DEF Records, Phases
  <1>5. fence' \in FenceType /\ ~fence'.recoveryOnly
    BY <1>3, <1>4, Constants DEF FenceType
  <1>6. Run \in Runs
    BY PhaseTypes DEF Inv, FenceTypeOK, Run
  <1>7. Handoff(Run) \in Nat /\ (nat # Torn => Handoff(Run) <= nat.counter)
    BY <1>6 DEF Inv, FenceTypeOK, Handoff, CounterIsLatest, Natives
  <1> DEFINE h == Handoff(Run)
  <1>8. release' = release \/ release' = [release EXCEPT ![r] = h]
    BY DEF SelectRun
  <1> HIDE DEF h
  <1>9. /\ release' \in [Runs -> Natives]
        /\ \A q \in Runs : release'[q] \in {release[q], h}
    <2>1. h \in Natives /\ release \in [Runs -> Natives]
      BY <1>7 DEF Inv, FenceTypeOK, Natives, h
    <2> QED BY <1>8, <2>1
  <1>10. FenceTypeOK'
    BY <1>3, <1>5, <1>9 DEF Inv, FenceTypeOK, SelectRun, FenceType, Steps, RecordSteps
  <1>11. CounterIsLatest'
    BY <1>7, <1>9 DEF Inv, CounterIsLatest, SelectRun, h
  <1> QED BY <1>1, <1>3, <1>5, <1>10, <1>11 DEF Inv, SelectRun, At, DeadHoldsNothing, OpenIsFenced,
       OwnedIsLatest, LaneOK, HandoffIsEarned, Claiming, Recovering, Recovered

LEMMA PrepareRecoveryInv == ASSUME Inv, PrepareRecovery PROVE Inv'
  <1>1. /\ fence' \in FenceType /\ fence'.mem.phase = "pending" /\ fence'.recoveryOnly
    <2>1. AsPending(fence.mem) \in Records /\ AsPending(fence.mem).phase = "pending"
      BY PhaseTypes DEF Inv, FenceTypeOK
    <2>2. fence' = [fence EXCEPT !.mem = AsPending(fence.mem), !.recoveryOnly = TRUE]
      BY DEF PrepareRecovery
    <2> QED BY <2>1, <2>2 DEF Inv, FenceTypeOK, FenceType
  <1>2. nat # Torn /\ ~reg.owned /\ (~nat.retired => nat.owner # proc)
    BY DEF PrepareRecovery, Recoverable, OldOwnerIsDead, EmptyRegistry
  <1>3. pc' \in Recovering
    BY DEF PrepareRecovery, Recovering
  <1>4. FenceTypeOK'
    BY <1>1, <1>3 DEF Inv, FenceTypeOK, PrepareRecovery, disk, FenceType, Steps, RecordSteps, Recovering
  <1> QED BY <1>1, <1>2, <1>3, <1>4 DEF Inv, PrepareRecovery, At, disk, DeadHoldsNothing,
       OpenIsFenced, OwnedIsLatest, CounterIsLatest, LaneOK, HandoffIsEarned, Pending, Quiet,
       Claiming, Recovering, Recovered

LEMMA RetireColdInv == ASSUME Inv, RetireCold PROVE Inv'
  <1>1. nat # Torn /\ ~reg.owned /\ nat \in Counters /\ Run \in Runs
    BY PhaseTypes DEF Inv, FenceTypeOK, LaneOK, RetireCold, At, Recovering, Run
  <1>2. open' = {}
    BY <1>1 DEF Inv, CounterIsLatest, RetireCold
  <1>3. nat' \in Counters /\ nat'.counter = nat.counter
    BY <1>1 DEF RetireCold, Counters
  <1>4. nat' # Torn
    BY <1>3, TornIsNeither
  <1>5. /\ reg' \in [cap : Natives, prior : {0} \cup Runs, owned : BOOLEAN]
        /\ reg'.owned = reg.owned /\ reg'.cap = reg.cap
    BY <1>1 DEF Inv, FenceTypeOK, RetireCold
  <1>6. FenceTypeOK'
    BY <1>2, <1>3, <1>5 DEF Inv, FenceTypeOK, RetireCold, Steps
  <1> QED BY <1>1, <1>2, <1>3, <1>4, <1>5, <1>6 DEF Inv, RetireCold, At, DeadHoldsNothing,
       OpenIsFenced, OwnedIsLatest, CounterIsLatest, LaneOK, HandoffIsEarned, Quiet, Claiming,
       Recovering, Recovered

LEMMA RetainDecisionInv == ASSUME Inv, RetainDecision PROVE Inv'
  <1>1. open = {} /\ nat # Torn /\ ~reg.owned /\ Run \in Runs
    BY PhaseTypes DEF Inv, FenceTypeOK, LaneOK, RetainDecision, At, Quiet, Recovered, Run
  <1>2. fence' \in FenceType
    <2>1. AsClear(fence.mem) \in Records
      BY PhaseTypes DEF Inv, FenceTypeOK
    <2>2. fence' = [fence EXCEPT !.mem = AsClear(fence.mem), !.recoveryOnly = FALSE,
                                 !.bound = TRUE]
      BY DEF RetainDecision
    <2> QED BY <2>1, <2>2 DEF Inv, FenceTypeOK, FenceType
  <1>3. pub' \in [Runs -> BOOLEAN]
    BY DEF Inv, FenceTypeOK, RetainDecision
  <1>4. FenceTypeOK'
    BY <1>2, <1>3 DEF Inv, FenceTypeOK, RetainDecision, FenceType, Steps, RecordSteps
  <1> QED BY <1>1, <1>4 DEF Inv, RetainDecision, At, DeadHoldsNothing, OpenIsFenced, OwnedIsLatest,
       CounterIsLatest, LaneOK, HandoffIsEarned, Quiet, Claiming, Recovering, Recovered

LEMMA PublishRecoveryInv == ASSUME Inv, PublishRecovery PROVE Inv'
  <1>1. open = {} /\ nat # Torn /\ ~reg.owned /\ nat \in Counters /\ Run \in Runs
    BY PhaseTypes DEF Inv, FenceTypeOK, LaneOK, PublishRecovery, At, Quiet, Recovered, Run
  <1>2. nat.counter \in Nat
    BY <1>1 DEF Counters
  <1>3. /\ closed' \in [Runs -> Natives]
        /\ \A r \in Runs : closed'[r] \in {closed[r], nat.counter}
    BY <1>1, <1>2 DEF Inv, FenceTypeOK, PublishRecovery, Natives
  <1>4. pub' \in [Runs -> BOOLEAN]
    BY DEF Inv, FenceTypeOK, PublishRecovery
  <1>5. FenceTypeOK'
    BY <1>3, <1>4 DEF Inv, FenceTypeOK, PublishRecovery, Steps
  <1>6. CounterIsLatest'
    BY <1>2, <1>3, SMTT(30) DEF Inv, CounterIsLatest, PublishRecovery
  <1> QED BY <1>1, <1>5, <1>6 DEF Inv, PublishRecovery, At, DeadHoldsNothing, OpenIsFenced,
       OwnedIsLatest, LaneOK, HandoffIsEarned, Quiet, Claiming, Recovering, Recovered

LEMMA CrashInv == ASSUME Inv, Crash PROVE Inv'
  <1>1. /\ rec' \in {rec, Torn} /\ nat' \in {nat, Torn}
        /\ alive' = FALSE /\ pc' = "idle" /\ fence' = NoFence /\ reg' = EmptyRegistry
        /\ UNCHANGED <<sel, phases, closed, release, made, pub, proc, open>>
    BY DEF Crash, CutShort
  <1>2. comps' \in [Runs -> [owner : {0} \cup Procs, orig : Records, cur : Records,
                             broken : BOOLEAN]]
    <2>1. Run \in Runs
      BY PhaseTypes DEF Inv, FenceTypeOK, Run
    <2>2. PICK cut \in {FALSE} \cup {pc \in CompanionSteps \cup StampSteps} :
             comps' = [comps EXCEPT ![Run].broken = @ \/ cut]
      BY DEF Crash
    <2>3. (comps[Run].broken \/ cut) \in BOOLEAN
      BY <2>2
    <2>4. [comps[Run] EXCEPT !.broken = comps[Run].broken \/ cut]
             \in [owner : {0} \cup Procs, orig : Records, cur : Records, broken : BOOLEAN]
      BY <2>1, <2>3, SMTT(30) DEF Inv, FenceTypeOK
    <2>5. comps' = [comps EXCEPT ![Run] =
                      [comps[Run] EXCEPT !.broken = comps[Run].broken \/ cut]]
      BY <2>2
    <2> QED BY <2>1, <2>4, <2>5 DEF Inv, FenceTypeOK
  <1>3. fence' \in FenceType /\ ~fence'.recoveryOnly
    BY <1>1, Constants DEF NoFence, FenceType
  <1>4. /\ reg' \in [cap : Natives, prior : {0} \cup Runs, owned : BOOLEAN]
        /\ ~reg'.owned /\ reg'.cap = 0
    BY <1>1 DEF EmptyRegistry, Natives
  <1>5. FenceTypeOK'
    <2>1. rec' \in Records \cup {Torn} /\ nat' \in Counters \cup {Torn}
      BY <1>1 DEF Inv, FenceTypeOK
    <2> QED BY <1>1, <1>2, <1>3, <1>4, <2>1 DEF Inv, FenceTypeOK, FenceType, Steps
  <1>6. CounterIsLatest'
    <2>1. CASE nat' = nat /\ nat # Torn
      <3>1. 0 <= nat.counter
        BY <2>1, SMTT(30) DEF Inv, FenceTypeOK, Counters
      <3> QED BY <1>1, <1>4, <2>1, <3>1 DEF Inv, CounterIsLatest
    <2> QED BY <1>1, <2>1 DEF CounterIsLatest
  <1>7. OpenIsFenced' /\ OwnedIsLatest' /\ DeadHoldsNothing' /\ HandoffIsEarned'
    BY <1>1, <1>4 DEF Inv, OpenIsFenced, OwnedIsLatest, DeadHoldsNothing, HandoffIsEarned
  <1>8. LaneOK'
    BY <1>1 DEF LaneOK, Quiet, Claiming, Recovering, Recovered
  <1> QED BY <1>5, <1>6, <1>7, <1>8 DEF Inv

LEMMA NextInv == Inv /\ [FenceNext]_fenceVars => Inv'
  <1> SUFFICES ASSUME Inv, [FenceNext]_fenceVars PROVE Inv'
    OBVIOUS
  <1>1. CASE UNCHANGED fenceVars
    BY <1>1 DEF fenceVars, disk, Inv, FenceTypeOK, DeadHoldsNothing, OpenIsFenced, OwnedIsLatest,
       CounterIsLatest, LaneOK, HandoffIsEarned, Pending
  <1>2. CASE Acquire \/ WriteRecord \/ WriteCompanion \/ StampCompanion \/ Bind
    BY <1>2, AcquireInv, WriteRecordInv, WriteCompanionInv, StampCompanionInv, BindInv
  <1>3. CASE BeforeRuntimeEffects \/ Claim \/ CloseWhole
    BY <1>3, BeforeRuntimeEffectsInv, ClaimInv, CloseWholeInv
  <1>4. CASE BeforeNativeAbsenceRetirement \/ RetireNeverClaimed \/ Publish
    BY <1>4, BeforeNativeAbsenceRetirementInv, RetireNeverClaimedInv, PublishInv
  <1>5. CASE \E r \in Runs : SelectRun(r)
    BY <1>5, SelectRunInv
  <1>6. CASE PrepareRecovery \/ RetireCold \/ RetainDecision \/ PublishRecovery \/ Crash
    BY <1>6, PrepareRecoveryInv, RetireColdInv, RetainDecisionInv, PublishRecoveryInv, CrashInv
  <1> QED BY <1>1, <1>2, <1>3, <1>4, <1>5, <1>6 DEF FenceNext

LEMMA SpecInv == FenceSpec => []Inv
  BY InitInv, NextInv, PTL DEF FenceSpec

-----------------------------------------------------------------------------
\* Every file and every variable of the fence keeps its type.
THEOREM TypesHold == FenceSpec => []FenceTypeOK
  <1>1. Inv => FenceTypeOK
    BY DEF Inv
  <1> QED BY <1>1, SpecInv, PTL

\* A record that reads clear means that no executor left effects behind, whatever
\* is killed or torn and whoever writes next (afterVerifiedWholeProductCleanup,
\* finishColdRecovery).
THEOREM ClearIsAPromise == FenceSpec => []ClearMeansClosed
  <1>1. Inv => ClearMeansClosed
    BY DEF Inv, OpenIsFenced, FenceTypeOK, Records, Phases, ClearMeansClosed
  <1> QED BY <1>1, SpecInv, PTL

\* A published closure, and one that a later run was made from, names an executor
\* whose effects ended (closedHandoff, latestWholeHandoff).
THEOREM HandoffsAreEarned == FenceSpec => []HandoffIsEarned
  <1>1. Inv => HandoffIsEarned
    BY DEF Inv
  <1> QED BY <1>1, SpecInv, PTL

\* The native side allocates an executor only when every earlier one was closed
\* or retired (claim_inner).
THEOREM ExecutorsDoNotOverlap == FenceSpec => OneExecutorAtATime
  <1>1. Inv /\ [FenceNext]_fenceVars => [open' \ open # {} => open = {}]_fenceVars
    <2> SUFFICES ASSUME Inv, FenceNext, open' \ open # {} PROVE open = {}
      OBVIOUS
    <2>1. Claim
      BY DEF FenceNext, Acquire, WriteRecord, WriteCompanion, StampCompanion, Bind,
         BeforeRuntimeEffects, CloseWhole, BeforeNativeAbsenceRetirement, RetireNeverClaimed,
         Publish, SelectRun, PrepareRecovery, RetireCold, RetainDecision, PublishRecovery, Crash
    <2> QED BY <2>1 DEF Claim, At, Inv, LaneOK, Quiet, Claiming
  <1> QED BY <1>1, SpecInv, PTL DEF FenceSpec, OneExecutorAtATime

\* A generation of the native counter is never used twice (allocate and
\* retire_cold_pending_local keep the counter).
THEOREM GenerationsAreNotReused == FenceSpec => CounterOnlyGrows
  <1>1. Inv /\ [FenceNext]_fenceVars =>
           [nat # Torn /\ nat' # Torn => nat'.counter >= nat.counter]_fenceVars
    <2> SUFFICES ASSUME Inv, FenceNext, nat # Torn, nat' # Torn PROVE nat'.counter >= nat.counter
      OBVIOUS
    <2>1. nat \in Counters /\ nat.counter \in Nat
      BY DEF Inv, FenceTypeOK, Counters
    <2>2. CASE Claim
      BY <2>1, <2>2, SMTT(30) DEF Claim
    <2>3. CASE RetireCold
      BY <2>1, <2>3, SMTT(30) DEF RetireCold, Counters
    <2>4. CASE nat' = nat
      BY <2>1, <2>4, SMTT(30)
    <2>5. Claim \/ RetireCold \/ nat' = nat
      BY DEF FenceNext, Acquire, WriteRecord, WriteCompanion, StampCompanion, Bind, disk,
         BeforeRuntimeEffects, CloseWhole, BeforeNativeAbsenceRetirement, RetireNeverClaimed,
         Publish, SelectRun, PrepareRecovery, RetainDecision, PublishRecovery, Crash, CutShort
    <2> QED BY <2>2, <2>3, <2>4, <2>5
  <1> QED BY <1>1, SpecInv, PTL DEF FenceSpec, CounterOnlyGrows

\* Effects end by the process that owns them, or by a later one once the process
\* that owns the counter is another (OldOwnerIsDead, retire_cold_pending_local).
THEOREM EffectsEndByRight == FenceSpec => EndsByOwnerOrAfterDeath
  <1>1. Inv /\ [FenceNext]_fenceVars =>
           [\A n \in open \ open' :
              nat.counter = n /\ IF fence.recoveryOnly THEN nat.owner # proc
                                 ELSE reg.cap = n]_fenceVars
    <2> SUFFICES ASSUME Inv, FenceNext, NEW n \in open \ open'
                 PROVE  nat.counter = n /\ IF fence.recoveryOnly THEN nat.owner # proc
                                           ELSE reg.cap = n
      OBVIOUS
    <2>1. CASE CloseWhole
      BY <2>1 DEF CloseWhole, Inv, OwnedIsLatest, CounterIsLatest
    <2>2. CASE RetireCold
      BY <2>2 DEF RetireCold, At, Inv, LaneOK, CounterIsLatest, Recovering
    <2>3. CloseWhole \/ RetireCold
      BY DEF FenceNext, Acquire, WriteRecord, WriteCompanion, StampCompanion, Bind,
         BeforeRuntimeEffects, Claim, BeforeNativeAbsenceRetirement, RetireNeverClaimed,
         Publish, SelectRun, PrepareRecovery, RetainDecision, PublishRecovery, Crash
    <2> QED BY <2>1, <2>2, <2>3
  <1> QED BY <1>1, SpecInv, PTL DEF FenceSpec, EndsByOwnerOrAfterDeath

-----------------------------------------------------------------------------
(***************************************************************************)
(* Effects stay recoverable.  The claim leaves the run's companion, the    *)
(* counter and the record in agreement.  From then on none of the three    *)
(* moves without the effects ending, but for the record, which every later *)
(* process overwrites after retaining what it found.                       *)
(***************************************************************************)
\* What the lane of a process that may claim has established about its run.
BoundToRun ==
    /\ 0 \notin open
    /\ alive => sel = Run /\ rec # Torn
    /\ alive /\ fence.bound /\ pc \notin {"bind", "finish_rec", "finish_comp"} =>
          comps[Run].owner = proc
    /\ pc \in Claiming => fence.bound
    /\ pc = "claim" => comps[Run].cur = fence.mem
    /\ pc \in {"enter_rec", "bind"} => open = {} \/ nat = Torn

\* The last owner is still named: its companion and the counter agree, the record
\* on disk is its own or a later one of the same run, and its own is retained.
OwnerIsNamed ==
    /\ comps[nat.app.run].owner = nat.owner /\ comps[nat.app.run].cur = nat.app
    /\ nat.owner \in 1..proc
    /\ rec.run = nat.app.run /\ sel = nat.app.run
    /\ rec = nat.app \/ (nat.app \in phases[sel] /\ nat.app.gen < rec.gen)
    /\ alive /\ reg.owned => /\ nat.owner = proc /\ fence.mem = nat.app /\ rec = nat.app
                             /\ pc = "idle" /\ fence.bound
    /\ alive /\ ~reg.owned => /\ nat.owner # proc /\ nat.app \in phases[sel]
                              /\ fence.acq.phase = "pending"
                              /\ fence.acq.gen < fence.mem.gen
                              /\ fence.acq = nat.app \/ nat.app.gen < fence.acq.gen

Named == open # {} /\ rec # Torn /\ nat # Torn => OwnerIsNamed

NamedInv == BoundToRun /\ Named

\* The facts of the fence that every step below uses.
LEMMA FenceFacts ==
    ASSUME Inv
    PROVE  /\ Run \in Runs /\ sel \in Runs /\ proc \in Procs /\ proc \in Nat
           /\ fence.mem \in Records /\ fence.acq \in Records
           /\ fence.mem.gen \in Nat /\ fence.acq.gen \in Nat
           /\ rec # Torn => rec \in Records /\ rec.gen \in Nat /\ rec.run \in Runs
           /\ nat # Torn => /\ nat \in Counters /\ nat.app \in Records
                            /\ nat.app.run \in Runs /\ nat.app.gen \in Nat
  <1>1. \A r \in Records : r.gen \in Nat /\ r.run \in Runs
    BY Constants, SMTT(30) DEF Records, Gens
  <1>2. fence.mem \in Records /\ fence.acq \in Records /\ sel \in Runs /\ proc \in Procs
    BY DEF Inv, FenceTypeOK
  <1>3. proc \in Nat
    BY <1>2, Constants, SMTT(30) DEF Procs
  <1>4. nat # Torn => nat \in Counters /\ nat.app \in Records
    BY DEF Inv, FenceTypeOK, Counters
  <1>5. rec # Torn => rec \in Records
    BY DEF Inv, FenceTypeOK
  <1> QED BY <1>1, <1>2, <1>3, <1>4, <1>5 DEF Run

\* A step that ends or finds no effects has nothing to keep named.
LEMMA NothingToName ==
    ASSUME open' = {}
    PROVE  Named'
  BY DEF Named

\* A new process retains the pending record it found.
LEMMA AcquireNamed == ASSUME Inv, NamedInv, Acquire PROVE NamedInv'
  <1>1. /\ fence' = [mem |-> [rec EXCEPT !.gen = @ + 1], acq |-> rec,
                     recoveryOnly |-> (rec.phase = "pending"), bound |-> FALSE]
        /\ pc' = "acquire" /\ reg' = EmptyRegistry /\ reg' = reg
    BY Zenon DEF Acquire, NoFence, Inv, DeadHoldsNothing
  <1>2. rec \in Records /\ rec.run = sel /\ rec.gen \in Nat /\ rec # Torn
    BY FenceFacts DEF Acquire
  <1>3. [rec EXCEPT !.gen = @ + 1].run = rec.run /\ [rec EXCEPT !.gen = @ + 1].gen = rec.gen + 1
    BY <1>2 DEF Records
  <1>4. /\ fence'.mem.run = sel /\ fence'.mem.gen = rec.gen + 1 /\ fence'.acq = rec
        /\ ~fence'.bound
    BY <1>1, <1>2, <1>3, Zenon
  <1>5. BoundToRun'
    BY <1>1, <1>2, <1>4 DEF NamedInv, BoundToRun, Acquire, Run, Claiming
  <1>6. ASSUME open # {}, nat # Torn PROVE OwnerIsNamed'
    <2>1. rec.phase = "pending" /\ OwnerIsNamed
      BY <1>2, <1>6 DEF Inv, OpenIsFenced, NamedInv, Named
    <2>2. /\ rec \in phases'[sel] /\ phases[sel] \subseteq phases'[sel] /\ sel' = sel
      BY <2>1, FenceFacts DEF Acquire, Inv, FenceTypeOK
    <2>3. nat.app \in phases'[sel]
      BY <2>1, <2>2 DEF OwnerIsNamed
    <2>4. nat.owner # proc' /\ nat.owner \in 1..proc'
      <3>1. nat.owner \in 1..proc /\ proc' = proc + 1 /\ proc \in Nat
        BY <2>1, FenceFacts DEF OwnerIsNamed, Acquire
      <3> QED BY <3>1, SMTT(30)
    <2>5. fence'.acq.gen < fence'.mem.gen
      BY <1>2, <1>4, SMTT(30)
    <2>6. ~reg'.owned
      BY <1>1, SMTT(30) DEF EmptyRegistry
    <2> QED BY <1>4, <2>1, <2>2, <2>3, <2>4, <2>5, <2>6 DEF OwnerIsNamed, Acquire
  <1> QED BY <1>5, <1>6 DEF NamedInv, Named, Acquire

\* The record is overwritten after it was retained.
LEMMA WriteRecordNamed == ASSUME Inv, NamedInv, WriteRecord PROVE NamedInv'
  <1>1. /\ alive /\ pc \in RecordSteps /\ rec' = fence.mem /\ pc' = After[pc]
        /\ UNCHANGED <<sel, comps, phases, nat, proc, alive, fence, reg, open>>
    BY DEF WriteRecord
  <1>2. /\ pc' \in Claiming => pc \in Claiming
        /\ pc' # "claim" /\ pc' # "enter_rec" /\ pc' # "bind" /\ pc' # "finish_rec"
        /\ pc' = "finish_comp" <=> pc = "finish_rec"
        /\ pc # "bind" /\ pc # "finish_comp"
    BY <1>1, SMTT(30) DEF After, RecordSteps, Claiming
  <1>3. BoundToRun'
    <2>1. fence.mem # Torn
      BY TornIsNeither, FenceFacts
    <2> QED BY <1>1, <1>2, <2>1 DEF NamedInv, BoundToRun, Run
  <1>4. ASSUME open # {}, nat # Torn PROVE OwnerIsNamed'
    <2>1. pc = "acquire" \/ open = {}
      BY <1>1, <1>4 DEF Inv, LaneOK, NamedInv, BoundToRun, RecordSteps, Quiet, Claiming, Recovered
    <2>2. OwnerIsNamed
      BY <1>1, <1>4 DEF NamedInv, Named, BoundToRun
    <2>3. ~reg.owned /\ sel = Run
      BY <1>1, <1>4, <2>1, <2>2 DEF OwnerIsNamed, NamedInv, BoundToRun
    <2>4. nat.app \in phases[sel] /\ nat.app.gen < fence.mem.gen
      BY <1>1, <1>4, <2>2, <2>3, FenceFacts, SMTT(30) DEF OwnerIsNamed
    <2> QED BY <1>1, <2>2, <2>3, <2>4 DEF OwnerIsNamed, Run
  <1> QED BY <1>1, <1>3, <1>4 DEF NamedInv, Named

\* A companion is rewritten only where no effect is open; its owner stays.
LEMMA WriteCompanionNamed == ASSUME Inv, NamedInv, WriteCompanion PROVE NamedInv'
  <1>1. /\ alive /\ pc \in CompanionSteps /\ pc' = After[pc]
        /\ comps' = [comps EXCEPT ![Run].cur = fence.mem]
        /\ UNCHANGED <<rec, sel, phases, nat, proc, alive, fence, reg, open>>
    BY DEF WriteCompanion
  <1>2. /\ pc' \in Claiming => pc \in Claiming
        /\ pc' \notin {"enter_rec", "bind", "finish_rec", "finish_comp"}
        /\ pc \notin {"bind", "finish_rec", "finish_comp"}
        /\ pc \in Quiet
    BY <1>1, SMTT(30) DEF After, CompanionSteps, Claiming, Quiet
  <1>3. comps'[Run].owner = comps[Run].owner /\ comps'[Run].cur = fence.mem
    BY <1>1, FenceFacts DEF Inv, FenceTypeOK
  <1>4. BoundToRun'
    BY <1>1, <1>2, <1>3 DEF NamedInv, BoundToRun, Run
  <1>5. open' = {}
    BY <1>1, <1>2 DEF Inv, LaneOK
  <1> QED BY <1>4, <1>5, NothingToName DEF NamedInv

\* A companion that named the last owner is never stamped over.
LEMMA StampCompanionNamed == ASSUME Inv, NamedInv, StampCompanion PROVE NamedInv'
  <1>1. /\ alive /\ pc \in StampSteps /\ pc' = After[pc]
        /\ comps' = [comps EXCEPT ![Run] =
             [owner |-> proc, orig |-> fence.mem, cur |-> fence.mem, broken |-> FALSE]]
        /\ UNCHANGED <<rec, sel, phases, nat, proc, alive, fence, reg, open>>
    BY DEF StampCompanion
  <1>2. pc' \in {"idle", "joined"} /\ (pc = "bind" \/ pc \in Quiet)
    <2>1. After["bind"] = "idle" /\ After["finish_comp"] = "joined"
      BY DEF After
    <2> QED BY <1>1, <2>1 DEF StampSteps, Quiet, Recovered
  <1>3. comps'[Run].owner = proc
    BY <1>1, FenceFacts DEF Inv, FenceTypeOK
  <1>4. BoundToRun'
    BY <1>1, <1>2, <1>3 DEF NamedInv, BoundToRun, Run, Claiming
  <1>5. open = {} \/ nat = Torn
    BY <1>1, <1>2 DEF Inv, LaneOK, NamedInv, BoundToRun
  <1> QED BY <1>1, <1>4, <1>5 DEF NamedInv, Named

\* A run whose companion names the last owner is not bound again.
LEMMA BindNamed == ASSUME Inv, NamedInv, Bind PROVE NamedInv'
  <1>1. /\ alive /\ pc = "idle" /\ ~fence.bound /\ ~Present(comps[Run]) /\ pc' = "bind"
        /\ UNCHANGED <<rec, sel, comps, phases, nat, proc, alive, reg, open>>
        /\ fence'.mem = fence.mem /\ fence'.acq = fence.acq
    BY DEF Bind, At, disk, Inv, FenceTypeOK
  <1>2. ASSUME open # {}, nat # Torn PROVE FALSE
    <2>1. OwnerIsNamed /\ sel = Run
      BY <1>1, <1>2 DEF NamedInv, Named, BoundToRun
    <2>2. comps[Run].owner \in 1..proc
      BY <2>1 DEF OwnerIsNamed
    <2>3. comps[Run].owner = 0
      BY <1>1, SMTT(30) DEF Present, NoCompanion
    <2> QED BY <2>2, <2>3, FenceFacts, SMTT(30)
  <1>3. open = {} \/ nat = Torn
    BY <1>2
  <1>4. BoundToRun'
    BY <1>1, <1>3 DEF NamedInv, BoundToRun, Run, Claiming
  <1> QED BY <1>1, <1>3, <1>4 DEF NamedInv, Named

\* A claim is prepared by a bound process.
LEMMA BeforeRuntimeEffectsNamed == ASSUME Inv, NamedInv, BeforeRuntimeEffects PROVE NamedInv'
  <1>1. /\ alive /\ pc = "idle" /\ fence.bound /\ ~Pending /\ pc' = "pending_rec"
        /\ fence' = [fence EXCEPT !.mem = AsPending(@)]
        /\ UNCHANGED <<rec, sel, comps, phases, nat, proc, alive, reg, open>>
    BY DEF BeforeRuntimeEffects, At, disk
  <1>2. fence'.mem.run = fence.mem.run /\ fence'.bound
    BY <1>1, PhaseTypes, Zenon DEF Inv, FenceTypeOK
  <1>3. open' = {}
    BY <1>1 DEF Inv, OpenIsFenced
  <1>4. BoundToRun'
    BY <1>1, <1>2 DEF NamedInv, BoundToRun, Run
  <1> QED BY <1>3, <1>4, NothingToName DEF NamedInv

\* The claim itself: record, companion and counter name this process.
LEMMA ClaimNamed == ASSUME Inv, NamedInv, Claim PROVE NamedInv'
  <1>1. /\ alive /\ pc = "claim" /\ nat # Torn /\ pc' = "idle"
        /\ UNCHANGED <<rec, sel, comps, phases, proc, alive, fence>>
    BY DEF Claim, At
  <1>2. /\ rec = fence.mem /\ open = {} /\ fence.bound /\ sel = Run
        /\ comps[Run].owner = proc /\ comps[Run].cur = fence.mem
    BY <1>1 DEF Inv, LaneOK, NamedInv, BoundToRun, Quiet, Claiming
  <1>3. CASE Eligible
    <2>1. /\ nat' = [counter |-> nat.counter + 1, app |-> fence.mem, owner |-> proc,
                     retired |-> FALSE]
          /\ reg' = [cap |-> nat.counter + 1, prior |-> Run, owned |-> TRUE]
          /\ open' = {nat.counter + 1}
      BY <1>2, <1>3 DEF Claim
    <2>2. nat'.app = fence.mem /\ nat'.owner = proc /\ reg'.owned
      BY <2>1
    <2>3. nat.counter + 1 # 0
      BY <1>1, FenceFacts, SMTT(30) DEF Counters, Natives
    <2>4. proc \in 1..proc
      BY FenceFacts, Constants, SMTT(30) DEF Procs
    <2>5. OwnerIsNamed'
      BY <1>1, <1>2, <2>2, <2>4 DEF OwnerIsNamed, Run
    <2>6. BoundToRun'
      BY <1>1, <1>2, <2>1, <2>3 DEF NamedInv, BoundToRun, Run, Claiming
    <2> QED BY <2>5, <2>6 DEF NamedInv, Named
  <1>4. CASE ~Eligible
    <2>1. open' = {}
      BY <1>2, <1>4 DEF Claim
    <2>2. BoundToRun'
      BY <1>1, <1>2, <2>1 DEF NamedInv, BoundToRun, Run, Claiming
    <2> QED BY <2>1, <2>2, NothingToName DEF NamedInv
  <1> QED BY <1>3, <1>4

\* A whole close ends the only effects there are.
LEMMA CloseWholeNamed == ASSUME Inv, NamedInv, CloseWhole PROVE NamedInv'
  <1>1. /\ alive /\ pc = "idle" /\ reg.owned /\ pc' = "clear_rec" /\ open' = open \ {reg.cap}
        /\ fence' = [fence EXCEPT !.mem = AsClear(@)]
        /\ UNCHANGED <<rec, sel, comps, phases, nat, proc, alive>>
    BY DEF CloseWhole, At, disk
  <1>2. fence'.mem.run = fence.mem.run /\ fence'.bound = fence.bound
    BY <1>1, PhaseTypes, Zenon DEF Inv, FenceTypeOK
  <1>3. open' = {}
    BY <1>1 DEF Inv, OwnedIsLatest, CounterIsLatest
  <1>4. BoundToRun'
    BY <1>1, <1>2, <1>3 DEF NamedInv, BoundToRun, Run, Claiming
  <1> QED BY <1>3, <1>4, NothingToName DEF NamedInv

\* A process that never claimed finds no effects when it may do more than recover.
LEMMA BeforeNativeAbsenceRetirementNamed ==
    ASSUME Inv, NamedInv, BeforeNativeAbsenceRetirement PROVE NamedInv'
  <1>1. /\ alive /\ pc = "idle" /\ ~fence.recoveryOnly /\ reg.prior = 0
        /\ pc' \in {"absence", "absence_rec"}
        /\ fence' = [fence EXCEPT !.mem = AsPending(@)]
        /\ UNCHANGED <<rec, sel, comps, phases, nat, proc, alive, reg, open>>
    BY DEF BeforeNativeAbsenceRetirement, At, disk
  <1>2. fence'.mem.run = fence.mem.run /\ fence'.bound = fence.bound
    BY <1>1, PhaseTypes, Zenon DEF Inv, FenceTypeOK
  <1>3. open' = {}
    BY <1>1 DEF Inv, OpenIsFenced, OwnedIsLatest
  <1>4. BoundToRun'
    BY <1>1, <1>2 DEF NamedInv, BoundToRun, Run, Claiming
  <1> QED BY <1>3, <1>4, NothingToName DEF NamedInv

\* The absent executor leaves nothing open either.
LEMMA RetireNeverClaimedNamed == ASSUME Inv, NamedInv, RetireNeverClaimed PROVE NamedInv'
  <1>1. /\ alive /\ pc = "absence" /\ pc' = "clear_rec"
        /\ fence' = [fence EXCEPT !.mem = AsClear(@)]
        /\ UNCHANGED <<rec, sel, comps, phases, nat, proc, alive, open>>
    BY DEF RetireNeverClaimed, At, disk
  <1>2. fence'.mem.run = fence.mem.run /\ fence'.bound = fence.bound
    BY <1>1, PhaseTypes, Zenon DEF Inv, FenceTypeOK
  <1>3. open' = {}
    BY <1>1 DEF Inv, LaneOK, Quiet
  <1>4. BoundToRun'
    BY <1>1, <1>2 DEF NamedInv, BoundToRun, Run, Claiming
  <1> QED BY <1>3, <1>4, NothingToName DEF NamedInv

\* Publishing touches neither the companion nor the lane's run.
LEMMA PublishNamed == ASSUME Inv, NamedInv, Publish \/ PublishRecovery PROVE NamedInv'
  <1>1. /\ alive /\ pc \in {"publish", "joined"} /\ pc' = "idle"
        /\ UNCHANGED <<rec, sel, comps, phases, nat, proc, alive, fence, reg, open>>
    BY DEF Publish, PublishRecovery, At
  <1>2. open' = {}
    BY <1>1 DEF Inv, LaneOK, Quiet, Recovered
  <1>3. BoundToRun'
    BY <1>1 DEF NamedInv, BoundToRun, Run, Claiming
  <1> QED BY <1>2, <1>3, NothingToName DEF NamedInv

\* Another run is selected only with a clear fence.
LEMMA SelectRunNamed == ASSUME Inv, NamedInv, NEW r \in Runs, SelectRun(r) PROVE NamedInv'
  <1>1. /\ alive /\ ~Pending /\ pc' = "select_rec" /\ sel' = r
        /\ fence' = [mem |-> [gen |-> fence.mem.gen + 1, run |-> r, phase |-> "clear"],
                     acq |-> NoRecord, recoveryOnly |-> FALSE, bound |-> FALSE]
        /\ UNCHANGED <<rec, open, alive>>
    BY Zenon DEF SelectRun, At, NoFence
  <1>2. fence'.mem.run = r /\ ~fence'.bound
    BY <1>1
  <1>3. open' = {}
    BY <1>1 DEF Inv, OpenIsFenced
  <1>4. BoundToRun'
    BY <1>1, <1>2, <1>3 DEF NamedInv, BoundToRun, Run, Claiming
  <1> QED BY <1>3, <1>4, NothingToName DEF NamedInv

\* A recovery of open effects is prepared in memory alone.
LEMMA PrepareRecoveryNamed == ASSUME Inv, NamedInv, PrepareRecovery PROVE NamedInv'
  <1>1. /\ alive /\ pc = "idle" /\ reg = EmptyRegistry
        /\ fence' = [fence EXCEPT !.mem = AsPending(@), !.recoveryOnly = TRUE]
        /\ pc' = IF fence.recoveryOnly THEN "retire" ELSE "enter_rec"
        /\ UNCHANGED <<rec, sel, comps, phases, nat, proc, alive, reg, open>>
    BY DEF PrepareRecovery, Recoverable, At, disk
  <1>2. /\ fence'.mem = AsPending(fence.mem) /\ fence'.bound = fence.bound
        /\ fence'.acq = fence.acq
    BY <1>1 DEF Inv, FenceTypeOK
  <1>3. fence'.mem.run = fence.mem.run /\ fence'.mem.gen = fence.mem.gen
    BY <1>2, FenceFacts DEF AsPending, Records
  <1>4. ~reg.owned /\ (fence.recoveryOnly \/ open = {})
    BY <1>1 DEF EmptyRegistry, Inv, OpenIsFenced
  <1>5. BoundToRun'
    BY <1>1, <1>2, <1>3, <1>4 DEF NamedInv, BoundToRun, Run, Claiming
  <1>6. OwnerIsNamed => OwnerIsNamed'
    BY <1>1, <1>2, <1>3, <1>4 DEF OwnerIsNamed
  <1> QED BY <1>1, <1>5, <1>6 DEF NamedInv, Named

\* The retirement accounts for the effects of the old owner.
LEMMA RetireColdNamed == ASSUME Inv, NamedInv, RetireCold PROVE NamedInv'
  <1>1. /\ alive /\ pc = "retire" /\ pc' = "active" /\ open' = open \ {nat.counter}
        /\ UNCHANGED <<rec, sel, comps, phases, proc, alive, fence>>
    BY DEF RetireCold, At
  <1>2. open' = {}
    BY <1>1 DEF Inv, LaneOK, CounterIsLatest, Recovering
  <1>3. BoundToRun'
    BY <1>1, <1>2 DEF NamedInv, BoundToRun, Run, Claiming
  <1> QED BY <1>2, <1>3, NothingToName DEF NamedInv

\* The decision is retained after the effects ended.
LEMMA RetainDecisionNamed == ASSUME Inv, NamedInv, RetainDecision PROVE NamedInv'
  <1>1. /\ alive /\ pc = "active" /\ pc' = "finish_rec"
        /\ fence' = [fence EXCEPT !.mem = AsClear(@), !.recoveryOnly = FALSE, !.bound = TRUE]
        /\ UNCHANGED <<rec, sel, comps, open, alive>>
    BY DEF RetainDecision, At
  <1>2. fence'.mem.run = fence.mem.run
    BY <1>1, PhaseTypes, Zenon DEF Inv, FenceTypeOK
  <1>3. open' = {}
    BY <1>1 DEF Inv, LaneOK, Quiet, Recovered
  <1>4. BoundToRun'
    BY <1>1, <1>2, <1>3 DEF NamedInv, BoundToRun, Run, Claiming
  <1> QED BY <1>3, <1>4, NothingToName DEF NamedInv

\* A kill may tear the record or the counter and break the companion it was
\* writing, but it changes no name in them.
LEMMA CrashNamed == ASSUME Inv, NamedInv, Crash PROVE NamedInv'
  <1>1. /\ rec' \in {rec, Torn} /\ nat' \in {nat, Torn}
        /\ ~alive' /\ pc' = "idle"
        /\ UNCHANGED <<sel, phases, proc, open>>
    BY DEF Crash, CutShort
  <1>2. \A r \in Runs : comps'[r].owner = comps[r].owner /\ comps'[r].cur = comps[r].cur
    <2>1. PICK cut \in {FALSE} \cup {pc \in CompanionSteps \cup StampSteps} :
                 comps' = [comps EXCEPT ![Run].broken = @ \/ cut]
      BY DEF Crash
    <2> QED BY <2>1 DEF Inv, FenceTypeOK
  <1>3. BoundToRun'
    BY <1>1 DEF NamedInv, BoundToRun, Claiming
  <1>4. ASSUME open # {}, rec' # Torn, nat' # Torn PROVE OwnerIsNamed'
    <2>1. rec' = rec /\ nat' = nat
      BY <1>1, <1>4
    <2>2. OwnerIsNamed /\ nat.app.run \in Runs
      BY <1>4, <2>1, FenceFacts DEF NamedInv, Named
    <2> QED BY <1>1, <1>2, <2>1, <2>2 DEF OwnerIsNamed
  <1> QED BY <1>1, <1>3, <1>4 DEF NamedInv, Named

\* Named effects at an idle lane are recoverable.
LEMMA NamedIsRecoverable == Inv /\ NamedInv => EffectsAreRecoverable
  <1> SUFFICES ASSUME Inv, NamedInv, At("idle"), open # {}, reg = EmptyRegistry, Intact
               PROVE  Recoverable
    BY DEF EffectsAreRecoverable
  <1>1. rec # Torn /\ nat # Torn /\ (\A r \in Runs : ~comps[r].broken)
    BY DEF Intact
  <1>2. OwnerIsNamed /\ alive /\ ~reg.owned /\ sel = Run
    BY <1>1 DEF NamedInv, Named, BoundToRun, At, EmptyRegistry
  <1>3. fence.recoveryOnly
    BY <1>2 DEF Inv, OpenIsFenced
  <1>4. nat.counter > 0
    <2> DEFINE c == nat.counter
    <2>1. open \subseteq {c} /\ 0 \notin open
      BY <1>1 DEF Inv, CounterIsLatest, NamedInv, BoundToRun
    <2>2. c \in Nat
      BY <1>1, FenceFacts DEF Counters
    <2> HIDE DEF c
    <2>3. c # 0
      BY <2>1
    <2>4. c > 0
      BY <2>2, <2>3, SMTT(30)
    <2> QED BY <2>4 DEF c
  <1>5. Present(comps[Run])
    <2>1. comps[Run].owner # 0
      BY <1>2, FenceFacts, SMTT(30) DEF OwnerIsNamed
    <2> QED BY <2>1, SMTT(30) DEF Present, NoCompanion
  <1>6. fence.acq # NoRecord
    BY <1>2, SMTT(30) DEF OwnerIsNamed, NoRecord
  <1>7. SelectedWitness
    BY <1>1, <1>2, <1>5, <1>6, FenceFacts DEF OwnerIsNamed, SelectedWitness
  <1>8. OldOwnerIsDead
    BY <1>1, <1>2, <1>5, FenceFacts, SMTT(30) DEF OwnerIsNamed, OldOwnerIsDead, Witness
  <1> QED BY <1>1, <1>3, <1>4, <1>7, <1>8 DEF Recoverable, Witnessed

\* Every step keeps the last owner named.
LEMMA NamedStep == ASSUME Inv, NamedInv, [FenceNext]_fenceVars PROVE NamedInv'
  <1>1. CASE UNCHANGED fenceVars
    BY <1>1 DEF fenceVars, disk, NamedInv, Named, BoundToRun, OwnerIsNamed, Run
  <1>2. CASE FenceNext
    BY <1>2, AcquireNamed, WriteRecordNamed, WriteCompanionNamed, StampCompanionNamed,
       BindNamed, BeforeRuntimeEffectsNamed, ClaimNamed, CloseWholeNamed,
       BeforeNativeAbsenceRetirementNamed, RetireNeverClaimedNamed, PublishNamed,
       SelectRunNamed, PrepareRecoveryNamed, RetireColdNamed, RetainDecisionNamed, CrashNamed,
       Zenon DEF FenceNext
  <1> QED BY <1>1, <1>2

\* No sequence of kills leaves effects that no later process may account for: as
\* long as what is on disk reads whole, a process that finds the effects of a dead
\* one passes every check of the cold recovery (prepareColdRecovery).
THEOREM EffectsCanBeRecovered == FenceSpec => []EffectsAreRecoverable
  <1>1. FenceInit => NamedInv
    <2> SUFFICES ASSUME FenceInit PROVE NamedInv
      OBVIOUS
    <2>1. fence.mem = rec /\ ~fence.bound /\ rec.run = 1
      BY DEF FenceInit, NoFence
    <2>2. rec # Torn
      BY InitInv, TornIsNeither DEF Inv, FenceTypeOK, FenceInit, Records
    <2> QED BY <2>1, <2>2 DEF FenceInit, NamedInv, Named, BoundToRun, Run, Claiming
  <1>2. Inv /\ NamedInv /\ [FenceNext]_fenceVars => NamedInv'
    BY NamedStep
  <1>3. Inv /\ NamedInv => EffectsAreRecoverable
    BY NamedIsRecoverable
  <1> QED BY <1>1, <1>2, <1>3, SpecInv, PTL DEF FenceSpec
=============================================================================
