------------------------------ MODULE AppProofs ------------------------------
(***************************************************************************)
(* Proofs about two parts of the Android apps whose threads share state:   *)
(* the session runtime of the native renderer, for any set of producers'   *)
(* calls, any lane capacities and any number of sessions and commands; and *)
(* the attended package installation of the package updater, for any       *)
(* number of worker threads, plans, sessions, jobs and faults.             *)
(***************************************************************************)
EXTENDS SessionRuntime, PackageInstall, TLAPS

\* The prover of every leaf that does not name another one.
USE ZenonT(30)

-----------------------------------------------------------------------------
(***************************************************************************)
(* The session runtime: the inductive invariant.                           *)
(***************************************************************************)
\* From the opening of the gate to the end of the drain at the cutoff.
Recording == phase = "Active" \/ worker.at \in {"publish", "close", "cutoff"}

\* The same without the cutoff: the time in which calls may be inside.
Admitting == Recording /\ worker.at # "cutoff"

\* From the start of the preparation to the answer of backend.finalize.
Unsettled == Recording \/ worker.at \in {"prepare", "open", "finalize"}

\* Which phases the reducer has at each step of the worker.
PhaseOfStep ==
  /\ worker.at = "initialize" => phase = "Idle"
  /\ worker.at \in {"loop", "drain", "command", "release"}
       => phase \in {"Idle", "Active", "Closed"}
  /\ worker.at \in {"prepare", "open", "publish"} => phase = "Preparing"
  /\ worker.at \in {"close", "cutoff", "finalize"}
       => phase \in {"FinalizingRestart", "Exiting"}
  /\ worker.at \in {"clear", "stopped"} => phase \in {"Idle", "Closed"}
  /\ worker.at = "shutdown" \/ shutdown = "complete" => phase = "Closed"
  /\ worker.locked <=> worker.at = "cutoff"

\* While it records, the gate, the writer and the active generation agree.
RecordingAgrees ==
  /\ Recording => /\ gate.generation = generation
                  /\ writer.open = generation
                  /\ worker.at # "publish" => activeGeneration = generation
  /\ Recording \/ worker.at = "open" => writer.slot
  /\ worker.at = "open" => writer.open = generation
  /\ gate.accepting => Admitting

\* The verdict of a session is given once, by its finalization.
ResultPending ==
  /\ Unsettled => generation \in 1..MaxGeneration /\ result[generation] = "none"
  /\ Unsettled /\ worker.at # "prepare" => loss.generation = generation
  /\ \A g \in 1..MaxGeneration : g > generation => result[g] = "none"

\* Where a record can be while its session goes through its steps.
OfferPlace(r) ==
  /\ offer[r].at = "none" <=> offer[r].generation = 0
  /\ offer[r].generation =< generation
  /\ worker.at \in {"prepare", "open"} => offer[r].generation # generation
  /\ offer[r].at \in {"gate", "writer"}
       => Admitting /\ offer[r].generation = generation
  /\ offer[r].at = "retry" => Recording /\ offer[r].generation = generation

OfferPlaces == \A r \in Records : OfferPlace(r)

\* The retry lane holds exactly the records to retry, each once.
RetriesExact ==
  /\ \A i \in 1..Len(retries) : offer[retries[i]].at = "retry"
  /\ \A i, j \in 1..Len(retries) : retries[i] = retries[j] => i = j
  /\ \A r \in Records :
       offer[r].at = "retry" => \E i \in 1..Len(retries) : retries[i] = r

\* A record of the unsettled session that was lost has been counted.
LossCounted ==
  \A r \in Records :
     Unsettled /\ offer[r].at = "lost" /\ offer[r].generation = generation
       => writer.lost \/ loss.count # 0

RuntimeInv ==
  /\ RuntimeTypeOK /\ PhaseOfStep /\ RecordingAgrees /\ ResultPending /\ OfferPlaces
  /\ RetriesExact /\ LossCounted /\ NothingDropped /\ SavedMeansWritten

-----------------------------------------------------------------------------
(***************************************************************************)
(* The worker's steps and the queueing of the owner's destruction.         *)
(***************************************************************************)
\* Initialize: the writer is spawned, or the worker ends.
LEMMA InitializeStep == ASSUME RuntimeInv, Initialize PROVE RuntimeInv'
  <1>1. RuntimeTypeOK'
    BY BoundAssumption DEF RuntimeInv, RuntimeTypeOK, WorkerSteps, Phases,
       Initialize, WorkerGoto, Generations
  <1>2. PhaseOfStep'
    BY DEF RuntimeInv, RuntimeTypeOK, PhaseOfStep, WorkerSteps, Initialize, WorkerGoto
  <1>3. RecordingAgrees'
    BY DEF RuntimeInv, RuntimeTypeOK, PhaseOfStep, RecordingAgrees, Recording,
       Admitting, WorkerSteps, Initialize, WorkerGoto, Generations
  <1>4. ResultPending'
    BY BoundAssumption DEF RuntimeInv, RuntimeTypeOK, PhaseOfStep, ResultPending,
       Unsettled, Recording, WorkerSteps, Initialize, WorkerGoto, Generations
  <1>5. OfferPlaces'
    BY DEF RuntimeInv, RuntimeTypeOK, PhaseOfStep, OfferPlaces, OfferPlace,
       Recording, Admitting, WorkerSteps, Initialize, WorkerGoto
  <1>6. RetriesExact'
    BY DEF RuntimeInv, RetriesExact, Initialize
  <1>7. LossCounted'
    BY DEF RuntimeInv, RuntimeTypeOK, PhaseOfStep, LossCounted, OfferPlaces,
       OfferPlace, Unsettled, Recording, WorkerSteps, Initialize, WorkerGoto
  <1>8. NothingDropped'
    BY DEF RuntimeInv, NothingDropped, Initialize
  <1>9. SavedMeansWritten'
    BY DEF RuntimeInv, SavedMeansWritten, Initialize
  <1> QED
    BY <1>1, <1>2, <1>3, <1>4, <1>5, <1>6, <1>7, <1>8, <1>9 DEF RuntimeInv

\* TakeTerminal: a terminal command is refused, or stops the session.
LEMMA TakeTerminalStep == ASSUME RuntimeInv, TakeTerminal PROVE RuntimeInv'
  <1>1. RuntimeTypeOK'
    <2>1. terminal' \in Seq(Messages) /\ Head(terminal) \in Messages
      BY SMTT(30) DEF RuntimeInv, RuntimeTypeOK, TakeTerminal
    <2>2. worker' \in [at : WorkerSteps, hand : Messages, locked : BOOLEAN, failed : BOOLEAN]
      BY <2>1 DEF RuntimeInv, RuntimeTypeOK, TakeTerminal, Refuse, Restart, Exit, Stop, StopInternally, WorkerSteps
    <2>3. phase' \in Phases
      BY DEF RuntimeInv, RuntimeTypeOK, TakeTerminal, Refuse, Restart, Exit, Stop, StopInternally, Phases
    <2> QED
      BY <2>1, <2>2, <2>3 DEF RuntimeInv, RuntimeTypeOK, TakeTerminal
  <1>2. PhaseOfStep'
    BY DEF RuntimeInv, RuntimeTypeOK, PhaseOfStep, WorkerSteps, TakeTerminal, Refuse,
       Restart, Exit, Stop, StopInternally, WorkerGoto
  <1>3. RecordingAgrees'
    BY DEF RuntimeInv, RuntimeTypeOK, PhaseOfStep, RecordingAgrees, Recording,
       Admitting, WorkerSteps, TakeTerminal, Refuse, Restart, Exit, Stop,
       StopInternally, WorkerGoto, Generations
  <1>4. ResultPending'
    BY BoundAssumption DEF RuntimeInv, RuntimeTypeOK, PhaseOfStep, ResultPending,
       Unsettled, Recording, WorkerSteps, TakeTerminal, Refuse, Restart, Exit,
       Stop, StopInternally, WorkerGoto, Generations
  <1>5. OfferPlaces'
    BY DEF RuntimeInv, RuntimeTypeOK, PhaseOfStep, OfferPlaces, OfferPlace,
       Recording, Admitting, WorkerSteps, TakeTerminal, Refuse, Restart, Exit,
       Stop, StopInternally, WorkerGoto
  <1>6. RetriesExact'
    BY DEF RuntimeInv, RetriesExact, TakeTerminal
  <1>7. LossCounted'
    BY DEF RuntimeInv, RuntimeTypeOK, PhaseOfStep, LossCounted, OfferPlaces,
       OfferPlace, Unsettled, Recording, WorkerSteps, TakeTerminal, Refuse,
       Restart, Exit, Stop, StopInternally, WorkerGoto
  <1>8. NothingDropped'
    BY DEF RuntimeInv, NothingDropped, TakeTerminal
  <1>9. SavedMeansWritten'
    BY DEF RuntimeInv, SavedMeansWritten, TakeTerminal
  <1> QED
    BY <1>1, <1>2, <1>3, <1>4, <1>5, <1>6, <1>7, <1>8, <1>9 DEF RuntimeInv

\* NoTerminal: the terminal lane is empty.
LEMMA NoTerminalStep == ASSUME RuntimeInv, NoTerminal PROVE RuntimeInv'
  <1>1. RuntimeTypeOK'
    BY BoundAssumption DEF RuntimeInv, RuntimeTypeOK, WorkerSteps, Phases,
       NoTerminal, WorkerGoto, Generations
  <1>2. PhaseOfStep'
    BY DEF RuntimeInv, RuntimeTypeOK, PhaseOfStep, WorkerSteps, NoTerminal, WorkerGoto
  <1>3. RecordingAgrees'
    BY DEF RuntimeInv, RuntimeTypeOK, PhaseOfStep, RecordingAgrees, Recording,
       Admitting, WorkerSteps, NoTerminal, WorkerGoto, Generations
  <1>4. ResultPending'
    BY BoundAssumption DEF RuntimeInv, RuntimeTypeOK, PhaseOfStep, ResultPending,
       Unsettled, Recording, WorkerSteps, NoTerminal, WorkerGoto, Generations
  <1>5. OfferPlaces'
    BY DEF RuntimeInv, RuntimeTypeOK, PhaseOfStep, OfferPlaces, OfferPlace,
       Recording, Admitting, WorkerSteps, NoTerminal, WorkerGoto
  <1>6. RetriesExact'
    BY DEF RuntimeInv, RetriesExact, NoTerminal
  <1>7. LossCounted'
    BY DEF RuntimeInv, RuntimeTypeOK, PhaseOfStep, LossCounted, OfferPlaces,
       OfferPlace, Unsettled, Recording, WorkerSteps, NoTerminal, WorkerGoto
  <1>8. NothingDropped'
    BY DEF RuntimeInv, NothingDropped, NoTerminal
  <1>9. SavedMeansWritten'
    BY DEF RuntimeInv, SavedMeansWritten, NoTerminal
  <1> QED
    BY <1>1, <1>2, <1>3, <1>4, <1>5, <1>6, <1>7, <1>8, <1>9 DEF RuntimeInv

\* Drained: the retry lane is empty.
LEMMA DrainedStep == ASSUME RuntimeInv, Drained PROVE RuntimeInv'
  <1>1. RuntimeTypeOK'
    BY BoundAssumption DEF RuntimeInv, RuntimeTypeOK, WorkerSteps, Phases, Drained,
       WorkerGoto, Generations
  <1>2. PhaseOfStep'
    BY DEF RuntimeInv, RuntimeTypeOK, PhaseOfStep, WorkerSteps, Drained, WorkerGoto
  <1>3. RecordingAgrees'
    BY DEF RuntimeInv, RuntimeTypeOK, PhaseOfStep, RecordingAgrees, Recording,
       Admitting, WorkerSteps, Drained, WorkerGoto, Generations
  <1>4. ResultPending'
    BY BoundAssumption DEF RuntimeInv, RuntimeTypeOK, PhaseOfStep, ResultPending,
       Unsettled, Recording, WorkerSteps, Drained, WorkerGoto, Generations
  <1>5. OfferPlaces'
    BY DEF RuntimeInv, RuntimeTypeOK, PhaseOfStep, OfferPlaces, OfferPlace,
       Recording, Admitting, WorkerSteps, Drained, WorkerGoto
  <1>6. RetriesExact'
    BY SMTT(30) DEF RuntimeInv, RetriesExact, Drained
  <1>7. LossCounted'
    BY DEF RuntimeInv, RuntimeTypeOK, PhaseOfStep, LossCounted, OfferPlaces,
       OfferPlace, Unsettled, Recording, WorkerSteps, Drained, WorkerGoto
  <1>8. NothingDropped'
    BY DEF RuntimeInv, NothingDropped, Drained
  <1>9. SavedMeansWritten'
    BY DEF RuntimeInv, SavedMeansWritten, Drained
  <1> QED
    BY <1>1, <1>2, <1>3, <1>4, <1>5, <1>6, <1>7, <1>8, <1>9 DEF RuntimeInv

\* Command: the command lane.
LEMMA CommandStep == ASSUME RuntimeInv, Command PROVE RuntimeInv'
  <1>hand. NoMessage \in Messages
    BY BoundAssumption, SMTT(30) DEF NoMessage, Messages, Generations
  <1>0. /\ worker.at = "command" /\ worker'.locked = worker.locked
        /\ \/ /\ phase = "Idle" /\ phase' = "Preparing"
              /\ generation' = generation + 1 /\ worker'.at = "prepare"
           \/ /\ phase = "Active" /\ phase' = "FinalizingRestart"
              /\ generation' = generation /\ worker'.at = "close"
           \/ /\ phase' = phase /\ generation' = generation
              /\ worker'.at = "loop"
    BY DEF RuntimeInv, RuntimeTypeOK, Command, StopInternally, WorkerGoto
  <1>1. RuntimeTypeOK'
    <2>1. generation' \in Generations
      BY BoundAssumption, SMTT(30) DEF RuntimeInv, RuntimeTypeOK, Command, Generations
    <2>2. worker' \in [at : WorkerSteps, hand : Messages, locked : BOOLEAN, failed : BOOLEAN]
      BY <1>hand DEF RuntimeInv, RuntimeTypeOK, Command, StopInternally, WorkerGoto, WorkerSteps
    <2>3. phase' \in Phases
      BY DEF RuntimeInv, RuntimeTypeOK, Command, StopInternally, Phases
    <2> QED
      BY <2>1, <2>2, <2>3 DEF RuntimeInv, RuntimeTypeOK, Command
  <1>2. PhaseOfStep'
    BY <1>0 DEF RuntimeInv, PhaseOfStep, Command
  <1>3. RecordingAgrees'
    BY DEF RuntimeInv, RuntimeTypeOK, PhaseOfStep, RecordingAgrees, Recording,
       Admitting, WorkerSteps, Command, StopInternally, WorkerGoto, Generations
  <1>4. ResultPending'
    BY BoundAssumption, SMTT(30) DEF RuntimeInv, RuntimeTypeOK, PhaseOfStep, ResultPending,
       Unsettled, Recording, WorkerSteps, Command, StopInternally, WorkerGoto,
       Generations
  <1>5. OfferPlaces'
    <2> SUFFICES ASSUME NEW r \in Records PROVE OfferPlace(r)'
      BY DEF OfferPlaces
    <2>1. OfferPlace(r) /\ offer' = offer
      BY DEF RuntimeInv, OfferPlaces, Command
    <2>2. generation \in Nat /\ offer[r].generation \in Nat
      BY BoundAssumption, SMTT(30) DEF RuntimeInv, RuntimeTypeOK, Offers, Generations
    <2>3. CASE generation' = generation + 1
      <3>1. ~Recording
        BY <1>0, <2>2, <2>3, SMTT(30) DEF Recording
      <3> QED
        BY <1>0, <2>1, <2>2, <2>3, <3>1, SMTT(30) DEF OfferPlace, Admitting
    <2>4. CASE generation' = generation
      BY <1>0, <2>1, <2>2, <2>4, SMTT(30) DEF OfferPlace, Admitting, Recording
    <2> QED
      BY <1>0, <2>3, <2>4
  <1>6. RetriesExact'
    BY DEF RuntimeInv, RetriesExact, Command
  <1>7. LossCounted'
    <2> SUFFICES ASSUME NEW r \in Records, Unsettled', offer[r].at = "lost",
                        offer[r].generation = generation'
                 PROVE  writer.lost \/ loss.count # 0
      BY DEF LossCounted, Command
    <2>1. offer[r].generation =< generation
      BY DEF RuntimeInv, OfferPlaces, OfferPlace
    <2>2. generation \in Nat /\ offer[r].generation \in Nat
      BY BoundAssumption, SMTT(30) DEF RuntimeInv, RuntimeTypeOK, Offers, Generations
    <2>3. generation' = generation
      BY <1>0, <2>1, <2>2, SMTT(30)
    <2>4. Unsettled
      BY <1>0, <2>2, <2>3, SMTT(30) DEF Unsettled, Recording
    <2> QED
      BY <2>3, <2>4 DEF RuntimeInv, LossCounted
  <1>8. NothingDropped'
    BY DEF RuntimeInv, NothingDropped, Command
  <1>9. SavedMeansWritten'
    BY DEF RuntimeInv, SavedMeansWritten, Command
  <1> QED
    BY <1>1, <1>2, <1>3, <1>4, <1>5, <1>6, <1>7, <1>8, <1>9 DEF RuntimeInv

\* PrepareOk: the writer is prepared.
LEMMA PrepareOkStep == ASSUME RuntimeInv, PrepareOk PROVE RuntimeInv'
  <1>1. RuntimeTypeOK'
    BY BoundAssumption DEF RuntimeInv, RuntimeTypeOK, WorkerSteps, Phases, PrepareOk,
       WorkerGoto, Generations
  <1>2. PhaseOfStep'
    BY DEF RuntimeInv, RuntimeTypeOK, PhaseOfStep, WorkerSteps, PrepareOk, WorkerGoto
  <1>3. RecordingAgrees'
    BY DEF RuntimeInv, RuntimeTypeOK, PhaseOfStep, RecordingAgrees, Recording,
       Admitting, WorkerSteps, PrepareOk, WorkerGoto, Generations
  <1>4. ResultPending'
    BY BoundAssumption DEF RuntimeInv, RuntimeTypeOK, PhaseOfStep, ResultPending,
       Unsettled, Recording, WorkerSteps, PrepareOk, WorkerGoto, Generations
  <1>5. OfferPlaces'
    BY DEF RuntimeInv, RuntimeTypeOK, PhaseOfStep, OfferPlaces, OfferPlace,
       Recording, Admitting, WorkerSteps, PrepareOk, WorkerGoto
  <1>6. RetriesExact'
    BY DEF RuntimeInv, RetriesExact, PrepareOk
  <1>7. LossCounted'
    BY DEF RuntimeInv, RuntimeTypeOK, PhaseOfStep, LossCounted, OfferPlaces,
       OfferPlace, Unsettled, Recording, WorkerSteps, PrepareOk, WorkerGoto
  <1>8. NothingDropped'
    BY DEF RuntimeInv, NothingDropped, PrepareOk
  <1>9. SavedMeansWritten'
    BY DEF RuntimeInv, SavedMeansWritten, PrepareOk
  <1> QED
    BY <1>1, <1>2, <1>3, <1>4, <1>5, <1>6, <1>7, <1>8, <1>9 DEF RuntimeInv

\* PrepareFailed: the writer could not be prepared.
LEMMA PrepareFailedStep == ASSUME RuntimeInv, PrepareFailed PROVE RuntimeInv'
  <1>1. RuntimeTypeOK'
    <2>1. activeGeneration' \in Generations
      BY BoundAssumption, SMTT(30) DEF PrepareFailed, Generations
    <2>2. worker' \in [at : WorkerSteps, hand : Messages, locked : BOOLEAN, failed : BOOLEAN]
      BY DEF RuntimeInv, RuntimeTypeOK, PrepareFailed, WorkerGoto, WorkerSteps
    <2>3. phase' \in Phases
      BY DEF PrepareFailed, Phases
    <2> QED
      BY <2>1, <2>2, <2>3 DEF RuntimeInv, RuntimeTypeOK, PrepareFailed
  <1>2. PhaseOfStep'
    BY DEF RuntimeInv, RuntimeTypeOK, PhaseOfStep, WorkerSteps, PrepareFailed, WorkerGoto
  <1>3. RecordingAgrees'
    BY DEF RuntimeInv, RuntimeTypeOK, PhaseOfStep, RecordingAgrees, Recording,
       Admitting, WorkerSteps, PrepareFailed, WorkerGoto, Generations
  <1>4. ResultPending'
    BY BoundAssumption DEF RuntimeInv, RuntimeTypeOK, PhaseOfStep, ResultPending,
       Unsettled, Recording, WorkerSteps, PrepareFailed, WorkerGoto, Generations
  <1>5. OfferPlaces'
    BY DEF RuntimeInv, RuntimeTypeOK, PhaseOfStep, OfferPlaces, OfferPlace,
       Recording, Admitting, WorkerSteps, PrepareFailed, WorkerGoto
  <1>6. RetriesExact'
    BY DEF RuntimeInv, RetriesExact, PrepareFailed
  <1>7. LossCounted'
    BY DEF RuntimeInv, RuntimeTypeOK, PhaseOfStep, LossCounted, OfferPlaces,
       OfferPlace, Unsettled, Recording, WorkerSteps, PrepareFailed, WorkerGoto
  <1>8. NothingDropped'
    BY DEF RuntimeInv, NothingDropped, PrepareFailed
  <1>9. SavedMeansWritten'
    BY DEF RuntimeInv, SavedMeansWritten, PrepareFailed
  <1> QED
    BY <1>1, <1>2, <1>3, <1>4, <1>5, <1>6, <1>7, <1>8, <1>9 DEF RuntimeInv

\* OpenGate: the gate opens.
LEMMA OpenGateStep == ASSUME RuntimeInv, OpenGate PROVE RuntimeInv'
  <1>1. RuntimeTypeOK'
    BY BoundAssumption DEF RuntimeInv, RuntimeTypeOK, WorkerSteps, Phases, OpenGate,
       Gates, WorkerGoto, Generations
  <1>2. PhaseOfStep'
    BY DEF RuntimeInv, RuntimeTypeOK, PhaseOfStep, WorkerSteps, OpenGate, Gates, WorkerGoto
  <1>3. RecordingAgrees'
    BY DEF RuntimeInv, RuntimeTypeOK, PhaseOfStep, RecordingAgrees, Recording,
       Admitting, WorkerSteps, OpenGate, Gates, WorkerGoto, Generations
  <1>4. ResultPending'
    BY BoundAssumption DEF RuntimeInv, RuntimeTypeOK, PhaseOfStep, ResultPending,
       Unsettled, Recording, WorkerSteps, OpenGate, Gates, WorkerGoto, Generations
  <1>5. OfferPlaces'
    BY DEF RuntimeInv, RuntimeTypeOK, PhaseOfStep, OfferPlaces, OfferPlace,
       Recording, Admitting, WorkerSteps, OpenGate, Gates, WorkerGoto
  <1>6. RetriesExact'
    BY DEF RuntimeInv, RetriesExact, OpenGate
  <1>7. LossCounted'
    BY DEF RuntimeInv, RuntimeTypeOK, PhaseOfStep, LossCounted, OfferPlaces,
       OfferPlace, Unsettled, Recording, WorkerSteps, OpenGate, Gates, WorkerGoto
  <1>8. NothingDropped'
    BY DEF RuntimeInv, NothingDropped, OpenGate
  <1>9. SavedMeansWritten'
    BY DEF RuntimeInv, SavedMeansWritten, OpenGate
  <1> QED
    BY <1>1, <1>2, <1>3, <1>4, <1>5, <1>6, <1>7, <1>8, <1>9 DEF RuntimeInv

\* Publish: the generation becomes active.
LEMMA PublishStep == ASSUME RuntimeInv, Publish PROVE RuntimeInv'
  <1>1. RuntimeTypeOK'
    BY BoundAssumption DEF RuntimeInv, RuntimeTypeOK, WorkerSteps, Phases, Publish,
       WorkerGoto, Generations
  <1>2. PhaseOfStep'
    BY DEF RuntimeInv, RuntimeTypeOK, PhaseOfStep, WorkerSteps, Publish, WorkerGoto
  <1>3. RecordingAgrees'
    BY DEF RuntimeInv, RuntimeTypeOK, PhaseOfStep, RecordingAgrees, Recording,
       Admitting, WorkerSteps, Publish, WorkerGoto, Generations
  <1>4. ResultPending'
    BY BoundAssumption DEF RuntimeInv, RuntimeTypeOK, PhaseOfStep, ResultPending,
       Unsettled, Recording, WorkerSteps, Publish, WorkerGoto, Generations
  <1>5. OfferPlaces'
    BY DEF RuntimeInv, RuntimeTypeOK, PhaseOfStep, OfferPlaces, OfferPlace,
       Recording, Admitting, WorkerSteps, Publish, WorkerGoto
  <1>6. RetriesExact'
    BY DEF RuntimeInv, RetriesExact, Publish
  <1>7. LossCounted'
    BY DEF RuntimeInv, RuntimeTypeOK, PhaseOfStep, LossCounted, OfferPlaces,
       OfferPlace, Unsettled, Recording, WorkerSteps, Publish, WorkerGoto
  <1>8. NothingDropped'
    BY DEF RuntimeInv, NothingDropped, Publish
  <1>9. SavedMeansWritten'
    BY DEF RuntimeInv, SavedMeansWritten, Publish
  <1> QED
    BY <1>1, <1>2, <1>3, <1>4, <1>5, <1>6, <1>7, <1>8, <1>9 DEF RuntimeInv

\* Close: the gate is write-locked and closed.
LEMMA CloseStep == ASSUME RuntimeInv, Close PROVE RuntimeInv'
  <1>1. RuntimeTypeOK'
    BY BoundAssumption DEF RuntimeInv, RuntimeTypeOK, WorkerSteps, Phases, Close,
       Gates, WorkerGoto, Generations
  <1>2. PhaseOfStep'
    BY DEF RuntimeInv, RuntimeTypeOK, PhaseOfStep, WorkerSteps, Close, Gates, WorkerGoto
  <1>3. RecordingAgrees'
    BY DEF RuntimeInv, RuntimeTypeOK, PhaseOfStep, RecordingAgrees, Recording,
       Admitting, WorkerSteps, Close, Gates, WorkerGoto, Generations
  <1>4. ResultPending'
    BY BoundAssumption DEF RuntimeInv, RuntimeTypeOK, PhaseOfStep, ResultPending,
       Unsettled, Recording, WorkerSteps, Close, Gates, WorkerGoto, Generations
  <1>5. OfferPlaces'
    BY DEF RuntimeInv, RuntimeTypeOK, PhaseOfStep, OfferPlaces, OfferPlace,
       Recording, Admitting, WorkerSteps, Close, Gates, WorkerGoto, Inside
  <1>6. RetriesExact'
    BY DEF RuntimeInv, RetriesExact, Close
  <1>7. LossCounted'
    BY DEF RuntimeInv, RuntimeTypeOK, PhaseOfStep, LossCounted, OfferPlaces,
       OfferPlace, Unsettled, Recording, WorkerSteps, Close, Gates, WorkerGoto
  <1>8. NothingDropped'
    BY DEF RuntimeInv, NothingDropped, Close
  <1>9. SavedMeansWritten'
    BY DEF RuntimeInv, SavedMeansWritten, Close
  <1> QED
    BY <1>1, <1>2, <1>3, <1>4, <1>5, <1>6, <1>7, <1>8, <1>9 DEF RuntimeInv

\* Cutoff: the drain at the cutoff is over.
LEMMA CutoffStep == ASSUME RuntimeInv, Cutoff PROVE RuntimeInv'
  <1>1. RuntimeTypeOK'
    BY BoundAssumption DEF RuntimeInv, RuntimeTypeOK, WorkerSteps, Phases, Cutoff,
       WorkerGoto, Generations
  <1>2. PhaseOfStep'
    BY DEF RuntimeInv, RuntimeTypeOK, PhaseOfStep, WorkerSteps, Cutoff, WorkerGoto
  <1>3. RecordingAgrees'
    BY DEF RuntimeInv, RuntimeTypeOK, PhaseOfStep, RecordingAgrees, Recording,
       Admitting, WorkerSteps, Cutoff, WorkerGoto, Generations
  <1>4. ResultPending'
    BY BoundAssumption DEF RuntimeInv, RuntimeTypeOK, PhaseOfStep, ResultPending,
       Unsettled, Recording, WorkerSteps, Cutoff, WorkerGoto, Generations
  <1>5. OfferPlaces'
    BY SMTT(30) DEF RuntimeInv, RuntimeTypeOK, PhaseOfStep, OfferPlaces, OfferPlace,
       Recording, Admitting, WorkerSteps, Cutoff, WorkerGoto, RetriesExact
  <1>6. RetriesExact'
    BY SMTT(30) DEF RuntimeInv, RetriesExact, Cutoff
  <1>7. LossCounted'
    BY DEF RuntimeInv, RuntimeTypeOK, PhaseOfStep, LossCounted, OfferPlaces,
       OfferPlace, Unsettled, Recording, WorkerSteps, Cutoff, WorkerGoto
  <1>8. NothingDropped'
    BY DEF RuntimeInv, NothingDropped, Cutoff
  <1>9. SavedMeansWritten'
    BY DEF RuntimeInv, SavedMeansWritten, Cutoff
  <1> QED
    BY <1>1, <1>2, <1>3, <1>4, <1>5, <1>6, <1>7, <1>8, <1>9 DEF RuntimeInv

\* Finalize: the recording is finalized and the verdict given.
LEMMA FinalizeStep == ASSUME RuntimeInv, Finalize PROVE RuntimeInv'
  <1>0. /\ generation \in 1..MaxGeneration /\ generation' = generation
        /\ worker'.at \in {"clear", "shutdown"} /\ worker'.locked = FALSE
        /\ phase' \in {"Idle", "Closed"}
        /\ worker'.at = "shutdown" => phase' = "Closed"
        /\ offer' = offer /\ shutdown' = shutdown /\ shutdown # "complete"
    <2>1. /\ worker.at = "finalize" /\ FinishTerminal
          /\ UNCHANGED <<generation, offer, shutdown>>
      BY DEF Finalize
    <2>2. /\ generation \in 1..MaxGeneration /\ worker.locked = FALSE
          /\ phase # "Closed" /\ shutdown # "complete"
      <3>1. generation \in 1..MaxGeneration
        BY <2>1 DEF RuntimeInv, ResultPending, Unsettled
      <3>2. phase \in {"FinalizingRestart", "Exiting"} /\ ~worker.locked
        BY <2>1 DEF RuntimeInv, PhaseOfStep
      <3>3. shutdown # "complete"
        BY <2>1, <3>2 DEF RuntimeInv, PhaseOfStep
      <3>4. worker.locked \in BOOLEAN
        BY DEF RuntimeInv, RuntimeTypeOK
      <3> QED BY <3>1, <3>2, <3>3, <3>4
    <2>3. worker \in [at : WorkerSteps, hand : Messages, locked : BOOLEAN, failed : BOOLEAN]
      BY DEF RuntimeInv, RuntimeTypeOK
    <2>4. /\ worker'.at \in {"clear", "shutdown"} /\ worker'.locked = worker.locked
          /\ phase' \in {"Idle", "Closed"} /\ (worker'.at = "shutdown" => phase' = "Closed")
      BY <2>1, <2>3 DEF FinishTerminal
    <2> QED BY <2>1, <2>2, <2>4
  <1>1. RuntimeTypeOK'
    <2>1. worker' \in [at : WorkerSteps, hand : Messages, locked : BOOLEAN, failed : BOOLEAN]
      <3>1. \E at \in {"clear", "shutdown"} :
               worker' = [worker EXCEPT !.at = at, !.failed = FALSE]
        BY DEF Finalize, FinishTerminal
      <3> QED
        BY <3>1 DEF RuntimeInv, RuntimeTypeOK, WorkerSteps
    <2>2. phase' \in Phases
      BY DEF Finalize, FinishTerminal, Phases
    <2>3. writer' \in [slot : BOOLEAN, open : Generations, lost : BOOLEAN]
      <3>1. \E open \in {writer.open, 0} : writer' = [writer EXCEPT !.open = open]
        BY DEF Finalize
      <3>2. 0 \in Generations
        BY BoundAssumption, SMTT(30) DEF Generations
      <3> QED
        BY <3>1, <3>2, SMTT(30) DEF RuntimeInv, RuntimeTypeOK
    <2>4. result' \in [1..MaxGeneration -> {"none", "saved", "unsaved"}]
      BY <1>0 DEF RuntimeInv, RuntimeTypeOK, Finalize
    <2> QED
      BY <2>1, <2>2, <2>3, <2>4 DEF RuntimeInv, RuntimeTypeOK, Finalize
  <1>2. PhaseOfStep'
    BY <1>0 DEF RuntimeInv, PhaseOfStep
  <1>3. RecordingAgrees'
    BY DEF RuntimeInv, RuntimeTypeOK, PhaseOfStep, RecordingAgrees, Recording,
       Admitting, WorkerSteps, Finalize, FinishTerminal, ProducerLoss, WorkerGoto,
       Generations
  <1>4. ResultPending'
    <2>1. \A g \in 1..MaxGeneration : g > generation => result'[g] = "none"
      <3> TAKE g \in 1..MaxGeneration
      <3> HAVE g > generation
      <3>1. result[g] = "none" /\ g # generation
        BY <1>0, SMTT(30) DEF RuntimeInv, ResultPending
      <3>2. result'[g] = result[g]
        BY <1>0, <3>1 DEF RuntimeInv, RuntimeTypeOK, Finalize
      <3> QED
        BY <3>1, <3>2
    <2>2. ~Unsettled'
      BY <1>0 DEF Unsettled, Recording
    <2> QED
      BY <1>0, <2>1, <2>2 DEF ResultPending
  <1>5. OfferPlaces'
    <2>1. ~Recording
      BY DEF RuntimeInv, PhaseOfStep, Recording, Finalize
    <2> QED
      BY <1>0, <2>1 DEF RuntimeInv, OfferPlaces, OfferPlace, Admitting, Finalize
  <1>6. RetriesExact'
    BY DEF RuntimeInv, RetriesExact, Finalize
  <1>7. LossCounted'
    BY DEF RuntimeInv, RuntimeTypeOK, PhaseOfStep, LossCounted, OfferPlaces,
       OfferPlace, Unsettled, Recording, WorkerSteps, Finalize, FinishTerminal,
       ProducerLoss, WorkerGoto
  <1>8. NothingDropped'
    BY DEF RuntimeInv, NothingDropped, Finalize
  <1>9. SavedMeansWritten'
    <2> SUFFICES ASSUME NEW g \in 1..MaxGeneration, NEW r \in Records,
                        result'[g] = "saved", offer[r].generation = g
                 PROVE  offer[r].at = "written"
      BY DEF SavedMeansWritten, Finalize
    <2>1. CASE g # generation
      <3>1. result'[g] = result[g]
        BY <1>0, <2>1 DEF RuntimeInv, RuntimeTypeOK, Finalize
      <3> QED
        BY <3>1 DEF RuntimeInv, SavedMeansWritten
    <2>2. CASE g = generation
      <3>1. result'[g] # "unsaved"
        OBVIOUS
      <3>2. ~writer.lost /\ loss.count = 0
        BY <1>0, <2>2 DEF RuntimeInv, RuntimeTypeOK, ResultPending, Unsettled, Finalize, ProducerLoss
      <3>3. offer[r].at # "lost"
        BY <2>2, <3>2 DEF RuntimeInv, LossCounted, Unsettled, Finalize
      <3>4. ~Recording
        BY DEF RuntimeInv, PhaseOfStep, Recording, Finalize
      <3>5. offer[r].at \notin {"gate", "writer", "retry", "none"}
        BY <1>0, <2>2, <3>4, SMTT(30) DEF RuntimeInv, OfferPlaces, OfferPlace, Admitting
      <3>6. offer[r].at # "dropped"
        BY DEF RuntimeInv, NothingDropped
      <3>7. offer[r] \in Offers
        BY DEF RuntimeInv, RuntimeTypeOK
      <3> QED
        BY <3>3, <3>5, <3>6, <3>7 DEF Offers
    <2> QED
      BY <2>1, <2>2
  <1> QED
    BY <1>1, <1>2, <1>3, <1>4, <1>5, <1>6, <1>7, <1>8, <1>9 DEF RuntimeInv

\* Shutdown: the writer is taken and joined.
LEMMA ShutdownStep == ASSUME RuntimeInv, Shutdown PROVE RuntimeInv'
  <1>1. RuntimeTypeOK'
    BY BoundAssumption DEF RuntimeInv, RuntimeTypeOK, WorkerSteps, Phases, Shutdown,
       WorkerGoto, Generations
  <1>2. PhaseOfStep'
    BY DEF RuntimeInv, RuntimeTypeOK, PhaseOfStep, WorkerSteps, Shutdown, WorkerGoto
  <1>3. RecordingAgrees'
    BY DEF RuntimeInv, RuntimeTypeOK, PhaseOfStep, RecordingAgrees, Recording,
       Admitting, WorkerSteps, Shutdown, WorkerGoto, Generations
  <1>4. ResultPending'
    BY BoundAssumption DEF RuntimeInv, RuntimeTypeOK, PhaseOfStep, ResultPending,
       Unsettled, Recording, WorkerSteps, Shutdown, WorkerGoto, Generations
  <1>5. OfferPlaces'
    BY DEF RuntimeInv, RuntimeTypeOK, PhaseOfStep, OfferPlaces, OfferPlace,
       Recording, Admitting, WorkerSteps, Shutdown, WorkerGoto
  <1>6. RetriesExact'
    BY DEF RuntimeInv, RetriesExact, Shutdown
  <1>7. LossCounted'
    BY DEF RuntimeInv, RuntimeTypeOK, PhaseOfStep, LossCounted, OfferPlaces,
       OfferPlace, Unsettled, Recording, WorkerSteps, Shutdown, WorkerGoto
  <1>8. NothingDropped'
    BY DEF RuntimeInv, NothingDropped, Shutdown
  <1>9. SavedMeansWritten'
    BY DEF RuntimeInv, SavedMeansWritten, Shutdown
  <1> QED
    BY <1>1, <1>2, <1>3, <1>4, <1>5, <1>6, <1>7, <1>8, <1>9 DEF RuntimeInv

\* Clear: no generation is active.
LEMMA ClearStep == ASSUME RuntimeInv, Clear PROVE RuntimeInv'
  <1>1. RuntimeTypeOK'
    <2>1. activeGeneration' \in Generations
      BY BoundAssumption, SMTT(30) DEF Clear, Generations
    <2>2. worker' \in [at : WorkerSteps, hand : Messages, locked : BOOLEAN, failed : BOOLEAN]
      BY DEF RuntimeInv, RuntimeTypeOK, Clear, WorkerGoto, WorkerSteps
    <2> QED
      BY <2>1, <2>2 DEF RuntimeInv, RuntimeTypeOK, Clear
  <1>2. PhaseOfStep'
    BY DEF RuntimeInv, RuntimeTypeOK, PhaseOfStep, WorkerSteps, Clear, WorkerGoto
  <1>3. RecordingAgrees'
    BY DEF RuntimeInv, RuntimeTypeOK, PhaseOfStep, RecordingAgrees, Recording,
       Admitting, WorkerSteps, Clear, WorkerGoto, Generations
  <1>4. ResultPending'
    BY BoundAssumption DEF RuntimeInv, RuntimeTypeOK, PhaseOfStep, ResultPending,
       Unsettled, Recording, WorkerSteps, Clear, WorkerGoto, Generations
  <1>5. OfferPlaces'
    BY DEF RuntimeInv, RuntimeTypeOK, PhaseOfStep, OfferPlaces, OfferPlace,
       Recording, Admitting, WorkerSteps, Clear, WorkerGoto
  <1>6. RetriesExact'
    BY DEF RuntimeInv, RetriesExact, Clear
  <1>7. LossCounted'
    BY DEF RuntimeInv, RuntimeTypeOK, PhaseOfStep, LossCounted, OfferPlaces,
       OfferPlace, Unsettled, Recording, WorkerSteps, Clear, WorkerGoto
  <1>8. NothingDropped'
    BY DEF RuntimeInv, NothingDropped, Clear
  <1>9. SavedMeansWritten'
    BY DEF RuntimeInv, SavedMeansWritten, Clear
  <1> QED
    BY <1>1, <1>2, <1>3, <1>4, <1>5, <1>6, <1>7, <1>8, <1>9 DEF RuntimeInv

\* Release: the claim is released.
LEMMA ReleaseStep == ASSUME RuntimeInv, Release PROVE RuntimeInv'
  <1>1. RuntimeTypeOK'
    <2>1. gate' \in Gates
      <3>1. CASE gate' = gate
        BY <3>1 DEF RuntimeInv, RuntimeTypeOK
      <3>2. CASE gate' # gate
        <4>1. PICK accepting \in BOOLEAN :
                 /\ gate.claims > 0
                 /\ gate' = [gate EXCEPT !.claims = @ - 1, !.accepting = accepting]
          BY <3>2 DEF RuntimeInv, RuntimeTypeOK, Gates, Release, Released
        <4>2. gate.claims - 1 \in Nat
          BY <4>1, SMTT(30) DEF RuntimeInv, RuntimeTypeOK, Gates
        <4> QED
          BY <4>1, <4>2 DEF RuntimeInv, RuntimeTypeOK, Gates
      <3> QED
        BY <3>1, <3>2
    <2>2. NoMessage \in Messages
      BY BoundAssumption, SMTT(30) DEF NoMessage, Messages, Generations
    <2>3. worker' \in [at : WorkerSteps, hand : Messages, locked : BOOLEAN, failed : BOOLEAN]
      BY <2>2 DEF RuntimeInv, RuntimeTypeOK, Release, WorkerSteps
    <2> QED
      BY <2>1, <2>3 DEF RuntimeInv, RuntimeTypeOK, Release
  <1>2. PhaseOfStep'
    <2>1. worker'.at = IF shutdown = "complete" THEN "stopped" ELSE "loop"
      BY DEF RuntimeInv, RuntimeTypeOK, Release
    <2>2. worker'.locked = worker.locked /\ phase' = phase
      BY DEF RuntimeInv, RuntimeTypeOK, Release
    <2> QED
      BY <2>1, <2>2, SMTT(30) DEF RuntimeInv, PhaseOfStep, Release
  <1>3. RecordingAgrees'
    BY DEF RuntimeInv, RuntimeTypeOK, PhaseOfStep, RecordingAgrees, Recording,
       Admitting, WorkerSteps, Release, Released, Gates, NoMessage, Messages,
       WorkerGoto, Generations
  <1>4. ResultPending'
    BY BoundAssumption DEF RuntimeInv, RuntimeTypeOK, PhaseOfStep, ResultPending,
       Unsettled, Recording, WorkerSteps, Release, Released, Gates, NoMessage,
       Messages, WorkerGoto, Generations
  <1>5. OfferPlaces'
    BY DEF RuntimeInv, RuntimeTypeOK, PhaseOfStep, OfferPlaces, OfferPlace,
       Recording, Admitting, WorkerSteps, Release, Released, Gates, NoMessage,
       Messages, WorkerGoto
  <1>6. RetriesExact'
    BY DEF RuntimeInv, RetriesExact, Release
  <1>7. LossCounted'
    BY DEF RuntimeInv, RuntimeTypeOK, PhaseOfStep, LossCounted, OfferPlaces,
       OfferPlace, Unsettled, Recording, WorkerSteps, Release, Released, Gates,
       NoMessage, Messages, WorkerGoto
  <1>8. NothingDropped'
    BY DEF RuntimeInv, NothingDropped, Release
  <1>9. SavedMeansWritten'
    BY DEF RuntimeInv, SavedMeansWritten, Release
  <1> QED
    BY <1>1, <1>2, <1>3, <1>4, <1>5, <1>6, <1>7, <1>8, <1>9 DEF RuntimeInv

\* OwnerDestroyed: the owner's destruction is queued.
LEMMA OwnerDestroyedStep == ASSUME RuntimeInv, OwnerDestroyed PROVE RuntimeInv'
  <1>1. RuntimeTypeOK'
    BY BoundAssumption, SMTT(30) DEF RuntimeInv, RuntimeTypeOK, WorkerSteps, Phases,
       OwnerDestroyed, NoMessage, Messages, WorkerGoto, Generations
  <1>2. PhaseOfStep'
    BY DEF RuntimeInv, RuntimeTypeOK, PhaseOfStep, WorkerSteps, OwnerDestroyed,
       NoMessage, Messages, WorkerGoto
  <1>3. RecordingAgrees'
    BY DEF RuntimeInv, RuntimeTypeOK, PhaseOfStep, RecordingAgrees, Recording,
       Admitting, WorkerSteps, OwnerDestroyed, NoMessage, Messages, WorkerGoto,
       Generations
  <1>4. ResultPending'
    BY BoundAssumption DEF RuntimeInv, RuntimeTypeOK, PhaseOfStep, ResultPending,
       Unsettled, Recording, WorkerSteps, OwnerDestroyed, NoMessage, Messages,
       WorkerGoto, Generations
  <1>5. OfferPlaces'
    BY DEF RuntimeInv, RuntimeTypeOK, PhaseOfStep, OfferPlaces, OfferPlace,
       Recording, Admitting, WorkerSteps, OwnerDestroyed, NoMessage, Messages,
       WorkerGoto
  <1>6. RetriesExact'
    BY DEF RuntimeInv, RetriesExact, OwnerDestroyed
  <1>7. LossCounted'
    BY DEF RuntimeInv, RuntimeTypeOK, PhaseOfStep, LossCounted, OfferPlaces,
       OfferPlace, Unsettled, Recording, WorkerSteps, OwnerDestroyed, NoMessage,
       Messages, WorkerGoto
  <1>8. NothingDropped'
    BY DEF RuntimeInv, NothingDropped, OwnerDestroyed
  <1>9. SavedMeansWritten'
    BY DEF RuntimeInv, SavedMeansWritten, OwnerDestroyed
  <1> QED
    BY <1>1, <1>2, <1>3, <1>4, <1>5, <1>6, <1>7, <1>8, <1>9 DEF RuntimeInv

-----------------------------------------------------------------------------
(***************************************************************************)
(* The clients' commands.                                                  *)
(***************************************************************************)
\* ApplyTerminal: a claim closes the gate and never opens it.
LEMMA ApplyTerminalStep ==
  ASSUME RuntimeInv, NEW kind \in {"restart", "exit"}, NEW g \in 0..generation,
         ApplyTerminal(kind, g)
  PROVE  RuntimeInv'
  <1>0. gate' \in {gate, Claimed(g)}
    BY DEF ApplyTerminal
  <1>1. /\ gate' \in Gates
        /\ gate'.generation = gate.generation
        /\ gate'.accepting => gate.accepting
    <2>1. CASE gate' = gate
      BY <2>1 DEF RuntimeInv, RuntimeTypeOK
    <2>2. CASE gate' # gate
      <3>1. \E resume \in BOOLEAN :
               gate' = [gate EXCEPT !.resume = resume, !.claims = @ + 1,
                                    !.accepting = FALSE]
        BY <1>0, <2>2 DEF Claimed, RuntimeInv, RuntimeTypeOK, Gates
      <3>2. gate \in Gates /\ gate.claims + 1 \in Nat
        BY SMTT(30) DEF RuntimeInv, RuntimeTypeOK, Gates
      <3> QED
        BY <3>1, <3>2 DEF Gates
    <2> QED
      BY <2>1, <2>2
  <1>2. terminal' \in Seq(Messages)
    <2>1. g \in Generations
      BY BoundAssumption, SMTT(30) DEF RuntimeInv, RuntimeTypeOK, Generations
    <2>2. [kind |-> kind, generation |-> g, claimed |-> gate.generation = g]
             \in Messages
      BY <2>1 DEF Messages
    <2>3. terminal \in Seq(Messages)
      BY DEF RuntimeInv, RuntimeTypeOK
    <2>4. CASE LaneAdmits
      BY <2>2, <2>3, <2>4, SMTT(30) DEF ApplyTerminal
    <2>5. CASE ~LaneAdmits
      BY <2>3, <2>5 DEF ApplyTerminal
    <2> QED
      BY <2>4, <2>5
  <1>3. sent' \in 0..MaxTerminals
    BY BoundAssumption, SMTT(30) DEF ApplyTerminal, RuntimeInv, RuntimeTypeOK
  <1>4. UNCHANGED <<activeGeneration, phase, generation, retries, offer, writer,
                    loss, worker, shutdown, result>>
    BY DEF ApplyTerminal
  <1>5. RuntimeTypeOK'
    BY <1>1, <1>2, <1>3, <1>4 DEF RuntimeInv, RuntimeTypeOK
  <1>6. PhaseOfStep' /\ RecordingAgrees'
    BY <1>1, <1>4 DEF RuntimeInv, PhaseOfStep, RecordingAgrees, Recording, Admitting
  <1>7. ResultPending' /\ LossCounted' /\ SavedMeansWritten'
    BY <1>4 DEF RuntimeInv, ResultPending, LossCounted, SavedMeansWritten,
                Unsettled, Recording
  <1>8. OfferPlaces' /\ RetriesExact' /\ NothingDropped'
    BY <1>4 DEF RuntimeInv, OfferPlaces, OfferPlace, RetriesExact, NothingDropped,
                Recording, Admitting
  <1> QED
    BY <1>5, <1>6, <1>7, <1>8 DEF RuntimeInv

-----------------------------------------------------------------------------
(***************************************************************************)
(* The producers' calls, and the retries the worker makes for them.        *)
(***************************************************************************)
\* Move changes where one record is, and nothing else of any record.
LEMMA MoveEffect ==
  ASSUME offer \in [Records -> Offers], NEW r \in Records,
         NEW at \in {"writer", "retry", "written", "lost"}, Move(r, at)
  PROVE  /\ offer' \in [Records -> Offers]
         /\ offer'[r].at = at /\ offer'[r].generation = offer[r].generation
         /\ \A s \in Records : s # r => offer'[s] = offer[s]
  BY DEF Move, Offers

\* A record of the current session goes on to the writer, to the retry lane, or
\* to its end, and a lost one is counted.
LEMMA OfferStep ==
  ASSUME RuntimeInv, NEW r \in Records,
         NEW at \in {"writer", "retry", "written", "lost"}, Move(r, at),
         Recording, at = "writer" => Admitting, offer[r].generation = generation,
         UNCHANGED <<gate, activeGeneration, phase, generation, terminal, worker,
                     shutdown, result, sent>>,
         writer' \in {writer, [writer EXCEPT !.lost = TRUE]},
         loss' \in {loss, [loss EXCEPT !.count = @ + 1]},
         at = "lost" => writer'.lost \/ loss'.count # 0,
         retries' \in Seq(Records), RetriesExact'
  PROVE  RuntimeInv'
  <1>1. /\ offer' \in [Records -> Offers]
        /\ offer'[r].at = at /\ offer'[r].generation = offer[r].generation
        /\ \A s \in Records : s # r => offer'[s] = offer[s]
    BY MoveEffect, SMTT(30) DEF RuntimeInv, RuntimeTypeOK
  <1>2. /\ generation \in 1..MaxGeneration /\ result[generation] = "none"
        /\ loss.generation = generation
    BY DEF RuntimeInv, ResultPending, PhaseOfStep, Unsettled, Recording
  <1>3. /\ writer' \in [slot : BOOLEAN, open : Generations, lost : BOOLEAN]
        /\ writer'.slot = writer.slot /\ writer'.open = writer.open
        /\ writer.lost => writer'.lost
    BY DEF RuntimeInv, RuntimeTypeOK
  <1>4. /\ loss' \in [generation : Generations, count : Nat]
        /\ loss'.generation = loss.generation
        /\ loss.count # 0 => loss'.count # 0
    BY SMTT(30) DEF RuntimeInv, RuntimeTypeOK
  <1>5. RuntimeTypeOK'
    BY <1>1, <1>3, <1>4 DEF RuntimeInv, RuntimeTypeOK
  <1>6. PhaseOfStep' /\ RecordingAgrees'
    BY <1>3 DEF RuntimeInv, PhaseOfStep, RecordingAgrees, Recording, Admitting
  <1>7. ResultPending'
    BY <1>4 DEF RuntimeInv, ResultPending, Unsettled, Recording
  <1>8. OfferPlaces'
    <2> SUFFICES ASSUME NEW s \in Records PROVE OfferPlace(s)'
      BY DEF OfferPlaces
    <2>1. OfferPlace(s)
      BY DEF RuntimeInv, OfferPlaces
    <2>2. CASE s = r
      BY <1>1, <1>2, <2>1, <2>2, SMTT(30) DEF OfferPlace, Recording, Admitting
    <2>3. CASE s # r
      BY <1>1, <2>1, <2>3 DEF OfferPlace, Recording, Admitting
    <2> QED
      BY <2>2, <2>3
  <1>9. LossCounted'
    <2> SUFFICES ASSUME NEW s \in Records, Unsettled', offer'[s].at = "lost",
                        offer'[s].generation = generation
                 PROVE  writer'.lost \/ loss'.count # 0
      BY DEF LossCounted
    <2>1. CASE s = r
      BY <1>1, <2>1
    <2>2. CASE s # r
      BY <1>1, <1>3, <1>4, <2>2 DEF RuntimeInv, LossCounted, Unsettled, Recording
    <2> QED
      BY <2>1, <2>2
  <1>10. NothingDropped'
    BY <1>1 DEF RuntimeInv, NothingDropped
  <1>11. SavedMeansWritten'
    <2> SUFFICES ASSUME NEW g \in 1..MaxGeneration, NEW s \in Records,
                        result[g] = "saved", offer'[s].generation = g
                 PROVE  offer'[s].at = "written"
      BY DEF SavedMeansWritten
    <2>1. s # r
      BY <1>1, <1>2
    <2> QED
      BY <1>1, <2>1 DEF RuntimeInv, SavedMeansWritten
  <1> QED
    BY <1>5, <1>6, <1>7, <1>8, <1>9, <1>10, <1>11 DEF RuntimeInv

\* What holds of a call inside the gate.
LEMMA InsideFacts ==
  ASSUME RuntimeInv, NEW r \in Records, offer[r].at \in {"gate", "writer"}
  PROVE  /\ Recording /\ Admitting /\ offer[r].generation = generation
         /\ writer.open = generation /\ loss.generation = generation
         /\ \A i \in 1..Len(retries) : retries[i] # r
  BY DEF RuntimeInv, OfferPlaces, OfferPlace, Recording, Admitting, RecordingAgrees,
         ResultPending, PhaseOfStep, Unsettled, RetriesExact

\* The lane stays exact when a record outside it ends outside it ...
LEMMA LaneKept ==
  ASSUME RuntimeInv, NEW r \in Records, offer[r].at \in {"gate", "writer"},
         NEW at \in {"writer", "written", "lost"}, Move(r, at), retries' = retries
  PROVE  retries' \in Seq(Records) /\ RetriesExact'
  <1>1. /\ offer'[r].at = at
        /\ \A s \in Records : s # r => offer'[s] = offer[s]
    BY MoveEffect DEF RuntimeInv, RuntimeTypeOK
  <1>2. retries \in Seq(Records) /\ \A i \in 1..Len(retries) : retries[i] # r
    BY InsideFacts DEF RuntimeInv, RuntimeTypeOK
  <1>3. \A i \in 1..Len(retries) : retries[i] \in Records
    BY <1>2, SMTT(30)
  <1> QED
    BY <1>1, <1>2, <1>3, SMTT(30) DEF RuntimeInv, RetriesExact

\* ... when a record joins its end ...
LEMMA LaneJoined ==
  ASSUME RuntimeInv, NEW r \in Records, offer[r].at \in {"gate", "writer"},
         Move(r, "retry"), retries' = Append(retries, r)
  PROVE  retries' \in Seq(Records) /\ RetriesExact'
  <1>1. /\ offer'[r].at = "retry"
        /\ \A s \in Records : s # r => offer'[s] = offer[s]
    BY MoveEffect DEF RuntimeInv, RuntimeTypeOK
  <1>2. retries \in Seq(Records) /\ \A i \in 1..Len(retries) : retries[i] # r
    BY InsideFacts DEF RuntimeInv, RuntimeTypeOK
  <1>3. /\ retries' \in Seq(Records) /\ Len(retries') = Len(retries) + 1
        /\ retries'[Len(retries) + 1] = r /\ Len(retries) \in Nat
        /\ \A i \in 1..Len(retries) : retries'[i] = retries[i] /\ retries[i] \in Records
    BY <1>2, SMTT(30)
  <1>4. \A i \in 1..Len(retries') : i \in 1..Len(retries) \/ i = Len(retries) + 1
    BY <1>3, SMTT(30)
  <1>5. \A i \in 1..Len(retries') : offer'[retries'[i]].at = "retry"
    BY <1>1, <1>2, <1>3, <1>4, SMTT(30) DEF RuntimeInv, RetriesExact
  <1>6. \A i, j \in 1..Len(retries') : retries'[i] = retries'[j] => i = j
    BY <1>2, <1>3, <1>4, SMTT(30) DEF RuntimeInv, RetriesExact
  <1>7. ASSUME NEW s \in Records, offer'[s].at = "retry"
        PROVE  \E i \in 1..Len(retries') : retries'[i] = s
    <2>1. CASE s = r
      <3>1. Len(retries) + 1 \in 1..Len(retries')
        BY <1>3, SMTT(30)
      <3> QED
        BY <1>3, <2>1, <3>1
    <2>2. CASE s # r
      <3>1. PICK i \in 1..Len(retries) : retries[i] = s
        BY <1>1, <1>7, <2>2 DEF RuntimeInv, RetriesExact
      <3>2. i \in 1..Len(retries')
        BY <1>3, <3>1, SMTT(30)
      <3> QED
        BY <1>3, <3>1, <3>2
    <2> QED
      BY <2>1, <2>2
  <1> QED
    BY <1>3, <1>5, <1>6, <1>7 DEF RetriesExact

\* ... and when its first record leaves it.
LEMMA LaneLeft ==
  ASSUME RuntimeInv, retries # <<>>, NEW at \in {"written", "lost"},
         Move(Head(retries), at), retries' = Tail(retries)
  PROVE  retries' \in Seq(Records) /\ RetriesExact'
  <1> DEFINE r == Head(retries)
  <1>1. /\ retries \in Seq(Records) /\ Len(retries) \in Nat /\ Len(retries) >= 1
        /\ r = retries[1] /\ r \in Records
        /\ retries' \in Seq(Records) /\ Len(retries') = Len(retries) - 1
        /\ \A i \in 1..Len(retries') : retries'[i] = retries[i + 1]
    BY SMTT(30) DEF RuntimeInv, RuntimeTypeOK
  <1>2. /\ offer'[r].at = at
        /\ \A s \in Records : s # r => offer'[s] = offer[s]
    BY <1>1, MoveEffect, SMTT(30) DEF RuntimeInv, RuntimeTypeOK
  <1>3. \A i \in 1..Len(retries') :
           /\ i + 1 \in 1..Len(retries) /\ retries[i + 1] \in Records
           /\ retries[i + 1] # r
    BY <1>1, SMTT(30) DEF RuntimeInv, RetriesExact
  <1>4. \A i \in 1..Len(retries') : offer'[retries'[i]].at = "retry"
    BY <1>1, <1>2, <1>3, SMTT(30) DEF RuntimeInv, RetriesExact
  <1>5. \A i, j \in 1..Len(retries') : retries'[i] = retries'[j] => i = j
    <2> TAKE i, j \in 1..Len(retries')
    <2> HAVE retries'[i] = retries'[j]
    <2>1. i + 1 = j + 1
      BY <1>1, <1>3, SMTT(30) DEF RuntimeInv, RetriesExact
    <2> QED
      BY <2>1, SMTT(30)
  <1>6. ASSUME NEW s \in Records, offer'[s].at = "retry"
        PROVE  \E i \in 1..Len(retries') : retries'[i] = s
    <2>1. s # r
      BY <1>2, <1>6
    <2>2. PICK i \in 1..Len(retries) : retries[i] = s
      BY <1>2, <1>6, <2>1 DEF RuntimeInv, RetriesExact
    <2>3. i # 1 /\ i - 1 \in 1..Len(retries')
      BY <1>1, <2>1, <2>2, SMTT(30)
    <2>4. retries'[i - 1] = s
      BY <1>1, <2>2, <2>3, SMTT(30)
    <2> QED
      BY <2>3, <2>4
  <1> QED
    BY <1>1, <1>4, <1>5, <1>6 DEF RetriesExact

\* enqueue_retry keeps the invariant, from either place inside the gate.
LEMMA EnqueueRetryStep ==
  ASSUME RuntimeInv, NEW r \in Records, offer[r].at \in {"gate", "writer"},
         EnqueueRetry(r),
         UNCHANGED <<gate, activeGeneration, phase, generation, terminal, writer,
                     worker, shutdown, result, sent>>
  PROVE  RuntimeInv'
  <1>1. Recording /\ offer[r].generation = generation /\ loss.generation = generation
    BY InsideFacts
  <1>2. CASE Move(r, "retry")
    <2>1. retries' = Append(retries, r) /\ UNCHANGED loss
      <3>1. "retry" # "lost"
        OBVIOUS
      <3>2. ~Move(r, "lost")
        BY <1>2, <3>1, MoveEffect DEF RuntimeInv, RuntimeTypeOK
      <3> QED
        BY <3>2 DEF EnqueueRetry
    <2>2. retries' \in Seq(Records) /\ RetriesExact'
      BY <1>2, <2>1, LaneJoined
    <2> QED
      BY <1>1, <1>2, <2>1, <2>2, OfferStep
  <1>3. CASE ~Move(r, "retry")
    <2>1. Move(r, "lost") /\ retries' = retries /\ CountLoss(offer[r].generation)
      BY <1>3 DEF EnqueueRetry
    <2>2. loss' = [loss EXCEPT !.count = @ + 1] /\ loss'.count # 0
      BY <1>1, <2>1, SMTT(30) DEF CountLoss, RuntimeInv, RuntimeTypeOK
    <2>3. retries' \in Seq(Records) /\ RetriesExact'
      BY <2>1, LaneKept
    <2> QED
      BY <1>1, <2>1, <2>2, <2>3, OfferStep
  <1> QED
    BY <1>2, <1>3

\* The writer's answer to a record of the recording that is open.
LEMMA WriterTakesEffect ==
  ASSUME RuntimeInv, NEW r \in Records, writer.open = offer[r].generation,
         WriterTakes(r, offer[r].generation)
  PROVE  /\ loss' = loss
         /\ writer' \in {writer, [writer EXCEPT !.lost = TRUE]}
         /\ \/ Move(r, "written")
            \/ Move(r, "lost") /\ writer'.lost
  BY DEF WriterTakes, RuntimeInv, RuntimeTypeOK

\* Enter: a call passes the gate of the session that records.
LEMMA EnterStep ==
  ASSUME RuntimeInv, NEW r \in Records, Enter(r) PROVE RuntimeInv'
  <1>1. Admitting /\ Recording /\ gate.generation = generation
    BY DEF Enter, RuntimeInv, RecordingAgrees, Admitting
  <1>2. generation \in 1..MaxGeneration /\ result[generation] = "none"
    BY <1>1 DEF RuntimeInv, ResultPending, Unsettled
  <1>3. /\ offer' \in [Records -> Offers]
        /\ offer'[r].at = "gate" /\ offer'[r].generation = generation
        /\ \A s \in Records : s # r => offer'[s] = offer[s]
    BY <1>1 DEF Enter, RuntimeInv, RuntimeTypeOK, Offers
  <1>4. UNCHANGED <<gate, activeGeneration, phase, generation, terminal, retries,
                    writer, loss, worker, shutdown, result, sent>>
    BY DEF Enter
  <1>5. RuntimeTypeOK' /\ PhaseOfStep' /\ RecordingAgrees' /\ ResultPending'
    BY <1>3, <1>4 DEF RuntimeInv, RuntimeTypeOK, PhaseOfStep, RecordingAgrees, ResultPending,
                      Unsettled, Recording, Admitting
  <1>6. OfferPlaces'
    <2> SUFFICES ASSUME NEW s \in Records PROVE OfferPlace(s)'
      BY DEF OfferPlaces
    <2>1. OfferPlace(s)
      BY DEF RuntimeInv, OfferPlaces
    <2>2. CASE s = r
      <3>1. worker.at \notin {"prepare", "open"}
        BY <1>1 DEF Recording, RuntimeInv, PhaseOfStep
      <3> QED
        BY <1>1, <1>2, <1>3, <1>4, <2>2, <3>1, SMTT(30) DEF OfferPlace, Recording, Admitting
    <2>3. CASE s # r
      BY <1>3, <1>4, <2>1, <2>3 DEF OfferPlace, Recording, Admitting
    <2> QED
      BY <2>2, <2>3
  <1>7. RetriesExact'
    <2>1. offer[r].at # "retry" /\ retries \in Seq(Records)
      BY DEF Enter, RuntimeInv, RuntimeTypeOK
    <2>2. \A i \in 1..Len(retries) : retries[i] \in Records
      BY <2>1, SMTT(30)
    <2> QED
      BY <1>3, <1>4, <2>1, <2>2 DEF RuntimeInv, RetriesExact
  <1>8. LossCounted' /\ NothingDropped'
    BY <1>3, <1>4 DEF RuntimeInv, LossCounted, NothingDropped, Unsettled, Recording
  <1>9. SavedMeansWritten'
    BY <1>2, <1>3, <1>4 DEF RuntimeInv, SavedMeansWritten
  <1> QED
    BY <1>5, <1>6, <1>7, <1>8, <1>9 DEF RuntimeInv

\* Borrow: the call clones the writer, or its record is to be retried.
LEMMA BorrowStep ==
  ASSUME RuntimeInv, NEW r \in Records, Borrow(r) PROVE RuntimeInv'
  <1>1. CASE EnqueueRetry(r)
    BY <1>1, EnqueueRetryStep DEF Borrow
  <1>2. CASE Move(r, "writer") /\ UNCHANGED <<retries, loss>>
    <2>1. offer[r].at = "gate" /\ retries' = retries
      BY <1>2 DEF Borrow
    <2>2. Recording /\ Admitting /\ offer[r].generation = generation
      BY <2>1, InsideFacts
    <2>3. retries' \in Seq(Records) /\ RetriesExact'
      BY <1>2, <2>1, LaneKept
    <2> QED
      BY <1>2, <2>2, <2>3, OfferStep DEF Borrow
  <1> QED
    BY <1>1, <1>2 DEF Borrow

\* Deliver: the writer answers, or its record is to be retried.
LEMMA DeliverStep ==
  ASSUME RuntimeInv, NEW r \in Records, Deliver(r) PROVE RuntimeInv'
  <1>1. CASE EnqueueRetry(r) /\ UNCHANGED writer
    BY <1>1, EnqueueRetryStep DEF Deliver
  <1>2. CASE WriterTakes(r, offer[r].generation) /\ UNCHANGED retries
    <2>1. offer[r].at = "writer" /\ retries' = retries
      BY <1>2 DEF Deliver
    <2>2. /\ Recording /\ offer[r].generation = generation
          /\ writer.open = offer[r].generation
      BY <2>1, InsideFacts
    <2>3. PICK at \in {"written", "lost"} :
             Move(r, at) /\ (at = "lost" => writer'.lost)
      BY <1>2, <2>2, WriterTakesEffect
    <2>4. loss' = loss /\ writer' \in {writer, [writer EXCEPT !.lost = TRUE]}
      BY <1>2, <2>2, WriterTakesEffect
    <2>5. retries' \in Seq(Records) /\ RetriesExact'
      BY <2>1, <2>3, LaneKept
    <2> QED
      BY <2>2, <2>3, <2>4, <2>5, OfferStep DEF Deliver
  <1> QED
    BY <1>1, <1>2 DEF Deliver

\* DrainRetry: the worker offers the first record of the lane again; its
\* generation is the active one, so it is never ignored.
LEMMA DrainRetryStep == ASSUME RuntimeInv, DrainRetry PROVE RuntimeInv'
  <1> DEFINE r == Head(retries)
  <1>1. retries # <<>> /\ retries' = Tail(retries) /\ worker.at \in {"drain", "cutoff"}
    BY DEF DrainRetry
  <1>2. r \in Records /\ r = retries[1] /\ 1 \in 1..Len(retries)
    BY <1>1, SMTT(30) DEF RuntimeInv, RuntimeTypeOK
  <1>3. offer[r].at = "retry"
    BY <1>2 DEF RuntimeInv, RetriesExact
  <1>4. Recording /\ offer[r].generation = generation
    BY <1>2, <1>3 DEF RuntimeInv, OfferPlaces, OfferPlace
  <1>5. /\ activeGeneration = generation /\ writer.open = generation
        /\ loss.generation = generation
    BY <1>1, <1>4 DEF RuntimeInv, RecordingAgrees, ResultPending, Unsettled
  <1>6. PICK at \in {"written", "lost"} :
           /\ Move(r, at)
           /\ writer' \in {writer, [writer EXCEPT !.lost = TRUE]}
           /\ loss' \in {loss, [loss EXCEPT !.count = @ + 1]}
           /\ at = "lost" => writer'.lost \/ loss'.count # 0
    <2>1. CASE WriterTakes(r, offer[r].generation)
      BY <1>2, <1>4, <1>5, <2>1, WriterTakesEffect
    <2>2. CASE Move(r, "lost") /\ CountLoss(offer[r].generation) /\ UNCHANGED writer
      <3>1. loss' = [loss EXCEPT !.count = @ + 1] /\ loss'.count # 0
        BY <1>4, <1>5, <2>2, SMTT(30) DEF CountLoss, RuntimeInv, RuntimeTypeOK
      <3> QED
        BY <2>2, <3>1
    <2> QED
      BY <1>4, <1>5, <2>1, <2>2 DEF DrainRetry, ProcessRetry
  <1>7. retries' \in Seq(Records) /\ RetriesExact'
    BY <1>1, <1>6, LaneLeft
  <1> QED
    BY <1>2, <1>4, <1>6, <1>7, OfferStep DEF DrainRetry

-----------------------------------------------------------------------------
(***************************************************************************)
(* The theorems.                                                           *)
(***************************************************************************)
LEMMA RuntimeInitInv == RuntimeInit => RuntimeInv
  <1> SUFFICES ASSUME RuntimeInit PROVE RuntimeInv
    OBVIOUS
  <1>1. 0 \in Generations /\ NoMessage \in Messages
    BY BoundAssumption, SMTT(30) DEF Generations, NoMessage, Messages
  <1>2. RuntimeTypeOK
    BY <1>1, BoundAssumption, SMTT(30) DEF RuntimeInit, RuntimeTypeOK, Gates, Phases, Offers, WorkerSteps
  <1>3. PhaseOfStep /\ RecordingAgrees /\ ResultPending
    BY DEF RuntimeInit, PhaseOfStep, RecordingAgrees, ResultPending, Unsettled, Recording,
           Admitting
  <1>4. OfferPlaces /\ RetriesExact /\ LossCounted /\ NothingDropped
    BY SMTT(30) DEF RuntimeInit, OfferPlaces, OfferPlace, RetriesExact, LossCounted, NothingDropped,
           Unsettled, Recording
  <1>5. SavedMeansWritten
    BY DEF RuntimeInit, SavedMeansWritten
  <1> QED
    BY <1>2, <1>3, <1>4, <1>5 DEF RuntimeInv

\* Every step of the worker, of a client and of a producer keeps the invariant.
LEMMA RuntimeNextInv == RuntimeInv /\ [RuntimeNext]_runtimeVars => RuntimeInv'
  <1> SUFFICES ASSUME RuntimeInv, [RuntimeNext]_runtimeVars PROVE RuntimeInv'
    OBVIOUS
  <1>1. CASE Worker
    BY <1>1, InitializeStep, TakeTerminalStep, NoTerminalStep, DrainRetryStep,
       DrainedStep, CommandStep, PrepareOkStep, PrepareFailedStep, OpenGateStep, PublishStep, CloseStep,
       CutoffStep, FinalizeStep, ShutdownStep, ClearStep, ReleaseStep DEF Worker
  <1>2. CASE Client
    BY <1>2, ApplyTerminalStep, OwnerDestroyedStep DEF Client
  <1>3. CASE \E r \in Records : Producer(r)
    BY <1>3, EnterStep, BorrowStep, DeliverStep DEF Producer
  <1>4. CASE UNCHANGED runtimeVars
    <2>1. RuntimeTypeOK'
      BY <1>4 DEF runtimeVars, RuntimeInv, RuntimeTypeOK
    <2>2. PhaseOfStep' /\ RecordingAgrees'
      BY <1>4 DEF runtimeVars, RuntimeInv, PhaseOfStep, RecordingAgrees, Recording, Admitting
    <2>3. ResultPending'
      BY <1>4 DEF runtimeVars, RuntimeInv, ResultPending, Unsettled, Recording
    <2>4. OfferPlaces' /\ RetriesExact'
      <3>1. /\ worker' = worker /\ offer' = offer /\ generation' = generation
            /\ retries' = retries /\ phase' = phase /\ writer' = writer /\ gate' = gate
            /\ activeGeneration' = activeGeneration /\ result' = result
        BY <1>4 DEF runtimeVars
      <3>2. \A r \in Records : OfferPlace(r) => OfferPlace(r)'
        BY <3>1 DEF OfferPlace, Admitting, Recording
      <3>3. OfferPlaces'
        BY <3>2 DEF RuntimeInv, OfferPlaces
      <3>4. RetriesExact'
        BY <3>1 DEF RuntimeInv, RetriesExact
      <3> QED BY <3>3, <3>4
    <2>5. LossCounted' /\ NothingDropped' /\ SavedMeansWritten'
      BY <1>4 DEF runtimeVars, RuntimeInv, LossCounted, NothingDropped, SavedMeansWritten, Unsettled,
                  Recording
    <2> QED BY <2>1, <2>2, <2>3, <2>4, <2>5 DEF RuntimeInv
  <1> QED
    BY <1>1, <1>2, <1>3, <1>4 DEF RuntimeNext

\* The inductive invariant holds in every reachable state of the runtime.
THEOREM RuntimeInvariant == RuntimeSpec => []RuntimeInv
  BY RuntimeInitInv, RuntimeNextInv, PTL DEF RuntimeSpec

\* A session reported saved holds every record its gate admitted.
THEOREM SavedIsWritten == RuntimeSpec => []SavedMeansWritten
  <1>1. RuntimeInv => SavedMeansWritten
    BY DEF RuntimeInv
  <1> QED
    BY <1>1, RuntimeInvariant, PTL

\* No record that passed the gate disappears uncounted.
THEOREM NoRecordDropped == RuntimeSpec => []NothingDropped
  <1>1. RuntimeInv => NothingDropped
    BY DEF RuntimeInv
  <1> QED
    BY <1>1, RuntimeInvariant, PTL

\* The gate accepts, and a call is inside, only while the writer has the recording
\* of that generation open.
THEOREM GateFollowsWriter == RuntimeSpec => []GateMatchesWriter
  <1>1. RuntimeInv => GateMatchesWriter
    BY DEF RuntimeInv, GateMatchesWriter, RecordingAgrees, OfferPlaces, OfferPlace,
           Admitting, Inside
  <1> QED
    BY <1>1, RuntimeInvariant, PTL

\* backend.shutdown owns the writer: no producer holds a clone of it.
THEOREM ShutdownIsAlone == RuntimeSpec => []ShutdownOwnsWriter
  <1>1. RuntimeInv => ShutdownOwnsWriter
    BY DEF RuntimeInv, ShutdownOwnsWriter, OfferPlaces, OfferPlace, PhaseOfStep,
           Recording, Admitting, Inside
  <1> QED
    BY <1>1, RuntimeInvariant, PTL

\* process_retry of the active generation always finds the writer.
THEOREM RetryFindsWriter == RuntimeSpec => []RetryHasWriter
  <1>1. RuntimeInv => RetryHasWriter
    <2> SUFFICES ASSUME RuntimeInv, retries # <<>> PROVE writer.slot
      BY DEF RetryHasWriter
    <2>1. 1 \in 1..Len(retries) /\ retries[1] \in Records
      BY SMTT(30) DEF RuntimeInv, RuntimeTypeOK
    <2>2. offer[retries[1]].at = "retry"
      BY <2>1 DEF RuntimeInv, RetriesExact
    <2> QED
      BY <2>1, <2>2 DEF RuntimeInv, OfferPlaces, OfferPlace, RecordingAgrees
  <1> QED
    BY <1>1, RuntimeInvariant, PTL

-----------------------------------------------------------------------------
(***************************************************************************)
(* The attended package installation.                                      *)
(*                                                                         *)
(* The properties rest on what a thread knows at each of its steps         *)
(* although it read the receipt long before: a session it found gone stays *)
(* gone, the check that holds the slot is the only one between the look at *)
(* the old receipt and the new one, and a confirmation is asked for once.  *)
(***************************************************************************)

-----------------------------------------------------------------------------
(* What an installer state says of a session or a plan. *)

Readback == "installed_readback_checkpoint_pending"
\* The states that say how a session ended, for good or but for the checkpoint.
Endings == TerminalStates \cup {Readback}

InstallerPhases == {"none", "open", "committed", "gone", "installed"}
InstallerStates ==
    [Sessions -> [phase : InstallerPhases, plan : Plans \cup {0}, shown : BOOLEAN]]
Goals == ReceiptStates \cup {"none"}
ThreadStates ==
    [job : Jobs, step : Steps,
     seen : [session : Sessions \cup {0}, plan : Plans \cup {0},
             state : ReceiptStates \cup {"none"}],
     goal : Goals]

Opened(s, i) == i[s].phase # "none"
Ended(s, i) == i[s].phase \in {"gone", "installed"}
InstalledFrom(p, i) == \E s \in Sessions : i[s].phase = "installed" /\ i[s].plan = p

\* Sessions only move on: what a thread knew of one stays true.
MovesOn(i, j) ==
    \A s \in Sessions :
        /\ Opened(s, i) => Opened(s, j)
        /\ Opened(s, i) /\ i[s].phase # "open" => j[s].phase # "open"
        /\ Ended(s, i) => Ended(s, j)
        /\ i[s].phase = "installed" => j[s].phase = "installed" /\ j[s].plan = i[s].plan

\* The session a thread works on exists, and has ended where the code relies on it.
Sound(th, i) ==
    /\ th.step \notin {"idle", "download", "open"} =>
          th.seen.session \in Sessions /\ Opened(th.seen.session, i)
    /\ th.step # "idle" => th.seen.plan \in Plans
    /\ th.step \in {"download", "open"} => th.seen.state = "none"
    /\ th.step \in {"inspect", "verify", "advance", "store"} => Ended(th.seen.session, i)
    /\ th.step \in {"advance", "store"} => InstalledFrom(th.seen.plan, i)
    /\ th.seen.state = Readback => th.seen.session \in Sessions /\ Ended(th.seen.session, i)
    /\ th.step \in {"abandon_staged", "inspect", "abandon", "write"} => th.goal \in ReceiptStates

\* A worker ends a receipt only after its session, and a check between the open
\* session and its receipt has the slot and an ended receipt before it.
WorkerOK(w, th, i, r, sl) ==
    /\ th.step = "write" /\ th.goal \in Endings => Ended(th.seen.session, i)
    /\ th.job = "check" => sl = w
    /\ th.step \in CheckSteps \cup {"abandon_staged", "inspect"} => th.job = "check"
    /\ th.step \in {"copy", "begin"} => ~Live(r) /\ r.session # th.seen.session
    /\ th.step # "confirm"

\* A callback works on the receipt's session; while it asks for the confirmation
\* nothing was shown yet and nobody else will ask.
MainOK(th, i, r, cb) ==
    /\ th.step \in {"idle", "confirm", "verify", "advance", "store", "write", "clean"}
    /\ th.step # "idle" => r.session = th.seen.session
    /\ th.step = "confirm" =>
          /\ i[th.seen.session].phase # "open" /\ ~i[th.seen.session].shown
          /\ [session |-> th.seen.session, status |-> "pending_user_action"] \notin cb
          /\ th.goal = "install_failed"
    /\ th.step = "write" =>
          /\ th.goal \in Endings
          /\ Ended(th.seen.session, i) \/ (~i[th.seen.session].shown /\ th.goal # Readback)

ReceiptOK(r, i) ==
    /\ r # NoReceipt => r.session \in Sessions /\ Opened(r.session, i)
    /\ r.state = Readback => Ended(r.session, i)

\* What a broadcast says has happened, and a confirmation is asked for once.
CallbacksOK(cb, i) ==
    \A c \in cb :
        /\ c.status = "pending_user_action" =>
              /\ Opened(c.session, i) /\ i[c.session].phase # "open"
              /\ ~i[c.session].shown
        /\ c.status # "pending_user_action" => Ended(c.session, i)

ShownOK(i) == \A s \in Sessions : i[s].phase \in {"none", "open"} => ~i[s].shown

Inv ==
    /\ TypeOK
    /\ \A t \in Threads : Sound(thread[t], installer)
    /\ \A w \in Workers : WorkerOK(w, thread[w], installer, receipt, slot)
    /\ MainOK(thread[Main], installer, receipt, callbacks)
    /\ ReceiptOK(receipt, installer) /\ CallbacksOK(callbacks, installer)
    /\ ShownOK(installer)
    /\ installed # 0 => InstalledFrom(installed, installer)
    /\ CheckpointWasInstalled
    /\ ApprovalIsTracked

-----------------------------------------------------------------------------
(* What is known of a session survives its moving on. *)

\* An installer state moves on to itself.
LEMMA StandsStill == ASSUME NEW i PROVE MovesOn(i, i)
  BY DEF MovesOn

\* An installed plan stays installed.
LEMMA StaysInstalled ==
    ASSUME NEW p, NEW i, NEW j, MovesOn(i, j), InstalledFrom(p, i)
    PROVE  InstalledFrom(p, j)
  BY DEF MovesOn, InstalledFrom

\* What a thread knows stays true while the installer's sessions move on.
LEMMA StaysSound ==
    ASSUME NEW th, NEW i, NEW j, MovesOn(i, j), Sound(th, i)
    PROVE  Sound(th, j)
  <1>1. InstalledFrom(th.seen.plan, i) => InstalledFrom(th.seen.plan, j)
    BY StaysInstalled
  <1>2. th.step \notin {"idle", "download", "open"} =>
           th.seen.session \in Sessions /\ Opened(th.seen.session, j)
    BY DEF Sound, MovesOn
  <1>3. th.step \in {"inspect", "verify", "advance", "store"} => Ended(th.seen.session, j)
    BY DEF Sound, MovesOn
  <1>4. th.seen.state = Readback => th.seen.session \in Sessions /\ Ended(th.seen.session, j)
    BY DEF Sound, MovesOn
  <1> QED BY <1>1, <1>2, <1>3, <1>4 DEF Sound

\* A worker is not disturbed by a step of another thread that keeps the receipt's
\* session, revives no receipt and leaves the worker's slot alone.
LEMMA WorkerUndisturbed ==
    ASSUME NEW w, NEW th, NEW i, NEW j, NEW r, NEW q, NEW sl, NEW sn,
           WorkerOK(w, th, i, r, sl), Sound(th, i), MovesOn(i, j),
           q.session = r.session, Live(q) => Live(r), sl = w => sn = w
    PROVE  WorkerOK(w, th, j, q, sn)
  <1>1. th.step = "write" => th.seen.session \in Sessions
    BY DEF Sound
  <1>2. th.step = "write" /\ th.goal \in Endings => Ended(th.seen.session, j)
    BY <1>1 DEF WorkerOK, MovesOn
  <1> QED BY <1>2 DEF WorkerOK

\* Nor is a callback, as long as nothing is shown and nobody asks for a session that
\* is committed already.
LEMMA MainUndisturbed ==
    ASSUME NEW th, NEW i, NEW j, NEW r, NEW q, NEW cb, NEW ca,
           MainOK(th, i, r, cb), Sound(th, i), MovesOn(i, j), q.session = r.session,
           \A s \in Sessions : j[s].shown => i[s].shown,
           \A s \in Sessions :
               [session |-> s, status |-> "pending_user_action"] \in ca \ cb =>
                   i[s].phase = "open"
    PROVE  MainOK(th, j, q, ca)
  <1>1. th.step \in {"confirm", "write"} => th.seen.session \in Sessions /\ Opened(th.seen.session, i)
    BY DEF Sound
  <1>2. th.step = "confirm" =>
          /\ j[th.seen.session].phase # "open" /\ ~j[th.seen.session].shown
          /\ [session |-> th.seen.session, status |-> "pending_user_action"] \notin ca
    BY <1>1 DEF MainOK, MovesOn
  <1>3. th.step = "write" =>
          /\ th.goal \in Endings
          /\ Ended(th.seen.session, j) \/ (~j[th.seen.session].shown /\ th.goal # Readback)
    BY <1>1 DEF MainOK, MovesOn
  <1> QED BY <1>2, <1>3 DEF MainOK

\* The receipt and the broadcasts stay true in the same way.
LEMMA EvidenceUndisturbed ==
    ASSUME NEW i, NEW j, NEW r, NEW cb, MovesOn(i, j),
           cb \subseteq [session : Sessions, status : Statuses],
           \A s \in Sessions : j[s].shown => i[s].shown,
           ReceiptOK(r, i), CallbacksOK(cb, i), r.state = Readback => r # NoReceipt
    PROVE  ReceiptOK(r, j) /\ CallbacksOK(cb, j)
  <1>1. ReceiptOK(r, j)
    BY DEF ReceiptOK, MovesOn
  <1>2. CallbacksOK(cb, j)
    BY DEF CallbacksOK, MovesOn
  <1> QED BY <1>1, <1>2

-----------------------------------------------------------------------------
(* The records of the model. *)

\* The assumptions on the constants, with what they say of plans and sessions.
LEMMA Constants ==
    /\ Main \notin Workers /\ Nobody \notin Workers
    /\ MaxPlan \in Nat \ {0} /\ MaxSession \in Nat \ {0} /\ MaxJobs \in Nat /\ MaxFaults \in Nat
    /\ 0 \notin Sessions /\ 0 \notin Plans
  BY PackageInstallAssumption, SMTT(30) DEF Sessions, Plans

\* An idle thread, and a receipt, are of their types.
LEMMA RecordTypes ==
    /\ Idle \in ThreadStates /\ Idle.step = "idle" /\ Idle.job = "none" /\ Idle.goal = "none"
    /\ Idle.seen = NoReceipt /\ NoReceipt.state = "none" /\ NoReceipt.session = 0
    /\ Readback \in ReceiptStates /\ Readback \notin TerminalStates /\ Readback # "none"
    /\ "none" \notin ReceiptStates /\ ~Live(NoReceipt)
  BY DEF Idle, NoReceipt, ThreadStates, Goals, Jobs, Steps, Readback, ReceiptStates,
     TerminalStates, Live

\* TypeOK in terms of the sets used here.
LEMMA Types ==
    ASSUME TypeOK
    PROVE  /\ installer \in InstallerStates /\ thread \in [Threads -> ThreadStates]
           /\ Main \in Threads /\ Workers \subseteq Threads
           /\ receipt \in Receipts \cup {NoReceipt}
           /\ callbacks \subseteq [session : Sessions, status : Statuses]
  BY DEF TypeOK, InstallerStates, InstallerPhases, ThreadStates, Goals, Threads

SetThread(t, n) == thread' = [thread EXCEPT ![t] = n]

\* A thread moves to a step, with a goal.
StepsTo(t, s, g) ==
    \/ thread' = [thread EXCEPT ![t].step = s, ![t].goal = g]
    \/ Goto(t, s) /\ g = thread[t].goal
Moved(t, s, g) == [thread[t] EXCEPT !.step = s, !.goal = g]

\* What a thread that moved to another step is.
LEMMA ThreadMoved ==
    ASSUME TypeOK, NEW t \in Threads, NEW s \in Steps, NEW g \in Goals,
           StepsTo(t, s, g)
    PROVE  /\ SetThread(t, Moved(t, s, g))
           /\ Moved(t, s, g) \in ThreadStates
           /\ Moved(t, s, g).step = s /\ Moved(t, s, g).goal = g
           /\ Moved(t, s, g).seen = thread[t].seen /\ Moved(t, s, g).job = thread[t].job
  <1>1. thread[t] \in ThreadStates /\ thread \in [Threads -> ThreadStates]
    BY Types
  <1>2. /\ Moved(t, s, g) \in ThreadStates
        /\ Moved(t, s, g).step = s /\ Moved(t, s, g).goal = g
        /\ Moved(t, s, g).seen = thread[t].seen /\ Moved(t, s, g).job = thread[t].job
    BY <1>1 DEF ThreadStates, Moved
  <1>3. CASE thread' = [thread EXCEPT ![t].step = s, ![t].goal = g]
    <2>1. SetThread(t, Moved(t, s, g))
      BY <1>3 DEF Moved, SetThread
    <2> QED BY <1>2, <2>1
  <1>4. CASE Goto(t, s) /\ g = thread[t].goal
    <2>1. Moved(t, s, g) = [thread[t] EXCEPT !.step = s]
      BY <1>1, <1>4 DEF ThreadStates, Moved
    <2>2. SetThread(t, Moved(t, s, g))
      BY <1>4, <2>1 DEF Goto, SetThread
    <2> QED BY <1>2, <2>2
  <1> QED BY <1>3, <1>4 DEF StepsTo

-----------------------------------------------------------------------------
(* A step of one thread that leaves receipt, installer and broadcasts alone. *)

Untouched == UNCHANGED <<receipt, installer, callbacks, installed>>

\* The other variables keep their types, and a new checkpoint was installed.
RestOK ==
    /\ staged' \subseteq Plans /\ expired' \subseteq Plans
    /\ jobs' \in 0..MaxJobs /\ faults' \in 0..MaxFaults
    /\ checkpoint' \in Plans \cup {0}
    /\ checkpoint' # checkpoint => InstalledFrom(checkpoint', installer)

\* Such a step keeps the invariant when it leaves its own thread sound.
LEMMA Moves ==
    ASSUME Inv, NEW t \in Threads, NEW n \in ThreadStates,
           SetThread(t, n), Untouched, RestOK,
           slot' \in Workers \cup {Nobody}, Sound(n, installer),
           t \in Workers => WorkerOK(t, n, installer, receipt, slot'),
           t = Main => MainOK(n, installer, receipt, callbacks),
           \A v \in Workers \ {t} : slot = v => slot' = v
    PROVE  Inv'
  <1>1. TypeOK /\ thread \in [Threads -> ThreadStates] /\ Main \in Threads /\ Workers \subseteq Threads
    BY Types DEF Inv
  <1>2. /\ thread' \in [Threads -> ThreadStates] /\ thread'[t] = n
        /\ \A v \in Threads \ {t} : thread'[v] = thread[v]
    BY <1>1 DEF SetThread
  <1>3. TypeOK'
    BY <1>1, <1>2 DEF TypeOK, Untouched, RestOK, ThreadStates, Goals
  <1>4. \A v \in Threads : Sound(thread'[v], installer')
    BY <1>2 DEF Inv, Untouched
  <1>5. ASSUME NEW v \in Workers PROVE WorkerOK(v, thread'[v], installer', receipt', slot')
    <2>1. CASE v = t
      BY <1>2, <2>1 DEF Untouched
    <2>2. CASE v # t
      <3>1. WorkerOK(v, thread[v], installer, receipt, slot')
        BY <1>1, <1>5, <2>2, StandsStill, WorkerUndisturbed DEF Inv
      <3> QED BY <1>1, <1>2, <2>2, <3>1 DEF Untouched
    <2> QED BY <2>1, <2>2
  <1>6. MainOK(thread'[Main], installer', receipt', callbacks')
    BY <1>1, <1>2 DEF Inv, Untouched
  <1>7. CheckpointWasInstalled'
    BY DEF Inv, CheckpointWasInstalled, RestOK, Untouched, InstalledFrom
  <1>8. /\ ReceiptOK(receipt', installer') /\ CallbacksOK(callbacks', installer')
        /\ ShownOK(installer') /\ (installed' # 0 => InstalledFrom(installed', installer'))
        /\ ApprovalIsTracked'
    BY DEF Inv, Untouched, ApprovalIsTracked
  <1> QED BY <1>3, <1>4, <1>5, <1>6, <1>7, <1>8 DEF Inv

\* The job of a thread ends.
LEMMA Ends ==
    ASSUME Inv, NEW t \in Threads, Returns(t), Untouched, RestOK
    PROVE  Inv'
  <1>1. SetThread(t, Idle) /\ slot' = IF slot = t THEN Nobody ELSE slot
    BY DEF Returns, SetThread
  <1>2. Sound(Idle, installer) /\ MainOK(Idle, installer, receipt, callbacks)
    BY RecordTypes DEF Sound, MainOK
  <1>3. WorkerOK(t, Idle, installer, receipt, slot')
    BY RecordTypes DEF WorkerOK, CheckSteps
  <1>4. slot' \in Workers \cup {Nobody} /\ \A v \in Workers \ {t} : slot = v => slot' = v
    BY <1>1 DEF Inv, TypeOK
  <1> QED BY <1>1, <1>2, <1>3, <1>4, RecordTypes, Moves

\* A thread may move on to step s with goal g: where that step relies on the session
\* having ended, or on its plan being installed, it is known.
MayGo(t, s, g, i) ==
    LET here == thread[t].step
        seen == thread[t].seen
    IN /\ s \in Steps \ {"idle", "download", "open", "confirm"}
       /\ g \in Goals
       /\ here \notin {"idle", "download", "open"}
       /\ s \in {"inspect", "verify", "advance", "store"} => Ended(seen.session, i)
       /\ s \in {"advance", "store"} => InstalledFrom(seen.plan, i)
       /\ s \in {"abandon_staged", "inspect", "abandon", "write"} => g \in ReceiptStates
       /\ s = "write" /\ g \in Endings =>
             \/ Ended(seen.session, i)
             \/ t = Main /\ g # Readback /\ ~i[seen.session].shown
       /\ s \in {"copy", "begin"} => here \in {"copy", "begin"} /\ t \in Workers
       /\ s \in CheckSteps \cup {"abandon_staged", "inspect"} =>
             here \in CheckSteps \cup {"abandon_staged", "inspect"}
       /\ t = Main => s \in {"verify", "advance", "store", "write", "clean"}
       /\ t = Main /\ s = "write" => g \in Endings

MayStep(t, s, g) == MayGo(t, s, g, installer)

\* A thread that moves to a step it may take keeps the invariant.
LEMMA StepsOn ==
    ASSUME Inv, NEW t \in Threads, NEW s, NEW g, MayStep(t, s, g), StepsTo(t, s, g),
           Untouched, RestOK, UNCHANGED slot
    PROVE  Inv'
  <1> DEFINE n == Moved(t, s, g)
  <1>1. /\ SetThread(t, n) /\ n \in ThreadStates
        /\ n.step = s /\ n.goal = g /\ n.seen = thread[t].seen /\ n.job = thread[t].job
    <2>1. s \in Steps /\ g \in Goals /\ TypeOK
      BY DEF MayStep, MayGo, Inv
    <2> QED BY <2>1, ThreadMoved, SMTT(30)
  <1> HIDE DEF n
  <1>2. Sound(thread[t], installer)
    BY DEF Inv
  <1>3. Sound(n, installer)
    BY <1>1, <1>2 DEF Sound, MayStep, MayGo
  <1>4. ASSUME t \in Workers PROVE WorkerOK(t, n, installer, receipt, slot')
    <2>1. WorkerOK(t, thread[t], installer, receipt, slot) /\ t # Main
      BY <1>4, Constants DEF Inv
    <2> QED BY <1>1, <2>1 DEF WorkerOK, MayStep, MayGo
  <1>5. ASSUME t = Main PROVE MainOK(n, installer, receipt, callbacks)
    <2>1. MainOK(thread[t], installer, receipt, callbacks)
      BY <1>5 DEF Inv
    <2>2. s = "write" =>
            /\ g \in Endings
            /\ \/ Ended(thread[t].seen.session, installer)
               \/ ~installer[thread[t].seen.session].shown /\ g # Readback
      BY <1>5 DEF MayStep, MayGo
    <2>3. s \in {"verify", "advance", "store", "write", "clean"} /\ thread[t].step # "idle"
      BY <1>5 DEF MayStep, MayGo
    <2>4. receipt.session = thread[t].seen.session
      BY <2>1, <2>3 DEF MainOK
    <2> QED BY <1>1, <2>2, <2>3, <2>4 DEF MainOK
  <1>6. slot' \in Workers \cup {Nobody}
    BY DEF Inv, TypeOK
  <1> QED BY <1>1, <1>3, <1>4, <1>5, <1>6, Moves

-----------------------------------------------------------------------------
(* The actions that move one thread and nothing the others look at. *)

JobsOK == jobs' \in 0..MaxJobs

\* The rest keeps its type when disk and world do.
LEMMA RestKept ==
    ASSUME Inv, JobsOK, UNCHANGED <<disk, world>>
    PROVE  RestOK /\ Untouched
  BY DEF Inv, TypeOK, JobsOK, disk, world, RestOK, Untouched

\* A failing step counts as a fault and keeps the bound.
LEMMA FaultKept ==
    ASSUME Inv, Fault
    PROVE  faults' \in 0..MaxFaults
  BY Constants, SMTT(30) DEF Inv, TypeOK, Fault

\* The types of what a thread read and of a live receipt.
LEMMA SeenTypes ==
    ASSUME Inv, NEW t \in Threads
    PROVE  /\ thread[t].seen.session \in Sessions \cup {0}
           /\ thread[t].seen.plan \in Plans \cup {0}
           /\ thread[t].seen.state \in ReceiptStates \cup {"none"}
           /\ thread[t].goal \in Goals
           /\ thread[t].step \in Steps
           /\ receipt # NoReceipt =>
                 /\ receipt \in Receipts /\ receipt.session \in Sessions
                 /\ receipt.plan \in Plans /\ receipt.state \in ReceiptStates
  BY Types DEF Inv, ThreadStates, Receipts, Goals

\* A thread that starts on the live receipt.
LEMMA Takes ==
    ASSUME Inv, NEW w \in Workers, NEW n \in ThreadStates,
           SetThread(w, n), Live(receipt),
           n.step \in {"look", "cancel", "reread"}, n.seen = receipt,
           n.job = "check" => thread[w].job = "check",
           UNCHANGED <<disk, world, slot>>, JobsOK
    PROVE  Inv'
  <1>1. receipt # NoReceipt /\ w \in Threads
    BY Types DEF Inv, Live
  <1>2. receipt.session \in Sessions /\ receipt.plan \in Plans
    BY <1>1, SeenTypes
  <1>3. Sound(n, installer)
    BY <1>1, <1>2 DEF Inv, ReceiptOK, Sound
  <1>4. WorkerOK(w, n, installer, receipt, slot')
    BY DEF Inv, WorkerOK, CheckSteps
  <1>5. slot' \in Workers \cup {Nobody} /\ w # Main
    BY Constants DEF Inv, TypeOK
  <1>6. RestOK /\ Untouched
    BY RestKept
  <1> QED BY <1>1, <1>3, <1>4, <1>5, <1>6, Moves

\* A check starts with the free slot (UpdateOperationCoordinator.run).
LEMMA StartCheckInv == ASSUME Inv, NEW w \in Workers, StartCheck(w), JobsOK PROVE Inv'
  <1>1. PICK p \in Plans \ expired :
          thread' = [thread EXCEPT ![w] = [Idle EXCEPT !.job = "check", !.step = "download",
                                             !.seen = [NoReceipt EXCEPT !.plan = p]]]
    BY DEF StartCheck
  <1> DEFINE y == [NoReceipt EXCEPT !.plan = p]
             n == [Idle EXCEPT !.job = "check", !.step = "download", !.seen = y]
  <1>2. SetThread(w, n)
    BY <1>1 DEF SetThread
  <1>3. /\ y \in [session : Sessions \cup {0}, plan : Plans \cup {0},
                  state : ReceiptStates \cup {"none"}]
        /\ y.plan = p /\ y.state = "none"
    BY DEF NoReceipt
  <1> HIDE DEF y
  <1>4. /\ n \in ThreadStates /\ n.step = "download" /\ n.job = "check" /\ n.seen = y
    <2>1. "check" \in Jobs /\ "download" \in Steps
      BY DEF Jobs, Steps, CheckSteps
    <2> QED BY <1>3, <2>1, RecordTypes DEF ThreadStates
  <1> HIDE DEF n
  <1>5. Sound(n, installer)
    BY <1>3, <1>4 DEF Sound, Readback
  <1>6. WorkerOK(w, n, installer, receipt, slot')
    BY <1>4 DEF WorkerOK, StartCheck, CheckSteps
  <1>7. slot = Nobody /\ slot' = w /\ w \in Threads /\ w # Main /\ UNCHANGED <<disk, world>>
    BY Constants, Types DEF StartCheck, SlotFree, Inv
  <1>8. slot' \in Workers \cup {Nobody} /\ \A v \in Workers \ {w} : slot = v => slot' = v
    BY <1>7, Constants
  <1>9. RestOK /\ Untouched
    BY <1>7, RestKept
  <1> QED BY <1>2, <1>4, <1>5, <1>6, <1>7, <1>8, <1>9, Moves

\* The APK is downloaded and staged.
LEMMA DownloadInv == ASSUME Inv, NEW w \in Workers, Download(w), JobsOK PROVE Inv'
  <1>1. w \in Threads /\ w # Main /\ thread[w].step = "download"
    BY Constants, Types DEF Inv, Download, At
  <1>2. Sound(thread[w], installer) /\ WorkerOK(w, thread[w], installer, receipt, slot)
    BY <1>1 DEF Inv
  <1> DEFINE n == Moved(w, "open", thread[w].goal)
  <1>3. /\ SetThread(w, n) /\ n \in ThreadStates
        /\ n.step = "open" /\ n.seen = thread[w].seen /\ n.job = thread[w].job
    <2>1. "open" \in Steps /\ thread[w].goal \in Goals
          /\ StepsTo(w, "open", thread[w].goal) /\ TypeOK
      BY <1>1, SeenTypes DEF Download, Steps, CheckSteps, StepsTo, Inv
    <2> QED BY <1>1, <2>1, ThreadMoved, SMTT(30)
  <1> HIDE DEF n
  <1>4. Sound(n, installer)
    BY <1>1, <1>2, <1>3 DEF Sound
  <1>5. WorkerOK(w, n, installer, receipt, slot')
    BY <1>1, <1>2, <1>3 DEF WorkerOK, CheckSteps, Download
  <1>6. slot' \in Workers \cup {Nobody} /\ UNCHANGED slot
    BY DEF Inv, TypeOK, Download
  <1>7. thread[w].seen.plan \in Plans
    BY <1>1, <1>2 DEF Sound
  <1>8. RestOK /\ Untouched
    BY <1>7 DEF Download, Inv, TypeOK, JobsOK, world, RestOK, Untouched
  <1> QED BY <1>1, <1>3, <1>4, <1>5, <1>6, <1>8, Moves

\* The staged APK is copied into the open session, or is missing.
LEMMA CopyApkInv == ASSUME Inv, NEW w \in Workers, CopyApk(w), JobsOK PROVE Inv'
  <1>1. w \in Threads /\ w # Main /\ thread[w].step = "copy" /\ UNCHANGED <<disk, world, slot>>
    BY Constants, Types DEF Inv, CopyApk, At
  <1>2. RestOK /\ Untouched /\ thread[w].goal \in Goals
    BY <1>1, RestKept, SeenTypes
  <1>3. CASE Goto(w, "begin")
    <2>1. MayStep(w, "begin", thread[w].goal)
      BY <1>1, <1>2 DEF MayStep, MayGo, Steps, CheckSteps
    <2>2. StepsTo(w, "begin", thread[w].goal)
      BY <1>3 DEF StepsTo
    <2> QED BY <1>1, <1>2, <2>1, <2>2, StepsOn
  <1>4. CASE StagingFails(w, "install_failed")
    <2>1. MayStep(w, "abandon_staged", "install_failed")
      BY <1>1, <1>2 DEF MayStep, MayGo, Steps, CheckSteps, Goals, ReceiptStates, TerminalStates,
           Endings, Readback
    <2>2. StepsTo(w, "abandon_staged", "install_failed")
      BY <1>4 DEF StepsTo, StagingFails
    <2> QED BY <1>1, <1>2, <2>1, <2>2, StepsOn
  <1> QED BY <1>3, <1>4 DEF CopyApk

\* A check fails before its session is committed.
LEMMA CheckFailsInv == ASSUME Inv, NEW w \in Workers, CheckFails(w), JobsOK PROVE Inv'
  <1>1. w \in Threads /\ w # Main
    BY Constants, Types DEF Inv
  <1>2. RestOK /\ Untouched
    BY FaultKept DEF CheckFails, Inv, TypeOK, JobsOK, disk, RestOK, Untouched
  <1>3. CASE Returns(w)
    BY <1>1, <1>2, <1>3, Ends
  <1>4. ASSUME NEW why \in {"install_cancelled", "install_failed"}, StagingFails(w, why),
               thread[w].step \in {"copy", "begin", "request", "commit"}, UNCHANGED slot
        PROVE  Inv'
    <2>1. MayStep(w, "abandon_staged", why)
      BY <1>1, <1>4 DEF MayStep, MayGo, Steps, CheckSteps, Goals, ReceiptStates, TerminalStates,
           Endings, Readback
    <2>2. StepsTo(w, "abandon_staged", why)
      BY <1>4 DEF StepsTo, StagingFails
    <2> QED BY <1>1, <1>2, <1>4, <2>1, <2>2, StepsOn
  <1> QED BY <1>3, <1>4 DEF CheckFails

\* The exception handler of stageAttendedInstall looks at the receipt.
LEMMA InspectFailedInv == ASSUME Inv, NEW w \in Workers, InspectFailed(w), JobsOK PROVE Inv'
  <1>1. w \in Threads /\ w # Main /\ thread[w].step = "inspect" /\ UNCHANGED <<disk, world>>
    BY Constants, Types DEF Inv, InspectFailed, At
  <1>2. RestOK /\ Untouched /\ thread[w].goal \in Goals
    BY <1>1, RestKept, SeenTypes
  <1>3. Ended(thread[w].seen.session, installer) /\ thread[w].goal \in ReceiptStates
    BY <1>1 DEF Inv, Sound
  <1>4. ASSUME NEW s \in {"clean", "write"}, Goto(w, s), UNCHANGED slot PROVE Inv'
    <2>1. MayStep(w, s, thread[w].goal)
      BY <1>1, <1>2, <1>3 DEF MayStep, MayGo, Steps, CheckSteps
    <2>2. StepsTo(w, s, thread[w].goal)
      BY <1>4 DEF StepsTo
    <2> QED BY <1>1, <1>2, <1>4, <2>1, <2>2, StepsOn
  <1>5. CASE Returns(w)
    BY <1>1, <1>2, <1>5, Ends
  <1> QED BY <1>4, <1>5 DEF InspectFailed

\* The job an idle worker takes up on the live receipt.
LEMMA Taken ==
    ASSUME Inv, Live(receipt), NEW j \in Jobs, NEW s \in Steps
    PROVE  LET n == [Idle EXCEPT !.job = j, !.step = s, !.seen = receipt] IN
           n \in ThreadStates /\ n.step = s /\ n.seen = receipt /\ n.job = j
  <1>1. receipt \in [session : Sessions \cup {0}, plan : Plans \cup {0},
                     state : ReceiptStates \cup {"none"}]
    BY SMTT(30) DEF Inv, TypeOK, Receipts, NoReceipt
  <1> QED BY <1>1, RecordTypes DEF ThreadStates

\* onResume reads the live receipt.
LEMMA ResumeInv == ASSUME Inv, NEW w \in Workers, Resume(w), JobsOK PROVE Inv'
  <1> DEFINE n == [Idle EXCEPT !.job = "reconcile", !.step = "look", !.seen = receipt]
  <1>1. "reconcile" \in Jobs /\ "look" \in Steps
    BY DEF Jobs, Steps
  <1>2. SetThread(w, n) /\ Live(receipt) /\ UNCHANGED <<disk, world, slot>>
    BY DEF Resume, SetThread
  <1>3. n \in ThreadStates /\ n.step = "look" /\ n.seen = receipt /\ n.job = "reconcile"
    BY <1>1, <1>2, Taken
  <1> HIDE DEF n
  <1> QED BY <1>2, <1>3, Takes

\* A cancellation reads the live receipt.
LEMMA AskCancelInv == ASSUME Inv, NEW w \in Workers, AskCancel(w), JobsOK PROVE Inv'
  <1> DEFINE s == IF receipt.state = "installed_readback_checkpoint_pending" THEN "reread" ELSE "cancel"
             n == [Idle EXCEPT !.job = "cancel", !.step = s, !.seen = receipt]
  <1>1. "cancel" \in Jobs /\ s \in Steps /\ s \in {"reread", "cancel"}
    BY DEF Jobs, Steps
  <1>2. SetThread(w, n) /\ Live(receipt) /\ UNCHANGED <<disk, world, slot>>
    <2>1. [Idle EXCEPT !.job = "cancel", !.seen = receipt, !.step = s] = n
      BY RecordTypes DEF ThreadStates
    <2> QED BY <2>1 DEF AskCancel, SetThread
  <1> HIDE DEF s
  <1>3. n \in ThreadStates /\ n.step = s /\ n.seen = receipt /\ n.job = "cancel"
    BY <1>1, <1>2, Taken
  <1> HIDE DEF n
  <1> QED BY <1>1, <1>2, <1>3, Takes

\* A cancellation goes on to reconcile what the receipt says by now.
LEMMA RereadInv == ASSUME Inv, NEW w \in Workers, Reread(w), JobsOK PROVE Inv'
  <1>1. w \in Threads /\ UNCHANGED <<disk, world>> /\ thread[w] \in ThreadStates
    BY Types DEF Inv, Reread
  <1>2. CASE Returns(w)
    BY <1>1, <1>2, RestKept, Ends
  <1>3. CASE /\ Live(receipt) /\ UNCHANGED slot
             /\ thread' = [thread EXCEPT ![w].step = "look", ![w].seen = receipt]
    <2> DEFINE n == [thread[w] EXCEPT !.step = "look", !.seen = receipt]
    <2>1. SetThread(w, n)
      BY <1>3 DEF SetThread
    <2>2. n \in ThreadStates /\ n.step = "look" /\ n.seen = receipt /\ n.job = thread[w].job
      <3>1. receipt \in [session : Sessions \cup {0}, plan : Plans \cup {0},
                         state : ReceiptStates \cup {"none"}] /\ "look" \in Steps
        BY SMTT(30) DEF Inv, TypeOK, Receipts, NoReceipt, Steps
      <3> QED BY <1>1, <3>1 DEF ThreadStates
    <2> HIDE DEF n
    <2> QED BY <1>1, <1>3, <2>1, <2>2, Takes
  <1> QED BY <1>2, <1>3 DEF Reread

\* cancelPersistedSession decides from the copy it read.
LEMMA CancelInv == ASSUME Inv, NEW w \in Workers, Cancel(w), JobsOK PROVE Inv'
  <1>1. w \in Threads /\ w # Main /\ thread[w].step = "cancel" /\ UNCHANGED <<disk, world>>
    BY Constants, Types DEF Inv, Cancel, At
  <1>2. RestOK /\ Untouched /\ thread[w].goal \in Goals
    BY <1>1, RestKept, SeenTypes
  <1>3. CASE Returns(w)
    BY <1>1, <1>2, <1>3, Ends
  <1>4. CASE Goto(w, "reread") /\ UNCHANGED slot
    <2>1. MayStep(w, "reread", thread[w].goal)
      BY <1>1, <1>2 DEF MayStep, MayGo, Steps, CheckSteps
    <2>2. StepsTo(w, "reread", thread[w].goal)
      BY <1>4 DEF StepsTo
    <2> QED BY <1>1, <1>2, <1>4, <2>1, <2>2, StepsOn
  <1>5. CASE CancelCommitted(w) /\ UNCHANGED slot
    <2>1. MayStep(w, "write", "cancel_requested")
      BY <1>1, <1>2 DEF MayStep, MayGo, Steps, CheckSteps, Goals, ReceiptStates, TerminalStates,
                        Endings, Readback
    <2>2. StepsTo(w, "write", "cancel_requested")
      BY <1>5 DEF StepsTo, CancelCommitted, Writing
    <2> QED BY <1>1, <1>2, <1>5, <2>1, <2>2, StepsOn
  <1>6. CASE AbandonThen(w, "install_cancelled") /\ UNCHANGED slot
    <2>1. MayStep(w, "abandon", "install_cancelled")
      BY <1>1, <1>2 DEF MayStep, MayGo, Steps, CheckSteps, Goals, ReceiptStates, TerminalStates,
           Endings, Readback
    <2>2. StepsTo(w, "abandon", "install_cancelled")
      BY <1>6 DEF StepsTo, AbandonThen
    <2> QED BY <1>1, <1>2, <1>6, <2>1, <2>2, StepsOn
  <1> QED BY <1>3, <1>4, <1>5, <1>6 DEF Cancel

\* reconcilePersistedSession decides from the copy it read: a session it finds gone
\* has ended for good.
LEMMA LookInv == ASSUME Inv, NEW w \in Workers, Look(w), JobsOK PROVE Inv'
  <1> DEFINE seen == thread[w].seen
  <1>1. w \in Threads /\ w # Main /\ thread[w].step = "look" /\ UNCHANGED <<disk, world, slot>>
    BY Constants, Types DEF Inv, Look, At
  <1>2. RestOK /\ Untouched /\ thread[w].goal \in Goals
    BY <1>1, RestKept, SeenTypes
  <1>3. Sound(thread[w], installer) /\ seen.session \in Sessions /\ Opened(seen.session, installer)
    BY <1>1 DEF Inv, Sound
  <1>4. CASE seen.state = Readback \/ ~Present(seen.session)
    <2>1. Goto(w, "verify")
      BY <1>4 DEF Look, Readback
    <2>2. Ended(seen.session, installer)
      <3>1. installer[seen.session].phase \in InstallerPhases
        BY <1>3, Types DEF Inv, InstallerStates
      <3> QED BY <1>3, <1>4, <3>1 DEF Sound, Present, Opened, Ended, InstallerPhases
    <2>3. MayStep(w, "verify", thread[w].goal)
      BY <1>1, <1>2, <2>2 DEF MayStep, MayGo, Steps, CheckSteps
    <2>4. StepsTo(w, "verify", thread[w].goal)
      BY <2>1 DEF StepsTo
    <2> QED BY <1>1, <1>2, <2>3, <2>4, StepsOn
  <1>5. ASSUME NEW g \in {"cancel_requested", "session_present_awaiting_wearer"}, Writing(w, g)
        PROVE  Inv'
    <2>1. MayStep(w, "write", g)
      BY <1>1, <1>2, <1>5 DEF MayStep, MayGo, Steps, CheckSteps, Goals, ReceiptStates,
         TerminalStates,
                        Endings, Readback
    <2>2. StepsTo(w, "write", g)
      BY <1>5 DEF StepsTo, Writing
    <2> QED BY <1>1, <1>2, <1>5, <2>1, <2>2, StepsOn
  <1>6. ASSUME NEW g \in {"install_cancelled", "install_failed"}, AbandonThen(w, g)
        PROVE  Inv'
    <2>1. MayStep(w, "abandon", g)
      BY <1>1, <1>2, <1>6 DEF MayStep, MayGo, Steps, CheckSteps, Goals, ReceiptStates,
         TerminalStates,
           Endings, Readback
    <2>2. StepsTo(w, "abandon", g)
      BY <1>6 DEF StepsTo, AbandonThen
    <2> QED BY <1>1, <1>2, <1>6, <2>1, <2>2, StepsOn
  <1>7. CASE ~(seen.state = Readback \/ ~Present(seen.session))
    BY <1>5, <1>6, <1>7 DEF Look, Readback
  <1> QED BY <1>4, <1>7

(* What reconciliation and the success callback share. *)

\* What is read back as installed was installed from some session.
LEMMA VerifyReadbackInv == ASSUME Inv, NEW t \in Threads, VerifyReadback(t), JobsOK PROVE Inv'
  <1>1. thread[t].step = "verify" /\ UNCHANGED <<disk, world, slot>>
    BY DEF VerifyReadback, At
  <1>2. RestOK /\ Untouched /\ thread[t].goal \in Goals
    BY <1>1, RestKept, SeenTypes
  <1>3. Ended(thread[t].seen.session, installer) /\ thread[t].seen.plan \in Plans
    BY <1>1 DEF Inv, Sound
  <1>4. CASE ReadsBack(thread[t].seen.plan) /\ Goto(t, "advance")
    <2>1. InstalledFrom(thread[t].seen.plan, installer)
      BY <1>3, <1>4, Constants DEF Inv, ReadsBack
    <2>2. MayStep(t, "advance", thread[t].goal)
      BY <1>1, <1>2, <1>3, <2>1 DEF MayStep, MayGo, Steps, CheckSteps
    <2>3. StepsTo(t, "advance", thread[t].goal)
      BY <1>4 DEF StepsTo
    <2> QED BY <1>1, <1>2, <2>2, <2>3, StepsOn
  <1>5. ASSUME NEW g \in {"install_cancelled", "install_failed"}, Writing(t, g)
        PROVE  Inv'
    <2>1. MayStep(t, "write", g)
      BY <1>1, <1>2, <1>3, <1>5 DEF MayStep, MayGo, Steps, CheckSteps, Goals, ReceiptStates,
         TerminalStates,
           Endings, Readback
    <2>2. StepsTo(t, "write", g)
      BY <1>5 DEF StepsTo, Writing
    <2> QED BY <1>1, <1>2, <1>5, <2>1, <2>2, StepsOn
  <1> QED BY <1>4, <1>5 DEF VerifyReadback

\* commitInstalledCheckpoint compares the plan with the stored checkpoint.
LEMMA AdvanceCheckpointInv == ASSUME Inv, NEW t \in Threads, AdvanceCheckpoint(t), JobsOK PROVE Inv'
  <1>1. thread[t].step = "advance" /\ UNCHANGED <<disk, world, slot>>
    BY DEF AdvanceCheckpoint, At
  <1>2. RestOK /\ Untouched /\ thread[t].goal \in Goals
    BY <1>1, RestKept, SeenTypes
  <1>3. Ended(thread[t].seen.session, installer) /\ InstalledFrom(thread[t].seen.plan, installer)
    BY <1>1 DEF Inv, Sound
  <1>4. CASE Goto(t, "store")
    <2>1. MayStep(t, "store", thread[t].goal)
      BY <1>1, <1>2, <1>3 DEF MayStep, MayGo, Steps, CheckSteps
    <2>2. StepsTo(t, "store", thread[t].goal)
      BY <1>4 DEF StepsTo
    <2> QED BY <1>1, <1>2, <2>1, <2>2, StepsOn
  <1>5. ASSUME NEW g \in {"installed_but_checkpoint_rejected", "installed_readback_ok",
                          "installed_readback_checkpoint_pending"}, Writing(t, g)
        PROVE  Inv'
    <2>1. MayStep(t, "write", g)
      BY <1>1, <1>2, <1>3, <1>5 DEF MayStep, MayGo, Steps, CheckSteps, Goals, ReceiptStates,
         TerminalStates,
           Endings, Readback
    <2>2. StepsTo(t, "write", g)
      BY <1>5 DEF StepsTo, Writing
    <2> QED BY <1>1, <1>2, <1>5, <2>1, <2>2, StepsOn
  <1> QED BY <1>4, <1>5 DEF AdvanceCheckpoint

\* The checkpoint that is stored was installed.
LEMMA StoreCheckpointInv == ASSUME Inv, NEW t \in Threads, StoreCheckpoint(t), JobsOK PROVE Inv'
  <1>1. thread[t].step = "store" /\ UNCHANGED slot /\ Untouched
    BY DEF StoreCheckpoint, At, Untouched
  <1>2. /\ Ended(thread[t].seen.session, installer) /\ InstalledFrom(thread[t].seen.plan, installer)
        /\ thread[t].seen.plan \in Plans
    BY <1>1 DEF Inv, Sound
  <1>3. RestOK
    BY <1>2, FaultKept DEF StoreCheckpoint, Inv, TypeOK, JobsOK, RestOK
  <1>4. ASSUME NEW g \in {"installed_readback_ok", "installed_readback_checkpoint_pending"},
               Writing(t, g)
        PROVE  Inv'
    <2>1. MayStep(t, "write", g)
      BY <1>1, <1>2, <1>4 DEF MayStep, MayGo, Steps, CheckSteps, Goals, ReceiptStates,
         TerminalStates,
           Endings, Readback
    <2>2. StepsTo(t, "write", g)
      BY <1>4 DEF StepsTo, Writing
    <2> QED BY <1>1, <1>3, <1>4, <2>1, <2>2, StepsOn
  <1> QED BY <1>4 DEF StoreCheckpoint

\* cleanupTerminalArtifacts only removes staged files.
LEMMA CleanStagedInv == ASSUME Inv, NEW t \in Threads, CleanStaged(t), JobsOK PROVE Inv'
  <1>1. RestOK /\ Untouched /\ Returns(t)
    BY DEF CleanStaged, Inv, TypeOK, JobsOK, world, RestOK, Untouched
  <1> QED BY <1>1, Ends

-----------------------------------------------------------------------------
(* A step of one thread that also writes the receipt or calls the installer. *)

\* The installer's sessions move on, and its broadcasts are as they should be.
InstallerOK ==
    /\ installer' \in InstallerStates /\ MovesOn(installer, installer')
    /\ callbacks' \subseteq [session : Sessions, status : Statuses]
    /\ CallbacksOK(callbacks', installer') /\ ShownOK(installer')
    /\ installed' \in Plans \cup {0}
    /\ installed' # 0 => InstalledFrom(installed', installer')

\* Nothing is shown, and nobody is asked about a session that is committed already.
AsksNothing ==
    /\ \A s \in Sessions : installer'[s].shown => installer[s].shown
    /\ \A s \in Sessions :
          [session |-> s, status |-> "pending_user_action"] \in callbacks' \ callbacks =>
              installer[s].phase = "open"

\* The receipt keeps its session and is not revived.
ReceiptMoves ==
    /\ receipt' \in Receipts \cup {NoReceipt}
    /\ receipt'.session = receipt.session /\ (Live(receipt') => Live(receipt))
    /\ ReceiptOK(receipt', installer')

\* Such a step keeps the invariant when what it writes is sound.
LEMMA Acts ==
    ASSUME Inv, NEW t \in Threads, NEW n \in ThreadStates, SetThread(t, n), RestOK,
           InstallerOK, ReceiptMoves, t = Main \/ AsksNothing,
           slot' \in Workers \cup {Nobody}, Sound(n, installer'),
           t \in Workers => WorkerOK(t, n, installer', receipt', slot'),
           t = Main => MainOK(n, installer', receipt', callbacks'),
           \A v \in Workers \ {t} : slot = v => slot' = v,
           ApprovalIsTracked'
    PROVE  Inv'
  <1>1. TypeOK /\ thread \in [Threads -> ThreadStates] /\ Main \in Threads /\ Workers \subseteq Threads
    BY Types DEF Inv
  <1>2. /\ thread' \in [Threads -> ThreadStates] /\ thread'[t] = n
        /\ \A v \in Threads \ {t} : thread'[v] = thread[v]
    BY <1>1 DEF SetThread
  <1>3. TypeOK'
    BY <1>2 DEF TypeOK, RestOK, ThreadStates, Goals, InstallerOK, ReceiptMoves, InstallerStates,
         InstallerPhases
  <1>4. ASSUME NEW v \in Threads PROVE Sound(thread'[v], installer')
    <2>1. CASE v = t
      BY <1>2, <2>1
    <2>2. CASE v # t
      <3>1. Sound(thread[v], installer) /\ MovesOn(installer, installer')
        BY DEF Inv, InstallerOK
      <3>2. Sound(thread[v], installer')
        BY <3>1, StaysSound
      <3> QED BY <1>2, <2>2, <3>2
    <2> QED BY <2>1, <2>2
  <1>5. ASSUME NEW v \in Workers PROVE WorkerOK(v, thread'[v], installer', receipt', slot')
    <2>1. CASE v = t
      BY <1>2, <2>1
    <2>2. CASE v # t
      <3>1. /\ WorkerOK(v, thread[v], installer, receipt, slot) /\ Sound(thread[v], installer)
            /\ MovesOn(installer, installer') /\ receipt'.session = receipt.session
            /\ (Live(receipt') => Live(receipt)) /\ (slot = v => slot' = v)
        BY <1>1, <2>2 DEF Inv, InstallerOK, ReceiptMoves
      <3>2. WorkerOK(v, thread[v], installer', receipt', slot')
        BY <3>1, WorkerUndisturbed
      <3> QED BY <1>1, <1>2, <2>2, <3>2
    <2> QED BY <2>1, <2>2
  <1>6. MainOK(thread'[Main], installer', receipt', callbacks')
    <2>1. CASE t = Main
      BY <1>2, <2>1
    <2>2. CASE t # Main
      <3>1. /\ MainOK(thread[Main], installer, receipt, callbacks) /\ Sound(thread[Main], installer)
            /\ MovesOn(installer, installer') /\ receipt'.session = receipt.session
        BY <1>1 DEF Inv, InstallerOK, ReceiptMoves
      <3>2. MainOK(thread[Main], installer', receipt', callbacks')
        BY <2>2, <3>1, MainUndisturbed DEF AsksNothing
      <3> QED BY <1>1, <1>2, <2>2, <3>2
    <2> QED BY <2>1, <2>2
  <1>7. CheckpointWasInstalled'
    <2>1. checkpoint' # 0 => InstalledFrom(checkpoint', installer)
      BY DEF Inv, CheckpointWasInstalled, RestOK, InstalledFrom
    <2>2. checkpoint' # 0 => InstalledFrom(checkpoint', installer')
      BY <2>1, StaysInstalled DEF InstallerOK
    <2> QED BY <2>2 DEF CheckpointWasInstalled, InstalledFrom
  <1> QED BY <1>3, <1>4, <1>5, <1>6, <1>7 DEF Inv, InstallerOK, ReceiptMoves

\* The installer is left alone.
LEMMA InstallerKept ==
    ASSUME Inv, UNCHANGED <<installer, callbacks, installed>>
    PROVE  InstallerOK /\ AsksNothing
  BY StandsStill, Types DEF Inv, TypeOK, InstallerOK, AsksNothing

\* The receipt is left alone.
LEMMA ReceiptKept ==
    ASSUME Inv, UNCHANGED receipt, MovesOn(installer, installer')
    PROVE  ReceiptMoves
  <1>1. receipt.state = Readback => receipt # NoReceipt
    BY RecordTypes
  <1>2. ReceiptOK(receipt, installer')
    BY <1>1 DEF Inv, ReceiptOK, MovesOn
  <1> QED BY <1>2, Types DEF Inv, ReceiptMoves

\* updateState never moves an ended receipt and never changes its session.
LEMMA UpdatedFacts ==
    ASSUME Inv, NEW state \in ReceiptStates, receipt # NoReceipt
    PROVE  /\ Updated(state) \in Receipts /\ Updated(state).session = receipt.session
           /\ Updated(state).state \in {receipt.state, state}
           /\ ~Live(receipt) => Updated(state) = receipt
           /\ Live(receipt) /\ ~IsTerminal(state) => Live(Updated(state))
           /\ Live(Updated(state)) => Live(receipt)
  <1>1. receipt \in Receipts
    BY DEF Inv, TypeOK
  <1>2. CASE Keeps(receipt.state, state)
    BY <1>1, <1>2 DEF Updated, Receipts
  <1>3. CASE ~Keeps(receipt.state, state)
    <2>1. Updated(state) = [receipt EXCEPT !.state = state]
      BY <1>3 DEF Updated
    <2>2. /\ Updated(state) \in Receipts /\ Updated(state).session = receipt.session
          /\ Updated(state).state = state
      BY <1>1, <2>1 DEF Receipts
    <2>3. Updated(state) # NoReceipt
      BY <2>2, RecordTypes
    <2>4. ~Live(receipt) => receipt.state = state
      BY <1>3 DEF Live, Keeps
    <2>5. ~Live(receipt) => Updated(state) = receipt
      BY <1>1, <2>1, <2>4 DEF Receipts
    <2> QED BY <2>2, <2>3, <2>5 DEF Live
  <1> QED BY <1>2, <1>3

\* A thread that acts moves on to a step it may take in the installer's new state.
LEMMA ActsOn ==
    ASSUME Inv, NEW t \in Threads, NEW s, NEW g, MayGo(t, s, g, installer'), StepsTo(t, s, g),
           RestOK, InstallerOK, ReceiptMoves, t = Main \/ AsksNothing,
           UNCHANGED slot, ApprovalIsTracked'
    PROVE  Inv'
  <1> DEFINE n == Moved(t, s, g)
  <1>1. /\ SetThread(t, n) /\ n \in ThreadStates
        /\ n.step = s /\ n.goal = g /\ n.seen = thread[t].seen /\ n.job = thread[t].job
    <2>1. s \in Steps /\ g \in Goals /\ TypeOK
      BY DEF MayGo, Inv
    <2> QED BY <2>1, ThreadMoved, SMTT(30)
  <1> HIDE DEF n
  <1>2. Sound(thread[t], installer')
    BY StaysSound DEF Inv, InstallerOK
  <1>3. Sound(n, installer')
    BY <1>1, <1>2 DEF Sound, MayGo
  <1>4. ASSUME t \in Workers PROVE WorkerOK(t, n, installer', receipt', slot')
    <2>1. WorkerOK(t, thread[t], installer, receipt, slot) /\ t # Main
      BY <1>4, Constants DEF Inv
    <2> QED BY <1>1, <2>1 DEF WorkerOK, MayGo, ReceiptMoves
  <1>5. ASSUME t = Main PROVE MainOK(n, installer', receipt', callbacks')
    <2>1. MainOK(thread[t], installer, receipt, callbacks)
      BY <1>5 DEF Inv
    <2>2. s = "write" =>
            /\ g \in Endings
            /\ \/ Ended(thread[t].seen.session, installer')
               \/ ~installer'[thread[t].seen.session].shown /\ g # Readback
      BY <1>5 DEF MayGo
    <2>3. s \in {"verify", "advance", "store", "write", "clean"} /\ thread[t].step # "idle"
      BY <1>5 DEF MayGo
    <2>4. receipt'.session = thread[t].seen.session
      BY <2>1, <2>3 DEF MainOK, ReceiptMoves
    <2> QED BY <1>1, <2>2, <2>3, <2>4 DEF MainOK
  <1>6. slot' \in Workers \cup {Nobody} /\ \A v \in Workers \ {t} : slot = v => slot' = v
    BY DEF Inv, TypeOK
  <1> QED BY <1>1, <1>3, <1>4, <1>5, <1>6, Acts

\* A thread that acts and whose job ends.
LEMMA ActsLast ==
    ASSUME Inv, NEW t \in Threads, Returns(t),
           RestOK, InstallerOK, ReceiptMoves, t = Main \/ AsksNothing, ApprovalIsTracked'
    PROVE  Inv'
  <1>1. SetThread(t, Idle) /\ slot' = IF slot = t THEN Nobody ELSE slot
    BY DEF Returns, SetThread
  <1>2. Sound(Idle, installer') /\ MainOK(Idle, installer', receipt', callbacks')
    BY RecordTypes DEF Sound, MainOK
  <1>3. WorkerOK(t, Idle, installer', receipt', slot')
    BY RecordTypes DEF WorkerOK, CheckSteps
  <1>4. slot' \in Workers \cup {Nobody} /\ \A v \in Workers \ {t} : slot = v => slot' = v
    BY <1>1 DEF Inv, TypeOK
  <1> QED BY <1>1, <1>2, <1>3, <1>4, RecordTypes, Acts

\* The environment acts: no thread moves.
LEMMA OthersAct ==
    ASSUME Inv, UNCHANGED <<thread, slot>>,
           RestOK, InstallerOK, AsksNothing, ReceiptMoves, ApprovalIsTracked'
    PROVE  Inv'
  <1>1. thread \in [Threads -> ThreadStates] /\ Main \in Threads /\ Main \notin Workers
    BY Types, Constants DEF Inv
  <1>2. SetThread(Main, thread[Main]) /\ thread[Main] \in ThreadStates
    BY <1>1 DEF SetThread
  <1>3. Sound(thread[Main], installer')
    BY <1>1, StaysSound DEF Inv, InstallerOK
  <1>4. MainOK(thread[Main], installer', receipt', callbacks')
    <2>1. /\ MainOK(thread[Main], installer, receipt, callbacks) /\ Sound(thread[Main], installer)
          /\ MovesOn(installer, installer') /\ receipt'.session = receipt.session
      BY <1>1 DEF Inv, InstallerOK, ReceiptMoves
    <2> QED BY <2>1, MainUndisturbed DEF AsksNothing
  <1>5. slot' \in Workers \cup {Nobody} /\ \A v \in Workers \ {Main} : slot = v => slot' = v
    BY DEF Inv, TypeOK
  <1> QED BY <1>1, <1>2, <1>3, <1>4, <1>5, Acts

\* A write of the receipt is sound when an ended receipt has an ended session, or one
\* that was never shown.
LEMMA Writes ==
    ASSUME Inv, NEW state \in ReceiptStates, receipt # NoReceipt, receipt' = Updated(state),
           UNCHANGED <<installer, callbacks, installed>>,
           state = Readback => Ended(receipt.session, installer),
           IsTerminal(state) =>
               Ended(receipt.session, installer) \/ ~installer[receipt.session].shown
    PROVE  InstallerOK /\ AsksNothing /\ ReceiptMoves /\ ApprovalIsTracked'
  <1>1. InstallerOK /\ AsksNothing
    BY InstallerKept
  <1>2. /\ receipt' \in Receipts /\ receipt'.session = receipt.session
        /\ receipt'.state \in {receipt.state, state}
        /\ Live(receipt) /\ ~IsTerminal(state) => Live(receipt')
        /\ Live(receipt') => Live(receipt)
    BY UpdatedFacts
  <1>3. ReceiptOK(receipt', installer')
    BY <1>2 DEF Inv, ReceiptOK
  <1>4. ApprovalIsTracked'
    BY <1>2 DEF Inv, ApprovalIsTracked, Ended
  <1> QED BY <1>1, <1>2, <1>3, <1>4 DEF ReceiptMoves

-----------------------------------------------------------------------------
(* The actions that write the receipt. *)

\* commit_requested is written to the check's own receipt.
LEMMA RequestCommitInv == ASSUME Inv, NEW w \in Workers, RequestCommit(w), JobsOK PROVE Inv'
  <1>1. /\ w \in Threads /\ w # Main /\ thread[w].step = "request"
        /\ UNCHANGED <<world, staged, checkpoint, slot>>
    BY Constants, Types DEF Inv, RequestCommit, At
  <1>2. RestOK /\ UNCHANGED <<installer, callbacks, installed>> /\ thread[w].goal \in Goals
    BY <1>1, SeenTypes DEF Inv, TypeOK, JobsOK, world, RestOK
  <1>3. CASE StagingFails(w, "install_failed") /\ UNCHANGED receipt
    <2>1. MayStep(w, "abandon_staged", "install_failed")
      BY <1>1 DEF MayStep, MayGo, Steps, CheckSteps, Goals, ReceiptStates, TerminalStates
    <2>2. StepsTo(w, "abandon_staged", "install_failed")
      BY <1>3 DEF StepsTo, StagingFails
    <2>3. Untouched
      BY <1>2, <1>3 DEF Untouched
    <2> QED BY <1>1, <1>2, <2>1, <2>2, <2>3, StepsOn
  <1>4. CASE /\ receipt.session = thread[w].seen.session
             /\ receipt' = Updated("commit_requested") /\ Goto(w, "commit")
    <2>1. receipt # NoReceipt
      BY <1>1, <1>4, RecordTypes, Constants DEF Inv, Sound
    <2>2. /\ "commit_requested" \in ReceiptStates /\ "commit_requested" # Readback
          /\ ~IsTerminal("commit_requested")
      BY DEF ReceiptStates, TerminalStates, Readback, IsTerminal
    <2>3. InstallerOK /\ AsksNothing /\ ReceiptMoves /\ ApprovalIsTracked'
      BY <1>2, <1>4, <2>1, <2>2, Writes
    <2>4. MayGo(w, "commit", thread[w].goal, installer')
      BY <1>1, <1>2 DEF MayGo, Steps, CheckSteps
    <2>5. StepsTo(w, "commit", thread[w].goal)
      BY <1>4 DEF StepsTo
    <2> QED BY <1>1, <1>2, <2>3, <2>4, <2>5, ActsOn
  <1> QED BY <1>3, <1>4 DEF RequestCommit

\* compareAndSetState moves the receipt on unless somebody else did.
LEMMA AwaitCallbackInv == ASSUME Inv, NEW w \in Workers, AwaitCallback(w), JobsOK PROVE Inv'
  <1>1. w \in Threads /\ thread[w].step = "await" /\ Returns(w)
    BY Types DEF Inv, AwaitCallback, At
  <1>2. RestOK /\ UNCHANGED <<installer, callbacks, installed>>
    BY DEF AwaitCallback, Inv, TypeOK, JobsOK, world, RestOK
  <1>3. CASE UNCHANGED receipt
    BY <1>1, <1>2, <1>3, Ends DEF Untouched
  <1>4. CASE /\ receipt.state = "commit_requested"
             /\ receipt' = [receipt EXCEPT !.state = "awaiting_installer_callback"]
    <2>1. receipt # NoReceipt
      BY <1>4, RecordTypes
    <2>2. /\ "awaiting_installer_callback" \in ReceiptStates
          /\ "awaiting_installer_callback" # Readback
          /\ ~IsTerminal("awaiting_installer_callback")
      BY DEF ReceiptStates, TerminalStates, Readback, IsTerminal
    <2>3. receipt' = Updated("awaiting_installer_callback")
      BY <1>4 DEF Updated, Keeps, IsTerminal, TerminalStates
    <2>4. InstallerOK /\ AsksNothing /\ ReceiptMoves /\ ApprovalIsTracked'
      BY <1>2, <2>1, <2>2, <2>3, Writes
    <2> QED BY <1>1, <1>2, <2>4, ActsLast
  <1> QED BY <1>3, <1>4 DEF AwaitCallback

\* updateState ends a receipt only after its session, or before anything was shown.
LEMMA WriteStateInv == ASSUME Inv, NEW t \in Threads, WriteState(t), JobsOK PROVE Inv'
  <1> DEFINE g == thread[t].goal
  <1>1. thread[t].step = "write" /\ UNCHANGED <<world, staged, checkpoint>>
    BY DEF WriteState, At
  <1>2. RestOK /\ UNCHANGED <<installer, callbacks, installed>> /\ g \in Goals
    BY <1>1, SeenTypes DEF Inv, TypeOK, JobsOK, world, RestOK
  <1>3. CASE Returns(t) /\ UNCHANGED receipt
    BY <1>1, <1>2, <1>3, Ends DEF Untouched
  <1>4. CASE receipt.session = thread[t].seen.session /\ receipt' = Updated(g)
    <2>1. receipt # NoReceipt /\ g \in ReceiptStates
      BY <1>1, <1>4, RecordTypes, Constants DEF Inv, Sound
    <2>2. t = Main \/ t \in Workers
      BY DEF Threads
    <2>3. g \in Endings =>
             \/ Ended(receipt.session, installer)
             \/ ~installer[receipt.session].shown /\ g # Readback
      BY <1>1, <1>4, <2>2 DEF Inv, WorkerOK, MainOK
    <2>4. InstallerOK /\ AsksNothing /\ ReceiptMoves /\ ApprovalIsTracked'
      <3>1. g = Readback => Ended(receipt.session, installer)
        BY <2>3 DEF Endings
      <3>2. IsTerminal(g) => Ended(receipt.session, installer) \/ ~installer[receipt.session].shown
        BY <2>3 DEF Endings, IsTerminal
      <3> QED BY <1>2, <1>4, <2>1, <3>1, <3>2, Writes
    <2>5. CASE Goto(t, "clean") /\ UNCHANGED slot
      <3>1. MayGo(t, "clean", g, installer')
        BY <1>1, <1>2 DEF MayGo, Steps, CheckSteps
      <3>2. StepsTo(t, "clean", g)
        BY <2>5 DEF StepsTo
      <3> QED BY <1>2, <2>4, <2>5, <3>1, <3>2, ActsOn
    <2>6. CASE g = "cancel_requested" /\ Goto(t, "abandon_after") /\ UNCHANGED slot
      <3>1. t # Main
        BY <1>1, <2>6 DEF Inv, MainOK, Endings, TerminalStates, Readback
      <3>2. MayGo(t, "abandon_after", g, installer')
        BY <1>1, <1>2, <3>1 DEF MayGo, Steps, CheckSteps
      <3>3. StepsTo(t, "abandon_after", g)
        BY <2>6 DEF StepsTo
      <3> QED BY <1>2, <2>4, <2>6, <3>2, <3>3, ActsOn
    <2>7. CASE Returns(t)
      BY <1>2, <2>4, <2>7, ActsLast
    <2> QED BY <1>4, <2>5, <2>6, <2>7 DEF WriteState
  <1> QED BY <1>3, <1>4 DEF WriteState

\* begin replaces the receipt: the check has the slot, so no other check is between its
\* session and its receipt, and no callback is being handled.
LEMMA BeginReceiptInv == ASSUME Inv, NEW w \in Workers, BeginReceipt(w), JobsOK PROVE Inv'
  <1> DEFINE seen == thread[w].seen
  <1>1. /\ w \in Threads /\ w # Main /\ thread[w].step = "begin"
        /\ UNCHANGED <<world, staged, checkpoint, slot>>
    BY Constants, Types DEF Inv, BeginReceipt, At
  <1>2. RestOK /\ UNCHANGED <<installer, callbacks, installed>> /\ thread[w].goal \in Goals
    BY <1>1, SeenTypes DEF Inv, TypeOK, JobsOK, world, RestOK
  <1>3. CASE StagingFails(w, "install_failed") /\ UNCHANGED receipt
    <2>1. MayStep(w, "abandon_staged", "install_failed")
      BY <1>1 DEF MayStep, MayGo, Steps, CheckSteps, Goals, ReceiptStates,
         TerminalStates
    <2>2. StepsTo(w, "abandon_staged", "install_failed")
      BY <1>3 DEF StepsTo, StagingFails
    <2>3. Untouched
      BY <1>2, <1>3 DEF Untouched
    <2> QED BY <1>1, <1>2, <2>1, <2>2, <2>3, StepsOn
  <1>4. CASE ~CallbackActive /\ receipt' = NewReceipt(seen) /\ Goto(w, "request")
    <2>1. /\ WorkerOK(w, thread[w], installer, receipt, slot) /\ Sound(thread[w], installer)
          /\ seen.session \in Sessions /\ seen.plan \in Plans /\ Opened(seen.session, installer)
          /\ ~Live(receipt) /\ slot = w
      BY <1>1 DEF Inv, Sound, WorkerOK, CheckSteps
    <2>2. /\ receipt' \in Receipts /\ receipt'.session = seen.session
          /\ receipt'.state = "session_written"
      <3>1. seen \in [session : Sessions \cup {0}, plan : Plans \cup {0},
                      state : ReceiptStates \cup {"none"}]
        BY <1>1, Types DEF Inv, ThreadStates
      <3>2. "session_written" \in ReceiptStates
        BY DEF ReceiptStates
      <3> QED BY <1>4, <2>1, <3>1, <3>2 DEF NewReceipt, Receipts
    <2> DEFINE n == Moved(w, "request", thread[w].goal)
    <2>3. /\ SetThread(w, n) /\ n \in ThreadStates
          /\ n.step = "request" /\ n.seen = seen /\ n.job = thread[w].job
      <3>1. "request" \in Steps /\ StepsTo(w, "request", thread[w].goal) /\ TypeOK
        BY <1>4 DEF Steps, CheckSteps, StepsTo, Inv
      <3> QED BY <1>1, <1>2, <3>1, ThreadMoved, SMTT(30)
    <2> HIDE DEF n
    <2>4. /\ thread' \in [Threads -> ThreadStates] /\ thread'[w] = n
          /\ \A v \in Threads \ {w} : thread'[v] = thread[v]
      BY <1>1, <2>3, Types DEF Inv, SetThread
    <2>5. TypeOK'
      BY <1>1, <1>2, <2>2, <2>4 DEF TypeOK, Inv, RestOK, ThreadStates, Goals
    <2>6. \A v \in Threads : Sound(thread'[v], installer')
      <3>1. Sound(n, installer)
        BY <1>1, <2>1, <2>3 DEF Sound
      <3> QED BY <1>2, <2>4, <3>1 DEF Inv
    <2>7. ASSUME NEW v \in Workers PROVE WorkerOK(v, thread'[v], installer', receipt', slot')
      <3>1. CASE v = w
        <4>1. WorkerOK(w, n, installer, receipt', slot)
          BY <1>1, <2>1, <2>3 DEF WorkerOK, CheckSteps
        <4> QED BY <1>1, <1>2, <2>4, <3>1, <4>1
      <3>2. CASE v # w
        <4>1. WorkerOK(v, thread[v], installer, receipt, slot)
          BY DEF Inv
        <4>2. WorkerOK(v, thread[v], installer, receipt', slot)
          BY <2>1, <3>2, <4>1 DEF WorkerOK, CheckSteps
        <4>3. thread'[v] = thread[v]
          BY <2>4, <3>2, Types DEF Inv
        <4> QED BY <1>1, <1>2, <4>2, <4>3
      <3> QED BY <3>1, <3>2
    <2>8. MainOK(thread'[Main], installer', receipt', callbacks')
      <3>1. thread'[Main].step = "idle"
        BY <1>1, <1>4, <2>4, Types DEF Inv, CallbackActive
      <3> QED BY <3>1 DEF MainOK
    <2>9. ReceiptOK(receipt', installer')
      BY <1>2, <2>1, <2>2 DEF ReceiptOK, Readback
    <2>10. ApprovalIsTracked'
      BY <1>2, <2>1 DEF Inv, ApprovalIsTracked
    <2>11. CheckpointWasInstalled' /\ (installed' # 0 => InstalledFrom(installed', installer'))
      BY <1>1, <1>2 DEF Inv, CheckpointWasInstalled
    <2> QED BY <1>2, <2>5, <2>6, <2>7, <2>8, <2>9, <2>10, <2>11 DEF Inv
  <1> QED BY <1>3, <1>4 DEF BeginReceipt

-----------------------------------------------------------------------------
(* The actions that call the installer. *)

\* A new session, and nothing else, is opened.
LEMMA Opens ==
    ASSUME Inv, NEW s \in Sessions, NEW p \in Plans, installer[s].phase = "none",
           installer' = [installer EXCEPT ![s] = [phase |-> "open", plan |-> p, shown |-> FALSE]],
           UNCHANGED <<receipt, callbacks, installed>>
    PROVE  InstallerOK /\ AsksNothing /\ ReceiptMoves /\ ApprovalIsTracked' /\ Opened(s, installer')
  <1>1. installer \in InstallerStates /\ callbacks \subseteq [session : Sessions, status : Statuses]
    BY Types DEF Inv
  <1>2. installer'[s].phase = "open" /\ ~installer'[s].shown
        /\ \A r \in Sessions \ {s} : installer'[r] = installer[r]
    BY <1>1 DEF InstallerStates
  <1>3. installer' \in InstallerStates
    BY <1>1 DEF InstallerStates, InstallerPhases
  <1>4. MovesOn(installer, installer')
    BY <1>2 DEF MovesOn, Opened, Ended
  <1>5. CallbacksOK(callbacks', installer')
    BY <1>1, <1>2 DEF Inv, CallbacksOK, Opened, Ended
  <1>6. ShownOK(installer') /\ AsksNothing /\ ApprovalIsTracked' /\ Opened(s, installer')
    BY <1>2 DEF Inv, ShownOK, AsksNothing, ApprovalIsTracked, Opened
  <1>7. installed' # 0 => InstalledFrom(installed', installer')
    BY <1>4, StaysInstalled DEF Inv
  <1>8. installed' \in Plans \cup {0}
    BY DEF Inv, TypeOK
  <1>9. ReceiptMoves
    BY <1>4, ReceiptKept
  <1> QED BY <1>1, <1>3, <1>4, <1>5, <1>6, <1>7, <1>8, <1>9 DEF InstallerOK

\* stageAttendedInstall opens a session when no receipt is live.
LEMMA OpenSessionInv == ASSUME Inv, NEW w \in Workers, OpenSession(w), JobsOK PROVE Inv'
  <1>1. /\ w \in Threads /\ w # Main /\ thread[w].step = "open" /\ thread[w] \in ThreadStates
        /\ UNCHANGED <<disk, callbacks, installed, expired, faults>>
    BY Constants, Types DEF Inv, OpenSession, At
  <1>2. RestOK /\ UNCHANGED <<receipt, callbacks, installed>>
    BY <1>1 DEF Inv, TypeOK, JobsOK, disk, RestOK
  <1>3. CASE Returns(w) /\ UNCHANGED installer
    BY <1>1, <1>2, <1>3, Ends DEF Untouched
  <1>4. ASSUME NEW s \in Sessions, installer[s].phase = "none", ~Live(receipt), UNCHANGED slot,
               installer' = [installer EXCEPT ![s] =
                    [phase |-> "open", plan |-> thread[w].seen.plan, shown |-> FALSE]],
               thread' = [thread EXCEPT ![w].step = "copy", ![w].seen.session = s]
        PROVE  Inv'
    <2>1. thread[w].seen.plan \in Plans /\ Sound(thread[w], installer)
          /\ WorkerOK(w, thread[w], installer, receipt, slot)
      BY <1>1 DEF Inv, Sound
    <2>2. InstallerOK /\ AsksNothing /\ ReceiptMoves /\ ApprovalIsTracked' /\ Opened(s, installer')
      BY <1>2, <1>4, <2>1, Opens
    <2> DEFINE y == [thread[w].seen EXCEPT !.session = s]
               n == [thread[w] EXCEPT !.step = "copy", !.seen = y]
    <2>3. SetThread(w, n)
      BY <1>4 DEF SetThread
    <2>4. /\ y \in [session : Sessions \cup {0}, plan : Plans \cup {0},
                    state : ReceiptStates \cup {"none"}]
          /\ y.session = s /\ y.plan = thread[w].seen.plan /\ y.state = thread[w].seen.state
      BY <1>1 DEF ThreadStates
    <2> HIDE DEF y
    <2>5. n \in ThreadStates /\ n.step = "copy" /\ n.seen = y /\ n.job = thread[w].job
      <3>1. "copy" \in Steps
        BY DEF Steps, CheckSteps
      <3> QED BY <1>1, <2>4, <3>1 DEF ThreadStates
    <2> HIDE DEF n
    <2>6. thread[w].seen.state # Readback
      BY <1>1, RecordTypes DEF Inv, Sound
    <2>7. Sound(n, installer')
      BY <2>1, <2>2, <2>4, <2>5, <2>6 DEF Sound
    <2>8. receipt.session # s
      <3>1. receipt # NoReceipt => receipt.session # s
        BY <1>4 DEF Inv, ReceiptOK, Opened
      <3> QED BY <3>1, RecordTypes, Constants
    <2>9. WorkerOK(w, n, installer', receipt', slot')
      BY <1>1, <1>2, <1>4, <2>1, <2>4, <2>5, <2>8 DEF WorkerOK, CheckSteps
    <2>10. slot' \in Workers \cup {Nobody} /\ \A v \in Workers \ {w} : slot = v => slot' = v
      BY <1>4 DEF Inv, TypeOK
    <2> QED BY <1>1, <1>2, <2>2, <2>3, <2>5, <2>7, <2>9, <2>10, Acts
  <1> QED BY <1>3, <1>4 DEF OpenSession

\* One session changes its phase and nothing is shown.
LEMMA Changes ==
    ASSUME Inv, NEW s \in Sessions, NEW p \in {"committed", "gone", "installed"},
           installer[s].phase \in {"open", "committed"}, p = "committed" => installer[s].phase = "open",
           installer' = [installer EXCEPT ![s].phase = p]
    PROVE  /\ installer' \in InstallerStates /\ MovesOn(installer, installer')
           /\ installer'[s].phase = p /\ installer'[s].plan = installer[s].plan
           /\ installer'[s].shown = installer[s].shown
           /\ \A r \in Sessions \ {s} : installer'[r] = installer[r]
           /\ ShownOK(installer')
  <1>1. installer \in InstallerStates
    BY Types DEF Inv
  <1>2. /\ installer'[s].phase = p /\ installer'[s].plan = installer[s].plan
        /\ installer'[s].shown = installer[s].shown
        /\ \A r \in Sessions \ {s} : installer'[r] = installer[r]
    BY <1>1 DEF InstallerStates
  <1>3. installer' \in InstallerStates
    BY <1>1 DEF InstallerStates, InstallerPhases
  <1>4. MovesOn(installer, installer')
    BY <1>2 DEF MovesOn, Opened, Ended
  <1>5. ShownOK(installer')
    BY <1>2 DEF Inv, ShownOK
  <1> QED BY <1>2, <1>3, <1>4, <1>5

\* A session ends and answers its sender.
LEMMA EndsSession ==
    ASSUME Inv, NEW s \in Sessions, NEW p \in {"gone", "installed"},
           installer[s].phase \in {"open", "committed"},
           installer' = [installer EXCEPT ![s].phase = p],
           callbacks' \subseteq [session : Sessions, status : Statuses],
           \A c \in callbacks' \ callbacks : c.session = s /\ c.status # "pending_user_action",
           installed' = installed \/ (installed' = installer[s].plan /\ p = "installed"),
           UNCHANGED receipt
    PROVE  /\ InstallerOK /\ AsksNothing /\ ReceiptMoves /\ ApprovalIsTracked'
           /\ Ended(s, installer')
  <1>1. p \in {"committed", "gone", "installed"} /\ p # "committed"
    OBVIOUS
  <1>2. /\ installer' \in InstallerStates /\ MovesOn(installer, installer')
        /\ installer'[s].phase = p /\ installer'[s].plan = installer[s].plan
        /\ installer'[s].shown = installer[s].shown
        /\ \A r \in Sessions \ {s} : installer'[r] = installer[r]
        /\ ShownOK(installer')
    BY <1>1, Changes
  <1>3. Ended(s, installer') /\ Opened(s, installer')
    BY <1>2 DEF Ended, Opened
  <1>4. CallbacksOK(callbacks', installer')
    BY <1>2, <1>3 DEF Inv, CallbacksOK, Opened, Ended
  <1>5. AsksNothing
    BY <1>2 DEF AsksNothing
  <1>6. ApprovalIsTracked'
    BY <1>2 DEF Inv, ApprovalIsTracked
  <1>7. installed' \in Plans \cup {0} /\ (installed' # 0 => InstalledFrom(installed', installer'))
    <2>1. CASE installed' = installed
      BY <1>2, <2>1, StaysInstalled DEF Inv, TypeOK
    <2>2. CASE installed' = installer[s].plan /\ p = "installed"
      BY <1>2, <2>2, Types DEF Inv, InstallerStates, InstalledFrom
    <2> QED BY <2>1, <2>2
  <1>8. ReceiptMoves
    BY <1>2, ReceiptKept
  <1> QED BY <1>2, <1>3, <1>4, <1>5, <1>6, <1>7, <1>8 DEF InstallerOK

\* abandonSession ends the session, and answers only when it was committed.
LEMMA AbandonedEnds ==
    ASSUME Inv, NEW s \in Sessions, Present(s), Abandoned(s), UNCHANGED <<receipt, installed>>
    PROVE  /\ InstallerOK /\ AsksNothing /\ ReceiptMoves /\ ApprovalIsTracked'
           /\ Ended(s, installer')
  <1>1. /\ installer[s].phase \in {"open", "committed"}
        /\ installer' = [installer EXCEPT ![s].phase = "gone"]
    BY DEF Present, Abandoned
  <1>2. /\ callbacks' \subseteq [session : Sessions, status : Statuses]
        /\ \A c \in callbacks' \ callbacks : c.session = s /\ c.status # "pending_user_action"
    BY SMTT(30) DEF Inv, TypeOK, Abandoned, Statuses
  <1> QED BY <1>1, <1>2, EndsSession

\* Session.commit asks for the confirmation once.
LEMMA CommitSessionInv == ASSUME Inv, NEW w \in Workers, CommitSession(w), JobsOK PROVE Inv'
  <1> DEFINE s == thread[w].seen.session
             c == [session |-> s, status |-> "pending_user_action"]
  <1>1. /\ w \in Threads /\ w # Main /\ thread[w].step = "commit" /\ s \in Sessions
        /\ UNCHANGED <<disk, installed, expired, slot, faults>>
    BY Constants, Types DEF Inv, CommitSession, At, Sound
  <1>2. RestOK /\ UNCHANGED <<receipt, installed>> /\ thread[w].goal \in Goals
    BY <1>1, SeenTypes DEF Inv, TypeOK, JobsOK, disk, RestOK
  <1>3. CASE StagingFails(w, "install_failed") /\ UNCHANGED <<installer, callbacks>>
    <2>1. MayStep(w, "abandon_staged", "install_failed")
      BY <1>1 DEF MayStep, MayGo, Steps, CheckSteps, Goals, ReceiptStates,
         TerminalStates
    <2>2. StepsTo(w, "abandon_staged", "install_failed")
      BY <1>3 DEF StepsTo, StagingFails
    <2>3. Untouched
      BY <1>2, <1>3 DEF Untouched
    <2> QED BY <1>1, <1>2, <2>1, <2>2, <2>3, StepsOn
  <1>4. CASE /\ installer[s].phase = "open" /\ Goto(w, "await")
             /\ installer' = [installer EXCEPT ![s].phase = "committed"]
             /\ callbacks' = callbacks \cup {c}
    <2>1. /\ installer' \in InstallerStates /\ MovesOn(installer, installer')
          /\ installer'[s].phase = "committed"
          /\ installer'[s].shown = installer[s].shown
          /\ \A r \in Sessions \ {s} : installer'[r] = installer[r]
          /\ ShownOK(installer')
      <3>1. "committed" \in {"committed", "gone", "installed"}
            /\ installer[s].phase \in {"open", "committed"}
        BY <1>4
      <3> QED BY <1>1, <1>4, <3>1, Changes
    <2>2. ~installer[s].shown
      BY <1>1, <1>4 DEF Inv, ShownOK
    <2>0. /\ installer[s].phase = "open" /\ callbacks' = callbacks \cup {c}
          /\ CallbacksOK(callbacks, installer)
          /\ callbacks \subseteq [session : Sessions, status : Statuses]
      BY <1>4, Types DEF Inv
    <2>3. CallbacksOK(callbacks', installer')
      BY <1>1, <2>1, <2>2, <2>0, SMTT(30) DEF CallbacksOK, Opened, Ended
    <2>4. callbacks' \subseteq [session : Sessions, status : Statuses]
      BY <1>1, <2>0, SMTT(30) DEF Statuses
    <2>5. AsksNothing
      BY <1>4, <2>1 DEF AsksNothing
    <2>6. ApprovalIsTracked'
      BY <1>2, <2>1, <2>2 DEF Inv, ApprovalIsTracked
    <2>7. InstallerOK
      BY <1>2, <2>1, <2>3, <2>4, StaysInstalled DEF InstallerOK, Inv, TypeOK
    <2>8. ReceiptMoves
      BY <1>2, <2>1, ReceiptKept
    <2>9. MayGo(w, "await", thread[w].goal, installer')
      BY <1>1, <1>2 DEF MayGo, Steps, CheckSteps
    <2>10. StepsTo(w, "await", thread[w].goal)
      BY <1>4 DEF StepsTo
    <2> QED BY <1>1, <1>2, <2>5, <2>6, <2>7, <2>8, <2>9, <2>10, ActsOn
  <1> QED BY <1>3, <1>4 DEF CommitSession

\* A failed check abandons its session.
LEMMA AbandonStagedInv == ASSUME Inv, NEW w \in Workers, AbandonStaged(w), JobsOK PROVE Inv'
  <1> DEFINE s == thread[w].seen.session
  <1>1. /\ w \in Threads /\ w # Main /\ thread[w].step = "abandon_staged" /\ s \in Sessions
        /\ Opened(s, installer) /\ thread[w].goal \in ReceiptStates
        /\ UNCHANGED <<disk, installed, expired, slot, faults>> /\ Goto(w, "inspect")
    BY Constants, Types DEF Inv, AbandonStaged, At, Sound
  <1>2. RestOK /\ UNCHANGED <<receipt, installed>> /\ thread[w].goal \in Goals
    BY <1>1, SeenTypes DEF Inv, TypeOK, JobsOK, disk, RestOK
  <1>3. StepsTo(w, "inspect", thread[w].goal)
    BY <1>1 DEF StepsTo
  <1>4. CASE Present(s) /\ Abandoned(s)
    <2>1. /\ InstallerOK /\ AsksNothing /\ ReceiptMoves /\ ApprovalIsTracked'
          /\ Ended(s, installer')
      BY <1>1, <1>2, <1>4, AbandonedEnds
    <2>2. MayGo(w, "inspect", thread[w].goal, installer')
      BY <1>1, <1>2, <2>1 DEF MayGo, Steps, CheckSteps
    <2> QED BY <1>1, <1>2, <1>3, <2>1, <2>2, ActsOn
  <1>5. CASE ~Present(s) /\ UNCHANGED <<installer, callbacks>>
    <2>1. Ended(s, installer)
      <3>1. installer[s].phase \in InstallerPhases
        BY <1>1, Types DEF Inv, InstallerStates
      <3> QED BY <1>1, <1>5, <3>1 DEF Present, Opened, Ended, InstallerPhases
    <2>2. MayStep(w, "inspect", thread[w].goal)
      BY <1>1, <1>2, <2>1 DEF MayStep, MayGo, Steps, CheckSteps
    <2>3. Untouched
      BY <1>2, <1>5 DEF Untouched
    <2> QED BY <1>1, <1>2, <1>3, <2>2, <2>3, StepsOn
  <1> QED BY <1>4, <1>5 DEF AbandonStaged

\* An uncommitted session is abandoned before its receipt is ended.
LEMMA AbandonInv == ASSUME Inv, NEW w \in Workers, Abandon(w), JobsOK PROVE Inv'
  <1> DEFINE s == thread[w].seen.session
  <1>1. /\ w \in Threads /\ w # Main /\ thread[w].step = "abandon" /\ s \in Sessions
        /\ thread[w].goal \in ReceiptStates /\ UNCHANGED <<disk, installed, expired, faults>>
    BY Constants, Types DEF Inv, Abandon, At, Sound
  <1>2. RestOK /\ UNCHANGED <<receipt, installed>> /\ thread[w].goal \in Goals
    BY <1>1, SeenTypes DEF Inv, TypeOK, JobsOK, disk, RestOK
  <1>3. CASE Present(s) /\ Abandoned(s) /\ Goto(w, "write") /\ UNCHANGED slot
    <2>1. /\ InstallerOK /\ AsksNothing /\ ReceiptMoves /\ ApprovalIsTracked'
          /\ Ended(s, installer')
      BY <1>1, <1>2, <1>3, AbandonedEnds
    <2>2. MayGo(w, "write", thread[w].goal, installer')
      BY <1>1, <1>2, <2>1 DEF MayGo, Steps, CheckSteps
    <2>3. StepsTo(w, "write", thread[w].goal)
      BY <1>3 DEF StepsTo
    <2> QED BY <1>1, <1>2, <1>3, <2>1, <2>2, <2>3, ActsOn
  <1>4. CASE Returns(w) /\ UNCHANGED <<installer, callbacks>>
    BY <1>1, <1>2, <1>4, Ends DEF Untouched
  <1> QED BY <1>3, <1>4 DEF Abandon

\* A committed session is abandoned after its cancellation was recorded.
LEMMA AbandonAfterInv == ASSUME Inv, NEW w \in Workers, AbandonAfter(w), JobsOK PROVE Inv'
  <1> DEFINE s == thread[w].seen.session
  <1>1. /\ w \in Threads /\ w # Main /\ thread[w].step = "abandon_after" /\ s \in Sessions
        /\ UNCHANGED <<disk, installed, expired, faults>>
    BY Constants, Types DEF Inv, AbandonAfter, At, Sound
  <1>2. RestOK /\ UNCHANGED <<receipt, installed>> /\ thread[w].goal \in Goals
    BY <1>1, SeenTypes DEF Inv, TypeOK, JobsOK, disk, RestOK
  <1>3. CASE Present(s) /\ Abandoned(s) /\ Returns(w)
    <2>1. InstallerOK /\ AsksNothing /\ ReceiptMoves /\ ApprovalIsTracked'
      BY <1>1, <1>2, <1>3, AbandonedEnds
    <2> QED BY <1>1, <1>2, <1>3, <2>1, ActsLast
  <1>4. CASE Goto(w, "reread") /\ UNCHANGED slot /\ UNCHANGED <<installer, callbacks>>
    <2>1. MayStep(w, "reread", thread[w].goal)
      BY <1>1, <1>2 DEF MayStep, MayGo, Steps, CheckSteps
    <2>2. StepsTo(w, "reread", thread[w].goal)
      BY <1>4 DEF StepsTo
    <2>3. Untouched
      BY <1>2, <1>4 DEF Untouched
    <2> QED BY <1>1, <1>2, <1>4, <2>1, <2>2, <2>3, StepsOn
  <1>5. CASE Returns(w) /\ UNCHANGED <<installer, callbacks>>
    BY <1>1, <1>2, <1>5, Ends DEF Untouched
  <1> QED BY <1>3, <1>4, <1>5 DEF AbandonAfter

-----------------------------------------------------------------------------
(* The callback receiver. *)

\* The handler a broadcast starts works on the live receipt.
Handler(st, g) ==
    [Idle EXCEPT !.job = "callback", !.seen = receipt, !.step = st, !.goal = g]

\* The type and the fields of such a handler.
LEMMA HandlerFacts ==
    ASSUME Inv, Live(receipt), NEW st \in Steps, NEW g \in Goals
    PROVE  /\ Handler(st, g) \in ThreadStates /\ Handler(st, g).step = st
           /\ Handler(st, g).goal = g /\ Handler(st, g).seen = receipt
  <1>1. receipt \in [session : Sessions \cup {0}, plan : Plans \cup {0},
                     state : ReceiptStates \cup {"none"}]
    BY SMTT(30) DEF Inv, TypeOK, Receipts, NoReceipt
  <1>2. "callback" \in Jobs
    BY DEF Jobs
  <1> QED BY <1>1, <1>2, RecordTypes DEF ThreadStates, Handler

\* captureCallback starts a handler for the live receipt's own session only.
LEMMA ReceiveInv == ASSUME Inv, Receive, JobsOK PROVE Inv'
  <1>1. PICK c \in callbacks :
          /\ callbacks' = callbacks \ {c}
          /\ \/ /\ Live(receipt) /\ receipt.session = c.session
                /\ SetThread(Main, Handler(AfterStatus(c.status),
                                           IF c.status = "aborted" THEN "install_cancelled"
                                                                   ELSE "install_failed"))
             \/ UNCHANGED thread
    BY DEF Receive, SetThread, Handler
  <1>2. /\ UNCHANGED <<disk, installer, installed, expired, slot, faults>>
        /\ Main \in Threads /\ Main \notin Workers
    BY Types, Constants DEF Receive, Inv
  <1>3. /\ RestOK /\ UNCHANGED <<receipt, installer, installed>>
        /\ slot' \in Workers \cup {Nobody} /\ \A v \in Workers \ {Main} : slot = v => slot' = v
    BY <1>2 DEF Inv, TypeOK, JobsOK, disk, RestOK
  <1>4. InstallerOK /\ AsksNothing /\ ReceiptMoves /\ ApprovalIsTracked'
    <2>1. MovesOn(installer, installer')
      BY <1>3, StandsStill
    <2>2. ReceiptMoves
      BY <1>3, <2>1, ReceiptKept
    <2>3. CallbacksOK(callbacks', installer')
      BY <1>1, <1>3 DEF Inv, CallbacksOK
    <2>4. InstallerOK /\ AsksNothing
      BY <1>1, <1>3, <2>1, <2>3, Types DEF Inv, TypeOK, InstallerOK, AsksNothing
    <2>5. ApprovalIsTracked'
      BY <1>3 DEF Inv, ApprovalIsTracked
    <2> QED BY <2>2, <2>4, <2>5
  <1>5. CASE UNCHANGED thread
    BY <1>2, <1>3, <1>4, <1>5, OthersAct
  <1>6. ASSUME NEW st \in Steps, NEW g \in {"install_cancelled", "install_failed"},
               Live(receipt), receipt.session = c.session, SetThread(Main, Handler(st, g)),
               \/ st = "confirm" /\ c.status = "pending_user_action" /\ g = "install_failed"
               \/ st \in {"verify", "write"} /\ c.status # "pending_user_action"
        PROVE  Inv'
    <2>1. g \in Goals /\ g \in Endings /\ g # Readback /\ g \in ReceiptStates
      BY <1>6 DEF Goals, ReceiptStates, TerminalStates, Endings, Readback
    <2> DEFINE n == Handler(st, g)
    <2>2. n \in ThreadStates /\ n.step = st /\ n.goal = g /\ n.seen = receipt
      BY <1>6, <2>1, HandlerFacts
    <2> HIDE DEF n
    <2>3. /\ receipt.session \in Sessions /\ receipt.plan \in Plans /\ Opened(receipt.session, installer)
          /\ receipt.state = Readback => Ended(receipt.session, installer)
      <3>1. receipt # NoReceipt
        BY <1>6 DEF Live
      <3> QED BY <1>2, <3>1, SeenTypes DEF Inv, ReceiptOK
    <2>4. c \in [session : Sessions, status : Statuses]
      BY Types DEF Inv
    <2>5. /\ c.status = "pending_user_action" =>
                installer[c.session].phase # "open" /\ ~installer[c.session].shown
          /\ c.status # "pending_user_action" => Ended(c.session, installer)
      BY DEF Inv, CallbacksOK
    <2>6. Sound(n, installer')
      BY <1>3, <1>6, <2>1, <2>2, <2>3, <2>5 DEF Sound
    <2>7. c.status = "pending_user_action" =>
             [session |-> receipt.session, status |-> "pending_user_action"] \notin callbacks'
      BY <1>1, <1>6, <2>4
    <2>8. MainOK(n, installer', receipt', callbacks')
      BY <1>3, <1>6, <2>1, <2>2, <2>5, <2>7 DEF MainOK
    <2>9. SetThread(Main, n)
      BY <1>6 DEF n
    <2> QED BY <1>2, <1>3, <1>4, <2>2, <2>6, <2>8, <2>9, Acts
  <1>7. CASE /\ Live(receipt) /\ receipt.session = c.session
             /\ SetThread(Main, Handler(AfterStatus(c.status),
                                        IF c.status = "aborted" THEN "install_cancelled"
                                                                ELSE "install_failed"))
    <2> DEFINE st == AfterStatus(c.status)
               g == IF c.status = "aborted" THEN "install_cancelled" ELSE "install_failed"
    <2>1. c.status \in Statuses
      BY Types DEF Inv
    <2>2. /\ st \in Steps /\ g \in {"install_cancelled", "install_failed"}
          /\ \/ st = "confirm" /\ c.status = "pending_user_action" /\ g = "install_failed"
             \/ st \in {"verify", "write"} /\ c.status # "pending_user_action"
      BY <2>1 DEF AfterStatus, Steps, Statuses
    <2>3. SetThread(Main, Handler(st, g))
      BY <1>7
    <2> HIDE DEF st, g
    <2> QED BY <1>6, <1>7, <2>2, <2>3
  <1> QED BY <1>1, <1>5, <1>7

\* dispatchPendingConfirmation shows what the receipt says, under one lock.
LEMMA ConfirmInv == ASSUME Inv, Confirm, JobsOK PROVE Inv'
  <1> DEFINE s == thread[Main].seen.session
  <1>1. /\ Main \in Threads /\ thread[Main].step = "confirm" /\ s \in Sessions
        /\ Opened(s, installer) /\ MainOK(thread[Main], installer, receipt, callbacks)
    BY Types DEF Inv, Confirm, At, Sound
  <1>2. /\ receipt.session = s /\ installer[s].phase # "open" /\ ~installer[s].shown
        /\ [session |-> s, status |-> "pending_user_action"] \notin callbacks
        /\ thread[Main].goal = "install_failed"
    BY <1>1 DEF MainOK
  <1>3. RestOK /\ UNCHANGED <<callbacks, installed>>
    BY FaultKept DEF Confirm, Inv, TypeOK, JobsOK, RestOK
  <1>4. CASE /\ receipt' = Updated("pending_user_confirmation") /\ Returns(Main)
             /\ installer' = [installer EXCEPT ![s].shown = @ \/ Dispatches(receipt')]
    <2>1. receipt # NoReceipt
      BY <1>1, <1>2, RecordTypes, Constants
    <2>2. /\ receipt' \in Receipts /\ receipt'.session = receipt.session
          /\ receipt'.state \in {receipt.state, "pending_user_confirmation"}
          /\ Live(receipt') => Live(receipt)
      <3>1. "pending_user_confirmation" \in ReceiptStates
        BY DEF ReceiptStates
      <3> QED BY <1>4, <2>1, <3>1, UpdatedFacts
    <2>3. /\ installer \in InstallerStates
          /\ installer'[s].phase = installer[s].phase /\ installer'[s].plan = installer[s].plan
          /\ installer'[s].shown = (installer[s].shown \/ Dispatches(receipt'))
          /\ \A r \in Sessions \ {s} : installer'[r] = installer[r]
      BY <1>1, <1>4, Types DEF Inv, InstallerStates
    <2>4. installer' \in InstallerStates
      <3>1. installer[s].shown \/ Dispatches(receipt') \in BOOLEAN
        BY <1>1, <2>3 DEF InstallerStates, Dispatches
      <3> QED BY <1>1, <1>4, <2>3, <3>1 DEF InstallerStates
    <2>5. MovesOn(installer, installer')
      BY <1>1, <2>3 DEF MovesOn, Opened, Ended
    <2>6. CallbacksOK(callbacks', installer')
      <3>1. /\ CallbacksOK(callbacks, installer) /\ callbacks' = callbacks
            /\ callbacks \subseteq [session : Sessions, status : Statuses]
        BY <1>3, Types DEF Inv
      <3> SUFFICES ASSUME NEW c \in callbacks
                   PROVE  /\ c.status = "pending_user_action" =>
                                /\ Opened(c.session, installer')
                                /\ installer'[c.session].phase # "open"
                                /\ ~installer'[c.session].shown
                          /\ c.status # "pending_user_action" =>
                                Ended(c.session, installer')
        BY <3>1 DEF CallbacksOK
      <3>2. c.session \in Sessions
        BY <3>1
      <3>3. installer'[c.session].phase = installer[c.session].phase
        BY <2>3, <3>2
      <3>4. CASE c.status = "pending_user_action"
        <4>1. c = [session |-> c.session, status |-> c.status]
          BY <3>1
        <4>2. c.session # s
          BY <1>2, <3>4, <4>1
        <4> QED BY <2>3, <3>1, <3>2, <3>3, <3>4, <4>2 DEF CallbacksOK, Opened
      <3>5. CASE c.status # "pending_user_action"
        BY <3>1, <3>3, <3>5 DEF CallbacksOK, Ended
      <3> QED BY <3>4, <3>5
    <2>7. ShownOK(installer')
      BY <1>1, <1>2, <2>3 DEF Inv, ShownOK, Opened
    <2>8. InstallerOK
      BY <1>3, <2>4, <2>5, <2>6, <2>7, StaysInstalled, Types DEF Inv, TypeOK,
         InstallerOK
    <2>9. ReceiptMoves
      <3>1. "pending_user_confirmation" # Readback
        BY DEF Readback
      <3>2. ReceiptOK(receipt', installer')
        BY <1>1, <1>2, <2>2, <2>3, <3>1 DEF Inv, ReceiptOK, Opened, Ended
      <3> QED BY <2>2, <3>2 DEF ReceiptMoves
    <2>10. ApprovalIsTracked'
      <3>1. Dispatches(receipt') => Live(receipt')
        BY <2>2, RecordTypes DEF Dispatches, Live, IsTerminal, TerminalStates
      <3> QED BY <1>1, <1>2, <2>2, <2>3, <3>1 DEF Inv, ApprovalIsTracked
    <2> QED BY <1>1, <1>3, <1>4, <2>8, <2>9, <2>10, ActsLast
  <1>5. CASE Goto(Main, "write") /\ UNCHANGED <<receipt, installer, slot>>
    <2>1. MayStep(Main, "write", "install_failed")
      BY <1>1, <1>2 DEF MayStep, MayGo, Steps, CheckSteps, Goals, ReceiptStates,
         TerminalStates,
           Endings, Readback
    <2>2. StepsTo(Main, "write", "install_failed")
      BY <1>2, <1>5 DEF StepsTo
    <2>3. Untouched
      BY <1>3, <1>5 DEF Untouched
    <2> QED BY <1>1, <1>3, <1>5, <2>1, <2>2, <2>3, StepsOn
  <1> QED BY <1>4, <1>5 DEF Confirm

-----------------------------------------------------------------------------
(* The environment. *)

\* The wearer approves: the plan is installed.
LEMMA ApproveInv == ASSUME Inv, NEW s \in Sessions, Approve(s), JobsOK PROVE Inv'
  <1>1. /\ installer[s].phase \in {"open", "committed"}
        /\ installer' = [installer EXCEPT ![s].phase = "installed"]
        /\ installed' = installer[s].plan /\ UNCHANGED <<receipt, thread, slot>>
    BY DEF Approve, disk
  <1>2. /\ callbacks' \subseteq [session : Sessions, status : Statuses]
        /\ \A c \in callbacks' \ callbacks : c.session = s /\ c.status # "pending_user_action"
    BY Types, SMTT(30) DEF Inv, Approve, Answers, Statuses
  <1>3. RestOK
    BY DEF Approve, Inv, TypeOK, JobsOK, disk, RestOK
  <1>4. InstallerOK /\ AsksNothing /\ ReceiptMoves /\ ApprovalIsTracked'
    BY <1>1, <1>2, EndsSession
  <1> QED BY <1>1, <1>3, <1>4, OthersAct

\* The wearer declines: the session is gone.
LEMMA DeclineInv == ASSUME Inv, NEW s \in Sessions, Decline(s), JobsOK PROVE Inv'
  <1>1. /\ installer[s].phase \in {"open", "committed"}
        /\ installer' = [installer EXCEPT ![s].phase = "gone"]
        /\ installed' = installed /\ UNCHANGED <<receipt, thread, slot>>
    BY DEF Decline, disk
  <1>2. /\ callbacks' \subseteq [session : Sessions, status : Statuses]
        /\ \A c \in callbacks' \ callbacks : c.session = s /\ c.status # "pending_user_action"
    BY Types, SMTT(30) DEF Inv, Decline, Answers, Statuses
  <1>3. RestOK
    BY FaultKept DEF Decline, Inv, TypeOK, JobsOK, disk, RestOK
  <1>4. InstallerOK /\ AsksNothing /\ ReceiptMoves /\ ApprovalIsTracked'
    BY <1>1, <1>2, EndsSession
  <1> QED BY <1>1, <1>3, <1>4, OthersAct

\* What leaves receipt, installer and threads alone.
LEMMA NothingActs ==
    ASSUME Inv, RestOK, UNCHANGED <<receipt, installer, callbacks, installed, thread, slot>>
    PROVE  Inv'
  <1>1. InstallerOK /\ AsksNothing
    BY InstallerKept
  <1>2. ReceiptMoves
    BY ReceiptKept, StandsStill
  <1>3. ApprovalIsTracked'
    BY DEF Inv, ApprovalIsTracked
  <1> QED BY <1>1, <1>2, <1>3, OthersAct

\* A manifest expires.
LEMMA ExpireInv == ASSUME Inv, Expire, JobsOK PROVE Inv'
  <1>1. UNCHANGED <<receipt, installer, callbacks, installed, thread, slot>>
    BY DEF Expire, disk
  <1>2. RestOK
    BY FaultKept DEF Expire, Inv, TypeOK, JobsOK, disk, RestOK
  <1> QED BY <1>1, <1>2, NothingActs

\* The process dies: its threads are gone, receipt and installer stay.
LEMMA CrashInv == ASSUME Inv, Crash, JobsOK PROVE Inv'
  <1>1. /\ UNCHANGED <<receipt, staged, checkpoint, installer, installed, expired>>
        /\ slot' = Nobody /\ callbacks' \subseteq callbacks /\ faults' \in 0..MaxFaults
    BY FaultKept DEF Crash, disk
  <1>2. thread' \in [Threads -> ThreadStates] /\ \A t \in Threads : thread'[t] = Idle
    BY RecordTypes DEF Crash
  <1>3. TypeOK'
    BY <1>1, <1>2 DEF Inv, TypeOK, JobsOK, ThreadStates, Goals
  <1>4. \A t \in Threads : Sound(thread'[t], installer')
    BY <1>2, RecordTypes DEF Sound
  <1>5. \A w \in Workers : WorkerOK(w, thread'[w], installer', receipt', slot')
    BY <1>2, RecordTypes, Types DEF Inv, WorkerOK, CheckSteps
  <1>6. MainOK(thread'[Main], installer', receipt', callbacks')
    BY <1>2, RecordTypes, Types DEF Inv, MainOK
  <1>7. CallbacksOK(callbacks', installer')
    BY <1>1 DEF Inv, CallbacksOK
  <1>8. /\ CheckpointWasInstalled' /\ ApprovalIsTracked' /\ ReceiptOK(receipt', installer')
        /\ ShownOK(installer') /\ (installed' # 0 => InstalledFrom(installed', installer'))
    BY <1>1 DEF Inv, CheckpointWasInstalled, ApprovalIsTracked
  <1> QED BY <1>3, <1>4, <1>5, <1>6, <1>7, <1>8 DEF Inv

-----------------------------------------------------------------------------
(* The theorems. *)

\* A fresh installation satisfies the invariant.
LEMMA InitInv == Init => Inv
  <1> SUFFICES ASSUME Init PROVE Inv
    OBVIOUS
  <1>1. /\ receipt = NoReceipt /\ slot = Nobody /\ callbacks = {} /\ installed = 0 /\ checkpoint = 0
        /\ thread \in [Threads -> ThreadStates] /\ \A t \in Threads : thread[t] = Idle
    BY RecordTypes DEF Init
  <1>2. installer \in InstallerStates
        /\ \A s \in Sessions : installer[s].phase = "none" /\ ~installer[s].shown
    BY DEF Init, InstallerStates, InstallerPhases
  <1>3. TypeOK
    BY <1>1, <1>2, Constants, SMTT(30) DEF Init, TypeOK, ThreadStates, Goals, InstallerStates,
       InstallerPhases
  <1>4. \A t \in Threads : Sound(thread[t], installer)
    BY <1>1, RecordTypes DEF Sound
  <1>5. \A w \in Workers : WorkerOK(w, thread[w], installer, receipt, slot)
    BY <1>1, RecordTypes DEF WorkerOK, CheckSteps, Threads
  <1>6. MainOK(thread[Main], installer, receipt, callbacks)
    BY <1>1, RecordTypes DEF MainOK, Threads
  <1>7. ReceiptOK(receipt, installer) /\ CallbacksOK(callbacks, installer) /\ ShownOK(installer)
    BY <1>1, <1>2, RecordTypes DEF ReceiptOK, CallbacksOK, ShownOK
  <1>8. CheckpointWasInstalled /\ ApprovalIsTracked
    BY <1>1, <1>2 DEF CheckpointWasInstalled, ApprovalIsTracked
  <1> QED BY <1>1, <1>3, <1>4, <1>5, <1>6, <1>7, <1>8 DEF Inv

\* Each step of the updater keeps the invariant.
LEMMA NextInv == Inv /\ [Next]_vars => Inv'
  <1> SUFFICES ASSUME Inv, [Next]_vars PROVE Inv'
    OBVIOUS
  <1>1. ASSUME NEW w \in Workers, BeginJob(w) PROVE Inv'
    <2>1. JobsOK
      <3>1. jobs \in 0..MaxJobs /\ jobs < MaxJobs /\ jobs' = jobs + 1
        BY <1>1 DEF BeginJob, Inv, TypeOK
      <3> QED BY <3>1, Constants, SMTT(30) DEF JobsOK
    <2> QED BY <1>1, <2>1, StartCheckInv, ResumeInv, AskCancelInv DEF BeginJob
  <1>2. ASSUME UNCHANGED jobs PROVE JobsOK
    BY <1>2 DEF JobsOK, Inv, TypeOK
  <1>3. ASSUME NEW t \in Threads, SettleStep(t), UNCHANGED jobs PROVE Inv'
    BY <1>2, <1>3, VerifyReadbackInv, AdvanceCheckpointInv, StoreCheckpointInv, WriteStateInv,
       CleanStagedInv DEF SettleStep
  <1>4. ASSUME NEW w \in Workers, CheckStep(w), UNCHANGED jobs PROVE Inv'
    BY <1>2, <1>4, DownloadInv, OpenSessionInv, CopyApkInv, BeginReceiptInv, RequestCommitInv,
       CommitSessionInv, AwaitCallbackInv, AbandonStagedInv, InspectFailedInv DEF CheckStep
  <1>5. ASSUME NEW w \in Workers, CheckFails(w) \/ WorkerStep(w), UNCHANGED jobs PROVE Inv'
    <2>1. w \in Threads
      BY DEF Threads
    <2> QED BY <1>2, <1>3, <1>4, <1>5, <2>1, CheckFailsInv, CancelInv, RereadInv, LookInv,
               AbandonInv,
               AbandonAfterInv DEF WorkerStep
  <1>6. ASSUME Receive \/ MainStep, UNCHANGED jobs PROVE Inv'
    <2>1. Main \in Threads
      BY DEF Threads
    <2> QED BY <1>2, <1>3, <1>6, <2>1, ReceiveInv, ConfirmInv DEF MainStep
  <1>7. ASSUME NEW s \in Sessions, Approve(s) \/ Decline(s), UNCHANGED jobs PROVE Inv'
    BY <1>2, <1>7, ApproveInv, DeclineInv
  <1>8. CASE (Expire \/ Crash) /\ UNCHANGED jobs
    BY <1>2, <1>8, ExpireInv, CrashInv
  <1>9. CASE UNCHANGED vars
    <2>1. /\ UNCHANGED <<receipt, installer, callbacks, installed, thread, slot>>
          /\ UNCHANGED <<staged, checkpoint, expired, faults, jobs>>
      BY <1>9 DEF vars, disk, world
    <2>2. RestOK
      BY <2>1 DEF Inv, TypeOK, RestOK
    <2> QED BY <2>1, <2>2, NothingActs
  <1> QED BY <1>1, <1>5, <1>6, <1>7, <1>8, <1>9 DEF Next

(***************************************************************************)
(* The invariant of the attended installation: every thread, receipt and   *)
(* broadcast is sound, whatever interleaving, crash or late callback.      *)
(***************************************************************************)
THEOREM InstallInvariant == Spec => []Inv
  BY InitInv, NextInv, PTL DEF Spec

(***************************************************************************)
(* TypeOK always holds: the state written to the receipt is always one of  *)
(* the receipt store's.                                                    *)
(***************************************************************************)
THEOREM InstallTypes == Spec => []TypeOK
  <1>1. Inv => TypeOK
    BY DEF Inv
  <1> QED BY <1>1, InstallInvariant, PTL

(***************************************************************************)
(* ApprovalIsTracked: for any number of workers, sessions and crashes, the *)
(* wearer can only approve the session of a receipt that has not ended.    *)
(***************************************************************************)
THEOREM NothingApprovedBehindTheReceipt == Spec => []ApprovalIsTracked
  <1>1. Inv => ApprovalIsTracked
    BY DEF Inv
  <1> QED BY <1>1, InstallInvariant, PTL

(***************************************************************************)
(* CheckpointWasInstalled: commitInstalledCheckpoint only ever stores a    *)
(* plan the Package Installer has installed.                               *)
(***************************************************************************)
THEOREM OnlyInstalledPlansAreCheckpointed == Spec => []CheckpointWasInstalled
  <1>1. Inv => CheckpointWasInstalled
    BY DEF Inv
  <1> QED BY <1>1, InstallInvariant, PTL

-----------------------------------------------------------------------------
(* What a step may never do. *)

Kept ==
    /\ Live(receipt) => receipt'.session = receipt.session
    /\ receipt # NoReceipt /\ ~Live(receipt) /\ receipt'.session = receipt.session =>
          receipt' = receipt

\* updateState, whoever calls it, keeps the receipt.
LEMMA UpdateKeeps ==
    ASSUME Inv, NEW state \in ReceiptStates, receipt' = Updated(state), receipt # NoReceipt
    PROVE  Kept
  BY UpdatedFacts DEF Kept

\* begin, the only writer that changes the session, finds an ended receipt.
LEMMA BeginKeeps == ASSUME Inv, NEW w \in Workers, BeginReceipt(w) PROVE Kept
  <1>1. CASE UNCHANGED receipt
    BY <1>1 DEF Kept
  <1>2. CASE receipt' = NewReceipt(thread[w].seen)
    <2>1. w \in Threads /\ thread[w].seen \in [session : Sessions \cup {0}, plan : Plans \cup {0},
                                               state : ReceiptStates \cup {"none"}]
      BY Types DEF Inv, ThreadStates
    <2>2. receipt'.session = thread[w].seen.session
      BY <1>2, <2>1 DEF NewReceipt
    <2>3. ~Live(receipt) /\ receipt.session # thread[w].seen.session
      BY DEF Inv, WorkerOK, BeginReceipt, At
    <2> QED BY <2>2, <2>3 DEF Kept
  <1> QED BY <1>1, <1>2 DEF BeginReceipt

\* The request to commit keeps the receipt.
LEMMA RequestKeeps == ASSUME Inv, NEW w \in Workers, RequestCommit(w) PROVE Kept
  <1>1. CASE UNCHANGED receipt
    BY <1>1 DEF Kept
  <1>2. CASE receipt.session = thread[w].seen.session /\ receipt' = Updated("commit_requested")
    <2>1. receipt # NoReceipt
      <3>1. w \in Threads /\ thread[w].step = "request"
        BY Types DEF Inv, RequestCommit, At
      <3> QED BY <1>2, <3>1, RecordTypes, Constants DEF Inv, Sound
    <2>2. "commit_requested" \in ReceiptStates
      BY DEF ReceiptStates
    <2> QED BY <1>2, <2>1, <2>2, UpdateKeeps
  <1> QED BY <1>1, <1>2 DEF RequestCommit

\* So does the wait for the callback.
LEMMA AwaitKeeps == ASSUME Inv, NEW w \in Workers, AwaitCallback(w) PROVE Kept
  <1>1. CASE UNCHANGED receipt
    BY <1>1 DEF Kept
  <1>2. CASE /\ receipt.state = "commit_requested"
             /\ receipt' = [receipt EXCEPT !.state = "awaiting_installer_callback"]
    <2>1. receipt # NoReceipt /\ "awaiting_installer_callback" \in ReceiptStates
      BY <1>2, RecordTypes DEF ReceiptStates
    <2>2. receipt' = Updated("awaiting_installer_callback")
      BY <1>2 DEF Updated, Keeps, IsTerminal, TerminalStates
    <2> QED BY <2>1, <2>2, UpdateKeeps
  <1> QED BY <1>1, <1>2 DEF AwaitCallback

\* So does every write of reconciliation, cancellation and callbacks.
LEMMA WriteKeeps == ASSUME Inv, NEW t \in Threads, WriteState(t) PROVE Kept
  <1>1. CASE UNCHANGED receipt
    BY <1>1 DEF Kept
  <1>2. CASE receipt.session = thread[t].seen.session /\ receipt' = Updated(thread[t].goal)
    <2>1. receipt # NoReceipt /\ thread[t].goal \in ReceiptStates
      <3>1. thread[t].step = "write"
        BY DEF WriteState, At
      <3> QED BY <1>2, <3>1, RecordTypes, Constants DEF Inv, Sound
    <2> QED BY <1>2, <2>1, UpdateKeeps
  <1> QED BY <1>1, <1>2 DEF WriteState

\* So does the confirmation.
LEMMA ConfirmKeeps == ASSUME Inv, Confirm PROVE Kept
  <1>1. CASE UNCHANGED receipt
    BY <1>1 DEF Kept
  <1>2. CASE receipt' = Updated("pending_user_confirmation")
    <2>1. receipt # NoReceipt
      <3>1. Main \in Threads /\ thread[Main].step = "confirm"
        BY Types DEF Inv, Confirm, At
      <3> QED BY <3>1, RecordTypes, Constants DEF Inv, Sound, MainOK
    <2>2. "pending_user_confirmation" \in ReceiptStates
      BY DEF ReceiptStates
    <2> QED BY <1>2, <2>1, <2>2, UpdateKeeps
  <1> QED BY <1>1, <1>2 DEF Confirm

\* No other step writes the receipt.
LEMMA OthersKeep ==
    ASSUME NEW t,
           \/ StartCheck(t) \/ Resume(t) \/ AskCancel(t) \/ CheckFails(t)
           \/ Download(t) \/ OpenSession(t) \/ CopyApk(t) \/ CommitSession(t)
           \/ AbandonStaged(t) \/ InspectFailed(t) \/ Cancel(t) \/ Reread(t) \/ Look(t)
           \/ Abandon(t) \/ AbandonAfter(t) \/ VerifyReadback(t) \/ AdvanceCheckpoint(t)
           \/ StoreCheckpoint(t) \/ CleanStaged(t) \/ Receive \/ Approve(t) \/ Decline(t)
           \/ Expire \/ Crash
    PROVE  UNCHANGED receipt
  <1>1. CASE StartCheck(t) \/ Resume(t) \/ AskCancel(t) \/ CheckFails(t) \/ Expire \/ Crash
    BY <1>1 DEF StartCheck, Resume, AskCancel, CheckFails, Expire, Crash, disk
  <1>2. CASE Download(t) \/ OpenSession(t) \/ CopyApk(t) \/ CommitSession(t)
    BY <1>2 DEF Download, OpenSession, CopyApk, CommitSession, disk
  <1>3. CASE AbandonStaged(t) \/ InspectFailed(t) \/ Cancel(t) \/ Reread(t) \/ Look(t)
    BY <1>3 DEF AbandonStaged, InspectFailed, Cancel, Reread, Look, disk
  <1>4. CASE Abandon(t) \/ AbandonAfter(t) \/ VerifyReadback(t) \/ AdvanceCheckpoint(t)
    BY <1>4 DEF Abandon, AbandonAfter, VerifyReadback, AdvanceCheckpoint, disk
  <1>5. CASE StoreCheckpoint(t) \/ CleanStaged(t) \/ Receive \/ Approve(t) \/ Decline(t)
    BY <1>5 DEF StoreCheckpoint, CleanStaged, Receive, Approve, Decline, disk
  <1> QED BY <1>1, <1>2, <1>3, <1>4, <1>5

\* No step loses the receipt.
LEMMA StepKeeps == Inv /\ [Next]_vars => Kept
  <1> SUFFICES ASSUME Inv, [Next]_vars PROVE Kept
    OBVIOUS
  <1>1. ASSUME UNCHANGED receipt PROVE Kept
    BY <1>1 DEF Kept
  <1>2. CASE UNCHANGED vars
    BY <1>1, <1>2 DEF vars, disk
  <1>3. ASSUME NEW w \in Workers, BeginJob(w) PROVE Kept
    BY <1>1, <1>3, OthersKeep DEF BeginJob
  <1>4. ASSUME NEW t \in Threads, SettleStep(t) PROVE Kept
    BY <1>1, <1>4, OthersKeep, WriteKeeps DEF SettleStep
  <1>5. ASSUME NEW w \in Workers, CheckStep(w) PROVE Kept
    BY <1>1, <1>5, OthersKeep, BeginKeeps, RequestKeeps, AwaitKeeps DEF CheckStep
  <1>6. ASSUME NEW w \in Workers, CheckFails(w) \/ WorkerStep(w) PROVE Kept
    <2>1. w \in Threads
      BY DEF Threads
    <2> QED BY <1>1, <1>4, <1>5, <1>6, <2>1, OthersKeep DEF WorkerStep
  <1>7. CASE Receive \/ MainStep
    <2>1. Main \in Threads
      BY DEF Threads
    <2> QED BY <1>1, <1>4, <1>7, <2>1, OthersKeep, ConfirmKeeps DEF MainStep
  <1>8. ASSUME NEW s \in Sessions, Approve(s) \/ Decline(s) PROVE Kept
    BY <1>1, <1>8, OthersKeep
  <1>9. CASE Expire \/ Crash
    BY <1>1, <1>9, OthersKeep
  <1> QED BY <1>2, <1>3, <1>6, <1>7, <1>8, <1>9 DEF Next

(***************************************************************************)
(* ReceiptIsKept: no check ever replaces the receipt of a session that has *)
(* not ended, although it looked at that receipt long before it writes its *)
(* own, and no late writer changes how a session ended.                    *)
(***************************************************************************)
THEOREM ReceiptsAreKept == Spec => ReceiptIsKept
  <1>1. Inv /\ [Next]_vars =>
          [/\ Live(receipt) => receipt'.session = receipt.session
           /\ /\ receipt # NoReceipt
              /\ ~Live(receipt)
              /\ receipt'.session = receipt.session
              => receipt' = receipt]_vars
    BY StepKeeps DEF Kept
  <1> QED BY <1>1, InstallInvariant, PTL DEF Spec, ReceiptIsKept

\* What a step shows, it shows for the receipt that asks for the confirmation.
ShowsTracked ==
    \A s \in Sessions :
        ~installer[s].shown /\ installer'[s].shown =>
            receipt'.session = s /\ receipt'.state = "pending_user_confirmation"

\* The installer's own steps show nothing.
LEMMA PhaseShowsNothing ==
    ASSUME Inv, NEW s, NEW p, installer' = [installer EXCEPT ![s].phase = p]
    PROVE  ShowsTracked
  <1>1. installer \in InstallerStates
    BY Types DEF Inv
  <1>2. \A r \in Sessions : installer'[r].shown = installer[r].shown
    BY <1>1 DEF InstallerStates
  <1> QED BY <1>2 DEF ShowsTracked

\* A new session is not shown.
LEMMA OpenShowsNothing == ASSUME Inv, NEW w, OpenSession(w) PROVE ShowsTracked
  <1>1. CASE UNCHANGED installer
    BY <1>1 DEF ShowsTracked
  <1>2. ASSUME NEW s \in Sessions,
               installer' = [installer EXCEPT ![s] =
                    [phase |-> "open", plan |-> thread[w].seen.plan, shown |-> FALSE]]
        PROVE  ShowsTracked
    <2>1. installer \in InstallerStates
      BY Types DEF Inv
    <2>2. \A r \in Sessions : installer'[r].shown => installer[r].shown
      BY <1>2, <2>1 DEF InstallerStates
    <2> QED BY <2>2 DEF ShowsTracked
  <1> QED BY <1>1, <1>2 DEF OpenSession

\* dispatchPendingConfirmation shows under the lock that recorded the confirmation.
LEMMA ConfirmShows == ASSUME Inv, Confirm PROVE ShowsTracked
  <1> DEFINE s == thread[Main].seen.session
  <1>1. CASE UNCHANGED installer
    BY <1>1 DEF ShowsTracked
  <1>2. CASE /\ receipt' = Updated("pending_user_confirmation")
             /\ installer' = [installer EXCEPT ![s].shown = @ \/ Dispatches(receipt')]
    <2>1. Main \in Threads /\ thread[Main].step = "confirm"
      BY Types DEF Inv, Confirm, At
    <2>2. s \in Sessions /\ receipt.session = s
      BY <2>1 DEF Inv, Sound, MainOK
    <2>3. receipt # NoReceipt /\ "pending_user_confirmation" \in ReceiptStates
      BY <2>2, RecordTypes, Constants DEF ReceiptStates
    <2>4. receipt'.session = s
      BY <1>2, <2>2, <2>3, UpdatedFacts
    <2>5. /\ installer \in InstallerStates
          /\ installer'[s].shown = (installer[s].shown \/ Dispatches(receipt'))
          /\ \A r \in Sessions \ {s} : installer'[r] = installer[r]
      BY <1>2, <2>2, Types DEF Inv, InstallerStates
    <2> QED BY <2>4, <2>5 DEF ShowsTracked, Dispatches
  <1> QED BY <1>1, <1>2 DEF Confirm

\* A commit shows nothing by itself.
LEMMA CommitShowsNothing == ASSUME Inv, NEW w, CommitSession(w) PROVE ShowsTracked
  <1>1. CASE UNCHANGED installer
    BY <1>1 DEF ShowsTracked
  <1>2. CASE installer' = [installer EXCEPT ![thread[w].seen.session].phase = "committed"]
    BY <1>2, PhaseShowsNothing
  <1> QED BY <1>1, <1>2 DEF CommitSession

\* Nor does abandoning a session.
LEMMA AbandonShowsNothing ==
    ASSUME Inv, NEW w, AbandonStaged(w) \/ Abandon(w) \/ AbandonAfter(w)
    PROVE  ShowsTracked
  <1>1. CASE UNCHANGED installer
    BY <1>1 DEF ShowsTracked
  <1>2. CASE Abandoned(thread[w].seen.session)
    BY <1>2, PhaseShowsNothing DEF Abandoned
  <1> QED BY <1>1, <1>2 DEF AbandonStaged, Abandon, AbandonAfter

\* Nor does the wearer's answer.
LEMMA WearerShowsNothing == ASSUME Inv, NEW s, Approve(s) \/ Decline(s) PROVE ShowsTracked
  <1>1. CASE Approve(s)
    BY <1>1, PhaseShowsNothing DEF Approve
  <1>2. CASE Decline(s)
    BY <1>2, PhaseShowsNothing DEF Decline
  <1> QED BY <1>1, <1>2

\* No other step touches the installer.
LEMMA OthersShowNothing ==
    ASSUME NEW t,
           \/ StartCheck(t) \/ Resume(t) \/ AskCancel(t) \/ CheckFails(t)
           \/ Download(t) \/ CopyApk(t) \/ BeginReceipt(t) \/ RequestCommit(t) \/ AwaitCallback(t)
           \/ InspectFailed(t) \/ Cancel(t) \/ Reread(t) \/ Look(t)
           \/ VerifyReadback(t) \/ AdvanceCheckpoint(t) \/ StoreCheckpoint(t)
           \/ WriteState(t) \/ CleanStaged(t) \/ Receive \/ Expire \/ Crash
    PROVE  UNCHANGED installer
  <1>1. CASE StartCheck(t) \/ Resume(t) \/ AskCancel(t) \/ CheckFails(t) \/ Expire \/ Crash
    BY <1>1 DEF StartCheck, Resume, AskCancel, CheckFails, Expire, Crash, world
  <1>2. CASE Download(t) \/ CopyApk(t) \/ BeginReceipt(t) \/ RequestCommit(t) \/ AwaitCallback(t)
    BY <1>2 DEF Download, CopyApk, BeginReceipt, RequestCommit, AwaitCallback, world
  <1>3. CASE InspectFailed(t) \/ Cancel(t) \/ Reread(t) \/ Look(t)
    BY <1>3 DEF InspectFailed, Cancel, Reread, Look, world
  <1>4. CASE VerifyReadback(t) \/ AdvanceCheckpoint(t) \/ StoreCheckpoint(t)
    BY <1>4 DEF VerifyReadback, AdvanceCheckpoint, StoreCheckpoint, world
  <1>5. CASE WriteState(t) \/ CleanStaged(t) \/ Receive
    BY <1>5 DEF WriteState, CleanStaged, Receive, world
  <1> QED BY <1>1, <1>2, <1>3, <1>4, <1>5

\* Whatever a step shows is tracked by the receipt.
LEMMA StepShows == Inv /\ [Next]_vars => ShowsTracked
  <1> SUFFICES ASSUME Inv, [Next]_vars PROVE ShowsTracked
    OBVIOUS
  <1>1. ASSUME UNCHANGED installer PROVE ShowsTracked
    BY <1>1 DEF ShowsTracked
  <1>2. CASE UNCHANGED vars
    BY <1>1, <1>2 DEF vars, world
  <1>3. ASSUME NEW w \in Workers, BeginJob(w) PROVE ShowsTracked
    BY <1>1, <1>3, OthersShowNothing DEF BeginJob
  <1>4. ASSUME NEW t \in Threads, SettleStep(t) PROVE ShowsTracked
    BY <1>1, <1>4, OthersShowNothing DEF SettleStep
  <1>5. ASSUME NEW w \in Workers, CheckStep(w) PROVE ShowsTracked
    BY <1>1, <1>5, OthersShowNothing, OpenShowsNothing, CommitShowsNothing, AbandonShowsNothing
       DEF CheckStep
  <1>6. ASSUME NEW w \in Workers, CheckFails(w) \/ WorkerStep(w) PROVE ShowsTracked
    <2>1. w \in Threads
      BY DEF Threads
    <2> QED BY <1>1, <1>4, <1>5, <1>6, <2>1, OthersShowNothing, AbandonShowsNothing
               DEF WorkerStep
  <1>7. CASE Receive \/ MainStep
    <2>1. Main \in Threads
      BY DEF Threads
    <2> QED BY <1>1, <1>4, <1>7, <2>1, OthersShowNothing, ConfirmShows DEF MainStep
  <1>8. ASSUME NEW s \in Sessions, Approve(s) \/ Decline(s) PROVE ShowsTracked
    BY <1>8, WearerShowsNothing
  <1>9. CASE Expire \/ Crash
    BY <1>1, <1>9, OthersShowNothing
  <1> QED BY <1>2, <1>3, <1>6, <1>7, <1>8, <1>9 DEF Next

(***************************************************************************)
(* NoConfirmationAfterCancel: a confirmation is only ever shown for the    *)
(* receipt's session, with the receipt saying so; a recorded cancellation  *)
(* or ending is never overtaken by a late broadcast.                       *)
(***************************************************************************)
THEOREM NoLateConfirmation == Spec => NoConfirmationAfterCancel
  <1>1. Inv /\ [Next]_vars =>
          [\A s \in Sessions :
             ~installer[s].shown /\ installer'[s].shown
             => receipt'.session = s /\ receipt'.state = "pending_user_confirmation"]_vars
    BY StepShows DEF ShowsTracked
  <1> QED BY <1>1, InstallInvariant, PTL DEF Spec, NoConfirmationAfterCancel

===============================================================================
