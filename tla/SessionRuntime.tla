--------------------------- MODULE SessionRuntime ---------------------------
(***************************************************************************)
(* The runtime that surrounds the session reducer and the recording        *)
(* writer (experiment_session_runtime.rs): the producer gate, the lane of  *)
(* terminal commands with its cutoff claims, the lane of records to retry, *)
(* and the one worker thread that prepares, cuts off, finalizes and shuts  *)
(* down.                                                                   *)
(*                                                                         *)
(* Three kinds of actors run concurrently.                                 *)
(*   - Producers call try_offer from many threads.  Each member of Records *)
(*     is one such call; offer[r].at is where the call (and afterwards the *)
(*     record) is.  A call holds the gate's read lock in "gate" and        *)
(*     "writer", and a clone of the writer's Arc in "writer".              *)
(*   - Clients call apply_command_json with a terminal command and raise a *)
(*     claim on the gate.  The whole call is one step, because the gate's  *)
(*     write guard is held from the claim to its possible withdrawal.      *)
(*   - The worker; worker.at is its program counter.                       *)
(*                                                                         *)
(* The reducer is reduced to the phases this protocol reads (its full      *)
(* model is ExperimentSession), the writer to the recording that is open   *)
(* in it and whether it counted a loss (its full model is                  *)
(* SessionRecording).                                                      *)
(***************************************************************************)
EXTENDS Integers, Sequences

CONSTANTS Records,           \* the calls of try_offer
          TerminalCapacity,  \* TERMINAL_QUEUE_CAPACITY
          RetryCapacity,     \* RETRY_QUEUE_CAPACITY
          MaxGeneration,     \* bound: sessions armed
          MaxTerminals       \* bound: terminal commands sent

ASSUME CapacityAssumption == /\ TerminalCapacity \in Nat \ {0}
                             /\ RetryCapacity \in Nat

ASSUME BoundAssumption == MaxGeneration \in Nat /\ MaxTerminals \in Nat

VARIABLES gate,             \* producer_gate: RwLock<ProducerGate>
          activeGeneration, \* active_generation: AtomicU64
          phase,            \* the reducer's phase
          generation,       \* the reducer's generation
          terminal,         \* the terminal lane
          retries,          \* the retry lane, a sequence of records
          offer,            \* where each call of try_offer and its record is
          writer,           \* writer_slot and the writer behind it
          loss,             \* producer_retry_drops, generation and count
          worker,           \* the worker thread
          shutdown,         \* projection.shutdown_status
          result,           \* recording_result of each generation
          sent              \* terminal commands sent so far

runtimeVars == <<gate, activeGeneration, phase, generation, terminal, retries, offer,
                 writer, loss, worker, shutdown, result, sent>>

Generations == 0..MaxGeneration

Gates == [generation : Generations, accepting : BOOLEAN,
          claims : Nat, resume : BOOLEAN]

Phases == {"Idle", "Preparing", "Active", "FinalizingRestart", "Exiting", "Closed"}

\* WorkerMessage on the terminal lane; claimed is terminal_claim.is_some().
Messages == [kind : {"restart", "exit", "destroyed"}, generation : Generations,
             claimed : BOOLEAN]

NoMessage == [kind |-> "destroyed", generation |-> 0, claimed |-> FALSE]

Offers == [at : {"none", "gate", "writer", "retry", "written", "lost", "dropped"},
           generation : Generations]

WorkerSteps == {"initialize", "loop", "drain", "command", "prepare", "open", "publish",
                "close", "cutoff", "finalize", "shutdown", "clear", "release", "stopped"}

\* The calls that hold the gate's read lock, and those that hold the writer.
Inside == {r \in Records : offer[r].at \in {"gate", "writer"}}
Borrowing == {r \in Records : offer[r].at = "writer"}

RuntimeInit ==
  /\ gate = [generation |-> 0, accepting |-> FALSE, claims |-> 0, resume |-> FALSE]
  /\ activeGeneration = 0
  /\ phase = "Idle"
  /\ generation = 0
  /\ terminal = <<>>
  /\ retries = <<>>
  /\ offer = [r \in Records |-> [at |-> "none", generation |-> 0]]
  /\ writer = [slot |-> FALSE, open |-> 0, lost |-> FALSE]
  /\ loss = [generation |-> 0, count |-> 0]
  /\ worker = [at |-> "initialize", hand |-> NoMessage, locked |-> FALSE, failed |-> FALSE]
  /\ shutdown = "none"
  /\ result = [g \in 1..MaxGeneration |-> "none"]
  /\ sent = 0

-----------------------------------------------------------------------------
(***************************************************************************)
(* Producers: try_offer and enqueue_retry.                                 *)
(***************************************************************************)
Move(r, at) == offer' = [offer EXCEPT ![r].at = at]

\* record_producer_loss: counts only while the counter is of that generation.
CountLoss(g) ==
  loss' = IF loss.generation = g THEN [loss EXCEPT !.count = @ + 1] ELSE loss

\* enqueue_retry: the record waits for the worker, or is counted as lost.
EnqueueRetry(r) ==
  IF Len(retries) < RetryCapacity /\ worker.at # "stopped"
    THEN /\ retries' = Append(retries, r)
         /\ Move(r, "retry")
         /\ UNCHANGED loss
    ELSE /\ Move(r, "lost")
         /\ CountLoss(offer[r].generation)
         /\ UNCHANGED retries

\* The writer's answer to an offer of generation g when it is not busy: a
\* record of the open recording is queued or counted as lost by the writer, and
\* a record of any other generation is refused and gone.
WriterTakes(r, g) ==
  /\ IF writer.open = g
       THEN \/ Move(r, "written") /\ UNCHANGED writer
            \/ Move(r, "lost") /\ writer' = [writer EXCEPT !.lost = TRUE]
       ELSE Move(r, "dropped") /\ UNCHANGED writer
  /\ UNCHANGED loss

\* try_offer passes the gate.  A call that meets a write-held or closed gate
\* returns NotAccepting and changes nothing.
Enter(r) ==
  /\ offer[r].at = "none"
  /\ ~worker.locked
  /\ gate.generation # 0 /\ gate.accepting
  /\ offer' = [offer EXCEPT ![r] = [at |-> "gate", generation |-> gate.generation]]
  /\ UNCHANGED <<gate, activeGeneration, phase, generation, terminal, retries,
                 writer, loss, worker, shutdown, result, sent>>

\* writer_slot.try_lock: a clone of the writer, or (slot empty or contended) a
\* record to retry.
Borrow(r) ==
  /\ offer[r].at = "gate"
  /\ \/ writer.slot /\ Move(r, "writer") /\ UNCHANGED <<retries, loss>>
     \/ EnqueueRetry(r)
  /\ UNCHANGED <<gate, activeGeneration, phase, generation, terminal, writer,
                 worker, shutdown, result, sent>>

\* writer.try_offer, the handling of its answer, and the return from try_offer,
\* which drops the writer's clone and the gate's read lock.
Deliver(r) ==
  /\ offer[r].at = "writer"
  /\ \/ WriterTakes(r, offer[r].generation) /\ UNCHANGED retries
     \/ EnqueueRetry(r) /\ UNCHANGED writer
  /\ UNCHANGED <<gate, activeGeneration, phase, generation, terminal, worker,
                 shutdown, result, sent>>

Producer(r) == Enter(r) \/ Borrow(r) \/ Deliver(r)

-----------------------------------------------------------------------------
(***************************************************************************)
(* Clients: a terminal command in apply_command_json_with_fence, and the   *)
(* destruction of the immersive owner.                                     *)
(***************************************************************************)
LaneAdmits == worker.at # "stopped" /\ Len(terminal) < TerminalCapacity

\* The cutoff claim a terminal command of the gate's generation raises.
Claimed(g) ==
  IF gate.generation = g
    THEN [gate EXCEPT !.resume = IF gate.claims = 0 THEN gate.accepting ELSE @,
                      !.claims = @ + 1, !.accepting = FALSE]
    ELSE gate

\* try_write must succeed (else terminal-admission-busy).  A refused send
\* withdraws the claim when active_generation is the claim's generation.
ApplyTerminal(kind, g) ==
  /\ sent < MaxTerminals
  /\ Inside = {} /\ ~worker.locked
  /\ sent' = sent + 1
  /\ IF LaneAdmits
       THEN /\ terminal' = Append(terminal, [kind |-> kind, generation |-> g,
                                             claimed |-> gate.generation = g])
            /\ gate' = Claimed(g)
       ELSE /\ gate' = IF gate.generation = g /\ activeGeneration = g
                         THEN gate ELSE Claimed(g)
            /\ UNCHANGED terminal
  /\ UNCHANGED <<activeGeneration, phase, generation, retries, offer, writer,
                 loss, worker, shutdown, result>>

\* shutdown_for_immersive_owner_destroyed: a blocking send, without a claim.
OwnerDestroyed ==
  /\ sent < MaxTerminals
  /\ LaneAdmits
  /\ sent' = sent + 1
  /\ terminal' = Append(terminal, NoMessage)
  /\ UNCHANGED <<gate, activeGeneration, phase, generation, retries, offer, writer,
                 loss, worker, shutdown, result>>

Client ==
  \/ \E kind \in {"restart", "exit"}, g \in 0..generation : ApplyTerminal(kind, g)
  \/ OwnerDestroyed

-----------------------------------------------------------------------------
(***************************************************************************)
(* The worker: run_worker and process_effects.                             *)
(***************************************************************************)
WorkerGoto(at) == worker' = [worker EXCEPT !.at = at]

\* initialize: recovery of the recordings spawns the writer and fills the slot; a
\* worker whose recovery fails ends at once.
Initialize ==
  /\ worker.at = "initialize"
  /\ writer' = [writer EXCEPT !.slot = TRUE]
  /\ WorkerGoto("loop") \/ WorkerGoto("stopped")
  /\ UNCHANGED <<gate, activeGeneration, phase, generation, terminal, retries,
                 offer, loss, shutdown, result, sent>>

\* A control or a completion that cannot be made durable stops the session: the
\* worker restarts it and its recording will not count as saved.
StopInternally(m) ==
  /\ phase = "Active"
  /\ phase' = "FinalizingRestart"
  /\ worker' = [worker EXCEPT !.at = "close", !.hand = m, !.failed = TRUE]

\* A terminal command the reducer or the worker's own checks refuse (a stale
\* generation, an operation seen before, an owner fence, a wrong phase).  The
\* reconciliations that follow it may stop the session before the claim is released.
Refuse(m) ==
  /\ m.kind # "destroyed"
  /\ \/ worker' = [worker EXCEPT !.at = "release", !.hand = m] /\ UNCHANGED phase
     \/ StopInternally(m)

\* A terminal command that the reducer accepts.  Persisting the completion on
\* the way may fail, which makes the recording unsaved.
Stop(m, stopping) ==
  /\ phase = "Active"
  /\ phase' = stopping
  /\ \E failed \in BOOLEAN :
       worker' = [worker EXCEPT !.at = "close", !.hand = m, !.failed = failed]

Restart(m) ==
  /\ m.kind = "restart" /\ m.generation = generation
  /\ Stop(m, "FinalizingRestart")

Exit(m) ==
  /\ m.kind = "exit" => m.generation = generation
  /\ m.kind # "restart"
  /\ \/ Stop(m, "Exiting")
     \/ /\ phase = "Idle"
        /\ phase' = "Closed"
        /\ worker' = [worker EXCEPT !.at = "shutdown", !.hand = m]
     \/ /\ phase = "Closed"
        /\ worker' = [worker EXCEPT !.at = "release", !.hand = m]
        /\ UNCHANGED phase

\* The terminal lane is served first.
TakeTerminal ==
  /\ worker.at = "loop" /\ terminal # <<>>
  /\ terminal' = Tail(terminal)
  /\ LET m == Head(terminal) IN Refuse(m) \/ Restart(m) \/ Exit(m)
  /\ UNCHANGED <<gate, activeGeneration, generation, retries, offer, writer, loss,
                 shutdown, result, sent>>

NoTerminal ==
  /\ worker.at = "loop" /\ terminal = <<>>
  /\ WorkerGoto("drain")
  /\ UNCHANGED <<gate, activeGeneration, phase, generation, terminal, retries,
                 offer, writer, loss, shutdown, result, sent>>

\* process_retry of the lane's first record: ignored when its generation is no
\* longer active; else offered until the writer answers, or counted as lost when
\* the writer stays busy past the deadline or is closed.
ProcessRetry ==
  LET r == Head(retries)
      g == offer[r].generation
  IN  IF activeGeneration = g
        THEN \/ WriterTakes(r, g)
             \/ Move(r, "lost") /\ CountLoss(g) /\ UNCHANGED writer
        ELSE Move(r, "dropped") /\ UNCHANGED <<writer, loss>>

\* drain_pending_retries: in the loop, and at the cutoff under the gate's lock.
DrainRetry ==
  /\ worker.at \in {"drain", "cutoff"} /\ retries # <<>>
  /\ ProcessRetry
  /\ retries' = Tail(retries)
  /\ UNCHANGED <<gate, activeGeneration, phase, generation, terminal, worker,
                 shutdown, result, sent>>

Drained ==
  /\ worker.at = "drain" /\ retries = <<>>
  /\ WorkerGoto("command")
  /\ UNCHANGED <<gate, activeGeneration, phase, generation, terminal, retries,
                 offer, writer, loss, shutdown, result, sent>>

\* The command lane and the timed tick: a start, an internal stop, or nothing this
\* protocol sees.
Command ==
  /\ worker.at = "command"
  /\ \/ /\ phase = "Idle" /\ generation < MaxGeneration
        /\ generation' = generation + 1
        /\ phase' = "Preparing"
        /\ WorkerGoto("prepare")
     \/ StopInternally(NoMessage) /\ UNCHANGED generation
     \/ WorkerGoto("loop") /\ UNCHANGED <<phase, generation>>
  /\ UNCHANGED <<gate, activeGeneration, terminal, retries, offer, writer, loss,
                 shutdown, result, sent>>

\* PrepareRecording: recovery and backend.prepare.
PrepareOk ==
  /\ worker.at = "prepare" /\ writer.open = 0
  /\ writer' = [slot |-> TRUE, open |-> generation, lost |-> FALSE]
  /\ loss' = [generation |-> generation, count |-> 0]
  /\ WorkerGoto("open")
  /\ UNCHANGED <<gate, activeGeneration, phase, generation, terminal, retries,
                 offer, shutdown, result, sent>>

PrepareFailed ==
  /\ worker.at = "prepare"
  /\ activeGeneration' = 0
  /\ phase' = "Idle"
  /\ WorkerGoto("loop")
  /\ UNCHANGED <<gate, generation, terminal, retries, offer, writer, loss, shutdown,
                 result, sent>>

\* The gate opens for the new generation ...
OpenGate ==
  /\ worker.at = "open" /\ Inside = {}
  /\ gate' = [generation |-> generation, accepting |-> TRUE, claims |-> 0,
              resume |-> TRUE]
  /\ WorkerGoto("publish")
  /\ UNCHANGED <<activeGeneration, phase, generation, terminal, retries, offer,
                 writer, loss, shutdown, result, sent>>

\* ... and then the generation becomes active.
Publish ==
  /\ worker.at = "publish"
  /\ activeGeneration' = generation
  /\ phase' = "Active"
  /\ WorkerGoto("loop")
  /\ UNCHANGED <<gate, generation, terminal, retries, offer, writer, loss,
                 shutdown, result, sent>>

\* FinalizeRecording: close_producer_gate_and_drain takes the gate's write lock
\* when no call is inside and keeps it while the retries drain.
Close ==
  /\ worker.at = "close" /\ Inside = {}
  /\ gate' = IF gate.generation = generation
               THEN [gate EXCEPT !.accepting = FALSE] ELSE gate
  /\ worker' = [worker EXCEPT !.at = "cutoff", !.locked = TRUE]
  /\ UNCHANGED <<activeGeneration, phase, generation, terminal, retries, offer,
                 writer, loss, shutdown, result, sent>>

\* Mutant: the retry lane is not drained at the cutoff.
CutoffWithoutDrain ==
  /\ worker.at = "cutoff"
  /\ worker' = [worker EXCEPT !.at = "finalize", !.locked = FALSE]
  /\ UNCHANGED <<gate, activeGeneration, phase, generation, terminal, retries,
                 offer, writer, loss, shutdown, result, sent>>

Cutoff ==
  /\ worker.at = "cutoff" /\ retries = <<>>
  /\ worker' = [worker EXCEPT !.at = "finalize", !.locked = FALSE]
  /\ UNCHANGED <<gate, activeGeneration, phase, generation, terminal, retries,
                 offer, writer, loss, shutdown, result, sent>>

\* finish_terminal_transition, and the effect it leaves to run.
FinishTerminal ==
  IF phase = "FinalizingRestart"
    THEN /\ phase' = "Idle"
         /\ worker' = [worker EXCEPT !.at = "clear", !.failed = FALSE]
    ELSE /\ phase' = "Closed"
         /\ worker' = [worker EXCEPT !.at = "shutdown", !.failed = FALSE]

\* producer_loss_count
ProducerLoss(g) == IF loss.generation = g THEN loss.count ELSE 0

\* Mutant: a failed finalization does not reach the reducer.
FinalizeErrorKeepsPhase ==
  /\ worker.at = "finalize"
  /\ result' = [result EXCEPT ![generation] = "unsaved"]
  /\ WorkerGoto("clear")
  /\ UNCHANGED <<gate, activeGeneration, phase, generation, terminal, retries, offer,
                 writer, loss, shutdown, sent>>

\* The answer to backend.finalize.  A receipt reports the recording saved only
\* when the writer counted no loss; the runtime reports it saved only when it
\* counted none either and the completion was persisted.
Finalize ==
  /\ worker.at = "finalize"
  /\ \/ /\ writer.open = generation
        /\ writer' = [writer EXCEPT !.open = 0]
        /\ \E saved \in BOOLEAN :
             /\ saved => ~writer.lost
             /\ result' = [result EXCEPT ![generation] =
                             IF saved /\ ProducerLoss(generation) = 0 /\ ~worker.failed
                               THEN "saved" ELSE "unsaved"]
     \/ /\ \E open \in {writer.open, 0} : writer' = [writer EXCEPT !.open = open]
        /\ result' = [result EXCEPT ![generation] = "unsaved"]
  /\ FinishTerminal
  /\ UNCHANGED <<gate, activeGeneration, generation, terminal, retries, offer,
                 loss, shutdown, sent>>

\* ShutdownApp: backend.shutdown empties the slot and takes the writer; it fails
\* when a producer still holds a clone, or when the join does.
Shutdown ==
  /\ worker.at = "shutdown"
  /\ writer' = [writer EXCEPT !.slot = FALSE]
  /\ \/ Borrowing = {} /\ shutdown' = "complete" /\ WorkerGoto("clear")
     \/ writer.slot /\ shutdown' = "error" /\ WorkerGoto("release")
  /\ UNCHANGED <<gate, activeGeneration, phase, generation, terminal, retries,
                 offer, loss, result, sent>>

Clear ==
  /\ worker.at = "clear"
  /\ activeGeneration' = 0
  /\ WorkerGoto("release")
  /\ UNCHANGED <<gate, phase, generation, terminal, retries, offer, writer, loss,
                 shutdown, result, sent>>

\* Mutant: the gate resumes whatever became of the session.
ReleasedAnyPhase(m) ==
  IF m.claimed /\ gate.generation = m.generation /\ gate.claims > 0
    THEN [gate EXCEPT !.claims = @ - 1,
                      !.accepting = IF gate.claims = 1 THEN gate.resume ELSE @]
    ELSE gate

\* The gate after the claim of message m is released.
Released(m) ==
  IF m.claimed /\ gate.generation = m.generation /\ gate.claims > 0
    THEN [gate EXCEPT !.claims = @ - 1,
                      !.accepting = IF /\ gate.claims = 1
                                       /\ phase = "Active"
                                       /\ activeGeneration = m.generation
                                      THEN gate.resume ELSE @]
    ELSE gate

\* Mutant: the release waits for the other claims.
ReleaseWaitsForOthers ==
  /\ worker.at = "release"
  /\ worker.hand.claimed => Inside = {} /\ gate.claims =< 1
  /\ gate' = Released(worker.hand)
  /\ worker' = [worker EXCEPT !.at = IF shutdown = "complete" THEN "stopped" ELSE "loop",
                              !.hand = NoMessage]
  /\ UNCHANGED <<activeGeneration, phase, generation, terminal, retries, offer,
                 writer, loss, shutdown, result, sent>>

\* The end of a turn of run_worker's loop.
Release ==
  /\ worker.at = "release"
  /\ worker.hand.claimed => Inside = {}
  /\ gate' = Released(worker.hand)
  /\ worker' = [worker EXCEPT !.at = IF shutdown = "complete" THEN "stopped" ELSE "loop",
                              !.hand = NoMessage]
  /\ UNCHANGED <<activeGeneration, phase, generation, terminal, retries, offer,
                 writer, loss, shutdown, result, sent>>

Worker ==
  \/ Initialize \/ TakeTerminal \/ NoTerminal \/ DrainRetry \/ Drained \/ Command
  \/ PrepareOk \/ PrepareFailed \/ OpenGate \/ Publish
  \/ Close \/ Cutoff \/ Finalize \/ Shutdown \/ Clear \/ Release

RuntimeNext == Worker \/ Client \/ \E r \in Records : Producer(r)

RuntimeSpec == RuntimeInit /\ [][RuntimeNext]_runtimeVars

\* The worker thread and the producers' threads run; no call inside the gate
\* blocks.  Nothing obliges a client or a new call of try_offer.
FairSpec ==
  /\ RuntimeSpec
  /\ WF_runtimeVars(Worker)
  /\ \A r \in Records : WF_runtimeVars(Borrow(r) \/ Deliver(r))

-----------------------------------------------------------------------------
(***************************************************************************)
(* Properties.                                                             *)
(***************************************************************************)
\* The type invariant.
RuntimeTypeOK ==
  /\ gate \in Gates
  /\ activeGeneration \in Generations
  /\ phase \in Phases
  /\ generation \in Generations
  /\ terminal \in Seq(Messages)
  /\ retries \in Seq(Records)
  /\ offer \in [Records -> Offers]
  /\ writer \in [slot : BOOLEAN, open : Generations, lost : BOOLEAN]
  /\ loss \in [generation : Generations, count : Nat]
  /\ worker \in [at : WorkerSteps, hand : Messages, locked : BOOLEAN, failed : BOOLEAN]
  /\ shutdown \in {"none", "complete", "error"}
  /\ result \in [1..MaxGeneration -> {"none", "saved", "unsaved"}]
  /\ sent \in 0..MaxTerminals

\* The gate accepts, and a call is inside it, only while the writer has the
\* recording of that very generation open: backend.prepare precedes the opening,
\* the cutoff precedes backend.finalize, and no release of a claim reopens the
\* gate of a session that has ended.
GateMatchesWriter ==
  /\ gate.accepting => writer.open = gate.generation
  /\ \A r \in Inside : writer.open = offer[r].generation

\* No record that passed the gate disappears without being counted: the
\* "NotAccepting" answer of the writer and the silent return of process_retry
\* for an inactive generation are never met by an admitted record.
NothingDropped == \A r \in Records : offer[r].at # "dropped"

\* A session reported saved holds every record its gate admitted, wherever the
\* record was (inside the gate, in the retry lane) when the cutoff came.
SavedMeansWritten ==
  \A g \in 1..MaxGeneration, r \in Records :
     /\ result[g] = "saved"
     /\ offer[r].generation = g
     => offer[r].at = "written"

\* backend.shutdown never meets "recording-writer-still-borrowed": when it takes
\* the writer no producer holds a clone or is about to take one.
ShutdownOwnsWriter == worker.at = "shutdown" => Inside = {}

\* process_retry never offers without a writer ("active session always has a
\* recording writer"), also after a shutdown that failed.
RetryHasWriter ==
  /\ worker.at \in {"drain", "cutoff"} /\ retries # <<>>
  /\ activeGeneration = offer[Head(retries)].generation
  => writer.slot

\* No claim on the gate belongs to a terminal command that waits or is being
\* decided.
NoUndecidedClaim ==
  /\ ~(worker.hand.claimed /\ worker.hand.generation = gate.generation)
  /\ \A i \in 1..Len(terminal) :
       ~(terminal[i].claimed /\ terminal[i].generation = gate.generation)

\* "Queue admission reserves a reversible cutoff claim. Each actor-validated
\* terminal releases only its own claim": once no admitted terminal command of
\* an active session is undecided, its gate accepts again.
ClaimsReversible ==
  phase = "Active" /\ NoUndecidedClaim => gate.accepting

\* A session that begins to finalize ends: neither the calls inside the gate,
\* nor a failing writer, nor a failing shutdown keeps it there.
StoppingEnds ==
  (phase \in {"FinalizingRestart", "Exiting"}) ~> (phase \in {"Idle", "Closed"})

\* Every admitted terminal command is decided, or the worker has shut down.
TerminalDecided == (terminal # <<>>) ~> (terminal = <<>> \/ worker.at = "stopped")
=============================================================================
