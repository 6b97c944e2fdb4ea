------------------------------ MODULE MediaStream ------------------------------
(***************************************************************************)
(* The product runtime of one accepted media session (product_runtime.rs): *)
(* a Start or a Stop is prepared, each owner of the product executes its   *)
(* part in a fixed order and is read back, and only then does the          *)
(* lifecycle advance.  A Start that fails is rolled back in reverse order. *)
(* Every handler commits a recovery journal before and after each effect;  *)
(* the process may die at any point, and the restored runtime may only     *)
(* clean up.  Receipts are the owners they name: identities, digests and   *)
(* revisions that differ make a readback that is refused.                  *)
(***************************************************************************)
EXTENDS Integers, Sequences, FiniteSets

CONSTANTS Owners,        \* owner_selections of the product
          Kind,          \* the MediaStreamOwnerKind of each owner
          StartOrder,    \* ordered_owner_actions for Start
          StopOrder,     \* ordered_owner_actions for Stop
          Ids,           \* action identities
          NoOwner, NoId,
          MaxCrashes     \* bound: process deaths

StartPriority == [Cleanup |-> 0, Sink |-> 1, Route |-> 2, Socket |-> 3, Codec |-> 4,
                  Processor |-> 5, Source |-> 6]
StopPriority == [Source |-> 0, Processor |-> 1, Codec |-> 2, Socket |-> 3, Route |-> 4,
                 Sink |-> 5, Cleanup |-> 6]
StartRank(o) == StartPriority[Kind[o]]
StopRank(o) == StopPriority[Kind[o]]

\* ordered_owner_actions sorts the selections, a strict set, by priority.
Enumerates(order) ==
    /\ order \in Seq(Owners)
    /\ \A o \in Owners : \E i \in 1..Len(order) : order[i] = o
    /\ \A i, j \in 1..Len(order) : order[i] = order[j] => i = j

\* A product has seven owners (rusty-quest-broker-contracts/src/lib.rs).
ASSUME OwnersAssumption == Owners # {}
ASSUME KindAssumption == Kind \in [Owners -> DOMAIN StartPriority]
ASSUME StartOrderAssumption ==
    /\ Enumerates(StartOrder)
    /\ \A i, j \in 1..Len(StartOrder) :
          i < j => StartRank(StartOrder[i]) =< StartRank(StartOrder[j])
ASSUME StopOrderAssumption ==
    /\ Enumerates(StopOrder)
    /\ \A i, j \in 1..Len(StopOrder) :
          i < j => StopRank(StopOrder[i]) =< StopRank(StopOrder[j])
ASSUME NoneAssumption == NoOwner \notin Owners /\ NoId \notin Ids
ASSUME CrashAssumption == MaxCrashes \in Nat

VARIABLES s,             \* the runtime's state, as recovery_snapshot captures it
          disk,          \* the snapshot the journal holds
          journaled,     \* recovery_journal is installed
          poisoned,      \* recovery_journal_poisoned
          cleanupOnly,   \* cleanup_only_after_restore
          revalidated,   \* recovery_receipts_revalidated
          call,          \* the provider call the current handler waits for
          up,            \* the process is alive
          crashes,
          live,          \* the owners whose effect is in place (the platform)
          authority      \* the accepted session in Manifold

runtime == <<s, disk, journaled, poisoned, cleanupOnly, revalidated>>
vars == <<s, disk, journaled, poisoned, cleanupOnly, revalidated, call, up, crashes,
          live, authority>>

NoAction == [op |-> "none", id |-> NoId, trusted |-> FALSE]
NoAbort == [id |-> NoId, started |-> <<>>, uncertain |-> NoOwner, rollback |-> <<>>]
NoCall == [kind |-> "none", owner |-> NoOwner, returned |-> FALSE]
NoSnapshot == [phase |-> "none"]

NewRuntime ==
    [phase |-> "Planned", pending |-> NoAction, receipts |-> <<>>,
     uncertain |-> NoOwner, abortReceipts |-> <<>>, abortUncertain |-> NoOwner,
     aborting |-> FALSE, active |-> <<>>, activeStart |-> NoId, applied |-> {},
     aborted |-> {}, completedAbort |-> NoAbort]

Actions == [op : {"Start", "Stop"}, id : Ids, trusted : BOOLEAN] \cup {NoAction}
Aborts == [id : Ids, started : Seq(Owners), uncertain : Owners \cup {NoOwner},
           rollback : Seq(Owners)] \cup {NoAbort}
States ==
    [phase : {"Planned", "SourcesStarted", "Stopped"}, pending : Actions,
     receipts : Seq(Owners), uncertain : Owners \cup {NoOwner},
     abortReceipts : Seq(Owners), abortUncertain : Owners \cup {NoOwner},
     aborting : BOOLEAN, active : Seq(Owners), activeStart : Ids \cup {NoId},
     applied : SUBSET Ids, aborted : SUBSET Ids, completedAbort : Aborts]
Calls == [kind : {"execute", "compensate", "reverse", "reverse_uncertain"},
          owner : Owners, returned : BOOLEAN] \cup {NoCall}

Init ==
    /\ s = NewRuntime /\ disk = NoSnapshot
    /\ journaled = FALSE /\ poisoned = FALSE
    /\ cleanupOnly = FALSE /\ revalidated = FALSE
    /\ call = NoCall /\ up = TRUE /\ crashes = 0
    /\ live = {} /\ authority = "current"

-----------------------------------------------------------------------------
(* Helpers *)

OwnersOf(receipts) == {receipts[i] : i \in 1..Len(receipts)}
Reversed(seq) == [i \in 1..Len(seq) |-> seq[Len(seq) + 1 - i]]
OwnerActions(action) == IF action.op = "Start" THEN StartOrder ELSE StopOrder

\* partial_start_abort_action: the uncertain attempt first, then the verified
\* owners, latest first.
AbortOrder(receipts, uncertain) ==
    (IF uncertain = NoOwner THEN <<>> ELSE <<uncertain>>) \o Reversed(receipts)
PendingAbort(t) == AbortOrder(t.receipts, t.uncertain)

\* A handler runs to its end before the next one (&mut self).
Ready == up /\ call = NoCall

\* refresh_authority; an authority that cannot be read only refuses a handler.
Refreshed(requireCurrent) == requireCurrent => authority = "current"

\* commit_recovery_journal at the end of a handler that leaves state t.  An
\* error is ambiguous, and poisons the runtime.
Commit(t, ok) ==
    /\ s' = t
    /\ IF poisoned \/ (~journaled /\ cleanupOnly)
       THEN ~ok /\ UNCHANGED <<disk, poisoned>>
       ELSE IF ~journaled THEN ok /\ UNCHANGED <<disk, poisoned>>
       ELSE /\ disk' \in IF ok THEN {t} ELSE {disk, t}
            /\ poisoned' = ~ok

InstallJournal(ok) ==
    /\ Ready /\ ~poisoned /\ ~journaled
    /\ disk' \in IF ok THEN {s} ELSE {disk, s}
    /\ journaled' = ok /\ poisoned' = ~ok
    /\ UNCHANGED <<s, cleanupOnly, revalidated, call, up, crashes, live, authority>>

-----------------------------------------------------------------------------
(* Preparing an action *)

ReviewPrepare(op, id) ==
    /\ ~poisoned /\ ~cleanupOnly
    /\ Refreshed(op = "Start")
    /\ id \notin s.applied \cup s.aborted
    /\ s.pending = NoAction
    /\ s.completedAbort = NoAbort
    /\ IF op = "Start" THEN s.phase = "Planned"
       ELSE s.phase # "Stopped" /\ s.activeStart # NoId

Prepared(op, id) ==
    [s EXCEPT !.pending = [op |-> op, id |-> id, trusted |-> FALSE],
              !.receipts = <<>>, !.uncertain = NoOwner, !.abortReceipts = <<>>,
              !.abortUncertain = NoOwner, !.aborting = FALSE]

Prepare(op, id, ok) ==
    /\ Ready /\ ReviewPrepare(op, id)
    /\ Commit(Prepared(op, id), ok)
    /\ UNCHANGED <<journaled, cleanupOnly, revalidated, call, up, crashes, live,
                   authority>>

\* prepare_with_live_authority prepares a copy and adopts it only on success; of
\* a failed copy the runtime keeps nothing but the poisoned journal.
PrepareWithLiveAuthority(op, id) ==
    /\ Ready /\ ReviewPrepare(op, id) /\ journaled
    /\ poisoned' = TRUE
    /\ disk' \in {disk, Prepared(op, id)}
    /\ UNCHANGED <<s, journaled, cleanupOnly, revalidated, call, up, crashes, live,
                   authority>>

\* The physical Stop after a trusted Revoke, of a started session or of one whose
\* Start was rolled back.
PrepareTrustedRevokerCleanup(id, ok) ==
    /\ Ready /\ authority = "revoked"
    /\ s.pending = NoAction /\ id \notin s.applied \cup s.aborted
    /\ s.activeStart # NoId \/ s.completedAbort # NoAbort
    /\ s.completedAbort # NoAbort /\ cleanupOnly => revalidated
    /\ Commit([s EXCEPT !.pending = [op |-> "Stop", id |-> id, trusted |-> TRUE],
                        !.receipts = <<>>, !.uncertain = NoOwner], ok)
    /\ UNCHANGED <<journaled, cleanupOnly, revalidated, call, up, crashes, live,
                   authority>>

\* adopt_concurrent_authority_renewal replaces the accepted subject and commits.
AdoptRenewal(ok) ==
    /\ Ready /\ authority = "current"
    /\ s.pending = NoAction /\ ~cleanupOnly /\ ~s.aborting
    /\ Commit(s, ok)
    /\ UNCHANGED <<journaled, cleanupOnly, revalidated, call, up, crashes, live,
                   authority>>

-----------------------------------------------------------------------------
(* Owner effects.  A handler names the owner in the journal, calls the      *)
(* provider, and records what the provider reads back.                      *)

Begin(kind, o, t, ok) ==
    /\ Commit(t, ok)
    /\ call' = IF ok THEN [kind |-> kind, owner |-> o, returned |-> FALSE] ELSE NoCall
    /\ UNCHANGED <<journaled, cleanupOnly, revalidated, up, crashes, live, authority>>

\* complete_owner, one callback per owner kind.
CompleteOwner(ok) ==
    /\ Ready /\ ~s.aborting /\ s.uncertain = NoOwner
    /\ s.pending # NoAction /\ Refreshed(s.pending.op = "Start")
    /\ Len(s.receipts) < Len(OwnerActions(s.pending))
    /\ LET o == OwnerActions(s.pending)[Len(s.receipts) + 1]
       IN  Begin("execute", o, [s EXCEPT !.uncertain = o], ok)

CompleteUncertainStopOwner(ok) ==
    /\ Ready /\ ~s.aborting
    /\ s.pending.op = "Stop" /\ s.uncertain # NoOwner
    /\ Begin("compensate", s.uncertain, s, ok)

\* complete_next_abort_owner: an owner with a verified Start is stopped; an
\* attempt of unknown outcome, of the Start or of its reversal, is compensated.
CompleteNextAbortOwner(ok) ==
    /\ Ready /\ s.aborting
    /\ Len(s.abortReceipts) < Len(PendingAbort(s))
    /\ LET next == Len(s.abortReceipts) + 1
           o == PendingAbort(s)[next]
           started == next > 1 \/ s.uncertain = NoOwner
           retrying == s.abortUncertain # NoOwner
       IN  Begin(IF started /\ ~retrying THEN "reverse" ELSE "reverse_uncertain",
                 o, [s EXCEPT !.abortUncertain = o], ok)

Starting == call.kind = "execute" /\ s.pending.op = "Start"

\* The provider performs the call, or fails before it had any effect.
ProviderActs(effect) ==
    /\ up /\ call # NoCall /\ ~call.returned
    /\ call' = [call EXCEPT !.returned = TRUE]
    /\ live' = IF ~effect THEN live
               ELSE IF Starting THEN live \cup {call.owner} ELSE live \ {call.owner}
    /\ UNCHANGED <<runtime, up, crashes, authority>>

\* What a provider may read back: the state of the owner's handle, or, from an
\* ordinary Stop, that of another handle.  A compensation reads its registry.
Readbacks ==
    [own : {TRUE}, running : {call.owner \in live}]
      \cup (IF call.kind \in {"compensate", "reverse_uncertain"} \/ Starting THEN {}
            ELSE [own : {FALSE}, running : BOOLEAN])

\* record_owner_readback, complete_next_abort_owner: the expected state, of the
\* handle the Start returned.
Accepts(readback) == readback.own /\ readback.running = Starting

\* record_owner_readback: a Start owner is not active yet; a Stop owner is, or the
\* Stop follows a completed rollback by a trusted Revoke.
HandleFits(o) ==
    IF s.pending.op = "Start" THEN o \notin OwnersOf(s.active)
    ELSE IF s.completedAbort # NoAbort THEN s.pending.trusted
    ELSE o \in OwnersOf(s.active)

RecordOwner(ok) ==
    Commit([s EXCEPT !.receipts = Append(@, call.owner), !.uncertain = NoOwner], ok)
RecordAbortOwner(ok) ==
    Commit([s EXCEPT !.abortReceipts = Append(@, call.owner),
                     !.abortUncertain = NoOwner], ok)

\* The call returns: with an accepted readback the owner is recorded; a failure,
\* or a readback that does not fit, leaves the attempt uncertain.
ProviderReturns(readback, ok) ==
    /\ up /\ call.returned
    /\ IF ~Accepts(readback) THEN ok /\ UNCHANGED <<s, disk, poisoned>>
       ELSE IF call.kind \in {"reverse", "reverse_uncertain"} THEN RecordAbortOwner(ok)
       ELSE IF HandleFits(call.owner) THEN RecordOwner(ok)
       ELSE ok /\ UNCHANGED <<s, disk, poisoned>>
    /\ call' = NoCall
    /\ UNCHANGED <<journaled, cleanupOnly, revalidated, up, crashes, live, authority>>

ProviderFails ==
    /\ up /\ call.returned
    /\ call' = NoCall
    /\ UNCHANGED <<runtime, up, crashes, live, authority>>

-----------------------------------------------------------------------------
(* Rollback of a Start, and applying a complete action *)

BeginPartialStartAbort(ok) ==
    /\ Ready /\ s.pending.op = "Start" /\ ~s.aborting
    /\ Commit([s EXCEPT !.aborting = TRUE, !.abortReceipts = <<>>,
                        !.abortUncertain = NoOwner], ok)
    /\ UNCHANGED <<journaled, cleanupOnly, revalidated, call, up, crashes, live,
                   authority>>

AbortFinished ==
    /\ s.aborting /\ s.abortUncertain = NoOwner
    /\ Len(s.abortReceipts) = Len(PendingAbort(s))

FinalizePartialStartAbort(ok) ==
    /\ Ready /\ (cleanupOnly => revalidated)
    /\ AbortFinished
    /\ Commit([s EXCEPT
                 !.completedAbort = [id |-> s.pending.id, started |-> s.receipts,
                                     uncertain |-> s.uncertain,
                                     rollback |-> s.abortReceipts],
                 !.aborted = @ \cup {s.pending.id},
                 !.pending = NoAction, !.receipts = <<>>, !.uncertain = NoOwner,
                 !.abortReceipts = <<>>, !.abortUncertain = NoOwner,
                 !.aborting = FALSE], ok)
    /\ UNCHANGED <<journaled, cleanupOnly, revalidated, call, up, crashes, live,
                   authority>>

\* validate_owner_completions: every owner in order; of a Start the sources last,
\* of a Stop the cleanup last.
Last(kind, receipts) ==
    \A i, j \in 1..Len(receipts) :
        Kind[receipts[i]] = kind /\ Kind[receipts[j]] # kind => j < i
ValidCompletions(op, receipts) ==
    /\ receipts = OwnerActions([op |-> op])
    /\ IF op = "Start" THEN Last("Source", receipts) ELSE Last("Cleanup", receipts)

\* The lifecycle of runtime.rs: ArmReceivers and StartSources, or Stop.
Executed(op, phase) ==
    IF op = "Start" THEN phase = "Planned" ELSE phase # "Stopped"

ApplyRecordedOwnerCompletions(ok) ==
    /\ Ready /\ ~s.aborting /\ s.pending # NoAction
    /\ cleanupOnly => s.pending.op = "Stop" /\ revalidated
    /\ Refreshed(s.pending.op = "Start")
    /\ ValidCompletions(s.pending.op, s.receipts)
    /\ Executed(s.pending.op, s.phase)
    /\ LET start == s.pending.op = "Start"
       IN  Commit([s EXCEPT
                    !.phase = IF start THEN "SourcesStarted" ELSE "Stopped",
                    !.applied = @ \cup {s.pending.id},
                    !.activeStart = IF start THEN s.pending.id ELSE NoId,
                    !.active = IF start THEN s.receipts ELSE <<>>,
                    !.pending = NoAction, !.receipts = <<>>], ok)
    /\ UNCHANGED <<journaled, cleanupOnly, revalidated, call, up, crashes, live,
                   authority>>

-----------------------------------------------------------------------------
(* Process death and restoration *)

Crash ==
    /\ up /\ crashes < MaxCrashes
    /\ up' = FALSE /\ crashes' = crashes + 1 /\ call' = NoCall
    /\ UNCHANGED <<runtime, live, authority>>

PrefixOf(receipts, order) ==
    /\ Len(receipts) =< Len(order)
    /\ \A i \in 1..Len(receipts) : receipts[i] = order[i]

\* Mutant: the attempt of the last owner is taken to be past the end.
NextInShort(o, receipts, order) ==
    /\ Len(receipts) + 1 < Len(order)
    /\ o = order[Len(receipts) + 1]

NextIn(o, receipts, order) ==
    /\ Len(receipts) < Len(order)
    /\ o = order[Len(receipts) + 1]

\* validate_completed_start_abort
ValidCompletedAbort(t) ==
    LET record == t.completedAbort IN
    /\ record.id \in t.aborted /\ t.activeStart = NoId
    /\ PrefixOf(record.started, StartOrder)
    /\ record.uncertain # NoOwner => NextIn(record.uncertain, record.started, StartOrder)
    /\ record.rollback = AbortOrder(record.started, record.uncertain)
    /\ IF t.phase = "Stopped" THEN Cardinality(t.applied) = 1 /\ t.pending = NoAction
       ELSE /\ t.phase = "Planned" /\ t.applied = {}
            /\ t.pending # NoAction => t.pending.op = "Stop" /\ t.pending.trusted

ValidPendingStart(t) ==
    /\ t.activeStart = NoId /\ t.phase = "Planned"
    /\ t.aborting \/ (t.abortReceipts = <<>> /\ t.abortUncertain = NoOwner)
    /\ PrefixOf(t.abortReceipts, PendingAbort(t))
    /\ t.abortUncertain # NoOwner =>
          NextIn(t.abortUncertain, t.abortReceipts, PendingAbort(t))
ValidPendingStop(t) ==
    /\ t.activeStart # NoId \/ t.completedAbort # NoAbort
    /\ ~t.aborting /\ t.abortReceipts = <<>> /\ t.abortUncertain = NoOwner
    /\ t.completedAbort = NoAbort => OwnersOf(t.receipts) \subseteq OwnersOf(t.active)
ValidPending(t) ==
    /\ t.pending.id \notin t.applied \cup t.aborted
    /\ PrefixOf(t.receipts, OwnerActions(t.pending))
    /\ t.uncertain # NoOwner => NextIn(t.uncertain, t.receipts, OwnerActions(t.pending))
    /\ IF t.pending.op = "Start" THEN ValidPendingStart(t) ELSE ValidPendingStop(t)

\* validate_product_recovery_snapshot
ValidSnapshot(t) ==
    /\ t.applied \cap t.aborted = {}
    /\ t.completedAbort # NoAbort => ValidCompletedAbort(t)
    /\ IF t.activeStart # NoId
       THEN /\ t.applied = {t.activeStart} /\ t.phase = "SourcesStarted"
            /\ ValidCompletions("Start", t.active)
       ELSE /\ t.active = <<>>
            /\ t.completedAbort = NoAbort => t.applied = {} /\ t.phase = "Planned"
    /\ IF t.pending = NoAction
       THEN /\ t.receipts = <<>> /\ t.uncertain = NoOwner /\ t.abortReceipts = <<>>
            /\ t.abortUncertain = NoOwner /\ ~t.aborting
       ELSE ValidPending(t)

Restorable(t) ==
    /\ t # NoSnapshot /\ ValidSnapshot(t)
    /\ ~(t.completedAbort # NoAbort /\ t.phase = "Stopped")

\* Mutant: the record of a completed rollback is not restored.
RestoredWithoutAbort(t) ==
    [t EXCEPT !.aborting = @ \/ t.pending.op = "Start", !.completedAbort = NoAbort]

\* restore_from_checked_snapshot: a prepared Start can only be reversed.
Restored(t) == [t EXCEPT !.aborting = @ \/ t.pending.op = "Start"]

Restore ==
    /\ ~up /\ Restorable(disk)
    /\ s' = Restored(disk)
    /\ up' = TRUE /\ cleanupOnly' = TRUE /\ revalidated' = FALSE
    /\ journaled' = FALSE /\ poisoned' = FALSE
    /\ UNCHANGED <<disk, call, crashes, live, authority>>

\* revalidate_recovered_receipts, against the platform's own effect journal.
RevalidateRecoveredReceipts(verified) ==
    /\ Ready /\ cleanupOnly /\ ~poisoned
    /\ revalidated' = verified
    /\ UNCHANGED <<s, disk, journaled, poisoned, cleanupOnly, call, up, crashes, live,
                   authority>>

\* The accepted session ends, or a trusted revoker revokes it (Manifold).
AuthorityChanges ==
    /\ authority # "revoked"
    /\ authority' \in {"ended", "revoked"} \ {authority}
    /\ UNCHANGED <<runtime, call, up, crashes, live>>

Next ==
    \/ \E ok \in BOOLEAN :
          \/ InstallJournal(ok) \/ AdoptRenewal(ok)
          \/ \E id \in Ids :
                \/ \E op \in {"Start", "Stop"} : Prepare(op, id, ok)
                \/ PrepareTrustedRevokerCleanup(id, ok)
          \/ CompleteOwner(ok) \/ CompleteUncertainStopOwner(ok)
          \/ CompleteNextAbortOwner(ok)
          \/ \E readback \in Readbacks : ProviderReturns(readback, ok)
          \/ BeginPartialStartAbort(ok) \/ FinalizePartialStartAbort(ok)
          \/ ApplyRecordedOwnerCompletions(ok)
    \/ \E op \in {"Start", "Stop"}, id \in Ids : PrepareWithLiveAuthority(op, id)
    \/ \E flag \in BOOLEAN : ProviderActs(flag) \/ RevalidateRecoveredReceipts(flag)
    \/ ProviderFails \/ Crash \/ Restore \/ AuthorityChanges

Spec == Init /\ [][Next]_vars

-----------------------------------------------------------------------------
(* Properties *)

\* Every variable keeps its type.
TypeOK ==
    /\ s \in States /\ disk \in States \cup {NoSnapshot}
    /\ journaled \in BOOLEAN /\ poisoned \in BOOLEAN
    /\ cleanupOnly \in BOOLEAN /\ revalidated \in BOOLEAN
    /\ call \in Calls /\ up \in BOOLEAN /\ crashes \in 0..MaxCrashes
    /\ live \subseteq Owners /\ authority \in {"current", "ended", "revoked"}

\* The owners a snapshot obliges its reader to clean up: of a prepared Start those
\* attempted and not reversed, of a started session those not stopped.
Obliged(t) ==
    LET attempted == OwnersOf(t.receipts) \cup ({t.uncertain} \ {NoOwner})
    IN  IF t.pending.op = "Start" THEN attempted \ OwnersOf(t.abortReceipts)
        ELSE OwnersOf(t.active) \ OwnersOf(t.receipts)

\* Whatever effect is in place is named by the durable journal, once there is one:
\* complete_owner commits the attempt before the provider runs, and an obligation
\* leaves the journal only after the effect was read back as gone.
JournalCoversEffects == disk # NoSnapshot => live \subseteq Obliged(disk)

\* As long as an effect is in place, the snapshot in the journal passes
\* validate_product_recovery_snapshot: no death leaves effects that a restored
\* runtime would refuse to clean up.
EffectsAreRecoverable == disk # NoSnapshot /\ live # {} => Restorable(disk)

\* An owner runs only while every owner of an earlier kind runs: receivers and the
\* cleanup before any source, whatever fails or dies on the way up or down
\* (ordered_owner_actions, partial_start_abort_action).
GraphStaysLayered ==
    \A o \in live, p \in Owners : StartRank(p) < StartRank(o) => p \in live

\* The lifecycle tells the truth: sources are started only while every owner
\* runs, until a Stop is prepared; a stopped session, and one whose Start was
\* rolled back, runs nothing.
LifecycleIsTruthful ==
    /\ s.phase = "SourcesStarted" /\ s.pending = NoAction /\ up => live = Owners
    /\ up /\ (s.phase = "Stopped" \/ s.completedAbort # NoAbort) => live = {}

\* A runtime restored after a death never brings an owner up (cleanup_only_after_restore).
RestoredOnlyCleansUp == [][cleanupOnly => live' \subseteq live]_vars

-----------------------------------------------------------------------------
(* The promise a session makes, through what the journal holds. *)

Recorded == IF disk = NoSnapshot THEN s ELSE disk
StatusOf(t) ==
    IF t.phase = "Stopped" THEN "stopped"
    ELSE IF t.pending.op = "Stop" THEN "lowering"
    ELSE IF t.phase = "SourcesStarted" THEN "started"
    ELSE IF t.completedAbort # NoAbort THEN "aborted"
    ELSE IF t.aborting THEN "lowering" ELSE "planned"
Status == StatusOf(Recorded)

Promise == INSTANCE AllOrNothing WITH
               Layer <- [o \in Owners |-> StartRank(o)], status <- Status, running <- live
\* The runtime implements the all-or-nothing session (module AllOrNothing).
KeepsPromise == Promise!Spec
=============================================================================
