----------------------------- MODULE BrokerMedia -----------------------------
(***************************************************************************)
(* The broker authority's media lifecycle (broker-authority/runtime.rs and *)
(* broker_revoker_cleanup.rs) driving one client's MediaStream runtime.    *)
(* The broker prepares a Start or a Stop, and the completion call runs the *)
(* owners one after the other: a Start that fails is rolled back at once,  *)
(* a Stop that fails is kept and continued by the next call, a rollback    *)
(* that fails is continued by a cleanup call.  Meanwhile Manifold may end  *)
(* the session's authority between any two owners.  The broker installs no *)
(* recovery journal, so it takes none of MediaStream's journal and restart *)
(* steps.  Whether Manifold admits a request is its own decision           *)
(* (external); a client's second session is not modelled.                  *)
(*                                                                         *)
(* In the other half of the behaviours there is no broker: the runtime is  *)
(* driven by any host its library interface allows.                        *)
(***************************************************************************)
EXTENDS MediaStream

VARIABLES drv   \* the call the broker is in: [pc, failed, reply]; "absent" without one

brokerVars == <<vars, drv>>
Idle(reply) == [pc |-> "idle", failed |-> FALSE, reply |-> reply]
Running(pc) == [pc |-> pc, failed |-> FALSE, reply |-> "none"]
rest == <<journaled, cleanupOnly, revalidated, call, up, crashes, live>>

Broker == drv.pc # "absent"
BrokerInit == Init /\ drv \in {Idle("none"), Running("absent")}

\* A host that may install a journal, restore it, and call anything at any time.
AnyHost == ~Broker /\ Next /\ UNCHANGED drv

\* start_media_session, once Manifold admitted the lease and the session.
StartMediaSession(id) ==
    /\ drv.pc = "idle"
    /\ Prepare("Start", id, TRUE)
    /\ drv' = Idle("none")

\* stop_media_session: the lifecycle is reviewed first, then the authority ends,
\* then the Stop is prepared.  An authority that already ended refuses.
StopMediaSession(id) ==
    /\ drv.pc = "idle" /\ Ready /\ authority = "current"
    /\ ReviewPrepare("Stop", id)
    /\ authority' = "ended"
    /\ Commit(Prepared("Stop", id), TRUE)
    /\ drv' = Idle("none")
    /\ UNCHANGED rest

\* review_concurrent_peer_revoker_cleanup ends the authority by a trusted Revoke.
ReviewRevokerCleanup ==
    /\ drv.pc = "idle" /\ Ready /\ authority # "revoked"
    /\ s.pending # NoAction \/ s.activeStart # NoId \/ s.completedAbort # NoAbort
    /\ authority' = "revoked"
    /\ UNCHANGED <<runtime, call, up, crashes, live, drv>>

\* prepare_concurrent_peer_revoker_cleanup; a pending failed Start must first
\* finish its rollback.
PrepareRevokerCleanup(id) ==
    /\ drv.pc = "idle" /\ s.phase # "Stopped"
    /\ PrepareTrustedRevokerCleanup(id, TRUE)
    /\ drv' = Idle("none")

-----------------------------------------------------------------------------
\* complete_media_session_action.
Complete ==
    /\ drv.pc = "idle" /\ Ready /\ s.pending # NoAction /\ ~s.aborting
    /\ drv' = Running("forward")
    /\ UNCHANGED vars

\* Mutant: only a revoked session's rollback is continued.
ResumeAbortRevoked ==
    /\ drv.pc = "idle" /\ Ready /\ s.pending.op = "Start" /\ s.aborting
    /\ authority = "revoked"
    /\ drv' = Running("back")
    /\ UNCHANGED vars

\* resume_media_start_abort_for_cleanup.
ResumeAbort ==
    /\ drv.pc = "idle" /\ Ready /\ s.pending.op = "Start" /\ s.aborting
    /\ drv' = Running("back")
    /\ UNCHANGED vars

\* Mutant: the attempt a retained Stop left uncertain is left to a new attempt.
ForwardOwnerAgain ==
    /\ drv.pc = "forward" /\ ~drv.failed
    /\ Ready /\ ~s.aborting
    /\ Refreshed(s.pending.op = "Start")
    /\ Len(s.receipts) < Len(OwnerActions(s.pending))
    /\ LET o == OwnerActions(s.pending)[Len(s.receipts) + 1]
       IN  Begin("execute", o, [s EXCEPT !.uncertain = o], TRUE)
    /\ UNCHANGED drv

\* The next owner, after the attempt a retained Stop left uncertain.
ForwardOwner ==
    /\ drv.pc = "forward" /\ ~drv.failed
    /\ CompleteUncertainStopOwner(TRUE) \/ CompleteOwner(TRUE)
    /\ UNCHANGED drv

\* A handler that refuses before its provider is called: a Start whose authority
\* has gone.
Refuses ==
    /\ drv.pc = "forward" /\ ~drv.failed /\ Ready
    /\ s.pending.op = "Start" /\ ~Refreshed(TRUE)
    /\ drv' = [drv EXCEPT !.failed = TRUE]
    /\ UNCHANGED vars

Apply ==
    /\ drv.pc = "forward" /\ ~drv.failed
    /\ ApplyRecordedOwnerCompletions(TRUE)
    /\ drv' = Idle(IF s.pending.op = "Start" THEN "started" ELSE "stopped")

\* compensate_failed_start, or a Stop attempt that is kept.
ForwardFails ==
    /\ drv.pc = "forward" /\ drv.failed
    /\ IF s.pending.op = "Start"
       THEN BeginPartialStartAbort(TRUE) /\ drv' = Running("back")
       ELSE drv' = Idle("retained") /\ UNCHANGED vars

\* continue_partial_start_abort.
BackOwner ==
    /\ drv.pc = "back" /\ ~drv.failed
    /\ CompleteNextAbortOwner(TRUE)
    /\ UNCHANGED drv

Finalize ==
    /\ drv.pc = "back" /\ ~drv.failed
    /\ FinalizePartialStartAbort(TRUE)
    /\ drv' = Idle("aborted")

\* Mutant: the failed rollback is reported as done.
BackFailsQuietly ==
    /\ drv.pc = "back" /\ drv.failed
    /\ drv' = Idle("aborted")
    /\ UNCHANGED vars
BackFails ==
    /\ drv.pc = "back" /\ drv.failed
    /\ drv' = Idle("abort_failed")
    /\ UNCHANGED vars

\* The provider call returns to the loop it was made from.
Returns(readback) ==
    /\ Broker /\ ProviderReturns(readback, TRUE)
    /\ drv' = [drv EXCEPT !.failed = s' = s]
Fails == Broker /\ ProviderFails /\ drv' = [drv EXCEPT !.failed = TRUE]
Acts(effect) == Broker /\ ProviderActs(effect) /\ UNCHANGED drv

\* The client's lease or grant expires.
AuthorityEnds ==
    /\ Broker /\ authority = "current" /\ authority' = "ended"
    /\ UNCHANGED <<runtime, call, up, crashes, live, drv>>

Driving == \/ Complete \/ ResumeAbort \/ ForwardOwner \/ Refuses \/ Apply
           \/ ForwardFails \/ BackOwner \/ Finalize \/ BackFails
BrokerNext ==
    \/ \E id \in Ids : \/ StartMediaSession(id) \/ StopMediaSession(id)
                       \/ PrepareRevokerCleanup(id)
    \/ ReviewRevokerCleanup \/ AuthorityEnds
    \/ Driving
    \/ \E readback \in Readbacks : Returns(readback)
    \/ \E effect \in BOOLEAN : Acts(effect)
    \/ Fails
    \/ AnyHost

BrokerSpec == BrokerInit /\ [][BrokerNext]_brokerVars

\* Pending calls return, the cleanup caller keeps calling, and an owner that is
\* asked again and again is eventually dealt with.
FairSpec ==
    /\ BrokerSpec
    /\ WF_brokerVars(Driving)
    /\ WF_brokerVars(\E effect \in BOOLEAN : Acts(effect))
    /\ WF_brokerVars(Fails \/ \E readback \in Readbacks : Returns(readback))
    /\ SF_brokerVars(Acts(TRUE))
    /\ SF_brokerVars(\E readback \in Readbacks : Accepts(readback) /\ Returns(readback))

-----------------------------------------------------------------------------
\* A reply is true of the platform: MediaStartAborted and a completed Stop leave
\* nothing running, a completed Start everything, and no call returns with a Start
\* half done: it is untouched, complete, or its rollback has begun and is kept.
ReplyIsTrue ==
    drv.pc = "idle" =>
        /\ drv.reply \in {"aborted", "stopped"} => live = {}
        /\ drv.reply = "started" => live = Owners
        /\ s.pending.op = "Start" =>
              s.aborting \/ (s.receipts = <<>> /\ s.uncertain = NoOwner /\ live = {})

\* "Completed reverse effects remain skipped": an owner is asked to start only
\* when it is down and to stop only when it is up, unless a trusted revoker stops
\* the whole graph after a rollback; what may already have happened is
\* compensated instead.
AskedOnce ==
    [][Broker /\ call' # call /\ call' # NoCall /\ ~call'.returned =>
        /\ call'.kind = "reverse" => call'.owner \in live
        /\ call'.kind = "execute" =>
              \/ s.completedAbort # NoAbort
              \/ (call'.owner \in live) = (s.pending.op = "Stop")]_brokerVars

\* A Start that failed, and a Stop that was prepared, end with nothing running.
CleanupFinishes ==
    (Broker /\ (s.aborting \/ s.pending.op = "Stop")) ~> (live = {} /\ s.pending = NoAction)
=============================================================================
