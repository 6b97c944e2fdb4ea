--------------------------- MODULE PackageInstall ---------------------------
(***************************************************************************)
(* The attended package installation of the Android package updater: one   *)
(* persisted install receipt, the staged APK files, the rollback           *)
(* checkpoint, and the threads that touch them.  Worker threads run the    *)
(* jobs of an Activity instance or of the e2e service (a check that stages *)
(* an update, a reconciliation, a cancellation); the main thread runs the  *)
(* installer's callbacks.  The Package Installer and the wearer are the    *)
(* environment.  A plan is a number: its sequence and its version code.    *)
(***************************************************************************)
EXTENDS Integers, FiniteSets

CONSTANTS
    Workers,     \* threads that run checks, reconciliations, cancellations
    Main,        \* the main thread, on which broadcasts are received
    Nobody,      \* the free preparation slot
    MaxPlan,     \* bound on the published plans
    MaxSession,  \* bound on the installer sessions
    MaxJobs,     \* bound on the checks, reconciliations and cancellations
    MaxFaults    \* bound on what goes wrong: see Fault

ASSUME PackageInstallAssumption ==
    /\ Main \notin Workers
    /\ Nobody \notin Workers
    /\ MaxPlan \in Nat \ {0}
    /\ MaxSession \in Nat \ {0}
    /\ MaxJobs \in Nat /\ MaxFaults \in Nat

VARIABLES
    receipt,     \* the persisted install receipt
    staged,      \* plans whose verified APK is in the staging directory
    installer,   \* the Package Installer's sessions
    callbacks,   \* broadcasts the installer has sent and nobody received
    installed,   \* version of the installed package, 0 when there is none
    checkpoint,  \* the persisted rollback checkpoint, 0 when there is none
    expired,     \* plans whose manifest has expired
    slot,        \* UpdateOperationCoordinator.ACTIVE
    thread,      \* what each thread of the process is doing
    jobs,        \* jobs the worker threads have begun
    faults       \* what has gone wrong so far

disk == <<receipt, staged, checkpoint>>
world == <<installer, callbacks, installed, expired, faults>>
vars == <<disk, world, slot, thread, jobs>>

Plans == 1..MaxPlan
Sessions == 1..MaxSession
Threads == Workers \cup {Main}

TerminalStates ==
    {"installed_readback_ok", "installed_but_checkpoint_rejected",
     "install_failed", "install_cancelled"}

ReceiptStates == TerminalStates \cup
    {"session_written", "commit_requested", "awaiting_installer_callback",
     "session_present_awaiting_wearer", "pending_user_confirmation",
     "cancel_requested", "installed_readback_checkpoint_pending"}

NoReceipt == [session |-> 0, plan |-> 0, state |-> "none"]

Receipts == [session : Sessions, plan : Plans, state : ReceiptStates]

Statuses == {"pending_user_action", "success", "aborted", "failure"}

CheckSteps == {"download", "open", "copy", "begin", "request", "commit", "await"}

Steps == CheckSteps \cup
    {"idle", "abandon_staged", "inspect", "look", "cancel", "reread",
     "abandon", "abandon_after", "verify", "advance", "store", "confirm",
     "write", "clean"}

Jobs == {"none", "check", "reconcile", "cancel", "callback"}

(***************************************************************************)
(* job, step and the receipt the thread read (a check: the session and     *)
(* plan it stages); goal is the state it is about to write.                *)
(***************************************************************************)
Idle == [job |-> "none", step |-> "idle", seen |-> NoReceipt,
         goal |-> "none"]

Init ==
    /\ receipt = NoReceipt
    /\ staged = {}
    /\ installer = [s \in Sessions |->
                        [phase |-> "none", plan |-> 0, shown |-> FALSE]]
    /\ callbacks = {}
    /\ installed = 0
    /\ checkpoint = 0
    /\ expired = {}
    /\ slot = Nobody
    /\ thread = [t \in Threads |-> Idle]
    /\ jobs = 0 /\ faults = 0

-----------------------------------------------------------------------------
(* The receipt store. *)

IsTerminal(state) == state \in TerminalStates

Live(r) == r # NoReceipt /\ ~IsTerminal(r.state)

(* updateStateUnlocked: a late writer does not move an ended receipt, nor *)
(* take back a cancellation or a confirmed installation.                   *)
Keeps(current, state) ==
    \/ IsTerminal(current) /\ current # state
    \/ /\ current = "cancel_requested"
       /\ ~IsTerminal(state)
       /\ state # "installed_readback_checkpoint_pending"
    \/ /\ current = "installed_readback_checkpoint_pending"
       /\ ~IsTerminal(state)

Updated(state) ==
    IF Keeps(receipt.state, state)
    THEN receipt
    ELSE [receipt EXCEPT !.state = state]

(* A callback holds its reservation until its handler returns. *)
CallbackActive == thread[Main].step # "idle"

-----------------------------------------------------------------------------
(* Steps of a thread. *)

(* A death of the process, a declined confirmation, an expiring manifest or *)
(* a failing check, store or confirmation.                                  *)
Fault == faults < MaxFaults /\ faults' = faults + 1


At(t, step) == thread[t].step = step

Goto(t, step) == thread' = [thread EXCEPT ![t].step = step]

Writing(t, state) ==
    thread' = [thread EXCEPT ![t].step = "write", ![t].goal = state]

(* A job ends: it returns, or an exception leaves it. *)
Returns(t) ==
    /\ thread' = [thread EXCEPT ![t] = Idle]
    /\ slot' = IF slot = t THEN Nobody ELSE slot

(* The exception handler of stageAttendedInstall takes over. *)
StagingFails(w, state) ==
    thread' = [thread EXCEPT ![w].step = "abandon_staged", ![w].goal = state]

Present(s) == installer[s].phase \in {"open", "committed"}

(* PackageInstaller.abandonSession: a committed session answers its sender. *)
Abandoned(s) ==
    /\ installer' = [installer EXCEPT ![s].phase = "gone"]
    /\ callbacks' = IF installer[s].phase = "committed"
                    THEN callbacks \cup {[session |-> s, status |-> "aborted"]}
                    ELSE callbacks

-----------------------------------------------------------------------------
(* A check: one at a time takes the preparation slot. *)

\* Mutant: two checks may prepare at once.
SlotFreeAlways == TRUE
\* UpdateOperationCoordinator.run
SlotFree == slot = Nobody

(* The manifest is fetched and verified against the clock, the installed *)
(* version and the checkpoint.                                            *)
StartCheck(w) ==
    /\ At(w, "idle") /\ SlotFree
    /\ \E p \in Plans \ expired :
          /\ p > installed /\ p > checkpoint
          /\ thread' = [thread EXCEPT ![w] =
                [Idle EXCEPT !.job = "check", !.step = "download",
                             !.seen = [NoReceipt EXCEPT !.plan = p]]]
    /\ slot' = w /\ UNCHANGED <<disk, world>>

Download(w) ==
    /\ At(w, "download")
    /\ staged' = staged \cup {thread[w].seen.plan}
    /\ Goto(w, "open")
    /\ UNCHANGED <<world, receipt, checkpoint, slot>>

(* stageAttendedInstall: one attended session at a time. *)
OpenSession(w) ==
    /\ At(w, "open")
    /\ \/ /\ Live(receipt)
          /\ Returns(w)
          /\ UNCHANGED installer
       \/ /\ ~Live(receipt)
          /\ \E s \in Sessions :
                /\ installer[s].phase = "none"
                /\ \A r \in 1..(s - 1) : installer[r].phase # "none"
                /\ installer' = [installer EXCEPT ![s] =
                      [phase |-> "open", plan |-> thread[w].seen.plan,
                       shown |-> FALSE]]
                /\ thread' = [thread EXCEPT ![w].step = "copy",
                                            ![w].seen.session = s]
          /\ UNCHANGED slot
    /\ UNCHANGED <<disk, callbacks, installed, expired, faults>>

(* The staged APK is opened and copied into the session. *)
CopyApk(w) ==
    /\ At(w, "copy")
    /\ IF thread[w].seen.plan \in staged
       THEN Goto(w, "begin")
       ELSE StagingFails(w, "install_failed")
    /\ UNCHANGED <<disk, world, slot>>

\* beginUnlocked
NewReceipt(seen) == [seen EXCEPT !.state = "session_written"]

BeginReceipt(w) ==
    /\ At(w, "begin")
    /\ IF thread[w].seen.plan \in expired \/ CallbackActive
       THEN StagingFails(w, "install_failed") /\ UNCHANGED receipt
       ELSE receipt' = NewReceipt(thread[w].seen) /\ Goto(w, "request")
    /\ UNCHANGED <<world, staged, checkpoint, slot>>

RequestCommit(w) ==
    /\ At(w, "request")
    /\ IF receipt.session # thread[w].seen.session
       THEN StagingFails(w, "install_failed") /\ UNCHANGED receipt
       ELSE receipt' = Updated("commit_requested") /\ Goto(w, "commit")
    /\ UNCHANGED <<world, staged, checkpoint, slot>>

(* Session.commit; it throws when the session was abandoned meanwhile. *)
CommitSession(w) ==
    LET s == thread[w].seen.session
    IN /\ At(w, "commit")
       /\ IF installer[s].phase = "open"
          THEN /\ installer' = [installer EXCEPT ![s].phase = "committed"]
               /\ callbacks' = callbacks \cup
                     {[session |-> s, status |-> "pending_user_action"]}
               /\ Goto(w, "await")
          ELSE /\ StagingFails(w, "install_failed")
               /\ UNCHANGED <<installer, callbacks>>
       /\ UNCHANGED <<disk, installed, expired, slot, faults>>

(* compareAndSetState, then the check returns and frees the slot. *)
AwaitCallback(w) ==
    /\ At(w, "await")
    /\ receipt' = IF /\ receipt.session = thread[w].seen.session
                     /\ receipt.state = "commit_requested"
                  THEN [receipt EXCEPT !.state = "awaiting_installer_callback"]
                  ELSE receipt
    /\ Returns(w)
    /\ UNCHANGED <<world, staged, checkpoint>>

(* An I/O failure or an interruption: before the session exists the check *)
(* just ends, afterwards it cleans up after itself.                        *)
CheckFails(w) ==
    /\ Fault
    /\ \/ /\ thread[w].step \in {"download", "open"}
          /\ Returns(w)
       \/ /\ thread[w].step \in {"copy", "begin", "request", "commit"}
          /\ \E why \in {"install_cancelled", "install_failed"} : StagingFails(w, why)
          /\ UNCHANGED slot
    /\ UNCHANGED <<disk, installer, callbacks, installed, expired>>

AbandonStaged(w) ==
    LET s == thread[w].seen.session
    IN /\ At(w, "abandon_staged")
       /\ IF Present(s) THEN Abandoned(s)
                        ELSE UNCHANGED <<installer, callbacks>>
       /\ Goto(w, "inspect")
       /\ UNCHANGED <<disk, installed, expired, slot, faults>>

(* The failed receipt is ended when it is this check's and still live. *)
InspectFailed(w) ==
    /\ At(w, "inspect")
    /\ IF receipt = NoReceipt
       THEN Goto(w, "clean") /\ UNCHANGED slot
       ELSE IF receipt.session = thread[w].seen.session /\ Live(receipt)
            THEN Goto(w, "write") /\ UNCHANGED slot
            ELSE Returns(w)
    /\ UNCHANGED <<disk, world>>

-----------------------------------------------------------------------------
(* Reconciliation and cancellation of the persisted session. *)

(* onResume: the receipt is read, and what follows is decided from that *)
(* copy.                                                                 *)
Resume(w) ==
    /\ At(w, "idle")
    /\ Live(receipt)
    /\ thread' = [thread EXCEPT ![w] =
          [Idle EXCEPT !.job = "reconcile", !.step = "look", !.seen = receipt]]
    /\ UNCHANGED <<disk, world, slot>>

AskCancel(w) ==
    /\ At(w, "idle")
    /\ Live(receipt)
    /\ thread' = [thread EXCEPT ![w] =
          [Idle EXCEPT !.job = "cancel", !.seen = receipt, 
                       !.step = IF receipt.state =
                                      "installed_readback_checkpoint_pending"
                                THEN "reread" ELSE "cancel"]]
    /\ UNCHANGED <<disk, world, slot>>

\* Mutant: a committed session is recorded as cancelled at once.
CancelCommittedAtOnce(w) == Writing(w, "install_cancelled")
CancelCommitted(w) == Writing(w, "cancel_requested")

AbandonThen(w, state) ==
    thread' = [thread EXCEPT ![w].step = "abandon", ![w].goal = state]

(* cancelPersistedSession.  A missing session is left alone for a while *)
(* after a cancellation, otherwise reconciled.                           *)
Cancel(w) ==
    LET s == thread[w].seen.session
    IN /\ At(w, "cancel")
       /\ \/ ~Present(s) /\ thread[w].seen.state = "cancel_requested" /\ Returns(w)
          \/ ~Present(s) /\ Goto(w, "reread") /\ UNCHANGED slot
          \/ installer[s].phase = "committed" /\ CancelCommitted(w) /\ UNCHANGED slot
          \/ /\ installer[s].phase = "open"
             /\ AbandonThen(w, "install_cancelled") /\ UNCHANGED slot
       /\ UNCHANGED <<disk, world>>

(* A reconciliation that a cancellation calls. *)
Reread(w) ==
    /\ At(w, "reread")
    /\ IF Live(receipt)
       THEN /\ thread' = [thread EXCEPT ![w].step = "look",
                                        ![w].seen = receipt]
            /\ UNCHANGED slot
       ELSE Returns(w)
    /\ UNCHANGED <<disk, world>>

HasExpired(p) == p \in expired

(* reconcilePersistedSession up to its first effect. *)
Look(w) ==
    LET seen == thread[w].seen
        late == HasExpired(seen.plan)
    IN /\ At(w, "look")
       /\ IF \/ seen.state = "installed_readback_checkpoint_pending"
             \/ ~Present(seen.session)
          THEN Goto(w, "verify")
          ELSE IF installer[seen.session].phase = "committed"
          THEN Writing(w, IF late THEN "cancel_requested"
                          ELSE "session_present_awaiting_wearer")
          ELSE AbandonThen(w, IF late THEN "install_cancelled" ELSE "install_failed")
       /\ UNCHANGED <<disk, world, slot>>

(* An uncommitted session is abandoned before its receipt is ended. *)
Abandon(w) ==
    LET s == thread[w].seen.session
    IN /\ At(w, "abandon")
       /\ IF Present(s)
          THEN Abandoned(s) /\ Goto(w, "write") /\ UNCHANGED slot
          ELSE Returns(w) /\ UNCHANGED <<installer, callbacks>>
       /\ UNCHANGED <<disk, installed, expired, faults>>

(* A committed one after the cancellation was recorded; a session that is *)
(* gone by then is left to its callback, or reconciled by a cancellation.  *)
AbandonAfter(w) ==
    LET s == thread[w].seen.session
    IN /\ At(w, "abandon_after")
       /\ IF Present(s)
          THEN Abandoned(s) /\ Returns(w)
          ELSE /\ IF thread[w].job = "cancel"
                  THEN Goto(w, "reread") /\ UNCHANGED slot
                  ELSE Returns(w)
               /\ UNCHANGED <<installer, callbacks>>
       /\ UNCHANGED <<disk, installed, expired, faults>>

-----------------------------------------------------------------------------
(* What reconciliation and the success callback share. *)

\* Mutant: the installed package is not read back.
ReadsBackStaged(p) == p \in staged
\* verifyInstalledReadback: the staged APK and the installed package.
ReadsBack(p) == p \in staged /\ installed = p

VerifyReadback(t) ==
    /\ At(t, "verify")
    /\ IF ReadsBack(thread[t].seen.plan)
       THEN Goto(t, "advance")
       ELSE Writing(t, IF t # Main /\ thread[t].seen.state = "cancel_requested"
                       THEN "install_cancelled" ELSE "install_failed")
    /\ UNCHANGED <<disk, world, slot>>

(* commitInstalledCheckpoint and the reads of commitInstalled. *)
AdvanceCheckpoint(t) ==
    LET p == thread[t].seen.plan
    IN /\ At(t, "advance")
       /\ IF p \in expired
          THEN Writing(t, "installed_but_checkpoint_rejected")
          ELSE IF checkpoint = p
          THEN Writing(t, "installed_readback_ok")
          ELSE IF p > checkpoint
          THEN Goto(t, "store")
          ELSE Writing(t, "installed_readback_checkpoint_pending")
       /\ UNCHANGED <<disk, world, slot>>

(* The write of commitInstalled, which may fail. *)
StoreCheckpoint(t) ==
    /\ At(t, "store")
    /\ \/ /\ checkpoint' = thread[t].seen.plan
          /\ Writing(t, "installed_readback_ok")
          /\ UNCHANGED faults
       \/ /\ Fault
          /\ Writing(t, "installed_readback_checkpoint_pending")
          /\ UNCHANGED checkpoint
    /\ UNCHANGED <<installer, callbacks, installed, expired, receipt, staged, slot>>

(* updateState and updateCallbackState: another session's receipt throws. *)
WriteState(t) ==
    LET goal == thread[t].goal
    IN /\ At(t, "write")
       /\ IF receipt.session # thread[t].seen.session
          THEN Returns(t) /\ UNCHANGED receipt
          ELSE /\ receipt' = Updated(goal)
               /\ IF IsTerminal(goal)
                  THEN Goto(t, "clean") /\ UNCHANGED slot
                  ELSE IF goal = "cancel_requested"
                  THEN Goto(t, "abandon_after") /\ UNCHANGED slot
                  ELSE Returns(t)
       /\ UNCHANGED <<world, staged, checkpoint>>

(* cleanupTerminalArtifacts; a failed check ends with its exception. *)
CleanStaged(t) ==
    /\ At(t, "clean")
    /\ staged' = staged \ {thread[t].seen.plan}
    /\ Returns(t)
    /\ UNCHANGED <<world, receipt, checkpoint>>

-----------------------------------------------------------------------------
(* The callback receiver. *)

AfterStatus(status) ==
    CASE status = "pending_user_action" -> "confirm"
      [] status = "success" -> "verify"
      [] OTHER -> "write"

(* captureCallback: only the live receipt's own session is answered, and *)
(* no confirmation is shown for a cancelled or already installed one.     *)
Receive ==
    /\ At(Main, "idle")
    /\ \E c \in callbacks :
          /\ callbacks' = callbacks \ {c}
          /\ IF /\ Live(receipt)
                /\ receipt.session = c.session
                /\ ~ /\ c.status = "pending_user_action"
                     /\ receipt.state \in
                           {"cancel_requested",
                            "installed_readback_checkpoint_pending"}
             THEN thread' = [thread EXCEPT ![Main] =
                     [Idle EXCEPT !.job = "callback", !.seen = receipt,
                                  !.step = AfterStatus(c.status),
                                  !.goal = IF c.status = "aborted"
                                           THEN "install_cancelled"
                                           ELSE "install_failed"]]
             ELSE UNCHANGED thread
    /\ UNCHANGED <<disk, installer, installed, expired, slot, faults>>

\* Mutant: the confirmation is shown whatever became of the receipt.
DispatchesAnyway(r) == TRUE
Dispatches(r) == r.state = "pending_user_confirmation"

(* dispatchPendingConfirmation: recorded and shown under one lock. *)
Confirm ==
    /\ At(Main, "confirm")
    /\ \/ /\ receipt' = Updated("pending_user_confirmation")
          /\ installer' = [installer EXCEPT ![thread[Main].seen.session].shown =
                               @ \/ Dispatches(receipt')]
          /\ Returns(Main)
          /\ UNCHANGED faults
       \/ /\ Fault
          /\ Goto(Main, "write") /\ UNCHANGED <<receipt, installer, slot>>
    /\ UNCHANGED <<staged, callbacks, installed, checkpoint, expired>>

-----------------------------------------------------------------------------
(* The environment: the wearer, the Package Installer, the clock, and the *)
(* end of the process, on which a reboot also loses the broadcasts.        *)

Answers(s, status) ==
    callbacks' = callbacks \cup {[session |-> s, status |-> status]}

Approve(s) ==
    /\ installer[s].phase = "committed"
    /\ installer[s].shown
    /\ installer[s].plan > installed
    /\ installer' = [installer EXCEPT ![s].phase = "installed"]
    /\ installed' = installer[s].plan
    /\ Answers(s, "success")
    /\ UNCHANGED <<disk, expired, slot, thread, faults>>

Decline(s) ==
    /\ Fault
    /\ installer[s].phase = "committed"
    /\ installer[s].shown
    /\ installer' = [installer EXCEPT ![s].phase = "gone"]
    /\ \E status \in {"aborted", "failure"} : Answers(s, status)
    /\ UNCHANGED <<disk, installed, expired, slot, thread>>

Expire ==
    /\ Fault
    /\ \E p \in Plans \ expired : expired' = expired \cup {p}
    /\ UNCHANGED <<disk, installer, callbacks, installed, slot, thread>>

Crash ==
    /\ Fault
    /\ thread' = [t \in Threads |-> Idle]
    /\ slot' = Nobody
    /\ callbacks' \in {callbacks, {}}
    /\ UNCHANGED <<disk, installer, installed, expired>>

-----------------------------------------------------------------------------
CheckStep(w) ==
    \/ Download(w) \/ OpenSession(w) \/ CopyApk(w) \/ BeginReceipt(w)
    \/ RequestCommit(w) \/ CommitSession(w) \/ AwaitCallback(w)
    \/ AbandonStaged(w) \/ InspectFailed(w)

SettleStep(t) ==
    \/ VerifyReadback(t) \/ AdvanceCheckpoint(t) \/ StoreCheckpoint(t)
    \/ WriteState(t) \/ CleanStaged(t)

WorkerStep(w) ==
    \/ CheckStep(w) \/ Cancel(w) \/ Reread(w) \/ Look(w) \/ Abandon(w)
    \/ AbandonAfter(w) \/ SettleStep(w)

MainStep == Confirm \/ SettleStep(Main)

BeginJob(w) ==
    /\ jobs < MaxJobs /\ jobs' = jobs + 1
    /\ StartCheck(w) \/ Resume(w) \/ AskCancel(w)

Next ==
    \/ \E w \in Workers : BeginJob(w)
    \/ /\ \/ \E w \in Workers : CheckFails(w) \/ WorkerStep(w)
          \/ Receive \/ MainStep
          \/ \E s \in Sessions : Approve(s) \/ Decline(s)
          \/ Expire \/ Crash
       /\ UNCHANGED jobs

Spec == Init /\ [][Next]_vars

-----------------------------------------------------------------------------
(* Every variable is in its range: in particular a receipt always has a state. *)
TypeOK ==
    /\ receipt \in Receipts \cup {NoReceipt}
    /\ staged \subseteq Plans
    /\ installer \in [Sessions ->
          [phase : {"none", "open", "committed", "gone", "installed"},
           plan : Plans \cup {0}, shown : BOOLEAN]]
    /\ callbacks \subseteq [session : Sessions, status : Statuses]
    /\ installed \in Plans \cup {0}
    /\ checkpoint \in Plans \cup {0}
    /\ expired \subseteq Plans
    /\ slot \in Workers \cup {Nobody}
    /\ thread \in [Threads ->
          [job : Jobs, step : Steps,
           seen : [session : Sessions \cup {0}, plan : Plans \cup {0},
                   state : ReceiptStates \cup {"none"}],
           goal : ReceiptStates \cup {"none"}]]
    /\ jobs \in 0..MaxJobs /\ faults \in 0..MaxFaults

(***************************************************************************)
(* The one receipt is not lost: a check never replaces the receipt of an   *)
(* attended session that has not ended (stageAttendedInstall reads the     *)
(* previous receipt long before begin writes the new one), and no late     *)
(* reconciliation, cancellation or callback changes how a session ended.   *)
(***************************************************************************)
ReceiptIsKept ==
    [][/\ Live(receipt) => receipt'.session = receipt.session
       /\ /\ receipt # NoReceipt
          /\ ~Live(receipt)
          /\ receipt'.session = receipt.session
          => receipt' = receipt]_vars

(***************************************************************************)
(* A session the wearer can still approve belongs to the receipt, and the  *)
(* receipt has not ended: nothing is installed behind an ended receipt,    *)
(* whichever of staging, reconciliation, cancellation and callback raced.  *)
(***************************************************************************)
ApprovalIsTracked ==
    \A s \in Sessions :
        installer[s].phase = "committed" /\ installer[s].shown
        => receipt.session = s /\ Live(receipt)

(***************************************************************************)
(* The confirmation of a session is shown only for the receipt's session,  *)
(* and never once its cancellation was recorded or it has ended.           *)
(***************************************************************************)
NoConfirmationAfterCancel ==
    [][\A s \in Sessions :
          ~installer[s].shown /\ installer'[s].shown
          => receipt'.session = s /\ receipt'.state = "pending_user_confirmation"]_vars

(***************************************************************************)
(* The rollback checkpoint names a plan the wearer approved and the        *)
(* installer installed, never one that was only staged or declined.        *)
(***************************************************************************)
CheckpointWasInstalled ==
    checkpoint # 0 =>
        \E s \in Sessions : /\ installer[s].phase = "installed"
                             /\ installer[s].plan = checkpoint

=============================================================================
