----------------------------- MODULE ProcessFence -----------------------------
(***************************************************************************)
(* The durable process fence of the embedded duplex host and its cold      *)
(* recovery.                                                               *)
(*                                                                         *)
(* Every process of the app acquires one record (EmbeddedDuplexProcessFence *)
(* .java) that is "pending" while runtime effects may exist.  A companion  *)
(* per operational run (EmbeddedDuplexProcessIncarnation.java) says which  *)
(* process stamped it and which record was the last it wrote.  The native  *)
(* side (process_fence.rs) numbers its executors with a permanent counter, *)
(* written together with the process that owns it before the capability is *)
(* handed out.  A later process continues either from a published handoff  *)
(* (the run was closed and joined) or by cold recovery, which proves that  *)
(* the last owner is dead and retires it (EmbeddedDuplexColdRecovery.java). *)
(*                                                                         *)
(* One process lives at a time, its operations run on one command lane,    *)
(* and it may be killed between any two durable writes.  Writing a record  *)
(* or the counter is in place, so a kill may also leave it torn; a kill    *)
(* while a companion is replaced leaves its staging file behind.           *)
(***************************************************************************)
EXTENDS Naturals, FiniteSets

CONSTANTS MaxProc,   \* bound on the number of processes started
          MaxRun,    \* bound on the number of operational runs
          MaxGen,    \* bound on the generations of the fence record
          Torn       \* the contents of a file whose write was cut short

ASSUME BoundsArePositive == {MaxProc, MaxRun, MaxGen} \subseteq Nat \ {0, 1}

Runs == 1..MaxRun
Procs == 1..MaxProc
Gens == 0..MaxGen

(***************************************************************************)
(* A record of the fence: its generation names its nonce too, since both   *)
(* change together.  NoRecord stands for a record that does not exist.     *)
(***************************************************************************)
Phases == {"clear", "pending"}
Records == [gen : Gens, run : Runs, phase : Phases]
NoRecord == [gen |-> 0, run |-> 1, phase |-> "clear"]

\* The native counter, with the fence record of its last claim, the process that
\* owns it and whether a recovery retired that owner.
Counters == [counter : Nat, app : Records, owner : {0} \cup Procs, retired : BOOLEAN]

ASSUME TornIsNeither == Torn \notin Records \cup Counters

AsClear(r) == [r EXCEPT !.phase = "clear"]
AsPending(r) == [r EXCEPT !.phase = "pending"]

NoCompanion == [owner |-> 0, orig |-> NoRecord, cur |-> NoRecord, broken |-> FALSE]

VARIABLES
  rec,      \* the fence record on disk
  sel,      \* the selected run on disk
  comps,    \* comps[r]: the incarnation companion of run r
  phases,   \* phases[r]: the predecessor records retained in run r
  nat,      \* the native counter with its owner
  closed,   \* closed[r]: the native generation whose closure run r published
  release,  \* release[r]: the native generation named by run r's release source
  made,     \* runs 1..made have been created
  pub,      \* pub[r]: a cold recovery of run r was prepared and not published
  proc,     \* the number of the newest process
  alive,    \* whether that process runs
  pc,       \* the step of the command lane
  fence,    \* the fence held in memory
  reg,      \* the native registry of this process
  open      \* ghost: native generations whose effects nobody has accounted for

disk == <<rec, sel, comps, phases, nat, closed, release, made, pub>>
fenceVars == <<disk, proc, alive, pc, fence, reg, open>>

NoFence == [mem |-> NoRecord, acq |-> NoRecord, recoveryOnly |-> FALSE, bound |-> FALSE]

\* The registry of a new process: no capability (cap = 0), no run whose owner
\* completed or was found absent here (prior = 0), nothing still owned.
EmptyRegistry == [cap |-> 0, prior |-> 0, owned |-> FALSE]

(***************************************************************************)
(* The first process has acquired the fence and selected the first run.    *)
(***************************************************************************)
FenceInit ==
  LET first == [gen |-> 2, run |-> 1, phase |-> "clear"] IN
  /\ rec = first
  /\ sel = 1
  /\ comps = [r \in Runs |-> NoCompanion]
  /\ phases = [r \in Runs |-> {}]
  /\ nat = [counter |-> 0, app |-> NoRecord, owner |-> 0, retired |-> FALSE]
  /\ closed = [r \in Runs |-> 0]
  /\ release = [r \in Runs |-> 0]
  /\ made = 1
  /\ pub = [r \in Runs |-> FALSE]
  /\ proc = 1
  /\ alive = TRUE
  /\ pc = "idle"
  /\ fence = [NoFence EXCEPT !.mem = first]
  /\ reg = EmptyRegistry
  /\ open = {}

Run == fence.mem.run
Pending == fence.mem.phase = "pending"
At(step) == alive /\ pc = step
Present(c) == c # NoCompanion

(***************************************************************************)
(* A new process: acquire.  A torn record, or one of another run than the  *)
(* selected one, refuses every later process.  Before a pending record is  *)
(* overwritten it is retained under its checksum, whole or not at all.     *)
(***************************************************************************)
\* Mutant: the pending predecessor is overwritten without being retained.
AcquireForgetting ==
  /\ ~alive /\ proc < MaxProc
  /\ rec # Torn /\ rec.run = sel /\ rec.gen < MaxGen
  /\ proc' = proc + 1
  /\ alive' = TRUE
  /\ fence' = [NoFence EXCEPT !.mem = [rec EXCEPT !.gen = @ + 1], !.acq = rec,
                              !.recoveryOnly = rec.phase = "pending"]
  /\ pc' = "acquire"
  /\ UNCHANGED <<disk, reg, open>>

Acquire ==
  /\ ~alive /\ proc < MaxProc
  /\ rec # Torn /\ rec.run = sel /\ rec.gen < MaxGen
  /\ proc' = proc + 1
  /\ alive' = TRUE
  /\ fence' = [NoFence EXCEPT !.mem = [rec EXCEPT !.gen = @ + 1], !.acq = rec,
                              !.recoveryOnly = rec.phase = "pending"]
  /\ phases' = [phases EXCEPT ![sel] = IF rec.phase = "pending" THEN @ \cup {rec} ELSE @]
  /\ pc' = "acquire"
  /\ UNCHANGED <<rec, sel, comps, nat, closed, release, made, pub, reg, open>>

(***************************************************************************)
(* persist(): the record in place, then the companion if one is bound.     *)
(* After[step] is the step that follows the write made at `step`.          *)
(***************************************************************************)
RecordSteps ==
  {"acquire", "select_rec", "pending_rec", "absence_rec", "clear_rec", "enter_rec", "finish_rec"}
CompanionSteps == {"pending_comp", "absence_comp", "clear_comp"}
StampSteps == {"bind", "finish_comp"}

After ==
  [ acquire |-> "idle", select_rec |-> "idle", enter_rec |-> "retire",
    pending_rec |-> "pending_comp", pending_comp |-> "claim",
    absence_rec |-> "absence_comp", absence_comp |-> "absence",
    clear_rec |-> "clear_comp", clear_comp |-> "publish",
    finish_rec |-> "finish_comp", finish_comp |-> "joined", bind |-> "idle" ]

WriteRecord ==
  /\ alive /\ pc \in RecordSteps
  /\ rec' = fence.mem
  /\ pc' = After[pc]
  /\ UNCHANGED <<sel, comps, phases, nat, closed, release, made, pub, proc, alive, fence, reg, open>>

WriteCompanion ==
  /\ alive /\ pc \in CompanionSteps
  /\ comps' = [comps EXCEPT ![Run].cur = fence.mem]
  /\ pc' = After[pc]
  /\ UNCHANGED <<rec, sel, phases, nat, closed, release, made, pub, proc, alive, fence, reg, open>>

\* A new companion: at bindIncarnation, or in place of a dead process's.
StampCompanion ==
  /\ alive /\ pc \in StampSteps
  /\ comps' = [comps EXCEPT ![Run] =
       [owner |-> proc, orig |-> fence.mem, cur |-> fence.mem, broken |-> FALSE]]
  /\ pc' = After[pc]
  /\ UNCHANGED <<rec, sel, phases, nat, closed, release, made, pub, proc, alive, fence, reg, open>>

(***************************************************************************)
(* bindIncarnation: a run whose companion exists belongs to the process    *)
(* that stamped it; this process stamps a run that has none.               *)
(***************************************************************************)
Bind ==
  /\ At("idle") /\ ~fence.bound
  /\ ~Present(comps[Run])
  /\ fence' = [fence EXCEPT !.bound = TRUE]
  /\ pc' = "bind"
  /\ UNCHANGED <<disk, proc, alive, reg, open>>

(***************************************************************************)
(* Initialization: the fence becomes pending, record and companion, before *)
(* the native side is asked for a capability.                              *)
(***************************************************************************)
BeforeRuntimeEffects ==
  /\ At("idle") /\ fence.bound /\ ~fence.recoveryOnly /\ ~Pending /\ ~reg.owned
  /\ fence' = [fence EXCEPT !.mem = AsPending(@)]
  /\ pc' = "pending_rec"
  /\ UNCHANGED <<disk, proc, alive, reg, open>>

\* The closure this run may present: the latest one published under its own
\* root, or else the one its release source names.
Handoff(r) == IF closed[r] > 0 THEN closed[r] ELSE release[r]

(***************************************************************************)
(* claimNativeProcessFence.  A registry that completed a run in this       *)
(* process moves only to a different run; an empty one needs a handoff for *)
(* exactly the counter it finds, unless the counter was never used.        *)
(***************************************************************************)
Eligible == IF reg.prior # 0 THEN reg.prior # Run /\ ~reg.owned
            ELSE nat.counter = 0 \/ Handoff(Run) = nat.counter

\* Mutant: a repeated claim allocates again instead of answering as before.
ClaimRepeated ==
  /\ At("claim") /\ nat # Torn
  /\ IF Eligible \/ reg.owned
       THEN /\ nat' = [counter |-> nat.counter + 1, app |-> fence.mem,
                       owner |-> proc, retired |-> FALSE]
            /\ reg' = [cap |-> nat.counter + 1, prior |-> Run, owned |-> TRUE]
            /\ open' = open \cup {nat.counter + 1}
       ELSE UNCHANGED <<nat, reg, open>>
  /\ pc' \in {"idle", "claim"}
  /\ UNCHANGED <<rec, sel, comps, phases, closed, release, made, pub, proc, alive, fence>>

Claim ==
  /\ At("claim") /\ nat # Torn
  /\ IF Eligible
       THEN /\ nat' = [counter |-> nat.counter + 1, app |-> fence.mem,
                       owner |-> proc, retired |-> FALSE]
            /\ reg' = [cap |-> nat.counter + 1, prior |-> Run, owned |-> TRUE]
            /\ open' = open \cup {nat.counter + 1}
       ELSE UNCHANGED <<nat, reg, open>>
  /\ pc' = "idle"
  /\ UNCHANGED <<rec, sel, comps, phases, closed, release, made, pub, proc, alive, fence>>

(***************************************************************************)
(* Whole close: every local owner of this process's generation has been    *)
(* joined, and only then does the fence clear.                             *)
(***************************************************************************)
\* Mutant: the fence clears while the executor of this process is still owned.
CloseWholeUnjoined ==
  /\ At("idle") /\ fence.bound /\ Pending /\ ~fence.recoveryOnly /\ reg.owned
  /\ reg' = [reg EXCEPT !.owned = FALSE]
  /\ fence' = [fence EXCEPT !.mem = AsClear(@)]
  /\ pc' = "clear_rec"
  /\ UNCHANGED <<disk, proc, alive, open>>

CloseWhole ==
  /\ At("idle") /\ fence.bound /\ Pending /\ ~fence.recoveryOnly /\ reg.owned
  /\ open' = open \ {reg.cap}
  /\ reg' = [reg EXCEPT !.owned = FALSE]
  /\ fence' = [fence EXCEPT !.mem = AsClear(@)]
  /\ pc' = "clear_rec"
  /\ UNCHANGED <<disk, proc, alive>>

(***************************************************************************)
(* Closing a process that never claimed: the fence becomes pending if it   *)
(* is not, the registry records that this run's executor is absent, and    *)
(* the fence clears.                                                       *)
(***************************************************************************)
BeforeNativeAbsenceRetirement ==
  /\ At("idle") /\ fence.bound /\ ~fence.recoveryOnly /\ reg.prior = 0
  /\ fence' = [fence EXCEPT !.mem = AsPending(@)]
  /\ pc' = IF Pending THEN "absence" ELSE "absence_rec"
  /\ UNCHANGED <<disk, proc, alive, reg, open>>

RetireNeverClaimed ==
  /\ At("absence")
  /\ reg' = [reg EXCEPT !.prior = Run]
  /\ fence' = [fence EXCEPT !.mem = AsClear(@)]
  /\ pc' = "clear_rec"
  /\ UNCHANGED <<disk, proc, alive, open>>

\* The joined receipt and the pointer to it.  Only a whole close that joined an
\* executor moves the pointer; a no-media close leaves it where it was.
Publish ==
  /\ At("publish")
  /\ closed' \in {closed} \cup {[closed EXCEPT ![Run] = n] : n \in {reg.cap} \ {0}}
  /\ pc' = "idle"
  /\ UNCHANGED <<rec, sel, comps, phases, nat, release, made, pub, proc, alive, fence, reg, open>>

(***************************************************************************)
(* Select another run, a new or a retained one.  The selector is written   *)
(* before the fence record.  A run keeps the release source it was made    *)
(* with.                                                                   *)
(***************************************************************************)
GloballyEligible == reg.prior # 0 \/ nat.counter = 0 \/ Handoff(Run) = nat.counter

SelectRun(r) ==
  /\ At("idle") /\ ~fence.recoveryOnly /\ ~Pending /\ ~reg.owned
  /\ nat # Torn /\ fence.mem.gen < MaxGen
  /\ r # Run /\ r <= made + 1
  /\ GloballyEligible
  /\ release' = IF r <= made THEN release ELSE [release EXCEPT ![r] = Handoff(Run)]
  /\ made' = IF r <= made THEN made ELSE r
  /\ sel' = r
  /\ fence' = [NoFence EXCEPT !.mem = [gen |-> fence.mem.gen + 1, run |-> r, phase |-> "clear"]]
  /\ pc' = "select_rec"
  /\ UNCHANGED <<rec, comps, phases, nat, closed, pub, proc, alive, reg, open>>

(***************************************************************************)
(* Cold recovery: which companion proves who wrote last.                   *)
(*                                                                         *)
(* The selected run's companion is authentic if the last record it names   *)
(* is the one this process found, or an earlier one that was retained.  A  *)
(* run nobody entered has none; then the native owner names the run whose  *)
(* companion does.                                                         *)
(***************************************************************************)
SelectedWitness ==
  LET c == comps[Run] IN
  /\ Present(c) /\ ~c.broken
  /\ fence.acq # NoRecord
  /\ c.cur # fence.acq => c.cur \in phases[Run] /\ c.cur.gen < fence.acq.gen

SourceWitness ==
  LET c == comps[nat.app.run] IN
  /\ ~Present(comps[Run])
  /\ ~fence.recoveryOnly /\ ~Pending /\ ~nat.retired /\ nat.app.run # Run
  /\ Present(c) /\ ~c.broken
  /\ c.cur.gen = c.orig.gen
  /\ c.cur.gen = nat.app.gen /\ c.owner = nat.owner

Witnessed == SelectedWitness \/ SourceWitness
Witness == IF Present(comps[Run]) THEN comps[Run] ELSE comps[nat.app.run]

\* The process whose death is proved: the last writer, who must also own the
\* native counter unless that was retired by a recovery already.
OldOwnerIsDead ==
  /\ Witness.cur.gen < fence.mem.gen
  /\ nat.app.gen <= Witness.cur.gen
  /\ ~nat.retired => Witness.owner = nat.owner
  /\ Witness.owner # proc

Recoverable ==
  /\ nat # Torn /\ nat.counter > 0 /\ reg = EmptyRegistry
  /\ Witnessed /\ OldOwnerIsDead
  /\ ~fence.recoveryOnly => ~Pending /\ (pub[Run] \/ ~GloballyEligible)

\* Mutant: the closure is published before the old owner is retired.
PrepareRecoveryPublishing ==
  /\ At("idle") /\ Recoverable
  /\ fence' = [fence EXCEPT !.mem = AsPending(@), !.recoveryOnly = TRUE]
  /\ pc' = IF fence.recoveryOnly THEN "retire" ELSE "enter_rec"
  /\ closed' = [closed EXCEPT ![Run] = nat.counter]
  /\ UNCHANGED <<rec, sel, comps, phases, nat, release, made, pub, proc, alive, reg, open>>

\* prepare(): a clear fence is made pending again first.
PrepareRecovery ==
  /\ At("idle") /\ Recoverable
  /\ fence' = [fence EXCEPT !.mem = AsPending(@), !.recoveryOnly = TRUE]
  /\ pc' = IF fence.recoveryOnly THEN "retire" ELSE "enter_rec"
  /\ UNCHANGED <<disk, proc, alive, reg, open>>

\* The native owner is retired in place; its counter is kept.
RetireCold ==
  /\ At("retire")
  /\ nat' = [nat EXCEPT !.retired = TRUE]
  /\ open' = open \ {nat.counter}
  /\ reg' = [reg EXCEPT !.prior = Run]
  /\ pc' = "active"
  /\ UNCHANGED <<rec, sel, comps, phases, closed, release, made, pub, proc, alive, fence>>

\* complete(): the decision is retained and pointed to before the fence clears.
RetainDecision ==
  /\ At("active")
  /\ pub' = [pub EXCEPT ![Run] = TRUE]
  /\ fence' = [fence EXCEPT !.mem = AsClear(@), !.recoveryOnly = FALSE,
                             !.bound = TRUE]
  /\ pc' = "finish_rec"
  /\ UNCHANGED <<rec, sel, comps, phases, nat, closed, release, made, proc, alive, reg, open>>

\* Receipt, latest pointer and, last, the row of the recovery: only the row
\* makes the closure usable.
PublishRecovery ==
  /\ At("joined")
  /\ pub' = [pub EXCEPT ![Run] = FALSE]
  /\ closed' = [closed EXCEPT ![Run] = nat.counter]
  /\ pc' = "idle"
  /\ UNCHANGED <<rec, sel, comps, phases, nat, release, made, proc, alive, fence, reg, open>>

(***************************************************************************)
(* The process is killed.  What it was writing may be cut short.           *)
(***************************************************************************)
CutShort(f, writing) == {f} \cup (IF writing THEN {Torn} ELSE {})

Crash ==
  /\ alive
  /\ rec' \in CutShort(rec, pc \in RecordSteps)
  /\ nat' \in CutShort(nat, pc \in {"retire", "claim"})
  /\ \E cut \in {FALSE} \cup {pc \in CompanionSteps \cup StampSteps} :
       comps' = [comps EXCEPT ![Run].broken = @ \/ cut]
  /\ alive' = FALSE
  /\ pc' = "idle"
  /\ fence' = NoFence
  /\ reg' = EmptyRegistry
  /\ UNCHANGED <<sel, phases, closed, release, made, pub, proc, open>>

FenceNext ==
  \/ Acquire \/ WriteRecord \/ WriteCompanion \/ StampCompanion \/ Bind
  \/ BeforeRuntimeEffects \/ Claim \/ CloseWhole
  \/ BeforeNativeAbsenceRetirement \/ RetireNeverClaimed \/ Publish
  \/ \E r \in Runs : SelectRun(r)
  \/ PrepareRecovery \/ RetireCold \/ RetainDecision \/ PublishRecovery
  \/ Crash

FenceSpec == FenceInit /\ [][FenceNext]_fenceVars

-----------------------------------------------------------------------------
Steps == RecordSteps \cup CompanionSteps \cup StampSteps \cup
  {"idle", "claim", "absence", "publish", "retire", "active", "joined"}
Natives == Nat

\* Every durable file holds what its writer can have written, or is torn.
FenceTypeOK ==
  /\ rec \in Records \cup {Torn}
  /\ sel \in Runs
  /\ comps \in [Runs -> [owner : {0} \cup Procs, orig : Records, cur : Records, broken : BOOLEAN]]
  /\ phases \in [Runs -> SUBSET Records]
  /\ nat \in Counters \cup {Torn}
  /\ closed \in [Runs -> Natives] /\ release \in [Runs -> Natives]
  /\ made \in Runs
  /\ pub \in [Runs -> BOOLEAN]
  /\ proc \in Procs /\ alive \in BOOLEAN /\ pc \in Steps
  /\ fence \in [mem : Records, acq : Records, recoveryOnly : BOOLEAN, bound : BOOLEAN]
  /\ reg \in [cap : Natives, prior : {0} \cup Runs, owned : BOOLEAN]
  /\ open \in SUBSET Natives

\* A fence record that reads clear is a promise to the next process that no
\* executor of an earlier one left effects behind (afterVerifiedWholeProduct-
\* Cleanup, finishColdRecovery): no order of kills leaves it clear too early.
ClearMeansClosed == rec # Torn /\ rec.phase = "clear" => open = {}

\* A closure that a run publishes, or that a later run was made from, is the
\* closure of an executor whose effects ended (closedHandoff, latestWholeHandoff).
HandoffIsEarned == \A r \in Runs : closed[r] \notin open /\ release[r] \notin open

\* Native allocation happens once every earlier executor was closed or cold-
\* retired, across processes and runs (claim_inner, allocate).
OneExecutorAtATime == [][open' \ open # {} => open = {}]_fenceVars

\* Generations of the native counter are never reused (allocate keeps the
\* counter through a cold retirement).
CounterOnlyGrows ==
  [][nat # Torn /\ nat' # Torn => nat'.counter >= nat.counter]_fenceVars

\* An executor's effects end by its own process, or by a later one after the
\* process that owns the counter died (retire_cold_pending_local).
EndsByOwnerOrAfterDeath ==
  [][\A n \in open \ open' :
       nat.counter = n /\ IF fence.recoveryOnly THEN nat.owner # proc ELSE reg.cap = n]_fenceVars

\* While an executor's effects are unaccounted for and no file was cut short, a
\* process that finds the fence pending can prove the old owner dead and
\* recover: no number of kills, during a recovery too, loses the counter owner
\* (retainRecoveryPhase, sourceWitness).
Intact == rec # Torn /\ nat # Torn /\ \A r \in Runs : ~comps[r].broken

EffectsAreRecoverable ==
  At("idle") /\ open # {} /\ reg = EmptyRegistry /\ Intact => Recoverable
=============================================================================
