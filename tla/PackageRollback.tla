--------------------------- MODULE PackageRollback ---------------------------
(***************************************************************************)
(* Admission and commit of signed package updates,                         *)
(* crates/rusty-quest-package-updater/src/lib.rs.  verify_manifest admits  *)
(* a manifest against the caller's policy and anti-rollback state and      *)
(* changes nothing; commit_installed_apk later advances that state when    *)
(* the installed APK is the admitted one.  Between the two any number of   *)
(* other updates may be admitted, installed and committed, and time goes   *)
(* on.                                                                     *)
(*                                                                         *)
(* A tuple stands for channel, package, ring, signer, key and origin, the  *)
(* seven fields a checkpoint is filed under.  Canonical JSON, signatures   *)
(* and the syntax of names, digests and URLs are the field authentic.      *)
(***************************************************************************)
EXTENDS Naturals, FiniteSets

CONSTANTS
    Tuples,                       \* closed channel tuples
    Manifests,                    \* manifests that are in circulation
    MaximumValidity, MaximumSkew, \* PackageUpdatePolicy, in time units
    MinimumTarget, MaximumTarget, \* its bounds on version codes
    MaxClock                       \* bound: the clock

Nothing == [sequence |-> 0, version |-> 0, apk |-> "none"]

\* What is assumed of the constants: the types of the parsed fields.
RollbackAssumption ==
    /\ MaximumValidity \in Nat /\ MaximumSkew \in Nat /\ MaxClock \in Nat
    /\ MinimumTarget \in Nat /\ MaximumTarget \in Nat
    /\ \A m \in Manifests :
         /\ m.tuple \in Tuples /\ m.policy \in Tuples
         /\ m.sequence \in Nat /\ m.version \in Nat
         /\ m.issued \in Nat /\ m.expires \in Nat
         /\ m.authentic \in BOOLEAN

VARIABLES
    checkpoints,      \* PackageUpdateRollbackState, per tuple or Nothing
    verified,         \* the VerifiedPackageUpdate values callers hold
    installed,        \* per tuple, the version and APK on the device
    now,
    everInstalled     \* history: every version and APK the device has had

rollbackVars == <<checkpoints, verified, installed, now, everInstalled>>

RollbackInit ==
    /\ checkpoints = [t \in Tuples |-> Nothing]
    /\ verified = {}
    /\ installed \in [Tuples -> {[version |-> 0, apk |-> "none"]}]
    /\ now = 0
    /\ everInstalled = {}

-----------------------------------------------------------------------------
Tick ==
    /\ now < MaxClock
    /\ now' = now + 1
    /\ UNCHANGED <<checkpoints, verified, installed, everInstalled>>

Advances(m) ==
    LET prior == checkpoints[m.tuple]
    IN  prior # Nothing => m.sequence > prior.sequence /\ m.version > prior.version

(* validate_time *)
InTime(m) ==
    /\ m.issued < m.expires /\ m.expires - m.issued <= MaximumValidity
    /\ now < m.expires
    /\ m.issued <= now + MaximumSkew

(* validate_policy, for a policy that expects the tuple m.policy. *)
InPolicy(m) ==
    /\ m.tuple = m.policy
    /\ installed[m.tuple].version < m.version
    /\ m.version \in MinimumTarget..MaximumTarget

(* authenticate_parsed_envelope and validate_manifest_fields *)
Authentic(m) == m.authentic /\ m.sequence # 0 /\ m.version # 0

VerifyManifest(m) ==
    /\ Authentic(m) /\ InTime(m) /\ InPolicy(m) /\ Advances(m)
    /\ verified' = verified \cup {m}
    /\ UNCHANGED <<checkpoints, installed, now, everInstalled>>

Apk(m) == [version |-> m.version, apk |-> m.apk]

(* External: the platform installs an APK that some caller has admitted; it *)
(* refuses a downgrade.                                                     *)
Install(m) ==
    /\ m \in verified
    /\ m.version >= installed[m.tuple].version
    /\ installed' = [installed EXCEPT ![m.tuple] = Apk(m)]
    /\ everInstalled' = everInstalled \cup {<<m.tuple, Apk(m)>>}
    /\ UNCHANGED <<checkpoints, verified, now>>

(* validate_observed_apk *)
ObservedExact(m) == installed[m.tuple] = Apk(m)

CommitInstalledApk(m) ==
    /\ m \in verified
    /\ now < m.expires /\ ObservedExact(m) /\ Advances(m)
    /\ checkpoints' = [checkpoints EXCEPT ![m.tuple] =
                         [sequence |-> m.sequence, version |-> m.version, apk |-> m.apk]]
    /\ UNCHANGED <<verified, installed, now, everInstalled>>

RollbackNext ==
    \/ Tick
    \/ \E m \in Manifests : VerifyManifest(m) \/ Install(m) \/ CommitInstalledApk(m)

RollbackSpec == RollbackInit /\ [][RollbackNext]_rollbackVars

-----------------------------------------------------------------------------
Checkpoints == [sequence : Nat \ {0}, version : Nat \ {0}, apk : {m.apk : m \in Manifests}]

(* The types of the anti-rollback state and of what callers hold: a filed     *)
(* checkpoint has a positive sequence and version, as validate() demands.     *)
RollbackTypeOK ==
    /\ checkpoints \in [Tuples -> Checkpoints \cup {Nothing}]
    /\ verified \subseteq Manifests
    /\ DOMAIN installed = Tuples
    /\ now \in 0..MaxClock

(* commit_installed_apk checks the sequence against the state it is given,    *)
(* not against the one its manifest was admitted under: however late an       *)
(* admitted update is committed, the checkpoint of its tuple advances in both *)
(* sequence and version, and no other tuple's checkpoint moves.               *)
CheckpointsAdvance ==
    [][\A t \in Tuples :
          checkpoints'[t] # checkpoints[t] =>
              /\ checkpoints'[t].sequence > checkpoints[t].sequence
              /\ checkpoints'[t].version > checkpoints[t].version
              /\ \A u \in Tuples \ {t} : checkpoints'[u] = checkpoints[u]]_rollbackVars

(* A checkpoint is only ever filed for an APK that was on the device.         *)
CommittedWasInstalled ==
    \A t \in Tuples :
        checkpoints[t] # Nothing =>
            <<t, [version |-> checkpoints[t].version, apk |-> checkpoints[t].apk]>>
                \in everInstalled
=============================================================================
