--------------------------- MODULE MediaStreamProofs ---------------------------
(***************************************************************************)
(* Proofs about the product runtime, for any set of owners of any kinds,   *)
(* any identities and any number of deaths.                                *)
(*                                                                         *)
(* The inductive invariant says of one runtime state t, and the set L of   *)
(* owners in place, that t has the shape the handlers give it and that L   *)
(* lies between the owners t is sure of and those it is obliged to clean   *)
(* up (Sound).  It holds of the state in memory and of the snapshot in the *)
(* journal, which differ once a commit failed; a provider is only ever     *)
(* called while the two agree, and it only moves the owner that both name  *)
(* as uncertain.                                                           *)
(*                                                                         *)
(* The broker that drives the runtime keeps this invariant; what it        *)
(* replies, and whom it asks, follows from it and from where its loops are *)
(* (Serving).                                                              *)
(***************************************************************************)
EXTENDS BrokerMedia, TLAPS

\* The prover of every leaf that does not name another one.
USE ZenonT(30)

\* The owners a state is sure to have in place.
Firm(t) == Obliged(t) \ {t.uncertain, t.abortUncertain}
Cover(t, L) == Firm(t) \subseteq L /\ L \subseteq Obliged(t)

\* The session as a whole: not started, started, rolled back or stopped.
SessionShape(t) ==
    /\ t.applied \cap t.aborted = {}
    /\ t.activeStart # NoId =>
          /\ t.active = StartOrder /\ t.applied = {t.activeStart}
          /\ t.phase = "SourcesStarted" /\ t.completedAbort = NoAbort
    /\ t.activeStart = NoId =>
          /\ t.active = <<>> /\ t.phase # "SourcesStarted"
          /\ t.phase = "Planned" => t.applied = {}

\* The prepared action: how far it came, and how far its rollback came.
ActionShape(t) ==
    /\ t.pending = NoAction => t.receipts = <<>> /\ t.uncertain = NoOwner
    /\ t.pending # NoAction =>
          /\ t.pending.id \notin t.applied \cup t.aborted
          /\ PrefixOf(t.receipts, OwnerActions(t.pending))
          /\ t.uncertain # NoOwner =>
                NextIn(t.uncertain, t.receipts, OwnerActions(t.pending))
    /\ t.pending.op = "Stop" => t.activeStart # NoId \/ t.completedAbort # NoAbort
    /\ t.pending.op = "Start" =>
          t.activeStart = NoId /\ t.phase = "Planned" /\ t.completedAbort = NoAbort

AbortShape(t) ==
    /\ t.aborting => t.pending.op = "Start"
    /\ ~t.aborting => t.abortReceipts = <<>> /\ t.abortUncertain = NoOwner
    /\ PrefixOf(t.abortReceipts, PendingAbort(t))
    /\ t.abortUncertain # NoOwner =>
          NextIn(t.abortUncertain, t.abortReceipts, PendingAbort(t))

Shape(t) == t \in States /\ SessionShape(t) /\ ActionShape(t) /\ AbortShape(t)
Sound(t, L) == Shape(t) /\ Cover(t, L)

\* The call under way is about the owner the journal names as uncertain.
CallFits ==
    call # NoCall =>
        /\ up /\ ~poisoned /\ (journaled \/ ~cleanupOnly)
        /\ call.kind \in {"execute", "compensate"} =>
              /\ s.pending # NoAction /\ ~s.aborting /\ s.uncertain = call.owner
              /\ call.kind = "compensate" => s.pending.op = "Stop"
        /\ call.kind \in {"reverse", "reverse_uncertain"} =>
              s.aborting /\ s.abortUncertain = call.owner

PlainTypes ==
    /\ journaled \in BOOLEAN /\ poisoned \in BOOLEAN
    /\ cleanupOnly \in BOOLEAN /\ revalidated \in BOOLEAN
    /\ call \in Calls /\ up \in BOOLEAN /\ crashes \in 0..MaxCrashes
    /\ live \subseteq Owners /\ authority \in {"current", "ended", "revoked"}

Inv ==
    /\ PlainTypes
    /\ Sound(s, live)
    /\ disk # NoSnapshot => Sound(disk, live)
    /\ journaled /\ ~poisoned => disk = s
    /\ ~journaled /\ ~cleanupOnly /\ ~poisoned => disk = NoSnapshot
    /\ cleanupOnly => disk # NoSnapshot
    /\ CallFits
-----------------------------------------------------------------------------
(* Receipts and orders *)

LEMMA Orders ==
    /\ StartOrder \in Seq(Owners) /\ StopOrder \in Seq(Owners)
    /\ OwnersOf(StartOrder) = Owners /\ OwnersOf(StopOrder) = Owners
  <1>1. StartOrder \in Seq(Owners) /\ StopOrder \in Seq(Owners)
    BY StartOrderAssumption, StopOrderAssumption DEF Enumerates
  <1>2. ASSUME NEW order, Enumerates(order) PROVE OwnersOf(order) = Owners
    <2>1. OwnersOf(order) \subseteq Owners
      BY <1>2, SMTT(30) DEF Enumerates, OwnersOf
    <2>2. Owners \subseteq OwnersOf(order)
      BY <1>2 DEF Enumerates, OwnersOf
    <2> QED BY <2>1, <2>2
  <1> QED BY <1>1, <1>2, StartOrderAssumption, StopOrderAssumption

LEMMA Empty == <<>> \in Seq(Owners) /\ Len(<<>>) = 0 /\ OwnersOf(<<>>) = {}
  BY SMTT(30) DEF OwnersOf

LEMMA EmptyPrefix == ASSUME NEW order \in Seq(Owners) PROVE PrefixOf(<<>>, order)
  BY SMTT(30) DEF PrefixOf

LEMMA Recorded1 ==
    ASSUME NEW order \in Seq(Owners), NEW r \in Seq(Owners), NEW o \in Owners,
           PrefixOf(r, order), NextIn(o, r, order)
    PROVE  /\ Append(r, o) \in Seq(Owners) /\ PrefixOf(Append(r, o), order)
           /\ OwnersOf(Append(r, o)) = OwnersOf(r) \cup {o}
  <1>1. /\ Append(r, o) \in Seq(Owners) /\ Len(Append(r, o)) = Len(r) + 1 /\ Len(r) \in Nat
        /\ Append(r, o)[Len(r) + 1] = o
        /\ \A i \in 1..Len(r) : Append(r, o)[i] = r[i]
    BY SMTT(30)
  <1> DEFINE a == Append(r, o)
  <1> HIDE DEF a
  <1>2. PrefixOf(a, order)
    BY <1>1, SMTT(30) DEF PrefixOf, NextIn, a
  <1>3. OwnersOf(a) \subseteq OwnersOf(r) \cup {o}
    BY <1>1, SMTT(30) DEF OwnersOf, a
  <1>4. OwnersOf(r) \cup {o} \subseteq OwnersOf(a)
    <2>1. ASSUME NEW i \in 1..Len(r) PROVE r[i] \in OwnersOf(a)
      <3>1. i \in 1..Len(a) /\ a[i] = r[i]
        BY <1>1, SMTT(30) DEF a
      <3> QED BY <3>1 DEF OwnersOf
    <2>2. o \in OwnersOf(a)
      <3>1. Len(r) + 1 \in 1..Len(a) /\ a[Len(r) + 1] = o
        BY <1>1, SMTT(30) DEF a
      <3> QED BY <3>1 DEF OwnersOf
    <2> QED BY <2>1, <2>2 DEF OwnersOf
  <1> QED BY <1>1, <1>2, <1>3, <1>4 DEF a

LEMMA FullPrefix ==
    ASSUME NEW order \in Seq(Owners), NEW r \in Seq(Owners), PrefixOf(r, order),
           Len(r) = Len(order)
    PROVE  OwnersOf(r) = OwnersOf(order)
  BY DEF PrefixOf, OwnersOf

LEMMA PrefixOwners ==
    ASSUME NEW order \in Seq(Owners), NEW r \in Seq(Owners), PrefixOf(r, order)
    PROVE  OwnersOf(r) \subseteq OwnersOf(order)
  <1> SUFFICES ASSUME NEW i \in 1..Len(r) PROVE r[i] \in OwnersOf(order)
    BY DEF OwnersOf
  <1>1. i \in 1..Len(order) /\ r[i] = order[i]
    BY SMTT(30) DEF PrefixOf
  <1> QED BY <1>1 DEF OwnersOf

LEMMA NextIsIn ==
    ASSUME NEW order \in Seq(Owners), NEW r \in Seq(Owners), NEW o, NextIn(o, r, order)
    PROVE  o \in OwnersOf(order) /\ o \in Owners
  <1>1. Len(r) + 1 \in 1..Len(order)
    BY SMTT(30) DEF NextIn
  <1> QED BY <1>1, SMTT(30) DEF NextIn, OwnersOf

LEMMA ReversedFacts ==
    ASSUME NEW r \in Seq(Owners)
    PROVE  /\ Reversed(r) \in Seq(Owners) /\ Len(Reversed(r)) = Len(r)
           /\ \A i \in 1..Len(r) : Reversed(r)[i] = r[Len(r) + 1 - i]
           /\ OwnersOf(Reversed(r)) = OwnersOf(r)
  <1> DEFINE v == Reversed(r)
  <1>1. \A i \in 1..Len(r) : Len(r) + 1 - i \in 1..Len(r)
    BY SMTT(30)
  <1>2. v \in [1..Len(r) -> Owners]
    BY <1>1, SMTT(30) DEF Reversed
  <1>3. v \in Seq(Owners) /\ Len(v) = Len(r)
    BY <1>2, SMTT(30)
  <1>4. \A i \in 1..Len(r) : v[i] = r[Len(r) + 1 - i]
    BY DEF Reversed
  <1> HIDE DEF v
  <1>5. OwnersOf(v) \subseteq OwnersOf(r)
    BY <1>1, <1>3, <1>4 DEF OwnersOf
  <1>6. OwnersOf(r) \subseteq OwnersOf(v)
    <2> SUFFICES ASSUME NEW i \in 1..Len(r) PROVE r[i] \in OwnersOf(v)
      BY DEF OwnersOf
    <2>1. Len(r) + 1 - (Len(r) + 1 - i) = i
      BY SMTT(30)
    <2>2. v[Len(r) + 1 - i] = r[i]
      BY <1>1, <1>4, <2>1
    <2> QED BY <1>1, <1>3, <2>2 DEF OwnersOf
  <1> QED BY <1>3, <1>4, <1>5, <1>6 DEF v

LEMMA AbortOrderFacts ==
    ASSUME NEW r \in Seq(Owners), NEW u \in Owners \cup {NoOwner}
    PROVE  LET p == AbortOrder(r, u)
           IN  /\ p \in Seq(Owners)
               /\ OwnersOf(p) = OwnersOf(r) \cup ({u} \ {NoOwner})
               /\ u = NoOwner => p = Reversed(r)
               /\ u # NoOwner => /\ Len(p) = Len(r) + 1 /\ p[1] = u
                                 /\ \A i \in 1..Len(r) : p[i + 1] = Reversed(r)[i]
  <1> DEFINE v == Reversed(r)
             p == AbortOrder(r, u)
  <1>1. v \in Seq(Owners) /\ Len(v) = Len(r) /\ OwnersOf(v) = OwnersOf(r)
    BY ReversedFacts
  <1>2. CASE u = NoOwner
    <2>1. p = <<>> \o v
      BY <1>2 DEF AbortOrder
    <2> HIDE DEF v, p
    <2>2. p = v
      BY <1>1, <2>1, SMTT(30)
    <2>3. {u} \ {NoOwner} = {}
      BY <1>2
    <2> QED BY <1>1, <1>2, <2>2, <2>3 DEF v, p
  <1>3. CASE u # NoOwner
    <2>1. p = <<u>> \o v
      BY <1>3 DEF AbortOrder
    <2>2. u \in Owners /\ <<u>> \in Seq(Owners)
      BY <1>3, SMTT(30)
    <2> HIDE DEF v, p
    <2>3. /\ p \in Seq(Owners) /\ Len(p) = Len(v) + 1 /\ p[1] = u
          /\ \A i \in 1..Len(v) : p[i + 1] = v[i]
      BY <1>1, <2>1, <2>2, SMTT(30)
    <2>4. OwnersOf(p) \subseteq OwnersOf(v) \cup {u}
      <3> SUFFICES ASSUME NEW i \in 1..Len(p) PROVE p[i] \in OwnersOf(v) \cup {u}
        BY DEF OwnersOf
      <3>1. CASE i = 1
        BY <2>3, <3>1
      <3>2. CASE i # 1
        <4>1. i - 1 \in 1..Len(v) /\ (i - 1) + 1 = i
          BY <1>1, <2>3, <3>2, SMTT(30)
        <4>2. p[i] = v[i - 1]
          BY <2>3, <4>1
        <4> QED BY <4>1, <4>2 DEF OwnersOf
      <3> QED BY <3>1, <3>2
    <2>5. OwnersOf(v) \cup {u} \subseteq OwnersOf(p)
      <3>1. u \in OwnersOf(p)
        <4>1. 1 \in 1..Len(p)
          BY <1>1, <2>3, SMTT(30)
        <4> QED BY <2>3, <4>1 DEF OwnersOf
      <3>2. ASSUME NEW i \in 1..Len(v) PROVE v[i] \in OwnersOf(p)
        <4>1. i + 1 \in 1..Len(p) /\ p[i + 1] = v[i]
          BY <1>1, <2>3, SMTT(30)
        <4> QED BY <4>1 DEF OwnersOf
      <3> QED BY <3>1, <3>2 DEF OwnersOf
    <2> QED BY <1>1, <1>3, <2>3, <2>4, <2>5 DEF v, p
  <1> QED BY <1>2, <1>3
-----------------------------------------------------------------------------
(* What a handler makes of a sound state is sound *)

LEMMA Fields ==
    ASSUME NEW t \in States
    PROVE  /\ t.receipts \in Seq(Owners) /\ t.uncertain \in Owners \cup {NoOwner}
           /\ t.abortReceipts \in Seq(Owners) /\ t.abortUncertain \in Owners \cup {NoOwner}
           /\ PendingAbort(t) \in Seq(Owners)
           /\ OwnersOf(PendingAbort(t)) =
                 OwnersOf(t.receipts) \cup ({t.uncertain} \ {NoOwner})
           /\ OwnerActions(t.pending) \in Seq(Owners)
           /\ OwnersOf(OwnerActions(t.pending)) = Owners
  <1>1. /\ t.receipts \in Seq(Owners) /\ t.uncertain \in Owners \cup {NoOwner}
        /\ t.abortReceipts \in Seq(Owners) /\ t.abortUncertain \in Owners \cup {NoOwner}
    BY DEF States
  <1>2. /\ PendingAbort(t) \in Seq(Owners)
        /\ OwnersOf(PendingAbort(t)) = OwnersOf(t.receipts) \cup ({t.uncertain} \ {NoOwner})
    BY <1>1, AbortOrderFacts DEF PendingAbort
  <1> QED BY <1>1, <1>2, Orders DEF OwnerActions

\* A pending action has a real identity, so it is not NoAction.
LEMMA PendingFacts ==
    ASSUME NEW t \in States
    PROVE  /\ t.pending = NoAction <=> t.pending.op = "none"
           /\ t.pending # NoAction => t.pending.id \in Ids /\ t.pending.op \in {"Start", "Stop"}
           /\ t.pending.op \in {"none", "Start", "Stop"}
  BY NoneAssumption, SMTT(30) DEF States, Actions, NoAction

LEMMA NewSound == Sound(NewRuntime, {})
  <1> DEFINE t == NewRuntime
  <1>1. /\ t.phase = "Planned" /\ t.pending = NoAction /\ t.receipts = <<>>
        /\ t.uncertain = NoOwner /\ t.abortReceipts = <<>> /\ t.abortUncertain = NoOwner
        /\ t.aborting = FALSE /\ t.active = <<>> /\ t.activeStart = NoId /\ t.applied = {}
        /\ t.aborted = {} /\ t.completedAbort = NoAbort
    BY DEF NewRuntime
  <1>2. t \in States
    BY Empty DEF NewRuntime, States, Actions, Aborts
  <1> HIDE DEF t
  <1>3. t.pending.op = "none"
    BY <1>1, SMTT(30) DEF NoAction
  <1>4. PrefixOf(t.abortReceipts, PendingAbort(t))
    BY <1>1, <1>2, Fields, EmptyPrefix
  <1>5. Obliged(t) = {}
    BY <1>1, <1>3, Empty DEF Obliged
  <1> QED BY <1>1, <1>2, <1>3, <1>4, <1>5
       DEF t, Sound, Shape, SessionShape, ActionShape, AbortShape, Cover, Firm

\* Preparing a Start of a planned session or a Stop of one that has an active start
\* or a completed rollback.
LEMMA PrepareSound ==
    ASSUME NEW t, NEW u, NEW L, Sound(t, L), t.pending = NoAction, u \in States,
           NEW a \in Actions \ {NoAction}, a.id \notin t.applied \cup t.aborted,
           a.op = "Stop" => t.activeStart # NoId \/ t.completedAbort # NoAbort,
           a.op = "Start" => t.activeStart = NoId /\ t.phase = "Planned" /\
                             t.completedAbort = NoAbort,
           u.pending = a, u.receipts = <<>>, u.uncertain = NoOwner,
           u.abortReceipts = <<>>, u.abortUncertain = NoOwner, ~u.aborting,
           u.phase = t.phase, u.active = t.active, u.activeStart = t.activeStart,
           u.applied = t.applied, u.aborted = t.aborted,
           u.completedAbort = t.completedAbort
    PROVE  Sound(u, L)
  <1>1. t \in States /\ SessionShape(t) /\ ActionShape(t) /\ AbortShape(t)
    BY DEF Sound, Shape
  <1>2. t.pending.op = "none" /\ a.op \in {"Start", "Stop"}
    BY NoneAssumption, SMTT(30) DEF NoAction, Actions
  <1>3. /\ t.receipts = <<>> /\ t.uncertain = NoOwner /\ ~t.aborting
        /\ t.abortReceipts = <<>> /\ t.abortUncertain = NoOwner
    BY <1>1, <1>2 DEF ActionShape, AbortShape
  <1>4. PrefixOf(u.receipts, OwnerActions(u.pending)) /\ PrefixOf(u.abortReceipts, PendingAbort(u))
    BY EmptyPrefix, Fields
  <1>5. OwnersOf(t.active) \in SUBSET Owners /\ NoOwner \notin Owners
    BY <1>1, NoneAssumption, SMTT(30) DEF States, OwnersOf
  <1>6. Obliged(t) = OwnersOf(t.active)
    BY <1>2, <1>3, Empty DEF Obliged
  <1>7. L = OwnersOf(t.active)
    <2>1. NoOwner \notin OwnersOf(t.active)
      BY <1>5
    <2>2. Firm(t) = OwnersOf(t.active)
      BY <1>3, <1>6, <2>1 DEF Firm
    <2> QED BY <1>6, <2>2 DEF Sound, Cover
  <1>8. Obliged(u) = OwnersOf(t.active)
    <2>1. CASE a.op = "Stop"
      BY <2>1, Empty DEF Obliged
    <2>2. CASE a.op = "Start"
      <3>1. t.active = <<>>
        BY <1>1, <2>2 DEF SessionShape
      <3> QED BY <2>2, <3>1, Empty DEF Obliged
    <2> QED BY <1>2, <2>1, <2>2
  <1>9. Cover(u, L)
    BY <1>7, <1>8 DEF Cover, Firm
  <1>10. SessionShape(u)
    BY <1>1 DEF SessionShape
  <1>11. ActionShape(u) /\ AbortShape(u)
    BY <1>4 DEF ActionShape, AbortShape
  <1> QED BY <1>9, <1>10, <1>11 DEF Sound, Shape

\* complete_owner names the owner that is next.
LEMMA AttemptSound ==
    ASSUME NEW t, NEW L, Sound(t, L), t.pending # NoAction, ~t.aborting,
           t.uncertain = NoOwner, NEW o, NextIn(o, t.receipts, OwnerActions(t.pending))
    PROVE  Sound([t EXCEPT !.uncertain = o], L)
  <1> DEFINE u == [t EXCEPT !.uncertain = o]
  <1>1. t \in States /\ SessionShape(t) /\ ActionShape(t) /\ AbortShape(t)
    BY DEF Sound, Shape
  <1>2. o \in Owners
    BY <1>1, Fields, NextIsIn
  <1>3. /\ u.phase = t.phase /\ u.pending = t.pending /\ u.receipts = t.receipts
        /\ u.uncertain = o /\ u.abortReceipts = t.abortReceipts
        /\ u.abortUncertain = t.abortUncertain /\ u.aborting = t.aborting
        /\ u.active = t.active /\ u.activeStart = t.activeStart /\ u.applied = t.applied
        /\ u.aborted = t.aborted /\ u.completedAbort = t.completedAbort /\ u \in States
    BY <1>1, <1>2 DEF States
  <1> HIDE DEF u
  <1>4. SessionShape(u)
    BY <1>1, <1>3 DEF SessionShape
  <1>5. ActionShape(u)
    BY <1>1, <1>3 DEF ActionShape
  <1>6. AbortShape(u)
    <2>1. u.abortReceipts = <<>> /\ u.abortUncertain = NoOwner
      BY <1>1, <1>3 DEF AbortShape
    <2>2. PrefixOf(u.abortReceipts, PendingAbort(u))
      BY <1>3, <2>1, Fields, EmptyPrefix
    <2> QED BY <1>1, <1>3, <2>1, <2>2 DEF AbortShape
  <1>7. Cover(u, L)
    <2>1. NoOwner \notin Owners /\ OwnersOf(t.receipts) \in SUBSET Owners
      BY <1>1, NoneAssumption, SMTT(30) DEF States, OwnersOf
    <2>2. Obliged(t) \subseteq Obliged(u) /\ Obliged(u) \subseteq Obliged(t) \cup {o}
      BY <1>3 DEF Obliged
    <2>3. NoOwner \notin Obliged(u)
      <3>1. OwnersOf(t.active) \in SUBSET Owners
        BY <1>1, SMTT(30) DEF States, OwnersOf
      <3> QED BY <1>2, <1>3, <2>1, <3>1 DEF Obliged
    <2>4. t.abortUncertain = NoOwner
      BY <1>1 DEF AbortShape
    <2> QED BY <1>3, <2>2, <2>3, <2>4 DEF Sound, Cover, Firm
  <1> QED BY <1>3, <1>4, <1>5, <1>6, <1>7 DEF u, Sound, Shape

\* The read back of the uncertain owner is recorded: it runs after a Start, and
\* does not after a Stop.
LEMMA RecordSound ==
    ASSUME NEW t, NEW L, Sound(t, L), t.pending # NoAction, ~t.aborting,
           NEW o, o = t.uncertain, o # NoOwner,
           (o \in L) <=> (t.pending.op = "Start")
    PROVE  Sound([t EXCEPT !.receipts = Append(@, o), !.uncertain = NoOwner], L)
  <1> DEFINE u == [t EXCEPT !.receipts = Append(@, o), !.uncertain = NoOwner]
             order == OwnerActions(t.pending)
  <1>1. t \in States /\ SessionShape(t) /\ ActionShape(t) /\ AbortShape(t)
    BY DEF Sound, Shape
  <1>2. PrefixOf(t.receipts, order) /\ NextIn(o, t.receipts, order)
    BY <1>1 DEF ActionShape
  <1>3. t.receipts \in Seq(Owners) /\ order \in Seq(Owners)
    BY <1>1, Fields
  <1>4. o \in Owners
    BY <1>2, <1>3, NextIsIn
  <1>5. /\ Append(t.receipts, o) \in Seq(Owners)
        /\ PrefixOf(Append(t.receipts, o), order)
        /\ OwnersOf(Append(t.receipts, o)) = OwnersOf(t.receipts) \cup {o}
    BY <1>2, <1>3, <1>4, Recorded1, SMTT(30)
  <1>6. /\ u.phase = t.phase /\ u.pending = t.pending
        /\ u.receipts = Append(t.receipts, o)
        /\ u.uncertain = NoOwner /\ u.abortReceipts = t.abortReceipts
        /\ u.abortUncertain = t.abortUncertain /\ u.aborting = t.aborting
        /\ u.active = t.active /\ u.activeStart = t.activeStart /\ u.applied = t.applied
        /\ u.aborted = t.aborted /\ u.completedAbort = t.completedAbort /\ u \in States
    BY <1>1, <1>5 DEF States
  <1> HIDE DEF u
  <1>7. SessionShape(u)
    BY <1>1, <1>6 DEF SessionShape
  <1>8. ActionShape(u)
    BY <1>1, <1>5, <1>6 DEF ActionShape
  <1>9. t.abortReceipts = <<>> /\ t.abortUncertain = NoOwner
    BY <1>1 DEF AbortShape
  <1>10. AbortShape(u)
    <2>1. PrefixOf(u.abortReceipts, PendingAbort(u))
      BY <1>6, <1>9, Fields, EmptyPrefix
    <2> QED BY <1>1, <1>6, <1>9, <2>1 DEF AbortShape
  <1>11. Cover(u, L)
    <2>1. NoOwner \notin Owners /\ OwnersOf(t.receipts) \in SUBSET Owners
      BY <1>1, NoneAssumption, SMTT(30) DEF States, OwnersOf
    <2>2. CASE t.pending.op = "Start"
      <3>1. Obliged(t) = OwnersOf(t.receipts) \cup {o} /\ Obliged(u) = Obliged(t)
        BY <1>5, <1>6, <1>9, <2>2, Empty DEF Obliged
      <3> QED BY <1>6, <2>2, <3>1 DEF Sound, Cover, Firm
    <2>3. CASE t.pending.op # "Start"
      <3>1. Obliged(u) = Obliged(t) \ {o}
        BY <1>5, <1>6, <2>3 DEF Obliged
      <3> QED BY <1>6, <2>3, <3>1 DEF Sound, Cover, Firm
    <2> QED BY <2>2, <2>3
  <1> QED BY <1>6, <1>7, <1>8, <1>10, <1>11 DEF u, Sound, Shape
\* complete_next_abort_owner names the owner it reverses next.
LEMMA AbortAttemptSound ==
    ASSUME NEW t, NEW L, Sound(t, L), t.aborting,
           NEW o, NextIn(o, t.abortReceipts, PendingAbort(t))
    PROVE  Sound([t EXCEPT !.abortUncertain = o], L)
  <1> DEFINE u == [t EXCEPT !.abortUncertain = o]
  <1>1. t \in States /\ SessionShape(t) /\ ActionShape(t) /\ AbortShape(t)
    BY DEF Sound, Shape
  <1>2. o \in Owners
    BY <1>1, Fields, NextIsIn
  <1>3. /\ u.phase = t.phase /\ u.pending = t.pending /\ u.receipts = t.receipts
        /\ u.uncertain = t.uncertain /\ u.abortReceipts = t.abortReceipts
        /\ u.abortUncertain = o /\ u.aborting = t.aborting
        /\ u.active = t.active /\ u.activeStart = t.activeStart /\ u.applied = t.applied
        /\ u.aborted = t.aborted /\ u.completedAbort = t.completedAbort /\ u \in States
    BY <1>1, <1>2 DEF States
  <1>4. PendingAbort(u) = PendingAbort(t)
    BY <1>3 DEF PendingAbort
  <1> HIDE DEF u
  <1>5. SessionShape(u) /\ ActionShape(u)
    BY <1>1, <1>3 DEF SessionShape, ActionShape
  <1>6. AbortShape(u)
    BY <1>1, <1>3, <1>4 DEF AbortShape
  <1>7. Cover(u, L)
    <2>1. Obliged(u) = Obliged(t)
      BY <1>3 DEF Obliged
    <2>2. t.abortUncertain = NoOwner \/ t.abortUncertain = o
      BY <1>1 DEF AbortShape, NextIn
    <2>3. NoOwner \notin Obliged(t)
      <3>1. OwnersOf(t.receipts) \in SUBSET Owners /\ t.pending.op = "Start"
        BY <1>1, SMTT(30) DEF States, OwnersOf, AbortShape
      <3> QED BY <3>1, NoneAssumption DEF Obliged
    <2> QED BY <1>3, <2>1, <2>2, <2>3 DEF Sound, Cover, Firm
  <1> QED BY <1>3, <1>5, <1>6, <1>7 DEF u, Sound, Shape

\* The owner under reversal was read back as gone.
LEMMA RecordAbortSound ==
    ASSUME NEW t, NEW L, Sound(t, L), t.aborting,
           NEW o, o = t.abortUncertain, o # NoOwner, o \notin L
    PROVE  Sound([t EXCEPT !.abortReceipts = Append(@, o), !.abortUncertain = NoOwner], L)
  <1> DEFINE u == [t EXCEPT !.abortReceipts = Append(@, o), !.abortUncertain = NoOwner]
             order == PendingAbort(t)
  <1>1. t \in States /\ SessionShape(t) /\ ActionShape(t) /\ AbortShape(t)
    BY DEF Sound, Shape
  <1>2. PrefixOf(t.abortReceipts, order) /\ NextIn(o, t.abortReceipts, order)
    BY <1>1 DEF AbortShape
  <1>3. t.abortReceipts \in Seq(Owners) /\ order \in Seq(Owners)
    BY <1>1, Fields
  <1>4. o \in Owners
    BY <1>2, <1>3, NextIsIn
  <1>5. /\ Append(t.abortReceipts, o) \in Seq(Owners)
        /\ PrefixOf(Append(t.abortReceipts, o), order)
        /\ OwnersOf(Append(t.abortReceipts, o)) = OwnersOf(t.abortReceipts) \cup {o}
    BY <1>2, <1>3, <1>4, Recorded1
  <1>6. /\ u.phase = t.phase /\ u.pending = t.pending /\ u.receipts = t.receipts
        /\ u.uncertain = t.uncertain
        /\ u.abortReceipts = Append(t.abortReceipts, o)
        /\ u.abortUncertain = NoOwner /\ u.aborting = t.aborting
        /\ u.active = t.active /\ u.activeStart = t.activeStart /\ u.applied = t.applied
        /\ u.aborted = t.aborted /\ u.completedAbort = t.completedAbort /\ u \in States
    BY <1>1, <1>5 DEF States
  <1>7. PendingAbort(u) = order
    BY <1>6 DEF PendingAbort
  <1> HIDE DEF u
  <1>8. SessionShape(u) /\ ActionShape(u)
    BY <1>1, <1>6 DEF SessionShape, ActionShape
  <1>9. AbortShape(u)
    BY <1>1, <1>5, <1>6, <1>7 DEF AbortShape
  <1>10. Cover(u, L)
    <2>1. t.pending.op = "Start"
      BY <1>1 DEF AbortShape
    <2>2. Obliged(u) = Obliged(t) \ {o}
      BY <1>5, <1>6, <2>1 DEF Obliged
    <2> QED BY <1>6, <2>2 DEF Sound, Cover, Firm
  <1> QED BY <1>6, <1>8, <1>9, <1>10 DEF u, Sound, Shape

\* begin_partial_start_abort, and the restoration of a prepared Start.
LEMMA AbortingSound ==
    ASSUME NEW t, NEW u, NEW L, Sound(t, L), u \in States, t.pending.op = "Start", u.aborting,
           u.phase = t.phase, u.pending = t.pending, u.receipts = t.receipts,
           u.uncertain = t.uncertain, u.abortReceipts = t.abortReceipts,
           u.abortUncertain = t.abortUncertain, u.active = t.active,
           u.activeStart = t.activeStart, u.applied = t.applied, u.aborted = t.aborted,
           u.completedAbort = t.completedAbort
    PROVE  Sound(u, L)
  <1>1. t \in States /\ SessionShape(t) /\ ActionShape(t) /\ AbortShape(t)
    BY DEF Sound, Shape
  <1>2. PendingAbort(u) = PendingAbort(t) /\ Obliged(u) = Obliged(t)
    BY DEF PendingAbort, Obliged
  <1>3. SessionShape(u) /\ ActionShape(u)
    BY <1>1 DEF SessionShape, ActionShape
  <1>4. AbortShape(u)
    BY <1>1, <1>2 DEF AbortShape
  <1>5. Cover(u, L)
    BY <1>2 DEF Sound, Cover, Firm
  <1> QED BY <1>3, <1>4, <1>5 DEF Sound, Shape

\* A complete rollback leaves nothing in place.
LEMMA FinishedAbortIsEmpty ==
    ASSUME NEW t, NEW L, Sound(t, L), t.aborting,
           Len(t.abortReceipts) = Len(PendingAbort(t))
    PROVE  L = {} /\ Obliged(t) = {}
  <1>1. t \in States /\ AbortShape(t)
    BY DEF Sound, Shape
  <1>2. OwnersOf(t.abortReceipts) = OwnersOf(t.receipts) \cup ({t.uncertain} \ {NoOwner})
    BY <1>1, Fields, FullPrefix DEF AbortShape
  <1>3. Obliged(t) = {}
    BY <1>1, <1>2 DEF Obliged, AbortShape
  <1> QED BY <1>3 DEF Sound, Cover

LEMMA FinalizeSound ==
    ASSUME NEW t, NEW u, NEW L, Sound(t, L), u \in States, t.aborting,
           Len(t.abortReceipts) = Len(PendingAbort(t)),
           u.pending = NoAction, u.receipts = <<>>, u.uncertain = NoOwner,
           u.abortReceipts = <<>>, u.abortUncertain = NoOwner, ~u.aborting,
           u.phase = t.phase, u.active = t.active, u.activeStart = t.activeStart,
           u.applied = t.applied, u.aborted = t.aborted \cup {t.pending.id}
    PROVE  Sound(u, L)
  <1>1. t \in States /\ SessionShape(t) /\ ActionShape(t) /\ AbortShape(t)
    BY DEF Sound, Shape
  <1>2. /\ t.pending.op = "Start" /\ t.pending # NoAction /\ t.activeStart = NoId
        /\ t.active = <<>>
    BY <1>1, PendingFacts DEF AbortShape, ActionShape, SessionShape
  <1>3. L = {}
    BY FinishedAbortIsEmpty
  <1>4. u.pending.op = "none"
    BY SMTT(30) DEF NoAction
  <1>5. SessionShape(u)
    BY <1>1, <1>2 DEF SessionShape, ActionShape
  <1>6. PrefixOf(u.abortReceipts, PendingAbort(u))
    BY Fields, EmptyPrefix
  <1>7. ActionShape(u) /\ AbortShape(u)
    BY <1>4, <1>6 DEF ActionShape, AbortShape
  <1>8. Obliged(u) = {}
    BY <1>2, <1>4, Empty DEF Obliged
  <1> QED BY <1>3, <1>5, <1>7, <1>8 DEF Sound, Shape, Cover, Firm

\* With every owner recorded, a Start has all owners in place and a Stop none.
LEMMA CompleteActionIsTotal ==
    ASSUME NEW t, NEW L, Sound(t, L), t.pending # NoAction, ~t.aborting,
           t.receipts = OwnerActions(t.pending)
    PROVE  /\ t.uncertain = NoOwner
           /\ t.pending.op = "Start" => L = Owners
           /\ t.pending.op = "Stop" => L = {}
  <1>1. t \in States /\ SessionShape(t) /\ ActionShape(t) /\ AbortShape(t)
    BY DEF Sound, Shape
  <1>2. t.uncertain = NoOwner
    BY <1>1, Fields, SMTT(30) DEF ActionShape, NextIn
  <1>3. OwnersOf(t.receipts) = Owners /\ t.abortReceipts = <<>> /\ t.abortUncertain = NoOwner
    BY <1>1, Fields DEF AbortShape
  <1>4. CASE t.pending.op = "Start"
    <2>1. Obliged(t) = Owners
      BY <1>2, <1>3, <1>4, Empty DEF Obliged
    <2> QED BY <1>2, <1>3, <1>4, <2>1, NoneAssumption DEF Sound, Cover, Firm
  <1>5. CASE t.pending.op = "Stop"
    <2>1. OwnersOf(t.active) \in SUBSET Owners
      BY <1>1, SMTT(30) DEF States, OwnersOf
    <2>2. Obliged(t) = {}
      BY <1>3, <1>5, <2>1 DEF Obliged
    <2> QED BY <1>2, <1>5, <2>2 DEF Sound, Cover
  <1> QED BY <1>1, <1>2, <1>4, <1>5, PendingFacts

LEMMA ApplySound ==
    ASSUME NEW t, NEW u, NEW L, Sound(t, L), u \in States, t.pending # NoAction, ~t.aborting,
           t.receipts = OwnerActions(t.pending),
           u.pending = NoAction, u.receipts = <<>>, u.uncertain = t.uncertain,
           u.abortReceipts = t.abortReceipts, u.abortUncertain = t.abortUncertain,
           u.aborting = t.aborting, u.aborted = t.aborted,
           u.completedAbort = t.completedAbort,
           u.applied = t.applied \cup {t.pending.id},
           t.pending.op = "Start" => /\ u.phase = "SourcesStarted" /\ u.active = t.receipts
                                     /\ u.activeStart = t.pending.id,
           t.pending.op = "Stop" => /\ u.phase = "Stopped" /\ u.active = <<>>
                                    /\ u.activeStart = NoId
    PROVE  Sound(u, L)
  <1>1. t \in States /\ SessionShape(t) /\ ActionShape(t) /\ AbortShape(t)
    BY DEF Sound, Shape
  <1>2. u.pending.op = "none" /\ t.pending.id \in Ids /\ t.pending.op \in {"Start", "Stop"}
    BY <1>1, PendingFacts DEF NoAction
  <1>3. /\ t.uncertain = NoOwner
        /\ t.pending.op = "Start" => L = Owners
        /\ t.pending.op = "Stop" => L = {}
    BY CompleteActionIsTotal
  <1>4. SessionShape(u)
    <2>1. u.applied \cap u.aborted = {}
      BY <1>1 DEF SessionShape, ActionShape
    <2>2. CASE t.pending.op = "Start"
      <3>1. /\ t.activeStart = NoId /\ t.applied = {} /\ t.completedAbort = NoAbort
            /\ t.receipts = StartOrder
        BY <1>1, <2>2 DEF SessionShape, ActionShape, OwnerActions
      <3> QED BY <1>2, <2>1, <2>2, <3>1, NoneAssumption DEF SessionShape
    <2>3. CASE t.pending.op = "Stop"
      BY <2>1, <2>3 DEF SessionShape
    <2> QED BY <1>2, <2>2, <2>3
  <1>5. t.abortReceipts = <<>> /\ t.abortUncertain = NoOwner
    BY <1>1 DEF AbortShape
  <1>6. PrefixOf(u.abortReceipts, PendingAbort(u))
    BY <1>5, Fields, EmptyPrefix
  <1>7. ActionShape(u) /\ AbortShape(u)
    BY <1>2, <1>3, <1>5, <1>6 DEF ActionShape, AbortShape
  <1>8. Cover(u, L)
    <2>1. Obliged(u) = OwnersOf(u.active)
      BY <1>2, Empty DEF Obliged
    <2>2. CASE t.pending.op = "Start"
      <3>1. u.active = StartOrder
        BY <2>2 DEF OwnerActions
      <3> QED BY <1>3, <2>1, <2>2, <3>1, Orders DEF Cover, Firm
    <2>3. CASE t.pending.op = "Stop"
      BY <1>3, <2>1, <2>3, Empty DEF Cover, Firm
    <2> QED BY <1>2, <2>2, <2>3
  <1> QED BY <1>4, <1>7, <1>8 DEF Sound, Shape
-----------------------------------------------------------------------------
(* The handlers *)

\* The part of the invariant that relates memory, journal and platform.
JournalInv ==
    /\ Sound(s, live)
    /\ disk # NoSnapshot => Sound(disk, live)
    /\ journaled /\ ~poisoned => disk = s
    /\ ~journaled /\ ~cleanupOnly /\ ~poisoned => disk = NoSnapshot
    /\ cleanupOnly => disk # NoSnapshot

LEMMA StatesAreSnapshots == ASSUME NEW t \in States PROVE t # NoSnapshot
  <1>1. t.phase # "none"
    BY DEF States
  <1>2. NoSnapshot.phase = "none"
    BY DEF NoSnapshot
  <1> QED BY <1>1, <1>2

LEMMA CommitInv ==
    ASSUME Inv, NEW ok \in BOOLEAN, NEW t, Sound(t, live), Commit(t, ok),
           live' = live, journaled' = journaled, cleanupOnly' = cleanupOnly
    PROVE  /\ JournalInv' /\ poisoned' \in BOOLEAN
           /\ s' = t /\ (ok => ~poisoned' /\ (journaled' \/ ~cleanupOnly'))
  <1>1. t # NoSnapshot
    BY StatesAreSnapshots DEF Sound, Shape
  <1>2. s' = t
    BY DEF Commit
  <1>3. CASE poisoned \/ (~journaled /\ cleanupOnly)
    BY <1>2, <1>3 DEF Commit, JournalInv, Inv, PlainTypes
  <1>4. CASE ~poisoned /\ ~journaled /\ ~cleanupOnly
    BY <1>2, <1>4 DEF Commit, JournalInv, Inv, PlainTypes
  <1>5. CASE ~poisoned /\ journaled
    <2>1. disk' \in {disk, t} /\ (ok => disk' = t) /\ poisoned' = ~ok
      BY <1>5 DEF Commit
    <2> QED BY <1>1, <1>2, <1>5, <2>1 DEF JournalInv, Inv
  <1> QED BY <1>3, <1>4, <1>5 DEF Inv, PlainTypes

\* A handler that calls no provider.
LEMMA PlainHandlerInv ==
    ASSUME Inv, NEW ok \in BOOLEAN, NEW t, Sound(t, live), Commit(t, ok), Ready,
           UNCHANGED <<journaled, cleanupOnly, revalidated, call, up, crashes, live, authority>>
    PROVE  Inv'
  <1>1. JournalInv' /\ poisoned' \in BOOLEAN
    BY CommitInv
  <1>2. PlainTypes'
    BY <1>1 DEF Inv, PlainTypes
  <1>3. CallFits'
    BY DEF Ready, CallFits
  <1> QED BY <1>1, <1>2, <1>3 DEF Inv, JournalInv

LEMMA InstallJournalInv == ASSUME Inv, NEW ok \in BOOLEAN, InstallJournal(ok) PROVE Inv'
  <1>1. disk' \in {disk, s} /\ (ok => disk' = s) /\ journaled' = ok /\ poisoned' = ~ok
    BY DEF InstallJournal
  <1>2. s # NoSnapshot
    BY StatesAreSnapshots DEF Inv, Sound, Shape
  <1>3. UNCHANGED <<s, cleanupOnly, revalidated, call, up, crashes, live, authority>> /\ call = NoCall
    BY DEF InstallJournal, Ready
  <1>4. PlainTypes'
    BY <1>1, <1>3 DEF Inv, PlainTypes
  <1>5. CallFits'
    BY <1>3 DEF CallFits
  <1> QED BY <1>1, <1>2, <1>3, <1>4, <1>5 DEF Inv

LEMMA PreparedFields ==
    ASSUME s \in States, NEW op \in {"Start", "Stop"}, NEW id \in Ids
    PROVE  LET u == Prepared(op, id)
               a == [op |-> op, id |-> id, trusted |-> FALSE]
           IN  /\ a \in Actions \ {NoAction} /\ u \in States
               /\ u.pending = a /\ u.receipts = <<>> /\ u.uncertain = NoOwner
               /\ u.abortReceipts = <<>> /\ u.abortUncertain = NoOwner /\ u.aborting = FALSE
               /\ u.phase = s.phase /\ u.active = s.active /\ u.activeStart = s.activeStart
               /\ u.applied = s.applied /\ u.aborted = s.aborted
               /\ u.completedAbort = s.completedAbort
  <1> DEFINE a == [op |-> op, id |-> id, trusted |-> FALSE]
  <1>1. a \in Actions /\ a # NoAction
    BY NoneAssumption DEF Actions, NoAction
  <1> HIDE DEF a
  <1>2. Prepared(op, id) = [s EXCEPT !.pending = a, !.receipts = <<>>, !.uncertain = NoOwner,
                               !.abortReceipts = <<>>, !.abortUncertain = NoOwner,
                               !.aborting = FALSE]
    BY DEF Prepared, a
  <1>3. Prepared(op, id) \in States
    BY <1>1, <1>2, Empty DEF States
  <1> QED BY <1>1, <1>2, <1>3 DEF States, a

LEMMA ReviewedIsSound ==
    ASSUME Inv, NEW op \in {"Start", "Stop"}, NEW id \in Ids, ReviewPrepare(op, id)
    PROVE  Sound(Prepared(op, id), live)
  <1> DEFINE u == Prepared(op, id)
             a == [op |-> op, id |-> id, trusted |-> FALSE]
  <1>1. Sound(s, live) /\ s \in States /\ SessionShape(s)
    BY DEF Inv, Sound, Shape
  <1>2. a.op = op /\ a.id = id
    OBVIOUS
  <1>3. /\ s.pending = NoAction /\ id \notin s.applied \cup s.aborted
        /\ op = "Stop" => s.activeStart # NoId
        /\ op = "Start" => s.phase = "Planned" /\ s.completedAbort = NoAbort
    BY DEF ReviewPrepare
  <1>4. op = "Start" => s.activeStart = NoId
    BY <1>1, <1>3 DEF SessionShape
  <1>5. /\ a \in Actions \ {NoAction} /\ u \in States
        /\ u.pending = a /\ u.receipts = <<>> /\ u.uncertain = NoOwner
        /\ u.abortReceipts = <<>> /\ u.abortUncertain = NoOwner /\ u.aborting = FALSE
        /\ u.phase = s.phase /\ u.active = s.active /\ u.activeStart = s.activeStart
        /\ u.applied = s.applied /\ u.aborted = s.aborted
        /\ u.completedAbort = s.completedAbort
    BY <1>1, PreparedFields
  <1> HIDE DEF u, a
  <1> QED BY <1>1, <1>2, <1>3, <1>4, <1>5, PrepareSound DEF u

LEMMA PrepareInv ==
    ASSUME Inv, NEW op \in {"Start", "Stop"}, NEW id \in Ids, NEW ok \in BOOLEAN,
           Prepare(op, id, ok)
    PROVE  Inv'
  <1>1. Sound(Prepared(op, id), live)
    BY ReviewedIsSound DEF Prepare
  <1> QED BY <1>1, PlainHandlerInv DEF Prepare

LEMMA PrepareWithLiveAuthorityInv ==
    ASSUME Inv, NEW op \in {"Start", "Stop"}, NEW id \in Ids, PrepareWithLiveAuthority(op, id)
    PROVE  Inv'
  <1>1. Sound(Prepared(op, id), live)
    BY ReviewedIsSound DEF PrepareWithLiveAuthority
  <1>2. Prepared(op, id) # NoSnapshot
    BY <1>1, StatesAreSnapshots DEF Sound, Shape
  <1>3. disk' \in {disk, Prepared(op, id)} /\ poisoned' = TRUE /\ call = NoCall
    BY DEF PrepareWithLiveAuthority, Ready
  <1>4. UNCHANGED <<s, journaled, cleanupOnly, revalidated, call, up, crashes, live, authority>>
    BY DEF PrepareWithLiveAuthority
  <1>5. PlainTypes' /\ CallFits'
    BY <1>3, <1>4 DEF Inv, PlainTypes, CallFits
  <1> QED BY <1>1, <1>2, <1>3, <1>4, <1>5 DEF Inv

LEMMA TrustedCleanupInv ==
    ASSUME Inv, NEW id \in Ids, NEW ok \in BOOLEAN, PrepareTrustedRevokerCleanup(id, ok)
    PROVE  Inv'
  <1> DEFINE a == [op |-> "Stop", id |-> id, trusted |-> TRUE]
             u == [s EXCEPT !.pending = a, !.receipts = <<>>, !.uncertain = NoOwner]
  <1>1. Sound(s, live) /\ s \in States /\ AbortShape(s)
    BY DEF Inv, Sound, Shape
  <1>2. a \in Actions /\ a # NoAction /\ a.op = "Stop" /\ a.id = id
    BY NoneAssumption DEF Actions, NoAction
  <1>3. /\ s.pending = NoAction /\ id \notin s.applied \cup s.aborted
        /\ s.activeStart # NoId \/ s.completedAbort # NoAbort
    BY DEF PrepareTrustedRevokerCleanup
  <1>4. ~s.aborting /\ s.abortReceipts = <<>> /\ s.abortUncertain = NoOwner
    BY <1>1, <1>3, SMTT(30) DEF AbortShape, NoAction
  <1> HIDE DEF a
  <1>5. /\ u \in States
        /\ u.pending = a /\ u.receipts = <<>> /\ u.uncertain = NoOwner
        /\ u.abortReceipts = s.abortReceipts /\ u.abortUncertain = s.abortUncertain
        /\ u.aborting = s.aborting
        /\ u.phase = s.phase /\ u.active = s.active /\ u.activeStart = s.activeStart
        /\ u.applied = s.applied /\ u.aborted = s.aborted
        /\ u.completedAbort = s.completedAbort
    BY <1>1, <1>2, Empty DEF States
  <1>6. Commit(u, ok)
    BY DEF PrepareTrustedRevokerCleanup, a
  <1> HIDE DEF u
  <1>7. Sound(u, live)
    BY <1>1, <1>2, <1>3, <1>4, <1>5, PrepareSound
  <1> QED BY <1>6, <1>7, PlainHandlerInv DEF PrepareTrustedRevokerCleanup

LEMMA AdoptRenewalInv == ASSUME Inv, NEW ok \in BOOLEAN, AdoptRenewal(ok) PROVE Inv'
  <1>1. Sound(s, live)
    BY DEF Inv
  <1> QED BY <1>1, PlainHandlerInv DEF AdoptRenewal

LEMMA BeginAbortInv ==
    ASSUME Inv, NEW ok \in BOOLEAN, BeginPartialStartAbort(ok) PROVE Inv'
  <1> DEFINE u == [s EXCEPT !.aborting = TRUE, !.abortReceipts = <<>>,
                            !.abortUncertain = NoOwner]
  <1>1. Sound(s, live) /\ s \in States /\ AbortShape(s)
    BY DEF Inv, Sound, Shape
  <1>2. s.pending.op = "Start" /\ s.abortReceipts = <<>> /\ s.abortUncertain = NoOwner
    BY <1>1 DEF BeginPartialStartAbort, AbortShape
  <1>3. /\ u \in States /\ u.aborting
        /\ u.phase = s.phase /\ u.pending = s.pending /\ u.receipts = s.receipts
        /\ u.uncertain = s.uncertain /\ u.abortReceipts = s.abortReceipts
        /\ u.abortUncertain = s.abortUncertain /\ u.active = s.active
        /\ u.activeStart = s.activeStart /\ u.applied = s.applied /\ u.aborted = s.aborted
        /\ u.completedAbort = s.completedAbort
    BY <1>1, <1>2, Empty DEF States
  <1>4. Commit(u, ok)
    BY DEF BeginPartialStartAbort
  <1> HIDE DEF u
  <1>5. Sound(u, live)
    BY <1>1, <1>2, <1>3, AbortingSound
  <1> QED BY <1>4, <1>5, PlainHandlerInv DEF BeginPartialStartAbort
LEMMA FinalizeInv ==
    ASSUME Inv, NEW ok \in BOOLEAN, FinalizePartialStartAbort(ok) PROVE Inv'
  <1> DEFINE record == [id |-> s.pending.id, started |-> s.receipts,
                        uncertain |-> s.uncertain, rollback |-> s.abortReceipts]
             u == [s EXCEPT
                     !.completedAbort = record, !.aborted = @ \cup {s.pending.id},
                     !.pending = NoAction, !.receipts = <<>>, !.uncertain = NoOwner,
                     !.abortReceipts = <<>>, !.abortUncertain = NoOwner, !.aborting = FALSE]
  <1>1. Sound(s, live) /\ s \in States /\ AbortShape(s)
    BY DEF Inv, Sound, Shape
  <1>2. s.aborting /\ Len(s.abortReceipts) = Len(PendingAbort(s))
    BY DEF FinalizePartialStartAbort, AbortFinished
  <1>3. s.pending.id \in Ids
    BY <1>1, <1>2, PendingFacts DEF AbortShape
  <1>4. record \in Aborts
    BY <1>1, <1>3, Fields DEF Aborts
  <1>5. Commit(u, ok)
    BY DEF FinalizePartialStartAbort
  <1> HIDE DEF record
  <1>6. /\ u \in States
        /\ u.pending = NoAction /\ u.receipts = <<>> /\ u.uncertain = NoOwner
        /\ u.abortReceipts = <<>> /\ u.abortUncertain = NoOwner /\ ~u.aborting
        /\ u.phase = s.phase /\ u.active = s.active /\ u.activeStart = s.activeStart
        /\ u.applied = s.applied /\ u.aborted = s.aborted \cup {s.pending.id}
    <2>1. s.aborted \cup {s.pending.id} \in SUBSET Ids /\ NoAction \in Actions
      BY <1>1, <1>3 DEF States, Actions
    <2> QED BY <1>1, <1>4, <2>1, Empty DEF States
  <1> HIDE DEF u
  <1>7. Sound(u, live)
    BY <1>1, <1>2, <1>6, FinalizeSound
  <1> QED BY <1>5, <1>7, PlainHandlerInv DEF FinalizePartialStartAbort

LEMMA ApplyInv ==
    ASSUME Inv, NEW ok \in BOOLEAN, ApplyRecordedOwnerCompletions(ok) PROVE Inv'
  <1> DEFINE start == s.pending.op = "Start"
             u == [s EXCEPT
                     !.phase = IF start THEN "SourcesStarted" ELSE "Stopped",
                     !.applied = @ \cup {s.pending.id},
                     !.activeStart = IF start THEN s.pending.id ELSE NoId,
                     !.active = IF start THEN s.receipts ELSE <<>>,
                     !.pending = NoAction, !.receipts = <<>>]
  <1>1. Sound(s, live) /\ s \in States
    BY DEF Inv, Sound, Shape
  <1>2. s.pending # NoAction /\ ~s.aborting /\ s.receipts = OwnerActions(s.pending)
    BY DEF ApplyRecordedOwnerCompletions, ValidCompletions, OwnerActions
  <1>3. s.pending.id \in Ids /\ s.pending.op \in {"Start", "Stop"}
    BY <1>1, <1>2, PendingFacts
  <1>4. Commit(u, ok)
    BY DEF ApplyRecordedOwnerCompletions
  <1>5. /\ u \in States
        /\ u.pending = NoAction /\ u.receipts = <<>> /\ u.uncertain = s.uncertain
        /\ u.abortReceipts = s.abortReceipts /\ u.abortUncertain = s.abortUncertain
        /\ u.aborting = s.aborting /\ u.aborted = s.aborted
        /\ u.completedAbort = s.completedAbort
        /\ u.applied = s.applied \cup {s.pending.id}
        /\ u.phase = IF start THEN "SourcesStarted" ELSE "Stopped"
        /\ u.active = IF start THEN s.receipts ELSE <<>>
        /\ u.activeStart = IF start THEN s.pending.id ELSE NoId
    <2>1. s.applied \cup {s.pending.id} \in SUBSET Ids /\ NoAction \in Actions
      BY <1>1, <1>3 DEF States, Actions
    <2>2. (IF start THEN s.receipts ELSE <<>>) \in Seq(Owners)
      BY <1>1, Fields, Empty
    <2>3. (IF start THEN s.pending.id ELSE NoId) \in Ids \cup {NoId}
      BY <1>3
    <2>4. (IF start THEN "SourcesStarted" ELSE "Stopped") \in
             {"Planned", "SourcesStarted", "Stopped"}
      OBVIOUS
    <2> QED BY <1>1, <2>1, <2>2, <2>3, <2>4, Empty DEF States
  <1> HIDE DEF u
  <1>6. Sound(u, live)
    BY <1>1, <1>2, <1>5, ApplySound
  <1> QED BY <1>4, <1>6, PlainHandlerInv DEF ApplyRecordedOwnerCompletions

\* A handler that names an owner and calls its provider, if the journal took it.
LEMMA BeginInv ==
    ASSUME Inv, NEW ok \in BOOLEAN, NEW t, Sound(t, live), Ready,
           NEW kind \in {"execute", "compensate", "reverse", "reverse_uncertain"},
           NEW o \in Owners, Begin(kind, o, t, ok),
           kind \in {"execute", "compensate"} =>
              /\ t.pending # NoAction /\ ~t.aborting /\ t.uncertain = o
              /\ kind = "compensate" => t.pending.op = "Stop",
           kind \in {"reverse", "reverse_uncertain"} => t.aborting /\ t.abortUncertain = o
    PROVE  Inv'
  <1>1. /\ Commit(t, ok) /\ live' = live /\ journaled' = journaled /\ cleanupOnly' = cleanupOnly
        /\ UNCHANGED <<revalidated, up, crashes, authority>>
        /\ call' = IF ok THEN [kind |-> kind, owner |-> o, returned |-> FALSE] ELSE NoCall
    BY DEF Begin
  <1>2. /\ JournalInv' /\ poisoned' \in BOOLEAN
        /\ s' = t /\ (ok => ~poisoned' /\ (journaled' \/ ~cleanupOnly'))
    BY <1>1, CommitInv
  <1>3. call' \in Calls
    BY <1>1 DEF Calls
  <1>4. PlainTypes'
    BY <1>1, <1>2, <1>3 DEF Inv, PlainTypes
  <1>5. CallFits'
    <2>1. CASE ok
      <3>1. call'.kind = kind /\ call'.owner = o
        BY <1>1, <2>1
      <3> QED BY <1>1, <1>2, <2>1, <3>1 DEF CallFits, Ready
    <2>2. CASE ~ok
      BY <1>1, <2>2 DEF CallFits
    <2> QED BY <2>1, <2>2
  <1> QED BY <1>2, <1>4, <1>5 DEF Inv, JournalInv

LEMMA CompleteOwnerInv == ASSUME Inv, NEW ok \in BOOLEAN, CompleteOwner(ok) PROVE Inv'
  <1> DEFINE o == OwnerActions(s.pending)[Len(s.receipts) + 1]
             t == [s EXCEPT !.uncertain = o]
  <1>1. Sound(s, live) /\ s \in States
    BY DEF Inv, Sound, Shape
  <1>2. /\ s.pending # NoAction /\ ~s.aborting /\ s.uncertain = NoOwner /\ Ready
        /\ NextIn(o, s.receipts, OwnerActions(s.pending))
    BY DEF CompleteOwner, NextIn
  <1>3. o \in Owners
    BY <1>1, <1>2, Fields, NextIsIn
  <1>4. Sound(t, live)
    BY <1>1, <1>2, AttemptSound
  <1>5. Begin("execute", o, t, ok)
    BY DEF CompleteOwner
  <1>6. t.pending = s.pending /\ t.aborting = s.aborting /\ t.uncertain = o
    BY <1>1 DEF States
  <1> HIDE DEF t, o
  <1> QED BY <1>2, <1>3, <1>4, <1>5, <1>6, BeginInv

LEMMA CompleteUncertainStopOwnerInv ==
    ASSUME Inv, NEW ok \in BOOLEAN, CompleteUncertainStopOwner(ok) PROVE Inv'
  <1>1. Sound(s, live) /\ s \in States
    BY DEF Inv, Sound, Shape
  <1>2. s.pending.op = "Stop" /\ ~s.aborting /\ s.uncertain \in Owners /\ Ready
    BY <1>1, Fields DEF CompleteUncertainStopOwner
  <1>3. s.pending # NoAction
    BY <1>2, SMTT(30) DEF NoAction
  <1>4. Begin("compensate", s.uncertain, s, ok)
    BY DEF CompleteUncertainStopOwner
  <1> QED BY <1>1, <1>2, <1>3, <1>4, BeginInv

LEMMA CompleteNextAbortOwnerInv ==
    ASSUME Inv, NEW ok \in BOOLEAN, CompleteNextAbortOwner(ok) PROVE Inv'
  <1> DEFINE next == Len(s.abortReceipts) + 1
             o == PendingAbort(s)[next]
             started == next > 1 \/ s.uncertain = NoOwner
             retrying == s.abortUncertain # NoOwner
             kind == IF started /\ ~retrying THEN "reverse" ELSE "reverse_uncertain"
             t == [s EXCEPT !.abortUncertain = o]
  <1>1. Sound(s, live) /\ s \in States
    BY DEF Inv, Sound, Shape
  <1>2. s.aborting /\ Ready /\ NextIn(o, s.abortReceipts, PendingAbort(s))
    BY DEF CompleteNextAbortOwner, NextIn
  <1>3. o \in Owners
    BY <1>1, <1>2, Fields, NextIsIn
  <1>4. Sound(t, live)
    BY <1>1, <1>2, AbortAttemptSound
  <1>5. Begin(kind, o, t, ok)
    BY DEF CompleteNextAbortOwner
  <1>6. t.aborting = s.aborting /\ t.abortUncertain = o
    BY <1>1 DEF States
  <1>7. kind \in {"reverse", "reverse_uncertain"}
    OBVIOUS
  <1> HIDE DEF t, o, kind
  <1> QED BY <1>2, <1>3, <1>4, <1>5, <1>6, <1>7, BeginInv

\* The owner of the call is the one that the state is not sure of.
LEMMA CallOwner ==
    ASSUME Inv, call # NoCall
    PROVE  /\ call \in [kind : {"execute", "compensate", "reverse", "reverse_uncertain"},
                        owner : Owners, returned : BOOLEAN]
           /\ call.owner \in {s.uncertain, s.abortUncertain}
           /\ Starting => /\ s.uncertain = call.owner /\ ~s.aborting
                          /\ call.owner \in Obliged(s)
  <1>1. call \in [kind : {"execute", "compensate", "reverse", "reverse_uncertain"},
                  owner : Owners, returned : BOOLEAN]
    BY DEF Inv, PlainTypes, Calls
  <1>2. call.owner \in {s.uncertain, s.abortUncertain}
    BY <1>1 DEF Inv, CallFits
  <1>3. ASSUME Starting
        PROVE  s.uncertain = call.owner /\ ~s.aborting /\ call.owner \in Obliged(s)
    <2>1. s.pending.op = "Start" /\ s.uncertain = call.owner /\ ~s.aborting
      BY <1>3 DEF Starting, Inv, CallFits
    <2>2. s.abortReceipts = <<>>
      BY <2>1 DEF Inv, Sound, Shape, AbortShape
    <2> QED BY <1>1, <2>1, <2>2, Empty, NoneAssumption DEF Obliged
  <1> QED BY <1>1, <1>2, <1>3

LEMMA ProviderActsInv == ASSUME Inv, NEW effect \in BOOLEAN, ProviderActs(effect) PROVE Inv'
  <1>1. call # NoCall /\ UNCHANGED <<s, disk, journaled, poisoned, cleanupOnly, revalidated,
                                    up, crashes, authority>>
    BY DEF ProviderActs, runtime
  <1>2. /\ call \in [kind : {"execute", "compensate", "reverse", "reverse_uncertain"},
                     owner : Owners, returned : BOOLEAN]
        /\ call.owner \in {s.uncertain, s.abortUncertain}
        /\ Starting => call.owner \in Obliged(s)
    BY <1>1, CallOwner
  <1>3. /\ live' \in {live, live \cup {call.owner}, live \ {call.owner}}
        /\ live' = live \cup {call.owner} => Starting \/ live' = live
    BY DEF ProviderActs
  <1>4. Cover(s, live')
    <2>1. Firm(s) \subseteq live /\ live \subseteq Obliged(s) /\ call.owner \notin Firm(s)
      BY <1>2 DEF Inv, Sound, Cover, Firm
    <2> QED BY <1>2, <1>3, <2>1 DEF Cover
  <1>5. Sound(s, live')
    BY <1>4 DEF Inv, Sound
  <1>6. disk = s \/ disk = NoSnapshot
    BY <1>1 DEF Inv, CallFits, PlainTypes
  <1>7. call' = [call EXCEPT !.returned = TRUE]
    BY DEF ProviderActs
  <1>8. call' \in Calls /\ call'.kind = call.kind /\ call'.owner = call.owner
    BY <1>2, <1>7 DEF Calls
  <1>9. PlainTypes'
    BY <1>1, <1>2, <1>3, <1>8 DEF Inv, PlainTypes
  <1>10. CallFits'
    BY <1>1, <1>8 DEF Inv, CallFits
  <1> QED BY <1>1, <1>5, <1>6, <1>9, <1>10 DEF Inv
LEMMA ProviderReturnsInv ==
    ASSUME Inv, NEW ok \in BOOLEAN, NEW readback \in Readbacks, ProviderReturns(readback, ok)
    PROVE  Inv'
  <1>1. call # NoCall
    BY SMTT(30) DEF ProviderReturns, NoCall
  <1>2. /\ call \in [kind : {"execute", "compensate", "reverse", "reverse_uncertain"},
                     owner : Owners, returned : BOOLEAN]
        /\ call.owner # NoOwner
    BY <1>1, CallOwner, NoneAssumption
  <1>3. /\ live' = live /\ journaled' = journaled /\ cleanupOnly' = cleanupOnly
        /\ UNCHANGED <<revalidated, up, crashes, authority>> /\ call' = NoCall
    BY DEF ProviderReturns
  <1>4. Accepts(readback) => ((call.owner \in live) <=> Starting)
    <2>1. ASSUME readback.own PROVE readback.running = (call.owner \in live)
      BY <2>1 DEF Readbacks
    <2> QED BY <2>1 DEF Accepts, Starting
  <1>5. Sound(s, live) /\ CallFits
    BY DEF Inv
  <1>6. JournalInv' /\ poisoned' \in BOOLEAN
    <2>1. CASE UNCHANGED <<s, disk, poisoned>>
      BY <1>3, <2>1 DEF Inv, JournalInv, PlainTypes
    <2>2. CASE /\ Accepts(readback) /\ call.kind \in {"reverse", "reverse_uncertain"}
               /\ RecordAbortOwner(ok)
      <3> DEFINE t == [s EXCEPT !.abortReceipts = Append(@, call.owner),
                                !.abortUncertain = NoOwner]
      <3>1. s.aborting /\ s.abortUncertain = call.owner /\ ~Starting
        BY <1>1, <1>5, <2>2 DEF CallFits, Starting
      <3>2. Sound(t, live)
        BY <1>2, <1>4, <1>5, <2>2, <3>1, RecordAbortSound
      <3>3. Commit(t, ok)
        BY <2>2 DEF RecordAbortOwner
      <3> HIDE DEF t
      <3> QED BY <1>3, <3>2, <3>3, CommitInv
    <2>3. CASE /\ Accepts(readback) /\ call.kind \notin {"reverse", "reverse_uncertain"}
               /\ RecordOwner(ok)
      <3> DEFINE t == [s EXCEPT !.receipts = Append(@, call.owner), !.uncertain = NoOwner]
      <3>1. /\ s.pending # NoAction /\ ~s.aborting /\ s.uncertain = call.owner
            /\ Starting <=> s.pending.op = "Start"
        BY <1>1, <1>2, <1>5, <2>3 DEF CallFits, Starting
      <3>2. Sound(t, live)
        BY <1>2, <1>4, <1>5, <2>3, <3>1, RecordSound
      <3>3. Commit(t, ok)
        BY <2>3 DEF RecordOwner
      <3> HIDE DEF t
      <3> QED BY <1>3, <3>2, <3>3, CommitInv
    <2> QED BY <2>1, <2>2, <2>3 DEF ProviderReturns
  <1>7. PlainTypes'
    BY <1>3, <1>6 DEF Inv, PlainTypes, Calls
  <1>8. CallFits'
    BY <1>3 DEF CallFits
  <1> QED BY <1>6, <1>7, <1>8 DEF Inv, JournalInv

LEMMA RestoredSound ==
    ASSUME NEW t, NEW L, Sound(t, L) PROVE Sound(Restored(t), L)
  <1> DEFINE u == Restored(t)
  <1>1. t \in States /\ AbortShape(t)
    BY DEF Sound, Shape
  <1>2. t.aborting \in BOOLEAN
    BY <1>1 DEF States
  <1>3. u = [t EXCEPT !.aborting = t.aborting \/ t.pending.op = "Start"]
    BY DEF Restored
  <1>4. (t.aborting \/ t.pending.op = "Start") \in BOOLEAN
    BY <1>2
  <1>5. /\ u \in States /\ (u.aborting <=> t.aborting \/ t.pending.op = "Start")
        /\ u.phase = t.phase /\ u.pending = t.pending /\ u.receipts = t.receipts
        /\ u.uncertain = t.uncertain /\ u.abortReceipts = t.abortReceipts
        /\ u.abortUncertain = t.abortUncertain /\ u.active = t.active
        /\ u.activeStart = t.activeStart /\ u.applied = t.applied /\ u.aborted = t.aborted
        /\ u.completedAbort = t.completedAbort
    BY <1>1, <1>3, <1>4 DEF States
  <1>6. CASE t.pending.op = "Start"
    <2> HIDE DEF u
    <2>1. Sound(u, L)
      BY <1>5, <1>6, AbortingSound
    <2> QED BY <2>1 DEF u
  <1>7. CASE t.pending.op # "Start"
    <2>1. t.aborting = FALSE
      BY <1>1, <1>2, <1>7 DEF AbortShape
    <2>2. u = t
      BY <1>1, <1>3, <1>7, <2>1, SMTT(30) DEF States
    <2> QED BY <2>2
  <1> QED BY <1>6, <1>7

LEMMA RestoreInv == ASSUME Inv, Restore PROVE Inv'
  <1>1. disk # NoSnapshot /\ call = NoCall
    BY DEF Restore, Restorable, Inv, CallFits
  <1>2. Sound(Restored(disk), live)
    BY <1>1, RestoredSound DEF Inv
  <1>3. PlainTypes' /\ CallFits'
    BY <1>1 DEF Restore, Inv, PlainTypes, CallFits
  <1> QED BY <1>1, <1>2, <1>3 DEF Restore, Inv

LEMMA CrashInv == ASSUME Inv, Crash PROVE Inv'
  <1>1. crashes' \in 0..MaxCrashes
    BY CrashAssumption, SMTT(30) DEF Crash, Inv, PlainTypes
  <1>2. PlainTypes'
    BY <1>1 DEF Crash, runtime, Inv, PlainTypes, Calls
  <1> QED BY <1>2 DEF Crash, runtime, Inv, CallFits

LEMMA NextInv == Inv /\ [Next]_vars => Inv'
  <1> SUFFICES ASSUME Inv, [Next]_vars PROVE Inv'
    OBVIOUS
  <1>1. ASSUME NEW ok \in BOOLEAN, InstallJournal(ok) \/ AdoptRenewal(ok) PROVE Inv'
    BY <1>1, InstallJournalInv, AdoptRenewalInv
  <1>2. ASSUME NEW ok \in BOOLEAN, NEW id \in Ids, NEW op \in {"Start", "Stop"},
               Prepare(op, id, ok)
        PROVE  Inv'
    BY <1>2, PrepareInv
  <1>3. ASSUME NEW ok \in BOOLEAN, NEW id \in Ids, PrepareTrustedRevokerCleanup(id, ok)
        PROVE  Inv'
    BY <1>3, TrustedCleanupInv
  <1>4. ASSUME NEW ok \in BOOLEAN,
               \/ CompleteOwner(ok) \/ CompleteUncertainStopOwner(ok)
               \/ CompleteNextAbortOwner(ok)
        PROVE  Inv'
    BY <1>4, CompleteOwnerInv, CompleteUncertainStopOwnerInv, CompleteNextAbortOwnerInv
  <1>5. ASSUME NEW ok \in BOOLEAN, NEW readback \in Readbacks, ProviderReturns(readback, ok)
        PROVE  Inv'
    BY <1>5, ProviderReturnsInv
  <1>6. ASSUME NEW ok \in BOOLEAN,
               \/ BeginPartialStartAbort(ok) \/ FinalizePartialStartAbort(ok)
               \/ ApplyRecordedOwnerCompletions(ok)
        PROVE  Inv'
    BY <1>6, BeginAbortInv, FinalizeInv, ApplyInv
  <1>7. ASSUME NEW op \in {"Start", "Stop"}, NEW id \in Ids, PrepareWithLiveAuthority(op, id)
        PROVE  Inv'
    BY <1>7, PrepareWithLiveAuthorityInv
  <1>8. ASSUME NEW flag \in BOOLEAN, ProviderActs(flag) PROVE Inv'
    BY <1>8, ProviderActsInv
  <1>9. ASSUME NEW flag \in BOOLEAN, RevalidateRecoveredReceipts(flag) PROVE Inv'
    BY <1>9 DEF RevalidateRecoveredReceipts, Inv, PlainTypes, CallFits
  <1>10. CASE ProviderFails
    <2>1. PlainTypes'
      BY <1>10 DEF ProviderFails, runtime, Inv, PlainTypes, Calls
    <2> QED BY <1>10, <2>1 DEF ProviderFails, runtime, Inv, CallFits
  <1>11. CASE Crash \/ Restore
    BY <1>11, CrashInv, RestoreInv
  <1>12. CASE AuthorityChanges
    BY <1>12 DEF AuthorityChanges, runtime, Inv, PlainTypes, CallFits
  <1>13. CASE UNCHANGED vars
    BY <1>13 DEF vars, Inv, PlainTypes, CallFits
  <1> QED BY <1>1, <1>2, <1>3, <1>4, <1>5, <1>6, <1>7, <1>8, <1>9, <1>10, <1>11, <1>12, <1>13
       DEF Next

LEMMA InitInv == Init => Inv
  <1> SUFFICES ASSUME Init PROVE Inv
    OBVIOUS
  <1>0. 0 \in 0..MaxCrashes
    BY CrashAssumption, SMTT(30)
  <1>1. PlainTypes
    BY <1>0 DEF Init, PlainTypes, Calls
  <1> QED BY <1>1, NewSound DEF Init, Inv, CallFits

LEMMA SpecInv == Spec => []Inv
  BY InitInv, NextInv, PTL DEF Spec

-----------------------------------------------------------------------------
\* Every variable keeps its type.
THEOREM TypesHold == Spec => []TypeOK
  <1>1. Inv => TypeOK
    BY DEF Inv, PlainTypes, Sound, Shape, TypeOK
  <1> QED BY <1>1, SpecInv, PTL

\* Whatever effect is in place is named by the journal, once there is one: for
\* every product, whatever commit fails and whenever the process dies
\* (complete_owner, commit_recovery_journal).
THEOREM EffectsAreNamed == Spec => []JournalCoversEffects
  <1>1. Inv => JournalCoversEffects
    BY DEF Inv, Sound, Cover, JournalCoversEffects
  <1> QED BY <1>1, SpecInv, PTL

\* The order of a Start ends with the sources, as validate_owner_completions asks.
LEMMA SourcesLast == ValidCompletions("Start", StartOrder)
  <1>1. Last("Source", StartOrder)
    <2> SUFFICES ASSUME NEW i \in 1..Len(StartOrder), NEW j \in 1..Len(StartOrder),
                        Kind[StartOrder[i]] = "Source", Kind[StartOrder[j]] # "Source",
                        ~(j < i)
                 PROVE  FALSE
      BY DEF Last
    <2>1. StartOrder[i] \in Owners /\ StartOrder[j] \in Owners
      BY Orders, SMTT(30)
    <2>2. Kind[StartOrder[j]] \in {"Cleanup", "Sink", "Route", "Socket", "Codec", "Processor"}
      BY <2>1, KindAssumption DEF StartPriority
    <2>3. StartRank(StartOrder[i]) = 6 /\ StartRank(StartOrder[j]) \in 0..5
      BY <2>2, SMTT(30) DEF StartRank, StartPriority
    <2>4. i # j
      OBVIOUS
    <2>5. i < j
      BY <2>4, Orders, SMTT(30)
    <2>6. StartRank(StartOrder[i]) =< StartRank(StartOrder[j])
      BY <2>5, StartOrderAssumption
    <2> QED BY <2>3, <2>6, SMTT(30)
  <1>2. OwnerActions([op |-> "Start"]) = StartOrder
    BY DEF OwnerActions
  <1> QED BY <1>1, <1>2 DEF ValidCompletions

\* A sound state that has effects to clean up passes the validation of a restore.
LEMMA SoundIsRestorable ==
    ASSUME NEW t, NEW L, Sound(t, L), L # {}
    PROVE  Restorable(t)
  <1>1. t \in States /\ SessionShape(t) /\ ActionShape(t) /\ AbortShape(t)
    BY DEF Sound, Shape
  <1>2. Obliged(t) # {}
    BY DEF Sound, Cover
  <1>3. t.completedAbort = NoAbort
    <2>1. ASSUME t.completedAbort # NoAbort PROVE FALSE
      <3>1. t.active = <<>> /\ t.pending.op # "Start"
        BY <1>1, <2>1 DEF SessionShape, ActionShape
      <3> QED BY <1>2, <3>1, Empty DEF Obliged
    <2> QED BY <2>1
  <1>4. t.activeStart = NoId => t.phase = "Planned" /\ t.applied = {}
    <2>1. ASSUME t.activeStart = NoId PROVE t.pending.op = "Start"
      BY <1>1, <1>2, <2>1, Empty DEF Obliged, SessionShape
    <2> QED BY <1>1, <2>1 DEF ActionShape, SessionShape
  <1>5. t.pending = NoAction =>
           /\ t.receipts = <<>> /\ t.uncertain = NoOwner /\ t.abortReceipts = <<>>
           /\ t.abortUncertain = NoOwner /\ ~t.aborting
    <2>1. t.pending = NoAction => t.pending.op # "Start"
      BY SMTT(30) DEF NoAction
    <2> QED BY <1>1, <2>1 DEF ActionShape, AbortShape
  <1>6. t.pending # NoAction => ValidPending(t)
    <2> SUFFICES ASSUME t.pending # NoAction PROVE ValidPending(t)
      OBVIOUS
    <2>1. CASE t.pending.op = "Start"
      BY <1>1, <2>1 DEF ValidPending, ValidPendingStart, ActionShape, AbortShape
    <2>2. CASE t.pending.op = "Stop"
      <3>1. ~t.aborting /\ t.abortReceipts = <<>> /\ t.abortUncertain = NoOwner
        BY <1>1, <2>2 DEF AbortShape
      <3>2. t.activeStart # NoId /\ t.active = StartOrder
        BY <1>1, <1>3, <2>2 DEF ActionShape, SessionShape
      <3>3. t.receipts \in Seq(Owners) /\ OwnersOf(t.receipts) \subseteq OwnersOf(t.active)
        <4>1. t.receipts \in Seq(Owners)
          BY <1>1 DEF States
        <4>2. OwnersOf(t.receipts) \subseteq Owners
          BY <4>1, SMTT(30) DEF OwnersOf
        <4> QED BY <3>2, <4>1, <4>2, Orders
      <3> QED BY <1>1, <2>2, <3>1, <3>2, <3>3
           DEF ValidPending, ValidPendingStop, ActionShape
    <2> QED BY <1>1, <2>1, <2>2, PendingFacts
  <1>7. ValidSnapshot(t)
    BY <1>1, <1>3, <1>4, <1>5, <1>6, SourcesLast DEF ValidSnapshot, SessionShape
  <1> QED BY <1>1, <1>3, <1>7, StatesAreSnapshots DEF Restorable

\* As long as an effect is in place, the snapshot in the journal passes
\* validate_product_recovery_snapshot.
THEOREM EffectsCanBeRecovered == Spec => []EffectsAreRecoverable
  <1>1. Inv => EffectsAreRecoverable
    BY SoundIsRestorable DEF Inv, EffectsAreRecoverable
  <1> QED BY <1>1, SpecInv, PTL
\* The lifecycle of runtime.rs tells the truth about the owners.
THEOREM LifecycleHolds == Spec => []LifecycleIsTruthful
  <1>1. ASSUME Inv PROVE LifecycleIsTruthful
    <2>1. s \in States /\ SessionShape(s) /\ ActionShape(s) /\ AbortShape(s) /\ Cover(s, live)
      BY <1>1 DEF Inv, Sound, Shape
    <2>2. live \subseteq Owners
      BY <1>1 DEF Inv, PlainTypes
    <2>3. ASSUME s.phase = "SourcesStarted", s.pending = NoAction PROVE live = Owners
      <3>1. s.pending.op # "Start" /\ s.active = StartOrder /\ s.receipts = <<>>
        BY <2>1, <2>3 DEF NoAction, SessionShape, ActionShape
      <3>2. s.uncertain = NoOwner /\ s.abortUncertain = NoOwner
        BY <2>1, <2>3, <3>1 DEF ActionShape, AbortShape
      <3>3. Obliged(s) = Owners
        BY <3>1, Orders, Empty DEF Obliged
      <3>4. Owners \subseteq Firm(s)
        BY <3>2, <3>3, NoneAssumption DEF Firm
      <3> QED BY <2>1, <2>2, <3>4 DEF Cover
    <2>4. ASSUME s.phase = "Stopped" \/ s.completedAbort # NoAbort PROVE live = {}
      <3>1. s.active = <<>> /\ s.pending.op # "Start"
        BY <2>1, <2>4 DEF SessionShape, ActionShape
      <3>2. Obliged(s) = {}
        BY <3>1, Empty DEF Obliged
      <3> QED BY <2>1, <3>2 DEF Cover
    <2> QED BY <2>3, <2>4 DEF LifecycleIsTruthful
  <1> QED BY <1>1, SpecInv, PTL

-----------------------------------------------------------------------------
(* The layers of the owner graph *)

LEMMA Ranks ==
    ASSUME NEW o \in Owners
    PROVE  StartRank(o) \in 0..6 /\ StopRank(o) = 6 - StartRank(o)
  <1>1. Kind[o] \in {"Cleanup", "Sink", "Route", "Socket", "Codec", "Processor", "Source"}
    BY KindAssumption DEF StartPriority
  <1> QED BY <1>1, SMTT(30) DEF StartRank, StopRank, StartPriority, StopPriority

\* An owner of an earlier kind starts earlier and stops later.
LEMMA StartIndex ==
    ASSUME NEW i \in 1..Len(StartOrder), NEW j \in 1..Len(StartOrder),
           StartRank(StartOrder[i]) < StartRank(StartOrder[j])
    PROVE  i < j
  <1>1. StartOrder[i] \in Owners /\ StartOrder[j] \in Owners
    BY Orders, SMTT(30)
  <1>2. StartRank(StartOrder[i]) \in Int /\ StartRank(StartOrder[j]) \in Int
    BY <1>1, Ranks, SMTT(30)
  <1>3. i \in Int /\ j \in Int /\ i # j
    BY <1>2, Orders, SMTT(30)
  <1>4. ASSUME j < i PROVE FALSE
    <2>1. StartRank(StartOrder[j]) =< StartRank(StartOrder[i])
      BY <1>4, StartOrderAssumption
    <2> QED BY <1>2, <2>1, SMTT(30)
  <1> QED BY <1>3, <1>4, SMTT(30)

LEMMA StopIndex ==
    ASSUME NEW i \in 1..Len(StopOrder), NEW j \in 1..Len(StopOrder),
           StartRank(StopOrder[i]) < StartRank(StopOrder[j])
    PROVE  j < i
  <1>1. StopOrder[i] \in Owners /\ StopOrder[j] \in Owners
    BY Orders, SMTT(30)
  <1>2. /\ StartRank(StopOrder[i]) \in Int /\ StartRank(StopOrder[j]) \in Int
        /\ StopRank(StopOrder[i]) = 6 - StartRank(StopOrder[i])
        /\ StopRank(StopOrder[j]) = 6 - StartRank(StopOrder[j])
    BY <1>1, Ranks, SMTT(30)
  <1>3. i \in Int /\ j \in Int /\ i # j
    BY <1>2, Orders, SMTT(30)
  <1>4. ASSUME i < j PROVE FALSE
    <2>1. StopRank(StopOrder[i]) =< StopRank(StopOrder[j])
      BY <1>4, StopOrderAssumption
    <2> QED BY <1>2, <2>1, SMTT(30)
  <1> QED BY <1>3, <1>4, SMTT(30)

\* partial_start_abort_action takes the attempted owners from the last to the first.
LEMMA AbortPositions ==
    ASSUME NEW r \in Seq(Owners), NEW u \in Owners \cup {NoOwner},
           PrefixOf(r, StartOrder), u # NoOwner => NextIn(u, r, StartOrder)
    PROVE  LET p == AbortOrder(r, u)
           IN  /\ Len(p) =< Len(StartOrder)
               /\ \A i \in 1..Len(p) : p[i] = StartOrder[Len(p) + 1 - i]
               /\ u # NoOwner => Len(p) > 0 /\ u = StartOrder[Len(p)]
  <1> DEFINE p == AbortOrder(r, u)
  <1>1. /\ Len(r) \in Nat /\ Len(StartOrder) \in Nat /\ Len(r) =< Len(StartOrder)
        /\ \A i \in 1..Len(r) : Reversed(r)[i] = r[Len(r) + 1 - i]
        /\ Len(Reversed(r)) = Len(r)
        /\ \A i \in 1..Len(r) : r[i] = StartOrder[i]
    BY ReversedFacts, Orders, SMTT(30) DEF PrefixOf
  <1>2. CASE u = NoOwner
    <2>1. p = Reversed(r)
      BY <1>2, AbortOrderFacts
    <2> HIDE DEF p
    <2>2. \A i \in 1..Len(p) : p[i] = StartOrder[Len(p) + 1 - i]
      BY <1>1, <2>1, SMTT(30)
    <2> QED BY <1>1, <1>2, <2>1, <2>2 DEF p
  <1>3. CASE u # NoOwner
    <2>1. /\ Len(p) = Len(r) + 1 /\ p[1] = u
          /\ \A i \in 1..Len(r) : p[i + 1] = Reversed(r)[i]
      BY <1>3, AbortOrderFacts
    <2>2. Len(r) < Len(StartOrder) /\ u = StartOrder[Len(r) + 1]
      BY <1>3 DEF NextIn
    <2> HIDE DEF p
    <2>3. ASSUME NEW i \in 1..Len(p) PROVE p[i] = StartOrder[Len(p) + 1 - i]
      <3>1. CASE i = 1
        BY <1>1, <2>1, <2>2, <3>1, SMTT(30)
      <3>2. CASE i # 1
        <4> DEFINE j == i - 1
        <4>1. j \in 1..Len(r) /\ i = j + 1
          BY <1>1, <2>1, <3>2, SMTT(30)
        <4> HIDE DEF j
        <4>2. p[i] = r[Len(r) + 1 - j]
          BY <1>1, <2>1, <4>1
        <4>3. Len(r) + 1 - j \in 1..Len(r) /\ Len(r) + 1 - j = Len(p) + 1 - i
          BY <1>1, <2>1, <4>1, SMTT(30)
        <4> QED BY <1>1, <4>2, <4>3
      <3> QED BY <3>1, <3>2
    <2> QED BY <1>1, <1>3, <2>1, <2>2, <2>3, SMTT(30) DEF p
  <1> QED BY <1>2, <1>3

\* A prepared Start, rolled back or not, has an initial part of the order up.
LEMMA UpLayers ==
    ASSUME NEW t, NEW L, Sound(t, L), t.pending.op = "Start"
    PROVE  \E n \in 0..Len(StartOrder) :
              /\ \A i \in 1..Len(StartOrder) : StartOrder[i] \in Obliged(t) => i =< n
              /\ \A i \in 1..Len(StartOrder) : i < n => StartOrder[i] \in Firm(t)
              /\ t.abortUncertain # NoOwner => n > 0 /\ t.abortUncertain = StartOrder[n]
  <1> DEFINE p == PendingAbort(t)
             a == Len(p)
             m == Len(t.abortReceipts)
             n == a - m
  <1>1. t \in States /\ ActionShape(t) /\ AbortShape(t)
    BY DEF Sound, Shape
  <1>2. /\ t.receipts \in Seq(Owners) /\ t.uncertain \in Owners \cup {NoOwner}
        /\ t.abortReceipts \in Seq(Owners) /\ p \in Seq(Owners)
        /\ OwnersOf(p) = OwnersOf(t.receipts) \cup ({t.uncertain} \ {NoOwner})
    BY <1>1, Fields
  <1>3. /\ PrefixOf(t.receipts, StartOrder)
        /\ t.uncertain # NoOwner => NextIn(t.uncertain, t.receipts, StartOrder)
    BY <1>1, SMTT(30) DEF ActionShape, OwnerActions, NoAction
  <1>4. /\ a =< Len(StartOrder)
        /\ \A i \in 1..a : p[i] = StartOrder[a + 1 - i]
        /\ t.uncertain # NoOwner => a > 0 /\ t.uncertain = StartOrder[a]
    BY <1>2, <1>3, AbortPositions DEF PendingAbort
  <1>5. /\ m =< a /\ \A i \in 1..m : t.abortReceipts[i] = p[i]
        /\ t.abortUncertain # NoOwner => m < a /\ t.abortUncertain = p[m + 1]
    BY <1>1 DEF AbortShape, PrefixOf, NextIn
  <1>6. a \in Nat /\ m \in Nat /\ Len(StartOrder) \in Nat
    BY <1>2, Orders, SMTT(30)
  <1>7. Obliged(t) = OwnersOf(p) \ OwnersOf(t.abortReceipts)
    BY <1>2 DEF Obliged
  <1>8. \A i, j \in 1..Len(StartOrder) : StartOrder[i] = StartOrder[j] => i = j
    BY StartOrderAssumption DEF Enumerates
  <1> HIDE DEF p, a, m
  <1>9. ASSUME NEW i \in 1..Len(StartOrder), StartOrder[i] \in OwnersOf(p) PROVE i =< a
    <2>1. PICK j \in 1..a : StartOrder[i] = p[j]
      BY <1>9 DEF OwnersOf, a
    <2>2. a + 1 - j \in 1..Len(StartOrder) /\ StartOrder[i] = StartOrder[a + 1 - j]
      BY <1>4, <1>6, <2>1, SMTT(30)
    <2> QED BY <1>6, <1>8, <2>2, SMTT(30)
  <1>10. ASSUME NEW i \in 1..a PROVE StartOrder[i] \in OwnersOf(p)
    <2>1. a + 1 - i \in 1..a /\ p[a + 1 - i] = StartOrder[a + 1 - (a + 1 - i)]
      BY <1>4, <1>6, SMTT(30)
    <2>2. a + 1 - (a + 1 - i) = i
      BY <1>6, SMTT(30)
    <2> QED BY <2>1, <2>2 DEF OwnersOf, a
  <1>11. ASSUME NEW i \in 1..a
         PROVE  StartOrder[i] \in OwnersOf(t.abortReceipts) <=> i > n
    <2>1. ASSUME i > n PROVE StartOrder[i] \in OwnersOf(t.abortReceipts)
      <3>1. a + 1 - i \in 1..m /\ a + 1 - i \in 1..a /\ a + 1 - (a + 1 - i) = i
        BY <1>5, <1>6, <2>1, SMTT(30)
      <3>2. t.abortReceipts[a + 1 - i] = StartOrder[i]
        BY <1>4, <1>5, <3>1
      <3> QED BY <3>1, <3>2 DEF OwnersOf, m
    <2>2. ASSUME StartOrder[i] \in OwnersOf(t.abortReceipts) PROVE i > n
      <3>1. PICK j \in 1..m : StartOrder[i] = t.abortReceipts[j]
        BY <2>2 DEF OwnersOf, m
      <3>2. /\ a + 1 - j \in 1..Len(StartOrder) /\ i \in 1..Len(StartOrder)
            /\ StartOrder[i] = StartOrder[a + 1 - j]
        BY <1>4, <1>5, <1>6, <3>1, SMTT(30)
      <3>3. i = a + 1 - j
        BY <1>8, <3>2
      <3> QED BY <1>6, <3>3, SMTT(30)
    <2> QED BY <2>1, <2>2
  <1>12. n \in 0..Len(StartOrder) /\ n =< a
    BY <1>4, <1>5, <1>6, SMTT(30)
  <1>13. t.abortUncertain # NoOwner => n > 0 /\ t.abortUncertain = StartOrder[n]
    <2> SUFFICES ASSUME t.abortUncertain # NoOwner
                 PROVE  n > 0 /\ t.abortUncertain = StartOrder[n]
      OBVIOUS
    <2>1. m + 1 \in 1..a /\ a + 1 - (m + 1) = n
      BY <1>5, <1>6, SMTT(30)
    <2> QED BY <1>4, <1>5, <1>6, <2>1, SMTT(30)
  <1>14. ASSUME NEW i \in 1..Len(StartOrder), StartOrder[i] \in Obliged(t) PROVE i =< n
    <2>1. i \in 1..a
      BY <1>6, <1>7, <1>9, <1>14, SMTT(30)
    <2> QED BY <1>6, <1>7, <1>11, <1>14, <2>1, SMTT(30)
  <1>15. ASSUME NEW i \in 1..Len(StartOrder), i < n PROVE StartOrder[i] \in Firm(t)
    <2>1. i \in 1..a /\ ~(i > n)
      BY <1>6, <1>12, <1>15, SMTT(30)
    <2>2. StartOrder[i] \in Obliged(t)
      BY <1>7, <1>10, <1>11, <2>1
    <2>3. StartOrder[i] \in Owners
      BY Orders, SMTT(30)
    <2>4. StartOrder[i] # t.uncertain
      BY <1>4, <1>6, <1>8, <1>12, <1>15, <2>3, NoneAssumption, SMTT(30)
    <2>5. StartOrder[i] # t.abortUncertain
      BY <1>6, <1>8, <1>12, <1>13, <1>15, <2>3, NoneAssumption, SMTT(30)
    <2> QED BY <2>2, <2>4, <2>5 DEF Firm
  <1> QED BY <1>12, <1>13, <1>14, <1>15
\* A started session whose Stop is under way has a final part of the order up.
LEMMA DownLayers ==
    ASSUME NEW t, NEW L, Sound(t, L), t.pending.op # "Start", t.active = StartOrder
    PROVE  \E k \in 0..Len(StopOrder) :
              /\ \A i \in 1..Len(StopOrder) : StopOrder[i] \in Obliged(t) => i > k
              /\ \A i \in 1..Len(StopOrder) : i > k + 1 => StopOrder[i] \in Firm(t)
              /\ t.uncertain # NoOwner => k < Len(StopOrder) /\ t.uncertain = StopOrder[k + 1]
  <1> DEFINE k == Len(t.receipts)
  <1>1. t \in States /\ ActionShape(t) /\ AbortShape(t)
    BY DEF Sound, Shape
  <1>2. t.receipts \in Seq(Owners) /\ k \in Nat /\ Len(StopOrder) \in Nat
    BY <1>1, Fields, Orders, SMTT(30)
  <1>3. /\ PrefixOf(t.receipts, StopOrder)
        /\ t.uncertain # NoOwner => NextIn(t.uncertain, t.receipts, StopOrder)
    <2>1. CASE t.pending = NoAction
      BY <1>1, <2>1, Orders, EmptyPrefix DEF ActionShape
    <2>2. CASE t.pending # NoAction
      BY <1>1, <2>2 DEF ActionShape, OwnerActions
    <2> QED BY <2>1, <2>2
  <1>4. /\ k =< Len(StopOrder) /\ \A i \in 1..k : t.receipts[i] = StopOrder[i]
        /\ t.uncertain # NoOwner => k < Len(StopOrder) /\ t.uncertain = StopOrder[k + 1]
    BY <1>3 DEF PrefixOf, NextIn
  <1>5. t.abortUncertain = NoOwner
    BY <1>1 DEF AbortShape
  <1>6. Obliged(t) = Owners \ OwnersOf(t.receipts)
    BY Orders DEF Obliged
  <1>7. \A i, j \in 1..Len(StopOrder) : StopOrder[i] = StopOrder[j] => i = j
    BY StopOrderAssumption DEF Enumerates
  <1>8. ASSUME NEW i \in 1..Len(StopOrder)
        PROVE  StopOrder[i] \in OwnersOf(t.receipts) <=> i =< k
    <2>1. ASSUME i =< k PROVE StopOrder[i] \in OwnersOf(t.receipts)
      BY <1>2, <1>4, <2>1, SMTT(30) DEF OwnersOf
    <2>2. ASSUME StopOrder[i] \in OwnersOf(t.receipts) PROVE i =< k
      <3>1. PICK j \in 1..k : StopOrder[i] = t.receipts[j]
        BY <2>2 DEF OwnersOf
      <3>2. j \in 1..Len(StopOrder) /\ StopOrder[i] = StopOrder[j]
        BY <1>2, <1>4, <3>1, SMTT(30)
      <3>3. i = j
        BY <1>7, <3>2
      <3> QED BY <1>2, <3>3, SMTT(30)
    <2> QED BY <2>1, <2>2
  <1> HIDE DEF k
  <1>9. ASSUME NEW i \in 1..Len(StopOrder), StopOrder[i] \in Obliged(t) PROVE i > k
    BY <1>2, <1>6, <1>8, <1>9, SMTT(30)
  <1>10. ASSUME NEW i \in 1..Len(StopOrder), i > k + 1 PROVE StopOrder[i] \in Firm(t)
    <2>1. StopOrder[i] \in Owners /\ ~(i =< k)
      BY <1>2, <1>10, Orders, SMTT(30)
    <2>2. StopOrder[i] \in Obliged(t)
      BY <1>6, <1>8, <2>1
    <2>3. StopOrder[i] # t.uncertain
      BY <1>2, <1>4, <1>7, <1>10, <2>1, NoneAssumption, SMTT(30)
    <2> QED BY <1>5, <2>1, <2>2, <2>3, NoneAssumption DEF Firm
  <1> QED BY <1>2, <1>4, <1>9, <1>10, SMTT(30)

LEMMA ObligedAreOwners ==
    ASSUME NEW t \in States, t.pending.op = "Start" PROVE Obliged(t) \subseteq Owners
  <1>0. t.receipts \in Seq(Owners)
    BY Fields
  <1>1. OwnersOf(t.receipts) \subseteq Owners
    BY <1>0, SMTT(30) DEF OwnersOf
  <1>2. {t.uncertain} \ {NoOwner} \subseteq Owners
    BY Fields
  <1> QED BY <1>1, <1>2 DEF Obliged

\* What stands below an owner that may run is sure to run.
LEMMA Layers ==
    ASSUME NEW t, NEW L, Sound(t, L), NEW o \in Obliged(t), NEW p \in Owners,
           StartRank(p) < StartRank(o)
    PROVE  p \in Firm(t)
  <1>1. t \in States /\ SessionShape(t)
    BY DEF Sound, Shape
  <1>2. CASE t.pending.op = "Start"
    <2>1. PICK n \in 0..Len(StartOrder) :
              /\ \A i \in 1..Len(StartOrder) : StartOrder[i] \in Obliged(t) => i =< n
              /\ \A i \in 1..Len(StartOrder) : i < n => StartOrder[i] \in Firm(t)
      BY <1>2, UpLayers
    <2>2. o \in Owners
      BY <1>1, <1>2, ObligedAreOwners
    <2>3. PICK i \in 1..Len(StartOrder) : StartOrder[i] = o
      BY <2>2, StartOrderAssumption DEF Enumerates
    <2>4. PICK j \in 1..Len(StartOrder) : StartOrder[j] = p
      BY StartOrderAssumption DEF Enumerates
    <2>5. j < i
      BY <2>3, <2>4, StartIndex
    <2>6. i =< n
      BY <2>1, <2>3
    <2>7. j < n
      BY <2>5, <2>6, SMTT(30)
    <2> QED BY <2>1, <2>4, <2>7
  <1>3. CASE t.pending.op # "Start"
    <2>1. t.active = StartOrder
      BY <1>1, <1>3, Empty DEF SessionShape, Obliged
    <2>2. PICK k \in 0..Len(StopOrder) :
              /\ \A i \in 1..Len(StopOrder) : StopOrder[i] \in Obliged(t) => i > k
              /\ \A i \in 1..Len(StopOrder) : i > k + 1 => StopOrder[i] \in Firm(t)
      BY <1>3, <2>1, DownLayers
    <2>3. o \in Owners
      BY <1>3, <2>1, Orders DEF Obliged
    <2>4. PICK i \in 1..Len(StopOrder) : StopOrder[i] = o
      BY <2>3, StopOrderAssumption DEF Enumerates
    <2>5. PICK j \in 1..Len(StopOrder) : StopOrder[j] = p
      BY StopOrderAssumption DEF Enumerates
    <2>6. i < j
      BY <2>4, <2>5, StopIndex
    <2>7. i > k
      BY <2>2, <2>4
    <2>8. j > k + 1
      BY <2>6, <2>7, SMTT(30)
    <2> QED BY <2>2, <2>5, <2>8
  <1> QED BY <1>2, <1>3

\* The owner whose reversal or Stop is under way is one of the topmost.
LEMMA TopIsLowered ==
    ASSUME NEW t, NEW L, Sound(t, L), NEW o \in Owners, NEW p \in Obliged(t),
           o \in Obliged(t),
           IF t.pending.op = "Start" THEN o = t.abortUncertain ELSE o = t.uncertain
    PROVE  StartRank(p) =< StartRank(o)
  <1>1. t \in States /\ SessionShape(t)
    BY DEF Sound, Shape
  <1>2. CASE t.pending.op = "Start"
    <2>1. PICK n \in 0..Len(StartOrder) :
              /\ \A i \in 1..Len(StartOrder) : StartOrder[i] \in Obliged(t) => i =< n
              /\ t.abortUncertain # NoOwner => n > 0 /\ t.abortUncertain = StartOrder[n]
      BY <1>2, UpLayers
    <2>2. n \in 1..Len(StartOrder) /\ o = StartOrder[n]
      BY <1>2, <2>1, NoneAssumption, SMTT(30)
    <2>3. p \in Owners
      BY <1>1, <1>2, ObligedAreOwners
    <2>4. PICK i \in 1..Len(StartOrder) : StartOrder[i] = p
      BY <2>3, StartOrderAssumption DEF Enumerates
    <2>5. i =< n
      BY <2>1, <2>4
    <2>6. StartRank(o) \in Int /\ StartRank(p) \in Int
      BY <2>3, Ranks, SMTT(30)
    <2>7. ~(StartRank(o) < StartRank(p))
      BY <2>2, <2>4, <2>5, StartIndex, SMTT(30)
    <2> QED BY <2>6, <2>7, SMTT(30)
  <1>3. CASE t.pending.op # "Start"
    <2>1. t.active = StartOrder
      BY <1>1, <1>3, Empty DEF SessionShape, Obliged
    <2>2. PICK k \in 0..Len(StopOrder) :
              /\ \A i \in 1..Len(StopOrder) : StopOrder[i] \in Obliged(t) => i > k
              /\ t.uncertain # NoOwner => k < Len(StopOrder) /\ t.uncertain = StopOrder[k + 1]
      BY <1>3, <2>1, DownLayers
    <2>3. k + 1 \in 1..Len(StopOrder) /\ o = StopOrder[k + 1]
      BY <1>3, <2>2, NoneAssumption, SMTT(30)
    <2>4. p \in Owners
      BY <1>3, <2>1, Orders DEF Obliged
    <2>5. PICK i \in 1..Len(StopOrder) : StopOrder[i] = p
      BY <2>4, StopOrderAssumption DEF Enumerates
    <2>6. i > k
      BY <2>2, <2>5
    <2>7. StartRank(o) \in Int /\ StartRank(p) \in Int
      BY <2>4, Ranks, SMTT(30)
    <2>8. ~(StartRank(o) < StartRank(p))
      BY <2>3, <2>5, <2>6, StopIndex, SMTT(30)
    <2> QED BY <2>7, <2>8, SMTT(30)
  <1> QED BY <1>2, <1>3

\* An owner runs only while every owner of an earlier kind runs.
THEOREM GraphIsLayered == Spec => []GraphStaysLayered
  <1>1. ASSUME Inv PROVE GraphStaysLayered
    BY <1>1, Layers DEF Inv, Sound, Cover, GraphStaysLayered
  <1> QED BY <1>1, SpecInv, PTL

-----------------------------------------------------------------------------
(* After a restore *)

\* A restored runtime has no Start left to continue.
NoStart == cleanupOnly /\ s.pending.op = "Start" => s.aborting

LEMMA NoStartKept == Inv /\ NoStart /\ [Next]_vars => NoStart'
  <1> SUFFICES ASSUME Inv, NoStart, [Next]_vars PROVE NoStart'
    OBVIOUS
  <1>0. s \in States
    BY DEF Inv, Sound, Shape
  <1>1. ASSUME NEW ok \in BOOLEAN, InstallJournal(ok) \/ AdoptRenewal(ok) PROVE NoStart'
    BY <1>1 DEF InstallJournal, AdoptRenewal, Commit, NoStart
  <1>2. ASSUME NEW ok \in BOOLEAN, NEW id \in Ids, NEW op \in {"Start", "Stop"},
               Prepare(op, id, ok)
        PROVE  NoStart'
    BY <1>2 DEF Prepare, ReviewPrepare, NoStart
  <1>3. ASSUME NEW ok \in BOOLEAN, NEW id \in Ids, PrepareTrustedRevokerCleanup(id, ok)
        PROVE  NoStart'
    <2>1. s'.pending.op = "Stop"
      BY <1>0, <1>3 DEF PrepareTrustedRevokerCleanup, Commit, States
    <2> QED BY <2>1 DEF NoStart
  <1>4. ASSUME NEW t, NEW ok \in BOOLEAN, Commit(t, ok), t.pending = s.pending,
               s.aborting => t.aborting, cleanupOnly' = cleanupOnly
        PROVE  NoStart'
    BY <1>4 DEF Commit, NoStart
  <1>5. ASSUME NEW ok \in BOOLEAN, CompleteOwner(ok) PROVE NoStart'
    <2> DEFINE t == [s EXCEPT !.uncertain = OwnerActions(s.pending)[Len(s.receipts) + 1]]
    <2>1. t.pending = s.pending /\ t.aborting = s.aborting
      BY <1>0 DEF States
    <2>2. Commit(t, ok) /\ cleanupOnly' = cleanupOnly
      BY <1>5 DEF CompleteOwner, Begin
    <2> QED BY <1>4, <2>1, <2>2
  <1>6. ASSUME NEW ok \in BOOLEAN, CompleteUncertainStopOwner(ok) PROVE NoStart'
    BY <1>6, <1>4 DEF CompleteUncertainStopOwner, Begin
  <1>7. ASSUME NEW ok \in BOOLEAN, CompleteNextAbortOwner(ok) PROVE NoStart'
    <2> DEFINE t == [s EXCEPT !.abortUncertain = PendingAbort(s)[Len(s.abortReceipts) + 1]]
    <2>1. t.pending = s.pending /\ t.aborting = s.aborting
      BY <1>0 DEF States
    <2>2. Commit(t, ok) /\ cleanupOnly' = cleanupOnly
      BY <1>7 DEF CompleteNextAbortOwner, Begin
    <2> QED BY <1>4, <2>1, <2>2
  <1>8. ASSUME NEW ok \in BOOLEAN, NEW readback \in Readbacks, ProviderReturns(readback, ok)
        PROVE  NoStart'
    <2>0. cleanupOnly' = cleanupOnly
      BY <1>8 DEF ProviderReturns
    <2>1. CASE UNCHANGED s
      BY <2>0, <2>1 DEF NoStart
    <2>2. CASE RecordOwner(ok)
      <3> DEFINE t == [s EXCEPT !.receipts = Append(@, call.owner), !.uncertain = NoOwner]
      <3>1. t.pending = s.pending /\ t.aborting = s.aborting
        BY <1>0 DEF States
      <3> QED BY <1>4, <2>0, <2>2, <3>1 DEF RecordOwner
    <2>3. CASE RecordAbortOwner(ok)
      <3> DEFINE t == [s EXCEPT !.abortReceipts = Append(@, call.owner),
                                !.abortUncertain = NoOwner]
      <3>1. t.pending = s.pending /\ t.aborting = s.aborting
        BY <1>0 DEF States
      <3> QED BY <1>4, <2>0, <2>3, <3>1 DEF RecordAbortOwner
    <2> QED BY <1>8, <2>1, <2>2, <2>3 DEF ProviderReturns
  <1>9. ASSUME NEW ok \in BOOLEAN, BeginPartialStartAbort(ok) PROVE NoStart'
    <2>1. s'.aborting
      BY <1>0, <1>9 DEF BeginPartialStartAbort, Commit, States
    <2> QED BY <2>1 DEF NoStart
  <1>10. ASSUME NEW ok \in BOOLEAN,
                FinalizePartialStartAbort(ok) \/ ApplyRecordedOwnerCompletions(ok)
         PROVE  NoStart'
    <2>1. CASE FinalizePartialStartAbort(ok)
      <3>1. s'.pending = NoAction
        BY <1>0, <2>1 DEF FinalizePartialStartAbort, Commit, States
      <3> QED BY <3>1, SMTT(30) DEF NoStart, NoAction
    <2>2. CASE ApplyRecordedOwnerCompletions(ok)
      <3>1. s'.pending = NoAction
        BY <1>0, <2>2 DEF ApplyRecordedOwnerCompletions, Commit, States
      <3> QED BY <3>1, SMTT(30) DEF NoStart, NoAction
    <2> QED BY <1>10, <2>1, <2>2
  <1>11. ASSUME NEW op \in {"Start", "Stop"}, NEW id \in Ids, PrepareWithLiveAuthority(op, id)
         PROVE  NoStart'
    BY <1>11 DEF PrepareWithLiveAuthority, NoStart
  <1>12. ASSUME NEW flag \in BOOLEAN,
                ProviderActs(flag) \/ RevalidateRecoveredReceipts(flag)
         PROVE  NoStart'
    BY <1>12 DEF ProviderActs, RevalidateRecoveredReceipts, runtime, NoStart
  <1>13. CASE ProviderFails \/ Crash \/ AuthorityChanges \/ UNCHANGED vars
    BY <1>13 DEF ProviderFails, Crash, AuthorityChanges, runtime, vars, NoStart
  <1>14. CASE Restore
    <2>1. disk \in States
      BY <1>14 DEF Restore, Restorable, Inv, Sound, Shape
    <2>2. /\ Restored(disk).pending = disk.pending
          /\ Restored(disk).aborting = (disk.aborting \/ disk.pending.op = "Start")
      BY <2>1 DEF Restored, States
    <2> QED BY <1>14, <2>2 DEF Restore, NoStart
  <1> QED BY <1>1, <1>2, <1>3, <1>5, <1>6, <1>7, <1>8, <1>9, <1>10, <1>11, <1>12, <1>13, <1>14
       DEF Next

\* A runtime restored after a death never brings an owner up.
THEOREM RestoreCleansUp == Spec => RestoredOnlyCleansUp
  <1>1. Init => NoStart
    BY DEF Init, NoStart
  <1>2. Inv /\ NoStart /\ [Next]_vars => [cleanupOnly => live' \subseteq live]_vars
    <2> SUFFICES ASSUME Inv, NoStart, [Next]_vars, cleanupOnly PROVE live' \subseteq live
      BY DEF vars
    <2>1. ASSUME NEW flag \in BOOLEAN, ProviderActs(flag) PROVE live' \subseteq live
      <3>1. ~Starting
        BY <2>1 DEF ProviderActs, Inv, CallFits, Starting, NoStart
      <3> QED BY <2>1, <3>1 DEF ProviderActs
    <2>2. ASSUME ~\E flag \in BOOLEAN : ProviderActs(flag) PROVE live' = live
      BY <2>2 DEF Next, vars, InstallJournal, AdoptRenewal, Prepare,
         PrepareTrustedRevokerCleanup, CompleteOwner, CompleteUncertainStopOwner,
         CompleteNextAbortOwner, Begin, ProviderReturns, BeginPartialStartAbort,
         FinalizePartialStartAbort, ApplyRecordedOwnerCompletions, PrepareWithLiveAuthority,
         RevalidateRecoveredReceipts, ProviderFails, Crash, Restore, AuthorityChanges
    <2> QED BY <2>1, <2>2
  <1> QED BY <1>1, <1>2, NoStartKept, SpecInv, PTL DEF Spec, RestoredOnlyCleansUp
-----------------------------------------------------------------------------
(* The runtime implements module AllOrNothing.  A step of a handler moves    *)
(* the status of the state in memory; the status the promise speaks of is    *)
(* that of the journal, if there is one.  The two can only part in a         *)
(* restored runtime that has no journal yet, which can call no provider:     *)
(* what it does then adds up to one step of the promise (Drift).             *)

Moves(a, b, L) ==
    \/ a = b
    \/ a = "planned" /\ L = Owners /\ b = "started"
    \/ a \in {"planned", "started", "aborted"} /\ b = "lowering"
    \/ a \in {"planned", "lowering"} /\ L = {} /\ b = "aborted"
    \/ a = "lowering" /\ L = {} /\ b = "stopped"

DriftOf(d, t, L) ==
    /\ t.pending.op = "Start" => d.pending.op = "Start"
    /\ t.pending.op = "Stop" => d.pending.op = "Stop" \/ t.receipts = <<>>
    /\ Moves(StatusOf(d), StatusOf(t), L)

Unjournaled == cleanupOnly /\ ~journaled /\ ~poisoned
Drift == Unjournaled => DriftOf(disk, s, live)
Moved == live' = live /\ Moves(Status, Status', live)

LEMMA CommitMoves ==
    ASSUME Inv, Inv', NEW t, NEW ok \in BOOLEAN, Commit(t, ok),
           UNCHANGED <<journaled, cleanupOnly, live>>,
           Moves(StatusOf(s), StatusOf(t), live),
           Unjournaled => DriftOf(disk, t, live)
    PROVE  Moved /\ Drift'
  <1>1. s' = t /\ t # NoSnapshot /\ s # NoSnapshot
    BY StatesAreSnapshots DEF Commit, Inv, Sound, Shape
  <1>2. CASE poisoned \/ (~journaled /\ cleanupOnly)
    <2>1. UNCHANGED <<disk, poisoned>>
      BY <1>2 DEF Commit
    <2>2. Drift'
      BY <1>1, <1>2, <2>1 DEF Drift, Unjournaled
    <2>3. Moves(Status, Status', live)
      <3>1. CASE disk = NoSnapshot
        BY <1>1, <2>1, <3>1 DEF Status, Recorded
      <3>2. CASE disk # NoSnapshot
        BY <2>1, <3>2 DEF Status, Recorded, Moves
      <3> QED BY <3>1, <3>2
    <2> QED BY <2>2, <2>3 DEF Moved
  <1>3. CASE ~poisoned /\ ~journaled /\ ~cleanupOnly
    <2>1. UNCHANGED <<disk, poisoned>> /\ disk = NoSnapshot
      BY <1>3 DEF Commit, Inv
    <2> QED BY <1>1, <1>3, <2>1 DEF Status, Recorded, Moved, Drift, Unjournaled
  <1>4. CASE ~poisoned /\ journaled
    <2>1. disk' \in {disk, t} /\ disk = s
      BY <1>4 DEF Commit, Inv
    <2> QED BY <1>1, <1>4, <2>1 DEF Status, Recorded, Moved, Moves, Drift, Unjournaled
  <1> QED BY <1>2, <1>3, <1>4 DEF Inv, PlainTypes

LEMMA StillMoves ==
    ASSUME Drift, UNCHANGED <<s, disk, live>>, Unjournaled' => Unjournaled
    PROVE  Moved /\ Drift'
  BY DEF Drift, Moved, Moves, Status, Recorded

\* Recording attempts and receipts is no change of status.
SameStatus(t) ==
    /\ t.phase = s.phase /\ t.pending = s.pending /\ t.completedAbort = s.completedAbort
    /\ t.aborting = s.aborting

LEMMA SameStatusMoves ==
    ASSUME Inv, Inv', Drift, NEW t, NEW ok \in BOOLEAN, Commit(t, ok),
           UNCHANGED <<journaled, cleanupOnly, live>>, SameStatus(t),
           Unjournaled => t.receipts = s.receipts
    PROVE  Moved /\ Drift'
  <1>1. StatusOf(t) = StatusOf(s)
    BY DEF SameStatus, StatusOf
  <1>2. Moves(StatusOf(s), StatusOf(t), live)
    BY <1>1 DEF Moves
  <1>3. Unjournaled => DriftOf(disk, t, live)
    BY <1>1 DEF Drift, DriftOf, SameStatus
  <1> QED BY <1>2, <1>3, CommitMoves

LEMMA InstallJournalMoves ==
    ASSUME Inv, Inv', Drift, NEW ok \in BOOLEAN, InstallJournal(ok) PROVE Moved /\ Drift'
  <1>1. /\ ~poisoned /\ ~journaled /\ disk' \in {disk, s} /\ s' = s /\ live' = live
        /\ ~Unjournaled'
    BY DEF InstallJournal, Unjournaled
  <1>2. s # NoSnapshot
    BY StatesAreSnapshots DEF Inv, Sound, Shape
  <1>3. CASE disk = NoSnapshot
    BY <1>1, <1>2, <1>3 DEF Moved, Moves, Status, Recorded, Drift
  <1>4. CASE disk # NoSnapshot
    <2>1. Unjournaled
      BY <1>1, <1>4 DEF Inv, Unjournaled, PlainTypes
    <2>2. Moves(StatusOf(disk), StatusOf(s), live)
      BY <2>1 DEF Drift, DriftOf
    <2> QED BY <1>1, <1>2, <1>4, <2>2 DEF Moved, Moves, Status, Recorded, Drift
  <1> QED BY <1>3, <1>4

\* ReviewPrepare lets a Start in while planned and a Stop in while started.
LEMMA PreparedMoves ==
    ASSUME Inv, NEW op \in {"Start", "Stop"}, NEW id \in Ids, ReviewPrepare(op, id)
    PROVE  Moves(StatusOf(s), StatusOf(Prepared(op, id)), live)
  <1> DEFINE t == Prepared(op, id)
  <1>1. s \in States /\ SessionShape(s) /\ AbortShape(s)
    BY DEF Inv, Sound, Shape
  <1>2. /\ t.phase = s.phase /\ t.pending.op = op /\ t.completedAbort = s.completedAbort
        /\ t.aborting = FALSE
    BY <1>1 DEF Prepared, States
  <1>3. s.pending.op = "none" /\ ~s.aborting /\ s.completedAbort = NoAbort
    BY <1>1, SMTT(30) DEF ReviewPrepare, AbortShape, NoAction
  <1> HIDE DEF t
  <1>4. ASSUME op = "Start" PROVE Moves(StatusOf(s), StatusOf(t), live)
    BY <1>2, <1>3, <1>4 DEF ReviewPrepare, StatusOf, Moves
  <1>5. ASSUME op = "Stop" PROVE Moves(StatusOf(s), StatusOf(t), live)
    <2>1. s.phase = "SourcesStarted"
      BY <1>1, <1>5 DEF ReviewPrepare, SessionShape
    <2> QED BY <1>2, <1>3, <1>5, <2>1 DEF StatusOf, Moves
  <1> QED BY <1>4, <1>5 DEF t

LEMMA PrepareMoves ==
    ASSUME Inv, Inv', NEW op \in {"Start", "Stop"}, NEW id \in Ids, NEW ok \in BOOLEAN,
           Prepare(op, id, ok)
    PROVE  Moved /\ Drift'
  BY PreparedMoves, CommitMoves DEF Prepare, ReviewPrepare, Unjournaled

LEMMA PrepareWithLiveAuthorityMoves ==
    ASSUME Inv, Inv', NEW op \in {"Start", "Stop"}, NEW id \in Ids,
           PrepareWithLiveAuthority(op, id)
    PROVE  Moved /\ Drift'
  <1>1. /\ ReviewPrepare(op, id) /\ journaled /\ ~poisoned /\ live' = live /\ s' = s
        /\ disk' \in {disk, Prepared(op, id)} /\ ~Unjournaled'
    BY DEF PrepareWithLiveAuthority, ReviewPrepare, Unjournaled
  <1>2. disk = s /\ s # NoSnapshot
    BY <1>1, StatesAreSnapshots DEF Inv, Sound, Shape
  <1>3. CASE disk' = disk
    BY <1>1, <1>2, <1>3 DEF Moved, Moves, Status, Recorded, Drift
  <1>4. CASE disk' = Prepared(op, id) /\ disk' # NoSnapshot
    BY <1>1, <1>2, <1>4, PreparedMoves DEF Moved, Status, Recorded, Drift
  <1>5. CASE disk' = NoSnapshot
    BY <1>1, <1>2, <1>5 DEF Moved, Moves, Status, Recorded, Drift
  <1> QED BY <1>1, <1>3, <1>4, <1>5

LEMMA TrustedCleanupMoves ==
    ASSUME Inv, Inv', Drift, NEW id \in Ids, NEW ok \in BOOLEAN,
           PrepareTrustedRevokerCleanup(id, ok)
    PROVE  Moved /\ Drift'
  <1> DEFINE t == [s EXCEPT !.pending = [op |-> "Stop", id |-> id, trusted |-> TRUE],
                            !.receipts = <<>>, !.uncertain = NoOwner]
  <1>1. s \in States /\ SessionShape(s) /\ AbortShape(s)
    BY DEF Inv, Sound, Shape
  <1>2. /\ t.phase = s.phase /\ t.pending.op = "Stop" /\ t.completedAbort = s.completedAbort
        /\ t.receipts = <<>>
    BY <1>1 DEF States
  <1>3. /\ Commit(t, ok) /\ UNCHANGED <<journaled, cleanupOnly, live>>
        /\ s.pending.op = "none" /\ (s.activeStart # NoId \/ s.completedAbort # NoAbort)
    BY SMTT(30) DEF PrepareTrustedRevokerCleanup, NoAction
  <1> HIDE DEF t
  <1>4. StatusOf(s) \in {"started", "aborted", "stopped"}
    BY <1>1, <1>3 DEF SessionShape, StatusOf
  <1>5. StatusOf(t) = IF s.phase = "Stopped" THEN "stopped" ELSE "lowering"
    BY <1>2 DEF StatusOf
  <1>6. StatusOf(s) = "stopped" <=> s.phase = "Stopped"
    BY DEF StatusOf
  <1>7. Moves(StatusOf(s), StatusOf(t), live)
    BY <1>4, <1>5, <1>6 DEF Moves
  <1>8. Unjournaled => DriftOf(disk, t, live)
    BY <1>2, <1>4, <1>5, <1>6 DEF Drift, DriftOf, Moves
  <1> QED BY <1>3, <1>7, <1>8, CommitMoves

\* A snapshot that holds a prepared Start is planned or lowering.
LEMMA StartStatus ==
    ASSUME NEW t, NEW L, Sound(t, L), t.pending.op = "Start"
    PROVE  StatusOf(t) = IF t.aborting THEN "lowering" ELSE "planned"
  BY DEF Sound, Shape, ActionShape, StatusOf

LEMMA BeginAbortMoves ==
    ASSUME Inv, Inv', Drift, NEW ok \in BOOLEAN, BeginPartialStartAbort(ok)
    PROVE  Moved /\ Drift'
  <1> DEFINE t == [s EXCEPT !.aborting = TRUE, !.abortReceipts = <<>>,
                            !.abortUncertain = NoOwner]
  <1>1. s \in States /\ Sound(s, live)
    BY DEF Inv, Sound, Shape
  <1>2. /\ t.phase = s.phase /\ t.pending = s.pending /\ t.completedAbort = s.completedAbort
        /\ t.aborting = TRUE
    BY <1>1 DEF States
  <1>3. /\ Commit(t, ok) /\ UNCHANGED <<journaled, cleanupOnly, live>>
        /\ s.pending.op = "Start" /\ ~s.aborting
    BY DEF BeginPartialStartAbort
  <1> HIDE DEF t
  <1>4. StatusOf(s) = "planned" /\ s.phase = "Planned" /\ s.completedAbort = NoAbort
    BY <1>1, <1>3, StartStatus DEF Sound, Shape, ActionShape
  <1>5. StatusOf(t) = "lowering"
    BY <1>2, <1>3, <1>4 DEF StatusOf
  <1>6. Moves(StatusOf(s), StatusOf(t), live)
    BY <1>4, <1>5 DEF Moves
  <1>7. ASSUME Unjournaled PROVE DriftOf(disk, t, live)
    <2>1. disk.pending.op = "Start" /\ Sound(disk, live)
      BY <1>3, <1>7 DEF Drift, DriftOf, Inv, Unjournaled
    <2>2. StatusOf(disk) \in {"planned", "lowering"}
      BY <2>1, StartStatus
    <2> QED BY <1>2, <1>3, <1>5, <2>1, <2>2 DEF DriftOf, Moves
  <1> QED BY <1>3, <1>6, <1>7, CommitMoves
LEMMA FinalizeMoves ==
    ASSUME Inv, Inv', Drift, NEW ok \in BOOLEAN, FinalizePartialStartAbort(ok)
    PROVE  Moved /\ Drift'
  <1> DEFINE a == [id |-> s.pending.id, started |-> s.receipts, uncertain |-> s.uncertain,
                   rollback |-> s.abortReceipts]
             t == [s EXCEPT !.completedAbort = a, !.aborted = @ \cup {s.pending.id},
                     !.pending = NoAction, !.receipts = <<>>, !.uncertain = NoOwner,
                     !.abortReceipts = <<>>, !.abortUncertain = NoOwner, !.aborting = FALSE]
  <1>1. s \in States /\ Sound(s, live) /\ AbortShape(s) /\ ActionShape(s)
    BY DEF Inv, Sound, Shape
  <1>2. t.phase = s.phase /\ t.pending = NoAction /\ t.completedAbort = a
    BY <1>1 DEF States
  <1>3. /\ Commit(t, ok) /\ UNCHANGED <<journaled, cleanupOnly, live>>
        /\ s.aborting /\ Len(s.abortReceipts) = Len(PendingAbort(s))
    BY DEF FinalizePartialStartAbort, AbortFinished
  <1>4. live = {} /\ s.pending.op = "Start" /\ s.phase = "Planned"
    BY <1>1, <1>3, FinishedAbortIsEmpty DEF AbortShape, ActionShape
  <1>5. a # NoAbort
    <2>1. s.pending.id \in Ids
      BY <1>1, <1>4, PendingFacts
    <2> QED BY <2>1, NoneAssumption DEF NoAbort
  <1> HIDE DEF t, a
  <1>6. StatusOf(s) = "lowering"
    BY <1>1, <1>3, <1>4, StartStatus
  <1>7. StatusOf(t) = "aborted"
    BY <1>2, <1>4, <1>5, SMTT(30) DEF StatusOf, NoAction
  <1>8. Moves(StatusOf(s), StatusOf(t), live)
    BY <1>4, <1>6, <1>7 DEF Moves
  <1>9. ASSUME Unjournaled PROVE DriftOf(disk, t, live)
    <2>1. disk.pending.op = "Start" /\ Sound(disk, live)
      BY <1>4, <1>9 DEF Drift, DriftOf, Inv, Unjournaled
    <2>2. StatusOf(disk) \in {"planned", "lowering"}
      BY <2>1, StartStatus
    <2> QED BY <1>2, <1>4, <1>7, <2>1, <2>2, SMTT(30) DEF DriftOf, Moves, NoAction
  <1> QED BY <1>3, <1>8, <1>9, CommitMoves

LEMMA ApplyMoves ==
    ASSUME Inv, Inv', Drift, NEW ok \in BOOLEAN, ApplyRecordedOwnerCompletions(ok)
    PROVE  Moved /\ Drift'
  <1>1. s \in States /\ Sound(s, live) /\ ActionShape(s)
    BY DEF Inv, Sound, Shape
  <1>2. /\ UNCHANGED <<journaled, cleanupOnly, live>> /\ Commit(s', ok)
        /\ s.pending # NoAction /\ ~s.aborting /\ Executed(s.pending.op, s.phase)
        /\ s.receipts = OwnerActions(s.pending)
        /\ cleanupOnly => s.pending.op = "Stop"
    BY DEF ApplyRecordedOwnerCompletions, Commit, ValidCompletions, OwnerActions
  <1>3. /\ s'.phase = IF s.pending.op = "Start" THEN "SourcesStarted" ELSE "Stopped"
        /\ s'.pending = NoAction
    BY <1>1 DEF ApplyRecordedOwnerCompletions, Commit, States
  <1>4. /\ s.pending.op = "Start" => live = Owners
        /\ s.pending.op = "Stop" => live = {}
    BY <1>1, <1>2, CompleteActionIsTotal
  <1>5. CASE s.pending.op = "Start"
    <2>1. StatusOf(s) = "planned"
      BY <1>1, <1>2, <1>5, StartStatus
    <2>2. StatusOf(s') = "started"
      BY <1>3, <1>5, SMTT(30) DEF StatusOf, NoAction
    <2>3. Moves(StatusOf(s), StatusOf(s'), live)
      BY <1>4, <1>5, <2>1, <2>2 DEF Moves
    <2>4. ~Unjournaled
      BY <1>2, <1>5 DEF Unjournaled
    <2> QED BY <1>2, <2>3, <2>4, CommitMoves
  <1>6. CASE s.pending.op = "Stop"
    <2>1. StatusOf(s) = "lowering"
      BY <1>2, <1>6 DEF Executed, StatusOf
    <2>2. StatusOf(s') = "stopped"
      BY <1>3, <1>6 DEF StatusOf
    <2>3. Moves(StatusOf(s), StatusOf(s'), live)
      BY <1>4, <1>6, <2>1, <2>2 DEF Moves
    <2>4. s.receipts # <<>>
      <3>1. s.receipts = StopOrder
        BY <1>2, <1>6 DEF OwnerActions
      <3> QED BY <3>1, Orders, Empty, OwnersAssumption
    <2>5. ASSUME Unjournaled PROVE DriftOf(disk, s', live)
      <3>1. disk.pending.op = "Stop"
        BY <1>6, <2>4, <2>5 DEF Drift, DriftOf
      <3>2. StatusOf(disk) \in {"lowering", "stopped"}
        BY <3>1 DEF StatusOf
      <3> QED BY <1>3, <1>4, <1>6, <2>2, <3>2, SMTT(30) DEF DriftOf, Moves, NoAction
    <2> QED BY <1>2, <2>3, <2>5, CommitMoves
  <1> QED BY <1>1, <1>2, <1>5, <1>6, PendingFacts

LEMMA OwnerHandlersMove ==
    ASSUME Inv, Inv', Drift, NEW ok \in BOOLEAN,
           \/ CompleteOwner(ok) \/ CompleteUncertainStopOwner(ok)
           \/ CompleteNextAbortOwner(ok)
    PROVE  Moved /\ Drift'
  <1>0. s \in States
    BY DEF Inv, Sound, Shape
  <1>1. CASE CompleteOwner(ok)
    <2> DEFINE t == [s EXCEPT !.uncertain = OwnerActions(s.pending)[Len(s.receipts) + 1]]
    <2>1. SameStatus(t) /\ t.receipts = s.receipts
      BY <1>0 DEF States, SameStatus
    <2>2. Commit(t, ok) /\ UNCHANGED <<journaled, cleanupOnly, live>>
      BY <1>1 DEF CompleteOwner, Begin
    <2> HIDE DEF t
    <2> QED BY <2>1, <2>2, SameStatusMoves
  <1>2. CASE CompleteUncertainStopOwner(ok)
    <2>1. Commit(s, ok) /\ UNCHANGED <<journaled, cleanupOnly, live>> /\ SameStatus(s)
      BY <1>2 DEF CompleteUncertainStopOwner, Begin, SameStatus
    <2> QED BY <2>1, SameStatusMoves
  <1>3. CASE CompleteNextAbortOwner(ok)
    <2> DEFINE t == [s EXCEPT !.abortUncertain = PendingAbort(s)[Len(s.abortReceipts) + 1]]
    <2>1. SameStatus(t) /\ t.receipts = s.receipts
      BY <1>0 DEF States, SameStatus
    <2>2. Commit(t, ok) /\ UNCHANGED <<journaled, cleanupOnly, live>>
      BY <1>3 DEF CompleteNextAbortOwner, Begin
    <2> HIDE DEF t
    <2> QED BY <2>1, <2>2, SameStatusMoves
  <1> QED BY <1>1, <1>2, <1>3

LEMMA ProviderReturnsMoves ==
    ASSUME Inv, Inv', Drift, NEW ok \in BOOLEAN, NEW readback \in Readbacks,
           ProviderReturns(readback, ok)
    PROVE  Moved /\ Drift'
  <1>0. s \in States /\ UNCHANGED <<journaled, cleanupOnly, live>>
    BY DEF Inv, Sound, Shape, ProviderReturns
  <1>1. ~Unjournaled
    <2>1. call # NoCall
      BY SMTT(30) DEF ProviderReturns, NoCall
    <2>2. ~poisoned /\ (journaled \/ ~cleanupOnly)
      BY <2>1 DEF Inv, CallFits
    <2> QED BY <2>2 DEF Unjournaled
  <1>2. CASE UNCHANGED <<s, disk, poisoned>>
    <2>1. Unjournaled' => Unjournaled
      BY <1>0, <1>2 DEF Unjournaled
    <2> QED BY <1>0, <1>2, <2>1, StillMoves
  <1>3. CASE RecordOwner(ok)
    <2> DEFINE t == [s EXCEPT !.receipts = Append(@, call.owner), !.uncertain = NoOwner]
    <2>1. SameStatus(t)
      BY <1>0 DEF States, SameStatus
    <2>2. Commit(t, ok)
      BY <1>3 DEF RecordOwner
    <2> HIDE DEF t
    <2> QED BY <1>0, <1>1, <2>1, <2>2, SameStatusMoves
  <1>4. CASE RecordAbortOwner(ok)
    <2> DEFINE t == [s EXCEPT !.abortReceipts = Append(@, call.owner),
                              !.abortUncertain = NoOwner]
    <2>1. SameStatus(t)
      BY <1>0 DEF States, SameStatus
    <2>2. Commit(t, ok)
      BY <1>4 DEF RecordAbortOwner
    <2> HIDE DEF t
    <2> QED BY <1>0, <1>1, <2>1, <2>2, SameStatusMoves
  <1> QED BY <1>2, <1>3, <1>4 DEF ProviderReturns

LEMMA RestoreMoves == ASSUME Inv, Inv', Restore PROVE Moved /\ Drift'
  <1> DEFINE t == Restored(disk)
  <1>1. disk # NoSnapshot /\ s' = t /\ UNCHANGED <<disk, live>> /\ Sound(disk, live)
    BY DEF Restore, Restorable, Inv
  <1>2. disk \in States
    BY <1>1 DEF Sound, Shape
  <1>3. /\ t.phase = disk.phase /\ t.pending = disk.pending /\ t.receipts = disk.receipts
        /\ t.completedAbort = disk.completedAbort
        /\ t.aborting = (disk.aborting \/ disk.pending.op = "Start")
    BY <1>2 DEF Restored, States
  <1> HIDE DEF t
  <1>4. Moves(StatusOf(disk), StatusOf(t), live)
    <2>1. CASE disk.pending.op = "Start"
      <3>1. StatusOf(disk) \in {"planned", "lowering"}
        BY <1>1, <2>1, StartStatus
      <3>2. StatusOf(t) = "lowering"
        <4>1. disk.phase = "Planned" /\ disk.completedAbort = NoAbort
          BY <1>1, <2>1 DEF Sound, Shape, ActionShape
        <4> QED BY <1>3, <2>1, <4>1 DEF StatusOf
      <3> QED BY <3>1, <3>2 DEF Moves
    <2>2. CASE disk.pending.op # "Start"
      <3>1. StatusOf(t) = StatusOf(disk)
        BY <1>3, <2>2 DEF StatusOf
      <3> QED BY <3>1 DEF Moves
    <2> QED BY <2>1, <2>2
  <1>5. DriftOf(disk, t, live)
    BY <1>3, <1>4 DEF DriftOf
  <1>6. Moved
    BY <1>1 DEF Moved, Moves, Status, Recorded
  <1> QED BY <1>1, <1>5, <1>6 DEF Drift
\* A provider call is one owner of the promise coming up or going down.
LEMMA ProviderActsMoves ==
    ASSUME Inv, Inv', NEW effect \in BOOLEAN, ProviderActs(effect)
    PROVE  [Promise!Next]_<<Status, live>> /\ Drift'
  <1> DEFINE o == call.owner
             layer == [q \in Owners |-> StartRank(q)]
  <1>1. call # NoCall /\ UNCHANGED <<s, disk, journaled, poisoned, cleanupOnly>>
    BY DEF ProviderActs, runtime
  <1>2. o \in Owners /\ o # NoOwner
    BY <1>1, CallOwner, NoneAssumption
  <1>3. Sound(s, live) /\ Cover(s, live) /\ live \subseteq Owners /\ ActionShape(s)
    BY DEF Inv, Sound, Shape, PlainTypes
  <1>4. ~Unjournaled /\ Status = StatusOf(s) /\ Status' = Status
    <2>1. ~poisoned /\ (journaled \/ ~cleanupOnly)
      BY <1>1 DEF Inv, CallFits
    <2>2. Recorded = s
      BY <2>1 DEF Inv, PlainTypes, Recorded
    <2>3. Recorded' = Recorded
      BY <1>1 DEF Recorded
    <2> QED BY <2>1, <2>2, <2>3 DEF Unjournaled, Status
  <1>5. Drift'
    BY <1>1, <1>4 DEF Drift, Unjournaled
  <1>6. ASSUME live' = live PROVE [Promise!Next]_<<Status, live>>
    BY <1>4, <1>6
  <1>7. ASSUME effect /\ Starting /\ o \notin live PROVE Promise!Next
    <2>1. s.pending.op = "Start" /\ ~s.aborting /\ s.uncertain = o /\ s.abortReceipts = <<>>
      BY <1>1, <1>7 DEF Starting, Inv, CallFits, Sound, Shape, AbortShape
    <2>2. Status = "planned"
      BY <1>3, <1>4, <2>1, StartStatus
    <2>3. o \in Obliged(s)
      BY <1>2, <2>1, Empty DEF Obliged
    <2>4. \A p \in Owners : StartRank(p) < StartRank(o) => p \in live
      BY <1>3, <2>3, Layers DEF Cover
    <2>5. \A p \in Owners : layer[p] < layer[o] => p \in live
      BY <1>2, <2>4
    <2>6. live' = live \cup {o}
      BY <1>7 DEF ProviderActs
    <2>7. Promise!Raise(o)
      BY <1>4, <1>7, <2>2, <2>5, <2>6 DEF Promise!Raise
    <2> QED BY <1>2, <2>7 DEF Promise!Next
  <1>8. ASSUME effect /\ ~Starting /\ o \in live PROVE Promise!Next
    <2>1. o \in Obliged(s)
      BY <1>3, <1>8 DEF Cover
    <2>2. /\ IF s.pending.op = "Start" THEN o = s.abortUncertain ELSE o = s.uncertain
          /\ s.pending.op = "Start" => s.aborting
          /\ s.pending.op \in {"Start", "Stop"}
      <3>1. call.kind \in {"execute", "compensate", "reverse", "reverse_uncertain"}
        BY <1>1, CallOwner
      <3>2. CASE call.kind \in {"reverse", "reverse_uncertain"}
        BY <1>1, <3>2 DEF Inv, CallFits, Sound, Shape, AbortShape
      <3>3. CASE call.kind \in {"execute", "compensate"}
        <4>1. /\ s.pending # NoAction /\ s.uncertain = o
              /\ call.kind = "compensate" => s.pending.op = "Stop"
          BY <1>1, <3>3 DEF Inv, CallFits
        <4>2. s.pending.op \in {"Start", "Stop"}
          BY <1>3, <4>1, PendingFacts DEF Sound, Shape
        <4>3. s.pending.op # "Start"
          BY <1>8, <3>3, <4>1 DEF Starting
        <4> QED BY <4>1, <4>2, <4>3
      <3> QED BY <3>1, <3>2, <3>3
    <2>3. Status = "lowering"
      <3>1. CASE s.pending.op = "Start"
        BY <1>3, <1>4, <2>2, <3>1, StartStatus
      <3>2. CASE s.pending.op = "Stop"
        <4>1. s.phase # "Stopped"
          <5>1. s.activeStart # NoId
            BY <1>3, <2>1, <3>2, Empty DEF Sound, Shape, SessionShape, Obliged
          <5> QED BY <1>3, <5>1 DEF Sound, Shape, SessionShape
        <4> QED BY <1>4, <3>2, <4>1 DEF StatusOf
      <3> QED BY <2>2, <3>1, <3>2
    <2>4. \A p \in live : StartRank(p) =< StartRank(o)
      BY <1>2, <1>3, <2>1, <2>2, TopIsLowered DEF Cover
    <2>5. \A p \in live : layer[p] =< layer[o]
      BY <1>2, <1>3, <2>4
    <2>6. live' = live \ {o}
      BY <1>8 DEF ProviderActs
    <2>7. Promise!Lower(o)
      BY <1>4, <1>8, <2>3, <2>5, <2>6 DEF Promise!Lower
    <2> QED BY <1>2, <2>7 DEF Promise!Next
  <1>9. live' = live \/ (effect /\ Starting /\ o \notin live) \/ (effect /\ ~Starting /\ o \in live)
    BY DEF ProviderActs
  <1> QED BY <1>5, <1>6, <1>7, <1>8, <1>9

LEMMA MovedIsAStep == Moved => [Promise!Next]_<<Status, live>>
  <1> SUFFICES ASSUME Moved, Status' # Status
               PROVE  /\ live' = live
                      /\ \/ Promise!Started \/ Promise!BeginLowering
                         \/ Promise!Aborted \/ Promise!Stopped
    BY DEF Moved, Promise!Next
  <1> QED BY DEF Moved, Moves, Promise!Started, Promise!BeginLowering, Promise!Aborted,
              Promise!Stopped

LEMMA NextMoves ==
    Inv /\ Inv' /\ Drift /\ [Next]_vars => [Promise!Next]_<<Status, live>> /\ Drift'
  <1> SUFFICES ASSUME Inv, Inv', Drift, [Next]_vars
               PROVE  [Promise!Next]_<<Status, live>> /\ Drift'
    OBVIOUS
  <1> DEFINE Good == [Promise!Next]_<<Status, live>> /\ Drift'
  <1>0. ASSUME Moved /\ Drift' PROVE Good
    BY <1>0, MovedIsAStep
  <1>1. ASSUME NEW ok \in BOOLEAN, InstallJournal(ok) PROVE Good
    BY <1>0, <1>1, InstallJournalMoves
  <1>2. ASSUME NEW ok \in BOOLEAN, AdoptRenewal(ok) PROVE Good
    <2>1. Commit(s, ok) /\ UNCHANGED <<journaled, cleanupOnly, live>> /\ SameStatus(s)
      BY <1>2 DEF AdoptRenewal, SameStatus
    <2> QED BY <1>0, <2>1, SameStatusMoves
  <1>3. ASSUME NEW ok \in BOOLEAN, NEW id \in Ids, NEW op \in {"Start", "Stop"},
               Prepare(op, id, ok)
        PROVE  Good
    BY <1>0, <1>3, PrepareMoves
  <1>4. ASSUME NEW ok \in BOOLEAN, NEW id \in Ids, PrepareTrustedRevokerCleanup(id, ok)
        PROVE  Good
    BY <1>0, <1>4, TrustedCleanupMoves
  <1>5. ASSUME NEW ok \in BOOLEAN,
               \/ CompleteOwner(ok) \/ CompleteUncertainStopOwner(ok)
               \/ CompleteNextAbortOwner(ok)
        PROVE  Good
    BY <1>0, <1>5, OwnerHandlersMove
  <1>6. ASSUME NEW ok \in BOOLEAN, NEW readback \in Readbacks, ProviderReturns(readback, ok)
        PROVE  Good
    BY <1>0, <1>6, ProviderReturnsMoves
  <1>7. ASSUME NEW ok \in BOOLEAN,
               \/ BeginPartialStartAbort(ok) \/ FinalizePartialStartAbort(ok)
               \/ ApplyRecordedOwnerCompletions(ok)
        PROVE  Good
    BY <1>0, <1>7, BeginAbortMoves, FinalizeMoves, ApplyMoves
  <1>8. ASSUME NEW op \in {"Start", "Stop"}, NEW id \in Ids, PrepareWithLiveAuthority(op, id)
        PROVE  Good
    BY <1>0, <1>8, PrepareWithLiveAuthorityMoves
  <1>9. ASSUME NEW flag \in BOOLEAN, ProviderActs(flag) PROVE Good
    BY <1>9, ProviderActsMoves
  <1>10. ASSUME \/ \E flag \in BOOLEAN : RevalidateRecoveredReceipts(flag)
                \/ ProviderFails \/ Crash \/ AuthorityChanges \/ UNCHANGED vars
         PROVE  Good
    <2>1. UNCHANGED <<s, disk, live, journaled, poisoned, cleanupOnly>>
      BY <1>10 DEF RevalidateRecoveredReceipts, ProviderFails, Crash, AuthorityChanges,
                   runtime, vars
    <2>2. Unjournaled' => Unjournaled
      BY <2>1 DEF Unjournaled
    <2> QED BY <1>0, <2>1, <2>2, StillMoves
  <1>11. ASSUME Restore PROVE Good
    BY <1>0, <1>11, RestoreMoves
  <1> HIDE DEF Good
  <1>12. Good
    BY <1>1, <1>2, <1>3, <1>4, <1>5, <1>6, <1>7, <1>8, <1>9, <1>10, <1>11 DEF Next
  <1> QED BY <1>12 DEF Good

\* A new runtime is a planned session with nothing in place.
LEMMA StartsPromised == Init => Promise!Init /\ Drift
  <1> SUFFICES ASSUME Init PROVE Promise!Init /\ Drift
    OBVIOUS
  <1>1. ~Unjournaled
    BY DEF Init, Unjournaled
  <1>2. Recorded = NewRuntime
    BY DEF Init, Recorded
  <1>3. /\ NewRuntime.phase = "Planned" /\ NewRuntime.pending = NoAction
        /\ NewRuntime.completedAbort = NoAbort /\ ~NewRuntime.aborting
        /\ NewRuntime.active = <<>>
    BY DEF NewRuntime
  <1>4. Status = "planned"
    BY <1>2, <1>3, SMTT(30) DEF Status, StatusOf, NoAction
  <1>5. Promise!Init
    BY <1>4 DEF Promise!Init, Init
  <1> QED BY <1>1, <1>5 DEF Drift

\* The product runtime implements the all-or-nothing session: read through its
\* journal, every step of it, failed commits, deaths and restores included, is a
\* step of AllOrNothing or none.
THEOREM PromiseIsKept == Spec => KeepsPromise
  BY StartsPromised, NextMoves, SpecInv, PTL DEF Spec, KeepsPromise, Promise!Spec
-----------------------------------------------------------------------------
(* The broker *)

\* Where the broker is in its call agrees with what the runtime has pending: between
\* calls no owner is being asked, a forward loop runs over a prepared action, a
\* backward one over a rollback, and a loop that failed asks no owner any more.
Serving ==
    Broker =>
        /\ up /\ ~journaled /\ ~poisoned /\ ~cleanupOnly
        /\ drv.pc \in {"idle", "forward", "back"}
        /\ drv.pc = "idle" \/ drv.failed => call = NoCall
        /\ drv.pc = "forward" => s.pending # NoAction /\ ~s.aborting
        /\ drv.pc = "back" => s.pending.op = "Start" /\ s.aborting
DrvTypes == drv \in [pc : {"absent", "idle", "forward", "back"}, failed : BOOLEAN,
                     reply : {"none", "started", "stopped", "retained", "aborted",
                              "abort_failed"}]
BrokerInv == Inv /\ DrvTypes /\ Serving /\ ReplyIsTrue

\* What the broker's calls begin and end with.
LEMMA DrvFields ==
    /\ \A reply : Idle(reply).pc = "idle" /\ Idle(reply).reply = reply
    /\ \A pc : Running(pc).pc = pc /\ ~Running(pc).failed
  BY DEF Idle, Running

\* The types of the broker's call.
LEMMA DrvValues ==
    /\ \A reply \in {"none", "started", "stopped", "retained", "aborted", "abort_failed"} :
          Idle(reply) \in [pc : {"absent", "idle", "forward", "back"}, failed : BOOLEAN,
                           reply : {"none", "started", "stopped", "retained", "aborted",
                                    "abort_failed"}]
    /\ \A pc \in {"absent", "forward", "back"} :
          Running(pc) \in [pc : {"absent", "idle", "forward", "back"}, failed : BOOLEAN,
                           reply : {"none", "started", "stopped", "retained", "aborted",
                                    "abort_failed"}]
  BY DEF Idle, Running

\* stop_media_session ends the authority and prepares the Stop in one call, which
\* the runtime's own interface does in two.
LEMMA StopMediaSessionInv ==
    ASSUME Inv, NEW id \in Ids, StopMediaSession(id)
    PROVE  Inv'
  <1>1. /\ Ready /\ ReviewPrepare("Stop", id) /\ Commit(Prepared("Stop", id), TRUE)
        /\ authority' = "ended"
        /\ UNCHANGED <<journaled, cleanupOnly, revalidated, call, up, crashes, live>>
    BY DEF StopMediaSession, rest
  <1>2. Sound(Prepared("Stop", id), live)
    BY <1>1, ReviewedIsSound
  <1>3. JournalInv' /\ poisoned' \in BOOLEAN
    BY <1>1, <1>2, CommitInv
  <1>4. PlainTypes'
    BY <1>1, <1>3 DEF Inv, PlainTypes
  <1>5. CallFits'
    BY <1>1 DEF Ready, CallFits
  <1> QED BY <1>3, <1>4, <1>5 DEF Inv, JournalInv

\* Apart from that one, every step of the broker is a step of the runtime.
LEMMA BrokerSteps ==
    ASSUME BrokerNext
    PROVE  [Next]_vars \/ \E id \in Ids : StopMediaSession(id)
  <1>1. ASSUME NEW id \in Ids, StartMediaSession(id) PROVE Next
    BY <1>1 DEF StartMediaSession, Next
  <1>2. ASSUME NEW id \in Ids, PrepareRevokerCleanup(id) PROVE Next
    BY <1>2 DEF PrepareRevokerCleanup, Next
  <1>3. ASSUME ReviewRevokerCleanup PROVE AuthorityChanges
    BY <1>3 DEF ReviewRevokerCleanup, AuthorityChanges
  <1>4. ASSUME AuthorityEnds PROVE AuthorityChanges
    BY <1>4 DEF AuthorityEnds, AuthorityChanges
  <1>5. ASSUME Complete \/ ResumeAbort \/ Refuses \/ BackFails PROVE UNCHANGED vars
    BY <1>5 DEF Complete, ResumeAbort, Refuses, BackFails
  <1>6. ASSUME ForwardOwner \/ BackOwner PROVE Next
    BY <1>6 DEF ForwardOwner, BackOwner, Next
  <1>7. ASSUME Apply \/ Finalize PROVE Next
    BY <1>7 DEF Apply, Finalize, Next
  <1>8. ASSUME ForwardFails PROVE [Next]_vars
    BY <1>8 DEF ForwardFails, Next
  <1>9. ASSUME NEW readback \in Readbacks, Returns(readback) PROVE Next
    BY <1>9 DEF Returns, Next
  <1>10. ASSUME NEW effect \in BOOLEAN, Acts(effect) PROVE Next
    BY <1>10 DEF Acts, Next
  <1>11. ASSUME Fails \/ AnyHost PROVE Next
    BY <1>11 DEF Fails, AnyHost, Next
  <1>12. AuthorityChanges => Next
    BY DEF Next
  <1> QED BY <1>1, <1>2, <1>3, <1>4, <1>5, <1>6, <1>7, <1>8, <1>9, <1>10, <1>11, <1>12
       DEF BrokerNext, Driving

\* The broker keeps the runtime's invariant.
LEMMA BrokerKeepsInv == Inv /\ [BrokerNext]_brokerVars => Inv'
  <1>1. ASSUME Inv, UNCHANGED brokerVars PROVE Inv'
    BY <1>1, NextInv DEF brokerVars
  <1>2. ASSUME Inv, BrokerNext PROVE Inv'
    BY <1>2, BrokerSteps, NextInv, StopMediaSessionInv
  <1> QED BY <1>1, <1>2

\* Without a journal a commit only writes memory.
LEMMA BrokerCommits ==
    ASSUME Serving, Broker, NEW t, Commit(t, TRUE)
    PROVE  s' = t /\ ~poisoned'
  BY DEF Serving, Commit

\* What a step keeps of Serving and of the reply when it leaves the call as it was.
LEMMA CallKept ==
    ASSUME Serving, ReplyIsTrue, DrvTypes,
           UNCHANGED <<s, call, up, journaled, poisoned, cleanupOnly, live, drv>>
    PROVE  Serving' /\ ReplyIsTrue' /\ DrvTypes'
  BY DEF Serving, Broker, ReplyIsTrue, DrvTypes

\* A call of the broker that returns.
LEMMA CallReturns ==
    ASSUME Serving, Broker, call' = NoCall, ~poisoned',
           UNCHANGED <<up, journaled, cleanupOnly>>,
           NEW reply \in {"none", "started", "stopped", "retained", "aborted", "abort_failed"},
           drv' = Idle(reply),
           reply \in {"aborted", "stopped"} => live' = {},
           reply = "started" => live' = Owners,
           s'.pending.op = "Start" =>
              s'.aborting \/ (s'.receipts = <<>> /\ s'.uncertain = NoOwner /\ live' = {})
    PROVE  Serving' /\ ReplyIsTrue' /\ DrvTypes'
  <1>1. drv'.pc = "idle" /\ drv'.reply = reply
    BY DrvFields
  <1>2. DrvTypes'
    BY DrvValues DEF DrvTypes
  <1>3. Serving'
    BY <1>1 DEF Serving
  <1>4. ReplyIsTrue'
    BY <1>1 DEF ReplyIsTrue
  <1> QED BY <1>2, <1>3, <1>4

\* A prepared Start that asked no owner has none in place.
LEMMA NothingAsked ==
    ASSUME NEW t, NEW L, Sound(t, L), t.pending.op = "Start", t.receipts = <<>>,
           t.uncertain = NoOwner
    PROVE  L = {}
  <1>1. Obliged(t) = {}
    BY Empty DEF Obliged
  <1> QED BY <1>1 DEF Sound, Cover

\* The calls that prepare an action.
LEMMA PreparingServes ==
    ASSUME BrokerInv, Inv', NEW id \in Ids,
           StartMediaSession(id) \/ StopMediaSession(id) \/ PrepareRevokerCleanup(id)
    PROVE  Serving' /\ ReplyIsTrue' /\ DrvTypes'
  <1>0. Inv /\ Serving /\ Broker /\ s \in States
    BY DEF BrokerInv, Inv, Sound, Shape, Broker, StartMediaSession, StopMediaSession,
           PrepareRevokerCleanup
  <1>1. ASSUME StartMediaSession(id) PROVE Serving' /\ ReplyIsTrue' /\ DrvTypes'
    <2>1. /\ Commit(Prepared("Start", id), TRUE) /\ Ready /\ drv' = Idle("none")
          /\ UNCHANGED <<journaled, cleanupOnly, call, up, live>>
      BY <1>1 DEF StartMediaSession, Prepare
    <2>2. s' = Prepared("Start", id) /\ ~poisoned' /\ call' = NoCall
      BY <1>0, <2>1, BrokerCommits DEF Ready
    <2>3. s'.receipts = <<>> /\ s'.uncertain = NoOwner
      BY <1>0, <2>2, PreparedFields
    <2>4. s'.pending.op = "Start" => live' = {}
      BY <2>3, NothingAsked DEF Inv
    <2> QED BY <1>0, <2>1, <2>2, <2>3, <2>4, CallReturns
  <1>2. ASSUME StopMediaSession(id) PROVE Serving' /\ ReplyIsTrue' /\ DrvTypes'
    <2>1. /\ Commit(Prepared("Stop", id), TRUE) /\ Ready /\ drv' = Idle("none")
          /\ UNCHANGED <<journaled, cleanupOnly, call, up, live>>
      BY <1>2 DEF StopMediaSession, rest
    <2>2. s' = Prepared("Stop", id) /\ ~poisoned' /\ call' = NoCall
      BY <1>0, <2>1, BrokerCommits DEF Ready
    <2>3. Prepared("Stop", id).pending.op = "Stop"
      BY <1>0 DEF Prepared, States
    <2>4. s'.pending.op # "Start"
      BY <2>2, <2>3
    <2> QED BY <1>0, <2>1, <2>2, <2>4, CallReturns
  <1>3. ASSUME PrepareRevokerCleanup(id) PROVE Serving' /\ ReplyIsTrue' /\ DrvTypes'
    <2> DEFINE a == [op |-> "Stop", id |-> id, trusted |-> TRUE]
               t == [s EXCEPT !.pending = a, !.receipts = <<>>, !.uncertain = NoOwner]
    <2>1. /\ Commit(t, TRUE) /\ Ready /\ drv' = Idle("none")
          /\ UNCHANGED <<journaled, cleanupOnly, call, up, live>>
      BY <1>3 DEF PrepareRevokerCleanup, PrepareTrustedRevokerCleanup
    <2>2. t.pending.op # "Start"
      BY <1>0 DEF States
    <2> HIDE DEF t
    <2>3. s' = t /\ ~poisoned' /\ call' = NoCall
      BY <1>0, <2>1, BrokerCommits DEF Ready
    <2> QED BY <1>0, <2>1, <2>2, <2>3, CallReturns
  <1> QED BY <1>1, <1>2, <1>3

\* The calls that take up a prepared action or a rollback.
LEMMA BeginningServes ==
    ASSUME BrokerInv, Complete \/ ResumeAbort
    PROVE  Serving' /\ ReplyIsTrue' /\ DrvTypes'
  <1>1. /\ Broker /\ UNCHANGED vars
        /\ \/ drv' = Running("forward") /\ s.pending # NoAction /\ ~s.aborting
           \/ drv' = Running("back") /\ s.pending.op = "Start" /\ s.aborting
    BY DEF Complete, ResumeAbort, Broker
  <1>2. UNCHANGED <<s, call, up, journaled, poisoned, cleanupOnly, live>>
    BY <1>1 DEF vars
  <1>3. DrvTypes'
    BY <1>1, DrvValues DEF DrvTypes
  <1>4. ~drv'.failed /\ drv'.pc \in {"forward", "back"}
    BY <1>1, DrvFields
  <1>5. /\ Running("forward").pc = "forward" /\ "forward" # "back"
        /\ Running("back").pc = "back"
    BY DrvFields
  <1>6. /\ drv'.pc = "forward" => s.pending # NoAction /\ ~s.aborting
        /\ drv'.pc = "back" => s.pending.op = "Start" /\ s.aborting
    BY <1>1, <1>5
  <1>7. Serving'
    BY <1>1, <1>2, <1>4, <1>6 DEF BrokerInv, Serving
  <1>8. ReplyIsTrue'
    BY <1>4 DEF ReplyIsTrue
  <1> QED BY <1>3, <1>7, <1>8

\* A step inside a loop of the broker.
LEMMA LoopGoesOn ==
    ASSUME BrokerInv, Broker, drv.pc # "idle", drv'.pc = drv.pc, DrvTypes',
           drv'.failed => call' = NoCall,
           s'.pending = s.pending, s'.aborting = s.aborting, ~poisoned',
           UNCHANGED <<up, journaled, cleanupOnly>>
    PROVE  Serving' /\ ReplyIsTrue' /\ DrvTypes'
  <1>1. Serving'
    BY DEF BrokerInv, Serving
  <1>2. ReplyIsTrue'
    BY DEF ReplyIsTrue
  <1> QED BY <1>1, <1>2

\* The next owner of either loop is named and asked.
LEMMA AskingServes ==
    ASSUME BrokerInv, ForwardOwner \/ BackOwner
    PROVE  Serving' /\ ReplyIsTrue' /\ DrvTypes'
  <1>0. /\ Serving /\ Broker /\ s \in States /\ drv.pc # "idle" /\ ~drv.failed
        /\ drv' = drv /\ DrvTypes'
    BY DEF BrokerInv, Inv, Sound, Shape, Broker, ForwardOwner, BackOwner, DrvTypes
  <1>1. ASSUME NEW kind, NEW o, NEW t, Begin(kind, o, t, TRUE), t.pending = s.pending,
               t.aborting = s.aborting
        PROVE  Serving' /\ ReplyIsTrue' /\ DrvTypes'
    <2>1. Commit(t, TRUE) /\ UNCHANGED <<up, journaled, cleanupOnly>>
      BY <1>1 DEF Begin
    <2>2. s' = t /\ ~poisoned'
      BY <1>0, <2>1, BrokerCommits
    <2> QED BY <1>0, <1>1, <2>1, <2>2, LoopGoesOn
  <1>2. ASSUME CompleteOwner(TRUE) PROVE Serving' /\ ReplyIsTrue' /\ DrvTypes'
    <2> DEFINE o == OwnerActions(s.pending)[Len(s.receipts) + 1]
               t == [s EXCEPT !.uncertain = o]
    <2>1. Begin("execute", o, t, TRUE)
      BY <1>2 DEF CompleteOwner
    <2>2. t.pending = s.pending /\ t.aborting = s.aborting
      BY <1>0 DEF States
    <2> HIDE DEF t, o
    <2> QED BY <1>1, <2>1, <2>2
  <1>3. ASSUME CompleteUncertainStopOwner(TRUE) PROVE Serving' /\ ReplyIsTrue' /\ DrvTypes'
    BY <1>1, <1>3 DEF CompleteUncertainStopOwner
  <1>4. ASSUME CompleteNextAbortOwner(TRUE) PROVE Serving' /\ ReplyIsTrue' /\ DrvTypes'
    <2> DEFINE o == PendingAbort(s)[Len(s.abortReceipts) + 1]
               t == [s EXCEPT !.abortUncertain = o]
    <2>1. PICK kind : Begin(kind, o, t, TRUE)
      BY <1>4 DEF CompleteNextAbortOwner
    <2>2. t.pending = s.pending /\ t.aborting = s.aborting
      BY <1>0 DEF States
    <2> HIDE DEF t, o
    <2> QED BY <1>1, <2>1, <2>2
  <1> QED BY <1>2, <1>3, <1>4 DEF ForwardOwner, BackOwner

\* The owner answers, fails, or refuses to be asked.
LEMMA AnswersServe ==
    ASSUME BrokerInv,
           \/ \E readback \in Readbacks : Returns(readback)
           \/ \E effect \in BOOLEAN : Acts(effect)
           \/ Fails \/ Refuses
    PROVE  Serving' /\ ReplyIsTrue' /\ DrvTypes'
  <1>0. Inv /\ Serving /\ Broker /\ s \in States /\ DrvTypes
    BY DEF BrokerInv, Inv, Sound, Shape, Broker, Returns, Acts, Fails, Refuses
  <1>1. ~NoCall.returned
    BY DEF NoCall
  <1>2. \A b \in BOOLEAN : [drv EXCEPT !.failed = b].pc = drv.pc
    BY <1>0 DEF DrvTypes
  <1>3. ASSUME NEW b \in BOOLEAN, drv' = [drv EXCEPT !.failed = b] PROVE DrvTypes'
    BY <1>0, <1>3 DEF DrvTypes
  <1>4. ASSUME NEW readback \in Readbacks, Returns(readback)
        PROVE  Serving' /\ ReplyIsTrue' /\ DrvTypes'
    <2>1. /\ call.returned /\ call' = NoCall /\ UNCHANGED <<up, journaled, cleanupOnly>>
          /\ drv' = [drv EXCEPT !.failed = (s' = s)]
      BY <1>4 DEF Returns, ProviderReturns
    <2>2. drv.pc # "idle"
      BY <1>0, <1>1, <2>1 DEF Serving
    <2>3. drv'.pc = drv.pc /\ DrvTypes'
      BY <1>2, <1>3, <2>1
    <2>4. s'.pending = s.pending /\ s'.aborting = s.aborting /\ ~poisoned'
      <3>1. CASE UNCHANGED <<s, disk, poisoned>>
        BY <1>0, <3>1 DEF Serving
      <3>2. CASE RecordAbortOwner(TRUE)
        <4> DEFINE t == [s EXCEPT !.abortReceipts = Append(@, call.owner),
                                  !.abortUncertain = NoOwner]
        <4>1. Commit(t, TRUE)
          BY <3>2 DEF RecordAbortOwner
        <4>2. t.pending = s.pending /\ t.aborting = s.aborting
          BY <1>0 DEF States
        <4> HIDE DEF t
        <4> QED BY <1>0, <4>1, <4>2, BrokerCommits
      <3>3. CASE RecordOwner(TRUE)
        <4> DEFINE t == [s EXCEPT !.receipts = Append(@, call.owner), !.uncertain = NoOwner]
        <4>1. Commit(t, TRUE)
          BY <3>3 DEF RecordOwner
        <4>2. t.pending = s.pending /\ t.aborting = s.aborting
          BY <1>0 DEF States
        <4> HIDE DEF t
        <4> QED BY <1>0, <4>1, <4>2, BrokerCommits
      <3> QED BY <1>4, <3>1, <3>2, <3>3 DEF Returns, ProviderReturns
    <2> QED BY <1>0, <2>1, <2>2, <2>3, <2>4, LoopGoesOn
  <1>5. ASSUME NEW effect \in BOOLEAN, Acts(effect)
        PROVE  Serving' /\ ReplyIsTrue' /\ DrvTypes'
    <2>1. /\ call # NoCall /\ drv' = drv
          /\ UNCHANGED <<s, up, journaled, poisoned, cleanupOnly>>
      BY <1>5 DEF Acts, ProviderActs, runtime
    <2>2. drv.pc # "idle" /\ ~drv.failed /\ DrvTypes'
      BY <1>0, <2>1 DEF Serving, DrvTypes
    <2> QED BY <1>0, <2>1, <2>2, LoopGoesOn DEF Serving
  <1>6. ASSUME Fails PROVE Serving' /\ ReplyIsTrue' /\ DrvTypes'
    <2>1. /\ call.returned /\ call' = NoCall /\ drv' = [drv EXCEPT !.failed = TRUE]
          /\ UNCHANGED <<s, up, journaled, poisoned, cleanupOnly>>
      BY <1>6 DEF Fails, ProviderFails, runtime
    <2>2. drv.pc # "idle"
      BY <1>0, <1>1, <2>1 DEF Serving
    <2>3. drv'.pc = drv.pc /\ DrvTypes'
      BY <1>2, <1>3, <2>1
    <2> QED BY <1>0, <2>1, <2>2, <2>3, LoopGoesOn DEF Serving
  <1>7. ASSUME Refuses PROVE Serving' /\ ReplyIsTrue' /\ DrvTypes'
    <2>1. /\ drv.pc = "forward" /\ call = NoCall /\ drv' = [drv EXCEPT !.failed = TRUE]
          /\ UNCHANGED <<s, call, up, journaled, poisoned, cleanupOnly>>
      BY <1>7 DEF Refuses, Ready, vars
    <2>2. drv'.pc = drv.pc /\ DrvTypes'
      BY <1>2, <1>3, <2>1
    <2> QED BY <1>0, <2>1, <2>2, LoopGoesOn DEF Serving
  <1> QED BY <1>4, <1>5, <1>6, <1>7

\* The loops end: the action is applied, rolled back, kept, or its rollback is.
LEMMA EndingServes ==
    ASSUME BrokerInv, Apply \/ Finalize \/ ForwardFails \/ BackFails
    PROVE  Serving' /\ ReplyIsTrue' /\ DrvTypes'
  <1>0. Inv /\ Serving /\ Broker /\ s \in States /\ Sound(s, live)
    BY DEF BrokerInv, Inv, Sound, Shape, Broker, Apply, Finalize, ForwardFails, BackFails
  <1>1. NoAction.op = "none" /\ NoAction \in Actions
    BY DEF NoAction, Actions
  <1>2. ASSUME Apply PROVE Serving' /\ ReplyIsTrue' /\ DrvTypes'
    <2> DEFINE start == s.pending.op = "Start"
               reply == IF start THEN "started" ELSE "stopped"
               t == [s EXCEPT
                       !.phase = IF start THEN "SourcesStarted" ELSE "Stopped",
                       !.applied = @ \cup {s.pending.id},
                       !.activeStart = IF start THEN s.pending.id ELSE NoId,
                       !.active = IF start THEN s.receipts ELSE <<>>,
                       !.pending = NoAction, !.receipts = <<>>]
    <2>1. /\ Commit(t, TRUE) /\ call = NoCall /\ drv' = Idle(reply)
          /\ UNCHANGED <<journaled, cleanupOnly, call, up, live>>
          /\ s.pending # NoAction /\ ~s.aborting /\ s.receipts = OwnerActions(s.pending)
      BY <1>2 DEF Apply, ApplyRecordedOwnerCompletions, ValidCompletions, OwnerActions, Ready
    <2>2. t.pending = NoAction
      BY <1>0 DEF States
    <2> HIDE DEF t
    <2>3. s' = t /\ ~poisoned'
      BY <1>0, <2>1, BrokerCommits
    <2>4. (start => live = Owners) /\ (s.pending.op = "Stop" => live = {})
      BY <1>0, <2>1, CompleteActionIsTotal
    <2>5. s.pending.op \in {"Start", "Stop"}
      BY <1>0, <2>1, PendingFacts
    <2>6. /\ reply \in {"started", "stopped"}
          /\ reply = "started" => live' = Owners
          /\ reply = "stopped" => live' = {}
      BY <2>1, <2>4, <2>5
    <2> HIDE DEF reply
    <2>7. s'.pending.op # "Start"
      BY <1>1, <2>2, <2>3
    <2> QED BY <1>0, <2>1, <2>3, <2>6, <2>7, CallReturns
  <1>3. ASSUME Finalize PROVE Serving' /\ ReplyIsTrue' /\ DrvTypes'
    <2> DEFINE record == [id |-> s.pending.id, started |-> s.receipts,
                          uncertain |-> s.uncertain, rollback |-> s.abortReceipts]
               t == [s EXCEPT
                       !.completedAbort = record, !.aborted = @ \cup {s.pending.id},
                       !.pending = NoAction, !.receipts = <<>>, !.uncertain = NoOwner,
                       !.abortReceipts = <<>>, !.abortUncertain = NoOwner, !.aborting = FALSE]
    <2>1. /\ Commit(t, TRUE) /\ call = NoCall /\ drv' = Idle("aborted")
          /\ UNCHANGED <<journaled, cleanupOnly, call, up, live>>
          /\ s.aborting /\ Len(s.abortReceipts) = Len(PendingAbort(s))
      BY <1>3 DEF Finalize, FinalizePartialStartAbort, AbortFinished, Ready
    <2> HIDE DEF record
    <2>2. t.pending = NoAction
      BY <1>0 DEF States
    <2> HIDE DEF t
    <2>3. s' = t /\ ~poisoned'
      BY <1>0, <2>1, BrokerCommits
    <2>4. live' = {}
      BY <1>0, <2>1, FinishedAbortIsEmpty
    <2>5. s'.pending.op # "Start"
      BY <1>1, <2>2, <2>3
    <2> QED BY <1>0, <2>1, <2>3, <2>4, <2>5, CallReturns
  <1>4. ASSUME BackFails PROVE Serving' /\ ReplyIsTrue' /\ DrvTypes'
    <2>1. /\ drv.pc = "back" /\ drv.failed /\ drv' = Idle("abort_failed")
          /\ UNCHANGED <<s, call, up, journaled, poisoned, cleanupOnly, live>>
      BY <1>4 DEF BackFails, vars
    <2>2. s.aborting /\ call = NoCall /\ ~poisoned
      BY <1>0, <2>1 DEF Serving
    <2> QED BY <1>0, <2>1, <2>2, CallReturns
  <1>5. ASSUME ForwardFails, s.pending.op # "Start" PROVE Serving' /\ ReplyIsTrue' /\ DrvTypes'
    <2>1. /\ drv.pc = "forward" /\ drv.failed /\ drv' = Idle("retained")
          /\ UNCHANGED <<s, call, up, journaled, poisoned, cleanupOnly, live>>
      BY <1>5 DEF ForwardFails, vars
    <2>2. call = NoCall /\ ~poisoned
      BY <1>0, <2>1 DEF Serving
    <2> QED BY <1>0, <1>5, <2>1, <2>2, CallReturns
  <1>6. ASSUME ForwardFails, s.pending.op = "Start" PROVE Serving' /\ ReplyIsTrue' /\ DrvTypes'
    <2> DEFINE t == [s EXCEPT !.aborting = TRUE, !.abortReceipts = <<>>,
                              !.abortUncertain = NoOwner]
    <2>1. /\ drv' = Running("back") /\ Commit(t, TRUE)
          /\ UNCHANGED <<journaled, cleanupOnly, up>>
      BY <1>6 DEF ForwardFails, BeginPartialStartAbort
    <2>2. t.pending = s.pending /\ t.aborting
      BY <1>0 DEF States
    <2> HIDE DEF t
    <2>3. s' = t /\ ~poisoned'
      BY <1>0, <2>1, BrokerCommits
    <2>4. drv'.pc = "back" /\ ~drv'.failed
      BY <2>1, DrvFields
    <2>5. DrvTypes'
      BY <2>1, DrvValues DEF DrvTypes
    <2>6. Serving'
      BY <1>0, <1>6, <2>1, <2>2, <2>3, <2>4 DEF Serving
    <2>7. ReplyIsTrue'
      BY <2>4 DEF ReplyIsTrue
    <2> QED BY <2>5, <2>6, <2>7
  <1> QED BY <1>2, <1>3, <1>4, <1>5, <1>6

\* Without a broker nothing is said.
LEMMA AbsentServes ==
    ASSUME DrvTypes, ~Broker, UNCHANGED drv
    PROVE  Serving' /\ ReplyIsTrue' /\ DrvTypes'
  BY DEF Broker, Serving, ReplyIsTrue, DrvTypes

LEMMA BrokerNextInv == BrokerInv /\ [BrokerNext]_brokerVars => BrokerInv'
  <1> SUFFICES ASSUME BrokerInv, [BrokerNext]_brokerVars PROVE BrokerInv'
    OBVIOUS
  <1>1. Inv'
    BY BrokerKeepsInv DEF BrokerInv
  <1> DEFINE Kept == Serving' /\ ReplyIsTrue' /\ DrvTypes'
  <1>2. ASSUME NEW id \in Ids,
               StartMediaSession(id) \/ StopMediaSession(id) \/ PrepareRevokerCleanup(id)
        PROVE  Kept
    BY <1>1, <1>2, PreparingServes
  <1>3. ASSUME ReviewRevokerCleanup \/ AuthorityEnds \/ UNCHANGED brokerVars PROVE Kept
    <2>1. UNCHANGED <<s, call, up, journaled, poisoned, cleanupOnly, live, drv>>
      BY <1>3 DEF ReviewRevokerCleanup, AuthorityEnds, brokerVars, vars, runtime
    <2> QED BY <2>1, CallKept DEF BrokerInv
  <1>4. ASSUME Complete \/ ResumeAbort PROVE Kept
    BY <1>4, BeginningServes
  <1>5. ASSUME ForwardOwner \/ BackOwner PROVE Kept
    BY <1>5, AskingServes
  <1>6. ASSUME \/ \E readback \in Readbacks : Returns(readback)
               \/ \E effect \in BOOLEAN : Acts(effect)
               \/ Fails \/ Refuses
        PROVE  Kept
    BY <1>6, AnswersServe
  <1>7. ASSUME Apply \/ Finalize \/ ForwardFails \/ BackFails PROVE Kept
    BY <1>7, EndingServes
  <1>8. ASSUME AnyHost PROVE Kept
    BY <1>8, AbsentServes DEF AnyHost, BrokerInv
  <1> HIDE DEF Kept
  <1>9. Kept
    BY <1>2, <1>3, <1>4, <1>5, <1>6, <1>7, <1>8 DEF BrokerNext, Driving
  <1> QED BY <1>1, <1>9 DEF BrokerInv, Kept

LEMMA BrokerInitInv == BrokerInit => BrokerInv
  <1> SUFFICES ASSUME BrokerInit PROVE BrokerInv
    OBVIOUS
  <1>1. Inv
    BY InitInv DEF BrokerInit
  <1>2. /\ up /\ ~journaled /\ ~poisoned /\ ~cleanupOnly /\ call = NoCall /\ s = NewRuntime
    BY DEF BrokerInit, Init
  <1>3. s.pending.op = "none"
    BY <1>2 DEF NewRuntime, NoAction
  <1>4. CASE drv = Idle("none")
    <2>1. drv.pc = "idle" /\ drv.reply = "none"
      BY <1>4, DrvFields
    <2>2. DrvTypes
      BY <1>4, DrvValues DEF DrvTypes
    <2> QED BY <1>1, <1>2, <1>3, <2>1, <2>2 DEF BrokerInv, Serving, ReplyIsTrue
  <1>5. CASE drv = Running("absent")
    <2>1. drv.pc = "absent"
      BY <1>5, DrvFields
    <2>2. DrvTypes
      BY <1>5, DrvValues DEF DrvTypes
    <2> QED BY <1>1, <2>1, <2>2 DEF BrokerInv, Serving, ReplyIsTrue, Broker
  <1> QED BY <1>4, <1>5 DEF BrokerInit

LEMMA BrokerSpecInv == BrokerSpec => []BrokerInv
  BY BrokerInitInv, BrokerNextInv, PTL DEF BrokerSpec

\* What the broker answers is true of the platform, for any product and any
\* interleaving with the end of the authority: an aborted or stopped session runs
\* nothing, a started one everything, and no call leaves a Start half done.
THEOREM RepliesAreTrue == BrokerSpec => []ReplyIsTrue
  <1>1. BrokerInv => ReplyIsTrue
    BY DEF BrokerInv
  <1> QED BY <1>1, BrokerSpecInv, PTL

\* Under the broker as under any other host, a death leaves no effect that a
\* restored runtime would refuse to clean up.
THEOREM BrokerEffectsCanBeRecovered == BrokerSpec => []EffectsAreRecoverable
  <1>1. BrokerInv => EffectsAreRecoverable
    BY SoundIsRestorable DEF BrokerInv, Inv, EffectsAreRecoverable
  <1> QED BY <1>1, BrokerSpecInv, PTL

\* The broker's steps are steps of the promise too.
LEMMA BrokerMoves ==
    Inv /\ Inv' /\ Drift /\ [BrokerNext]_brokerVars =>
        [Promise!Next]_<<Status, live>> /\ Drift'
  <1> SUFFICES ASSUME Inv, Inv', Drift, [BrokerNext]_brokerVars
               PROVE  [Promise!Next]_<<Status, live>> /\ Drift'
    OBVIOUS
  <1>1. ASSUME [Next]_vars PROVE [Promise!Next]_<<Status, live>> /\ Drift'
    BY <1>1, NextMoves
  <1>2. ASSUME NEW id \in Ids, StopMediaSession(id)
        PROVE  [Promise!Next]_<<Status, live>> /\ Drift'
    <2>1. /\ ReviewPrepare("Stop", id) /\ Commit(Prepared("Stop", id), TRUE)
          /\ UNCHANGED <<journaled, cleanupOnly, live>>
      BY <1>2 DEF StopMediaSession, rest
    <2>2. Moves(StatusOf(s), StatusOf(Prepared("Stop", id)), live)
      BY <2>1, PreparedMoves
    <2>3. ~Unjournaled
      BY <2>1 DEF ReviewPrepare, Unjournaled
    <2>4. Moved /\ Drift'
      BY <2>1, <2>2, <2>3, CommitMoves
    <2> QED BY <2>4, MovedIsAStep
  <1>3. ASSUME UNCHANGED brokerVars PROVE [Next]_vars
    BY <1>3 DEF brokerVars
  <1> QED BY <1>1, <1>2, <1>3, BrokerSteps

\* A session driven by the broker is the all-or-nothing session too.
THEOREM BrokerKeepsPromise == BrokerSpec => KeepsPromise
  <1>1. BrokerInit => Init
    BY DEF BrokerInit
  <1>2. BrokerInv => Inv
    BY DEF BrokerInv
  <1> QED BY <1>1, <1>2, StartsPromised, BrokerMoves, BrokerSpecInv, PTL
       DEF BrokerSpec, KeepsPromise, Promise!Spec

\* In an order without repetitions the next owner is not among the recorded ones.
LEMMA NextIsNew ==
    ASSUME NEW order \in Seq(Owners), NEW r \in Seq(Owners), NEW o,
           \A i, j \in 1..Len(order) : order[i] = order[j] => i = j,
           PrefixOf(r, order), NextIn(o, r, order)
    PROVE  o \in OwnersOf(order) /\ o \notin OwnersOf(r)
  <1>1. Len(r) + 1 \in 1..Len(order) /\ o = order[Len(r) + 1]
    BY SMTT(30) DEF NextIn
  <1>2. ASSUME NEW i \in 1..Len(r) PROVE r[i] # o
    <2>1. i \in 1..Len(order) /\ r[i] = order[i] /\ i # Len(r) + 1
      BY SMTT(30) DEF PrefixOf
    <2> QED BY <1>1, <2>1
  <1> QED BY <1>1, <1>2 DEF OwnersOf

\* partial_start_abort_action names no owner twice.
LEMMA AbortIsDistinct ==
    ASSUME NEW t \in States, ActionShape(t), t.pending.op = "Start"
    PROVE  /\ \A i, j \in 1..Len(PendingAbort(t)) :
                 PendingAbort(t)[i] = PendingAbort(t)[j] => i = j
           /\ t.uncertain # NoOwner => PendingAbort(t)[1] = t.uncertain
  <1> DEFINE p == PendingAbort(t)
  <1>1. /\ t.receipts \in Seq(Owners) /\ t.uncertain \in Owners \cup {NoOwner}
        /\ p \in Seq(Owners)
    BY Fields
  <1>2. /\ PrefixOf(t.receipts, StartOrder)
        /\ t.uncertain # NoOwner => NextIn(t.uncertain, t.receipts, StartOrder)
    BY PendingFacts DEF ActionShape, OwnerActions, NoAction
  <1>3. /\ Len(p) =< Len(StartOrder)
        /\ \A i \in 1..Len(p) : p[i] = StartOrder[Len(p) + 1 - i]
    BY <1>1, <1>2, AbortPositions DEF PendingAbort
  <1>4. t.uncertain # NoOwner => p[1] = t.uncertain
    BY <1>1, AbortOrderFacts DEF PendingAbort
  <1> HIDE DEF p
  <1>5. Len(p) \in Nat /\ Len(StartOrder) \in Nat
    BY <1>1, Orders, SMTT(30)
  <1>6. ASSUME NEW i \in 1..Len(p), NEW j \in 1..Len(p), p[i] = p[j] PROVE i = j
    <2>1. /\ Len(p) + 1 - i \in 1..Len(StartOrder) /\ Len(p) + 1 - j \in 1..Len(StartOrder)
      BY <1>3, <1>5, SMTT(30)
    <2>2. \A a, b \in 1..Len(StartOrder) : StartOrder[a] = StartOrder[b] => a = b
      BY StartOrderAssumption DEF Enumerates
    <2>3. StartOrder[Len(p) + 1 - i] = StartOrder[Len(p) + 1 - j]
      BY <1>3, <1>6
    <2>4. Len(p) + 1 - i = Len(p) + 1 - j
      BY <2>1, <2>2, <2>3
    <2> QED BY <1>5, <2>4, SMTT(30)
  <1> QED BY <1>4, <1>6 DEF p

\* complete_owner asks an owner to start that is down, or to stop that is up.
LEMMA ExecutedOnce ==
    ASSUME Inv, CompleteOwner(TRUE), s.completedAbort = NoAbort
    PROVE  (call'.owner \in live) = (s.pending.op = "Stop")
  <1> DEFINE order == OwnerActions(s.pending)
             o == order[Len(s.receipts) + 1]
  <1>1. /\ s \in States /\ SessionShape(s) /\ ActionShape(s) /\ AbortShape(s)
        /\ Cover(s, live)
    BY DEF Inv, Sound, Shape
  <1>2. /\ ~s.aborting /\ s.uncertain = NoOwner /\ s.pending # NoAction
        /\ NextIn(o, s.receipts, order) /\ call'.owner = o
    BY DEF CompleteOwner, Begin, NextIn
  <1>3. /\ s.receipts \in Seq(Owners) /\ order \in Seq(Owners) /\ OwnersOf(order) = Owners
    BY <1>1, Fields
  <1>4. \A i, j \in 1..Len(order) : order[i] = order[j] => i = j
    BY StartOrderAssumption, StopOrderAssumption DEF OwnerActions, Enumerates
  <1>5. PrefixOf(s.receipts, order)
    BY <1>1, <1>2 DEF ActionShape
  <1> HIDE DEF o, order
  <1>6. o \in Owners /\ o \notin OwnersOf(s.receipts) /\ o # NoOwner
    BY <1>2, <1>3, <1>4, <1>5, NextIsNew, NoneAssumption
  <1>7. s.abortReceipts = <<>> /\ s.abortUncertain = NoOwner
    BY <1>1, <1>2 DEF AbortShape
  <1>8. CASE s.pending.op = "Start"
    <2>1. o \notin Obliged(s)
      BY <1>2, <1>6, <1>8 DEF Obliged
    <2>2. o \notin live
      BY <1>1, <2>1 DEF Cover
    <2>3. ~(call'.owner \in live) /\ ~(s.pending.op = "Stop")
      BY <1>2, <1>8, <2>2
    <2> QED BY <2>3, SMTT(30)
  <1>9. CASE s.pending.op = "Stop"
    <2>1. s.active = StartOrder
      BY <1>1, <1>9 DEF ActionShape, SessionShape
    <2>2. o \in Obliged(s)
      BY <1>6, <1>9, <2>1, Orders DEF Obliged
    <2>3. o \in live
      BY <1>1, <1>2, <1>6, <1>7, <2>2 DEF Cover, Firm
    <2> QED BY <1>2, <1>9, <2>3
  <1> QED BY <1>1, <1>2, <1>8, <1>9, PendingFacts

\* complete_next_abort_owner stops an owner that is up.
LEMMA ReversedOnce ==
    ASSUME Inv, CompleteNextAbortOwner(TRUE), call'.kind = "reverse"
    PROVE  call'.owner \in live
  <1> DEFINE next == Len(s.abortReceipts) + 1
             o == PendingAbort(s)[next]
  <1>1. /\ s \in States /\ ActionShape(s) /\ AbortShape(s) /\ Cover(s, live)
    BY DEF Inv, Sound, Shape
  <1>2. /\ s.aborting /\ NextIn(o, s.abortReceipts, PendingAbort(s)) /\ call'.owner = o
        /\ next > 1 \/ s.uncertain = NoOwner
        /\ s.abortUncertain = NoOwner
    BY DEF CompleteNextAbortOwner, Begin, NextIn
  <1>3. s.pending.op = "Start"
    BY <1>1, <1>2 DEF AbortShape
  <1>4. /\ s.abortReceipts \in Seq(Owners) /\ PendingAbort(s) \in Seq(Owners)
        /\ OwnersOf(PendingAbort(s)) = OwnersOf(s.receipts) \cup ({s.uncertain} \ {NoOwner})
    BY <1>1, Fields
  <1>5. /\ \A i, j \in 1..Len(PendingAbort(s)) :
              PendingAbort(s)[i] = PendingAbort(s)[j] => i = j
        /\ s.uncertain # NoOwner => PendingAbort(s)[1] = s.uncertain
    BY <1>1, <1>3, AbortIsDistinct
  <1>6. o \in OwnersOf(PendingAbort(s)) /\ o \notin OwnersOf(s.abortReceipts)
    <2> HIDE DEF o
    <2>1. PrefixOf(s.abortReceipts, PendingAbort(s))
      BY <1>1 DEF AbortShape
    <2> QED BY <1>2, <1>4, <1>5, <2>1, NextIsNew
  <1>7. o # s.uncertain
    <2>1. CASE s.uncertain = NoOwner
      <3>1. OwnersOf(PendingAbort(s)) \subseteq Owners
        BY <1>4, SMTT(30) DEF OwnersOf
      <3> QED BY <1>6, <2>1, <3>1, NoneAssumption
    <2>2. CASE s.uncertain # NoOwner
      <3>1. /\ next \in 1..Len(PendingAbort(s)) /\ 1 \in 1..Len(PendingAbort(s))
            /\ next # 1
        BY <1>2, <1>4, <2>2, SMTT(30) DEF NextIn
      <3> QED BY <1>5, <2>2, <3>1
    <2> QED BY <2>1, <2>2
  <1> HIDE DEF o, next
  <1>8. o \in Obliged(s) /\ o # NoOwner
    <2>1. o \in Owners
      BY <1>2, <1>4, NextIsIn
    <2> QED BY <1>3, <1>4, <1>6, <2>1, NoneAssumption DEF Obliged
  <1>9. o \in live
    BY <1>1, <1>2, <1>7, <1>8 DEF Cover, Firm
  <1> QED BY <1>2, <1>9

\* Only the two loops of the broker ask an owner.
LEMMA OnlyTheLoopsAsk ==
    ASSUME Inv, [BrokerNext]_brokerVars, Broker, call' # call, call' # NoCall,
           ~call'.returned
    PROVE  ForwardOwner \/ BackOwner
  <1>1. ASSUME NEW id \in Ids,
               StartMediaSession(id) \/ StopMediaSession(id) \/ PrepareRevokerCleanup(id)
        PROVE  call' = call
    BY <1>1 DEF StartMediaSession, StopMediaSession, PrepareRevokerCleanup, Prepare,
                PrepareTrustedRevokerCleanup, rest
  <1>2. ASSUME ReviewRevokerCleanup \/ AuthorityEnds \/ UNCHANGED brokerVars
        PROVE  call' = call
    BY <1>2 DEF ReviewRevokerCleanup, AuthorityEnds, brokerVars, vars
  <1>3. ASSUME Complete \/ ResumeAbort \/ Refuses \/ BackFails PROVE call' = call
    BY <1>3 DEF Complete, ResumeAbort, Refuses, BackFails, vars
  <1>4. ASSUME Apply \/ Finalize \/ ForwardFails PROVE call' = call
    BY <1>4 DEF Apply, Finalize, ForwardFails, ApplyRecordedOwnerCompletions,
                FinalizePartialStartAbort, BeginPartialStartAbort, vars
  <1>5. ASSUME Fails \/ \E readback \in Readbacks : Returns(readback) PROVE call' = NoCall
    BY <1>5 DEF Fails, Returns, ProviderFails, ProviderReturns
  <1>6. ASSUME NEW effect \in BOOLEAN, Acts(effect) PROVE call'.returned
    <2>1. call \in Calls /\ call # NoCall /\ call' = [call EXCEPT !.returned = TRUE]
      BY <1>6 DEF Acts, ProviderActs, Inv, PlainTypes
    <2> QED BY <2>1 DEF Calls
  <1>7. ASSUME AnyHost PROVE FALSE
    BY <1>7 DEF AnyHost
  <1> QED BY <1>1, <1>2, <1>3, <1>4, <1>5, <1>6, <1>7 DEF BrokerNext, Driving

\* An owner is asked to start only when it is down and to stop only when it is up,
\* for any product: an effect that may already have happened is compensated.
THEOREM OwnersAreAskedOnce == BrokerSpec => AskedOnce
  <1> DEFINE Once == Broker /\ call' # call /\ call' # NoCall /\ ~call'.returned =>
                 /\ call'.kind = "reverse" => call'.owner \in live
                 /\ call'.kind = "execute" =>
                       \/ s.completedAbort # NoAbort
                       \/ (call'.owner \in live) = (s.pending.op = "Stop")
  <1>1. ASSUME Inv, [BrokerNext]_brokerVars PROVE Once
    <2> SUFFICES ASSUME Broker, call' # call, call' # NoCall, ~call'.returned
                 PROVE  /\ call'.kind = "reverse" => call'.owner \in live
                        /\ call'.kind = "execute" =>
                              \/ s.completedAbort # NoAbort
                              \/ (call'.owner \in live) = (s.pending.op = "Stop")
      OBVIOUS
    <2>1. \/ CompleteUncertainStopOwner(TRUE) \/ CompleteOwner(TRUE)
          \/ CompleteNextAbortOwner(TRUE)
      BY <1>1, OnlyTheLoopsAsk DEF ForwardOwner, BackOwner
    <2>2. CASE CompleteUncertainStopOwner(TRUE)
      <3>1. call'.kind = "compensate"
        BY <2>2 DEF CompleteUncertainStopOwner, Begin
      <3> QED BY <3>1
    <2>3. CASE CompleteOwner(TRUE)
      <3>1. call'.kind = "execute"
        BY <2>3 DEF CompleteOwner, Begin
      <3> QED BY <1>1, <2>3, <3>1, ExecutedOnce
    <2>4. CASE CompleteNextAbortOwner(TRUE)
      <3>1. call'.kind \in {"reverse", "reverse_uncertain"}
        BY <2>4 DEF CompleteNextAbortOwner, Begin
      <3> QED BY <1>1, <2>4, <3>1, ReversedOnce
    <2> QED BY <2>1, <2>2, <2>3, <2>4
  <1>2. BrokerInv => Inv
    BY DEF BrokerInv
  <1>3. BrokerInv /\ [BrokerNext]_brokerVars => [Once]_brokerVars
    BY <1>1, <1>2
  <1> QED BY <1>3, BrokerSpecInv, PTL DEF BrokerSpec, AskedOnce
=============================================================================
