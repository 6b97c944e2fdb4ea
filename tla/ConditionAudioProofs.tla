----------------------- MODULE ConditionAudioProofs -----------------------
(***************************************************************************)
(* Proofs about the condition audio, for any callers, any number of        *)
(* sessions and commands, and every order in which commands, callbacks,    *)
(* failures and the close reach the owner thread.                          *)
(***************************************************************************)
EXTENDS ConditionAudio, FiniteSetTheorems, TLAPS

\* The prover of every leaf that does not name another one.
USE ZenonT(30)

-----------------------------------------------------------------------------
(* Types *)

Gone == {"none", "released"}
Sounding == {"held", "started", "paused", "completed", "errored"}
Played == {"started", "completed", "errored"}
Paused == {"paused", "completed", "errored"}
TaskKinds == Commands \cup Reports \cup {"prepared", "playing", "ended", "error", "close"}
Tasks == [k : TaskKinds, gen : Nat, epoch : Nat]
Handed == [k : Commands, gen : Nat, epoch : Nat]
Works == [k : {"none", "stale", "started", "pause", "resume", "stop", "cleanup"},
          gen : Nat, epoch : Nat, b : Ids \cup {0}, clean : BOOLEAN]
Players == [st : Gone \cup Sounding \cup {"preparing", "pooled"}, gen : Nat, epoch : Nat]
Phases == Pending \cup {"IDLE", "PREPARED", "PLAYING", "PAUSED", "SILENT", "STOPPED", "ERROR"}

\* Every variable keeps its type.
AudioTypes ==
    /\ phase \in Phases /\ gen \in Nat /\ epoch \in Nat /\ backend \in Ids \cup {0}
    /\ closed \in BOOLEAN /\ afterEnd \in BOOLEAN
    /\ hand \in [Callers -> Handed \cup {NoTask}]
    /\ queue \in Seq(Tasks) /\ work \in Works
    /\ players \in [Ids -> Players] /\ pool \in Ids \cup {0}
    /\ lifetime \in {"installed", "retained", "released"}

-----------------------------------------------------------------------------
(* The players: at most one holds the platform or is about to *)

\* ps are the players, b is the runtime's player, w the owner thread's work.
PlayersOK(ps, b, w, l, g) ==
    /\ \A n, m \in Ids : ps[n].st \notin Gone /\ ps[m].st \notin Gone => n = m
    /\ \A n \in Ids : ps[n].st \in Sounding => n \in {b, w.b}
    /\ b # 0 => ps[b].st \in Sounding \cup {"released"} /\ ps[b].gen = g
    /\ w.b # 0 => ps[w.b].st \in Sounding \cup {"released"}
    /\ w.k \in {"none", "started", "pause", "resume"} => w.b = 0
    /\ w.k \in {"stop", "cleanup"} => w.b = b /\ (b # 0 => ps[b].st = "released")
    /\ w.k = "stale" => w.b # b
    /\ l # "installed" => w.k = "none" /\ \A n \in Ids : ps[n].st \in Gone
PoolOK == pool # 0 => players[pool].st = "pooled"

-----------------------------------------------------------------------------
(* The command under way: one task at most carries it *)

TokenKinds == Commands \cup {"prepared", "playing"}
WorkTokens == {"started", "pause", "resume", "stop"}
Tok(t, g, e) == t.k \in TokenKinds /\ t.gen = g /\ t.epoch = e
WorkTok(w, g, e) == w.k \in WorkTokens /\ w.gen = g /\ w.epoch = e
NoneIn(q, g, e) == \A i \in 1..Len(q) : ~Tok(q[i], g, e)
NoneHeld(h, g, e) == \A c \in Callers : ~Tok(h[c], g, e)

\* The command of the current epoch is with one caller, in one place of the queue,
\* or in the owner thread's hands.
Alone(h, q, w, g, e) ==
    /\ \A i, j \in 1..Len(q) : Tok(q[i], g, e) /\ Tok(q[j], g, e) => i = j
    /\ \A c, d \in Callers : Tok(h[c], g, e) /\ Tok(h[d], g, e) => c = d
    /\ NoneIn(q, g, e) \/ NoneHeld(h, g, e)
    /\ WorkTok(w, g, e) => NoneIn(q, g, e) /\ NoneHeld(h, g, e)

\* No task or player is of an epoch to come.
Old(h, q, w, ps, e) ==
    /\ \A c \in Callers : h[c].epoch =< e
    /\ \A i \in 1..Len(q) : q[i].epoch =< e
    /\ w.epoch =< e
    /\ \A n \in Ids : ps[n].epoch =< e

\* What a current task says of the phase and of the state st of the session's player;
\* ae is afterEnd.
TokenFits(k, ph, ae, st) ==
    /\ k = "prepare" => ph = "PREPARING"
    /\ k = "prepared" => ph = "PREPARING" /\ st = "held"
    /\ k = "start" => ph = "STARTING" /\ st = "held"
    /\ k = "playing" => ph \in {"STARTING", "RESUMING"} /\ st \in Played
    /\ k = "pause" => ph = "PAUSING" /\ st \in (IF ae THEN Gone ELSE Played)
    /\ k = "resume" => ph = "RESUMING" /\ st \in (IF ae THEN Gone ELSE Paused)
    /\ k \in Stops => ph = "STOPPING"
WorkFits(k, ph, ae, st) ==
    /\ k = "started" => ph \in {"STARTING", "RESUMING"} /\ st \in Played
    /\ k = "pause" => ph = "PAUSING" /\ st \in (IF ae THEN Gone ELSE Paused)
    /\ k = "resume" => ph = "RESUMING" /\ st \in Gone
    /\ k = "stop" => ph = "STOPPING"
PhaseFits(ph, ae, st) ==
    /\ ph = "PREPARED" => st = "held"
    /\ ph = "PLAYING" => st \in Played
    /\ ph = "PAUSED" => st \in (IF ae THEN Gone ELSE Paused)
    /\ ph = "SILENT" => st \in Gone
Fits(h, q, w, g, e, ph, ae, st) ==
    /\ \A c \in Callers : Tok(h[c], g, e) => TokenFits(h[c].k, ph, ae, st)
    /\ \A i \in 1..Len(q) : Tok(q[i], g, e) => TokenFits(q[i].k, ph, ae, st)
    /\ WorkTok(w, g, e) => WorkFits(w.k, ph, ae, st)
    /\ PhaseFits(ph, ae, st)
\* A stop is never overtaken: nothing else is admitted until it is settled.
StopsCurrent(h, q, w, g, e) ==
    /\ \A c \in Callers : h[c].k \in Stops => Tok(h[c], g, e)
    /\ \A i \in 1..Len(q) : q[i].k \in Stops => Tok(q[i], g, e)
    /\ w.k = "stop" => WorkTok(w, g, e)

\* The state of the session's player.
StateOf(ps, b) == IF b = 0 THEN "none" ELSE ps[b].st

Command(h, q, w, g, e, ph, ae, st) ==
    /\ Alone(h, q, w, g, e) /\ StopsCurrent(h, q, w, g, e)
    /\ Fits(h, q, w, g, e, ph, ae, st)
CommandOK ==
    Command(hand, queue, work, gen, epoch, phase, afterEnd, StateOf(players, backend))

\* close is the only source of the task that ends the owner thread.
CloseIsLast(q, cl) == \A i \in 1..Len(q) : q[i].k = "close" => cl

\* The inductive invariant.
AudioInv ==
    /\ AudioTypes
    /\ PlayersOK(players, backend, work, lifetime, gen) /\ PoolOK
    /\ Old(hand, queue, work, players, epoch)
    /\ phase \in {"IDLE", "STOPPED"} => backend = 0
    /\ CloseIsLast(queue, closed) /\ (lifetime # "installed" => closed)
    /\ ~closed => CommandOK

-----------------------------------------------------------------------------
(* The tasks of the owner thread *)

\* Tasks that carry no command: reports of the factory and callbacks of players.
Plain == Reports \cup {"ended", "error"}

\* Queue r is queue q without its first d tasks, and plain tasks at its end.
From(q, r, d, e) ==
    \A i \in 1..Len(r) :
        \/ i + d \in 1..Len(q) /\ r[i] = q[i + d]
        \/ r[i].k \in Plain /\ r[i].epoch =< e

\* No command of the current epoch is under way, and no stop at all.
Clear(h, q, g, e) ==
    /\ NoneHeld(h, g, e) /\ NoneIn(q, g, e)
    /\ \A c \in Callers : h[c].k \notin Stops
    /\ \A i \in 1..Len(q) : q[i].k \notin Stops
IdleWork(w, g, e) == ~WorkTok(w, g, e) /\ w.k # "stop"

\* A plain task carries no command.
LEMMA PlainIsNone ==
  ASSUME NEW t, t.k \in Plain
  PROVE  t.k \notin TokenKinds /\ t.k \notin Stops /\ t.k # "close"
  BY DEF Plain, Reports, TokenKinds, Commands, Stops

\* The queue with a task behind it.
LEMMA AppendParts ==
  ASSUME NEW q \in Seq(Tasks), NEW t \in Tasks
  PROVE  /\ Append(q, t) \in Seq(Tasks)
         /\ \A i \in 1..Len(Append(q, t)) :
               \/ i \in 1..Len(q) /\ Append(q, t)[i] = q[i]
               \/ i = Len(q) + 1 /\ Append(q, t)[i] = t
         /\ \A i \in 1..Len(q) : i # Len(q) + 1
  <1> DEFINE T == Tasks
  <1> q \in Seq(T) /\ t \in T
    OBVIOUS
  <1> HIDE DEF T
  <1>1. /\ Append(q, t) \in Seq(T)
        /\ \A i \in 1..Len(Append(q, t)) :
              \/ i \in 1..Len(q) /\ Append(q, t)[i] = q[i]
              \/ i = Len(q) + 1 /\ Append(q, t)[i] = t
        /\ \A i \in 1..Len(q) : i # Len(q) + 1
    BY SMTT(30)
  <1> QED BY <1>1 DEF T

\* The head and the tail of the queue.
LEMMA HeadParts ==
  ASSUME NEW q \in Seq(Tasks), q # <<>>
  PROVE  /\ Tail(q) \in Seq(Tasks) /\ 1 \in 1..Len(q)
         /\ Head(q) = q[1] /\ Head(q) \in Tasks
         /\ \A i \in 1..Len(Tail(q)) : i + 1 \in 1..Len(q) /\ Tail(q)[i] = q[i + 1]
  <1> DEFINE T == Tasks
  <1> q \in Seq(T)
    OBVIOUS
  <1> HIDE DEF T
  <1>1. /\ Tail(q) \in Seq(T) /\ 1 \in 1..Len(q)
        /\ Head(q) = q[1] /\ Head(q) \in T
    BY SMTT(30)
  <1>2. \A i \in 1..Len(Tail(q)) : i + 1 \in 1..Len(q) /\ Tail(q)[i] = q[i + 1]
    BY SMTT(30)
  <1> QED BY <1>1, <1>2 DEF T

\* The owner thread takes the first task, and nothing else changes the queue's order.
LEMMA FromTail ==
  ASSUME NEW q \in Seq(Tasks), NEW e \in Nat, q # <<>>
  PROVE  From(q, Tail(q), 1, e)
  BY HeadParts DEF From

\* An unchanged queue.
LEMMA FromSame ==
  ASSUME NEW q \in Seq(Tasks), NEW e \in Nat
  PROVE  From(q, q, 0, e)
  <1>1. Len(q) \in Nat
    BY SMTT(30)
  <1>2. \A i \in 1..Len(q) : i + 0 = i
    BY <1>1, SMTT(30)
  <1> QED BY <1>2 DEF From

\* A report or a callback is queued behind what there is.
LEMMA FromAppend ==
  ASSUME NEW q, NEW d \in {0, 1}, NEW e \in Nat, NEW r \in Seq(Tasks), From(q, r, d, e),
         NEW t \in Tasks, t.k \in Plain, t.epoch =< e
  PROVE  From(q, Append(r, t), d, e) /\ Append(r, t) \in Seq(Tasks)
  <1> SUFFICES ASSUME NEW i \in 1..Len(Append(r, t))
               PROVE  \/ i + d \in 1..Len(q) /\ Append(r, t)[i] = q[i + d]
                      \/ Append(r, t)[i].k \in Plain /\ Append(r, t)[i].epoch =< e
    BY AppendParts DEF From
  <1>1. CASE i \in 1..Len(r) /\ Append(r, t)[i] = r[i]
    BY <1>1 DEF From
  <1>2. CASE i = Len(r) + 1 /\ Append(r, t)[i] = t
    BY <1>2
  <1> QED BY <1>1, <1>2, AppendParts

\* Nothing is under way: any phase that fits the player will do.
LEMMA ClearIsCommand ==
  ASSUME NEW h, NEW q, NEW w, NEW g, NEW e, NEW ph, NEW ae, NEW st,
         Clear(h, q, g, e), IdleWork(w, g, e), PhaseFits(ph, ae, st)
  PROVE  Command(h, q, w, g, e, ph, ae, st)
  BY DEF Clear, IdleWork, Command, Alone, StopsCurrent, Fits, NoneHeld, NoneIn

\* The command under way is in the owner thread's hands.
LEMMA ClearWork ==
  ASSUME NEW h, NEW q, NEW w, NEW g, NEW e, NEW ph, NEW ae, NEW st,
         Clear(h, q, g, e), w.k = "stop" => WorkTok(w, g, e),
         WorkFits(w.k, ph, ae, st), PhaseFits(ph, ae, st)
  PROVE  Command(h, q, w, g, e, ph, ae, st)
  BY DEF Clear, Command, Alone, StopsCurrent, Fits, NoneHeld, NoneIn

\* The command under way is the last task of the queue.
LEMMA ClearQueue ==
  ASSUME NEW h, NEW q \in Seq(Tasks), NEW w, NEW g, NEW e, NEW ph, NEW ae, NEW st,
         NEW t \in Tasks, Clear(h, q, g, e), IdleWork(w, g, e),
         t.k \in Stops => Tok(t, g, e), TokenFits(t.k, ph, ae, st), PhaseFits(ph, ae, st)
  PROVE  Command(h, Append(q, t), w, g, e, ph, ae, st)
  <1> DEFINE r == Append(q, t)
             n == Len(q) + 1
  <1>1. \A i \in 1..Len(r) : \/ i \in 1..Len(q) /\ r[i] = q[i]
                             \/ i = n /\ r[i] = t
    BY AppendParts
  <1> HIDE DEF r, n
  <1>2. Alone(h, r, w, g, e)
    <2>1. \A i \in 1..Len(r) : Tok(r[i], g, e) => i = n
      BY <1>1 DEF Clear, NoneIn
    <2> QED BY <2>1 DEF Alone, Clear, NoneHeld, IdleWork
  <1>3. StopsCurrent(h, r, w, g, e)
    BY <1>1 DEF StopsCurrent, Clear, IdleWork
  <1>4. Fits(h, r, w, g, e, ph, ae, st)
    BY <1>1 DEF Fits, Clear, NoneIn, NoneHeld, IdleWork
  <1> QED BY <1>2, <1>3, <1>4 DEF Command, r

\* Callers' hands h become i: caller c holds t.
HandOf(h, i, c, t) == i[c] = t /\ \A d \in Callers : d # c => i[d] = h[d]

\* The command under way was just decided by caller c.
LEMMA ClearHand ==
  ASSUME NEW h, NEW q, NEW w, NEW g, NEW e, NEW ph, NEW ae, NEW st, NEW i,
         NEW c \in Callers, NEW t, Clear(h, q, g, e), IdleWork(w, g, e),
         HandOf(h, i, c, t), Tok(t, g, e), TokenFits(t.k, ph, ae, st), PhaseFits(ph, ae, st)
  PROVE  Command(i, q, w, g, e, ph, ae, st)
  <1>0. i[c] = t /\ \A d \in Callers : d # c => i[d] = h[d]
    BY DEF HandOf
  <1>1. \A d \in Callers : Tok(i[d], g, e) => d = c
    BY <1>0 DEF Clear, NoneHeld
  <1>2. Alone(i, q, w, g, e)
    BY <1>1 DEF Alone, Clear, NoneIn, IdleWork
  <1>3. StopsCurrent(i, q, w, g, e)
    BY <1>0 DEF StopsCurrent, Clear, IdleWork
  <1>4. Fits(i, q, w, g, e, ph, ae, st)
    BY <1>0, <1>1 DEF Fits, Clear, NoneIn, IdleWork
  <1> QED BY <1>2, <1>3, <1>4 DEF Command

\* The owner thread takes the command from the queue: nothing else is under way.
LEMMA HeadClears ==
  ASSUME NEW h, NEW q \in Seq(Tasks), NEW w, NEW g, NEW e \in Nat, NEW ph, NEW ae, NEW st,
         NEW r \in Seq(Tasks), Command(h, q, w, g, e, ph, ae, st), q # <<>>,
         Tok(Head(q), g, e), From(q, r, 1, e)
  PROVE  Clear(h, r, g, e) /\ IdleWork(w, g, e)
  <1>1. 1 \in 1..Len(q) /\ Tok(q[1], g, e)
    BY HeadParts
  <1>2. \A i \in 1..Len(q) : Tok(q[i], g, e) => i = 1
    BY <1>1 DEF Command, Alone
  <1>3. NoneHeld(h, g, e) /\ ~WorkTok(w, g, e)
    BY <1>1 DEF Command, Alone, NoneIn
  <1>4. \A i \in 1..Len(r) : i + 1 # 1
    BY SMTT(30)
  <1>5. ASSUME NEW i \in 1..Len(r) PROVE ~Tok(r[i], g, e) /\ r[i].k \notin Stops
    <2>1. CASE i + 1 \in 1..Len(q) /\ r[i] = q[i + 1]
      <3>1. ~Tok(q[i + 1], g, e)
        BY <1>2, <1>4, <2>1
      <3> QED BY <2>1, <3>1 DEF Command, StopsCurrent
    <2>2. CASE r[i].k \in Plain
      BY <2>2, PlainIsNone DEF Tok
    <2> QED BY <2>1, <2>2 DEF From
  <1>6. \A c \in Callers : h[c].k \notin Stops
    BY <1>3 DEF Command, StopsCurrent, NoneHeld
  <1>7. w.k # "stop"
    BY <1>3 DEF Command, StopsCurrent
  <1> QED BY <1>3, <1>5, <1>6, <1>7 DEF Clear, IdleWork, NoneIn

\* The owner thread finishes the command it is inside: nothing else is under way.
LEMMA WorkClears ==
  ASSUME NEW h, NEW q, NEW w, NEW g, NEW e, NEW ph, NEW ae, NEW st,
         Command(h, q, w, g, e, ph, ae, st), WorkTok(w, g, e)
  PROVE  Clear(h, q, g, e)
  BY DEF Command, Alone, StopsCurrent, Clear, NoneIn, NoneHeld

\* A caller queues the command under way: nothing else is under way.
LEMMA HandClears ==
  ASSUME NEW h, NEW q, NEW w, NEW g, NEW e, NEW ph, NEW ae, NEW st, NEW i,
         Command(h, q, w, g, e, ph, ae, st), NEW c \in Callers, Tok(h[c], g, e),
         HandOf(h, i, c, NoTask)
  PROVE  Clear(i, q, g, e) /\ IdleWork(w, g, e)
  <1>1. ~Tok(NoTask, g, e) /\ NoTask.k \notin Stops
    BY DEF NoTask, Task, Tok, TokenKinds, Commands, Stops
  <1>2. \A d \in Callers : Tok(h[d], g, e) => d = c
    BY DEF Command, Alone
  <1>3. NoneHeld(i, g, e) /\ \A d \in Callers : i[d].k \notin Stops
    BY <1>1, <1>2 DEF NoneHeld, Command, StopsCurrent, HandOf
  <1>4. NoneIn(q, g, e) /\ ~WorkTok(w, g, e)
    BY DEF Command, Alone, NoneHeld
  <1>5. \A j \in 1..Len(q) : q[j].k \notin Stops
    BY <1>4 DEF NoneIn, Command, StopsCurrent
  <1> QED BY <1>3, <1>4, <1>5 DEF Clear, IdleWork, Command, StopsCurrent

\* Tasks leave the front of the queue and plain ones join it.
LEMMA CommandStays ==
  ASSUME NEW h, NEW q, NEW w, NEW g, NEW e \in Nat, NEW ph, NEW ae, NEW st,
         NEW r, NEW v, NEW d \in {0, 1},
         Command(h, q, w, g, e, ph, ae, st), From(q, r, d, e), v = w \/ IdleWork(v, g, e)
  PROVE  Command(h, r, v, g, e, ph, ae, st)
  <1>1. \A i \in 1..Len(r) : \/ i + d \in 1..Len(q) /\ r[i] = q[i + d]
                             \/ ~Tok(r[i], g, e) /\ r[i].k \notin Stops
    BY PlainIsNone DEF From, Tok
  <1>2. \A i, j \in 1..Len(r) : i + d = j + d => i = j
    BY SMTT(30)
  <1>3. NoneIn(q, g, e) => NoneIn(r, g, e)
    BY <1>1 DEF NoneIn
  <1>4. \A i, j \in 1..Len(r) : Tok(r[i], g, e) /\ Tok(r[j], g, e) => i = j
    <2> SUFFICES ASSUME NEW i \in 1..Len(r), NEW j \in 1..Len(r),
                        Tok(r[i], g, e), Tok(r[j], g, e)
                 PROVE  i = j
      OBVIOUS
    <2>1. i + d \in 1..Len(q) /\ j + d \in 1..Len(q) /\ r[i] = q[i + d] /\ r[j] = q[j + d]
      BY <1>1
    <2>2. i + d = j + d
      BY <2>1 DEF Command, Alone
    <2> QED BY <1>2, <2>2
  <1>5. Alone(h, r, v, g, e)
    BY <1>3, <1>4 DEF Command, Alone, IdleWork
  <1>6. StopsCurrent(h, r, v, g, e)
    BY <1>1 DEF Command, StopsCurrent, IdleWork
  <1>7. Fits(h, r, v, g, e, ph, ae, st)
    BY <1>1 DEF Command, Fits, IdleWork
  <1> QED BY <1>5, <1>6, <1>7 DEF Command

\* Arithmetic of epochs.
LEMMA Later ==
  ASSUME NEW x \in Nat, NEW e \in Nat, x =< e
  PROVE  x # e + 1 /\ x =< e + 1 /\ e + 1 \in Nat
  BY SMTT(30)

\* The tasks of a queue are tasks.
LEMMA QueueTasks ==
  ASSUME NEW q \in Seq(Tasks)
  PROVE  \A i \in 1..Len(q) : q[i] \in Tasks /\ q[i].epoch \in Nat
  <1> DEFINE T == Tasks
  <1>1. q \in Seq(T)
    OBVIOUS
  <1> HIDE DEF T
  <1>2. \A i \in 1..Len(q) : q[i] \in T
    BY <1>1, SMTT(30)
  <1> QED BY <1>2 DEF T, Tasks

\* A new epoch leaves nothing of the old one under way, unless it is a stop.
LEMMA EpochClears ==
  ASSUME NEW h \in [Callers -> Handed \cup {NoTask}], NEW q \in Seq(Tasks), NEW w \in Works,
         NEW ps, NEW g, NEW f, NEW e \in Nat, NEW ph, NEW ae, NEW st,
         NEW r \in Seq(Tasks), NEW d \in {0, 1},
         Old(h, q, w, ps, e), Command(h, q, w, g, e, ph, ae, st), ph # "STOPPING",
         From(q, r, d, e)
  PROVE  Clear(h, r, f, e + 1) /\ IdleWork(w, f, e + 1)
  <1>1. ASSUME NEW c \in Callers PROVE h[c].epoch # e + 1 /\ h[c].k \notin Stops
    <2>1. h[c].epoch \in Nat /\ h[c].epoch =< e
      <3>1. h[c] \in Handed \/ h[c] = NoTask
        OBVIOUS
      <3>2. h[c] \in Handed => h[c].epoch \in Nat
        BY DEF Handed
      <3>3. NoTask.epoch \in Nat
        BY SMTT(30) DEF NoTask, Task
      <3> QED BY <3>1, <3>2, <3>3 DEF Old
    <2>2. h[c].k \notin Stops
      BY DEF Command, StopsCurrent, Fits, TokenFits
    <2> QED BY <2>1, <2>2, Later
  <1>2. ASSUME NEW i \in 1..Len(r) PROVE r[i].epoch # e + 1 /\ r[i].k \notin Stops
    <2>1. CASE i + d \in 1..Len(q) /\ r[i] = q[i + d]
      <3>1. q[i + d].epoch \in Nat /\ q[i + d].epoch =< e
        BY <2>1, QueueTasks DEF Old
      <3>2. q[i + d].k \notin Stops
        BY <2>1 DEF Command, StopsCurrent, Fits, TokenFits
      <3> QED BY <2>1, <3>1, <3>2, Later
    <2>2. CASE r[i].k \in Plain /\ r[i].epoch =< e
      <3>1. r[i].epoch \in Nat
        BY QueueTasks
      <3> QED BY <2>2, <3>1, Later, PlainIsNone
    <2> QED BY <2>1, <2>2 DEF From
  <1>3. w.epoch # e + 1 /\ w.k # "stop"
    <2>1. w.epoch \in Nat /\ w.epoch =< e
      BY DEF Works, Old
    <2>2. w.k # "stop"
      BY DEF Command, StopsCurrent, Fits, WorkFits
    <2> QED BY <2>1, <2>2, Later
  <1> QED BY <1>1, <1>2, <1>3 DEF Clear, IdleWork, NoneHeld, NoneIn, Tok, WorkTok

\* Tasks and players stay old while plain tasks come and the epoch moves on.
LEMMA OldStays ==
  ASSUME NEW h, NEW q, NEW w, NEW ps, NEW e, NEW r, NEW d \in {0, 1},
         Old(h, q, w, ps, e), From(q, r, d, e)
  PROVE  Old(h, r, w, ps, e)
  BY DEF Old, From
\* Nothing is newer when the epoch moves on.
LEMMA OldLater ==
  ASSUME NEW h \in [Callers -> Handed \cup {NoTask}], NEW q \in Seq(Tasks), NEW w \in Works,
         NEW ps \in [Ids -> Players], NEW e \in Nat, Old(h, q, w, ps, e)
  PROVE  Old(h, q, w, ps, e + 1)
  <1>1. ASSUME NEW c \in Callers PROVE h[c].epoch =< e + 1
    <2>1. h[c] \in Handed \/ h[c] = NoTask
      OBVIOUS
    <2>2. h[c] \in Handed => h[c].epoch \in Nat
      BY DEF Handed
    <2>3. NoTask.epoch \in Nat
      BY SMTT(30) DEF NoTask, Task
    <2> QED BY <2>1, <2>2, <2>3, Later DEF Old
  <1>2. \A i \in 1..Len(q) : q[i].epoch =< e + 1
    BY QueueTasks, Later DEF Old
  <1>3. w.epoch =< e + 1
    <2>1. w.epoch \in Nat
      BY DEF Works
    <2> QED BY <2>1, Later DEF Old
  <1>4. ASSUME NEW n \in Ids PROVE ps[n].epoch =< e + 1
    <2>1. ps[n].epoch \in Nat
      BY DEF Players
    <2> QED BY <2>1, Later DEF Old
  <1> QED BY <1>1, <1>2, <1>3, <1>4 DEF Old

\* A track that ends and a player that breaks change nothing the phase relies on.
Moves(st, su) ==
    \/ su = st
    \/ st = "started" /\ su \in {"completed", "errored"}
    \/ st = "paused" /\ su = "errored"
\* The command under way still fits after such a move.
LEMMA StateMoves ==
  ASSUME NEW h, NEW q, NEW w, NEW g, NEW e, NEW ph, NEW ae, NEW st, NEW su,
         Command(h, q, w, g, e, ph, ae, st), Moves(st, su)
  PROVE  Command(h, q, w, g, e, ph, ae, su)
  <1>1. /\ st \in Played => su \in Played
        /\ st \in Paused => su \in Paused
        /\ st \in Gone => su \in Gone
        /\ st = "held" => su = "held"
    BY DEF Moves, Played, Paused, Gone
  <1>2. \A k : TokenFits(k, ph, ae, st) => TokenFits(k, ph, ae, su)
    BY <1>1 DEF TokenFits
  <1>3. \A k : WorkFits(k, ph, ae, st) => WorkFits(k, ph, ae, su)
    BY <1>1 DEF WorkFits
  <1>4. PhaseFits(ph, ae, st) => PhaseFits(ph, ae, su)
    BY <1>1 DEF PhaseFits
  <1>5. Fits(h, q, w, g, e, ph, ae, su)
    BY <1>2, <1>3, <1>4 DEF Command, Fits
  <1> QED BY <1>5 DEF Command

\* A caller queues a command that was overtaken: it is not under way.
LEMMA OvertakenQueued ==
  ASSUME NEW h, NEW q \in Seq(Tasks), NEW w, NEW g, NEW e, NEW ph, NEW ae, NEW st, NEW i,
         NEW t \in Tasks, Command(h, q, w, g, e, ph, ae, st), ~Tok(t, g, e), t.k \notin Stops,
         \A d \in Callers : i[d] = h[d] \/ i[d] = NoTask
  PROVE  Command(i, Append(q, t), w, g, e, ph, ae, st)
  <1> DEFINE r == Append(q, t)
             n == Len(q) + 1
  <1>1. \A j \in 1..Len(r) : \/ j \in 1..Len(q) /\ r[j] = q[j]
                             \/ j = n /\ r[j] = t
    BY AppendParts
  <1> HIDE DEF r, n
  <1>2. ~Tok(NoTask, g, e) /\ NoTask.k \notin Stops
    BY DEF NoTask, Task, Tok, TokenKinds, Commands, Stops
  <1>4. \A d \in Callers : Tok(i[d], g, e) => i[d] = h[d]
    BY <1>2
  <1>5. \A j \in 1..Len(r) : Tok(r[j], g, e) => j \in 1..Len(q) /\ r[j] = q[j]
    BY <1>1
  <1>6. /\ NoneHeld(h, g, e) => NoneHeld(i, g, e)
        /\ NoneIn(q, g, e) => NoneIn(r, g, e)
    BY <1>4, <1>5 DEF NoneHeld, NoneIn
  <1>7. Alone(i, r, w, g, e)
    <2>1. \A j, k \in 1..Len(r) : Tok(r[j], g, e) /\ Tok(r[k], g, e) => j = k
      BY <1>5 DEF Command, Alone
    <2>2. \A b, d \in Callers : Tok(i[b], g, e) /\ Tok(i[d], g, e) => b = d
      BY <1>4 DEF Command, Alone
    <2> QED BY <1>6, <2>1, <2>2 DEF Command, Alone
  <1>8. StopsCurrent(i, r, w, g, e)
    BY <1>1, <1>2 DEF Command, StopsCurrent
  <1>9. Fits(i, r, w, g, e, ph, ae, st)
    BY <1>4, <1>5 DEF Command, Fits
  <1> QED BY <1>7, <1>8, <1>9 DEF Command, r

-----------------------------------------------------------------------------
(* Releasing a player *)

Preparing == [st |-> "preparing", gen |-> 0, epoch |-> 0]

\* Player b of ps is released and player f, unless it is 0, prepares in its place.
Freed(ps, b, f) ==
    [n \in Ids |-> IF n = b THEN [ps[n] EXCEPT !.st = "released"]
                   ELSE IF n = f THEN Preparing ELSE ps[n]]
MayFollow(ps, b, f) == f # 0 => b # 0 /\ ps[b].st # "released" /\ ps[f].st = "none"
Ours(ps, b) == b # 0 => ps[b].st \in Sounding \cup {"released"}
OneActive(ps) == \A n, m \in Ids : ps[n].st \notin Gone /\ ps[m].st \notin Gone => n = m

\* Players have positive numbers: 0 stands for none.
LEMMA IdsPositive == 0 \notin Ids /\ Ids \subseteq Nat
  BY ConditionAudioAssumption, SMTT(30) DEF Ids, MaxPlayers

\* A nonempty set of naturals has a least element.
LEMMA LeastElement ==
  ASSUME NEW T \in SUBSET Nat, T # {}
  PROVE  \E n \in T : \A m \in T : n =< m
  <1>1. \E x \in T : \A y \in T : ~ (<<y, x>> \in OpToRel(<, Nat))
    BY NatLessThanWellFounded, WFMin
  <1>2. PICK x \in T : \A y \in T : ~ (<<y, x>> \in OpToRel(<, Nat))
    BY <1>1
  <1>3. \A y \in T : ~ (y < x)
    BY <1>2 DEF OpToRel
  <1> QED BY <1>3, SMTT(30)

\* release frees one player and starts at most one, which was unused.
LEMMA ReleaseFrees ==
  ASSUME players \in [Ids -> Players], NEW b \in Ids \cup {0}, NEW rest, NEW fails,
         Release(b, rest, fails), Ours(players, b)
  PROVE  \E f \in Ids \cup {0} : MayFollow(players, b, f) /\ players' = Freed(players, b, f)
  <1> DEFINE next == CHOOSE n \in Fresh : \A m \in Fresh : n <= m
  <1>1. players' = [n \in Ids |->
             CASE n = b -> [players[n] EXCEPT !.st = "released"]
               [] Replaces(b) /\ ~fails /\ n = next ->
                      [NoPlayer EXCEPT !.st = "preparing"]
               [] OTHER -> players[n]]
    BY DEF Release
  <1>2. [NoPlayer EXCEPT !.st = "preparing"] = Preparing
    BY SMTT(30) DEF NoPlayer, Preparing
  <1>3. CASE Replaces(b) /\ ~fails
    <2>1. Fresh # {} /\ Fresh \subseteq Nat /\ b # 0 /\ players[b].st # "released"
      BY <1>3, IdsPositive DEF Replaces, Fresh
    <2>2. next \in Fresh
      BY <2>1, LeastElement
    <2> HIDE DEF next
    <2>3. next \in Ids /\ players[next].st = "none"
      BY <2>2 DEF Fresh
    <2>4. MayFollow(players, b, next)
      BY <2>1, <2>3 DEF MayFollow
    <2>5. ASSUME NEW n \in Ids
          PROVE  (CASE n = b -> [players[n] EXCEPT !.st = "released"]
                    [] Replaces(b) /\ ~fails /\ n = next ->
                           [NoPlayer EXCEPT !.st = "preparing"]
                    [] OTHER -> players[n])
                 = IF n = b THEN [players[n] EXCEPT !.st = "released"]
                   ELSE IF n = next THEN Preparing ELSE players[n]
      <3>1. CASE n = b
        <4>1. players[b].st # "none"
          BY <2>1 DEF Ours, Sounding
        <4>2. n # next
          BY <2>3, <3>1, <4>1
        <4> QED BY <3>1, <4>2
      <3>2. CASE n # b /\ n = next
        BY <1>2, <1>3, <3>2
      <3>3. CASE n # b /\ n # next
        BY <3>3
      <3> QED BY <3>1, <3>2, <3>3
    <2>6. players' = Freed(players, b, next)
      BY <1>1, <2>5 DEF Freed
    <2> QED BY <2>3, <2>4, <2>6
  <1>4. CASE ~(Replaces(b) /\ ~fails)
    <2>1. players' = Freed(players, b, 0)
      BY <1>1, <1>4, IdsPositive DEF Freed
    <2> QED BY <2>1 DEF MayFollow
  <1> QED BY <1>3, <1>4

\* Players fs are players ps without player b.
FreedOK(ps, fs, b) ==
    /\ fs \in [Ids -> Players] /\ OneActive(fs)
    /\ b # 0 => fs[b].st = "released" /\ fs[b].gen = ps[b].gen
    /\ \A n \in Ids : ps[n].st # "none" /\ n # b => fs[n] = ps[n]
    /\ \A n \in Ids : fs[n].st \in Sounding => n # b /\ ps[n].st \in Sounding
    /\ \A n \in Ids : fs[n].epoch = ps[n].epoch \/ fs[n].epoch = 0

\* What freeing a player leaves: at most one active player, and every other one alone.
LEMMA FreedPlayers ==
  ASSUME NEW ps \in [Ids -> Players], NEW b \in Ids \cup {0}, NEW f \in Ids \cup {0},
         MayFollow(ps, b, f), Ours(ps, b), OneActive(ps)
  PROVE  FreedOK(ps, Freed(ps, b, f), b)
  <1> DEFINE fs == Freed(ps, b, f)
  <1>1. ASSUME NEW n \in Ids
        PROVE  /\ n = b => /\ fs[n].st = "released" /\ fs[n].gen = ps[n].gen
                           /\ fs[n].epoch = ps[n].epoch /\ fs[n] \in Players
               /\ n # b /\ n = f => fs[n] = Preparing
               /\ n # b /\ n # f => fs[n] = ps[n]
    <2>1. ps[n] \in Players
      OBVIOUS
    <2>2. CASE n = b
      <3>1. fs[n] = [ps[n] EXCEPT !.st = "released"]
        BY <2>2 DEF Freed
      <3>2. /\ fs[n].st = "released" /\ fs[n].gen = ps[n].gen
            /\ fs[n].epoch = ps[n].epoch /\ fs[n] \in Players
        BY <2>1, <3>1 DEF Players, Gone
      <3> QED BY <2>2, <3>2
    <2>3. CASE n # b
      BY <2>3 DEF Freed
    <2> QED BY <2>2, <2>3
  <1>2. Preparing \in Players
    BY SMTT(30) DEF Preparing, Players, Gone, Sounding
  <1>3. Preparing.st = "preparing" /\ Preparing.epoch = 0 /\ "preparing" \notin Sounding
    BY DEF Preparing, Sounding
  <1>4. fs \in [Ids -> Players]
    <2>1. \A n \in Ids : fs[n] \in Players
      BY <1>1, <1>2
    <2>2. fs = [n \in Ids |-> fs[n]]
      BY DEF Freed
    <2> QED BY <2>1, <2>2
  <1> HIDE DEF fs
  <1>5. ASSUME NEW n \in Ids, fs[n].st \notin Gone PROVE n # b /\ (n = f \/ ps[n].st \notin Gone)
    <2>1. "released" \in Gone
      BY DEF Gone
    <2> QED BY <1>1, <1>5, <2>1
  <1>6. f # 0 => b \in Ids /\ ps[b].st \notin Gone
    BY DEF MayFollow, Ours, Sounding, Gone
  <1>7. OneActive(fs)
    BY <1>5, <1>6, IdsPositive DEF OneActive
  <1>8. b # 0 => fs[b].st = "released" /\ fs[b].gen = ps[b].gen
    BY <1>1
  <1>9. \A n \in Ids : ps[n].st # "none" /\ n # b => fs[n] = ps[n]
    BY <1>1, IdsPositive DEF MayFollow
  <1>10. \A n \in Ids : fs[n].st \in Sounding => n # b /\ ps[n].st \in Sounding
    <2>1. "released" \notin Sounding
      BY DEF Sounding
    <2> QED BY <1>1, <1>3, <2>1
  <1>11. \A n \in Ids : fs[n].epoch = ps[n].epoch \/ fs[n].epoch = 0
    BY <1>1, <1>3
  <1> QED BY <1>4, <1>7, <1>8, <1>9, <1>10, <1>11 DEF FreedOK, fs

\* The owner thread releases the session's player, and has still to say so.
LEMMA BackendFreed ==
  ASSUME NEW ps \in [Ids -> Players], NEW b \in Ids \cup {0}, NEW f \in Ids \cup {0},
         NEW w, NEW v, NEW l, NEW g,
         PlayersOK(ps, b, w, l, g), MayFollow(ps, b, f), w.b = 0, l = "installed",
         v.k \in {"stop", "cleanup"}, v.b = b
  PROVE  PlayersOK(Freed(ps, b, f), b, v, l, g)
  <1> DEFINE fs == Freed(ps, b, f)
  <1>1. Ours(ps, b) /\ OneActive(ps)
    BY DEF PlayersOK, Ours, OneActive
  <1>2. FreedOK(ps, fs, b)
    BY <1>1, FreedPlayers
  <1> HIDE DEF fs
  <1>3. \A n \in Ids : fs[n].st \notin Sounding
    BY <1>2, IdsPositive DEF PlayersOK, FreedOK
  <1>4. v.k \notin {"none", "started", "pause", "resume"}
    OBVIOUS
  <1>5. b # 0 => fs[b].gen = g
    BY <1>2 DEF PlayersOK, FreedOK
  <1> QED BY <1>2, <1>3, <1>4, <1>5 DEF PlayersOK, OneActive, FreedOK, fs

\* The owner thread releases the player that it took for a session that had ended.
LEMMA TakenFreed ==
  ASSUME NEW ps \in [Ids -> Players], NEW b \in Ids \cup {0}, NEW f \in Ids \cup {0},
         NEW w, w.b \in Ids \cup {0}, NEW l, NEW g,
         PlayersOK(ps, b, w, l, g), MayFollow(ps, w.b, f), l = "installed"
  PROVE  PlayersOK(Freed(ps, w.b, f), b, NoWork, l, g)
  <1> DEFINE fs == Freed(ps, w.b, f)
  <1>1. Ours(ps, w.b) /\ OneActive(ps)
    BY DEF PlayersOK, Ours, OneActive
  <1>2. FreedOK(ps, fs, w.b)
    BY <1>1, FreedPlayers
  <1> HIDE DEF fs
  <1>3. NoWork.k = "none" /\ NoWork.b = 0
    BY DEF NoWork
  <1>4. \A n \in Ids : fs[n].st \in Sounding => n = b
    BY <1>2 DEF PlayersOK, FreedOK
  <1>5. b # 0 => fs[b].st \in Sounding \cup {"released"} /\ fs[b].gen = g
    <2>1. b # 0 => ps[b].st # "none" /\ ps[b].st \in Sounding \cup {"released"} /\ ps[b].gen = g
      BY DEF PlayersOK, Sounding
    <2>2. CASE b # 0 /\ b = w.b
      BY <1>2, <2>1, <2>2 DEF FreedOK
    <2>3. CASE b # 0 /\ b # w.b
      BY <1>2, <2>1, <2>3 DEF FreedOK
    <2> QED BY <2>2, <2>3
  <1> QED BY <1>2, <1>3, <1>4, <1>5 DEF PlayersOK, OneActive, FreedOK, fs

-----------------------------------------------------------------------------
(* The steps of the owner thread *)

\* The reports of the factory.
LEMMA ReportTask ==
  ASSUME NEW k \in Reports
  PROVE  /\ Task(k, 0, 0) \in Tasks /\ Task(k, 0, 0).k = k /\ Task(k, 0, 0).epoch = 0
         /\ Task(k, 0, 0).k \in Plain
  <1>1. Task(k, 0, 0).k = k /\ Task(k, 0, 0).epoch = 0
    BY DEF Task
  <1>2. 0 \in Nat
    BY SMTT(30)
  <1>3. Task(k, 0, 0) \in Tasks
    BY <1>2 DEF Task, Tasks, TaskKinds
  <1> QED BY <1>1, <1>3 DEF Plain

\* A plain task joins the queue, unless the runtime is closed.
LEMMA QueuedPlain ==
  ASSUME NEW q, NEW d \in {0, 1}, NEW e \in Nat, NEW r \in Seq(Tasks), From(q, r, d, e),
         NEW t \in Tasks, t.k \in Plain, t.epoch =< e
  PROVE  From(q, Queued(r, t), d, e) /\ Queued(r, t) \in Seq(Tasks)
  BY FromAppend DEF Queued

\* release only adds reports behind the tasks it is given.
LEMMA ReleaseQueues ==
  ASSUME NEW b, NEW rest \in Seq(Tasks), NEW fails, Release(b, rest, fails),
         NEW q, NEW d \in {0, 1}, NEW e \in Nat, From(q, rest, d, e)
  PROVE  From(q, queue', d, e) /\ queue' \in Seq(Tasks)
  <1> DEFINE p == Task("pending", 0, 0)
             x == Task("failed", 0, 0)
  <1>1. 0 =< e
    BY SMTT(30)
  <1>2. /\ p \in Tasks /\ p.k \in Plain /\ p.epoch =< e
        /\ x \in Tasks /\ x.k \in Plain /\ x.epoch =< e
    BY <1>1, ReportTask DEF Reports
  <1>3. \/ queue' = rest
        \/ queue' = Queued(Queued(rest, p), x)
        \/ queue' = Queued(rest, p)
    BY DEF Release
  <1> HIDE DEF p, x
  <1>4. From(q, Queued(rest, p), d, e) /\ Queued(rest, p) \in Seq(Tasks)
    BY <1>2, QueuedPlain
  <1>5. From(q, Queued(Queued(rest, p), x), d, e) /\ Queued(Queued(rest, p), x) \in Seq(Tasks)
    BY <1>2, <1>4, QueuedPlain
  <1> QED BY <1>3, <1>4, <1>5

\* Plain tasks do not close the runtime.
LEMMA CloseStays ==
  ASSUME NEW q, NEW r, NEW d \in {0, 1}, NEW e, NEW cl, CloseIsLast(q, cl), From(q, r, d, e)
  PROVE  CloseIsLast(r, cl)
  BY PlainIsNone DEF CloseIsLast, From

\* The owner thread takes its next task.
LEMMA HeadTaken ==
  ASSUME AudioInv, queue # <<>>
  PROVE  /\ Head(queue) \in Tasks /\ Tail(queue) \in Seq(Tasks)
         /\ From(queue, Tail(queue), 1, epoch)
         /\ Head(queue).epoch \in Nat /\ Head(queue).gen \in Nat /\ Head(queue).epoch =< epoch
         /\ ~closed => Head(queue).k # "close"
  <1>1. queue \in Seq(Tasks) /\ epoch \in Nat
    BY DEF AudioInv, AudioTypes
  <1>2. /\ Head(queue) \in Tasks /\ Tail(queue) \in Seq(Tasks)
        /\ 1 \in 1..Len(queue) /\ Head(queue) = queue[1]
    BY <1>1, HeadParts
  <1>3. From(queue, Tail(queue), 1, epoch)
    BY <1>1, FromTail
  <1>4. Head(queue).epoch \in Nat /\ Head(queue).gen \in Nat
    BY <1>2 DEF Tasks
  <1>5. Head(queue).epoch =< epoch /\ (~closed => Head(queue).k # "close")
    BY <1>2 DEF AudioInv, Old, CloseIsLast
  <1> QED BY <1>2, <1>3, <1>4, <1>5

\* The owner thread between two tasks.
LEMMA NoWorkType == /\ NoWork \in Works /\ NoWork.k = "none" /\ NoWork.b = 0
                    /\ NoWork.epoch = 0
  BY SMTT(30) DEF NoWork, Works

\* Everything but the command under way, when the owner thread releases the session's player.
Resources ==
    /\ players \in [Ids -> Players] /\ queue \in Seq(Tasks) /\ work \in Works
    /\ PlayersOK(players, backend, work, lifetime, gen) /\ PoolOK
    /\ Old(hand, queue, work, players, epoch) /\ CloseIsLast(queue, closed)

\* The player in the pool is neither the session's nor unused.
LEMMA PoolApart ==
  ASSUME AudioInv, pool # 0
  PROVE  pool \in Ids /\ pool # backend /\ pool # work.b /\ players[pool].st = "pooled"
         /\ players[pool].st # "none"
  BY DEF AudioInv, PoolOK, PlayersOK, AudioTypes, Sounding

\* 0 is an epoch of the past.
LEMMA OldZero == ASSUME NEW e \in Nat PROVE 0 =< e /\ 0 \in Nat
  BY SMTT(30)

\* applyStop, publishError and onNaturalEnd: the session's player is released.
LEMMA BackendReleases ==
  ASSUME AudioInv, work = NoWork, lifetime = "installed", queue # <<>>, NEW fails,
         Release(backend, Tail(queue), fails), NEW k \in {"stop", "cleanup"},
         NEW clean \in BOOLEAN, work' = Inside(k, Head(queue), backend, clean),
         UNCHANGED <<gen, backend, closed, hand, lifetime, pool>>,
         epoch' \in {epoch, epoch + 1}
  PROVE  /\ Resources' /\ From(queue, queue', 1, epoch)
         /\ StateOf(players', backend) \in Gone
  <1>1. /\ backend \in Ids \cup {0} /\ players \in [Ids -> Players] /\ epoch \in Nat
        /\ gen \in Nat /\ queue \in Seq(Tasks) /\ work \in Works
        /\ hand \in [Callers -> Handed \cup {NoTask}]
    BY DEF AudioInv, AudioTypes
  <1>2. /\ Head(queue) \in Tasks /\ Tail(queue) \in Seq(Tasks)
        /\ From(queue, Tail(queue), 1, epoch) /\ Head(queue).epoch =< epoch
        /\ Head(queue).epoch \in Nat /\ Head(queue).gen \in Nat
    BY HeadTaken
  <1>3. From(queue, queue', 1, epoch) /\ queue' \in Seq(Tasks)
    BY <1>1, <1>2, ReleaseQueues
  <1>4. Ours(players, backend) /\ OneActive(players)
    BY DEF AudioInv, PlayersOK, Ours, OneActive
  <1>5. PICK f \in Ids \cup {0} : MayFollow(players, backend, f)
                               /\ players' = Freed(players, backend, f)
    BY <1>1, <1>4, ReleaseFrees
  <1>6. FreedOK(players, players', backend)
    BY <1>1, <1>4, <1>5, FreedPlayers
  <1>7. /\ work' \in Works /\ work'.k = k /\ work'.b = backend
        /\ work'.epoch = Head(queue).epoch
    BY <1>1, <1>2 DEF Inside, Works
  <1>8. PlayersOK(players', backend, work', lifetime, gen)
    <2>1. PlayersOK(players, backend, work, lifetime, gen) /\ work.b = 0
      BY NoWorkType DEF AudioInv
    <2>2. PlayersOK(Freed(players, backend, f), backend, work', lifetime, gen)
      BY <1>1, <1>5, <1>7, <2>1, BackendFreed
    <2> QED BY <1>5, <2>2
  <1>9. PoolOK'
    BY <1>6, PoolApart DEF PoolOK, FreedOK
  <1>10. Old(hand, queue', work', players', epoch)
    <2>1. Old(hand, queue, work, players, epoch)
      BY DEF AudioInv
    <2>2. \A n \in Ids : players'[n].epoch =< epoch
      BY <1>1, <1>6, <2>1, OldZero DEF FreedOK, Old
    <2>3. \A i \in 1..Len(queue') : queue'[i].epoch =< epoch
      <3>1. Old(hand, queue', work, players, epoch)
        BY <1>3, <2>1, OldStays
      <3> QED BY <3>1 DEF Old
    <2> QED BY <1>2, <1>7, <2>1, <2>2, <2>3 DEF Old
  <1>11. players' \in [Ids -> Players]
    BY <1>6 DEF FreedOK
  <1>12. Old(hand, queue', work', players', epoch')
    BY <1>1, <1>3, <1>7, <1>10, <1>11, OldLater
  <1>13. CloseIsLast(queue', closed)
    BY <1>3, CloseStays DEF AudioInv
  <1>14. StateOf(players', backend) \in Gone
    BY <1>6 DEF StateOf, Gone, FreedOK
  <1> QED BY <1>3, <1>7, <1>8, <1>9, <1>11, <1>12, <1>13, <1>14 DEF Resources

\* Steps that change nothing but the queue leave the players and the epochs alone.
LEMMA QueueResources ==
  ASSUME AudioInv, NEW d \in {0, 1}, queue' \in Seq(Tasks), From(queue, queue', d, epoch),
         UNCHANGED <<gen, epoch, backend, closed, hand, work, players, lifetime, pool>>
  PROVE  Resources'
  <1>1. Old(hand, queue', work, players, epoch)
    BY OldStays DEF AudioInv
  <1>2. CloseIsLast(queue', closed)
    BY CloseStays DEF AudioInv
  <1>3. PoolOK'
    BY DEF AudioInv, PoolOK
  <1> QED BY <1>1, <1>2, <1>3 DEF Resources, AudioInv, AudioTypes

\* What is left to show once the resources are accounted for.
LEMMA Assemble ==
  ASSUME AudioInv, Resources', phase' \in Phases, gen' \in Nat, epoch' \in Nat,
         backend' \in Ids \cup {0}, closed' \in BOOLEAN, afterEnd' \in BOOLEAN,
         hand' \in [Callers -> Handed \cup {NoTask}], pool' \in Ids \cup {0},
         lifetime' \in {"installed", "retained", "released"},
         phase' \in {"IDLE", "STOPPED"} => backend' = 0, lifetime' # "installed" => closed',
         ~closed' => CommandOK'
  PROVE  AudioInv'
  BY DEF Resources, AudioInv, AudioTypes

\* Steps that only take a task from the queue or add plain ones keep the invariant.
LEMMA QueueOnly ==
  ASSUME AudioInv, NEW d \in {0, 1}, queue' \in Seq(Tasks), From(queue, queue', d, epoch),
         UNCHANGED <<phase, gen, epoch, backend, closed, afterEnd, hand, work, players,
                     lifetime, pool>>
  PROVE  AudioInv'
  <1>1. Resources'
    BY QueueResources
  <1>2. epoch \in Nat
    BY DEF AudioInv, AudioTypes
  <1>3. ~closed => CommandOK'
    <2>1. ASSUME CommandOK PROVE CommandOK'
      <3>1. Command(hand, queue', work, gen, epoch, phase, afterEnd, StateOf(players, backend))
        BY <1>2, <2>1, CommandStays DEF CommandOK
      <3> QED BY <3>1 DEF CommandOK
    <2> QED BY <2>1 DEF AudioInv
  <1> QED BY <1>1, <1>3, Assemble DEF AudioInv, AudioTypes

\* A task of a session that is over is dropped.
LEMMA SkipKeeps ==
  ASSUME AudioInv, work = NoWork, queue # <<>>, Skip,
         UNCHANGED <<gen, backend, closed, afterEnd, hand, lifetime, pool>>
  PROVE  AudioInv'
  <1>1. Tail(queue) \in Seq(Tasks) /\ From(queue, Tail(queue), 1, epoch)
    BY HeadTaken
  <1> QED BY <1>1, QueueOnly DEF Skip, Leave

\* The epoch moves on with the player released: nothing of the old epoch counts.
LEMMA EpochEnds ==
  ASSUME AudioInv, ~closed, phase # "STOPPING", work = NoWork, lifetime = "installed",
         queue # <<>>, NEW fails, Release(backend, Tail(queue), fails),
         work' = Inside("cleanup", Head(queue), backend, TRUE), epoch' = epoch + 1,
         UNCHANGED <<gen, backend, closed, hand, lifetime, pool>>,
         phase' \in {"ERROR", "PAUSED", "SILENT"}, afterEnd' \in BOOLEAN,
         phase' = "PAUSED" => afterEnd'
  PROVE  AudioInv'
  <1>1. /\ epoch \in Nat /\ gen \in Nat /\ queue \in Seq(Tasks) /\ work \in Works
        /\ hand \in [Callers -> Handed \cup {NoTask}] /\ epoch + 1 \in Nat
    BY SMTT(30) DEF AudioInv, AudioTypes
  <1>2. /\ Resources' /\ From(queue, queue', 1, epoch)
        /\ StateOf(players', backend) \in Gone
    BY BackendReleases
  <1>3. queue' \in Seq(Tasks)
    BY <1>2 DEF Resources
  <1>4. /\ Old(hand, queue, work, players, epoch)
        /\ Command(hand, queue, work, gen, epoch, phase, afterEnd, StateOf(players, backend))
    BY DEF AudioInv, CommandOK
  <1>5. Clear(hand, queue', gen, epoch + 1)
    BY <1>1, <1>2, <1>3, <1>4, EpochClears
  <1>6. IdleWork(work', gen, epoch + 1)
    BY DEF Inside, IdleWork, WorkTok, WorkTokens
  <1>7. PhaseFits(phase', afterEnd', StateOf(players', backend))
    BY <1>2 DEF PhaseFits
  <1>8. CommandOK'
    <2>1. Command(hand, queue', work', gen, epoch + 1, phase', afterEnd',
                  StateOf(players', backend))
      BY <1>5, <1>6, <1>7, ClearIsCommand
    <2> QED BY <2>1 DEF CommandOK
  <1>9. phase' \in Phases /\ phase' \notin {"IDLE", "STOPPED"}
    BY DEF Phases
  <1> QED BY <1>1, <1>2, <1>8, <1>9, Assemble DEF AudioInv, AudioTypes

\* publishError: a current session fails, an old one is left alone.
LEMMA FailKeeps ==
  ASSUME AudioInv, work = NoWork, lifetime = "installed", queue # <<>>, NEW fails,
         Fail(Head(queue), Tail(queue), fails),
         UNCHANGED <<gen, backend, closed, afterEnd, hand, lifetime, pool>>
  PROVE  AudioInv'
  <1>1. CASE Current(Head(queue)) /\ phase # "STOPPING"
    <2>1. /\ phase' = "ERROR" /\ epoch' = epoch + 1 /\ ~closed
          /\ Release(backend, Tail(queue), fails)
          /\ work' = Inside("cleanup", Head(queue), backend, TRUE)
      BY <1>1 DEF Fail, Current
    <2>2. afterEnd' \in BOOLEAN
      BY DEF AudioInv, AudioTypes
    <2> QED BY <1>1, <2>1, <2>2, EpochEnds
  <1>2. CASE ~(Current(Head(queue)) /\ phase # "STOPPING")
    <2>1. Skip
      BY <1>2 DEF Fail, Skip
    <2> QED BY <2>1, SkipKeeps
  <1> QED BY <1>1, <1>2

\* The factory hands out its prepared player: no other player holds the platform.
LEMMA PoolTaken ==
  ASSUME AudioInv, pool # 0, NEW t, t.gen \in Nat, t.epoch \in Nat, t.epoch =< epoch,
         players' = [players EXCEPT ![pool] = [st |-> "held", gen |-> t.gen, epoch |-> t.epoch]]
  PROVE  /\ players' \in [Ids -> Players] /\ OneActive(players')
         /\ players'[pool].st = "held" /\ players'[pool].gen = t.gen
         /\ \A n \in Ids : n # pool => players'[n] = players[n]
         /\ \A n \in Ids : players'[n].st \in Sounding => n = pool
         /\ \A n \in Ids : players'[n].epoch =< epoch
  <1>1. players \in [Ids -> Players] /\ pool \in Ids /\ players[pool].st = "pooled"
    BY PoolApart DEF AudioInv, AudioTypes
  <1> DEFINE h == [st |-> "held", gen |-> t.gen, epoch |-> t.epoch]
  <1>2. h \in Players /\ h.st = "held" /\ h.gen = t.gen /\ h.epoch = t.epoch
    BY DEF Players, Sounding
  <1>3. players' = [players EXCEPT ![pool] = h]
    OBVIOUS
  <1> HIDE DEF h
  <1>4. players'[pool] = h /\ \A n \in Ids : n # pool => players'[n] = players[n]
    BY <1>1, <1>3
  <1>5. players' \in [Ids -> Players]
    BY <1>1, <1>2, <1>3
  <1>6. \A n \in Ids : n # pool => players[n].st \in Gone
    BY <1>1 DEF AudioInv, PlayersOK, Gone
  <1>7. \A n \in Ids : n # pool => players'[n].st \in Gone
    BY <1>4, <1>6
  <1>8. OneActive(players')
    BY <1>7 DEF OneActive
  <1>9. \A n \in Ids : players'[n].st \in Sounding => n = pool
    BY <1>7 DEF Gone, Sounding
  <1>10. \A n \in Ids : players'[n].epoch =< epoch
    BY <1>2, <1>4 DEF AudioInv, Old
  <1> QED BY <1>2, <1>4, <1>5, <1>8, <1>9, <1>10

\* applyPrepare: the session gets the prepared player, or fails, or the player of a session
\* that ended meanwhile is taken to be released again.
LEMMA PrepareKeeps ==
  ASSUME AudioInv, NEW fails, ApplyPrepare(fails)
  PROVE  AudioInv'
  <1> DEFINE t == Head(queue)
  <1>1. /\ work = NoWork /\ lifetime = "installed" /\ queue # <<>> /\ t.k = "prepare"
        /\ UNCHANGED <<gen, closed, afterEnd, hand, lifetime>>
    BY DEF ApplyPrepare, At
  <1>2. /\ t \in Tasks /\ Tail(queue) \in Seq(Tasks) /\ From(queue, Tail(queue), 1, epoch)
        /\ t.epoch \in Nat /\ t.gen \in Nat /\ t.epoch =< epoch
    BY <1>1, HeadTaken
  <1>3. CASE pool = 0 \/ factory.closed
    BY <1>1, <1>3, FailKeeps DEF ApplyPrepare
  <1>4. ASSUME pool # 0, ~factory.closed PROVE AudioInv'
    <2> DEFINE fresh == Current(t) /\ phase = "PREPARING"
    <2>1. /\ players' = [players EXCEPT ![pool] =
                            [st |-> "held", gen |-> t.gen, epoch |-> t.epoch]]
          /\ pool' = 0 /\ backend' = (IF fresh THEN pool ELSE backend)
          /\ work' = (IF fresh THEN NoWork ELSE Inside("stale", t, pool, TRUE))
          /\ queue' = (IF fresh THEN Queued(Tail(queue), Task("prepared", t.gen, t.epoch))
                       ELSE Tail(queue))
          /\ UNCHANGED <<phase, epoch>>
      BY <1>4 DEF ApplyPrepare
    <2> HIDE DEF t
    <2>2. /\ players' \in [Ids -> Players] /\ OneActive(players')
          /\ players'[pool].st = "held" /\ players'[pool].gen = t.gen
          /\ \A n \in Ids : n # pool => players'[n] = players[n]
          /\ \A n \in Ids : players'[n].st \in Sounding => n = pool
          /\ \A n \in Ids : players'[n].epoch =< epoch
      BY <1>2, <1>4, <2>1, PoolTaken
    <2>3. /\ pool \in Ids /\ pool # backend /\ epoch \in Nat /\ gen \in Nat
          /\ queue \in Seq(Tasks) /\ backend \in Ids \cup {0}
      BY <1>4, PoolApart DEF AudioInv, AudioTypes
    <2>4. PoolOK'
      BY <2>1 DEF PoolOK
    <2>5. CASE fresh
      <3> DEFINE u == Task("prepared", t.gen, t.epoch)
      <3>1. ~closed /\ t.gen = gen /\ t.epoch = epoch /\ phase = "PREPARING"
        BY <2>5 DEF Current
      <3>2. backend' = pool /\ work' = NoWork /\ queue' = Append(Tail(queue), u)
        BY <2>1, <2>5, <3>1 DEF Queued
      <3>3. u \in Tasks /\ u.k = "prepared" /\ u.gen = t.gen /\ u.epoch = t.epoch
        BY <1>2 DEF Task, Tasks, TaskKinds
      <3> HIDE DEF u
      <3>4. \A i \in 1..Len(queue') : \/ i \in 1..Len(Tail(queue)) /\ queue'[i] = Tail(queue)[i]
                                      \/ queue'[i] = u
        BY <1>2, <3>2, <3>3, AppendParts
      <3>5. queue' \in Seq(Tasks)
        BY <1>2, <3>2, <3>3, AppendParts
      <3>6. PlayersOK(players', pool, NoWork, lifetime, gen)
        <4>1. "held" \in Sounding
          BY DEF Sounding
        <4> QED BY <1>1, <2>2, <3>1, <4>1, NoWorkType DEF PlayersOK, OneActive
      <3>7. Old(hand, Tail(queue), work, players, epoch) /\ CloseIsLast(Tail(queue), closed)
        BY <1>2, OldStays, CloseStays DEF AudioInv
      <3>8. Old(hand, queue', NoWork, players', epoch)
        BY <1>1, <1>2, <2>2, <3>3, <3>4, <3>7 DEF Old
      <3>9. CloseIsLast(queue', closed)
        BY <3>3, <3>4, <3>7 DEF CloseIsLast
      <3>10. Resources'
        BY <1>1, <2>1, <2>2, <2>4, <3>2, <3>5, <3>6, <3>8, <3>9, NoWorkType DEF Resources
      <3>11. Clear(hand, Tail(queue), gen, epoch) /\ IdleWork(NoWork, gen, epoch)
        <4>1. Tok(t, gen, epoch)
          BY <1>1, <3>1 DEF t, Tok, TokenKinds, Commands
        <4>2. Command(hand, queue, work, gen, epoch, phase, afterEnd, StateOf(players, backend))
          BY <3>1 DEF AudioInv, CommandOK
        <4> QED BY <1>1, <1>2, <2>3, <4>1, <4>2, HeadClears DEF t
      <3>12. StateOf(players', pool) = "held"
        BY <1>4, <2>2 DEF StateOf
      <3>13. TokenFits(u.k, phase, afterEnd, "held") /\ PhaseFits(phase, afterEnd, "held")
             /\ u.k \notin Stops
        BY <3>1, <3>3 DEF TokenFits, PhaseFits, Stops
      <3>14. Command(hand, queue', NoWork, gen, epoch, phase, afterEnd, "held")
        BY <1>2, <3>2, <3>3, <3>11, <3>13, ClearQueue
      <3>15. CommandOK'
        BY <1>1, <2>1, <3>2, <3>12, <3>14 DEF CommandOK
      <3>16. phase' \notin {"IDLE", "STOPPED"}
        BY <2>1, <3>1
      <3> QED BY <1>1, <2>1, <2>3, <3>2, <3>10, <3>15, <3>16, Assemble DEF AudioInv, AudioTypes
    <2>6. CASE ~fresh
      <3>1. /\ UNCHANGED <<backend, gen, closed, afterEnd, hand, lifetime, phase, epoch>>
            /\ queue' = Tail(queue) /\ work' = Inside("stale", t, pool, TRUE)
        BY <1>1, <2>1, <2>6
      <3>2. work' \in Works /\ work'.k = "stale" /\ work'.b = pool /\ work'.epoch = t.epoch
        BY <1>2, <2>3, <3>1 DEF Inside, Works
      <3>3. PlayersOK(players', backend, work', lifetime, gen)
        <4>1. backend # 0 => /\ players'[backend] = players[backend]
                             /\ players[backend].st \in Sounding \cup {"released"}
                             /\ players[backend].gen = gen
          BY <2>2, <2>3 DEF AudioInv, PlayersOK
        <4>2. "held" \in Sounding
          BY DEF Sounding
        <4> QED BY <1>1, <2>2, <2>3, <3>2, <4>1, <4>2 DEF PlayersOK, OneActive
      <3>4. Old(hand, queue', work', players', epoch) /\ CloseIsLast(queue', closed)
        <4>1. Old(hand, Tail(queue), work, players, epoch) /\ CloseIsLast(Tail(queue), closed)
          BY <1>2, OldStays, CloseStays DEF AudioInv
        <4> QED BY <1>2, <2>2, <3>1, <3>2, <4>1 DEF Old
      <3>5. Resources'
        BY <1>2, <2>2, <2>4, <3>1, <3>2, <3>3, <3>4 DEF Resources
      <3>6. StateOf(players', backend) = StateOf(players, backend)
        BY <2>2, <2>3 DEF StateOf
      <3>7. IdleWork(work', gen, epoch)
        BY <3>2 DEF IdleWork, WorkTok, WorkTokens
      <3>8. ASSUME CommandOK PROVE CommandOK'
        <4>1. Command(hand, queue', work', gen, epoch, phase, afterEnd, StateOf(players, backend))
          BY <1>2, <2>3, <3>1, <3>7, <3>8, CommandStays DEF CommandOK
        <4> QED BY <3>1, <3>6, <4>1 DEF CommandOK
      <3> QED BY <2>1, <2>3, <3>1, <3>5, <3>8, Assemble DEF AudioInv, AudioTypes
    <2> QED BY <2>5, <2>6
  <1> QED BY <1>3, <1>4

\* onError: the session fails, or the callback is of an older one.
LEMMA ErrorKeeps ==
  ASSUME AudioInv, NEW fails, ErrorEvent(fails)
  PROVE  AudioInv'
  BY FailKeeps DEF ErrorEvent, At

\* onNaturalEnd: the session falls silent, or stays paused, and its player is released.
LEMMA EndedKeeps ==
  ASSUME AudioInv, NEW fails, EndedEvent(fails)
  PROVE  AudioInv'
  <1>1. /\ work = NoWork /\ lifetime = "installed" /\ queue # <<>>
        /\ UNCHANGED <<gen, backend, closed, hand, lifetime, pool>>
    BY DEF EndedEvent, At
  <1>2. CASE Current(Head(queue)) /\ phase \in {"PLAYING", "PAUSED", "PAUSING"}
    <2>1. /\ afterEnd' = (phase # "PLAYING")
          /\ phase' = (IF phase # "PLAYING" THEN "PAUSED" ELSE "SILENT")
          /\ epoch' = epoch + 1 /\ Release(backend, Tail(queue), fails)
          /\ work' = Inside("cleanup", Head(queue), backend, TRUE)
      BY <1>2 DEF EndedEvent
    <2>2. afterEnd' \in BOOLEAN /\ phase' \in {"ERROR", "PAUSED", "SILENT"}
          /\ (phase' = "PAUSED" => afterEnd')
      BY <2>1
    <2>3. ~closed /\ phase # "STOPPING"
      BY <1>2 DEF Current
    <2> QED BY <1>1, <2>1, <2>2, <2>3, EpochEnds
  <1>3. CASE ~(Current(Head(queue)) /\ phase \in {"PLAYING", "PAUSED", "PAUSING"})
    <2>1. Skip /\ UNCHANGED afterEnd
      BY <1>3 DEF EndedEvent
    <2> QED BY <1>1, <2>1, SkipKeeps
  <1> QED BY <1>2, <1>3

\* A readiness report only leaves the queue.
LEMMA ReadinessKeeps ==
  ASSUME AudioInv, ReadinessEvent
  PROVE  AudioInv'
  <1>1. /\ queue # <<>> /\ queue' = Tail(queue)
        /\ UNCHANGED <<phase, gen, epoch, backend, closed, afterEnd, hand, work, players,
                       lifetime, pool>>
    BY DEF ReadinessEvent, At
  <1>2. From(queue, queue', 1, epoch) /\ queue' \in Seq(Tasks)
    BY <1>1, HeadTaken
  <1> QED BY <1>1, <1>2, QueueOnly

\* A report of the command under way moves the phase to one the player's state fits.
LEMMA Settles ==
  ASSUME AudioInv, ~closed, work = NoWork, queue # <<>>, queue' = Tail(queue),
         Tok(Head(queue), gen, epoch),
         phase' \in Phases \ {"IDLE", "STOPPED"},
         PhaseFits(phase', afterEnd, StateOf(players, backend)),
         UNCHANGED <<gen, epoch, backend, closed, afterEnd, hand, work, players, lifetime, pool>>
  PROVE  AudioInv'
  <1>1. queue' \in Seq(Tasks) /\ From(queue, queue', 1, epoch)
    BY HeadTaken
  <1>2. Resources'
    BY <1>1, QueueResources
  <1>3. Command(hand, queue, work, gen, epoch, phase, afterEnd, StateOf(players, backend))
    BY DEF AudioInv, CommandOK
  <1>4. queue \in Seq(Tasks) /\ epoch \in Nat
    BY DEF AudioInv, AudioTypes
  <1>5. Clear(hand, queue', gen, epoch) /\ IdleWork(work, gen, epoch)
    BY <1>1, <1>3, <1>4, HeadClears
  <1>6. Command(hand, queue', work, gen, epoch, phase', afterEnd, StateOf(players, backend))
    BY <1>5, ClearIsCommand
  <1>7. CommandOK'
    BY <1>6 DEF CommandOK
  <1> QED BY <1>2, <1>7, Assemble DEF AudioInv, AudioTypes

\* onPrepared and onActualStart find the player as the new phase says.
LEMMA EventKeeps ==
  ASSUME AudioInv, PreparedEvent \/ PlayingEvent
  PROVE  AudioInv'
  <1>1. /\ work = NoWork /\ queue # <<>> /\ queue' = Tail(queue)
        /\ UNCHANGED <<gen, epoch, backend, closed, afterEnd, hand, work, players, lifetime, pool>>
    BY DEF PreparedEvent, PlayingEvent, At
  <1>2. From(queue, queue', 1, epoch) /\ queue' \in Seq(Tasks)
    BY <1>1, HeadTaken
  <1>3. CASE phase' = phase
    BY <1>1, <1>2, <1>3, QueueOnly
  <1>4. ASSUME phase' # phase PROVE AudioInv'
    <2>1. /\ Current(Head(queue)) /\ Head(queue).k \in {"prepared", "playing"}
          /\ Head(queue).k = "prepared" => phase' = "PREPARED"
          /\ Head(queue).k = "playing" => phase' = "PLAYING"
      BY <1>4 DEF PreparedEvent, PlayingEvent, At
    <2>2. ~closed /\ Tok(Head(queue), gen, epoch)
      BY <2>1 DEF Current, Tok, TokenKinds
    <2>3. 1 \in 1..Len(queue) /\ Head(queue) = queue[1]
      BY <1>1, HeadParts DEF AudioInv, AudioTypes
    <2>4. TokenFits(Head(queue).k, phase, afterEnd, StateOf(players, backend))
      BY <2>2, <2>3 DEF AudioInv, CommandOK, Command, Fits
    <2>5. /\ PhaseFits(phase', afterEnd, StateOf(players, backend))
          /\ phase' \in Phases \ {"IDLE", "STOPPED"}
      BY <2>1, <2>4 DEF TokenFits, PhaseFits, Phases
    <2> QED BY <1>1, <2>2, <2>5, Settles
  <1> QED BY <1>3, <1>4

\* The owner thread leaves a section in which it held no player but the session's.
LEMMA WorkEnds ==
  ASSUME AudioInv, work.k \in {"started", "pause", "resume", "stop", "cleanup"},
         work' = NoWork, UNCHANGED <<gen, epoch, closed, hand, players, lifetime, pool>>,
         queue' \in Seq(Tasks), Old(hand, queue', work, players, epoch),
         CloseIsLast(queue', closed),
         backend' = backend \/ (work.k \in {"stop", "cleanup"} /\ backend' = 0)
  PROVE  Resources'
  <1>1. PlayersOK(players, backend, work, lifetime, gen) /\ players \in [Ids -> Players]
    BY DEF AudioInv, AudioTypes
  <1>2. "released" \notin Sounding
    BY DEF Sounding
  <1>3. \A n \in Ids : players[n].st \in Sounding => n = backend'
    <2> SUFFICES ASSUME NEW n \in Ids, players[n].st \in Sounding PROVE n = backend'
      OBVIOUS
    <2>1. n = backend \/ n = work.b
      BY <1>1 DEF PlayersOK
    <2>2. CASE work.k \in {"started", "pause", "resume"}
      <3>1. work.b = 0
        BY <1>1, <2>2 DEF PlayersOK
      <3> QED BY <2>1, <2>2, <3>1, IdsPositive
    <2>3. CASE work.k \in {"stop", "cleanup"}
      <3>1. work.b = backend /\ (backend # 0 => players[backend].st = "released")
        BY <1>1, <2>3 DEF PlayersOK
      <3> QED BY <1>2, <2>1, <3>1, IdsPositive
    <2> QED BY <2>2, <2>3
  <1>4. backend' # 0 => backend' = backend
    OBVIOUS
  <1>5. PlayersOK(players, backend', NoWork, lifetime, gen)
    BY <1>1, <1>3, <1>4, NoWorkType DEF PlayersOK
  <1>6. Old(hand, queue', NoWork, players, epoch)
    <2>1. epoch \in Nat
      BY DEF AudioInv, AudioTypes
    <2>2. NoWork.epoch =< epoch
      BY <2>1, NoWorkType, OldZero
    <2> QED BY <2>2 DEF Old
  <1>7. PoolOK'
    BY DEF AudioInv, PoolOK
  <1> QED BY <1>1, <1>5, <1>6, <1>7, NoWorkType DEF Resources

\* The section just left carries no command.
LEMMA NoWorkIdle == ASSUME NEW g, NEW e PROVE IdleWork(NoWork, g, e)
  BY NoWorkType DEF IdleWork, WorkTok, WorkTokens

\* applyPauseResume, second section: the phase follows the player, unless a stop came.
LEMMA SettlePauseKeeps ==
  ASSUME AudioInv, SettlePause
  PROVE  AudioInv'
  <1>1. /\ work.k \in {"pause", "resume"} /\ work' = NoWork
        /\ UNCHANGED <<gen, epoch, backend, closed, afterEnd, hand, queue, players,
                       pool, lifetime>>
        /\ phase' = (IF ~Current(work) \/ phase = "STOPPING" THEN phase
                     ELSE IF work.k = "pause" THEN "PAUSED" ELSE "SILENT")
    BY DEF SettlePause, Leave
  <1>2. Resources'
    BY <1>1, WorkEnds DEF AudioInv, AudioTypes
  <1>3. /\ queue \in Seq(Tasks) /\ epoch \in Nat /\ IdleWork(NoWork, gen, epoch)
        /\ From(queue, queue, 0, epoch)
    BY NoWorkIdle, FromSame DEF AudioInv, AudioTypes
  <1>4. CASE phase' = phase
    <2>1. ASSUME CommandOK PROVE CommandOK'
      <3>1. Command(hand, queue, NoWork, gen, epoch, phase, afterEnd, StateOf(players, backend))
        BY <1>3, <2>1, CommandStays DEF CommandOK
      <3> QED BY <1>1, <1>4, <3>1 DEF CommandOK
    <2> QED BY <1>1, <1>2, <1>4, <2>1, Assemble DEF AudioInv, AudioTypes
  <1>5. ASSUME phase' # phase PROVE AudioInv'
    <2>1. /\ ~closed /\ WorkTok(work, gen, epoch)
          /\ phase' = (IF work.k = "pause" THEN "PAUSED" ELSE "SILENT")
      BY <1>1, <1>5 DEF Current, WorkTok, WorkTokens
    <2>2. Command(hand, queue, work, gen, epoch, phase, afterEnd, StateOf(players, backend))
      BY <2>1 DEF AudioInv, CommandOK
    <2>3. Clear(hand, queue, gen, epoch)
      BY <2>1, <2>2, WorkClears
    <2>4. WorkFits(work.k, phase, afterEnd, StateOf(players, backend))
      BY <2>1, <2>2 DEF Command, Fits
    <2>5. PhaseFits(phase', afterEnd, StateOf(players, backend))
      BY <1>1, <2>1, <2>4 DEF WorkFits, PhaseFits
    <2>6. Command(hand, queue, NoWork, gen, epoch, phase', afterEnd, StateOf(players, backend))
      BY <1>3, <2>3, <2>5, ClearIsCommand
    <2>7. CommandOK'
      BY <1>1, <2>6 DEF CommandOK
    <2>8. phase' \in Phases \ {"IDLE", "STOPPED"}
      BY <2>1 DEF Phases
    <2> QED BY <1>1, <1>2, <2>7, <2>8, Assemble DEF AudioInv, AudioTypes
  <1> QED BY <1>4, <1>5

\* applyStop, second section: the stop was not overtaken, so it is this session's.
LEMMA SettleStopKeeps ==
  ASSUME AudioInv, SettleStop
  PROVE  AudioInv'
  <1>1. /\ work.k = "stop" /\ work' = NoWork
        /\ UNCHANGED <<gen, epoch, closed, afterEnd, hand, queue, players, pool, lifetime>>
    BY DEF SettleStop, Leave
  <1>2. work.b = backend
    BY <1>1 DEF AudioInv, PlayersOK
  <1>3. \/ phase' = "STOPPED" /\ backend' = 0
        \/ phase' = "ERROR" /\ backend' = backend
        \/ phase' = phase /\ backend' = backend /\ ~(work.gen = gen /\ phase = "STOPPING")
    BY <1>2 DEF SettleStop
  <1>4. Resources'
    BY <1>1, <1>3, WorkEnds DEF AudioInv, AudioTypes
  <1>5. ASSUME ~closed PROVE CommandOK'
    <2>1. Command(hand, queue, work, gen, epoch, phase, afterEnd, StateOf(players, backend))
      BY <1>5 DEF AudioInv, CommandOK
    <2>2. WorkTok(work, gen, epoch)
      BY <1>1, <2>1 DEF Command, StopsCurrent
    <2>3. phase = "STOPPING" /\ work.gen = gen
      BY <1>1, <2>1, <2>2 DEF Command, Fits, WorkFits, WorkTok
    <2>4. Clear(hand, queue, gen, epoch) /\ IdleWork(NoWork, gen, epoch)
      BY <2>1, <2>2, WorkClears, NoWorkIdle
    <2>5. PhaseFits(phase', afterEnd, StateOf(players, backend'))
      BY <1>3, <2>3 DEF PhaseFits
    <2>6. Command(hand, queue, NoWork, gen, epoch, phase', afterEnd, StateOf(players, backend'))
      BY <2>4, <2>5, ClearIsCommand
    <2> QED BY <1>1, <2>6 DEF CommandOK
  <1>6. phase' \in Phases /\ backend' \in Ids \cup {0}
        /\ (phase' \in {"IDLE", "STOPPED"} => backend' = 0)
    BY <1>3 DEF AudioInv, AudioTypes, Phases
  <1> QED BY <1>1, <1>4, <1>5, <1>6, Assemble DEF AudioInv, AudioTypes

\* A session without a player and one whose player is released are the same.
LEMMA GoneIsGone ==
  ASSUME NEW h, NEW q, NEW w, NEW g, NEW e, NEW ph, NEW ae, NEW st \in Gone, NEW su \in Gone,
         Command(h, q, w, g, e, ph, ae, st)
  PROVE  Command(h, q, w, g, e, ph, ae, su)
  <1>1. /\ st # "held" /\ st \notin Played /\ st \notin Paused
        /\ su # "held" /\ su \notin Played /\ su \notin Paused
    BY DEF Gone, Played, Paused
  <1>2. \A k : TokenFits(k, ph, ae, st) => TokenFits(k, ph, ae, su)
    BY <1>1 DEF TokenFits
  <1>3. \A k : WorkFits(k, ph, ae, st) => WorkFits(k, ph, ae, su)
    BY <1>1 DEF WorkFits
  <1>4. PhaseFits(ph, ae, st) => PhaseFits(ph, ae, su)
    BY <1>1 DEF PhaseFits
  <1> QED BY <1>2, <1>3, <1>4 DEF Command, Fits

\* onNaturalEnd and publishError, second section: the released player is forgotten.
LEMMA CleanupKeeps ==
  ASSUME AudioInv, SettleCleanup
  PROVE  AudioInv'
  <1>1. /\ work.k = "cleanup" /\ work' = NoWork
        /\ UNCHANGED <<phase, gen, epoch, closed, afterEnd, hand, queue, players, pool, lifetime>>
    BY DEF SettleCleanup, Leave
  <1>2. work.b = backend /\ (backend # 0 => players[backend].st = "released")
    BY <1>1 DEF AudioInv, PlayersOK
  <1>3. backend' = 0
    BY <1>2 DEF SettleCleanup
  <1>4. Resources'
    BY <1>1, <1>3, WorkEnds DEF AudioInv, AudioTypes
  <1>5. ASSUME CommandOK PROVE CommandOK'
    <2>1. StateOf(players, backend) \in Gone /\ StateOf(players, 0) \in Gone
      BY <1>2 DEF StateOf, Gone
    <2>2. /\ queue \in Seq(Tasks) /\ epoch \in Nat /\ IdleWork(NoWork, gen, epoch)
          /\ From(queue, queue, 0, epoch)
      BY NoWorkIdle, FromSame DEF AudioInv, AudioTypes
    <2>3. Command(hand, queue, NoWork, gen, epoch, phase, afterEnd, StateOf(players, backend))
      BY <1>5, <2>2, CommandStays DEF CommandOK
    <2>4. Command(hand, queue, NoWork, gen, epoch, phase, afterEnd, StateOf(players, 0))
      BY <2>1, <2>3, GoneIsGone
    <2> QED BY <1>1, <1>3, <2>4 DEF CommandOK
  <1> QED BY <1>1, <1>3, <1>4, <1>5, Assemble DEF AudioInv, AudioTypes

\* applyStop, first section: the queued stop is this session's and its player is released.
LEMMA StopKeeps ==
  ASSUME AudioInv, NEW fails, ApplyStop(fails)
  PROVE  AudioInv'
  <1> DEFINE t == Head(queue)
             clean == ~StopThrows(backend)
  <1>1. /\ work = NoWork /\ lifetime = "installed" /\ queue # <<>> /\ t.k \in Stops
        /\ UNCHANGED <<phase, gen, epoch, backend, closed, afterEnd, hand, lifetime, pool>>
        /\ Release(backend, Tail(queue), fails) /\ work' = Inside("stop", t, backend, clean)
    BY DEF ApplyStop, At, stateVars
  <1>2. clean \in BOOLEAN
    BY DEF StopThrows
  <1> HIDE DEF clean
  <1>3. Resources' /\ From(queue, queue', 1, epoch)
    BY <1>1, <1>2, BackendReleases
  <1>4. ASSUME ~closed PROVE CommandOK'
    <2>1. Command(hand, queue, work, gen, epoch, phase, afterEnd, StateOf(players, backend))
      BY <1>4 DEF AudioInv, CommandOK
    <2>2. 1 \in 1..Len(queue) /\ t = queue[1] /\ queue \in Seq(Tasks) /\ epoch \in Nat
      BY <1>1, HeadParts DEF AudioInv, AudioTypes
    <2>3. Tok(t, gen, epoch)
      BY <1>1, <2>1, <2>2 DEF Command, StopsCurrent
    <2>4. phase = "STOPPING"
      BY <1>1, <2>1, <2>2, <2>3 DEF Command, Fits, TokenFits
    <2>5. Clear(hand, queue', gen, epoch)
      BY <1>1, <1>3, <2>1, <2>2, <2>3, HeadClears DEF Resources
    <2>6. WorkTok(work', gen, epoch) /\ work'.k = "stop"
      BY <1>1, <2>3 DEF Inside, WorkTok, WorkTokens, Tok
    <2>7. /\ WorkFits(work'.k, phase, afterEnd, StateOf(players', backend))
          /\ PhaseFits(phase, afterEnd, StateOf(players', backend))
      BY <2>4, <2>6 DEF WorkFits, PhaseFits
    <2>8. Command(hand, queue', work', gen, epoch, phase, afterEnd, StateOf(players', backend))
      BY <2>5, <2>6, <2>7, ClearWork
    <2> QED BY <1>1, <2>8 DEF CommandOK
  <1> QED BY <1>1, <1>3, <1>4, Assemble DEF AudioInv, AudioTypes

\* A step of the owner thread that takes the command under way and moves the session's
\* player at most between states in which it holds the platform.
LEMMA PlayerMoves ==
  ASSUME AudioInv, ~closed, work = NoWork, lifetime = "installed", queue # <<>>,
         Tok(Head(queue), gen, epoch), queue' = Tail(queue),
         players' \in [Ids -> Players],
         \A n \in Ids :
            \/ players'[n] = players[n]
            \/ /\ n = backend /\ players[n].st \in Sounding /\ players'[n].st \in Sounding
               /\ players'[n].gen = players[n].gen /\ players'[n].epoch = players[n].epoch,
         work' \in Works, work'.k \in {"started", "pause", "resume"}, work'.b = 0,
         work'.epoch =< epoch,
         WorkFits(work'.k, phase, afterEnd, StateOf(players', backend)),
         UNCHANGED <<phase, gen, epoch, backend, closed, afterEnd, hand, lifetime, pool>>,
         phase \in Pending
  PROVE  AudioInv'
  <1>1. /\ queue \in Seq(Tasks) /\ epoch \in Nat /\ backend \in Ids \cup {0}
        /\ PlayersOK(players, backend, work, lifetime, gen) /\ work.b = 0
        /\ Old(hand, queue, work, players, epoch) /\ CloseIsLast(queue, closed)
    BY NoWorkType DEF AudioInv, AudioTypes
  <1>2. queue' \in Seq(Tasks) /\ From(queue, queue', 1, epoch)
    BY HeadTaken
  <1>3. \A n \in Ids : players'[n].st \notin Gone => players[n].st \notin Gone
    BY DEF Gone, Sounding
  <1>4. \A n \in Ids : players'[n].st \in Sounding => players[n].st \in Sounding
    OBVIOUS
  <1>5. \A n \in Ids : players'[n].st \in Sounding => n = backend
    BY <1>1, <1>4, IdsPositive DEF PlayersOK
  <1>6. backend # 0 => /\ players'[backend].st \in Sounding \cup {"released"}
                       /\ players'[backend].gen = gen
    <2>1. backend # 0 => /\ players[backend].st \in Sounding \cup {"released"}
                         /\ players[backend].gen = gen /\ backend \in Ids
      BY <1>1 DEF PlayersOK
    <2> QED BY <2>1
  <1>7. OneActive(players')
    <2>1. OneActive(players)
      BY <1>1 DEF PlayersOK, OneActive
    <2> QED BY <1>3, <2>1 DEF OneActive
  <1>8. PlayersOK(players', backend, work', lifetime, gen)
    BY <1>5, <1>6, <1>7 DEF PlayersOK, OneActive
  <1>9. Old(hand, queue', work', players', epoch)
    <2>1. Old(hand, queue', work, players, epoch)
      BY <1>1, <1>2, OldStays
    <2>2. \A n \in Ids : players'[n].epoch = players[n].epoch
      OBVIOUS
    <2> QED BY <2>1, <2>2 DEF Old
  <1>10. CloseIsLast(queue', closed)
    BY <1>1, <1>2, CloseStays
  <1>11. PoolOK'
    BY PoolApart DEF AudioInv, PoolOK
  <1>12. Resources'
    BY <1>2, <1>8, <1>9, <1>10, <1>11 DEF Resources
  <1>13. Clear(hand, queue', gen, epoch)
    <2>1. Command(hand, queue, work, gen, epoch, phase, afterEnd, StateOf(players, backend))
      BY DEF AudioInv, CommandOK
    <2> QED BY <1>1, <1>2, <2>1, HeadClears
  <1>14. PhaseFits(phase, afterEnd, StateOf(players', backend))
    BY DEF PhaseFits, Pending
  <1>15. Command(hand, queue', work', gen, epoch, phase, afterEnd, StateOf(players', backend))
    BY <1>13, <1>14, ClearWork
  <1>16. CommandOK'
    BY <1>15 DEF CommandOK
  <1> QED BY <1>12, <1>16, Assemble DEF AudioInv, AudioTypes

\* What a current task at the head of the queue says of the session's player.
LEMMA HeadFits ==
  ASSUME AudioInv, queue # <<>>, Current(Head(queue)), Head(queue).k \in Commands
  PROVE  /\ ~closed /\ Tok(Head(queue), gen, epoch)
         /\ TokenFits(Head(queue).k, phase, afterEnd, StateOf(players, backend))
  <1>1. ~closed /\ Tok(Head(queue), gen, epoch)
    BY DEF Current, Tok, TokenKinds
  <1>2. 1 \in 1..Len(queue) /\ Head(queue) = queue[1]
    BY HeadParts DEF AudioInv, AudioTypes
  <1> QED BY <1>1, <1>2 DEF AudioInv, CommandOK, Command, Fits

\* SessionBackend.start: the player starts, or the session fails.
LEMMA StartKeeps ==
  ASSUME AudioInv, work = NoWork, lifetime = "installed", queue # <<>>,
         Current(Head(queue)), Head(queue).k \in Commands, NEW throws, NEW fails,
         phase \in {"STARTING", "RESUMING"},
         StateOf(players, backend) \in Sounding,
         StartPlayer(Head(queue), throws, fails),
         UNCHANGED <<gen, backend, closed, afterEnd, hand, lifetime, pool>>
  PROVE  AudioInv'
  <1>1. CASE throws \/ players[backend].st \in {"released", "errored"}
    BY <1>1, FailKeeps DEF StartPlayer
  <1>2. ASSUME ~(throws \/ players[backend].st \in {"released", "errored"}) PROVE AudioInv'
    <2>1. /\ players' = [players EXCEPT ![backend].st = "started"]
          /\ work' = Inside("started", players[backend], 0, TRUE)
          /\ queue' = Tail(queue) /\ UNCHANGED <<phase, epoch>>
      BY <1>2 DEF StartPlayer
    <2>2. /\ backend \in Ids /\ backend # 0 /\ players[backend].st \in Sounding
          /\ players \in [Ids -> Players]
      BY DEF AudioInv, AudioTypes, StateOf, Sounding
    <2>3. players[backend] \in Players
      BY <2>2
    <2> DEFINE p == [players[backend] EXCEPT !.st = "started"]
    <2>4. /\ p \in Players /\ p.st = "started" /\ p.gen = players[backend].gen
          /\ p.epoch = players[backend].epoch
      BY <2>3 DEF Players, Sounding
    <2>5. players' = [players EXCEPT ![backend] = p]
      BY <2>1
    <2> HIDE DEF p
    <2>6. /\ players' \in [Ids -> Players] /\ players'[backend] = p
          /\ \A n \in Ids : n # backend => players'[n] = players[n]
      BY <2>2, <2>4, <2>5
    <2>7. "started" \in Sounding /\ "started" \in Played
      BY DEF Sounding, Played
    <2>8. /\ work' \in Works /\ work'.k = "started" /\ work'.b = 0
          /\ work'.epoch = players[backend].epoch
      <3>1. players[backend].gen \in Nat /\ players[backend].epoch \in Nat
        BY <2>3 DEF Players
      <3> QED BY <2>1, <3>1 DEF Inside, Works
    <2>9. work'.epoch =< epoch
      BY <2>2, <2>8 DEF AudioInv, Old
    <2>10. StateOf(players', backend) = "started"
      BY <2>2, <2>4, <2>6 DEF StateOf
    <2>11. WorkFits(work'.k, phase, afterEnd, StateOf(players', backend))
      BY <2>7, <2>8, <2>10 DEF WorkFits
    <2>12. ~closed /\ Tok(Head(queue), gen, epoch) /\ phase \in Pending
      BY HeadFits DEF Pending
    <2>13. \A n \in Ids :
            \/ players'[n] = players[n]
            \/ /\ n = backend /\ players[n].st \in Sounding /\ players'[n].st \in Sounding
               /\ players'[n].gen = players[n].gen /\ players'[n].epoch = players[n].epoch
      BY <2>2, <2>4, <2>6, <2>7
    <2> QED BY <2>1, <2>6, <2>8, <2>9, <2>11, <2>12, <2>13, PlayerMoves
  <1> QED BY <1>1, <1>2

\* applyStart.
LEMMA ApplyStartKeeps ==
  ASSUME AudioInv, NEW throws, NEW fails, ApplyStart(throws, fails)
  PROVE  AudioInv'
  <1>1. /\ work = NoWork /\ lifetime = "installed" /\ queue # <<>> /\ Head(queue).k = "start"
        /\ UNCHANGED <<gen, backend, closed, afterEnd, hand, lifetime, pool>>
    BY DEF ApplyStart, At
  <1>2. CASE Current(Head(queue)) /\ phase = "STARTING"
    <2>1. StartPlayer(Head(queue), throws, fails)
      BY <1>2 DEF ApplyStart
    <2>2. Head(queue).k \in Commands
      BY <1>1 DEF Commands
    <2>3. StateOf(players, backend) \in Sounding
      BY <1>1, <1>2, <2>2, HeadFits DEF TokenFits, Sounding
    <2>4. phase \in {"STARTING", "RESUMING"} /\ Current(Head(queue))
      BY <1>2
    <2> QED BY <1>1, <2>1, <2>2, <2>3, <2>4, StartKeeps, SMTT(30)
  <1>3. CASE ~(Current(Head(queue)) /\ phase = "STARTING")
    <2>1. Skip
      BY <1>3 DEF ApplyStart
    <2> QED BY <1>1, <2>1, SkipKeeps
  <1> QED BY <1>2, <1>3

\* applyPauseResume, for a resume: the player starts again, unless it ended.
LEMMA ApplyResumeKeeps ==
  ASSUME AudioInv, NEW throws, NEW fails, ApplyResume(throws, fails)
  PROVE  AudioInv'
  <1> DEFINE t == Head(queue)
  <1>1. /\ work = NoWork /\ lifetime = "installed" /\ queue # <<>> /\ t.k = "resume"
        /\ UNCHANGED <<gen, backend, closed, afterEnd, hand, lifetime, pool>>
    BY DEF ApplyResume, At
  <1>2. CASE ~Current(t)
    <2>1. Skip
      BY <1>2 DEF ApplyResume
    <2> QED BY <1>1, <2>1, SkipKeeps
  <1>3. ASSUME Current(t) PROVE AudioInv'
    <2>1. t.k \in Commands
      BY <1>1 DEF Commands
    <2>2. ~closed /\ Tok(t, gen, epoch) /\ phase = "RESUMING"
          /\ StateOf(players, backend) \in (IF afterEnd THEN Gone ELSE Paused)
      BY <1>1, <1>3, <2>1, HeadFits DEF TokenFits
    <2>3. CASE afterEnd
      <3>1. /\ work' = Inside("resume", t, 0, TRUE) /\ queue' = Tail(queue)
            /\ UNCHANGED <<phase, epoch, players>>
        BY <1>3, <2>3 DEF ApplyResume
      <3>2. t.epoch \in Nat /\ t.gen \in Nat /\ t.epoch =< epoch
        BY <1>1, HeadTaken
      <3>3. /\ work' \in Works /\ work'.k = "resume" /\ work'.b = 0
            /\ work'.epoch = t.epoch
        BY <3>1, <3>2 DEF Inside, Works
      <3>4. WorkFits(work'.k, phase, afterEnd, StateOf(players', backend)) /\ phase \in Pending
        BY <2>2, <2>3, <3>1, <3>3 DEF WorkFits, Pending
      <3>5. players' \in [Ids -> Players]
        BY <3>1 DEF AudioInv, AudioTypes
      <3> HIDE DEF t
      <3> QED BY <1>1, <2>2, <3>1, <3>2, <3>3, <3>4, <3>5, PlayerMoves DEF t
    <2>4. CASE ~afterEnd
      <3>1. StartPlayer(t, throws, fails)
        BY <1>3, <2>4 DEF ApplyResume
      <3>2. StateOf(players, backend) \in Sounding
        BY <2>2, <2>4 DEF Paused, Sounding
      <3>3. phase \in {"STARTING", "RESUMING"}
        BY <2>2
      <3> QED BY <1>1, <1>3, <2>1, <3>1, <3>2, <3>3, StartKeeps, SMTT(30)
    <2> QED BY <2>3, <2>4
  <1> QED BY <1>2, <1>3

\* applyPauseResume, for a pause: a started player is paused, an ended one is left alone.
LEMMA ApplyPauseKeeps ==
  ASSUME AudioInv, NEW throws, NEW fails, ApplyPause(throws, fails)
  PROVE  AudioInv'
  <1> DEFINE t == Head(queue)
  <1>1. /\ work = NoWork /\ lifetime = "installed" /\ queue # <<>> /\ t.k = "pause"
        /\ UNCHANGED <<gen, backend, closed, afterEnd, hand, lifetime, pool>>
    BY DEF ApplyPause, At
  <1>2. CASE ~Current(t)
    <2>1. Skip
      BY <1>2 DEF ApplyPause
    <2> QED BY <1>1, <2>1, SkipKeeps
  <1>3. CASE Current(t) /\ ~afterEnd /\ (throws \/ StopThrows(backend))
    <2>1. Fail(t, Tail(queue), fails)
      BY <1>3 DEF ApplyPause
    <2> QED BY <1>1, <2>1, FailKeeps
  <1>4. ASSUME Current(t), ~(~afterEnd /\ (throws \/ StopThrows(backend))) PROVE AudioInv'
    <2>1. /\ players' = [n \in Ids |->
                 IF n = backend /\ ~afterEnd /\ players[n].st = "started"
                 THEN [players[n] EXCEPT !.st = "paused"] ELSE players[n]]
          /\ work' = Inside("pause", t, 0, TRUE)
          /\ queue' = Tail(queue) /\ UNCHANGED <<phase, epoch>>
      BY <1>4 DEF ApplyPause
    <2>2. t.k \in Commands
      BY <1>1 DEF Commands
    <2>3. ~closed /\ Tok(t, gen, epoch) /\ phase = "PAUSING"
          /\ StateOf(players, backend) \in (IF afterEnd THEN Gone ELSE Played)
      BY <1>1, <1>4, <2>2, HeadFits DEF TokenFits
    <2>4. t.epoch \in Nat /\ t.gen \in Nat /\ t.epoch =< epoch
      BY <1>1, HeadTaken
    <2>5. work' \in Works /\ work'.k = "pause" /\ work'.b = 0 /\ work'.epoch = t.epoch
      BY <2>1, <2>4 DEF Inside, Works
    <2>6. players \in [Ids -> Players] /\ backend \in Ids \cup {0}
      BY DEF AudioInv, AudioTypes
    <2>7. \A p \in Players : /\ [p EXCEPT !.st = "paused"] \in Players
                             /\ [p EXCEPT !.st = "paused"].st = "paused"
                             /\ [p EXCEPT !.st = "paused"].gen = p.gen
                             /\ [p EXCEPT !.st = "paused"].epoch = p.epoch
      BY DEF Players, Sounding
    <2>8. \A n \in Ids :
            /\ players[n] \in Players
            /\ n = backend /\ ~afterEnd /\ players[n].st = "started" =>
                  players'[n] = [players[n] EXCEPT !.st = "paused"]
            /\ ~(n = backend /\ ~afterEnd /\ players[n].st = "started") =>
                  players'[n] = players[n]
      BY <2>1, <2>6
    <2>9. \A n \in Ids : players'[n] \in Players
      BY <2>7, <2>8
    <2>10. players' \in [Ids -> Players]
      BY <2>1, <2>9
    <2>11. "paused" \in Sounding /\ "started" \in Sounding
      BY DEF Sounding
    <2>12. \A n \in Ids :
            \/ players'[n] = players[n]
            \/ /\ n = backend /\ players[n].st \in Sounding /\ players'[n].st \in Sounding
               /\ players'[n].gen = players[n].gen /\ players'[n].epoch = players[n].epoch
      BY <2>7, <2>8, <2>11
    <2>13. StateOf(players', backend) \in (IF afterEnd THEN Gone ELSE Paused)
      <3>1. CASE afterEnd
        BY <2>3, <2>6, <2>8, <3>1 DEF StateOf
      <3>2. CASE ~afterEnd
        <4>1. backend \in Ids /\ backend # 0 /\ players[backend].st \in {"started", "completed"}
          BY <1>4, <2>3, <2>6, <3>2 DEF StateOf, StopThrows, Played
        <4>2. players'[backend].st \in {"paused", "completed"}
          <5>1. players[backend].st = "started" => players'[backend].st = "paused"
            <6>1. players[backend] \in Players
              BY <2>8, <4>1
            <6>2. [players[backend] EXCEPT !.st = "paused"].st = "paused"
              BY <2>7, <6>1
            <6>3. players[backend].st = "started" =>
                     players'[backend] = [players[backend] EXCEPT !.st = "paused"]
              BY <2>8, <3>2, <4>1
            <6> QED BY <6>2, <6>3
          <5>2. players[backend].st # "started" => players'[backend] = players[backend]
            BY <2>8, <4>1
          <5> QED BY <4>1, <5>1, <5>2
        <4> QED BY <3>2, <4>1, <4>2 DEF StateOf, Paused
      <3> QED BY <3>1, <3>2
    <2>14. WorkFits(work'.k, phase, afterEnd, StateOf(players', backend)) /\ phase \in Pending
      BY <2>3, <2>5, <2>13 DEF WorkFits, Pending
    <2> HIDE DEF t
    <2> QED BY <1>1, <2>1, <2>3, <2>4, <2>5, <2>10, <2>12, <2>14, PlayerMoves DEF t
  <1> QED BY <1>2, <1>3, <1>4

\* The actual start is reported behind what is queued; it counts if the command is current.
LEMMA ReportStartKeeps ==
  ASSUME AudioInv, ReportStart
  PROVE  AudioInv'
  <1> DEFINE u == Task("playing", work.gen, work.epoch)
  <1>1. /\ work.k = "started" /\ work' = NoWork /\ queue' = Queued(queue, u)
        /\ UNCHANGED <<phase, gen, epoch, backend, closed, afterEnd, hand, players, pool, lifetime>>
    BY DEF ReportStart, Leave, stateVars
  <1>2. /\ work \in Works /\ queue \in Seq(Tasks) /\ epoch \in Nat
        /\ work.gen \in Nat /\ work.epoch \in Nat /\ work.epoch =< epoch
    BY DEF AudioInv, AudioTypes, Works, Old
  <1>3. u \in Tasks /\ u.k = "playing" /\ u.gen = work.gen /\ u.epoch = work.epoch
    BY <1>2 DEF Task, Tasks, TaskKinds
  <1> HIDE DEF u
  <1>4. /\ queue' \in Seq(Tasks)
        /\ \A i \in 1..Len(queue') : \/ i \in 1..Len(queue) /\ queue'[i] = queue[i]
                                     \/ queue'[i] = u
    BY <1>1, <1>2, <1>3, AppendParts DEF Queued
  <1>5. Old(hand, queue', work, players, epoch) /\ CloseIsLast(queue', closed)
    BY <1>2, <1>3, <1>4 DEF AudioInv, Old, CloseIsLast
  <1>6. Resources'
    BY <1>1, <1>4, <1>5, WorkEnds
  <1>7. ASSUME ~closed PROVE CommandOK'
    <2> DEFINE st == StateOf(players, backend)
    <2>1. Command(hand, queue, work, gen, epoch, phase, afterEnd, st)
          /\ queue' = Append(queue, u) /\ IdleWork(NoWork, gen, epoch)
      BY <1>1, <1>7, NoWorkIdle DEF AudioInv, CommandOK, Queued
    <2> HIDE DEF st
    <2>2. u.k \notin Stops
      BY <1>3 DEF Stops
    <2>3. CASE WorkTok(work, gen, epoch)
      <3>1. Clear(hand, queue, gen, epoch)
        BY <2>1, <2>3, WorkClears
      <3>2. WorkFits(work.k, phase, afterEnd, st) /\ PhaseFits(phase, afterEnd, st)
        BY <2>1, <2>3 DEF Command, Fits
      <3>3. TokenFits(u.k, phase, afterEnd, st)
        BY <1>1, <1>3, <3>2 DEF WorkFits, TokenFits, Stops
      <3>4. Command(hand, Append(queue, u), NoWork, gen, epoch, phase, afterEnd, st)
        BY <1>2, <1>3, <2>1, <2>2, <3>1, <3>2, <3>3, ClearQueue
      <3> QED BY <1>1, <2>1, <3>4 DEF CommandOK, st
    <2>4. CASE ~WorkTok(work, gen, epoch)
      <3>1. ~Tok(u, gen, epoch)
        BY <1>1, <1>3, <2>4 DEF WorkTok, WorkTokens, Tok
      <3>2. Command(hand, queue, NoWork, gen, epoch, phase, afterEnd, st)
        BY <1>2, <2>1, CommandStays, FromSame
      <3>3. Command(hand, Append(queue, u), NoWork, gen, epoch, phase, afterEnd, st)
        BY <1>2, <1>3, <2>2, <3>1, <3>2, OvertakenQueued
      <3> QED BY <1>1, <2>1, <3>3 DEF CommandOK, st
    <2> QED BY <2>3, <2>4
  <1> QED BY <1>1, <1>6, <1>7, Assemble DEF AudioInv, AudioTypes

\* A step beside the commands: the players move as callbacks or a late release move them,
\* and plain tasks join the queue.
LEMMA AsideKeeps ==
  ASSUME AudioInv, Resources', From(queue, queue', 0, epoch),
         work' = work \/ work' = NoWork,
         Moves(StateOf(players, backend), StateOf(players', backend)),
         UNCHANGED <<phase, gen, epoch, backend, closed, afterEnd, hand, lifetime>>,
         pool' \in Ids \cup {0}
  PROVE  AudioInv'
  <1>1. ASSUME CommandOK PROVE CommandOK'
    <2>1. epoch \in Nat /\ 0 \in {0, 1} /\ (work' = work \/ IdleWork(work', gen, epoch))
      BY NoWorkIdle DEF AudioInv, AudioTypes
    <2>2. Command(hand, queue', work', gen, epoch, phase, afterEnd, StateOf(players, backend))
      BY <1>1, <2>1, CommandStays DEF CommandOK
    <2>3. Command(hand, queue', work', gen, epoch, phase, afterEnd, StateOf(players', backend))
      BY <2>2, StateMoves
    <2> QED BY <2>3 DEF CommandOK
  <1> QED BY <1>1, Assemble DEF AudioInv, AudioTypes

\* applyPrepare, second section: the player taken too late is released.
LEMMA ReleaseStaleKeeps ==
  ASSUME AudioInv, NEW fails, ReleaseStale(fails)
  PROVE  AudioInv'
  <1>1. /\ work.k = "stale" /\ work' = NoWork /\ Release(work.b, queue, fails)
        /\ UNCHANGED <<phase, gen, epoch, backend, closed, afterEnd, hand, lifetime, pool>>
    BY DEF ReleaseStale, Leave, stateVars
  <1>2. /\ players \in [Ids -> Players] /\ work.b \in Ids \cup {0} /\ epoch \in Nat
        /\ queue \in Seq(Tasks) /\ backend \in Ids \cup {0} /\ pool \in Ids \cup {0}
    BY DEF AudioInv, AudioTypes, Works
  <1>3. /\ PlayersOK(players, backend, work, lifetime, gen) /\ lifetime = "installed"
        /\ work.b # backend
    BY <1>1 DEF AudioInv, PlayersOK
  <1>4. Ours(players, work.b) /\ OneActive(players)
    BY <1>3 DEF PlayersOK, Ours, OneActive
  <1>5. PICK f \in Ids \cup {0} : MayFollow(players, work.b, f)
                               /\ players' = Freed(players, work.b, f)
    BY <1>1, <1>2, <1>4, ReleaseFrees
  <1>6. FreedOK(players, players', work.b)
    BY <1>2, <1>4, <1>5, FreedPlayers
  <1>7. PlayersOK(players', backend, NoWork, lifetime, gen)
    <2>1. PlayersOK(Freed(players, work.b, f), backend, NoWork, lifetime, gen)
      BY <1>2, <1>3, <1>5, TakenFreed
    <2> QED BY <1>5, <2>1
  <1>8. From(queue, queue', 0, epoch) /\ queue' \in Seq(Tasks)
    <2>1. From(queue, queue, 0, epoch)
      BY <1>2, FromSame
    <2> QED BY <1>1, <1>2, <2>1, ReleaseQueues
  <1>9. PoolOK'
    BY <1>1, <1>6, PoolApart DEF PoolOK, FreedOK
  <1>10. Old(hand, queue', NoWork, players', epoch) /\ CloseIsLast(queue', closed)
    <2>1. Old(hand, queue', work, players, epoch) /\ CloseIsLast(queue', closed)
      BY <1>8, OldStays, CloseStays DEF AudioInv
    <2>2. \A n \in Ids : players'[n].epoch =< epoch
      BY <1>2, <1>6, <2>1, OldZero DEF FreedOK, Old
    <2>3. NoWork.epoch =< epoch
      BY <1>2, OldZero, NoWorkType
    <2> QED BY <2>1, <2>2, <2>3 DEF Old
  <1>11. Resources'
    BY <1>1, <1>6, <1>7, <1>8, <1>9, <1>10, NoWorkType DEF Resources, FreedOK
  <1>12. StateOf(players', backend) = StateOf(players, backend)
    <2>1. backend # 0 => players[backend].st # "none"
      BY <1>3 DEF PlayersOK, Sounding
    <2>2. backend # 0 => players'[backend] = players[backend]
      BY <1>2, <1>3, <1>6, <2>1 DEF FreedOK
    <2> QED BY <2>2 DEF StateOf
  <1>13. Moves(StateOf(players, backend), StateOf(players', backend))
    BY <1>12 DEF Moves
  <1> QED BY <1>1, <1>2, <1>8, <1>11, <1>13, AsideKeeps

\* How a callback of the platform moves a player from x to y.
Reported(x, y) ==
    /\ x.st \in Sounding \cup {"preparing"}
    /\ x.st \in Sounding => y.st \in Sounding
    /\ x.st = "preparing" => y.st \in {"pooled", "released"}
    /\ Moves(x.st, y.st) \/ x.st = "preparing"
    /\ y.gen = x.gen /\ y.epoch = x.epoch

\* A callback moves one player, and its report joins the queue.
LEMMA CallbackKeeps ==
  ASSUME AudioInv, NEW b \in Ids, NEW p \in Players, NEW t \in Tasks,
         Reported(players[b], p),
         players' = [players EXCEPT ![b] = p],
         pool' = pool \/ (pool' = b /\ p.st = "pooled"),
         t.k \in Plain, t.epoch =< epoch, queue' = Queued(queue, t),
         UNCHANGED <<phase, gen, epoch, backend, closed, afterEnd, hand, lifetime, work>>
  PROVE  AudioInv'
  <1>0. /\ players[b].st \in Sounding \cup {"preparing"}
        /\ players[b].st \in Sounding => p.st \in Sounding
        /\ players[b].st = "preparing" => p.st \in {"pooled", "released"}
        /\ Moves(players[b].st, p.st) \/ players[b].st = "preparing"
        /\ p.gen = players[b].gen /\ p.epoch = players[b].epoch
    BY DEF Reported
  <1>1. /\ players \in [Ids -> Players] /\ epoch \in Nat /\ backend \in Ids \cup {0}
        /\ queue \in Seq(Tasks) /\ PlayersOK(players, backend, work, lifetime, gen)
        /\ pool \in Ids \cup {0} /\ work \in Works /\ work.b \in Ids \cup {0}
    BY DEF AudioInv, AudioTypes, Works
  <1>2. /\ players' \in [Ids -> Players] /\ players'[b] = p
        /\ \A n \in Ids : n # b => players'[n] = players[n]
    BY <1>1
  <1>3. From(queue, queue', 0, epoch) /\ queue' \in Seq(Tasks)
    <2>1. From(queue, queue, 0, epoch) /\ 0 \in {0, 1}
      BY <1>1, FromSame
    <2> QED BY <1>1, <2>1, QueuedPlain
  <1>4. Old(hand, queue', work, players', epoch) /\ CloseIsLast(queue', closed)
    <2>1. Old(hand, queue', work, players, epoch) /\ CloseIsLast(queue', closed)
      BY <1>3, OldStays, CloseStays DEF AudioInv
    <2>2. \A n \in Ids : players'[n].epoch = players[n].epoch
      BY <1>0, <1>2
    <2> QED BY <2>1, <2>2 DEF Old
  <1>5. players[b].st \notin Gone /\ players[b].st # "released" /\ players[b].st # "pooled"
    BY <1>0 DEF Sounding, Gone
  <1>6. OneActive(players')
    <2>1. \A n \in Ids : players'[n].st \notin Gone => players[n].st \notin Gone
      BY <1>0, <1>2, <1>5
    <2>2. OneActive(players)
      BY <1>1 DEF PlayersOK, OneActive
    <2> QED BY <2>1, <2>2 DEF OneActive
  <1>7. \A n \in Ids : players'[n].st \in Sounding => players[n].st \in Sounding
    <2>1. p.st \in Sounding => players[b].st \in Sounding
      BY <1>0 DEF Sounding
    <2> QED BY <1>2, <2>1
  <1>8. \A n \in Ids : players[n].st \in Sounding \cup {"released"} =>
                         /\ players'[n].st \in Sounding \cup {"released"}
                         /\ players'[n].gen = players[n].gen
                         /\ players[n].st = "released" => players'[n].st = "released"
    BY <1>0, <1>2, <1>5
  <1>9. lifetime = "installed"
    BY <1>1, <1>5 DEF PlayersOK
  <1>10. PlayersOK(players', backend, work, lifetime, gen)
    <2>1. \A n \in Ids : players'[n].st \in Sounding => n \in {backend, work.b}
      BY <1>1, <1>7 DEF PlayersOK
    <2>2. backend # 0 => players'[backend].st \in Sounding \cup {"released"}
                         /\ players'[backend].gen = gen
      BY <1>1, <1>8 DEF PlayersOK
    <2>3. work.b # 0 => players'[work.b].st \in Sounding \cup {"released"}
      BY <1>1, <1>8 DEF PlayersOK
    <2>4. work.k \in {"stop", "cleanup"} =>
             work.b = backend /\ (backend # 0 => players'[backend].st = "released")
      BY <1>1, <1>8 DEF PlayersOK
    <2>5. /\ work.k \in {"none", "started", "pause", "resume"} => work.b = 0
          /\ work.k = "stale" => work.b # backend
      BY <1>1 DEF PlayersOK
    <2> QED BY <1>6, <1>9, <2>1, <2>2, <2>3, <2>4, <2>5 DEF PlayersOK, OneActive
  <1>11. PoolOK'
    <2>1. pool # 0 => pool # b
      BY <1>5, PoolApart
    <2>2. pool # 0 => players'[pool].st = "pooled"
      BY <1>1, <1>2, <2>1, PoolApart
    <2> QED BY <1>2, <2>2 DEF PoolOK
  <1>12. Resources'
    BY <1>1, <1>2, <1>3, <1>4, <1>10, <1>11 DEF Resources
  <1>13. Moves(StateOf(players, backend), StateOf(players', backend))
    <2>1. backend = b => players[b].st # "preparing"
      BY <1>1, IdsPositive DEF PlayersOK, Sounding
    <2>2. CASE backend = b
      BY <1>0, <1>2, <2>1, <2>2, IdsPositive DEF StateOf
    <2>3. CASE backend # b
      BY <1>1, <1>2, <2>3 DEF StateOf, Moves
    <2> QED BY <2>2, <2>3
  <1> QED BY <1>1, <1>3, <1>12, <1>13, AsideKeeps

\* The preloaded player is ready or fails.
LEMMA PreloadedKeeps ==
  ASSUME AudioInv, NEW b \in Ids, NEW ok \in BOOLEAN, Preloaded(b, ok)
  PROVE  AudioInv'
  <1> DEFINE s == IF ok THEN "pooled" ELSE "released"
             p == [players[b] EXCEPT !.st = s]
             k == IF ok THEN "ready" ELSE "failed"
             t == Task(k, 0, 0)
  <1>1. /\ players[b].st = "preparing" /\ players' = [players EXCEPT ![b] = p]
        /\ pool' = (IF ok THEN b ELSE pool) /\ queue' = Queued(queue, t)
        /\ UNCHANGED <<phase, gen, epoch, backend, closed, afterEnd, hand, lifetime, work>>
    BY DEF Preloaded, stateVars
  <1>2. players[b] \in Players /\ epoch \in Nat
    BY DEF AudioInv, AudioTypes
  <1>3. s \in {"pooled", "released"} /\ (ok => s = "pooled")
    OBVIOUS
  <1> HIDE DEF s
  <1>4. p \in Players /\ p.st = s /\ p.gen = players[b].gen /\ p.epoch = players[b].epoch
    BY <1>2, <1>3 DEF Players, Gone
  <1> HIDE DEF p
  <1>5. k \in Reports
    BY DEF Reports
  <1>6. t \in Tasks /\ t.k \in Plain /\ t.epoch =< epoch
    BY <1>2, <1>5, ReportTask, OldZero
  <1>7. pool' = pool \/ (pool' = b /\ p.st = "pooled")
    BY <1>1, <1>3, <1>4
  <1>8. Reported(players[b], p)
    BY <1>1, <1>3, <1>4 DEF Reported, Sounding
  <1> HIDE DEF t
  <1> QED BY <1>1, <1>4, <1>6, <1>7, <1>8, CallbackKeeps

\* The track ends or the player breaks.
LEMMA FinishKeeps ==
  ASSUME AudioInv, NEW b \in Ids, NEW k \in {"ended", "error"}, Finish(b, k)
  PROVE  AudioInv'
  <1> DEFINE s == IF k = "ended" THEN "completed" ELSE "errored"
             p == [players[b] EXCEPT !.st = s]
             t == Task(k, players[b].gen, players[b].epoch)
  <1>1. /\ players[b].st = "started" \/ (k = "error" /\ players[b].st = "paused")
        /\ players' = [players EXCEPT ![b] = p] /\ queue' = Queued(queue, t)
        /\ UNCHANGED <<phase, gen, epoch, backend, closed, afterEnd, hand, lifetime, work, pool>>
    BY DEF Finish, stateVars
  <1>2. /\ players[b] \in Players /\ players[b].epoch =< epoch
        /\ players[b].gen \in Nat /\ players[b].epoch \in Nat
    BY DEF AudioInv, AudioTypes, Players, Old
  <1>3. /\ Moves(players[b].st, s) /\ s \in Sounding /\ players[b].st \in Sounding
        /\ players[b].st # "preparing"
    BY <1>1 DEF Moves, Sounding
  <1> HIDE DEF s
  <1>4. p \in Players /\ p.st = s /\ p.gen = players[b].gen /\ p.epoch = players[b].epoch
    BY <1>2, <1>3 DEF Players
  <1> HIDE DEF p
  <1>5. t \in Tasks /\ t.k \in Plain /\ t.epoch =< epoch
    BY <1>2 DEF Task, Tasks, TaskKinds, Plain
  <1> HIDE DEF t
  <1>6. Reported(players[b], p)
    BY <1>3, <1>4 DEF Reported
  <1> QED BY <1>1, <1>4, <1>5, <1>6, CallbackKeeps

\* close: what was under way no longer counts, and the last task is queued.
LEMMA CloseKeeps ==
  ASSUME AudioInv, Close
  PROVE  AudioInv'
  <1> DEFINE t == Task("close", 0, 0)
  <1>1. /\ closed' = TRUE /\ epoch' = epoch + 1 /\ queue' = Append(queue, t)
        /\ UNCHANGED <<phase, gen, backend, afterEnd, hand, work, players, pool, lifetime>>
    BY DEF Close
  <1>2. /\ hand \in [Callers -> Handed \cup {NoTask}] /\ queue \in Seq(Tasks)
        /\ work \in Works /\ players \in [Ids -> Players] /\ epoch \in Nat
    BY DEF AudioInv, AudioTypes
  <1>3. t \in Tasks /\ t.epoch = 0 /\ epoch + 1 \in Nat /\ 0 =< epoch + 1
    <2>1. t \in Tasks /\ t.epoch = 0
      BY DEF Task, Tasks, TaskKinds
    <2>2. epoch + 1 \in Nat /\ 0 =< epoch + 1
      BY <1>2, SMTT(30)
    <2> QED BY <2>1, <2>2
  <1> HIDE DEF t
  <1>4. Old(hand, queue, work, players, epoch + 1)
    BY <1>2, OldLater DEF AudioInv
  <1>5. /\ queue' \in Seq(Tasks)
        /\ \A i \in 1..Len(queue') : \/ i \in 1..Len(queue) /\ queue'[i] = queue[i]
                                     \/ queue'[i] = t
    BY <1>1, <1>2, <1>3, AppendParts
  <1>6. Old(hand, queue', work, players, epoch + 1)
    BY <1>3, <1>4, <1>5 DEF Old
  <1>7. CloseIsLast(queue', closed')
    BY <1>1 DEF CloseIsLast
  <1>8. PoolOK'
    BY <1>1 DEF AudioInv, PoolOK
  <1>9. Resources'
    BY <1>1, <1>2, <1>5, <1>6, <1>7, <1>8 DEF Resources, AudioInv
  <1> QED BY <1>1, <1>3, <1>9, Assemble DEF AudioInv, AudioTypes

\* The last task: every player is released.
LEMMA CloseEventKeeps ==
  ASSUME AudioInv, CloseEvent
  PROVE  AudioInv'
  <1>1. /\ work = NoWork /\ queue # <<>> /\ Head(queue).k = "close" /\ queue' = Tail(queue)
        /\ pool' = 0 /\ lifetime' \in {"retained", "released"} /\ lifetime = "installed"
        /\ backend' = backend \/ backend' = 0
        /\ UNCHANGED <<phase, gen, epoch, closed, afterEnd, hand, work>>
    BY DEF CloseEvent, At
  <1>2. players' = [n \in Ids |->
            IF n = backend \/ players[n].st \in {"preparing", "pooled"}
            THEN [players[n] EXCEPT !.st = "released"] ELSE players[n]]
    BY DEF CloseEvent
  <1>3. /\ closed /\ queue' \in Seq(Tasks) /\ From(queue, queue', 1, epoch)
    BY <1>1, HeadTaken
  <1>4. /\ players \in [Ids -> Players] /\ backend \in Ids \cup {0}
        /\ PlayersOK(players, backend, NoWork, lifetime, gen)
    BY <1>1 DEF AudioInv, AudioTypes
  <1>5. \A p \in Players : /\ [p EXCEPT !.st = "released"] \in Players
                           /\ [p EXCEPT !.st = "released"].st = "released"
                           /\ [p EXCEPT !.st = "released"].gen = p.gen
                           /\ [p EXCEPT !.st = "released"].epoch = p.epoch
    BY DEF Players, Gone
  <1>6. \A n \in Ids : /\ players'[n] \in Players /\ players'[n].gen = players[n].gen
                       /\ players'[n].epoch = players[n].epoch /\ players'[n].st \in Gone
                       /\ n = backend => players'[n].st = "released"
    <2> SUFFICES ASSUME NEW n \in Ids
                 PROVE  /\ players'[n] \in Players /\ players'[n].gen = players[n].gen
                        /\ players'[n].epoch = players[n].epoch /\ players'[n].st \in Gone
                        /\ n = backend => players'[n].st = "released"
      OBVIOUS
    <2>1. players[n] \in Players
      BY <1>4
    <2>2. CASE n = backend \/ players[n].st \in {"preparing", "pooled"}
      <3>1. players'[n] = [players[n] EXCEPT !.st = "released"]
        BY <1>2, <2>2
      <3>2. /\ players'[n] \in Players /\ players'[n].gen = players[n].gen
            /\ players'[n].epoch = players[n].epoch /\ players'[n].st = "released"
        BY <1>5, <2>1, <3>1
      <3> QED BY <3>2 DEF Gone
    <2>3. CASE ~(n = backend \/ players[n].st \in {"preparing", "pooled"})
      <3>1. players'[n] = players[n]
        BY <1>2, <2>3
      <3>2. players[n].st \notin Sounding
        BY <1>4, <2>3, NoWorkType, IdsPositive DEF PlayersOK
      <3>3. players[n].st \in Gone
        BY <2>1, <2>3, <3>2 DEF Players
      <3> QED BY <2>1, <2>3, <3>1, <3>3
    <2> QED BY <2>2, <2>3
  <1>7. players' \in [Ids -> Players]
    BY <1>2, <1>6
  <1>8. backend' # 0 => players'[backend'].st = "released" /\ players'[backend'].gen = gen
    BY <1>1, <1>4, <1>6 DEF PlayersOK
  <1>9. \A n \in Ids : players'[n].st \notin Sounding
    BY <1>6 DEF Gone, Sounding
  <1>10. PlayersOK(players', backend', NoWork, lifetime', gen)
    BY <1>6, <1>8, <1>9, NoWorkType DEF PlayersOK
  <1>11. Old(hand, queue', work, players', epoch) /\ CloseIsLast(queue', closed)
    <2>1. Old(hand, queue', work, players, epoch) /\ CloseIsLast(queue', closed)
      BY <1>3, OldStays, CloseStays DEF AudioInv
    <2> QED BY <1>6, <2>1 DEF Old
  <1>12. PoolOK'
    BY <1>1 DEF PoolOK
  <1>13. Resources'
    BY <1>1, <1>3, <1>7, <1>10, <1>11, <1>12, NoWorkType DEF Resources
  <1> QED BY <1>1, <1>3, <1>4, <1>13, Assemble DEF AudioInv, AudioTypes

\* A caller's hands change: what they hold is of no epoch to come.
LEMMA HandResources ==
  ASSUME AudioInv, NEW c \in Callers, NEW t \in Handed \cup {NoTask}, t.epoch =< epoch',
         hand' = [hand EXCEPT ![c] = t], epoch' \in {epoch, epoch + 1},
         gen' = gen \/ backend = 0, queue' \in Seq(Tasks),
         \A i \in 1..Len(queue') : \/ i \in 1..Len(queue) /\ queue'[i] = queue[i]
                                   \/ queue'[i].k # "close" /\ queue'[i].epoch =< epoch',
         UNCHANGED <<backend, closed, work, players, lifetime, pool>>
  PROVE  /\ Resources' /\ hand' \in [Callers -> Handed \cup {NoTask}] /\ epoch' \in Nat
         /\ HandOf(hand, hand', c, t)
  <1>1. /\ hand \in [Callers -> Handed \cup {NoTask}] /\ queue \in Seq(Tasks)
        /\ work \in Works /\ players \in [Ids -> Players] /\ epoch \in Nat
    BY DEF AudioInv, AudioTypes
  <1>2. /\ hand' \in [Callers -> Handed \cup {NoTask}] /\ hand'[c] = t
        /\ \A d \in Callers : d # c => hand'[d] = hand[d]
    BY <1>1
  <1>3. epoch' \in Nat
    BY <1>1, SMTT(30)
  <1>4. Old(hand, queue, work, players, epoch')
    BY <1>1, OldLater DEF AudioInv
  <1>5. Old(hand', queue', work, players, epoch')
    BY <1>2, <1>4 DEF Old
  <1>6. CloseIsLast(queue', closed)
    BY DEF AudioInv, CloseIsLast
  <1>7. PlayersOK(players, backend, work, lifetime, gen')
    BY DEF AudioInv, PlayersOK
  <1>8. PoolOK'
    BY DEF AudioInv, PoolOK
  <1> QED BY <1>1, <1>2, <1>3, <1>5, <1>6, <1>7, <1>8 DEF Resources, HandOf

\* submit, outside the lock: the command decided earlier is queued, overtaken or not.
LEMMA EnqueueKeeps ==
  ASSUME AudioInv, NEW c \in Callers, Enqueue(c)
  PROVE  AudioInv'
  <1> DEFINE t == hand[c]
  <1>1. /\ t # NoTask /\ hand' = [hand EXCEPT ![c] = NoTask] /\ queue' = Queued(queue, t)
        /\ phase' = (IF closed THEN "ERROR" ELSE phase)
        /\ UNCHANGED <<gen, epoch, backend, closed, afterEnd, work, players, pool, lifetime>>
    BY DEF Enqueue
  <1>2. t \in Handed /\ queue \in Seq(Tasks) /\ epoch \in Nat /\ t.epoch =< epoch
    BY <1>1 DEF AudioInv, AudioTypes, Old
  <1> HIDE DEF t
  <1>3. t \in Tasks /\ t.k \in Commands /\ t.k # "close"
    BY <1>2 DEF Handed, Tasks, TaskKinds, Commands, Stops
  <1>4. NoTask.epoch =< epoch
    BY <1>2, OldZero DEF NoTask, Task
  <1>5. /\ queue' \in Seq(Tasks)
        /\ \A i \in 1..Len(queue') : \/ i \in 1..Len(queue) /\ queue'[i] = queue[i]
                                     \/ queue'[i] = t
    BY <1>1, <1>2, <1>3, AppendParts DEF Queued
  <1>6. /\ Resources' /\ hand' \in [Callers -> Handed \cup {NoTask}]
        /\ HandOf(hand, hand', c, NoTask)
    <2>1. \A i \in 1..Len(queue') : \/ i \in 1..Len(queue) /\ queue'[i] = queue[i]
                                    \/ queue'[i].k # "close" /\ queue'[i].epoch =< epoch
      BY <1>2, <1>3, <1>5
    <2> QED BY <1>1, <1>4, <1>5, <2>1, HandResources
  <1>7. ASSUME ~closed PROVE CommandOK'
    <2> DEFINE st == StateOf(players, backend)
    <2>1. Command(hand, queue, work, gen, epoch, phase, afterEnd, st)
          /\ queue' = Append(queue, t) /\ phase' = phase
      BY <1>1, <1>7 DEF AudioInv, CommandOK, Queued
    <2> HIDE DEF st
    <2>2. t.k \in Stops => Tok(t, gen, epoch)
      BY <2>1 DEF Command, StopsCurrent, t
    <2>3. CASE Tok(t, gen, epoch)
      <3>1. Clear(hand', queue, gen, epoch) /\ IdleWork(work, gen, epoch)
        BY <1>6, <2>1, <2>3, HandClears DEF t
      <3>2. TokenFits(t.k, phase, afterEnd, st) /\ PhaseFits(phase, afterEnd, st)
        BY <2>1, <2>3 DEF Command, Fits, t
      <3>3. Command(hand', Append(queue, t), work, gen, epoch, phase, afterEnd, st)
        BY <1>2, <1>3, <2>2, <3>1, <3>2, ClearQueue
      <3> QED BY <1>1, <2>1, <3>3 DEF CommandOK, st
    <2>4. CASE ~Tok(t, gen, epoch)
      <3>1. Command(hand', Append(queue, t), work, gen, epoch, phase, afterEnd, st)
        <4>1. \A d \in Callers : hand'[d] = hand[d] \/ hand'[d] = NoTask
          BY <1>6 DEF HandOf
        <4> QED BY <1>2, <1>3, <2>1, <2>2, <2>4, <4>1, OvertakenQueued
      <3> QED BY <1>1, <2>1, <3>1 DEF CommandOK, st
    <2> QED BY <2>3, <2>4
  <1>8. phase' \in Phases /\ (phase' \in {"IDLE", "STOPPED"} => backend = 0)
    BY <1>1 DEF AudioInv, AudioTypes, Phases
  <1> QED BY <1>1, <1>6, <1>7, <1>8, Assemble DEF AudioInv, AudioTypes

\* A phase that is not pending has no command under way.
LEMMA SettledClear ==
  ASSUME NEW h, NEW q, NEW w, NEW g, NEW e, NEW ph, NEW ae, NEW st,
         Command(h, q, w, g, e, ph, ae, st), ph \notin Pending
  PROVE  Clear(h, q, g, e) /\ IdleWork(w, g, e)
  <1>1. \A k \in TokenKinds : ~TokenFits(k, ph, ae, st)
    BY DEF TokenKinds, Commands, Pending, TokenFits
  <1>2. \A k \in WorkTokens : ~WorkFits(k, ph, ae, st)
    BY DEF WorkTokens, Pending, WorkFits
  <1>3. NoneHeld(h, g, e) /\ NoneIn(q, g, e)
    BY <1>1 DEF Command, Fits, NoneHeld, NoneIn, Tok
  <1>4. ~WorkTok(w, g, e)
    BY <1>2 DEF Command, Fits, WorkTok
  <1> QED BY <1>3, <1>4 DEF Command, StopsCurrent, Clear, IdleWork, NoneHeld, NoneIn

\* submit, under the lock: the decided command is the one under way.
LEMMA Decided ==
  ASSUME AudioInv, ~closed, NEW c \in Callers, NEW k \in Commands,
         hand' = [hand EXCEPT ![c] = Task(k, gen', epoch')],
         gen' \in Nat, gen' = gen \/ backend = 0, epoch' \in {epoch, epoch + 1},
         afterEnd' \in BOOLEAN, phase' \in Pending,
         Clear(hand, queue, gen', epoch'), IdleWork(work, gen', epoch'),
         TokenFits(k, phase', afterEnd', StateOf(players, backend)),
         UNCHANGED <<backend, closed, queue, work, players, pool, lifetime>>
  PROVE  AudioInv'
  <1> DEFINE t == Task(k, gen', epoch')
  <1>1. epoch \in Nat /\ queue \in Seq(Tasks)
    BY DEF AudioInv, AudioTypes
  <1>2. epoch' \in Nat /\ epoch' =< epoch'
    BY <1>1, SMTT(30)
  <1>3. t \in Handed /\ t.k = k /\ t.gen = gen' /\ t.epoch = epoch'
    BY <1>2 DEF Task, Handed
  <1> HIDE DEF t
  <1>4. hand' = [hand EXCEPT ![c] = t] /\ t.epoch =< epoch' /\ t \in Handed \cup {NoTask}
    BY <1>2, <1>3 DEF t
  <1>5. /\ Resources' /\ hand' \in [Callers -> Handed \cup {NoTask}]
        /\ HandOf(hand, hand', c, t)
    BY <1>1, <1>4, HandResources
  <1>6. Tok(t, gen', epoch')
    BY <1>3 DEF Tok, TokenKinds
  <1>7. PhaseFits(phase', afterEnd', StateOf(players, backend))
    BY DEF PhaseFits, Pending
  <1>8. Command(hand', queue, work, gen', epoch', phase', afterEnd', StateOf(players, backend))
    BY <1>3, <1>5, <1>6, <1>7, ClearHand
  <1>9. CommandOK'
    BY <1>8 DEF CommandOK
  <1>10. phase' \in Phases \ {"IDLE", "STOPPED"}
    BY DEF Phases, Pending
  <1> QED BY <1>2, <1>5, <1>9, <1>10, Assemble DEF AudioInv, AudioTypes

\* The phases in which a command is admitted, and the phase it moves to.
LEMMA Admission ==
  ASSUME NEW k \in Commands, Admits(k)
  PROVE  /\ k = "prepare" => phase \in {"IDLE", "STOPPED"} /\ PhaseOf(k) = "PREPARING"
         /\ k = "start" => phase = "PREPARED" /\ PhaseOf(k) = "STARTING"
         /\ k = "pause" => phase \in {"PLAYING", "SILENT"} /\ PhaseOf(k) = "PAUSING"
         /\ k = "resume" => phase = "PAUSED" /\ PhaseOf(k) = "RESUMING"
         /\ k \in Stops => phase \notin {"IDLE", "STOPPING", "STOPPED"} /\ PhaseOf(k) = "STOPPING"
  <1>1. ASSUME k = "prepare" PROVE phase \in {"IDLE", "STOPPED"} /\ PhaseOf(k) = "PREPARING"
    BY <1>1 DEF Admits, PhaseOf, Stops
  <1>2. ASSUME k = "start" PROVE phase = "PREPARED" /\ PhaseOf(k) = "STARTING"
    BY <1>2 DEF Admits, PhaseOf, Stops
  <1>3. ASSUME k = "pause" PROVE phase \in {"PLAYING", "SILENT"} /\ PhaseOf(k) = "PAUSING"
    BY <1>3 DEF Admits, PhaseOf, Stops
  <1>4. ASSUME k = "resume" PROVE phase = "PAUSED" /\ PhaseOf(k) = "RESUMING"
    BY <1>4 DEF Admits, PhaseOf, Stops
  <1>5. ASSUME k \in Stops
        PROVE  phase \notin {"IDLE", "STOPPING", "STOPPED"} /\ PhaseOf(k) = "STOPPING"
    BY <1>5 DEF Admits, PhaseOf, Stops
  <1> QED BY <1>1, <1>2, <1>3, <1>4, <1>5

\* submit, under the lock.
LEMMA DecideKeeps ==
  ASSUME AudioInv, NEW c \in Callers, NEW k \in Commands, Decide(c, k)
  PROVE  AudioInv'
  <1> DEFINE st == StateOf(players, backend)
  <1>1. /\ ~closed /\ hand' = [hand EXCEPT ![c] = Task(k, gen', epoch')]
        /\ UNCHANGED <<backend, closed, queue, work, players, pool, lifetime>>
        /\ phase' = PhaseOf(k) /\ Admits(k)
        /\ gen' = (IF k = "prepare" THEN gen + 1 ELSE gen)
        /\ epoch' = (IF k = "prepare" \/ k \in Stops THEN epoch + 1 ELSE epoch)
    BY DEF Decide
  <1>2. /\ k = "prepare" => afterEnd' = FALSE
        /\ k = "pause" => afterEnd' = (phase = "SILENT")
        /\ k # "prepare" /\ k # "pause" => afterEnd' = afterEnd
    <2>1. afterEnd' = CASE k = "prepare" -> FALSE
                        [] k = "pause" -> phase = "SILENT"
                        [] OTHER -> afterEnd
      BY DEF Decide
    <2>2. ASSUME k = "prepare" PROVE afterEnd' = FALSE
      BY <2>1, <2>2
    <2>3. ASSUME k = "pause" PROVE afterEnd' = (phase = "SILENT")
      BY <2>1, <2>3
    <2>4. ASSUME k # "prepare", k # "pause" PROVE afterEnd' = afterEnd
      BY <2>1, <2>4
    <2> QED BY <2>2, <2>3, <2>4
  <1>3. /\ gen \in Nat /\ gen + 1 \in Nat /\ epoch \in Nat /\ queue \in Seq(Tasks)
        /\ hand \in [Callers -> Handed \cup {NoTask}] /\ work \in Works /\ afterEnd \in BOOLEAN
    <2>1. /\ gen \in Nat /\ epoch \in Nat /\ queue \in Seq(Tasks)
          /\ hand \in [Callers -> Handed \cup {NoTask}] /\ work \in Works /\ afterEnd \in BOOLEAN
      BY DEF AudioInv, AudioTypes
    <2>2. gen + 1 \in Nat
      BY <2>1, SMTT(30)
    <2> QED BY <2>1, <2>2
  <1>4. /\ Command(hand, queue, work, gen, epoch, phase, afterEnd, st)
        /\ PhaseFits(phase, afterEnd, st) /\ Old(hand, queue, work, players, epoch)
    BY <1>1 DEF AudioInv, CommandOK, Command, Fits
  <1>5. ASSUME phase # "STOPPING", NEW f
        PROVE  Clear(hand, queue, f, epoch + 1) /\ IdleWork(work, f, epoch + 1)
    <2>1. From(queue, queue, 0, epoch) /\ 0 \in {0, 1}
      BY <1>3, FromSame
    <2> QED BY <1>3, <1>4, <1>5, <2>1, EpochClears
  <1>6. ASSUME phase \notin Pending
        PROVE  Clear(hand, queue, gen, epoch) /\ IdleWork(work, gen, epoch)
    BY <1>4, <1>6, SettledClear
  <1> HIDE DEF st
  <1>7. CASE k = "prepare"
    <2>1. phase \in {"IDLE", "STOPPED"} /\ phase' = "PREPARING" /\ phase # "STOPPING"
      BY <1>1, <1>7, Admission
    <2>2. backend = 0
      BY <2>1 DEF AudioInv
    <2>3. gen' \in Nat /\ epoch' = epoch + 1 /\ afterEnd' \in BOOLEAN /\ phase' \in Pending
      BY <1>1, <1>2, <1>3, <1>7, <2>1 DEF Pending
    <2>4. Clear(hand, queue, gen', epoch') /\ IdleWork(work, gen', epoch')
      BY <1>5, <2>1, <2>3
    <2>5. TokenFits(k, phase', afterEnd', st)
      BY <1>7, <2>1 DEF TokenFits, Stops
    <2> QED BY <1>1, <2>2, <2>3, <2>4, <2>5, Decided DEF st
  <1>8. CASE k \in Stops
    <2>1. phase # "STOPPING" /\ phase' = "STOPPING" /\ k # "prepare" /\ k # "pause"
      BY <1>1, <1>8, Admission DEF Stops
    <2>2. gen' = gen /\ gen' \in Nat /\ epoch' = epoch + 1 /\ afterEnd' \in BOOLEAN
          /\ phase' \in Pending
      BY <1>1, <1>2, <1>3, <1>8, <2>1 DEF Pending
    <2>3. Clear(hand, queue, gen', epoch') /\ IdleWork(work, gen', epoch')
      BY <1>5, <2>1, <2>2
    <2>4. TokenFits(k, phase', afterEnd', st)
      BY <1>8, <2>1 DEF TokenFits, Stops
    <2> QED BY <1>1, <2>2, <2>3, <2>4, Decided DEF st
  <1>9. CASE k \in {"start", "pause", "resume"}
    <2>1. gen' = gen /\ gen' \in Nat /\ epoch' = epoch /\ afterEnd' \in BOOLEAN
          /\ phase \notin Pending /\ phase' \in Pending
      <3>1. k # "prepare" /\ k \notin Stops
        BY <1>9 DEF Stops
      <3>2. phase \in {"PREPARED", "PLAYING", "SILENT", "PAUSED"}
            /\ phase' \in {"STARTING", "PAUSING", "RESUMING"}
        BY <1>1, <1>9, Admission
      <3>3. afterEnd' \in BOOLEAN
        BY <1>2, <1>3, <3>1
      <3> QED BY <1>1, <1>3, <3>1, <3>2, <3>3 DEF Pending
    <2>2. Clear(hand, queue, gen', epoch') /\ IdleWork(work, gen', epoch')
      BY <1>6, <2>1
    <2>3. TokenFits(k, phase', afterEnd', st)
      <3>1. CASE k = "start"
        BY <1>1, <1>4, <3>1, Admission DEF TokenFits, PhaseFits, Stops
      <3>2. CASE k = "pause"
        <4>1. /\ phase' = "PAUSING" /\ phase \in {"PLAYING", "SILENT"}
              /\ afterEnd' = (phase = "SILENT")
          BY <1>1, <1>2, <3>2, Admission
        <4>2. st \in (IF afterEnd' THEN Gone ELSE Played)
          BY <1>4, <4>1 DEF PhaseFits
        <4> QED BY <3>2, <4>1, <4>2 DEF TokenFits, Stops
      <3>3. CASE k = "resume"
        <4>1. phase' = "RESUMING" /\ phase = "PAUSED" /\ afterEnd' = afterEnd
          BY <1>1, <1>2, <3>3, Admission
        <4>2. st \in (IF afterEnd' THEN Gone ELSE Paused)
          BY <1>4, <4>1 DEF PhaseFits
        <4> QED BY <3>3, <4>1, <4>2 DEF TokenFits, Stops
      <3> QED BY <1>9, <3>1, <3>2, <3>3
    <2> QED BY <1>1, <2>1, <2>2, <2>3, Decided DEF st
  <1> QED BY <1>7, <1>8, <1>9 DEF Commands

-----------------------------------------------------------------------------
(* The invariant and what it gives *)

\* Before the first command nothing is under way and one player prepares.
LEMMA StartsWell == Init => AudioInv
  <1> SUFFICES ASSUME Init PROVE AudioInv
    OBVIOUS
  <1>1. /\ phase = "IDLE" /\ gen = 0 /\ epoch = 0 /\ backend = 0 /\ closed = FALSE
        /\ afterEnd = FALSE /\ hand = [c \in Callers |-> NoTask] /\ queue = <<>>
        /\ work = NoWork /\ pool = 0 /\ lifetime = "installed"
    BY DEF Init
  <1>2. players = [b \in Ids |-> [st |-> IF b = 1 THEN "preparing" ELSE "none",
                                  gen |-> 0, epoch |-> 0]]
    BY SMTT(30) DEF Init, NoPlayer
  <1>3. \A n \in Ids : /\ players[n] \in Players /\ players[n].epoch = 0
                       /\ players[n].st \in {"none", "preparing"}
                       /\ players[n].st = "preparing" => n = 1
    BY <1>2, OldZero DEF Players, Gone, Sounding
  <1>4. players \in [Ids -> Players]
    BY <1>2, <1>3
  <1>5. 0 \in Nat /\ 0 =< 0 /\ <<>> \in Seq(Tasks) /\ 1..Len(<<>>) = {}
    BY SMTT(30)
  <1>6. AudioTypes
    BY <1>1, <1>4, <1>5, NoWorkType DEF AudioTypes, Phases
  <1>7. \A n \in Ids : players[n].st \notin Sounding /\ (players[n].st \notin Gone => n = 1)
    BY <1>3 DEF Sounding, Gone
  <1>8. PlayersOK(players, backend, work, lifetime, gen)
    BY <1>1, <1>7, NoWorkType DEF PlayersOK
  <1>9. \A c \in Callers : hand[c] = NoTask
    BY <1>1
  <1>10. NoTask.k = "none" /\ NoTask.epoch = 0
    BY DEF NoTask, Task
  <1>11. \A i \in 1..Len(queue) : FALSE
    BY <1>1, <1>5
  <1>12. Old(hand, queue, work, players, epoch)
    BY <1>1, <1>3, <1>5, <1>9, <1>10, <1>11, NoWorkType DEF Old
  <1>13. CommandOK
    <2>1. Clear(hand, queue, gen, epoch)
      BY <1>9, <1>10, <1>11 DEF Clear, NoneHeld, NoneIn, Tok, TokenKinds, Commands, Stops
    <2>2. PhaseFits(phase, afterEnd, StateOf(players, backend)) /\ IdleWork(work, gen, epoch)
      BY <1>1, NoWorkIdle DEF PhaseFits
    <2> QED BY <2>1, <2>2, ClearIsCommand DEF CommandOK
  <1> QED BY <1>1, <1>6, <1>8, <1>11, <1>12, <1>13 DEF AudioInv, PoolOK, CloseIsLast

\* Every step keeps the invariant.
LEMMA StepKeeps == AudioInv /\ [Next]_vars => AudioInv'
  <1> SUFFICES ASSUME AudioInv, [Next]_vars PROVE AudioInv'
    OBVIOUS
  <1>1. ASSUME NEW c \in Callers, NEW k \in Commands, Decide(c, k) PROVE AudioInv'
    BY <1>1, DecideKeeps
  <1>2. ASSUME NEW c \in Callers, Enqueue(c) PROVE AudioInv'
    BY <1>2, EnqueueKeeps
  <1>3. CASE Close
    BY <1>3, CloseKeeps
  <1>4. CASE Owner
    <2>1. ASSUME NEW throws \in BOOLEAN, NEW fails \in BOOLEAN,
                 ApplyStart(throws, fails) \/ ApplyPause(throws, fails) \/ ApplyResume(throws, fails)
          PROVE  AudioInv'
      BY <2>1, ApplyStartKeeps, ApplyPauseKeeps, ApplyResumeKeeps
    <2>2. ASSUME NEW fails \in BOOLEAN, ApplyPrepare(fails) \/ ReleaseStale(fails)
          PROVE  AudioInv'
      BY <2>2, PrepareKeeps, ReleaseStaleKeeps
    <2>3. ASSUME NEW fails \in BOOLEAN,
                 ApplyStop(fails) \/ EndedEvent(fails) \/ ErrorEvent(fails)
          PROVE  AudioInv'
      BY <2>3, StopKeeps, EndedKeeps, ErrorKeeps
    <2>4. CASE ReportStart \/ SettlePause \/ SettleStop \/ SettleCleanup
      BY <2>4, ReportStartKeeps, SettlePauseKeeps, SettleStopKeeps, CleanupKeeps
    <2>5. CASE PreparedEvent \/ PlayingEvent \/ ReadinessEvent \/ CloseEvent
      BY <2>5, EventKeeps, ReadinessKeeps, CloseEventKeeps
    <2> QED BY <1>4, <2>1, <2>2, <2>3, <2>4, <2>5 DEF Owner
  <1>5. ASSUME NEW b \in Ids, NEW ok \in BOOLEAN, Preloaded(b, ok) PROVE AudioInv'
    BY <1>5, PreloadedKeeps
  <1>6. ASSUME NEW b \in Ids, NEW k \in {"ended", "error"}, Finish(b, k) PROVE AudioInv'
    BY <1>6, FinishKeeps
  <1>7. CASE UNCHANGED vars
    BY <1>7 DEF vars, stateVars, AudioInv, AudioTypes, PoolOK, CommandOK
  <1> QED BY <1>1, <1>2, <1>3, <1>4, <1>5, <1>6, <1>7 DEF Next

\* The inductive invariant holds of every behaviour of submit, the owner thread, the
\* player factory and the callbacks.
THEOREM AudioInvariant == Spec => []AudioInv
  BY StartsWell, StepKeeps, PTL DEF Spec

\* A player that holds the platform is the session's or in the owner thread's hands, and
\* there is one at most, in whatever order callers, callbacks and close arrive.
THEOREM OneReachablePlayer == Spec => []NoPlayerIsOrphaned
  <1>1. AudioInv => NoPlayerIsOrphaned
    <2> SUFFICES ASSUME AudioInv PROVE NoPlayerIsOrphaned
      OBVIOUS
    <2>1. /\ \A n, m \in Ids : players[n].st \notin Gone /\ players[m].st \notin Gone => n = m
          /\ \A n \in Ids : players[n].st \in Sounding => n \in {backend, work.b}
      BY DEF AudioInv, PlayersOK
    <2>2. \A n : n \in Live <=> n \in Ids /\ players[n].st \in Sounding
      BY DEF Live, Sounding
    <2>3. \A n, m \in Live : n = m
      BY <2>1, <2>2 DEF Sounding, Gone
    <2>4. Cardinality(Live) =< 1
      <3>1. CASE Live = {}
        <4>1. Cardinality(Live) = 0
          BY <3>1, FS_EmptySet
        <4> QED BY <4>1, SMTT(30)
      <3>2. CASE Live # {}
        <4>1. PICK n : n \in Live
          BY <3>2
        <4>2. Live = {n}
          BY <2>3, <4>1
        <4>3. Cardinality(Live) = 1
          BY <4>2, FS_Singleton
        <4> QED BY <4>3, SMTT(30)
      <3> QED BY <3>1, <3>2
    <2> QED BY <2>1, <2>2, <2>4 DEF NoPlayerIsOrphaned
  <1> QED BY <1>1, AudioInvariant, PTL

\* The phase tells the truth about the session's player.
THEOREM PhaseIsTrue == Spec => []PhaseMatchesPlayer
  <1>1. AudioInv => PhaseMatchesPlayer
    <2> SUFFICES ASSUME AudioInv PROVE PhaseMatchesPlayer
      OBVIOUS
    <2>1. phase \in {"IDLE", "STOPPED"} => Live \subseteq {work.b} /\ backend = 0
      <3> SUFFICES ASSUME phase \in {"IDLE", "STOPPED"} PROVE Live \subseteq {work.b} /\ backend = 0
        OBVIOUS
      <3>1. backend = 0
        BY DEF AudioInv
      <3>2. \A n \in Live : n \in Ids /\ players[n].st \in Sounding
        BY DEF Live, Sounding
      <3> QED BY <3>1, <3>2, IdsPositive DEF AudioInv, PlayersOK
    <2>2. backend # 0 => players[backend].gen = gen
      BY DEF AudioInv, PlayersOK
    <2>3. ~closed => PhaseFits(phase, afterEnd, StateOf(players, backend))
      BY DEF AudioInv, CommandOK, Command, Fits
    <2> QED BY <2>1, <2>2, <2>3 DEF PhaseMatchesPlayer, PhaseFits, StateOf, Played, Paused, Gone
  <1> QED BY <1>1, AudioInvariant, PTL

\* The app-lifetime slot is given back only with every player released.
THEOREM LifetimeEndsClean == Spec => []LifetimeIsClean
  <1>1. AudioInv => LifetimeIsClean
    BY DEF AudioInv, PlayersOK, LifetimeIsClean, Gone
  <1> QED BY <1>1, AudioInvariant, PTL
=============================================================================
