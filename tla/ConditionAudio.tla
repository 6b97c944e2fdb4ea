--------------------------- MODULE ConditionAudio --------------------------
(***************************************************************************)
(* The condition audio of an experiment session: ConditionAudioRuntime and *)
(* the Android player factory behind it.  A caller decides a command under *)
(* one lock, which only moves the phase, and queues it after leaving the   *)
(* lock; a single owner thread applies the queued commands and the         *)
(* callbacks of the players in order and leaves the lock around every      *)
(* platform call.  The factory keeps one prepared player of a track and    *)
(* prepares its successor when a player is released.                       *)
(*                                                                         *)
(* Tracks are independent, so there is one.  Operation ids are fresh: a    *)
(* repeated or conflicting id is answered from the table of decided ids    *)
(* and changes nothing.  Positions, progress and receipts are left out.    *)
(* Of the platform's player, stop throws once the player is broken or      *)
(* released, start and pause may throw, and release does not.              *)
(***************************************************************************)
EXTENDS Integers, Sequences, FiniteSets

CONSTANTS Callers,   \* threads that submit commands
          MaxGen,    \* bound: session generations callers ask for
          MaxCmd     \* bound: pause, resume and stop commands admitted

ASSUME ConditionAudioAssumption == MaxGen \in Nat \ {0} /\ MaxCmd \in Nat

VARIABLES phase, gen, epoch, backend, closed, afterEnd, readiness,
          hand,      \* commands decided and not yet queued, by caller
          queue,     \* tasks of the owner thread
          work,      \* the task it is inside, between two locked sections
          players,   \* the platform's players
          pool,      \* the factory's prepared player, or 0
          factory,   \* whether the factory is closed, or prepares no more
          lifetime,  \* the app-lifetime owner, and how the close left it
          cmds       \* how many bounded commands were admitted

stateVars == <<phase, gen, epoch, backend, closed, afterEnd, readiness>>
vars == <<stateVars, hand, queue, work, players, pool, factory, lifetime,
          cmds>>

Pending == {"PREPARING", "STARTING", "PAUSING", "RESUMING", "STOPPING"}
Stops == {"stop", "exit"}
Commands == {"prepare", "start", "pause", "resume"} \union Stops
Reports == {"pending", "ready", "failed"}
MaxPlayers == MaxGen + 1
Ids == 1..MaxPlayers
NoPlayer == [st |-> "none", gen |-> 0, epoch |-> 0]
Task(k, g, e) == [k |-> k, gen |-> g, epoch |-> e]
NoTask == Task("none", 0, 0)
NoWork == [k |-> "none", gen |-> 0, epoch |-> 0, b |-> 0, clean |-> TRUE]
\* Players of a session that still hold the platform.
Live == {b \in Ids : players[b].st \in {"held", "started", "paused",
                                        "completed", "errored"}}

\* The runtime is installed and its startup preload has run on the owner
\* thread: the track is pending and a player prepares.
Init ==
    /\ phase = "IDLE" /\ gen = 0 /\ epoch = 0 /\ backend = 0
    /\ closed = FALSE /\ afterEnd = FALSE /\ readiness = "pending"
    /\ hand = [c \in Callers |-> NoTask] /\ queue = << >> /\ work = NoWork
    /\ players = [b \in Ids |-> [NoPlayer EXCEPT
                    !.st = IF b = 1 THEN "preparing" ELSE "none"]]
    /\ pool = 0 /\ factory = [closed |-> FALSE, disabled |-> FALSE]
    /\ lifetime = "installed" /\ cmds = 0

-----------------------------------------------------------------------------
(* submit: the admission rules, the phase, and later the owner's queue *)

\* admissionRejection is empty.
Admits(k) ==
    CASE k = "prepare" -> phase \in {"IDLE", "STOPPED"} /\ readiness = "ready"
      [] k = "start" -> phase = "PREPARED" /\ backend # 0
      [] k = "pause" -> phase \in {"PLAYING", "SILENT"}
      [] k = "resume" -> phase = "PAUSED"
      [] k \in Stops -> phase \notin {"IDLE", "STOPPING", "STOPPED"}

PhaseOf(k) ==
    CASE k = "prepare" -> "PREPARING" [] k = "start" -> "STARTING"
      [] k = "pause" -> "PAUSING" [] k = "resume" -> "RESUMING"
      [] k \in Stops -> "STOPPING"

Decide(c, k) ==
    /\ ~closed /\ hand[c] = NoTask /\ Admits(k)
    /\ k = "prepare" => gen < MaxGen
    /\ k \in {"pause", "resume"} \union Stops => cmds < MaxCmd
    /\ gen' = IF k = "prepare" THEN gen + 1 ELSE gen
    /\ epoch' = IF k = "prepare" \/ k \in Stops THEN epoch + 1 ELSE epoch
    /\ afterEnd' = CASE k = "prepare" -> FALSE
                     [] k = "pause" -> phase = "SILENT"
                     [] OTHER -> afterEnd
    /\ phase' = PhaseOf(k)
    /\ hand' = [hand EXCEPT ![c] = Task(k, gen', epoch')]
    /\ cmds' = IF k \in {"prepare", "start"} THEN cmds ELSE cmds + 1
    /\ UNCHANGED <<backend, closed, readiness, queue, work, players, pool,
                   factory, lifetime>>

\* The owner thread takes nothing more once the runtime is closed.
Queued(q, t) == IF closed THEN q ELSE Append(q, t)

Enqueue(c) ==
    /\ hand[c] # NoTask
    /\ hand' = [hand EXCEPT ![c] = NoTask]
    /\ queue' = Queued(queue, hand[c])
    /\ phase' = IF closed THEN "ERROR" ELSE phase
    /\ UNCHANGED <<gen, epoch, backend, closed, afterEnd, readiness, work,
                   players, pool, factory, lifetime, cmds>>

\* close: the last task of the owner thread.
Close ==
    /\ ~closed
    /\ closed' = TRUE /\ epoch' = epoch + 1
    /\ queue' = Append(queue, Task("close", 0, 0))
    /\ UNCHANGED <<phase, gen, backend, afterEnd, readiness, hand, work, players,
                   pool, factory, lifetime, cmds>>

-----------------------------------------------------------------------------
(* The owner thread *)

At(k) ==
    /\ work = NoWork /\ lifetime = "installed"
    /\ queue # << >> /\ Head(queue).k = k
Current(t) == ~closed /\ t.gen = gen /\ t.epoch = epoch
Inside(k, t, b, clean) ==
    [k |-> k, gen |-> t.gen, epoch |-> t.epoch, b |-> b, clean |-> clean]
Leave == work' = NoWork
Fresh == {b \in Ids : players[b].st = "none"}
StopThrows(b) == b # 0 /\ players[b].st \in {"released", "errored"}

\* replaceAfterTerminal follows the first release of player b.
Replaces(b) ==
    /\ b # 0 /\ players[b].st # "released" /\ Fresh # {}
    /\ ~factory.closed /\ ~factory'.disabled
\* release: the player is freed, and the factory reports the track pending
\* and prepares the next player, or fails to.
Release(b, rest, fails) ==
    LET next == CHOOSE n \in Fresh : \A m \in Fresh : n <= m
    IN /\ players' = [n \in Ids |->
             CASE n = b -> [players[n] EXCEPT !.st = "released"]
               [] Replaces(b) /\ ~fails /\ n = next ->
                      [NoPlayer EXCEPT !.st = "preparing"]
               [] OTHER -> players[n]]
       /\ queue' = IF ~Replaces(b) THEN rest
                   ELSE IF fails
                   THEN Queued(Queued(rest, Task("pending", 0, 0)),
                               Task("failed", 0, 0))
                   ELSE Queued(rest, Task("pending", 0, 0))

\* Mutant: a failed session forgets its player without releasing it.
FailKeepsPlayer(t, rest, fails) ==
    IF Current(t) /\ phase # "STOPPING"
    THEN /\ phase' = "ERROR" /\ epoch' = epoch + 1
         /\ queue' = rest /\ UNCHANGED players
         /\ work' = Inside("cleanup", t, backend, TRUE)
    ELSE /\ queue' = rest /\ Leave
         /\ UNCHANGED <<phase, epoch, players>>
\* publishError, first section: the phase moves and the player is released.
Fail(t, rest, fails) ==
    IF Current(t) /\ phase # "STOPPING"
    THEN /\ phase' = "ERROR" /\ epoch' = epoch + 1
         /\ Release(backend, rest, fails)
         /\ work' = Inside("cleanup", t, backend, TRUE)
    ELSE /\ queue' = rest /\ Leave
         /\ UNCHANGED <<phase, epoch, players>>
Skip ==
    queue' = Tail(queue) /\ Leave /\ UNCHANGED <<phase, epoch, players>>

\* applyPrepare: the factory hands out its prepared player; when the session
\* ended meanwhile the player is released again.
ApplyPrepare(fails) ==
    /\ At("prepare") /\ UNCHANGED factory
    /\ LET t == Head(queue)
           fresh == Current(t) /\ phase = "PREPARING"
       IN IF pool = 0 \/ factory.closed
          THEN /\ Fail(t, Tail(queue), fails)
               /\ UNCHANGED <<backend, pool>>
          ELSE /\ players' = [players EXCEPT ![pool] =
                                 [st |-> "held", gen |-> t.gen, epoch |-> t.epoch]]
               /\ pool' = 0
               /\ backend' = IF fresh THEN pool ELSE backend
               /\ work' = IF fresh THEN NoWork ELSE Inside("stale", t, pool, TRUE)
               /\ queue' = IF fresh
                           THEN Queued(Tail(queue), Task("prepared", t.gen, t.epoch))
                           ELSE Tail(queue)
               /\ UNCHANGED <<phase, epoch>>
    /\ UNCHANGED <<gen, closed, afterEnd, readiness, hand, lifetime, cmds>>
ReleaseStale(fails) ==
    /\ work.k = "stale" /\ UNCHANGED factory
    /\ Release(work.b, queue, fails)
    /\ Leave
    /\ UNCHANGED <<stateVars, hand, pool, lifetime, cmds>>

\* SessionBackend.start: from its end a player plays again.  The actual start
\* is reported after the player has started.
StartPlayer(t, throws, fails) ==
    IF throws \/ players[backend].st \in {"released", "errored"}
    THEN Fail(t, Tail(queue), fails)
    ELSE /\ players' = [players EXCEPT ![backend].st = "started"]
         /\ work' = Inside("started", players[backend], 0, TRUE)
         /\ queue' = Tail(queue)
         /\ UNCHANGED <<phase, epoch>>
ApplyStart(throws, fails) ==
    /\ At("start") /\ UNCHANGED factory
    /\ IF Current(Head(queue)) /\ phase = "STARTING"
       THEN StartPlayer(Head(queue), throws, fails)
       ELSE Skip
    /\ UNCHANGED <<gen, backend, closed, afterEnd, readiness, hand, pool,
                   lifetime, cmds>>
ReportStart ==
    /\ work.k = "started"
    /\ queue' = Queued(queue, Task("playing", work.gen, work.epoch))
    /\ Leave
    /\ UNCHANGED <<stateVars, hand, players, pool, factory, lifetime, cmds>>

\* applyPauseResume: after a natural end only the phase moves.
ApplyPause(throws, fails) ==
    /\ At("pause") /\ UNCHANGED factory
    /\ LET t == Head(queue)
       IN IF ~Current(t) THEN Skip
          ELSE IF ~afterEnd /\ (throws \/ StopThrows(backend))
          THEN Fail(t, Tail(queue), fails)
          ELSE /\ players' = [n \in Ids |->
                     IF n = backend /\ ~afterEnd /\ players[n].st = "started"
                     THEN [players[n] EXCEPT !.st = "paused"] ELSE players[n]]
               /\ work' = Inside("pause", t, 0, TRUE)
               /\ queue' = Tail(queue)
               /\ UNCHANGED <<phase, epoch>>
    /\ UNCHANGED <<gen, backend, closed, afterEnd, readiness, hand, pool,
                   lifetime, cmds>>
ApplyResume(throws, fails) ==
    /\ At("resume") /\ UNCHANGED factory
    /\ LET t == Head(queue)
       IN IF ~Current(t) THEN Skip
          ELSE IF afterEnd
          THEN /\ work' = Inside("resume", t, 0, TRUE)
               /\ queue' = Tail(queue)
               /\ UNCHANGED <<phase, epoch, players>>
          ELSE StartPlayer(t, throws, fails)
    /\ UNCHANGED <<gen, backend, closed, afterEnd, readiness, hand, pool,
                   lifetime, cmds>>
\* Mutant: the phase moves although a stop was admitted meanwhile.
SettlePauseOverStop ==
    /\ work.k \in {"pause", "resume"}
    /\ phase' = IF closed THEN phase
                ELSE IF work.k = "pause" THEN "PAUSED" ELSE "SILENT"
    /\ Leave
    /\ UNCHANGED <<gen, epoch, backend, closed, afterEnd, readiness, hand, queue,
                   players, pool, factory, lifetime, cmds>>
\* Mutant: the pause after a natural end is never confirmed.
SettlePauseIfSounding ==
    /\ work.k \in {"pause", "resume"}
    /\ phase' = IF ~Current(work) \/ phase = "STOPPING" \/ afterEnd THEN phase
                ELSE IF work.k = "pause" THEN "PAUSED" ELSE "SILENT"
    /\ Leave
    /\ UNCHANGED <<gen, epoch, backend, closed, afterEnd, readiness, hand, queue,
                   players, pool, factory, lifetime, cmds>>
SettlePause ==
    /\ work.k \in {"pause", "resume"}
    /\ phase' = IF ~Current(work) \/ phase = "STOPPING" THEN phase
                ELSE IF work.k = "pause" THEN "PAUSED" ELSE "SILENT"
    /\ Leave
    /\ UNCHANGED <<gen, epoch, backend, closed, afterEnd, readiness, hand, queue,
                   players, pool, factory, lifetime, cmds>>

\* applyStop, platform part: stop, then release.
ApplyStop(fails) ==
    /\ \E k \in Stops : At(k)
    /\ factory' = [factory EXCEPT !.disabled = @ \/ Head(queue).k = "exit"]
    /\ work' = Inside("stop", Head(queue), backend, ~StopThrows(backend))
    /\ Release(backend, Tail(queue), fails)
    /\ UNCHANGED <<stateVars, hand, pool, lifetime, cmds>>
\* applyStop, second section: an unconfirmed cleanup keeps the player.
SettleStop ==
    /\ work.k = "stop"
    /\ IF work.gen = gen /\ phase = "STOPPING"
       THEN IF work.clean
            THEN /\ phase' = "STOPPED"
                 /\ backend' = IF backend = work.b THEN 0 ELSE backend
            ELSE phase' = "ERROR" /\ backend' = work.b
       ELSE UNCHANGED <<phase, backend>>
    /\ Leave
    /\ UNCHANGED <<gen, epoch, closed, afterEnd, readiness, hand, queue, players,
                   pool, factory, lifetime, cmds>>

\* onPrepared and onActualStart.
PreparedEvent ==
    /\ At("prepared")
    /\ phase' = IF Current(Head(queue)) /\ phase = "PREPARING" THEN "PREPARED"
                ELSE phase
    /\ queue' = Tail(queue)
    /\ UNCHANGED <<gen, epoch, backend, closed, afterEnd, readiness, hand, work,
                   players, pool, factory, lifetime, cmds>>
PlayingEvent ==
    /\ At("playing")
    /\ phase' = IF Current(Head(queue)) /\ phase \in {"STARTING", "RESUMING"}
                THEN "PLAYING" ELSE phase
    /\ queue' = Tail(queue)
    /\ UNCHANGED <<gen, epoch, backend, closed, afterEnd, readiness, hand, work,
                   players, pool, factory, lifetime, cmds>>

\* onNaturalEnd, first section: silence, and the player is released.
EndedEvent(fails) ==
    /\ At("ended") /\ UNCHANGED factory
    /\ LET t == Head(queue)
           paused == phase # "PLAYING"
       IN IF Current(t) /\ phase \in {"PLAYING", "PAUSED", "PAUSING"}
          THEN /\ afterEnd' = paused
               /\ phase' = IF paused THEN "PAUSED" ELSE "SILENT"
               /\ epoch' = epoch + 1
               /\ Release(backend, Tail(queue), fails)
               /\ work' = Inside("cleanup", t, backend, TRUE)
          ELSE Skip /\ UNCHANGED afterEnd
    /\ UNCHANGED <<gen, backend, closed, readiness, hand, pool, lifetime, cmds>>
ErrorEvent(fails) ==
    /\ At("error") /\ UNCHANGED factory
    /\ Fail(Head(queue), Tail(queue), fails)
    /\ UNCHANGED <<gen, backend, closed, afterEnd, readiness, hand, pool,
                   lifetime, cmds>>
\* onNaturalEnd and publishError, second section: the release succeeded.
SettleCleanup ==
    /\ work.k = "cleanup"
    /\ backend' = IF backend = work.b THEN 0 ELSE backend
    /\ Leave
    /\ UNCHANGED <<phase, gen, epoch, closed, afterEnd, readiness, hand, queue,
                   players, pool, factory, lifetime, cmds>>

\* publishTrackPending and publishTrackReadiness.
ReadinessEvent ==
    /\ \E k \in Reports : At(k)
    /\ readiness' = IF closed THEN readiness ELSE Head(queue).k
    /\ queue' = Tail(queue)
    /\ UNCHANGED <<phase, gen, epoch, backend, closed, afterEnd, hand, work,
                   players, pool, factory, lifetime, cmds>>

\* Mutant: players that are still preparing are forgotten.
ClosePooledOnly ==
    /\ At("close")
    /\ factory' = [factory EXCEPT !.closed = TRUE]
    /\ players' = [n \in Ids |->
          IF n = backend \/ players[n].st \in {"pooled"}
          THEN [players[n] EXCEPT !.st = "released"] ELSE players[n]]
    /\ pool' = 0
    /\ lifetime' = IF StopThrows(backend) THEN "retained" ELSE "released"
    /\ backend' = IF StopThrows(backend) THEN backend ELSE 0
    /\ queue' = Tail(queue)
    /\ UNCHANGED <<phase, gen, epoch, closed, afterEnd, readiness, hand, work,
                   cmds>>
\* The last task: the preloads and the player are released, and the lifetime
\* slot is given back when that was confirmed.
CloseEvent ==
    /\ At("close")
    /\ factory' = [factory EXCEPT !.closed = TRUE]
    /\ players' = [n \in Ids |->
          IF n = backend \/ players[n].st \in {"preparing", "pooled"}
          THEN [players[n] EXCEPT !.st = "released"] ELSE players[n]]
    /\ pool' = 0
    /\ lifetime' = IF StopThrows(backend) THEN "retained" ELSE "released"
    /\ backend' = IF StopThrows(backend) THEN backend ELSE 0
    /\ queue' = Tail(queue)
    /\ UNCHANGED <<phase, gen, epoch, closed, afterEnd, readiness, hand, work,
                   cmds>>

Owner ==
    \/ \E throws, fails \in BOOLEAN :
          \/ ApplyStart(throws, fails)
          \/ ApplyPause(throws, fails)
          \/ ApplyResume(throws, fails)
    \/ \E fails \in BOOLEAN :
          \/ ApplyPrepare(fails)
          \/ ReleaseStale(fails)
          \/ ApplyStop(fails)
          \/ EndedEvent(fails)
          \/ ErrorEvent(fails)
    \/ ReportStart \/ SettlePause \/ SettleStop \/ SettleCleanup
    \/ PreparedEvent \/ PlayingEvent \/ ReadinessEvent \/ CloseEvent

-----------------------------------------------------------------------------
(* The platform's callbacks, on the main thread *)

\* The preloaded player is ready or fails.
Preloaded(b, ok) ==
    /\ players[b].st = "preparing"
    /\ players' = [players EXCEPT ![b].st = IF ok THEN "pooled" ELSE "released"]
    /\ pool' = IF ok THEN b ELSE pool
    /\ queue' = Queued(queue, Task(IF ok THEN "ready" ELSE "failed", 0, 0))
    /\ UNCHANGED <<stateVars, hand, work, factory, lifetime, cmds>>
\* The track ends or the player breaks.
Finish(b, k) ==
    /\ players[b].st = "started" \/ (k = "error" /\ players[b].st = "paused")
    /\ players' = [players EXCEPT ![b].st =
                      IF k = "ended" THEN "completed" ELSE "errored"]
    /\ queue' = Queued(queue, Task(k, players[b].gen, players[b].epoch))
    /\ UNCHANGED <<stateVars, hand, work, pool, factory, lifetime, cmds>>

Next ==
    \/ \E c \in Callers, k \in Commands : Decide(c, k)
    \/ \E c \in Callers : Enqueue(c)
    \/ Close
    \/ Owner
    \/ \E b \in Ids, ok \in BOOLEAN : Preloaded(b, ok)
    \/ \E b \in Ids, k \in {"ended", "error"} : Finish(b, k)

Spec == Init /\ [][Next]_vars
\* The owner thread runs queued tasks, a caller inside submit returns, and
\* nothing is assumed of the callers' next command or of the players.
FairSpec ==
    /\ Spec /\ WF_vars(Owner)
    /\ \A c \in Callers : WF_vars(Enqueue(c))

-----------------------------------------------------------------------------
(* Properties *)

\* Every player that still holds the platform can be reached by the stop of
\* its session or by close: it is the runtime's backend, or in the hands of
\* the owner thread.  So two sessions never sound at once.
NoPlayerIsOrphaned ==
    /\ Live \subseteq {backend, work.b}
    /\ Cardinality(Live) <= 1

\* The phase tells the truth about the player of the current session, whatever
\* callbacks of older sessions are still queued and in whatever order callers
\* reached the queue: prepared and paused sessions are quiet, a playing one
\* has a started player, and a silent one has let its player go.  While it says
\* IDLE or STOPPED no session holds a player, except one a late prepare has just
\* taken and the owner thread is about to release, and no cleanup is owed.
PhaseMatchesPlayer ==
    LET st == IF backend = 0 THEN "none" ELSE players[backend].st
    IN /\ phase \in {"IDLE", "STOPPED"} => Live \subseteq {work.b} /\ backend = 0
       /\ ~closed =>
             /\ backend # 0 /\ phase \in {"PREPARED", "PLAYING", "PAUSED"} =>
                   players[backend].gen = gen
             /\ phase = "PREPARED" => st = "held"
             /\ phase = "PLAYING" => st \in {"started", "completed", "errored"}
             /\ phase = "PAUSED" /\ ~afterEnd => st \in {"paused", "completed", "errored"}
             /\ phase = "SILENT" => st \in {"none", "released"}

\* The app-lifetime slot is given back only when every player is released, the
\* preloaded ones and those still preparing included, so a new runtime never
\* overlaps an old player; and nothing prepares afterwards.
LifetimeIsClean ==
    lifetime = "released" =>
        \A b \in Ids : players[b].st \in {"none", "released"}

\* Every pending phase ends: a caller that was told a command is pending sees
\* it applied, failed, overtaken or the runtime closed; and closing ends the owner
\* thread with the lifetime slot decided.
PendingEnds ==
    /\ \A p \in Pending : (phase = p) ~> (phase # p \/ closed)
    /\ closed ~> (lifetime # "installed")
=============================================================================
