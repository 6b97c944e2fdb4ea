--------------------------- MODULE OwnerDispatch ---------------------------
(***************************************************************************)
(* The peer that executes platform owner tickets for another peer          *)
(* (rusty-quest-media-stream-android, owner_dispatch.rs).  A request is     *)
(* reserved durably before the platform is entered and its signed result   *)
(* is committed before it is returned, so that a retry, a lost answer or a *)
(* restart never executes it twice.  Two servers follow the scheme and     *)
(* differ in what a retry of an unfinished request does: the dispatch      *)
(* server answers that the effect is uncertain and keeps the reservation,  *)
(* the activation server makes the uncertainty its final answer.           *)
(*                                                                         *)
(* A commit replaces one file (EmbeddedDuplexPlatform.persistReplay).  It  *)
(* can fail before the replacement or after it, when only the directory    *)
(* sync fails: the caller sees the same error in both cases.               *)
(***************************************************************************)
EXTENDS Integers, FiniteSets, Sequences

CONSTANTS Servers,      \* of {"dispatch", "activation"}: the servers to model
          MaxSeq,       \* ids 1..MaxSeq a sender gives out
          MaxSender,    \* incarnations of the sending process
          MaxCrashes,   \* crashes of the executing process
          MaxPending,   \* MAX_OWNER_DISPATCH_PENDING
          MaxTerminal,  \* MAX_OWNER_DISPATCH_REPLAYS
          Resends       \* whether the sender may send the same frame again

\* What is assumed of the constants.
OwnerDispatchAssumption ==
    /\ Servers \subseteq {"dispatch", "activation"}
    /\ {MaxSeq, MaxSender, MaxPending, MaxTerminal} \subseteq Nat \ {0}
    /\ MaxCrashes \in Nat
    /\ Resends \in BOOLEAN

VARIABLES server,   \* which of the two servers this behaviour is about
          up,       \* the executing process has restored its replay state
          mem,      \* the replay state in memory
          file,     \* the replay state in its file
          call,     \* the request the checked-out server works on
          frames,   \* frames accepted by the endpoint and not yet handled
          sender,   \* the sending process: its incarnation, next id and wait
          effects,  \* for each id, the bodies the platform executed
          replies,  \* every answer the server returned
          crashes

dispatchVars == <<server, up, mem, file, call, frames, sender, effects, replies, crashes>>

Ids == 1..MaxSeq
\* A request: its dispatch or activation id, and a body that stands for the
\* digest of the frame.  A restarted sender signs other bytes under an old id.
Requests == [id : Ids, body : 1..MaxSender]
NoRequest == [id |-> 0, body |-> 0]
Statuses == {"completed", "uncertain"}
Stored == [body : 1..MaxSender, status : Statuses]
EmptyReplay == [pending |-> << >>, terminal |-> << >>]
NoCall == [req |-> NoRequest, result |-> "none"]
Writes == {"done", "not_written", "written"}

PendingIds(t) == DOMAIN t.pending
Terminal(t) == DOMAIN t.terminal
\* The functions of a replay state, extended at one id and without one id.
With(f, id, v) == [i \in DOMAIN f \union {id} |-> IF i = id THEN v ELSE f[i]]
Without(f, id) == [i \in DOMAIN f \ {id} |-> f[i]]

Reserved(t, r) == [t EXCEPT !.pending = With(@, r.id, r.body)]
Finished(t, r, outcome) ==
    [pending |-> Without(t.pending, r.id),
     terminal |-> With(t.terminal, r.id, [body |-> r.body, status |-> outcome])]
\* OwnerDispatchServer::restore and ProductActivationServer::restore.
Valid(t) ==
    /\ Cardinality(PendingIds(t)) <= MaxPending
    /\ Cardinality(Terminal(t)) <= MaxTerminal
    /\ PendingIds(t) \cap Terminal(t) = {}

DispatchTypeOK ==
    /\ server \in Servers
    /\ up \in BOOLEAN
    /\ \A t \in {mem, file} :
          /\ PendingIds(t) \subseteq Ids /\ Terminal(t) \subseteq Ids
          /\ \A i \in PendingIds(t) : t.pending[i] \in 1..MaxSender
          /\ \A i \in Terminal(t) : t.terminal[i] \in Stored
    /\ call \in [req : Requests \union {NoRequest},
                 result : {"none"} \union Statuses]
    /\ frames \subseteq Requests
    /\ sender \in [body : 1..MaxSender, next : 1..(MaxSeq + 1),
                   last : Requests \union {NoRequest}, waiting : BOOLEAN]
    /\ effects \in [Ids -> Seq(1..MaxSender)]
    /\ replies \subseteq [req : Requests, status : Statuses]
    /\ crashes \in 0..MaxCrashes

DispatchInit ==
    /\ server \in Servers
    /\ up = TRUE
    /\ mem = EmptyReplay /\ file = EmptyReplay
    /\ call = NoCall
    /\ frames = {}
    /\ sender = [body |-> 1, next |-> 1, last |-> NoRequest, waiting |-> FALSE]
    /\ effects = [i \in Ids |-> << >>]
    /\ replies = {}
    /\ crashes = 0

-----------------------------------------------------------------------------
(* The sender.  prepare_request numbers a new attempt; execute_prepared    *)
(* waits for one answer, and a failed exchange says nothing about what the *)
(* other side does with the frame.                                         *)

serverVars == <<server, up, mem, file, call, effects, replies, crashes>>

Send ==
    /\ ~sender.waiting /\ sender.next <= MaxSeq
    /\ LET r == [id |-> sender.next, body |-> sender.body]
       IN /\ sender' = [sender EXCEPT !.next = @ + 1, !.last = r,
                                      !.waiting = TRUE]
          /\ frames' = frames \union {r}
    /\ UNCHANGED serverVars
\* The same signed frame again: the sender kept it until it has an answer.
Resend ==
    /\ Resends /\ ~sender.waiting /\ sender.last # NoRequest
    /\ sender' = [sender EXCEPT !.waiting = TRUE]
    /\ frames' = frames \union {sender.last}
    /\ UNCHANGED serverVars
GiveUp ==
    /\ sender.waiting
    /\ sender' = [sender EXCEPT !.waiting = FALSE]
    /\ UNCHANGED <<serverVars, frames>>
\* RemoteOwnerDispatchExecutor::new starts numbering at one again.
SenderRestart ==
    /\ sender.body < MaxSender
    /\ sender' = [body |-> sender.body + 1, next |-> 1, last |-> NoRequest,
                  waiting |-> FALSE]
    /\ UNCHANGED <<serverVars, frames>>

\* The answer reaches a sender that still waits for this very request.
Return(r, outcome) ==
    /\ replies' = replies \union {[req |-> r, status |-> outcome]}
    /\ sender' = [sender EXCEPT !.waiting = @ /\ sender.last # r]

-----------------------------------------------------------------------------
(* The server.  Checkout gives it to one worker at a time: a frame that    *)
(* finds it checked out is refused.                                        *)

Idle == up /\ call = NoCall
Take(r) == r \in frames /\ frames' = frames \ {r}
SameBody(t, r) ==
    /\ r.id \in PendingIds(t) => t.pending[r.id] = r.body
    /\ r.id \in Terminal(t) => t.terminal[r.id].body = r.body

\* A finished request is answered from the stored response.
Repeat(r) ==
    /\ Idle /\ Take(r)
    /\ r.id \in Terminal(mem) /\ SameBody(mem, r)
    /\ Return(r, mem.terminal[r.id].status)
    /\ UNCHANGED <<server, up, mem, file, call, effects, crashes>>

\* The dispatch server answers a retry of a reserved request and keeps the
\* reservation: only a compensation may follow.
Uncertain(r) ==
    /\ server = "dispatch" /\ Idle /\ Take(r)
    /\ r.id \in PendingIds(mem) /\ SameBody(mem, r)
    /\ Return(r, "uncertain")
    /\ UNCHANGED <<server, up, mem, file, call, effects, crashes>>

\* terminalize_pending: the activation server makes the uncertainty final.
\* It looks at the size of the file and not at the number of responses.
TerminalizePending(r, w) ==
    /\ server = "activation" /\ Idle /\ Take(r)
    /\ r.id \in PendingIds(mem) /\ SameBody(mem, r)
    /\ LET next == Finished(mem, r, "uncertain")
       IN /\ file' = IF w = "not_written" THEN file ELSE next
          /\ mem' = IF w = "done" THEN next ELSE mem
    /\ IF w = "done"
       THEN Return(r, "uncertain")
       ELSE UNCHANGED <<replies, sender>>
    /\ UNCHANGED <<server, up, call, effects, crashes>>

Fits ==
    /\ Cardinality(PendingIds(mem)) < MaxPending
    /\ Cardinality(Terminal(mem)) < MaxTerminal

\* A new request that passed every check is reserved before the platform is
\* entered.  After a failed commit the reservation is taken back in memory.
Reserve(r, w) ==
    /\ Idle /\ Take(r)
    /\ r.id \notin PendingIds(mem) \union Terminal(mem) /\ Fits
    /\ LET next == Reserved(mem, r)
       IN /\ file' = IF w = "not_written" THEN file ELSE next
          /\ mem' = IF w = "done" THEN next ELSE mem
    /\ call' = IF w = "done" THEN [req |-> r, result |-> "none"] ELSE call
    /\ UNCHANGED <<server, up, sender, effects, replies, crashes>>

\* A frame that is lost, late, not current, not admitted, in conflict with a
\* stored id, over the limits or that meets a checked-out server.
RefuseTicket(r) ==
    /\ Take(r)
    /\ UNCHANGED <<server, up, mem, file, call, sender, effects,
                   replies, crashes>>

\* The platform call.  Invalid evidence or an exception makes the result
\* uncertain, whether or not the effect took place.
Execute(result, happened) ==
    /\ up /\ call # NoCall /\ call.result = "none"
    /\ result = "completed" => happened
    /\ call' = [call EXCEPT !.result = result]
    /\ effects' = IF happened
                  THEN [effects EXCEPT ![call.req.id] = Append(@, call.req.body)]
                  ELSE effects
    /\ UNCHANGED <<server, up, mem, file, frames, sender, replies, crashes>>

\* The signed result is committed, then returned.  After a failed commit the
\* request stays reserved in memory, whatever the file holds by now.
Finish(w) ==
    /\ up /\ call.result # "none"
    /\ LET next == Finished(mem, call.req, call.result)
       IN /\ file' = IF w = "not_written" THEN file ELSE next
          /\ mem' = IF w = "done" THEN next ELSE mem
    /\ IF w = "done"
       THEN Return(call.req, call.result)
       ELSE UNCHANGED <<replies, sender>>
    /\ call' = NoCall
    /\ UNCHANGED <<server, up, frames, effects, crashes>>

\* The executing process dies and starts again from the file.  Its
\* connections die with it.
PeerCrash ==
    /\ crashes < MaxCrashes
    /\ crashes' = crashes + 1
    /\ mem' = file /\ up' = Valid(file)
    /\ call' = NoCall /\ frames' = {}
    /\ UNCHANGED <<server, file, sender, effects, replies>>

DispatchNext ==
    \/ Send \/ Resend \/ GiveUp \/ SenderRestart \/ PeerCrash
    \/ \E r \in Requests :
          \/ Repeat(r) \/ Uncertain(r) \/ RefuseTicket(r)
          \/ \E w \in Writes : Reserve(r, w) \/ TerminalizePending(r, w)
    \/ \E result \in Statuses, happened \in BOOLEAN : Execute(result, happened)
    \/ \E w \in Writes : Finish(w)

DispatchSpec == DispatchInit /\ [][DispatchNext]_dispatchVars

-----------------------------------------------------------------------------
(* Properties *)

\* The platform executes an id at most once, whatever is retried, whichever
\* commit fails and wherever the process dies.
EffectOnce == \A i \in Ids : Len(effects[i]) <= 1

\* An answer "completed" is about this very request: the platform executed
\* its body, and the file answers every later retry, after any crash, alike.
CompletedIsKept ==
    \A a \in replies : a.status = "completed" =>
        /\ effects[a.req.id] = <<a.req.body>>
        /\ a.req.id \in Terminal(file)
        /\ file.terminal[a.req.id] =
              [body |-> a.req.body, status |-> "completed"]

\* The activation server never changes its mind: all its answers to one
\* request are the same.  (The dispatch server may say "uncertain" and, when
\* a failed commit had reached the file, "completed" after a restart.)
ActivationAgrees ==
    server = "activation" =>
        \A a, b \in replies : a.req = b.req => a.status = b.status

\* What the dispatch server writes can always be restored.
Restorable == server = "dispatch" => Valid(file)
=============================================================================
