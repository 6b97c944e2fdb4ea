------------------------ MODULE BreathCompositionProofs ------------------------
(***************************************************************************)
(* Proofs about the breath composition, for any selections, any capacity   *)
(* of the queue and any number of generations, tunings and XR sessions.    *)
(*                                                                         *)
(* An adapter learns what the authority decided from its queue alone, and  *)
(* configures itself for the selection it finds when it gets there.  So    *)
(* the invariant speaks of the queue: the actions still in it lead the     *)
(* adapter from where it is to where the authority says it is.             *)
(***************************************************************************)
EXTENDS BreathComposition, TLAPS

\* The prover of every leaf that does not name another one.
USE ZenonT(30)

-----------------------------------------------------------------------------
\* What the parts of the composition range over.
Latests == [lifecycle : {"Active", "Failed"}, generation : BreathGenerations]
           \cup {NoCalibration}
Outputs == [source : Sources, mapping : Mappings, generation : BreathGenerations]
           \cup {NoOutput}
Queues == [Sources -> Seq(Actions)]
Runtimes == [effective : Requests \cup {NoRequest}, status : Statuses,
             generation : BreathGenerations, next : 1..(MaxBreath + 1),
             output : Outputs, pending : Queues, latest : Latests]
AdapterStates == [lifecycle : Lifecycles, generation : BreathGenerations,
                  highest : BreathGenerations, inverted : BOOLEAN,
                  phase : Parameters \cup {"none"}, phaseInverted : BOOLEAN]
Places == {"gone", "take", "apply", "report", "observe", "answer", "submit", "poll"}
Frames == [at : Places, hand : Actions, calibration : Latests,
           generation : BreathGenerations]
TuningStates == [session : 1..MaxSession, generation : 0..MaxTuning,
                 requested : Tunings \cup {NoTuning}, effective : Tunings \cup {NoTuning},
                 pending : Tunings \cup {NoTuning}]
Arms == [at : {"idle", "waiting", "armed"}, selection : Requests \cup {NoRequest},
         generation : BreathGenerations, tuning : Tunings \cup {NoTuning}]

\* What the authority keeps true of itself: a generation is of a selection, is new
\* when it starts, and what is shown or read is of it.
Shape(r) ==
    /\ r.generation < r.next
    /\ r.status = "Running" => r.generation # 0
    /\ r.status \in {"Configured", "Cancelled"} => r.generation = 0
    /\ r.effective = NoRequest <=> r.status \in {"Disabled", "RejectedUnavailable"}
    /\ r.effective = NoRequest => r.generation = 0
    /\ r.output # NoOutput =>
          /\ r.output.source = r.effective.source
          /\ r.output.mapping = r.effective.mapping
          /\ r.output.generation = r.generation /\ r.generation # 0
LatestFits(c, g) == c # NoCalibration => g # 0 /\ c.generation = g
Sound(r) ==
    /\ r \in Runtimes /\ Shape(r) /\ LatestFits(r.latest, r.generation)
    /\ Total(r.pending) <= QueueCapacity

\* The rest of the state is of its type, and a waiting worker waits for a generation
\* of the Polar source.
StateOK ==
    /\ tuning \in TuningStates /\ boundary \in Tunings \cup {NoTuning}
    /\ adapters \in [Sources -> AdapterStates]
    /\ frame \in Frames /\ arm \in Arms
    /\ arm.at = "waiting" => arm.generation # 0 /\ arm.selection.source = "Polar"

SoundInv == Sound(rt) /\ StateOK

-----------------------------------------------------------------------------
\* The parts of a runtime.

\* The constants are numbers, and 0 is the generation of nobody.
LEMMA Bounds ==
  /\ MaxBreath \in Nat /\ MaxBreath > 0 /\ MaxTuning \in Nat /\ MaxSession \in Nat
  /\ MaxSession > 0 /\ QueueCapacity \in Nat /\ QueueCapacity > 0
  /\ 0 \in BreathGenerations /\ BreathGenerations \subseteq Nat
  BY BreathAssumption, QueueAssumption, SMTT(30) DEF BreathGenerations

\* The fields of a runtime.
LEMMA RuntimeParts ==
  ASSUME NEW r \in Runtimes
  PROVE  /\ r.effective \in Requests \cup {NoRequest} /\ r.status \in Statuses
         /\ r.generation \in BreathGenerations /\ r.generation \in Nat
         /\ r.next \in 1..(MaxBreath + 1) /\ r.next \in Nat
         /\ r.output \in Outputs /\ r.pending \in Queues /\ r.latest \in Latests
         /\ r.pending["Controller"] \in Seq(Actions) /\ r.pending["Polar"] \in Seq(Actions)
  <1>1. /\ r.effective \in Requests \cup {NoRequest} /\ r.status \in Statuses
        /\ r.generation \in BreathGenerations
        /\ r.next \in 1..(MaxBreath + 1)
        /\ r.output \in Outputs /\ r.pending \in Queues /\ r.latest \in Latests
    BY DEF Runtimes
  <1>2. r.generation \in Nat /\ r.next \in Nat
    BY <1>1, Bounds, SMTT(30) DEF BreathGenerations
  <1>3. r.pending["Controller"] \in Seq(Actions) /\ r.pending["Polar"] \in Seq(Actions)
    BY <1>1 DEF Queues, Sources
  <1> QED BY <1>1, <1>2, <1>3

\* The constants are members of their sets.
LEMMA Nones ==
  /\ NoOutput \in Outputs /\ NoCalibration \in Latests
  /\ NoRequest \in Requests \cup {NoRequest} /\ NoRequest \notin Requests
  /\ NoRequest.source \notin Sources
  BY SMTT(30) DEF Outputs, Latests, NoRequest, Requests, Sources

\* hard_reset keeps everything but the generation and the output.
LEMMA ClearedParts ==
  ASSUME NEW r \in Runtimes
  PROVE  /\ Cleared(r) \in Runtimes
         /\ Cleared(r).effective = r.effective /\ Cleared(r).status = r.status
         /\ Cleared(r).generation = 0 /\ Cleared(r).next = r.next
         /\ Cleared(r).output = NoOutput /\ Cleared(r).pending = r.pending
         /\ Cleared(r).latest = r.latest
  <1>1. /\ Cleared(r).effective = r.effective /\ Cleared(r).status = r.status
        /\ Cleared(r).generation = 0 /\ Cleared(r).next = r.next
        /\ Cleared(r).output = NoOutput /\ Cleared(r).pending = r.pending
        /\ Cleared(r).latest = r.latest
    BY DEF Cleared, Runtimes
  <1>2. Cleared(r) \in Runtimes
    BY Nones, Bounds DEF Cleared, Runtimes
  <1> QED BY <1>1, <1>2

\* A change of the selection and the status.
Reselected(r, e, s) == [r EXCEPT !.effective = e, !.status = s]
\* A runtime whose selection and status are replaced.
LEMMA ReselectedParts ==
  ASSUME NEW r \in Runtimes, NEW e \in Requests \cup {NoRequest}, NEW s \in Statuses
  PROVE  /\ Reselected(r, e, s) \in Runtimes
         /\ Reselected(r, e, s).effective = e /\ Reselected(r, e, s).status = s
         /\ Reselected(r, e, s).generation = r.generation
         /\ Reselected(r, e, s).next = r.next /\ Reselected(r, e, s).output = r.output
         /\ Reselected(r, e, s).pending = r.pending
         /\ Reselected(r, e, s).latest = r.latest
  <1>1. Reselected(r, e, s) \in Runtimes
    BY DEF Reselected, Runtimes
  <1> QED BY <1>1 DEF Reselected, Runtimes

\* A change of the mapping alone.
Remapped(r, e) == [r EXCEPT !.effective = e, !.output = NoOutput]
\* A runtime whose mapping is replaced: the output goes, the generation stays.
LEMMA RemappedParts ==
  ASSUME NEW r \in Runtimes, NEW e \in Requests \cup {NoRequest}
  PROVE  /\ Remapped(r, e) \in Runtimes
         /\ Remapped(r, e).effective = e /\ Remapped(r, e).status = r.status
         /\ Remapped(r, e).generation = r.generation
         /\ Remapped(r, e).next = r.next /\ Remapped(r, e).output = NoOutput
         /\ Remapped(r, e).pending = r.pending /\ Remapped(r, e).latest = r.latest
  <1>1. Remapped(r, e) \in Runtimes
    BY Nones DEF Remapped, Runtimes
  <1> QED BY <1>1 DEF Remapped, Runtimes

\* hard_reset, then a new status.
Restated(r, s) == [Cleared(r) EXCEPT !.status = s]
\* A runtime after a hard reset with a new status: no generation and no output.
LEMMA RestatedParts ==
  ASSUME NEW r \in Runtimes, NEW s \in Statuses
  PROVE  /\ Restated(r, s) \in Runtimes
         /\ Restated(r, s).effective = r.effective /\ Restated(r, s).status = s
         /\ Restated(r, s).generation = 0 /\ Restated(r, s).next = r.next
         /\ Restated(r, s).output = NoOutput /\ Restated(r, s).pending = r.pending
         /\ Restated(r, s).latest = r.latest
  <1> DEFINE c == Cleared(r)
  <1>1. /\ c \in Runtimes /\ c.effective = r.effective
        /\ c.generation = 0 /\ c.next = r.next
        /\ c.output = NoOutput /\ c.pending = r.pending /\ c.latest = r.latest
    BY ClearedParts
  <1>2. Restated(r, s) = [c EXCEPT !.status = s]
    BY DEF Restated
  <1> HIDE DEF c
  <1>3. Restated(r, s) \in Runtimes
    BY <1>1, <1>2 DEF Runtimes
  <1>4. /\ [c EXCEPT !.status = s].effective = c.effective
        /\ [c EXCEPT !.status = s].status = s
        /\ [c EXCEPT !.status = s].generation = c.generation
        /\ [c EXCEPT !.status = s].next = c.next
        /\ [c EXCEPT !.status = s].output = c.output
        /\ [c EXCEPT !.status = s].pending = c.pending
        /\ [c EXCEPT !.status = s].latest = c.latest
    BY <1>1 DEF Runtimes
  <1> QED BY <1>1, <1>2, <1>3, <1>4

\* start takes the next generation.
LEMMA StartedParts ==
  ASSUME NEW r \in Runtimes, r.next <= MaxBreath
  PROVE  /\ Started(r) \in Runtimes
         /\ Started(r).effective = r.effective /\ Started(r).status = "Running"
         /\ Started(r).generation = r.next /\ Started(r).next = r.next + 1
         /\ Started(r).output = NoOutput /\ Started(r).pending = r.pending
         /\ Started(r).latest = r.latest
  <1>1. r.next \in BreathGenerations /\ r.next + 1 \in 1..(MaxBreath + 1)
    BY RuntimeParts, Bounds, SMTT(30) DEF BreathGenerations
  <1>2. "Running" \in Statuses
    BY DEF Statuses
  <1>3. Started(r) \in Runtimes
    BY <1>1, <1>2, Nones DEF Started, Runtimes
  <1>4. /\ Started(r).effective = r.effective /\ Started(r).status = "Running"
        /\ Started(r).generation = r.next /\ Started(r).next = r.next + 1
        /\ Started(r).output = NoOutput /\ Started(r).pending = r.pending
        /\ Started(r).latest = r.latest
    BY DEF Started, Runtimes
  <1> QED BY <1>3, <1>4

\* Actions are added at the end of their source's queue.
LEMMA ExtendedParts ==
  ASSUME NEW p \in Queues, NEW q \in Queues
  PROVE  /\ Extended(p, q) \in Queues
         /\ \A s \in Sources : Extended(p, q)[s] = p[s] \o q[s]
         /\ Total(p) \in Nat /\ Total(q) \in Nat
         /\ Total(Extended(p, q)) = Total(p) + Total(q)
  <1>1. \A s \in Sources : Extended(p, q)[s] = p[s] \o q[s]
    BY DEF Extended
  <1>2. \A s \in Sources : p[s] \in Seq(Actions) /\ q[s] \in Seq(Actions)
    BY DEF Queues
  <1>3. ASSUME NEW x \in Seq(Actions), NEW y \in Seq(Actions)
        PROVE  x \o y \in Seq(Actions) /\ Len(x \o y) = Len(x) + Len(y)
               /\ Len(x) \in Nat /\ Len(y) \in Nat
    BY SMTT(30)
  <1>4. Extended(p, q) \in Queues
    BY <1>2, <1>3 DEF Extended, Queues
  <1>5. "Controller" \in Sources /\ "Polar" \in Sources
    BY DEF Sources
  <1> DEFINE a == Len(p["Controller"])
             b == Len(p["Polar"])
             c == Len(q["Controller"])
             d == Len(q["Polar"])
  <1>6. /\ a \in Nat /\ b \in Nat /\ c \in Nat /\ d \in Nat
        /\ Len(Extended(p, q)["Controller"]) = a + c
        /\ Len(Extended(p, q)["Polar"]) = b + d
    BY <1>1, <1>2, <1>3, <1>5
  <1>7. /\ Total(p) = a + b /\ Total(q) = c + d
        /\ Total(Extended(p, q)) = (a + c) + (b + d)
    BY <1>6 DEF Total
  <1> HIDE DEF a, b, c, d
  <1>8. /\ Total(p) \in Nat /\ Total(q) \in Nat
        /\ Total(Extended(p, q)) = Total(p) + Total(q)
    BY <1>6, <1>7, SMTT(30)
  <1> QED BY <1>1, <1>4, <1>8

\* commit_transition, when the actions fit.
LEMMA CommitParts ==
  ASSUME NEW r \in Runtimes, NEW c \in Runtimes, NEW acts \in Queues,
         NEW clear \in BOOLEAN, Fits(r, acts)
  PROVE  /\ Commit(r, c, acts, clear) \in Runtimes
         /\ Commit(r, c, acts, clear).effective = c.effective
         /\ Commit(r, c, acts, clear).status = c.status
         /\ Commit(r, c, acts, clear).generation = c.generation
         /\ Commit(r, c, acts, clear).next = c.next
         /\ Commit(r, c, acts, clear).output = c.output
         /\ Commit(r, c, acts, clear).pending = Extended(r.pending, acts)
         /\ Commit(r, c, acts, clear).latest = IF clear THEN NoCalibration ELSE r.latest
  <1> DEFINE p == Extended(r.pending, acts)
             l == IF clear THEN NoCalibration ELSE r.latest
             n == [c EXCEPT !.pending = p, !.latest = l]
  <1>1. Commit(r, c, acts, clear) = n
    BY DEF Commit
  <1>2. p \in Queues /\ l \in Latests
    BY ExtendedParts, RuntimeParts, Nones
  <1> HIDE DEF p, l
  <1>3. n \in Runtimes
    BY <1>2 DEF Runtimes
  <1>4. /\ n.effective = c.effective /\ n.status = c.status /\ n.generation = c.generation
        /\ n.next = c.next /\ n.output = c.output /\ n.pending = p /\ n.latest = l
    BY DEF Runtimes
  <1> HIDE DEF n
  <1> QED BY <1>1, <1>3, <1>4 DEF p, l

\* A transition whose candidate is coherent keeps the runtime sound, whether or not
\* its actions fit.
LEMMA CommitSound ==
  ASSUME NEW r, Sound(r), NEW c, NEW acts \in Queues, NEW clear \in BOOLEAN,
         Fits(r, acts) => c \in Runtimes /\ Shape(c),
         Fits(r, acts) => \/ clear \/ r.latest = NoCalibration
                          \/ c.generation = r.generation
  PROVE  Sound(Commit(r, c, acts, clear))
  <1> DEFINE n == Commit(r, c, acts, clear)
  <1>1. CASE ~Fits(r, acts)
    BY <1>1 DEF Commit
  <1>2. CASE Fits(r, acts)
    <2>0. r \in Runtimes /\ c \in Runtimes /\ Shape(c) /\ LatestFits(r.latest, r.generation)
      BY <1>2 DEF Sound
    <2>1. /\ n \in Runtimes /\ n.effective = c.effective
          /\ n.status = c.status /\ n.generation = c.generation
          /\ n.next = c.next /\ n.output = c.output
          /\ n.pending = Extended(r.pending, acts)
          /\ n.latest = IF clear THEN NoCalibration ELSE r.latest
      BY <1>2, <2>0, CommitParts
    <2>2. Total(n.pending) = Total(r.pending) + Total(acts)
      BY <2>0, <2>1, ExtendedParts, RuntimeParts
    <2>3. Total(n.pending) <= QueueCapacity
      BY <1>2, <2>2 DEF Fits
    <2> HIDE DEF n
    <2>4. Shape(n)
      BY <2>0, <2>1 DEF Shape
    <2>5. LatestFits(n.latest, n.generation)
      BY <2>0, <2>1, <1>2 DEF LatestFits
    <2> QED BY <2>1, <2>3, <2>4, <2>5 DEF Sound, n
  <1> QED BY <1>1, <1>2

-----------------------------------------------------------------------------
\* The commands keep the runtime sound.

\* The queues that hold nothing, or the actions of one source.
LEMMA QueueParts ==
  /\ Nothing \in Queues
  /\ \A s \in Sources : Nothing[s] = <<>>
  /\ \A s \in Sources, q \in Seq(Actions) :
        /\ For(s, q) \in Queues /\ For(s, q)[s] = q
        /\ \A t \in Sources : t # s => For(s, q)[t] = <<>>
  <1>0. <<>> \in Seq(Actions) /\ "none" \notin Sources
    BY SMTT(30) DEF Sources
  <1> QED BY <1>0 DEF Nothing, For, Queues

\* What a queued action says.
LEMMA ActionParts ==
  /\ Act("Configure", 0) \in Actions /\ Act("Reset", 0) \in Actions
  /\ \A g \in BreathGenerations : Act("Start", g) \in Actions /\ Act("Cancel", g) \in Actions
  /\ \A k, g : Act(k, g).kind = k /\ Act(k, g).generation = g
  BY Bounds DEF Act, Actions

\* The only selections for which the generation survives are those of the same
\* source and direction.
Reassessed(r, n, request) ==
    /\ n.generation # 0 => n.generation = r.generation
    /\ n.generation # 0 \/ n.status \in {"Configured", "Cancelled"} =>
          /\ SameAssessment(r.effective, request) /\ n.effective = request
          /\ request # NoRequest /\ Supported(request)
          /\ n.generation = r.generation
          /\ n.generation = 0 => n.status = r.status

\* select keeps the authority coherent; a selection that resets nothing keeps the
\* generation.
LEMMA SelectedParts ==
  ASSUME NEW r \in Runtimes, Shape(r), NEW request \in Requests \cup {NoRequest}
  PROVE  /\ Selected(r, request) \in Runtimes /\ Shape(Selected(r, request))
         /\ Selected(r, request).next = r.next
         /\ Reassessed(r, Selected(r, request), request)
         /\ request # NoRequest /\ ~HardResets(r, request) =>
               r.generation = 0 \/ Selected(r, request).generation = r.generation
  <1> DEFINE n == Selected(r, request)
  <1>1. CASE ~Supported(request)
    <2> DEFINE s == IF request = NoRequest THEN "Disabled" ELSE "RejectedUnavailable"
    <2>1. /\ Cleared(r) \in Runtimes /\ Cleared(r).generation = 0
          /\ Cleared(r).next = r.next /\ Cleared(r).output = NoOutput
      BY ClearedParts
    <2>2. s \in Statuses /\ s \in {"Disabled", "RejectedUnavailable"}
      BY DEF Statuses
    <2>3. n = Reselected(Cleared(r), NoRequest, s)
      BY <1>1 DEF Selected, Reselected
    <2> DEFINE c == Cleared(r)
    <2> HIDE DEF s, n, c
    <2>4. /\ n \in Runtimes /\ n.effective = NoRequest /\ n.status = s
          /\ n.generation = 0 /\ n.next = r.next /\ n.output = NoOutput
      <3>1. /\ c \in Runtimes /\ c.generation = 0 /\ c.next = r.next
            /\ c.output = NoOutput /\ n = Reselected(c, NoRequest, s)
        BY <2>1, <2>3 DEF c
      <3>2. /\ n \in Runtimes /\ n.effective = NoRequest /\ n.status = s
            /\ n.generation = c.generation /\ n.next = c.next /\ n.output = c.output
        BY <3>1, <2>2, ReselectedParts, Nones
      <3> QED BY <3>1, <3>2
    <2>5. 0 < r.next /\ n.next \in Nat
      BY <2>4, RuntimeParts, SMTT(30)
    <2>6. Shape(n)
      BY <2>2, <2>4, <2>5 DEF Shape
    <2>7. Reassessed(r, n, request)
      BY <2>2, <2>4 DEF Reassessed
    <2>8. ~(request # NoRequest /\ ~HardResets(r, request))
      BY <1>1 DEF HardResets
    <2> QED BY <2>4, <2>6, <2>7, <2>8 DEF n
  <1>2. CASE /\ Supported(request)
             /\ SameAssessment(r.effective, request) /\ r.effective.mapping # request.mapping
    <2>0. request # NoRequest /\ request \in Requests
      BY <1>2 DEF Supported
    <2>1. n = Remapped(r, request)
      BY <1>2 DEF Selected, Remapped
    <2> HIDE DEF n
    <2>2. /\ n \in Runtimes /\ n.effective = request /\ n.status = r.status
          /\ n.generation = r.generation /\ n.next = r.next /\ n.output = NoOutput
      BY <2>1, RemappedParts
    <2>3. r.effective # NoRequest
      <3>1. request.source \in Sources
        BY <2>0 DEF Requests
      <3> QED BY <3>1, <1>2, Nones DEF SameAssessment
    <2>4. Shape(n)
      BY <2>0, <2>2, <2>3 DEF Shape
    <2>5. Reassessed(r, n, request)
      BY <2>0, <2>2, <1>2 DEF Reassessed
    <2> QED BY <2>2, <2>4, <2>5 DEF n
  <1>3. CASE /\ Supported(request) /\ r.effective = request
             /\ ~(SameAssessment(r.effective, request)
                  /\ r.effective.mapping # request.mapping)
    <2>0. request # NoRequest /\ "Selected" \in Statuses
      BY <1>3 DEF Supported, Statuses
    <2>1. n = Reselected(r, request, "Selected")
      BY <1>3 DEF Selected, Reselected
    <2> HIDE DEF n
    <2>2. /\ n \in Runtimes /\ n.effective = request /\ n.status = "Selected"
          /\ n.generation = r.generation /\ n.next = r.next /\ n.output = r.output
      BY <2>0, <2>1, ReselectedParts
    <2>4. Shape(n)
      BY <2>0, <2>2, <1>3 DEF Shape
    <2>5. Reassessed(r, n, request)
      BY <2>0, <2>2, <1>3 DEF Reassessed, SameAssessment
    <2> QED BY <2>2, <2>4, <2>5 DEF n
  <1>4. CASE /\ Supported(request) /\ r.effective # request
             /\ ~(SameAssessment(r.effective, request)
                  /\ r.effective.mapping # request.mapping)
    <2>0. request # NoRequest /\ request \in Requests /\ "Selected" \in Statuses
      BY <1>4 DEF Supported, Statuses
    <2>1. n = Reselected(Cleared(r), request, "Selected")
      BY <1>4 DEF Selected, Reselected
    <2>2. /\ Cleared(r) \in Runtimes /\ Cleared(r).generation = 0
          /\ Cleared(r).next = r.next /\ Cleared(r).output = NoOutput
      BY ClearedParts
    <2> DEFINE c == Cleared(r)
    <2> HIDE DEF n, c
    <2>3. /\ n \in Runtimes /\ n.effective = request /\ n.status = "Selected"
          /\ n.generation = 0 /\ n.next = r.next /\ n.output = NoOutput
      <3>1. /\ c \in Runtimes /\ c.generation = 0 /\ c.next = r.next
            /\ c.output = NoOutput /\ n = Reselected(c, request, "Selected")
        BY <2>1, <2>2 DEF c
      <3>2. /\ n \in Runtimes /\ n.effective = request /\ n.status = "Selected"
            /\ n.generation = c.generation /\ n.next = c.next /\ n.output = c.output
        BY <3>1, <2>0, ReselectedParts
      <3> QED BY <3>1, <3>2
    <2>4. 0 < n.next
      BY <2>3, RuntimeParts, SMTT(30)
    <2>5. Shape(n)
      BY <2>0, <2>3, <2>4 DEF Shape
    <2>6. Reassessed(r, n, request)
      BY <2>3 DEF Reassessed
    <2>7. ~HardResets(r, request) => r.generation = 0
      <3>1. r.effective # NoRequest => ~SameAssessment(r.effective, request)
        <4> SUFFICES ASSUME r.effective # NoRequest, SameAssessment(r.effective, request)
                     PROVE  FALSE
          OBVIOUS
        <4>1. r.effective \in Requests /\ r.effective.mapping = request.mapping
          BY <1>4, RuntimeParts
        <4>2. r.effective = request
          BY <4>1, <2>0, SMTT(30) DEF Requests, SameAssessment
        <4> QED BY <4>2, <1>4
      <3> QED BY <3>1, <1>4 DEF HardResets, Shape
    <2> QED BY <2>3, <2>5, <2>6, <2>7 DEF n
  <1> QED BY <1>1, <1>2, <1>3, <1>4

\* The actions of a selection: a reset for each of the sources it concerns.
LEMMA SelectActionsParts ==
  ASSUME NEW r \in Runtimes, NEW request \in Requests \cup {NoRequest}
  PROVE  /\ SelectActions(r, request) \in Queues
         /\ \A s \in Sources : SelectActions(r, request)[s] \in {<<>>, <<Act("Reset", 0)>>}
         /\ ~HardResets(r, request) => SelectActions(r, request) = Nothing
  <1>0. <<>> \in Seq(Actions) /\ <<Act("Reset", 0)>> \in Seq(Actions)
    BY ActionParts, SMTT(30)
  <1>1. ASSUME NEW a, NEW b
        PROVE  /\ ResetActions(a, b) \in Queues
               /\ \A s \in Sources : ResetActions(a, b)[s] \in {<<>>, <<Act("Reset", 0)>>}
    BY <1>0 DEF ResetActions, Queues
  <1> QED BY <1>1, QueueParts DEF SelectActions

\* The select command keeps the runtime sound.
LEMMA SelectSound ==
  ASSUME NEW r, Sound(r), NEW request \in Requests \cup {NoRequest}
  PROVE  Sound(AfterSelect(r, request))
  <1> DEFINE c == Selected(r, request)
             acts == SelectActions(r, request)
             clear == request = NoRequest \/ HardResets(r, request)
  <1>1. r \in Runtimes /\ Shape(r) /\ LatestFits(r.latest, r.generation)
    BY DEF Sound
  <1>2. c \in Runtimes /\ Shape(c) /\ acts \in Queues /\ clear \in BOOLEAN
    BY <1>1, SelectedParts, SelectActionsParts
  <1>3. clear \/ r.latest = NoCalibration \/ c.generation = r.generation
    <2>1. clear \/ r.generation = 0 \/ c.generation = r.generation
      BY <1>1, SelectedParts
    <2> QED BY <2>1, <1>1 DEF LatestFits
  <1>4. AfterSelect(r, request) = Commit(r, c, acts, clear)
    BY DEF AfterSelect
  <1> HIDE DEF c, acts, clear
  <1> QED BY <1>2, <1>3, <1>4, CommitSound

\* What a command on the selected source commits.
OnSource(r, actions, candidate, clear) ==
    Commit(r, candidate, For(r.effective.source, actions), clear)

\* A selection that is supported names one of the two sources.
LEMMA SourceOf ==
  ASSUME NEW r \in Runtimes, r.effective # NoRequest
  PROVE  r.effective \in Requests /\ r.effective.source \in Sources
  BY RuntimeParts DEF Requests

\* Configure, Cancel, Reset: a hard reset with a new status and one action.
LEMMA RestatedSound ==
  ASSUME NEW r, Sound(r), r.effective # NoRequest,
         NEW s \in {"Configured", "Cancelled", "Selected"}, NEW q \in Seq(Actions)
  PROVE  Sound(OnSource(r, q, Restated(r, s), TRUE))
  <1>1. r \in Runtimes /\ Shape(r) /\ s \in Statuses
    BY DEF Sound, Statuses
  <1> DEFINE c == Restated(r, s)
  <1>2. /\ c \in Runtimes /\ c.effective = r.effective /\ c.status = s
        /\ c.generation = 0 /\ c.next = r.next /\ c.output = NoOutput
    BY <1>1, RestatedParts
  <1>3. For(r.effective.source, q) \in Queues
    BY <1>1, SourceOf, QueueParts
  <1> HIDE DEF c
  <1>4. 0 < c.next
    BY <1>2, RuntimeParts, SMTT(30)
  <1>5. Shape(c)
    BY <1>2, <1>4 DEF Shape
  <1>6. OnSource(r, q, c, TRUE) = Commit(r, c, For(r.effective.source, q), TRUE)
    BY DEF OnSource
  <1>7. Sound(OnSource(r, q, c, TRUE))
    BY <1>2, <1>3, <1>5, <1>6, CommitSound
  <1> QED BY <1>7 DEF c

\* The next of a transition whose actions fit is that of its candidate.
LEMMA CommitNext ==
  ASSUME NEW r, NEW acts, NEW clear \in BOOLEAN, Fits(r, acts), NEW x \in Runtimes
  PROVE  Commit(r, Started(x), acts, clear).next = x.next + 1
  <1> DEFINE p == Extended(r.pending, acts)
             l == IF clear THEN NoCalibration ELSE r.latest
             c == Started(x)
  <1>1. Commit(r, c, acts, clear) = [c EXCEPT !.pending = p, !.latest = l]
    BY DEF Commit
  <1> HIDE DEF p, l
  <1>2. [c EXCEPT !.pending = p, !.latest = l].next = c.next
    BY DEF Started, Runtimes
  <1>3. c.next = x.next + 1
    BY DEF Started, Runtimes
  <1> QED BY <1>1, <1>2, <1>3

\* A start, alone or after a hard reset: x is what it starts from.
LEMMA StartSound ==
  ASSUME NEW r, Sound(r), r.effective # NoRequest, NEW x \in Runtimes,
         x.effective = r.effective, x.next = r.next, x.generation = 0, x.output = NoOutput,
         NEW q \in Seq(Actions), NEW clear \in BOOLEAN,
         clear \/ r.generation = 0,
         OnSource(r, q, Started(x), clear).next <= MaxBreath + 1
  PROVE  Sound(OnSource(r, q, Started(x), clear))
  <1>1. r \in Runtimes /\ Shape(r) /\ LatestFits(r.latest, r.generation)
    BY DEF Sound
  <1> DEFINE acts == For(r.effective.source, q)
             c == Started(x)
  <1>2. acts \in Queues
    BY <1>1, SourceOf, QueueParts
  <1>3. OnSource(r, q, c, clear) = Commit(r, c, acts, clear)
    BY DEF OnSource
  <1>4. ASSUME Fits(r, acts)
        PROVE  c \in Runtimes /\ Shape(c)
    <2>1. Commit(r, c, acts, clear).next = x.next + 1
      <3> HIDE DEF acts
      <3> QED BY <1>4, CommitNext
    <2>2. x.next <= MaxBreath /\ x.next \in Nat /\ x.next > 0
      <3>1. x.next \in 1..(MaxBreath + 1) /\ x.next + 1 <= MaxBreath + 1
        BY <1>3, <2>1, RuntimeParts
      <3> QED BY <3>1, Bounds, SMTT(30)
    <2>3. /\ c \in Runtimes /\ c.effective = x.effective /\ c.status = "Running"
          /\ c.generation = x.next /\ c.next = x.next + 1 /\ c.output = NoOutput
      BY <2>2, StartedParts
    <2> HIDE DEF c, acts
    <2>4. c.generation < c.next /\ c.generation # 0
      BY <2>2, <2>3, SMTT(30)
    <2>5. Shape(c)
      BY <2>3, <2>4 DEF Shape
    <2> QED BY <2>3, <2>5
  <1>5. clear \/ r.latest = NoCalibration
    BY <1>1 DEF LatestFits
  <1> HIDE DEF c, acts
  <1>6. Sound(OnSource(r, q, c, clear))
    BY <1>2, <1>3, <1>4, <1>5, CommitSound
  <1> QED BY <1>6 DEF c

\* The actions of start_calibration.
CalibrationQueue(r) ==
    (IF r.status = "Running" THEN <<Act("Reset", 0)>> ELSE <<>>)
    \o <<Act("Configure", 0), Act("Start", r.next)>>
\* start_calibration is a command on the selected source.
LEMMA CalibrationIsOnSource ==
  ASSUME NEW r
  PROVE  AfterStartCalibration(r) =
             OnSource(r, CalibrationQueue(r), Started(Restated(r, "Configured")), TRUE)
  BY DEF AfterStartCalibration, OnSource, CalibrationActions, CalibrationQueue, Configured,
         Restated

\* What start_calibration queues are actions.
LEMMA CalibrationQueueType ==
  ASSUME NEW r \in Runtimes, r.next <= MaxBreath
  PROVE  CalibrationQueue(r) \in Seq(Actions)
  <1>1. r.next \in BreathGenerations
    BY RuntimeParts, Bounds, SMTT(30) DEF BreathGenerations
  <1>2. Act("Reset", 0) \in Actions /\ Act("Configure", 0) \in Actions
        /\ Act("Start", r.next) \in Actions
    BY <1>1, ActionParts
  <1> DEFINE x == Act("Reset", 0)
             y == Act("Configure", 0)
             z == Act("Start", r.next)
  <1>3. CalibrationQueue(r) = (IF r.status = "Running" THEN <<x>> ELSE <<>>) \o <<y, z>>
    BY DEF CalibrationQueue
  <1> HIDE DEF x, y, z
  <1>4. x \in Actions /\ y \in Actions /\ z \in Actions
    BY <1>2 DEF x, y, z
  <1>5. <<x>> \o <<y, z>> \in Seq(Actions) /\ <<>> \o <<y, z>> \in Seq(Actions)
    BY <1>4, SMTT(30)
  <1> QED BY <1>3, <1>5

\* start_calibration, and with it the arming of a session.
LEMMA CalibrationSound ==
  ASSUME NEW r, Sound(r), r.effective # NoRequest,
         AfterStartCalibration(r).next <= MaxBreath + 1
  PROVE  Sound(AfterStartCalibration(r))
  <1>1. r \in Runtimes
    BY DEF Sound
  <1> DEFINE x == Restated(r, "Configured")
             acts == CalibrationActions(r)
  <1>2. /\ x \in Runtimes /\ x.effective = r.effective /\ x.next = r.next
        /\ x.generation = 0 /\ x.output = NoOutput
    BY <1>1, RestatedParts DEF Statuses
  <1>3. AfterStartCalibration(r) = Commit(r, Started(x), acts, TRUE)
    BY DEF AfterStartCalibration, Configured, Restated
  <1> HIDE DEF x
  <1>4. CASE ~Fits(r, acts)
    BY <1>3, <1>4 DEF Commit
  <1>5. CASE Fits(r, acts)
    <2>1. Commit(r, Started(x), acts, TRUE).next = x.next + 1
      <3> HIDE DEF acts
      <3> QED BY <1>2, <1>5, CommitNext
    <2>2. x.next + 1 <= MaxBreath + 1 /\ x.next \in Nat
      BY <1>2, <1>3, <2>1, RuntimeParts
    <2>3. r.next <= MaxBreath
      BY <1>2, <2>2, Bounds, SMTT(30)
    <2>4. CalibrationQueue(r) \in Seq(Actions)
      BY <1>1, <2>3, CalibrationQueueType
    <2>5. AfterStartCalibration(r) = OnSource(r, CalibrationQueue(r), Started(x), TRUE)
      BY CalibrationIsOnSource DEF x
    <2> QED BY <1>2, <2>4, <2>5, StartSound
  <1> QED BY <1>4, <1>5

\* ensure_running_for_experiment_arm keeps the runtime sound.
LEMMA EnsureSound ==
  ASSUME NEW r, Sound(r), r.effective # NoRequest,
         AfterEnsureRunning(r).next <= MaxBreath + 1
  PROVE  Sound(AfterEnsureRunning(r))
  BY CalibrationSound DEF AfterEnsureRunning

\* submit_calibration keeps everything but the latest calibration.
LEMMA SubmitParts ==
  ASSUME NEW r \in Runtimes, NEW source \in Sources, NEW c \in Latests
  PROVE  /\ SubmitCalibration(r, source, c) \in Runtimes
         /\ SubmitCalibration(r, source, c).effective = r.effective
         /\ SubmitCalibration(r, source, c).status = r.status
         /\ SubmitCalibration(r, source, c).generation = r.generation
         /\ SubmitCalibration(r, source, c).next = r.next
         /\ SubmitCalibration(r, source, c).output = r.output
         /\ SubmitCalibration(r, source, c).pending = r.pending
  <1> DEFINE n == [r EXCEPT !.latest = c]
  <1>1. n \in Runtimes
    BY DEF Runtimes
  <1>2. /\ n.effective = r.effective /\ n.status = r.status
        /\ n.generation = r.generation /\ n.next = r.next /\ n.output = r.output
        /\ n.pending = r.pending
    BY DEF Runtimes
  <1>3. SubmitCalibration(r, source, c) \in {r, n}
    BY DEF SubmitCalibration
  <1> HIDE DEF n
  <1> QED BY <1>1, <1>2, <1>3
\* submit_calibration takes a receipt only when it is of the running generation.
LEMMA SubmitLatest ==
  ASSUME NEW r \in Runtimes, NEW source \in Sources, NEW c \in Latests
  PROVE  \/ SubmitCalibration(r, source, c).latest = r.latest
         \/ /\ SubmitCalibration(r, source, c).latest = c
            /\ r.status = "Running" /\ c.generation = r.generation
  BY DEF SubmitCalibration, Runtimes

\* submit_calibration keeps the runtime sound.
LEMMA SubmitSound ==
  ASSUME NEW r, Sound(r), NEW source \in Sources, NEW c \in Latests
  PROVE  Sound(SubmitCalibration(r, source, c))
  <1> DEFINE n == SubmitCalibration(r, source, c)
  <1>1. r \in Runtimes
    BY DEF Sound
  <1>2. /\ n \in Runtimes /\ n.effective = r.effective /\ n.status = r.status
        /\ n.generation = r.generation /\ n.next = r.next /\ n.output = r.output
        /\ n.pending = r.pending
    BY <1>1, SubmitParts
  <1>5. \/ n.latest = r.latest
        \/ n.latest = c /\ r.status = "Running" /\ c.generation = r.generation
    BY <1>1, SubmitLatest
  <1> HIDE DEF n
  <1>3. Shape(n)
    BY <1>2 DEF Sound, Shape
  <1>4. LatestFits(n.latest, n.generation)
    BY <1>2, <1>5 DEF Sound, Shape, LatestFits
  <1> QED BY <1>2, <1>3, <1>4 DEF Sound, n

\* observe keeps everything but the output.
LEMMA ObservedParts ==
  ASSUME NEW r \in Runtimes, NEW source \in Sources, NEW g \in BreathGenerations,
         NEW usable \in BOOLEAN, r.status = "Running" => r.effective # NoRequest
  PROVE  /\ Observed(r, source, g, usable) \in Runtimes
         /\ Observed(r, source, g, usable).effective = r.effective
         /\ Observed(r, source, g, usable).status = r.status
         /\ Observed(r, source, g, usable).generation = r.generation
         /\ Observed(r, source, g, usable).next = r.next
         /\ Observed(r, source, g, usable).pending = r.pending
         /\ Observed(r, source, g, usable).latest = r.latest
         /\ Observed(r, source, g, usable).output # NoOutput =>
               /\ Observed(r, source, g, usable).output.source = source
               /\ Observed(r, source, g, usable).output.mapping = r.effective.mapping
               /\ Observed(r, source, g, usable).output.generation = g
               /\ Admits(r, source, g)
  <1> DEFINE o == IF Admits(r, source, g) /\ usable
                  THEN [source |-> source, mapping |-> r.effective.mapping, generation |-> g]
                  ELSE NoOutput
             n == [r EXCEPT !.output = o]
  <1>1. Observed(r, source, g, usable) = n
    BY DEF Observed
  <1>2. o \in Outputs
    <2>1. CASE Admits(r, source, g) /\ usable
      <3>1. r.effective \in Requests
        BY <2>1, SourceOf DEF Admits
      <3>2. r.effective.mapping \in Mappings
        BY <3>1 DEF Requests
      <3>3. [source |-> source, mapping |-> r.effective.mapping, generation |-> g]
                \in [source : Sources, mapping : Mappings, generation : BreathGenerations]
        BY <3>2
      <3> QED BY <2>1, <3>3 DEF Outputs
    <2> QED BY <2>1, Nones
  <1>3. o # NoOutput => /\ o.source = source /\ o.mapping = r.effective.mapping
                        /\ o.generation = g /\ Admits(r, source, g)
    OBVIOUS
  <1> HIDE DEF o
  <1>4. /\ n \in Runtimes /\ n.effective = r.effective /\ n.status = r.status
        /\ n.generation = r.generation /\ n.next = r.next /\ n.output = o
        /\ n.pending = r.pending /\ n.latest = r.latest
    <2>1. n \in Runtimes
      BY <1>2 DEF Runtimes
    <2> QED BY <2>1 DEF Runtimes
  <1> HIDE DEF n
  <1> QED BY <1>1, <1>3, <1>4

\* An observation keeps the runtime sound: the output is of the running generation.
LEMMA ObservedSound ==
  ASSUME NEW r, Sound(r), NEW source \in Sources, NEW g \in BreathGenerations,
         NEW usable \in BOOLEAN
  PROVE  Sound(Observed(r, source, g, usable))
  <1> DEFINE n == Observed(r, source, g, usable)
  <1>1. r \in Runtimes /\ (r.status = "Running" => r.effective # NoRequest)
    BY DEF Sound, Shape
  <1>2. /\ n \in Runtimes /\ n.effective = r.effective /\ n.status = r.status
        /\ n.generation = r.generation /\ n.next = r.next
        /\ n.pending = r.pending /\ n.latest = r.latest
        /\ n.output # NoOutput =>
              /\ n.output.source = source /\ n.output.mapping = r.effective.mapping
              /\ n.output.generation = g /\ Admits(r, source, g)
    BY <1>1, ObservedParts
  <1> HIDE DEF n
  <1>3. Shape(n)
    BY <1>2 DEF Sound, Shape, Admits
  <1>4. LatestFits(n.latest, n.generation)
    BY <1>2 DEF Sound
  <1> QED BY <1>2, <1>3, <1>4 DEF Sound, n

\* Dropping the actions of a source.
Dropped(r, p) == [r EXCEPT !.pending = p]
\* A runtime whose queues are replaced.
LEMMA DroppedParts ==
  ASSUME NEW r \in Runtimes, NEW p \in Queues
  PROVE  /\ Dropped(r, p) \in Runtimes
         /\ Dropped(r, p).effective = r.effective /\ Dropped(r, p).status = r.status
         /\ Dropped(r, p).generation = r.generation /\ Dropped(r, p).next = r.next
         /\ Dropped(r, p).output = r.output /\ Dropped(r, p).pending = p
         /\ Dropped(r, p).latest = r.latest
  <1>1. Dropped(r, p) \in Runtimes
    BY DEF Dropped, Runtimes
  <1> QED BY <1>1 DEF Dropped, Runtimes

\* Dropping queued actions keeps the runtime sound.
LEMMA DroppedSound ==
  ASSUME NEW r, Sound(r), NEW p \in Queues, Total(p) <= QueueCapacity
  PROVE  Sound(Dropped(r, p))
  <1> DEFINE n == Dropped(r, p)
  <1>1. r \in Runtimes
    BY DEF Sound
  <1>2. /\ n \in Runtimes /\ n.effective = r.effective /\ n.status = r.status
        /\ n.generation = r.generation /\ n.next = r.next /\ n.output = r.output
        /\ n.pending = p /\ n.latest = r.latest
    BY <1>1, DroppedParts
  <1> HIDE DEF n
  <1>3. Shape(n)
    BY <1>2 DEF Sound, Shape
  <1> QED BY <1>2, <1>3 DEF Sound, n

\* Without the actions of one source, or without its first one, the queues are
\* shorter.
LEMMA ShorterQueues ==
  ASSUME NEW r, Sound(r), NEW s \in Sources
  PROVE  /\ [r.pending EXCEPT ![s] = <<>>] \in Queues
         /\ Total([r.pending EXCEPT ![s] = <<>>]) <= QueueCapacity
         /\ [r.pending EXCEPT ![s] = <<>>][s] = <<>>
         /\ \A t \in Sources : t # s => [r.pending EXCEPT ![s] = <<>>][t] = r.pending[t]
         /\ r.pending[s] # <<>> =>
               /\ [r.pending EXCEPT ![s] = Tail(r.pending[s])] \in Queues
               /\ Total([r.pending EXCEPT ![s] = Tail(r.pending[s])]) <= QueueCapacity
               /\ [r.pending EXCEPT ![s] = Tail(r.pending[s])][s] = Tail(r.pending[s])
               /\ \A t \in Sources :
                     t # s => [r.pending EXCEPT ![s] = Tail(r.pending[s])][t] = r.pending[t]
  <1>1. r.pending \in Queues /\ Total(r.pending) <= QueueCapacity
    BY RuntimeParts DEF Sound
  <1>2. "Controller" \in Sources /\ "Polar" \in Sources
        /\ \A t \in Sources : r.pending[t] \in Seq(Actions)
    BY <1>1 DEF Sources, Queues
  <1>3. ASSUME NEW q \in Seq(Actions), NEW v \in Seq(Actions), q = r.pending[s],
               Len(v) <= Len(q)
        PROVE  /\ [r.pending EXCEPT ![s] = v] \in Queues
               /\ Total([r.pending EXCEPT ![s] = v]) <= QueueCapacity
               /\ [r.pending EXCEPT ![s] = v][s] = v
               /\ \A t \in Sources : t # s => [r.pending EXCEPT ![s] = v][t] = r.pending[t]
    <2>1. /\ [r.pending EXCEPT ![s] = v] \in Queues
          /\ [r.pending EXCEPT ![s] = v][s] = v
          /\ \A t \in Sources : t # s => [r.pending EXCEPT ![s] = v][t] = r.pending[t]
      BY <1>1 DEF Queues
    <2> DEFINE p == [r.pending EXCEPT ![s] = v]
               a == Len(r.pending["Controller"])
               b == Len(r.pending["Polar"])
               c == Len(p["Controller"])
               d == Len(p["Polar"])
               m == Len(v)
               k == Len(q)
    <2>2. /\ a \in Nat /\ b \in Nat /\ m \in Nat /\ k \in Nat /\ m <= k
          /\ a + b <= QueueCapacity /\ QueueCapacity \in Nat
      <3>1. \A x \in Seq(Actions) : Len(x) \in Nat
        BY SMTT(30)
      <3> QED BY <1>1, <1>2, <1>3, <3>1, Bounds DEF Total
    <2>3. \/ c = m /\ d = b /\ k = a
          \/ c = a /\ d = m /\ k = b
      BY <1>2, <1>3, <2>1 DEF Sources
    <2>4. Total(p) = c + d
      BY DEF Total
    <2> HIDE DEF a, b, c, d, m, k
    <2>5. c + d <= QueueCapacity
      BY <2>2, <2>3, SMTT(30)
    <2> QED BY <2>1, <2>4, <2>5
  <1>4. <<>> \in Seq(Actions) /\ Len(<<>>) <= Len(r.pending[s])
    <2> DEFINE q == r.pending[s]
    <2>1. q \in Seq(Actions)
      BY <1>2
    <2> HIDE DEF q
    <2>2. <<>> \in Seq(Actions) /\ Len(<<>>) <= Len(q)
      BY <2>1, SMTT(30)
    <2> QED BY <2>2 DEF q
  <1>5. ASSUME r.pending[s] # <<>>
        PROVE  Tail(r.pending[s]) \in Seq(Actions) /\ Len(Tail(r.pending[s])) <= Len(r.pending[s])
    <2> DEFINE q == r.pending[s]
    <2>1. q \in Seq(Actions) /\ q # <<>>
      BY <1>2, <1>5
    <2> HIDE DEF q
    <2>2. Tail(q) \in Seq(Actions) /\ Len(Tail(q)) <= Len(q)
      BY <2>1, SMTT(30)
    <2> QED BY <2>2 DEF q
  <1>6. r.pending[s] \in Seq(Actions)
    BY <1>2
  <1>7. /\ [r.pending EXCEPT ![s] = <<>>] \in Queues
        /\ Total([r.pending EXCEPT ![s] = <<>>]) <= QueueCapacity
        /\ [r.pending EXCEPT ![s] = <<>>][s] = <<>>
        /\ \A t \in Sources : t # s => [r.pending EXCEPT ![s] = <<>>][t] = r.pending[t]
    BY <1>3, <1>4, <1>6
  <1>8. r.pending[s] # <<>> =>
               /\ [r.pending EXCEPT ![s] = Tail(r.pending[s])] \in Queues
               /\ Total([r.pending EXCEPT ![s] = Tail(r.pending[s])]) <= QueueCapacity
               /\ [r.pending EXCEPT ![s] = Tail(r.pending[s])][s] = Tail(r.pending[s])
               /\ \A t \in Sources :
                     t # s => [r.pending EXCEPT ![s] = Tail(r.pending[s])][t] = r.pending[t]
    BY <1>3, <1>5, <1>6
  <1> QED BY <1>7, <1>8

\* A guided arm that times out, and an adapter whose clock owner is invalidated.
LEMMA InvalidatedSound ==
  ASSUME Sound(rt) PROVE Sound(Invalidated(rt))
  <1> DEFINE p == NotOf("Polar")
  <1>1. rt \in Runtimes /\ Shape(rt) /\ "Polar" \in Sources
    BY DEF Sound, Sources
  <1>2. p \in Queues /\ Total(p) <= QueueCapacity
    BY <1>1, ShorterQueues DEF NotOf
  <1> HIDE DEF p
  <1>3. CASE rt.effective.source # "Polar"
    BY <1>2, <1>3, DroppedSound DEF Invalidated, Dropped, p
  <1>4. CASE rt.effective.source = "Polar"
    <2> DEFINE c == Cleared(rt)
               n == Invalidated(rt)
    <2>1. /\ c \in Runtimes /\ c.effective = rt.effective /\ c.generation = 0
          /\ c.next = rt.next /\ c.output = NoOutput
      BY <1>1, ClearedParts
    <2>2. n = [c EXCEPT !.pending = p, !.status = "Selected", !.latest = NoCalibration]
      BY <1>4 DEF Invalidated, p
    <2>3. rt.effective # NoRequest /\ "Selected" \in Statuses
      BY <1>1, <1>4, Nones DEF Statuses, Sources
    <2> HIDE DEF c, n
    <2>4. n \in Runtimes
      BY <1>2, <2>1, <2>2, <2>3, Nones DEF Runtimes
    <2>5. /\ n.effective = c.effective /\ n.status = "Selected"
          /\ n.generation = c.generation /\ n.next = c.next /\ n.output = c.output
          /\ n.pending = p /\ n.latest = NoCalibration
      BY <2>1, <2>2 DEF Runtimes
    <2>6. 0 < n.next
      BY <2>4, RuntimeParts, SMTT(30)
    <2>7. Shape(n)
      BY <2>1, <2>3, <2>5, <2>6 DEF Shape
    <2> QED BY <1>2, <2>4, <2>5, <2>7 DEF Sound, LatestFits, n
  <1> QED BY <1>3, <1>4

-----------------------------------------------------------------------------
\* A queue and its adapter.  The queue of the selected source, read from the adapter
\* on, leads to the status the authority is in: what follows its last Configure is a
\* run of starts and cancellations each of which the adapter will take.

NoConfigure(q, i) == \A j \in i..Len(q) : q[j].kind # "Configure"

\* y is what a command may queue directly after x.
Leads(x, y) ==
    \/ y.kind = "Start" /\ x.kind \in {"Configure", "Cancel"}
    \/ y.kind = "Cancel" /\ x.kind = "Start" /\ x.generation = y.generation

\* The adapter a takes y, if y is new to it.
Takes(a, y) ==
    \/ y.kind = "Start" /\ a.lifecycle \in {"Configured", "Cancelled"}
    \/ /\ y.kind = "Cancel" /\ a.lifecycle \in {"Active", "Failed"}
       /\ a.generation = y.generation

Live(r) == r.generation # 0 \/ r.status \in {"Configured", "Cancelled"}

\* The last action queued, or else the adapter, is what the status says.
Asks(r, y) ==
    IF r.generation # 0 THEN y.kind = "Start" /\ y.generation = r.generation
    ELSE y.kind = IF r.status = "Configured" THEN "Configure" ELSE "Cancel"
Reached(r, a) ==
    IF r.generation # 0
    THEN a.lifecycle \in {"Active", "Failed"} /\ a.generation = r.generation
    ELSE a.lifecycle = r.status

\* The actions of q after the first k lead from a to the status of r.
Chain(r, a, q, k) ==
    /\ \A i \in (k + 1)..Len(q) :
          NoConfigure(q, i) => IF i = k + 1 THEN Takes(a, q[i]) ELSE Leads(q[i - 1], q[i])
    /\ IF k < Len(q) THEN Asks(r, q[Len(q)]) ELSE Reached(r, a)
    /\ NoConfigure(q, k + 1) => a.inverted = r.effective.inverted

\* Their generations are new to a, in order, and below the next one.
Fresh(a, q, k, next) ==
    /\ a.highest < next
    /\ \A i \in (k + 1)..Len(q) :
          q[i].kind = "Start" => a.highest < q[i].generation /\ q[i].generation < next
    /\ \A i, j \in (k + 1)..Len(q) :
          i < j /\ q[i].kind = "Start" /\ q[j].kind = "Start" =>
              q[i].generation < q[j].generation

\* What applying y to a does to what the calibration has seen, and, while something is
\* selected, to where it stands.
Raises(a, y, b) ==
    IF y.kind = "Start" THEN b.highest \in {a.highest, y.generation}
    ELSE b.highest <= a.highest
Moves(inverted, a, y, b) ==
    /\ y.kind = "Configure" =>
          b.lifecycle = "Configured" /\ b.inverted = inverted
    /\ y.kind # "Configure" => b.inverted = a.inverted
    /\ y.kind = "Start" /\ Takes(a, y) /\ a.highest < y.generation =>
          b.lifecycle = "Active" /\ b.generation = y.generation
    /\ y.kind = "Cancel" /\ Takes(a, y) => b.lifecycle = "Cancelled"

\* No configure from place k + 1 on: not there, and none from the next place on.
LEMMA NoConfigureFrom ==
  ASSUME NEW q \in Seq(Actions), NEW k \in Nat, k < Len(q)
  PROVE  NoConfigure(q, k + 1) <=> q[k + 1].kind # "Configure" /\ NoConfigure(q, k + 2)
  <1>1. Len(q) \in Nat
    BY SMTT(30)
  <1>2. (k + 1)..Len(q) = {k + 1} \cup ((k + 2)..Len(q))
    BY <1>1, SMTT(30)
  <1> QED BY <1>2 DEF NoConfigure

\* Applying the next action keeps the rest of the chain.
LEMMA ChainStep ==
  ASSUME NEW r, NEW a, NEW b, NEW q \in Seq(Actions), NEW k \in Nat, k < Len(q),
         NEW next, Live(r), Chain(r, a, q, k), Fresh(a, q, k, next),
         Moves(r.effective.inverted, a, q[k + 1], b)
  PROVE  Chain(r, b, q, k + 1)
  <1> DEFINE y == q[k + 1]
  <1>0. Len(q) \in Nat
    BY SMTT(30)
  <1>1. k + 1 \in (k + 1)..Len(q) /\ (k + 1) + 1 = k + 2
    BY <1>0, SMTT(30)
  <1>2. NoConfigure(q, k + 1) <=> y.kind # "Configure" /\ NoConfigure(q, k + 2)
    BY NoConfigureFrom
  <1>3. NoConfigure(q, k + 1) => Takes(a, y)
    BY <1>1 DEF Chain
  <1>4. y.kind = "Start" => a.highest < y.generation
    BY <1>1 DEF Fresh
  <1>5. Moves(r.effective.inverted, a, y, b)
    OBVIOUS
  <1> HIDE DEF y
  <1>6. ASSUME NEW i \in (k + 2)..Len(q), NoConfigure(q, i)
        PROVE  IF i = k + 2 THEN Takes(b, q[i]) ELSE Leads(q[i - 1], q[i])
    <2>1. i \in (k + 1)..Len(q) /\ i # k + 1
      BY <1>0, SMTT(30)
    <2>2. Leads(q[i - 1], q[i])
      BY <1>6, <2>1 DEF Chain
    <2>3. ASSUME i = k + 2 PROVE Takes(b, q[i])
      <3>1. q[i - 1] = y
        <4>1. i - 1 = k + 1
          BY <2>3, SMTT(30)
        <4> QED BY <4>1 DEF y
      <3>2. NoConfigure(q, k + 2)
        BY <1>6, <2>3
      <3>3. Leads(y, q[i])
        BY <2>2, <3>1
      <3>4. CASE q[i].kind = "Start" /\ y.kind = "Configure"
        BY <3>4, <1>5 DEF Moves, Takes
      <3>5. CASE q[i].kind = "Start" /\ y.kind = "Cancel"
        BY <3>5, <1>2, <1>3, <1>5, <3>2 DEF Moves, Takes
      <3>6. CASE q[i].kind = "Cancel" /\ y.kind = "Start" /\ y.generation = q[i].generation
        <4>1. b.lifecycle = "Active" /\ b.generation = y.generation
          BY <3>6, <1>2, <1>3, <1>4, <1>5, <3>2 DEF Moves
        <4> QED BY <4>1, <3>6 DEF Takes
      <3> QED BY <3>3, <3>4, <3>5, <3>6 DEF Leads
    <2> QED BY <2>2, <2>3
  <1>7. IF k + 1 < Len(q) THEN Asks(r, q[Len(q)]) ELSE Reached(r, b)
    <2>1. Asks(r, q[Len(q)])
      BY DEF Chain
    <2>2. ASSUME ~(k + 1 < Len(q)) PROVE Reached(r, b)
      <3>1. Len(q) = k + 1 /\ NoConfigure(q, k + 2)
        BY <1>0, <2>2, SMTT(30) DEF NoConfigure
      <3>2. Asks(r, y)
        BY <2>1, <3>1 DEF y
      <3>3. CASE r.generation # 0
        <4>1. y.kind = "Start" /\ y.generation = r.generation
          BY <3>2, <3>3 DEF Asks
        <4>2. b.lifecycle = "Active" /\ b.generation = y.generation
          BY <4>1, <1>2, <1>3, <1>4, <1>5, <3>1 DEF Moves
        <4> QED BY <4>1, <4>2, <3>3 DEF Reached
      <3>4. CASE r.generation = 0 /\ r.status = "Configured"
        BY <3>2, <3>4, <1>5 DEF Asks, Moves, Reached
      <3>5. CASE r.generation = 0 /\ r.status = "Cancelled"
        <4>1. y.kind = "Cancel"
          BY <3>2, <3>5 DEF Asks
        <4>2. b.lifecycle = "Cancelled"
          BY <4>1, <1>2, <1>3, <1>5, <3>1 DEF Moves
        <4> QED BY <4>2, <3>5 DEF Reached
      <3> QED BY <3>3, <3>4, <3>5 DEF Live
    <2> QED BY <2>1, <2>2
  <1>8. NoConfigure(q, k + 2) => b.inverted = r.effective.inverted
    BY <1>2, <1>5 DEF Chain, Moves
  <1> QED BY <1>1, <1>6, <1>7, <1>8 DEF Chain

\* Applying an action keeps the rest of the queue new to the adapter.
LEMMA FreshStep ==
  ASSUME NEW a, NEW b, NEW q \in Seq(Actions), NEW k \in Nat, k < Len(q),
         NEW next \in Nat, a.highest \in Nat, b.highest \in Nat,
         Fresh(a, q, k, next), Raises(a, q[k + 1], b)
  PROVE  Fresh(b, q, k + 1, next)
  <1> DEFINE y == q[k + 1]
             h == a.highest
             m == b.highest
  <1>0. Len(q) \in Nat /\ h \in Nat /\ m \in Nat
    BY SMTT(30)
  <1>1. k + 1 \in (k + 1)..Len(q) /\ (k + 1) + 1 = k + 2
    BY <1>0, SMTT(30)
  <1>2. \A i \in (k + 2)..Len(q) : i \in (k + 1)..Len(q) /\ k + 1 < i
    BY <1>0, SMTT(30)
  <1>3. \A i \in 1..Len(q) : q[i].generation \in Nat
    <2>1. \A i \in 1..Len(q) : q[i] \in Actions
      BY SMTT(30)
    <2> QED BY <2>1, Bounds DEF Actions
  <1>4. \A i \in (k + 1)..Len(q) : q[i].generation \in Nat
    <2>1. \A i \in (k + 1)..Len(q) : i \in 1..Len(q)
      BY <1>0, SMTT(30)
    <2> QED BY <2>1, <1>3
  <1>5. y.generation \in Nat /\ h < next
        /\ (y.kind = "Start" => h < y.generation /\ y.generation < next)
    BY <1>1, <1>4 DEF Fresh
  <1>6. IF y.kind = "Start" THEN m \in {h, y.generation} ELSE m <= h
    BY DEF Raises
  <1>7. \A i \in (k + 2)..Len(q) : q[i].kind = "Start" =>
            /\ h < q[i].generation /\ q[i].generation < next
            /\ y.kind = "Start" => y.generation < q[i].generation
    BY <1>1, <1>2 DEF Fresh
  <1> DEFINE g == y.generation
  <1>8. g \in Nat
    BY <1>5
  <1> HIDE DEF h, m, y, g
  <1>9. m < next
    <2>1. CASE y.kind = "Start"
      BY <2>1, <1>5, <1>6
    <2>2. CASE y.kind # "Start"
      <3>1. m <= h /\ h < next
        BY <2>2, <1>5, <1>6
      <3> QED BY <3>1, <1>0, SMTT(30)
    <2> QED BY <2>1, <2>2
  <1>10. ASSUME NEW i \in (k + 2)..Len(q), q[i].kind = "Start"
         PROVE  m < q[i].generation /\ q[i].generation < next
    <2> DEFINE x == q[i].generation
    <2>1. x \in Nat /\ h < x /\ x < next /\ (y.kind = "Start" => y.generation < x)
      BY <1>10, <1>7, <1>4, <1>2
    <2> HIDE DEF x
    <2>2. CASE y.kind = "Start"
      BY <2>1, <2>2, <1>6 DEF x
    <2>3. CASE y.kind # "Start"
      <3>1. m <= h
        BY <2>3, <1>6
      <3>2. m < x
        BY <3>1, <2>1, <1>0, SMTT(30)
      <3> QED BY <3>2, <2>1 DEF x
    <2> QED BY <2>2, <2>3
  <1>11. \A i, j \in (k + 2)..Len(q) :
             i < j /\ q[i].kind = "Start" /\ q[j].kind = "Start" =>
                 q[i].generation < q[j].generation
    BY <1>2 DEF Fresh
  <1> QED BY <1>1, <1>9, <1>10, <1>11 DEF Fresh, m

\* The action in front is taken off the queue; the queue is emptied.
LEMMA ChainTail ==
  ASSUME NEW r, NEW a, NEW q \in Seq(Actions), q # <<>>, Chain(r, a, q, 1)
  PROVE  Chain(r, a, Tail(q), 0)
  <1> DEFINE p == Tail(q)
  <1>0. /\ Len(q) \in Nat /\ 0 < Len(q) /\ Len(p) = Len(q) - 1
        /\ \A i \in 1..Len(p) : p[i] = q[i + 1]
    BY SMTT(30)
  <1> HIDE DEF p
  <1>1. \A i \in 1..Len(p) : i + 1 \in 2..Len(q) /\ (i = 1 <=> i + 1 = 2)
        /\ (i # 1 => i - 1 \in 1..Len(p) /\ (i - 1) + 1 = (i + 1) - 1)
    BY <1>0, SMTT(30)
  <1>2. ASSUME NEW i \in 1..(Len(p) + 1), NoConfigure(p, i)
        PROVE  NoConfigure(q, i + 1)
    <2>1. ASSUME NEW j \in (i + 1)..Len(q) PROVE q[j].kind # "Configure"
      <3>1. j - 1 \in i..Len(p) /\ j - 1 \in 1..Len(p) /\ (j - 1) + 1 = j
        BY <1>0, SMTT(30)
      <3> QED BY <3>1, <1>0, <1>2 DEF NoConfigure
    <2> QED BY <2>1 DEF NoConfigure
  <1>3. ASSUME NEW i \in 1..Len(p), NoConfigure(p, i)
        PROVE  IF i = 1 THEN Takes(a, p[i]) ELSE Leads(p[i - 1], p[i])
    <2>1. i \in 1..(Len(p) + 1)
      BY <1>0, SMTT(30)
    <2>2. NoConfigure(q, i + 1)
      BY <1>2, <1>3, <2>1
    <2>3. IF i + 1 = 2 THEN Takes(a, q[i + 1]) ELSE Leads(q[(i + 1) - 1], q[i + 1])
      <3>1. 1 + 1 = 2
        BY SMTT(30)
      <3> QED BY <1>1, <2>2, <3>1 DEF Chain
    <2>4. p[i] = q[i + 1] /\ (i # 1 => p[i - 1] = q[(i + 1) - 1])
      BY <1>0, <1>1
    <2> QED BY <1>1, <2>3, <2>4
  <1>4. IF 0 < Len(p) THEN Asks(r, p[Len(p)]) ELSE Reached(r, a)
    <2>1. CASE 0 < Len(p)
      <3>1. 1 < Len(q) /\ Len(p) \in 1..Len(p) /\ Len(p) + 1 = Len(q)
        BY <1>0, <2>1, SMTT(30)
      <3> QED BY <2>1, <3>1, <1>0 DEF Chain
    <2>2. CASE ~(0 < Len(p))
      <3>1. ~(1 < Len(q))
        BY <1>0, <2>2, SMTT(30)
      <3> QED BY <2>2, <3>1 DEF Chain
    <2> QED BY <2>1, <2>2
  <1>5. NoConfigure(p, 1) => a.inverted = r.effective.inverted
    <2>1. 1 \in 1..(Len(p) + 1) /\ 1 + 1 = 2
      BY <1>0, SMTT(30)
    <2> QED BY <2>1, <1>2 DEF Chain
  <1>6. 0 + 1 = 1
    BY SMTT(30)
  <1> QED BY <1>3, <1>4, <1>5, <1>6 DEF Chain, p

\* Fresh after the first action is Fresh of the queue without it.
LEMMA FreshTail ==
  ASSUME NEW a, NEW q \in Seq(Actions), q # <<>>, NEW next, Fresh(a, q, 1, next)
  PROVE  Fresh(a, Tail(q), 0, next)
  <1> DEFINE p == Tail(q)
  <1>0. /\ Len(q) \in Nat /\ 0 < Len(q) /\ Len(p) = Len(q) - 1
        /\ \A i \in 1..Len(p) : p[i] = q[i + 1]
    BY SMTT(30)
  <1> HIDE DEF p
  <1>1. /\ \A i \in 1..Len(p) : i + 1 \in 2..Len(q)
        /\ \A i, j \in 1..Len(p) : i < j => i + 1 < j + 1
        /\ 1 + 1 = 2 /\ 0 + 1 = 1
    BY <1>0, SMTT(30)
  <1>2. \A i \in 2..Len(q) :
            q[i].kind = "Start" => a.highest < q[i].generation /\ q[i].generation < next
    BY <1>1 DEF Fresh
  <1>3. \A i, j \in 2..Len(q) :
            i < j /\ q[i].kind = "Start" /\ q[j].kind = "Start" =>
                q[i].generation < q[j].generation
    BY <1>1 DEF Fresh
  <1>4. \A i \in 1..Len(p) :
            p[i].kind = "Start" => a.highest < p[i].generation /\ p[i].generation < next
    BY <1>0, <1>1, <1>2
  <1>5. \A i, j \in 1..Len(p) :
            i < j /\ p[i].kind = "Start" /\ p[j].kind = "Start" =>
                p[i].generation < p[j].generation
    BY <1>0, <1>1, <1>3
  <1>6. a.highest < next
    BY DEF Fresh
  <1> QED BY <1>1, <1>4, <1>5, <1>6 DEF Fresh, p

\* A queue that was run through to its end leads nowhere else.
LEMMA ChainEnd ==
  ASSUME NEW r, NEW a, NEW q \in Seq(Actions), Chain(r, a, q, Len(q))
  PROVE  Chain(r, a, <<>>, 0)
  <1>1. /\ Len(q) \in Nat /\ ~(Len(q) < Len(q)) /\ Len(<<>>) = 0 /\ ~(0 < 0)
        /\ (Len(q) + 1)..Len(q) = {} /\ (0 + 1)..0 = {}
    BY SMTT(30)
  <1>2. NoConfigure(q, Len(q) + 1)
    BY <1>1 DEF NoConfigure
  <1> QED BY <1>1, <1>2 DEF Chain

\* After the whole queue nothing is left that could be old.
LEMMA FreshEnd ==
  ASSUME NEW a, NEW next, a.highest < next
  PROVE  Fresh(a, <<>>, 0, next)
  <1>1. Len(<<>>) = 0 /\ (0 + 1)..0 = {}
    BY SMTT(30)
  <1> QED BY <1>1 DEF Fresh

\* An adapter that only failed, or took other parameters, is as far as before.
Alike(a, b) ==
    /\ b.generation = a.generation /\ b.inverted = a.inverted /\ b.highest = a.highest
    /\ b.lifecycle = a.lifecycle \/ (a.lifecycle = "Active" /\ b.lifecycle = "Failed")
\* Chain is the same for an adapter that is alike.
LEMMA ChainAlike ==
  ASSUME NEW r, NEW a, NEW b, NEW q, NEW k, Chain(r, a, q, k), Alike(a, b), Live(r)
  PROVE  Chain(r, b, q, k)
  <1>1. \A y : Takes(a, y) => Takes(b, y)
    BY DEF Takes, Alike
  <1>2. Reached(r, a) => Reached(r, b)
    BY DEF Reached, Alike, Live
  <1>3. b.inverted = a.inverted
    BY DEF Alike
  <1> QED BY <1>1, <1>2, <1>3 DEF Chain
\* Fresh reads of the adapter only the highest generation it has seen.
LEMMA FreshAlike ==
  ASSUME NEW a, NEW b, NEW q, NEW k, NEW next, Fresh(a, q, k, next), b.highest = a.highest
  PROVE  Fresh(b, q, k, next)
  BY DEF Fresh

\* A change of the runtime that keeps the generation, or the status without one.
LEMMA ChainKept ==
  ASSUME NEW r, NEW n, NEW a, NEW q, NEW k, Chain(r, a, q, k),
         n.generation = r.generation, n.generation = 0 => n.status = r.status,
         n.effective.inverted = r.effective.inverted
  PROVE  Chain(n, a, q, k)
  BY DEF Chain, Asks, Reached

\* y may follow the actions of q.
Bridge(a, q, y) == IF Len(q) = 0 THEN Takes(a, y) ELSE Leads(q[Len(q)], y)
\* A start queued while configured or cancelled is one the adapter will take.
LEMMA BridgeStart ==
  ASSUME NEW r, NEW a, NEW q \in Seq(Actions), NEW y, Chain(r, a, q, 0),
         r.generation = 0, r.status \in {"Configured", "Cancelled"}, y.kind = "Start"
  PROVE  Bridge(a, q, y)
  <1>1. Len(q) = 0 \/ 0 < Len(q)
    BY SMTT(30)
  <1>2. CASE Len(q) = 0
    <2>1. ~(0 < Len(q))
      BY <1>2, SMTT(30)
    <2> QED BY <1>2, <2>1 DEF Chain, Reached, Bridge, Takes
  <1>3. CASE 0 < Len(q)
    <2>1. Len(q) # 0
      BY <1>3, SMTT(30)
    <2> QED BY <1>3, <2>1 DEF Chain, Asks, Bridge, Leads
  <1> QED BY <1>1, <1>2, <1>3
\* A cancellation of the running generation is one the adapter will take.
LEMMA BridgeCancel ==
  ASSUME NEW r, NEW a, NEW q \in Seq(Actions), NEW y, Chain(r, a, q, 0),
         r.generation # 0, y.kind = "Cancel", y.generation = r.generation
  PROVE  Bridge(a, q, y)
  <1>1. Len(q) = 0 \/ 0 < Len(q)
    BY SMTT(30)
  <1>2. CASE Len(q) = 0
    <2>1. ~(0 < Len(q))
      BY <1>2, SMTT(30)
    <2> QED BY <1>2, <2>1 DEF Chain, Reached, Bridge, Takes
  <1>3. CASE 0 < Len(q)
    <2>1. Len(q) # 0
      BY <1>3, SMTT(30)
    <2> QED BY <1>3, <2>1 DEF Chain, Asks, Bridge, Leads
  <1> QED BY <1>1, <1>2, <1>3

\* A command queues y: it starts afresh with a Configure, or goes on from where the
\* queue leads.
LEMMA ChainPush ==
  ASSUME NEW r, NEW n, NEW a, NEW q \in Seq(Actions), NEW y \in Actions, Asks(n, y),
         \/ y.kind = "Configure"
         \/ /\ Chain(r, a, q, 0) /\ Bridge(a, q, y)
            /\ n.effective.inverted = r.effective.inverted
  PROVE  Chain(n, a, Append(q, y), 0)
  <1> DEFINE p == Append(q, y)
  <1>0. /\ Len(q) \in Nat /\ Len(p) = Len(q) + 1 /\ p[Len(q) + 1] = y
        /\ \A i \in 1..Len(q) : p[i] = q[i]
    BY SMTT(30)
  <1> HIDE DEF p
  <1>1. 0 < Len(p) /\ Len(p) \in 1..Len(p) /\ 0 + 1 = 1
    BY <1>0, SMTT(30)
  <1>2. IF 0 < Len(p) THEN Asks(n, p[Len(p)]) ELSE Reached(n, a)
    BY <1>0, <1>1
  <1>3. CASE y.kind = "Configure"
    <2>1. ASSUME NEW i \in 1..Len(p) PROVE ~NoConfigure(p, i)
      <3>1. Len(p) \in i..Len(p)
        BY <1>0, SMTT(30)
      <3> QED BY <3>1, <1>0, <1>3 DEF NoConfigure
    <2>2. 1 \in 1..Len(p)
      BY <1>0, SMTT(30)
    <2> QED BY <1>1, <1>2, <2>1, <2>2 DEF Chain, p
  <1>4. CASE /\ Chain(r, a, q, 0) /\ Bridge(a, q, y)
             /\ n.effective.inverted = r.effective.inverted
    <2>1. ASSUME NEW i \in Nat, NoConfigure(p, i), 0 < i PROVE NoConfigure(q, i)
      <3>1. ASSUME NEW j \in i..Len(q) PROVE q[j].kind # "Configure"
        <4>1. j \in i..Len(p) /\ j \in 1..Len(q)
          BY <1>0, <2>1, SMTT(30)
        <4> QED BY <4>1, <1>0, <2>1 DEF NoConfigure
      <3> QED BY <3>1 DEF NoConfigure
    <2>2. ASSUME NEW i \in 1..Len(p), NoConfigure(p, i)
          PROVE  IF i = 1 THEN Takes(a, p[i]) ELSE Leads(p[i - 1], p[i])
      <3>1. CASE i \in 1..Len(q)
        <4>1. i \in Nat /\ 0 < i /\ (i # 1 => i - 1 \in 1..Len(q))
          BY <1>0, <3>1, SMTT(30)
        <4>2. NoConfigure(q, i)
          BY <2>1, <2>2, <4>1
        <4>3. IF i = 1 THEN Takes(a, q[i]) ELSE Leads(q[i - 1], q[i])
          BY <1>1, <1>4, <3>1, <4>2 DEF Chain
        <4> QED BY <1>0, <3>1, <4>1, <4>3
      <3>2. CASE i = Len(q) + 1
        <4>1. /\ i = 1 <=> Len(q) = 0
              /\ i # 1 => i - 1 = Len(q) /\ Len(q) \in 1..Len(q)
          BY <1>0, <3>2, SMTT(30)
        <4> QED BY <1>0, <1>4, <3>2, <4>1 DEF Bridge
      <3> QED BY <1>0, <3>1, <3>2, SMTT(30)
    <2>3. NoConfigure(p, 1) => a.inverted = n.effective.inverted
      <3>1. 1 \in Nat /\ 0 < 1
        BY SMTT(30)
      <3> QED BY <3>1, <2>1, <1>1, <1>4 DEF Chain
    <2> QED BY <1>1, <1>2, <2>2, <2>3 DEF Chain, p
  <1> QED BY <1>3, <1>4

\* Queueing an action whose generation, if it starts one, is new keeps the queue fresh.
LEMMA FreshPush ==
  ASSUME NEW a, NEW q \in Seq(Actions), NEW y \in Actions, NEW next \in Nat, NEW m \in Nat,
         a.highest \in Nat, Fresh(a, q, 0, next), next <= m,
         y.kind = "Start" => next <= y.generation /\ y.generation < m
  PROVE  Fresh(a, Append(q, y), 0, m)
  <1> DEFINE p == Append(q, y)
             h == a.highest
             g == y.generation
  <1>0. /\ Len(q) \in Nat /\ Len(p) = Len(q) + 1 /\ p[Len(q) + 1] = y
        /\ \A i \in 1..Len(q) : p[i] = q[i] /\ q[i] \in Actions
    BY SMTT(30)
  <1>1. h \in Nat /\ h < next /\ g \in Nat
    BY Bounds DEF Fresh, Actions
  <1>2. 0 + 1 = 1 /\ h < m
    BY <1>1, SMTT(30)
  <1>3. y.kind = "Start" => h < g /\ g < m
    <2> HIDE DEF h, g
    <2> QED BY <1>1, SMTT(30) DEF g
  <1>4. ASSUME NEW i \in 1..Len(q), q[i].kind = "Start"
        PROVE  h < q[i].generation /\ q[i].generation < m
               /\ (y.kind = "Start" => q[i].generation < g)
    <2> DEFINE x == q[i].generation
    <2>1. x \in Nat /\ h < x /\ x < next
      BY <1>0, <1>2, <1>4, Bounds DEF Fresh, Actions
    <2> HIDE DEF x, g, h, p
    <2>2. x < m
      BY <2>1, SMTT(30)
    <2>3. y.kind = "Start" => x < g
      <3>1. y.kind = "Start" => next <= g
        BY DEF g
      <3> QED BY <2>1, <3>1, <1>1, SMTT(30)
    <2> QED BY <2>1, <2>2, <2>3 DEF x
  <1> HIDE DEF p, h, g
  <1>5. \A i \in 1..Len(p) : i \in 1..Len(q) \/ i = Len(q) + 1
    BY <1>0, SMTT(30)
  <1>6. \A i \in 1..Len(p) :
            p[i].kind = "Start" => h < p[i].generation /\ p[i].generation < m
    BY <1>0, <1>3, <1>4, <1>5 DEF g
  <1>7. ASSUME NEW i \in 1..Len(p), NEW j \in 1..Len(p), i < j, p[i].kind = "Start",
               p[j].kind = "Start"
        PROVE  p[i].generation < p[j].generation
    <2>1. i \in 1..Len(q)
      BY <1>0, <1>7, SMTT(30)
    <2>2. CASE j = Len(q) + 1
      BY <1>0, <1>4, <1>7, <2>1, <2>2 DEF g
    <2>3. CASE j \in 1..Len(q)
      BY <1>0, <1>2, <1>7, <2>1, <2>3 DEF Fresh
    <2> QED BY <1>5, <2>2, <2>3
  <1> QED BY <1>2, <1>6, <1>7 DEF Fresh, p, h

-----------------------------------------------------------------------------
\* The adapters.

\* The fields of an adapter.
LEMMA AdapterParts ==
  ASSUME NEW a \in AdapterStates
  PROVE  /\ a.lifecycle \in Lifecycles /\ a.generation \in BreathGenerations
         /\ a.highest \in BreathGenerations /\ a.highest \in Nat /\ a.generation \in Nat
         /\ a.inverted \in BOOLEAN /\ a.phase \in Parameters \cup {"none"}
         /\ a.phaseInverted \in BOOLEAN
  <1>1. a.highest \in BreathGenerations /\ a.generation \in BreathGenerations
    BY DEF AdapterStates
  <1>2. a.highest \in Nat /\ a.generation \in Nat
    BY <1>1, Bounds
  <1> QED BY <1>1, <1>2 DEF AdapterStates

\* The adapter that is absent and the one that is new.
LEMMA AdapterNones ==
  /\ NewAdapter \in AdapterStates /\ NoAdapter \in AdapterStates
  /\ NewAdapter.highest = 0 /\ NoAdapter.highest = 0
  <1>1. NewAdapter \in AdapterStates
    BY Bounds DEF NewAdapter, AdapterStates, Lifecycles
  <1>2. NewAdapter.highest = 0
    BY DEF NewAdapter
  <1> HIDE DEF NewAdapter
  <1>3. "absent" \in Lifecycles
    BY DEF Lifecycles
  <1>4. NoAdapter \in AdapterStates /\ NoAdapter.highest = NewAdapter.highest
    BY <1>1, <1>3 DEF NoAdapter, AdapterStates
  <1> QED BY <1>1, <1>2, <1>4

\* What start, cancel and reset do to a calibration.
LEMMA AdapterActs ==
  ASSUME NEW a \in AdapterStates, NEW g \in BreathGenerations
  PROVE  /\ AdapterStarted(a, g) \in AdapterStates
         /\ AdapterStarted(a, g).inverted = a.inverted
         /\ AdapterStarted(a, g).highest \in {a.highest, g}
         /\ a.lifecycle \in {"Configured", "Cancelled"} /\ a.highest < g =>
               /\ AdapterStarted(a, g).lifecycle = "Active"
               /\ AdapterStarted(a, g).generation = g
         /\ AdapterCancelled(a, g) \in AdapterStates
         /\ AdapterCancelled(a, g).inverted = a.inverted
         /\ AdapterCancelled(a, g).highest = a.highest
         /\ a.lifecycle \in {"Active", "Failed"} /\ a.generation = g =>
               AdapterCancelled(a, g).lifecycle = "Cancelled"
         /\ AdapterReset(a) \in AdapterStates
         /\ AdapterReset(a).inverted = a.inverted /\ AdapterReset(a).highest = a.highest
  <1>0. /\ "Active" \in Lifecycles /\ "Cancelled" \in Lifecycles
        /\ "Disabled" \in Lifecycles /\ 0 \in BreathGenerations
    BY Bounds DEF Lifecycles
  <1>1. /\ AdapterStarted(a, g) \in AdapterStates
        /\ AdapterStarted(a, g).inverted = a.inverted
        /\ AdapterStarted(a, g).highest \in {a.highest, g}
    <2> DEFINE b == [a EXCEPT !.lifecycle = "Active", !.generation = g, !.highest = g]
    <2>1. b \in AdapterStates
      BY <1>0 DEF AdapterStates
    <2>2. b.inverted = a.inverted /\ b.highest = g
      BY DEF AdapterStates
    <2>3. AdapterStarted(a, g) \in {a, b}
      BY DEF AdapterStarted
    <2> HIDE DEF b
    <2> QED BY <2>1, <2>2, <2>3
  <1>2. ASSUME a.lifecycle \in {"Configured", "Cancelled"}, a.highest < g
        PROVE  /\ AdapterStarted(a, g).lifecycle = "Active"
               /\ AdapterStarted(a, g).generation = g
    <2> DEFINE b == [a EXCEPT !.lifecycle = "Active", !.generation = g, !.highest = g]
    <2>1. b.lifecycle = "Active" /\ b.generation = g
      BY DEF AdapterStates
    <2> DEFINE h == a.highest
    <2>2. h \in Nat /\ g \in Nat /\ h < g
      BY <1>2, AdapterParts, Bounds
    <2> HIDE DEF h
    <2>3. g > h
      BY <2>2, SMTT(30)
    <2>4. AdapterStarted(a, g) = b
      BY <1>2, <2>3 DEF AdapterStarted, h
    <2> QED BY <2>1, <2>4
  <1>3. /\ AdapterCancelled(a, g) \in AdapterStates
        /\ AdapterCancelled(a, g).inverted = a.inverted
        /\ AdapterCancelled(a, g).highest = a.highest
    <2> DEFINE b == [a EXCEPT !.lifecycle = "Cancelled", !.generation = 0]
    <2>1. b \in AdapterStates
      BY <1>0 DEF AdapterStates
    <2>2. b.inverted = a.inverted /\ b.highest = a.highest
      BY DEF AdapterStates
    <2>3. AdapterCancelled(a, g) \in {a, b}
      BY DEF AdapterCancelled
    <2> HIDE DEF b
    <2> QED BY <2>1, <2>2, <2>3
  <1>4. a.lifecycle \in {"Active", "Failed"} /\ a.generation = g =>
            AdapterCancelled(a, g).lifecycle = "Cancelled"
    BY DEF AdapterCancelled, AdapterStates
  <1>5. /\ AdapterReset(a) \in AdapterStates
        /\ AdapterReset(a).inverted = a.inverted /\ AdapterReset(a).highest = a.highest
    <2> DEFINE b == [a EXCEPT !.lifecycle = "Disabled", !.generation = 0]
    <2>1. b \in AdapterStates
      BY <1>0 DEF AdapterStates
    <2>2. b.inverted = a.inverted /\ b.highest = a.highest
      BY DEF AdapterStates
    <2>3. AdapterReset(a) \in {a, b}
      BY DEF AdapterReset
    <2> HIDE DEF b
    <2> QED BY <2>1, <2>2, <2>3
  <1> QED BY <1>1, <1>2, <1>3, <1>4, <1>5

\* One action applied: what it is to the queue behind it.
LEMMA AppliedParts ==
  ASSUME NEW a \in AdapterStates, NEW s \in Sources, NEW y \in Actions,
         NEW e \in Requests \cup {NoRequest}, NEW par \in Parameters \cup {"none"}
  PROVE  /\ Applied(a, s, y, e, par) \in AdapterStates
         /\ Raises(a, y, Applied(a, s, y, e, par))
         /\ e # NoRequest => Moves(e.inverted, a, y, Applied(a, s, y, e, par))
  <1> DEFINE b == Applied(a, s, y, e, par)
  <1>0. /\ y.generation \in BreathGenerations
        /\ y.kind \in {"Configure", "Start", "Cancel", "Reset"}
    BY DEF Actions
  <1>1. CASE y.kind = "Configure" /\ e # NoRequest
    <2> DEFINE h == IF s = "Polar" THEN 0 ELSE a.highest
               c == [lifecycle |-> "Configured", generation |-> 0, highest |-> h,
                     inverted |-> e.inverted, phase |-> par, phaseInverted |-> e.inverted]
    <2>1. b = c
      BY <1>1 DEF Applied
    <2>2. e.inverted \in BOOLEAN /\ "Configured" \in Lifecycles
      BY <1>1 DEF Requests, Lifecycles
    <2>3. h \in BreathGenerations /\ h <= a.highest
      <3>1. a.highest \in Nat
        BY AdapterParts
      <3>2. 0 <= a.highest /\ a.highest <= a.highest
        BY <3>1, SMTT(30)
      <3> QED BY <3>2, AdapterParts, Bounds
    <2> HIDE DEF h, b
    <2>4. c \in AdapterStates
      BY <2>2, <2>3, Bounds DEF AdapterStates
    <2>5. c.lifecycle = "Configured" /\ c.highest = h /\ c.inverted = e.inverted
      OBVIOUS
    <2> HIDE DEF c
    <2> QED BY <1>1, <2>1, <2>3, <2>4, <2>5 DEF b, Raises, Moves
  <1>2. CASE y.kind = "Configure" /\ e = NoRequest
    <2>1. b \in {a, NoAdapter}
      BY <1>2 DEF Applied
    <2>2. a.highest \in Nat
      BY AdapterParts
    <2>3. 0 <= a.highest /\ a.highest <= a.highest
      BY <2>2, SMTT(30)
    <2> HIDE DEF b
    <2> QED BY <1>2, <2>1, <2>3, AdapterNones DEF b, Raises
  <1>3. CASE y.kind = "Start"
    <2>1. b = AdapterStarted(a, y.generation)
      BY <1>3 DEF Applied
    <2> HIDE DEF b
    <2> DEFINE g == y.generation
    <2>2. /\ b \in AdapterStates /\ b.inverted = a.inverted /\ b.highest \in {a.highest, g}
          /\ a.lifecycle \in {"Configured", "Cancelled"} /\ a.highest < g =>
                b.lifecycle = "Active" /\ b.generation = g
      BY <1>0, <2>1, AdapterActs
    <2> QED BY <1>3, <2>2 DEF b, Raises, Moves, Takes
  <1>4. CASE y.kind = "Cancel"
    <2>1. b = AdapterCancelled(a, y.generation)
      BY <1>4 DEF Applied
    <2> HIDE DEF b
    <2>2. /\ b \in AdapterStates /\ b.inverted = a.inverted /\ b.highest = a.highest
          /\ a.lifecycle \in {"Active", "Failed"} /\ a.generation = y.generation =>
                b.lifecycle = "Cancelled"
      BY <1>0, <2>1, AdapterActs
    <2>3. b.highest <= a.highest
      BY <2>2, AdapterParts, SMTT(30)
    <2> QED BY <1>4, <2>2, <2>3 DEF b, Raises, Moves, Takes
  <1>5. CASE y.kind = "Reset"
    <2>1. b = AdapterReset(a)
      BY <1>5 DEF Applied
    <2> HIDE DEF b
    <2>2. b \in AdapterStates /\ b.inverted = a.inverted /\ b.highest = a.highest
      BY <1>0, <2>1, AdapterActs
    <2>3. b.highest <= a.highest
      BY <2>2, AdapterParts, SMTT(30)
    <2> QED BY <1>5, <2>2, <2>3 DEF b, Raises, Moves, Takes
  <1> QED BY <1>0, <1>1, <1>2, <1>3, <1>4, <1>5

\* The controller's adapter has seen the same whatever is selected when it applies.
LEMMA AppliedHighest ==
  ASSUME NEW a, NEW y \in Actions, NEW e, NEW f, NEW par
  PROVE  Applied(a, "Controller", y, e, par).highest = Applied(a, "Controller", y, f, par).highest
  <1>0. y.kind \in {"Configure", "Start", "Cancel", "Reset"}
    BY DEF Actions
  <1>1. CASE y.kind = "Configure"
    <2>1. \A x : Applied(a, "Controller", y, x, par).highest = a.highest
      <3> SUFFICES ASSUME NEW x PROVE Applied(a, "Controller", y, x, par).highest = a.highest
        OBVIOUS
      <3>1. CASE x = NoRequest
        BY <1>1, <3>1 DEF Applied
      <3>2. CASE x # NoRequest
        BY <1>1, <3>2 DEF Applied
      <3> QED BY <3>1, <3>2
    <2> QED BY <2>1
  <1>2. CASE y.kind = "Start"
    BY <1>2 DEF Applied
  <1>3. CASE y.kind = "Cancel"
    BY <1>3 DEF Applied
  <1>4. CASE y.kind = "Reset"
    BY <1>4 DEF Applied
  <1> QED BY <1>0, <1>1, <1>2, <1>3, <1>4

\* Of the selection it reads only the direction.
LEMMA AppliedDirection ==
  ASSUME NEW a, NEW s, NEW y \in Actions, NEW e, NEW f, NEW par, e # NoRequest,
         f # NoRequest, e.inverted = f.inverted
  PROVE  Applied(a, s, y, e, par) = Applied(a, s, y, f, par)
  <1>0. y.kind \in {"Configure", "Start", "Cancel", "Reset"}
    BY DEF Actions
  <1>1. CASE y.kind = "Configure"
    BY <1>1 DEF Applied
  <1>2. CASE y.kind = "Start"
    BY <1>2 DEF Applied
  <1>3. CASE y.kind = "Cancel"
    BY <1>3 DEF Applied
  <1>4. CASE y.kind = "Reset"
    BY <1>4 DEF Applied
  <1> QED BY <1>0, <1>1, <1>2, <1>3, <1>4

\* What the calibration answers is a calibration; a frame only fails one.
LEMMA AnswersParts ==
  ASSUME NEW a \in AdapterStates, NEW y, NEW fails \in BOOLEAN
  PROVE  /\ Receipt(a, y) \in Latests /\ FailedAnswer(a, fails) \in Latests
         /\ AfterFrame(a, fails) \in AdapterStates /\ Alike(a, AfterFrame(a, fails))
  <1>1. a.generation \in BreathGenerations
    BY AdapterParts
  <1>2. ASSUME NEW l \in {"Active", "Failed"}
        PROVE  [lifecycle |-> l, generation |-> a.generation] \in Latests
    BY <1>1 DEF Latests
  <1>3. Receipt(a, y) \in Latests
    BY <1>2, Nones DEF Receipt
  <1>4. FailedAnswer(a, fails) \in Latests
    BY <1>2, Nones DEF FailedAnswer, Answer
  <1>5. AfterFrame(a, fails) \in AdapterStates
    BY DEF AfterFrame, AdapterStates, Lifecycles
  <1>6. Alike(a, AfterFrame(a, fails))
    <2> DEFINE b == [a EXCEPT !.lifecycle = "Failed"]
    <2>1. /\ b.generation = a.generation /\ b.inverted = a.inverted
          /\ b.highest = a.highest /\ b.lifecycle = "Failed"
      BY DEF AdapterStates
    <2>2. CASE fails /\ a.lifecycle = "Active"
      <3>1. AfterFrame(a, fails) = b
        BY <2>2 DEF AfterFrame
      <3> HIDE DEF b
      <3> QED BY <2>1, <2>2, <3>1 DEF Alike
    <2>3. CASE ~(fails /\ a.lifecycle = "Active")
      <3>1. AfterFrame(a, fails) = a
        BY <2>3 DEF AfterFrame
      <3>2. Alike(a, a)
        BY DEF Alike
      <3> QED BY <3>1, <3>2
    <2> QED BY <2>2, <2>3
  <1> QED BY <1>3, <1>4, <1>5, <1>6

-----------------------------------------------------------------------------
\* The adapters follow the authority.

\* The adapter of s as it is once the action in the XR thread's hand is applied; a
\* controller adapter that an ended XR session left behind is as good as new.
Base(r, ads, fr, s) ==
    IF s = "Polar" THEN ads["Polar"]
    ELSE IF fr.at = "gone" THEN NewAdapter
    ELSE IF fr.at = "apply"
    THEN Applied(ads["Controller"], "Controller", fr.hand, r.effective, "none")
    ELSE ads["Controller"]

\* Another feature that runs the controller's adapter as well moves it as it likes.
Tracked(s) == s = "Polar" \/ ~ControllerElsewhere

\* The reset of a guided arm that times out always finds room.
Room(r) ==
    r.effective.source = "Polar" /\ r.generation # 0 =>
        Len(r.pending["Controller"]) < QueueCapacity

Follow(r, ads, fr) ==
    /\ \A s \in Sources :
          Tracked(s) => Fresh(Base(r, ads, fr, s), r.pending[s], 0, r.next)
    /\ Live(r) /\ Tracked(r.effective.source) =>
          Chain(r, Base(r, ads, fr, r.effective.source), r.pending[r.effective.source], 0)
    /\ Room(r)

Bodies == [Sources -> AdapterStates]

\* The adapter as it will be depends on the runtime by the direction alone.
LEMMA BaseParts ==
  ASSUME NEW r \in Runtimes, NEW ads \in Bodies, NEW fr \in Frames, NEW s \in Sources
  PROVE  /\ Base(r, ads, fr, s) \in AdapterStates /\ Base(r, ads, fr, s).highest \in Nat
         /\ \A n \in Runtimes :
               /\ Base(n, ads, fr, s).highest = Base(r, ads, fr, s).highest
               /\ /\ n.effective # NoRequest /\ r.effective # NoRequest
                  /\ n.effective.inverted = r.effective.inverted
                  => Base(n, ads, fr, s) = Base(r, ads, fr, s)
  <1>0. /\ ads["Controller"] \in AdapterStates /\ ads["Polar"] \in AdapterStates
        /\ fr.hand \in Actions /\ "Controller" \in Sources
        /\ r.effective \in Requests \cup {NoRequest}
    BY RuntimeParts DEF Bodies, Frames, Sources
  <1>1. Base(r, ads, fr, s) \in AdapterStates
    <2>1. Applied(ads["Controller"], "Controller", fr.hand, r.effective, "none")
              \in AdapterStates
      BY <1>0, AppliedParts
    <2> QED BY <1>0, <2>1, AdapterNones DEF Base
  <1>2. Base(r, ads, fr, s).highest \in Nat
    BY <1>1, AdapterParts
  <1>3. ASSUME NEW n \in Runtimes
        PROVE  Base(n, ads, fr, s).highest = Base(r, ads, fr, s).highest
    <2> DEFINE a == ads["Controller"]
               y == fr.hand
    <2>0. y \in Actions
      BY <1>0
    <2> HIDE DEF a, y
    <2>1. Applied(a, "Controller", y, n.effective, "none").highest =
          Applied(a, "Controller", y, r.effective, "none").highest
      BY <2>0, AppliedHighest
    <2> QED BY <2>1 DEF Base, a, y
  <1>4. ASSUME NEW n \in Runtimes, n.effective # NoRequest, r.effective # NoRequest,
               n.effective.inverted = r.effective.inverted
        PROVE  Base(n, ads, fr, s) = Base(r, ads, fr, s)
    <2>1. Applied(ads["Controller"], "Controller", fr.hand, n.effective, "none") =
          Applied(ads["Controller"], "Controller", fr.hand, r.effective, "none")
      BY <1>0, <1>4, AppliedDirection
    <2> QED BY <2>1 DEF Base
  <1> QED BY <1>1, <1>2, <1>3, <1>4

\* A new runtime whose queues are still fresh, and lead where it is.
LEMMA FollowNew ==
  ASSUME NEW r \in Runtimes, NEW n \in Runtimes, NEW ads \in Bodies, NEW fr \in Frames,
         Follow(r, ads, fr), Room(n),
         \A s \in Sources : \A a \in AdapterStates :
             Fresh(a, r.pending[s], 0, r.next) => Fresh(a, n.pending[s], 0, n.next),
         Live(n) /\ Tracked(n.effective.source) =>
             /\ n.effective # NoRequest
             /\ Chain(n, Base(n, ads, fr, n.effective.source),
                      n.pending[n.effective.source], 0)
  PROVE  Follow(n, ads, fr)
  <1>1. ASSUME NEW s \in Sources, Tracked(s)
        PROVE  Fresh(Base(n, ads, fr, s), n.pending[s], 0, n.next)
    <2>1. Fresh(Base(r, ads, fr, s), r.pending[s], 0, r.next)
      BY <1>1 DEF Follow
    <2>2. Base(r, ads, fr, s) \in AdapterStates
          /\ Base(n, ads, fr, s).highest = Base(r, ads, fr, s).highest
      BY BaseParts
    <2>3. Fresh(Base(r, ads, fr, s), n.pending[s], 0, n.next)
      BY <2>1, <2>2
    <2> QED BY <2>2, <2>3, FreshAlike
  <1> QED BY <1>1 DEF Follow

\* A change that queues nothing and keeps the course, if there is one.
LEMMA FollowKept ==
  ASSUME NEW r \in Runtimes, NEW n \in Runtimes, NEW ads \in Bodies, NEW fr \in Frames,
         Follow(r, ads, fr), n.pending = r.pending, n.next = r.next,
         Live(n) => /\ Live(r) /\ n.generation = r.generation
                    /\ n.generation = 0 => n.status = r.status
                    /\ r.effective # NoRequest /\ n.effective # NoRequest
                    /\ n.effective.source = r.effective.source
                    /\ n.effective.inverted = r.effective.inverted
  PROVE  Follow(n, ads, fr)
  <1>1. Room(n)
    BY DEF Follow, Room, Live
  <1>2. ASSUME Live(n), Tracked(n.effective.source)
        PROVE  /\ n.effective # NoRequest
               /\ Chain(n, Base(n, ads, fr, n.effective.source),
                        n.pending[n.effective.source], 0)
    <2> DEFINE s == r.effective.source
               a == Base(r, ads, fr, s)
    <2>1. Chain(r, a, r.pending[s], 0) /\ s \in Sources
      BY <1>2, SourceOf DEF Follow
    <2>2. Base(n, ads, fr, s) = a
      BY <1>2, <2>1, BaseParts
    <2> HIDE DEF a
    <2>3. Chain(n, a, r.pending[s], 0)
      BY <1>2, <2>1, ChainKept
    <2> QED BY <1>2, <2>2, <2>3
  <1> QED BY <1>1, <1>2, FollowNew

\* A queue extended by no action, or by one.
LEMMA ConcatParts ==
  ASSUME NEW q \in Seq(Actions), NEW y \in Actions
  PROVE  q \o <<>> = q /\ q \o <<y>> = Append(q, y) /\ Append(q, y) \in Seq(Actions)
  BY SMTT(30)

\* Queueing a reset, or nothing, keeps the queue fresh.
LEMMA FreshReset ==
  ASSUME NEW q \in Seq(Actions), NEW acts \in {<<>>, <<Act("Reset", 0)>>}, NEW next \in Nat,
         NEW a \in AdapterStates, Fresh(a, q, 0, next)
  PROVE  Fresh(a, q \o acts, 0, next)
  <1> DEFINE y == Act("Reset", 0)
  <1>1. y \in Actions /\ y.kind = "Reset"
    BY ActionParts
  <1> HIDE DEF y
  <1>2. next <= next /\ a.highest \in Nat
    BY AdapterParts, SMTT(30)
  <1>3. Fresh(a, Append(q, y), 0, next)
    BY <1>1, <1>2, FreshPush
  <1> QED BY <1>1, <1>3, ConcatParts DEF y

\* select
LEMMA SelectFollows ==
  ASSUME NEW r, Sound(r), NEW ads \in Bodies, NEW fr \in Frames, Follow(r, ads, fr),
         NEW request \in Requests \cup {NoRequest}
  PROVE  Follow(AfterSelect(r, request), ads, fr)
  <1> DEFINE c == Selected(r, request)
             acts == SelectActions(r, request)
             clear == request = NoRequest \/ HardResets(r, request)
             n == AfterSelect(r, request)
  <1>1. r \in Runtimes /\ Shape(r)
    BY DEF Sound
  <1>2. /\ c \in Runtimes /\ c.next = r.next /\ Reassessed(r, c, request)
        /\ acts \in Queues /\ clear \in BOOLEAN
        /\ \A s \in Sources : acts[s] \in {<<>>, <<Act("Reset", 0)>>}
        /\ ~HardResets(r, request) => acts = Nothing
    BY <1>1, SelectedParts, SelectActionsParts
  <1>3. n = Commit(r, c, acts, clear)
    BY DEF AfterSelect
  <1> HIDE DEF c, acts, clear, n
  <1>4. CASE ~Fits(r, acts)
    BY <1>3, <1>4 DEF Commit, n
  <1>5. CASE Fits(r, acts)
    <2>1. /\ n \in Runtimes /\ n.effective = c.effective /\ n.status = c.status
          /\ n.generation = c.generation /\ n.next = r.next
          /\ n.pending = Extended(r.pending, acts)
      BY <1>1, <1>2, <1>3, <1>5, CommitParts
    <2>0. r.pending \in Queues /\ n.pending \in Queues
      BY <1>1, <2>1, RuntimeParts
    <2>2. /\ \A s \in Sources : n.pending[s] = r.pending[s] \o acts[s]
          /\ \A s \in Sources : r.pending[s] \in Seq(Actions)
      <3>1. \A s \in Sources : r.pending[s] \in Seq(Actions)
        BY <2>0 DEF Queues
      <3>2. \A s \in Sources : Extended(r.pending, acts)[s] = r.pending[s] \o acts[s]
        BY <1>2, <2>0, ExtendedParts
      <3> QED BY <3>1, <3>2, <2>1
    <2>3. CASE Live(n)
      <3>1. /\ SameAssessment(r.effective, request) /\ c.effective = request
            /\ request # NoRequest /\ Supported(request)
            /\ c.generation = r.generation
            /\ c.generation = 0 => c.status = r.status
        BY <1>2, <2>1, <2>3 DEF Live, Reassessed
      <3>2. ~HardResets(r, request)
        BY <3>1 DEF HardResets
      <3>3. n.pending = r.pending
        <4>1. ASSUME NEW s \in Sources PROVE n.pending[s] = r.pending[s]
          <5>1. acts[s] = <<>> /\ n.pending[s] = r.pending[s] \o acts[s]
                /\ r.pending[s] \in Seq(Actions)
            BY <1>2, <2>2, <3>2, QueueParts
          <5>2. \A q \in Seq(Actions) : q \o <<>> = q
            BY SMTT(30)
          <5> QED BY <5>1, <5>2
        <4>2. /\ n.pending = [s \in Sources |-> n.pending[s]]
              /\ r.pending = [s \in Sources |-> r.pending[s]]
          BY <2>0 DEF Queues
        <4>3. [s \in Sources |-> n.pending[s]] = [s \in Sources |-> r.pending[s]]
          BY <4>1
        <4> QED BY <4>2, <4>3
      <3>4. r.effective # NoRequest
        <4>1. request.source \in Sources
          BY <3>1 DEF Requests
        <4> QED BY <4>1, <3>1, Nones DEF SameAssessment
      <3>5. Live(r)
        BY <2>1, <2>3, <3>1 DEF Live
      <3> QED BY <1>1, <2>1, <3>1, <3>3, <3>4, <3>5, FollowKept DEF SameAssessment, n
    <2>4. CASE ~Live(n)
      <3>1. Room(n)
        BY <2>4 DEF Live, Room
      <3>2. ASSUME NEW s \in Sources, NEW a \in AdapterStates,
                   Fresh(a, r.pending[s], 0, r.next)
            PROVE  Fresh(a, n.pending[s], 0, n.next)
        BY <3>2, <1>1, <1>2, <2>1, <2>2, FreshReset, RuntimeParts
      <3> QED BY <1>1, <2>1, <2>4, <3>1, <3>2, FollowNew DEF n
    <2> QED BY <2>3, <2>4
  <1> QED BY <1>4, <1>5

\* n is r after a transition to c that queued the actions q for the selected source.
Pushed(n, r, c, q) ==
    LET s == r.effective.source IN
    /\ n \in Runtimes /\ n.effective = c.effective /\ n.status = c.status
    /\ n.generation = c.generation /\ n.next = c.next
    /\ n.pending[s] = r.pending[s] \o q
    /\ \A t \in Sources : t # s => n.pending[t] = r.pending[t]
    /\ r.pending[s] \in Seq(Actions) /\ s \in Sources
\* What a command on the selected source does to the queues.
LEMMA OnSourceParts ==
  ASSUME NEW r \in Runtimes, r.effective # NoRequest, NEW c \in Runtimes,
         NEW q \in Seq(Actions), NEW clear \in BOOLEAN, Fits(r, For(r.effective.source, q))
  PROVE  Pushed(OnSource(r, q, c, clear), r, c, q)
  <1> DEFINE s == r.effective.source
             acts == For(s, q)
             n == Commit(r, c, acts, clear)
  <1>1. s \in Sources
    BY SourceOf
  <1>2. /\ acts \in Queues /\ acts[s] = q
        /\ \A t \in Sources : t # s => acts[t] = <<>>
    BY <1>1, QueueParts
  <1>3. OnSource(r, q, c, clear) = n /\ Fits(r, acts)
    BY DEF OnSource
  <1> HIDE DEF acts
  <1>4. /\ n \in Runtimes /\ n.effective = c.effective /\ n.status = c.status
        /\ n.generation = c.generation /\ n.next = c.next
        /\ n.pending = Extended(r.pending, acts)
    BY <1>2, <1>3, CommitParts
  <1> HIDE DEF n
  <1>5. r.pending \in Queues /\ \A t \in Sources : r.pending[t] \in Seq(Actions)
    BY RuntimeParts DEF Queues
  <1>6. \A t \in Sources : n.pending[t] = r.pending[t] \o acts[t]
    <2>1. \A t \in Sources : Extended(r.pending, acts)[t] = r.pending[t] \o acts[t]
      BY <1>2, <1>5, ExtendedParts
    <2> QED BY <2>1, <1>4
  <1>7. \A x \in Seq(Actions) : x \o <<>> = x
    BY SMTT(30)
  <1>8. n.pending[s] = r.pending[s] \o q
    BY <1>1, <1>2, <1>6
  <1>9. \A t \in Sources : t # s => n.pending[t] = r.pending[t]
    BY <1>2, <1>5, <1>6, <1>7
  <1> QED BY <1>1, <1>3, <1>4, <1>5, <1>8, <1>9 DEF Pushed

\* With an action queued for Polar the controller's queue is not full.
LEMMA RoomLeft ==
  ASSUME NEW n, Sound(n), n.pending["Polar"] # <<>>
  PROVE  Len(n.pending["Controller"]) < QueueCapacity
  <1> DEFINE p == n.pending["Polar"]
             q == n.pending["Controller"]
  <1>1. p \in Seq(Actions) /\ q \in Seq(Actions) /\ p # <<>>
        /\ Len(q) + Len(p) <= QueueCapacity
    BY RuntimeParts DEF Sound, Total
  <1> HIDE DEF p, q
  <1>2. Len(q) < QueueCapacity
    BY <1>1, Bounds, SMTT(30)
  <1> QED BY <1>2 DEF q

\* A transition on the selected source that queues q: the queues stay fresh, and a
\* course is the one of q.
GoesOn(r, c, new, p) ==
    LET q == r.pending[r.effective.source] IN
    /\ c.effective = r.effective /\ q \o new = p /\ p # <<>>
    /\ \A a \in AdapterStates : Fresh(a, q, 0, r.next) => Fresh(a, p, 0, c.next)
    /\ \A a \in AdapterStates : \A x \in Seq(Actions) :
          Fresh(a, x, 0, r.next) => Fresh(a, x, 0, c.next)
    /\ Live(c) => \A a \in AdapterStates :
                      (Live(r) => Chain(r, a, q, 0)) => Chain(c, a, p, 0)
\* A command on the selected source whose action its adapter will take is followed.
LEMMA OnSourceFollows ==
  ASSUME NEW r, Sound(r), r.effective # NoRequest, NEW ads \in Bodies, NEW fr \in Frames,
         Follow(r, ads, fr), NEW c, NEW q \in Seq(Actions), NEW clear \in BOOLEAN,
         Fits(r, For(r.effective.source, q)) => c \in Runtimes,
         Sound(OnSource(r, q, c, clear)),
         NEW p, GoesOn(r, c, q, p)
  PROVE  Follow(OnSource(r, q, c, clear), ads, fr)
  <1> DEFINE n == OnSource(r, q, c, clear)
             s == r.effective.source
  <1>0. r \in Runtimes
    BY DEF Sound
  <1>1. CASE ~Fits(r, For(r.effective.source, q))
    BY <1>1 DEF OnSource, Commit
  <1>2. CASE Fits(r, For(r.effective.source, q))
    <2>1. /\ n \in Runtimes /\ n.effective = c.effective /\ n.status = c.status
          /\ n.generation = c.generation /\ n.next = c.next
          /\ n.pending[s] = p /\ r.pending[s] \in Seq(Actions) /\ s \in Sources
          /\ \A t \in Sources : t # s => n.pending[t] = r.pending[t]
          /\ c \in Runtimes
      <3>0. c \in Runtimes
        BY <1>2
      <3>1. Pushed(n, r, c, q)
        BY <1>0, <1>2, <3>0, OnSourceParts
      <3>2. r.pending[s] \o q = p
        BY DEF GoesOn
      <3> QED BY <3>0, <3>1, <3>2 DEF Pushed
    <2>2. \A t \in Sources : r.pending[t] \in Seq(Actions)
      BY <1>0, RuntimeParts DEF Queues
    <2>3. Sound(n)
      OBVIOUS
    <2>7. c.effective = r.effective /\ p # <<>>
      BY DEF GoesOn
    <2> HIDE DEF n
    <2>4. \A t \in Sources : \A a \in AdapterStates :
              Fresh(a, r.pending[t], 0, r.next) => Fresh(a, n.pending[t], 0, n.next)
      <3> SUFFICES ASSUME NEW t \in Sources, NEW a \in AdapterStates,
                          Fresh(a, r.pending[t], 0, r.next)
                   PROVE  Fresh(a, n.pending[t], 0, n.next)
        OBVIOUS
      <3>1. CASE t = s
        BY <2>1, <3>1 DEF GoesOn
      <3>2. CASE t # s
        BY <2>1, <2>2, <3>2 DEF GoesOn
      <3> QED BY <3>1, <3>2
    <2>5. Room(n)
      <3> SUFFICES ASSUME n.effective.source = "Polar", n.generation # 0
                   PROVE  Len(n.pending["Controller"]) < QueueCapacity
        BY DEF Room
      <3>1. n.pending["Polar"] # <<>>
        BY <2>1, <2>7
      <3> QED BY <2>3, <3>1, RoomLeft
    <2>6. ASSUME Live(n), Tracked(n.effective.source)
          PROVE  /\ n.effective # NoRequest
                 /\ Chain(n, Base(n, ads, fr, n.effective.source),
                          n.pending[n.effective.source], 0)
      <3> DEFINE a == Base(r, ads, fr, s)
      <3>0. n.effective # NoRequest /\ n.effective.inverted = r.effective.inverted
        BY <2>1, <2>7
      <3>1. a \in AdapterStates /\ Base(n, ads, fr, s) = a
        <4> HIDE DEF s
        <4> QED BY <1>0, <2>1, <3>0, BaseParts
      <3>2. Live(r) => Chain(r, a, r.pending[s], 0)
        BY <2>1, <2>6, <2>7 DEF Follow
      <3> HIDE DEF a
      <3>3. Live(c)
        BY <2>1, <2>6 DEF Live
      <3>4. Chain(c, a, p, 0)
        BY <3>1, <3>2, <3>3 DEF GoesOn
      <3>5. Chain(n, a, p, 0)
        BY <2>1, <3>4, ChainKept
      <3> QED BY <2>1, <2>7, <3>1, <3>5
    <2> QED BY <1>0, <2>1, <2>4, <2>5, <2>6, FollowNew DEF n
  <1> QED BY <1>1, <1>2

\* A hard reset with one action: configure starts a course, cancel goes on with it,
\* reset ends it.
LEMMA RestatedFollows ==
  ASSUME NEW r, Sound(r), r.effective # NoRequest, NEW ads \in Bodies, NEW fr \in Frames,
         Follow(r, ads, fr), NEW y \in Actions,
         NEW s \in {"Configured", "Cancelled", "Selected"},
         s = "Configured" => y.kind = "Configure",
         s = "Cancelled" => y.kind = "Cancel" /\ y.generation = r.generation
                            /\ r.generation # 0,
         y.kind # "Start"
  PROVE  Follow(OnSource(r, <<y>>, Restated(r, s), TRUE), ads, fr)
  <1> DEFINE c == Restated(r, s)
             q == r.pending[r.effective.source]
             p == Append(q, y)
  <1>0. r \in Runtimes /\ s \in Statuses
    BY DEF Sound, Statuses
  <1>1. /\ c \in Runtimes /\ c.effective = r.effective /\ c.status = s
        /\ c.generation = 0 /\ c.next = r.next
    BY <1>0, RestatedParts
  <1>2. q \in Seq(Actions)
    BY <1>0, SourceOf, RuntimeParts DEF Queues
  <1>3. <<y>> \in Seq(Actions) /\ <<y>> # <<>> /\ p \in Seq(Actions) /\ p # <<>>
        /\ q \o <<y>> = p
    <2> HIDE DEF q
    <2> QED BY <1>2, SMTT(30)
  <1>4. Sound(OnSource(r, <<y>>, c, TRUE))
    BY <1>3, RestatedSound
  <1> HIDE DEF c
  <1>5. r.next \in Nat /\ r.next <= c.next
    BY <1>0, <1>1, RuntimeParts, SMTT(30)
  <1>6. ASSUME NEW a \in AdapterStates, Fresh(a, q, 0, r.next)
        PROVE  Fresh(a, p, 0, c.next)
    <2> HIDE DEF q
    <2> QED BY <1>1, <1>2, <1>5, <1>6, FreshPush, AdapterParts
  <1>7. ASSUME NEW a \in AdapterStates, Live(c), Live(r) => Chain(r, a, q, 0)
        PROVE  Chain(c, a, p, 0)
    <2> HIDE DEF q
    <2>1. CASE s = "Configured"
      <3>1. Asks(c, y)
        BY <1>1, <2>1 DEF Asks
      <3> QED BY <1>2, <2>1, <3>1, ChainPush
    <2>2. CASE s = "Cancelled"
      <3>1. Asks(c, y)
        BY <1>1, <2>2 DEF Asks
      <3>2. Chain(r, a, q, 0)
        BY <1>7, <2>2 DEF Live
      <3>3. Bridge(a, q, y)
        BY <1>2, <2>2, <3>2, BridgeCancel
      <3> QED BY <1>1, <1>2, <3>1, <3>2, <3>3, ChainPush
    <2>3. CASE s = "Selected"
      BY <1>1, <1>7, <2>3 DEF Live
    <2> QED BY <2>1, <2>2, <2>3
  <1>8. Follow(OnSource(r, <<y>>, c, TRUE), ads, fr)
    <2>1. \A a \in AdapterStates : \A x \in Seq(Actions) :
              Fresh(a, x, 0, r.next) => Fresh(a, x, 0, c.next)
      BY <1>1
    <2>2. GoesOn(r, c, <<y>>, p)
      BY <1>1, <1>3, <1>6, <1>7, <2>1 DEF GoesOn
    <2> HIDE DEF p
    <2> QED BY <1>1, <1>3, <1>4, <2>2, OnSourceFollows
  <1> QED BY <1>8 DEF c

\* What is fresh stays so when the counter goes on.
LEMMA FreshLater ==
  ASSUME NEW a \in AdapterStates, NEW x \in Seq(Actions), NEW next \in Nat,
         Fresh(a, x, 0, next)
  PROVE  Fresh(a, x, 0, next + 1)
  <1> DEFINE h == a.highest
  <1>1. h \in Nat /\ h < next /\ 0 + 1 = 1
    BY AdapterParts, SMTT(30) DEF Fresh
  <1>2. \A i \in 1..Len(x) : x[i].generation \in Nat
    <2>1. \A i \in 1..Len(x) : x[i] \in Actions
      BY SMTT(30)
    <2> QED BY <2>1, Bounds DEF Actions
  <1>3. \A g \in Nat : g < next => g < next + 1
    BY SMTT(30)
  <1>4. h < next + 1
    BY <1>1, <1>3
  <1>5. \A i \in 1..Len(x) :
            x[i].kind = "Start" => h < x[i].generation /\ x[i].generation < next
    BY <1>1 DEF Fresh
  <1>6. \A i \in 1..Len(x) :
            x[i].kind = "Start" => h < x[i].generation /\ x[i].generation < next + 1
    BY <1>2, <1>3, <1>5
  <1>7. \A i, j \in 1..Len(x) :
            i < j /\ x[i].kind = "Start" /\ x[j].kind = "Start" =>
                x[i].generation < x[j].generation
    BY <1>1 DEF Fresh
  <1> QED BY <1>1, <1>4, <1>6, <1>7 DEF Fresh

\* A start on a source that is configured.
LEMMA StartPushes ==
  ASSUME NEW x \in Runtimes, x.next <= MaxBreath, x.generation = 0,
         x.status \in {"Configured", "Cancelled"}, NEW q \in Seq(Actions)
  PROVE  /\ Act("Start", x.next) \in Actions
         /\ \A a \in AdapterStates : Fresh(a, q, 0, x.next) =>
                Fresh(a, Append(q, Act("Start", x.next)), 0, x.next + 1)
         /\ \A a \in AdapterStates : Chain(x, a, q, 0) =>
                Chain(Started(x), a, Append(q, Act("Start", x.next)), 0)
  <1> DEFINE y == Act("Start", x.next)
  <1>1. x.next \in BreathGenerations /\ x.next \in Nat /\ x.next + 1 \in Nat
        /\ x.next <= x.next + 1 /\ x.next <= x.next /\ x.next < x.next + 1 /\ x.next # 0
    BY RuntimeParts, Bounds, SMTT(30) DEF BreathGenerations
  <1>2. y \in Actions /\ y.kind = "Start" /\ y.generation = x.next
    BY <1>1, ActionParts
  <1>3. /\ Started(x).generation = x.next
        /\ Started(x).effective = x.effective
    BY StartedParts
  <1> HIDE DEF y
  <1>4. ASSUME NEW a \in AdapterStates, Fresh(a, q, 0, x.next)
        PROVE  Fresh(a, Append(q, y), 0, x.next + 1)
    BY <1>1, <1>2, <1>4, FreshPush, AdapterParts
  <1>5. ASSUME NEW a \in AdapterStates, Chain(x, a, q, 0)
        PROVE  Chain(Started(x), a, Append(q, y), 0)
    <2>1. Bridge(a, q, y)
      BY <1>2, <1>5, BridgeStart
    <2>2. Asks(Started(x), y)
      BY <1>1, <1>2, <1>3 DEF Asks
    <2>3. Started(x).effective.inverted = x.effective.inverted
      BY <1>3
    <2> DEFINE n == Started(x)
    <2> HIDE DEF n
    <2> QED BY <1>2, <1>5, <2>1, <2>2, <2>3, ChainPush DEF n
  <1> QED BY <1>2, <1>4, <1>5 DEF y

\* The next generation is within the bound when a start is retained.
LEMMA StartBounded ==
  ASSUME NEW r, NEW x \in Runtimes, NEW q, NEW clear \in BOOLEAN,
         Fits(r, For(r.effective.source, q)),
         OnSource(r, q, Started(x), clear).next <= MaxBreath + 1
  PROVE  x.next <= MaxBreath
  <1> DEFINE acts == For(r.effective.source, q)
  <1>1. OnSource(r, q, Started(x), clear) = Commit(r, Started(x), acts, clear)
    BY DEF OnSource
  <1> HIDE DEF acts
  <1>2. Commit(r, Started(x), acts, clear).next = x.next + 1
    BY CommitNext DEF acts
  <1>3. x.next + 1 <= MaxBreath + 1 /\ x.next \in Nat
    BY <1>1, <1>2, RuntimeParts
  <1> QED BY <1>3, Bounds, SMTT(30)

\* The start command is followed.
LEMMA StartFollows ==
  ASSUME NEW r, Sound(r), Startable(r), NEW ads \in Bodies, NEW fr \in Frames,
         Follow(r, ads, fr),
         OnSource(r, <<Act("Start", r.next)>>, Started(r), FALSE).next <= MaxBreath + 1
  PROVE  LET n == OnSource(r, <<Act("Start", r.next)>>, Started(r), FALSE)
         IN  Sound(n) /\ Follow(n, ads, fr)
  <1> DEFINE y == Act("Start", r.next)
             new == <<y>>
             c == Started(r)
             q == r.pending[r.effective.source]
             p == Append(q, y)
  <1>0. /\ r \in Runtimes /\ r.effective # NoRequest /\ r.generation = 0
        /\ r.status \in {"Configured", "Cancelled"} /\ r.output = NoOutput
    BY DEF Sound, Startable, Shape
  <1>1. CASE ~Fits(r, For(r.effective.source, new))
    BY <1>1 DEF OnSource, Commit
  <1>2. CASE Fits(r, For(r.effective.source, new))
    <2>1. r.next <= MaxBreath
      <3> HIDE DEF new
      <3>1. OnSource(r, new, Started(r), FALSE).next <= MaxBreath + 1
        BY DEF new
      <3> QED BY <1>0, <1>2, <3>1, StartBounded
    <2>2. q \in Seq(Actions)
      BY <1>0, SourceOf, RuntimeParts DEF Queues
    <2>3. /\ y \in Actions
          /\ \A a \in AdapterStates : Fresh(a, q, 0, r.next) => Fresh(a, p, 0, r.next + 1)
          /\ \A a \in AdapterStates : Chain(r, a, q, 0) => Chain(c, a, p, 0)
      <3> HIDE DEF q
      <3> QED BY <1>0, <2>1, <2>2, StartPushes
    <2>4. /\ c \in Runtimes /\ c.effective = r.effective /\ c.next = r.next + 1
      BY <1>0, <2>1, StartedParts
    <2> HIDE DEF c, y
    <2>5. new \in Seq(Actions) /\ q \o new = p /\ p # <<>>
      <3> HIDE DEF q
      <3> QED BY <2>2, <2>3, SMTT(30)
    <2>6. Sound(OnSource(r, new, c, FALSE))
      <3> HIDE DEF new
      <3>1. OnSource(r, new, Started(r), FALSE).next <= MaxBreath + 1
        BY DEF new, y
      <3> QED BY <1>0, <2>5, <3>1, StartSound DEF c
    <2>7. Live(r)
      BY <1>0 DEF Live
    <2>8. \A a \in AdapterStates : \A x \in Seq(Actions) :
              Fresh(a, x, 0, r.next) => Fresh(a, x, 0, c.next)
      BY <1>0, <2>4, FreshLater, RuntimeParts
    <2>9. GoesOn(r, c, new, p)
      BY <2>3, <2>4, <2>5, <2>7, <2>8 DEF GoesOn
    <2> HIDE DEF new, p
    <2>10. Follow(OnSource(r, new, c, FALSE), ads, fr)
      BY <1>0, <2>4, <2>5, <2>6, <2>9, OnSourceFollows
    <2> QED BY <2>6, <2>10 DEF new, c, y
  <1> QED BY <1>1, <1>2

\* The actions of a calibration, one after the other.
LEMMA AppendParts ==
  ASSUME NEW q \in Seq(Actions), NEW y \in Actions
  PROVE  Append(q, y) \in Seq(Actions) /\ Append(q, y) # <<>>
  BY SMTT(30)

\* Extending a queue by three actions is appending them one by one.
LEMMA CalibrationAppends ==
  ASSUME NEW q \in Seq(Actions), NEW x \in Actions, NEW y \in Actions, NEW z \in Actions
  PROVE  q \o (<<x>> \o <<y, z>>) = Append(Append(Append(q, x), y), z)
  BY SMTT(30)

\* Extending a queue by two actions is appending them one by one.
LEMMA CalibrationAppendsTwo ==
  ASSUME NEW q \in Seq(Actions), NEW y \in Actions, NEW z \in Actions
  PROVE  q \o (<<>> \o <<y, z>>) = Append(Append(q, y), z)
  BY SMTT(30)

\* start_calibration is followed, whether or not a generation was running.
LEMMA CalibrationFollows ==
  ASSUME NEW r, Sound(r), r.effective # NoRequest, NEW ads \in Bodies, NEW fr \in Frames,
         Follow(r, ads, fr), AfterStartCalibration(r).next <= MaxBreath + 1
  PROVE  Follow(AfterStartCalibration(r), ads, fr)
  <1> DEFINE x == Restated(r, "Configured")
             new == CalibrationQueue(r)
             c == Started(x)
             q == r.pending[r.effective.source]
             u == Act("Reset", 0)
             v == Act("Configure", 0)
             y == Act("Start", r.next)
             q1 == IF r.status = "Running" THEN Append(q, u) ELSE q
             q2 == Append(q1, v)
             p == Append(q2, y)
  <1>0. r \in Runtimes
    BY DEF Sound
  <1>1. AfterStartCalibration(r) = OnSource(r, new, c, TRUE)
    BY CalibrationIsOnSource
  <1>2. /\ x \in Runtimes /\ x.effective = r.effective /\ x.next = r.next
        /\ x.generation = 0 /\ x.status = "Configured"
    BY <1>0, RestatedParts DEF Statuses
  <1> HIDE DEF x
  <1>3. CASE ~Fits(r, For(r.effective.source, new))
    BY <1>1, <1>3 DEF OnSource, Commit
  <1>4. CASE Fits(r, For(r.effective.source, new))
    <2>1. r.next <= MaxBreath
      <3> HIDE DEF new
      <3> QED BY <1>1, <1>2, <1>4, StartBounded
    <2>2. q \in Seq(Actions)
      BY <1>0, SourceOf, RuntimeParts DEF Queues
    <2>3. new \in Seq(Actions)
      BY <1>0, <2>1, CalibrationQueueType
    <2>4. /\ c \in Runtimes /\ c.effective = r.effective /\ c.next = r.next + 1
      BY <1>2, <2>1, StartedParts
    <2>5. /\ u \in Actions /\ v \in Actions /\ u.kind = "Reset" /\ v.kind = "Configure"
          /\ y \in Actions
      <3>1. r.next \in BreathGenerations
        BY <1>0, <2>1, RuntimeParts, Bounds, SMTT(30) DEF BreathGenerations
      <3> QED BY <3>1, ActionParts
    <2>6. q1 \in Seq(Actions) /\ q2 \in Seq(Actions) /\ q \o new = p /\ p # <<>>
      <3> HIDE DEF u, v, y, q
      <3>1. CASE r.status = "Running"
        <4>1. new = <<u>> \o <<v, y>>
          BY <3>1 DEF CalibrationQueue, u, v, y
        <4> HIDE DEF new
        <4>2. q \o new = Append(Append(Append(q, u), v), y)
          BY <2>2, <2>5, <4>1, CalibrationAppends
        <4>3. Append(q, u) \in Seq(Actions)
          BY <2>2, <2>5, AppendParts
        <4>4. Append(Append(q, u), v) \in Seq(Actions)
              /\ Append(Append(Append(q, u), v), y) # <<>>
          BY <2>5, <4>3, AppendParts
        <4> QED BY <3>1, <4>2, <4>3, <4>4
      <3>2. CASE r.status # "Running"
        <4>1. new = <<>> \o <<v, y>>
          BY <3>2 DEF CalibrationQueue, v, y
        <4> HIDE DEF new
        <4>2. q \o new = Append(Append(q, v), y)
          BY <2>2, <2>5, <4>1, CalibrationAppendsTwo
        <4>3. Append(q, v) \in Seq(Actions) /\ Append(Append(q, v), y) # <<>>
          BY <2>2, <2>5, AppendParts
        <4> QED BY <3>2, <2>2, <4>2, <4>3
      <3> QED BY <3>1, <3>2
    <2>7. r.next \in Nat /\ r.next <= r.next
      BY <1>0, RuntimeParts, SMTT(30)
    <2>8. \A a \in AdapterStates : Fresh(a, q2, 0, r.next) => Fresh(a, p, 0, r.next + 1)
      <3> HIDE DEF q2
      <3> QED BY <1>2, <2>1, <2>6, StartPushes
    <2>9. \A a \in AdapterStates : Fresh(a, q, 0, r.next) => Fresh(a, p, 0, r.next + 1)
      <3> SUFFICES ASSUME NEW a \in AdapterStates, Fresh(a, q, 0, r.next)
                   PROVE  Fresh(a, p, 0, r.next + 1)
        OBVIOUS
      <3> HIDE DEF u, v, y, q
      <3>1. a.highest \in Nat
        BY AdapterParts
      <3>2. Fresh(a, q1, 0, r.next)
        BY <2>2, <2>5, <2>7, <3>1, FreshPush
      <3>3. Fresh(a, q2, 0, r.next)
        <4> HIDE DEF q1
        <4> QED BY <2>5, <2>6, <2>7, <3>1, <3>2, FreshPush
      <3> QED BY <2>8, <3>3
    <2>10. ASSUME NEW a \in AdapterStates
           PROVE  Chain(c, a, p, 0)
      <3>1. Chain(x, a, q2, 0)
        <4>1. Asks(x, v)
          BY <1>2, <2>5 DEF Asks
        <4> HIDE DEF q1, v
        <4> QED BY <2>5, <2>6, <4>1, ChainPush
      <3> HIDE DEF q2
      <3>2. \A b \in AdapterStates : Chain(x, b, q2, 0) => Chain(Started(x), b, p, 0)
        BY <1>2, <2>1, <2>6, StartPushes
      <3> QED BY <3>1, <3>2
    <2>11. Sound(OnSource(r, new, c, TRUE))
      BY <1>1, CalibrationSound
    <2>12. \A a \in AdapterStates : \A w \in Seq(Actions) :
              Fresh(a, w, 0, r.next) => Fresh(a, w, 0, c.next)
      BY <1>0, <2>4, FreshLater, RuntimeParts
    <2> HIDE DEF c, new, p, q2
    <2>13. GoesOn(r, c, new, p)
      BY <2>4, <2>6, <2>9, <2>10, <2>12 DEF GoesOn
    <2> QED BY <1>1, <2>3, <2>4, <2>11, <2>13, OnSourceFollows
  <1> QED BY <1>3, <1>4

\* ensure_running_for_experiment_arm is followed.
LEMMA EnsureFollows ==
  ASSUME NEW r, Sound(r), r.effective # NoRequest, NEW ads \in Bodies, NEW fr \in Frames,
         Follow(r, ads, fr), AfterEnsureRunning(r).next <= MaxBreath + 1
  PROVE  Follow(AfterEnsureRunning(r), ads, fr)
  BY CalibrationFollows DEF AfterEnsureRunning

-----------------------------------------------------------------------------
\* The steps.

\* Only the queue, the output and what was reported differ.
SameCourse(n, r) ==
    /\ n.effective = r.effective /\ n.status = r.status
    /\ n.generation = r.generation /\ n.next = r.next

\* The parameters a tuning names.
LEMMA TuningParts ==
  ASSUME tuning \in TuningStates
  PROVE  /\ tuning.effective.parameters \in Parameters \cup {"none"}
         /\ tuning.pending.parameters \in Parameters \cup {"none"}
         /\ tuning.pending \in Tunings \cup {NoTuning}
  <1>1. tuning.effective \in Tunings \cup {NoTuning} /\ tuning.pending \in Tunings \cup {NoTuning}
    BY DEF TuningStates
  <1>2. NoTuning.parameters = "none"
    BY DEF NoTuning
  <1>3. \A t \in Tunings : t.parameters \in Parameters
    BY DEF Tunings
  <1> QED BY <1>1, <1>2, <1>3

CompositionInv == SoundInv /\ Follow(rt, adapters, frame)

\* What the proofs of the steps need of the state.
LEMMA InvParts ==
  ASSUME CompositionInv
  PROVE  /\ Sound(rt) /\ rt \in Runtimes /\ Shape(rt) /\ StateOK /\ SoundInv
         /\ adapters \in Bodies /\ frame \in Frames /\ Follow(rt, adapters, frame)
         /\ adapters["Controller"] \in AdapterStates /\ adapters["Polar"] \in AdapterStates
         /\ "Controller" \in Sources /\ "Polar" \in Sources
  BY DEF CompositionInv, SoundInv, StateOK, Sound, Bodies, Sources

\* A step after which the runtime is on the same course and the adapters are where
\* they were.
LEMMA FollowAlike ==
  ASSUME NEW r \in Runtimes, Shape(r), NEW n \in Runtimes, NEW ads \in Bodies,
         NEW ads2 \in Bodies, NEW fr \in Frames, NEW fr2 \in Frames, Follow(r, ads, fr),
         SameCourse(n, r), n.pending = r.pending,
         \A s \in Sources : Tracked(s) => Alike(Base(r, ads, fr, s), Base(n, ads2, fr2, s))
  PROVE  Follow(n, ads2, fr2)
  <1>1. ASSUME NEW s \in Sources, Tracked(s)
        PROVE  Fresh(Base(n, ads2, fr2, s), n.pending[s], 0, n.next)
    <2>1. Fresh(Base(r, ads, fr, s), n.pending[s], 0, n.next)
      BY <1>1 DEF Follow, SameCourse
    <2>2. Base(n, ads2, fr2, s).highest = Base(r, ads, fr, s).highest
      BY <1>1 DEF Alike
    <2> QED BY <2>1, <2>2, FreshAlike
  <1>2. ASSUME Live(n), Tracked(n.effective.source)
        PROVE  Chain(n, Base(n, ads2, fr2, n.effective.source),
                     n.pending[n.effective.source], 0)
    <2> DEFINE s == r.effective.source
               a == Base(r, ads, fr, s)
               b == Base(n, ads2, fr2, s)
               q == r.pending[s]
    <2>1. /\ Live(r) /\ n.effective = r.effective /\ n.generation = r.generation
          /\ n.status = r.status
      BY <1>2 DEF Live, SameCourse
    <2>2. s \in Sources
      BY <2>1, SourceOf DEF Live, Shape
    <2>3. Tracked(s)
      BY <1>2, <2>1
    <2>4. Chain(r, a, q, 0)
      BY <2>1, <2>3 DEF Follow
    <2>5. Alike(a, b)
      BY <2>2, <2>3
    <2>6. n.pending[n.effective.source] = q /\ Base(n, ads2, fr2, n.effective.source) = b
      BY <2>1
    <2> HIDE DEF a, b, q, s
    <2>7. Chain(r, b, q, 0)
      BY <2>1, <2>4, <2>5, ChainAlike
    <2>8. Chain(n, b, q, 0)
      BY <2>1, <2>7, ChainKept
    <2> QED BY <2>6, <2>8
  <1>3. Room(n)
    BY DEF Follow, Room, SameCourse
  <1> QED BY <1>1, <1>2, <1>3 DEF Follow

\* An adapter is like itself.
LEMMA AlikeItself ==
  ASSUME NEW a PROVE Alike(a, a)
  BY DEF Alike

\* The commands of the panel.
LEMMA BoundedNext ==
  ASSUME tuning \in TuningStates, NEW r, r.next \in Int, Bounded(r)
  PROVE  r.next <= MaxBreath + 1
  <1> DEFINE m == r.next
             t == tuning.session
  <1>1. t \in 1..MaxSession
    BY DEF TuningStates
  <1>2. m + t <= MaxBreath + 2 /\ m \in Int
    BY DEF Bounded
  <1> HIDE DEF m, t
  <1>3. m <= MaxBreath + 1
    BY <1>1, <1>2, Bounds, SMTT(30)
  <1> QED BY <1>3 DEF m

\* A command that changes the runtime alone.
LEMMA CommandKeeps ==
  ASSUME CompositionInv, UNCHANGED <<tuning, boundary, adapters, frame, arm>>,
         Sound(rt'), Follow(rt', adapters, frame)
  PROVE  CompositionInv'
  <1>1. StateOK'
    BY DEF CompositionInv, SoundInv, StateOK
  <1> QED BY <1>1 DEF CompositionInv, SoundInv

\* The next generation of a start, a calibration or an arming is a number.
LEMMA CommitNextType ==
  ASSUME NEW r \in Runtimes, NEW x \in Runtimes, NEW acts, NEW clear \in BOOLEAN
  PROVE  Commit(r, Started(x), acts, clear).next \in Int
  <1>1. CASE ~Fits(r, acts)
    <2>1. r.next \in Int
      BY RuntimeParts, SMTT(30)
    <2> QED BY <1>1, <2>1 DEF Commit
  <1>2. CASE Fits(r, acts)
    <2>1. Commit(r, Started(x), acts, clear).next = x.next + 1
      BY <1>2, CommitNext
    <2>2. x.next + 1 \in Int
      BY RuntimeParts, SMTT(30)
    <2> QED BY <2>1, <2>2
  <1> QED BY <1>1, <1>2

\* The next generation after a calibration command is a number.
LEMMA CalibrationNextType ==
  ASSUME NEW r \in Runtimes
  PROVE  AfterStartCalibration(r).next \in Int /\ AfterEnsureRunning(r).next \in Int
  <1> DEFINE x == Restated(r, "Configured")
             acts == CalibrationActions(r)
  <1>1. x \in Runtimes
    BY RestatedParts DEF Statuses
  <1>2. AfterStartCalibration(r) = Commit(r, Started(x), acts, TRUE)
    BY DEF AfterStartCalibration, Configured, Restated
  <1> HIDE DEF x, acts
  <1>3. AfterStartCalibration(r).next \in Int
    BY <1>1, <1>2, CommitNextType
  <1>4. r.next \in Int
    BY RuntimeParts, SMTT(30)
  <1> QED BY <1>3, <1>4 DEF AfterEnsureRunning

\* The select command keeps the invariant.
LEMMA SelectKeeps ==
  ASSUME CompositionInv, NEW r \in Selectable \cup {NoRequest}, SelectCommand(r)
  PROVE  CompositionInv'
  <1>1. r \in Requests \cup {NoRequest}
    BY SelectableAssumption
  <1>2. rt' = AfterSelect(rt, r) /\ UNCHANGED <<tuning, boundary, adapters, frame, arm>>
    BY DEF SelectCommand, PanelCommand
  <1>3. Sound(AfterSelect(rt, r)) /\ Follow(AfterSelect(rt, r), adapters, frame)
    BY <1>1, InvParts, SelectSound, SelectFollows
  <1> QED BY <1>2, <1>3, CommandKeeps

\* Configure, cancel and reset.
LEMMA RestatedKeeps ==
  ASSUME CompositionInv, rt.effective # NoRequest, NEW y \in Actions,
         NEW s \in {"Configured", "Cancelled", "Selected"},
         s = "Configured" => y.kind = "Configure",
         s = "Cancelled" => y.kind = "Cancel" /\ y.generation = rt.generation
                            /\ rt.generation # 0,
         y.kind # "Start",
         rt' = OnSource(rt, <<y>>, Restated(rt, s), TRUE),
         UNCHANGED <<tuning, boundary, adapters, frame, arm>>
  PROVE  CompositionInv'
  <1> DEFINE n == OnSource(rt, <<y>>, Restated(rt, s), TRUE)
  <1>1. <<y>> \in Seq(Actions)
    BY SMTT(30)
  <1>2. Sound(n)
    <2> DEFINE q == <<y>>
    <2>1. q \in Seq(Actions)
      BY <1>1
    <2> HIDE DEF q
    <2>2. Sound(OnSource(rt, q, Restated(rt, s), TRUE))
      BY <2>1, InvParts, RestatedSound
    <2> QED BY <2>2 DEF q
  <1>3. Follow(n, adapters, frame)
    BY InvParts, RestatedFollows
  <1> HIDE DEF n
  <1>4. rt' = n
    BY DEF n
  <1> QED BY <1>2, <1>3, <1>4, CommandKeeps

\* The configure command keeps the invariant.
LEMMA ConfigureKeeps ==
  ASSUME CompositionInv, ConfigureCommand PROVE CompositionInv'
  <1> DEFINE y == Act("Configure", 0)
  <1>1. /\ rt' = OnSource(rt, <<y>>, Restated(rt, "Configured"), TRUE)
        /\ rt.effective # NoRequest /\ UNCHANGED <<tuning, boundary, adapters, frame, arm>>
    BY DEF ConfigureCommand, Configurable, PanelCommand, OnEffective, OnSource, Configured,
           Restated
  <1>2. y \in Actions /\ y.kind = "Configure"
    BY ActionParts
  <1> HIDE DEF y
  <1> QED BY <1>1, <1>2, RestatedKeeps

\* The cancel command keeps the invariant.
LEMMA CancelKeeps ==
  ASSUME CompositionInv, CancelCommand PROVE CompositionInv'
  <1> DEFINE y == Act("Cancel", rt.generation)
  <1>1. /\ rt' = OnSource(rt, <<y>>, Restated(rt, "Cancelled"), TRUE)
        /\ rt.status = "Running" /\ UNCHANGED <<tuning, boundary, adapters, frame, arm>>
    BY DEF CancelCommand, PanelCommand, OnEffective, OnSource, Restated
  <1>2. rt.generation # 0 /\ rt.effective # NoRequest
    BY <1>1, InvParts DEF Shape
  <1>3. y \in Actions /\ y.kind = "Cancel" /\ y.generation = rt.generation
    BY InvParts, RuntimeParts, ActionParts
  <1> HIDE DEF y
  <1> QED BY <1>1, <1>2, <1>3, RestatedKeeps

\* The reset command keeps the invariant.
LEMMA ResetKeeps ==
  ASSUME CompositionInv, ResetCommand PROVE CompositionInv'
  <1> DEFINE y == Act("Reset", 0)
  <1>1. /\ rt' = OnSource(rt, <<y>>, Restated(rt, "Selected"), TRUE)
        /\ rt.effective # NoRequest /\ UNCHANGED <<tuning, boundary, adapters, frame, arm>>
    BY DEF ResetCommand, PanelCommand, OnEffective, OnSource, Restated
  <1>2. y \in Actions /\ y.kind = "Reset"
    BY ActionParts
  <1> HIDE DEF y
  <1> QED BY <1>1, <1>2, RestatedKeeps

\* The start command keeps the invariant.
LEMMA StartKeeps ==
  ASSUME CompositionInv, StartCommand PROVE CompositionInv'
  <1> DEFINE n == OnSource(rt, <<Act("Start", rt.next)>>, Started(rt), FALSE)
  <1>1. /\ rt' = n /\ Bounded(n) /\ Startable(rt)
        /\ UNCHANGED <<tuning, boundary, adapters, frame, arm>>
    BY DEF StartCommand, PanelCommand, OnEffective, OnSource
  <1>2. n.next \in Int
    BY InvParts, CommitNextType DEF OnSource
  <1>3. n.next <= MaxBreath + 1
    <2> HIDE DEF n
    <2> QED BY <1>1, <1>2, InvParts, BoundedNext DEF StateOK
  <1>4. Sound(n) /\ Follow(n, adapters, frame)
    BY <1>1, <1>3, InvParts, StartFollows
  <1> HIDE DEF n
  <1> QED BY <1>1, <1>4, CommandKeeps

\* The calibration command, and a session without guidance, keep the invariant.
LEMMA CalibrationKeeps ==
  ASSUME CompositionInv, StartCalibrationCommand \/ EnsureRunning PROVE CompositionInv'
  <1>0. tuning \in TuningStates /\ rt \in Runtimes
    BY InvParts DEF StateOK
  <1>1. CASE StartCalibrationCommand
    <2> DEFINE n == AfterStartCalibration(rt)
    <2>1. /\ rt' = n /\ Bounded(n) /\ rt.effective # NoRequest
          /\ UNCHANGED <<tuning, boundary, adapters, frame, arm>>
      BY <1>1 DEF StartCalibrationCommand, PanelCommand
    <2>2. n.next \in Int
      BY <1>0, CalibrationNextType
    <2>3. n.next <= MaxBreath + 1
      <3> HIDE DEF n
      <3> QED BY <1>0, <2>1, <2>2, BoundedNext
    <2>4. Sound(n) /\ Follow(n, adapters, frame)
      BY <2>1, <2>3, InvParts, CalibrationSound, CalibrationFollows
    <2> HIDE DEF n
    <2> QED BY <2>1, <2>4, CommandKeeps
  <1>2. CASE EnsureRunning
    <2> DEFINE n == AfterEnsureRunning(rt)
    <2>1. /\ rt' = n /\ Bounded(n) /\ rt.effective # NoRequest
          /\ UNCHANGED <<tuning, boundary, adapters, frame, arm>>
      BY <1>2 DEF EnsureRunning, PanelCommand
    <2>2. n.next \in Int
      BY <1>0, CalibrationNextType
    <2>3. n.next <= MaxBreath + 1
      <3> HIDE DEF n
      <3> QED BY <1>0, <2>1, <2>2, BoundedNext
    <2>4. Sound(n) /\ Follow(n, adapters, frame)
      BY <2>1, <2>3, InvParts, EnsureSound, EnsureFollows
    <2> HIDE DEF n
    <2> QED BY <2>1, <2>4, CommandKeeps
  <1> QED BY <1>1, <1>2

\* configure_polar_state
LEMMA TunedParts ==
  ASSUME tuning \in TuningStates, NEW par \in Parameters, tuning.generation < MaxTuning
  PROVE  /\ Tuned(tuning, par) \in TuningStates
         /\ Tuned(tuning, par).requested \in Tunings
         /\ Tuned(tuning, par).generation = tuning.generation + 1
  <1> DEFINE g == tuning.generation + 1
             w == [session |-> tuning.session, generation |-> g, parameters |-> par]
             n == [tuning EXCEPT !.generation = g, !.requested = w, !.pending = w]
  <1>1. tuning.session \in 1..MaxSession /\ tuning.generation \in 0..MaxTuning
    BY DEF TuningStates
  <1>2. g \in 0..MaxTuning
    <2> DEFINE t == tuning.generation
    <2>1. t \in 0..MaxTuning /\ t < MaxTuning
      BY <1>1
    <2> HIDE DEF t
    <2>2. t + 1 \in 0..MaxTuning
      BY <2>1, Bounds, SMTT(30)
    <2> QED BY <2>2 DEF t
  <1> HIDE DEF g
  <1>3. w \in Tunings /\ w.generation = g
    BY <1>1, <1>2 DEF Tunings
  <1>4. Tuned(tuning, par) = n
    BY <1>3 DEF Tuned, g
  <1> HIDE DEF w
  <1>5. n \in TuningStates
    BY <1>2, <1>3 DEF TuningStates
  <1>6. n.requested = w /\ n.generation = g
    BY DEF TuningStates
  <1> QED BY <1>3, <1>4, <1>5, <1>6 DEF g

\* A tuning request touches neither runtime nor adapters.
LEMMA ConfigurePolarKeeps ==
  ASSUME CompositionInv, ConfigurePolarState PROVE CompositionInv'
  <1>1. tuning \in TuningStates /\ "other" \in Parameters
    BY InvParts DEF StateOK, Parameters
  <1>2. tuning.generation < MaxTuning
    <2> DEFINE t == tuning.generation
               u == tuning.session
    <2>1. t \in 0..MaxTuning /\ u \in 1..MaxSession /\ t + u <= MaxTuning
      BY <1>1 DEF TuningStates, ConfigurePolarState
    <2> HIDE DEF t, u
    <2>2. t < MaxTuning
      BY <2>1, Bounds, SMTT(30)
    <2> QED BY <2>2 DEF t
  <1>3. tuning' \in TuningStates /\ UNCHANGED <<rt, boundary, adapters, frame, arm>>
    BY <1>1, <1>2, TunedParts DEF ConfigurePolarState
  <1> QED BY <1>3 DEF CompositionInv, SoundInv, StateOK

-----------------------------------------------------------------------------
\* The XR thread.

\* The places of the XR thread and what it holds there.
LEMMA FrameParts ==
  /\ \A p \in Places : AtFrame(p) \in Frames /\ AtFrame(p).at = p
  /\ \A p \in Places, c \in Latests :
        /\ [AtFrame(p) EXCEPT !.calibration = c] \in Frames
        /\ [AtFrame(p) EXCEPT !.calibration = c].at = p
  /\ \A p \in Places, y \in Actions :
        /\ [AtFrame(p) EXCEPT !.hand = y] \in Frames
        /\ [AtFrame(p) EXCEPT !.hand = y].at = p
        /\ [AtFrame(p) EXCEPT !.hand = y].hand = y
  /\ \A p \in Places, c \in Latests, g \in BreathGenerations :
        /\ [AtFrame(p) EXCEPT !.calibration = c, !.generation = g] \in Frames
        /\ [AtFrame(p) EXCEPT !.calibration = c, !.generation = g].at = p
  <1>1. \A p \in Places : AtFrame(p) \in Frames /\ AtFrame(p).at = p
    BY ActionParts, Nones, Bounds DEF AtFrame, Frames
  <1>2. \A f \in Frames, c \in Latests :
            /\ [f EXCEPT !.calibration = c] \in Frames
            /\ [f EXCEPT !.calibration = c].at = f.at
    BY DEF Frames
  <1>3. \A f \in Frames, y \in Actions :
            /\ [f EXCEPT !.hand = y] \in Frames
            /\ [f EXCEPT !.hand = y].at = f.at /\ [f EXCEPT !.hand = y].hand = y
    BY DEF Frames
  <1>4. \A f \in Frames, c \in Latests, g \in BreathGenerations :
            /\ [f EXCEPT !.calibration = c, !.generation = g] \in Frames
            /\ [f EXCEPT !.calibration = c, !.generation = g].at = f.at
    BY DEF Frames
  <1> HIDE DEF AtFrame
  <1>5. \A p \in Places, c \in Latests :
        /\ [AtFrame(p) EXCEPT !.calibration = c] \in Frames
        /\ [AtFrame(p) EXCEPT !.calibration = c].at = p
    BY <1>1, <1>2
  <1>6. \A p \in Places, y \in Actions :
        /\ [AtFrame(p) EXCEPT !.hand = y] \in Frames
        /\ [AtFrame(p) EXCEPT !.hand = y].at = p
        /\ [AtFrame(p) EXCEPT !.hand = y].hand = y
    BY <1>1, <1>3
  <1>7. \A p \in Places, c \in Latests, g \in BreathGenerations :
        /\ [AtFrame(p) EXCEPT !.calibration = c, !.generation = g] \in Frames
        /\ [AtFrame(p) EXCEPT !.calibration = c, !.generation = g].at = p
    BY <1>1, <1>4
  <1> QED BY <1>1, <1>5, <1>6, <1>7

\* The XR thread with an action in its hand.
LEMMA HandParts ==
  ASSUME NEW y \in Actions
  PROVE  /\ [AtFrame("apply") EXCEPT !.hand = y] \in Frames
         /\ [AtFrame("apply") EXCEPT !.hand = y].at = "apply"
         /\ [AtFrame("apply") EXCEPT !.hand = y].hand = y
  <1>1. "apply" \in Places
    BY DEF Places
  <1> QED BY <1>1, FrameParts

\* The XR thread with an answer of the adapter.
LEMMA AnswerParts ==
  ASSUME NEW c \in Latests, NEW g \in BreathGenerations
  PROVE  /\ [AtFrame("answer") EXCEPT !.calibration = c, !.generation = g] \in Frames
         /\ [AtFrame("answer") EXCEPT !.calibration = c, !.generation = g].at = "answer"
  <1>1. "answer" \in Places
    BY DEF Places
  <1> QED BY <1>1, FrameParts

\* One adapter is replaced.
LEMMA BodyParts ==
  ASSUME NEW ads \in Bodies, NEW a \in AdapterStates
  PROVE  /\ [ads EXCEPT !["Controller"] = a] \in Bodies
         /\ [ads EXCEPT !["Controller"] = a]["Controller"] = a
         /\ [ads EXCEPT !["Controller"] = a]["Polar"] = ads["Polar"]
         /\ [ads EXCEPT !["Polar"] = a] \in Bodies
         /\ [ads EXCEPT !["Polar"] = a]["Polar"] = a
         /\ [ads EXCEPT !["Polar"] = a]["Controller"] = ads["Controller"]
  <1>1. "Controller" \in Sources /\ "Polar" \in Sources /\ "Polar" # "Controller"
    BY DEF Sources
  <1> QED BY <1>1 DEF Bodies

\* A step of the XR thread that leaves tuning, boundary and worker alone, with the
\* controller's adapter where it was once its hand is empty.
Quiet == {"take", "report", "observe", "answer", "submit", "poll"}
\* A step of the XR thread that leaves the course and the adapters alone keeps the
\* invariant.
LEMMA FrameKeeps ==
  ASSUME CompositionInv, Sound(rt'), SameCourse(rt', rt), rt'.pending = rt.pending,
         adapters' \in Bodies, frame' \in Frames, frame'.at \in Quiet,
         adapters'["Polar"] = adapters["Polar"],
         ~ControllerElsewhere =>
             Alike(Base(rt, adapters, frame, "Controller"), adapters'["Controller"]),
         UNCHANGED <<tuning, boundary, arm>>
  PROVE  CompositionInv'
  <1>1. StateOK'
    BY InvParts DEF StateOK, Bodies
  <1>2. Base(rt', adapters', frame', "Polar") = Base(rt, adapters, frame, "Polar")
    BY DEF Base
  <1>3. Base(rt', adapters', frame', "Controller") = adapters'["Controller"]
    BY DEF Base, Quiet
  <1>4. \A s \in Sources :
            Tracked(s) => Alike(Base(rt, adapters, frame, s), Base(rt', adapters', frame', s))
    BY <1>2, <1>3, AlikeItself DEF Sources, Tracked
  <1>5. rt' \in Runtimes
    BY DEF Sound
  <1>6. Follow(rt', adapters', frame')
    BY <1>4, <1>5, InvParts, FollowAlike
  <1> QED BY <1>1, <1>6 DEF CompositionInv, SoundInv

\* A runtime is on its own course.
LEMMA SameCourseItself ==
  ASSUME NEW r PROVE SameCourse(r, r)
  BY DEF SameCourse

\* take_adapter_action
LEMMA TakesKeeps ==
  ASSUME CompositionInv, FrameTakes PROVE CompositionInv'
  <1> DEFINE q == rt.pending["Controller"]
             a == adapters["Controller"]
             e == rt.effective
  <1>0. q \in Seq(Actions) /\ a \in AdapterStates /\ frame.at = "take"
        /\ UNCHANGED <<tuning, boundary, adapters, arm>> /\ rt.next \in Nat
        /\ e \in Requests \cup {NoRequest}
    BY InvParts, RuntimeParts DEF FrameTakes, At
  <1>1. Base(rt, adapters, frame, "Controller") = a
        /\ Base(rt, adapters, frame, "Polar") = adapters["Polar"]
    BY <1>0 DEF Base
  <1>2. CASE q = <<>>
    <2>1. frame' = AtFrame("observe") /\ UNCHANGED rt
      BY <1>2 DEF FrameTakes, Of
    <2>2. "observe" \in Places
      BY DEF Places
    <2>3. frame' \in Frames /\ frame'.at = "observe"
      BY <2>1, <2>2, FrameParts
    <2>4. frame'.at \in Quiet
      BY <2>3 DEF Quiet
    <2>5. adapters' \in Bodies /\ adapters'["Controller"] = a
          /\ adapters'["Polar"] = adapters["Polar"]
      BY <1>0, InvParts
    <2>6. Sound(rt') /\ SameCourse(rt', rt) /\ rt'.pending = rt.pending
      BY <2>1, InvParts, SameCourseItself
    <2> HIDE DEF a
    <2>7. Alike(Base(rt, adapters, frame, "Controller"), adapters'["Controller"])
      BY <1>1, <2>5, AlikeItself
    <2> QED BY <1>0, <2>3, <2>4, <2>5, <2>6, <2>7, FrameKeeps
  <1>3. CASE q # <<>>
    <2> DEFINE y == Head(q)
               p == [rt.pending EXCEPT !["Controller"] = Tail(q)]
               n == Dropped(rt, p)
               b == Applied(a, "Controller", y, e, "none")
    <2>1. frame' = [AtFrame("apply") EXCEPT !.hand = y] /\ rt' = n
      BY <1>3 DEF FrameTakes, Of, Dropped
    <2>2. y \in Actions /\ y = q[1] /\ 0 < Len(q) /\ Len(q) \in Nat /\ Tail(q) \in Seq(Actions)
          /\ Len(Tail(q)) < Len(q)
      <3> HIDE DEF q
      <3> QED BY <1>0, <1>3, SMTT(30)
    <2>3. /\ p \in Queues /\ Total(p) <= QueueCapacity /\ p["Controller"] = Tail(q)
          /\ p["Polar"] = rt.pending["Polar"]
      BY <1>3, InvParts, ShorterQueues DEF Sources
    <2>4. Sound(n) /\ SameCourse(n, rt) /\ n.pending = p /\ n.effective = e
      <3> HIDE DEF p
      <3> QED BY <2>3, InvParts, DroppedSound, DroppedParts DEF SameCourse
    <2>5. frame' \in Frames /\ frame'.at = "apply" /\ frame'.hand = y
      <3> HIDE DEF y
      <3> QED BY <2>1, <2>2, HandParts
    <2>6. StateOK'
      BY <1>0, <2>5, InvParts DEF StateOK
    <2>7. Base(n, adapters, frame', "Controller") = b
          /\ Base(n, adapters, frame', "Polar") = adapters["Polar"]
      BY <2>4, <2>5 DEF Base
    <2>8. b \in AdapterStates /\ Raises(a, y, b)
          /\ (e # NoRequest => Moves(e.inverted, a, y, b))
      <3>1. "Controller" \in Sources /\ "none" \in Parameters \cup {"none"}
        BY DEF Sources
      <3> HIDE DEF y, e, a
      <3> QED BY <1>0, <2>2, <3>1, AppliedParts
    <2>9. 0 \in Nat /\ 0 + 1 = 1
      BY SMTT(30)
    <2> HIDE DEF b, n, y, p, q
    <2>10. ASSUME ~ControllerElsewhere
           PROVE  /\ Fresh(b, Tail(q), 0, rt.next)
                  /\ Live(rt) /\ e.source = "Controller" => Chain(rt, b, Tail(q), 0)
      <3>1. Tracked("Controller")
        BY <2>10 DEF Tracked
      <3>2. Fresh(a, q, 0, rt.next)
        BY <1>1, <3>1, InvParts DEF Follow, q
      <3>3. a.highest \in Nat /\ b.highest \in Nat
        BY <1>0, <2>8, AdapterParts
      <3> HIDE DEF a
      <3>4. Fresh(b, q, 0 + 1, rt.next)
        BY <1>0, <2>2, <2>8, <2>9, <3>2, <3>3, FreshStep
      <3>5. Fresh(b, Tail(q), 0, rt.next)
        BY <1>0, <1>3, <2>9, <3>4, FreshTail
      <3>6. ASSUME Live(rt), e.source = "Controller"
            PROVE  Chain(rt, b, Tail(q), 0)
        <4>1. Chain(rt, a, q, 0)
          BY <1>1, <3>1, <3>6, InvParts DEF Follow, q
        <4>2. e # NoRequest
          BY <3>6, InvParts DEF Live, Shape
        <4>3. Moves(rt.effective.inverted, a, q[0 + 1], b)
          BY <2>2, <2>8, <2>9, <4>2
        <4>4. Chain(rt, b, q, 0 + 1)
          BY <1>0, <2>2, <2>9, <3>2, <3>6, <4>1, <4>3, ChainStep
        <4> QED BY <1>0, <1>3, <2>9, <4>4, ChainTail
      <3> QED BY <3>5, <3>6
    <2>11. ASSUME NEW s \in Sources, Tracked(s)
           PROVE  Fresh(Base(n, adapters, frame', s), n.pending[s], 0, n.next)
      <3>1. CASE s = "Polar"
        <4>1. Fresh(adapters["Polar"], rt.pending["Polar"], 0, rt.next)
          BY <1>1, <2>11, <3>1, InvParts DEF Follow
        <4> QED BY <2>3, <2>4, <2>7, <3>1, <4>1 DEF SameCourse
      <3>2. CASE s = "Controller"
        <4>1. Fresh(b, Tail(q), 0, rt.next)
          BY <2>10, <2>11, <3>2 DEF Tracked
        <4> QED BY <2>3, <2>4, <2>7, <3>2, <4>1 DEF SameCourse
      <3> QED BY <3>1, <3>2 DEF Sources
    <2>12. ASSUME Live(n), Tracked(n.effective.source)
           PROVE  Chain(n, Base(n, adapters, frame', n.effective.source),
                        n.pending[n.effective.source], 0)
      <3>1. Live(rt) /\ n.generation = rt.generation /\ n.status = rt.status
        BY <2>4, <2>12 DEF SameCourse, Live
      <3>2. e.source \in Sources
        BY <3>1, InvParts, SourceOf DEF Live, Shape
      <3>3. CASE e.source = "Polar"
        <4>1. Chain(rt, adapters["Polar"], rt.pending["Polar"], 0)
          BY <1>1, <2>4, <2>12, <3>1, <3>3, InvParts DEF Follow
        <4>2. Chain(n, adapters["Polar"], rt.pending["Polar"], 0)
          BY <2>4, <3>1, <4>1, ChainKept
        <4> QED BY <2>3, <2>4, <2>7, <3>3, <4>2
      <3>4. CASE e.source = "Controller"
        <4>1. Chain(rt, b, Tail(q), 0)
          BY <2>4, <2>10, <2>12, <3>1, <3>4 DEF Tracked
        <4>2. Chain(n, b, Tail(q), 0)
          BY <2>4, <3>1, <4>1, ChainKept
        <4> QED BY <2>3, <2>4, <2>7, <3>4, <4>2
      <3> QED BY <3>2, <3>3, <3>4 DEF Sources
    <2>13. Room(n)
      <3> SUFFICES ASSUME n.effective.source = "Polar", n.generation # 0
                   PROVE  Len(n.pending["Controller"]) < QueueCapacity
        BY DEF Room
      <3>1. Len(q) < QueueCapacity
        BY <2>4, InvParts DEF Follow, Room, SameCourse, q
      <3>2. n.pending["Controller"] = Tail(q) /\ Tail(q) \in Seq(Actions)
        BY <2>2, <2>3, <2>4
      <3> DEFINE u == Tail(q)
      <3>3. u \in Seq(Actions) /\ Len(u) < Len(q)
        BY <2>2
      <3> HIDE DEF u
      <3>4. Len(u) < QueueCapacity
        BY <2>2, <3>1, <3>3, Bounds, SMTT(30)
      <3> QED BY <3>2, <3>4 DEF u
    <2>14. Follow(n, adapters, frame')
      BY <2>11, <2>12, <2>13 DEF Follow
    <2> QED BY <1>0, <2>1, <2>4, <2>6, <2>14 DEF CompositionInv, SoundInv
  <1> QED BY <1>2, <1>3

\* The rest of a frame of the controller.
LEMMA AppliesKeeps ==
  ASSUME CompositionInv, FrameApplies PROVE CompositionInv'
  <1> DEFINE a == adapters["Controller"]
             e == rt.effective
             y == frame.hand
             b == Applied(a, "Controller", y, e, "none")
             c == Receipt(b, y)
  <1>0. /\ a \in AdapterStates /\ frame.at = "apply" /\ y \in Actions
        /\ e \in Requests \cup {NoRequest} /\ "none" \in Parameters \cup {"none"}
        /\ "Controller" \in Sources
    BY InvParts, RuntimeParts DEF FrameApplies, At, Frames
  <1>1. /\ adapters' = [adapters EXCEPT !["Controller"] = b]
        /\ frame' = [AtFrame("report") EXCEPT !.calibration = c]
        /\ UNCHANGED <<rt, tuning, boundary, arm>>
    BY DEF FrameApplies
  <1>2. Base(rt, adapters, frame, "Controller") = b
    BY <1>0 DEF Base
  <1> HIDE DEF a, e, y
  <1>3. b \in AdapterStates
    BY <1>0, AppliedParts
  <1> HIDE DEF b
  <1>4. c \in Latests /\ "report" \in Places
    BY <1>3, AnswersParts DEF Places
  <1> HIDE DEF c
  <1>5. frame' \in Frames /\ frame'.at = "report"
    BY <1>1, <1>4, FrameParts
  <1>6. frame'.at \in Quiet
    BY <1>5 DEF Quiet
  <1>7. adapters' \in Bodies /\ adapters'["Controller"] = b
        /\ adapters'["Polar"] = adapters["Polar"]
    BY <1>1, <1>3, InvParts, BodyParts
  <1>8. Sound(rt') /\ SameCourse(rt', rt) /\ rt'.pending = rt.pending
    BY <1>1, InvParts, SameCourseItself
  <1>9. Alike(Base(rt, adapters, frame, "Controller"), adapters'["Controller"])
    BY <1>2, <1>7, AlikeItself
  <1> QED BY <1>1, <1>5, <1>6, <1>7, <1>8, <1>9, FrameKeeps

\* A step that only tells the runtime something.
LEMMA SaysKeeps ==
  ASSUME CompositionInv, frame.at \in Quiet, frame' \in Frames, frame'.at \in Quiet,
         UNCHANGED <<tuning, boundary, adapters, arm>>,
         Sound(rt'), SameCourse(rt', rt), rt'.pending = rt.pending
  PROVE  CompositionInv'
  <1>1. Base(rt, adapters, frame, "Controller") = adapters["Controller"]
    BY DEF Base, Quiet
  <1>2. Alike(Base(rt, adapters, frame, "Controller"), adapters'["Controller"])
    BY <1>1, AlikeItself
  <1>3. adapters' \in Bodies /\ adapters'["Polar"] = adapters["Polar"]
    BY InvParts
  <1> QED BY <1>2, <1>3, FrameKeeps

\* The XR thread's two submissions of a calibration keep the invariant.
LEMMA SubmitKeeps ==
  ASSUME CompositionInv, FrameReports \/ FrameAnswers PROVE CompositionInv'
  <1> DEFINE n == SubmitCalibration(rt, "Controller", frame.calibration)
  <1>0. frame \in Frames /\ frame.calibration \in Latests
    BY InvParts DEF Frames
  <1>1. /\ rt' = n /\ UNCHANGED <<tuning, boundary, adapters, arm>>
        /\ frame.at \in {"report", "answer"}
        /\ \/ frame' = AtFrame("take")
           \/ frame' = [frame EXCEPT !.at = "submit", !.calibration = NoCalibration]
    BY DEF FrameReports, FrameAnswers, At
  <1>2. frame' \in Frames /\ frame'.at \in {"take", "submit"}
    <2>1. "take" \in Places /\ "submit" \in Places
      BY DEF Places
    <2>2. CASE frame' = AtFrame("take")
      BY <2>1, <2>2, FrameParts
    <2>3. CASE frame' = [frame EXCEPT !.at = "submit", !.calibration = NoCalibration]
      BY <1>0, <2>1, <2>3, Nones DEF Frames
    <2> QED BY <1>1, <2>2, <2>3
  <1>3. frame.at \in Quiet /\ frame'.at \in Quiet
    BY <1>1, <1>2 DEF Quiet
  <1>4. Sound(n) /\ SameCourse(n, rt) /\ n.pending = rt.pending
    BY <1>0, InvParts, SubmitSound, SubmitParts DEF SameCourse
  <1> HIDE DEF n
  <1> QED BY <1>1, <1>2, <1>3, <1>4, SaysKeeps

\* An observation stays on the course.
LEMMA ObservedCourse ==
  ASSUME NEW r, Sound(r), NEW source \in Sources, NEW g \in BreathGenerations,
         NEW usable \in BOOLEAN
  PROVE  /\ Sound(Observed(r, source, g, usable))
         /\ SameCourse(Observed(r, source, g, usable), r)
         /\ Observed(r, source, g, usable).pending = r.pending
  <1> DEFINE n == Observed(r, source, g, usable)
  <1>1. r \in Runtimes /\ (r.status = "Running" => r.effective # NoRequest)
    BY DEF Sound, Shape
  <1>2. /\ n.effective = r.effective /\ n.status = r.status
        /\ n.generation = r.generation /\ n.next = r.next /\ n.pending = r.pending
    BY <1>1, ObservedParts
  <1>3. Sound(n)
    BY ObservedSound
  <1> HIDE DEF n
  <1>4. Sound(n) /\ SameCourse(n, r) /\ n.pending = r.pending
    BY <1>2, <1>3 DEF SameCourse
  <1> QED BY <1>4 DEF n

\* The controller's observation keeps the invariant.
LEMMA SubmitsKeeps ==
  ASSUME CompositionInv, NEW usable \in BOOLEAN, FrameSubmits(usable) PROVE CompositionInv'
  <1> DEFINE n == Observed(rt, "Controller", frame.generation, usable)
  <1>0. frame.generation \in BreathGenerations
    BY InvParts DEF Frames
  <1>1. /\ rt' = n /\ UNCHANGED <<tuning, boundary, adapters, arm>>
        /\ frame.at = "submit" /\ frame' = AtFrame("poll")
    BY DEF FrameSubmits, At
  <1>2. frame' \in Frames /\ frame'.at = "poll"
    <2>1. "poll" \in Places
      BY DEF Places
    <2> QED BY <1>1, <2>1, FrameParts
  <1>3. frame.at \in Quiet /\ frame'.at \in Quiet
    BY <1>1, <1>2 DEF Quiet
  <1>5. Sound(n) /\ SameCourse(n, rt) /\ n.pending = rt.pending
    BY <1>0, InvParts, ObservedCourse
  <1> HIDE DEF n
  <1> QED BY <1>1, <1>2, <1>3, <1>5, SaysKeeps

\* ensure_running
LEMMA EnsuredParts ==
  ASSUME NEW a \in AdapterStates
  PROVE  EnsuredRunning(a) \in AdapterStates
  <1>1. CASE a.generation # 0 \/ a.highest >= MaxBreath
    BY <1>1 DEF EnsuredRunning
  <1>2. CASE ~(a.generation # 0 \/ a.highest >= MaxBreath)
    <2> DEFINE l == IF a.lifecycle = "Disabled" THEN "Configured" ELSE a.lifecycle
               c == [a EXCEPT !.lifecycle = l]
               g == a.highest + 1
               h == a.highest
    <2>1. l \in Lifecycles
      BY AdapterParts DEF Lifecycles
    <2>2. EnsuredRunning(a) = AdapterStarted(c, g)
      BY <1>2 DEF EnsuredRunning
    <2> HIDE DEF l
    <2>3. c \in AdapterStates
      BY <2>1 DEF AdapterStates
    <2>4. h \in Nat /\ ~(h >= MaxBreath)
      BY <1>2, AdapterParts
    <2> HIDE DEF h, c
    <2>5. h + 1 \in BreathGenerations
      BY <2>4, Bounds, SMTT(30) DEF BreathGenerations
    <2>6. g \in BreathGenerations
      BY <2>5 DEF h
    <2> HIDE DEF g
    <2> QED BY <2>2, <2>3, <2>6, AdapterActs
  <1> QED BY <1>1, <1>2

\* The controller's frame keeps the invariant: it fails a calibration at most.
LEMMA ObservesKeeps ==
  ASSUME CompositionInv, NEW fails \in BOOLEAN, FrameObserves(fails) PROVE CompositionInv'
  <1> DEFINE selected == rt.effective.source = "Controller"
             o == adapters["Controller"]
             a == IF selected \/ ~ControllerElsewhere THEN o ELSE EnsuredRunning(o)
             d == FailedAnswer(a, fails)
             b == AfterFrame(a, fails)
  <1>0. o \in AdapterStates /\ frame.at = "observe" /\ UNCHANGED <<rt, tuning, boundary, arm>>
        /\ "Controller" \in Sources
    BY InvParts DEF FrameObserves, At
  <1>1. a \in AdapterStates /\ (~ControllerElsewhere => a = o)
    <2>1. EnsuredRunning(o) \in AdapterStates
      <3> HIDE DEF o
      <3> QED BY <1>0, EnsuredParts
    <2> QED BY <1>0, <2>1
  <1>2. \/ frame' = AtFrame("poll") /\ adapters' = [adapters EXCEPT !["Controller"] = a]
        \/ /\ adapters' = [adapters EXCEPT !["Controller"] = b]
           /\ \/ frame' = AtFrame("poll")
              \/ frame' = [AtFrame("answer") EXCEPT !.calibration = d,
                                                    !.generation = a.generation]
    BY DEF FrameObserves
  <1>3. Base(rt, adapters, frame, "Controller") = o
    BY <1>0 DEF Base
  <1> HIDE DEF a, o
  <1>4. d \in Latests /\ b \in AdapterStates /\ Alike(a, b) /\ a.generation \in BreathGenerations
    BY <1>1, AnswersParts, AdapterParts
  <1> HIDE DEF d, b
  <1>5. frame' \in Frames /\ frame'.at \in {"poll", "answer"}
    <2>1. "poll" \in Places /\ "answer" \in Places
      BY DEF Places
    <2>2. CASE frame' = AtFrame("poll")
      BY <2>1, <2>2, FrameParts
    <2>3. CASE frame' = [AtFrame("answer") EXCEPT !.calibration = d,
                                                  !.generation = a.generation]
      BY <1>4, <2>3, AnswerParts
    <2> QED BY <1>2, <2>2, <2>3
  <1>6. frame'.at \in Quiet
    BY <1>5 DEF Quiet
  <1>7. /\ adapters' \in Bodies /\ adapters'["Polar"] = adapters["Polar"]
        /\ adapters'["Controller"] \in {a, b}
    <2>1. CASE adapters' = [adapters EXCEPT !["Controller"] = a]
      BY <1>1, <2>1, InvParts, BodyParts
    <2>2. CASE adapters' = [adapters EXCEPT !["Controller"] = b]
      BY <1>4, <2>2, InvParts, BodyParts
    <2> QED BY <1>2, <2>1, <2>2
  <1>8. Sound(rt') /\ SameCourse(rt', rt) /\ rt'.pending = rt.pending
    BY <1>0, InvParts, SameCourseItself
  <1>9. ~ControllerElsewhere =>
            Alike(Base(rt, adapters, frame, "Controller"), adapters'["Controller"])
    BY <1>1, <1>3, <1>4, <1>7, AlikeItself
  <1> QED BY <1>0, <1>5, <1>6, <1>7, <1>8, <1>9, FrameKeeps

-----------------------------------------------------------------------------
\* A relaunch.

\* The queues without the actions of the Polar adapter.
LEMMA DroppedPolar ==
  ASSUME CompositionInv
  PROVE  /\ NotOf("Polar")["Polar"] = <<>>
         /\ NotOf("Polar")["Controller"] = rt.pending["Controller"]
         /\ NotOf("Polar") \in Queues /\ Total(NotOf("Polar")) <= QueueCapacity
  <1> DEFINE p == [rt.pending EXCEPT !["Polar"] = <<>>]
  <1>1. /\ p["Polar"] = <<>> /\ \A s \in Sources : s # "Polar" => p[s] = rt.pending[s]
        /\ p \in Queues /\ Total(p) <= QueueCapacity
    BY InvParts, ShorterQueues
  <1>2. "Controller" \in Sources /\ "Controller" # "Polar"
    BY DEF Sources
  <1> QED BY <1>1, <1>2 DEF NotOf

\* A runtime, a tuning and a worker at their beginning.
LEMMA NewParts ==
  /\ Sound(NewRuntime) /\ NewRuntime.generation = 0 /\ NewRuntime.status = "Disabled"
  /\ NewRuntime.effective = NoRequest /\ NewRuntime.next = 1
  /\ NewRuntime.pending = Nothing
  /\ \A i \in 1..MaxSession : NewTuning(i) \in TuningStates
  /\ Idle \in Arms /\ Idle.at = "idle"
  <1>1. /\ NewRuntime.generation = 0 /\ NewRuntime.status = "Disabled"
        /\ NewRuntime.effective = NoRequest /\ NewRuntime.next = 1
        /\ NewRuntime.pending = Nothing /\ NewRuntime.output = NoOutput
        /\ NewRuntime.latest = NoCalibration
    BY DEF NewRuntime
  <1>2. 0 < 1 /\ 1 \in 1..(MaxBreath + 1) /\ 0 <= QueueCapacity /\ 0 \in 0..MaxTuning
    BY Bounds, SMTT(30)
  <1>3. NewRuntime \in Runtimes
    BY <1>2, Bounds, Nones, QueueParts DEF NewRuntime, Runtimes, Statuses
  <1>4. Total(Nothing) <= QueueCapacity
    <2>1. Total(Nothing) = Len(<<>>) + Len(<<>>)
      BY QueueParts DEF Total, Sources
    <2>2. Len(<<>>) + Len(<<>>) <= QueueCapacity
      BY Bounds, SMTT(30)
    <2> QED BY <2>1, <2>2
  <1>5. Shape(NewRuntime)
    BY <1>1, <1>2 DEF Shape
  <1>6. Sound(NewRuntime)
    BY <1>1, <1>3, <1>4, <1>5 DEF Sound, LatestFits
  <1>7. \A i \in 1..MaxSession : NewTuning(i) \in TuningStates
    BY <1>2 DEF NewTuning, TuningStates
  <1>8. Idle \in Arms /\ Idle.at = "idle"
    BY Nones, Bounds DEF Idle, Arms
  <1> QED BY <1>1, <1>6, <1>7, <1>8

\* A runtime with nothing running, nothing queued for Polar, and new adapters.
LEMMA NewFollows ==
  ASSUME NEW ads \in Bodies, NEW fr \in Frames, ads["Polar"] = NoAdapter, fr.at = "gone"
  PROVE  Follow(NewRuntime, ads, fr)
  <1> DEFINE n == NewRuntime
  <1>1. /\ n.generation = 0 /\ n.status = "Disabled" /\ n.next = 1
        /\ n.pending = Nothing
    BY NewParts
  <1>2. \A s \in Sources : n.pending[s] = <<>>
    BY <1>1, QueueParts
  <1>3. \A s \in Sources : Base(n, ads, fr, s).highest = 0
    BY AdapterNones DEF Base
  <1> HIDE DEF n
  <1>4. 0 < n.next
    BY <1>1, SMTT(30)
  <1>5. \A s \in Sources : Fresh(Base(n, ads, fr, s), n.pending[s], 0, n.next)
    BY <1>2, <1>3, <1>4, FreshEnd
  <1>6. ~Live(n) /\ Room(n)
    BY <1>1 DEF Live, Room
  <1>7. Follow(n, ads, fr)
    BY <1>5, <1>6 DEF Follow
  <1> QED BY <1>7 DEF n

\* A relaunch keeps the invariant.
LEMMA InstallKeeps ==
  ASSUME CompositionInv, Install PROVE CompositionInv'
  <1>1. /\ rt' = NewRuntime /\ tuning' = NewTuning(tuning.session + 1)
        /\ boundary' = NoTuning /\ frame' = AtFrame("gone") /\ UNCHANGED arm
        /\ adapters' = [adapters EXCEPT !["Polar"] = NoAdapter]
        /\ tuning.session < MaxSession
    BY DEF Install
  <1>2. tuning.session + 1 \in 1..MaxSession
    <2> DEFINE t == tuning.session
    <2>1. t \in 1..MaxSession /\ t < MaxSession
      BY <1>1, InvParts DEF StateOK, TuningStates
    <2> HIDE DEF t
    <2>2. t + 1 \in 1..MaxSession
      BY <2>1, Bounds, SMTT(30)
    <2> QED BY <2>2 DEF t
  <1>3. tuning' \in TuningStates
    BY <1>1, <1>2, NewParts
  <1>4. frame' \in Frames /\ frame'.at = "gone"
    <2>1. "gone" \in Places
      BY DEF Places
    <2> QED BY <1>1, <2>1, FrameParts
  <1>5. adapters' \in Bodies /\ adapters'["Polar"] = NoAdapter
    BY <1>1, InvParts, AdapterNones, BodyParts
  <1>6. StateOK'
    BY <1>1, <1>3, <1>4, <1>5, InvParts DEF StateOK, Bodies
  <1>7. Follow(NewRuntime, adapters', frame')
    BY <1>4, <1>5, NewFollows
  <1> QED BY <1>1, <1>6, <1>7, NewParts DEF CompositionInv, SoundInv

\* invalidate_polar_clock_owner
LEMMA InvalidatedParts ==
  ASSUME Sound(rt)
  PROVE  /\ Invalidated(rt).pending = NotOf("Polar") /\ Invalidated(rt).next = rt.next
         /\ Invalidated(rt).effective = rt.effective
         /\ IF rt.effective.source # "Polar"
            THEN SameCourse(Invalidated(rt), rt)
            ELSE Invalidated(rt).generation = 0 /\ Invalidated(rt).status = "Selected"
  <1>0. rt \in Runtimes
    BY DEF Sound
  <1> DEFINE p == NotOf("Polar")
  <1>1. p \in Queues
    BY ShorterQueues DEF NotOf, Sources
  <1> HIDE DEF p
  <1>2. CASE rt.effective.source # "Polar"
    <2>1. Invalidated(rt) = Dropped(rt, p)
      BY <1>2 DEF Invalidated, Dropped, p
    <2>2. SameCourse(Dropped(rt, p), rt) /\ Dropped(rt, p).pending = p
      BY <1>0, <1>1, DroppedParts DEF SameCourse
    <2> QED BY <1>2, <2>1, <2>2 DEF SameCourse, p
  <1>3. CASE rt.effective.source = "Polar"
    <2> DEFINE c == Cleared(rt)
               n == Invalidated(rt)
    <2>1. c \in Runtimes /\ c.generation = 0 /\ c.next = rt.next /\ c.effective = rt.effective
      BY <1>0, ClearedParts
    <2>2. n = [c EXCEPT !.pending = p, !.status = "Selected", !.latest = NoCalibration]
      BY <1>3 DEF Invalidated, p
    <2> HIDE DEF c
    <2>3. /\ n.status = "Selected" /\ n.generation = c.generation /\ n.next = c.next
          /\ n.pending = p /\ n.effective = c.effective
      BY <2>1, <2>2 DEF Runtimes
    <2> QED BY <1>3, <2>1, <2>3 DEF p
  <1> QED BY <1>2, <1>3

\* A new XR session keeps the invariant: nothing of the Polar source runs after it.
LEMMA NewSessionKeeps ==
  ASSUME CompositionInv, NewXrSession PROVE CompositionInv'
  <1> DEFINE n == Invalidated(rt)
             mid == [adapters EXCEPT !["Polar"] = NoAdapter]
  <1>1. /\ rt' = n /\ tuning' = [tuning EXCEPT !.pending = NoTuning]
        /\ boundary' = NoTuning /\ frame' = AtFrame("take") /\ UNCHANGED arm
        /\ adapters' = [mid EXCEPT !["Controller"] = NewAdapter] /\ frame.at = "gone"
    BY DEF NewXrSession, At
  <1>2. tuning' \in TuningStates
    BY <1>1, InvParts DEF StateOK, TuningStates
  <1>3. frame' \in Frames /\ frame'.at = "take"
    <2>1. "take" \in Places
      BY DEF Places
    <2> QED BY <1>1, <2>1, FrameParts
  <1>4. /\ adapters' \in Bodies /\ adapters'["Polar"] = NoAdapter
        /\ adapters'["Controller"] = NewAdapter
    <2>1. mid \in Bodies /\ mid["Polar"] = NoAdapter
      BY InvParts, AdapterNones, BodyParts
    <2> HIDE DEF mid
    <2> QED BY <1>1, <2>1, AdapterNones, BodyParts
  <1>5. StateOK'
    BY <1>1, <1>2, <1>3, <1>4, InvParts DEF StateOK, Bodies
  <1>6. Sound(n)
    BY InvParts, InvalidatedSound
  <1>7. /\ n.pending = NotOf("Polar") /\ n.next = rt.next /\ n.effective = rt.effective
        /\ IF rt.effective.source # "Polar" THEN SameCourse(n, rt)
           ELSE n.generation = 0 /\ n.status = "Selected"
    BY InvParts, InvalidatedParts
  <1> HIDE DEF n
  <1>8. /\ n.pending["Polar"] = <<>> /\ n.pending["Controller"] = rt.pending["Controller"]
    BY <1>7, DroppedPolar
  <1>9. /\ Base(n, adapters', frame', "Polar") = NoAdapter
        /\ Base(n, adapters', frame', "Controller") = NewAdapter
        /\ Base(rt, adapters, frame, "Controller") = NewAdapter
    BY <1>1, <1>3, <1>4 DEF Base
  <1>10. ASSUME NEW s \in Sources, Tracked(s)
         PROVE  Fresh(Base(n, adapters', frame', s), n.pending[s], 0, n.next)
    <2>1. CASE s = "Polar"
      <3>1. 0 < n.next
        <4>1. n.next \in 1..(MaxBreath + 1)
          BY <1>6, RuntimeParts DEF Sound
        <4> QED BY <4>1, SMTT(30)
      <3>2. Fresh(NoAdapter, <<>>, 0, n.next)
        BY <3>1, AdapterNones, FreshEnd
      <3> QED BY <1>8, <1>9, <2>1, <3>2
    <2>2. CASE s = "Controller"
      <3>1. Fresh(NewAdapter, rt.pending["Controller"], 0, rt.next)
        BY <1>9, <1>10, <2>2, InvParts DEF Follow
      <3> QED BY <1>7, <1>8, <1>9, <2>2, <3>1
    <2> QED BY <2>1, <2>2 DEF Sources
  <1>11. ASSUME Live(n), Tracked(n.effective.source)
         PROVE  Chain(n, Base(n, adapters', frame', n.effective.source),
                      n.pending[n.effective.source], 0)
    <2>1. rt.effective.source # "Polar" /\ SameCourse(n, rt)
      BY <1>7, <1>11 DEF Live
    <2>2. Live(rt) /\ n.generation = rt.generation /\ n.status = rt.status
      BY <1>11, <2>1 DEF Live, SameCourse
    <2>3. rt.effective.source = "Controller"
      <3>1. rt.effective.source \in Sources
        BY <2>2, InvParts, SourceOf DEF Live, Shape
      <3> QED BY <2>1, <3>1 DEF Sources
    <2>4. Chain(rt, NewAdapter, rt.pending["Controller"], 0)
      BY <1>7, <1>9, <1>11, <2>2, <2>3, InvParts DEF Follow
    <2>5. Chain(n, NewAdapter, rt.pending["Controller"], 0)
      BY <1>7, <2>2, <2>4, ChainKept
    <2> QED BY <1>7, <1>8, <1>9, <2>3, <2>5
  <1>12. Room(n)
    BY <1>7 DEF Room
  <1>13. Follow(n, adapters', frame')
    BY <1>10, <1>11, <1>12 DEF Follow
  <1> QED BY <1>1, <1>5, <1>6, <1>13 DEF CompositionInv, SoundInv

-----------------------------------------------------------------------------
\* The worker.

\* What a guided session selects.
LEMMA DesiredParts ==
  ASSUME NEW r \in Runtimes, r.effective # NoRequest
  PROVE  Desired(r) \in Requests /\ Desired(r).source = "Polar"
  <1>1. r.effective \in Requests /\ "Polar" \in Sources /\ "State" \in Mappings
    BY SourceOf DEF Sources, Mappings
  <1> QED BY <1>1 DEF Desired, Requests

\* request_guided_arm
LEMMA RequestKeeps ==
  ASSUME CompositionInv, ArmRequest PROVE CompositionInv'
  <1> DEFINE desired == Desired(rt)
             selected == IF rt.effective = desired THEN rt ELSE AfterSelect(rt, desired)
             running == AfterEnsureRunning(selected)
             ok == selected.effective = desired /\ running.status = "Running"
                   /\ (Healthy(selected) \/ running # selected)
             asked == IF AlreadyAcknowledged(running) THEN tuning ELSE Tuned(tuning, "guided")
  <1>1. /\ rt.effective # NoRequest /\ UNCHANGED <<boundary, adapters, frame>>
        /\ IF ok
           THEN /\ Bounded(running) /\ asked.generation <= MaxTuning
                /\ rt' = running /\ tuning' = asked
                /\ arm' = [at |-> "waiting", selection |-> desired,
                           generation |-> running.generation, tuning |-> asked.requested]
           ELSE rt' = selected /\ arm' = Idle /\ UNCHANGED tuning
    BY DEF ArmRequest
  <1>2. desired \in Requests /\ desired.source = "Polar" /\ desired # NoRequest
    BY <1>1, InvParts, DesiredParts, Nones
  <1> HIDE DEF desired
  <1>3. Sound(selected) /\ Follow(selected, adapters, frame)
    BY <1>2, InvParts, SelectSound, SelectFollows
  <1> HIDE DEF selected
  <1>4. tuning \in TuningStates /\ arm \in Arms
    BY InvParts DEF StateOK
  <1>5. CASE ~ok
    <2>1. /\ rt' = selected /\ arm' = Idle /\ UNCHANGED <<tuning, boundary, adapters, frame>>
      BY <1>1, <1>5
    <2>2. StateOK'
      BY <2>1, InvParts, NewParts DEF StateOK
    <2> QED BY <1>3, <2>1, <2>2 DEF CompositionInv, SoundInv
  <1>6. CASE ok
    <2>1. /\ Bounded(running) /\ asked.generation <= MaxTuning
          /\ rt' = running /\ tuning' = asked
          /\ arm' = [at |-> "waiting", selection |-> desired,
                     generation |-> running.generation, tuning |-> asked.requested]
          /\ selected.effective = desired /\ running.status = "Running"
      BY <1>1, <1>6
    <2>2. running.next <= MaxBreath + 1
      <3>1. running.next \in Int
        BY <1>3, CalibrationNextType DEF Sound
      <3> HIDE DEF running
      <3> QED BY <1>4, <2>1, <3>1, BoundedNext
    <2>3. Sound(running) /\ Follow(running, adapters, frame)
      BY <1>2, <1>3, <2>1, <2>2, InvParts, EnsureSound, EnsureFollows
    <2> HIDE DEF running
    <2>4. asked \in TuningStates /\ asked.requested \in Tunings \cup {NoTuning}
      <3>1. CASE AlreadyAcknowledged(running)
        BY <1>4, <3>1 DEF TuningStates
      <3>2. CASE ~AlreadyAcknowledged(running)
        <4> DEFINE t == tuning.generation
        <4>1. asked = Tuned(tuning, "guided") /\ "guided" \in Parameters /\ t \in 0..MaxTuning
          BY <1>4, <3>2 DEF Parameters, TuningStates
        <4>2. Tuned(tuning, "guided").generation = t + 1
          BY <1>4 DEF Tuned, TuningStates
        <4>3. t + 1 <= MaxTuning
          BY <2>1, <4>1, <4>2
        <4>4. t < MaxTuning
          <5> HIDE DEF t
          <5> QED BY <4>1, <4>3, Bounds, SMTT(30)
        <4> QED BY <1>4, <4>1, <4>4, TunedParts
      <3> QED BY <3>1, <3>2
    <2> HIDE DEF asked
    <2>5. running.generation \in BreathGenerations /\ running.generation # 0
      BY <2>1, <2>3, RuntimeParts DEF Sound, Shape
    <2>6. /\ arm' \in Arms /\ arm'.generation = running.generation
          /\ arm'.selection = desired
      BY <1>2, <2>1, <2>4, <2>5 DEF Arms
    <2>7. StateOK'
      BY <1>1, <1>2, <2>1, <2>4, <2>5, <2>6, InvParts DEF StateOK
    <2> QED BY <1>1, <2>1, <2>3, <2>7 DEF CompositionInv, SoundInv
  <1> QED BY <1>5, <1>6

\* The waiting worker's look changes nothing but the worker.
LEMMA LooksKeeps ==
  ASSUME CompositionInv, ArmLooks PROVE CompositionInv'
  <1>1. /\ UNCHANGED <<rt, tuning, boundary, adapters, frame>>
        /\ arm' \in {[Idle EXCEPT !.at = "armed"], Idle}
    BY DEF ArmLooks
  <1>2. arm' \in Arms /\ arm'.at # "waiting"
    <2>1. [Idle EXCEPT !.at = "armed"] \in Arms /\ [Idle EXCEPT !.at = "armed"].at = "armed"
      BY NewParts DEF Arms
    <2> QED BY <1>1, <2>1, NewParts
  <1>3. StateOK'
    BY <1>1, <1>2, InvParts DEF StateOK
  <1> QED BY <1>1, <1>3 DEF CompositionInv, SoundInv

\* cancel_guided_arm: the queue of Polar is dropped, and its reset always fits when
\* Polar is selected.
LEMMA TimesOutKeeps ==
  ASSUME CompositionInv, ArmTimesOut PROVE CompositionInv'
  <1> DEFINE p == NotOf("Polar")
             kept == Dropped(rt, p)
             c == Restated(kept, "Selected")
             y == Act("Reset", 0)
             acts == For("Polar", <<y>>)
             n == Commit(kept, c, acts, TRUE)
  <1>0. arm.at = "waiting" /\ arm' = Idle /\ UNCHANGED <<boundary, adapters, frame>>
    BY DEF ArmTimesOut
  <1>1. CASE ~(rt.generation = arm.generation /\ tuning.requested = arm.tuning)
    <2>1. UNCHANGED <<rt, tuning>>
      BY <1>1 DEF ArmTimesOut
    <2>2. StateOK'
      BY <1>0, <2>1, InvParts, NewParts DEF StateOK
    <2> QED BY <1>0, <2>1, <2>2 DEF CompositionInv, SoundInv
  <1>2. CASE rt.generation = arm.generation /\ tuning.requested = arm.tuning
    <2>1. /\ rt' = n
          /\ tuning' = [tuning EXCEPT !.pending =
                            IF tuning.pending = arm.tuning THEN NoTuning ELSE tuning.pending]
      BY <1>2 DEF ArmTimesOut, Dropped, Restated
    <2>2. tuning' \in TuningStates
      <3> DEFINE w == IF tuning.pending = arm.tuning THEN NoTuning ELSE tuning.pending
      <3>1. tuning \in TuningStates
        BY InvParts DEF StateOK
      <3>2. w \in Tunings \cup {NoTuning}
        BY <3>1, TuningParts
      <3> HIDE DEF w
      <3>3. [tuning EXCEPT !.pending = w] \in TuningStates
        BY <3>1, <3>2 DEF TuningStates
      <3> QED BY <2>1, <3>3 DEF w
    <2>3. StateOK'
      BY <1>0, <2>2, InvParts, NewParts DEF StateOK
    <2>4. rt.generation # 0 /\ rt.effective # NoRequest
      BY <1>0, <1>2, InvParts DEF StateOK, Shape
    <2>5. /\ p["Polar"] = <<>> /\ p["Controller"] = rt.pending["Controller"]
          /\ p \in Queues /\ Total(p) <= QueueCapacity
      BY DroppedPolar
    <2> HIDE DEF p
    <2>6. /\ Sound(kept) /\ kept \in Runtimes /\ SameCourse(kept, rt) /\ kept.pending = p
      BY <2>5, InvParts, DroppedSound, DroppedParts DEF SameCourse
    <2> HIDE DEF kept
    <2>7. /\ c \in Runtimes /\ c.effective = rt.effective /\ c.status = "Selected"
          /\ c.generation = 0 /\ c.next = rt.next /\ c.output = NoOutput
      BY <2>6, RestatedParts DEF Statuses, SameCourse
    <2> HIDE DEF c
    <2>8. 0 < rt.next
      <3>1. rt.next \in 1..(MaxBreath + 1)
        BY InvParts, RuntimeParts
      <3> QED BY <3>1, SMTT(30)
    <2>9. Shape(c)
      BY <2>4, <2>7, <2>8 DEF Shape
    <2>10. /\ y \in Actions /\ <<y>> \in Seq(Actions)
      <3>1. y \in Actions
        BY ActionParts
      <3> HIDE DEF y
      <3> QED BY <3>1, SMTT(30)
    <2>11. /\ acts \in Queues /\ acts["Polar"] = <<y>> /\ acts["Controller"] = <<>>
      <3> DEFINE v == <<y>>
      <3>1. v \in Seq(Actions) /\ "Polar" \in Sources /\ "Controller" \in Sources
            /\ "Controller" # "Polar"
        BY <2>10 DEF Sources
      <3> HIDE DEF v
      <3>2. For("Polar", v) \in Queues /\ For("Polar", v)["Polar"] = v
            /\ For("Polar", v)["Controller"] = <<>>
        BY <3>1, QueueParts
      <3> QED BY <3>2 DEF v
    <2> HIDE DEF acts
    <2>12. Sound(n)
      BY <2>6, <2>7, <2>9, <2>11, CommitSound
    <2>13. Follow(n, adapters, frame)
      <3>1. CASE ~Fits(kept, acts)
        <4>1. n = kept
          BY <3>1 DEF Commit
        <4>2. rt.effective.source # "Polar"
          <5> SUFFICES ASSUME rt.effective.source = "Polar" PROVE FALSE
            OBVIOUS
          <5>1. Len(rt.pending["Controller"]) < QueueCapacity
            BY <2>4, InvParts DEF Follow, Room
          <5> DEFINE q == rt.pending["Controller"]
          <5>2. q \in Seq(Actions) /\ Len(q) < QueueCapacity
            BY <5>1, InvParts, RuntimeParts
          <5>3. Total(kept.pending) = Len(q) + Len(<<>>) /\ Total(acts) = Len(<<>>) + Len(<<y>>)
            BY <2>5, <2>6, <2>11 DEF Total
          <5> HIDE DEF q
          <5>4. (Len(q) + Len(<<>>)) + (Len(<<>>) + Len(<<y>>)) <= QueueCapacity
            BY <5>2, Bounds, SMTT(30)
          <5> QED BY <3>1, <5>3, <5>4 DEF Fits
        <4>3. rt.effective.source = "Controller"
          BY <2>4, <4>2, InvParts, SourceOf DEF Sources
        <4>4. ASSUME NEW s \in Sources, NEW a \in AdapterStates,
                     Fresh(a, rt.pending[s], 0, rt.next)
              PROVE  Fresh(a, kept.pending[s], 0, kept.next)
          <5>1. CASE s = "Polar"
            <6>1. a.highest < rt.next
              BY <4>4 DEF Fresh
            <6>2. Fresh(a, <<>>, 0, rt.next)
              BY <6>1, FreshEnd
            <6> QED BY <2>5, <2>6, <5>1, <6>2 DEF SameCourse
          <5>2. CASE s = "Controller"
            BY <2>5, <2>6, <4>4, <5>2 DEF SameCourse
          <5> QED BY <5>1, <5>2 DEF Sources
        <4>5. Room(kept)
          BY <2>6, <4>2 DEF Room, SameCourse
        <4>6. ASSUME Live(kept), Tracked(kept.effective.source)
              PROVE  /\ kept.effective # NoRequest
                     /\ Chain(kept, Base(kept, adapters, frame, kept.effective.source),
                              kept.pending[kept.effective.source], 0)
          <5>1. /\ kept.effective = rt.effective /\ kept.generation = rt.generation
                /\ kept.status = rt.status /\ Live(rt)
            BY <2>6, <4>6 DEF SameCourse, Live
          <5> DEFINE b == Base(rt, adapters, frame, "Controller")
          <5>2. Chain(rt, b, rt.pending["Controller"], 0)
            BY <4>3, <4>6, <5>1, InvParts DEF Follow
          <5>3. Base(kept, adapters, frame, "Controller") = b
            BY <2>4, <2>6, <5>1, InvParts, BaseParts
          <5> HIDE DEF b
          <5>4. Chain(kept, b, rt.pending["Controller"], 0)
            BY <5>1, <5>2, ChainKept
          <5> QED BY <2>4, <2>5, <2>6, <4>3, <5>1, <5>3, <5>4
        <4>7. Follow(kept, adapters, frame)
          BY <2>6, <4>4, <4>5, <4>6, InvParts, FollowNew
        <4> QED BY <4>1, <4>7
      <3>2. CASE Fits(kept, acts)
        <4>1. /\ n \in Runtimes /\ n.status = "Selected" /\ n.generation = 0
              /\ n.next = rt.next /\ n.pending = Extended(p, acts)
          BY <2>6, <2>7, <2>11, <3>2, CommitParts
        <4> HIDE DEF n
        <4>2. /\ n.pending["Controller"] = rt.pending["Controller"] \o <<>>
              /\ n.pending["Polar"] = <<>> \o <<y>>
          <5>1. \A s \in Sources : Extended(p, acts)[s] = p[s] \o acts[s]
            BY <2>5, <2>11, ExtendedParts
          <5> QED BY <2>5, <2>11, <4>1, <5>1, InvParts
        <4>3. ASSUME NEW s \in Sources, NEW a \in AdapterStates,
                     Fresh(a, rt.pending[s], 0, rt.next)
              PROVE  Fresh(a, n.pending[s], 0, n.next)
          <5>0. rt.next \in Nat /\ rt.pending["Controller"] \in Seq(Actions)
            BY InvParts, RuntimeParts
          <5>1. CASE s = "Polar"
            <6>1. a.highest < rt.next
              BY <4>3 DEF Fresh
            <6>2. Fresh(a, <<>>, 0, rt.next)
              BY <6>1, FreshEnd
            <6>3. <<>> \in Seq(Actions) /\ <<y>> \in {<<>>, <<Act("Reset", 0)>>}
              BY SMTT(30)
            <6>4. Fresh(a, <<>> \o <<y>>, 0, rt.next)
              BY <5>0, <6>2, <6>3, FreshReset
            <6> QED BY <4>1, <4>2, <5>1, <6>4
          <5>2. CASE s = "Controller"
            <6>1. Fresh(a, rt.pending["Controller"] \o <<>>, 0, rt.next)
              BY <4>3, <5>0, <5>2, FreshReset
            <6> QED BY <4>1, <4>2, <5>2, <6>1
          <5> QED BY <5>1, <5>2 DEF Sources
        <4>4. ~Live(n) /\ Room(n)
          BY <4>1 DEF Live, Room
        <4> QED BY <4>1, <4>3, <4>4, InvParts, FollowNew
      <3> QED BY <3>1, <3>2
    <2> QED BY <1>0, <2>1, <2>3, <2>12, <2>13 DEF CompositionInv, SoundInv
  <1> QED BY <1>1, <1>2

-----------------------------------------------------------------------------
\* apply_polar_configuration_boundary.

WF == INSTANCE WellFoundedInduction

\* A nonempty set of naturals has a least element: the induction over the queue.
LEMMA LeastElement ==
  ASSUME NEW T \in SUBSET Nat, T # {}
  PROVE  \E n \in T : \A m \in T : n =< m
  <1>1. \E x \in T : \A y \in T : ~ (<<y, x>> \in WF!OpToRel(<, Nat))
    BY WF!NatLessThanWellFounded, WF!WFMin
  <1>2. PICK x \in T : \A y \in T : ~ (<<y, x>> \in WF!OpToRel(<, Nat))
    BY <1>1
  <1>3. \A y \in T : ~ (y < x)
    BY <1>2 DEF WF!OpToRel
  <1> QED BY <1>3, SMTT(30)

\* f[n] is what the boundary has done after the first n actions of the Polar queue.
AtOutset == [adapter |-> adapters["Polar"], boundary |-> boundary,
             rt |-> [rt EXCEPT !.pending = NotOf("Polar")]]
Onward(f, n) == IF n = 0 THEN AtOutset ELSE BoundaryAction(f[n - 1], Of("Polar")[n])
Course(f) == f = [n \in 0..Len(Of("Polar")) |-> Onward(f, n)]
CourseUpTo(k) == \E f : \A n \in 0..k : f[n] = Onward(f, n)

\* The states of the boundary exist: there is no least place that lacks one.
LEMMA CourseExists ==
  ASSUME NEW len \in Nat, Len(Of("Polar")) = len
  PROVE  \E f : Course(f)
  <1> DEFINE Bad == {k \in 0..len : ~CourseUpTo(k)}
  <1>1. CourseUpTo(0)
    <2> DEFINE f == [n \in 0..0 |-> AtOutset]
    <2>1. \A n \in 0..0 : n = 0 /\ f[n] = AtOutset
      BY SMTT(30)
    <2>2. \A n \in 0..0 : f[n] = Onward(f, n)
      BY <2>1 DEF Onward
    <2> HIDE DEF f
    <2> QED BY <2>2 DEF CourseUpTo
  <1>2. ASSUME NEW k \in 0..len, k + 1 \in 0..len, CourseUpTo(k)
        PROVE  CourseUpTo(k + 1)
    <2>1. PICK f : \A n \in 0..k : f[n] = Onward(f, n)
      BY <1>2 DEF CourseUpTo
    <2> DEFINE z == BoundaryAction(f[k], Of("Polar")[k + 1])
               g == [n \in 0..(k + 1) |-> IF n = k + 1 THEN z ELSE f[n]]
    <2>2. \A n \in 0..(k + 1) : g[n] = Onward(g, n)
      <3> SUFFICES ASSUME NEW n \in 0..(k + 1) PROVE g[n] = Onward(g, n)
        OBVIOUS
      <3> HIDE DEF z
      <3>1. CASE n = k + 1
        <4>1. /\ n # 0 /\ n - 1 = k /\ k \in 0..(k + 1) /\ k # k + 1
          BY <3>1, SMTT(30)
        <4>2. g[n] = z /\ g[k] = f[k]
          BY <3>1, <4>1
        <4> QED BY <3>1, <4>1, <4>2 DEF Onward, z
      <3>2. CASE n # k + 1
        <4>1. /\ n \in 0..k
              /\ n # 0 => n - 1 \in 0..(k + 1) /\ n - 1 # k + 1
          BY <3>2, SMTT(30)
        <4>2. g[n] = f[n] /\ (n # 0 => g[n - 1] = f[n - 1])
          BY <3>2, <4>1
        <4>3. f[n] = Onward(f, n)
          BY <2>1, <4>1
        <4> QED BY <4>2, <4>3 DEF Onward
      <3> QED BY <3>1, <3>2
    <2> HIDE DEF g
    <2> QED BY <2>2 DEF CourseUpTo
  <1>3. Bad = {}
    <2> SUFFICES ASSUME Bad # {} PROVE FALSE
      OBVIOUS
    <2>1. Bad \in SUBSET Nat
      BY SMTT(30)
    <2>2. PICK k \in Bad : \A m \in Bad : k =< m
      BY <2>1, LeastElement
    <2>3. k # 0 /\ k \in 0..len /\ ~CourseUpTo(k)
      BY <1>1, <2>2
    <2>4. k - 1 \in 0..len /\ k - 1 \notin Bad /\ (k - 1) + 1 = k
      BY <2>2, <2>3, SMTT(30)
    <2>5. CourseUpTo(k - 1)
      BY <2>4
    <2> QED BY <1>2, <2>3, <2>4, <2>5
  <1>4. len \in 0..len
    BY SMTT(30)
  <1>5. PICK f : \A n \in 0..len : f[n] = Onward(f, n)
    BY <1>3, <1>4 DEF CourseUpTo
  <1> DEFINE g == [n \in 0..len |-> f[n]]
  <1>6. \A n \in 0..len : n # 0 => n - 1 \in 0..len
    BY SMTT(30)
  <1>7. \A n \in 0..len : Onward(g, n) = f[n]
    <2>1. \A n \in 0..len : n # 0 => g[n - 1] = f[n - 1]
      BY <1>6
    <2> QED BY <1>5, <2>1 DEF Onward
  <1>8. g = [n \in 0..len |-> Onward(g, n)]
    BY <1>7
  <1> HIDE DEF g
  <1>9. Course(g)
    BY <1>8 DEF Course
  <1> QED BY <1>9

\* So the recursion in BoundaryActions is one of them.
LEMMA BoundaryIsCourse ==
  ASSUME NEW len \in Nat, Len(Of("Polar")) = len
  PROVE  \E f : /\ \A n \in 0..len : f[n] = Onward(f, n)
                /\ BoundaryActions = f[len]
  <1> DEFINE f == CHOOSE f : Course(f)
  <1>1. Course(f)
    BY CourseExists
  <1>2. BoundaryActions = f[Len(Of("Polar"))]
    BY DEF BoundaryActions, Course, Onward, AtOutset
  <1> HIDE DEF f
  <1>3. \A n \in 0..len : f[n] = Onward(f, n)
    BY <1>1 DEF Course
  <1> QED BY <1>2, <1>3

\* After k actions of the Polar queue q: the runtime is as it was but for the queue
\* and what was reported, and the adapter has the rest of the queue before it.
After(x, k) ==
    /\ x.adapter \in AdapterStates /\ x.boundary \in Tunings \cup {NoTuning}
    /\ Sound(x.rt) /\ SameCourse(x.rt, rt) /\ x.rt.pending = NotOf("Polar")
    /\ Fresh(x.adapter, Of("Polar"), k, rt.next)
    /\ Live(rt) /\ rt.effective.source = "Polar" => Chain(rt, x.adapter, Of("Polar"), k)

\* Before its first action the boundary is where the invariant says.
LEMMA AfterOutset ==
  ASSUME SoundInv, Follow(rt, adapters, frame)
  PROVE  After(AtOutset, 0)
  <1> DEFINE x == AtOutset
             d == Dropped(rt, NotOf("Polar"))
  <1>0. rt \in Runtimes /\ Sound(rt) /\ "Polar" \in Sources /\ adapters \in Bodies
    BY DEF SoundInv, Sound, Sources, StateOK, Bodies
  <1>1. /\ x.adapter = adapters["Polar"] /\ x.boundary = boundary /\ x.rt = d
    BY DEF AtOutset, Dropped
  <1>2. NotOf("Polar") \in Queues /\ Total(NotOf("Polar")) <= QueueCapacity
    BY <1>0, ShorterQueues DEF NotOf
  <1>3. Sound(d) /\ SameCourse(d, rt) /\ d.pending = NotOf("Polar")
    BY <1>0, <1>2, DroppedSound, DroppedParts DEF SameCourse
  <1>4. Base(rt, adapters, frame, "Polar") = adapters["Polar"] /\ Tracked("Polar")
    BY DEF Base, Tracked
  <1>5. Fresh(adapters["Polar"], Of("Polar"), 0, rt.next)
    BY <1>0, <1>4 DEF Follow, Of
  <1>6. Live(rt) /\ rt.effective.source = "Polar" =>
            Chain(rt, adapters["Polar"], Of("Polar"), 0)
    BY <1>4 DEF Follow, Of
  <1>7. adapters["Polar"] \in AdapterStates /\ boundary \in Tunings \cup {NoTuning}
    BY <1>0 DEF Bodies, SoundInv, StateOK
  <1> HIDE DEF x, d
  <1>8. After(x, 0)
    BY <1>1, <1>3, <1>5, <1>6, <1>7 DEF After
  <1> QED BY <1>8 DEF x

\* One action of the boundary.
LEMMA AfterAction ==
  ASSUME SoundInv, NEW x, NEW k \in Nat, k < Len(Of("Polar")), After(x, k)
  PROVE  After(BoundaryAction(x, Of("Polar")[k + 1]), k + 1)
  <1> DEFINE q == Of("Polar")
             y == q[k + 1]
             e == rt.effective
             par == tuning.effective.parameters
             a == x.adapter
             b == Applied(a, "Polar", y, e, par)
             c == Receipt(b, y)
             n == SubmitCalibration(x.rt, "Polar", c)
             z == BoundaryAction(x, y)
  <1>0. rt \in Runtimes /\ Sound(rt) /\ "Polar" \in Sources
    BY DEF SoundInv, Sound, Sources
  <1>1. q \in Seq(Actions) /\ e \in Requests \cup {NoRequest} /\ rt.next \in Nat
    BY <1>0, RuntimeParts DEF Of
  <1>2. y \in Actions
    <2> HIDE DEF q
    <2>1. Len(q) \in Nat /\ k + 1 \in 1..Len(q)
      BY <1>1, SMTT(30) DEF q
    <2> QED BY <1>1, <2>1, SMTT(30)
  <1>3. par \in Parameters \cup {"none"}
    BY TuningParts DEF SoundInv, StateOK
  <1>4. /\ a \in AdapterStates /\ Sound(x.rt) /\ SameCourse(x.rt, rt)
        /\ x.rt.pending = NotOf("Polar") /\ Fresh(a, q, k, rt.next)
        /\ x.boundary \in Tunings \cup {NoTuning}
        /\ Live(rt) /\ rt.effective.source = "Polar" => Chain(rt, a, q, k)
    BY DEF After
  <1> HIDE DEF y, e, par, a
  <1>5. /\ b \in AdapterStates /\ Raises(a, y, b)
        /\ e # NoRequest => Moves(e.inverted, a, y, b)
    BY <1>0, <1>1, <1>2, <1>3, <1>4, AppliedParts
  <1>6. z.adapter = b /\ z.rt = n
        /\ z.boundary = IF y.kind = "Configure" THEN NoTuning ELSE x.boundary
    BY DEF BoundaryAction, a, e, par
  <1> HIDE DEF b, q
  <1>7. c \in Latests
    BY <1>5, AnswersParts
  <1> HIDE DEF c
  <1>8. Sound(n) /\ SameCourse(n, rt) /\ n.pending = NotOf("Polar")
    <2>1. x.rt \in Runtimes
      BY <1>4 DEF Sound
    <2>2. Sound(n)
      BY <1>0, <1>4, <1>7, SubmitSound
    <2>3. SameCourse(n, x.rt) /\ n.pending = x.rt.pending
      BY <1>0, <1>7, <2>1, SubmitParts DEF SameCourse
    <2> QED BY <1>4, <2>2, <2>3 DEF SameCourse
  <1>9. a.highest \in Nat /\ b.highest \in Nat
    BY <1>4, <1>5, AdapterParts
  <1>10. k < Len(q) /\ y = q[k + 1]
    BY DEF q, y
  <1>11. Fresh(b, q, k + 1, rt.next)
    BY <1>1, <1>4, <1>5, <1>9, <1>10, FreshStep
  <1>12. ASSUME Live(rt), rt.effective.source = "Polar"
         PROVE  Chain(rt, b, q, k + 1)
    <2>1. Chain(rt, a, q, k)
      BY <1>4, <1>12
    <2>2. e # NoRequest
      BY <1>12, <1>0, Nones DEF e
    <2>3. Moves(rt.effective.inverted, a, q[k + 1], b)
      BY <1>5, <1>10, <2>2 DEF e
    <2> QED BY <1>1, <1>4, <1>10, <1>12, <2>1, <2>3, ChainStep
  <1> HIDE DEF n, z
  <1>13. z.boundary \in Tunings \cup {NoTuning}
    BY <1>4, <1>6
  <1>14. After(z, k + 1)
    BY <1>5, <1>6, <1>8, <1>11, <1>12, <1>13 DEF After, q
  <1> QED BY <1>14 DEF z, y, q

\* What the boundary has done once the queue is empty.
Emptied(x) ==
    /\ x.adapter \in AdapterStates /\ x.boundary \in Tunings \cup {NoTuning}
    /\ Sound(x.rt) /\ SameCourse(x.rt, rt) /\ x.rt.pending = NotOf("Polar")
    /\ Fresh(x.adapter, <<>>, 0, rt.next)
    /\ Live(rt) /\ rt.effective.source = "Polar" => Chain(rt, x.adapter, <<>>, 0)

\* After the boundary the Polar queue is empty and its adapter is where it led.
LEMMA BoundaryEmpties ==
  ASSUME SoundInv, Follow(rt, adapters, frame)
  PROVE  Emptied(BoundaryActions)
  <1> DEFINE q == Of("Polar")
             len == Len(q)
  <1>1. q \in Seq(Actions) /\ rt \in Runtimes
    BY RuntimeParts DEF SoundInv, Sound, Of
  <1>2. len \in Nat
    <2> HIDE DEF q
    <2> QED BY <1>1, SMTT(30)
  <1> HIDE DEF len
  <1>3. PICK f : /\ \A n \in 0..len : f[n] = Onward(f, n)
                 /\ BoundaryActions = f[len]
    BY <1>2, BoundaryIsCourse DEF len
  <1>4. After(f[0], 0)
    <2>1. 0 \in 0..len
      BY <1>2, SMTT(30)
    <2> QED BY <1>3, <2>1, AfterOutset DEF Onward
  <1>5. ASSUME NEW k \in Nat, k < len, After(f[k], k)
        PROVE  After(f[k + 1], k + 1)
    <2>1. k + 1 \in 0..len /\ k + 1 # 0 /\ (k + 1) - 1 = k
      BY <1>2, <1>5, SMTT(30)
    <2>2. f[k + 1] = BoundaryAction(f[k], q[k + 1])
      BY <1>3, <2>1 DEF Onward
    <2>3. After(BoundaryAction(f[k], q[k + 1]), k + 1)
      BY <1>5, AfterAction DEF len
    <2> QED BY <2>2, <2>3
  <1> DEFINE Bad == {k \in 0..len : ~After(f[k], k)}
  <1>6. Bad = {}
    <2> SUFFICES ASSUME Bad # {} PROVE FALSE
      OBVIOUS
    <2>1. Bad \in SUBSET Nat
      BY <1>2, SMTT(30)
    <2>2. PICK k \in Bad : \A m \in Bad : k =< m
      BY <2>1, LeastElement
    <2>3. k # 0 /\ k \in 0..len /\ ~After(f[k], k)
      BY <1>4, <2>2
    <2>4. k - 1 \in 0..len /\ k - 1 \notin Bad /\ (k - 1) + 1 = k
          /\ k - 1 \in Nat /\ k - 1 < len
      BY <1>2, <2>2, <2>3, SMTT(30)
    <2>5. After(f[k - 1], k - 1)
      BY <2>4
    <2> QED BY <1>5, <2>3, <2>4, <2>5
  <1>7. After(f[len], len)
    <2>1. len \in 0..len
      BY <1>2, SMTT(30)
    <2> QED BY <1>6, <2>1
  <1> DEFINE x == BoundaryActions
  <1>8. After(x, len)
    BY <1>3, <1>7
  <1> HIDE DEF x
  <1>9. Fresh(x.adapter, <<>>, 0, rt.next)
    <2>1. x.adapter.highest < rt.next
      BY <1>8 DEF After, Fresh
    <2> QED BY <2>1, FreshEnd
  <1>10. ASSUME Live(rt), rt.effective.source = "Polar"
         PROVE  Chain(rt, x.adapter, <<>>, 0)
    <2>1. Chain(rt, x.adapter, q, Len(q))
      BY <1>8, <1>10 DEF After, len
    <2> QED BY <1>1, <2>1, ChainEnd
  <1>11. Emptied(x)
    BY <1>8, <1>9, <1>10 DEF After, Emptied
  <1> QED BY <1>11 DEF x

\* poll_polar
LEMMA TuningAppliedParts ==
  ASSUME NEW x \in AdapterStates, NEW par \in Parameters \cup {"none"},
         NEW inverted \in BOOLEAN
  PROVE  /\ [x EXCEPT !.phase = par, !.phaseInverted = inverted] \in AdapterStates
         /\ Alike(x, [x EXCEPT !.phase = par, !.phaseInverted = inverted])
  <1> DEFINE b == [x EXCEPT !.phase = par, !.phaseInverted = inverted]
  <1>1. b \in AdapterStates
    BY DEF AdapterStates
  <1>2. /\ b.generation = x.generation /\ b.inverted = x.inverted
        /\ b.highest = x.highest /\ b.lifecycle = x.lifecycle
    BY DEF AdapterStates
  <1> HIDE DEF b
  <1>3. Alike(x, b)
    BY <1>2 DEF Alike
  <1> QED BY <1>1, <1>3 DEF b

\* Being alike is transitive.
LEMMA AlikeTwice ==
  ASSUME NEW a, NEW b, NEW c, Alike(a, b), Alike(b, c) PROVE Alike(a, c)
  BY DEF Alike

\* poll_polar keeps the invariant.
LEMMA PollsKeeps ==
  ASSUME CompositionInv, NEW observes \in BOOLEAN, NEW fails \in BOOLEAN,
         NEW usable \in BOOLEAN, FramePolls(observes, fails, usable)
  PROVE  CompositionInv'
  <1> DEFINE x == BoundaryActions
             par == tuning.pending.parameters
             inv == rt.effective.inverted
             t == [x.adapter EXCEPT !.phase = par, !.phaseInverted = inv]
             a == IF TuningApplies(x.adapter) THEN t ELSE x.adapter
             sees == /\ observes /\ rt.generation # 0 /\ rt.effective.source = "Polar"
                     /\ a.generation = rt.generation
             b == IF sees THEN AfterFrame(a, fails) ELSE a
             d == FailedAnswer(a, fails)
             m == SubmitCalibration(x.rt, "Polar", d)
             n == IF sees THEN Observed(m, "Polar", a.generation, usable) ELSE x.rt
  <1>0. frame.at = "poll" /\ frame' = AtFrame("take") /\ UNCHANGED arm
    BY DEF FramePolls, At
  <1>1. /\ adapters' = [adapters EXCEPT !["Polar"] = b] /\ rt' = n
        /\ \/ /\ boundary' = tuning.pending
              /\ tuning' = [tuning EXCEPT !.effective = tuning.pending, !.pending = NoTuning]
           \/ boundary' = x.boundary /\ UNCHANGED tuning
    BY DEF FramePolls
  <1>2. Emptied(x)
    BY InvParts, BoundaryEmpties
  <1> HIDE DEF x
  <1>3. /\ x.adapter \in AdapterStates /\ x.boundary \in Tunings \cup {NoTuning}
        /\ Sound(x.rt) /\ SameCourse(x.rt, rt) /\ x.rt.pending = NotOf("Polar")
        /\ Fresh(x.adapter, <<>>, 0, rt.next)
        /\ Live(rt) /\ rt.effective.source = "Polar" => Chain(rt, x.adapter, <<>>, 0)
    BY <1>2 DEF Emptied
  <1>4. tuning \in TuningStates /\ par \in Parameters \cup {"none"} /\ inv \in BOOLEAN
        /\ tuning.pending \in Tunings \cup {NoTuning}
    <2>1. tuning \in TuningStates
      BY InvParts DEF StateOK
    <2>2. rt.effective \in Requests \cup {NoRequest}
      BY InvParts, RuntimeParts
    <2>3. inv \in BOOLEAN
      <3>1. \A e \in Requests : e.inverted \in BOOLEAN
        BY DEF Requests
      <3>2. NoRequest.inverted = FALSE
        BY DEF NoRequest
      <3> QED BY <2>2, <3>1, <3>2
    <2> QED BY <2>1, <2>3, TuningParts
  <1> HIDE DEF par, inv
  <1>5. a \in AdapterStates /\ Alike(x.adapter, a)
    BY <1>3, <1>4, TuningAppliedParts, AlikeItself
  <1> HIDE DEF a
  <1>6. b \in AdapterStates /\ Alike(x.adapter, b)
    <2>1. AfterFrame(a, fails) \in AdapterStates /\ Alike(a, AfterFrame(a, fails))
      BY <1>5, AnswersParts
    <2>2. Alike(x.adapter, AfterFrame(a, fails))
      BY <1>5, <2>1, AlikeTwice
    <2> QED BY <1>5, <2>1, <2>2
  <1>7. Sound(n) /\ SameCourse(n, rt) /\ n.pending = NotOf("Polar")
    <2>1. d \in Latests /\ a.generation \in BreathGenerations /\ "Polar" \in Sources
      BY <1>5, AnswersParts, AdapterParts DEF Sources
    <2> HIDE DEF d
    <2>2. x.rt \in Runtimes
      BY <1>3 DEF Sound
    <2>3. Sound(m) /\ SameCourse(m, x.rt) /\ m.pending = x.rt.pending
      BY <1>3, <2>1, <2>2, SubmitSound, SubmitParts DEF SameCourse
    <2> HIDE DEF m
    <2> DEFINE o == Observed(m, "Polar", a.generation, usable)
    <2>4. Sound(o) /\ SameCourse(o, m) /\ o.pending = m.pending
      BY <2>1, <2>3, ObservedCourse
    <2>5. n \in {o, x.rt}
      OBVIOUS
    <2> HIDE DEF o, n
    <2> QED BY <1>3, <2>3, <2>4, <2>5 DEF SameCourse
  <1> HIDE DEF b, n
  <1>8. frame' \in Frames /\ frame'.at = "take"
    <2>1. "take" \in Places
      BY DEF Places
    <2> QED BY <1>0, <2>1, FrameParts
  <1>9. /\ adapters' \in Bodies /\ adapters'["Polar"] = b
        /\ adapters'["Controller"] = adapters["Controller"]
    BY <1>1, <1>6, InvParts, BodyParts
  <1>10. StateOK'
    <2>1. boundary' \in Tunings \cup {NoTuning}
      BY <1>1, <1>3, <1>4
    <2>2. tuning' \in TuningStates
      <3>1. [tuning EXCEPT !.effective = tuning.pending, !.pending = NoTuning] \in TuningStates
        BY <1>4 DEF TuningStates
      <3> QED BY <1>1, <1>4, <3>1
    <2> QED BY <1>0, <1>8, <1>9, <2>1, <2>2, InvParts DEF StateOK, Bodies
  <1>11. /\ NotOf("Polar")["Polar"] = <<>>
         /\ NotOf("Polar")["Controller"] = rt.pending["Controller"]
    BY DroppedPolar
  <1>12. /\ Base(n, adapters', frame', "Polar") = b
         /\ Base(n, adapters', frame', "Controller") = adapters["Controller"]
         /\ Base(rt, adapters, frame, "Controller") = adapters["Controller"]
    BY <1>0, <1>8, <1>9 DEF Base
  <1>13. ASSUME NEW s \in Sources, Tracked(s)
         PROVE  Fresh(Base(n, adapters', frame', s), n.pending[s], 0, n.next)
    <2>1. CASE s = "Polar"
      <3>1. b.highest = x.adapter.highest
        BY <1>6 DEF Alike
      <3>2. Fresh(b, <<>>, 0, rt.next)
        BY <1>3, <3>1, FreshAlike
      <3> QED BY <1>7, <1>11, <1>12, <2>1, <3>2 DEF SameCourse
    <2>2. CASE s = "Controller"
      <3>1. Fresh(adapters["Controller"], rt.pending["Controller"], 0, rt.next)
        BY <1>12, <1>13, <2>2, InvParts DEF Follow
      <3> QED BY <1>7, <1>11, <1>12, <2>2, <3>1 DEF SameCourse
    <2> QED BY <2>1, <2>2 DEF Sources
  <1>14. ASSUME Live(n), Tracked(n.effective.source)
         PROVE  Chain(n, Base(n, adapters', frame', n.effective.source),
                      n.pending[n.effective.source], 0)
    <2>1. /\ Live(rt) /\ n.generation = rt.generation /\ n.status = rt.status
          /\ n.effective = rt.effective
      BY <1>7, <1>14 DEF SameCourse, Live
    <2>2. rt.effective.source \in Sources
      BY <2>1, InvParts, SourceOf DEF Live, Shape
    <2>3. CASE rt.effective.source = "Polar"
      <3>1. Chain(rt, b, <<>>, 0)
        BY <1>3, <1>6, <2>1, <2>3, ChainAlike
      <3>2. Chain(n, b, <<>>, 0)
        BY <2>1, <3>1, ChainKept
      <3> QED BY <1>7, <1>11, <1>12, <2>1, <2>3, <3>2
    <2>4. CASE rt.effective.source = "Controller"
      <3>1. Chain(rt, adapters["Controller"], rt.pending["Controller"], 0)
        BY <1>12, <1>14, <2>1, <2>4, InvParts DEF Follow
      <3>2. Chain(n, adapters["Controller"], rt.pending["Controller"], 0)
        BY <2>1, <3>1, ChainKept
      <3> QED BY <1>7, <1>11, <1>12, <2>1, <2>4, <3>2
    <2> QED BY <2>2, <2>3, <2>4 DEF Sources
  <1>15. Room(n)
    BY <1>7, <1>11, InvParts DEF Follow, Room, SameCourse
  <1>16. Follow(n, adapters', frame')
    BY <1>13, <1>14, <1>15 DEF Follow
  <1> QED BY <1>1, <1>7, <1>10, <1>16 DEF CompositionInv, SoundInv

-----------------------------------------------------------------------------
\* The initial states satisfy the invariant.
LEMMA CompositionStarts ==
  ASSUME CompositionInit PROVE CompositionInv
  <1>1. /\ rt = NewRuntime /\ tuning = NewTuning(1) /\ boundary = NoTuning
        /\ adapters = [s \in Sources |-> IF s = "Polar" THEN NoAdapter ELSE NewAdapter]
        /\ frame = AtFrame("gone") /\ arm = Idle
    BY DEF CompositionInit
  <1>2. tuning \in TuningStates
    <2>1. 1 \in 1..MaxSession
      BY Bounds, SMTT(30)
    <2> QED BY <1>1, <2>1, NewParts
  <1>3. adapters \in Bodies /\ adapters["Polar"] = NoAdapter
    BY <1>1, AdapterNones DEF Bodies, Sources
  <1>4. frame \in Frames /\ frame.at = "gone"
    <2>1. "gone" \in Places
      BY DEF Places
    <2> QED BY <1>1, <2>1, FrameParts
  <1>5. StateOK
    BY <1>1, <1>2, <1>3, <1>4, NewParts DEF StateOK, Bodies
  <1>6. Follow(rt, adapters, frame)
    BY <1>1, <1>3, <1>4, NewFollows
  <1> QED BY <1>1, <1>5, <1>6, NewParts DEF CompositionInv, SoundInv

\* A step that changes nothing keeps the invariant.
LEMMA CompositionStutters ==
  ASSUME CompositionInv, UNCHANGED compositionVars PROVE CompositionInv'
  <1>1. UNCHANGED <<rt, tuning, boundary, adapters, frame, arm>>
    BY DEF compositionVars
  <1> QED BY <1>1 DEF CompositionInv, SoundInv, StateOK

\* Every step keeps the invariant.
LEMMA CompositionSteps ==
  ASSUME CompositionInv, [CompositionNext]_compositionVars PROVE CompositionInv'
  <1>1. CASE Panel
    <2>1. CASE \E r \in Selectable \cup {NoRequest} : SelectCommand(r)
      BY <2>1, SelectKeeps
    <2>2. CASE ConfigureCommand
      BY <2>2, ConfigureKeeps
    <2>3. CASE StartCommand
      BY <2>3, StartKeeps
    <2>4. CASE StartCalibrationCommand
      BY <2>4, CalibrationKeeps
    <2>5. CASE CancelCommand
      BY <2>5, CancelKeeps
    <2>6. CASE ResetCommand
      BY <2>6, ResetKeeps
    <2>7. CASE ConfigurePolarState
      BY <2>7, ConfigurePolarKeeps
    <2> QED BY <1>1, <2>1, <2>2, <2>3, <2>4, <2>5, <2>6, <2>7 DEF Panel
  <1>2. CASE Frame
    <2>1. CASE FrameTakes
      BY <2>1, TakesKeeps
    <2>2. CASE FrameApplies
      BY <2>2, AppliesKeeps
    <2>3. CASE FrameReports \/ FrameAnswers
      BY <2>3, SubmitKeeps
    <2>4. CASE \E fails \in BOOLEAN : FrameObserves(fails)
      BY <2>4, ObservesKeeps
    <2>5. CASE \E usable \in BOOLEAN : FrameSubmits(usable)
      BY <2>5, SubmitsKeeps
    <2>6. CASE \E observes, fails, usable \in BOOLEAN : FramePolls(observes, fails, usable)
      BY <2>6, PollsKeeps
    <2> QED BY <1>2, <2>1, <2>2, <2>3, <2>4, <2>5, <2>6 DEF Frame
  <1>3. CASE Launch
    BY <1>3, InstallKeeps, NewSessionKeeps DEF Launch
  <1>4. CASE ArmWorker
    BY <1>4, RequestKeeps, LooksKeeps, TimesOutKeeps, CalibrationKeeps DEF ArmWorker
  <1>5. CASE UNCHANGED compositionVars
    BY <1>5, CompositionStutters
  <1> QED BY <1>1, <1>2, <1>3, <1>4, <1>5 DEF CompositionNext

\* The invariant holds in every state.
LEMMA CompositionInvariant == CompositionSpec => []CompositionInv
  <1>1. CompositionInit => CompositionInv
    BY CompositionStarts
  <1>2. CompositionInv /\ [CompositionNext]_compositionVars => CompositionInv'
    BY CompositionSteps
  <1> QED BY <1>1, <1>2, PTL DEF CompositionSpec

\* The queue of adapter actions is never longer than MAX_PENDING_ACTIONS and every field
\* keeps its range, however the panel, the worker and the XR thread interleave.
THEOREM CompositionTypes == CompositionSpec => []CompositionTypeOK
  <1>1. CompositionInv => CompositionTypeOK
    <2> SUFFICES ASSUME CompositionInv PROVE CompositionTypeOK
      OBVIOUS
    <2>1. rt \in Runtimes /\ Total(rt.pending) <= QueueCapacity
      BY InvParts DEF Sound
    <2>2. \A s \in Sources : adapters[s].lifecycle \in Lifecycles
      BY InvParts, AdapterParts DEF Bodies
    <2>3. boundary \in Tunings \cup {NoTuning} /\ arm.at \in {"idle", "waiting", "armed"}
      BY InvParts DEF StateOK, Arms
    <2> QED BY <2>1, <2>2, <2>3 DEF CompositionTypeOK, Runtimes, Outputs, Latests, Queues
  <1> QED BY <1>1, CompositionInvariant, PTL

\* The output shown and the calibration read are of the selection and the generation in
\* force, however late a receipt or an observation comes back (observe and
\* submit_calibration admit only the current generation, every change of it clears them).
THEOREM OutputStaysCurrent == CompositionSpec => []OutputIsCurrent
  <1>1. CompositionInv => OutputIsCurrent
    BY InvParts DEF Sound, Shape, LatestFits, OutputIsCurrent
  <1> QED BY <1>1, CompositionInvariant, PTL

\* Once the queue of the selected source is empty its adapter runs the generation the
\* authority calls running, in the direction selected: unless another feature starts the
\* controller's adapter too, every action that was queued is one the adapter took.
THEOREM AdapterKeepsUp ==
  ASSUME ~ControllerElsewhere
  PROVE  CompositionSpec => []AdapterFollows
  <1>1. CompositionInv => AdapterFollows
    <2> SUFFICES ASSUME CompositionInv, rt.status = "Running",
                        HandEmpty(rt.effective.source)
                 PROVE  LET a == adapters[rt.effective.source] IN
                        a.generation = rt.generation /\ a.inverted = rt.effective.inverted
      BY DEF AdapterFollows
    <2> DEFINE s == rt.effective.source
    <2>1. rt.generation # 0 /\ Live(rt) /\ s \in Sources /\ Tracked(s)
      BY InvParts, SourceOf DEF Shape, Live, Tracked
    <2>2. Base(rt, adapters, frame, s) = adapters[s]
      BY <2>1 DEF Base, HandEmpty, Sources
    <2>3. rt.pending[s] = <<>>
      BY DEF HandEmpty, Of
    <2>4. Chain(rt, adapters[s], <<>>, 0)
      BY <2>1, <2>2, <2>3, InvParts DEF Follow
    <2>5. ~(0 < Len(<<>>)) /\ 1..Len(<<>>) = {} /\ 0 + 1 = 1
      BY SMTT(30)
    <2>6. NoConfigure(<<>>, 0 + 1)
      BY <2>5 DEF NoConfigure
    <2>7. Reached(rt, adapters[s]) /\ adapters[s].inverted = rt.effective.inverted
      BY <2>4, <2>5, <2>6 DEF Chain
    <2> QED BY <2>1, <2>7 DEF Reached
  <1> QED BY <1>1, CompositionInvariant, PTL

\* acknowledged_guided_arm: the worker is told the arm is ready only when the Polar
\* adapter itself runs the generation it asked for, in the direction selected and with
\* the guided parameters, whatever happened while the lock was free.
THEOREM AcknowledgementIsApplied == CompositionSpec => AcknowledgedIsApplied
  <1>1. ASSUME CompositionInv, [CompositionNext]_compositionVars
        PROVE  arm.at = "waiting" /\ arm'.at = "armed" =>
                  /\ rt.effective = arm.selection /\ rt.generation = arm.generation
                  /\ adapters["Polar"].generation = arm.generation
                  /\ adapters["Polar"].inverted = arm.selection.inverted
                  /\ adapters["Polar"].phase = "guided" /\ tuning.effective = arm.tuning
    <2> SUFFICES ASSUME arm.at = "waiting", arm'.at = "armed"
                 PROVE  /\ rt.effective = arm.selection /\ rt.generation = arm.generation
                        /\ adapters["Polar"].generation = arm.generation
                        /\ adapters["Polar"].inverted = arm.selection.inverted
                        /\ adapters["Polar"].phase = "guided" /\ tuning.effective = arm.tuning
      OBVIOUS
    <2>1. ArmLooks
      <3>1. arm' # arm
        OBVIOUS
      <3>2. Idle.at = "idle"
        BY NewParts
      <3>3. ~Panel
        BY <3>1 DEF Panel, SelectCommand, ConfigureCommand, StartCommand,
                    StartCalibrationCommand, CancelCommand, ResetCommand, PanelCommand,
                    ConfigurePolarState
      <3>4. ~Frame
        BY <3>1 DEF Frame, FrameTakes, FrameApplies, FrameReports, FrameAnswers,
                    FrameObserves, FrameSubmits, FramePolls
      <3>5. ~Launch /\ ~EnsureRunning /\ ~ArmRequest
        BY <3>1 DEF Launch, Install, NewXrSession, EnsureRunning, PanelCommand, ArmRequest
      <3>6. ~ArmTimesOut
        BY <3>2 DEF ArmTimesOut
      <3> QED BY <1>1, <3>1, <3>3, <3>4, <3>5, <3>6
              DEF CompositionNext, ArmWorker, compositionVars
    <2>2. ~Superseded /\ Acknowledged /\ ~StillPending
      <3>1. Idle.at = "idle"
        BY NewParts
      <3> QED BY <2>1, <3>1 DEF ArmLooks
    <2>3. /\ rt.effective = arm.selection /\ rt.generation = arm.generation
          /\ rt.pending["Polar"] = <<>>
          /\ adapters["Polar"].generation = rt.generation
          /\ adapters["Polar"].phase = "guided" /\ tuning.effective = arm.tuning
      BY <2>2 DEF Superseded, StillPending, Acknowledged, HasGuidedPhase, Of
    <2>4. rt.effective.source = "Polar" /\ Live(rt) /\ Tracked("Polar")
      BY <1>1, <2>3, InvParts DEF StateOK, Live, Tracked
    <2>5. Chain(rt, adapters["Polar"], <<>>, 0)
      BY <1>1, <2>3, <2>4, InvParts DEF Follow, Base
    <2>6. NoConfigure(<<>>, 0 + 1)
      <3>1. 1..Len(<<>>) = {} /\ 0 + 1 = 1
        BY SMTT(30)
      <3> QED BY <3>1 DEF NoConfigure
    <2>7. adapters["Polar"].inverted = rt.effective.inverted
      BY <2>5, <2>6 DEF Chain
    <2> QED BY <2>3, <2>7
  <1>2. CompositionInv /\ [CompositionNext]_compositionVars =>
          [arm.at = "waiting" /\ arm'.at = "armed" =>
              /\ rt.effective = arm.selection /\ rt.generation = arm.generation
              /\ adapters["Polar"].generation = arm.generation
              /\ adapters["Polar"].inverted = arm.selection.inverted
              /\ adapters["Polar"].phase = "guided"
              /\ tuning.effective = arm.tuning]_compositionVars
    BY <1>1
  <1> QED BY <1>2, CompositionInvariant, PTL DEF CompositionSpec, AcknowledgedIsApplied
==============================================================================
