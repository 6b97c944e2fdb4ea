----------------------------- MODULE AllOrNothing -----------------------------
(***************************************************************************)
(* What a media session promises: its owners come up layer by layer while  *)
(* the session is planned and go down layer by layer once it is lowered,   *)
(* never the other way; it is started only when all of them run, aborted   *)
(* or stopped only when none does.                                         *)
(***************************************************************************)
EXTENDS Integers

CONSTANTS Owners, Layer

VARIABLES status, running

Statuses == {"planned", "started", "lowering", "aborted", "stopped"}

Init == status = "planned" /\ running = {}

Raise(o) ==
    /\ status = "planned" /\ o \notin running
    /\ \A p \in Owners : Layer[p] < Layer[o] => p \in running
    /\ running' = running \cup {o} /\ UNCHANGED status

Lower(o) ==
    /\ status = "lowering" /\ o \in running
    /\ \A p \in running : Layer[p] =< Layer[o]
    /\ running' = running \ {o} /\ UNCHANGED status

Started == status = "planned" /\ running = Owners /\ status' = "started"
BeginLowering == status \in {"planned", "started", "aborted"} /\ status' = "lowering"
Aborted == status \in {"planned", "lowering"} /\ running = {} /\ status' = "aborted"
Stopped == status = "lowering" /\ running = {} /\ status' = "stopped"

Next ==
    \/ \E o \in Owners : Raise(o) \/ Lower(o)
    \/ UNCHANGED running /\ (Started \/ BeginLowering \/ Aborted \/ Stopped)

Spec == Init /\ [][Next]_<<status, running>>
=============================================================================
