------------------------------ MODULE AtMostOnce ------------------------------
(***************************************************************************)
(* What the session reducer promises about operation tokens: a token is    *)
(* decided at most once, for good, and every answer to it is that decision *)
(* or a refusal that changes nothing.                                      *)
(***************************************************************************)
CONSTANTS Tokens, Outcomes, NoOutcome, Refusals

VARIABLES decided,  \* the outcome of each token, NoOutcome while it has none
          reply     \* the answer to the latest command

Init ==
    /\ decided = [t \in Tokens |-> NoOutcome]
    /\ reply = NoOutcome

Decide(t) ==
    /\ decided[t] = NoOutcome
    /\ reply' \in Outcomes
    /\ decided' = [decided EXCEPT ![t] = reply']
Repeat(t) ==
    /\ decided[t] # NoOutcome
    /\ reply' = decided[t]
    /\ UNCHANGED decided
Refuse ==
    /\ reply' \in Refusals
    /\ UNCHANGED decided

Next ==
    \/ \E t \in Tokens : Decide(t) \/ Repeat(t)
    \/ Refuse
Spec == Init /\ [][Next]_<<decided, reply>>
=============================================================================
