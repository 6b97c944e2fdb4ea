-------------------------- MODULE MCOperationHistory --------------------------
(***************************************************************************)
(* A small instance of OperationHistory: more tokens than the ring holds,  *)
(* sent in any order and any number of times.                              *)
(***************************************************************************)
EXTENDS OperationHistory

CONSTANTS MaxToken, MaxTime

MCTokens == 1..MaxToken
MCTimes == 0..MaxTime
=============================================================================
