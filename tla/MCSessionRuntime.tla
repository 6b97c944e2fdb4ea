-------------------------- MODULE MCSessionRuntime --------------------------
(***************************************************************************)
(* Bounded instances of SessionRuntime.                                    *)
(***************************************************************************)
EXTENDS SessionRuntime, TLC

\* The calls of try_offer are interchangeable.
RecordSymmetry == Permutations(Records)
=============================================================================
