-------------------------- MODULE MCSessionRecording --------------------------
(***************************************************************************)
(* Small instances of SessionRecording.                                    *)
(***************************************************************************)
EXTENDS SessionRecording

CONSTANTS MaxGeneration, MaxSize

MCGenerations == 1..MaxGeneration
MCSizes == 1..MaxSize
=============================================================================
