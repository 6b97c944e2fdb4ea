-------------------------- MODULE MCPackageInstall --------------------------
(* Small instances of PackageInstall for TLC. *)
EXTENDS PackageInstall, TLC

(* The workers are interchangeable in the safety properties. *)
WorkerSymmetry == Permutations(Workers)
=============================================================================
