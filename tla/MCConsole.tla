----------------------------- MODULE MCConsole -----------------------------
(***************************************************************************)
(* Instances of Console for TLC.  Threads of a kind are interchangeable,   *)
(* so the safety runs use symmetry; the liveness run does not.             *)
(***************************************************************************)
EXTENDS Console, TLC

Interchangeable == Permutations(Runs) \cup Permutations(Jobs)
=============================================================================
