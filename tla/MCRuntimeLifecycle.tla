------------------------ MODULE MCRuntimeLifecycle ------------------------
(* Small instances of RuntimeLifecycle for TLC. *)
EXTENDS RuntimeLifecycle, TLC

WorkerSymmetry == Permutations(Workers)
=============================================================================
