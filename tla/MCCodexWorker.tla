---------------------------- MODULE MCCodexWorker ----------------------------
(* Two attempts on one workspace, for TLC. *)
EXTENDS CodexWorkerProperties, TLC

Symmetry == Permutations(Session) \cup Permutations(Version)
=============================================================================
