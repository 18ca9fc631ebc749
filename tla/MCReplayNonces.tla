---------------------------- MODULE MCReplayNonces ----------------------------
(* Small instances of ReplayNonces for TLC. *)
EXTENDS ReplayNonces, TLC

Symmetry == Permutations(Reqs)
=============================================================================
