----------------------------- MODULE MCMessages -----------------------------
(* Small instances of Messages for TLC. *)
EXTENDS Messages, TLC

Symmetry == Permutations(Reqs)
=============================================================================
