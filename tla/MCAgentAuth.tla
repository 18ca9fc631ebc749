----------------------------- MODULE MCAgentAuth -----------------------------
(* Small instances of AgentAuth for TLC. *)
EXTENDS AgentAuth, TLC

CONSTANTS a1, c1

\* One agent; every credential is its own.
MCAids == {a1}
MCAidOf == [c \in Creds |-> a1]

Symmetry == Permutations(Tokens) \cup Permutations(Reqs) \cup Permutations(Jtis)
=============================================================================
