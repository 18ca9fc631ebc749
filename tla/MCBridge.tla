---- MODULE MCBridge ----
(* Two tabs on one agent's panel, or one tab that flips between two agents. *)
EXTENDS Bridge
====
