---- MODULE MCWebSession ----
(* Two tabs of one browser. *)
EXTENDS WebSession
====
