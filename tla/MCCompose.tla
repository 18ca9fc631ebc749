---- MODULE MCCompose ----
(* One valid candidate list and one whose slot is too long. *)
EXTENDS Compose

MCSlots == {<<[start |-> 1, end |-> 2]>>, <<[start |-> 1, end |-> 40]>>}
====
