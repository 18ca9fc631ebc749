---- MODULE MCReader ----
(* A proposal on its own, and a thread of a message that does not decrypt *)
(* and of one whose key the daemon holds, which comes later.              *)
EXTENDS Reader

CONSTANTS p, q, d

Slot(s, e) == [start |-> s, end |-> e]
MCThread == [m \in Msgs |-> IF m = p THEN Undefined ELSE "t"]
MCOrder == [m \in Msgs |-> IF m = d THEN 1 ELSE IF m = p THEN 2 ELSE 3]
MCContent == [m \in Msgs |->
    [key |-> IF m = d THEN "daemon" ELSE IF m = q THEN "broken" ELSE "here", folder |-> "inbox",
     block |-> IF m = p THEN Block(Schedule, "propose", TRUE, <<Slot(2, 3)>>, Undefined, 0)
               ELSE Undefined]]
====
