---- MODULE MCInbox ----
(* Three messages, the first and the last of one thread; the page opens on *)
(* the first one, unread in the inbox, in the trash, or awaiting approval. *)
EXTENDS Inbox

MCThreadOf == [m \in Msgs |-> IF m = 2 THEN Undefined ELSE "t"]

MCPresent ==
    {[m \in Msgs |-> IF m = 1 THEN [folder |-> f, status |-> "unread", starred |-> FALSE]
                     ELSE Undefined] : f \in {"inbox", "trash", "pending_approval"}}
====
