---- MODULE MCRuntime ----
(* A draft, a send nobody confirmed, and a confirmed reply. *)
EXTENDS Runtime

MCJobs ==
    {[tool |-> "read_message", mode |-> "draft", confirmed |-> FALSE],
     [tool |-> "send_text_message", mode |-> "send", confirmed |-> FALSE],
     [tool |-> "reply_to_message", mode |-> "send", confirmed |-> TRUE]}
====
