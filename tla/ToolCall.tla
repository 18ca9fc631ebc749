---- MODULE ToolCall ----
(***************************************************************************)
(* What an MCP runtime promises the host that calls its tools, whichever   *)
(* mode it runs in and however it authenticates: a call that was asked is  *)
(* answered, unless a gateway it was relayed to falls silent; a message    *)
(* leaves only for a send the user confirmed, at most one per call; and    *)
(* "sent" is said only of a message that exists.  An error promises less:  *)
(* the message may exist, or come to exist after the host heard it.        *)
(***************************************************************************)
EXTENDS Naturals

CONSTANT Calls

VARIABLES
    intent,        \* what the host asked: "none", "read" (drafts too) or "send"
    relayed,       \* calls that a gateway carries out
    messages,      \* messages the server created for the call
    answer         \* "none" until the host hears back, "silent" if it never will

vars == <<intent, relayed, messages, answer>>

Init ==
    /\ intent = [c \in Calls |-> "none"]
    /\ relayed = {}
    /\ messages = [c \in Calls |-> 0]
    /\ answer = [c \in Calls |-> "none"]

Open(c) == intent[c] # "none" /\ answer[c] = "none"

Ask(c) ==
    /\ intent[c] = "none"
    /\ \E i \in {"read", "send"} : intent' = [intent EXCEPT ![c] = i]
    /\ relayed' \in {relayed, relayed \union {c}}
    /\ UNCHANGED <<messages, answer>>

\* Nobody takes back a send that is on its way when its caller gives up.
Execute(c) ==
    /\ intent[c] = "send" /\ messages[c] = 0
    /\ answer[c] \in {"none", "silent", "error"}
    /\ messages' = [messages EXCEPT ![c] = 1]
    /\ UNCHANGED <<intent, relayed, answer>>

Answer(c) ==
    /\ Open(c)
    /\ \E a \in {"read", "sent", "error"} :
          /\ a = "sent" => messages[c] = 1
          /\ a = "read" => intent[c] = "read"
          /\ answer' = [answer EXCEPT ![c] = a]
    /\ UNCHANGED <<intent, relayed, messages>>

\* A gateway that says nothing more.
Hang(c) ==
    /\ Open(c) /\ c \in relayed
    /\ answer' = [answer EXCEPT ![c] = "silent"]
    /\ UNCHANGED <<intent, relayed, messages>>

\* The server's own answer carries the message's id back at once.
ExecuteAndAnswer(c) ==
    /\ Open(c) /\ intent[c] = "send" /\ messages[c] = 0
    /\ messages' = [messages EXCEPT ![c] = 1]
    /\ answer' = [answer EXCEPT ![c] = "sent"]
    /\ UNCHANGED <<intent, relayed>>

\* A runtime that dies ends all of its calls together.
AnswerAll(C) ==
    /\ C # {} /\ \A c \in C : Open(c) \/ answer[c] = "silent"
    /\ answer' = [c \in Calls |-> IF c \in C THEN "error" ELSE answer[c]]
    /\ UNCHANGED <<intent, relayed, messages>>

Next ==
    \/ \E c \in Calls : Ask(c) \/ Execute(c) \/ Answer(c) \/ ExecuteAndAnswer(c) \/ Hang(c)
    \/ \E C \in SUBSET Calls : AnswerAll(C)

Answered == \A c \in Calls : Open(c) ~> answer[c] # "none"

Spec == Init /\ [][Next]_vars /\ Answered
====
