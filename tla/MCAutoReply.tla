---- MODULE MCAutoReply ----
(* An inbound proposal with two slots, the first of them busy. *)
EXTENDS AutoReply, TLC

CONSTANTS m1, t1

MCTabOf == [i \in Mounts |-> t1]

Slot(s, e) == [start |-> s, end |-> e]
MCBusy == {Slot(1, 3)}

MCContent == [m \in {m1} |->
    [block |-> Block(Schedule, "propose", TRUE, <<Slot(0, 2), Slot(3, 4)>>, Undefined, 9),
     a2a |-> TRUE, rank |-> 2, trust |-> 1, contact |-> TRUE, sender |-> "alice"]]

\* Accept free slots, tasks of contacts only.
MCDrafts ==
    {[default |-> "auto_accept_if_free", propose |-> EmptyProtocolAction,
      delegate |-> DraftRule("auto_accept", Undefined, Undefined, TRUE, {})]}

\* That draft, or declining all that comes: from anybody, or, as only the API
\* can ask for, from contacts.
Plain(action) == PolicyFromDraft([default |-> action, propose |-> EmptyProtocolAction,
                                  delegate |-> EmptyProtocolAction])
MCStored ==
    {Plain("auto_decline"), [Plain("auto_decline") EXCEPT !.conds.contact = TRUE]}
    \cup {PolicyFromDraft(d) : d \in MCDrafts}
====
