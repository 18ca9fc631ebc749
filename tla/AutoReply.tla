---- MODULE AutoReply ----
(***************************************************************************)
(* The browser's auto-reply executor: the effect of the per-agent inbox    *)
(* that starts it (NexusInboxClient.tsx), the pass over the eligible       *)
(* messages (autoReplyExecutor.ts), and the server column                  *)
(* auto_reply_sent_at that records a handled message.                      *)
(*                                                                         *)
(* A mount is one life of the inbox component in a tab; leaving the page   *)
(* and coming back begins another.  The query cache belongs to the tab and *)
(* outlives the mount, and so does the mount's asynchronous pass.          *)
(***************************************************************************)
EXTENDS A2A

CONSTANTS
    Msgs,       \* inbound messages of the agent
    Tabs,       \* browser tabs, each with a query cache
    Mounts,     \* mounts of the inbox component
    TabOf,      \* TabOf[i]: the tab of a mount
    Drafts,     \* what a user may fill into the policy editor
    Stored,     \* policies stored before, which the API accepts and no draft may express
    Content,    \* Content[m]: block, content type and metadata of a message
    Busy,       \* busy intervals of the connected calendar
    MaxEdits,   \* bound: changes of the policy or of the master switch
    MaxFaults   \* bound: failed or lost requests

VARIABLES
    master, policy,   \* agents.auto_reply and the stored policy
    row,              \* message_index rows of Msgs
    evaluating,       \* messages whose spawned evaluation has not ended yet
    replies,          \* replies[m]: auto-replies that reached the server (0, 1, 2+)
    handed,           \* messages an executor marked to leave them to the human
    cache,            \* query cache of each tab
    mount,            \* state of each mount
    edits, faults,
    owed,             \* history: tabs where a pass that had sent a reply ended and
                      \* the list it asked for is not back yet
    calm              \* history: no fault, the list in one tab at a time, no pass
                      \* cancelled around a reply it sent, none started in a tab
                      \* that is owed a list

vars == <<master, policy, row, evaluating, replies, handed, cache, mount, edits, faults,
          owed, calm>>

\* One entry of the message list, as the server returns it: decision and reason
\* are NULL until the evaluation has stored them.
Unevaluated == [decision |-> Undefined, reason |-> Undefined, sentAt |-> FALSE]
RowOf(d) == [decision |-> d.action, reason |-> d.reason, sentAt |-> FALSE]
Reasons == {"master_off", "no_policy", "priority_exceeds_policy", "trust_below_threshold",
            "not_a_contact", "sender_not_in_allowlist", "calendar_unavailable",
            "llm_unavailable", "default_match"}
Entries == [decision : Actions \cup {Undefined}, reason : Reasons \cup {Undefined},
            sentAt : BOOLEAN]

\* NULL is neither an action nor a row nor a list, policies name actions of the
\* schema, and every mount is in a tab.
ASSUME AutoReplyAssumption ==
    /\ Undefined \notin Actions /\ Undefined \notin Entries
    /\ Undefined \notin [Msgs -> Entries \cup {Undefined}]
    /\ \A p \in Stored : p # Undefined => p.default \in Actions
    /\ \A d \in Drafts : d.default \in Actions
    /\ TabOf \in [Mounts -> Tabs]

\* The list query of a tab: the request in flight.
NoFetch == [state |-> "none", rows |-> Undefined]
Asked   == [state |-> "asked", rows |-> Undefined]

\* The other queries the effect depends on.  The policy is asked for once the
\* agents are there; without contacts nobody is one.
Queries == {"agents", "policy", "contacts"}

\* The cache: the list, its request, the other queries that were answered and
\* what two of them said.
EmptyCache == [data |-> Undefined, fetch |-> NoFetch, loaded |-> {},
               policy |-> Undefined, master |-> FALSE]

\* A pass of the executor: the list and the policy it was started with, the
\* messages still to do, the one it is at and what it will send for it; and,
\* as history, whether it has sent a reply.
NoRun == [pc |-> "none", todo |-> {}, cur |-> Undefined, rows |-> Undefined,
          policy |-> Undefined, master |-> FALSE, contacts |-> FALSE,
          calendar |-> FALSE, cancelled |-> FALSE, reply |-> Undefined, posted |-> FALSE]

Unmounted == [open |-> FALSE, run |-> NoRun]

Policies == Stored \cup {PolicyFromDraft(d) : d \in Drafts} \cup {Undefined}

Init ==
    /\ master \in BOOLEAN /\ policy \in Stored
    /\ row = [m \in Msgs |-> Undefined] /\ evaluating = {}
    /\ replies = [m \in Msgs |-> 0]
    /\ handed = {}
    /\ cache = [t \in Tabs |-> EmptyCache] /\ mount = [i \in Mounts |-> Unmounted]
    /\ edits = 0 /\ faults = 0 /\ owed = {} /\ calm = TRUE

TypeOK ==
    /\ master \in BOOLEAN /\ policy \in Policies
    /\ row \in [Msgs -> Entries \cup {Undefined}]
    /\ evaluating \subseteq {m \in Msgs : row[m] = Unevaluated}
    /\ replies \in [Msgs -> 0..2] /\ handed \subseteq Msgs
    /\ \A t \in Tabs :
          /\ cache[t].fetch.state \in {"none", "asked", "answered"}
          /\ cache[t].loaded \subseteq Queries /\ cache[t].policy \in Policies
          /\ "policy" \in cache[t].loaded => "agents" \in cache[t].loaded
    /\ \A i \in Mounts :
          /\ mount[i].open \in BOOLEAN
          /\ mount[i].run.pc \in {"none", "key", "next", "calendar", "send", "mark", "hand"}
          /\ (mount[i].run.pc = "none") <=> (mount[i].run = NoRun)
          /\ mount[i].run.todo \subseteq Msgs
    /\ edits \in 0..MaxEdits /\ faults \in 0..MaxFaults
    /\ owed \subseteq Tabs /\ calm \in BOOLEAN

(* ------------------------------ the server ------------------------------ *)

Fault == faults < MaxFaults /\ faults' = faults + 1

Context(m) == [rank |-> Content[m].rank, trust |-> Content[m].trust,
               contact |-> Content[m].contact, sender |-> Content[m].sender,
               type |-> Content[m].block.type, action |-> Content[m].block.action]

\* A message is stored, and its evaluation spawned.
Deliver(m) ==
    /\ row[m] = Undefined
    /\ row' = [row EXCEPT ![m] = Unevaluated]
    /\ evaluating' = evaluating \cup {m}
    /\ UNCHANGED <<master, policy, replies, handed, cache, mount, edits, faults>>

\* The spawned task evaluates with the policy of this moment and caches its
\* decision in the row; a failed query or UPDATE is only logged.
Evaluate(m) ==
    /\ m \in evaluating
    /\ evaluating' = evaluating \ {m}
    /\ \/ /\ row' = [row EXCEPT ![m] = RowOf(EvaluateServer(policy, master, Context(m)))]
          /\ UNCHANGED faults
       \/ Fault /\ UNCHANGED row
    /\ UNCHANGED <<master, policy, replies, handed, cache, mount, edits>>

\* The settings page: the policy editor saves a draft that differs from the one
\* of the stored policy ...
SavePolicy(d) ==
    /\ d # DraftFromPolicy(policy)
    /\ policy' = PolicyFromDraft(d)
    /\ UNCHANGED master

\* ... or deletes the policy; the switch is another of the page's buttons.
ResetPolicy ==
    /\ policy # Undefined /\ policy' = Undefined
    /\ UNCHANGED master

ToggleAutoReply == master' = ~master /\ UNCHANGED policy

EditSettings ==
    /\ edits < MaxEdits /\ edits' = edits + 1
    /\ (\E d \in Drafts : SavePolicy(d)) \/ ResetPolicy \/ ToggleAutoReply
    /\ UNCHANGED <<row, evaluating, replies, handed, cache, mount, faults>>

\* mark_auto_reply_sent: stamps the column, once.
Stamp(m) == row' = [row EXCEPT ![m].sentAt = TRUE]

(* --------------------------- starting a pass ---------------------------- *)

\* Mutant: the filter forgets auto_reply_sent_at.
EligibleEntryEvenSent(r) ==
    /\ r # Undefined
    /\ \/ r.decision \in {"auto_accept", "auto_decline"}
       \/ r.decision = "queue_for_human" /\ r.reason = "calendar_unavailable"

EligibleEntry(r) ==
    /\ r # Undefined
    /\ ~r.sentAt
    /\ \/ r.decision \in {"auto_accept", "auto_decline"}
       \/ r.decision = "queue_for_human" /\ r.reason = "calendar_unavailable"

EligibleMessages(rows) == {m \in Msgs : EligibleEntry(rows[m])}

\* The pass the effect starts: on the cached list, with what the cache knows of
\* the settings at that moment (no policy yet is no policy).
NewRun(c) ==
    [NoRun EXCEPT !.pc = "key", !.todo = EligibleMessages(c.data), !.rows = c.data,
                  !.policy = c.policy, !.master = c.master,
                  !.contacts = "contacts" \in c.loaded]

\* The effect of a mount once its inputs changed: the cleanup cancels the pass of
\* the previous effect, and executorRunningRef keeps a second one from starting.
AfterEffect(md, c) ==
    IF ~md.open THEN md
    ELSE IF md.run # NoRun THEN [md EXCEPT !.run.cancelled = TRUE]
    ELSE IF "agents" \notin c.loaded \/ c.data = Undefined THEN md
    ELSE IF EligibleMessages(c.data) = {} THEN md
    ELSE [md EXCEPT !.run = NewRun(c)]

MountsOf(t) == {i \in Mounts : TabOf[i] = t}
Leave == UNCHANGED <<master, policy, row, evaluating, replies, handed, edits>>

\* A query of tab t is answered with something new: the page is rendered again
\* and the effect runs.
Render(t, c) ==
    /\ cache' = [cache EXCEPT ![t] = c]
    /\ mount' = [i \in Mounts |-> IF TabOf[i] = t THEN AfterEffect(mount[i], c) ELSE mount[i]]

\* Mutant: the effect waits for the first change after the mount.
OpenSkipsEffect(i) ==
    LET t == TabOf[i]
        c == cache[t]
    IN  /\ \A j \in MountsOf(t) : ~mount[j].open
        /\ mount[i].run = NoRun
        /\ mount' = [mount EXCEPT ![i] = [open |-> TRUE, run |-> NoRun]]
        /\ \/ cache' = [cache EXCEPT ![t].fetch = IF c.fetch = NoFetch THEN Asked ELSE @]
           \/ c.data # Undefined /\ UNCHANGED cache
        /\ Leave /\ UNCHANGED faults

\* The user comes to the page.  The effect runs on what the cache holds; a list
\* that is missing, older than 30 s or invalidated is asked for, unless a request
\* is in flight already.
Open(i) ==
    LET t == TabOf[i]
        c == cache[t]
    IN  /\ \A j \in MountsOf(t) : ~mount[j].open
        /\ mount[i].run = NoRun
        /\ mount' = [mount EXCEPT ![i] = AfterEffect([open |-> TRUE, run |-> NoRun], c)]
        /\ \/ cache' = [cache EXCEPT ![t].fetch = IF c.fetch = NoFetch THEN Asked ELSE @]
           \/ c.data # Undefined /\ UNCHANGED cache
        /\ Leave /\ UNCHANGED faults

Cancelled(r) == IF r = NoRun THEN r ELSE [r EXCEPT !.cancelled = TRUE]

\* The user leaves the page: the cleanup runs, the pass goes on by itself.
Close(i) ==
    /\ mount[i].open
    /\ mount' = [mount EXCEPT ![i] = [open |-> FALSE, run |-> Cancelled(mount[i].run)]]
    /\ Leave /\ UNCHANGED <<cache, faults>>

\* The tab is reloaded, or the inbox left for longer than the cache keeps what
\* nobody uses: the next visit starts from nothing.  A pass under way dies.
Reload(t) ==
    /\ cache[t] # EmptyCache
    /\ cache' = [cache EXCEPT ![t] = EmptyCache]
    /\ mount' = [i \in Mounts |-> IF TabOf[i] = t THEN Unmounted ELSE mount[i]]
    /\ IF \E i \in MountsOf(t) : mount[i].run # NoRun THEN Fault ELSE UNCHANGED faults
    /\ Leave

\* A push of the WebSocket or the refresh button: a new request replaces the
\* one in flight.
Refresh(t) ==
    /\ \E i \in MountsOf(t) : mount[i].open
    /\ cache[t].fetch # Asked
    /\ cache' = [cache EXCEPT ![t].fetch = Asked]
    /\ Leave /\ UNCHANGED <<mount, faults>>

\* The server answers the list request with the rows of this moment ...
ListServed(t) ==
    /\ cache[t].fetch = Asked
    /\ cache' = [cache EXCEPT ![t].fetch = [state |-> "answered", rows |-> row]]
    /\ Leave /\ UNCHANGED <<mount, faults>>

\* ... or the request and its retry fail: the query keeps what it had.
ListFails(t) ==
    /\ cache[t].fetch # NoFetch
    /\ Fault
    /\ cache' = [cache EXCEPT ![t].fetch = NoFetch]
    /\ Leave /\ UNCHANGED mount

\* The answer reaches the tab.  Equal data keeps its identity and triggers
\* nothing.
ListArrives(t) ==
    /\ cache[t].fetch.state = "answered"
    /\ LET c == [cache[t] EXCEPT !.fetch = NoFetch, !.data = cache[t].fetch.rows]
       IN  IF c.data = cache[t].data THEN cache' = [cache EXCEPT ![t] = c] /\ UNCHANGED mount
           ELSE Render(t, c)
    /\ Leave /\ UNCHANGED faults

\* The answers of the other queries, asked for by this page or by another one of
\* the tab, when they say something new.
AgentsArrive(t) ==
    /\ "agents" \notin cache[t].loaded \/ cache[t].master # master
    /\ Render(t, [cache[t] EXCEPT !.loaded = @ \cup {"agents"}, !.master = master])
    /\ Leave /\ UNCHANGED faults

PolicyArrives(t) ==
    /\ "agents" \in cache[t].loaded
    /\ "policy" \notin cache[t].loaded \/ cache[t].policy # policy
    /\ Render(t, [cache[t] EXCEPT !.loaded = @ \cup {"policy"}, !.policy = policy])
    /\ Leave /\ UNCHANGED faults

ContactsArrive(t) ==
    /\ "contacts" \notin cache[t].loaded
    /\ Render(t, [cache[t] EXCEPT !.loaded = @ \cup {"contacts"}])
    /\ Leave /\ UNCHANGED faults

(* ----------------------------- one pass --------------------------------- *)

Run(i) == mount[i].run
SetRun(i, r) ==
    /\ mount' = [mount EXCEPT ![i].run = r]
    /\ UNCHANGED <<master, policy, evaluating, edits, cache>>
Advance(i) == SetRun(i, [Run(i) EXCEPT !.pc = "next", !.cur = Undefined, !.reply = Undefined])

\* The end of a pass: the flag is released, and a pass nobody cancelled has the
\* list fetched again.
Finish(i) ==
    /\ mount' = [mount EXCEPT ![i].run = NoRun]
    /\ cache' = IF Run(i).cancelled THEN cache ELSE [cache EXCEPT ![TabOf[i]].fetch = Asked]
    /\ UNCHANGED <<master, policy, evaluating, edits>>

\* getCalendarToken: a live or silently renewed token, or none.
GetCalendarToken == BOOLEAN

\* The signing key is found and the calendar token read, unless the pass is
\* cancelled by then.
RunKey(i) ==
    /\ Run(i).pc = "key"
    /\ \/ Run(i).cancelled /\ Finish(i)
       \/ /\ ~Run(i).cancelled
          /\ \E connected \in GetCalendarToken :
                SetRun(i, [Run(i) EXCEPT !.pc = "next", !.calendar = connected])
    /\ UNCHANGED <<row, replies, handed, faults>>

\* No signing key of the agent in this browser: the executor returns at once.
RunNoKey(i) ==
    /\ Run(i).pc = "key" /\ ~Run(i).cancelled
    /\ Finish(i)
    /\ UNCHANGED <<row, replies, handed, faults>>

RunDone(i) ==
    /\ Run(i).pc = "next" /\ Run(i).todo = {}
    /\ Finish(i)
    /\ UNCHANGED <<row, replies, handed, faults>>

\* pickScheduleCandidate: the first candidate of a payload that lists some.
PickScheduleCandidate(b) ==
    IF b.cands = Undefined \/ b.cands = <<>> THEN Undefined ELSE b.cands[1]

\* The reply payload for a decision, Undefined where the builder finds no slot.
ReplyPayload(action, b, chosen) ==
    LET sel == IF chosen # Undefined THEN chosen ELSE PickScheduleCandidate(b)
    IN  IF action = "auto_decline" THEN [action |-> "decline", sel |-> Undefined, cands |-> Undefined]
        ELSE IF b.type = Task THEN [action |-> "accept", sel |-> Undefined, cands |-> Undefined]
        ELSE IF sel = Undefined THEN Undefined
        ELSE [action |-> "accept", sel |-> sel, cands |-> Undefined]

\* What the pass does with a message, given its snapshot of list, policy and
\* contacts.
FinalDecision(r, m) ==
    MergeDecisions([action |-> r.rows[m].decision, reason |-> r.rows[m].reason],
                   EvaluateClient(r.policy, r.master,
                                  [Context(m) EXCEPT !.contact = @ /\ r.contacts]))

\* One message: its content is fetched, decrypted, parsed and evaluated.
RunEvaluate(i, m) ==
    /\ Run(i).pc = "next" /\ m \in Run(i).todo
    /\ LET r     == [Run(i) EXCEPT !.todo = @ \ {m}]
           b     == ParseA2APayload(Content[m].block, Content[m].a2a)
           act   == FinalDecision(Run(i), m).action
           reply == ReplyPayload(act, b, Undefined)
       IN  CASE b = Undefined -> SetRun(i, r)
             [] act = "auto_accept_if_free" /\ (b.type # Schedule \/ ~r.calendar) ->
                   SetRun(i, [r EXCEPT !.pc = "hand", !.cur = m])
             [] act = "auto_accept_if_free" /\ b.type = Schedule /\ r.calendar ->
                   SetRun(i, [r EXCEPT !.pc = "calendar", !.cur = m])
             [] act \in {"auto_accept", "auto_decline"} /\ reply # Undefined ->
                   SetRun(i, [r EXCEPT !.pc = "send", !.cur = m, !.reply = reply])
             [] OTHER -> SetRun(i, r)
    /\ UNCHANGED <<row, replies, handed, faults>>

\* The content cannot be fetched: the message is left for a later pass.
RunFetchFails(i, m) ==
    /\ Run(i).pc = "next" /\ m \in Run(i).todo
    /\ Fault
    /\ SetRun(i, [Run(i) EXCEPT !.todo = @ \ {m}])
    /\ UNCHANGED <<row, replies, handed>>

\* The calendar answers: a free slot is accepted, none hands over to the human.
RunCalendar(i) ==
    /\ Run(i).pc = "calendar"
    /\ LET b    == Content[Run(i).cur].block
           free == IF b.cands = Undefined THEN Undefined
                   ELSE PickFirstFreeCandidate(b.cands, Busy)
       IN  SetRun(i, IF free = Undefined THEN [Run(i) EXCEPT !.pc = "hand"]
                     ELSE [Run(i) EXCEPT !.pc = "send",
                                         !.reply = ReplyPayload("auto_accept", b, free)])
    /\ UNCHANGED <<row, replies, handed, faults>>

RunCalendarFails(i) ==
    /\ Run(i).pc = "calendar"
    /\ Fault
    /\ Advance(i)
    /\ UNCHANGED <<row, replies, handed>>

\* A message that needs a human is marked, so that no later pass takes it up;
\* a failure of the mark is swallowed.
RunHandOver(i) ==
    /\ Run(i).pc = "hand"
    /\ handed' = handed \cup {Run(i).cur}
    /\ Advance(i)
    /\ \/ Stamp(Run(i).cur) /\ UNCHANGED faults
       \/ Fault /\ UNCHANGED row
    /\ UNCHANGED replies

\* Mutant: an error of the send does not keep the message from being marked.
RunSendMarksAnyway(i) ==
    /\ Run(i).pc = "send"
    /\ SetRun(i, [Run(i) EXCEPT !.pc = "mark", !.posted = TRUE])
    /\ \/ replies' = [replies EXCEPT ![Run(i).cur] = IF @ = 2 THEN 2 ELSE @ + 1] /\ UNCHANGED faults
       \/ Fault /\ UNCHANGED replies
    /\ UNCHANGED <<row, handed>>

\* sendProtocolReply: the reply reaches the server, or is refused, or reaches
\* it and only the answer is lost.
RunSend(i) ==
    /\ Run(i).pc = "send"
    /\ LET m == Run(i).cur
           posted == [replies EXCEPT ![m] = IF @ = 2 THEN 2 ELSE @ + 1]
       IN  \/ /\ replies' = posted
              /\ SetRun(i, [Run(i) EXCEPT !.pc = "mark", !.posted = TRUE])
              /\ UNCHANGED faults
           \/ /\ Fault
              /\ replies' \in {replies, posted}
              /\ Advance(i)
    /\ UNCHANGED <<row, handed>>

\* markAutoReplySent, which may fail after the reply went out.
RunMark(i) ==
    /\ Run(i).pc = "mark"
    /\ Advance(i)
    /\ \/ Stamp(Run(i).cur) /\ UNCHANGED faults
       \/ Fault /\ UNCHANGED row
    /\ UNCHANGED <<replies, handed>>

RunStep(i) ==
    \/ RunKey(i) \/ RunNoKey(i) \/ RunDone(i) \/ RunCalendar(i) \/ RunHandOver(i)
    \/ RunSend(i) \/ RunMark(i) \/ RunCalendarFails(i)
    \/ \E m \in Msgs : RunEvaluate(i, m) \/ RunFetchFails(i, m)

Step ==
    \/ \E m \in Msgs : Deliver(m) \/ Evaluate(m)
    \/ EditSettings
    \/ \E i \in Mounts : Open(i) \/ Close(i) \/ RunStep(i)
    \/ \E t \in Tabs :
          \/ Reload(t) \/ Refresh(t) \/ ListServed(t) \/ ListFails(t) \/ ListArrives(t)
          \/ AgentsArrive(t) \/ PolicyArrives(t) \/ ContactsArrive(t)

Ended(i)   == mount[i].run # NoRun /\ mount'[i].run = NoRun
Started(i) == mount[i].run = NoRun /\ mount'[i].run # NoRun
HasList(c) == c.data # Undefined \/ c.fetch # NoFetch

Watch ==
    /\ owed' = {t \in Tabs : /\ cache'[t].fetch # NoFetch
                             /\ t \in owed \/ \E i \in MountsOf(t) : Ended(i) /\ Run(i).posted}
    /\ calm' = (/\ calm /\ faults' = 0
                /\ \A i \in Mounts : /\ ~(mount'[i].run.cancelled /\ mount'[i].run.posted)
                                     /\ Started(i) => TabOf[i] \notin owed'
                /\ \A t, u \in Tabs : HasList(cache'[t]) /\ HasList(cache'[u]) => t = u)

Next == Step /\ Watch

\* The cache holds a list, and everything the settings say now.
Warm(c) == c.data # Undefined /\ c.loaded = Queries /\ c.policy = policy /\ c.master = master

\* A pass that was started with what the settings say now.
Informed(r) == r.policy = policy /\ r.master = master /\ r.contacts

\* Requests are answered and a started pass goes on.  The rest is what the user
\* has to do for the retries docs/25c promises: again and again a list comes, and
\* again and again the user returns to a tab that still has the list and the
\* settings (a first visit may end with its pass cancelled by the policy), and
\* such a visit, in a browser with the agent's signing key, lasts until the key
\* is read.
Visits(t) ==
    /\ []<><<ListArrives(t) /\ Watch>>_vars
    /\ []<><<(\E i \in MountsOf(t) : Open(i)) /\ Warm(cache[t]) /\ Watch>>_vars
    /\ SF_vars((\E i \in MountsOf(t) : RunKey(i) /\ ~Run(i).cancelled /\ Informed(Run(i))) /\ Watch)

Fairness ==
    /\ \A m \in Msgs : WF_vars(Deliver(m) /\ Watch) /\ WF_vars(Evaluate(m) /\ Watch)
    /\ \A i \in Mounts : WF_vars(RunStep(i) /\ Watch)
    /\ \A t \in Tabs : WF_vars(ListServed(t) /\ Watch) /\ Visits(t)

Spec == Init /\ [][Next]_vars /\ Fairness

(* ----------------------------- properties ------------------------------- *)

\* A stamped message was answered, or an executor decided to leave it to the
\* human: no order of sends, marks and failures loses a message silently
\* (autoReplyExecutor.ts sends before it marks).
StampedMeansAnswered ==
    \A m \in Msgs : row[m] # Undefined =>
        (row[m].sentAt => replies[m] > 0 \/ m \in handed)

\* A second reply needs one of four things: a request that failed, a list held in
\* two tabs, a pass cancelled before it could tell of a reply it sent, or a pass
\* started after such a reply and before the list that shows it came.  Otherwise a
\* message is answered at most once, however often the settings change, passes
\* without a reply are cancelled, lists are refetched and the page is left and
\* reopened on the cached list: the refetch at the end of a pass and the sent_at
\* filter suffice for that.
OnceWhenCalm == calm => \A m \in Msgs : replies[m] <= 1

\* No message is answered twice: overlapping passes burn work, and "the server
\* column would still gate double sends" (NexusInboxClient.tsx 199-200).
NeverTwice == \A m \in Msgs : replies[m] <= 1

\* What the current settings make of an unanswered message.
WouldAct(m) ==
    LET b   == ParseA2APayload(Content[m].block, Content[m].a2a)
        act == MergeDecisions(row[m], EvaluateClient(policy, master, Context(m))).action
    IN  /\ b # Undefined
        /\ \/ act = "auto_accept_if_free"
           \/ act \in {"auto_accept", "auto_decline"} /\ ReplyPayload(act, b, Undefined) # Undefined

Settled(m) == row[m] # Undefined /\ ~(EligibleEntry(row[m]) /\ WouldAct(m))

\* A message evaluated as one to answer is handled in the end, in spite of failed
\* requests, of passes cancelled by a re-render and of settings edits: the next
\* opening of the inbox takes it up (docs/25c).
EventuallySettled == \A m \in Msgs : <>[]Settled(m)

====
