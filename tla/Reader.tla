---- MODULE Reader ----
(***************************************************************************)
(* The reader pane: ConversationThread with its content and decrypt        *)
(* effects, the protocol cards and their replies, the bridged restore of a *)
(* daemon-held message, and the list's preview workers, which share the    *)
(* content query with it.                                                  *)
(*                                                                         *)
(* The component stays mounted when another thread is opened: its state is *)
(* carried over, and an effect whose inputs changed cancels the pass of    *)
(* the one before, which then changes nothing when it ends.                *)
(***************************************************************************)
EXTENDS A2A

CONSTANTS
    Msgs,         \* messages of the list
    Thread,       \* Thread[m]: thread_id, Undefined for a message on its own
    Content,      \* Content[m]: where its key is, its folder, its block if any
    Order,        \* Order[m]: position of the message in the lists, newest first
    Early,        \* messages that are there when the pane opens
    ThreadPage,   \* perPage of the thread list
    Concurrency,  \* PREVIEW_DECRYPT_CONCURRENCY
    MaxNow,       \* bound of the clock
    MaxOps,       \* bound: clicks
    MaxFaults     \* bound: failed requests

VARIABLES
    stored,                 \* the server's messages
    root,                   \* rootMessageId
    content,                \* the message-content queries
    list,                   \* the thread list queries: data, freshness, request in flight
    behind,                 \* history: thread lists with a change nothing will fetch
    contents,               \* contents the thread fetched for its members
    fetching, decrypting,   \* the passes of the two effects
    rendered, drawn,        \* what is on screen, and when it was drawn
    card, showing,          \* pending state and mount number of each card
    sends, replies,         \* replies in flight, replies the server stored
    preview,                \* previewTextById
    visible, restoring, plaintext,   \* the tab, and bridged restores
    blockOpen, blocking,    \* the block panel and its request
    now, ops, faults

thread == <<stored, content, list, behind, contents, fetching, decrypting>>
cards  == <<card, showing, sends, replies>>
bridge == <<restoring, plaintext>>
block  == <<blockOpen, blocking>>
readerVars == <<root, thread, rendered, drawn, cards, preview, visible, bridge, block, now, ops, faults>>

Threads == {Thread[m] : m \in Msgs} \ {Undefined}
SameThread(m, n) == m = n \/ (Thread[m] # Undefined /\ Thread[m] = Thread[n])
NoPass == [on |-> FALSE, set |-> {}]
Pass(S) == [on |-> TRUE, set |-> S]
Nothing == [m \in {} |-> ""]
NoFetch == [state |-> "none", data |-> Undefined]
Asked   == [state |-> "asked", data |-> Undefined]
NoList  == [data |-> Undefined, fresh |-> FALSE, fetch |-> NoFetch]

ASSUME ReaderAssumption ==
    /\ Order \in [Msgs -> Nat] /\ Concurrency \in Nat \ {0} /\ ThreadPage \in Nat \ {0}
    /\ Early \subseteq Msgs
    /\ \A m \in Msgs : Content[m].key \in {"here", "daemon", "broken"}

ReaderInit ==
    /\ stored = Early /\ root = Undefined
    /\ content = [m \in Msgs |-> "none"] /\ list = [t \in Threads |-> NoList] /\ behind = {}
    /\ contents = {} /\ fetching = NoPass /\ decrypting = NoPass
    /\ rendered = Nothing /\ drawn = 0
    /\ card = [m \in Msgs |-> "idle"] /\ showing = [m \in Msgs |-> 0]
    /\ sends = {} /\ replies = {}
    /\ preview = [m \in Msgs |-> "none"]
    /\ visible = TRUE /\ restoring = {} /\ plaintext = {}
    /\ blockOpen = Undefined /\ blocking = Undefined
    /\ now = 0 /\ ops = 0 /\ faults = 0

Click == ops < MaxOps /\ ops' = ops + 1
Fault == faults < MaxFaults /\ faults' = faults + 1

(* --------------------------- the thread lists --------------------------- *)

\* list_messages by thread_id: the newest members, up to a page of them.
ListThread(t) ==
    LET all == {m \in stored : Thread[m] = t}
    IN  {m \in all : Cardinality({n \in all : Order[n] < Order[m]}) < ThreadPage}

\* The thread list the pane looks at: it is known with the root's content.
ShownList == IF root # Undefined /\ content[root] = "ready" THEN Thread[root] ELSE Undefined

\* A refetch cancels the request in flight, except the first of a query.
Restart(q) == IF q.data # Undefined \/ q.fetch = NoFetch THEN [q EXCEPT !.fetch = Asked] ELSE q

\* Another thread is looked at: its list is fetched when there is none, when it
\* was invalidated and when staleTime has passed; else the cached one is used.
LookAt(old) ==
    /\ list' = [t \in Threads |->
         IF /\ t = ShownList' /\ t # ShownList /\ list[t].fetch = NoFetch
            /\ list[t].data = Undefined \/ ~list[t].fresh \/ old
         THEN [list[t] EXCEPT !.fetch = Asked] ELSE list[t]]
    /\ behind' = {t \in behind : list'[t].fetch # Asked}

\* invalidateQueries(["messages"]): the shown list is fetched again, the others
\* when they are looked at; an answer already on its way clears that mark.
InvalidateLists ==
    /\ list' = [t \in Threads |-> [IF t = ShownList THEN Restart(list[t]) ELSE list[t]
                                       EXCEPT !.fresh = FALSE]]
    /\ behind' = {t \in Threads :
         \/ list'[t].fetch.state = "answered" /\ list'[t].fetch.data # ListThread(t)'
         \/ t \in behind /\ list'[t].fetch # Asked}

(* ------------------------- the effects of a thread ---------------------- *)

Members ==
    IF ShownList = Undefined \/ list[ShownList].data = Undefined THEN {}
    ELSE list[ShownList].data

Missing == Members \ (contents \union {root})

\* The messages a decrypt pass will turn into text: those of the cached thread
\* list whose content is here, and the root alone only while that list is empty.
Drawable ==
    IF root = Undefined \/ content[root] # "ready" THEN {}
    ELSE IF Members = {} THEN {root}
    ELSE Members \cap (contents \union {root})

\* Mutant: a pass under way is left to finish.
EffectsWithoutCleanup ==
    /\ fetching' = IF Missing' = {} THEN NoPass ELSE Pass(Missing')
    /\ decrypting' = IF decrypting.on THEN decrypting ELSE Pass(Drawable')

\* Both effects, once root, content, list and contents have their new values.
Effects ==
    /\ fetching' = IF Missing' = {} THEN NoPass ELSE Pass(Missing')
    /\ decrypting' = Pass(Drawable')

\* While the root's content loads, the pane shows a placeholder.
OnScreen == IF root = Undefined \/ content[root] = "loading" THEN {} ELSE DOMAIN rendered

\* Messages that leave the screen lose the state of their cards and texts, and a
\* card that appears is a new mount.
Remount ==
    /\ card' = [m \in Msgs |-> IF m \in OnScreen \cap OnScreen' THEN card[m] ELSE "idle"]
    /\ showing' = [m \in Msgs |-> IF m \in OnScreen' \ OnScreen THEN showing[m] + 1 ELSE showing[m]]
    /\ restoring' = restoring \cap OnScreen' /\ plaintext' = plaintext \cap OnScreen'

\* Previews: every result restarts the workers on the rows that are left, in list order.
Pending == {m \in stored : preview[m] = "none" /\ Content[m].key # "daemon"}
Working == {m \in Pending : Cardinality({n \in Pending : Order[n] < Order[m]}) < Concurrency}

\* A row is opened; content already in the cache is used as it is, and the
\* thread list is looked at as soon as the thread is known.
Open(m, old) ==
    /\ m \in stored /\ m # root /\ Click /\ root' = m
    /\ content' = [content EXCEPT ![m] = IF @ \in {"none", "failed"} THEN "loading" ELSE @]
    /\ UNCHANGED <<stored, contents, rendered>> /\ LookAt(old) /\ Effects /\ Remount
    /\ UNCHANGED <<drawn, sends, replies, preview, visible, block, now, faults>>

ContentArrives(m, old) ==
    /\ content[m] = "loading"
    /\ content' = [content EXCEPT ![m] = "ready"]
    /\ UNCHANGED <<root, stored, contents, rendered>> /\ LookAt(old) /\ Remount
    /\ IF m = root THEN Effects ELSE UNCHANGED <<fetching, decrypting>>
    /\ UNCHANGED <<drawn, sends, replies, preview, visible, block, now, ops, faults>>

\* The preview worker that waits for it sets the placeholder and is done with it.
ContentFails(m) ==
    /\ content[m] = "loading" /\ Fault
    /\ content' = [content EXCEPT ![m] = "failed"]
    /\ preview' = [preview EXCEPT ![m] = IF m \in Working THEN "placeholder" ELSE @]
    /\ UNCHANGED <<root, rendered>> /\ Remount
    /\ UNCHANGED <<stored, list, behind, contents, fetching, decrypting, drawn, sends, replies,
                   visible, block, now, ops>>

ListServed(t) ==
    /\ list[t].fetch = Asked
    /\ list' = [list EXCEPT ![t].fetch = [state |-> "answered", data |-> ListThread(t)]]
    /\ UNCHANGED <<stored, content, behind, contents, fetching, decrypting>>
    /\ UNCHANGED <<root, rendered, drawn, cards, preview, visible, bridge, block, now, ops, faults>>

\* Equal data keeps its identity and wakes no effect, unless a member's flags differ.
ListArrives(t) ==
    /\ list[t].fetch.state = "answered"
    /\ list' = [list EXCEPT ![t] = [data |-> @.fetch.data, fresh |-> TRUE, fetch |-> NoFetch]]
    /\ UNCHANGED <<root, stored, content, behind, contents>>
    /\ \/ t = ShownList /\ Effects
       \/ /\ t = ShownList => list'[t].data = list[t].data
          /\ UNCHANGED <<fetching, decrypting>>
    /\ UNCHANGED <<rendered, drawn, cards, preview, visible, bridge, block, now, ops, faults>>

\* Both tries failed: what there was stays, and nothing asks again until the
\* lists are invalidated or the thread is opened anew.
ListFails(t) ==
    /\ list[t].fetch # NoFetch /\ Fault
    /\ list' = [list EXCEPT ![t].fetch = NoFetch, ![t].fresh = FALSE]
    /\ behind' = behind \union {t}
    /\ UNCHANGED <<stored, content, contents, fetching, decrypting>>
    /\ UNCHANGED <<root, rendered, drawn, cards, preview, visible, bridge, block, now, ops>>

\* A message comes; without a push, over a broken socket, nobody tells the lists.
Arrive(m, told) ==
    /\ m \notin stored /\ stored' = stored \union {m}
    /\ IF told THEN InvalidateLists
       ELSE /\ behind' = behind \union {t \in Threads : t = Thread[m] /\ list[t].fetch # Asked}
            /\ UNCHANGED list
    /\ UNCHANGED <<content, contents, fetching, decrypting>>
    /\ UNCHANGED <<root, rendered, drawn, cards, preview, visible, bridge, block, now, ops, faults>>

\* The refresh button, and every other mutation of a message that succeeds.
RefreshLists ==
    /\ Click /\ UNCHANGED stored /\ InvalidateLists
    /\ UNCHANGED <<content, contents, fetching, decrypting>>
    /\ UNCHANGED <<root, rendered, drawn, cards, preview, visible, bridge, block, now, faults>>

\* All fetches of a pass ended.  The state is replaced even when one failed, so
\* the effect runs again and asks for what is still missing.
ContentsArrive(lost) ==
    /\ fetching.on /\ lost \subseteq fetching.set
    /\ IF lost = {} THEN UNCHANGED faults ELSE Fault
    /\ contents' = contents \union (fetching.set \ lost)
    /\ UNCHANGED <<root, stored, content, list, behind>> /\ Effects
    /\ UNCHANGED <<rendered, drawn, cards, preview, visible, bridge, block, now, ops>>

\* decryptEnvelopeTextWithState and deriveMessageState of one message.
DeriveMessageState(m) ==
    CASE Content[m].key = "here"   -> "readable"
      [] Content[m].key = "daemon" -> "unavailable_on_this_device"
      [] OTHER                     -> "decrypt_failed"

IsCard(m) == DeriveMessageState(m) = "readable" /\ Content[m].block # Undefined

\* setRendered.
DecryptDone ==
    /\ decrypting.on /\ decrypting' = NoPass
    /\ rendered' = [m \in decrypting.set |-> DeriveMessageState(m)] /\ drawn' = now
    /\ UNCHANGED <<root, content>> /\ Remount
    /\ UNCHANGED <<stored, list, behind, contents, fetching, sends, replies, preview, visible,
                   block, now, ops, faults>>

(* ------------------------------- replies -------------------------------- *)

\* Mutant: the card stays enabled while its reply is under way.
CardEnabledWhileBusy(m) ==
    /\ m \in OnScreen /\ IsCard(m) /\ card[m] # "done"
    /\ CanRespondToProtocol(Content[m].block, Content[m].folder, drawn)

\* disabled of ProposeView and DelegateView: the deadline counts as of the
\* last drawing.
CardEnabled(m) ==
    /\ m \in OnScreen /\ IsCard(m) /\ card[m] = "idle"
    /\ CanRespondToProtocol(Content[m].block, Content[m].folder, drawn)

Reply(action, sel, cands) == [action |-> action, sel |-> sel, cands |-> cands]

\* What the cards may answer: a candidate of the proposal, no, or other slots.
RepliesTo(b) ==
    {Reply("decline", Undefined, Undefined)} \union
    (IF b.type = Schedule
     THEN {Reply("accept", b.cands[i], Undefined) : i \in DOMAIN b.cands} \union
          {Reply("counter", Undefined, rows) :
              rows \in {r \in {<<[start |-> 4, end |-> 5]>>} : ValidateCandidateRows(r)}}
     ELSE {Reply("accept", Undefined, Undefined)})

\* onRespond, handleProtocolRespond: a reply without a thread of its own goes
\* to the thread of the root of this moment.
Respond(m, r) ==
    /\ CardEnabled(m) /\ Click
    /\ card' = [card EXCEPT ![m] = "sending"]
    /\ sends' = sends \union
         {[to |-> m, thread |-> IF Thread[m] # Undefined THEN Thread[m] ELSE root,
           block |-> BuildReplyPayload(Content[m].block.type, r), mount |-> showing[m], id |-> ops,
           lost |-> FALSE]}
    /\ UNCHANGED <<root, thread, rendered, drawn, showing, replies, preview, visible, bridge,
                   block, now, faults>>

\* The awaited reply sets the state of the card that sent it, if it is there.
Ended(s, state) ==
    /\ sends' = sends \ {s}
    /\ card' = IF showing[s.to] = s.mount /\ s.to \in OnScreen
               THEN [card EXCEPT ![s.to] = state] ELSE card

\* sendProtocolReply went through; onSuccess of the send invalidates the lists.
ReplySent(s) ==
    /\ s \in sends /\ Ended(s, "done")
    /\ replies' = replies \union {s}
    /\ UNCHANGED stored /\ InvalidateLists
    /\ UNCHANGED <<root, content, contents, fetching, decrypting, rendered, drawn, showing, preview,
                   visible, bridge, block, now, ops, faults>>

\* A key is missing, or the request failed before it reached the server.
ReplyFails(s) ==
    /\ s \in sends /\ Fault /\ Ended(s, "idle")
    /\ UNCHANGED <<root, thread, rendered, drawn, showing, replies, preview, visible, bridge,
                   block, now, ops>>

\* The server stored the reply and its answer was lost: the card is idle again.
ReplyAnswerLost(s) ==
    /\ s \in sends /\ Fault /\ Ended(s, "idle")
    /\ replies' = replies \union {[s EXCEPT !.lost = TRUE]}
    /\ UNCHANGED <<root, thread, rendered, drawn, showing, preview, visible, bridge, block, now, ops>>

(* --------------------------- preview workers ---------------------------- *)

PreviewAsks(m) ==
    /\ m \in Working /\ content[m] \in {"none", "failed"}
    /\ content' = [content EXCEPT ![m] = "loading"]
    /\ UNCHANGED <<root, rendered>> /\ Remount
    /\ UNCHANGED <<stored, list, behind, contents, fetching, decrypting, drawn, sends, replies,
                   preview, visible, block, now, ops, faults>>

\* Mutant: a text that cannot be decrypted is left for the next run.
PreviewDoneReadableOnly(m) ==
    /\ m \in Working /\ content[m] = "ready" /\ Content[m].key = "here"
    /\ preview' = [preview EXCEPT ![m] = "text"]
    /\ UNCHANGED <<root, thread, rendered, drawn, cards, visible, bridge, block, now, ops, faults>>

PreviewDone(m) ==
    /\ m \in Working /\ content[m] = "ready"
    /\ preview' = [preview EXCEPT ![m] =
                     IF Content[m].key = "here" THEN "text" ELSE "placeholder"]
    /\ UNCHANGED <<root, thread, rendered, drawn, cards, visible, bridge, block, now, ops, faults>>

(* ---------------------------- bridged restore --------------------------- *)

\* runRestore: the button of a daemon-held message, confirmed by the user.
Restore(m) ==
    /\ m \in OnScreen /\ rendered[m] = "unavailable_on_this_device" /\ m \notin restoring
    /\ visible /\ Click
    /\ restoring' = restoring \union {m} /\ UNCHANGED plaintext
    /\ UNCHANGED <<root, thread, rendered, drawn, cards, preview, visible, block, now, faults>>

\* The daemon's answer: the text is set whether or not the tab is still shown.
RestoreDone(m) ==
    /\ m \in restoring /\ restoring' = restoring \ {m}
    /\ plaintext' = plaintext \union {m}
    /\ UNCHANGED <<root, thread, rendered, drawn, cards, preview, visible, block, now, ops, faults>>

RestoreFails(m) ==
    /\ m \in restoring /\ Fault /\ restoring' = restoring \ {m} /\ UNCHANGED plaintext
    /\ UNCHANGED <<root, thread, rendered, drawn, cards, preview, visible, block, now, ops>>

\* BRIDGED_PLAINTEXT_TTL_MS has passed, or the user cleared the text.
PlaintextExpires(m) ==
    /\ m \in plaintext /\ plaintext' = plaintext \ {m} /\ UNCHANGED restoring
    /\ UNCHANGED <<root, thread, rendered, drawn, cards, preview, visible, block, now, ops, faults>>

\* visibilitychange: a hidden tab drops the text it shows.
Visibility ==
    /\ Click /\ visible' = ~visible
    /\ plaintext' = IF visible THEN {} ELSE plaintext
    /\ UNCHANGED <<root, thread, rendered, drawn, cards, preview, restoring, block, now, faults>>

(* --------------------------- blocking a sender -------------------------- *)

ToggleBlockPanel(m) ==
    /\ m \in OnScreen /\ Click
    /\ blockOpen' = IF blockOpen = m THEN Undefined ELSE m
    /\ UNCHANGED blocking
    /\ UNCHANGED <<root, thread, rendered, drawn, cards, preview, visible, bridge, now, faults>>

ConfirmAndBlock ==
    /\ blockOpen \in OnScreen /\ blocking = Undefined /\ Click
    /\ blocking' = blockOpen /\ UNCHANGED blockOpen
    /\ UNCHANGED <<root, thread, rendered, drawn, cards, preview, visible, bridge, now, faults>>

\* Success closes the panel that is open now; a failure leaves it.
BlockEnds ==
    /\ blocking # Undefined /\ blocking' = Undefined
    /\ \/ blockOpen' = Undefined /\ UNCHANGED faults
       \/ Fault /\ UNCHANGED blockOpen
    /\ UNCHANGED <<root, thread, rendered, drawn, cards, preview, visible, bridge, now, ops>>

(* ---------------------------- specification ----------------------------- *)

Tick ==
    /\ now < MaxNow /\ now' = now + 1
    /\ UNCHANGED <<root, thread, rendered, drawn, cards, preview, visible, bridge, block, ops, faults>>

User ==
    \/ \E m \in Msgs : Restore(m) \/ ToggleBlockPanel(m) \/ \E old \in BOOLEAN : Open(m, old)
    \/ \E m \in Msgs : Content[m].block # Undefined /\ \E r \in RepliesTo(Content[m].block) : Respond(m, r)
    \/ ConfirmAndBlock \/ Visibility \/ RefreshLists

Machine ==
    \/ \E m \in Msgs, old \in BOOLEAN : ContentArrives(m, old)
    \/ \E m \in Msgs : PreviewAsks(m) \/ PreviewDone(m)
    \/ \E t \in Threads : ListServed(t) \/ ListArrives(t)
    \/ \E m \in Msgs, told \in BOOLEAN : Arrive(m, told)
    \/ ContentsArrive({}) \/ DecryptDone
    \/ \E s \in sends : ReplySent(s)
    \/ \E m \in Msgs : RestoreDone(m) \/ PlaintextExpires(m)
    \/ BlockEnds \/ Tick

Failures ==
    \/ \E m \in Msgs : ContentFails(m) \/ RestoreFails(m)
    \/ \E t \in Threads : ListFails(t)
    \/ \E lost \in SUBSET Msgs : lost # {} /\ ContentsArrive(lost)
    \/ \E s \in sends : ReplyFails(s) \/ ReplyAnswerLost(s)

ReaderNext == User \/ Machine \/ Failures

\* Requests are answered and promises resolve.
Fairness ==
    /\ \A m \in Msgs : /\ WF_readerVars(\E old \in BOOLEAN : ContentArrives(m, old))
                       /\ WF_readerVars(PreviewAsks(m)) /\ WF_readerVars(PreviewDone(m))
    /\ \A t \in Threads : WF_readerVars(ListServed(t)) /\ WF_readerVars(ListArrives(t))
    /\ WF_readerVars(ContentsArrive({})) /\ WF_readerVars(DecryptDone)

ReaderSpec == ReaderInit /\ [][ReaderNext]_readerVars /\ Fairness

(* ------------------------------ properties ------------------------------ *)

\* Types; cards and texts only of messages that were drawn.
ReaderTypeOK ==
    /\ root \in Msgs \union {Undefined}
    /\ content \in [Msgs -> {"none", "loading", "ready", "failed"}]
    /\ stored \subseteq Msgs /\ behind \subseteq Threads
    /\ contents \subseteq Msgs /\ fetching.set \union decrypting.set \subseteq Msgs
    /\ card \in [Msgs -> {"idle", "sending", "done"}]
    /\ \A m \in Msgs : card[m] # "idle" => m \in OnScreen
    /\ restoring \union plaintext \subseteq OnScreen
    /\ preview \in [Msgs -> {"none", "text", "placeholder"}]

\* However root changes, answers, new messages and passes interleave, once the
\* decrypt pass is done the screen shows messages of the opened thread only, and
\* the opened one with them, unless the thread's list is still under way, missed
\* a change (a lost push, a failed request, an answer overtaken by the
\* invalidation) or holds a full page of newer messages.
SettledShowsRoot ==
    root # Undefined /\ content[root] = "ready" /\ ~decrypting.on =>
        /\ \A m \in DOMAIN rendered : SameThread(m, root)
        /\ \/ root \in DOMAIN rendered
           \/ /\ ShownList # Undefined
              /\ \/ list[ShownList].fetch # NoFetch \/ ShownList \in behind
                 \/ root \notin ListThread(ShownList)

\* One showing of a card sends one reply, however often it is drawn again
\* while the reply is under way, unless the server's answer was lost.
OneReplyPerShowing ==
    \A r, s \in replies \union sends :
        r.to = s.to /\ r.mount = s.mount /\ ~r.lost /\ ~s.lost => r = s

Whole == IF Thread[root] = Undefined THEN {root} ELSE ListThread(Thread[root])

\* Every row gets its preview, although each result cancels the other workers;
\* and the open thread ends up whole, a page of it, unless its root failed to
\* load or its list missed a change or failed to load.
EventuallyWhole ==
    /\ <>[](Pending = {})
    /\ <>[](root = Undefined \/ content[root] = "failed" \/ Thread[root] \in behind
            \/ DOMAIN rendered = Whole)
====
