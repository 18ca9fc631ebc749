---- MODULE Inbox ----
(***************************************************************************)
(* The message lists of the web application: the dashboard (app/page.tsx), *)
(* the per-agent inbox and the pending page, over the query cache of       *)
(* lib/api/hooks.ts, the WebSocket of RealtimeSubscriber and the rows the  *)
(* server keeps.  A message's number is its creation time and its id.      *)
(***************************************************************************)
EXTENDS Integers, FiniteSets, FiniteSetsExt

CONSTANTS
    Undefined,   \* a missing value
    MaxMsg,      \* bound: messages are 1..MaxMsg, numbered in order of arrival
    ThreadOf,    \* ThreadOf[m]: thread_id, Undefined for a message on its own
    Views,       \* the sidebar views in use
    Landing,     \* folders a new message may be routed to
    Present,     \* mailboxes the page may open on: rows of the first messages
    PerPage,     \* DASHBOARD_PER_PAGE
    MaxOps,      \* bound: clicks of the user
    MaxFaults    \* bound: failed requests and broken sockets

Msgs == 1..MaxMsg
Pages == 1..((MaxMsg + PerPage - 1) \div PerPage)
Keys == Views \X Pages

ASSUME InboxAssumption ==
    /\ MaxMsg \in Nat /\ PerPage \in Nat \ {0} /\ 1 \in Pages
    /\ Views \subseteq {"inbox", "starred", "all", "spam", "trash", "pending_approval"}
    /\ ThreadOf \in [Msgs -> {Undefined, "t"}]
    /\ \A p \in Present : \E n \in 0..MaxMsg :
          p \in [Msgs -> {p[m] : m \in Msgs}] /\ \A m \in Msgs : p[m] # Undefined <=> m <= n

VARIABLES
    row, arrived,       \* message_index: the user's rows, and messages so far
    socket, pushed,     \* the WebSocket, and whether a push is on its way
    cache,              \* the list queries: data, freshness, request in flight
    view, page, filter, \* what the dashboard shows
    localStatus, localStars,   \* optimistic overrides, by row id
    selected, active,   \* checked rows, and the row open in the reader
    calls, last,        \* mutations in flight, the newest one of each hook
    ops, faults,
    excused,            \* history: keys with a change nothing told them about
    recent              \* history: messages newer than the user's last act on their thread

ui == <<view, page, filter, localStatus, localStars, selected, active>>
vars == <<row, arrived, socket, pushed, cache, view, page, filter, localStatus, localStars,
          selected, active, calls, last, ops, faults, excused, recent>>

Hooks == {"status", "flags", "delete"}
NoFetch == [state |-> "none", data |-> Undefined]
Asked   == [state |-> "asked", data |-> Undefined]
NoQuery == [data |-> Undefined, fresh |-> FALSE, fetch |-> NoFetch]
Key == <<view, page>>

(* ------------------------------ the server ------------------------------ *)

\* The folder filter of list_messages.
InFolder(r, v) ==
    CASE v = "all"     -> r.folder \notin {"spam", "trash"}
      [] v = "starred" -> r.starred /\ r.folder \notin {"spam", "trash"}
      [] OTHER         -> r.folder = v

\* One page of a folder, newest first, with the total before paging, which
\* comes with the rows: a page past the end says 0.
ListMessages(k) ==
    LET all  == {m \in Msgs : row[m] # Undefined /\ InFolder(row[m], k[1])}
        rank(m) == Cardinality({n \in all : n > m})
        page1 == {m \in all : rank(m) \in (k[2] - 1) * PerPage .. k[2] * PerPage - 1}
    IN  [rows |-> [m \in page1 |-> row[m]],
         total |-> IF page1 = {} THEN 0 ELSE Cardinality(all)]

(* ---------------------------- the thread list --------------------------- *)

SameThread(m, n) == m = n \/ (ThreadOf[m] # Undefined /\ ThreadOf[m] = ThreadOf[n])

\* Mutant: the seed of a thread is its first message.
RepresentativesOldest(rows) ==
    {m \in DOMAIN rows : \A n \in DOMAIN rows : SameThread(m, n) => n >= m}

\* groupMessagesByThread: one row per thread, known by its newest message.
Representatives(rows) ==
    {m \in DOMAIN rows : \A n \in DOMAIN rows : SameThread(m, n) => n <= m}

Group(rows, m) == {n \in DOMAIN rows : SameThread(m, n)}

Rows == IF cache[Key].data = Undefined THEN [m \in {} |-> Undefined] ELSE cache[Key].data.rows

\* apiThreads and derivedThreads: any unread message makes the row unread,
\* unless this tab has an override for the row.
RowStatus(m) ==
    IF localStatus[m] # Undefined THEN localStatus[m]
    ELSE IF \E n \in Group(Rows, m) : Rows[n].status = "unread" THEN "unread"
    ELSE Rows[m].status

RowStarred(m) ==
    IF localStars[m] # Undefined THEN localStars[m] = "on"
    ELSE \E n \in Group(Rows, m) : Rows[n].starred

FilteredThreads ==
    {m \in Representatives(Rows) :
        CASE filter = "unread"  -> RowStatus(m) = "unread"
          [] filter = "starred" -> RowStarred(m)
          [] OTHER -> TRUE}

\* The effects that follow every render: an open row that left the list gives
\* way to the first one, and checks of rows that left it are dropped.
Render(open, checked) ==
    /\ selected' = checked \cap FilteredThreads'
    /\ active' = IF FilteredThreads' = {} THEN Undefined
                 ELSE IF open \in FilteredThreads' THEN open
                 ELSE Max(FilteredThreads')

\* Bulk actions act on the rows that are checked and shown.
Targets == selected \cap FilteredThreads

(* ------------------------------ the queries ----------------------------- *)

\* A refetch cancels the request in flight, except the first of a query.
Restart(q) == IF q.data # Undefined \/ q.fetch = NoFetch THEN [q EXCEPT !.fetch = Asked] ELSE q

Behind(q, k) == q.fetch.state = "answered" /\ q.fetch.data # ListMessages(k)

\* Mutant: a success only marks the lists it does not show.
InvalidateInactiveOnly ==
    /\ cache' = [k \in Keys |-> IF k = Key THEN cache[k] ELSE [cache[k] EXCEPT !.fresh = FALSE]]
    /\ excused' = excused

\* invalidateQueries(["messages"]): every list is stale, the shown one is
\* fetched again; a response already on its way clears the mark when it lands.
Invalidate ==
    /\ cache' = [k \in Keys |-> [IF k = Key THEN Restart(cache[k]) ELSE cache[k]
                                    EXCEPT !.fresh = FALSE]]
    /\ excused' = {k \in Keys : \/ Behind(cache'[k], k)
                                \/ k \in excused /\ cache'[k].fetch # Asked}

\* messagesQuery.refetch(): the shown list only.
Refetch ==
    /\ cache' = [cache EXCEPT ![Key] = Restart(@)]
    /\ excused' = IF cache'[Key].fetch = Asked THEN excused \ {Key} ELSE excused

\* The lists that a push lost with the socket would have had fetched again.
Missed == IF pushed THEN {k \in Keys : cache[k].fetch # Asked} ELSE {}

\* A list is fetched when it is first shown, when it was invalidated and,
\* after staleTime, when it is shown again.
Show(ks, old, untold) ==
    /\ cache' = [k \in Keys |->
         IF /\ k \in ks /\ cache[k].fetch = NoFetch
            /\ cache[k].data = Undefined \/ ~cache[k].fresh \/ old
         THEN [cache[k] EXCEPT !.fetch = Asked] ELSE cache[k]]
    /\ excused' = untold \ {k \in ks : cache'[k].fetch = Asked}

Serve(k) ==
    /\ cache[k].fetch = Asked
    /\ cache' = [cache EXCEPT ![k].fetch = [state |-> "answered", data |-> ListMessages(k)]]
    /\ UNCHANGED <<row, arrived, socket, pushed, ui, calls, last, ops, faults, excused, recent>>

Arrived(k) ==
    /\ cache[k].fetch.state = "answered"
    /\ cache' = [cache EXCEPT ![k] = [data |-> @.fetch.data, fresh |-> TRUE, fetch |-> NoFetch]]
    /\ UNCHANGED <<view, page, filter, localStatus, localStars>> /\ Render(active, selected)
    /\ UNCHANGED <<row, arrived, socket, pushed, calls, last, ops, faults, excused, recent>>

\* Both tries of a list request fail: the error shows over the old data.
ListFails(k) ==
    /\ cache[k].fetch # NoFetch /\ faults < MaxFaults /\ faults' = faults + 1
    /\ cache' = [cache EXCEPT ![k].fetch = NoFetch, ![k].fresh = FALSE]
    /\ excused' = excused \union {k}
    /\ UNCHANGED <<row, arrived, socket, pushed, ui, calls, last, ops, recent>>

(* ---------------------------- new messages ------------------------------ *)

Arrive(m, folder) ==
    /\ m = arrived + 1 /\ arrived' = m
    /\ row' = [row EXCEPT ![m] = [folder |-> folder, status |-> "unread", starred |-> FALSE]]
    /\ recent' = recent \union {m}
    /\ IF socket = "open"
       THEN pushed' = TRUE /\ UNCHANGED excused
       ELSE /\ excused' = excused \union {k \in Keys : cache[k].fetch # Asked}
            /\ UNCHANGED pushed
    /\ UNCHANGED <<socket, cache, ui, calls, last, ops, faults>>

\* Mutant: the handler waits for an event of another name.
PushIgnored ==
    /\ pushed /\ pushed' = FALSE
    /\ UNCHANGED <<row, arrived, socket, cache, ui, calls, last, ops, faults, excused, recent>>

\* socket.onmessage with a new_message event.
Push ==
    /\ pushed /\ pushed' = FALSE
    /\ Invalidate
    /\ UNCHANGED <<row, arrived, socket, ui, calls, last, ops, faults, recent>>

\* connect: the socket opens; onopen refetches nothing.
SocketOpen ==
    /\ socket # "open" /\ socket' = "open"
    /\ UNCHANGED <<row, arrived, pushed, cache, ui, calls, last, ops, faults, excused, recent>>

\* onclose: pushes on their way are lost, a reconnect is scheduled.
SocketClose ==
    /\ socket = "open" /\ faults < MaxFaults /\ faults' = faults + 1
    /\ socket' = "retrying" /\ pushed' = FALSE
    /\ excused' = excused \union Missed
    /\ UNCHANGED <<row, arrived, cache, ui, calls, last, ops, recent>>

(* ------------------------------ mutations ------------------------------- *)

Call(hook, id, val, bulk) ==
    [hook |-> hook, id |-> id, val |-> val, bulk |-> bulk, batch |-> ops, stage |-> "sent"]

Start(cs) ==
    /\ calls' = calls \union cs
    /\ last' = [h \in Hooks |->
         IF \E c \in cs : c.hook = h THEN <<ops, Min({c.id : c \in {d \in cs : d.hook = h}})>> ELSE last[h]]

\* isPending of a mutation hook: it follows the last call only.
IsPending(h) == \E c \in calls : c.hook = h /\ <<c.batch, c.id>> = last[h]

Updated(r, c) ==
    CASE c.hook = "status" ->
           [r EXCEPT !.status = c.val,
                     !.folder = IF c.val = "archived" /\ @ = "inbox" THEN "archive" ELSE @]
      [] c.hook = "flags" /\ c.val \in {"on", "off"} -> [r EXCEPT !.starred = c.val = "on"]
      [] c.hook = "flags" ->
           [r EXCEPT !.folder = c.val,
                     !.status = IF c.val = "inbox" /\ @ = "archived" THEN "read" ELSE @]
      [] OTHER -> Undefined

\* The server handles a call; a row that is gone answers 404.
Apply(c) ==
    /\ c \in calls /\ c.stage = "sent"
    /\ IF row[c.id] # Undefined
       THEN /\ row' = [row EXCEPT ![c.id] = Updated(@, c)]
            /\ calls' = (calls \ {c}) \union {[c EXCEPT !.stage = "done"]}
       ELSE /\ calls' = (calls \ {c}) \union {[c EXCEPT !.stage = "failed"]}
            /\ UNCHANGED row
    /\ UNCHANGED <<arrived, socket, pushed, cache, ui, last, ops, faults, excused, recent>>

\* The call or its answer is lost: the mutation fails, applied or not.
Lose(c) ==
    /\ c \in calls /\ c.stage # "failed" /\ faults < MaxFaults /\ faults' = faults + 1
    /\ calls' = (calls \ {c}) \union {[c EXCEPT !.stage = "failed"]}
    /\ excused' = IF c.stage = "done" THEN excused \union {k \in Keys : cache[k].fetch # Asked}
                  ELSE excused
    /\ UNCHANGED <<row, arrived, socket, pushed, cache, ui, last, ops, recent>>

\* onSuccess invalidates; a bulk handler refetches once all its calls settled.
Settle(c) ==
    /\ c \in calls /\ c.stage # "sent"
    /\ calls' = calls \ {c}
    /\ IF c.stage = "done" THEN Invalidate
       ELSE IF c.bulk /\ \A d \in calls : d.batch = c.batch => d = c THEN Refetch
       ELSE UNCHANGED <<cache, excused>>
    /\ UNCHANGED <<row, arrived, socket, pushed, ui, last, ops, faults, recent>>

(* ---------------------------- the user's clicks ------------------------- *)

Click == ops < MaxOps /\ ops' = ops + 1

OnDashboard == view # "pending_approval"

Override(ids, status) ==
    localStatus' = [m \in Msgs |-> IF m \in ids THEN status ELSE localStatus[m]]

Touch(ids) == recent' = {m \in recent : \A n \in ids : ~SameThread(m, n)}

\* handleOpenThread and handleOpen: only the representative is marked read.
OpenThread(m) ==
    /\ OnDashboard /\ m \in FilteredThreads /\ Click /\ Touch({m})
    /\ IF RowStatus(m) = "unread"
       THEN Override({m}, "read") /\ Start({Call("status", m, "read", FALSE)})
       ELSE UNCHANGED <<localStatus, calls, last>>
    /\ UNCHANGED <<view, page, filter, localStars, cache>> /\ Render(m, selected)
    /\ UNCHANGED <<row, arrived, socket, pushed, faults, excused>>

ToggleSelect(m) ==
    /\ OnDashboard /\ m \in FilteredThreads /\ Click
    /\ UNCHANGED <<view, page, filter, localStatus, localStars, cache>>
    /\ Render(active, IF m \in selected THEN selected \ {m} ELSE selected \union {m})
    /\ UNCHANGED <<row, arrived, socket, pushed, calls, last, faults, excused, recent>>

ToggleSelectAll ==
    /\ OnDashboard /\ FilteredThreads # {} /\ Click
    /\ UNCHANGED <<view, page, filter, localStatus, localStars, cache>>
    /\ Render(active, IF FilteredThreads \subseteq selected THEN selected \ FilteredThreads
                      ELSE selected \union FilteredThreads)
    /\ UNCHANGED <<row, arrived, socket, pushed, calls, last, faults, excused, recent>>

\* toggleStar of one row, and bulkSetStar of the checked ones.
Star(ids, on) ==
    /\ Click /\ Touch(ids)
    /\ localStars' = [m \in Msgs |-> IF m \in ids THEN on ELSE localStars[m]]
    /\ Start({Call("flags", m, on, FALSE) : m \in ids})
    /\ UNCHANGED <<view, page, filter, localStatus, cache>> /\ Render(active, selected)
    /\ UNCHANGED <<row, arrived, socket, pushed, faults, excused>>

ToggleStar(m) ==
    OnDashboard /\ m \in FilteredThreads /\ Star({m}, IF RowStarred(m) THEN "off" ELSE "on")

BulkSetStar(on) == OnDashboard /\ Targets # {} /\ Star(Targets, on)

\* The bulk handlers: override the rows, drop the checks, send one call a row.
Bulk(hook, val, shown) ==
    /\ OnDashboard /\ Targets # {} /\ ~IsPending(hook) /\ Click /\ Touch(Targets)
    /\ Override(Targets, shown)
    /\ Start({Call(hook, m, val, TRUE) : m \in Targets})
    /\ UNCHANGED <<view, page, filter, localStars, cache>> /\ Render(active, {})
    /\ UNCHANGED <<row, arrived, socket, pushed, faults, excused>>

BulkUpdateStatus(status) ==
    (status = "archived" => view \notin {"spam", "trash"}) /\ Bulk("status", status, status)
BulkMoveToFolder(folder) == view \notin {"spam", "trash"} /\ Bulk("flags", folder, "read")
BulkRestoreToInbox == view \in {"spam", "trash", "all"} /\ Bulk("flags", "inbox", "read")
BulkDeleteForever == view = "trash" /\ Bulk("delete", "gone", "archived")

\* The pending page: approve to the inbox, reject to the trash.
Decide(m, folder) ==
    /\ ~OnDashboard /\ m \in DOMAIN Rows /\ ~IsPending("flags") /\ Click /\ Touch({m})
    /\ Start({Call("flags", m, folder, FALSE)})
    /\ UNCHANGED <<row, arrived, socket, pushed, cache, ui, faults, excused>>

SetFilter(f) ==
    /\ OnDashboard /\ filter # f /\ filter' = f /\ Click
    /\ UNCHANGED <<view, page, localStatus, localStars, cache>> /\ Render(active, selected)
    /\ UNCHANGED <<row, arrived, socket, pushed, calls, last, faults, excused, recent>>

\* Another sidebar view keeps the page's state and is rendered once with the
\* old page number, whose list is asked for too, before the effect resets it.
\* The pending page is another component: overrides, checks and mutation hooks
\* are gone, and its own AppShell closes the socket and connects a new one, so
\* that pushes on their way are lost.
ChangeView(v, old) ==
    /\ v # view /\ Click
    /\ view' = v /\ page' = 1 /\ filter' = "all"
    /\ IF OnDashboard /\ v # "pending_approval"
       THEN /\ Show({<<v, page>>, <<v, 1>>}, old, excused)
            /\ UNCHANGED <<localStatus, localStars, socket, pushed, last>>
            /\ Render(active, selected)
       ELSE /\ Show({<<v, 1>>}, old, excused \union Missed)
            /\ localStatus' = [m \in Msgs |-> Undefined]
            /\ localStars' = [m \in Msgs |-> Undefined]
            /\ socket' = "connecting" /\ pushed' = FALSE
            /\ last' = [h \in Hooks |-> <<0, 0>>]
            /\ Render(Undefined, {})
    /\ UNCHANGED <<row, arrived, calls, faults, recent>>

TotalPages ==
    LET total == IF cache[Key].data = Undefined THEN 0 ELSE cache[Key].data.total
    IN  Max({1, (total + PerPage - 1) \div PerPage})

ChangePage(p, old) ==
    /\ OnDashboard /\ p \in Pages /\ Click
    /\ p = page - 1 \/ (p = page + 1 /\ page < TotalPages)
    /\ page' = p /\ Show({<<view, p>>}, old, excused)
    /\ UNCHANGED <<view, filter, localStatus, localStars>> /\ Render(active, selected)
    /\ UNCHANGED <<row, arrived, socket, pushed, calls, last, faults, recent>>

\* The refresh button.
Refresh ==
    /\ Click /\ IF OnDashboard THEN Invalidate ELSE Refetch
    /\ UNCHANGED <<row, arrived, socket, pushed, ui, calls, last, faults, recent>>

(* ---------------------------- specification ----------------------------- *)

Init ==
    /\ row \in Present /\ arrived = Cardinality({m \in Msgs : row[m] # Undefined})
    /\ recent = {} /\ socket = "connecting" /\ pushed = FALSE
    /\ view \in Views /\ page = 1 /\ filter = "all"
    /\ cache = [k \in Keys |-> IF k = Key THEN [NoQuery EXCEPT !.fetch = Asked]
                               ELSE NoQuery]
    /\ localStatus = [m \in Msgs |-> Undefined] /\ localStars = [m \in Msgs |-> Undefined]
    /\ selected = {} /\ active = Undefined
    /\ calls = {} /\ last = [h \in Hooks |-> <<0, 0>>]
    /\ ops = 0 /\ faults = 0 /\ excused = {}

User ==
    \/ \E m \in Msgs : OpenThread(m) \/ ToggleSelect(m) \/ ToggleStar(m)
    \/ ToggleSelectAll
    \/ \E on \in {"on", "off"} : BulkSetStar(on)
    \/ \E s \in {"read", "archived"} : BulkUpdateStatus(s)
    \/ \E f \in {"trash", "spam"} : BulkMoveToFolder(f)
    \/ BulkRestoreToInbox \/ BulkDeleteForever
    \/ \E m \in Msgs, f \in {"inbox", "trash"} : Decide(m, f)
    \/ \E f \in {"all", "unread", "starred"} : SetFilter(f)
    \/ \E v \in Views, old \in BOOLEAN : ChangeView(v, old)
    \/ \E p \in Pages, old \in BOOLEAN : ChangePage(p, old)
    \/ Refresh

Machine ==
    \/ \E k \in Keys : Serve(k) \/ Arrived(k)
    \/ \E c \in calls : Apply(c) \/ Settle(c)
    \/ Push \/ SocketOpen

Environment ==
    \/ \E m \in Msgs, f \in Landing : Arrive(m, f)
    \/ \E k \in Keys : ListFails(k)
    \/ \E c \in calls : Lose(c)
    \/ SocketClose

Next == User \/ Machine \/ Environment

\* Requests are answered, responses and pushes are handled, the reconnect
\* timer fires.
Fairness ==
    /\ \A k \in Keys : WF_vars(Serve(k)) /\ WF_vars(Arrived(k))
    /\ WF_vars(\E c \in calls : Apply(c)) /\ WF_vars(\E c \in calls : Settle(c))
    /\ WF_vars(Push) /\ WF_vars(SocketOpen)

Spec == Init /\ [][Next]_vars /\ Fairness

(* ------------------------------ properties ------------------------------ *)

RowType == [folder : {"inbox", "archive", "spam", "trash", "pending_approval"},
            status : {"unread", "read", "archived"}, starred : BOOLEAN]

\* Types of the page's state; checks and the open row are rows of the list.
TypeOK ==
    /\ \A m \in Msgs : row[m] # Undefined => row[m] \in RowType
    /\ socket \in {"connecting", "open", "retrying"} /\ pushed \in BOOLEAN
    /\ Key \in Keys /\ filter \in {"all", "unread", "starred"}
    /\ selected \subseteq FilteredThreads
    /\ active \in FilteredThreads \union {Undefined}
    /\ excused \subseteq Keys /\ recent \subseteq Msgs
    /\ arrived \in 0..MaxMsg /\ ops \in 0..MaxOps /\ faults \in 0..MaxFaults

Quiet == ~pushed /\ calls = {} /\ cache[Key].fetch = NoFetch

\* Once no request, mutation or push is under way, the list on screen is the
\* server's, whatever the order in which responses, invalidations and view
\* changes came, unless a broken socket, the socket closed by a change to or
\* from the pending page, a lost answer, or a response that overtook an
\* invalidation kept a change from this list.
SettledListIsCurrent == Quiet /\ Key \notin excused => cache[Key].data = ListMessages(Key)

\* "a fresh reply re-surfaces the row": a message that came after the user's
\* last act on its thread, and is in the fetched list, shows its row unread,
\* whatever overrides the tab collected for earlier messages of the thread.
FreshReplyResurfaces ==
    \A m \in recent \cap DOMAIN Rows :
        Rows[m].status = "unread" =>
            \E r \in Representatives(Rows) : SameThread(m, r) /\ RowStatus(r) = "unread"

\* The list ends up current for good, or excused.
EventuallyCurrent == <>[](Key \in excused \/ cache[Key].data = ListMessages(Key))
====
