------------------------------ MODULE InboxProofs ------------------------------
(***************************************************************************)
(* Proofs about Inbox, for any messages, threads, views, page size and     *)
(* bounds: the list on screen is the server's once nothing is under way,   *)
(* and a fresh reply shows its thread unread.                              *)
(***************************************************************************)
EXTENDS Inbox, FiniteSetTheorems, WellFoundedInduction, TLAPS

-----------------------------------------------------------------------------
(* The shapes of the queries and of the calls. *)

QueryShape(q) ==
    /\ q = [data |-> q.data, fresh |-> q.fresh, fetch |-> q.fetch] /\ q.fresh \in BOOLEAN
    /\ q.fetch = NoFetch \/ q.fetch = Asked \/ q.fetch = [state |-> "answered", data |-> q.fetch.data]
CallShape(c) ==
    c = [hook |-> c.hook, id |-> c.id, val |-> c.val, bulk |-> c.bulk, batch |-> c.batch,
         stage |-> c.stage]

Shapes ==
    /\ view \in Views /\ page \in Pages
    /\ cache = [k \in Keys |-> cache[k]] /\ \A k \in Keys : QueryShape(cache[k])
    /\ \A c \in calls : CallShape(c)

-----------------------------------------------------------------------------
(* The list is current. *)

\* Somebody will be told: a push is on its way, or a call that went through.
Due == pushed \/ \E c \in calls : c.stage = "done"

\* A list that is not excused has the server's rows, or will: its request is
\* still to be answered, the answer on its way is current, or a notification is
\* due.  A list nobody looks at may also be marked stale.
Current(k) ==
    \/ k \in excused \/ Due
    \/ cache[k].fetch = Asked
    \/ cache[k].fetch.state = "answered" /\ cache[k].fetch.data = ListMessages(k)
    \/ /\ cache[k].fetch = NoFetch
       /\ \/ cache[k].data = ListMessages(k)
          \/ k # Key /\ (~cache[k].fresh \/ cache[k].data = Undefined)

\* The inductive invariant of the lists.
ListInv == Shapes /\ \A k \in Keys : Current(k)

\* The list query reads the rows and nothing else.
LEMMA SameRowsSameList == ASSUME NEW k, row' = row PROVE ListMessages(k)' = ListMessages(k)
BY DEF ListMessages, InFolder

\* The three states of a request differ.
LEMMA FetchStates ==
    /\ NoFetch.state = "none" /\ Asked.state = "asked" /\ NoFetch # Asked
    /\ \A d : [state |-> "answered", data |-> d].state = "answered"
BY DEF NoFetch, Asked

\* The shown list is one of the keys.
LEMMA KeyIsKey == ASSUME Shapes PROVE Key \in Keys
BY DEF Shapes, Key, Keys

\* A refetch asks, unless the first request of the query is under way.
LEMMA RestartFacts ==
    ASSUME NEW q, QueryShape(q)
    PROVE  /\ QueryShape(Restart(q)) /\ Restart(q).data = q.data /\ Restart(q).fresh = q.fresh
           /\ \/ Restart(q).fetch = Asked
              \/ Restart(q) = q /\ q.fetch # NoFetch
<1>1. CASE q.data # Undefined \/ q.fetch = NoFetch
    <2> PICK p : p = [q EXCEPT !.fetch = Asked]
        OBVIOUS
    <2>1. QueryShape(p) /\ p.data = q.data /\ p.fresh = q.fresh /\ p.fetch = Asked
        BY DEF QueryShape
    <2> QED
        BY <1>1, <2>1 DEF Restart
<1>2. CASE ~(q.data # Undefined \/ q.fetch = NoFetch)
    BY <1>2 DEF Restart
<1> QED
    BY <1>1, <1>2

\* Clearing the mark of freshness.
LEMMA StaleFacts ==
    ASSUME NEW q, QueryShape(q), NEW b \in BOOLEAN
    PROVE  /\ QueryShape([q EXCEPT !.fresh = b]) /\ [q EXCEPT !.fresh = b].fresh = b
           /\ [q EXCEPT !.fresh = b].data = q.data /\ [q EXCEPT !.fresh = b].fetch = q.fetch
BY DEF QueryShape

\* Invalidating: whatever the lists were, each is asked for, stale, or current,
\* or it is excused.
LEMMA InvalidateKeeps ==
    ASSUME ListInv, Invalidate, UNCHANGED <<row, view, page>>, \A c \in calls' : CallShape(c)
    PROVE  ListInv'
<1>0. cache' = [k \in Keys |-> [IF k = Key THEN Restart(cache[k]) ELSE cache[k] EXCEPT !.fresh = FALSE]]
    BY DEF Invalidate
<1>1. ASSUME NEW k \in Keys
      PROVE  QueryShape(cache'[k]) /\ Current(k)'
    <2> PICK q : q = cache[k]
        OBVIOUS
    <2> PICK p : p = IF k = Key THEN Restart(q) ELSE q
        OBVIOUS
    <2> PICK n : n = cache'[k]
        OBVIOUS
    <2>1. QueryShape(q) /\ QueryShape(p)
        BY RestartFacts DEF ListInv, Shapes
    <2>2. n = [p EXCEPT !.fresh = FALSE]
        BY <1>0
    <2>3. QueryShape(n) /\ ~n.fresh /\ n.data = p.data /\ n.fetch = p.fetch
        BY <2>1, <2>2, StaleFacts
    <2>4. Key' = Key /\ ListMessages(k)' = ListMessages(k)
        BY SameRowsSameList DEF Key
    <2>5. k \in excused' \/ ~Behind(n, k)
        BY DEF Invalidate
    <2>6. CASE n.fetch = Asked
        BY <2>3, <2>6 DEF Current
    <2>7. CASE n.fetch = NoFetch
        <3>1. k # Key
            BY <2>1, <2>3, <2>7, RestartFacts, FetchStates
        <3> QED
            BY <2>3, <2>4, <2>7, <3>1 DEF Current
    <2>8. CASE n.fetch.state = "answered"
        BY <2>3, <2>4, <2>5, <2>8 DEF Current, Behind
    <2>9. \/ n.fetch = Asked \/ n.fetch = NoFetch \/ n.fetch.state = "answered"
        BY <2>3, FetchStates DEF QueryShape
    <2> QED
        BY <2>3, <2>6, <2>7, <2>8, <2>9
<1>2. \A k \in Keys : QueryShape(cache[k])'
    BY <1>1 DEF QueryShape, NoFetch, Asked
<1>3. Shapes'
    BY <1>0, <1>2 DEF ListInv, Shapes, CallShape
<1> QED
    BY <1>1, <1>3 DEF ListInv

\* A list that a step leaves alone stays as current as it was.
LEMMA LeftAlone ==
    ASSUME NEW k \in Keys, Current(k), UNCHANGED <<row, view, page>>, Due => Due',
           cache'[k] = cache[k], k \in excused => k \in excused'
    PROVE  Current(k)'
<1>1. Key' = Key /\ ListMessages(k)' = ListMessages(k)
    BY SameRowsSameList DEF Key
<1> QED
    BY <1>1 DEF Current, NoFetch, Asked

\* The queries keep their shapes when one of them takes a new value.
LEMMA ShapesOfOne ==
    ASSUME Shapes, NEW k \in Keys, NEW q, QueryShape(q), cache' = [cache EXCEPT ![k] = q],
           UNCHANGED <<view, page>>, \A c \in calls' : CallShape(c)
    PROVE  Shapes' /\ cache'[k] = q /\ \A j \in Keys \ {k} : cache'[j] = cache[j]
<1>1. cache'[k] = q /\ \A j \in Keys \ {k} : cache'[j] = cache[j]
    BY DEF Shapes
<1>2. \A j \in Keys : QueryShape(cache[j])'
    BY <1>1 DEF Shapes, QueryShape, NoFetch, Asked
<1>3. cache' = [j \in Keys |-> cache'[j]]
    BY DEF Shapes
<1> QED
    BY <1>1, <1>2, <1>3 DEF Shapes, CallShape

\* A step of one list.
LEMMA OneList ==
    ASSUME ListInv, NEW k \in Keys, NEW q, QueryShape(q), cache' = [cache EXCEPT ![k] = q],
           UNCHANGED <<row, view, page>>, Due => Due', \A c \in calls' : CallShape(c),
           excused \ {k} \subseteq excused', Current(k)'
    PROVE  ListInv'
<1>1. Shapes' /\ \A j \in Keys \ {k} : cache'[j] = cache[j]
    BY ShapesOfOne DEF ListInv
<1>2. ASSUME NEW j \in Keys PROVE Current(j)'
    <2>1. CASE j # k
        BY <1>1, <2>1, LeftAlone DEF ListInv
    <2> QED
        BY <2>1
<1> QED
    BY <1>1, <1>2 DEF ListInv

\* Refetching the shown list.
LEMMA RefetchKeeps ==
    ASSUME ListInv, Refetch, UNCHANGED <<row, view, page>>, Due => Due',
           \A c \in calls' : CallShape(c)
    PROVE  ListInv'
<1> PICK k : k = Key
    OBVIOUS
<1> PICK q : q = cache[k]
    OBVIOUS
<1> PICK p : p = Restart(q)
    OBVIOUS
<1>0. k \in Keys /\ QueryShape(q) /\ Current(k)
    BY KeyIsKey DEF ListInv, Shapes
<1>1. QueryShape(p) /\ (p.fetch = Asked \/ p = q)
    BY <1>0, RestartFacts
<1>2. cache' = [cache EXCEPT ![k] = p] /\ excused \ {k} \subseteq excused'
    BY DEF Refetch
<1>3. cache'[k] = p
    BY <1>0, <1>2 DEF ListInv, Shapes
<1>4. CASE p.fetch = Asked
    <2>1. Current(k)'
        BY <1>3, <1>4 DEF Current, Asked
    <2> QED
        BY <1>0, <1>1, <1>2, <2>1, OneList
<1>5. CASE p.fetch # Asked
    <2>1. cache'[k] = cache[k] /\ excused' = excused
        BY <1>1, <1>3, <1>5 DEF Refetch
    <2>2. Current(k)'
        BY <1>0, <2>1, LeftAlone
    <2> QED
        BY <1>0, <1>1, <1>2, <2>2, OneList
<1> QED
    BY <1>4, <1>5

\* The server answers a list request with the rows of this moment.
LEMMA ServeKeeps == ASSUME ListInv, NEW k \in Keys, Serve(k) PROVE ListInv'
<1> PICK q : q = cache[k]
    OBVIOUS
<1> PICK d : d = ListMessages(k)
    OBVIOUS
<1> PICK p : p = [q EXCEPT !.fetch = [state |-> "answered", data |-> d]]
    OBVIOUS
<1>0. QueryShape(q) /\ Shapes
    BY DEF ListInv, Shapes
<1>1. QueryShape(p) /\ p.fetch.state = "answered" /\ p.fetch.data = d
    BY <1>0 DEF QueryShape
<1>2. cache' = [cache EXCEPT ![k] = p]
    BY DEF Serve
<1>3. cache'[k] = p /\ UNCHANGED <<row, view, page, excused, pushed, calls>>
    BY <1>0, <1>2, ShapesOfOne DEF Serve, Shapes, ui
<1>4. Current(k)'
    BY <1>1, <1>3, SameRowsSameList DEF Current
<1>5. Due => Due'
    BY <1>3 DEF Due
<1> QED
    BY <1>0, <1>1, <1>2, <1>3, <1>4, <1>5, OneList DEF Shapes

\* The response lands.
LEMMA ArrivedKeeps == ASSUME ListInv, NEW k \in Keys, Arrived(k) PROVE ListInv'
<1> PICK q : q = cache[k]
    OBVIOUS
<1> PICK p : p = [data |-> q.fetch.data, fresh |-> TRUE, fetch |-> NoFetch]
    OBVIOUS
<1>0. QueryShape(q) /\ Shapes /\ Current(k) /\ q.fetch.state = "answered"
    BY DEF ListInv, Shapes, Arrived
<1>1. QueryShape(p) /\ p.fetch = NoFetch /\ p.data = q.fetch.data
    BY DEF QueryShape
<1>2. cache' = [cache EXCEPT ![k] = p]
    BY DEF Arrived
<1>3. cache'[k] = p /\ UNCHANGED <<row, view, page, excused, pushed, calls>>
    BY <1>0, <1>2 DEF Arrived, Shapes
<1>4. Due => Due'
    BY <1>3 DEF Due
<1>5. k \in excused \/ Due \/ q.fetch.data = ListMessages(k)
    BY <1>0, FetchStates DEF Current
<1>6. Current(k)'
    BY <1>1, <1>3, <1>4, <1>5, SameRowsSameList DEF Current, NoFetch
<1> QED
    BY <1>0, <1>1, <1>2, <1>3, <1>4, <1>6, OneList DEF Shapes

\* A list request fails.
LEMMA ListFailsKeeps == ASSUME ListInv, NEW k \in Keys, ListFails(k) PROVE ListInv'
<1> PICK q : q = cache[k]
    OBVIOUS
<1> PICK p : p = [q EXCEPT !.fetch = NoFetch, !.fresh = FALSE]
    OBVIOUS
<1>0. QueryShape(q) /\ Shapes
    BY DEF ListInv, Shapes
<1>1. QueryShape(p)
    BY <1>0 DEF QueryShape
<1>2. cache' = [cache EXCEPT ![k] = p]
    BY <1>0 DEF ListFails, Shapes, QueryShape
<1>3. UNCHANGED <<row, view, page, pushed, calls>> /\ excused' = excused \union {k}
    BY DEF ListFails, ui
<1>4. Current(k)'
    BY <1>3 DEF Current
<1>5. Due => Due'
    BY <1>3 DEF Due
<1> QED
    BY <1>0, <1>1, <1>2, <1>3, <1>4, <1>5, OneList DEF Shapes

\* A step that leaves the rows and the queries alone and takes back no
\* notification.
LEMMA ListsAlone ==
    ASSUME ListInv, UNCHANGED <<row, view, page, cache>>, Due => Due', excused \subseteq excused',
           \A c \in calls' : CallShape(c)
    PROVE  ListInv'
<1>1. Shapes'
    BY DEF ListInv, Shapes, QueryShape, CallShape, NoFetch, Asked
<1>2. ASSUME NEW k \in Keys PROVE Current(k)'
    BY LeftAlone DEF ListInv
<1> QED
    BY <1>1, <1>2 DEF ListInv

\* A step that leaves no list to be told: what is not asked for is excused.
LEMMA AllExcused ==
    ASSUME ListInv, UNCHANGED <<view, page, cache>>, \A c \in calls' : CallShape(c),
           \A k \in Keys : cache[k].fetch # Asked => k \in excused'
    PROVE  ListInv'
<1>1. Shapes'
    BY DEF ListInv, Shapes, QueryShape, CallShape, NoFetch, Asked
<1>2. ASSUME NEW k \in Keys PROVE Current(k)'
    BY DEF Current, Asked
<1> QED
    BY <1>1, <1>2 DEF ListInv

\* A step after which a notification is due.
LEMMA NowDue ==
    ASSUME ListInv, UNCHANGED <<view, page, cache>>, \A c \in calls' : CallShape(c), Due'
    PROVE  ListInv'
<1>1. Shapes'
    BY DEF ListInv, Shapes, QueryShape, CallShape, NoFetch, Asked
<1>2. ASSUME NEW k \in Keys PROVE Current(k)'
    BY DEF Current
<1> QED
    BY <1>1, <1>2 DEF ListInv

\* A call that moves to another stage keeps its shape.
LEMMA StagedCall ==
    ASSUME ListInv, NEW c \in calls, NEW s, calls' = (calls \ {c}) \union {[c EXCEPT !.stage = s]}
    PROVE  /\ \A d \in calls' : CallShape(d)
           /\ \E d \in calls' : d.stage = s
           /\ c.stage # "done" => (Due /\ pushed' = pushed => Due')
<1> PICK e : e = [c EXCEPT !.stage = s]
    OBVIOUS
<1>1. CallShape(c) /\ \A d \in calls : CallShape(d)
    BY DEF ListInv, Shapes
<1>2. CallShape(e) /\ e.stage = s
    BY <1>1 DEF CallShape
<1>3. calls' = (calls \ {c}) \union {e}
    OBVIOUS
<1>4. ASSUME c.stage # "done", Due, pushed' = pushed PROVE Due'
    BY <1>3, <1>4 DEF Due
<1> QED
    BY <1>1, <1>2, <1>3, <1>4

\* Clicks that start calls.
LEMMA StartKeeps ==
    ASSUME ListInv, NEW cs, \A c \in cs : CallShape(c), Start(cs),
           UNCHANGED <<row, view, page, cache, pushed, excused>>
    PROVE  ListInv'
<1>1. calls' = calls \union cs
    BY DEF Start
<1>2. \A c \in calls' : CallShape(c)
    BY <1>1 DEF ListInv, Shapes
<1>3. Due => Due'
    BY <1>1 DEF Due
<1> QED
    BY <1>2, <1>3, ListsAlone

\* The calls that the clicks start have the shape of a call.
LEMMA CallHasShape == ASSUME NEW h, NEW m, NEW v, NEW b PROVE CallShape(Call(h, m, v, b))
BY DEF CallShape, Call

LEMMA MailKeeps ==
    ASSUME ListInv, NEW m \in Msgs, NEW f, Arrive(m, f)
    PROVE  ListInv'
<1>0. UNCHANGED <<view, page, cache, calls>> /\ \A c \in calls' : CallShape(c)
    BY DEF Arrive, ui, ListInv, Shapes
<1>1. CASE socket = "open"
    <2>1. Due'
        BY <1>1 DEF Arrive, Due
    <2> QED
        BY <1>0, <2>1, NowDue
<1>2. CASE socket # "open"
    <2>1. \A k \in Keys : cache[k].fetch # Asked => k \in excused'
        BY <1>2 DEF Arrive
    <2> QED
        BY <1>0, <2>1, AllExcused
<1> QED
    BY <1>1, <1>2

LEMMA PushKeeps == ASSUME ListInv, Push PROVE ListInv'
<1>1. Invalidate /\ UNCHANGED <<row, view, page>> /\ \A c \in calls' : CallShape(c)
    BY DEF Push, ui, ListInv, Shapes
<1> QED
    BY <1>1, InvalidateKeeps

LEMMA SocketKeeps == ASSUME ListInv, SocketOpen \/ SocketClose PROVE ListInv'
<1>0. UNCHANGED <<row, view, page, cache, calls>> /\ \A c \in calls' : CallShape(c)
    BY DEF SocketOpen, SocketClose, ui, ListInv, Shapes
<1>1. CASE SocketClose /\ pushed
    <2>1. \A k \in Keys : cache[k].fetch # Asked => k \in excused'
        BY <1>1 DEF SocketClose, Missed
    <2> QED
        BY <1>0, <2>1, AllExcused
<1>2. CASE ~(SocketClose /\ pushed)
    <2>1. excused' = excused /\ (Due => Due')
        BY <1>0, <1>2 DEF SocketOpen, SocketClose, Due, Missed
    <2> QED
        BY <1>0, <2>1, ListsAlone
<1> QED
    BY <1>1, <1>2

LEMMA ApplyKeeps == ASSUME ListInv, NEW c \in calls, Apply(c) PROVE ListInv'
<1>0. UNCHANGED <<view, page, cache, pushed, excused>> /\ c.stage = "sent"
    BY DEF Apply, ui
<1>1. CASE row[c.id] # Undefined
    <2>1. calls' = (calls \ {c}) \union {[c EXCEPT !.stage = "done"]}
        BY <1>1 DEF Apply
    <2>2. (\A d \in calls' : CallShape(d)) /\ \E d \in calls' : d.stage = "done"
        BY <2>1, StagedCall
    <2>3. Due'
        BY <2>2 DEF Due
    <2> QED
        BY <1>0, <2>2, <2>3, NowDue
<1>2. CASE row[c.id] = Undefined
    <2>1. calls' = (calls \ {c}) \union {[c EXCEPT !.stage = "failed"]} /\ row' = row
        BY <1>2 DEF Apply
    <2>2. (\A d \in calls' : CallShape(d)) /\ (Due => Due')
        BY <1>0, <2>1, StagedCall
    <2> QED
        BY <1>0, <2>1, <2>2, ListsAlone
<1> QED
    BY <1>1, <1>2

LEMMA LoseKeeps == ASSUME ListInv, NEW c \in calls, Lose(c) PROVE ListInv'
<1>0. UNCHANGED <<row, view, page, cache, pushed>>
    BY DEF Lose, ui
<1>1. calls' = (calls \ {c}) \union {[c EXCEPT !.stage = "failed"]}
    BY DEF Lose
<1>2. (\A d \in calls' : CallShape(d)) /\ (c.stage # "done" => (Due => Due'))
    BY <1>0, <1>1, StagedCall
<1>3. CASE c.stage = "done"
    <2>1. \A k \in Keys : cache[k].fetch # Asked => k \in excused'
        BY <1>3 DEF Lose
    <2> QED
        BY <1>0, <1>2, <2>1, AllExcused
<1>4. CASE c.stage # "done"
    <2>1. excused' = excused
        BY <1>4 DEF Lose
    <2> QED
        BY <1>0, <1>2, <1>4, <2>1, ListsAlone
<1> QED
    BY <1>3, <1>4

LEMMA SettleKeeps == ASSUME ListInv, NEW c \in calls, Settle(c) PROVE ListInv'
<1>0. UNCHANGED <<row, view, page, pushed>> /\ calls' = calls \ {c}
    BY DEF Settle, ui
<1>1. \A d \in calls' : CallShape(d)
    BY <1>0 DEF ListInv, Shapes
<1>2. CASE Invalidate
    BY <1>0, <1>1, <1>2, InvalidateKeeps
<1>3. CASE c.stage # "done"
    <2>1. Due => Due'
        BY <1>0, <1>3 DEF Due
    <2>2. CASE Refetch
        BY <1>0, <1>1, <2>1, <2>2, RefetchKeeps
    <2>3. CASE UNCHANGED <<cache, excused>>
        BY <1>0, <1>1, <2>1, <2>3, ListsAlone
    <2> QED
        BY <1>3, <2>2, <2>3 DEF Settle
<1> QED
    BY <1>2, <1>3 DEF Settle

LEMMA RefreshKeeps == ASSUME ListInv, Refresh PROVE ListInv'
<1>0. UNCHANGED <<row, view, page, pushed, calls>> /\ \A d \in calls' : CallShape(d)
    BY DEF Refresh, ui, ListInv, Shapes
<1>1. Due => Due'
    BY <1>0 DEF Due
<1>2. CASE Invalidate
    BY <1>0, <1>2, InvalidateKeeps
<1>3. CASE Refetch
    BY <1>0, <1>1, <1>3, RefetchKeeps
<1> QED
    BY <1>2, <1>3 DEF Refresh

\* Another list is shown: unless its request is under way, it is asked for when
\* it is stale or was never fetched.
LEMMA ShowKeeps ==
    ASSUME ListInv, NEW ks, NEW old, NEW untold, Show(ks, old, untold),
           excused \subseteq untold, UNCHANGED <<row, calls>>,
           (pushed => pushed') \/ \A k \in Keys : cache[k].fetch # Asked => k \in untold,
           view' \in Views, page' \in Pages, Key' \in ks
    PROVE  ListInv'
<1>0. cache' = [k \in Keys |->
         IF /\ k \in ks /\ cache[k].fetch = NoFetch
            /\ cache[k].data = Undefined \/ ~cache[k].fresh \/ old
         THEN [cache[k] EXCEPT !.fetch = Asked] ELSE cache[k]]
    BY DEF Show
<1>1. (Due => Due') \/ \A k \in Keys : cache[k].fetch # Asked => k \in untold
    BY DEF Due
<1>2. ASSUME NEW k \in Keys
      PROVE  QueryShape(cache'[k]) /\ Current(k)'
    <2> PICK q : q = cache[k]
        OBVIOUS
    <2> PICK p : p = [q EXCEPT !.fetch = Asked]
        OBVIOUS
    <2>1. QueryShape(q) /\ Current(k)
        BY DEF ListInv, Shapes
    <2>2. QueryShape(p) /\ p.fetch = Asked
        BY <2>1 DEF QueryShape
    <2>3. ListMessages(k)' = ListMessages(k)
        BY SameRowsSameList
    <2>4. CASE cache'[k].fetch = Asked
        <3>1. cache'[k] = p \/ cache'[k] = q
            BY <1>0
        <3> QED
            BY <2>1, <2>2, <2>4, <3>1 DEF Current, Asked
    <2>5. CASE cache'[k].fetch # Asked
        <3>1. /\ cache'[k] = q
              /\ k \in ks /\ q.fetch = NoFetch => q.data # Undefined /\ q.fresh
            BY <1>0, <2>2, <2>5
        <3>2. k \in untold => k \in excused'
            BY <2>5 DEF Show
        <3>3. CASE k \in excused \/ Due
            BY <1>1, <2>1, <2>5, <3>1, <3>2, <3>3 DEF Current
        <3>4. CASE q.fetch.state = "answered" /\ q.fetch.data = ListMessages(k)
            BY <2>1, <2>3, <3>1, <3>4 DEF Current
        <3>5. CASE q.fetch = NoFetch /\ q.data = ListMessages(k)
            BY <2>1, <2>3, <3>1, <3>5 DEF Current, NoFetch
        <3>6. CASE q.fetch = NoFetch /\ (~q.fresh \/ q.data = Undefined)
            <4>1. k # Key'
                BY <3>1, <3>6
            <4> QED
                BY <2>1, <3>1, <3>6, <4>1 DEF Current, NoFetch
        <3> QED
            BY <2>1, <2>5, <3>1, <3>3, <3>4, <3>5, <3>6 DEF Current
    <2> QED
        BY <2>4, <2>5
<1>3. \A k \in Keys : QueryShape(cache[k])'
    BY <1>2 DEF QueryShape, NoFetch, Asked
<1>4. Shapes'
    BY <1>0, <1>3 DEF ListInv, Shapes, CallShape
<1> QED
    BY <1>2, <1>4 DEF ListInv

LEMMA ChangeKeeps ==
    ASSUME ListInv, \/ \E v \in Views, old \in BOOLEAN : ChangeView(v, old)
                    \/ \E p \in Pages, old \in BOOLEAN : ChangePage(p, old)
    PROVE  ListInv'
<1>1. ASSUME NEW v \in Views, NEW old \in BOOLEAN, ChangeView(v, old) PROVE ListInv'
    <2>1. view' = v /\ page' = 1 /\ 1 \in Pages /\ UNCHANGED <<row, calls>>
        BY <1>1, InboxAssumption DEF ChangeView
    <2>2. Key' = <<v, 1>>
        BY <2>1 DEF Key
    <2>3. CASE OnDashboard /\ v # "pending_approval"
        <3>1. PICK ks : Show(ks, old, excused) /\ <<v, 1>> \in ks
            BY <1>1, <2>3 DEF ChangeView
        <3>2. pushed' = pushed
            BY <1>1, <2>3 DEF ChangeView
        <3> QED
            BY <2>1, <2>2, <3>1, <3>2, ShowKeeps
    <2>4. CASE ~(OnDashboard /\ v # "pending_approval")
        <3>1. Show({<<v, 1>>}, old, excused \union Missed) /\ pushed' = FALSE
            BY <1>1, <2>4 DEF ChangeView
        <3>2. CASE pushed
            <4>1. \A k \in Keys : cache[k].fetch # Asked => k \in excused \union Missed
                BY <3>2 DEF Missed
            <4> QED
                BY <2>1, <2>2, <3>1, <4>1, ShowKeeps
        <3>3. CASE ~pushed
            BY <2>1, <2>2, <3>1, <3>3, ShowKeeps
        <3> QED
            BY <3>2, <3>3
    <2> QED
        BY <2>3, <2>4
<1>2. ASSUME NEW p \in Pages, NEW old \in BOOLEAN, ChangePage(p, old) PROVE ListInv'
    <2>1. view' = view /\ page' = p /\ UNCHANGED <<row, pushed, calls>> /\ view \in Views
        BY <1>2 DEF ChangePage, ListInv, Shapes
    <2>2. Key' = <<view, p>>
        BY <2>1 DEF Key
    <2>3. PICK ks : Show(ks, old, excused) /\ <<view, p>> \in ks
        BY <1>2 DEF ChangePage
    <2> QED
        BY <2>1, <2>2, <2>3, ShowKeeps
<1> QED
    BY <1>1, <1>2

\* A step of the selection and the filter.
LEMMA QuietClickKeeps ==
    ASSUME ListInv, UNCHANGED <<row, view, page, cache, pushed, calls, excused>>
    PROVE  ListInv'
<1>1. Due => Due'
    BY DEF Due
<1>2. \A c \in calls' : CallShape(c)
    BY DEF ListInv, Shapes
<1> QED
    BY <1>1, <1>2, ListsAlone

LEMMA OpenKeeps == ASSUME ListInv, NEW m \in Msgs, OpenThread(m) PROVE ListInv'
<1>0. UNCHANGED <<row, view, page, cache, pushed, excused>>
    BY DEF OpenThread
<1>1. CASE Start({Call("status", m, "read", FALSE)})
    BY <1>0, <1>1, CallHasShape, StartKeeps
<1>2. CASE calls' = calls
    BY <1>0, <1>2, QuietClickKeeps
<1> QED
    BY <1>1, <1>2 DEF OpenThread

LEMMA StarKeeps == ASSUME ListInv, NEW ids, NEW on, Star(ids, on) PROVE ListInv'
<1>0. UNCHANGED <<row, view, page, cache, pushed, excused>>
    BY DEF Star
<1>1. PICK cs : cs = {Call("flags", m, on, FALSE) : m \in ids}
    OBVIOUS
<1>2. Start(cs) /\ \A c \in cs : CallShape(c)
    BY <1>1, CallHasShape DEF Star
<1> QED
    BY <1>0, <1>2, StartKeeps

LEMMA BulkKeeps == ASSUME ListInv, NEW h, NEW v, NEW shown, Bulk(h, v, shown) PROVE ListInv'
<1>0. UNCHANGED <<row, view, page, cache, pushed, excused>>
    BY DEF Bulk
<1>1. PICK cs : cs = {Call(h, m, v, TRUE) : m \in Targets}
    OBVIOUS
<1>2. Start(cs) /\ \A c \in cs : CallShape(c)
    BY <1>1, CallHasShape DEF Bulk
<1> QED
    BY <1>0, <1>2, StartKeeps

LEMMA DecideKeeps == ASSUME ListInv, NEW m, NEW f, Decide(m, f) PROVE ListInv'
<1>0. UNCHANGED <<row, view, page, cache, pushed, excused>>
    BY DEF Decide, ui
<1>1. Start({Call("flags", m, f, FALSE)})
    BY DEF Decide
<1> QED
    BY <1>0, <1>1, CallHasShape, StartKeeps

\* Every click of the user.
LEMMA UserKeeps == ASSUME ListInv, User PROVE ListInv'
<1>1. ASSUME NEW m \in Msgs, ToggleSelect(m) PROVE ListInv'
    BY <1>1, QuietClickKeeps DEF ToggleSelect
<1>2. ASSUME ToggleSelectAll PROVE ListInv'
    BY <1>2, QuietClickKeeps DEF ToggleSelectAll
<1>3. ASSUME NEW f, SetFilter(f) PROVE ListInv'
    BY <1>3, QuietClickKeeps DEF SetFilter
<1>4. ASSUME NEW m \in Msgs, ToggleStar(m) PROVE ListInv'
    <2>1. \E on : Star({m}, on)
        BY <1>4 DEF ToggleStar
    <2> QED
        BY <2>1, StarKeeps
<1>5. ASSUME NEW on, BulkSetStar(on) PROVE ListInv'
    BY <1>5, StarKeeps DEF BulkSetStar
<1>6. ASSUME \E s : BulkUpdateStatus(s) \/ BulkMoveToFolder(s) PROVE ListInv'
    BY <1>6, BulkKeeps DEF BulkUpdateStatus, BulkMoveToFolder
<1>7. ASSUME BulkRestoreToInbox \/ BulkDeleteForever PROVE ListInv'
    BY <1>7, BulkKeeps DEF BulkRestoreToInbox, BulkDeleteForever
<1>8. ASSUME NEW m, NEW f, Decide(m, f) PROVE ListInv'
    BY <1>8, DecideKeeps
<1> QED
    BY <1>1, <1>2, <1>3, <1>4, <1>5, <1>6, <1>7, <1>8, OpenKeeps, ChangeKeeps, RefreshKeeps DEF User

LEMMA ListStep == ASSUME ListInv, [Next]_vars PROVE ListInv'
<1>1. CASE UNCHANGED vars
    BY <1>1, QuietClickKeeps DEF vars
<1>2. CASE Machine
    BY <1>2, ServeKeeps, ArrivedKeeps, ApplyKeeps, SettleKeeps, PushKeeps, SocketKeeps DEF Machine
<1>3. CASE Environment
    BY <1>3, MailKeeps, ListFailsKeeps, LoseKeeps, SocketKeeps DEF Environment
<1> QED
    BY <1>1, <1>2, <1>3, UserKeeps DEF Next

LEMMA ListInit == ASSUME Init PROVE ListInv
<1>1. view \in Views /\ page \in Pages /\ calls = {}
    BY InboxAssumption DEF Init
<1> PICK a : a = [NoQuery EXCEPT !.fetch = Asked]
    OBVIOUS
<1>2. cache = [k \in Keys |-> IF k = Key THEN a ELSE NoQuery]
    BY DEF Init
<1>3. QueryShape(a) /\ a.fetch = Asked
    BY DEF QueryShape, NoQuery
<1>4. QueryShape(NoQuery) /\ NoQuery.fetch = NoFetch /\ NoQuery.data = Undefined
    BY DEF QueryShape, NoQuery
<1>5. \A k \in Keys : QueryShape(cache[k])
    BY <1>2, <1>3, <1>4
<1>6. \A k \in Keys : Current(k)
    BY <1>2, <1>3, <1>4 DEF Current
<1> QED
    BY <1>1, <1>2, <1>5, <1>6 DEF ListInv, Shapes

\* Once no request, mutation or push is under way, the list on screen is the
\* server's, unless something kept a change from it: whatever the order in
\* which responses, invalidations, clicks and view changes came.
THEOREM QuietListIsCurrent == Spec => []SettledListIsCurrent
<1>1. Init => ListInv
    BY ListInit
<1>2. ListInv /\ [Next]_vars => ListInv'
    BY ListStep
<1>3. ListInv => SettledListIsCurrent
    <2> SUFFICES ASSUME ListInv, Quiet, Key \notin excused PROVE cache[Key].data = ListMessages(Key)
        BY DEF SettledListIsCurrent
    <2>1. Key \in Keys /\ cache[Key].fetch = NoFetch /\ ~Due
        BY KeyIsKey DEF Quiet, ListInv, Due
    <2> QED
        BY <2>1, FetchStates DEF ListInv, Current
<1> QED
    BY <1>1, <1>2, <1>3, PTL DEF Spec

-----------------------------------------------------------------------------
(* Fresh replies. *)

\* The messages that came so far.
Past == {m \in Msgs : m <= arrived}

\* A list names messages that came, and so does the one on its way.
KnownData(d) == d # Undefined => DOMAIN d.rows \subseteq Past
Known(q) == KnownData(q.data) /\ (q.fetch.state = "answered" => KnownData(q.fetch.data))

Mailbox ==
    /\ arrived \in Nat /\ row = [m \in Msgs |-> row[m]]
    /\ \A m \in Msgs : row[m] # Undefined => m \in Past

\* Overrides are for messages that came, and none is for a message as new as one
\* that the user has not acted upon since, in its thread.
Overrides ==
    /\ recent \subseteq Msgs /\ localStatus = [m \in Msgs |-> localStatus[m]]
    /\ \A n \in Msgs : n > arrived => localStatus[n] = Undefined
    /\ \A m \in recent : \A n \in Msgs : SameThread(m, n) /\ n >= m => localStatus[n] = Undefined

\* The inductive invariant of the fresh replies, beside ListInv.
FreshInv == Mailbox /\ Overrides /\ \A k \in Keys : Known(cache[k])

\* Two messages of a thread are of the thread of any third of it.
LEMMA ThreadFacts ==
    /\ \A m : SameThread(m, m)
    /\ \A m, n : SameThread(m, n) => SameThread(n, m)
    /\ \A m, n, o : SameThread(m, n) /\ SameThread(n, o) => SameThread(m, o)
BY DEF SameThread

\* The rows the server lists came.
LEMMA ListedCame ==
    ASSUME Mailbox, NEW k PROVE KnownData(ListMessages(k))
<1> PICK all : all = {m \in Msgs : row[m] # Undefined /\ InFolder(row[m], k[1])}
    OBVIOUS
<1> DEFINE some == {m \in all : Cardinality({n \in all : n > m})
                                    \in (k[2] - 1) * PerPage .. k[2] * PerPage - 1}
<1>1. ListMessages(k).rows = [m \in some |-> row[m]]
    BY DEF ListMessages
<1>2. DOMAIN ListMessages(k).rows \subseteq all
    BY <1>1
<1>3. all \subseteq Past
    BY DEF Mailbox
<1> QED
    BY <1>2, <1>3 DEF KnownData

\* The rows on screen came.
LEMMA ShownCame == ASSUME Shapes, FreshInv PROVE DOMAIN Rows \subseteq Past
<1>1. Known(cache[Key])
    BY KeyIsKey DEF FreshInv
<1> QED
    BY <1>1 DEF Rows, Known, KnownData

LEMMA ThreadsCame ==
    ASSUME Shapes, FreshInv PROVE FilteredThreads \subseteq Past /\ Targets \subseteq Past
BY ShownCame DEF FilteredThreads, Representatives, Targets

\* What a request may bring a list to.
CacheMove ==
    \A k \in Keys :
        /\ \/ cache'[k].data = cache[k].data
           \/ cache[k].fetch.state = "answered" /\ cache'[k].data = cache[k].fetch.data
        /\ \/ cache'[k].fetch.state # "answered"
           \/ cache'[k].fetch = cache[k].fetch
           \/ cache'[k].fetch.data = ListMessages(k)

LEMMA MoveKnown ==
    ASSUME FreshInv, CacheMove, UNCHANGED arrived
    PROVE  (\A k \in Keys : Known(cache[k]))'
<1>1. Past' = Past
    BY DEF Past
<1>2. ASSUME NEW k \in Keys PROVE Known(cache'[k])
    <2>1. Known(cache[k]) /\ KnownData(ListMessages(k))
        BY ListedCame DEF FreshInv
    <2> QED
        BY <2>1 DEF CacheMove, Known
<1>3. \A k \in Keys : Known(cache[k])'
    BY <1>1, <1>2 DEF Known, KnownData
<1> QED
    BY <1>3

\* A step that moves the lists and leaves rows and overrides alone.
LEMMA MoveFresh ==
    ASSUME FreshInv, CacheMove, UNCHANGED <<row, arrived, localStatus, recent>>
    PROVE  FreshInv'
<1>1. (\A k \in Keys : Known(cache[k]))'
    BY MoveKnown
<1>2. Mailbox' /\ Overrides'
    BY DEF FreshInv, Mailbox, Overrides, Past, SameThread
<1> QED
    BY <1>1, <1>2 DEF FreshInv

LEMMA StayMoves == ASSUME UNCHANGED cache PROVE CacheMove
BY DEF CacheMove

LEMMA InvalidateMoves == ASSUME Shapes, Invalidate PROVE CacheMove
<1> SUFFICES ASSUME NEW k \in Keys
             PROVE  cache'[k].data = cache[k].data /\ (cache'[k].fetch = Asked \/ cache'[k].fetch = cache[k].fetch)
    BY FetchStates DEF CacheMove
<1> PICK q : q = cache[k]
    OBVIOUS
<1> PICK p : p = IF k = Key THEN Restart(q) ELSE q
    OBVIOUS
<1>1. cache'[k] = [p EXCEPT !.fresh = FALSE]
    BY DEF Invalidate
<1>2. QueryShape(p) /\ p.data = q.data /\ (p.fetch = Asked \/ p.fetch = q.fetch)
    BY RestartFacts DEF Shapes
<1> QED
    BY <1>1, <1>2, StaleFacts

LEMMA RefetchMoves == ASSUME Shapes, Refetch PROVE CacheMove
<1> SUFFICES ASSUME NEW k \in Keys
             PROVE  cache'[k].data = cache[k].data /\ (cache'[k].fetch = Asked \/ cache'[k].fetch = cache[k].fetch)
    BY FetchStates DEF CacheMove
<1> PICK q : q = cache[k]
    OBVIOUS
<1>1. cache'[k] = Restart(q) \/ cache'[k] = q
    BY DEF Refetch, Shapes
<1>2. QueryShape(q)
    BY DEF Shapes
<1> QED
    BY <1>1, <1>2, RestartFacts

LEMMA ShowMoves == ASSUME Shapes, NEW ks, NEW old, NEW u, Show(ks, old, u) PROVE CacheMove
<1> SUFFICES ASSUME NEW k \in Keys
             PROVE  cache'[k].data = cache[k].data /\ (cache'[k].fetch = Asked \/ cache'[k].fetch = cache[k].fetch)
    BY FetchStates DEF CacheMove
<1> PICK q : q = cache[k]
    OBVIOUS
<1> PICK p : p = [q EXCEPT !.fetch = Asked]
    OBVIOUS
<1>1. cache'[k] = p \/ cache'[k] = q
    BY DEF Show
<1>2. p.data = q.data /\ p.fetch = Asked
    BY DEF Shapes, QueryShape
<1> QED
    BY <1>1, <1>2

\* A request for a list is answered, lands, or fails.
LEMMA RequestMoves ==
    ASSUME Shapes, NEW k \in Keys, Serve(k) \/ Arrived(k) \/ ListFails(k) PROVE CacheMove
<1> PICK q : q = cache[k]
    OBVIOUS
<1> PICK n : n = cache'[k]
    OBVIOUS
<1>0. QueryShape(q)
    BY DEF Shapes
<1>1. \A j \in Keys : j # k => cache'[j] = cache[j]
    BY DEF Serve, Arrived, ListFails, Shapes
<1>2. CASE Serve(k)
    <2>1. n = [q EXCEPT !.fetch = [state |-> "answered", data |-> ListMessages(k)]]
        BY <1>2 DEF Serve, Shapes
    <2>2. n.data = q.data /\ n.fetch.data = ListMessages(k)
        BY <1>0, <2>1 DEF QueryShape
    <2> QED
        BY <1>1, <2>2 DEF CacheMove
<1>3. CASE Arrived(k)
    <2>1. n = [data |-> q.fetch.data, fresh |-> TRUE, fetch |-> NoFetch] /\ q.fetch.state = "answered"
        BY <1>3 DEF Arrived, Shapes
    <2>2. n.data = q.fetch.data /\ n.fetch = NoFetch
        BY <2>1
    <2> QED
        BY <1>1, <2>1, <2>2, FetchStates DEF CacheMove
<1>4. CASE ListFails(k)
    <2>1. n = [q EXCEPT !.fetch = NoFetch, !.fresh = FALSE]
        BY <1>0, <1>4 DEF ListFails, Shapes, QueryShape
    <2>2. n.data = q.data /\ n.fetch = NoFetch
        BY <1>0, <2>1 DEF QueryShape
    <2> QED
        BY <1>1, <2>2, FetchStates DEF CacheMove
<1> QED
    BY <1>2, <1>3, <1>4

\* The user's act on rows that came: their threads are no longer fresh.
LEMMA ActFresh ==
    ASSUME FreshInv, NEW ids, ids \subseteq Past, NEW status, Override(ids, status), Touch(ids),
           UNCHANGED <<row, arrived, cache>>
    PROVE  FreshInv'
<1>1. (\A k \in Keys : Known(cache[k]))' /\ Mailbox'
    BY StayMoves, MoveKnown DEF FreshInv, Mailbox, Past
<1>2. localStatus' = [m \in Msgs |-> localStatus'[m]]
    BY DEF Override
<1>3. \A n \in Msgs : n \notin ids => localStatus'[n] = localStatus[n]
    BY DEF Override
<1>4. recent' \subseteq recent /\ \A m \in recent', n \in ids : ~SameThread(m, n)
    BY DEF Touch
<1>5. ASSUME NEW n \in Msgs, n > arrived PROVE localStatus'[n] = Undefined
    <2>1. n \notin ids
        BY <1>1, <1>5 DEF Past, FreshInv, Mailbox, Msgs
    <2> QED
        BY <1>3, <1>5, <2>1 DEF FreshInv, Overrides
<1>6. ASSUME NEW m \in recent', NEW n \in Msgs, SameThread(m, n), n >= m
      PROVE  localStatus'[n] = Undefined
    BY <1>3, <1>4, <1>6 DEF FreshInv, Overrides
<1>7. Overrides'
    BY <1>2, <1>4, <1>5, <1>6 DEF FreshInv, Overrides, SameThread
<1> QED
    BY <1>1, <1>7 DEF FreshInv

\* Acts without an override.
LEMMA TouchFresh ==
    ASSUME FreshInv, recent' \subseteq recent, UNCHANGED <<row, arrived, cache, localStatus>>
    PROVE  FreshInv'
<1>1. (\A k \in Keys : Known(cache[k]))' /\ Mailbox'
    BY StayMoves, MoveKnown DEF FreshInv, Mailbox, Past
<1>2. Overrides'
    BY DEF FreshInv, Overrides, SameThread
<1> QED
    BY <1>1, <1>2 DEF FreshInv

\* A message comes, newer than every message with an override.
LEMMA MailFresh == ASSUME FreshInv, NEW m \in Msgs, NEW f, Arrive(m, f) PROVE FreshInv'
<1>0. m = arrived + 1 /\ arrived' = m /\ arrived \in Nat /\ recent' = recent \union {m}
    BY DEF Arrive, FreshInv, Mailbox
<1>1. UNCHANGED <<cache, localStatus>>
    BY DEF Arrive, ui
<1>2. Past \subseteq Past' /\ m \in Past'
    BY <1>0 DEF Past, Msgs
<1>3. Mailbox'
    <2>1. row' = [n \in Msgs |-> row'[n]] /\ \A n \in Msgs : n # m => row'[n] = row[n]
        BY DEF Arrive, FreshInv, Mailbox
    <2>2. \A n \in Msgs : row'[n] # Undefined => n \in Past'
        BY <1>2, <2>1 DEF FreshInv, Mailbox
    <2> QED
        BY <1>0, <2>1, <2>2 DEF Mailbox
<1>4. Overrides'
    <2>1. \A n \in Msgs : n > arrived' => localStatus[n] = Undefined
        BY <1>0 DEF FreshInv, Overrides, Msgs
    <2>2. \A n \in Msgs : n >= m => localStatus[n] = Undefined
        BY <1>0 DEF FreshInv, Overrides, Msgs
    <2>3. \A j \in recent', n \in Msgs : SameThread(j, n) /\ n >= j => localStatus[n] = Undefined
        BY <1>0, <2>2 DEF FreshInv, Overrides
    <2> QED
        BY <1>0, <1>1, <2>1, <2>3 DEF FreshInv, Overrides, SameThread
<1>5. ASSUME NEW k \in Keys PROVE Known(cache[k])'
    BY <1>1, <1>2 DEF FreshInv, Known, KnownData
<1> QED
    BY <1>3, <1>4, <1>5 DEF FreshInv

\* A call on a row: rows change and go, none comes.
LEMMA ApplyFresh == ASSUME FreshInv, NEW c \in calls, Apply(c) PROVE FreshInv'
<1>0. UNCHANGED <<arrived, cache, localStatus, recent>>
    BY DEF Apply, ui
<1>1. (\A k \in Keys : Known(cache[k]))'
    BY <1>0, StayMoves, MoveKnown
<1>2. Past' = Past
    BY <1>0 DEF Past
<1>3. /\ row' = [n \in Msgs |-> row'[n]]
      /\ \A n \in Msgs : row'[n] # Undefined => row[n] # Undefined
    BY DEF Apply, FreshInv, Mailbox
<1>4. Mailbox'
    BY <1>0, <1>2, <1>3 DEF FreshInv, Mailbox
<1>5. Overrides'
    BY <1>0 DEF FreshInv, Overrides, SameThread
<1> QED
    BY <1>1, <1>4, <1>5 DEF FreshInv

\* The pending page and back: the overrides are gone.
LEMMA ViewFresh ==
    ASSUME Shapes, FreshInv, NEW v \in Views, NEW old \in BOOLEAN, ChangeView(v, old)
    PROVE  FreshInv'
<1>0. UNCHANGED <<row, arrived, recent>>
    BY DEF ChangeView
<1>1. CacheMove
    BY ShowMoves DEF ChangeView
<1>2. CASE localStatus' = localStatus
    BY <1>0, <1>1, <1>2, MoveFresh
<1>3. CASE localStatus' = [m \in Msgs |-> Undefined]
    <2>1. Mailbox' /\ Overrides'
        BY <1>0, <1>3 DEF FreshInv, Mailbox, Overrides, Past, SameThread
    <2> QED
        BY <1>0, <1>1, <2>1, MoveKnown DEF FreshInv
<1> QED
    BY <1>2, <1>3 DEF ChangeView

LEMMA ActsFresh ==
    ASSUME Shapes, FreshInv,
           \/ \E m \in Msgs : OpenThread(m) \/ ToggleStar(m)
           \/ \E on : BulkSetStar(on)
           \/ \E h, v, s : Bulk(h, v, s)
           \/ \E m, f : Decide(m, f)
    PROVE  FreshInv'
<1>1. ASSUME NEW m \in Msgs, OpenThread(m) PROVE FreshInv'
    <2>1. {m} \subseteq Past
        BY <1>1, ThreadsCame DEF OpenThread
    <2>2. Touch({m}) /\ UNCHANGED <<row, arrived, cache>>
        BY <1>1 DEF OpenThread
    <2>3. CASE Override({m}, "read")
        BY <2>1, <2>2, <2>3, ActFresh
    <2>4. CASE localStatus' = localStatus
        BY <2>2, <2>4, TouchFresh DEF Touch
    <2> QED
        BY <1>1, <2>3, <2>4 DEF OpenThread
<1>2. ASSUME NEW ids, NEW on, Star(ids, on) PROVE FreshInv'
    BY <1>2, TouchFresh DEF Star, Touch
<1>3. ASSUME NEW h, NEW v, NEW s, Bulk(h, v, s) PROVE FreshInv'
    BY <1>3, ThreadsCame, ActFresh DEF Bulk
<1>4. ASSUME NEW m, NEW f, Decide(m, f) PROVE FreshInv'
    BY <1>4, TouchFresh DEF Decide, Touch, ui
<1> QED
    BY <1>1, <1>2, <1>3, <1>4 DEF ToggleStar, BulkSetStar

LEMMA UserFresh == ASSUME Shapes, FreshInv, User PROVE FreshInv'
<1>1. ASSUME UNCHANGED <<row, arrived, cache, localStatus, recent>> PROVE FreshInv'
    BY <1>1, StayMoves, MoveFresh
<1>2. ASSUME NEW m \in Msgs, ToggleSelect(m) PROVE FreshInv'
    BY <1>1, <1>2 DEF ToggleSelect
<1>3. ASSUME ToggleSelectAll PROVE FreshInv'
    BY <1>1, <1>3 DEF ToggleSelectAll
<1>4. ASSUME NEW f, SetFilter(f) PROVE FreshInv'
    BY <1>1, <1>4 DEF SetFilter
<1>5. ASSUME NEW s, BulkUpdateStatus(s) \/ BulkMoveToFolder(s) PROVE FreshInv'
    BY <1>5, ActsFresh DEF BulkUpdateStatus, BulkMoveToFolder
<1>6. ASSUME BulkRestoreToInbox \/ BulkDeleteForever PROVE FreshInv'
    BY <1>6, ActsFresh DEF BulkRestoreToInbox, BulkDeleteForever
<1>7. ASSUME NEW p, NEW old, ChangePage(p, old) PROVE FreshInv'
    <2>1. CacheMove /\ UNCHANGED <<row, arrived, localStatus, recent>>
        BY <1>7, ShowMoves DEF ChangePage
    <2> QED
        BY <2>1, MoveFresh
<1>8. ASSUME Refresh PROVE FreshInv'
    <2>1. CacheMove /\ UNCHANGED <<row, arrived, localStatus, recent>>
        BY <1>8, InvalidateMoves, RefetchMoves DEF Refresh, ui
    <2> QED
        BY <2>1, MoveFresh
<1> QED
    BY <1>2, <1>3, <1>4, <1>5, <1>6, <1>7, <1>8, ActsFresh, ViewFresh DEF User

LEMMA FreshStep == ASSUME Shapes, FreshInv, [Next]_vars PROVE FreshInv'
<1>0. ASSUME UNCHANGED <<row, arrived, cache, localStatus, recent>> PROVE FreshInv'
    BY <1>0, StayMoves, MoveFresh
<1>1. CASE UNCHANGED vars
    BY <1>0, <1>1 DEF vars
<1>2. ASSUME NEW k \in Keys, Serve(k) \/ Arrived(k) \/ ListFails(k) PROVE FreshInv'
    <2>1. UNCHANGED <<row, arrived, localStatus, recent>>
        BY <1>2 DEF Serve, Arrived, ListFails, ui
    <2> QED
        BY <1>2, <2>1, RequestMoves, MoveFresh
<1>3. ASSUME NEW c \in calls, Settle(c) PROVE FreshInv'
    <2>1. UNCHANGED <<row, arrived, localStatus, recent>>
        BY <1>3 DEF Settle, ui
    <2>2. CacheMove
        BY <1>3, InvalidateMoves, RefetchMoves, StayMoves DEF Settle
    <2> QED
        BY <2>1, <2>2, MoveFresh
<1>4. CASE Push
    <2>1. CacheMove /\ UNCHANGED <<row, arrived, localStatus, recent>>
        BY <1>4, InvalidateMoves DEF Push, ui
    <2> QED
        BY <2>1, MoveFresh
<1>5. CASE SocketOpen \/ SocketClose
    BY <1>0, <1>5 DEF SocketOpen, SocketClose, ui
<1>6. ASSUME NEW c \in calls, Lose(c) PROVE FreshInv'
    BY <1>0, <1>6 DEF Lose, ui
<1> QED
    BY <1>1, <1>2, <1>3, <1>4, <1>5, <1>6, ApplyFresh, MailFresh, UserFresh DEF Next, Machine, Environment

LEMMA FreshInit == ASSUME Init PROVE FreshInv
<1>1. PICK n \in 0..MaxMsg : /\ row \in [Msgs -> {row[m] : m \in Msgs}]
                             /\ \A m \in Msgs : row[m] # Undefined <=> m <= n
    BY InboxAssumption DEF Init
<1>2. MaxMsg \in Nat /\ n \in Nat
    BY InboxAssumption
<1>3. {m \in Msgs : row[m] # Undefined} = 1..n
    BY <1>1, <1>2 DEF Msgs
<1>4. Cardinality(1..n) = n
    BY <1>2, FS_Interval
<1>5. arrived = n
    BY <1>3, <1>4 DEF Init
<1>6. Mailbox
    BY <1>1, <1>2, <1>5 DEF Mailbox, Past
<1>7. Overrides
    BY DEF Init, Overrides
<1>8. ASSUME NEW k \in Keys PROVE Known(cache[k])
    <2>1. cache[k] = [NoQuery EXCEPT !.fetch = Asked] \/ cache[k] = NoQuery
        BY DEF Init
    <2>2. cache[k].data = Undefined /\ cache[k].fetch.state # "answered"
        BY <2>1, FetchStates DEF NoQuery
    <2> QED
        BY <2>2 DEF Known, KnownData
<1> QED
    BY <1>6, <1>7, <1>8 DEF FreshInv

\* A set of messages that is not empty has a newest one.
LEMMA Newest ==
    ASSUME NEW S, S # {}, S \subseteq Msgs
    PROVE  \E x \in S : \A y \in S : y <= x
<1>0. MaxMsg \in Nat
    BY InboxAssumption
<1>1. PICK R : R = OpToRel(<, Nat)
    BY Zenon
<1>2. IsWellFoundedOn(R, Nat)
    BY <1>1, NatLessThanWellFounded, Zenon
<1>3. PICK T : T = {MaxMsg - y : y \in S}
    OBVIOUS
<1>4. T \subseteq Nat /\ T # {}
    <2>1. PICK y : y \in S
        OBVIOUS
    <2>2. \A x \in S : MaxMsg - x \in Nat
        BY <1>0 DEF Msgs
    <2> QED
        BY <1>3, <2>1, <2>2
<1>5. PICK z \in T : \A y \in T : <<y, z>> \notin R
    BY <1>2, <1>4, WFMin
<1>6. PICK x \in S : z = MaxMsg - x
    BY <1>3
<1>7. ASSUME NEW y \in S PROVE y <= x
    <2>1. MaxMsg - y \in T /\ MaxMsg - y \in Nat /\ z \in Nat
        BY <1>3, <1>4
    <2>2. MaxMsg - y < z => <<MaxMsg - y, z>> \in R
        BY <1>1, <2>1 DEF OpToRel
    <2>3. ~(MaxMsg - y < z)
        BY <1>5, <2>1, <2>2
    <2> QED
        BY <1>0, <1>6, <2>3 DEF Msgs
<1> QED
    BY <1>7

\* A message that came after the user's last act on its thread, and is in the
\* fetched list as unread, shows its row unread, whatever overrides the tab
\* collected: the row is known by the newest message of the thread.
THEOREM FreshRepliesResurface == Spec => []FreshReplyResurfaces
<1>1. Init => ListInv /\ FreshInv
    BY ListInit, FreshInit
<1>2. ListInv /\ FreshInv /\ [Next]_vars => (ListInv /\ FreshInv)'
    BY ListStep, FreshStep DEF ListInv
<1>3. ListInv /\ FreshInv => FreshReplyResurfaces
    <2> SUFFICES ASSUME ListInv, FreshInv, NEW m \in recent \cap DOMAIN Rows, Rows[m].status = "unread"
                 PROVE  \E r \in Representatives(Rows) : SameThread(m, r) /\ RowStatus(r) = "unread"
        BY DEF FreshReplyResurfaces
    <2>1. DOMAIN Rows \subseteq Msgs
        BY ShownCame DEF ListInv, Past
    <2>2. m \in Group(Rows, m) /\ Group(Rows, m) \subseteq Msgs
        BY <2>1, ThreadFacts DEF Group
    <2>3. PICK r \in Group(Rows, m) : \A n \in Group(Rows, m) : n <= r
        BY <2>2, Newest
    <2>4. r \in Representatives(Rows)
        BY <2>3, ThreadFacts DEF Representatives, Group
    <2>5. localStatus[r] = Undefined
        BY <2>2, <2>3 DEF FreshInv, Overrides, Group, Msgs
    <2>6. SameThread(m, r) /\ m \in Group(Rows, r)
        BY <2>3, ThreadFacts DEF Group
    <2>7. RowStatus(r) = "unread"
        BY <2>5, <2>6 DEF RowStatus
    <2> QED
        BY <2>4, <2>6, <2>7
<1> QED
    BY <1>1, <1>2, <1>3, PTL DEF Spec
=============================================================================
