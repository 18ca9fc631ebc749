------------------------------- MODULE SessionProofs -------------------------------
(***************************************************************************)
(* Proofs about who may call the server: WebSession, for any number of     *)
(* tabs, users and sessions, and ReplayNonces, for any window, request     *)
(* timeout, clock resolution and number of proofs and requests.            *)
(***************************************************************************)
EXTENDS WebSession, ReplayNonces, WellFoundedInduction, TLAPS

-----------------------------------------------------------------------------
(***************************************************************************)
(* WebSession: a live session keeps its cookie, a confirmed logout is      *)
(* final, and a saved name is not asked for again.  The argument follows a *)
(* session from the answer that carries it: until that answer arrives no   *)
(* cookie and no logout names the session, so a logged-out one is never on *)
(* its way to the browser.                                                 *)
(***************************************************************************)

(* ------------------------- the inductive invariant ----------------------- *)

\* Pages, states of the widget, of requests and of sessions, messages.
Words == {"login", "app", "idkit", "off", "config", "open", "verifying",
          "none", "asked", "ok", "refused", "in", "out", "error", "down",
          "live", "stale", "expired", "revoked", "success", "cancelled"}
People == Users \union {Undefined}
Cookies == Ids \union {0}
Data == {Undefined} \union [user : People, named : BOOLEAN \union {Undefined}, row : BOOLEAN]
Asks(V) == [st : Words, sent : Cookies, value : V]

TabRec ==
    [page : Words, frame : BOOLEAN, widget : Words, verify : Asks(People), posts : SUBSET Words,
     leaving : BOOLEAN, data : Data, probe : Asks(Data), logout : Asks({Undefined}),
     patch : Asks(BOOLEAN \union {Undefined}), saved : People, mixed : BOOLEAN]

Types ==
    /\ session \in [Ids -> [user : People, st : Words]]
    /\ cookie \in Cookies /\ last \in Cookies /\ overlap \in BOOLEAN /\ out \in SUBSET Ids
    /\ tab \in [Tabs -> TabRec]

\* The session was issued.
Known(s) == s = 0 \/ session[s].st # "none"

\* The session of an answer on its way is nobody's yet.
PendingInv(t) ==
    LET s == tab[t].verify.sent IN
    tab[t].verify.st = "ok" =>
        /\ s # 0 /\ Known(s) /\ cookie # s /\ s \notin out
        /\ \A x \in Tabs : /\ tab[x].logout.sent # s
                           /\ x # t /\ tab[x].verify.st = "ok" => tab[x].verify.sent # s

\* A logout the API granted revoked its session.
LogoutInv(t) ==
    LET l == tab[t].logout IN
    Known(l.sent) /\ (l.st = "ok" => l.sent # 0 /\ session[l.sent].st = "revoked")

\* Without an overlap, every request in flight is of the live session.
KeptInv ==
    ~overlap /\ last # 0 /\ session[last].st = "live" =>
        /\ cookie = last
        /\ \A x \in Tabs : /\ tab[x].probe.st # "none" => tab[x].probe.sent = last /\ tab[x].probe.st # "out"
                           /\ tab[x].logout.st # "none" => tab[x].logout.sent = last

\* A saved name stands, and neither the data nor an answer on its way that has
\* read the users row denies it.
NameInv(t) ==
    tab[t].saved # Undefined /\ ~tab[t].mixed =>
        /\ tab[t].saved \in named
        /\ tab[t].data # Undefined /\ ~tab[t].data.named /\ tab[t].data.row => tab[t].data.user # tab[t].saved
        /\ tab[t].probe.st = "in" /\ ~tab[t].probe.value.named /\ tab[t].probe.value.row
              => tab[t].probe.value.user # tab[t].saved

PatchInv(t) ==
    LET p == tab[t].patch IN
    p.st = "ok" => /\ p.sent # 0 /\ Known(p.sent)
                   /\ p.value /\ ~tab[t].mixed => session[p.sent].user \in named

CookieInv == Types /\ Known(cookie) /\ Known(last) /\ LogoutIsFinal /\ \A t \in Tabs : PendingInv(t) /\ LogoutInv(t)
ProfileInv == \A t \in Tabs : NameInv(t) /\ PatchInv(t)
WInv == CookieInv /\ KeptInv /\ ProfileInv
(* ------------------------------ the tabs --------------------------------- *)

\* A request that was never sent, or is gone, is well typed.
LEMMA NoAskTyped ==
    ASSUME NEW V, Undefined \in V
    PROVE  NoAsk \in Asks(V) /\ NoAsk.st = "none" /\ NoAsk.sent = 0
<1>1. 0 \in Cookies
  BY DEF Cookies
<1>2. NoAsk \in Asks(V)
  BY <1>1 DEF NoAsk, Asks, Words
<1>3. NoAsk.st = "none" /\ NoAsk.sent = 0
  BY DEF NoAsk
<1> QED  BY <1>2, <1>3

\* Ask carries the cookie of the moment.
LEMMA AskTyped ==
    ASSUME NEW V, NEW v \in V, cookie \in Cookies
    PROVE  Ask(v) \in Asks(V) /\ Ask(v).st = "asked" /\ Ask(v).sent = cookie /\ Ask(v).value = v
<1>1. Ask(v) \in Asks(V)
  BY DEF Ask, Asks, Words
<1>2. Ask(v).st = "asked" /\ Ask(v).sent = cookie /\ Ask(v).value = v
  BY DEF Ask
<1> QED  BY <1>1, <1>2

\* A page just loaded has asked for nothing and saved nothing.
LEMMA FreshTyped ==
    ASSUME NEW p \in Words
    PROVE  /\ Fresh(p) \in TabRec /\ Fresh(p).page = p
           /\ Fresh(p).verify = NoAsk /\ Fresh(p).probe = NoAsk /\ Fresh(p).logout = NoAsk
           /\ Fresh(p).patch = NoAsk /\ Fresh(p).data = Undefined /\ Fresh(p).saved = Undefined
<1>1. NoAsk \in Asks(People) /\ NoAsk \in Asks(Data) /\ NoAsk \in Asks({Undefined})
      /\ NoAsk \in Asks(BOOLEAN \union {Undefined})
  BY NoAskTyped DEF People, Data
<1>2. Fresh(p) \in TabRec
  <2>1. Undefined \in Data /\ Undefined \in People
    BY DEF Data, People
  <2> QED  BY <1>1, <2>1 DEF Fresh, TabRec, Words
<1>3. /\ Fresh(p).page = p /\ Fresh(p).verify = NoAsk /\ Fresh(p).probe = NoAsk
      /\ Fresh(p).logout = NoAsk /\ Fresh(p).patch = NoAsk
      /\ Fresh(p).data = Undefined /\ Fresh(p).saved = Undefined
  BY DEF Fresh
<1> QED  BY <1>2, <1>3

\* Set replaces one tab.
LEMMA OneTab ==
    ASSUME tab \in [Tabs -> TabRec], NEW t \in Tabs, NEW r \in TabRec, Set(t, r)
    PROVE  tab' \in [Tabs -> TabRec] /\ tab'[t] = r /\ \A x \in Tabs \ {t} : tab'[x] = tab[x]
BY DEF Set

\* What the page itself does: it may send requests, drop them, or be loaded
\* anew; it takes no answer.  The middleware may clear a cookie it rejects.
PageMove(q, r) ==
    /\ r \in TabRec
    /\ r.verify = q.verify \/ r.verify.st # "ok"
    /\ r.probe \in {q.probe, NoAsk, Ask(Undefined)}
    /\ r.logout \in {q.logout, NoAsk, Ask(Undefined)}
    /\ \/ r.patch = q.patch /\ r.mixed = q.mixed
       \/ r.patch.st # "ok"
    /\ \/ r.saved = q.saved /\ r.data = q.data /\ r.mixed = q.mixed
       \/ r.saved = Undefined

PageStep(t) ==
    /\ \E r \in TabRec : PageMove(tab[t], r) /\ Set(t, r)
    /\ cookie' = cookie \/ (cookie' = 0 /\ ~Admitted)
    /\ UNCHANGED <<session, named, history>>

\* A load is such a move.
LEMMA FreshMoves ==
    ASSUME NEW q \in TabRec, NEW p \in Words
    PROVE  PageMove(q, Fresh(p))
<1>1. NoAsk.st = "none"
  BY NoAskTyped
<1> QED  BY <1>1, FreshTyped DEF PageMove

\* A change of the page's own state and of its sign-in is such a move.
LEMMA LocalMoves ==
    ASSUME NEW q \in TabRec, NEW r \in TabRec, r.verify = q.verify \/ r.verify.st # "ok",
           r.probe = q.probe, r.logout = q.logout, r.patch = q.patch,
           r.data = q.data, r.saved = q.saved, r.mixed = q.mixed
    PROVE  PageMove(q, r)
BY DEF PageMove

\* The frame's message is such a move, whatever the frame dropped before.
LEMMA PostMoves ==
    ASSUME NEW q \in TabRec, NEW r \in TabRec, NEW msg \in Words, PageMove(q, r)
    PROVE  /\ PageMove(q, Post(r, msg)) /\ Post(r, msg) \in TabRec
           /\ Post(r, msg).probe \in {r.probe, NoAsk} /\ Post(r, msg).logout \in {r.logout, NoAsk}
           /\ Post(r, msg).verify \in {r.verify, NoAsk}
<1>1. CASE r.page # "idkit"
  <2>1. PICK k : k = [r EXCEPT !.posts = @ \union {msg}]
    OBVIOUS
  <2>2. k \in TabRec
    BY <2>1 DEF TabRec
  <2>3. /\ k.verify = r.verify /\ k.probe = r.probe /\ k.logout = r.logout /\ k.patch = r.patch
        /\ k.data = r.data /\ k.saved = r.saved /\ k.mixed = r.mixed
    BY <2>1 DEF TabRec
  <2>4. Post(r, msg) = k
    BY <1>1, <2>1 DEF Post
  <2> QED  BY <2>2, <2>3, <2>4 DEF PageMove
<1>2. CASE r.page = "idkit" /\ msg = "success"
  <2>1. PICK k : k = [r EXCEPT !.leaving = TRUE]
    OBVIOUS
  <2>2. k \in TabRec
    BY <2>1 DEF TabRec
  <2>3. /\ k.verify = r.verify /\ k.probe = r.probe /\ k.logout = r.logout /\ k.patch = r.patch
        /\ k.data = r.data /\ k.saved = r.saved /\ k.mixed = r.mixed
    BY <2>1 DEF TabRec
  <2>4. Post(r, msg) = k
    BY <1>2, <2>1 DEF Post
  <2> QED  BY <2>2, <2>3, <2>4 DEF PageMove
<1>3. CASE r.page = "idkit" /\ msg # "success"
  <2>1. Post(r, msg) = Fresh("login")
    BY <1>3 DEF Post
  <2>2. /\ Fresh("login") \in TabRec /\ PageMove(q, Fresh("login"))
        /\ Fresh("login").probe = NoAsk /\ Fresh("login").logout = NoAsk /\ Fresh("login").verify = NoAsk
    BY FreshMoves, FreshTyped DEF Words
  <2> QED  BY <2>1, <2>2
<1> QED  BY <1>1, <1>2, <1>3

\* The middleware's step: it shows the page asked for or the login page.
LEMMA MiddlewareMoves ==
    ASSUME Types, NEW t \in Tabs, NEW q \in TabRec, PageMove(tab[t], q),
           q.probe \in {tab[t].probe, NoAsk}, Middleware(t, q)
    PROVE  /\ \E r \in TabRec : PageMove(tab[t], r) /\ Set(t, r)
           /\ cookie' = cookie \/ (cookie' = 0 /\ ~Admitted)
<1>1. CASE Admitted /\ Set(t, Mounted(q)) /\ UNCHANGED cookie
  <2>1. PICK a : a = (IF q.probe.st = "none" THEN Ask(Undefined) ELSE q.probe)
    OBVIOUS
  <2>2. a \in Asks(Data) /\ a \in {q.probe, Ask(Undefined)}
    <3>1. Ask(Undefined) \in Asks(Data)
      BY AskTyped DEF Types, Data
    <3>2. q.probe \in Asks(Data)
      BY DEF TabRec
    <3> QED  BY <2>1, <3>1, <3>2
  <2>3. PICK k : k = [q EXCEPT !.page = "app", !.probe = a]
    OBVIOUS
  <2>4. k \in TabRec
    BY <2>2, <2>3 DEF TabRec, Words
  <2>5. /\ k.verify = q.verify /\ k.probe = a /\ k.logout = q.logout /\ k.patch = q.patch
        /\ k.data = q.data /\ k.saved = q.saved /\ k.mixed = q.mixed
    BY <2>3 DEF TabRec
  <2>6. PageMove(tab[t], k)
    BY <2>2, <2>4, <2>5 DEF PageMove
  <2>7. Mounted(q) = k
    BY <2>1, <2>3 DEF Mounted
  <2> QED  BY <1>1, <2>4, <2>6, <2>7
<1>2. CASE ~Admitted /\ Set(t, [q EXCEPT !.page = "login"]) /\ cookie' \in {0, cookie}
  <2>1. PICK k : k = [q EXCEPT !.page = "login"]
    OBVIOUS
  <2>2. k \in TabRec
    BY <2>1 DEF TabRec, Words
  <2>3. /\ k.verify = q.verify /\ k.probe = q.probe /\ k.logout = q.logout /\ k.patch = q.patch
        /\ k.data = q.data /\ k.saved = q.saved /\ k.mixed = q.mixed
    BY <2>1 DEF TabRec
  <2>4. PageMove(tab[t], k)
    BY <2>2, <2>3 DEF PageMove
  <2> QED  BY <1>2, <2>1, <2>2, <2>4
<1> QED  BY <1>1, <1>2 DEF Middleware

\* What a page or its user does without an answer of the API.
PageAction(t) ==
    \/ Navigate(t) \/ Load(t) \/ OpenWidget(t) \/ ConfigArrives(t) \/ ConfigFails(t) \/ Dismiss(t)
    \/ CloseFrame(t) \/ (\E u \in Users : Approve(t, u)) \/ VerifyFails(t) \/ Deliver(t)
    \/ Logout(t) \/ SaveName(t)

\* Each of these actions is a step of the page.
LEMMA PageSteps ==
    ASSUME Types, NEW t \in Tabs, PageAction(t)
    PROVE  PageStep(t)
<1>1. PICK q : q = tab[t]
  OBVIOUS
<1>2. q \in TabRec
  BY <1>1 DEF Types
<1>3. /\ q.page \in Words /\ q.frame \in BOOLEAN /\ q.widget \in Words /\ q.posts \in SUBSET Words
      /\ q.verify \in Asks(People) /\ q.probe \in Asks(Data) /\ q.logout \in Asks({Undefined})
      /\ q.patch \in Asks(BOOLEAN \union {Undefined}) /\ q.leaving \in BOOLEAN
  BY <1>2 DEF TabRec
<1>4. PageMove(q, q)
  BY <1>2 DEF PageMove
<1>5. NoAsk \in Asks(People) /\ NoAsk.st = "none"
  BY NoAskTyped DEF People
<1>6. ASSUME NEW k \in TabRec, Set(t, k), UNCHANGED <<server, cookie, history>>,
             k.verify = q.verify \/ k.verify.st # "ok",
             k.probe = q.probe, k.logout = q.logout, k.patch = q.patch,
             k.data = q.data, k.saved = q.saved, k.mixed = q.mixed
      PROVE  PageStep(t)
  <2>1. PageMove(q, k)
    BY <1>2, <1>6, LocalMoves
  <2> QED  BY <1>1, <1>6, <2>1 DEF PageStep, server
<1>7. CASE Navigate(t)
  <2>1. Middleware(t, q)
    BY <1>1, <1>7 DEF Navigate
  <2> QED  BY <1>1, <1>2, <1>4, <1>7, <2>1, MiddlewareMoves DEF Navigate, PageStep, server
<1>8. CASE Load(t)
  <2>1. Middleware(t, Fresh("login"))
    BY <1>8 DEF Load
  <2>2. Fresh("login") \in TabRec /\ PageMove(q, Fresh("login")) /\ Fresh("login").probe = NoAsk
    BY <1>2, FreshTyped, FreshMoves DEF Words
  <2> QED  BY <1>1, <1>8, <2>1, <2>2, MiddlewareMoves DEF Load, PageStep, server
<1>9. CASE OpenWidget(t)
  <2>1. CASE Set(t, [q EXCEPT !.frame = TRUE, !.widget = "config"])
    <3>1. PICK k : k = [q EXCEPT !.frame = TRUE, !.widget = "config"]
      OBVIOUS
    <3>2. k \in TabRec
      BY <1>2, <3>1 DEF TabRec, Words
    <3>3. /\ k.verify = q.verify /\ k.probe = q.probe /\ k.logout = q.logout /\ k.patch = q.patch
          /\ k.data = q.data /\ k.saved = q.saved /\ k.mixed = q.mixed
      BY <1>2, <3>1 DEF TabRec
    <3> QED  BY <1>6, <1>9, <2>1, <3>1, <3>2, <3>3 DEF OpenWidget
  <2>2. CASE Set(t, [Fresh("idkit") EXCEPT !.widget = "config"])
    <3>1. PICK f : f = Fresh("idkit")
      OBVIOUS
    <3>2. f \in TabRec /\ PageMove(q, f)
      BY <1>2, <3>1, FreshTyped, FreshMoves DEF Words
    <3>3. PICK k : k = [f EXCEPT !.widget = "config"]
      OBVIOUS
    <3>4. k \in TabRec
      BY <3>2, <3>3 DEF TabRec, Words
    <3>5. /\ k.verify = f.verify /\ k.probe = f.probe /\ k.logout = f.logout /\ k.patch = f.patch
          /\ k.data = f.data /\ k.saved = f.saved /\ k.mixed = f.mixed
      BY <3>2, <3>3 DEF TabRec
    <3>6. PageMove(q, k)
      BY <3>2, <3>4, <3>5 DEF PageMove
    <3> QED  BY <1>1, <1>9, <2>2, <3>1, <3>3, <3>4, <3>6 DEF OpenWidget, PageStep, server
  <2> QED  BY <1>1, <1>9, <2>1, <2>2 DEF OpenWidget
<1>10. CASE ConfigArrives(t)
  <2>1. PICK k : k = [q EXCEPT !.widget = "open"]
    OBVIOUS
  <2>2. k \in TabRec
    BY <1>2, <2>1 DEF TabRec, Words
  <2>3. /\ k.verify = q.verify /\ k.probe = q.probe /\ k.logout = q.logout /\ k.patch = q.patch
        /\ k.data = q.data /\ k.saved = q.saved /\ k.mixed = q.mixed
    BY <1>2, <2>1 DEF TabRec
  <2> QED  BY <1>1, <1>6, <1>10, <2>1, <2>2, <2>3 DEF ConfigArrives
<1>11. CASE ConfigFails(t) \/ Dismiss(t)
  <2>1. PICK k : k = [q EXCEPT !.widget = "off"]
    OBVIOUS
  <2>2. k \in TabRec
    BY <1>2, <2>1 DEF TabRec, Words
  <2>3. /\ k.verify = q.verify /\ k.probe = q.probe /\ k.logout = q.logout /\ k.patch = q.patch
        /\ k.data = q.data /\ k.saved = q.saved /\ k.mixed = q.mixed
    BY <1>2, <2>1 DEF TabRec
  <2>4. PageMove(q, k)
    BY <1>2, <2>2, <2>3, LocalMoves
  <2>5. PICK msg \in Words : Set(t, Post(k, msg))
    BY <1>1, <1>11, <2>1 DEF ConfigFails, Dismiss, Words
  <2>6. Post(k, msg) \in TabRec /\ PageMove(q, Post(k, msg))
    BY <1>2, <2>2, <2>4, PostMoves
  <2> QED  BY <1>1, <1>11, <2>5, <2>6 DEF ConfigFails, Dismiss, PageStep, server
<1>12. CASE CloseFrame(t)
  <2>1. PICK k : k = [q EXCEPT !.frame = FALSE, !.widget = "off", !.verify = NoAsk, !.posts = {}]
    OBVIOUS
  <2>2. k \in TabRec
    BY <1>2, <1>5, <2>1 DEF TabRec, Words
  <2>3. /\ k.verify = NoAsk /\ k.probe = q.probe /\ k.logout = q.logout /\ k.patch = q.patch
        /\ k.data = q.data /\ k.saved = q.saved /\ k.mixed = q.mixed
    BY <1>2, <2>1 DEF TabRec
  <2> QED  BY <1>1, <1>5, <1>6, <1>12, <2>1, <2>2, <2>3 DEF CloseFrame
<1>13. CASE \E u \in Users : Approve(t, u)
  <2>1. PICK u \in Users : Approve(t, u)
    BY <1>13
  <2>2. PICK a : a = Ask(u)
    OBVIOUS
  <2>3. a \in Asks(People) /\ a.st = "asked"
    BY <2>2, AskTyped DEF Types, People
  <2>4. PICK k : k = [q EXCEPT !.widget = "verifying", !.verify = a]
    OBVIOUS
  <2>5. k \in TabRec
    BY <1>2, <2>3, <2>4 DEF TabRec, Words
  <2>6. /\ k.verify = a /\ k.probe = q.probe /\ k.logout = q.logout /\ k.patch = q.patch
        /\ k.data = q.data /\ k.saved = q.saved /\ k.mixed = q.mixed
    BY <1>2, <2>4 DEF TabRec
  <2>7. Set(t, k) /\ UNCHANGED <<server, cookie, history>>
    BY <1>1, <2>1, <2>2, <2>4 DEF Approve
  <2> QED  BY <1>6, <2>3, <2>5, <2>6, <2>7
<1>14. CASE VerifyFails(t)
  <2>1. PICK k : k = [q EXCEPT !.verify = NoAsk, !.widget = "off"]
    OBVIOUS
  <2>2. k \in TabRec
    BY <1>2, <1>5, <2>1 DEF TabRec, Words
  <2>3. /\ k.verify = NoAsk /\ k.probe = q.probe /\ k.logout = q.logout /\ k.patch = q.patch
        /\ k.data = q.data /\ k.saved = q.saved /\ k.mixed = q.mixed
    BY <1>2, <2>1 DEF TabRec
  <2>4. PageMove(q, k)
    BY <1>2, <1>5, <2>2, <2>3, LocalMoves
  <2>5. Set(t, Post(k, "error")) /\ UNCHANGED <<server, cookie, history>>
    BY <1>1, <1>14, <2>1 DEF VerifyFails
  <2>6. Post(k, "error") \in TabRec /\ PageMove(q, Post(k, "error"))
    BY <1>2, <2>2, <2>4, PostMoves DEF Words
  <2> QED  BY <1>1, <2>5, <2>6 DEF PageStep, server
<1>15. CASE Deliver(t)
  <2>1. PICK msg : Set(t, [q EXCEPT !.frame = FALSE, !.posts = {}, !.leaving = @ \/ msg = "success"])
    BY <1>1, <1>15 DEF Deliver
  <2>2. PICK b \in BOOLEAN : b = (q.leaving \/ msg = "success")
    OBVIOUS
  <2>3. PICK k : k = [q EXCEPT !.frame = FALSE, !.posts = {}, !.leaving = b]
    OBVIOUS
  <2>4. k \in TabRec
    BY <1>2, <2>3 DEF TabRec
  <2>5. /\ k.verify = q.verify /\ k.probe = q.probe /\ k.logout = q.logout /\ k.patch = q.patch
        /\ k.data = q.data /\ k.saved = q.saved /\ k.mixed = q.mixed
    BY <1>2, <2>3 DEF TabRec
  <2>6. Set(t, k) /\ UNCHANGED <<server, cookie, history>>
    BY <1>15, <2>1, <2>2, <2>3 DEF Deliver
  <2> QED  BY <1>6, <2>4, <2>5, <2>6
<1>16. CASE Logout(t)
  <2>1. PICK a : a = Ask(Undefined)
    OBVIOUS
  <2>2. a \in Asks({Undefined})
    BY <2>1, AskTyped DEF Types
  <2>3. PICK k : k = [q EXCEPT !.logout = a]
    OBVIOUS
  <2>4. k \in TabRec
    BY <1>2, <2>2, <2>3 DEF TabRec
  <2>5. /\ k.verify = q.verify /\ k.probe = q.probe /\ k.logout = a /\ k.patch = q.patch
        /\ k.data = q.data /\ k.saved = q.saved /\ k.mixed = q.mixed
    BY <1>2, <2>3 DEF TabRec
  <2>6. PageMove(q, k)
    BY <2>1, <2>4, <2>5 DEF PageMove
  <2> QED  BY <1>1, <1>16, <2>1, <2>3, <2>4, <2>6 DEF Logout, PageStep, server
<1>17. CASE SaveName(t)
  <2>1. PICK v \in BOOLEAN : Set(t, [q EXCEPT !.patch = Ask(v)])
    BY <1>1, <1>17 DEF SaveName
  <2>2. PICK a : a = Ask(v)
    OBVIOUS
  <2>3. a \in Asks(BOOLEAN \union {Undefined}) /\ a.st = "asked"
    BY <2>2, AskTyped DEF Types
  <2>4. PICK k : k = [q EXCEPT !.patch = a]
    OBVIOUS
  <2>5. k \in TabRec
    BY <1>2, <2>3, <2>4 DEF TabRec
  <2>6. /\ k.verify = q.verify /\ k.probe = q.probe /\ k.logout = q.logout /\ k.patch = a
        /\ k.data = q.data /\ k.saved = q.saved /\ k.mixed = q.mixed
    BY <1>2, <2>4 DEF TabRec
  <2>7. PageMove(q, k)
    BY <2>3, <2>5, <2>6 DEF PageMove
  <2> QED  BY <1>1, <1>17, <2>1, <2>2, <2>4, <2>5, <2>7 DEF SaveName, PageStep, server
<1> QED
  BY <1>7, <1>8, <1>9, <1>10, <1>11, <1>12, <1>13, <1>14, <1>15, <1>16, <1>17 DEF PageAction

\* A set of natural numbers that is not empty has a smallest element: the
\* number ServeVerify gives a session.
LEMMA SmallestOfNaturals ==
    ASSUME NEW S, S # {}, S \subseteq Nat
    PROVE  \E x \in S : \A y \in S : x <= y
<1>1. PICK R : R = OpToRel(<, Nat)
  BY Zenon
<1>2. IsWellFoundedOn(R, Nat)
  BY <1>1, NatLessThanWellFounded, Zenon
<1>3. PICK x \in S : \A y \in S : <<y, x>> \notin R
  BY <1>2, WFMin
<1>4. ASSUME NEW y \in S PROVE x <= y
  <2>1. y < x => <<y, x>> \in R
    BY <1>1 DEF OpToRel
  <2> QED  BY <1>3, <2>1
<1> QED  BY <1>4

(* ------------------------- what a step may change ------------------------ *)

\* Sessions move from live to stale, expired or revoked, and no further back.
SessionMove ==
    \A s \in Ids : /\ session'[s].user = session[s].user
                   /\ \/ session'[s].st = session[s].st
                      \/ session[s].st \notin {"none", "revoked"} /\ session'[s].st \notin {"none", "live"}

\* Nothing new on its way, no logout of a session that is on its way, and
\* no confirmation but of a revocation.
LEMMA CookieFrame ==
    ASSUME CookieInv, Types', SessionMove, cookie' \in {cookie, 0}, last' = last,
           \/ out' = out
           \/ cookie' = 0 /\ \E x \in Tabs : tab[x].logout.st = "ok" /\ out' = out \union {tab[x].logout.sent},
           \A x \in Tabs :
              /\ tab'[x].verify = tab[x].verify \/ tab'[x].verify.st # "ok"
              /\ tab'[x].logout.sent \in {tab[x].logout.sent, 0, cookie}
              /\ \/ tab'[x].logout = tab[x].logout
                 \/ tab'[x].logout.st # "ok"
                 \/ tab'[x].logout.sent \in Ids /\ session'[tab'[x].logout.sent].st = "revoked"
    PROVE  CookieInv'
<1>1. Types /\ Ids \subseteq Int /\ 0 \notin Ids
  BY WebSessionAssumption DEF CookieInv, Ids
<1>2. /\ cookie \in Cookies /\ last \in Cookies
      /\ \A x \in Tabs : tab[x].logout.sent \in Cookies /\ tab[x].verify.sent \in Cookies
  BY <1>1 DEF Types, TabRec, Asks
<1>3. \A s \in Cookies : Known(s) => Known(s)'
  BY DEF SessionMove, Known, Cookies
<1>4. \A s \in Ids : session[s].st = "revoked" => session'[s].st = "revoked"
  BY DEF SessionMove
<1>5. Known(cookie) /\ Known(last) /\ Known(0) /\ \A x \in Tabs : LogoutInv(x) /\ PendingInv(x)
  BY DEF CookieInv, Known
<1>6. Known(cookie)' /\ Known(last)'
  <2>1. Known(cookie)'
    BY <1>2, <1>3, <1>5 DEF Known
  <2>2. Known(last)'
    BY <1>2, <1>3, <1>5 DEF Known
  <2> QED  BY <2>1, <2>2
<1>7. LogoutIsFinal'
  <2>1. \A s \in out : s \in Ids /\ session[s].st = "revoked" /\ cookie # s
    BY <1>1 DEF CookieInv, LogoutIsFinal, Types
  <2>2. CASE out' = out
    BY <1>1, <1>4, <2>1, <2>2 DEF LogoutIsFinal
  <2>3. CASE cookie' = 0 /\ \E x \in Tabs : tab[x].logout.st = "ok" /\ out' = out \union {tab[x].logout.sent}
    <3>1. PICK x \in Tabs : tab[x].logout.st = "ok" /\ out' = out \union {tab[x].logout.sent}
      BY <2>3
    <3>2. tab[x].logout.sent \in Ids /\ session[tab[x].logout.sent].st = "revoked"
      BY <1>2, <1>5, <3>1 DEF LogoutInv, Cookies
    <3> QED  BY <1>1, <1>4, <2>1, <2>3, <3>1, <3>2 DEF LogoutIsFinal
  <2> QED  BY <2>2, <2>3
<1>8. ASSUME NEW x \in Tabs PROVE PendingInv(x)'
  <2> SUFFICES ASSUME tab'[x].verify.st = "ok"
               PROVE  PendingInv(x)'
    BY DEF PendingInv
  <2>1. tab'[x].verify = tab[x].verify
    OBVIOUS
  <2>2. PICK s : s = tab[x].verify.sent
    OBVIOUS
  <2>3. /\ s # 0 /\ Known(s) /\ cookie # s /\ s \notin out
        /\ \A y \in Tabs : /\ tab[y].logout.sent # s
                           /\ y # x /\ tab[y].verify.st = "ok" => tab[y].verify.sent # s
    BY <1>5, <2>1, <2>2 DEF PendingInv
  <2>4. \A y \in Tabs : tab'[y].logout.sent # s /\ (y # x /\ tab'[y].verify.st = "ok" => tab'[y].verify.sent # s)
    BY <2>3
  <2>5. s \notin out' /\ cookie' # s
    BY <2>3
  <2>6. session'[s].st # "none"
    BY <1>2, <1>3, <2>2, <2>3 DEF Known
  <2> QED  BY <2>1, <2>2, <2>3, <2>4, <2>5, <2>6 DEF PendingInv, Known
<1>9. ASSUME NEW x \in Tabs PROVE LogoutInv(x)'
  <2>1. /\ Known(tab[x].logout.sent)
        /\ tab[x].logout.st = "ok" => tab[x].logout.sent # 0 /\ session[tab[x].logout.sent].st = "revoked"
    BY <1>5 DEF LogoutInv
  <2>2. tab'[x].logout.sent = 0 \/ session'[tab'[x].logout.sent].st # "none"
    <3>1. PICK s \in Cookies : s = tab'[x].logout.sent /\ Known(s)
      BY <1>2, <1>5, <2>1 DEF Cookies
    <3> QED  BY <1>3, <3>1 DEF Known
  <2>3. tab'[x].logout.st = "ok" => tab'[x].logout.sent # 0 /\ session'[tab'[x].logout.sent].st = "revoked"
    <3>1. CASE tab'[x].logout = tab[x].logout
      BY <1>2, <1>4, <2>1, <3>1 DEF Cookies
    <3>2. CASE tab'[x].logout.sent \in Ids /\ session'[tab'[x].logout.sent].st = "revoked"
      BY <1>1, <3>2
    <3> QED  BY <3>1, <3>2
  <2> QED  BY <2>2, <2>3 DEF LogoutInv, Known
<1> QED  BY <1>6, <1>7, <1>8, <1>9 DEF CookieInv

\* The live session keeps its cookie, and every request stays its own.
LEMMA KeptFrame ==
    ASSUME CookieInv, KeptInv, SessionMove, last' = last, overlap => overlap',
           ~overlap' /\ cookie # 0 /\ session[cookie].st = "live" /\ session'[cookie].st = "live"
              /\ (\A x \in Tabs : tab[x].probe.st # "none" => tab[x].probe.sent = cookie /\ tab[x].probe.st # "out")
              /\ (\A x \in Tabs : tab[x].logout.st # "none" => tab[x].logout.sent = cookie)
              => cookie' = cookie,
           \A x \in Tabs :
              /\ \/ tab'[x].probe = tab[x].probe
                 \/ tab'[x].probe.st = "none"
                 \/ tab'[x].probe.st = "asked" /\ tab'[x].probe.sent = cookie
                 \/ /\ tab[x].probe.st # "none" /\ tab'[x].probe.sent = tab[x].probe.sent
                    /\ tab'[x].probe.st = "out" => ~Authenticated(tab[x].probe.sent)
              /\ \/ tab'[x].logout.st = "none"
                 \/ tab'[x].logout.sent = cookie
                 \/ tab[x].logout.st # "none" /\ tab'[x].logout.sent = tab[x].logout.sent
    PROVE  KeptInv'
<1> SUFFICES ASSUME ~overlap', last # 0, session'[last].st = "live"
             PROVE  /\ cookie' = last
                    /\ \A x \in Tabs :
                          /\ tab'[x].probe.st # "none" => tab'[x].probe.sent = last /\ tab'[x].probe.st # "out"
                          /\ tab'[x].logout.st # "none" => tab'[x].logout.sent = last
  BY DEF KeptInv
<1>1. session[last].st = "live"
  BY DEF CookieInv, Types, Cookies, SessionMove
<1>2. /\ cookie = last
      /\ \A x \in Tabs : /\ tab[x].probe.st # "none" => tab[x].probe.sent = last /\ tab[x].probe.st # "out"
                         /\ tab[x].logout.st # "none" => tab[x].logout.sent = last
  BY <1>1 DEF KeptInv
<1>3. cookie' = last
  BY <1>1, <1>2
<1>4. Authenticated(last)
  BY <1>1 DEF Authenticated
<1> QED  BY <1>2, <1>3, <1>4

\* No name changes, no page confirms a save, and what a page learns is what the
\* API knows.
LEMMA NameFrame ==
    ASSUME CookieInv, ProfileInv, named' = named,
           \A s \in Ids : session[s].st # "none" => session'[s].st # "none" /\ session'[s].user = session[s].user,
           \A x \in Tabs :
              /\ \/ tab'[x].patch = tab[x].patch /\ tab'[x].mixed = tab[x].mixed
                 \/ tab'[x].patch.st # "ok"
              /\ \/ tab'[x].saved = Undefined
                 \/ /\ tab'[x].saved = tab[x].saved /\ tab'[x].mixed = tab[x].mixed
                    /\ \/ tab'[x].data \in {tab[x].data, Undefined}
                       \/ tab[x].probe.st = "in" /\ tab'[x].data = tab[x].probe.value
              /\ \/ tab'[x].probe = tab[x].probe
                 \/ tab'[x].probe.st # "in"
                 \/ ~tab'[x].probe.value.named /\ tab'[x].probe.value.row => tab'[x].probe.value.user \notin named
    PROVE  ProfileInv'
<1>1. ASSUME NEW x \in Tabs PROVE NameInv(x)'
  BY DEF ProfileInv, NameInv
<1>2. ASSUME NEW x \in Tabs PROVE PatchInv(x)'
  <2>1. PatchInv(x) /\ tab[x].patch.sent \in Cookies
    BY DEF ProfileInv, CookieInv, Types, TabRec, Asks
  <2> QED  BY <2>1 DEF PatchInv, Known, Cookies
<1> QED  BY <1>1, <1>2 DEF ProfileInv

\* A page's step keeps the invariant.
LEMMA PageKeeps ==
    ASSUME WInv, NEW t \in Tabs, PageStep(t)
    PROVE  WInv'
<1>1. PICK r \in TabRec : PageMove(tab[t], r) /\ Set(t, r)
  BY DEF PageStep
<1>2. CookieInv /\ Types /\ KeptInv /\ ProfileInv
  BY DEF WInv, CookieInv
<1>3. tab' \in [Tabs -> TabRec] /\ tab'[t] = r /\ \A x \in Tabs \ {t} : tab'[x] = tab[x]
  BY <1>1, <1>2, OneTab DEF Types
<1>4. session' = session /\ named' = named /\ out' = out /\ last' = last /\ overlap' = overlap
  BY DEF PageStep, server, history
<1>5. cookie' = cookie \/ (cookie' = 0 /\ ~Admitted)
  BY DEF PageStep
<1>6. Types'
  BY <1>2, <1>3, <1>4, <1>5 DEF Types, Cookies
<1>7. SessionMove
  BY <1>4 DEF SessionMove
<1>8. NoAsk.st = "none" /\ NoAsk.sent = 0 /\ Ask(Undefined).st = "asked" /\ Ask(Undefined).sent = cookie
  BY <1>2, NoAskTyped, AskTyped DEF Types
<1>9. CookieInv'
  BY <1>1, <1>2, <1>3, <1>4, <1>5, <1>6, <1>7, <1>8, CookieFrame DEF PageMove
<1>10. KeptInv'
  <2>1. session[cookie].st = "live" => cookie' = cookie \/ cookie = 0
    BY <1>5 DEF Admitted
  <2> QED  BY <1>1, <1>2, <1>3, <1>4, <1>7, <1>8, <2>1, KeptFrame DEF PageMove
<1>11. ProfileInv'
  BY <1>1, <1>2, <1>3, <1>4, <1>8, NameFrame DEF PageMove
<1> QED  BY <1>9, <1>10, <1>11 DEF WInv

(* -------------------------- the API and its answers ---------------------- *)

\* A proof is refused, or a session no cookie has named is put on its way.
LEMMA ServeVerifyKeeps ==
    ASSUME WInv, NEW t \in Tabs, ServeVerify(t)
    PROVE  WInv'
<1>1. CookieInv /\ Types /\ KeptInv /\ ProfileInv
  BY DEF WInv, CookieInv
<1>2. PICK q \in TabRec : q = tab[t]
  BY <1>1 DEF Types
<1>3. q.verify \in Asks(People)
  BY <1>2 DEF TabRec
<1>4. CASE Set(t, [q EXCEPT !.verify.st = "refused"]) /\ UNCHANGED session
  <2>1. PICK v : v = [q.verify EXCEPT !.st = "refused"]
    OBVIOUS
  <2>2. v \in Asks(People) /\ v.st = "refused"
    BY <1>3, <2>1 DEF Asks, Words
  <2>3. PICK k : k = [q EXCEPT !.verify = v]
    OBVIOUS
  <2>4. k \in TabRec
    BY <2>2, <2>3 DEF TabRec
  <2>5. /\ k.verify = v /\ k.probe = q.probe /\ k.logout = q.logout /\ k.patch = q.patch
        /\ k.data = q.data /\ k.saved = q.saved /\ k.mixed = q.mixed
    BY <2>3 DEF TabRec
  <2>6. PageMove(q, k)
    BY <2>2, <2>4, <2>5, LocalMoves
  <2>7. Set(t, k)
    BY <1>4, <2>1, <2>3
  <2>8. PageStep(t)
    BY <1>2, <1>4, <2>4, <2>6, <2>7 DEF ServeVerify, PageStep, server, history
  <2> QED  BY <2>8, PageKeeps
<1>5. CASE ~(Set(t, [q EXCEPT !.verify.st = "refused"]) /\ UNCHANGED session)
  <2>1. PICK s \in Ids :
          /\ session[s].st = "none" /\ session' = [session EXCEPT ![s] = [user |-> q.verify.value, st |-> "live"]]
          /\ Set(t, [q EXCEPT !.verify = [st |-> "ok", sent |-> s, value |-> q.verify.value]])
    <3> DEFINE free == {x \in Ids : session[x].st = "none"}
               m == CHOOSE x \in free : \A y \in free : x <= y
    <3>1. /\ free # {} /\ session' = [session EXCEPT ![m] = [user |-> q.verify.value, st |-> "live"]]
          /\ Set(t, [q EXCEPT !.verify = [st |-> "ok", sent |-> m, value |-> q.verify.value]])
      BY <1>2, <1>5 DEF ServeVerify
    <3>2. m \in free
      <4>1. free # {} /\ free \subseteq Nat
        BY <3>1, WebSessionAssumption DEF Ids
      <4>2. \E x \in free : \A y \in free : x <= y
        BY <4>1, SmallestOfNaturals
      <4> QED  BY <4>2
    <3> QED  BY <3>1, <3>2
  <2>2. PICK u \in People : u = q.verify.value
    BY <1>3 DEF Asks
  <2>3. PICK v : v = [st |-> "ok", sent |-> s, value |-> u]
    OBVIOUS
  <2>4. v \in Asks(People) /\ v.st = "ok" /\ v.sent = s
    BY <2>3 DEF Asks, Words, Cookies
  <2>5. PICK k : k = [q EXCEPT !.verify = v]
    OBVIOUS
  <2>6. k \in TabRec
    BY <2>4, <2>5 DEF TabRec
  <2>7. /\ k.verify = v /\ k.probe = q.probe /\ k.logout = q.logout /\ k.patch = q.patch
        /\ k.data = q.data /\ k.saved = q.saved /\ k.mixed = q.mixed
    BY <2>5 DEF TabRec
  <2>8. Set(t, k) /\ session' = [session EXCEPT ![s] = [user |-> u, st |-> "live"]]
    BY <2>1, <2>2, <2>3, <2>5
  <2>9. tab' \in [Tabs -> TabRec] /\ tab'[t] = k /\ \A x \in Tabs \ {t} : tab'[x] = tab[x]
    BY <1>1, <2>6, <2>8, OneTab DEF Types
  <2>10. named' = named /\ cookie' = cookie /\ out' = out /\ last' = last /\ overlap' = overlap
    BY DEF ServeVerify, history
  <2>11. /\ session'[s].st = "live" /\ \A x \in Ids \ {s} : session'[x] = session[x]
         /\ session' \in [Ids -> [user : People, st : Words]]
    BY <1>1, <2>8 DEF Types, Words
  <2>12. s # 0 /\ cookie # s /\ last # s /\ s \notin out
         /\ \A x \in Tabs : tab[x].logout.sent # s /\ (tab[x].verify.st = "ok" => tab[x].verify.sent # s)
    <3>1. s # 0
      BY DEF Ids
    <3>2. Known(cookie) /\ Known(last) /\ LogoutIsFinal /\ \A x \in Tabs : PendingInv(x) /\ LogoutInv(x)
      BY <1>1 DEF CookieInv
    <3> QED  BY <2>1, <3>1, <3>2 DEF Known, LogoutIsFinal, PendingInv, LogoutInv
  <2>13. Types'
    BY <1>1, <2>9, <2>10, <2>11 DEF Types
  <2>14. CookieInv'
    <3>1. \A c \in Cookies : c # s => (Known(c)' <=> Known(c))
      BY <2>11 DEF Known, Cookies
    <3>2. Known(s)'
      BY <2>11 DEF Known
    <3>3. Known(cookie)' /\ Known(last)'
      <4>1. Known(cookie) /\ Known(last) /\ cookie \in Cookies /\ last \in Cookies
        BY <1>1 DEF CookieInv, Types
      <4> QED  BY <2>10, <2>11, <2>12, <4>1 DEF Known, Cookies
    <3>4. LogoutIsFinal'
      BY <1>1, <2>10, <2>11, <2>12 DEF CookieInv, Types, LogoutIsFinal
    <3>5. ASSUME NEW x \in Tabs PROVE LogoutInv(x)'
      <4>1. LogoutInv(x) /\ tab[x].logout.sent \in Cookies /\ tab[x].logout.sent # s
        BY <1>1, <2>12 DEF CookieInv, Types, TabRec, Asks
      <4>2. tab'[x].logout = tab[x].logout
        BY <1>2, <2>7, <2>9
      <4> QED  BY <2>11, <4>1, <4>2 DEF LogoutInv, Known, Cookies
    <3>6. \A x \in Tabs : tab'[x].logout = tab[x].logout
      BY <1>2, <2>7, <2>9
    <3>7. PendingInv(t)'
      BY <2>4, <2>7, <2>9, <2>10, <2>11, <2>12, <3>6 DEF PendingInv, Known
    <3>8. ASSUME NEW x \in Tabs \ {t} PROVE PendingInv(x)'
      <4>1. PendingInv(x) /\ tab'[x] = tab[x] /\ tab[x].verify.sent \in Cookies
            /\ (tab[x].verify.st = "ok" => tab[x].verify.sent # s)
        BY <1>1, <2>9, <2>12 DEF CookieInv, Types, TabRec, Asks
      <4> SUFFICES ASSUME tab[x].verify.st = "ok"
                   PROVE  PendingInv(x)'
        BY <4>1 DEF PendingInv
      <4>2. PICK c \in Ids : c = tab[x].verify.sent /\ c # s /\ c # 0 /\ session[c].st # "none"
        BY <4>1 DEF PendingInv, Known, Cookies
      <4>3. session'[c].st # "none" /\ cookie' # c /\ c \notin out'
        BY <2>10, <2>11, <4>1, <4>2 DEF PendingInv
      <4>4. \A y \in Tabs : tab'[y].logout.sent # c /\ (y # x /\ tab'[y].verify.st = "ok" => tab'[y].verify.sent # c)
        <5>1. \A y \in Tabs : tab[y].logout.sent # c /\ (y # x /\ tab[y].verify.st = "ok" => tab[y].verify.sent # c)
          BY <4>1, <4>2 DEF PendingInv
        <5> QED  BY <2>4, <2>7, <2>9, <3>6, <4>2, <5>1
      <4> QED  BY <4>1, <4>2, <4>3, <4>4 DEF PendingInv, Known
    <3> QED  BY <2>13, <3>3, <3>4, <3>5, <3>7, <3>8 DEF CookieInv
  <2>15. KeptInv'
    <3>1. \A x \in Tabs : tab'[x].logout = tab[x].logout /\ tab'[x].probe = tab[x].probe
      BY <1>2, <2>7, <2>9
    <3>2. last # 0 => session'[last] = session[last]
      BY <1>1, <2>11, <2>12 DEF Types, Cookies
    <3> QED  BY <1>1, <2>10, <3>1, <3>2 DEF KeptInv
  <2>16. ProfileInv'
    <3>1. \A x \in Ids : session[x].st # "none" => session'[x].st # "none" /\ session'[x].user = session[x].user
      BY <2>1, <2>11
    <3>2. ASSUME NEW x \in Tabs
          PROVE  /\ tab'[x].patch = tab[x].patch /\ tab'[x].mixed = tab[x].mixed /\ tab'[x].probe = tab[x].probe
                 /\ tab'[x].saved = tab[x].saved /\ tab'[x].data = tab[x].data
      BY <1>2, <2>7, <2>9
    <3> QED  BY <1>1, <2>10, <3>1, <3>2, NameFrame
  <2> QED  BY <2>14, <2>15, <2>16 DEF WInv
<1> QED  BY <1>4, <1>5

\* The answer arrives: its session becomes the cookie, and unless another
\* answer was due no request in flight is of another session.
LEMMA VerifyArrivesKeeps ==
    ASSUME WInv, NEW t \in Tabs, VerifyArrives(t)
    PROVE  WInv'
<1>1. CookieInv /\ Types /\ KeptInv /\ ProfileInv
  BY DEF WInv, CookieInv
<1>2. PICK q \in TabRec : q = tab[t]
  BY <1>1 DEF Types
<1>3. NoAsk \in Asks(People) /\ NoAsk.st = "none" /\ NoAsk.sent = 0
  BY NoAskTyped DEF People
<1>4. PICK r : r = [q EXCEPT !.verify = NoAsk, !.widget = "off"]
  OBVIOUS
<1>5. r \in TabRec
  BY <1>3, <1>4 DEF TabRec, Words
<1>6. /\ r.verify = NoAsk /\ r.probe = q.probe /\ r.logout = q.logout /\ r.patch = q.patch
      /\ r.data = q.data /\ r.saved = q.saved /\ r.mixed = q.mixed
  BY <1>4 DEF TabRec
<1>7. PageMove(q, r)
  BY <1>3, <1>5, <1>6, LocalMoves
<1>8. PICK k : k = Post(r, "success")
  OBVIOUS
<1>9. /\ k \in TabRec /\ PageMove(q, k) /\ k.probe \in {q.probe, NoAsk} /\ k.logout \in {q.logout, NoAsk}
      /\ k.verify = NoAsk
  BY <1>5, <1>6, <1>7, <1>8, PostMoves DEF Words
<1>10. PICK s : s = q.verify.sent
  OBVIOUS
<1>11. Set(t, k) /\ cookie' = s /\ last' = s /\ overlap' = (overlap \/ Due(t)) /\ tab[t].verify.st = "ok"
  BY <1>2, <1>4, <1>8, <1>10 DEF VerifyArrives
<1>12. session' = session /\ named' = named /\ out' = out
  BY DEF VerifyArrives, server
<1>13. tab' \in [Tabs -> TabRec] /\ tab'[t] = k /\ \A x \in Tabs \ {t} : tab'[x] = tab[x]
  BY <1>1, <1>9, <1>11, OneTab DEF Types
<1>14. /\ s \in Cookies /\ s # 0 /\ session[s].st # "none" /\ cookie # s /\ s \notin out
       /\ \A x \in Tabs : tab[x].logout.sent # s /\ (x # t /\ tab[x].verify.st = "ok" => tab[x].verify.sent # s)
  <2>1. PendingInv(t) /\ q.verify \in Asks(People)
    BY <1>1, <1>2 DEF CookieInv, TabRec
  <2> QED  BY <1>2, <1>10, <1>11, <2>1 DEF PendingInv, Known, Asks
<1>15. Types'
  BY <1>1, <1>11, <1>12, <1>13, <1>14 DEF Types
<1>16. CookieInv'
  <2>1. \A x \in Tabs : PendingInv(x) /\ LogoutInv(x)
    BY <1>1 DEF CookieInv
  <2>2. \A x \in Tabs : tab'[x].logout \in {tab[x].logout, NoAsk}
    BY <1>2, <1>9, <1>13
  <2>3. Known(cookie)' /\ Known(last)'
    BY <1>11, <1>12, <1>14 DEF Known
  <2>4. LogoutIsFinal'
    BY <1>1, <1>11, <1>12, <1>14 DEF CookieInv, LogoutIsFinal
  <2>5. ASSUME NEW x \in Tabs PROVE LogoutInv(x)'
    BY <1>3, <1>12, <2>1, <2>2 DEF LogoutInv, Known
  <2>6. ASSUME NEW x \in Tabs PROVE PendingInv(x)'
    <3>1. CASE x = t
      BY <1>3, <1>9, <1>13, <3>1 DEF PendingInv
    <3>2. CASE x # t /\ tab[x].verify.st = "ok"
      <4>1. tab'[x] = tab[x]
        BY <1>13, <3>2
      <4>2. PICK c : c = tab[x].verify.sent
        OBVIOUS
      <4>3. /\ c # 0 /\ session[c].st # "none" /\ c \notin out /\ c # s
            /\ \A y \in Tabs : tab[y].logout.sent # c /\ (y # x /\ tab[y].verify.st = "ok" => tab[y].verify.sent # c)
        BY <1>14, <2>1, <3>2, <4>2 DEF PendingInv, Known
      <4>4. \A y \in Tabs : tab'[y].logout.sent # c /\ (y # x /\ tab'[y].verify.st = "ok" => tab'[y].verify.sent # c)
        BY <1>3, <1>9, <1>13, <2>2, <4>3
      <4> QED  BY <1>11, <1>12, <4>1, <4>2, <4>3, <4>4 DEF PendingInv, Known
    <3>3. CASE x # t /\ tab[x].verify.st # "ok"
      BY <1>13, <3>3 DEF PendingInv
    <3> QED  BY <3>1, <3>2, <3>3
  <2> QED  BY <1>15, <2>3, <2>4, <2>5, <2>6 DEF CookieInv
<1>17. KeptInv'
  <2> SUFFICES ASSUME ~overlap' PROVE KeptInv'
    BY DEF KeptInv
  <2>1. \A x \in Tabs : tab[x].probe.st = "none" /\ tab[x].logout.st = "none"
    BY <1>11 DEF Due
  <2>2. \A x \in Tabs : tab'[x].probe.st = "none" /\ tab'[x].logout.st = "none"
    BY <1>2, <1>3, <1>9, <1>13, <2>1
  <2> QED  BY <1>11, <2>2 DEF KeptInv
<1>18. ProfileInv'
  <2>1. \A x \in Tabs : tab'[x].probe = tab[x].probe \/ tab'[x].probe.st # "in"
    BY <1>2, <1>3, <1>9, <1>13
  <2> QED  BY <1>1, <1>2, <1>9, <1>12, <1>13, <2>1, NameFrame DEF PageMove
<1> QED  BY <1>16, <1>17, <1>18 DEF WInv

\* The session query is answered from the sessions and names of the moment.
LEMMA ServeProbeKeeps ==
    ASSUME WInv, NEW t \in Tabs, ServeProbe(t)
    PROVE  WInv'
<1>1. CookieInv /\ Types /\ KeptInv /\ ProfileInv
  BY DEF WInv, CookieInv
<1>2. PICK q \in TabRec : q = tab[t]
  BY <1>1 DEF Types
<1>3. PICK s \in Cookies : s = q.probe.sent
  BY DEF TabRec, Asks
<1>4. q.probe \in Asks(Data) /\ q.probe.st = "asked"
  BY <1>2 DEF TabRec, ServeProbe
<1>5. session' = session /\ named' = named /\ cookie' = cookie /\ out' = out /\ last' = last /\ overlap' = overlap
  BY DEF ServeProbe, server, history
<1>6. PICK p \in Asks(Data) :
        /\ Set(t, [q EXCEPT !.probe = p]) /\ p.sent = s
        /\ p.st = "out" => ~Authenticated(s)
        /\ p.st = "in" /\ ~p.value.named /\ p.value.row => p.value.user \notin named
  <2>1. ASSUME Authenticated(s), NEW b \in BOOLEAN, NEW w \in BOOLEAN,
               w => (b <=> session[s].user \in named),
               Set(t, [q EXCEPT !.probe.st = "in", !.probe.value = Summary(session[s].user, b, w)])
        PROVE  \E p \in Asks(Data) :
                  /\ Set(t, [q EXCEPT !.probe = p]) /\ p.sent = s
                  /\ p.st = "out" => ~Authenticated(s)
                  /\ p.st = "in" /\ ~p.value.named /\ p.value.row => p.value.user \notin named
    <3>1. PICK u \in People : u = session[s].user
      BY <1>1, <2>1 DEF Authenticated, Types, Cookies
    <3>3. PICK d : d = Summary(u, b, w)
      OBVIOUS
    <3>4. d \in Data /\ d.user = u /\ d.named = b /\ d.row = w
      BY <3>3 DEF Data, Summary
    <3>5. PICK p : p = [q.probe EXCEPT !.st = "in", !.value = d]
      OBVIOUS
    <3>6. p \in Asks(Data)
      BY <1>4, <3>4, <3>5 DEF Asks, Words
    <3>7. p.st = "in" /\ p.value = d /\ p.sent = s
      BY <1>3, <1>4, <3>5 DEF Asks
    <3>8. Set(t, [q EXCEPT !.probe = p])
      <4>1. [q EXCEPT !.probe.st = "in", !.probe.value = d] = [q EXCEPT !.probe = p]
        BY <3>5, <1>4 DEF TabRec, Asks
      <4> QED  BY <2>1, <3>1, <3>3, <4>1
    <3>9. ~d.named /\ d.row => d.user \notin named
      BY <2>1, <3>1, <3>4
    <3> QED  BY <3>6, <3>7, <3>8, <3>9
  <2>2. CASE \E w \in Words \ {"in"} : Set(t, [q EXCEPT !.probe.st = w]) /\ (w = "out" => ~Authenticated(s))
    <3>1. PICK w \in Words \ {"in"} : Set(t, [q EXCEPT !.probe.st = w]) /\ (w = "out" => ~Authenticated(s))
      BY <2>2
    <3>2. PICK p : p = [q.probe EXCEPT !.st = w]
      OBVIOUS
    <3>3. p \in Asks(Data)
      BY <1>4, <3>2 DEF Asks
    <3>4. p.st = w /\ p.sent = s
      BY <1>3, <1>4, <3>2 DEF Asks
    <3> QED  BY <3>1, <3>2, <3>3, <3>4
  <2>3. "out" \in Words \ {"in"} /\ "error" \in Words \ {"in"} /\ "down" \in Words \ {"in"}
    BY DEF Words
  <2>4. \/ /\ Authenticated(s)
           /\ Set(t, [q EXCEPT !.probe.st = "in",
                               !.probe.value = Summary(session[s].user, session[s].user \in named, TRUE)])
        \/ /\ Authenticated(s)
           /\ \E n \in BOOLEAN : Set(t, [q EXCEPT !.probe.st = "in",
                                       !.probe.value = Summary(session[s].user, n, FALSE)])
        \/ ~Authenticated(s) /\ Set(t, [q EXCEPT !.probe.st = "out"])
        \/ \E st \in {"error", "down"} : Set(t, [q EXCEPT !.probe.st = st])
    BY <1>2, <1>3 DEF ServeProbe
  <2>5. CASE /\ Authenticated(s)
             /\ Set(t, [q EXCEPT !.probe.st = "in",
                                 !.probe.value = Summary(session[s].user, session[s].user \in named, TRUE)])
    <3>1. PICK b : b = (session[s].user \in named)
      OBVIOUS
    <3>4. b \in BOOLEAN
      BY <3>1
    <3>2. Set(t, [q EXCEPT !.probe.st = "in", !.probe.value = Summary(session[s].user, b, TRUE)])
      BY <2>5, <3>1
    <3>3. b <=> session[s].user \in named
      BY <3>1
    <3> QED  BY <2>1, <2>5, <3>2, <3>3, <3>4
  <2>6. CASE /\ Authenticated(s)
             /\ \E n \in BOOLEAN : Set(t, [q EXCEPT !.probe.st = "in",
                                         !.probe.value = Summary(session[s].user, n, FALSE)])
    BY <2>1, <2>6
  <2> QED  BY <2>2, <2>3, <2>4, <2>5, <2>6
<1>7. PICK k : k = [q EXCEPT !.probe = p]
  OBVIOUS
<1>8. k \in TabRec
  BY <1>7 DEF TabRec
<1>9. /\ k.verify = q.verify /\ k.probe = p /\ k.logout = q.logout /\ k.patch = q.patch
      /\ k.data = q.data /\ k.saved = q.saved /\ k.mixed = q.mixed
  BY <1>7 DEF TabRec
<1>10. tab' \in [Tabs -> TabRec] /\ tab'[t] = k /\ \A x \in Tabs \ {t} : tab'[x] = tab[x]
  BY <1>1, <1>6, <1>7, <1>8, OneTab DEF Types
<1>11. Types' /\ SessionMove
  BY <1>1, <1>5, <1>10 DEF Types, SessionMove
<1>12. ASSUME NEW x \in Tabs
       PROVE  /\ tab'[x].verify = tab[x].verify /\ tab'[x].logout = tab[x].logout /\ tab'[x].patch = tab[x].patch
              /\ tab'[x].data = tab[x].data /\ tab'[x].saved = tab[x].saved /\ tab'[x].mixed = tab[x].mixed
  BY <1>2, <1>9, <1>10
<1>13. CookieInv'
  BY <1>1, <1>5, <1>11, <1>12, CookieFrame
<1>14. KeptInv'
  <2>1. ASSUME NEW x \in Tabs
        PROVE  \/ tab'[x].probe = tab[x].probe
               \/ /\ tab[x].probe.st # "none" /\ tab'[x].probe.sent = tab[x].probe.sent
                  /\ tab'[x].probe.st = "out" => ~Authenticated(tab[x].probe.sent)
    BY <1>2, <1>3, <1>4, <1>6, <1>9, <1>10
  <2>2. ASSUME NEW x \in Tabs
        PROVE  \/ tab'[x].logout.st = "none"
               \/ tab[x].logout.st # "none" /\ tab'[x].logout.sent = tab[x].logout.sent
    BY <1>12
  <2> QED  BY <1>1, <1>5, <1>11, <2>1, <2>2, KeptFrame
<1>15. ProfileInv'
  <2>1. ASSUME NEW x \in Tabs
        PROVE  \/ tab'[x].probe = tab[x].probe
               \/ tab'[x].probe.st # "in"
               \/ ~tab'[x].probe.value.named /\ tab'[x].probe.value.row => tab'[x].probe.value.user \notin named
    BY <1>6, <1>9, <1>10
  <2> QED  BY <1>1, <1>5, <1>12, <2>1, NameFrame
<1> QED  BY <1>13, <1>14, <1>15 DEF WInv

\* A session query's answer: a cookie is cleared for a session that is not
\* live, or with the API out of reach.
LEMMA ProbeArrivesKeeps ==
    ASSUME WInv, NEW t \in Tabs, ProbeArrives(t)
    PROVE  WInv'
<1>1. CookieInv /\ Types /\ KeptInv /\ ProfileInv
  BY DEF WInv, CookieInv
<1>2. PICK q \in TabRec : q = tab[t]
  BY <1>1 DEF Types
<1>3. NoAsk \in Asks(Data) /\ NoAsk.st = "none" /\ NoAsk.sent = 0
  BY NoAskTyped DEF Data
<1>4. PICK r : r = [q EXCEPT !.probe = NoAsk]
  OBVIOUS
<1>5. r \in TabRec
  BY <1>3, <1>4 DEF TabRec
<1>6. /\ r.verify = q.verify /\ r.probe = NoAsk /\ r.logout = q.logout /\ r.patch = q.patch
      /\ r.data = q.data /\ r.saved = q.saved /\ r.mixed = q.mixed
  BY <1>4 DEF TabRec
<1>7. PICK p \in Asks(Data) : p = q.probe
  BY DEF TabRec
<1>8. PICK k : k = (CASE p.st = "in" -> [r EXCEPT !.data = p.value]
                      [] p.st = "out" /\ r.page = "app" -> [r EXCEPT !.data = Undefined, !.page = "login"]
                      [] OTHER -> r)
  OBVIOUS
<1>9. /\ Set(t, k) /\ p.st \in {"in", "out", "error", "down"}
      /\ cookie' = (IF p.st \in {"out", "down"} THEN 0 ELSE cookie)
      /\ overlap' = (overlap \/ p.st = "down")
  BY <1>2, <1>4, <1>7, <1>8 DEF ProbeArrives
<1>10. session' = session /\ named' = named /\ out' = out /\ last' = last
  BY DEF ProbeArrives, server
<1>11. /\ k \in TabRec /\ k.verify = q.verify /\ k.probe = NoAsk /\ k.logout = q.logout /\ k.patch = q.patch
       /\ k.saved = q.saved /\ k.mixed = q.mixed
       /\ k.data \in {q.data, Undefined} \/ (p.st = "in" /\ k.data = p.value)
  <2>1. CASE p.st = "in"
    <3>1. k = [r EXCEPT !.data = p.value] /\ p.value \in Data
      BY <1>8, <2>1 DEF Asks
    <3>2. k \in TabRec
      BY <1>5, <3>1 DEF TabRec
    <3> QED  BY <1>5, <1>6, <2>1, <3>1, <3>2 DEF TabRec
  <2>2. CASE p.st = "out" /\ r.page = "app"
    <3>1. k = [r EXCEPT !.data = Undefined, !.page = "login"]
      BY <1>8, <2>2
    <3>2. k \in TabRec
      BY <1>5, <3>1 DEF TabRec, Data, Words
    <3> QED  BY <1>5, <1>6, <3>1, <3>2 DEF TabRec
  <2>3. CASE p.st # "in" /\ ~(p.st = "out" /\ r.page = "app")
    BY <1>5, <1>6, <1>8, <2>3
  <2> QED  BY <2>1, <2>2, <2>3
<1>12. tab' \in [Tabs -> TabRec] /\ tab'[t] = k /\ \A x \in Tabs \ {t} : tab'[x] = tab[x]
  BY <1>1, <1>9, <1>11, OneTab DEF Types
<1>13. Types' /\ SessionMove
  <2>1. cookie' \in Cookies /\ overlap' \in BOOLEAN
    BY <1>1, <1>9 DEF Types, Cookies
  <2> QED  BY <1>1, <1>10, <1>12, <2>1 DEF Types, SessionMove
<1>14. ASSUME NEW x \in Tabs
       PROVE  /\ tab'[x].verify = tab[x].verify /\ tab'[x].logout = tab[x].logout /\ tab'[x].patch = tab[x].patch
              /\ tab'[x].saved = tab[x].saved /\ tab'[x].mixed = tab[x].mixed
              /\ tab'[x].probe = tab[x].probe \/ tab'[x].probe.st = "none"
              /\ \/ tab'[x].data \in {tab[x].data, Undefined}
                 \/ tab[x].probe.st = "in" /\ tab'[x].data = tab[x].probe.value
  BY <1>2, <1>3, <1>7, <1>11, <1>12
<1>15. CookieInv'
  BY <1>1, <1>9, <1>10, <1>13, <1>14, CookieFrame
<1>16. KeptInv'
  <2>1. overlap => overlap'
    BY <1>9
  <2>2. tab[t].probe.st # "out" /\ ~overlap' => cookie' = cookie
    BY <1>2, <1>7, <1>9
  <2>3. p.st # "none" /\ tab[t].probe = p
    BY <1>2, <1>7, <1>9
  <2>4. ASSUME NEW x \in Tabs
        PROVE  \/ tab'[x].logout.st = "none"
               \/ tab[x].logout.st # "none" /\ tab'[x].logout.sent = tab[x].logout.sent
    BY <1>14
  <2> QED  BY <1>1, <1>10, <1>13, <1>14, <2>1, <2>2, <2>3, <2>4, KeptFrame
<1>17. ProfileInv'
  BY <1>1, <1>10, <1>14, NameFrame
<1> QED  BY <1>15, <1>16, <1>17 DEF WInv

\* A logout is refused, or revokes the session it was asked for.
LEMMA ServeLogoutKeeps ==
    ASSUME WInv, NEW t \in Tabs, ServeLogout(t)
    PROVE  WInv'
<1>1. CookieInv /\ Types /\ KeptInv /\ ProfileInv
  BY DEF WInv, CookieInv
<1>2. PICK q \in TabRec : q = tab[t]
  BY <1>1 DEF Types
<1>3. q.logout \in Asks({Undefined}) /\ q.logout.st = "asked"
  BY <1>2 DEF TabRec, ServeLogout
<1>4. PICK s \in Cookies : s = q.logout.sent
  BY <1>3 DEF Asks
<1>5. PICK w \in {"ok", "refused"} :
        /\ Set(t, [q EXCEPT !.logout.st = w])
        /\ w = "ok" => Authenticated(s) /\ session' = [session EXCEPT ![s].st = "revoked"]
        /\ w = "refused" => session' = session
  BY <1>2, <1>4 DEF ServeLogout
<1>6. PICK l : l = [q.logout EXCEPT !.st = w]
  OBVIOUS
<1>7. l \in Asks({Undefined}) /\ l.st = w /\ l.sent = s
  BY <1>3, <1>4, <1>6 DEF Asks, Words
<1>8. PICK k : k = [q EXCEPT !.logout = l]
  OBVIOUS
<1>9. k \in TabRec
  BY <1>7, <1>8 DEF TabRec
<1>10. /\ k.verify = q.verify /\ k.probe = q.probe /\ k.logout = l /\ k.patch = q.patch
       /\ k.data = q.data /\ k.saved = q.saved /\ k.mixed = q.mixed
  BY <1>8 DEF TabRec
<1>11. Set(t, k)
  BY <1>5, <1>6, <1>8
<1>12. tab' \in [Tabs -> TabRec] /\ tab'[t] = k /\ \A x \in Tabs \ {t} : tab'[x] = tab[x]
  BY <1>1, <1>9, <1>11, OneTab DEF Types
<1>13. named' = named /\ cookie' = cookie /\ out' = out /\ last' = last /\ overlap' = overlap
  BY DEF ServeLogout, history
<1>14. /\ session' \in [Ids -> [user : People, st : Words]] /\ SessionMove
       /\ w = "ok" => s \in Ids /\ session'[s].st = "revoked"
  <2>1. CASE w = "refused"
    BY <1>1, <1>5, <2>1 DEF Types, SessionMove
  <2>2. CASE w = "ok"
    <3>1. s \in Ids /\ session[s].st = "live" /\ session' = [session EXCEPT ![s].st = "revoked"]
      BY <1>5, <2>2 DEF Authenticated, Cookies
    <3> QED  BY <1>1, <3>1 DEF Types, SessionMove, Words
  <2> QED  BY <2>1, <2>2
<1>15. Types'
  BY <1>1, <1>12, <1>13, <1>14 DEF Types
<1>16. ASSUME NEW x \in Tabs
       PROVE  /\ tab'[x].verify = tab[x].verify /\ tab'[x].probe = tab[x].probe /\ tab'[x].patch = tab[x].patch
              /\ tab'[x].saved = tab[x].saved /\ tab'[x].mixed = tab[x].mixed /\ tab'[x].data = tab[x].data
              /\ tab'[x].logout.sent = tab[x].logout.sent
              /\ tab'[x].logout = tab[x].logout \/ tab[x].logout.st # "none"
              /\ \/ tab'[x].logout = tab[x].logout
                 \/ tab'[x].logout.st # "ok"
                 \/ tab'[x].logout.sent \in Ids /\ session'[tab'[x].logout.sent].st = "revoked"
  BY <1>2, <1>3, <1>4, <1>7, <1>10, <1>12, <1>14
<1>17. CookieInv'
  BY <1>1, <1>13, <1>14, <1>15, <1>16, CookieFrame
<1>18. KeptInv'
  <2>1. ASSUME NEW x \in Tabs
        PROVE  \/ tab'[x].logout.st = "none"
               \/ tab[x].logout.st # "none" /\ tab'[x].logout.sent = tab[x].logout.sent
    BY <1>16
  <2> QED  BY <1>1, <1>13, <1>14, <1>16, <2>1, KeptFrame
<1>19. ProfileInv'
  BY <1>1, <1>13, <1>14, <1>16, NameFrame DEF SessionMove
<1> QED  BY <1>17, <1>18, <1>19 DEF WInv

\* The button settles: a confirmed logout clears the cookie of a session that
\* is revoked.
LEMMA LogoutSettlesKeeps ==
    ASSUME WInv, NEW t \in Tabs, LogoutSettles(t)
    PROVE  WInv'
<1>1. CookieInv /\ Types /\ KeptInv /\ ProfileInv
  BY DEF WInv, CookieInv
<1>2. PICK q \in TabRec : q = tab[t]
  BY <1>1 DEF Types
<1>3. NoAsk \in Asks({Undefined}) /\ NoAsk.st = "none" /\ NoAsk.sent = 0
  BY NoAskTyped
<1>4. PICK d \in {q.data, Undefined} :
        /\ Set(t, [q EXCEPT !.page = "login", !.logout = NoAsk, !.data = d])
        /\ \/ q.logout.st = "ok" /\ cookie' = 0 /\ out' = out \union {q.logout.sent}
           \/ cookie' = cookie /\ out' = out
  <2>1. [q EXCEPT !.page = "login", !.logout = NoAsk] = [q EXCEPT !.page = "login", !.logout = NoAsk, !.data = q.data]
    BY DEF TabRec
  <2> QED  BY <1>2, <2>1 DEF LogoutSettles
<1>5. PICK k : k = [q EXCEPT !.page = "login", !.logout = NoAsk, !.data = d]
  OBVIOUS
<1>6. k \in TabRec
  BY <1>3, <1>4, <1>5 DEF TabRec, Data, Words
<1>7. /\ k.verify = q.verify /\ k.probe = q.probe /\ k.logout = NoAsk /\ k.patch = q.patch
      /\ k.data = d /\ k.saved = q.saved /\ k.mixed = q.mixed
  BY <1>5 DEF TabRec
<1>8. tab' \in [Tabs -> TabRec] /\ tab'[t] = k /\ \A x \in Tabs \ {t} : tab'[x] = tab[x]
  BY <1>1, <1>4, <1>5, <1>6, OneTab DEF Types
<1>9. session' = session /\ named' = named /\ last' = last /\ overlap' = overlap
  BY DEF LogoutSettles, server
<1>10. LogoutInv(t) /\ q.logout.sent \in Cookies
  BY <1>1, <1>2 DEF CookieInv, TabRec, Asks
<1>11. Types' /\ SessionMove
  <2>1. out' \in SUBSET Ids
    BY <1>1, <1>2, <1>4, <1>10 DEF Types, LogoutInv, Cookies
  <2> QED  BY <1>1, <1>4, <1>8, <1>9, <2>1 DEF Types, SessionMove, Cookies
<1>12. ASSUME NEW x \in Tabs
       PROVE  /\ tab'[x].verify = tab[x].verify /\ tab'[x].probe = tab[x].probe /\ tab'[x].patch = tab[x].patch
              /\ tab'[x].saved = tab[x].saved /\ tab'[x].mixed = tab[x].mixed
              /\ tab'[x].data \in {tab[x].data, Undefined}
              /\ tab'[x].logout = tab[x].logout \/ (tab'[x].logout.st = "none" /\ tab'[x].logout.sent = 0)
  BY <1>2, <1>3, <1>4, <1>7, <1>8
<1>13. CookieInv'
  BY <1>1, <1>2, <1>4, <1>9, <1>11, <1>12, CookieFrame
<1>14. KeptInv'
  <2>1. cookie' = cookie \/ (tab[t].logout.st # "none" /\ session[tab[t].logout.sent].st = "revoked")
    BY <1>2, <1>4, <1>10 DEF LogoutInv
  <2>2. ASSUME NEW x \in Tabs
        PROVE  \/ tab'[x].logout.st = "none"
               \/ tab[x].logout.st # "none" /\ tab'[x].logout.sent = tab[x].logout.sent
    BY <1>12
  <2> QED  BY <1>1, <1>9, <1>11, <1>12, <2>1, <2>2, KeptFrame
<1>15. ProfileInv'
  BY <1>1, <1>9, <1>12, NameFrame
<1> QED  BY <1>13, <1>14, <1>15 DEF WInv

\* A name changes: for the tab that asked it is saved or removed, and the other
\* tabs note a removal.
LEMMA ServeNameKeeps ==
    ASSUME WInv, NEW t \in Tabs, ServeName(t)
    PROVE  WInv'
<1>1. CookieInv /\ Types /\ KeptInv /\ ProfileInv
  BY DEF WInv, CookieInv
<1>2. PICK q \in TabRec : q = tab[t]
  BY <1>1 DEF Types
<1>3. PICK p \in Asks(BOOLEAN \union {Undefined}) : p = q.patch
  BY DEF TabRec
<1>4. session' = session /\ cookie' = cookie /\ out' = out /\ last' = last /\ overlap' = overlap
  BY DEF ServeName, history
<1>5. CASE Set(t, [q EXCEPT !.patch.st = "refused"]) /\ named' = named
  <2>1. PICK a : a = [p EXCEPT !.st = "refused"]
    OBVIOUS
  <2>2. a \in Asks(BOOLEAN \union {Undefined}) /\ a.st = "refused"
    BY <2>1 DEF Asks, Words
  <2>3. PICK k : k = [q EXCEPT !.patch = a]
    OBVIOUS
  <2>4. k \in TabRec
    BY <2>2, <2>3 DEF TabRec
  <2>5. /\ k.verify = q.verify /\ k.probe = q.probe /\ k.logout = q.logout /\ k.patch = a
        /\ k.data = q.data /\ k.saved = q.saved /\ k.mixed = q.mixed
    BY <2>3 DEF TabRec
  <2>6. PageMove(q, k) /\ Set(t, k)
    BY <1>3, <1>5, <2>1, <2>2, <2>3, <2>4, <2>5 DEF PageMove
  <2>7. PageStep(t)
    BY <1>2, <1>4, <1>5, <2>4, <2>6 DEF ServeName, PageStep, server, history
  <2> QED  BY <2>7, PageKeeps
<1>6. CASE ~(Set(t, [q EXCEPT !.patch.st = "refused"]) /\ named' = named)
  <2>1. PICK u : u = session[p.sent].user
    OBVIOUS
  <2>2. /\ Authenticated(p.sent)
        /\ named' = IF p.value THEN named \union {u} ELSE named \ {u}
        /\ tab' = [x \in Tabs |-> IF x = t THEN [tab[x] EXCEPT !.patch.st = "ok",
                                                    !.saved = IF p.value THEN @ ELSE Undefined]
                                  ELSE [tab[x] EXCEPT !.mixed = @ \/ ~p.value]]
    BY <1>2, <1>3, <1>6, <2>1 DEF ServeName
  <2>3. PICK a : a = [p EXCEPT !.st = "ok"]
    OBVIOUS
  <2>4. a \in Asks(BOOLEAN \union {Undefined}) /\ a.st = "ok" /\ a.sent = p.sent /\ a.value = p.value
    BY <2>3 DEF Asks, Words
  <2>5. PICK w \in People : w = IF p.value THEN q.saved ELSE Undefined
    BY DEF TabRec, People
  <2>6. PICK k : k = [q EXCEPT !.patch = a, !.saved = w]
    OBVIOUS
  <2>7. k \in TabRec
    BY <2>4, <2>5, <2>6 DEF TabRec
  <2>8. /\ k.verify = q.verify /\ k.probe = q.probe /\ k.logout = q.logout /\ k.patch = a
        /\ k.data = q.data /\ k.saved = w /\ k.mixed = q.mixed
    BY <2>6 DEF TabRec
  <2>9. tab'[t] = k
    <3>1. tab'[t] = [q EXCEPT !.patch.st = "ok", !.saved = IF p.value THEN @ ELSE Undefined]
      BY <1>2, <2>2
    <3> QED  BY <1>3, <2>3, <2>5, <2>6, <3>1 DEF TabRec
  <2>10. ASSUME NEW x \in Tabs \ {t}
         PROVE  /\ tab'[x] \in TabRec
                /\ tab'[x].verify = tab[x].verify /\ tab'[x].probe = tab[x].probe
                /\ tab'[x].logout = tab[x].logout /\ tab'[x].patch = tab[x].patch
                /\ tab'[x].data = tab[x].data /\ tab'[x].saved = tab[x].saved
                /\ ~tab'[x].mixed => p.value /\ ~tab[x].mixed
    <3>1. PICK y \in TabRec : y = tab[x]
      BY <1>1 DEF Types
    <3>2. PICK b : b = (y.mixed \/ ~p.value)
      OBVIOUS
    <3>3. b \in BOOLEAN /\ (~b => p.value /\ ~y.mixed)
      BY <3>2
    <3>4. tab'[x] = [y EXCEPT !.mixed = b]
      BY <2>2, <3>1, <3>2
    <3>5. [y EXCEPT !.mixed = b] \in TabRec
      BY <3>3 DEF TabRec
    <3>6. PICK z : z = [y EXCEPT !.mixed = b]
      OBVIOUS
    <3>7. /\ z.verify = y.verify /\ z.probe = y.probe /\ z.logout = y.logout /\ z.patch = y.patch
          /\ z.data = y.data /\ z.saved = y.saved /\ z.mixed = b
      BY <3>6 DEF TabRec
    <3> QED  BY <3>1, <3>3, <3>4, <3>5, <3>6, <3>7
  <2>11. tab' \in [Tabs -> TabRec]
    <3>1. \A x \in Tabs : tab'[x] \in TabRec
      BY <2>7, <2>9, <2>10
    <3> QED  BY <2>2, <3>1
  <2>12. Types' /\ SessionMove
    BY <1>1, <1>4, <2>11 DEF Types, SessionMove
  <2>13. ASSUME NEW x \in Tabs
         PROVE  tab'[x].verify = tab[x].verify /\ tab'[x].probe = tab[x].probe /\ tab'[x].logout = tab[x].logout
    BY <1>2, <2>8, <2>9, <2>10
  <2>14. CookieInv'
    BY <1>1, <1>4, <2>12, <2>13, CookieFrame
  <2>15. KeptInv'
    <3>1. ASSUME NEW x \in Tabs
          PROVE  \/ tab'[x].logout.st = "none"
                 \/ tab[x].logout.st # "none" /\ tab'[x].logout.sent = tab[x].logout.sent
      BY <2>13
    <3> QED  BY <1>1, <1>4, <2>12, <2>13, <3>1, KeptFrame
  <2>16. p.sent # 0 /\ session[p.sent].st # "none"
    BY <2>2 DEF Authenticated
  <2>17. CASE p.value
    <3>1. named' = named \union {u} /\ w = q.saved
      BY <2>2, <2>5, <2>17
    <3>2. ASSUME NEW x \in Tabs PROVE NameInv(x)'
      <4>1. NameInv(x)
        BY <1>1 DEF ProfileInv
      <4>2. /\ tab'[x].saved = tab[x].saved /\ tab'[x].data = tab[x].data /\ tab'[x].probe = tab[x].probe
            /\ ~tab'[x].mixed => ~tab[x].mixed
        BY <1>2, <2>8, <2>9, <2>10, <3>1
      <4> QED  BY <3>1, <4>1, <4>2 DEF NameInv
    <3>3. ASSUME NEW x \in Tabs \ {t} PROVE PatchInv(x)'
      <4>1. PatchInv(x)
        BY <1>1 DEF ProfileInv
      <4>2. tab'[x].patch = tab[x].patch /\ (~tab'[x].mixed => ~tab[x].mixed)
        BY <2>10
      <4> QED  BY <1>4, <3>1, <4>1, <4>2 DEF PatchInv, Known
    <3>4. PatchInv(t)'
      BY <1>4, <2>1, <2>4, <2>8, <2>9, <2>16, <3>1 DEF PatchInv, Known
    <3> QED  BY <2>14, <2>15, <3>2, <3>3, <3>4 DEF WInv, ProfileInv
  <2>18. CASE ~p.value
    <3>1. w = Undefined
      BY <2>5, <2>18
    <3>2. \A x \in Tabs \ {t} : tab'[x].mixed
      BY <2>10, <2>18
    <3>3. ASSUME NEW x \in Tabs PROVE NameInv(x)'
      BY <2>8, <2>9, <3>1, <3>2 DEF NameInv
    <3>4. ASSUME NEW x \in Tabs \ {t} PROVE PatchInv(x)'
      <4>1. PatchInv(x) /\ tab'[x].patch = tab[x].patch /\ tab'[x].mixed
        BY <1>1, <2>10, <3>2 DEF ProfileInv
      <4> QED  BY <1>4, <4>1 DEF PatchInv, Known
    <3>5. PatchInv(t)'
      BY <1>4, <2>4, <2>8, <2>9, <2>16, <2>18 DEF PatchInv, Known
    <3> QED  BY <2>14, <2>15, <3>3, <3>4, <3>5 DEF WInv, ProfileInv
  <2> QED  BY <2>17, <2>18
<1> QED  BY <1>5, <1>6

\* The answer to a save: the page writes what it saved into its session query.
LEMMA NameSettlesKeeps ==
    ASSUME WInv, NEW t \in Tabs, NameSettles(t)
    PROVE  WInv'
<1>1. CookieInv /\ Types /\ KeptInv /\ ProfileInv
  BY DEF WInv, CookieInv
<1>2. PICK q \in TabRec : q = tab[t]
  BY <1>1 DEF Types
<1>3. NoAsk \in Asks(BOOLEAN \union {Undefined}) /\ NoAsk.st = "none"
  BY NoAskTyped
<1>4. PICK p \in Asks(BOOLEAN \union {Undefined}) : p = q.patch
  BY DEF TabRec
<1>5. PICK r : r = [q EXCEPT !.patch = NoAsk]
  OBVIOUS
<1>6. r \in TabRec
  BY <1>3, <1>5 DEF TabRec
<1>7. /\ r.verify = q.verify /\ r.probe = q.probe /\ r.logout = q.logout /\ r.patch = NoAsk
      /\ r.data = q.data /\ r.saved = q.saved /\ r.mixed = q.mixed
  BY <1>5 DEF TabRec
<1>8. UNCHANGED <<server, cookie, history>> /\ p.st \in {"ok", "refused"}
      /\ Set(t, IF p.st = "refused" THEN r
              ELSE [r EXCEPT !.data = Summary(session[p.sent].user, p.value, TRUE),
                             !.saved = IF p.value THEN session[p.sent].user ELSE Undefined,
                             !.mixed = @ \/ q.probe.st # "none"])
  BY <1>2, <1>4, <1>5 DEF NameSettles
<1>9. session' = session /\ named' = named /\ cookie' = cookie /\ out' = out /\ last' = last /\ overlap' = overlap
  BY <1>8 DEF server, history
<1>10. CASE p.st = "refused"
  <2>1. PageMove(q, r) /\ Set(t, r)
    BY <1>3, <1>6, <1>7, <1>8, <1>10 DEF PageMove
  <2>2. PageStep(t)
    BY <1>2, <1>6, <1>8, <2>1 DEF PageStep, server
  <2> QED  BY <2>2, PageKeeps
<1>11. CASE p.st = "ok"
  <2>1. /\ p.sent \in Ids /\ PatchInv(t) /\ tab[t].patch = p /\ p.value \in BOOLEAN \union {Undefined}
    BY <1>1, <1>2, <1>4, <1>11 DEF ProfileInv, PatchInv, Asks, Cookies
  <2>2. PICK u \in People : u = session[p.sent].user
    BY <1>1, <2>1 DEF Types
  <2>3. PICK d : d = Summary(u, p.value, TRUE)
    OBVIOUS
  <2>4. d \in Data /\ d.named = p.value
    BY <2>1, <2>3 DEF Data, Summary
  <2>5. PICK w \in People : w = IF p.value THEN u ELSE Undefined
    BY DEF People
  <2>6. PICK b : b = (q.mixed \/ q.probe.st # "none")
    OBVIOUS
  <2>7. b \in BOOLEAN /\ (~b => ~q.mixed /\ q.probe.st = "none")
    BY <2>6
  <2>8. PICK k : k = [r EXCEPT !.data = d, !.saved = w, !.mixed = b]
    OBVIOUS
  <2>9. k \in TabRec
    BY <1>6, <2>4, <2>5, <2>7, <2>8 DEF TabRec
  <2>10. /\ k.verify = q.verify /\ k.probe = q.probe /\ k.logout = q.logout /\ k.patch = NoAsk
         /\ k.data = d /\ k.saved = w /\ k.mixed = b
    BY <1>6, <1>7, <2>8 DEF TabRec
  <2>11. Set(t, k)
    BY <1>7, <1>8, <1>11, <2>2, <2>3, <2>5, <2>6, <2>8
  <2>12. tab' \in [Tabs -> TabRec] /\ tab'[t] = k /\ \A x \in Tabs \ {t} : tab'[x] = tab[x]
    BY <1>1, <2>9, <2>11, OneTab DEF Types
  <2>13. Types' /\ SessionMove
    BY <1>1, <1>9, <2>12 DEF Types, SessionMove
  <2>14. ASSUME NEW x \in Tabs
         PROVE  tab'[x].verify = tab[x].verify /\ tab'[x].probe = tab[x].probe /\ tab'[x].logout = tab[x].logout
    BY <1>2, <2>10, <2>12
  <2>15. CookieInv'
    BY <1>1, <1>9, <2>13, <2>14, CookieFrame
  <2>16. KeptInv'
    <3>1. ASSUME NEW x \in Tabs
          PROVE  \/ tab'[x].logout.st = "none"
                 \/ tab[x].logout.st # "none" /\ tab'[x].logout.sent = tab[x].logout.sent
      BY <2>14
    <3> QED  BY <1>1, <1>9, <2>13, <2>14, <3>1, KeptFrame
  <2>17. NameInv(t)'
    <3> SUFFICES ASSUME w # Undefined, ~b PROVE NameInv(t)'
      BY <2>10, <2>12 DEF NameInv
    <3>1. p.value /\ w = u
      BY <2>5
    <3>2. u \in named /\ q.probe.st = "none"
      BY <1>2, <1>11, <2>1, <2>2, <2>7, <3>1 DEF PatchInv
    <3> QED  BY <1>9, <2>4, <2>10, <2>12, <3>1, <3>2 DEF NameInv
  <2>18. PatchInv(t)'
    BY <1>3, <2>10, <2>12 DEF PatchInv
  <2>19. ASSUME NEW x \in Tabs \ {t} PROVE NameInv(x)' /\ PatchInv(x)'
    BY <1>1, <1>9, <2>12 DEF ProfileInv, NameInv, PatchInv, Known
  <2> QED  BY <2>15, <2>16, <2>17, <2>18, <2>19 DEF WInv, ProfileInv
<1> QED  BY <1>8, <1>10, <1>11

\* A session ages, or the replay window of a nullifier ends.
LEMMA EnvironmentKeeps ==
    ASSUME WInv, Environment
    PROVE  WInv'
<1>1. CookieInv /\ Types /\ KeptInv /\ ProfileInv
  BY DEF WInv, CookieInv
<1>2. named' = named /\ cookie' = cookie /\ tab' = tab /\ out' = out /\ last' = last /\ overlap' = overlap
  BY DEF Environment, Expire, Forget, history
<1>3. session' \in [Ids -> [user : People, st : Words]] /\ SessionMove
  <2>1. ASSUME NEW s \in Ids, Expire(s) PROVE session' \in [Ids -> [user : People, st : Words]] /\ SessionMove
    BY <1>1, <2>1 DEF Expire, Types, SessionMove, Words
  <2>2. CASE \E u \in Users : Forget(u)
    BY <1>1, <2>2 DEF Forget, Types, SessionMove
  <2> QED  BY <2>1, <2>2 DEF Environment
<1>4. Types'
  BY <1>1, <1>2, <1>3 DEF Types
<1>5. CookieInv'
  BY <1>1, <1>2, <1>3, <1>4, CookieFrame
<1>6. KeptInv'
  BY <1>1, <1>2, <1>3, KeptFrame
<1>7. ProfileInv'
  BY <1>1, <1>2, <1>3, NameFrame DEF SessionMove
<1> QED  BY <1>5, <1>6, <1>7 DEF WInv

(* ------------------------------ the theorems ----------------------------- *)

\* A browser starts with fresh login pages and no cookie.
LEMMA InitHolds == Init => WInv
<1> SUFFICES ASSUME Init PROVE WInv
  OBVIOUS
<1>1. Fresh("login") \in TabRec
  BY FreshTyped DEF Words
<1>2. \A t \in Tabs : /\ tab[t] = Fresh("login") /\ tab[t].verify = NoAsk /\ tab[t].probe = NoAsk
                      /\ tab[t].logout = NoAsk /\ tab[t].patch = NoAsk /\ tab[t].saved = Undefined
  BY FreshTyped DEF Init, Words
<1>3. NoAsk.st = "none" /\ NoAsk.sent = 0
  BY NoAskTyped
<1>4. Types
  BY <1>1 DEF Init, Types, Words, People, Cookies
<1>5. CookieInv
  <2>1. Known(cookie) /\ Known(last) /\ LogoutIsFinal
    BY DEF Init, Known, LogoutIsFinal
  <2>2. \A t \in Tabs : PendingInv(t) /\ LogoutInv(t)
    BY <1>2, <1>3 DEF PendingInv, LogoutInv, Known
  <2> QED  BY <1>4, <2>1, <2>2 DEF CookieInv
<1>6. KeptInv
  BY DEF Init, KeptInv
<1>7. ProfileInv
  BY <1>2, <1>3 DEF ProfileInv, NameInv, PatchInv
<1> QED  BY <1>5, <1>6, <1>7 DEF WInv

\* Every step keeps the invariant.
LEMMA StepHolds == WInv /\ [Next]_vars => WInv'
<1> SUFFICES ASSUME WInv, [Next]_vars PROVE WInv'
  OBVIOUS
<1>1. CASE UNCHANGED vars
  <2>1. session' = session /\ named' = named /\ cookie' = cookie /\ tab' = tab /\ out' = out /\ last' = last
        /\ overlap' = overlap
    BY <1>1 DEF vars, server, history
  <2> QED
    BY <2>1 DEF WInv, CookieInv, KeptInv, ProfileInv, Types, LogoutIsFinal, PendingInv, LogoutInv, NameInv,
                PatchInv, Known
<1>2. ASSUME NEW t \in Tabs, PageAction(t) PROVE WInv'
  <2>1. PageStep(t)
    BY <1>2, PageSteps DEF WInv, CookieInv
  <2> QED  BY <2>1, PageKeeps
<1>3. ASSUME NEW t \in Tabs, User(t) PROVE WInv'
  BY <1>2, <1>3 DEF User, PageAction
<1>4. ASSUME NEW t \in Tabs, Machine(t) PROVE WInv'
  <2>1. \/ PageAction(t) \/ ServeVerify(t) \/ VerifyArrives(t) \/ ServeProbe(t) \/ ProbeArrives(t)
        \/ ServeLogout(t) \/ LogoutSettles(t) \/ ServeName(t) \/ NameSettles(t)
    BY <1>4 DEF Machine, PageAction
  <2> QED
    BY <1>2, <2>1, ServeVerifyKeeps, VerifyArrivesKeeps, ServeProbeKeeps, ProbeArrivesKeeps, ServeLogoutKeeps,
       LogoutSettlesKeeps, ServeNameKeeps, NameSettlesKeeps
<1>5. CASE Environment
  BY <1>5, EnvironmentKeeps
<1> QED  BY <1>1, <1>3, <1>4, <1>5 DEF Next

\* The invariant holds of every reachable state.
LEMMA Invariance == Spec => []WInv
BY InitHolds, StepHolds, PTL DEF Spec

\* A browser keeps the cookie of its live session, unless an answer of another
\* session was due when it signed in or the API was out of reach.
THEOREM LiveSessionStaysSignedIn == Spec => []LiveSessionKept
<1>1. WInv => LiveSessionKept
  BY DEF WInv, KeptInv, LiveSessionKept, Authenticated
<1> QED  BY <1>1, Invariance, PTL

\* No order of requests and answers in any number of tabs brings back a session
\* whose logout the user saw succeed.
THEOREM LogoutStaysFinal == Spec => []LogoutIsFinal
<1>1. WInv => LogoutIsFinal
  BY DEF WInv, CookieInv
<1> QED  BY <1>1, Invariance, PTL

\* A page that saved a name is not asked for it again, unless a session query
\* overlapped the save, another tab removed a name, or the session query was
\* answered without the users row.
THEOREM SavedNamesAreNotAskedFor == Spec => []NoPromptAfterSave
<1>1. WInv => NoPromptAfterSave
  BY DEF WInv, ProfileInv, NameInv, NoPromptAfterSave, Prompted
<1> QED  BY <1>1, Invariance, PTL

-----------------------------------------------------------------------------
(***************************************************************************)
(* ReplayNonces: an accepted proof is refused until its row may be gone,   *)
(* and by then its claims have aged.                                       *)
(***************************************************************************)

\* A request between its iat check and its INSERT: the iat was fresh at the
\* check, and the check is at most the request timeout ago.
Pending(r) ==
  /\ req[r].proof \in Proofs
  /\ req[r].at \in Timestamp
  /\ req[r].at.s <= now.s
  /\ NotAfter(now, Plus(req[r].at, REQUEST_TIMEOUT_SECS))
  /\ req[r].at.s - claims[req[r].proof].iat <= SKEW
  /\ claims[req[r].proof].iat - req[r].at.s <= SKEW

ReqInv == \A r \in Reqs : req[r] = Idle \/ Pending(r)

\* The row of p lasts until second s, or s is past.
HeldUntil(p, s) == (nonces[p] # None /\ nonces[p].s >= s) \/ now.s >= s

\* What the number of acceptances says of a proof.
UsedNever(p) == uses[p] = 0 /\ first[p] = None

UsedOnce(p) ==
  /\ uses[p] = 1
  /\ first[p] \in Timestamp
  /\ claims[p].iat <= first[p].s + SKEW
  /\ HeldUntil(p, first[p].s + WINDOW)

UsedTwice(p) ==
  /\ uses[p] = 2
  /\ first[p] \in Timestamp
  /\ claims[p].iat <= first[p].s + SKEW
  /\ HeldUntil(p, first[p].s + WINDOW + WINDOW)
  /\ claims[p].iat - first[p].s >= SKEW - REQUEST_TIMEOUT_SECS

UseInv == \A p \in Proofs : UsedNever(p) \/ UsedOnce(p) \/ UsedTwice(p)

\* The inductive invariant.
ReplayInv == NonceTypeOK /\ ReqInv /\ UseInv

\* Time stamps are not None.
LEMMA TimestampNotNone == ASSUME NEW t \in Timestamp PROVE t # None
  BY NoTimestamp

\* A request that has passed its check is not idle.
LEMMA PendingNotIdle ==
  ASSUME NEW r \in Reqs, req[r].proof \in Proofs
  PROVE  req[r] # Idle
  BY NoTimestamp DEF Idle

\* The clock in whole seconds when a pending request runs its INSERT.
LEMMA PendingBound ==
  ASSUME NonceTypeOK, NEW r \in Reqs, Pending(r)
  PROVE  /\ now.s <= claims[req[r].proof].iat + SKEW + REQUEST_TIMEOUT_SECS
         /\ claims[req[r].proof].iat <= now.s + SKEW
<1> DEFINE p == req[r].proof
           t == req[r].at
<1>1. t.s \in Nat /\ now.s \in Nat /\ claims[p].iat \in Nat
  BY DEF Pending, NonceTypeOK, Timestamp, Claims
<1>2. Plus(t, REQUEST_TIMEOUT_SECS).s = t.s + REQUEST_TIMEOUT_SECS
  BY DEF Plus, Pending, Timestamp
<1>3. now.s <= t.s + REQUEST_TIMEOUT_SECS
  <2>1. now.s < Plus(t, REQUEST_TIMEOUT_SECS).s \/ now.s = Plus(t, REQUEST_TIMEOUT_SECS).s
    BY DEF Pending, NotAfter
  <2> HIDE DEF t
  <2> QED
    BY <1>1, <1>2, <2>1, TimeoutAssumption
<1>4. t.s <= now.s /\ t.s - claims[p].iat <= SKEW /\ claims[p].iat - t.s <= SKEW
  BY DEF Pending
<1> HIDE DEF p, t
<1>5. now.s <= claims[p].iat + SKEW + REQUEST_TIMEOUT_SECS /\ claims[p].iat <= now.s + SKEW
  BY <1>1, <1>3, <1>4, SkewAssumption, TimeoutAssumption
<1> QED
  BY <1>5 DEF p

\* The check of a proof keeps the invariant.
LEMMA CheckedStep ==
  ASSUME ReplayInv, NEW r \in Reqs, NEW p \in Proofs, WithinSkew(p), Checked(r, p)
  PROVE  ReplayInv'
<1> DEFINE h == [proof |-> p, at |-> now]
<1>1. NonceTypeOK
  BY DEF ReplayInv
<1>2. h \in Request
  BY <1>1 DEF NonceTypeOK, Request
<1>3. req' = [req EXCEPT ![r] = h] /\ UNCHANGED <<now, claims, nonces, uses, first>>
  BY DEF Checked
<1>4. h.proof = p /\ h.at = now
  OBVIOUS
<1> HIDE DEF h
<1>5. req' \in [Reqs -> Request] /\ req'[r] = h /\ \A s \in Reqs : s # r => req'[s] = req[s]
  BY <1>1, <1>2, <1>3 DEF NonceTypeOK
<1>6. NonceTypeOK'
  BY <1>1, <1>3, <1>5 DEF NonceTypeOK
<1>7. Pending(r)'
  <2>1. Plus(now, REQUEST_TIMEOUT_SECS).s = now.s + REQUEST_TIMEOUT_SECS
        /\ Plus(now, REQUEST_TIMEOUT_SECS).f = now.f /\ now.s \in Nat /\ now.f \in Int
    BY <1>1, TicksAssumption DEF Plus, NonceTypeOK, Timestamp
  <2>2. NotAfter(now, Plus(now, REQUEST_TIMEOUT_SECS))
    <3> DEFINE q == Plus(now, REQUEST_TIMEOUT_SECS)
    <3>1. q.s = now.s + REQUEST_TIMEOUT_SECS /\ q.f = now.f
      BY <2>1
    <3> HIDE DEF q
    <3>2. NotAfter(now, q)
      BY <2>1, <3>1, TimeoutAssumption DEF NotAfter
    <3> QED
      BY <3>2 DEF q
  <2>3. now \in Timestamp /\ now.s <= now.s
    BY <1>1, <2>1 DEF NonceTypeOK
  <2> QED
    BY <1>3, <1>4, <1>5, <2>2, <2>3 DEF Pending, WithinSkew
<1>8. ReqInv'
  <2> SUFFICES ASSUME NEW s \in Reqs PROVE (req[s] = Idle \/ Pending(s))'
    BY DEF ReqInv
  <2>1. CASE s = r
    BY <1>7, <2>1
  <2>2. CASE s # r
    BY <1>3, <1>5, <2>2 DEF ReplayInv, ReqInv, Pending
  <2> QED
    BY <2>1, <2>2
<1>9. UseInv'
  BY <1>3 DEF ReplayInv, UseInv, UsedNever, UsedOnce, UsedTwice, HeldUntil
<1> QED
  BY <1>6, <1>8, <1>9 DEF ReplayInv

\* Refusing or losing a request keeps the invariant.
LEMMA RefuseStep ==
  ASSUME ReplayInv, NEW r \in Reqs, Refuse(r)
  PROVE  ReplayInv'
<1>1. Idle \in Request
  BY DEF Idle, Request
<1>2. req' = [req EXCEPT ![r] = Idle] /\ UNCHANGED <<now, claims, nonces, uses, first>>
  BY DEF Refuse
<1>3. /\ req' \in [Reqs -> Request]
      /\ req'[r] = Idle
      /\ \A s \in Reqs : s # r => req'[s] = req[s]
  BY <1>1, <1>2 DEF ReplayInv, NonceTypeOK
<1>4. NonceTypeOK'
  BY <1>2, <1>3 DEF ReplayInv, NonceTypeOK
<1>5. ReqInv'
  BY <1>2, <1>3 DEF ReplayInv, ReqInv, Pending
<1>6. UseInv'
  BY <1>2 DEF ReplayInv, UseInv, UsedNever, UsedOnce, UsedTwice, HeldUntil
<1> QED
  BY <1>4, <1>5, <1>6 DEF ReplayInv

\* The INSERT that finds no row: a first use, or a second one at the edge.
LEMMA AcceptStep ==
  ASSUME ReplayInv, NEW r \in Reqs, NEW p \in Proofs,
         req[r].proof = p, nonces[p] = None, Accept(r, p, Plus(now, WINDOW))
  PROVE  ReplayInv'
<1> DEFINE e == Plus(now, WINDOW)
<1>1. NonceTypeOK
  BY DEF ReplayInv
<1>2. now.s \in Nat /\ now.f \in 0..(TICKS - 1) /\ claims[p].iat \in Nat
  BY <1>1 DEF NonceTypeOK, Timestamp, Claims
<1>3. WINDOW \in Nat
  BY SkewAssumption, WindowAssumption
<1>4. e \in Timestamp /\ e.s = now.s + WINDOW
  BY <1>1, <1>2, <1>3 DEF Plus, NonceTypeOK, Timestamp
<1> HIDE DEF e
<1>5. /\ nonces' = [nonces EXCEPT ![p] = e]
      /\ uses' = [uses EXCEPT ![p] = @ + 1]
      /\ first' = [first EXCEPT ![p] = IF @ = None THEN now ELSE @]
      /\ req' = [req EXCEPT ![r] = Idle]
      /\ UNCHANGED <<now, claims>>
  BY DEF Accept, e
<1>6. Idle \in Request
  BY DEF Idle, Request
<1>7. now \in Timestamp
  BY <1>1 DEF NonceTypeOK
<1>8. NonceTypeOK'
  BY <1>1, <1>4, <1>5, <1>6, <1>7 DEF NonceTypeOK
<1>9. ReqInv'
  <2> SUFFICES ASSUME NEW s \in Reqs PROVE (req[s] = Idle \/ Pending(s))'
    BY DEF ReqInv
  <2>1. req'[r] = Idle /\ (s # r => req'[s] = req[s])
    BY <1>1, <1>5 DEF NonceTypeOK
  <2> QED
    BY <1>5, <2>1 DEF ReplayInv, ReqInv, Pending
<1>10. /\ now.s <= claims[p].iat + SKEW + REQUEST_TIMEOUT_SECS
       /\ claims[p].iat <= now.s + SKEW
  <2>1. Pending(r)
    BY PendingNotIdle DEF ReplayInv, ReqInv
  <2> QED
    BY <1>1, <2>1, PendingBound
<1>11. \A q \in Proofs : q # p => UNCHANGED <<nonces[q], uses[q], first[q], claims[q], now>>
  BY <1>1, <1>5 DEF NonceTypeOK
<1>12. /\ nonces'[p] = e /\ e # None
       /\ uses'[p] = uses[p] + 1
       /\ first'[p] = IF first[p] = None THEN now ELSE first[p]
       /\ claims' = claims /\ now' = now
  BY <1>1, <1>4, <1>5, TimestampNotNone DEF NonceTypeOK
<1>13. (UsedNever(p) \/ UsedOnce(p) \/ UsedTwice(p))'
  <2>1. CASE UsedNever(p)
    <3>1. uses'[p] = 1 /\ first'[p] = now
      BY <1>12, <2>1 DEF UsedNever
    <3>2. UsedOnce(p)'
      BY <1>2, <1>3, <1>4, <1>7, <1>10, <1>12, <3>1 DEF UsedOnce, HeldUntil
    <3> QED
      BY <3>2
  <2>2. CASE UsedOnce(p)
    <3>1. first[p] # None /\ first[p].s \in Nat
      BY <2>2, TimestampNotNone DEF UsedOnce, Timestamp
    <3>2. uses'[p] = 2 /\ first'[p] = first[p]
      BY <1>12, <2>2, <3>1 DEF UsedOnce
    <3>3. now.s >= first[p].s + WINDOW
      BY <2>2 DEF UsedOnce, HeldUntil
    <3>4. e.s >= first[p].s + WINDOW + WINDOW
      BY <1>2, <1>3, <1>4, <3>1, <3>3
    <3>5. claims[p].iat - first[p].s >= SKEW - REQUEST_TIMEOUT_SECS
      BY <1>2, <1>10, <3>1, <3>3, SkewAssumption, WindowAssumption, TimeoutAssumption
    <3>6. UsedTwice(p)'
      BY <1>12, <2>2, <3>2, <3>4, <3>5 DEF UsedOnce, UsedTwice, HeldUntil
    <3> QED
      BY <3>6
  <2>3. CASE UsedTwice(p)
    <3>1. first[p].s \in Nat /\ claims[p].iat <= first[p].s + SKEW
      BY <2>3 DEF UsedTwice, Timestamp
    <3>2. now.s >= first[p].s + WINDOW + WINDOW
      BY <2>3 DEF UsedTwice, HeldUntil
    <3>3. FALSE
      BY <1>2, <1>10, <3>1, <3>2, SkewAssumption, WindowAssumption, TimeoutAssumption
    <3> QED
      BY <3>3
  <2> QED
    BY <2>1, <2>2, <2>3 DEF ReplayInv, UseInv
<1>14. UseInv'
  <2> SUFFICES ASSUME NEW q \in Proofs PROVE (UsedNever(q) \/ UsedOnce(q) \/ UsedTwice(q))'
    BY DEF UseInv
  <2>1. CASE q = p
    BY <1>13, <2>1
  <2>2. CASE q # p
    <3>1. UNCHANGED <<nonces[q], uses[q], first[q], claims[q], now>>
      BY <1>11, <2>2
    <3> QED
      BY <3>1 DEF ReplayInv, UseInv, UsedNever, UsedOnce, UsedTwice, HeldUntil
  <2> QED
    BY <2>1, <2>2
<1> QED
  BY <1>8, <1>9, <1>14 DEF ReplayInv

\* The cleanup job only deletes rows whose expiry has passed.
LEMMA CleanupStep == ReplayInv /\ Cleanup => ReplayInv'
<1> SUFFICES ASSUME ReplayInv, Cleanup PROVE ReplayInv'
  OBVIOUS
<1>1. UNCHANGED <<now, claims, req, uses, first>> /\ NonceTypeOK
  BY DEF Cleanup, ReplayInv
<1>2. \A p \in Proofs : nonces'[p] = IF nonces[p] # None /\ NotAfter(nonces[p], now)
                                       THEN None ELSE nonces[p]
  BY DEF Cleanup
<1>3. nonces' \in [Proofs -> Timestamp \cup {None}]
  BY <1>1 DEF Cleanup, NonceTypeOK
<1>4. NonceTypeOK'
  BY <1>1, <1>3 DEF NonceTypeOK
<1>5. ReqInv'
  BY <1>1 DEF ReplayInv, ReqInv, Pending
<1>6. ASSUME NEW p \in Proofs, NEW s \in Int, HeldUntil(p, s)
      PROVE  HeldUntil(p, s)'
  <2>1. now.s \in Nat
    BY <1>1 DEF NonceTypeOK, Timestamp
  <2>2. nonces[p] # None => nonces[p].s \in Nat
    BY <1>1 DEF NonceTypeOK, Timestamp
  <2> QED
    BY <1>1, <1>2, <1>6, <2>1, <2>2 DEF HeldUntil, NotAfter
<1>7. UseInv'
  <2> SUFFICES ASSUME NEW p \in Proofs PROVE (UsedNever(p) \/ UsedOnce(p) \/ UsedTwice(p))'
    BY DEF UseInv
  <2>1. WINDOW \in Nat
    BY SkewAssumption, WindowAssumption
  <2>2. CASE UsedNever(p)
    BY <1>1, <2>2 DEF UsedNever
  <2>3. CASE UsedOnce(p)
    <3>1. first[p].s + WINDOW \in Int
      BY <2>1, <2>3 DEF UsedOnce, Timestamp
    <3>2. HeldUntil(p, first[p].s + WINDOW)'
      BY <1>1, <1>6, <2>3, <3>1 DEF UsedOnce
    <3> QED
      BY <1>1, <2>3, <3>2 DEF UsedOnce
  <2>4. CASE UsedTwice(p)
    <3>1. first[p].s + WINDOW + WINDOW \in Int
      BY <2>1, <2>4 DEF UsedTwice, Timestamp
    <3>2. HeldUntil(p, first[p].s + WINDOW + WINDOW)'
      BY <1>1, <1>6, <2>4, <3>1 DEF UsedTwice
    <3> QED
      BY <1>1, <2>4, <3>2 DEF UsedTwice
  <2> QED
    BY <2>2, <2>3, <2>4 DEF ReplayInv, UseInv
<1> QED
  BY <1>4, <1>5, <1>7 DEF ReplayInv

\* The clock moves forward and stops for no pending request beyond its timeout.
LEMMA TickStep == ReplayInv /\ Tick => ReplayInv'
<1> SUFFICES ASSUME ReplayInv, Tick PROVE ReplayInv'
  OBVIOUS
<1>1. UNCHANGED <<claims, nonces, req, uses, first>> /\ NonceTypeOK /\ now' = NextTick
  BY DEF Tick, ReplayInv
<1>2. now.s \in Nat /\ now.f \in 0..(TICKS - 1)
  BY <1>1 DEF NonceTypeOK, Timestamp
<1>3. now' \in Timestamp /\ now'.s >= now.s
  <2>1. CASE now.f < TICKS - 1
    BY <1>1, <1>2, <2>1, TicksAssumption DEF NextTick, NonceTypeOK, Timestamp
  <2>2. CASE ~(now.f < TICKS - 1)
    BY <1>1, <1>2, <2>2, TicksAssumption DEF NextTick, NonceTypeOK, Timestamp
  <2> QED
    BY <2>1, <2>2
<1>4. NonceTypeOK'
  BY <1>1, <1>3 DEF NonceTypeOK
<1>5. now'.s \in Nat
  BY <1>3 DEF Timestamp
<1>6. ReqInv'
  <2> SUFFICES ASSUME NEW r \in Reqs, req[r] # Idle PROVE Pending(r)'
    BY <1>1 DEF ReqInv
  <2>1. Pending(r)
    BY DEF ReplayInv, ReqInv
  <2>2. NotAfter(now', Plus(req[r].at, REQUEST_TIMEOUT_SECS))
    BY <1>1 DEF Tick
  <2>3. req[r].at.s <= now'.s
    <3>1. req[r].at.s \in Nat /\ req[r].at.s <= now.s
      BY <2>1 DEF Pending, Timestamp
    <3> QED
      BY <1>2, <1>3, <1>5, <3>1
  <2> QED
    BY <1>1, <2>1, <2>2, <2>3 DEF Pending
<1>7. ASSUME NEW p \in Proofs, NEW s \in Int, HeldUntil(p, s)
      PROVE  HeldUntil(p, s)'
  BY <1>1, <1>2, <1>3, <1>5, <1>7 DEF HeldUntil
<1>8. UseInv'
  <2> SUFFICES ASSUME NEW p \in Proofs PROVE (UsedNever(p) \/ UsedOnce(p) \/ UsedTwice(p))'
    BY DEF UseInv
  <2>1. WINDOW \in Nat
    BY SkewAssumption, WindowAssumption
  <2>2. CASE UsedNever(p)
    BY <1>1, <2>2 DEF UsedNever
  <2>3. CASE UsedOnce(p)
    <3>1. first[p].s + WINDOW \in Int
      BY <2>1, <2>3 DEF UsedOnce, Timestamp
    <3>2. HeldUntil(p, first[p].s + WINDOW)'
      BY <1>1, <1>7, <2>3, <3>1 DEF UsedOnce
    <3> QED
      BY <1>1, <2>3, <3>2 DEF UsedOnce
  <2>4. CASE UsedTwice(p)
    <3>1. first[p].s + WINDOW + WINDOW \in Int
      BY <2>1, <2>4 DEF UsedTwice, Timestamp
    <3>2. HeldUntil(p, first[p].s + WINDOW + WINDOW)'
      BY <1>1, <1>7, <2>4, <3>1 DEF UsedTwice
    <3> QED
      BY <1>1, <2>4, <3>2 DEF UsedTwice
  <2> QED
    BY <2>2, <2>3, <2>4 DEF ReplayInv, UseInv
<1> QED
  BY <1>4, <1>6, <1>8 DEF ReplayInv

\* The initial state satisfies the invariant.
LEMMA InitInv == NonceInit => ReplayInv
<1> SUFFICES ASSUME NonceInit PROVE ReplayInv
  OBVIOUS
<1>1. Idle \in Request
  BY DEF Idle, Request
<1>2. now \in Timestamp
  BY TicksAssumption DEF NonceInit, Timestamp
<1>3. claims \in [Proofs -> Claims]
  BY MaxSecondAssumption DEF NonceInit, Claims
<1>4. NonceTypeOK
  BY <1>1, <1>2, <1>3 DEF NonceInit, NonceTypeOK
<1>5. ReqInv /\ UseInv
  BY DEF NonceInit, ReqInv, UseInv, UsedNever
<1> QED
  BY <1>4, <1>5 DEF ReplayInv

\* Every step keeps the invariant.
LEMMA NextInv == ReplayInv /\ [NonceNext]_nonceVars => ReplayInv'
<1> SUFFICES ASSUME ReplayInv, [NonceNext]_nonceVars PROVE ReplayInv'
  OBVIOUS
<1>1. ASSUME NEW r \in Reqs, NEW p \in Proofs,
             CheckAssertion(r, p) \/ CheckDpopProof(r, p) \/ CheckBridgeAuditEvent(r, p)
      PROVE  ReplayInv'
  BY <1>1, CheckedStep DEF CheckAssertion, CheckDpopProof, CheckBridgeAuditEvent
<1>2. ASSUME NEW r \in Reqs, NEW p \in Proofs, RecordReplay(r, p)
      PROVE  ReplayInv'
  <2>1. CASE nonces[p] = None
    BY <1>2, <2>1, AcceptStep DEF RecordReplay
  <2>2. CASE nonces[p] # None
    BY <1>2, <2>2, RefuseStep DEF RecordReplay
  <2> QED
    BY <2>1, <2>2
<1>3. ASSUME NEW r \in Reqs, Cancel(r) PROVE ReplayInv'
  BY <1>3, RefuseStep DEF Cancel
<1>4. CASE Cleanup
  BY <1>4, CleanupStep
<1>5. CASE Tick
  BY <1>5, TickStep
<1>6. CASE UNCHANGED nonceVars
  BY <1>6 DEF nonceVars, ReplayInv, NonceTypeOK, ReqInv, Pending, UseInv, UsedNever, UsedOnce,
              UsedTwice, HeldUntil
<1> QED
  BY <1>1, <1>2, <1>3, <1>4, <1>5, <1>6 DEF NonceNext

\* The inductive invariant holds.
LEMMA ReplayInvariant == NonceSpec => []ReplayInv
  BY InitInv, NextInv, PTL DEF NonceSpec

\* Type correctness of the replay store.
THEOREM TypeCorrect == NonceSpec => []NonceTypeOK
<1>1. ReplayInv => NonceTypeOK
  BY DEF ReplayInv
<1> QED
  BY <1>1, ReplayInvariant, PTL

\* check_and_record_replay_in_db accepts a proof a second time only if its iat
\* was ahead of the clock by at least the iat skew less the request timeout.
THEOREM ReplaysComeFromTheFuture == NonceSpec => []ReplayOnlyOfFutureIat
<1>1. ReplayInv => ReplayOnlyOfFutureIat
  BY DEF ReplayInv, UseInv, UsedNever, UsedOnce, UsedTwice, ReplayOnlyOfFutureIat
<1> QED
  BY <1>1, ReplayInvariant, PTL

\* No proof is accepted more than twice, however often it is presented.
THEOREM AtMostTwice == NonceSpec => []AcceptedAtMostTwice
<1>1. ReplayInv => AcceptedAtMostTwice
  <2> SUFFICES ASSUME ReplayInv, NEW p \in Proofs PROVE uses[p] <= 2
    BY DEF AcceptedAtMostTwice
  <2>1. uses[p] = 0 \/ uses[p] = 1 \/ uses[p] = 2
    BY DEF ReplayInv, UseInv, UsedNever, UsedOnce, UsedTwice
  <2>2. uses[p] \in Nat
    BY DEF ReplayInv, NonceTypeOK
  <2> QED
    BY <2>1, <2>2
<1> QED
  BY <1>1, ReplayInvariant, PTL
=============================================================================
