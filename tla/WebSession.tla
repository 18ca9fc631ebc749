---- MODULE WebSession ----
(***************************************************************************)
(* Signing in and out of the web application: the login page and the IDKit *)
(* frame it embeds (login/page.tsx, login/idkit/page.tsx), the middleware  *)
(* that guards the pages, the proxy routes that pass cookies on            *)
(* (api/auth/*/route.ts), the session monitor and the name prompt every    *)
(* page carries (AppShell), logout, and the API's sessions.                *)
(*                                                                         *)
(* The tabs of one browser share its cookie.  A request carries the cookie *)
(* of the moment it leaves; an answer's Set-Cookie acts on the cookie of   *)
(* the moment it arrives.                                                  *)
(***************************************************************************)
EXTENDS Integers, FiniteSets

CONSTANTS
    Tabs,          \* tabs of one browser
    Users,         \* people who sign in on it
    MaxSessions,   \* bound: sessions ever issued
    MaxClicks,     \* bound: things the user does
    MaxFaults,     \* bound: failed requests and lost answers
    Undefined      \* no data yet

VARIABLES
    session,       \* server: the sessions, by number
    recent,        \* server: nullifiers inside the replay window
    named,         \* server: users with a display name
    cookie,        \* nexusinbox_session: a session or 0
    tab,           \* the tabs
    clicks, faults,
    last,          \* history: the session the browser signed in with last
    overlap,       \* history: an answer of another session, or none, was due meanwhile
    out            \* history: sessions whose logout was confirmed

server == <<session, recent, named>>
history == <<last, overlap, out>>
vars == <<server, cookie, tab, clicks, faults, history>>

ASSUME WebSessionAssumption == MaxSessions \in Nat \ {0} /\ MaxClicks \in Nat /\ MaxFaults \in Nat

Ids == 1..MaxSessions
NoAsk == [st |-> "none", sent |-> 0, value |-> Undefined]
Ask(v) == [st |-> "asked", sent |-> cookie, value |-> v]

\* A page just loaded: an empty query cache.
Fresh(page) ==
    [page |-> page, frame |-> FALSE, widget |-> "off", verify |-> NoAsk, posts |-> {},
     leaving |-> FALSE, data |-> Undefined, probe |-> NoAsk, logout |-> NoAsk, patch |-> NoAsk,
     saved |-> Undefined, mixed |-> FALSE]

Init ==
    /\ session = [s \in Ids |-> [user |-> Undefined, st |-> "none"]]
    /\ recent = {} /\ named = {} /\ cookie = 0
    /\ tab = [t \in Tabs |-> Fresh("login")]
    /\ clicks = 0 /\ faults = 0 /\ last = 0 /\ overlap = FALSE /\ out = {}

Click == clicks < MaxClicks /\ clicks' = clicks + 1 /\ UNCHANGED faults
Fault == faults < MaxFaults /\ faults' = faults + 1 /\ UNCHANGED clicks
Quiet == UNCHANGED <<clicks, faults>>

Set(t, r) == tab' = [tab EXCEPT ![t] = r]

\* authenticated_claims: signature and exp, then the session row.
Authenticated(s) == s # 0 /\ session[s].st = "live"

(* ------------------------------ the pages ------------------------------- *)

\* middleware: no cookie, or a token whose exp passed 30 s ago, is sent to
\* /login.  Revocation is the API's business.
Admitted == cookie # 0 /\ session[cookie].st # "expired"

\* A page mounts the shell, whose session query is fetched unless in flight.
Mounted(r) == [r EXCEPT !.page = "app", !.probe = IF @.st = "none" THEN Ask(Undefined) ELSE @]

\* The stale cookie is cleared with the redirect, unless it was issued for a
\* configured domain, which this delete does not name.
Middleware(t, r) ==
    \/ Admitted /\ Set(t, Mounted(r)) /\ UNCHANGED cookie
    \/ ~Admitted /\ Set(t, [r EXCEPT !.page = "login"]) /\ cookie' \in {0, cookie}

\* A link inside the application keeps the query cache.
Navigate(t) ==
    /\ tab[t].page = "app" /\ Click /\ Middleware(t, tab[t])
    /\ UNCHANGED <<server, history>>

\* A typed address, and redirectToNext, load the page anew.
Load(t) ==
    /\ \/ tab[t].leaving /\ Quiet
       \/ ~tab[t].leaving /\ Click
    /\ Middleware(t, Fresh("login"))
    /\ UNCHANGED <<server, history>>

(* ------------------------------- signing in ----------------------------- *)

\* handleOpenWidget: an overlay frame, or the page itself on a phone.
OpenWidget(t) ==
    /\ tab[t].page = "login" /\ ~tab[t].frame /\ ~tab[t].leaving /\ Click
    /\ \/ Set(t, [tab[t] EXCEPT !.frame = TRUE, !.widget = "config"])
       \/ Set(t, [Fresh("idkit") EXCEPT !.widget = "config"])
    /\ UNCHANGED <<server, cookie, history>>

\* postToParent: a message to the frame's parent, or, without one, the
\* navigation it stands for.
Post(r, msg) ==
    IF r.page # "idkit" THEN [r EXCEPT !.posts = @ \union {msg}]
    ELSE IF msg = "success" THEN [r EXCEPT !.leaving = TRUE]
    ELSE Fresh("login")

\* /api/world/request-config answers: the widget opens, or the error is posted.
ConfigArrives(t) ==
    /\ tab[t].widget = "config" /\ Quiet /\ Set(t, [tab[t] EXCEPT !.widget = "open"])
    /\ UNCHANGED <<server, cookie, history>>

ConfigFails(t) ==
    /\ tab[t].widget = "config" /\ Fault
    /\ Set(t, Post([tab[t] EXCEPT !.widget = "off"], "error"))
    /\ UNCHANGED <<server, cookie, history>>

\* onOpenChange(false) before success, or an error of the widget itself.
Dismiss(t) ==
    /\ tab[t].widget = "open" /\ Click
    /\ \E msg \in {"cancelled", "error"} : Set(t, Post([tab[t] EXCEPT !.widget = "off"], msg))
    /\ UNCHANGED <<server, cookie, history>>

\* Esc or a click on the backdrop unmounts the frame and all that runs in it.
CloseFrame(t) ==
    /\ tab[t].frame /\ Click
    /\ Set(t, [tab[t] EXCEPT !.frame = FALSE, !.widget = "off", !.verify = NoAsk, !.posts = {}])
    /\ UNCHANGED <<server, cookie, history>>

\* handleVerify: the proof goes to /auth/verify.
Approve(t, u) ==
    /\ tab[t].widget = "open" /\ Click
    /\ Set(t, [tab[t] EXCEPT !.widget = "verifying", !.verify = Ask(u)])
    /\ UNCHANGED <<server, cookie, history>>

\* auth_verify: a nullifier seen within the window is refused, else a session
\* is issued (the bound on sessions refuses like a failed World ID check).  A
\* failure after the nullifier was recorded leaves it recorded.
ServeVerify(t) ==
    LET u == tab[t].verify.value  free == {s \in Ids : session[s].st = "none"} IN
    /\ tab[t].verify.st = "asked"
    /\ \/ /\ u \in recent \/ free = {}
          /\ Quiet /\ Set(t, [tab[t] EXCEPT !.verify.st = "refused"]) /\ UNCHANGED <<session, recent>>
       \/ /\ u \notin recent /\ free # {} /\ Quiet
          /\ LET s == CHOOSE x \in free : \A y \in free : x <= y IN
             /\ session' = [session EXCEPT ![s] = [user |-> u, st |-> "live"]]
             /\ Set(t, [tab[t] EXCEPT !.verify = [st |-> "ok", sent |-> s, value |-> u]])
          /\ recent' = recent \union {u}
       \/ /\ Fault /\ Set(t, [tab[t] EXCEPT !.verify.st = "refused"]) /\ UNCHANGED session
          /\ recent' \in {recent, recent \union {u}}
    /\ UNCHANGED <<named, cookie, history>>

\* Requests of other pages whose answers may still touch the cookie.
Due(t) == \E x \in Tabs : \/ tab[x].probe.st # "none"
                          \/ tab[x].logout.st # "none"
                          \/ x # t /\ tab[x].verify.st # "none"

\* The answer: its cookie, and the message of handleVerify and onSuccess.
VerifyArrives(t) ==
    LET r == [tab[t] EXCEPT !.verify = NoAsk, !.widget = "off"]  s == tab[t].verify.sent IN
    /\ tab[t].verify.st = "ok" /\ Quiet /\ Set(t, Post(r, "success"))
    /\ cookie' = s /\ last' = s /\ overlap' = (overlap \/ Due(t))
    /\ UNCHANGED <<server, out>>

\* Mutant: a refused proof is rethrown and not reported.
VerifyFailsSilent(t) ==
    /\ \/ tab[t].verify.st = "refused" /\ Quiet
       \/ tab[t].verify.st = "ok" /\ Fault
    /\ Set(t, [tab[t] EXCEPT !.verify = NoAsk, !.widget = "off"])
    /\ UNCHANGED <<server, cookie, history>>

\* Refused, or the answer is lost: the catch block of handleVerify posts the
\* error and rethrows; the widget's own FailedByHostApp posts nothing more.
VerifyFails(t) ==
    /\ \/ tab[t].verify.st = "refused" /\ Quiet
       \/ tab[t].verify.st = "ok" /\ Fault
    /\ Set(t, Post([tab[t] EXCEPT !.verify = NoAsk, !.widget = "off"], "error"))
    /\ UNCHANGED <<server, cookie, history>>

\* The parent's message handler: any message closes the overlay, success
\* starts the navigation, once.
Deliver(t) ==
    /\ tab[t].frame /\ tab[t].posts # {} /\ Quiet
    /\ \E msg \in tab[t].posts :
          Set(t, [tab[t] EXCEPT !.frame = FALSE, !.posts = {}, !.leaving = @ \/ msg = "success"])
    /\ UNCHANGED <<server, cookie, history>>

(* --------------------------- the session query -------------------------- *)

\* The user of an answer, with or without a name; row: as the users table has it.
Summary(u, n, row) == [user |-> u, named |-> n, row |-> row]

\* auth_session behind its proxy: 200, 401, an error, or no upstream at all.
\* A failed SELECT of the users row is swallowed: 200 with the name this process
\* keeps in memory, or none.
ServeProbe(t) ==
    LET s == tab[t].probe.sent IN
    /\ tab[t].probe.st = "asked"
    /\ \/ /\ Authenticated(s) /\ Quiet
          /\ Set(t, [tab[t] EXCEPT !.probe.st = "in",
                       !.probe.value = Summary(session[s].user, session[s].user \in named, TRUE)])
       \/ /\ Authenticated(s) /\ Fault
          /\ \E n \in BOOLEAN : Set(t, [tab[t] EXCEPT !.probe.st = "in",
                                      !.probe.value = Summary(session[s].user, n, FALSE)])
       \/ ~Authenticated(s) /\ Quiet /\ Set(t, [tab[t] EXCEPT !.probe.st = "out"])
       \/ Fault /\ \E st \in {"error", "down"} : Set(t, [tab[t] EXCEPT !.probe.st = st])
    /\ UNCHANGED <<server, cookie, history>>

\* Mutant: the proxy clears the cookie whatever the status.
ProbeArrivesClears(t) ==
    LET p == tab[t].probe  r == [tab[t] EXCEPT !.probe = NoAsk] IN
    /\ p.st \in {"in", "out", "error", "down"} /\ Quiet
    /\ Set(t, CASE p.st = "in" -> [r EXCEPT !.data = p.value]
                [] p.st = "out" /\ r.page = "app" -> [r EXCEPT !.data = Undefined, !.page = "login"]
                [] OTHER -> r)
    /\ cookie' = 0
    /\ overlap' = (overlap \/ p.st = "down") /\ UNCHANGED <<server, last, out>>

\* A 401 clears the cookie and AuthSessionStatus goes to /login; an unreachable
\* upstream clears it too, and an error leaves the data of before.
ProbeArrives(t) ==
    LET p == tab[t].probe  r == [tab[t] EXCEPT !.probe = NoAsk] IN
    /\ p.st \in {"in", "out", "error", "down"} /\ Quiet
    /\ Set(t, CASE p.st = "in" -> [r EXCEPT !.data = p.value]
                [] p.st = "out" /\ r.page = "app" -> [r EXCEPT !.data = Undefined, !.page = "login"]
                [] OTHER -> r)
    /\ cookie' = IF p.st \in {"out", "down"} THEN 0 ELSE cookie
    /\ overlap' = (overlap \/ p.st = "down") /\ UNCHANGED <<server, last, out>>

(* ------------------------------ signing out ----------------------------- *)

Logout(t) ==
    /\ tab[t].page = "app" /\ tab[t].logout.st = "none" /\ Click
    /\ Set(t, [tab[t] EXCEPT !.logout = Ask(Undefined)])
    /\ UNCHANGED <<server, cookie, history>>

\* Mutant: the cookie is cleared and the row left alone.
ServeLogoutCookieOnly(t) ==
    LET s == tab[t].logout.sent IN
    /\ tab[t].logout.st = "asked" /\ UNCHANGED session
    /\ \/ Authenticated(s) /\ Quiet /\ Set(t, [tab[t] EXCEPT !.logout.st = "ok"])
       \/ ~Authenticated(s) /\ Quiet /\ Set(t, [tab[t] EXCEPT !.logout.st = "refused"])
       \/ Fault /\ Set(t, [tab[t] EXCEPT !.logout.st = "refused"])
    /\ UNCHANGED <<recent, named, cookie, history>>

\* auth_logout revokes the session of its cookie.
ServeLogout(t) ==
    LET s == tab[t].logout.sent IN
    /\ tab[t].logout.st = "asked"
    /\ \/ /\ Authenticated(s) /\ Quiet /\ session' = [session EXCEPT ![s].st = "revoked"]
          /\ Set(t, [tab[t] EXCEPT !.logout.st = "ok"])
       \/ ~Authenticated(s) /\ Quiet /\ Set(t, [tab[t] EXCEPT !.logout.st = "refused"]) /\ UNCHANGED session
       \/ Fault /\ Set(t, [tab[t] EXCEPT !.logout.st = "refused"]) /\ UNCHANGED session
    /\ UNCHANGED <<recent, named, cookie, history>>

\* The answer clears the cookie and the query cache; with or without it the
\* button goes to /login.
LogoutSettles(t) ==
    LET l == tab[t].logout IN
    /\ \/ /\ l.st = "ok" /\ Quiet /\ cookie' = 0 /\ out' = out \union {l.sent}
          /\ Set(t, [tab[t] EXCEPT !.page = "login", !.logout = NoAsk, !.data = Undefined])
       \/ /\ (l.st = "refused" /\ Quiet) \/ (l.st = "ok" /\ Fault)
          /\ Set(t, [tab[t] EXCEPT !.page = "login", !.logout = NoAsk])
          /\ UNCHANGED <<cookie, out>>
    /\ UNCHANGED <<server, last, overlap>>

(* ---------------------------- the display name -------------------------- *)

\* DisplayNamePrompt: shown while the session query has a user without a name.
Prompted(t) == tab[t].page = "app" /\ tab[t].data # Undefined /\ ~tab[t].data.named

\* The prompt saves a name; the profile page also removes one.
SaveName(t) ==
    /\ tab[t].page = "app" /\ tab[t].data # Undefined /\ tab[t].patch.st = "none" /\ Click
    /\ \E v \in (IF Prompted(t) THEN {TRUE} ELSE BOOLEAN) : Set(t, [tab[t] EXCEPT !.patch = Ask(v)])
    /\ UNCHANGED <<server, cookie, history>>

\* update_auth_profile, for the user of the cookie the request carried.
ServeName(t) ==
    LET p == tab[t].patch  u == session[p.sent].user IN
    /\ p.st = "asked"
    /\ \/ /\ Authenticated(p.sent) /\ Quiet
          /\ named' = IF p.value THEN named \union {u} ELSE named \ {u}
          /\ tab' = [x \in Tabs |-> IF x = t THEN [tab[x] EXCEPT !.patch.st = "ok",
                                                        !.saved = IF p.value THEN @ ELSE Undefined]
                                    ELSE [tab[x] EXCEPT !.mixed = @ \/ ~p.value]]
       \/ ~Authenticated(p.sent) /\ Quiet /\ Set(t, [tab[t] EXCEPT !.patch.st = "refused"]) /\ UNCHANGED named
       \/ Fault /\ Set(t, [tab[t] EXCEPT !.patch.st = "refused"]) /\ UNCHANGED named
    /\ UNCHANGED <<session, recent, cookie, history>>

\* Mutant: the mutation leaves the session query alone.
NameSettlesQuietly(t) ==
    LET p == tab[t].patch  r == [tab[t] EXCEPT !.patch = NoAsk] IN
    /\ p.st \in {"ok", "refused"} /\ Quiet
    /\ Set(t, IF p.st = "refused" THEN r
              ELSE [r EXCEPT !.saved = IF p.value THEN session[p.sent].user ELSE Undefined,
                             !.mixed = @ \/ tab[t].probe.st # "none"])
    /\ UNCHANGED <<server, cookie, history>>

\* onSuccess writes the answer into the session query; a probe in flight is
\* not cancelled and may overwrite it.
NameSettles(t) ==
    LET p == tab[t].patch  r == [tab[t] EXCEPT !.patch = NoAsk] IN
    /\ p.st \in {"ok", "refused"} /\ Quiet
    /\ Set(t, IF p.st = "refused" THEN r
              ELSE [r EXCEPT !.data = Summary(session[p.sent].user, p.value, TRUE),
                             !.saved = IF p.value THEN session[p.sent].user ELSE Undefined,
                             !.mixed = @ \/ tab[t].probe.st # "none"])
    /\ UNCHANGED <<server, cookie, history>>

(* ---------------------------- specification ----------------------------- *)

\* A session passes its exp, and 30 seconds later the middleware agrees.
Expire(s) ==
    /\ session[s].st \in {"live", "stale"}
    /\ session' = [session EXCEPT ![s].st = IF @ = "live" THEN "stale" ELSE "expired"]
    /\ Fault /\ UNCHANGED <<recent, named, cookie, tab, history>>

\* The replay window of a nullifier ends.
Forget(u) ==
    /\ u \in recent /\ recent' = recent \ {u} /\ Quiet
    /\ UNCHANGED <<session, named, cookie, tab, history>>

User(t) ==
    \/ Navigate(t) \/ (~tab[t].leaving /\ Load(t)) \/ OpenWidget(t) \/ Dismiss(t) \/ CloseFrame(t)
    \/ (\E u \in Users : Approve(t, u)) \/ Logout(t) \/ SaveName(t)

Machine(t) ==
    \/ (tab[t].leaving /\ Load(t)) \/ ConfigArrives(t) \/ ConfigFails(t) \/ ServeVerify(t)
    \/ VerifyArrives(t) \/ VerifyFails(t) \/ Deliver(t) \/ ServeProbe(t) \/ ProbeArrives(t)
    \/ ServeLogout(t) \/ LogoutSettles(t) \/ ServeName(t) \/ NameSettles(t)

Environment == (\E s \in Ids : Expire(s)) \/ \E u \in Users : Forget(u)

Next == (\E t \in Tabs : User(t) \/ Machine(t)) \/ Environment

\* Requests are answered, one way or the other, and messages are delivered.
Fairness == \A t \in Tabs : WF_vars(Machine(t))

Spec == Init /\ [][Next]_vars /\ Fairness

(* ------------------------------ properties ------------------------------ *)

\* While no answer of another session was due at a sign-in and the API was
\* never out of reach, a browser keeps the cookie of its live session.
LiveSessionKept == ~overlap /\ last # 0 /\ Authenticated(last) => cookie = last

\* A logout the user saw succeed is final: its session is revoked, and nothing
\* brings its cookie back.
LogoutIsFinal == \A s \in out : session[s].st = "revoked" /\ cookie # s

\* A tab that saved a user's name, and did not remove it again, is not asked
\* for that name, unless a session query overlapped the save, another tab
\* removed a name, or the last session query was answered without the users row.
NoPromptAfterSave ==
    \A t \in Tabs : tab[t].saved # Undefined /\ ~tab[t].mixed /\ Prompted(t) /\ tab[t].data.row
                     => tab[t].data.user # tab[t].saved

\* However a proof ends, the overlay goes away and the navigation completes.
LoginSettles ==
    \A t \in Tabs : tab[t].verify.st # "none" ~> ~tab[t].frame /\ ~tab[t].leaving /\ tab[t].verify.st = "none"

====
