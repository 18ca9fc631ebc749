---- MODULE Bridge ----
(***************************************************************************)
(* Pairing a browser with the Signer Daemon's bridge: the bridge panel of  *)
(* the agent settings page (settings/agents/page.tsx), the token store and *)
(* its encryption at rest (lib/bridge), the restore button that uses a     *)
(* pairing, and the daemon's HTTP surface (signer-daemon/src/bridge.rs).   *)
(*                                                                         *)
(* Tabs share localStorage (the token) and IndexedDB (the key it is        *)
(* encrypted with); the session nonce belongs to one tab.  A tab has its   *)
(* two effects, which are cancelled when the panel shows another agent,    *)
(* and one operation of the user, which is not: it goes on even after      *)
(* logout has taken the panel away, and then has nobody to tell.           *)
(***************************************************************************)
EXTENDS Naturals, Sequences, FiniteSets

CONSTANTS
    Tabs,          \* tabs of one browser
    Aids,          \* the user's agents
    FirstAid,      \* the one the settings page shows first
    PerMinute, PerDay, Minute, Day,   \* the daemon's two sliding windows, in ticks
    MaxClicks,     \* bound: things the user does
    MaxFaults,     \* bound: failed requests, lost answers, storage errors
    MaxTime        \* bound: ticks

ASSUME BridgeAssumption ==
    /\ FirstAid \in Aids
    /\ {PerMinute, PerDay, Minute, Day} \subseteq Nat \ {0} /\ Minute <= Day
    /\ {MaxClicks, MaxFaults, MaxTime} \subseteq Nat

VARIABLES
    code,          \* daemon: the outstanding pairing code, 0 for none
    sessions,      \* daemon: paired tokens and the nonce each is bound to
    served,        \* daemon: when it unwrapped keys (both rate buckets)
    kek,           \* IndexedDB: the key tokens are wrapped with, 0 for none
    local,         \* localStorage: the wrapped token of an agent
    nonce,         \* sessionStorage: a tab's nonce for an agent, 0 for none
    panel,         \* the panel of a tab (thrown: history, its handler rejected)
    load, probe,   \* its effects
    user,          \* the user's operation in a tab
    issued,        \* codes, tokens, keys and nonces made so far
    now, clicks, faults,
    excused        \* history: tokens the browser had a reason to lose

daemon == <<code, sessions, served>>
store == <<kek, local, nonce>>
tabs == <<panel, load, probe, user>>
bounds == <<clicks, faults>>
vars == <<daemon, store, tabs, issued, now, bounds, excused>>

None == 0                  \* no token, code, key or nonce
Shared == 1                \* the shared secret of the daemon's environment
NoRecord == [tok |-> None, kek |-> None]
Idle == [pc |-> "idle", kind |-> "none", aid |-> "none", raw |-> NoRecord,
         tok |-> None, nonce |-> None, code |-> None, key |-> None,
         mounted |-> TRUE]
Closed == [aid |-> "none", hash |-> None, status |-> "idle", thrown |-> FALSE]

\* loadBridgeToken: what lies under the key now; its envelope is opened later.
Start(kind, a, rec) == [Idle EXCEPT !.pc = "unwrap", !.kind = kind, !.aid = a, !.raw = rec]
Effect(kind, a) == IF local[a] = NoRecord THEN Idle ELSE Start(kind, a, local[a])

\* run_bridge prints one pairing code when the daemon starts, and no other.
\* The browser is new, or keeps the shared secret for the first agent; the
\* panels have loaded it and asked the daemon.
Init ==
    /\ code = 2 /\ issued = 3 /\ sessions = {} /\ served = <<>>
    /\ \/ /\ kek = None /\ local = [a \in Aids |-> NoRecord]
          /\ panel = [t \in Tabs |-> [Closed EXCEPT !.aid = FirstAid]]
       \/ /\ kek = 3
          /\ local = [[a \in Aids |-> NoRecord] EXCEPT ![FirstAid] = [tok |-> Shared, kek |-> 3]]
          /\ panel = [t \in Tabs |-> [Closed EXCEPT !.aid = FirstAid, !.hash = Shared,
                                                    !.status = "paired"]]
    /\ nonce = [t \in Tabs |-> [a \in Aids |-> None]]
    /\ load = [t \in Tabs |-> Idle] /\ probe = [t \in Tabs |-> Idle]
    /\ user = [t \in Tabs |-> Idle]
    /\ now = 0 /\ clicks = 0 /\ faults = 0 /\ excused = {}

Click == clicks < MaxClicks /\ clicks' = clicks + 1 /\ UNCHANGED faults
Fault == faults < MaxFaults /\ faults' = faults + 1 /\ UNCHANGED clicks
Fresh == issued + 1
Mint == issued' = Fresh

Open(t) == panel[t].aid # "none"
Free(t) == user[t].pc = "idle"

(* --------------------------- storage and daemon ------------------------- *)

\* unwrapBridgeToken succeeds under the key the envelope was made with.
Opens(raw) == kek # None /\ raw.kek = kek

\* It finds no key and is going to make one (loadOrCreateKek).
NoKey(op) == op.pc = "unwrap" /\ kek = None

\* It gives null: the envelope is another key's; the key was made on the way,
\* over whatever another tab stored meanwhile; or the key could not be loaded
\* or made this time.
Unreadable(op) ==
    \/ op.pc = "unwrap" /\ kek # None /\ ~Opens(op.raw) /\ UNCHANGED <<kek, issued, bounds>>
    \/ op.pc = "remake" /\ kek' = Fresh /\ Mint /\ UNCHANGED bounds
    \/ op.pc \in {"unwrap", "remake"} /\ Fault /\ UNCHANGED <<kek, issued>>

\* Then the record, whatever it is by now, is removed.
Evict(op) ==
    /\ Unreadable(op)
    /\ local' = [local EXCEPT ![op.aid] = NoRecord]
    /\ excused' = excused \union {local[op.aid].tok}
    /\ UNCHANGED nonce

\* resolve_token: the shared secret, or a paired token with its nonce.
Resolves(tok, n) == tok = Shared \/ [tok |-> tok, nonce |-> n] \in sessions

\* Mutant: an entry leaves its bucket one tick early.
WithinShort(w) == {i \in DOMAIN served : now - served[i] + 1 < w}

\* prune: the entries of a bucket younger than its window.
Within(w) == {i \in DOMAIN served : now - served[i] < w}

(* --------------------------------- panel -------------------------------- *)

\* Showing an agent resets the panel and runs both effects for it; what the
\* user started for the former agent goes on.
Show(t, a) ==
    /\ panel' = [panel EXCEPT ![t] = [Closed EXCEPT !.aid = a]]
    /\ load' = [load EXCEPT ![t] = Effect("load", a)]
    /\ probe' = [probe EXCEPT ![t] = Effect("probe", a)]

SelectAgent(t, a) ==
    /\ panel[t].aid # a /\ Click /\ Show(t, a)
    /\ UNCHANGED <<daemon, store, user, issued, now, excused>>

\* The panel is gone, its effects are cancelled, the tab's nonces cleared.
Drop(t) ==
    /\ panel' = [panel EXCEPT ![t] = Closed]
    /\ load' = [load EXCEPT ![t] = Idle] /\ probe' = [probe EXCEPT ![t] = Idle]
    /\ nonce' = [nonce EXCEPT ![t] = [a \in Aids |-> None]]

\* A closed tab takes its nonces and whatever ran in it along.
CloseTab(t) ==
    /\ Open(t) /\ Click /\ Drop(t)
    /\ user' = [user EXCEPT ![t] = Idle]
    /\ excused' = excused \union {user[t].tok}
    /\ UNCHANGED <<daemon, kek, local, issued, now>>

\* clearAllBridgeTokens: every agent's token, this tab's nonces; then the login
\* page, in the same document, so that what the user started goes on, and may
\* store its token after the clearing.
Logout(t) ==
    /\ Open(t) /\ Click /\ Drop(t)
    /\ local' = [a \in Aids |-> NoRecord]
    /\ user' = IF Free(t) THEN user ELSE [user EXCEPT ![t].mounted = FALSE]
    /\ excused' = excused \union {local[a].tok : a \in Aids}
    /\ UNCHANGED <<daemon, kek, issued, now>>

\* setStoredTokenHash: a new value runs the probe effect again.
Stamp(t, hash, status) ==
    /\ panel' = [panel EXCEPT ![t].hash = hash, ![t].status = status]
    /\ probe' = IF hash = panel[t].hash THEN probe
                ELSE [probe EXCEPT ![t] = IF local'[panel[t].aid] = NoRecord THEN Idle
                                          ELSE Start("probe", panel[t].aid, local'[panel[t].aid])]

Status(t, status) == panel' = [panel EXCEPT ![t].status = status] /\ UNCHANGED probe

\* What the user's operation says reaches the panel it was started from.
Tell(t, told) == IF user[t].mounted THEN told ELSE UNCHANGED <<panel, probe>>

EffectLoaded(t) ==
    LET op == load[t] IN
    /\ \/ /\ op.pc = "unwrap" /\ Opens(op.raw)
          /\ load' = [load EXCEPT ![t] = Idle]
          /\ UNCHANGED <<store, issued, excused, bounds>>
          /\ Stamp(t, op.raw.tok, panel[t].status)
       \/ /\ NoKey(op) /\ load' = [load EXCEPT ![t].pc = "remake"]
          /\ UNCHANGED <<store, issued, excused, bounds, panel, probe>>
       \/ Evict(op) /\ load' = [load EXCEPT ![t] = Idle] /\ UNCHANGED <<panel, probe>>
    /\ UNCHANGED <<daemon, user, now>>

EffectProbes(t) ==
    LET op == probe[t] IN
    /\ \/ /\ op.pc = "unwrap" /\ Opens(op.raw)
          /\ probe' = [probe EXCEPT ![t] = [op EXCEPT !.pc = "status", !.tok = op.raw.tok,
                                                      !.nonce = nonce[t][op.aid]]]
          /\ UNCHANGED <<store, issued, excused, bounds>>
       \/ /\ NoKey(op) /\ probe' = [probe EXCEPT ![t].pc = "remake"]
          /\ UNCHANGED <<store, issued, excused, bounds>>
       \/ Evict(op) /\ probe' = [probe EXCEPT ![t] = Idle]
    /\ UNCHANGED <<daemon, panel, load, user, now>>

\* detect: GET /v1/status.  Never throws; an unreachable daemon is "offline".
Detect(op, status) ==
    \/ status = (IF Resolves(op.tok, op.nonce) THEN "paired" ELSE "error") /\ UNCHANGED bounds
    \/ status = "offline" /\ Fault

EffectProbed(t) ==
    /\ probe[t].pc = "status"
    /\ \E status \in {"paired", "error", "offline"} :
          Detect(probe[t], status) /\ panel' = [panel EXCEPT ![t].status = status]
    /\ probe' = [probe EXCEPT ![t] = Idle]
    /\ UNCHANGED <<daemon, store, load, user, issued, now, excused>>

(* -------------------------------- pairing ------------------------------- *)

Go(t, op) == user' = [user EXCEPT ![t] = op]

\* submitPair: shown while no token is known; the code the daemon printed last.
SubmitPair(t) ==
    /\ Open(t) /\ Free(t) /\ panel[t].hash = None /\ panel[t].status # "pairing" /\ Click
    /\ Go(t, [Idle EXCEPT !.pc = "pair", !.kind = "pair", !.aid = panel[t].aid,
                          !.nonce = Fresh, !.code = code])
    /\ Status(t, "pairing") /\ Mint
    /\ UNCHANGED <<daemon, store, load, now, excused>>

\* submitAdvanced: a pasted token; here the daemon's shared secret.
SubmitAdvanced(t) ==
    /\ Open(t) /\ Free(t) /\ Click
    /\ Go(t, [Idle EXCEPT !.pc = "minted", !.kind = "paste", !.aid = panel[t].aid, !.tok = Shared])
    /\ UNCHANGED <<daemon, store, panel, load, probe, issued, now, excused>>

\* Mutant: a refused code is not reported to the panel.
PairServedQuietly(t) ==
    /\ user[t].pc = "pair"
    /\ code = None \/ user[t].code # code
    /\ Go(t, Idle)
    /\ UNCHANGED <<daemon, store, panel, load, probe, issued, now, bounds, excused>>

\* handle_pair: a matching code is consumed and a token minted for it.
PairServed(t) ==
    LET op == user[t] IN
    /\ op.pc = "pair"
    /\ \/ /\ code # None /\ op.code = code
          /\ code' = None /\ Mint
          /\ sessions' = sessions \union {[tok |-> Fresh, nonce |-> op.nonce]}
          /\ Go(t, [op EXCEPT !.pc = "minted", !.tok = Fresh])
          /\ UNCHANGED <<panel, probe>>
       \/ /\ code = None \/ op.code # code
          /\ Tell(t, Status(t, "error")) /\ Go(t, Idle) /\ UNCHANGED <<code, sessions, issued>>
    /\ UNCHANGED <<served, store, load, now, bounds, excused>>

\* Offline or timed out, before or after the daemon acted.
PairLost(t) ==
    /\ user[t].kind = "pair" /\ user[t].pc \in {"pair", "minted"} /\ Fault
    /\ Tell(t, Status(t, "error")) /\ Go(t, Idle)
    /\ excused' = excused \union {user[t].tok}
    /\ UNCHANGED <<daemon, store, load, issued, now>>

\* saveBridgeToken: loadOrCreateKek reads the key ...
KekRead(t) ==
    /\ user[t].pc = "minted"
    /\ Go(t, [user[t] EXCEPT !.pc = IF kek = None THEN "create" ELSE "wrap", !.key = kek])
    /\ UNCHANGED <<daemon, store, panel, load, probe, issued, now, bounds, excused>>

\* ... or makes one and stores it over whatever another tab stored meanwhile.
KekCreated(t) ==
    /\ user[t].pc = "create"
    /\ kek' = Fresh /\ Mint
    /\ Go(t, [user[t] EXCEPT !.pc = "wrap", !.key = Fresh])
    /\ UNCHANGED <<daemon, local, nonce, panel, load, probe, now, bounds, excused>>

\* BridgeSecureStorageUnavailableError is caught and shown.
StorageUnavailable(t) ==
    /\ user[t].pc = "create" /\ Fault
    /\ Tell(t, Status(t, "error")) /\ Go(t, Idle)
    /\ excused' = excused \union {user[t].tok}
    /\ UNCHANGED <<daemon, store, load, issued, now>>

\* secureLoadKey is called outside the try: its rejection, and a full
\* localStorage, are other errors, which submitPair throws on.
StorageThrows(t) ==
    /\ user[t].pc \in {"minted", "wrap"} /\ Fault
    /\ Tell(t, panel' = [panel EXCEPT ![t].thrown = TRUE] /\ UNCHANGED probe)
    /\ Go(t, Idle)
    /\ excused' = excused \union {user[t].tok}
    /\ UNCHANGED <<daemon, store, load, issued, now>>

\* The token is written, the nonce with it (a pasted token has none), and the
\* panel, whichever agent it shows, is told.
Saved(t) ==
    LET op == user[t] IN
    /\ op.pc = "wrap"
    /\ local' = [local EXCEPT ![op.aid] = [tok |-> op.tok, kek |-> op.key]]
    /\ nonce' = [nonce EXCEPT ![t][op.aid] = op.nonce]
    /\ Tell(t, Stamp(t, op.tok, "probing"))
    /\ Go(t, [op EXCEPT !.pc = "status"])
    /\ excused' = excused \union {local[op.aid].tok}
    /\ UNCHANGED <<daemon, kek, load, issued, now, bounds>>

\* saveBridgeToken returns without a word when localStorage takes no writes: the
\* token is not written, and the panel goes on as if it were.
SaveSkipped(t) ==
    LET op == user[t] IN
    /\ op.pc = "minted" /\ Fault
    /\ UNCHANGED local
    /\ nonce' = [nonce EXCEPT ![t][op.aid] = op.nonce]
    /\ Tell(t, Stamp(t, op.tok, "probing"))
    /\ Go(t, [op EXCEPT !.pc = "status"])
    /\ excused' = excused \union {op.tok}
    /\ UNCHANGED <<daemon, kek, load, issued, now>>

UserProbed(t) ==
    /\ user[t].pc = "status"
    /\ \E status \in {"paired", "error", "offline"} : 
          Detect(user[t], status) /\ Tell(t, Status(t, status))
    /\ Go(t, Idle)
    /\ UNCHANGED <<daemon, store, load, issued, now, excused>>

(* --------------------------- revoking, restoring ------------------------ *)

\* revokeThis, revokeAll and runRestore start by loading the token.
Begin(t, kind) ==
    /\ Open(t) /\ Free(t) /\ Click
    /\ kind \in {"revoke", "revokeAll"} => panel[t].hash # None
    /\ local[panel[t].aid] # NoRecord
    /\ Go(t, Start(kind, panel[t].aid, local[panel[t].aid]))
    /\ UNCHANGED <<daemon, store, panel, load, probe, issued, now, excused>>

TokenLoaded(t) ==
    LET op == user[t] IN
    /\ \/ /\ op.pc = "unwrap" /\ Opens(op.raw)
          /\ Go(t, [op EXCEPT !.pc = "call", !.tok = op.raw.tok, !.nonce = nonce[t][op.aid]])
          /\ UNCHANGED <<store, issued, excused, bounds>>
       \/ /\ NoKey(op) /\ Go(t, [op EXCEPT !.pc = "remake"])
          /\ UNCHANGED <<store, issued, excused, bounds>>
       \/ Evict(op) /\ Go(t, Idle)
    /\ UNCHANGED <<daemon, panel, load, probe, now>>

\* Mutant: the daemon answers a revocation and keeps the session.
RevokeServedKeepsSession(t) ==
    /\ user[t].pc = "call" /\ user[t].kind \in {"revoke", "revokeAll"}
    /\ Go(t, [user[t] EXCEPT !.pc = "revoked"])
    /\ UNCHANGED <<daemon, store, panel, load, probe, issued, now, bounds, excused>>

\* DELETE /v1/session and /v1/sessions.  A refusal changes nothing, and is not
\* told apart from success by the panel.
RevokeServed(t) ==
    LET op == user[t] IN
    /\ op.pc = "call" /\ op.kind \in {"revoke", "revokeAll"}
    /\ \/ /\ Resolves(op.tok, op.nonce)
          /\ sessions' = IF op.kind = "revokeAll" THEN {} ELSE {s \in sessions : s.tok # op.tok}
          /\ UNCHANGED excused
       \/ /\ ~Resolves(op.tok, op.nonce)
          /\ excused' = excused \union {op.tok} /\ UNCHANGED sessions
    /\ Go(t, [op EXCEPT !.pc = "revoked"])
    /\ UNCHANGED <<code, served, store, panel, load, probe, issued, now, bounds>>

RevokeLost(t) ==
    /\ user[t].pc = "call" /\ user[t].kind \in {"revoke", "revokeAll"} /\ Fault
    /\ Go(t, [user[t] EXCEPT !.pc = "revoked"])
    /\ excused' = excused \union {user[t].tok}
    /\ UNCHANGED <<daemon, store, panel, load, probe, issued, now>>

\* Whatever the daemon said, the browser forgets: the record of that agent,
\* though another tab may have paired anew.
Revoked(t) ==
    LET op == user[t] IN
    /\ op.pc = "revoked"
    /\ local' = [local EXCEPT ![op.aid] = NoRecord]
    /\ nonce' = [nonce EXCEPT ![t][op.aid] = None]
    /\ Tell(t, Stamp(t, None, "idle"))
    /\ Go(t, Idle)
    /\ excused' = excused \union ({local[op.aid].tok} \ {op.tok})
    /\ UNCHANGED <<daemon, kek, load, issued, now, bounds>>

\* handle_unwrap: both buckets are checked and filled before the key is opened.
RestoreServed(t) ==
    LET op == user[t] IN
    /\ op.pc = "call" /\ op.kind = "restore"
    /\ \/ /\ Resolves(op.tok, op.nonce)
          /\ Cardinality(Within(Minute)) < PerMinute /\ Cardinality(Within(Day)) < PerDay
          /\ served' = Append(served, now) /\ UNCHANGED bounds
       \/ /\ ~Resolves(op.tok, op.nonce) \/ Cardinality(Within(Minute)) >= PerMinute
             \/ Cardinality(Within(Day)) >= PerDay
          /\ UNCHANGED <<served, bounds>>
       \/ Fault /\ UNCHANGED served
    /\ Go(t, Idle)
    /\ UNCHANGED <<code, sessions, store, panel, load, probe, issued, now, excused>>

(* ------------------------------ environment ----------------------------- *)

\* Everything the daemon knows of pairings is in memory.
Restart ==
    /\ Click /\ code' = Fresh /\ Mint /\ sessions' = {} /\ served' = <<>>
    /\ UNCHANGED <<store, tabs, now, excused>>

\* Five minutes passed.
CodeExpires ==
    /\ code # None /\ Fault /\ code' = None
    /\ UNCHANGED <<sessions, served, store, tabs, issued, now, excused>>

\* The browser discards IndexedDB.
KekLost ==
    /\ kek # None /\ Fault /\ kek' = None
    /\ UNCHANGED <<daemon, local, nonce, tabs, issued, now, excused>>

Tick ==
    /\ served # <<>> /\ now < MaxTime /\ now' = now + 1
    /\ UNCHANGED <<daemon, store, tabs, issued, bounds, excused>>

User(t) ==
    \/ \E a \in Aids : SelectAgent(t, a)
    \/ CloseTab(t) \/ Logout(t) \/ SubmitPair(t) \/ SubmitAdvanced(t)
    \/ \E kind \in {"revoke", "revokeAll", "restore"} : Begin(t, kind)

Step(t) ==
    \/ EffectLoaded(t) \/ EffectProbes(t) \/ EffectProbed(t)
    \/ PairServed(t) \/ KekRead(t) \/ KekCreated(t) \/ Saved(t) \/ UserProbed(t)
    \/ TokenLoaded(t) \/ RevokeServed(t) \/ Revoked(t) \/ RestoreServed(t)

Failure(t) ==
    \/ PairLost(t) \/ StorageUnavailable(t) \/ StorageThrows(t) \/ SaveSkipped(t) \/ RevokeLost(t)

Next ==
    \/ \E t \in Tabs : User(t) \/ Step(t) \/ Failure(t)
    \/ Restart \/ CodeExpires \/ KekLost \/ Tick

\* Promises of a live tab settle: the bridge client gives up after four seconds.
Fairness == \A t \in Tabs : WF_vars(Step(t))

Spec == Init /\ [][Next]_vars /\ Fairness

(* ------------------------------ properties ------------------------------ *)

\* Tokens the browser can still reach.
Held == {local[a].tok : a \in Aids} \union {user[t].tok : t \in Tabs}

\* The daemon remembers a pairing the browser has forgotten only when a call or
\* a storage failed, the token was overwritten, evicted because its key was gone
\* or could not be had, dropped by logout or a closed tab, or never written for
\* want of localStorage, or a revocation was refused for want of the nonce:
\* submitPair and the revoke handlers lose no session otherwise, not even one
\* whose pairing outlives the logout.
OrphansAccounted == \A s \in sessions : s.tok \in Held \union excused

\* However unwraps and ticks interleave, no window of the daemon's life holds
\* more of them than its bucket (check_and_record in bridge.rs).
QuotaInEveryWindow ==
    \A from \in 0..MaxTime :
        /\ Cardinality({i \in DOMAIN served : from <= served[i] /\ served[i] < from + Minute}) <= PerMinute
        /\ Cardinality({i \in DOMAIN served : from <= served[i] /\ served[i] < from + Day}) <= PerDay

\* The pairing button comes back: every submitPair ends in a verdict, unless
\* storage threw an error its handler does not know.
PairingSettles ==
    \A t \in Tabs : panel[t].status = "pairing" ~>
        (panel[t].status # "pairing" \/ panel[t].thrown)
====
