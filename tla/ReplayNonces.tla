------------------------------ MODULE ReplayNonces ------------------------------
(***************************************************************************)
(* Replay rejection of the three kinds of signed proofs that carry an iat: *)
(* the /agent-auth/token assertion, the DPoP proof and the bridge-audit    *)
(* envelope (services/api/src/lib.rs).  Each is checked for freshness with *)
(* the API server's clock, floored to seconds, and later, in a statement   *)
(* of its own, recorded in Postgres' replay_nonces with an expiry; a       *)
(* background job deletes expired rows.                                    *)
(*                                                                         *)
(* One clock stands for the server's and the database's.  A timestamp has  *)
(* a second s and one of TICKS fractions f of it.                          *)
(***************************************************************************)
EXTENDS Integers

CONSTANTS
  Proofs,                \* signed proofs (a jti in its scope)
  Reqs,                  \* in-flight requests
  None,                  \* "no value"
  SKEW,                  \* 60: |now - iat| allowed by the iat checks
  WINDOW,                \* 120: *_REPLAY_WINDOW_SECS
  REQUEST_TIMEOUT_SECS,  \* 10
  TICKS,                 \* fractions of a second that are told apart
  MaxSecond              \* bound on the clock

ASSUME SkewAssumption == SKEW \in Nat
ASSUME WindowAssumption == WINDOW = 2 * SKEW
ASSUME TimeoutAssumption == REQUEST_TIMEOUT_SECS \in Nat /\ REQUEST_TIMEOUT_SECS < WINDOW
ASSUME TicksAssumption == TICKS \in Nat \ {0}
ASSUME MaxSecondAssumption == MaxSecond \in Nat

Kinds == {"agent_auth", "dpop", "bridge_audit"}

Timestamp == [s : Nat, f : 0..(TICKS - 1)]

ASSUME NoTimestamp == None \notin Timestamp \cup Proofs

VARIABLES
  now,      \* the clock
  claims,   \* kind, iat and exp of each proof
  nonces,   \* replay_nonces: the expires_at of a proof's row, or None
  req,      \* in-flight requests: their proof and when its freshness was checked
  uses,     \* history: how often a proof was accepted
  first     \* history: when it was accepted first

nonceVars == <<now, claims, nonces, req, uses, first>>

Claims == [kind : Kinds, iat : Nat, exp : Nat]

Request == [proof : Proofs \cup {None}, at : Timestamp \cup {None}]

Idle == [proof |-> None, at |-> None]

NonceTypeOK ==
  /\ now \in Timestamp
  /\ claims \in [Proofs -> Claims]
  /\ nonces \in [Proofs -> Timestamp \cup {None}]
  /\ req \in [Reqs -> Request]
  /\ uses \in [Proofs -> Nat]
  /\ first \in [Proofs -> Timestamp \cup {None}]

NonceInit ==
  /\ now = [s |-> 0, f |-> 0]
  /\ claims \in [Proofs -> [kind : Kinds, iat : 0..MaxSecond, exp : 0..MaxSecond]]
  /\ nonces = [p \in Proofs |-> None]
  /\ req = [r \in Reqs |-> Idle]
  /\ uses = [p \in Proofs |-> 0]
  /\ first = [p \in Proofs |-> None]

-----------------------------------------------------------------------------
NotAfter(t, u) == t.s < u.s \/ (t.s = u.s /\ t.f <= u.f)

Plus(t, secs) == [t EXCEPT !.s = @ + secs]

\* (now - iat).abs() <= 60, with now = Utc::now().timestamp()
WithinSkew(p) == now.s - claims[p].iat <= SKEW /\ claims[p].iat - now.s <= SKEW

Checked(r, p) ==
  /\ req[r] = Idle
  /\ req' = [req EXCEPT ![r] = [proof |-> p, at |-> now]]
  /\ UNCHANGED <<now, claims, nonces, uses, first>>

\* agent_auth_token: timing, then credential lookup and signature.
CheckAssertion(r, p) ==
  /\ claims[p].kind = "agent_auth"
  /\ WithinSkew(p)
  /\ claims[p].exp > now.s
  /\ Checked(r, p)

\* validate_dpop_proof: key, signature, htm, htu and ath, then timing.
CheckDpopProof(r, p) ==
  /\ claims[p].kind = "dpop"
  /\ WithinSkew(p)
  /\ Checked(r, p)

\* ingest_bridge_audit_event: credential, signature and audience, then timing.
CheckBridgeAuditEvent(r, p) ==
  /\ claims[p].kind = "bridge_audit"
  /\ WithinSkew(p)
  /\ Checked(r, p)

\* What a request does with its proof: accept it and record when it expires.
Accept(r, p, expiry) ==
  /\ nonces' = [nonces EXCEPT ![p] = expiry]
  /\ uses' = [uses EXCEPT ![p] = @ + 1]
  /\ first' = [first EXCEPT ![p] = IF @ = None THEN now ELSE @]
  /\ req' = [req EXCEPT ![r] = Idle]
  /\ UNCHANGED <<now, claims>>

Refuse(r) ==
  /\ req' = [req EXCEPT ![r] = Idle]
  /\ UNCHANGED <<now, claims, nonces, uses, first>>

\* Mutant: the row lives as long as the iat check's one-sided window.
RecordReplayShort(r, p) ==
  /\ req[r].proof = p
  /\ IF nonces[p] = None THEN Accept(r, p, Plus(now, SKEW)) ELSE Refuse(r)

\* Mutant: ON CONFLICT DO UPDATE, so that a row is always affected.
RecordReplayUpsert(r, p) ==
  /\ req[r].proof = p
  /\ Accept(r, p, Plus(now, WINDOW))

\* check_and_record_replay_in_db: INSERT ... ON CONFLICT DO NOTHING; a row whose
\* expiry has passed but which is not deleted yet still conflicts.
RecordReplay(r, p) ==
  /\ req[r].proof = p
  /\ IF nonces[p] = None THEN Accept(r, p, Plus(now, WINDOW)) ELSE Refuse(r)

\* DELETE FROM replay_nonces WHERE expires_at <= NOW(), by some instance's job.
Cleanup ==
  /\ \E p \in Proofs : nonces[p] # None /\ NotAfter(nonces[p], now)
  /\ nonces' = [p \in Proofs |->
                  IF nonces[p] # None /\ NotAfter(nonces[p], now) THEN None ELSE nonces[p]]
  /\ UNCHANGED <<now, claims, req, uses, first>>

\* A request is refused for another reason, times out or dies.
Cancel(r) ==
  /\ req[r] # Idle
  /\ Refuse(r)

NextTick == IF now.f < TICKS - 1 THEN [now EXCEPT !.f = @ + 1] ELSE [s |-> now.s + 1, f |-> 0]

\* Time passes; a request does not outlive REQUEST_TIMEOUT_SECS.
Tick ==
  /\ now.s < MaxSecond
  /\ \A r \in Reqs : req[r] # Idle => NotAfter(NextTick, Plus(req[r].at, REQUEST_TIMEOUT_SECS))
  /\ now' = NextTick
  /\ UNCHANGED <<claims, nonces, req, uses, first>>

NonceNext ==
  \/ \E r \in Reqs, p \in Proofs : \/ CheckAssertion(r, p)
                                   \/ CheckDpopProof(r, p)
                                   \/ CheckBridgeAuditEvent(r, p)
                                   \/ RecordReplay(r, p)
  \/ \E r \in Reqs : Cancel(r)
  \/ Cleanup
  \/ Tick

NonceSpec == NonceInit /\ [][NonceNext]_nonceVars

-----------------------------------------------------------------------------
(* Properties. *)

\* A proof is accepted again only at the far edge of its life: its iat was ahead
\* of the clock by at least SKEW less the request timeout when it was first
\* accepted.  Proofs of clients whose clock is right are accepted once.
ReplayOnlyOfFutureIat ==
  \A p \in Proofs :
    uses[p] > 1 => claims[p].iat - first[p].s >= SKEW - REQUEST_TIMEOUT_SECS

\* Whatever its iat, no proof is accepted more than twice.
AcceptedAtMostTwice == \A p \in Proofs : uses[p] <= 2

=============================================================================
