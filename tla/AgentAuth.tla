------------------------------- MODULE AgentAuth -------------------------------
(***************************************************************************)
(* Non-interactive agent access: agent credentials, their enrollment and   *)
(* revocation, and the access/refresh token pairs minted under them        *)
(* (services/api/src/lib.rs, docs/15).                                     *)
(*                                                                         *)
(* The API server runs every HTTP handler as an async task and sends each  *)
(* SQL statement of a handler to Postgres on its own, outside any explicit *)
(* transaction.  A statement is therefore the unit of atomicity here: one  *)
(* action per statement that changes state (or whose answer is used by a   *)
(* later statement), and a request slot r \in Reqs holds the local         *)
(* variables of one in-flight handler between its statements.              *)
(***************************************************************************)
EXTENDS Naturals, FiniteSets

CONSTANTS
  Aids,        \* agent identities (one per agent)
  Creds,       \* ids of agent_credentials rows
  Tokens,      \* ids of agent_tokens rows
  Jtis,        \* jti values of signed assertions
  Reqs,        \* in-flight handlers of the API server
  None,        \* "no value"
  AidOf,       \* the aid a credential is issued under
  ACTIVATION_MAX_FAILED_ATTEMPTS

ASSUME AidOfAssumption == AidOf \in [Creds -> Aids]
ASSUME NoneAssumption == None \notin (Creds \cup Tokens \cup Jtis)
ASSUME AttemptsAssumption == ACTIVATION_MAX_FAILED_ATTEMPTS \in Nat \ {0}
ASSUME ReqsAssumption == IsFiniteSet(Reqs)

VARIABLES
  agent,       \* does the agents/agent_identities row of an aid exist
  idKey,       \* does the aid have an agent_identity_keys row with status 'active'
  cred,        \* agent_credentials
  tok,         \* agent_tokens
  nonces,      \* replay_nonces rows of agent-auth assertions
  req          \* in-flight handlers

vars == <<agent, idKey, cred, tok, nonces, req>>

-----------------------------------------------------------------------------
(* Rows.  "free" ids were never inserted and "gone" rows were deleted; uuids *)
(* are not reused, so a gone id never returns.                               *)

Statuses == {"free", "pending", "active", "revoked", "compromised", "gone"}

\* enroll: is an enrollment secret stored, and has its 30 minutes passed.
\* revokedAt: NULL, within the 7 days of CREDENTIAL_PURGE_GRACE_DAYS, or older.
CredRow == [status    : Statuses,
            enroll    : {"none", "valid", "expired"},
            key       : BOOLEAN,
            attempts  : Nat,
            revokedAt : {"null", "recent", "old"}]

\* st "live" and "expired" are revoked_at IS NULL before and after
\* refresh_expires_at; whether a revoked row has expired is never asked.
\* family is the id of the family's first token (token_family_id); parent is
\* the row it was rotated from (audit detail rotated_from_token_id) and jti the
\* assertion it was minted from.  No statement reads parent, jti or flagged.
TokenRow == [st      : {"free", "live", "expired", "revoked", "gone"},
             cred    : Creds \cup {None},
             family  : Tokens \cup {None},
             parent  : Tokens \cup {None},
             jti     : Jtis \cup {None},
             flagged : BOOLEAN]

\* The next statement of an in-flight handler.
PCs == {"idle",
        "activate_verdict", "activate_key", "activate_update",
        "revoke_tokens", "shutdown_tokens", "purge_delete",
        "rotate_keys", "rotate_secret",
        "token_replay", "token_insert",
        "refresh_claim", "refresh_insert",
        "reuse_family", "reuse_credential", "reuse_tokens"}

Handler == [pc   : PCs,
            cred : Creds \cup {None},
            aid  : Aids \cup {None},
            tok  : Tokens \cup {None},
            jti  : Jtis \cup {None}]

Idle == [pc |-> "idle", cred |-> None, aid |-> None, tok |-> None, jti |-> None]

TypeOK ==
  /\ agent \in [Aids -> BOOLEAN]
  /\ idKey \in [Aids -> BOOLEAN]
  /\ cred \in [Creds -> CredRow]
  /\ tok \in [Tokens -> TokenRow]
  /\ nonces \subseteq Creds \X Jtis
  /\ req \in [Reqs -> Handler]

\* A row that is not in the table.
NoCred(status) == [status |-> status, enroll |-> "none", key |-> FALSE,
                   attempts |-> 0, revokedAt |-> "null"]

\* An agent exists (created with an active identity key for its first did);
\* it has no credential yet.
Init ==
  /\ agent = [a \in Aids |-> TRUE]
  /\ idKey = [a \in Aids |-> TRUE]
  /\ cred = [c \in Creds |-> NoCred("free")]
  /\ tok = [t \in Tokens |-> [st |-> "free", cred |-> None, family |-> None,
                              parent |-> None, jti |-> None, flagged |-> FALSE]]
  /\ nonces = {}
  /\ req = [r \in Reqs |-> Idle]

-----------------------------------------------------------------------------
(* Shared pieces of the handlers. *)

Exists(c) == cred[c].status \notin {"free", "gone"}

\* status IN ('pending', 'active')
Revocable(c) == cred[c].status \in {"pending", "active"}

Start(r, pc, c, t, j) ==
  /\ req[r] = Idle
  /\ req' = [req EXCEPT ![r] = [pc |-> pc, cred |-> c, aid |-> None, tok |-> t, jti |-> j]]

Goto(r, pc) == req' = [req EXCEPT ![r].pc = pc]

Finish(r) == req' = [req EXCEPT ![r] = Idle]

\* revoked_at IS NULL
Unrevoked(t) == tok[t].st \in {"live", "expired"}

\* UPDATE agent_tokens SET revoked_at = NOW() [, flagged_at = NOW()]
\* WHERE <t in S> AND revoked_at IS NULL
RevokeTokens(S, flag) ==
  tok' = [t \in Tokens |->
            IF t \in S /\ Unrevoked(t)
              THEN [tok[t] EXCEPT !.st = "revoked", !.flagged = @ \/ flag]
              ELSE tok[t]]

\* ON DELETE CASCADE from agent_credentials to agent_tokens
CascadeTokens(C) ==
  tok' = [t \in Tokens |->
            IF tok[t].cred \in C THEN [tok[t] EXCEPT !.st = "gone"] ELSE tok[t]]

TokensOf(C) == {t \in Tokens : tok[t].cred \in C}

-----------------------------------------------------------------------------
(* Human-initiated credential management. *)

\* POST /agent-credentials
CreateAgentCredential(c) ==
  /\ cred[c].status = "free"
  /\ agent[AidOf[c]]
  /\ cred' = [cred EXCEPT ![c].status = "pending", ![c].enroll = "valid"]
  /\ UNCHANGED <<agent, idKey, tok, nonces, req>>

\* DELETE /agent-credentials/:id, first the credential row ...
RevokeAgentCredential(r, c) ==
  /\ Revocable(c)
  /\ Start(r, "revoke_tokens", c, None, None)
  /\ cred' = [cred EXCEPT ![c].status = "revoked", ![c].revokedAt = "recent"]
  /\ UNCHANGED <<agent, idKey, tok, nonces>>

\* ... then its tokens; a database error here is swallowed.
RevokeAgentCredentialTokens(r) ==
  /\ req[r].pc = "revoke_tokens"
  /\ RevokeTokens(TokensOf({req[r].cred}), FALSE)
  /\ Finish(r)
  /\ UNCHANGED <<agent, idKey, cred, nonces>>

\* POST /agents/:id/emergency-shutdown: every credential of the aid ...
AgentEmergencyShutdown(r, a) ==
  /\ agent[a]
  /\ req[r] = Idle
  /\ cred' = [c \in Creds |->
                IF AidOf[c] = a /\ Revocable(c)
                  THEN [cred[c] EXCEPT !.status = "revoked", !.revokedAt = "recent"]
                  ELSE cred[c]]
  /\ req' = [req EXCEPT ![r] = [Idle EXCEPT !.pc = "shutdown_tokens", !.aid = a]]
  /\ UNCHANGED <<agent, idKey, tok, nonces>>

\* ... then every token of the aid's credentials.
AgentEmergencyShutdownTokens(r) ==
  /\ req[r].pc = "shutdown_tokens"
  /\ RevokeTokens(TokensOf({c \in Creds : AidOf[c] = req[r].aid}), FALSE)
  /\ Finish(r)
  /\ UNCHANGED <<agent, idKey, cred, nonces>>

Purgeable(c) == cred[c].status = "revoked" /\ cred[c].revokedAt = "old"

\* POST /agent-credentials/:id/purge: eligibility is read and the purge audited ...
PurgeAgentCredential(r, c) ==
  /\ Purgeable(c)
  /\ Start(r, "purge_delete", c, None, None)
  /\ UNCHANGED <<agent, idKey, cred, tok, nonces>>

\* ... and the DELETE re-checks it (409 purge_raced when nothing matched).
PurgeAgentCredentialDelete(r) ==
  /\ req[r].pc = "purge_delete"
  /\ IF Purgeable(req[r].cred)
       THEN /\ cred' = [cred EXCEPT ![req[r].cred] = NoCred("gone")]
            /\ CascadeTokens({req[r].cred})
       ELSE UNCHANGED <<cred, tok>>
  /\ Finish(r)
  /\ UNCHANGED <<agent, idKey, nonces>>

\* POST /agent-credentials/:id/rotate: the status check ...
RotateAgentCredential(r, c) ==
  /\ cred[c].status = "active"
  /\ Start(r, "rotate_keys", c, None, None)
  /\ UNCHANGED <<agent, idKey, cred, tok, nonces>>

\* ... 'active' identity keys become 'rotating' (an error is swallowed) ...
RotateAgentCredentialKeys(r) ==
  /\ req[r].pc = "rotate_keys"
  /\ \/ idKey' = [idKey EXCEPT ![AidOf[req[r].cred]] = FALSE]
     \/ UNCHANGED idKey
  /\ Goto(r, "rotate_secret")
  /\ UNCHANGED <<agent, cred, tok, nonces>>

\* Mutant: the credential takes the identity keys' status, which its own
\* CHECK constraint does not know.
RotateSecretRotating(r) ==
  /\ req[r].pc = "rotate_secret"
  /\ LET c == req[r].cred
     IN  cred' = IF Exists(c)
                   THEN [cred EXCEPT ![c].status = "rotating", ![c].enroll = "valid",
                                     ![c].key = FALSE]
                   ELSE cred
  /\ Finish(r)
  /\ UNCHANGED <<agent, idKey, tok, nonces>>

\* ... and a fresh enrollment secret replaces the signing key.
RotateAgentCredentialSecret(r) ==
  /\ req[r].pc = "rotate_secret"
  /\ LET c == req[r].cred
     IN  cred' = IF Exists(c)
                   THEN [cred EXCEPT ![c].enroll = "valid", ![c].key = FALSE]
                   ELSE cred
  /\ Finish(r)
  /\ UNCHANGED <<agent, idKey, tok, nonces>>

\* DELETE /agents/:id cascades to identities, keys, credentials and tokens.
DeleteAgent(a) ==
  /\ agent[a]
  /\ agent' = [agent EXCEPT ![a] = FALSE]
  /\ idKey' = [idKey EXCEPT ![a] = FALSE]
  /\ cred' = [c \in Creds |->
                IF AidOf[c] = a /\ Exists(c) THEN NoCred("gone") ELSE cred[c]]
  /\ CascadeTokens({c \in Creds : AidOf[c] = a})
  /\ UNCHANGED <<nonces, req>>

-----------------------------------------------------------------------------
(* Enrollment: the signer daemon activates a pending credential. *)

\* Mutant: the lookup forgets AND status = 'pending'.
CanActivateAnyStatus(c) == Exists(c) /\ cred[c].enroll = "valid"

\* The SELECT ... WHERE id = $1 AND status = 'pending' and the expiry check.
CanActivate(c) == cred[c].status = "pending" /\ cred[c].enroll = "valid"

ActivateAgentCredential(r, c) ==
  /\ CanActivate(c)
  /\ Start(r, "activate_verdict", c, None, None)
  /\ UNCHANGED <<agent, idKey, cred, tok, nonces>>

\* Mutant: the counter is bumped but the credential is not burned.
RecordFailedAttemptNoBurn(r) ==
  /\ req[r].pc = "activate_verdict"
  /\ cred' = IF ~Exists(req[r].cred) THEN cred
             ELSE [cred EXCEPT ![req[r].cred].attempts = @ + 1]
  /\ Finish(r)
  /\ UNCHANGED <<agent, idKey, tok, nonces>>

\* Wrong secret or proof: one UPDATE bumps the counter and burns the
\* credential at the threshold, whatever its status is by now.
RecordFailedAttempt(r) ==
  /\ req[r].pc = "activate_verdict"
  /\ LET c == req[r].cred
         n == cred[c].attempts + 1
         burn == n >= ACTIVATION_MAX_FAILED_ATTEMPTS
     IN  cred' = IF ~Exists(c) THEN cred
                 ELSE [cred EXCEPT
                   ![c].attempts  = n,
                   ![c].status    = IF burn THEN "revoked" ELSE @,
                   ![c].revokedAt = IF burn /\ @ = "null" THEN "recent" ELSE @,
                   ![c].enroll    = IF burn THEN "none" ELSE @]
  /\ Finish(r)
  /\ UNCHANGED <<agent, idKey, tok, nonces>>

\* Right secret and proof.
ActivationVerified(r) ==
  /\ req[r].pc = "activate_verdict"
  /\ Goto(r, "activate_key")
  /\ UNCHANGED <<agent, idKey, cred, tok, nonces>>

\* INSERT INTO agent_identity_keys ... ON CONFLICT (did) DO NOTHING: a did seen
\* before keeps its row and status.  The insert fails without the aid's row.
ActivateIdentityKey(r) ==
  /\ req[r].pc = "activate_key"
  /\ IF agent[AidOf[req[r].cred]]
       THEN /\ \/ idKey' = [idKey EXCEPT ![AidOf[req[r].cred]] = TRUE]
               \/ UNCHANGED idKey
            /\ Goto(r, "activate_update")
       ELSE /\ UNCHANGED idKey
            /\ Finish(r)
  /\ UNCHANGED <<agent, cred, tok, nonces>>

\* UPDATE agent_credentials SET status = 'active', ... WHERE id = $2
ActivateUpdate(r) ==
  /\ req[r].pc = "activate_update"
  /\ LET c == req[r].cred
     IN  cred' = IF Exists(c)
                   THEN [cred EXCEPT ![c].status = "active", ![c].key = TRUE,
                                     ![c].enroll = "none", ![c].attempts = 0]
                   ELSE cred
  /\ Finish(r)
  /\ UNCHANGED <<agent, idKey, tok, nonces>>

-----------------------------------------------------------------------------
(* POST /agent-auth/token: a signed assertion for a token pair. *)

\* Mutant: the credential lookup forgets c.status = 'active'.
AgentAuthTokenAnyStatus(r, c, j) ==
  /\ Exists(c)
  /\ idKey[AidOf[c]]
  /\ Start(r, "token_replay", c, None, j)
  /\ UNCHANGED <<agent, idKey, cred, tok, nonces>>

\* The credential must be active and its aid must have an active identity key;
\* the signature is then verified with the credential's key or, while that is
\* NULL, with the identity key.
AgentAuthToken(r, c, j) ==
  /\ cred[c].status = "active"
  /\ idKey[AidOf[c]]
  /\ Start(r, "token_replay", c, None, j)
  /\ UNCHANGED <<agent, idKey, cred, tok, nonces>>

\* Mutant: ON CONFLICT DO UPDATE, so that a row always comes back.
AgentAuthTokenReplayUpsert(r) ==
  /\ req[r].pc = "token_replay"
  /\ nonces' = nonces \cup {<<req[r].cred, req[r].jti>>}
  /\ Goto(r, "token_insert")
  /\ UNCHANGED <<agent, idKey, cred, tok>>

\* INSERT INTO replay_nonces ... ON CONFLICT DO NOTHING; a known jti is refused.
AgentAuthTokenReplay(r) ==
  /\ req[r].pc = "token_replay"
  /\ LET n == <<req[r].cred, req[r].jti>>
     IN  IF n \in nonces
           THEN /\ UNCHANGED nonces
                /\ Finish(r)
           ELSE /\ nonces' = nonces \cup {n}
                /\ Goto(r, "token_insert")
  /\ UNCHANGED <<agent, idKey, cred, tok>>

\* INSERT INTO agent_tokens with a new family; the foreign key needs the
\* credential row, and nothing looks at its status again.
AgentAuthTokenInsert(r, t) ==
  /\ req[r].pc = "token_insert"
  /\ Exists(req[r].cred)
  /\ tok[t].st = "free"
  /\ tok' = [tok EXCEPT ![t] =
               [st |-> "live", cred |-> req[r].cred, family |-> t, parent |-> None,
                jti |-> req[r].jti, flagged |-> FALSE]]
  /\ Finish(r)
  /\ UNCHANGED <<agent, idKey, cred, nonces>>

-----------------------------------------------------------------------------
(* POST /agent-auth/refresh: rotation of a refresh token. *)

\* The SELECT of token and credential: a revoked token is a reuse; otherwise
\* the credential must be active and the token unexpired (a missing or invalid
\* DPoP proof also ends the request, see Cancel).
AgentAuthRefresh(r, t) ==
  /\ \/ /\ tok[t].st = "revoked"
        /\ Start(r, "reuse_family", tok[t].cred, t, None)
     \/ /\ tok[t].st = "live"
        /\ cred[tok[t].cred].status = "active"
        /\ Start(r, "refresh_claim", tok[t].cred, t, None)
  /\ UNCHANGED <<agent, idKey, cred, tok, nonces>>

\* Mutant: the rotation UPDATE without AND revoked_at IS NULL.
AgentAuthRefreshClaimAlways(r) ==
  /\ req[r].pc = "refresh_claim"
  /\ tok' = [tok EXCEPT ![req[r].tok].st = IF @ = "gone" THEN @ ELSE "revoked"]
  /\ Goto(r, "refresh_insert")
  /\ UNCHANGED <<agent, idKey, cred, nonces>>

\* UPDATE ... WHERE id = $1 AND revoked_at IS NULL RETURNING id: one of several
\* refreshes of the same token wins; for the others the token was reused.
AgentAuthRefreshClaim(r) ==
  /\ req[r].pc = "refresh_claim"
  /\ IF Unrevoked(req[r].tok)
       THEN /\ tok' = [tok EXCEPT ![req[r].tok].st = "revoked"]
            /\ Goto(r, "refresh_insert")
       ELSE /\ UNCHANGED tok
            /\ Goto(r, "reuse_family")
  /\ UNCHANGED <<agent, idKey, cred, nonces>>

\* INSERT of the successor into the same family.
AgentAuthRefreshInsert(r, t) ==
  /\ req[r].pc = "refresh_insert"
  /\ Exists(req[r].cred)
  /\ tok[t].st = "free"
  /\ tok' = [tok EXCEPT ![t] =
               [st |-> "live", cred |-> req[r].cred, family |-> tok[req[r].tok].family,
                parent |-> req[r].tok, jti |-> None, flagged |-> FALSE]]
  /\ Finish(r)
  /\ UNCHANGED <<agent, idKey, cred, nonces>>

\* revoke_refresh_family_for_reuse: the family, the credential, the remaining
\* tokens of the credential.  A database error in one statement is swallowed
\* and the next one still runs.
RevokeFamilyForReuse(r) ==
  /\ req[r].pc = "reuse_family"
  /\ \/ RevokeTokens({t \in Tokens : tok[t].family = tok[req[r].tok].family}, TRUE)
     \/ UNCHANGED tok
  /\ Goto(r, "reuse_credential")
  /\ UNCHANGED <<agent, idKey, cred, nonces>>

CompromiseForReuse(r) ==
  /\ req[r].pc = "reuse_credential"
  /\ LET c == req[r].cred
     IN  \/ /\ Exists(c) /\ cred[c].status # "compromised"
            /\ cred' = [cred EXCEPT ![c].status = "compromised", ![c].revokedAt = "recent"]
         \/ UNCHANGED cred
  /\ Goto(r, "reuse_tokens")
  /\ UNCHANGED <<agent, idKey, tok, nonces>>

RevokeCredentialTokensForReuse(r) ==
  /\ req[r].pc = "reuse_tokens"
  /\ RevokeTokens(TokensOf({req[r].cred}), TRUE)
  /\ Finish(r)
  /\ UNCHANGED <<agent, idKey, cred, nonces>>

\* POST /agent-auth/revoke: the agent gives up one token pair.
AgentAuthRevoke(t) ==
  /\ Unrevoked(t)
  /\ RevokeTokens({t}, FALSE)
  /\ UNCHANGED <<agent, idKey, cred, nonces, req>>

-----------------------------------------------------------------------------
(* Cancellation and time. *)

\* A handler stops between two statements: REQUEST_TIMEOUT_SECS passes, the
\* client disconnects, the process dies, a statement fails, or a check that
\* writes nothing (a malformed proof, a stale iat, an unknown scope) refuses.
Cancel(r) ==
  /\ req[r] # Idle
  /\ Finish(r)
  /\ UNCHANGED <<agent, idKey, cred, tok, nonces>>

EnrollmentExpires(c) ==
  /\ Exists(c)
  /\ cred[c].enroll = "valid"
  /\ cred' = [cred EXCEPT ![c].enroll = "expired"]
  /\ UNCHANGED <<agent, idKey, tok, nonces, req>>

RefreshTokenExpires(t) ==
  /\ tok[t].st = "live"
  /\ tok' = [tok EXCEPT ![t].st = "expired"]
  /\ UNCHANGED <<agent, idKey, cred, nonces, req>>

GracePeriodElapses(c) ==
  /\ Exists(c)
  /\ cred[c].revokedAt = "recent"
  /\ cred' = [cred EXCEPT ![c].revokedAt = "old"]
  /\ UNCHANGED <<agent, idKey, tok, nonces, req>>

-----------------------------------------------------------------------------
HumanStep ==
  \/ \E c \in Creds : CreateAgentCredential(c)
  \/ \E a \in Aids : DeleteAgent(a)
  \/ \E r \in Reqs :
       \/ \E c \in Creds : \/ RevokeAgentCredential(r, c)
                           \/ PurgeAgentCredential(r, c)
                           \/ RotateAgentCredential(r, c)
       \/ \E a \in Aids : AgentEmergencyShutdown(r, a)
       \/ RevokeAgentCredentialTokens(r)
       \/ AgentEmergencyShutdownTokens(r)
       \/ PurgeAgentCredentialDelete(r)
       \/ RotateAgentCredentialKeys(r)
       \/ RotateAgentCredentialSecret(r)

EnrollmentStep ==
  \E r \in Reqs :
    \/ \E c \in Creds : ActivateAgentCredential(r, c)
    \/ RecordFailedAttempt(r)
    \/ ActivationVerified(r)
    \/ ActivateIdentityKey(r)
    \/ ActivateUpdate(r)

TokenStep ==
  \/ \E t \in Tokens : AgentAuthRevoke(t)
  \/ \E r \in Reqs :
       \/ \E c \in Creds, j \in Jtis : AgentAuthToken(r, c, j)
       \/ AgentAuthTokenReplay(r)
       \/ \E t \in Tokens : \/ AgentAuthTokenInsert(r, t)
                            \/ AgentAuthRefresh(r, t)
                            \/ AgentAuthRefreshInsert(r, t)
       \/ AgentAuthRefreshClaim(r)
       \/ RevokeFamilyForReuse(r)
       \/ CompromiseForReuse(r)
       \/ RevokeCredentialTokensForReuse(r)

EnvironmentStep ==
  \/ \E r \in Reqs : Cancel(r)
  \/ \E c \in Creds : EnrollmentExpires(c) \/ GracePeriodElapses(c)
  \/ \E t \in Tokens : RefreshTokenExpires(t)

Next == HumanStep \/ EnrollmentStep \/ TokenStep \/ EnvironmentStep

Spec == Init /\ [][Next]_vars

-----------------------------------------------------------------------------
(* Properties. *)

\* Refresh rotation never forks a family: at most one token of a token_family_id
\* has revoked_at IS NULL, however many refreshes of it run at once
\* (agent_auth_refresh, "closes the double-spend window").
OneLiveTokenPerFamily ==
  \A t, u \in Tokens :
    /\ Unrevoked(t)
    /\ Unrevoked(u)
    /\ tok[t].family = tok[u].family
    => t = u

\* A refresh token is spent at most once: no two rows were rotated from the same
\* row, even when the first rotation's response is lost and the token retried.
RefreshTokenSpentOnce ==
  \A t, u \in Tokens : tok[t].parent # None /\ tok[t].parent = tok[u].parent => t = u

\* One signed assertion mints at most one token family, also when the same
\* assertion is submitted by several requests at once (jti replay rejection of
\* agent_auth_token).  Rows of replay_nonces are kept for ever here; what their
\* expiry means is the subject of ReplayNonces.
OneFamilyPerAssertion ==
  \A t, u \in Tokens :
    tok[t].jti # None /\ tok[t].jti = tok[u].jti /\ tok[t].cred = tok[u].cred => t = u

\* No live token hangs under a credential that was never activated, nor under a
\* deleted one: the row a token points to is active or has been.
LiveTokenUnderActivatedCredential ==
  \A t \in Tokens :
    Unrevoked(t) => cred[tok[t].cred].status \in {"active", "revoked", "compromised"}

\* Wrong activations overshoot ACTIVATION_MAX_FAILED_ATTEMPTS only by the
\* requests that had passed the status check before the credential was burned:
\* the counter and the verdicts still outstanding stay below the threshold plus
\* the number of concurrent requests (record_failed_attempt).
AttemptsOvershootBounded ==
  \A c \in Creds :
    cred[c].attempts
      + Cardinality({r \in Reqs : req[r].pc = "activate_verdict" /\ req[r].cred = c})
      < ACTIVATION_MAX_FAILED_ATTEMPTS + Cardinality(Reqs)

ActivationInFlight(c) ==
  \E r \in Reqs :
    req[r].cred = c /\ req[r].pc \in {"activate_verdict", "activate_key", "activate_update"}

\* The credential is revoked or compromised and no activation that read it as
\* pending is still running.
SettledDown(c) ==
  cred[c].status \in {"revoked", "compromised"} /\ ~ActivationInFlight(c)

\* Once no older activation is in flight a revoked or compromised credential
\* stays down for good, until its row is deleted: revoke, emergency shutdown,
\* auto-revoke and reuse detection are final from then on.
SettledDownIsFinal ==
  [][\A c \in Creds : SettledDown(c) => (SettledDown(c) \/ cred[c].status = "gone")']_vars

=============================================================================
