--------------------------- MODULE AgentAuthProofs ---------------------------
(***************************************************************************)
(* Proofs about AgentAuth, for any number of agents, credentials, tokens,  *)
(* assertions and concurrent requests.                                     *)
(*                                                                         *)
(* The thirty actions are reduced to five kinds of step (Kind), and each   *)
(* inductive invariant is shown to survive each kind:                      *)
(*   Quiet             no row is inserted or un-revoked, no nonce recorded *)
(*   Claim             a refresh wins the conditional revoke of its token  *)
(*   Replay            a fresh assertion is recorded                       *)
(*   InsertRoot        a new family's first token is inserted              *)
(*   InsertSuccessor   the successor of a claimed token is inserted        *)
(***************************************************************************)
EXTENDS AgentAuth, FiniteSetTheorems, TLAPS

\* The statements of POST /agent-auth/refresh after its SELECT.
RefreshPCs == {"refresh_claim", "refresh_insert",
               "reuse_family", "reuse_credential", "reuse_tokens"}

\* The statements that insert an agent_tokens row.
InsertPCs == {"token_insert", "refresh_insert"}

\* What a handler's local variables hold at each of its statements.
WellFormed(h) ==
  /\ h.pc \notin {"idle", "shutdown_tokens"} => h.cred \in Creds
  /\ h.pc = "shutdown_tokens" => h.aid \in Aids
  /\ h.pc \in {"token_replay", "token_insert"} => h.jti \in Jtis
  /\ h.pc \in RefreshPCs => h.tok \in Tokens

\* Every in-flight handler is well formed.
HandlerInv == \A r \in Reqs : WellFormed(req[r])

\* A row of agent_tokens that was never inserted holds nothing; one that was
\* names its credential.
RowInv ==
  \A t \in Tokens :
    /\ tok[t].st = "free" => /\ tok[t].cred = None
                            /\ tok[t].family = None
                            /\ tok[t].parent = None
                            /\ tok[t].jti = None
    /\ tok[t].st # "free" => tok[t].cred \in Creds

\* The inductive strengthening of TypeOK.
TInv == TypeOK /\ HandlerInv /\ RowInv

\* A handler that takes its first statement is well formed; the others stay.
LEMMA StartLemma ==
  ASSUME TInv, NEW r \in Reqs, NEW pc \in PCs, NEW c \in Creds \cup {None},
         NEW t \in Tokens \cup {None}, NEW j \in Jtis \cup {None},
         Start(r, pc, c, t, j),
         WellFormed([pc |-> pc, cred |-> c, aid |-> None, tok |-> t, jti |-> j])
  PROVE  /\ req' \in [Reqs -> Handler]
         /\ HandlerInv'
         /\ req'[r] = [pc |-> pc, cred |-> c, aid |-> None, tok |-> t, jti |-> j]
         /\ \A s \in Reqs : s # r => req'[s] = req[s]
<1> DEFINE h == [pc |-> pc, cred |-> c, aid |-> None, tok |-> t, jti |-> j]
<1>1. h \in Handler
  BY DEF Handler
<1>2. req' = [req EXCEPT ![r] = h] /\ req \in [Reqs -> Handler]
  BY DEF Start, TInv, TypeOK
<1>3. HandlerInv
  BY DEF TInv
<1> HIDE DEF h
<1>4. req' \in [Reqs -> Handler] /\ req'[r] = h /\ \A s \in Reqs : s # r => req'[s] = req[s]
  BY <1>1, <1>2
<1>5. WellFormed(h)
  BY DEF h
<1>6. \A s \in Reqs : WellFormed(req'[s])
  BY <1>3, <1>4, <1>5 DEF HandlerInv
<1> QED
  BY <1>4, <1>6 DEF HandlerInv, WellFormed, RefreshPCs, h

\* A handler that ends leaves a well-formed idle slot; the others stay.
LEMMA FinishLemma ==
  ASSUME TInv, NEW r \in Reqs, Finish(r)
  PROVE  /\ req' \in [Reqs -> Handler]
         /\ HandlerInv'
         /\ req'[r] = Idle
         /\ \A s \in Reqs : s # r => req'[s] = req[s]
<1>1. Idle \in Handler /\ Idle.pc = "idle"
  BY DEF Handler, PCs, Idle
<1>2. req' = [req EXCEPT ![r] = Idle] /\ req \in [Reqs -> Handler]
  BY DEF Finish, TInv, TypeOK
<1>3. req' \in [Reqs -> Handler] /\ req'[r] = Idle /\ \A s \in Reqs : s # r => req'[s] = req[s]
  BY <1>1, <1>2
<1>4. \A s \in Reqs : WellFormed(req'[s])
  BY <1>1, <1>3 DEF TInv, HandlerInv, WellFormed, RefreshPCs
<1> QED
  BY <1>3, <1>4 DEF HandlerInv, WellFormed, RefreshPCs

\* A handler that moves to its next statement keeps its local variables.
LEMMA GotoLemma ==
  ASSUME TInv, NEW r \in Reqs, NEW pc \in PCs, Goto(r, pc),
         WellFormed([req[r] EXCEPT !.pc = pc])
  PROVE  /\ req' \in [Reqs -> Handler]
         /\ HandlerInv'
         /\ req'[r] = [req[r] EXCEPT !.pc = pc]
         /\ \A s \in Reqs : s # r => req'[s] = req[s]
<1> DEFINE h == [req[r] EXCEPT !.pc = pc]
<1>1. req \in [Reqs -> Handler]
  BY DEF TInv, TypeOK
<1>2. h \in Handler
  BY <1>1 DEF Handler
<1>3. req' = [req EXCEPT ![r] = h]
  BY DEF Goto
<1>4. WellFormed(h)
  OBVIOUS
<1> HIDE DEF h
<1>5. req' \in [Reqs -> Handler] /\ req'[r] = h /\ \A s \in Reqs : s # r => req'[s] = req[s]
  BY <1>1, <1>2, <1>3
<1>6. \A s \in Reqs : WellFormed(req'[s])
  BY <1>4, <1>5 DEF TInv, HandlerInv
<1> QED
  BY <1>5, <1>6 DEF HandlerInv, WellFormed, RefreshPCs, h

\* Same row apart from st, flagged.
SameRow(t) ==
  /\ tok'[t].cred = tok[t].cred
  /\ tok'[t].family = tok[t].family
  /\ tok'[t].parent = tok[t].parent
  /\ tok'[t].jti = tok[t].jti

\* UPDATE agent_tokens ... WHERE revoked_at IS NULL only revokes.
LEMMA RevokeTokensLemma ==
  ASSUME TInv, NEW S, NEW flag \in BOOLEAN, RevokeTokens(S, flag)
  PROVE  /\ tok' \in [Tokens -> TokenRow]
         /\ \A t \in Tokens :
              /\ SameRow(t)
              /\ tok'[t].st = IF t \in S /\ Unrevoked(t) THEN "revoked" ELSE tok[t].st
<1> DEFINE Row(t) == [tok[t] EXCEPT !.st = "revoked", !.flagged = @ \/ flag]
<1>1. tok \in [Tokens -> TokenRow]
  BY DEF TInv, TypeOK
<1>2. ASSUME NEW t \in Tokens
      PROVE  /\ Row(t) \in TokenRow
             /\ Row(t).st = "revoked"
             /\ Row(t).cred = tok[t].cred
             /\ Row(t).family = tok[t].family
             /\ Row(t).parent = tok[t].parent
             /\ Row(t).jti = tok[t].jti
  BY <1>1 DEF TokenRow
<1>3. tok' = [t \in Tokens |-> IF t \in S /\ Unrevoked(t) THEN Row(t) ELSE tok[t]]
  BY DEF RevokeTokens
<1> HIDE DEF Row
<1> QED
  BY <1>1, <1>2, <1>3 DEF SameRow

\* ON DELETE CASCADE only turns the rows of the credentials into gone rows.
LEMMA CascadeTokensLemma ==
  ASSUME TInv, NEW C, CascadeTokens(C)
  PROVE  /\ tok' \in [Tokens -> TokenRow]
         /\ \A t \in Tokens :
              /\ SameRow(t)
              /\ tok'[t].st = IF tok[t].cred \in C THEN "gone" ELSE tok[t].st
  BY DEF TInv, TypeOK, TokenRow, CascadeTokens, SameRow
\* No agent_tokens row is inserted or un-revoked.
Demoted ==
  \A t \in Tokens :
    /\ SameRow(t)
    /\ tok'[t].st = "free" <=> tok[t].st = "free"
    /\ Unrevoked(t)' => Unrevoked(t)

\* No handler arrives at an INSERT, and one that arrives at a statement of the
\* refresh handler works on an existing token and its credential.
Calm ==
  \A s \in Reqs :
    /\ req'[s].pc \in InsertPCs => req'[s] = req[s]
    /\ req'[s].pc \in RefreshPCs =>
         \/ /\ req[s].pc \in RefreshPCs
            /\ req'[s].tok = req[s].tok
            /\ req'[s].cred = req[s].cred
         \/ /\ tok[req'[s].tok].st # "free"
            /\ tok[req'[s].tok].cred = req'[s].cred

\* Neither, and no assertion is recorded.
Quiet == Demoted /\ Calm /\ nonces' = nonces

\* A step that leaves agent_tokens alone inserts and un-revokes nothing.
LEMMA UnchangedTokens ==
  ASSUME TInv, UNCHANGED tok
  PROVE  tok' \in [Tokens -> TokenRow] /\ Demoted
BY DEF TInv, TypeOK, Demoted, SameRow, Unrevoked

\* A revoking UPDATE inserts and un-revokes nothing.
LEMMA RevokedTokens ==
  ASSUME TInv, NEW S, NEW flag \in BOOLEAN, RevokeTokens(S, flag)
  PROVE  tok' \in [Tokens -> TokenRow] /\ Demoted
<1>1. tok' \in [Tokens -> TokenRow]
  BY RevokeTokensLemma
<1>2. ASSUME NEW t \in Tokens
      PROVE  /\ SameRow(t)
             /\ tok'[t].st = "free" <=> tok[t].st = "free"
             /\ Unrevoked(t)' => Unrevoked(t)
  BY RevokeTokensLemma DEF Unrevoked
<1> QED
  BY <1>1, <1>2 DEF Demoted

\* A cascading DELETE inserts and un-revokes nothing.
LEMMA CascadedTokens ==
  ASSUME TInv, NEW C \in SUBSET Creds, CascadeTokens(C)
  PROVE  tok' \in [Tokens -> TokenRow] /\ Demoted
<1>1. tok' \in [Tokens -> TokenRow]
  BY CascadeTokensLemma
<1>2. ASSUME NEW t \in Tokens
      PROVE  /\ SameRow(t)
             /\ tok'[t].st = "free" <=> tok[t].st = "free"
             /\ Unrevoked(t)' => Unrevoked(t)
  BY CascadeTokensLemma, NoneAssumption DEF Unrevoked, TInv, RowInv
<1> QED
  BY <1>1, <1>2 DEF Demoted

\* A step of no handler is calm.
LEMMA UnchangedHandlers ==
  ASSUME TInv, UNCHANGED req
  PROVE  req' \in [Reqs -> Handler] /\ HandlerInv' /\ Calm
<1>1. req' \in [Reqs -> Handler] /\ HandlerInv'
  BY DEF TInv, TypeOK, HandlerInv, WellFormed
<1>2. Calm
  BY DEF Calm
<1> QED
  BY <1>1, <1>2

\* The end of a handler is calm.
LEMMA FinishIsCalm ==
  ASSUME TInv, NEW r \in Reqs, Finish(r)
  PROVE  req' \in [Reqs -> Handler] /\ HandlerInv' /\ Calm
<1>1. Idle.pc \notin InsertPCs \cup RefreshPCs
  BY DEF Idle, InsertPCs, RefreshPCs
<1> QED
  BY <1>1, FinishLemma DEF Calm

\* The first statement of a handler other than refresh is calm.
LEMMA StartIsCalm ==
  ASSUME TInv, NEW r \in Reqs, NEW pc \in PCs \ (InsertPCs \cup RefreshPCs \cup {"shutdown_tokens"}),
         NEW c \in Creds, NEW j \in Jtis \cup {None}, Start(r, pc, c, None, j),
         pc = "token_replay" => j \in Jtis
  PROVE  req' \in [Reqs -> Handler] /\ HandlerInv' /\ Calm
<1> DEFINE h == [pc |-> pc, cred |-> c, aid |-> None, tok |-> None, jti |-> j]
<1>1. WellFormed(h)
  BY DEF WellFormed, InsertPCs, RefreshPCs, PCs
<1>2. req' \in [Reqs -> Handler] /\ HandlerInv' /\ req'[r] = h
      /\ \A s \in Reqs : s # r => req'[s] = req[s]
  BY <1>1, StartLemma
<1> QED
  BY <1>2 DEF Calm

\* Moving on to a statement that is no INSERT is calm.
LEMMA GotoIsCalm ==
  ASSUME TInv, NEW r \in Reqs, NEW pc \in PCs \ InsertPCs, Goto(r, pc),
         pc \in RefreshPCs => req[r].pc \in RefreshPCs,
         pc \notin {"shutdown_tokens", "token_replay"}, req[r].cred \in Creds
  PROVE  req' \in [Reqs -> Handler] /\ HandlerInv' /\ Calm
<1> DEFINE h == [req[r] EXCEPT !.pc = pc]
<1>0. req[r] \in Handler /\ WellFormed(req[r])
  BY DEF TInv, TypeOK, HandlerInv
<1>1. h.pc = pc /\ h.cred = req[r].cred /\ h.tok = req[r].tok /\ h.jti = req[r].jti
  BY <1>0 DEF Handler
<1>2. WellFormed(h)
  BY <1>0, <1>1 DEF WellFormed, InsertPCs, RefreshPCs
<1>3. req' \in [Reqs -> Handler] /\ HandlerInv' /\ req'[r] = h
      /\ \A s \in Reqs : s # r => req'[s] = req[s]
  BY <1>2, GotoLemma
<1> QED
  BY <1>1, <1>3 DEF Calm
\* The parts of TypeOK about the tables that hold no token.
RestTypeOK ==
  /\ agent \in [Aids -> BOOLEAN]
  /\ idKey \in [Aids -> BOOLEAN]
  /\ cred \in [Creds -> CredRow]

\* A quiet step from its parts: the other tables, the tokens, the handlers.
LEMMA QuietAssembly ==
  ASSUME TInv, RestTypeOK', nonces' = nonces,
         tok' \in [Tokens -> TokenRow], Demoted,
         req' \in [Reqs -> Handler], HandlerInv', Calm
  PROVE  TInv' /\ Quiet
<1>1. TypeOK'
  BY DEF RestTypeOK, TInv, TypeOK
<1>2. RowInv'
  BY DEF TInv, RowInv, Demoted, SameRow
<1> QED
  BY <1>1, <1>2 DEF TInv, Quiet

\* The row a DELETE leaves behind is a row.
LEMMA NoCredType == NoCred("gone") \in CredRow
BY DEF NoCred, CredRow, Statuses

\* The row that a revocation leaves behind.
RevokedCred(row) == [row EXCEPT !.status = "revoked", !.revokedAt = "recent"]

\* It is a row.
LEMMA RevokedCredType ==
  ASSUME NEW row \in CredRow
  PROVE  RevokedCred(row) \in CredRow
BY DEF RevokedCred, CredRow, Statuses

\* The row of a new credential is a row.
LEMMA IssuedCredType ==
  ASSUME NEW row \in CredRow
  PROVE  [row EXCEPT !.status = "pending", !.enroll = "valid"] \in CredRow
BY DEF CredRow, Statuses

\* The row of a rotated credential is a row.
LEMMA RotatedCredType ==
  ASSUME NEW row \in CredRow
  PROVE  [row EXCEPT !.enroll = "valid", !.key = FALSE] \in CredRow
BY DEF CredRow

\* The row of an activated credential is a row.
LEMMA ActivatedCredType ==
  ASSUME NEW row \in CredRow
  PROVE  [row EXCEPT !.status = "active", !.key = TRUE, !.enroll = "none", !.attempts = 0] \in CredRow
BY DEF CredRow, Statuses

\* The row after n wrong activations, burned or not.
FailedCred(row, n, burn) ==
  [row EXCEPT !.attempts  = n,
              !.status    = IF burn THEN "revoked" ELSE @,
              !.revokedAt = IF burn /\ @ = "null" THEN "recent" ELSE @,
              !.enroll    = IF burn THEN "none" ELSE @]

\* It is a row.
LEMMA FailedCredType ==
  ASSUME NEW row \in CredRow, NEW n \in Nat, NEW burn \in BOOLEAN
  PROVE  FailedCred(row, n, burn) \in CredRow
<1>1. CASE burn
  BY <1>1 DEF FailedCred, CredRow, Statuses
<1>2. CASE ~burn
  BY <1>2 DEF FailedCred, CredRow, Statuses
<1> QED
  BY <1>1, <1>2

\* Credential management by the owner is quiet.
LEMMA HumanStepQuiet ==
  ASSUME TInv, HumanStep
  PROVE  TInv' /\ Quiet
<1> USE AidOfAssumption DEF TInv, TypeOK, RestTypeOK
<1>1. ASSUME NEW c \in Creds, CreateAgentCredential(c)
      PROVE  TInv' /\ Quiet
  <2>0. [cred[c] EXCEPT !.status = "pending", !.enroll = "valid"] \in CredRow
    BY IssuedCredType
  <2>1. RestTypeOK' /\ nonces' = nonces
    BY <1>1, <2>0 DEF CreateAgentCredential
  <2> QED
    BY <1>1, <2>1, UnchangedTokens, UnchangedHandlers, QuietAssembly DEF CreateAgentCredential
<1>2. ASSUME NEW a \in Aids, DeleteAgent(a)
      PROVE  TInv' /\ Quiet
  <2>1. RestTypeOK' /\ nonces' = nonces
    BY <1>2 DEF DeleteAgent, CredRow, Statuses, NoCred
  <2>2. tok' \in [Tokens -> TokenRow] /\ Demoted
    BY <1>2, CascadedTokens DEF DeleteAgent
  <2> QED
    BY <1>2, <2>1, <2>2, UnchangedHandlers, QuietAssembly DEF DeleteAgent
<1>3. ASSUME NEW r \in Reqs, NEW c \in Creds, RevokeAgentCredential(r, c)
      PROVE  TInv' /\ Quiet
  <2>0. RevokedCred(cred[c]) \in CredRow
    BY RevokedCredType
  <2>1. RestTypeOK' /\ nonces' = nonces
    BY <1>3, <2>0 DEF RevokeAgentCredential, RevokedCred
  <2>2. req' \in [Reqs -> Handler] /\ HandlerInv' /\ Calm
    BY <1>3, StartIsCalm DEF RevokeAgentCredential, PCs, InsertPCs, RefreshPCs
  <2> QED
    BY <1>3, <2>1, <2>2, UnchangedTokens, QuietAssembly DEF RevokeAgentCredential
<1>4. ASSUME NEW r \in Reqs, NEW c \in Creds, PurgeAgentCredential(r, c)
      PROVE  TInv' /\ Quiet
  <2>1. RestTypeOK' /\ nonces' = nonces
    BY <1>4 DEF PurgeAgentCredential
  <2>2. req' \in [Reqs -> Handler] /\ HandlerInv' /\ Calm
    BY <1>4, StartIsCalm DEF PurgeAgentCredential, PCs, InsertPCs, RefreshPCs
  <2> QED
    BY <1>4, <2>1, <2>2, UnchangedTokens, QuietAssembly DEF PurgeAgentCredential
<1>5. ASSUME NEW r \in Reqs, NEW c \in Creds, RotateAgentCredential(r, c)
      PROVE  TInv' /\ Quiet
  <2>1. RestTypeOK' /\ nonces' = nonces
    BY <1>5 DEF RotateAgentCredential
  <2>2. req' \in [Reqs -> Handler] /\ HandlerInv' /\ Calm
    BY <1>5, StartIsCalm DEF RotateAgentCredential, PCs, InsertPCs, RefreshPCs
  <2> QED
    BY <1>5, <2>1, <2>2, UnchangedTokens, QuietAssembly DEF RotateAgentCredential
<1>6. ASSUME NEW r \in Reqs, NEW a \in Aids, AgentEmergencyShutdown(r, a)
      PROVE  TInv' /\ Quiet
  <2>0. \A c \in Creds : RevokedCred(cred[c]) \in CredRow
    BY RevokedCredType
  <2>1. RestTypeOK' /\ nonces' = nonces
    BY <1>6, <2>0 DEF AgentEmergencyShutdown, RevokedCred
  <2> DEFINE h == [Idle EXCEPT !.pc = "shutdown_tokens", !.aid = a]
  <2>2. h \in Handler /\ h.pc = "shutdown_tokens" /\ h.aid = a
    BY DEF Handler, Idle, PCs
  <2>3. WellFormed(h)
    BY <2>2 DEF WellFormed, RefreshPCs
  <2>4. req' = [req EXCEPT ![r] = h]
    BY <1>6 DEF AgentEmergencyShutdown
  <2> HIDE DEF h
  <2>5. req' \in [Reqs -> Handler] /\ req'[r] = h /\ \A s \in Reqs : s # r => req'[s] = req[s]
    BY <2>2, <2>4
  <2>6. \A s \in Reqs : WellFormed(req'[s])
    BY <2>3, <2>5 DEF HandlerInv
  <2>7. HandlerInv'
    BY <2>6 DEF HandlerInv, WellFormed
  <2>8. Calm
    BY <2>2, <2>5 DEF Calm, InsertPCs, RefreshPCs
  <2> QED
    BY <1>6, <2>1, <2>5, <2>7, <2>8, UnchangedTokens, QuietAssembly DEF AgentEmergencyShutdown
<1>7. ASSUME NEW r \in Reqs, RevokeAgentCredentialTokens(r)
      PROVE  TInv' /\ Quiet
  <2>1. RestTypeOK' /\ nonces' = nonces
    BY <1>7 DEF RevokeAgentCredentialTokens
  <2>2. tok' \in [Tokens -> TokenRow] /\ Demoted
    BY <1>7, RevokedTokens DEF RevokeAgentCredentialTokens
  <2> QED
    BY <1>7, <2>1, <2>2, FinishIsCalm, QuietAssembly DEF RevokeAgentCredentialTokens
<1>8. ASSUME NEW r \in Reqs, AgentEmergencyShutdownTokens(r)
      PROVE  TInv' /\ Quiet
  <2>1. RestTypeOK' /\ nonces' = nonces
    BY <1>8 DEF AgentEmergencyShutdownTokens
  <2>2. tok' \in [Tokens -> TokenRow] /\ Demoted
    BY <1>8, RevokedTokens DEF AgentEmergencyShutdownTokens
  <2> QED
    BY <1>8, <2>1, <2>2, FinishIsCalm, QuietAssembly DEF AgentEmergencyShutdownTokens
<1>9. ASSUME NEW r \in Reqs, PurgeAgentCredentialDelete(r)
      PROVE  TInv' /\ Quiet
  <2>0. req[r].cred \in Creds
    BY <1>9 DEF PurgeAgentCredentialDelete, HandlerInv, WellFormed
  <2>1. RestTypeOK' /\ nonces' = nonces
    BY <1>9, <2>0, NoCredType DEF PurgeAgentCredentialDelete
  <2>2. tok' \in [Tokens -> TokenRow] /\ Demoted
    BY <1>9, <2>0, CascadedTokens, UnchangedTokens DEF PurgeAgentCredentialDelete
  <2> QED
    BY <1>9, <2>1, <2>2, FinishIsCalm, QuietAssembly DEF PurgeAgentCredentialDelete
<1>10. ASSUME NEW r \in Reqs, RotateAgentCredentialKeys(r)
       PROVE  TInv' /\ Quiet
  <2>0. req[r].cred \in Creds
    BY <1>10 DEF RotateAgentCredentialKeys, HandlerInv, WellFormed
  <2>1. RestTypeOK' /\ nonces' = nonces
    BY <1>10, <2>0 DEF RotateAgentCredentialKeys
  <2>2. req' \in [Reqs -> Handler] /\ HandlerInv' /\ Calm
    BY <1>10, <2>0, GotoIsCalm DEF RotateAgentCredentialKeys, PCs, InsertPCs, RefreshPCs
  <2> QED
    BY <1>10, <2>1, <2>2, UnchangedTokens, QuietAssembly DEF RotateAgentCredentialKeys
<1>11. ASSUME NEW r \in Reqs, RotateAgentCredentialSecret(r)
       PROVE  TInv' /\ Quiet
  <2>0. req[r].cred \in Creds
    BY <1>11 DEF RotateAgentCredentialSecret, HandlerInv, WellFormed
  <2>2. [cred[req[r].cred] EXCEPT !.enroll = "valid", !.key = FALSE] \in CredRow
    BY <2>0, RotatedCredType
  <2>1. RestTypeOK' /\ nonces' = nonces
    BY <1>11, <2>0, <2>2 DEF RotateAgentCredentialSecret
  <2> QED
    BY <1>11, <2>1, UnchangedTokens, FinishIsCalm, QuietAssembly DEF RotateAgentCredentialSecret
<1> QED
  BY <1>1, <1>2, <1>3, <1>4, <1>5, <1>6, <1>7, <1>8, <1>9, <1>10, <1>11 DEF HumanStep
\* Enrollment is quiet.
LEMMA EnrollmentStepQuiet ==
  ASSUME TInv, EnrollmentStep
  PROVE  TInv' /\ Quiet
<1> USE AidOfAssumption DEF TInv, TypeOK, RestTypeOK
<1>1. ASSUME NEW r \in Reqs, NEW c \in Creds, ActivateAgentCredential(r, c)
      PROVE  TInv' /\ Quiet
  <2>1. RestTypeOK' /\ nonces' = nonces
    BY <1>1 DEF ActivateAgentCredential
  <2>2. req' \in [Reqs -> Handler] /\ HandlerInv' /\ Calm
    BY <1>1, StartIsCalm DEF ActivateAgentCredential, PCs, InsertPCs, RefreshPCs
  <2> QED
    BY <1>1, <2>1, <2>2, UnchangedTokens, QuietAssembly DEF ActivateAgentCredential
<1>2. ASSUME NEW r \in Reqs, RecordFailedAttempt(r)
      PROVE  TInv' /\ Quiet
  <2>0. req[r].cred \in Creds
    BY <1>2 DEF RecordFailedAttempt, HandlerInv, WellFormed
  <2> DEFINE c == req[r].cred
             n == cred[c].attempts + 1
             burn == n >= ACTIVATION_MAX_FAILED_ATTEMPTS
  <2>2. cred[c] \in CredRow /\ n \in Nat
    BY <2>0 DEF CredRow
  <2>3. burn \in BOOLEAN
    BY <2>2, AttemptsAssumption
  <2>4. cred' = IF Exists(c) THEN [cred EXCEPT ![c] = FailedCred(cred[c], n, burn)] ELSE cred
    BY <1>2, <2>0 DEF RecordFailedAttempt, FailedCred
  <2> HIDE DEF n, burn
  <2>5. FailedCred(cred[c], n, burn) \in CredRow
    BY <2>2, <2>3, FailedCredType
  <2>6. cred' \in [Creds -> CredRow]
    BY <2>0, <2>4, <2>5
  <2>7. UNCHANGED <<agent, idKey, nonces>>
    BY <1>2 DEF RecordFailedAttempt
  <2>8. RestTypeOK' /\ nonces' = nonces
    BY <2>6, <2>7
  <2> QED
    BY <1>2, <2>8, UnchangedTokens, FinishIsCalm, QuietAssembly DEF RecordFailedAttempt
<1>3. ASSUME NEW r \in Reqs, ActivationVerified(r)
      PROVE  TInv' /\ Quiet
  <2>0. req[r].cred \in Creds
    BY <1>3 DEF ActivationVerified, HandlerInv, WellFormed
  <2>1. RestTypeOK' /\ nonces' = nonces
    BY <1>3 DEF ActivationVerified
  <2>2. req' \in [Reqs -> Handler] /\ HandlerInv' /\ Calm
    BY <1>3, <2>0, GotoIsCalm DEF ActivationVerified, PCs, InsertPCs, RefreshPCs
  <2> QED
    BY <1>3, <2>1, <2>2, UnchangedTokens, QuietAssembly DEF ActivationVerified
<1>4. ASSUME NEW r \in Reqs, ActivateIdentityKey(r)
      PROVE  TInv' /\ Quiet
  <2>0. req[r].cred \in Creds
    BY <1>4 DEF ActivateIdentityKey, HandlerInv, WellFormed
  <2>1. RestTypeOK' /\ nonces' = nonces
    BY <1>4, <2>0 DEF ActivateIdentityKey
  <2>2. req' \in [Reqs -> Handler] /\ HandlerInv' /\ Calm
    BY <1>4, <2>0, GotoIsCalm, FinishIsCalm DEF ActivateIdentityKey, PCs, InsertPCs, RefreshPCs
  <2> QED
    BY <1>4, <2>1, <2>2, UnchangedTokens, QuietAssembly DEF ActivateIdentityKey
<1>5. ASSUME NEW r \in Reqs, ActivateUpdate(r)
      PROVE  TInv' /\ Quiet
  <2>0. req[r].cred \in Creds
    BY <1>5 DEF ActivateUpdate, HandlerInv, WellFormed
  <2>2. [cred[req[r].cred] EXCEPT !.status = "active", !.key = TRUE,
                                  !.enroll = "none", !.attempts = 0] \in CredRow
    BY <2>0, ActivatedCredType
  <2>1. RestTypeOK' /\ nonces' = nonces
    BY <1>5, <2>0, <2>2 DEF ActivateUpdate
  <2> QED
    BY <1>5, <2>1, UnchangedTokens, FinishIsCalm, QuietAssembly DEF ActivateUpdate
<1> QED
  BY <1>1, <1>2, <1>3, <1>4, <1>5 DEF EnrollmentStep

\* Cancellation and time are quiet.
LEMMA EnvironmentStepQuiet ==
  ASSUME TInv, EnvironmentStep
  PROVE  TInv' /\ Quiet
<1> USE DEF TInv, TypeOK, RestTypeOK
<1>1. ASSUME NEW r \in Reqs, Cancel(r)
      PROVE  TInv' /\ Quiet
  <2>1. RestTypeOK' /\ nonces' = nonces
    BY <1>1 DEF Cancel
  <2> QED
    BY <1>1, <2>1, UnchangedTokens, FinishIsCalm, QuietAssembly DEF Cancel
<1>2. ASSUME NEW c \in Creds, EnrollmentExpires(c)
      PROVE  TInv' /\ Quiet
  <2>1. RestTypeOK' /\ nonces' = nonces
    BY <1>2 DEF EnrollmentExpires, CredRow
  <2> QED
    BY <1>2, <2>1, UnchangedTokens, UnchangedHandlers, QuietAssembly DEF EnrollmentExpires
<1>3. ASSUME NEW c \in Creds, GracePeriodElapses(c)
      PROVE  TInv' /\ Quiet
  <2>1. RestTypeOK' /\ nonces' = nonces
    BY <1>3 DEF GracePeriodElapses, CredRow
  <2> QED
    BY <1>3, <2>1, UnchangedTokens, UnchangedHandlers, QuietAssembly DEF GracePeriodElapses
<1>4. ASSUME NEW t \in Tokens, RefreshTokenExpires(t)
      PROVE  TInv' /\ Quiet
  <2>1. RestTypeOK' /\ nonces' = nonces
    BY <1>4 DEF RefreshTokenExpires
  <2>2. tok' \in [Tokens -> TokenRow] /\ Demoted
    BY <1>4 DEF RefreshTokenExpires, TokenRow, Demoted, SameRow, Unrevoked
  <2> QED
    BY <1>4, <2>1, <2>2, UnchangedHandlers, QuietAssembly DEF RefreshTokenExpires
<1> QED
  BY <1>1, <1>2, <1>3, <1>4 DEF EnvironmentStep

-----------------------------------------------------------------------------
(* The four steps of TokenStep that are not quiet. *)

\* A refresh wins the conditional revoke of its token.
Claim(r) ==
  /\ req[r].pc = "refresh_claim"
  /\ Unrevoked(req[r].tok)
  /\ Demoted
  /\ tok'[req[r].tok].st = "revoked"
  /\ nonces' = nonces
  /\ req'[r].pc = "refresh_insert"
  /\ req'[r].tok = req[r].tok
  /\ req'[r].cred = req[r].cred
  /\ \A s \in Reqs : s # r => req'[s] = req[s]

\* A fresh assertion is recorded.
Replay(r) ==
  /\ req[r].pc = "token_replay"
  /\ <<req[r].cred, req[r].jti>> \notin nonces
  /\ nonces' = nonces \cup {<<req[r].cred, req[r].jti>>}
  /\ Demoted
  /\ req'[r].pc = "token_insert"
  /\ req'[r].cred = req[r].cred
  /\ req'[r].jti = req[r].jti
  /\ \A s \in Reqs : s # r => req'[s] = req[s]

\* A row is inserted by the handler that ends.
Insert(r, t) ==
  /\ Exists(req[r].cred)
  /\ cred' = cred
  /\ tok[t].st = "free"
  /\ tok'[t].st = "live"
  /\ tok'[t].cred = req[r].cred
  /\ \A u \in Tokens : u # t => tok'[u] = tok[u]
  /\ nonces' = nonces
  /\ req'[r] = Idle
  /\ \A s \in Reqs : s # r => req'[s] = req[s]

\* ... the first token of a new family (agent_auth_token).
InsertRoot(r, t) ==
  /\ req[r].pc = "token_insert"
  /\ Insert(r, t)
  /\ tok'[t].family = t
  /\ tok'[t].parent = None
  /\ tok'[t].jti = req[r].jti

\* ... the successor of a claimed token (agent_auth_refresh).
InsertSuccessor(r, t) ==
  /\ req[r].pc = "refresh_insert"
  /\ Insert(r, t)
  /\ tok'[t].family = tok[req[r].tok].family
  /\ tok'[t].parent = req[r].tok
  /\ tok'[t].jti = None

\* The kinds of step.
Kind ==
  \/ Quiet
  \/ \E r \in Reqs : Claim(r) \/ Replay(r) \/ \E t \in Tokens : InsertRoot(r, t) \/ InsertSuccessor(r, t)

\* A step of the token endpoints is quiet or one of the four kinds above.
LEMMA TokenStepKind ==
  ASSUME TInv, TokenStep
  PROVE  TInv' /\ Kind
<1> USE DEF TInv, TypeOK, RestTypeOK
<1>1. ASSUME NEW t \in Tokens, AgentAuthRevoke(t)
      PROVE  TInv' /\ Kind
  <2>1. RestTypeOK' /\ nonces' = nonces
    BY <1>1 DEF AgentAuthRevoke
  <2>2. tok' \in [Tokens -> TokenRow] /\ Demoted
    BY <1>1, RevokedTokens DEF AgentAuthRevoke
  <2>3. TInv' /\ Quiet
    BY <1>1, <2>1, <2>2, UnchangedHandlers, QuietAssembly DEF AgentAuthRevoke
  <2> QED
    BY <2>3 DEF Kind
<1>2. ASSUME NEW r \in Reqs, NEW c \in Creds, NEW j \in Jtis, AgentAuthToken(r, c, j)
      PROVE  TInv' /\ Kind
  <2>1. RestTypeOK' /\ nonces' = nonces
    BY <1>2 DEF AgentAuthToken
  <2>2. req' \in [Reqs -> Handler] /\ HandlerInv' /\ Calm
    BY <1>2, StartIsCalm DEF AgentAuthToken, PCs, InsertPCs, RefreshPCs
  <2>3. TInv' /\ Quiet
    BY <1>2, <2>1, <2>2, UnchangedTokens, QuietAssembly DEF AgentAuthToken
  <2> QED
    BY <2>3 DEF Kind
<1>3. ASSUME NEW r \in Reqs, AgentAuthTokenReplay(r)
      PROVE  TInv' /\ Kind
  <2>0. req[r].pc = "token_replay" /\ req[r].cred \in Creds /\ req[r].jti \in Jtis /\ req[r] \in Handler
    BY <1>3 DEF AgentAuthTokenReplay, HandlerInv, WellFormed
  <2> DEFINE n == <<req[r].cred, req[r].jti>>
  <2>1. CASE n \in nonces
    <3>1. RestTypeOK' /\ nonces' = nonces /\ UNCHANGED tok /\ Finish(r)
      BY <1>3, <2>1 DEF AgentAuthTokenReplay
    <3>2. TInv' /\ Quiet
      BY <3>1, UnchangedTokens, FinishIsCalm, QuietAssembly
    <3> QED
      BY <3>2 DEF Kind
  <2>2. CASE n \notin nonces
    <3>1. RestTypeOK' /\ nonces' = nonces \cup {n} /\ UNCHANGED tok /\ Goto(r, "token_insert")
      BY <1>3, <2>2 DEF AgentAuthTokenReplay
    <3>2. nonces' \subseteq Creds \X Jtis
      BY <2>0, <3>1
    <3> DEFINE h == [req[r] EXCEPT !.pc = "token_insert"]
    <3>3. h.pc = "token_insert" /\ h.cred = req[r].cred /\ h.jti = req[r].jti
      BY <2>0 DEF Handler
    <3>4. WellFormed(h)
      BY <2>0, <3>3 DEF WellFormed, RefreshPCs
    <3>5. req' \in [Reqs -> Handler] /\ HandlerInv' /\ req'[r] = h
          /\ \A s \in Reqs : s # r => req'[s] = req[s]
      BY <3>1, <3>4, GotoLemma DEF PCs
    <3>6. tok' \in [Tokens -> TokenRow] /\ Demoted
      BY <3>1, UnchangedTokens
    <3>7. RowInv'
      BY <3>1 DEF RowInv
    <3>8. Replay(r)
      BY <2>0, <2>2, <3>1, <3>3, <3>5, <3>6 DEF Replay
    <3> QED
      BY <3>1, <3>2, <3>5, <3>6, <3>7, <3>8 DEF Kind
  <2> QED
    BY <2>1, <2>2
<1>4. ASSUME NEW r \in Reqs, NEW t \in Tokens, AgentAuthTokenInsert(r, t)
      PROVE  TInv' /\ Kind
  <2>0. req[r].pc = "token_insert" /\ req[r].cred \in Creds /\ req[r].jti \in Jtis
    BY <1>4 DEF AgentAuthTokenInsert, HandlerInv, WellFormed
  <2> DEFINE row == [st |-> "live", cred |-> req[r].cred, family |-> t, parent |-> None,
                     jti |-> req[r].jti, flagged |-> FALSE]
  <2>1. row \in TokenRow
    BY <2>0 DEF TokenRow
  <2>2. /\ tok[t].st = "free" /\ tok' = [tok EXCEPT ![t] = row] /\ UNCHANGED <<agent, idKey, cred, nonces>>
        /\ Exists(req[r].cred)
    BY <1>4 DEF AgentAuthTokenInsert
  <2>3. row.st = "live" /\ row.cred = req[r].cred /\ row.family = t /\ row.parent = None /\ row.jti = req[r].jti
    OBVIOUS
  <2> HIDE DEF row
  <2>4. tok' \in [Tokens -> TokenRow] /\ tok'[t] = row /\ \A u \in Tokens : u # t => tok'[u] = tok[u]
    BY <2>1, <2>2
  <2>5. RowInv'
    BY <2>0, <2>3, <2>4 DEF RowInv
  <2>6. req' \in [Reqs -> Handler] /\ HandlerInv' /\ req'[r] = Idle
        /\ \A s \in Reqs : s # r => req'[s] = req[s]
    BY <1>4, FinishLemma DEF AgentAuthTokenInsert
  <2>7. InsertRoot(r, t)
    BY <2>0, <2>2, <2>3, <2>4, <2>6 DEF InsertRoot, Insert
  <2> QED
    BY <2>2, <2>4, <2>5, <2>6, <2>7 DEF Kind
<1>5. ASSUME NEW r \in Reqs, NEW t \in Tokens, AgentAuthRefresh(r, t)
      PROVE  TInv' /\ Kind
  <2>1. RestTypeOK' /\ nonces' = nonces /\ UNCHANGED tok
    BY <1>5 DEF AgentAuthRefresh
  <2>2. PICK pc \in {"reuse_family", "refresh_claim"} : Start(r, pc, tok[t].cred, t, None)
    BY <1>5 DEF AgentAuthRefresh
  <2>3. tok[t].st # "free" /\ tok[t].cred \in Creds
    BY <1>5 DEF AgentAuthRefresh, RowInv
  <2> DEFINE h == [pc |-> pc, cred |-> tok[t].cred, aid |-> None, tok |-> t, jti |-> None]
  <2>4. WellFormed(h)
    BY <2>3 DEF WellFormed, RefreshPCs
  <2>5. req' \in [Reqs -> Handler] /\ HandlerInv' /\ req'[r] = h
        /\ \A s \in Reqs : s # r => req'[s] = req[s]
    BY <2>2, <2>3, <2>4, StartLemma DEF PCs
  <2>6. Calm
    BY <2>3, <2>5 DEF Calm, InsertPCs
  <2>7. TInv' /\ Quiet
    BY <2>1, <2>5, <2>6, UnchangedTokens, QuietAssembly
  <2> QED
    BY <2>7 DEF Kind
<1>6. ASSUME NEW r \in Reqs, NEW t \in Tokens, AgentAuthRefreshInsert(r, t)
      PROVE  TInv' /\ Kind
  <2>0. req[r].pc = "refresh_insert" /\ req[r].cred \in Creds /\ req[r].tok \in Tokens
    BY <1>6 DEF AgentAuthRefreshInsert, HandlerInv, WellFormed, RefreshPCs
  <2> DEFINE row == [st |-> "live", cred |-> req[r].cred, family |-> tok[req[r].tok].family,
                     parent |-> req[r].tok, jti |-> None, flagged |-> FALSE]
  <2>1. row \in TokenRow
    BY <2>0 DEF TokenRow
  <2>2. /\ tok[t].st = "free" /\ tok' = [tok EXCEPT ![t] = row] /\ UNCHANGED <<agent, idKey, cred, nonces>>
        /\ Exists(req[r].cred)
    BY <1>6 DEF AgentAuthRefreshInsert
  <2>3. /\ row.st = "live" /\ row.cred = req[r].cred /\ row.family = tok[req[r].tok].family
        /\ row.parent = req[r].tok /\ row.jti = None
    OBVIOUS
  <2> HIDE DEF row
  <2>4. tok' \in [Tokens -> TokenRow] /\ tok'[t] = row /\ \A u \in Tokens : u # t => tok'[u] = tok[u]
    BY <2>1, <2>2
  <2>5. RowInv'
    BY <2>0, <2>3, <2>4 DEF RowInv
  <2>6. req' \in [Reqs -> Handler] /\ HandlerInv' /\ req'[r] = Idle
        /\ \A s \in Reqs : s # r => req'[s] = req[s]
    BY <1>6, FinishLemma DEF AgentAuthRefreshInsert
  <2>7. InsertSuccessor(r, t)
    BY <2>0, <2>2, <2>3, <2>4, <2>6 DEF InsertSuccessor, Insert
  <2> QED
    BY <2>2, <2>4, <2>5, <2>6, <2>7 DEF Kind
<1>7. ASSUME NEW r \in Reqs, AgentAuthRefreshClaim(r)
      PROVE  TInv' /\ Kind
  <2>0. req[r].pc = "refresh_claim" /\ req[r].cred \in Creds /\ req[r].tok \in Tokens /\ req[r] \in Handler
    BY <1>7 DEF AgentAuthRefreshClaim, HandlerInv, WellFormed, RefreshPCs
  <2>1. CASE Unrevoked(req[r].tok)
    <3>1. /\ RestTypeOK' /\ nonces' = nonces /\ Goto(r, "refresh_insert")
          /\ tok' = [tok EXCEPT ![req[r].tok].st = "revoked"]
      BY <1>7, <2>1 DEF AgentAuthRefreshClaim
    <3>2. tok' \in [Tokens -> TokenRow] /\ Demoted /\ tok'[req[r].tok].st = "revoked"
      <4>1. tok' \in [Tokens -> TokenRow]
        BY <2>0, <3>1 DEF TokenRow
      <4>2. ASSUME NEW t \in Tokens
            PROVE  /\ SameRow(t)
                   /\ tok'[t].st = "free" <=> tok[t].st = "free"
                   /\ Unrevoked(t)' => Unrevoked(t)
        <5>1. CASE t = req[r].tok
          BY <2>0, <2>1, <3>1, <5>1 DEF TokenRow, SameRow, Unrevoked
        <5>2. CASE t # req[r].tok
          BY <2>0, <3>1, <5>2 DEF TokenRow, SameRow, Unrevoked
        <5> QED
          BY <5>1, <5>2
      <4>3. tok'[req[r].tok].st = "revoked"
        BY <2>0, <3>1 DEF TokenRow
      <4> QED
        BY <4>1, <4>2, <4>3 DEF Demoted
    <3> DEFINE h == [req[r] EXCEPT !.pc = "refresh_insert"]
    <3>3. h.pc = "refresh_insert" /\ h.cred = req[r].cred /\ h.tok = req[r].tok
      BY <2>0 DEF Handler
    <3>4. WellFormed(h)
      BY <2>0, <3>3 DEF WellFormed, RefreshPCs
    <3>5. req' \in [Reqs -> Handler] /\ HandlerInv' /\ req'[r] = h
          /\ \A s \in Reqs : s # r => req'[s] = req[s]
      BY <3>1, <3>4, GotoLemma DEF PCs
    <3>7. RowInv'
      BY <3>2 DEF RowInv, Demoted, SameRow
    <3>8. Claim(r)
      BY <2>0, <2>1, <3>1, <3>2, <3>3, <3>5 DEF Claim
    <3> QED
      BY <3>1, <3>2, <3>5, <3>7, <3>8 DEF Kind
  <2>2. CASE ~Unrevoked(req[r].tok)
    <3>1. RestTypeOK' /\ nonces' = nonces /\ UNCHANGED tok /\ Goto(r, "reuse_family")
      BY <1>7, <2>2 DEF AgentAuthRefreshClaim
    <3>2. req' \in [Reqs -> Handler] /\ HandlerInv' /\ Calm
      BY <2>0, <3>1, GotoIsCalm DEF PCs, InsertPCs, RefreshPCs
    <3>3. TInv' /\ Quiet
      BY <3>1, <3>2, UnchangedTokens, QuietAssembly
    <3> QED
      BY <3>3 DEF Kind
  <2> QED
    BY <2>1, <2>2
<1>8. ASSUME NEW r \in Reqs, RevokeFamilyForReuse(r)
      PROVE  TInv' /\ Kind
  <2>0. req[r].pc = "reuse_family" /\ req[r].cred \in Creds
    BY <1>8 DEF RevokeFamilyForReuse, HandlerInv, WellFormed, RefreshPCs
  <2>1. RestTypeOK' /\ nonces' = nonces
    BY <1>8 DEF RevokeFamilyForReuse
  <2>2. tok' \in [Tokens -> TokenRow] /\ Demoted
    BY <1>8, RevokedTokens, UnchangedTokens DEF RevokeFamilyForReuse
  <2>3. req' \in [Reqs -> Handler] /\ HandlerInv' /\ Calm
    BY <1>8, <2>0, GotoIsCalm DEF RevokeFamilyForReuse, PCs, InsertPCs, RefreshPCs
  <2>4. TInv' /\ Quiet
    BY <2>1, <2>2, <2>3, QuietAssembly
  <2> QED
    BY <2>4 DEF Kind
<1>9. ASSUME NEW r \in Reqs, CompromiseForReuse(r)
      PROVE  TInv' /\ Kind
  <2>0. req[r].pc = "reuse_credential" /\ req[r].cred \in Creds
    BY <1>9 DEF CompromiseForReuse, HandlerInv, WellFormed, RefreshPCs
  <2>1. RestTypeOK' /\ nonces' = nonces
    BY <1>9, <2>0 DEF CompromiseForReuse, CredRow, Statuses
  <2>3. req' \in [Reqs -> Handler] /\ HandlerInv' /\ Calm
    BY <1>9, <2>0, GotoIsCalm DEF CompromiseForReuse, PCs, InsertPCs, RefreshPCs
  <2>4. TInv' /\ Quiet
    BY <1>9, <2>1, <2>3, UnchangedTokens, QuietAssembly DEF CompromiseForReuse
  <2> QED
    BY <2>4 DEF Kind
<1>10. ASSUME NEW r \in Reqs, RevokeCredentialTokensForReuse(r)
       PROVE  TInv' /\ Kind
  <2>1. RestTypeOK' /\ nonces' = nonces
    BY <1>10 DEF RevokeCredentialTokensForReuse
  <2>2. tok' \in [Tokens -> TokenRow] /\ Demoted
    BY <1>10, RevokedTokens DEF RevokeCredentialTokensForReuse
  <2>4. TInv' /\ Quiet
    BY <1>10, <2>1, <2>2, FinishIsCalm, QuietAssembly DEF RevokeCredentialTokensForReuse
  <2> QED
    BY <2>4 DEF Kind
<1> QED
  BY <1>1, <1>2, <1>3, <1>4, <1>5, <1>6, <1>7, <1>8, <1>9, <1>10 DEF TokenStep
-----------------------------------------------------------------------------
(* Type correctness. *)

\* The typing invariant holds initially.  (TypeOK is not inductive by itself: a
\* handler at a statement must hold the credential, token or jti it works on.)
LEMMA TInvInit == Init => TInv
<1> SUFFICES ASSUME Init PROVE TInv
  OBVIOUS
<1>1. NoCred("free") \in CredRow /\ Idle \in Handler /\ WellFormed(Idle)
  BY DEF NoCred, CredRow, Statuses, Idle, Handler, PCs, WellFormed, RefreshPCs
<1>2. TypeOK
  BY <1>1 DEF Init, TypeOK, TokenRow
<1>3. HandlerInv
  BY <1>1 DEF Init, HandlerInv
<1>4. RowInv
  BY DEF Init, RowInv
<1> QED
  BY <1>2, <1>3, <1>4 DEF TInv

\* Every step of the specification keeps TInv and has a kind.
LEMMA StepKind ==
  ASSUME TInv, [Next]_vars
  PROVE  TInv' /\ Kind
<1>1. CASE UNCHANGED vars
  <2>1. RestTypeOK' /\ nonces' = nonces /\ UNCHANGED tok /\ UNCHANGED req
    BY <1>1 DEF vars, RestTypeOK, TInv, TypeOK
  <2>2. TInv' /\ Quiet
    BY <2>1, UnchangedTokens, UnchangedHandlers, QuietAssembly
  <2> QED
    BY <2>2 DEF Kind
<1>2. CASE Next
  BY <1>2, HumanStepQuiet, EnrollmentStepQuiet, EnvironmentStepQuiet, TokenStepKind DEF Next, Kind
<1> QED
  BY <1>1, <1>2

\* Every reachable state is well typed, for any number of agents, credentials,
\* tokens and concurrent requests.
THEOREM TypeCorrect == Spec => []TypeOK
<1>1. Init => TInv
  BY TInvInit
<1>2. TInv /\ [Next]_vars => TInv'
  BY StepKind
<1>3. TInv => TypeOK
  BY DEF TInv
<1> QED
  BY <1>1, <1>2, <1>3, PTL DEF Spec
-----------------------------------------------------------------------------
(* Rotation: families do not fork and refresh tokens are spent once. *)

\* Every inserted row belongs to the family of an inserted row, and a handler
\* past the SELECT of a refresh works on an inserted row and its credential.
FamilyInv ==
  /\ \A t \in Tokens :
       tok[t].st # "free" => tok[t].family \in Tokens /\ tok[tok[t].family].st # "free"
  /\ \A r \in Reqs :
       req[r].pc \in RefreshPCs =>
         tok[req[r].tok].st # "free" /\ tok[req[r].tok].cred = req[r].cred

\* A handler that won the conditional revoke carries the family's baton until
\* it inserts the successor: no token of the family is unrevoked meanwhile, and
\* no other handler carries the baton of the same family.
BatonInv ==
  /\ OneLiveTokenPerFamily
  /\ \A r \in Reqs : req[r].pc = "refresh_insert" =>
       \A t \in Tokens : Unrevoked(t) => tok[t].family # tok[req[r].tok].family
  /\ \A r, s \in Reqs :
       /\ req[r].pc = "refresh_insert"
       /\ req[s].pc = "refresh_insert"
       /\ tok[req[r].tok].family = tok[req[s].tok].family
       => r = s

\* A row that was rotated from is revoked, and the token a baton holder claimed
\* has no successor yet.
SpentInv ==
  /\ RefreshTokenSpentOnce
  /\ \A t \in Tokens : tok[t].parent # None =>
       /\ tok[t].parent \in Tokens
       /\ tok[tok[t].parent].st # "free"
       /\ ~Unrevoked(tok[t].parent)
  /\ \A r \in Reqs : req[r].pc = "refresh_insert" =>
       /\ ~Unrevoked(req[r].tok)
       /\ \A t \in Tokens : tok[t].parent # req[r].tok

\* The inductive invariant of rotation.
RotationInv == TInv /\ FamilyInv /\ BatonInv /\ SpentInv

\* Past its SELECT a refresh handler holds a token.
LEMMA HandlerToken ==
  ASSUME TInv
  PROVE  \A r \in Reqs : req[r].pc \in RefreshPCs => req[r].tok \in Tokens
BY DEF TInv, HandlerInv, WellFormed

\* Every kind of step keeps FamilyInv.
LEMMA FamilyStep ==
  ASSUME TInv, FamilyInv, TInv', Kind
  PROVE  FamilyInv'
<1> USE HandlerToken
<1>1. CASE Quiet
  <2>1. ASSUME NEW t \in Tokens, tok'[t].st # "free"
        PROVE  tok'[t].family \in Tokens /\ tok'[tok'[t].family].st # "free"
    BY <1>1, <2>1 DEF Quiet, Demoted, SameRow, FamilyInv
  <2>2. ASSUME NEW r \in Reqs, req'[r].pc \in RefreshPCs
        PROVE  tok'[req'[r].tok].st # "free" /\ tok'[req'[r].tok].cred = req'[r].cred
    <3>1. req'[r].tok \in Tokens
      BY <2>2 DEF TInv, HandlerInv, WellFormed, RefreshPCs
    <3>2. tok[req'[r].tok].st # "free" /\ tok[req'[r].tok].cred = req'[r].cred
      BY <1>1, <2>2 DEF Quiet, Calm, FamilyInv
    <3> QED
      BY <1>1, <3>1, <3>2 DEF Quiet, Demoted, SameRow
  <2> QED
    BY <2>1, <2>2 DEF FamilyInv, RefreshPCs
<1>2. ASSUME NEW r \in Reqs, Claim(r)
      PROVE  FamilyInv'
  <2>1. ASSUME NEW t \in Tokens, tok'[t].st # "free"
        PROVE  tok'[t].family \in Tokens /\ tok'[tok'[t].family].st # "free"
    BY <1>2, <2>1 DEF Claim, Demoted, SameRow, FamilyInv
  <2>2. ASSUME NEW s \in Reqs, req'[s].pc \in RefreshPCs
        PROVE  tok'[req'[s].tok].st # "free" /\ tok'[req'[s].tok].cred = req'[s].cred
    <3>1. /\ req[s].pc \in RefreshPCs
          /\ req'[s].tok = req[s].tok
          /\ req'[s].cred = req[s].cred
      BY <1>2, <2>2 DEF Claim, RefreshPCs
    <3> QED
      BY <1>2, <3>1 DEF Claim, Demoted, SameRow, FamilyInv
  <2> QED
    BY <2>1, <2>2 DEF FamilyInv, RefreshPCs
<1>3. ASSUME NEW r \in Reqs, Replay(r)
      PROVE  FamilyInv'
  <2>1. ASSUME NEW t \in Tokens, tok'[t].st # "free"
        PROVE  tok'[t].family \in Tokens /\ tok'[tok'[t].family].st # "free"
    BY <1>3, <2>1 DEF Replay, Demoted, SameRow, FamilyInv
  <2>2. ASSUME NEW s \in Reqs, req'[s].pc \in RefreshPCs
        PROVE  tok'[req'[s].tok].st # "free" /\ tok'[req'[s].tok].cred = req'[s].cred
    <3>1. req'[s] = req[s]
      BY <1>3, <2>2 DEF Replay, RefreshPCs
    <3> QED
      BY <1>3, <2>2, <3>1 DEF Replay, Demoted, SameRow, FamilyInv
  <2> QED
    BY <2>1, <2>2 DEF FamilyInv, RefreshPCs
<1>4. ASSUME NEW r \in Reqs, NEW t \in Tokens, InsertRoot(r, t) \/ InsertSuccessor(r, t)
      PROVE  FamilyInv'
  <2>0. /\ Insert(r, t)
        /\ tok'[t].family \in Tokens
        /\ tok'[t].family = t \/ tok[tok'[t].family].st # "free"
    BY <1>4 DEF InsertRoot, InsertSuccessor, FamilyInv, RefreshPCs
  <2>1. ASSUME NEW u \in Tokens, tok'[u].st # "free"
        PROVE  tok'[u].family \in Tokens /\ tok'[tok'[u].family].st # "free"
    <3>1. CASE u = t
      BY <2>0, <3>1 DEF Insert
    <3>2. CASE u # t
      BY <2>0, <2>1, <3>2 DEF Insert, FamilyInv
    <3> QED
      BY <3>1, <3>2
  <2>2. ASSUME NEW s \in Reqs, req'[s].pc \in RefreshPCs
        PROVE  tok'[req'[s].tok].st # "free" /\ tok'[req'[s].tok].cred = req'[s].cred
    <3>1. req'[s] = req[s]
      BY <2>0, <2>2 DEF Insert, Idle, RefreshPCs
    <3> QED
      BY <2>0, <2>2, <3>1 DEF Insert, FamilyInv
  <2> QED
    BY <2>1, <2>2 DEF FamilyInv, RefreshPCs
<1> QED
  BY <1>1, <1>2, <1>3, <1>4 DEF Kind
\* What the rotation invariants see of a quiet step or of a recorded assertion.
Still ==
  /\ Demoted
  /\ \A s \in Reqs : req'[s].pc = "refresh_insert" => req'[s] = req[s]

\* A quiet step and a recorded assertion are still.
LEMMA StillKinds ==
  ASSUME Quiet \/ \E r \in Reqs : Replay(r)
  PROVE  Still
BY DEF Quiet, Replay, Calm, InsertPCs, Still

\* Every kind of step keeps BatonInv: a claim takes the baton from the family's
\* only unrevoked token, the successor's INSERT gives it back.
LEMMA BatonStep ==
  ASSUME TInv, FamilyInv, BatonInv, TInv', Kind
  PROVE  BatonInv'
<1> USE HandlerToken
<1> DEFINE Live(t) == tok[t].st \in {"live", "expired"}
           LiveN(t) == tok'[t].st \in {"live", "expired"}
           At(r) == req[r].pc = "refresh_insert"
           AtN(r) == req'[r].pc = "refresh_insert"
           Fam(r) == tok[req[r].tok].family
           FamN(r) == tok'[req'[r].tok].family
<1>0. /\ \A t, u \in Tokens : Live(t) /\ Live(u) /\ tok[t].family = tok[u].family => t = u
      /\ \A r \in Reqs, t \in Tokens : At(r) /\ Live(t) => tok[t].family # Fam(r)
      /\ \A r, s \in Reqs : At(r) /\ At(s) /\ Fam(r) = Fam(s) => r = s
  BY DEF BatonInv, OneLiveTokenPerFamily, Unrevoked
<1>9. SUFFICES
      /\ \A t, u \in Tokens : LiveN(t) /\ LiveN(u) /\ tok'[t].family = tok'[u].family => t = u
      /\ \A r \in Reqs, t \in Tokens : AtN(r) /\ LiveN(t) => tok'[t].family # FamN(r)
      /\ \A r, s \in Reqs : AtN(r) /\ AtN(s) /\ FamN(r) = FamN(s) => r = s
  BY DEF BatonInv, OneLiveTokenPerFamily, Unrevoked
<1>h. \A r \in Reqs : At(r) => req[r].tok \in Tokens /\ tok[req[r].tok].st # "free"
  BY DEF RefreshPCs, FamilyInv
<1>1. CASE Still
  <2>1. \A t \in Tokens : (LiveN(t) => Live(t)) /\ tok'[t].family = tok[t].family
    BY <1>1 DEF Still, Demoted, SameRow, Unrevoked
  <2>2. \A r \in Reqs : AtN(r) => At(r) /\ FamN(r) = Fam(r)
    BY <1>1, <1>h, <2>1 DEF Still
  <2> HIDE DEF Live, LiveN, At, AtN, Fam, FamN
  <2> QED
    BY <1>0, <2>1, <2>2
<1>2. ASSUME NEW r \in Reqs, Claim(r)
      PROVE  /\ \A t, u \in Tokens : LiveN(t) /\ LiveN(u) /\ tok'[t].family = tok'[u].family => t = u
             /\ \A q \in Reqs, t \in Tokens : AtN(q) /\ LiveN(t) => tok'[t].family # FamN(q)
             /\ \A q, s \in Reqs : AtN(q) /\ AtN(s) /\ FamN(q) = FamN(s) => q = s
  <2>1. \A t \in Tokens : (LiveN(t) => Live(t)) /\ tok'[t].family = tok[t].family
    BY <1>2 DEF Claim, Demoted, SameRow, Unrevoked
  <2>2. \A s \in Reqs : s # r => (AtN(s) <=> At(s)) /\ (At(s) => FamN(s) = Fam(s))
    BY <1>2, <1>h, <2>1 DEF Claim
  <2>3. req[r].tok \in Tokens /\ Live(req[r].tok) /\ ~LiveN(req[r].tok) /\ FamN(r) = Fam(r)
    BY <1>2, <2>1 DEF Claim, RefreshPCs, Unrevoked
  <2>4. Fam(r) = tok[req[r].tok].family
    OBVIOUS
  <2> HIDE DEF Live, LiveN, At, AtN, Fam, FamN
  <2>5. \A s \in Reqs : s # r /\ At(s) => Fam(s) # Fam(r)
    BY <1>0, <2>3, <2>4
  <2>6. \A t \in Tokens : LiveN(t) => tok[t].family # Fam(r)
    BY <1>0, <2>1, <2>3, <2>4
  <2> QED
    BY <1>0, <2>1, <2>2, <2>3, <2>5, <2>6
<1>3. ASSUME NEW r \in Reqs, NEW x \in Tokens, InsertRoot(r, x)
      PROVE  /\ \A t, u \in Tokens : LiveN(t) /\ LiveN(u) /\ tok'[t].family = tok'[u].family => t = u
             /\ \A q \in Reqs, t \in Tokens : AtN(q) /\ LiveN(t) => tok'[t].family # FamN(q)
             /\ \A q, s \in Reqs : AtN(q) /\ AtN(s) /\ FamN(q) = FamN(s) => q = s
  <2>1. \A t \in Tokens : t # x => (LiveN(t) <=> Live(t)) /\ tok'[t].family = tok[t].family
    BY <1>3 DEF InsertRoot, Insert
  <2>2. \A s \in Reqs : AtN(s) => At(s) /\ FamN(s) = Fam(s)
    BY <1>3, <1>h, <2>1 DEF InsertRoot, Insert, Idle
  <2>3. tok'[x].family = x /\ tok[x].st = "free"
    BY <1>3 DEF InsertRoot, Insert
  <2>4. \A t \in Tokens : tok[t].st # "free" => tok[t].family # x
    BY <2>3 DEF FamilyInv
  <2>5. \A t \in Tokens : Live(t) => tok[t].family # x
    BY <2>4
  <2>6. \A s \in Reqs : At(s) => Fam(s) # x
    BY <1>h, <2>4
  <2> HIDE DEF Live, LiveN, At, AtN, Fam, FamN
  <2> QED
    BY <1>0, <2>1, <2>2, <2>3, <2>5, <2>6
<1>4. ASSUME NEW r \in Reqs, NEW x \in Tokens, InsertSuccessor(r, x)
      PROVE  /\ \A t, u \in Tokens : LiveN(t) /\ LiveN(u) /\ tok'[t].family = tok'[u].family => t = u
             /\ \A q \in Reqs, t \in Tokens : AtN(q) /\ LiveN(t) => tok'[t].family # FamN(q)
             /\ \A q, s \in Reqs : AtN(q) /\ AtN(s) /\ FamN(q) = FamN(s) => q = s
  <2>1. \A t \in Tokens : t # x => (LiveN(t) <=> Live(t)) /\ tok'[t].family = tok[t].family
    BY <1>4 DEF InsertSuccessor, Insert
  <2>0. tok[x].st = "free" /\ At(r) /\ tok'[x].family = Fam(r)
    BY <1>4 DEF InsertSuccessor, Insert
  <2>2. \A s \in Reqs : AtN(s) => s # r /\ At(s) /\ FamN(s) = Fam(s)
    BY <1>4, <1>h, <2>0, <2>1 DEF InsertSuccessor, Insert, Idle
  <2> HIDE DEF Live, LiveN, At, AtN, Fam, FamN
  <2>3. \A t \in Tokens : Live(t) => tok[t].family # Fam(r)
    BY <1>0, <2>0
  <2>4. \A s \in Reqs : s # r /\ At(s) => Fam(s) # Fam(r)
    BY <1>0, <2>0
  <2> QED
    BY <1>0, <2>0, <2>1, <2>2, <2>3, <2>4
<1> QED
  BY <1>1, <1>2, <1>3, <1>4, StillKinds DEF Kind

\* Every kind of step keeps SpentInv.
LEMMA SpentStep ==
  ASSUME TInv, FamilyInv, BatonInv, SpentInv, TInv', Kind
  PROVE  SpentInv'
<1> USE HandlerToken, NoneAssumption
<1> DEFINE Live(t) == tok[t].st \in {"live", "expired"}
           LiveN(t) == tok'[t].st \in {"live", "expired"}
           At(r) == req[r].pc = "refresh_insert"
           AtN(r) == req'[r].pc = "refresh_insert"
           Goal == /\ \A t, u \in Tokens : tok'[t].parent # None /\ tok'[t].parent = tok'[u].parent => t = u
                   /\ \A t \in Tokens : tok'[t].parent # None =>
                        /\ tok'[t].parent \in Tokens
                        /\ tok'[tok'[t].parent].st # "free"
                        /\ ~LiveN(tok'[t].parent)
                   /\ \A s \in Reqs : AtN(s) =>
                        ~LiveN(req'[s].tok) /\ \A t \in Tokens : tok'[t].parent # req'[s].tok
<1>0. /\ \A t, u \in Tokens : tok[t].parent # None /\ tok[t].parent = tok[u].parent => t = u
      /\ \A t \in Tokens : tok[t].parent # None =>
           /\ tok[t].parent \in Tokens
           /\ tok[tok[t].parent].st # "free"
           /\ ~Live(tok[t].parent)
      /\ \A s \in Reqs : At(s) => ~Live(req[s].tok) /\ \A t \in Tokens : tok[t].parent # req[s].tok
  BY DEF SpentInv, RefreshTokenSpentOnce, Unrevoked
<1>9. SUFFICES Goal
  BY DEF SpentInv, RefreshTokenSpentOnce, Unrevoked
<1>h. \A r \in Reqs : At(r) => req[r].tok \in Tokens /\ tok[req[r].tok].st # "free"
  BY DEF RefreshPCs, FamilyInv
<1>1. CASE Still
  <2>1. \A t \in Tokens : (LiveN(t) => Live(t)) /\ tok'[t].parent = tok[t].parent
                          /\ (tok'[t].st = "free" <=> tok[t].st = "free")
    BY <1>1 DEF Still, Demoted, SameRow, Unrevoked
  <2>2. \A r \in Reqs : AtN(r) => At(r) /\ req'[r].tok = req[r].tok /\ req[r].tok \in Tokens
    BY <1>1, <1>h DEF Still
  <2> HIDE DEF Live, LiveN, At, AtN
  <2> QED
    BY <1>0, <2>1, <2>2
<1>2. ASSUME NEW r \in Reqs, Claim(r)
      PROVE  Goal
  <2>1. \A t \in Tokens : (LiveN(t) => Live(t)) /\ tok'[t].parent = tok[t].parent
                          /\ (tok'[t].st = "free" <=> tok[t].st = "free")
    BY <1>2 DEF Claim, Demoted, SameRow, Unrevoked
  <2>2. \A s \in Reqs : s # r /\ AtN(s) => At(s) /\ req'[s].tok = req[s].tok /\ req[s].tok \in Tokens
    BY <1>2, <1>h DEF Claim
  <2>3. req[r].tok \in Tokens /\ Live(req[r].tok) /\ ~LiveN(req[r].tok) /\ req'[r].tok = req[r].tok
    BY <1>2 DEF Claim, RefreshPCs, Unrevoked
  <2> HIDE DEF Live, LiveN, At, AtN
  <2>4. \A t \in Tokens : tok[t].parent # req[r].tok
    BY <1>0, <2>3
  <2> QED
    BY <1>0, <2>1, <2>2, <2>3, <2>4
<1>3. ASSUME NEW r \in Reqs, NEW x \in Tokens, InsertRoot(r, x)
      PROVE  Goal
  <2>1. \A t \in Tokens : t # x => tok'[t] = tok[t]
    BY <1>3 DEF InsertRoot, Insert
  <2>2. \A s \in Reqs : AtN(s) => At(s) /\ req'[s] = req[s]
    BY <1>3 DEF InsertRoot, Insert, Idle
  <2>3. tok'[x].parent = None /\ tok'[x].st = "live" /\ tok[x].st = "free"
    BY <1>3 DEF InsertRoot, Insert
  <2>4. \A t \in Tokens : tok[t].parent # x
    BY <1>0, <2>3
  <2>5. \A s \in Reqs : At(s) => req[s].tok \in Tokens /\ req[s].tok # x
    BY <1>h, <2>3
  <2> QED
    BY <1>0, <2>1, <2>2, <2>3, <2>4, <2>5
<1>4. ASSUME NEW r \in Reqs, NEW x \in Tokens, InsertSuccessor(r, x)
      PROVE  Goal
  <2>1. \A t \in Tokens : t # x => tok'[t] = tok[t]
    BY <1>4 DEF InsertSuccessor, Insert
  <2>2. \A s \in Reqs : AtN(s) => s # r /\ At(s) /\ req'[s] = req[s]
    BY <1>4 DEF InsertSuccessor, Insert, Idle
  <2>3. tok'[x].parent = req[r].tok /\ tok'[x].st = "live" /\ tok[x].st = "free" /\ At(r)
    BY <1>4 DEF InsertSuccessor, Insert
  <2>4. \A t \in Tokens : tok[t].parent # x
    BY <1>0, <2>3
  <2>5. \A s \in Reqs : At(s) => req[s].tok \in Tokens /\ req[s].tok # x
    BY <1>h, <2>3
  <2>6. \A s \in Reqs : s # r /\ At(s) => req[s].tok # req[r].tok
    BY <2>3 DEF BatonInv
  <2>7. \A t, u \in Tokens : tok'[t].parent # None /\ tok'[t].parent = tok'[u].parent => t = u
    BY <1>0, <2>1, <2>3, <2>5
  <2>8. ASSUME NEW t \in Tokens, tok'[t].parent # None
        PROVE  /\ tok'[t].parent \in Tokens
               /\ tok'[tok'[t].parent].st # "free"
               /\ ~LiveN(tok'[t].parent)
    <3>1. CASE t = x
      BY <1>0, <1>h, <2>1, <2>3, <2>5, <3>1
    <3>2. CASE t # x
      BY <1>0, <2>1, <2>4, <2>8, <3>2
    <3> QED
      BY <3>1, <3>2
  <2>9. ASSUME NEW s \in Reqs, AtN(s)
        PROVE  ~LiveN(req'[s].tok) /\ \A t \in Tokens : tok'[t].parent # req'[s].tok
    BY <1>0, <2>1, <2>2, <2>3, <2>5, <2>6, <2>9
  <2> QED
    BY <2>7, <2>8, <2>9
<1> QED
  BY <1>1, <1>2, <1>3, <1>4, StillKinds DEF Kind

\* The rotation invariants hold initially.
LEMMA RotationInvInit == Init => RotationInv
<1> SUFFICES ASSUME Init PROVE RotationInv
  OBVIOUS
<1>1. \A r \in Reqs : req[r].pc = "idle"
  BY DEF Init, Idle
<1>2. \A t \in Tokens : tok[t].st = "free" /\ tok[t].parent = None
  BY DEF Init
<1>3. FamilyInv
  BY <1>1, <1>2 DEF FamilyInv, RefreshPCs
<1>4. BatonInv /\ SpentInv
  BY <1>1, <1>2 DEF BatonInv, SpentInv, OneLiveTokenPerFamily, RefreshTokenSpentOnce, Unrevoked
<1> QED
  BY <1>3, <1>4, TInvInit DEF RotationInv

\* The rotation invariants are inductive together.
LEMMA RotationInvStep == RotationInv /\ [Next]_vars => RotationInv'
<1> SUFFICES ASSUME RotationInv, [Next]_vars PROVE RotationInv'
  OBVIOUS
<1>1. TInv' /\ Kind
  BY StepKind DEF RotationInv
<1> QED
  BY <1>1, FamilyStep, BatonStep, SpentStep DEF RotationInv

\* However many refreshes, revocations and reuse reactions run at once, at most
\* one token of a family is unrevoked (agent_auth_refresh).
THEOREM FamiliesDoNotFork == Spec => []OneLiveTokenPerFamily
<1>1. RotationInv => OneLiveTokenPerFamily
  BY DEF RotationInv, BatonInv
<1> QED
  BY <1>1, RotationInvInit, RotationInvStep, PTL DEF Spec

\* No refresh token is ever exchanged for two successors, also across lost
\* responses, retries and cancelled requests (agent_auth_refresh).
THEOREM RefreshTokensAreSpentOnce == Spec => []RefreshTokenSpentOnce
<1>1. RotationInv => RefreshTokenSpentOnce
  BY DEF RotationInv, SpentInv
<1> QED
  BY <1>1, RotationInvInit, RotationInvStep, PTL DEF Spec
-----------------------------------------------------------------------------
(* Issuance: an assertion mints one family. *)

\* Every minted row's assertion is recorded; a handler about to mint has
\* recorded its assertion, no row was minted from it, and no other handler is
\* about to mint from it.
AssertionInv ==
  /\ OneFamilyPerAssertion
  /\ \A t \in Tokens : tok[t].jti # None => <<tok[t].cred, tok[t].jti>> \in nonces
  /\ \A r \in Reqs : req[r].pc = "token_insert" =>
       /\ <<req[r].cred, req[r].jti>> \in nonces
       /\ \A t \in Tokens : tok[t].jti = req[r].jti => tok[t].cred # req[r].cred
  /\ \A r, s \in Reqs :
       /\ req[r].pc = "token_insert"
       /\ req[s].pc = "token_insert"
       /\ req[r].cred = req[s].cred
       /\ req[r].jti = req[s].jti
       => r = s

\* No assertion is recorded initially.
LEMMA AssertionInvInit == Init => AssertionInv
<1> SUFFICES ASSUME Init PROVE AssertionInv
  OBVIOUS
<1>1. \A r \in Reqs : req[r].pc = "idle"
  BY DEF Init, Idle
<1>2. \A t \in Tokens : tok[t].jti = None
  BY DEF Init
<1> QED
  BY <1>1, <1>2 DEF AssertionInv, OneFamilyPerAssertion

\* Every kind of step keeps AssertionInv.
LEMMA AssertionStep ==
  ASSUME TInv, AssertionInv, Kind
  PROVE  AssertionInv'
<1> USE NoneAssumption
<1>h. \A r \in Reqs : req[r].pc \in {"token_replay", "token_insert"} =>
        req[r].jti \in Jtis /\ req[r].cred \in Creds
  BY DEF TInv, HandlerInv, WellFormed
<1>1. CASE /\ Demoted
           /\ nonces' = nonces
           /\ \A s \in Reqs : req'[s].pc = "token_insert" => req'[s] = req[s]
  <2>1. \A t \in Tokens : tok'[t].jti = tok[t].jti /\ tok'[t].cred = tok[t].cred
    BY <1>1 DEF Demoted, SameRow
  <2> QED
    BY <1>1, <2>1 DEF AssertionInv, OneFamilyPerAssertion
<1>2. ASSUME NEW r \in Reqs, Replay(r)
      PROVE  AssertionInv'
  <2>1. \A t \in Tokens : tok'[t].jti = tok[t].jti /\ tok'[t].cred = tok[t].cred
    BY <1>2 DEF Replay, Demoted, SameRow
  <2>2. \A s \in Reqs : s # r => req'[s] = req[s]
    BY <1>2 DEF Replay
  <2>3. req'[r].cred = req[r].cred /\ req'[r].jti = req[r].jti /\ req[r].jti \in Jtis
    BY <1>2, <1>h DEF Replay
  <2>4. <<req[r].cred, req[r].jti>> \notin nonces /\ nonces' = nonces \cup {<<req[r].cred, req[r].jti>>}
    BY <1>2 DEF Replay
  <2>5. \A t \in Tokens : tok[t].jti = req[r].jti => tok[t].cred # req[r].cred
    BY <2>3, <2>4 DEF AssertionInv
  <2>6. \A s \in Reqs : req[s].pc = "token_insert" /\ req[s].cred = req[r].cred => req[s].jti # req[r].jti
    BY <2>4 DEF AssertionInv
  <2> QED
    BY <2>1, <2>2, <2>3, <2>4, <2>5, <2>6 DEF AssertionInv, OneFamilyPerAssertion
<1>3. ASSUME NEW r \in Reqs, NEW x \in Tokens, InsertRoot(r, x)
      PROVE  AssertionInv'
  <2>1. \A t \in Tokens : t # x => tok'[t] = tok[t]
    BY <1>3 DEF InsertRoot, Insert
  <2>2. \A s \in Reqs : req'[s].pc = "token_insert" => s # r /\ req'[s] = req[s]
    BY <1>3 DEF InsertRoot, Insert, Idle
  <2>3. tok'[x].jti = req[r].jti /\ tok'[x].cred = req[r].cred /\ req[r].pc = "token_insert" /\ nonces' = nonces
    BY <1>3 DEF InsertRoot, Insert
  <2>8. \A t \in Tokens : tok[t].jti = req[r].jti => tok[t].cred # req[r].cred
    BY <2>3 DEF AssertionInv
  <2>9. ASSUME NEW t \in Tokens, NEW u \in Tokens, tok'[t].jti # None,
               tok'[t].jti = tok'[u].jti, tok'[t].cred = tok'[u].cred
        PROVE  t = u
    <3>1. CASE t # x /\ u # x
      BY <2>1, <2>9, <3>1 DEF AssertionInv, OneFamilyPerAssertion
    <3>2. CASE t = x /\ u # x
      BY <2>1, <2>3, <2>8, <2>9, <3>2
    <3>3. CASE t # x /\ u = x
      BY <2>1, <2>3, <2>8, <2>9, <3>3
    <3> QED
      BY <3>1, <3>2, <3>3
  <2>4. OneFamilyPerAssertion'
    BY <2>9 DEF OneFamilyPerAssertion
  <2>5. \A t \in Tokens : tok'[t].jti # None => <<tok'[t].cred, tok'[t].jti>> \in nonces
    BY <2>1, <2>3 DEF AssertionInv
  <2>6. \A s \in Reqs : req'[s].pc = "token_insert" =>
          /\ <<req'[s].cred, req'[s].jti>> \in nonces
          /\ \A t \in Tokens : tok'[t].jti = req'[s].jti => tok'[t].cred # req'[s].cred
    BY <2>1, <2>2, <2>3 DEF AssertionInv
  <2>7. \A q, s \in Reqs :
          /\ req'[q].pc = "token_insert"
          /\ req'[s].pc = "token_insert"
          /\ req'[q].cred = req'[s].cred
          /\ req'[q].jti = req'[s].jti
          => q = s
    BY <2>2 DEF AssertionInv
  <2> QED
    BY <2>3, <2>4, <2>5, <2>6, <2>7 DEF AssertionInv
<1>4. ASSUME NEW r \in Reqs, NEW x \in Tokens, InsertSuccessor(r, x)
      PROVE  AssertionInv'
  <2>1. \A t \in Tokens : t # x => tok'[t] = tok[t]
    BY <1>4 DEF InsertSuccessor, Insert
  <2>2. \A s \in Reqs : req'[s].pc = "token_insert" => req'[s] = req[s]
    BY <1>4 DEF InsertSuccessor, Insert, Idle
  <2>3. tok'[x].jti = None /\ nonces' = nonces
    BY <1>4 DEF InsertSuccessor, Insert
  <2>4. OneFamilyPerAssertion'
    BY <2>1, <2>3 DEF AssertionInv, OneFamilyPerAssertion
  <2>5. \A t \in Tokens : tok'[t].jti # None => <<tok'[t].cred, tok'[t].jti>> \in nonces
    BY <2>1, <2>3 DEF AssertionInv
  <2>6. ASSUME NEW s \in Reqs, req'[s].pc = "token_insert"
        PROVE  /\ <<req'[s].cred, req'[s].jti>> \in nonces
               /\ \A t \in Tokens : tok'[t].jti = req'[s].jti => tok'[t].cred # req'[s].cred
    <3>1. req'[s] = req[s] /\ req[s].jti # None
      BY <1>h, <2>2, <2>6
    <3> QED
      BY <2>1, <2>3, <2>6, <3>1 DEF AssertionInv
  <2>7. \A q, s \in Reqs :
          /\ req'[q].pc = "token_insert"
          /\ req'[s].pc = "token_insert"
          /\ req'[q].cred = req'[s].cred
          /\ req'[q].jti = req'[s].jti
          => q = s
    BY <2>2 DEF AssertionInv
  <2> QED
    BY <2>3, <2>4, <2>5, <2>6, <2>7 DEF AssertionInv
<1>5. Quiet => /\ Demoted
               /\ nonces' = nonces
               /\ \A s \in Reqs : req'[s].pc = "token_insert" => req'[s] = req[s]
  BY DEF Quiet, Calm, InsertPCs
<1>6. \A r \in Reqs : Claim(r) =>
               /\ Demoted
               /\ nonces' = nonces
               /\ \A s \in Reqs : req'[s].pc = "token_insert" => req'[s] = req[s]
  BY DEF Claim
<1> QED
  BY <1>1, <1>2, <1>3, <1>4, <1>5, <1>6 DEF Kind

\* A signed assertion mints at most one token family, however many requests
\* submit it at once and whatever happens to them (agent_auth_token).
THEOREM AssertionsMintOnce == Spec => []OneFamilyPerAssertion
<1>1. Init => TInv /\ AssertionInv
  BY TInvInit, AssertionInvInit
<1>2. TInv /\ AssertionInv /\ [Next]_vars => (TInv /\ AssertionInv)'
  BY StepKind, AssertionStep
<1>3. AssertionInv => OneFamilyPerAssertion
  BY DEF AssertionInv
<1> QED
  BY <1>1, <1>2, <1>3, PTL DEF Spec

-----------------------------------------------------------------------------
(* Credentials: activation, and what a revocation means. *)

\* The statements of POST /agent-credentials/activate after its SELECT.
ActivationPCs == {"activate_verdict", "activate_key", "activate_update"}

\* The statements that lead to a new token.
MintPCs == {"token_replay", "token_insert", "refresh_claim", "refresh_insert"}

\* A handler comes to activate a credential only when it reads it as pending, and
\* to mint a token under it only when it reads it as active.
Arrival(s) ==
  /\ req'[s].pc \in ActivationPCs =>
       \/ /\ req[s].pc \in ActivationPCs
          /\ req'[s].cred = req[s].cred
          /\ req'[s].pc = "activate_verdict" => req[s].pc = "activate_verdict"
       \/ cred[req'[s].cred].status = "pending"
  /\ req'[s].pc \in MintPCs =>
       \/ req[s].pc \in MintPCs /\ req'[s].cred = req[s].cred
       \/ cred[req'[s].cred].status = "active"

\* Handlers that start, move on or end arrive that way.
LEMMA HandlerArrives ==
  ASSUME TInv, NEW r \in Reqs,
         \/ Finish(r)
         \/ \E pc \in PCs \ (ActivationPCs \cup MintPCs) : Goto(r, pc)
         \/ req[r].pc \in ActivationPCs /\ \E pc \in ActivationPCs \ {"activate_verdict"} : Goto(r, pc)
         \/ req[r].pc \in MintPCs /\ \E pc \in MintPCs : Goto(r, pc)
         \/ \E pc \in PCs : \E c, t, j :
              /\ Start(r, pc, c, t, j)
              /\ pc \in ActivationPCs => cred[c].status = "pending"
              /\ pc \in MintPCs => cred[c].status = "active"
  PROVE  \A s \in Reqs : Arrival(s)
<1>0. req \in [Reqs -> Handler] /\ req[r] \in Handler
  BY DEF TInv, TypeOK
<1>1. CASE Finish(r)
  <2>1. req' = [req EXCEPT ![r] = Idle] /\ Idle.pc = "idle"
    BY <1>1 DEF Finish, Idle
  <2> QED
    BY <1>0, <2>1 DEF Arrival, ActivationPCs, MintPCs
<1>2. ASSUME NEW pc, Goto(r, pc),
             \/ pc \notin ActivationPCs \cup MintPCs
             \/ req[r].pc \in ActivationPCs /\ pc \in ActivationPCs \ {"activate_verdict"}
             \/ req[r].pc \in MintPCs /\ pc \in MintPCs
      PROVE  \A s \in Reqs : Arrival(s)
  <2>1. PICK h : h = [req[r] EXCEPT !.pc = pc]
    OBVIOUS
  <2>2. h.pc = pc /\ h.cred = req[r].cred
    BY <1>0, <2>1 DEF Handler
  <2>3. req'[r] = h /\ \A s \in Reqs \ {r} : req'[s] = req[s]
    BY <1>0, <1>2, <2>1 DEF Goto
  <2> QED
    BY <1>2, <2>2, <2>3 DEF Arrival, ActivationPCs, MintPCs
<1>3. ASSUME NEW pc \in PCs, NEW c, NEW t, NEW j, Start(r, pc, c, t, j),
             pc \in ActivationPCs => cred[c].status = "pending",
             pc \in MintPCs => cred[c].status = "active"
      PROVE  \A s \in Reqs : Arrival(s)
  <2>1. PICK h : h = [pc |-> pc, cred |-> c, aid |-> None, tok |-> t, jti |-> j]
    OBVIOUS
  <2>2. h.pc = pc /\ h.cred = c
    BY <2>1
  <2>3. req'[r] = h /\ \A s \in Reqs \ {r} : req'[s] = req[s]
    BY <1>0, <1>3, <2>1 DEF Start
  <2> QED
    BY <1>3, <2>2, <2>3 DEF Arrival
<1> QED
  BY <1>1, <1>2, <1>3

\* Every step moves the handlers that way.
LEMMA HandlersArrive ==
  ASSUME TInv, [Next]_vars
  PROVE  \A s \in Reqs : Arrival(s)
<1>1. CASE UNCHANGED req
  BY <1>1 DEF Arrival
<1>2. CASE HumanStep
  <2>1. ASSUME NEW r \in Reqs, NEW c \in Creds,
               RevokeAgentCredential(r, c) \/ PurgeAgentCredential(r, c) \/ RotateAgentCredential(r, c)
        PROVE  \A s \in Reqs : Arrival(s)
    <3>1. \E pc \in {"revoke_tokens", "purge_delete", "rotate_keys"} : Start(r, pc, c, None, None)
      BY <2>1 DEF RevokeAgentCredential, PurgeAgentCredential, RotateAgentCredential
    <3> QED
      BY <3>1, HandlerArrives DEF PCs, ActivationPCs, MintPCs
  <2>2. ASSUME NEW r \in Reqs, NEW a \in Aids, AgentEmergencyShutdown(r, a)
        PROVE  \A s \in Reqs : Arrival(s)
    <3>1. req' = [req EXCEPT ![r] = [Idle EXCEPT !.pc = "shutdown_tokens", !.aid = a]]
      BY <2>2 DEF AgentEmergencyShutdown
    <3>2. [Idle EXCEPT !.pc = "shutdown_tokens", !.aid = a].pc = "shutdown_tokens"
      BY DEF Idle
    <3> QED
      BY <3>1, <3>2 DEF Arrival, ActivationPCs, MintPCs, TInv, TypeOK
  <2>3. ASSUME NEW r \in Reqs, \/ RevokeAgentCredentialTokens(r) \/ AgentEmergencyShutdownTokens(r)
                               \/ PurgeAgentCredentialDelete(r) \/ RotateAgentCredentialSecret(r)
        PROVE  \A s \in Reqs : Arrival(s)
    <3>1. Finish(r)
      BY <2>3 DEF RevokeAgentCredentialTokens, AgentEmergencyShutdownTokens, PurgeAgentCredentialDelete,
                  RotateAgentCredentialSecret
    <3> QED
      BY <3>1, HandlerArrives
  <2>4. ASSUME NEW r \in Reqs, RotateAgentCredentialKeys(r)
        PROVE  \A s \in Reqs : Arrival(s)
    BY <2>4, HandlerArrives DEF RotateAgentCredentialKeys, PCs, ActivationPCs, MintPCs
  <2> QED
    BY <1>1, <1>2, <2>1, <2>2, <2>3, <2>4 DEF HumanStep, CreateAgentCredential, DeleteAgent
<1>3. CASE EnrollmentStep
  <2>1. ASSUME NEW r \in Reqs, NEW c \in Creds, ActivateAgentCredential(r, c)
        PROVE  \A s \in Reqs : Arrival(s)
    <3>1. Start(r, "activate_verdict", c, None, None) /\ cred[c].status = "pending"
      BY <2>1 DEF ActivateAgentCredential, CanActivate
    <3> QED
      BY <3>1, HandlerArrives DEF PCs, MintPCs
  <2>2. ASSUME NEW r \in Reqs, RecordFailedAttempt(r) \/ ActivateUpdate(r)
        PROVE  \A s \in Reqs : Arrival(s)
    <3>1. Finish(r)
      BY <2>2 DEF RecordFailedAttempt, ActivateUpdate
    <3> QED
      BY <3>1, HandlerArrives
  <2>3. ASSUME NEW r \in Reqs, ActivationVerified(r)
        PROVE  \A s \in Reqs : Arrival(s)
    BY <2>3, HandlerArrives DEF ActivationVerified, ActivationPCs
  <2>4. ASSUME NEW r \in Reqs, ActivateIdentityKey(r)
        PROVE  \A s \in Reqs : Arrival(s)
    <3>1. Finish(r) \/ (req[r].pc \in ActivationPCs /\ Goto(r, "activate_update"))
      BY <2>4 DEF ActivateIdentityKey, ActivationPCs
    <3> QED
      BY <3>1, HandlerArrives DEF ActivationPCs
  <2> QED
    BY <1>3, <2>1, <2>2, <2>3, <2>4 DEF EnrollmentStep
<1>4. CASE TokenStep
  <2>1. ASSUME NEW r \in Reqs, NEW c \in Creds, NEW j \in Jtis, AgentAuthToken(r, c, j)
        PROVE  \A s \in Reqs : Arrival(s)
    <3>1. Start(r, "token_replay", c, None, j) /\ cred[c].status = "active"
      BY <2>1 DEF AgentAuthToken
    <3> QED
      BY <3>1, HandlerArrives DEF PCs, ActivationPCs
  <2>2. ASSUME NEW r \in Reqs, AgentAuthTokenReplay(r)
        PROVE  \A s \in Reqs : Arrival(s)
    <3>1. Finish(r) \/ (req[r].pc \in MintPCs /\ Goto(r, "token_insert"))
      BY <2>2 DEF AgentAuthTokenReplay, MintPCs
    <3> QED
      BY <3>1, HandlerArrives DEF MintPCs
  <2>3. ASSUME NEW r \in Reqs, NEW t \in Tokens, AgentAuthTokenInsert(r, t) \/ AgentAuthRefreshInsert(r, t)
        PROVE  \A s \in Reqs : Arrival(s)
    <3>1. Finish(r)
      BY <2>3 DEF AgentAuthTokenInsert, AgentAuthRefreshInsert
    <3> QED
      BY <3>1, HandlerArrives
  <2>4. ASSUME NEW r \in Reqs, NEW t \in Tokens, AgentAuthRefresh(r, t)
        PROVE  \A s \in Reqs : Arrival(s)
    <3>1. \/ Start(r, "reuse_family", tok[t].cred, t, None)
          \/ Start(r, "refresh_claim", tok[t].cred, t, None) /\ cred[tok[t].cred].status = "active"
      BY <2>4 DEF AgentAuthRefresh
    <3> QED
      BY <3>1, HandlerArrives DEF PCs, ActivationPCs, MintPCs
  <2>5. ASSUME NEW r \in Reqs, AgentAuthRefreshClaim(r)
        PROVE  \A s \in Reqs : Arrival(s)
    <3>1. Goto(r, "reuse_family") \/ (req[r].pc \in MintPCs /\ Goto(r, "refresh_insert"))
      BY <2>5 DEF AgentAuthRefreshClaim, MintPCs
    <3> QED
      BY <3>1, HandlerArrives DEF PCs, ActivationPCs, MintPCs
  <2>6. ASSUME NEW r \in Reqs, RevokeFamilyForReuse(r) \/ CompromiseForReuse(r) \/ RevokeCredentialTokensForReuse(r)
        PROVE  \A s \in Reqs : Arrival(s)
    <3>1. Goto(r, "reuse_credential") \/ Goto(r, "reuse_tokens") \/ Finish(r)
      BY <2>6 DEF RevokeFamilyForReuse, CompromiseForReuse, RevokeCredentialTokensForReuse
    <3> QED
      BY <3>1, HandlerArrives DEF PCs, ActivationPCs, MintPCs
  <2> QED
    BY <1>1, <1>4, <2>1, <2>2, <2>3, <2>4, <2>5, <2>6 DEF TokenStep, AgentAuthRevoke
<1>5. CASE EnvironmentStep
  BY <1>1, <1>5, HandlerArrives
     DEF EnvironmentStep, Cancel, EnrollmentExpires, GracePeriodElapses, RefreshTokenExpires
<1> QED
  BY <1>1, <1>2, <1>3, <1>4, <1>5 DEF Next, vars

\* What a step does to a credential: it is pending only before its first
\* activation, only an activation under way brings it back up, and the attempts
\* grow by the verdict of a handler that ends.
CredStep(c) ==
  /\ cred'[c].status = "free" => cred[c].status = "free"
  /\ cred'[c].status = "pending" => cred[c].status \in {"free", "pending"}
  /\ cred[c].status \in {"revoked", "compromised"} =>
       \/ cred'[c].status \in {"revoked", "compromised", "gone"}
       \/ \E r \in Reqs : req[r].pc = "activate_update" /\ req[r].cred = c
  /\ \/ cred'[c].attempts = cred[c].attempts
     \/ cred'[c].attempts = 0
     \/ /\ cred'[c].attempts = cred[c].attempts + 1
        /\ cred'[c].status # "free"
        /\ cred'[c].status = "pending" => cred'[c].attempts < ACTIVATION_MAX_FAILED_ATTEMPTS
        /\ \E r \in Reqs : /\ req[r].pc = "activate_verdict" /\ req[r].cred = c
                           /\ req'[r] = Idle /\ \A s \in Reqs \ {r} : req'[s] = req[s]

\* A deleted row takes its tokens along.
Cascade(c) ==
  cred'[c].status = "gone" /\ cred[c].status # "gone" =>
    \A t \in Tokens : tok[t].cred = c => tok'[t].st = "gone"

\* A row that is updated, and the rows that are not.
LEMMA OneRow ==
  ASSUME TInv, NEW c \in Creds, NEW k, cred' = [cred EXCEPT ![c] = k],
         CredStep(c), Cascade(c)
  PROVE  \A d \in Creds : CredStep(d) /\ Cascade(d)
<1>1. \A d \in Creds \ {c} : cred'[d] = cred[d]
  BY DEF TInv, TypeOK
<1>2. \A d \in Creds \ {c} : CredStep(d) /\ Cascade(d)
  BY <1>1 DEF CredStep, Cascade
<1> QED
  BY <1>2

\* Every step treats every credential so.
LEMMA CredentialsMove ==
  ASSUME TInv, [Next]_vars
  PROVE  \A c \in Creds : CredStep(c) /\ Cascade(c)
<1>0. /\ cred \in [Creds -> CredRow] /\ NoCred("gone").status = "gone" /\ NoCred("gone").attempts = 0
      /\ \A c \in Creds : cred[c] \in CredRow /\ cred[c].attempts \in Nat
  BY DEF TInv, TypeOK, NoCred, CredRow
<1>1. CASE UNCHANGED cred
  BY <1>1 DEF CredStep, Cascade
\* An update of columns that the property does not see, or of the status.
<1>2. ASSUME NEW c \in Creds, NEW k, cred' = [cred EXCEPT ![c] = k],
             k.attempts = cred[c].attempts, k.status # "gone",
             \/ k.status = cred[c].status
             \/ k.status \in {"revoked", "compromised"}
             \/ k.status = "pending" /\ cred[c].status = "free"
      PROVE  \A d \in Creds : CredStep(d) /\ Cascade(d)
  <2>1. cred'[c] = k
    BY <1>0, <1>2
  <2>2. CredStep(c) /\ Cascade(c)
    BY <1>2, <2>1 DEF CredStep, Cascade
  <2> QED
    BY <1>2, <2>2, OneRow
<1>3. ASSUME NEW c \in Creds, CreateAgentCredential(c)
      PROVE  \A d \in Creds : CredStep(d) /\ Cascade(d)
  <2>1. PICK k : k = [cred[c] EXCEPT !.status = "pending", !.enroll = "valid"]
    OBVIOUS
  <2>2. k.status = "pending" /\ k.attempts = cred[c].attempts
    BY <1>0, <2>1 DEF CredRow
  <2>3. cred' = [cred EXCEPT ![c] = k] /\ cred[c].status = "free"
    BY <1>0, <1>3, <2>1 DEF CreateAgentCredential
  <2> QED
    BY <1>2, <2>2, <2>3
<1>4. ASSUME NEW r \in Reqs, NEW c \in Creds, RevokeAgentCredential(r, c)
      PROVE  \A d \in Creds : CredStep(d) /\ Cascade(d)
  <2>1. PICK k : k = [cred[c] EXCEPT !.status = "revoked", !.revokedAt = "recent"]
    OBVIOUS
  <2>2. k.status = "revoked" /\ k.attempts = cred[c].attempts
    BY <1>0, <2>1 DEF CredRow
  <2>3. cred' = [cred EXCEPT ![c] = k]
    BY <1>0, <1>4, <2>1 DEF RevokeAgentCredential
  <2> QED
    BY <1>2, <2>2, <2>3
<1>5. ASSUME NEW r \in Reqs, NEW a \in Aids, AgentEmergencyShutdown(r, a)
      PROVE  \A d \in Creds : CredStep(d) /\ Cascade(d)
  <2>1. ASSUME NEW d \in Creds
        PROVE  CredStep(d) /\ Cascade(d)
    <3>1. PICK k : k = [cred[d] EXCEPT !.status = "revoked", !.revokedAt = "recent"]
      OBVIOUS
    <3>2. k.status = "revoked" /\ k.attempts = cred[d].attempts
      BY <1>0, <3>1 DEF CredRow
    <3>3. cred'[d] = k \/ cred'[d] = cred[d]
      BY <1>5, <3>1 DEF AgentEmergencyShutdown
    <3> QED
      BY <3>2, <3>3 DEF CredStep, Cascade
  <2> QED
    BY <2>1
<1>6. ASSUME NEW r \in Reqs, PurgeAgentCredentialDelete(r)
      PROVE  \A d \in Creds : CredStep(d) /\ Cascade(d)
  <2>1. PICK c : c = req[r].cred
    OBVIOUS
  <2>2. c \in Creds
    BY <1>6, <2>1 DEF PurgeAgentCredentialDelete, TInv, HandlerInv, WellFormed
  <2>3. CASE Purgeable(c)
    <3>1. cred' = [cred EXCEPT ![c] = NoCred("gone")] /\ CascadeTokens({c})
      BY <1>6, <2>1, <2>3 DEF PurgeAgentCredentialDelete
    <3>2. cred'[c] = NoCred("gone")
      BY <1>0, <2>2, <3>1
    <3>3. Cascade(c)
      BY <2>2, <3>1, CascadeTokensLemma DEF Cascade
    <3>4. CredStep(c)
      BY <1>0, <3>2 DEF CredStep
    <3> QED
      BY <2>2, <3>1, <3>3, <3>4, OneRow
  <2>4. CASE ~Purgeable(c)
    BY <1>1, <1>6, <2>1, <2>4 DEF PurgeAgentCredentialDelete
  <2> QED
    BY <2>3, <2>4
<1>7. ASSUME NEW r \in Reqs, RotateAgentCredentialSecret(r)
      PROVE  \A d \in Creds : CredStep(d) /\ Cascade(d)
  <2>1. PICK c : c = req[r].cred
    OBVIOUS
  <2>2. c \in Creds
    BY <1>7, <2>1 DEF RotateAgentCredentialSecret, TInv, HandlerInv, WellFormed
  <2>3. PICK k : k = [cred[c] EXCEPT !.enroll = "valid", !.key = FALSE]
    OBVIOUS
  <2>4. k.status = cred[c].status /\ k.attempts = cred[c].attempts
    BY <1>0, <2>2, <2>3 DEF CredRow
  <2>5. UNCHANGED cred \/ (cred' = [cred EXCEPT ![c] = k] /\ Exists(c))
    BY <1>0, <1>7, <2>1, <2>2, <2>3 DEF RotateAgentCredentialSecret
  <2> QED
    BY <1>1, <1>2, <2>2, <2>4, <2>5 DEF Exists
<1>8. ASSUME NEW a \in Aids, DeleteAgent(a)
      PROVE  \A d \in Creds : CredStep(d) /\ Cascade(d)
  <2>1. ASSUME NEW d \in Creds
        PROVE  CredStep(d) /\ Cascade(d)
    <3>1. PICK C : C = {c \in Creds : AidOf[c] = a}
      OBVIOUS
    <3>2. cred'[d] = (IF d \in C /\ Exists(d) THEN NoCred("gone") ELSE cred[d]) /\ CascadeTokens(C)
      BY <1>8, <3>1 DEF DeleteAgent
    <3>3. C \in SUBSET Creds
      BY <3>1
    <3>4. d \in C => \A t \in Tokens : tok[t].cred = d => tok'[t].st = "gone"
      BY <3>2, <3>3, CascadeTokensLemma
    <3> QED
      BY <1>0, <3>2, <3>4 DEF CredStep, Cascade
  <2> QED
    BY <2>1
<1>9. ASSUME NEW r \in Reqs, RecordFailedAttempt(r)
      PROVE  \A d \in Creds : CredStep(d) /\ Cascade(d)
  <2>1. PICK c : c = req[r].cred
    OBVIOUS
  <2>2. c \in Creds /\ req[r].pc = "activate_verdict" /\ Finish(r)
    BY <1>9, <2>1 DEF RecordFailedAttempt, TInv, HandlerInv, WellFormed
  <2>3. CASE ~Exists(c)
    BY <1>1, <1>9, <2>1, <2>3 DEF RecordFailedAttempt
  <2>4. CASE Exists(c)
    <3>1. PICK n, burn : n = cred[c].attempts + 1 /\ burn = (n >= ACTIVATION_MAX_FAILED_ATTEMPTS)
      OBVIOUS
    <3>2. n \in Nat /\ burn \in BOOLEAN
      BY <1>0, <2>2, <3>1, AttemptsAssumption
    <3>3. PICK k : k = FailedCred(cred[c], n, burn)
      OBVIOUS
    <3>4. cred' = [cred EXCEPT ![c] = k]
      BY <1>9, <2>1, <2>2, <2>4, <3>1, <3>3 DEF RecordFailedAttempt, FailedCred
    <3>5. k.attempts = n /\ k.status = IF burn THEN "revoked" ELSE cred[c].status
      <4>1. cred[c] \in CredRow
        BY <1>0, <2>2
      <4>2. CASE burn
        BY <3>2, <3>3, <4>1, <4>2 DEF FailedCred, CredRow
      <4>3. CASE ~burn
        BY <3>2, <3>3, <4>1, <4>3 DEF FailedCred, CredRow
      <4> QED
        BY <4>2, <4>3
    <3>6. cred'[c] = k
      BY <1>0, <2>2, <3>4
    <3>7. k.status = "pending" => n < ACTIVATION_MAX_FAILED_ATTEMPTS
      <4>1. CASE n >= ACTIVATION_MAX_FAILED_ATTEMPTS
        <5>1. burn
          BY <3>1, <4>1
        <5>2. k.status = "revoked"
          BY <3>5, <5>1
        <5> QED
          BY <5>2
      <4>2. CASE ~(n >= ACTIVATION_MAX_FAILED_ATTEMPTS)
        BY <3>2, <4>2, AttemptsAssumption
      <4> QED
        BY <4>1, <4>2
    <3>8. \E s \in Reqs : /\ req[s].pc = "activate_verdict" /\ req[s].cred = c
                          /\ req'[s] = Idle /\ \A u \in Reqs \ {s} : req'[u] = req[u]
      BY <2>1, <2>2, FinishLemma
    <3>9. CredStep(c)
      BY <2>4, <3>1, <3>5, <3>6, <3>7, <3>8 DEF CredStep, Exists
    <3>10. Cascade(c)
      BY <2>4, <3>5, <3>6 DEF Cascade, Exists
    <3> QED
      BY <2>2, <3>4, <3>9, <3>10, OneRow
  <2> QED
    BY <2>3, <2>4
<1>10. ASSUME NEW r \in Reqs, ActivateUpdate(r)
       PROVE  \A d \in Creds : CredStep(d) /\ Cascade(d)
  <2>1. PICK c : c = req[r].cred
    OBVIOUS
  <2>2. c \in Creds /\ req[r].pc = "activate_update"
    BY <1>10, <2>1 DEF ActivateUpdate, TInv, HandlerInv, WellFormed
  <2>3. PICK k : k = [cred[c] EXCEPT !.status = "active", !.key = TRUE, !.enroll = "none", !.attempts = 0]
    OBVIOUS
  <2>4. k.status = "active" /\ k.attempts = 0
    BY <1>0, <2>2, <2>3 DEF CredRow
  <2>5. UNCHANGED cred \/ cred' = [cred EXCEPT ![c] = k]
    BY <1>0, <1>10, <2>1, <2>2, <2>3 DEF ActivateUpdate
  <2>6. CASE cred' = [cred EXCEPT ![c] = k]
    <3>1. cred'[c] = k
      BY <1>0, <2>2, <2>6
    <3>2. CredStep(c) /\ Cascade(c)
      BY <2>1, <2>2, <2>4, <3>1 DEF CredStep, Cascade
    <3> QED
      BY <2>2, <2>6, <3>2, OneRow
  <2> QED
    BY <1>1, <2>5, <2>6
<1>11. ASSUME NEW r \in Reqs, CompromiseForReuse(r)
       PROVE  \A d \in Creds : CredStep(d) /\ Cascade(d)
  <2>1. PICK c : c = req[r].cred
    OBVIOUS
  <2>2. c \in Creds
    BY <1>11, <2>1 DEF CompromiseForReuse, TInv, HandlerInv, WellFormed
  <2>3. PICK k : k = [cred[c] EXCEPT !.status = "compromised", !.revokedAt = "recent"]
    OBVIOUS
  <2>4. k.status = "compromised" /\ k.attempts = cred[c].attempts
    BY <1>0, <2>2, <2>3 DEF CredRow
  <2>5. UNCHANGED cred \/ cred' = [cred EXCEPT ![c] = k]
    BY <1>0, <1>11, <2>1, <2>2, <2>3 DEF CompromiseForReuse
  <2> QED
    BY <1>1, <1>2, <2>2, <2>4, <2>5
<1>12. ASSUME NEW c \in Creds, EnrollmentExpires(c) \/ GracePeriodElapses(c)
       PROVE  \A d \in Creds : CredStep(d) /\ Cascade(d)
  <2>1. PICK k, h : k = [cred[c] EXCEPT !.enroll = "expired"] /\ h = [cred[c] EXCEPT !.revokedAt = "old"]
    OBVIOUS
  <2>2. /\ k.status = cred[c].status /\ k.attempts = cred[c].attempts
        /\ h.status = cred[c].status /\ h.attempts = cred[c].attempts
    BY <1>0, <2>1 DEF CredRow
  <2>3. (cred' = [cred EXCEPT ![c] = k] \/ cred' = [cred EXCEPT ![c] = h]) /\ cred[c].status # "gone"
    BY <1>0, <1>12, <2>1 DEF EnrollmentExpires, GracePeriodElapses, Exists
  <2> QED
    BY <1>2, <2>2, <2>3
<1>13. CASE HumanStep
  <2>1. CASE UNCHANGED cred
    BY <1>1, <2>1
  <2>2. CASE cred' # cred
    BY <1>3, <1>4, <1>5, <1>6, <1>7, <1>8, <1>13, <2>2
       DEF HumanStep, PurgeAgentCredential, RotateAgentCredential, RevokeAgentCredentialTokens,
           AgentEmergencyShutdownTokens, RotateAgentCredentialKeys
  <2> QED
    BY <2>1, <2>2
<1>14. CASE EnrollmentStep
  BY <1>1, <1>9, <1>10, <1>14
     DEF EnrollmentStep, ActivateAgentCredential, ActivationVerified, ActivateIdentityKey
<1>15. CASE TokenStep
  <2>1. CASE UNCHANGED cred
    BY <1>1, <2>1
  <2>2. CASE cred' # cred
    BY <1>11, <1>15, <2>2
       DEF TokenStep, AgentAuthRevoke, AgentAuthToken, AgentAuthTokenReplay, AgentAuthTokenInsert,
           AgentAuthRefresh, AgentAuthRefreshInsert, AgentAuthRefreshClaim, RevokeFamilyForReuse,
           RevokeCredentialTokensForReuse
  <2> QED
    BY <2>1, <2>2
<1>16. CASE EnvironmentStep
  BY <1>1, <1>12, <1>16 DEF EnvironmentStep, Cancel, RefreshTokenExpires
<1> QED
  BY <1>1, <1>13, <1>14, <1>15, <1>16 DEF Next, vars

\* The credential of a token that is live, and of a handler that is going to mint
\* one, has been activated; that of a handler may be deleted meanwhile.
ActivatedInv ==
  /\ LiveTokenUnderActivatedCredential
  /\ \A r \in Reqs : req[r].pc \in MintPCs => cred[req[r].cred].status \notin {"free", "pending"}

\* Every step keeps it: the status check of a handler is stale by the time of its
\* INSERT, but a credential never becomes pending again, and the foreign key
\* refuses one that is deleted.
LEMMA ActivatedStep ==
  ASSUME TInv, ActivatedInv, [Next]_vars
  PROVE  ActivatedInv'
<1>1. Kind /\ TInv'
  BY StepKind
<1>2. \A c \in Creds : CredStep(c) /\ Cascade(c) /\ cred[c] \in CredRow /\ cred'[c] \in CredRow
  BY <1>1, CredentialsMove DEF TInv, TypeOK
<1>3. \A s \in Reqs : Arrival(s) /\ req[s] \in Handler /\ (req'[s].pc \in MintPCs => req'[s].cred \in Creds)
  BY <1>1, HandlersArrive DEF TInv, TypeOK, HandlerInv, WellFormed, MintPCs
<1>4. \A r \in Reqs : req'[r].pc \in MintPCs => cred'[req'[r].cred].status \notin {"free", "pending"}
  BY <1>2, <1>3 DEF Arrival, CredStep, ActivatedInv
<1>5. ASSUME NEW t \in Tokens, Unrevoked(t), SameRow(t), Unrevoked(t)'
      PROVE  cred'[tok'[t].cred].status \in {"active", "revoked", "compromised"}
  <2>1. tok'[t].cred = tok[t].cred /\ tok[t].cred \in Creds
    BY <1>5 DEF SameRow, TInv, RowInv, Unrevoked
  <2>2. PICK c \in Creds : c = tok[t].cred
    BY <2>1
  <2>3. cred[c].status \in {"active", "revoked", "compromised"}
    BY <1>5, <2>2 DEF ActivatedInv, LiveTokenUnderActivatedCredential
  <2>4. tok'[t].st # "gone"
    BY <1>5 DEF Unrevoked
  <2>5. cred'[c].status \notin {"free", "pending", "gone"}
    BY <1>2, <2>2, <2>3, <2>4 DEF CredStep, Cascade
  <2>6. cred'[c].status \in Statuses
    BY <1>2 DEF CredRow
  <2> QED
    BY <2>1, <2>2, <2>5, <2>6 DEF Statuses
<1>6. CASE Demoted
  BY <1>4, <1>5, <1>6 DEF Demoted, ActivatedInv, LiveTokenUnderActivatedCredential
<1>7. ASSUME NEW r \in Reqs, NEW t \in Tokens, Insert(r, t), req[r].pc \in {"token_insert", "refresh_insert"}
      PROVE  ActivatedInv'
  <2>1. \A u \in Tokens \ {t} : tok'[u] = tok[u]
    BY <1>7 DEF Insert
  <2>2. ASSUME NEW u \in Tokens \ {t}, Unrevoked(u)'
        PROVE  cred'[tok'[u].cred].status \in {"active", "revoked", "compromised"}
    BY <1>5, <2>1, <2>2 DEF SameRow, Unrevoked
  <2>3. cred'[tok'[t].cred].status \in {"active", "revoked", "compromised"}
    <3>1. PICK c : c = req[r].cred
      OBVIOUS
    <3>2. c \in Creds /\ cred[c].status \notin {"free", "pending", "gone"}
      BY <1>7, <3>1 DEF Insert, Exists, ActivatedInv, MintPCs, TInv, HandlerInv, WellFormed
    <3>3. cred[c].status \in Statuses
      BY <1>2, <3>2 DEF CredRow
    <3>4. tok'[t].cred = c /\ cred' = cred
      BY <1>7, <3>1 DEF Insert
    <3> QED
      BY <3>2, <3>3, <3>4 DEF Statuses
  <2> QED
    BY <1>4, <2>2, <2>3 DEF ActivatedInv, LiveTokenUnderActivatedCredential
<1> QED
  BY <1>1, <1>6, <1>7 DEF Kind, Quiet, Claim, Replay, InsertRoot, InsertSuccessor

\* No live token hangs under a credential that was never activated or that is
\* deleted, although the status is checked some statements before the INSERT.
THEOREM TokensNeedActivation == Spec => []LiveTokenUnderActivatedCredential
<1>1. Init => TInv /\ ActivatedInv
  <2>1. Init => ActivatedInv
    BY DEF Init, Idle, ActivatedInv, LiveTokenUnderActivatedCredential, Unrevoked, MintPCs
  <2> QED
    BY <2>1, TInvInit
<1>2. TInv /\ ActivatedInv /\ [Next]_vars => TInv' /\ ActivatedInv'
  BY StepKind, ActivatedStep
<1>3. ActivatedInv => LiveTokenUnderActivatedCredential
  BY DEF ActivatedInv
<1> QED
  BY <1>1, <1>2, <1>3, PTL DEF Spec

\* Handlers with a verdict outstanding on a credential.
Verdicts(c) == {r \in Reqs : req[r].pc = "activate_verdict" /\ req[r].cred = c}

\* The counter of a credential that can still be activated is below the threshold.
AttemptsInv ==
  /\ AttemptsOvershootBounded
  /\ \A c \in Creds : cred[c].status \in {"free", "pending"} => cred[c].attempts < ACTIVATION_MAX_FAILED_ATTEMPTS

\* Every step keeps it: a handler arrives only while the counter is below the
\* threshold, and adds to the counter what it takes from the outstanding verdicts.
LEMMA AttemptsStep ==
  ASSUME TInv, AttemptsInv, [Next]_vars
  PROVE  AttemptsInv'
<1> DEFINE M == ACTIVATION_MAX_FAILED_ATTEMPTS
           N == Cardinality(Reqs)
<1>1. M \in Nat \ {0} /\ N \in Nat
  BY AttemptsAssumption, ReqsAssumption, FS_CardinalityType
<1>2. TInv' /\ \A c \in Creds : CredStep(c) /\ cred[c].attempts \in Nat /\ cred'[c].attempts \in Nat
  <2>1. TInv'
    BY StepKind
  <2>2. \A c \in Creds : cred[c] \in CredRow /\ cred'[c] \in CredRow
    BY <2>1 DEF TInv, TypeOK
  <2> QED
    BY <2>1, <2>2, CredentialsMove DEF CredRow
<1>3. ASSUME NEW S \in SUBSET Reqs
      PROVE  IsFiniteSet(S) /\ Cardinality(S) \in Nat /\ Cardinality(S) <= N
  BY ReqsAssumption, FS_Subset, FS_CardinalityType
<1> HIDE DEF M, N
<1>4. ASSUME NEW c \in Creds
      PROVE  cred'[c].attempts + Cardinality(Verdicts(c)') < M + N
  <2>1. PICK V, W, n, m : /\ V = Verdicts(c) /\ W = Verdicts(c)' /\ n = cred[c].attempts /\ m = cred'[c].attempts
    OBVIOUS
  <2>2. V \in SUBSET Reqs /\ W \in SUBSET Reqs /\ n \in Nat /\ m \in Nat
    BY <1>2, <2>1 DEF Verdicts
  <2>3. n + Cardinality(V) < M + N
    BY <2>1 DEF AttemptsInv, AttemptsOvershootBounded, Verdicts, M, N
  <2>4. /\ IsFiniteSet(V) /\ Cardinality(V) \in Nat /\ Cardinality(V) <= N
        /\ IsFiniteSet(W) /\ Cardinality(W) \in Nat /\ Cardinality(W) <= N
    BY <1>3, <2>2
  <2>5. CASE m = 0
    BY <1>1, <2>1, <2>4, <2>5
  <2>6. CASE m = n /\ cred[c].status = "pending"
    <3>1. n < M
      BY <2>1, <2>6 DEF AttemptsInv, M
    <3> QED
      BY <1>1, <2>1, <2>2, <2>4, <2>6, <3>1
  <2>7. CASE m = n /\ cred[c].status # "pending"
    <3>1. W \subseteq V
      BY <2>1, <2>7, HandlersArrive DEF Verdicts, Arrival, ActivationPCs
    <3>2. Cardinality(W) <= Cardinality(V)
      BY <2>4, <3>1, FS_Subset
    <3> QED
      BY <1>1, <2>1, <2>2, <2>3, <2>4, <2>7, <3>2
  <2>8. ASSUME m = n + 1, NEW r \in Reqs, req[r].pc = "activate_verdict", req[r].cred = c,
               req'[r] = Idle, \A s \in Reqs \ {r} : req'[s] = req[s]
        PROVE  m + Cardinality(W) < M + N
    <3>1. r \in V /\ W = V \ {r}
      BY <2>1, <2>8 DEF Verdicts, Idle
    <3>2. Cardinality(W) = Cardinality(V) - 1
      BY <2>4, <3>1, FS_RemoveElement
    <3> QED
      BY <1>1, <2>2, <2>3, <2>4, <2>8, <3>2
  <2>9. CredStep(c)
    BY <1>2
  <2> QED
    BY <2>1, <2>5, <2>6, <2>7, <2>8, <2>9 DEF CredStep
<1>5. ASSUME NEW c \in Creds, cred'[c].status \in {"free", "pending"}
      PROVE  cred'[c].attempts < M
  <2>1. PICK n, m : n = cred[c].attempts /\ m = cred'[c].attempts /\ n \in Nat /\ m \in Nat
    BY <1>2
  <2>2. CredStep(c)
    BY <1>2
  <2>3. cred[c].status \in {"free", "pending"}
    BY <1>5, <2>2 DEF CredStep
  <2>4. n < M
    BY <2>1, <2>3 DEF AttemptsInv, M
  <2>5. CASE m = n \/ m = 0
    BY <1>1, <2>1, <2>4, <2>5
  <2>6. CASE m = n + 1 /\ cred'[c].status # "free" /\ (cred'[c].status = "pending" => m < M)
    BY <1>5, <2>1, <2>6
  <2> QED
    BY <2>1, <2>2, <2>5, <2>6 DEF CredStep, M
<1>6. \A c \in Creds : Verdicts(c)' = {r \in Reqs : req'[r].pc = "activate_verdict" /\ req'[r].cred = c}
  BY DEF Verdicts
<1> QED
  BY <1>4, <1>5, <1>6 DEF AttemptsInv, AttemptsOvershootBounded, M, N

\* Wrong activations overshoot the threshold by at most the requests that had
\* passed the status check before the credential was burned.
THEOREM OvershootIsBounded == Spec => []AttemptsOvershootBounded
<1>1. Init => TInv /\ AttemptsInv
  <2> SUFFICES ASSUME Init PROVE AttemptsInv
    BY TInvInit
  <2>1. \A c \in Creds : cred[c].attempts = 0
    BY DEF Init, NoCred
  <2>2. ACTIVATION_MAX_FAILED_ATTEMPTS \in Nat \ {0} /\ Cardinality(Reqs) \in Nat
    BY AttemptsAssumption, ReqsAssumption, FS_CardinalityType
  <2>3. \A c \in Creds : Verdicts(c) = {}
    BY DEF Init, Idle, Verdicts
  <2>4. Cardinality({}) = 0
    BY FS_EmptySet
  <2>5. AttemptsOvershootBounded
    <3>1. \A c \in Creds : cred[c].attempts + Cardinality(Verdicts(c))
                             < ACTIVATION_MAX_FAILED_ATTEMPTS + Cardinality(Reqs)
      BY <2>1, <2>2, <2>3, <2>4
    <3> QED
      BY <3>1 DEF AttemptsOvershootBounded, Verdicts
  <2> QED
    BY <2>1, <2>2, <2>5 DEF AttemptsInv
<1>2. TInv /\ AttemptsInv /\ [Next]_vars => TInv' /\ AttemptsInv'
  BY StepKind, AttemptsStep
<1>3. AttemptsInv => AttemptsOvershootBounded
  BY DEF AttemptsInv
<1> QED
  BY <1>1, <1>2, <1>3, PTL DEF Spec

\* Once no older activation is in flight, no step brings a revoked or compromised
\* credential back up, nor starts to.
LEMMA SettledStep ==
  ASSUME TInv, [Next]_vars, NEW c \in Creds, SettledDown(c)
  PROVE  (SettledDown(c) \/ cred[c].status = "gone")'
<1>1. cred[c].status \in {"revoked", "compromised"} /\ ~ActivationInFlight(c)
  BY DEF SettledDown
<1>2. CredStep(c) /\ \A s \in Reqs : Arrival(s)
  BY CredentialsMove, HandlersArrive
<1>3. cred'[c].status \in {"revoked", "compromised", "gone"}
  BY <1>1, <1>2 DEF CredStep, ActivationInFlight
<1>4. ~ActivationInFlight(c)'
  BY <1>1, <1>2 DEF Arrival, ActivationInFlight, ActivationPCs
<1> QED
  BY <1>3, <1>4 DEF SettledDown

\* Revoke, emergency shutdown, auto-revoke and reuse detection are final once the
\* activations that read the credential as pending are over.
THEOREM DownIsFinal == Spec => SettledDownIsFinal
<1>1. Init => TInv
  BY TInvInit
<1>2. TInv /\ [Next]_vars => TInv'
  BY StepKind
<1>3. TInv /\ [Next]_vars =>
        [\A c \in Creds : SettledDown(c) => (SettledDown(c) \/ cred[c].status = "gone")']_vars
  BY SettledStep
<1> QED
  BY <1>1, <1>2, <1>3, PTL DEF Spec, SettledDownIsFinal
=============================================================================
