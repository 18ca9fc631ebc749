---- MODULE Runtime ----
(***************************************************************************)
(* The agent's side: MCP server processes that activate a credential with  *)
(* the secret the settings page showed, keep its keys in a keystore file,  *)
(* exchange them for access tokens and serve tool calls (packages/core,    *)
(* packages/mcp-server, templates/agent-runtime-node), composed with the   *)
(* page that creates and revokes credentials (Console).                    *)
(*                                                                         *)
(* A tool call is a sequence of requests.  In Standard mode a request is   *)
(* signed for the token the client holds, sent with the token it holds by  *)
(* then, and on a 401 tried once more with a new token; calls of a process *)
(* share the client.  In Isolated mode a request is one RPC to a gateway,  *)
(* which may never answer.  A request whose caller gave up may still land. *)
(* The templates are scripts with one job and no retry, and the bootstrap  *)
(* that leaves a new key to the Signer Daemon instead of a keystore.       *)
(***************************************************************************)
EXTENDS Console, Sequences

CONSTANTS
    MaxProcs,      \* bound: processes at a time
    MaxCalls,      \* bound: tool calls ever asked
    Jobs           \* what hosts ask for: records of tool, mode and confirmed

ASSUME RuntimeAssumption ==
    /\ {MaxCreds, MaxClicks, MaxFaults, MaxProcs, MaxCalls} \subseteq Nat
    /\ MaxCreds # 0    \* there is a first credential
    /\ \A j \in Jobs : {"tool", "mode", "confirmed"} = DOMAIN j

VARIABLES
    file,          \* keystore files: the key of a credential, or 0
    daemon,        \* the daemon directory's two key files: credential and key in each
    proc,          \* processes: pc, kind, credential, key and the client's access token
    call,          \* tool calls
    posted         \* server: messages created for a call

runtime == <<file, daemon, proc, call, posted>>
vars == <<console, clicks, faults, runtime>>

Procs == 1..MaxProcs
Calls == 1..MaxCalls

NoToken == [id |-> 0, cred |-> 0]
NoKeys == [cred |-> 0, key |-> 0]
NoDaemon == [signing |-> NoKeys, encryption |-> NoKeys]
Off == [pc |-> "off", kind |-> "server", cred |-> 0, key |-> 0, token |-> NoToken]
NoJob == [tool |-> "none", mode |-> "none", confirmed |-> FALSE]
NoCall == [pc |-> "idle", proc |-> 0, relayed |-> FALSE, job |-> NoJob, todo |-> <<>>, proof |-> NoToken,
           retried |-> FALSE, late |-> FALSE, disturbed |-> FALSE, answer |-> "none"]

\* The first credential of the first agent: waiting with its secret copied, in
\* use by a server, or bootstrapped for a Signer Daemon.
Init ==
    LET first(status, key) == [NoCred EXCEPT !.status = status, !.agent = FirstOf(Agents),
                                             !.key = key, !.secret = status = "pending"]
        token == [id |-> 2, cred |-> 1]
    IN
    /\ agents = Agents /\ op = {} /\ lost = {} /\ env = {1} /\ clicks = 0 /\ faults = 0
    /\ call = [c \in Calls |-> NoCall] /\ posted = [c \in Calls |-> 0]
    /\ \/ /\ cred = [[i \in Ids |-> NoCred] EXCEPT ![1] = first("pending", 0)]
          /\ live = {} /\ daemon = NoDaemon
          /\ file = [i \in Ids |-> 0] /\ proc = [p \in Procs |-> Off]
       \/ /\ cred = [[i \in Ids |-> NoCred] EXCEPT ![1] = first("active", 1)]
          /\ live = {token} /\ daemon = NoDaemon
          /\ file = [[i \in Ids |-> 0] EXCEPT ![1] = 1]
          /\ proc = [[p \in Procs |-> Off] EXCEPT ![1] =
                       [Off EXCEPT !.pc = "serving", !.cred = 1, !.key = 1, !.token = token]]
       \/ /\ cred = [[i \in Ids |-> NoCred] EXCEPT ![1] = first("active", 1)]
          /\ live = {} /\ daemon = [f \in DOMAIN NoDaemon |-> [cred |-> 1, key |-> 1]]
          /\ file = [i \in Ids |-> 0] /\ proc = [p \in Procs |-> Off]
    /\ page = [agent |-> FirstOf(Agents), notice |-> 0, list |-> Statuses, relabelled |-> {}]

(* ---------------------------- boot and keystore ------------------------- *)

\* Slots for processes are interchangeable, and calls are numbered in order.
FreeProc(p) == proc[p].pc = "off" /\ \A q \in Procs : q < p => proc[q].pc # "off"
NextCall(c) == call[c].pc = "idle" /\ \A d \in Calls : d < c => call[d].pc # "idle"

\* Keys and tokens are numbers; a new one is a number nobody holds.
Held == {cred[i].key : i \in Ids} \union {file[i] : i \in Ids} \union {daemon.signing.key, daemon.encryption.key}
        \union UNION {{proc[p].key, proc[p].token.id} : p \in Procs}
        \union {t.id : t \in live} \union {call[c].proof.id : c \in Calls}
Fresh == CHOOSE n \in 1..(Cardinality(Held) + 1) : n \notin Held /\ \A m \in 1..(n - 1) : m \in Held

Set(p, q) == proc' = [proc EXCEPT ![p] = q]
Quiet == UNCHANGED console
Sure == UNCHANGED <<clicks, faults>>

\* loadOrActivateCredential.  A file that is there is loaded (the secret is
\* ignored); without a file a fresh key needs the secret; otherwise the process
\* ends with a message and nothing has changed.
LoadOrActivate(p, i, kind) ==
    /\ FreeProc(p) /\ cred[i].status # "none" /\ Click
    /\ \/ /\ file[i] # 0
          /\ Set(p, [Off EXCEPT !.pc = "exchange", !.kind = kind, !.cred = i, !.key = file[i]])
       \/ /\ file[i] = 0 /\ i \in env
          /\ Set(p, [Off EXCEPT !.pc = "activate", !.kind = kind, !.cred = i, !.key = Fresh])
    /\ Quiet /\ UNCHANGED <<file, daemon, call, posted>>

\* runStdioModeB: an MCP server with its own keystore.
Boot(p, i) == LoadOrActivate(p, i, "server")

\* A template, whose keystore file is the same one.
BootScript(p, i) == LoadOrActivate(p, i, "script")

\* The bootstrap of the Isolated mode always makes new keys.
Bootstrap(p, i) ==
    /\ FreeProc(p) /\ i \in env /\ Click
    /\ Set(p, [Off EXCEPT !.pc = "activate", !.kind = "bootstrap", !.cred = i, !.key = Fresh])
    /\ Quiet /\ UNCHANGED <<file, daemon, call, posted>>

\* createGatewayRuntime: whoami, or the process ends.
BootGateway(p) ==
    /\ FreeProc(p) /\ Click
    /\ Set(p, [Off EXCEPT !.pc = "gateway"])
    /\ Quiet /\ UNCHANGED <<file, daemon, call, posted>>

\* activate_agent_credential reads the row once ...
ActivateChecked(p) ==
    LET i == proc[p].cred IN
    /\ proc[p].pc = "activate"
    /\ \/ cred[i].status = "pending" /\ cred[i].secret /\ Set(p, [proc[p] EXCEPT !.pc = "checked"])
       \/ ~(cred[i].status = "pending" /\ cred[i].secret) /\ Set(p, Off)
    /\ Quiet /\ Sure /\ UNCHANGED <<file, daemon, call, posted>>

\* ... and updates it by id alone, over another activation of the same secret
\* or a revocation that came between.
ActivateWritten(p) ==
    LET i == proc[p].cred IN
    /\ proc[p].pc = "checked"
    /\ cred' = IF cred[i].status = "gone" THEN cred
               ELSE [cred EXCEPT ![i].status = "active", ![i].key = proc[p].key, ![i].secret = FALSE]
    /\ lost' = IF cred[i].status = "pending" THEN lost ELSE lost \union {i}
    /\ Set(p, [proc[p] EXCEPT !.pc = "store"])
    /\ Sure /\ UNCHANGED <<agents, live, page, op, env, file, daemon, call, posted>>

\* Mutant: the keys stay in memory.
StoreNothing(p) ==
    /\ proc[p].pc = "store" /\ proc[p].kind # "bootstrap"
    /\ Set(p, [proc[p] EXCEPT !.pc = "exchange"])
    /\ Quiet /\ Sure /\ UNCHANGED <<file, daemon, call, posted>>

\* atomicWrite: a temporary file renamed over whatever is there.
Store(p) ==
    /\ proc[p].pc = "store" /\ proc[p].kind # "bootstrap"
    /\ file' = [file EXCEPT ![proc[p].cred] = proc[p].key]
    /\ Set(p, [proc[p] EXCEPT !.pc = "exchange"])
    /\ Quiet /\ Sure /\ UNCHANGED <<daemon, call, posted>>

\* signing.key and encryption.key have one name whatever the credential: a
\* second bootstrap into the directory takes the place of the first.
StoreDaemonKey(p, name) ==
    /\ daemon' = [daemon EXCEPT ![name] = [cred |-> proc[p].cred, key |-> proc[p].key]]
    /\ lost' = lost \union ({daemon[name].cred} \ {0})
    /\ Sure /\ UNCHANGED <<agents, cred, live, page, op, env, file, call, posted>>

StoreSigningKey(p) ==
    /\ proc[p].pc = "store" /\ proc[p].kind = "bootstrap"
    /\ StoreDaemonKey(p, "signing") /\ Set(p, [proc[p] EXCEPT !.pc = "half"])

StoreEncryptionKey(p) ==
    /\ proc[p].pc = "half"
    /\ StoreDaemonKey(p, "encryption") /\ Set(p, Off)

\* agent_auth_token takes an assertion signed with the key of an active credential.
Exchangeable(p) ==
    LET i == proc[p].cred IN cred[i].status = "active" /\ cred[i].key = proc[p].key

Token(p) == [id |-> Fresh, cred |-> proc[p].cred]

Exchange(p) ==
    /\ proc[p].pc = "exchange"
    /\ \/ /\ Exchangeable(p) /\ live' = live \union {Token(p)}
          /\ Set(p, [proc[p] EXCEPT !.pc = IF proc[p].kind = "script" THEN "script" ELSE "serving",
                                    !.token = Token(p)])
       \/ ~Exchangeable(p) /\ Set(p, Off) /\ UNCHANGED live
    /\ Sure /\ UNCHANGED <<agents, cred, page, op, env, lost, file, daemon, call, posted>>

(* ------------------------------- tool calls ----------------------------- *)

\* What a Standard-mode tool reads: a reply fetches the message, then resolves
\* its sender.
Reads(tool) ==
    IF tool = "reply_to_message" THEN <<"get", "get">> ELSE <<"get">>

\* In Isolated mode the content key of a message is one more RPC (unwrap).
GatewayReads(tool) ==
    CASE tool = "reply_to_message" -> <<"get", "get", "get">>
      [] tool = "read_message"     -> <<"get", "get">>
      [] OTHER                     -> <<"get">>

\* requireConfirmation: no post without it.
Sends(job) == job.mode = "send" /\ job.confirmed

\* The reads come first in every tool, the post last.
Requests(p, job) ==
    LET reads == IF proc[p].pc = "gateway" THEN GatewayReads(job.tool) ELSE Reads(job.tool)
    IN  IF Sends(job) THEN Append(reads, "post") ELSE reads

\* What the handler returns once all of its requests succeeded.
Outcome(job) ==
    CASE job.mode # "send" -> "read"
      [] Sends(job) -> "sent"
      [] OTHER -> "error"

\* The answer, and nothing else of the call, remains.
Reply(c, a) == [NoCall EXCEPT !.pc = "done", !.answer = a, !.job = call[c].job,
                              !.relayed = call[c].relayed,
                              !.disturbed = call[c].disturbed /\ a = "unauthorized"]

\* The next request starts, or the handler returns.
Proceed(c, todo) ==
    IF todo = <<>> THEN Reply(c, Outcome(call[c].job))
    ELSE [call[c] EXCEPT !.pc = "sign", !.todo = todo, !.retried = FALSE,
                         !.disturbed = FALSE, !.proof = NoToken]

\* A tool the server knows, with arguments that validate.
Ask(p, c, job) ==
    /\ proc[p].pc \in {"serving", "gateway"} /\ NextCall(c) /\ Click
    /\ call' = [call EXCEPT ![c] = [NoCall EXCEPT !.pc = "sign", !.proc = p, !.job = job,
                                                  !.relayed = proc[p].pc = "gateway",
                                                  !.todo = Requests(p, job)]]
    /\ Quiet /\ UNCHANGED <<file, daemon, proc, posted>>

\* The templates' requests: reads, a post nobody else confirms, and in
\* direct-api.mjs reads after it.  Consecutive reads are one here; a run counts
\* against the bound on what hosts do.
DirectApi == <<"get", "post", "get">>
DirectApiReply == <<"get", "post">>

\* encryptAndUploadAttachment: between its requests the ciphertext goes to the
\* object store, which needs no token.
EncryptAndUpload == <<"intent", "complete">>
DirectApiWithAttachment == <<"get">> \o EncryptAndUpload \o <<"post">>

RunScript(p, c) ==
    /\ proc[p].pc = "script" /\ NextCall(c) /\ Click
    /\ Set(p, [proc[p] EXCEPT !.pc = "running"])
    /\ \E todo \in {DirectApi, DirectApiReply, DirectApiWithAttachment} :
          call' = [call EXCEPT ![c] = [NoCall EXCEPT !.pc = "sign", !.proc = p, !.todo = todo,
                                 !.job = [tool |-> "script", mode |-> "send", confirmed |-> TRUE]]]
    /\ Quiet /\ UNCHANGED <<file, daemon, posted>>

ScriptEnds(p) ==
    /\ proc[p].pc = "running" /\ \A c \in Calls : call[c].proc = p => call[c].pc = "done"
    /\ Set(p, Off)
    /\ Quiet /\ Sure /\ UNCHANGED <<file, daemon, call, posted>>

\* dispatch: the proof is built for the token of this moment ...
Sign(c) ==
    /\ call[c].pc = "sign" /\ proc[call[c].proc].pc \in {"serving", "running"}
    /\ call' = [call EXCEPT ![c].pc = "fetch", ![c].proof = proc[call[c].proc].token]
    /\ Quiet /\ Sure /\ UNCHANGED <<file, daemon, proc, posted>>

Created(c) == IF Head(call[c].todo) = "post" THEN [posted EXCEPT ![c] = @ + 1] ELSE posted

\* ... and goes out beside the token of the moment it is done.
Accepted(c) == LET token == proc[call[c].proc].token IN call[c].proof = token /\ token \in live

Fetch(c) ==
    /\ call[c].pc = "fetch"
    /\ \/ /\ Accepted(c)
          /\ posted' = Created(c)
          /\ call' = [call EXCEPT ![c] = Proceed(c, Tail(call[c].todo))]
       \/ /\ ~Accepted(c) /\ proc[call[c].proc].pc = "running"
          /\ call' = [call EXCEPT ![c] = Reply(c, "error")] /\ UNCHANGED posted
       \/ /\ ~Accepted(c) /\ proc[call[c].proc].pc = "serving" /\ ~call[c].retried
          /\ call' = [call EXCEPT ![c].pc = "refresh"] /\ UNCHANGED posted
       \/ /\ ~Accepted(c) /\ call[c].retried
          /\ call' = [call EXCEPT ![c] = Reply(c, "unauthorized")] /\ UNCHANGED posted
    /\ Quiet /\ Sure /\ UNCHANGED <<file, daemon, proc>>

\* Calls of a process whose token another call replaces, or loses.
Disturbed(S, f) == [c \in Calls |-> IF c \in S THEN [f[c] EXCEPT !.disturbed = TRUE] ELSE f[c]]
Sharing(p) == {c \in Calls : call[c].proc = p /\ call[c].pc \in {"sign", "fetch", "refresh"}}

\* Mutant: the retry goes out with the token that was refused.
RefreshForgets(c) ==
    /\ call[c].pc = "refresh" /\ Exchangeable(call[c].proc)
    /\ live' = live \union {Token(call[c].proc)}
    /\ call' = [call EXCEPT ![c].pc = "sign", ![c].retried = TRUE]
    /\ Sure /\ UNCHANGED <<agents, cred, page, op, env, lost, file, daemon, proc, posted>>

\* onUnauthorized: a new token for the client, hence for its other calls too.
\* A credential the server no longer takes is a 401 of its own.
Refresh(c) ==
    LET p == call[c].proc IN
    /\ call[c].pc = "refresh"
    /\ \/ /\ Exchangeable(p) /\ live' = live \union {Token(p)}
          /\ Set(p, [proc[p] EXCEPT !.token = Token(p)])
          /\ call' = Disturbed(Sharing(p) \ {c},
                               [call EXCEPT ![c].pc = "sign", ![c].retried = TRUE])
       \/ /\ ~Exchangeable(p)
          /\ call' = [call EXCEPT ![c] = [Reply(c, "unauthorized") EXCEPT !.disturbed = TRUE]]
          /\ UNCHANGED <<live, proc>>
    /\ Sure /\ UNCHANGED <<agents, cred, page, op, env, lost, file, daemon, posted>>

\* call: one connection to the gateway, which keeps its own tokens.
Rpc(c) ==
    /\ call[c].pc = "sign" /\ proc[call[c].proc].pc = "gateway"
    /\ posted' = Created(c)
    /\ call' = [call EXCEPT ![c] = Proceed(c, Tail(call[c].todo))]
    /\ Quiet /\ Sure /\ UNCHANGED <<file, daemon, proc>>

(* -------------------------------- failures ------------------------------ *)

\* Mutant: a request whose answer is lost is sent again.
RequestFailsRetries(c) ==
    /\ call[c].pc = "fetch" /\ Fault
    /\ posted' = Created(c)
    /\ call' = [call EXCEPT ![c].pc = "sign"]
    /\ Quiet /\ UNCHANGED <<file, daemon, proc>>

\* A post that is on its way: one that was sent and whose proof fits its token,
\* or one the gateway has.
InFlight(c) ==
    \/ call[c].pc = "hung" /\ call[c].late
    \/ /\ call[c].pc = "fetch" /\ Head(call[c].todo) = "post"
       /\ call[c].proof = proc[call[c].proc].token
    \/ call[c].pc = "sign" /\ call[c].relayed /\ Head(call[c].todo) = "post"

\* The caller hears an error and the request goes its way.
GiveUp(c) == [Reply(c, "error") EXCEPT !.late = InFlight(c),
                                       !.proof = IF InFlight(c) THEN call[c].proof ELSE NoToken]

\* A request that fails, or whose answer does not come back, is not repeated:
\* the error is the tool's answer.
RequestFails(c) ==
    /\ call[c].pc \in {"sign", "fetch", "refresh"} /\ Fault
    /\ call' = [call EXCEPT ![c] = GiveUp(c)]
    /\ Quiet /\ UNCHANGED <<file, daemon, proc, posted>>

\* call settles on data and on error alone, and has no timeout: a gateway that
\* closes the connection or waits for its signer leaves the tool without answer.
RpcHangs(c) ==
    /\ call[c].pc = "sign" /\ call[c].relayed /\ Fault
    /\ call' = [call EXCEPT ![c].pc = "hung", ![c].late = InFlight(c)]
    /\ Quiet /\ UNCHANGED <<file, daemon, proc, posted>>

\* The server, or the gateway, gets to the post after the caller gave up.
Lands(c) ==
    /\ call[c].late
    /\ call[c].relayed \/ call[c].proof \in live
    /\ posted' = [posted EXCEPT ![c] = @ + 1]
    /\ call' = [call EXCEPT ![c].late = FALSE, ![c].proof = NoToken]
    /\ Quiet /\ Sure /\ UNCHANGED <<file, daemon, proc>>

\* What a process takes along: a key the server has and no file holds.
Stop(p) ==
    /\ Set(p, Off)
    /\ call' = [c \in Calls |-> IF call[c].proc = p /\ call[c].pc \notin {"idle", "done"}
                                THEN GiveUp(c) ELSE call[c]]

\* Crashes, failed writes and exchanges, lost activation answers.
Crash(p) ==
    /\ proc[p].pc # "off" /\ Fault /\ Stop(p)
    /\ lost' = lost \union ({proc[p].cred} \cap {i \in Ids : proc[p].pc \in {"store", "half"}})
    /\ UNCHANGED <<agents, cred, live, page, op, env, file, daemon, posted>>

\* The host closes the pipe of a server that is ready.
Quit(p) ==
    /\ proc[p].pc \in {"serving", "gateway"} /\ Click /\ Stop(p)
    /\ Quiet /\ UNCHANGED <<file, daemon, posted>>

TokenExpires(t) ==
    /\ Fault /\ live' = live \ {t}
    /\ call' = Disturbed({c \in Calls : call[c].retried /\ call[c].pc # "done"}, call)
    /\ UNCHANGED <<agents, cred, page, op, env, lost, file, daemon, proc, posted>>

(* ------------------------------ specification --------------------------- *)

\* A revocation may also take the token of a retry.
Page ==
    /\ ConsoleNext
    /\ call' = Disturbed({c \in Calls : /\ call[c].retried /\ call[c].pc # "done"
                                       /\ proc[call[c].proc].token \in live \ live'}, call)
    /\ UNCHANGED <<file, daemon, proc, posted>>

Host ==
    \/ \E p \in Procs, i \in Ids : Boot(p, i) \/ BootScript(p, i) \/ Bootstrap(p, i)
    \/ \E p \in Procs : BootGateway(p) \/ Quit(p)
    \/ \E p \in Procs, c \in Calls, job \in Jobs : Ask(p, c, job)

Starting(p) ==
    \/ ActivateChecked(p) \/ ActivateWritten(p) \/ Store(p) \/ Exchange(p)
    \/ StoreSigningKey(p) \/ StoreEncryptionKey(p)
    \/ (\E c \in Calls : RunScript(p, c)) \/ ScriptEnds(p)

Handling(c) == Sign(c) \/ Fetch(c) \/ Refresh(c) \/ Rpc(c)

Failing ==
    \/ \E c \in Calls : RequestFails(c) \/ RpcHangs(c) \/ Lands(c)
    \/ \E p \in Procs : Crash(p)
    \/ \E t \in live : TokenExpires(t)

Next ==
    \/ Page \/ Host \/ Failing
    \/ \E p \in Procs : Starting(p)
    \/ \E c \in Calls : Handling(c)

\* A live process is scheduled and its fetches settle (fetch gives up by itself).
\* An RPC is under way until it is answered or hangs; nothing ends one that does.
Fairness == \A c \in Calls : WF_vars(Handling(c))

Spec == Init /\ [][Next]_vars /\ Fairness

(* ------------------------------- properties ----------------------------- *)

Tools == INSTANCE ToolCall WITH
    intent <- [c \in Calls |-> IF call[c].pc = "idle" THEN "none"
                               ELSE IF Sends(call[c].job) THEN "send" ELSE "read"],
    relayed <- {c \in Calls : call[c].relayed},
    messages <- posted,
    answer <- [c \in Calls |-> IF call[c].pc = "hung" THEN "silent"
                               ELSE IF call[c].answer \in {"none", "read", "sent"}
                               THEN call[c].answer ELSE "error"]

\* Every runtime implements ToolCall: whatever is lost, retried after a 401 or
\* crashed, a call posts at most one message, only when it was confirmed, also
\* after its caller gave up, and is answered unless it went to a gateway that
\* fell silent (runtime-saas.ts, runtime-gateway.ts, request and call in core).
ImplementsToolCall == Tools!Spec

Reachable(i) ==
    \/ /\ cred[i].status = "pending"
       /\ i \in env \/ i = page.notice \/ \E o \in op : o.kind = "create" /\ o.id = i
    \/ /\ cred[i].status = "active"
       /\ \/ file[i] = cred[i].key
          \/ \A f \in DOMAIN daemon : daemon[f] = [cred |-> i, key |-> cred[i].key]
          \/ \E p \in Procs : proc[p].cred = i /\ proc[p].key = cred[i].key

\* A live credential can be used by somebody: its secret is on its way, on the
\* page or copied, or its key is in a file or in a running process,
\* unless an answer was lost, a notice went unread, a process died before it
\* wrote the key, two activations of one secret crossed, or a second bootstrap
\* overwrote the key files of the first.
KeysAccounted == \A i \in Ids : Live(i) => Reachable(i) \/ i \in lost

\* An expired token is replaced without the caller noticing: a call fails with
\* a 401 only when another call replaced the token of the shared client
\* meanwhile, the new token died as well, or the server refused the credential.
RefreshIsTransparent == \A c \in Calls : call[c].answer = "unauthorized" => call[c].disturbed
====
