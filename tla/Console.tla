---- MODULE Console ----
(***************************************************************************)
(* The credentials of the user's agents as the settings page handles them: *)
(* the page (settings/agents/page.tsx), its mutations (lib/api/hooks.ts)   *)
(* and the server's handlers, each of which is one step here (AgentAuth    *)
(* splits them).  An agent's enrollment secret is shown once, in a notice. *)
(***************************************************************************)
EXTENDS Naturals, FiniteSets

CONSTANTS
    Agents,
    MaxCreds,      \* bound: credentials ever created
    MaxClicks,     \* bound: things the user and the host do
    MaxFaults      \* bound: lost answers, crashes, and times that run out

VARIABLES
    agents,        \* server: the agents that exist
    cred,          \* server: credential rows
    live,          \* server: live access tokens
    page,          \* the settings page: agent shown, notice, fetched list, and the
                   \* agents whose label is no longer the one it fetched
    op,            \* its mutations under way, one of a kind
    env,           \* credentials whose secret the user has copied
    clicks, faults,
    lost           \* history: credentials whose secret or key had a reason to be lost

console == <<agents, cred, live, page, op, env, lost>>

Ids == 1..MaxCreds
NoCred == [status |-> "none", agent |-> "none", key |-> 0, secret |-> FALSE, old |-> FALSE]
Live(i) == cred[i].status \in {"pending", "active"}
Statuses == [i \in Ids |-> cred[i].status]
NewIds == {i \in Ids : cred[i].status = "none" /\ \A j \in Ids : j < i => cred[j].status # "none"}

Click == clicks < MaxClicks /\ clicks' = clicks + 1 /\ UNCHANGED faults
Fault == faults < MaxFaults /\ faults' = faults + 1 /\ UNCHANGED clicks

\* activeAgent: the chosen one, or the first of those that remain.
FirstOf(S) == IF S = {} THEN "none" ELSE CHOOSE a \in S : TRUE

\* What a notice that goes away unread takes with it.
Unread == {page.notice} \ (env \union {0})

(* ------------------------------- the page ------------------------------- *)

\* The effect on activeAgent's did and label drops the notice.
SelectAgent(a) ==
    /\ a \in agents /\ a # page.agent /\ Click
    /\ page' = [page EXCEPT !.agent = a, !.notice = 0]
    /\ lost' = lost \union Unread
    /\ UNCHANGED <<agents, cred, live, op, env>>

CopySecret ==
    /\ page.notice # 0 /\ page.notice \notin env /\ Click
    /\ env' = env \union {page.notice}
    /\ UNCHANGED <<agents, cred, live, page, op, lost>>

CloseNotice ==
    /\ page.notice # 0 /\ Click
    /\ page' = [page EXCEPT !.notice = 0] /\ lost' = lost \union Unread
    /\ UNCHANGED <<agents, cred, live, op, env>>

\* A button whose mutation is not pending; rows are those of the fetched list.
Start(kind, i) ==
    /\ page.agent # "none" /\ Click
    /\ \A o \in op : o.kind # kind
    /\ op' = op \union {[kind |-> kind, agent |-> page.agent, id |-> i, pc |-> "sent"]}
    /\ UNCHANGED <<agents, cred, live, page, env, lost>>

\* Another tab or device gives an agent a new label.
RenameElsewhere(a) ==
    /\ a \in agents \ page.relabelled /\ Click
    /\ page' = [page EXCEPT !.relabelled = @ \union {a}]
    /\ UNCHANGED <<agents, cred, live, op, env, lost>>

Create == Start("create", 0)
Rename == Start("rename", 0)
EmergencyShutdown == Start("shutdown", 0)
Delete == Start("delete", 0)

Revoke(i) ==
    /\ page.list[i] \in {"pending", "active"} /\ cred[i].agent = page.agent
    /\ Start("revoke", i)

\* Shown once the grace since revoked_at has passed by the page's clock.
Purge(i) ==
    /\ page.list[i] = "revoked" /\ cred[i].old /\ cred[i].agent = page.agent
    /\ Start("purge", i)

(* ------------------------------ the server ------------------------------ *)

\* Rows C go to a dead status, with their tokens.
Down(C, status) ==
    /\ cred' = [i \in Ids |-> IF i \in C THEN [cred[i] EXCEPT !.status = status] ELSE cred[i]]
    /\ live' = {t \in live : t.cred \notin C}

OfAgent(a) == {i \in Ids : cred[i].agent = a /\ cred[i].status # "none"}

Answered(o, pc, i) == op' = (op \ {o}) \union {[o EXCEPT !.pc = pc, !.id = i]}
Refused(o) == Answered(o, "failed", o.id) /\ UNCHANGED <<agents, cred, live>>

CreateServed(o) ==
    /\ o.kind = "create"
    /\ \/ /\ o.agent \in agents
          /\ \E i \in NewIds :
                /\ cred' = [cred EXCEPT ![i] = [NoCred EXCEPT !.status = "pending", !.agent = o.agent,
                                                              !.secret = TRUE]]
                /\ Answered(o, "done", i)
          /\ UNCHANGED <<agents, live>>
       \/ (o.agent \notin agents \/ NewIds = {}) /\ Refused(o)

RevokeServed(o) ==
    /\ o.kind = "revoke"
    /\ \/ Live(o.id) /\ Down({o.id}, "revoked") /\ Answered(o, "done", o.id) /\ UNCHANGED agents
       \/ ~Live(o.id) /\ Refused(o)

PurgeServed(o) ==
    LET purgeable == cred[o.id].status = "revoked" /\ cred[o.id].old IN
    /\ o.kind = "purge"
    /\ \/ purgeable /\ Down({o.id}, "gone") /\ Answered(o, "done", o.id) /\ UNCHANGED agents
       \/ ~purgeable /\ Refused(o)

ShutdownServed(o) ==
    /\ o.kind = "shutdown"
    /\ \/ /\ o.agent \in agents
          /\ Down({i \in OfAgent(o.agent) : Live(i)}, "revoked")
          /\ Answered(o, "done", 0) /\ UNCHANGED agents
       \/ o.agent \notin agents /\ Refused(o)

\* Credentials and tokens go with the agent's row.
DeleteServed(o) ==
    /\ o.kind = "delete"
    /\ \/ /\ o.agent \in agents
          /\ agents' = agents \ {o.agent}
          /\ Down(OfAgent(o.agent), "gone") /\ Answered(o, "done", 0)
       \/ o.agent \notin agents /\ Refused(o)

RenameServed(o) ==
    /\ o.kind = "rename"
    /\ \/ o.agent \in agents /\ Answered(o, "done", 0) /\ UNCHANGED <<agents, cred, live>>
       \/ o.agent \notin agents /\ Refused(o)

Serve ==
    /\ \E o \in op :
          /\ o.pc = "sent"
          /\ \/ CreateServed(o) \/ RevokeServed(o) \/ PurgeServed(o)
             \/ ShutdownServed(o) \/ DeleteServed(o) \/ RenameServed(o)
          /\ page' = [page EXCEPT !.relabelled = @ \union {a \in {o.agent} \cap agents : o.kind = "rename"}]
    /\ UNCHANGED <<env, lost, clicks, faults>>

(* ------------------------------- answers -------------------------------- *)

\* agents[0] after a deletion; otherwise the agent shown, while it is listed.
ShownAfter(kind) ==
    IF kind = "delete" \/ page.agent \notin agents THEN FirstOf(agents) ELSE page.agent

\* The agents are fetched anew: the effect drops the notice when the agent
\* shown is another one by then, or has another label.
NoticeAfter(shown) == IF shown # page.agent \/ shown \in page.relabelled THEN 0 ELSE page.notice

\* The awaiting handler goes on, whichever agent the page shows by then: a
\* secret goes into the notice, and what the mutation invalidates is fetched.
SettleDone(o) ==
    LET agentsToo == o.kind \in {"rename", "shutdown", "delete"}
        shown == IF agentsToo THEN ShownAfter(o.kind) ELSE page.agent
        notice == IF o.kind = "create" THEN o.id
                  ELSE IF agentsToo THEN NoticeAfter(shown) ELSE page.notice
    IN /\ page' = [agent |-> shown, notice |-> notice,
                   list |-> IF o.kind \in {"rename", "delete"} THEN page.list ELSE Statuses,
                   relabelled |-> IF agentsToo THEN {} ELSE page.relabelled]
       /\ lost' = IF notice # page.notice THEN lost \union Unread ELSE lost

Settle ==
    /\ \E o \in op :
          /\ op' = op \ {o}
          /\ \/ o.pc = "done" /\ SettleDone(o)
             \/ o.pc = "failed" /\ UNCHANGED <<page, lost>>
    /\ UNCHANGED <<agents, cred, live, env, clicks, faults>>

\* The request fails, or its answer, with the secret of a new credential, is
\* lost after the server acted.
MutationFails ==
    /\ Fault
    /\ \E o \in op : op' = op \ {o} /\ lost' = lost \union {i \in {o.id} \ {0} : o.kind = "create"}
    /\ UNCHANGED <<agents, cred, live, page, env>>

\* A refetch of the lists (focus, the refresh button).
Refetch ==
    /\ page.list # Statuses \/ page.relabelled # {} \/ page.agent \notin agents \union {"none"}
    /\ LET shown == ShownAfter("none")
           notice == NoticeAfter(shown)
       IN /\ page' = [agent |-> shown, notice |-> notice, list |-> Statuses, relabelled |-> {}]
          /\ lost' = IF notice # page.notice THEN lost \union Unread ELSE lost
    /\ UNCHANGED <<agents, cred, live, op, env, clicks, faults>>

EnrollmentExpires(i) ==
    /\ cred[i].status = "pending" /\ cred[i].secret /\ Fault
    /\ cred' = [cred EXCEPT ![i].secret = FALSE]
    /\ UNCHANGED <<agents, live, page, op, env, lost>>

GracePasses(i) ==
    /\ cred[i].status = "revoked" /\ ~cred[i].old /\ Fault
    /\ cred' = [cred EXCEPT ![i].old = TRUE]
    /\ UNCHANGED <<agents, live, page, op, env, lost>>

ConsoleUser ==
    \/ \E a \in Agents : SelectAgent(a) \/ RenameElsewhere(a)
    \/ CopySecret \/ CloseNotice \/ Create \/ Rename \/ EmergencyShutdown \/ Delete
    \/ \E i \in Ids : Revoke(i) \/ Purge(i)

ConsoleNext ==
    \/ ConsoleUser \/ Serve \/ Settle \/ MutationFails \/ Refetch
    \/ \E i \in Ids : EnrollmentExpires(i) \/ GracePasses(i)
====
