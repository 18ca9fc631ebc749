---- MODULE A2A ----
(***************************************************************************)
(* The agent-to-agent protocol blocks carried inside an encrypted body     *)
(* (packages/core/src/a2a.ts) and the auto-reply policy that decides how   *)
(* an inbound block is answered (apps/web/lib/protocol).  Pure operators:  *)
(* AutoReply, Reader and Compose run them and TLC checks their effect.     *)
(*                                                                         *)
(* A time is a natural number of hours.  A candidate slot is a record      *)
(* [start, end].  A block keeps the fields the code branches on; text      *)
(* fields (titles, notes, reasons) are reduced to "present or not".        *)
(***************************************************************************)
EXTENDS Integers, Sequences, FiniteSets

Schedule == "schedule_negotiation"
Task     == "task_delegation"

\* SCHEDULE_MAX_CANDIDATES and SCHEDULE_MAX_CANDIDATE_DURATION_HOURS.
MaxCandidates    == 20
MaxDurationHours == 24

\* An absent optional field or result (undefined or null in the code).
CONSTANT Undefined

Block(type, action, title, cands, sel, deadline) ==
    [type |-> type, action |-> action, title |-> title, cands |-> cands,
     sel |-> sel, deadline |-> deadline]

(* -------------------------- type guards and parsing --------------------- *)

IsKnownAction(a) ==
    a \in {"propose", "accept", "decline", "counter", "delegate", "complete"}

IsActionValidForType(type, action) ==
    IF type = Schedule
    THEN action \in {"propose", "accept", "decline", "counter"}
    ELSE action \in {"delegate", "accept", "decline", "complete"}

IsA2AProtocolBlock(b) ==
    /\ b.type \in {Schedule, Task}
    /\ IsKnownAction(b.action)
    /\ IsActionValidForType(b.type, b.action)

\* What the reader of a message gets: the block, or no protocol at all when the
\* content type is not the A2A one or the block does not pass the guards.
ParseA2APayload(b, isA2AContentType) ==
    IF isA2AContentType /\ b # Undefined /\ IsA2AProtocolBlock(b) THEN b ELSE Undefined

(* ------------------------------ validation ------------------------------ *)

AssertValidCandidate(c) ==
    /\ c.start < c.end
    /\ c.end - c.start <= MaxDurationHours

AssertValidCandidateList(cs) ==
    /\ Len(cs) \in 1..MaxCandidates
    /\ \A i \in DOMAIN cs : AssertValidCandidate(cs[i])

AssertValidSchedule(b) ==
    \/ b.action = "propose" /\ b.title /\ AssertValidCandidateList(b.cands)
    \/ b.action = "accept" /\ b.sel # Undefined /\ AssertValidCandidate(b.sel)
    \/ b.action = "decline"
    \/ b.action = "counter" /\ AssertValidCandidateList(b.cands)

AssertValidTask(b) ==
    \/ b.action = "delegate" /\ b.title
    \/ b.action \in {"accept", "decline", "complete"}

AssertValidA2APayload(b) ==
    \/ b.type = Schedule /\ AssertValidSchedule(b)
    \/ b.type = Task /\ AssertValidTask(b)

(* ------------------------------ answering ------------------------------- *)

IsProposeExpired(b, now) == b.deadline # Undefined /\ now > b.deadline

CanRespondToProtocol(b, folder, now) ==
    /\ folder # "sent"
    /\ \/ b.type = Schedule /\ b.action = "propose" /\ ~IsProposeExpired(b, now)
       \/ b.type = Task /\ b.action = "delegate"

\* The rows of the propose page and of the counter form: filled in, the end
\* after the start.  The duration limit is not among the checks.
ValidateCandidateRows(rows) ==
    /\ Len(rows) \in 1..MaxCandidates
    /\ \A i \in DOMAIN rows : rows[i].start < rows[i].end

\* buildReplyPayload: the block of a reply, Undefined where the builder throws.
BuildScheduleReplyPayload(reply) ==
    CASE reply.action = "accept" /\ reply.sel # Undefined ->
            Block(Schedule, "accept", FALSE, Undefined, reply.sel, Undefined)
      [] reply.action = "decline" ->
            Block(Schedule, "decline", FALSE, Undefined, Undefined, Undefined)
      [] reply.action = "counter" /\ reply.cands # Undefined ->
            Block(Schedule, "counter", FALSE, reply.cands, Undefined, Undefined)
      [] OTHER -> Undefined

BuildTaskReplyPayload(reply) ==
    IF reply.action \in {"accept", "decline", "complete"}
    THEN Block(Task, reply.action, FALSE, Undefined, Undefined, Undefined)
    ELSE Undefined

BuildReplyPayload(type, reply) ==
    IF type = Schedule THEN BuildScheduleReplyPayload(reply)
                       ELSE BuildTaskReplyPayload(reply)

(* ------------------------ the calendar's answer ------------------------- *)

\* Half-open intervals: a slot ending when a busy one starts is free.
IsCandidateFree(c, busy) ==
    /\ c.start < c.end
    /\ \A b \in busy : ~(c.start < b.end /\ b.start < c.end)

\* The first free candidate, Undefined when every one overlaps a busy interval.
PickFirstFreeCandidate(cs, busy) ==
    LET free == {i \in DOMAIN cs : IsCandidateFree(cs[i], busy)}
    IN  IF free = {} THEN Undefined
        ELSE cs[CHOOSE i \in free : \A j \in free : i <= j]

(* ---------------------------- the policy -------------------------------- *)

Actions == {"queue_for_human", "auto_accept", "auto_decline",
            "auto_accept_if_free", "delegate_to_llm"}

Decision(action, reason) == [action |-> action, reason |-> reason]
Queue(reason) == Decision("queue_for_human", reason)

\* Conditions of a rule: a field is Undefined when the policy omits it.
Conditions(rank, trust, contact, allow) ==
    [rank |-> rank, trust |-> trust, contact |-> contact, allow |-> allow]
NoConditions == Conditions(Undefined, Undefined, FALSE, Undefined)

\* The first condition the context violates, Undefined when all hold.  A
\* priority is its rank, background 0 to high 3.
ResolveConditionViolation(c, ctx) ==
    CASE c.rank # Undefined /\ ctx.rank > c.rank      -> "priority_exceeds_policy"
      [] c.trust # Undefined /\ ctx.trust < c.trust   -> "trust_below_threshold"
      [] c.contact /\ ~ctx.contact                    -> "not_a_contact"
      [] c.allow # Undefined /\ ctx.sender \notin c.allow -> "sender_not_in_allowlist"
      [] OTHER -> Undefined

\* A policy holds a default rule and the two rules per protocol the schema knows.
RuleOf(policy, type, action) ==
    CASE type = Schedule /\ action = "propose" -> policy.propose
      [] type = Task /\ action = "delegate"    -> policy.delegate
      [] OTHER -> Undefined

FinaliseActionOrFallback(action, reason) ==
    IF action = "delegate_to_llm" THEN Queue("llm_unavailable")
                                  ELSE Decision(action, reason)

\* evaluateAutoReplyPolicyClient: a rule of the protocol replaces the default
\* action and the default conditions together.
EvaluateClient(policy, master, ctx) ==
    IF ~master THEN Queue("master_off")
    ELSE IF policy = Undefined THEN Queue("no_policy")
    ELSE LET own  == RuleOf(policy, ctx.type, ctx.action)
             rule == IF own = Undefined
                     THEN [action |-> policy.default, conds |-> policy.conds]
                     ELSE own
             bad  == ResolveConditionViolation(rule.conds, ctx)
         IN  IF bad # Undefined THEN Queue(bad)
             ELSE FinaliseActionOrFallback(rule.action,
                      IF own = Undefined THEN "default_match"
                                         ELSE "protocol_override_match")

\* The server's evaluator at send time: it cannot read the protocol block, and
\* leaves what needs a calendar or a model to the human.
EvaluateServer(policy, master, ctx) ==
    IF ~master THEN Queue("master_off")
    ELSE IF policy = Undefined THEN Queue("no_policy")
    ELSE LET bad == ResolveConditionViolation(policy.conds, ctx)
         IN  CASE bad # Undefined -> Queue(bad)
               [] policy.default = "auto_accept_if_free" -> Queue("calendar_unavailable")
               [] policy.default = "delegate_to_llm" -> Queue("llm_unavailable")
               [] OTHER -> Decision(policy.default, "default_match")

\* mergeDecisions: the client's decision wins, except over a server master_off.
MergeDecisions(server, client) ==
    IF server.reason = "master_off" THEN Queue("master_off") ELSE client

(* --------------------- the policy editor's draft ------------------------ *)

\* The form of one protocol action; an empty field is Undefined, an empty
\* allowlist {}.
DraftRule(action, rank, trust, contact, allow) ==
    [enabled |-> TRUE, action |-> action, rank |-> rank, trust |-> trust,
     contact |-> contact, allow |-> allow]
EmptyProtocolAction ==
    [enabled |-> FALSE, action |-> "queue_for_human", rank |-> Undefined,
     trust |-> Undefined, contact |-> FALSE, allow |-> {}]

DraftFromProtocolAction(rule) ==
    IF rule = Undefined THEN EmptyProtocolAction
    ELSE DraftRule(rule.action, rule.conds.rank, rule.conds.trust, rule.conds.contact,
                   IF rule.conds.allow = Undefined THEN {} ELSE rule.conds.allow)

\* No policy is edited as one that leaves everything to the human; the default
\* conditions have no place in the form.
DraftFromPolicy(policy) ==
    IF policy = Undefined
    THEN [default |-> "queue_for_human", propose |-> EmptyProtocolAction,
          delegate |-> EmptyProtocolAction]
    ELSE [default |-> policy.default, propose |-> DraftFromProtocolAction(policy.propose),
          delegate |-> DraftFromProtocolAction(policy.delegate)]

ProtocolActionFromDraft(d) ==
    IF ~d.enabled THEN Undefined
    ELSE [action |-> d.action,
          conds |-> Conditions(d.rank, d.trust, d.contact,
                               IF d.allow = {} THEN Undefined ELSE d.allow)]

PolicyFromDraft(d) ==
    [default |-> d.default, conds |-> NoConditions,
     propose |-> ProtocolActionFromDraft(d.propose),
     delegate |-> ProtocolActionFromDraft(d.delegate)]
====
