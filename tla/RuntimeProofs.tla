----------------------------- MODULE RuntimeProofs -----------------------------
(***************************************************************************)
(* Proofs about Runtime, for any jobs, credentials, processes and calls:   *)
(* every step of the runtimes is one the abstract ToolCall allows, a       *)
(* refused token is replaced without the caller noticing, and no live      *)
(* credential is left with nobody who could use it.                        *)
(***************************************************************************)
EXTENDS Runtime, SequenceTheorems, TLAPS

-----------------------------------------------------------------------------
(* Types. *)

Active == {"sign", "fetch", "refresh"}
Busy == {"serving", "gateway", "running"}
Answers == {"none", "read", "sent", "error", "unauthorized"}
ScriptJob == [tool |-> "script", mode |-> "send", confirmed |-> TRUE]

\* T: whatever numbers and tokens are around.
CallsOver(T) == [pc : Active \union {"idle", "done", "hung"}, proc : Procs \union {0}, relayed : BOOLEAN,
                 job : Jobs \union {NoJob, ScriptJob}, todo : Seq({"get", "post", "intent", "complete"}),
                 proof : T, retried : BOOLEAN, late : BOOLEAN, disturbed : BOOLEAN, answer : Answers]
ProcsOver(T) == [pc : Busy \union {"off", "exchange", "activate", "checked", "store", "half", "script"},
                 kind : {"server", "script", "bootstrap"}, cred : Ids \union {0}, key : T, token : T]
TypedOver(T) ==
    /\ NoToken \in T /\ 0 \in T
    /\ call \in [Calls -> CallsOver(T)] /\ proc \in [Procs -> ProcsOver(T)]
Types == \E T : TypedOver(T)

\* The records processes and calls start from.
LEMMA Values ==
    ASSUME NEW T, NoToken \in T, 0 \in T
    PROVE  Off \in ProcsOver(T) /\ NoCall \in CallsOver(T)
<1>1. Off \in ProcsOver(T)
    BY DEF Off, ProcsOver
<1>2. NoCall \in CallsOver(T)
    BY DEF NoCall, CallsOver, Answers, Active
<1> QED
    BY <1>1, <1>2

\* More values may be around.
LEMMA Wider ==
    ASSUME NEW T, NEW U, T \subseteq U
    PROVE  (\A k \in CallsOver(T) : k \in CallsOver(U)) /\ (\A q \in ProcsOver(T) : q \in ProcsOver(U))
BY DEF CallsOver, ProcsOver

\* A call of these values with one more proof around.
LEMMA TypesUp ==
    ASSUME NEW T, TypedOver(T), NEW U, T \subseteq U
    PROVE  TypedOver(U)
<1>1. call \in [Calls -> CallsOver(U)]
    BY Wider DEF TypedOver
<1>2. proc \in [Procs -> ProcsOver(U)]
    BY Wider DEF TypedOver
<1> QED
    BY <1>1, <1>2 DEF TypedOver

\* What a request list leaves, and what it does to the record of a call.
LEMMA ReplyFacts ==
    ASSUME NEW T, TypedOver(T), NEW c \in Calls, NEW a \in Answers
    PROVE  /\ Reply(c, a) \in CallsOver(T) /\ Reply(c, a).pc = "done" /\ Reply(c, a).answer = a
           /\ Reply(c, a).job = call[c].job /\ Reply(c, a).retried = FALSE /\ Reply(c, a).late = FALSE
           /\ Reply(c, a).relayed = call[c].relayed
           /\ Reply(c, a).disturbed = (call[c].disturbed /\ a = "unauthorized")
<1>1. NoCall \in CallsOver(T) /\ call[c] \in CallsOver(T) /\ NoCall.retried = FALSE /\ NoCall.late = FALSE
    BY Values DEF TypedOver, NoCall
<1>2. /\ call[c].job \in Jobs \union {NoJob, ScriptJob} /\ call[c].disturbed \in BOOLEAN
      /\ call[c].relayed \in BOOLEAN
    BY <1>1 DEF CallsOver
<1>3. (call[c].disturbed /\ a = "unauthorized") \in BOOLEAN
    BY <1>2
<1> DEFINE d == call[c].disturbed /\ a = "unauthorized"
<1>4. Reply(c, a) = [NoCall EXCEPT !.pc = "done", !.answer = a, !.job = call[c].job,
                                   !.relayed = call[c].relayed, !.disturbed = d]
    BY DEF Reply
<1>5. d \in BOOLEAN
    BY <1>3
<1> HIDE DEF d
<1>6. /\ Reply(c, a) \in CallsOver(T) /\ Reply(c, a).pc = "done" /\ Reply(c, a).answer = a
      /\ Reply(c, a).job = call[c].job /\ Reply(c, a).retried = FALSE /\ Reply(c, a).disturbed = d
      /\ Reply(c, a).late = FALSE /\ Reply(c, a).relayed = call[c].relayed
    <2>1. PICK r, n, j : r = call[c].relayed /\ n = NoCall /\ j = call[c].job
        OBVIOUS
    <2>2. PICK k : k = [n EXCEPT !.pc = "done", !.answer = a, !.job = j, !.relayed = r, !.disturbed = d]
        OBVIOUS
    <2>3. n \in CallsOver(T) /\ r \in BOOLEAN /\ d \in BOOLEAN /\ j \in Jobs \union {NoJob, ScriptJob}
        BY <1>1, <1>2, <1>5, <2>1
    <2>4. /\ k \in CallsOver(T) /\ k.pc = "done" /\ k.answer = a /\ k.job = j /\ k.relayed = r
          /\ k.disturbed = d /\ k.retried = n.retried /\ k.late = n.late
        BY <2>2, <2>3 DEF CallsOver
    <2>5. Reply(c, a) = k
        BY <1>4, <2>1, <2>2
    <2> QED
        BY <1>1, <2>1, <2>4, <2>5
<1> QED
    BY <1>6 DEF d

\* The answer of a call whose request may still be on its way.
LEMMA GiveUpFacts ==
    ASSUME NEW T, TypedOver(T), NEW c \in Calls
    PROVE  /\ GiveUp(c) \in CallsOver(T) /\ GiveUp(c).pc = "done" /\ GiveUp(c).answer = "error"
           /\ GiveUp(c).job = call[c].job /\ GiveUp(c).relayed = call[c].relayed
           /\ GiveUp(c).late => InFlight(c)
<1>1. PICK r : r = Reply(c, "error")
    OBVIOUS
<1>2. /\ r \in CallsOver(T) /\ r.pc = "done" /\ r.answer = "error"
      /\ r.job = call[c].job /\ r.relayed = call[c].relayed
    BY <1>1, ReplyFacts DEF Answers
<1>3. PICK proof \in T : proof = IF InFlight(c) THEN call[c].proof ELSE NoToken
    BY DEF TypedOver, CallsOver
<1>4. PICK b : b = InFlight(c)
    OBVIOUS
<1>5. b \in BOOLEAN
    BY <1>4 DEF InFlight
<1>6. GiveUp(c) = [r EXCEPT !.late = b, !.proof = proof]
    BY <1>1, <1>3, <1>4 DEF GiveUp
<1>7. /\ GiveUp(c) \in CallsOver(T) /\ GiveUp(c).pc = r.pc /\ GiveUp(c).answer = r.answer
      /\ GiveUp(c).job = r.job /\ GiveUp(c).relayed = r.relayed /\ GiveUp(c).late = b
    BY <1>2, <1>3, <1>5, <1>6 DEF CallsOver
<1>8. GiveUp(c).late => InFlight(c)
    BY <1>4, <1>7
<1> QED
    BY <1>2, <1>7, <1>8

\* A refused exchange is a 401 with a reason.
LEMMA RefusedFacts ==
    ASSUME NEW T, TypedOver(T), NEW c \in Calls, NEW k, k = [Reply(c, "unauthorized") EXCEPT !.disturbed = TRUE]
    PROVE  /\ k \in CallsOver(T) /\ k.pc = "done" /\ k.answer = "unauthorized" /\ k.job = call[c].job
           /\ k.relayed = call[c].relayed /\ k.late = FALSE /\ k.disturbed = TRUE
<1>1. PICK r : r = Reply(c, "unauthorized")
    OBVIOUS
<1>2. /\ r \in CallsOver(T) /\ r.pc = "done" /\ r.answer = "unauthorized"
      /\ r.job = call[c].job /\ r.relayed = call[c].relayed /\ r.late = FALSE
    BY <1>1, ReplyFacts DEF Answers
<1> QED
    BY <1>1, <1>2 DEF CallsOver

-----------------------------------------------------------------------------
(* Requests. *)

Reqs == {"get", "post", "intent", "complete"}
Posts(s) == \E i \in DOMAIN s : s[i] = "post"
OnePost(s) == \A i, j \in DOMAIN s : s[i] = "post" /\ s[j] = "post" => i = j

\* The requests that remain after the first.
LEMMA TailPosts ==
    ASSUME NEW s \in Seq(Reqs), s # <<>>, OnePost(s)
    PROVE  /\ Head(s) \in Reqs /\ Tail(s) \in Seq(Reqs) /\ OnePost(Tail(s))
           /\ Posts(s) <=> (Head(s) = "post" \/ Posts(Tail(s)))
           /\ Head(s) = "post" => ~Posts(Tail(s))
<1>1. /\ Len(s) \in Nat /\ Len(s) # 0 /\ DOMAIN s = 1..Len(s) /\ Head(s) = s[1]
      /\ Tail(s) \in Seq(Reqs) /\ DOMAIN Tail(s) = 1..(Len(s) - 1) /\ s[1] \in Reqs
      /\ \A i \in 1..(Len(s) - 1) : Tail(s)[i] = s[i + 1]
    OBVIOUS
<1>2. OnePost(Tail(s))
    BY <1>1 DEF OnePost
<1>3. Head(s) = "post" => ~Posts(Tail(s))
    BY <1>1 DEF OnePost, Posts
<1>4. ASSUME NEW i \in DOMAIN s, s[i] = "post", i # 1
      PROVE  Posts(Tail(s))
    <2>1. i - 1 \in DOMAIN Tail(s) /\ Tail(s)[i - 1] = s[i]
        BY <1>1, <1>4
    <2> QED
        BY <1>4, <2>1 DEF Posts
<1>5. Posts(s) => (Head(s) = "post" \/ Posts(Tail(s)))
    BY <1>1, <1>4 DEF Posts
<1>6. (Head(s) = "post" \/ Posts(Tail(s))) => Posts(s)
    BY <1>1 DEF Posts
<1> QED
    BY <1>1, <1>2, <1>3, <1>5, <1>6

\* A handler's requests: one post, the last, exactly when the send is confirmed.
LEMMA RequestsFacts ==
    ASSUME NEW p \in Procs, NEW job
    PROVE  /\ Requests(p, job) \in Seq(Reqs) /\ Requests(p, job) # <<>>
           /\ OnePost(Requests(p, job)) /\ (Posts(Requests(p, job)) <=> Sends(job))
<1> DEFINE reads == IF proc[p].pc = "gateway" THEN GatewayReads(job.tool) ELSE Reads(job.tool)
<1>1. reads \in {<<"get">>, <<"get", "get">>, <<"get", "get", "get">>}
    BY DEF GatewayReads, Reads
<1>2. Requests(p, job) = IF Sends(job) THEN Append(reads, "post") ELSE reads
    BY DEF Requests
<1> HIDE DEF reads
<1>3. /\ reads \in Seq(Reqs) /\ Len(reads) \in Nat /\ Len(reads) # 0 /\ DOMAIN reads = 1..Len(reads)
      /\ \A i \in DOMAIN reads : reads[i] = "get"
    <2>1. CASE reads = <<"get">>
        BY <2>1 DEF Reqs
    <2>2. CASE reads = <<"get", "get">>
        <3>1. reads \in Seq(Reqs) /\ Len(reads) = 2 /\ reads[1] = "get" /\ reads[2] = "get"
            BY <2>2 DEF Reqs
        <3> QED
            BY <3>1
    <2>3. CASE reads = <<"get", "get", "get">>
        <3>1. reads \in Seq(Reqs) /\ Len(reads) = 3 /\ reads[1] = "get" /\ reads[2] = "get" /\ reads[3] = "get"
            BY <2>3 DEF Reqs
        <3> QED
            BY <3>1
    <2> QED
        BY <1>1, <2>1, <2>2, <2>3
<1>4. CASE ~Sends(job)
    BY <1>2, <1>3, <1>4 DEF OnePost, Posts
<1>5. CASE Sends(job)
    <2> DEFINE s == Append(reads, "post")
    <2>1. /\ s \in Seq(Reqs) /\ DOMAIN s = 1..(Len(reads) + 1) /\ Len(s) = Len(reads) + 1
          /\ s[Len(reads) + 1] = "post" /\ \A i \in DOMAIN reads : s[i] = "get"
        BY <1>3 DEF Reqs
    <2>2. Requests(p, job) = s
        BY <1>2, <1>5
    <2> HIDE DEF s
    <2>3. s # <<>> /\ Posts(s) /\ OnePost(s)
        BY <1>3, <2>1 DEF Posts, OnePost
    <2> QED
        BY <1>5, <2>1, <2>2, <2>3
<1> QED
    BY <1>4, <1>5

\* The templates' requests post once.
LEMMA ScriptFacts ==
    ASSUME NEW s \in {DirectApi, DirectApiReply, DirectApiWithAttachment}
    PROVE  s \in Seq(Reqs) /\ s # <<>> /\ OnePost(s) /\ Posts(s)
<1>1. /\ DirectApiWithAttachment \in Seq(Reqs) /\ Len(DirectApiWithAttachment) = 4
      /\ DirectApiWithAttachment[1] = "get" /\ DirectApiWithAttachment[2] = "intent"
      /\ DirectApiWithAttachment[3] = "complete" /\ DirectApiWithAttachment[4] = "post"
    <2> DEFINE g == <<"get">>
               e == EncryptAndUpload
               l == <<"post">>
               q == g \o e
    <2>1. /\ e \in Seq(Reqs) /\ Len(e) = 2 /\ e[1] = "intent" /\ e[2] = "complete"
          /\ g \in Seq(Reqs) /\ Len(g) = 1 /\ g[1] = "get" /\ l \in Seq(Reqs) /\ Len(l) = 1 /\ l[1] = "post"
        BY DEF EncryptAndUpload, Reqs
    <2>2. DirectApiWithAttachment = q \o l
        BY DEF DirectApiWithAttachment
    <2> HIDE DEF g, e, l
    <2>3. /\ q \in Seq(Reqs) /\ Len(q) = Len(g) + Len(e)
          /\ \A i \in 1..(Len(g) + Len(e)) : q[i] = IF i <= Len(g) THEN g[i] ELSE e[i - Len(g)]
        BY <2>1, ConcatProperties, Zenon
    <2> HIDE DEF q
    <2>4. Len(q) = 3 /\ q[1] = "get" /\ q[2] = "intent" /\ q[3] = "complete"
        BY <2>1, <2>3
    <2> DEFINE r == q \o l
    <2>5. /\ r \in Seq(Reqs) /\ Len(r) = Len(q) + Len(l)
          /\ \A i \in 1..(Len(q) + Len(l)) : r[i] = IF i <= Len(q) THEN q[i] ELSE l[i - Len(q)]
        <3>1. q \in Seq(Reqs) /\ l \in Seq(Reqs)
            BY <2>1, <2>3
        <3> QED
            BY <3>1, ConcatProperties, Zenon
    <2> HIDE DEF r
    <2>6. r \in Seq(Reqs) /\ Len(r) = 4 /\ \A i \in 1..4 : r[i] = IF i <= 3 THEN q[i] ELSE l[i - 3]
        BY <2>1, <2>4, <2>5
    <2>7. r[1] = q[1] /\ r[2] = q[2] /\ r[3] = q[3] /\ r[4] = l[1]
        BY <2>6
    <2> QED
        BY <2>1, <2>2, <2>4, <2>6, <2>7 DEF r
<1>3. CASE s = <<"get", "post", "get">>
    <2>1. DOMAIN s = 1..3 /\ s[1] = "get" /\ s[2] = "post" /\ s[3] = "get" /\ s \in Seq(Reqs) /\ Len(s) = 3
        BY <1>3 DEF Reqs
    <2>2. Posts(s)
        BY <2>1 DEF Posts
    <2>3. \A i \in DOMAIN s : s[i] = "post" => i = 2
        BY <2>1
    <2> QED
        BY <2>1, <2>2, <2>3 DEF OnePost
<1>4. CASE s = <<"get", "post">>
    <2>1. DOMAIN s = 1..2 /\ s[1] = "get" /\ s[2] = "post" /\ s \in Seq(Reqs) /\ Len(s) = 2
        BY <1>4 DEF Reqs
    <2>2. Posts(s)
        BY <2>1 DEF Posts
    <2>3. \A i \in DOMAIN s : s[i] = "post" => i = 2
        BY <2>1
    <2> QED
        BY <2>1, <2>2, <2>3 DEF OnePost
<1>5. CASE s = DirectApiWithAttachment
    <2>1. DOMAIN s = 1..4 /\ s[1] = "get" /\ s[2] = "intent" /\ s[3] = "complete" /\ s[4] = "post"
          /\ s \in Seq(Reqs) /\ Len(s) = 4
        BY <1>1, <1>5
    <2>2. Posts(s)
        BY <2>1 DEF Posts
    <2>3. \A i \in DOMAIN s : s[i] = "post" => i = 4
        BY <2>1
    <2> QED
        BY <2>1, <2>2, <2>3 DEF OnePost
<1> QED
    BY <1>3, <1>4, <1>5 DEF DirectApi, DirectApiReply

-----------------------------------------------------------------------------
(* Steps of processes. *)

\* Steps that move one process and leave the calls alone.
ProcStep(p) ==
    \/ \E i \in Ids : Boot(p, i) \/ BootScript(p, i) \/ Bootstrap(p, i)
    \/ BootGateway(p) \/ ActivateChecked(p) \/ ActivateWritten(p) \/ Store(p) \/ Exchange(p)
    \/ StoreSigningKey(p) \/ StoreEncryptionKey(p) \/ ScriptEnds(p)

\* They keep the types; a process that they move serves no call, before or, unless
\* it has just started to serve, after.
LEMMA ProcStepFacts ==
    ASSUME NEW T, TypedOver(T), NEW p \in Procs, ProcStep(p)
    PROVE  /\ UNCHANGED <<call, posted>> /\ live \subseteq live'
           /\ \E q : Set(p, q) /\ q \in ProcsOver(T \union {Fresh, Token(p), file[proc[p].cred]}
                                                    \union {file[i] : i \in Ids})
           /\ proc[p].pc \notin {"serving", "gateway"}
           /\ ~ScriptEnds(p) => proc[p].pc # "running"
<1>0. proc[p] \in ProcsOver(T) /\ proc \in [Procs -> ProcsOver(T)] /\ NoToken \in T /\ 0 \in T
    BY DEF TypedOver
<1>1. PICK U : U = T \union {Fresh, Token(p), file[proc[p].cred]} \union {file[i] : i \in Ids}
    OBVIOUS
<1>2. T \subseteq U /\ Fresh \in U /\ Token(p) \in U /\ (\A i \in Ids : file[i] \in U) /\ NoToken \in U /\ 0 \in U
    BY <1>0, <1>1
<1>3. proc[p] \in ProcsOver(U) /\ Off \in ProcsOver(U)
    BY <1>0, <1>2, Wider, Values
<1>4. ASSUME NEW i \in Ids, NEW kind \in {"server", "script"}, LoadOrActivate(p, i, kind)
      PROVE  /\ UNCHANGED <<call, posted>> /\ live \subseteq live' /\ proc[p].pc = "off"
             /\ \E q \in ProcsOver(U) : Set(p, q)
    <2>1. UNCHANGED <<call, posted>> /\ live \subseteq live' /\ proc[p].pc = "off"
        BY <1>4 DEF LoadOrActivate, Quiet, console, FreeProc
    <2>2. [Off EXCEPT !.pc = "exchange", !.kind = kind, !.cred = i, !.key = file[i]] \in ProcsOver(U)
        BY <1>2, <1>3 DEF ProcsOver
    <2>3. [Off EXCEPT !.pc = "activate", !.kind = kind, !.cred = i, !.key = Fresh] \in ProcsOver(U)
        BY <1>2, <1>3 DEF ProcsOver
    <2> QED
        BY <1>4, <2>1, <2>2, <2>3 DEF LoadOrActivate
<1>5. ASSUME NEW i \in Ids, Bootstrap(p, i)
      PROVE  /\ UNCHANGED <<call, posted>> /\ live \subseteq live' /\ proc[p].pc = "off"
             /\ \E q \in ProcsOver(U) : Set(p, q)
    <2>1. UNCHANGED <<call, posted>> /\ live \subseteq live' /\ proc[p].pc = "off"
        BY <1>5 DEF Bootstrap, Quiet, console, FreeProc
    <2>2. [Off EXCEPT !.pc = "activate", !.kind = "bootstrap", !.cred = i, !.key = Fresh] \in ProcsOver(U)
        BY <1>2, <1>3 DEF ProcsOver
    <2> QED
        BY <1>5, <2>1, <2>2 DEF Bootstrap
<1>6. CASE BootGateway(p)
    <2>1. UNCHANGED <<call, posted>> /\ live \subseteq live' /\ proc[p].pc = "off"
        BY <1>6 DEF BootGateway, Quiet, console, FreeProc
    <2>2. [Off EXCEPT !.pc = "gateway"] \in ProcsOver(U)
        BY <1>3 DEF ProcsOver, Busy
    <2> QED
        BY <1>1, <1>6, <2>1, <2>2 DEF BootGateway
<1>7. \A s \in {"checked", "store", "exchange", "half"} : [proc[p] EXCEPT !.pc = s] \in ProcsOver(U)
    BY <1>3 DEF ProcsOver
<1>8. CASE ActivateChecked(p) \/ ActivateWritten(p) \/ Store(p) \/ StoreSigningKey(p) \/ StoreEncryptionKey(p)
    <2>1. /\ UNCHANGED <<call, posted>> /\ live \subseteq live'
          /\ proc[p].pc \in {"activate", "checked", "store", "half"}
        BY <1>8 DEF ActivateChecked, ActivateWritten, Store, StoreSigningKey, StoreEncryptionKey,
                    StoreDaemonKey, Quiet, console
    <2>2. \E q \in ProcsOver(U) : Set(p, q)
        BY <1>3, <1>7, <1>8 DEF ActivateChecked, ActivateWritten, Store, StoreSigningKey, StoreEncryptionKey
    <2> QED
        BY <1>1, <2>1, <2>2
<1>9. CASE Exchange(p)
    <2>1. /\ UNCHANGED <<call, posted>> /\ live \subseteq live' /\ proc[p].pc = "exchange"
        BY <1>9 DEF Exchange
    <2>2. [proc[p] EXCEPT !.pc = IF proc[p].kind = "script" THEN "script" ELSE "serving", !.token = Token(p)]
            \in ProcsOver(U)
        BY <1>2, <1>3 DEF ProcsOver, Busy
    <2>3. \E q \in ProcsOver(U) : Set(p, q)
        BY <1>3, <1>9, <2>2 DEF Exchange
    <2> QED
        BY <1>1, <2>1, <2>3
<1>10. CASE ScriptEnds(p)
    <2>1. /\ UNCHANGED <<call, posted>> /\ live \subseteq live' /\ proc[p].pc = "running" /\ Set(p, Off)
        BY <1>10 DEF ScriptEnds, Quiet, console
    <2> QED
        BY <1>1, <1>3, <1>10, <2>1
<1> QED
    BY <1>1, <1>4, <1>5, <1>6, <1>8, <1>9, <1>10 DEF ProcStep, Boot, BootScript

-----------------------------------------------------------------------------
(* What a step does to the calls. *)

\* A call that is not over belongs to a process that runs.
Attached(c) == call[c].pc \in Active => call[c].proc \in Procs /\ proc[call[c].proc].pc \in Busy

Keeps(d) ==
    /\ call'[d].job = call[d].job /\ call'[d].todo = call[d].todo /\ call'[d].answer = call[d].answer
    /\ call'[d].relayed = call[d].relayed /\ call'[d].late = call[d].late
    /\ call'[d].pc = call[d].pc \/ (call[d].pc \in Active /\ call'[d].pc \in Active)

Kept == posted' = posted /\ \A d \in Calls : Keeps(d)

AskedFor(c) ==
    /\ call[c].pc = "idle" /\ posted' = posted /\ \A d \in Calls \ {c} : call'[d] = call[d]
    /\ call'[c].pc = "sign" /\ call'[c].answer = "none" /\ call'[c].late = FALSE
    /\ call'[c].todo # <<>> /\ OnePost(call'[c].todo) /\ (Posts(call'[c].todo) <=> Sends(call'[c].job))

Served(c) ==
    /\ call[c].pc \in Active /\ posted' = Created(c)
    /\ call' = [call EXCEPT ![c] = Proceed(c, Tail(call[c].todo))]

\* The record of a call that failed.
Failed(c, k) ==
    /\ k.pc = "done" /\ k.answer \in {"error", "unauthorized"}
    /\ k.job = call[c].job /\ k.relayed = call[c].relayed
    /\ k.late => InFlight(c) /\ k.answer = "error"

Ended(c) ==
    /\ call[c].pc \in Active /\ posted' = posted
    /\ Failed(c, call'[c]) /\ \A d \in Calls \ {c} : call'[d] = call[d]

Silenced(c) ==
    /\ call[c].pc \in Active /\ call[c].relayed /\ posted' = posted
    /\ call'[c].pc = "hung" /\ call'[c].answer = call[c].answer /\ call'[c].job = call[c].job
    /\ call'[c].relayed = call[c].relayed /\ (call'[c].late => InFlight(c))
    /\ \A d \in Calls \ {c} : call'[d] = call[d]

Landed(c) ==
    /\ call[c].late /\ posted' = [posted EXCEPT ![c] = @ + 1]
    /\ call'[c].pc = call[c].pc /\ call'[c].answer = call[c].answer /\ call'[c].job = call[c].job
    /\ call'[c].relayed = call[c].relayed /\ call'[c].late = FALSE
    /\ \A d \in Calls \ {c} : call'[d] = call[d]

Stopped ==
    \E p \in Procs :
        /\ posted' = posted
        /\ \A c \in Calls : IF call[c].proc = p /\ call[c].pc \notin {"idle", "done"}
                              THEN Failed(c, call'[c]) ELSE call'[c] = call[c]

OneMoves(c) == AskedFor(c) \/ Served(c) \/ Ended(c) \/ Silenced(c) \/ Landed(c)

\* Only the flag changes.
LEMMA DisturbedFacts ==
    ASSUME NEW T, NEW f \in [Calls -> CallsOver(T)], NEW S
    PROVE  /\ Disturbed(S, f) \in [Calls -> CallsOver(T)]
           /\ \A c \in Calls : /\ Disturbed(S, f)[c].pc = f[c].pc /\ Disturbed(S, f)[c].proc = f[c].proc
                               /\ Disturbed(S, f)[c].job = f[c].job /\ Disturbed(S, f)[c].todo = f[c].todo
                               /\ Disturbed(S, f)[c].proof = f[c].proof
                               /\ Disturbed(S, f)[c].relayed = f[c].relayed
                               /\ Disturbed(S, f)[c].late = f[c].late
                               /\ Disturbed(S, f)[c].retried = f[c].retried
                               /\ Disturbed(S, f)[c].answer = f[c].answer
                               /\ Disturbed(S, f)[c].disturbed = (c \in S \/ f[c].disturbed)
<1>1. ASSUME NEW c \in Calls
      PROVE  LET k == [f[c] EXCEPT !.disturbed = TRUE] IN
             /\ k \in CallsOver(T) /\ k.pc = f[c].pc /\ k.proc = f[c].proc /\ k.job = f[c].job
             /\ k.todo = f[c].todo /\ k.proof = f[c].proof /\ k.retried = f[c].retried
             /\ k.relayed = f[c].relayed /\ k.late = f[c].late
             /\ k.answer = f[c].answer /\ k.disturbed = TRUE /\ f[c] \in CallsOver(T) /\ f[c].disturbed \in BOOLEAN
    <2>1. f[c] \in CallsOver(T)
        OBVIOUS
    <2> QED
        BY <2>1 DEF CallsOver
<1>2. Disturbed(S, f) = [c \in Calls |-> IF c \in S THEN [f[c] EXCEPT !.disturbed = TRUE] ELSE f[c]]
    BY DEF Disturbed
<1>3. Disturbed(S, f) \in [Calls -> CallsOver(T)]
    BY <1>1, <1>2
<1>4. ASSUME NEW c \in Calls
      PROVE  /\ Disturbed(S, f)[c].pc = f[c].pc /\ Disturbed(S, f)[c].proc = f[c].proc
             /\ Disturbed(S, f)[c].job = f[c].job /\ Disturbed(S, f)[c].todo = f[c].todo
             /\ Disturbed(S, f)[c].proof = f[c].proof
             /\ Disturbed(S, f)[c].relayed = f[c].relayed /\ Disturbed(S, f)[c].late = f[c].late
             /\ Disturbed(S, f)[c].retried = f[c].retried
             /\ Disturbed(S, f)[c].answer = f[c].answer
             /\ Disturbed(S, f)[c].disturbed = (c \in S \/ f[c].disturbed)
    <2>1. CASE c \in S
        <3>1. Disturbed(S, f)[c] = [f[c] EXCEPT !.disturbed = TRUE]
            BY <1>2, <2>1
        <3> QED
            BY <1>1, <2>1, <3>1
    <2>2. CASE c \notin S
        <3>1. Disturbed(S, f)[c] = f[c]
            BY <1>2, <2>2
        <3> QED
            BY <1>1, <2>2, <3>1
    <2> QED
        BY <2>1, <2>2
<1> QED
    BY <1>3, <1>4

\* A call's next state once a request succeeded.
LEMMA ProceedFacts ==
    ASSUME NEW T, TypedOver(T), NEW c \in Calls, NEW todo \in Seq(Reqs)
    PROVE  /\ Proceed(c, todo) \in CallsOver(T) /\ Proceed(c, todo).job = call[c].job
           /\ Proceed(c, todo).retried = FALSE /\ Proceed(c, todo).relayed = call[c].relayed
           /\ Proceed(c, todo).late => call[c].late
           /\ todo # <<>> => /\ Proceed(c, todo).pc = "sign" /\ Proceed(c, todo).todo = todo
                             /\ Proceed(c, todo).answer = call[c].answer /\ Proceed(c, todo).proc = call[c].proc
           /\ todo = <<>> => /\ Proceed(c, todo).pc = "done"
                             /\ Proceed(c, todo).answer = Outcome(call[c].job)
                             /\ Proceed(c, todo).answer \in {"read", "sent", "error"}
<1>1. CASE todo = <<>>
    <2>1. Outcome(call[c].job) \in {"read", "sent", "error"}
        BY DEF Outcome
    <2>2. Outcome(call[c].job) \in Answers
        BY <2>1 DEF Answers
    <2> QED
        BY <1>1, <2>1, <2>2, ReplyFacts DEF Proceed
<1>2. CASE todo # <<>>
    <2>1. call[c] \in CallsOver(T) /\ NoToken \in T
        BY DEF TypedOver
    <2>2. Proceed(c, todo) = [call[c] EXCEPT !.pc = "sign", !.todo = todo, !.retried = FALSE,
                                             !.disturbed = FALSE, !.proof = NoToken]
        BY <1>2 DEF Proceed
    <2> QED
        BY <1>2, <2>1, <2>2 DEF CallsOver, Active, Reqs
<1> QED
    BY <1>1, <1>2

\* How far a call is and what it has posted: nothing before it starts, at most one
\* message, only for a confirmed send, and by its end if nothing failed.
PostInv(c) ==
    /\ posted[c] \in {0, 1}
    /\ call[c].pc = "idle" => posted[c] = 0 /\ call[c].answer = "none" /\ ~call[c].relayed
    /\ call[c].pc \in Active =>
          /\ call[c].answer = "none" /\ call[c].todo # <<>> /\ OnePost(call[c].todo)
          /\ Posts(call[c].todo) <=> (Sends(call[c].job) /\ posted[c] = 0)
    /\ call[c].pc = "done" => call[c].answer # "none"
    /\ call[c].pc = "hung" => call[c].answer = "none"
    /\ call[c].late => /\ call[c].pc = "hung" \/ (call[c].pc = "done" /\ call[c].answer = "error")
                       /\ Sends(call[c].job) /\ posted[c] = 0
    /\ posted[c] = 1 => Sends(call[c].job)

\* Every step that is not one of a process alone moves one call, or stops those of
\* a process, or changes nothing a host could tell.
LEMMA CallMoves ==
    ASSUME NEW T, TypedOver(T), \A c \in Calls : Attached(c), \A c \in Calls : PostInv(c), Next
    PROVE  /\ call' \in [Calls -> CallsOver(T)]
           /\ Kept \/ (\E c \in Calls : OneMoves(c)) \/ Stopped
<1>0. /\ call \in [Calls -> CallsOver(T)] /\ proc \in [Procs -> ProcsOver(T)] /\ NoToken \in T
      /\ (\A c \in Calls : call[c] \in CallsOver(T)) /\ NoCall \in CallsOver(T)
    BY Values DEF TypedOver
<1>1. ASSUME NEW c \in Calls, call[c].pc \in Active
      PROVE  /\ call[c].todo \in Seq(Reqs) /\ call[c].todo # <<>> /\ Tail(call[c].todo) \in Seq(Reqs)
             /\ call[c].proc \in Procs /\ proc[call[c].proc].token \in T
    <2>1. call[c].todo \in Seq(Reqs) /\ call[c].todo # <<>> /\ call[c].proc \in Procs
        BY <1>0, <1>1 DEF PostInv, Attached, CallsOver, Reqs
    <2>2. proc[call[c].proc].token \in T
        BY <1>0, <2>1 DEF ProcsOver
    <2> QED
        BY <2>1, <2>2
<1>2. ASSUME UNCHANGED <<call, posted>>
      PROVE  call' \in [Calls -> CallsOver(T)] /\ Kept
    BY <1>0, <1>2 DEF Kept, Keeps
<1>3. ASSUME NEW S, call' = Disturbed(S, call), posted' = posted
      PROVE  call' \in [Calls -> CallsOver(T)] /\ Kept
    BY <1>0, <1>3, DisturbedFacts DEF Kept, Keeps
<1>4. ASSUME NEW c \in Calls, NEW k \in CallsOver(T), call' = [call EXCEPT ![c] = k]
      PROVE  call' \in [Calls -> CallsOver(T)] /\ call'[c] = k /\ \A d \in Calls \ {c} : call'[d] = call[d]
    BY <1>0, <1>4
<1>5. ASSUME NEW p \in Procs, ProcStep(p)
      PROVE  call' \in [Calls -> CallsOver(T)] /\ Kept
    BY <1>2, <1>5, ProcStepFacts
<1>6. CASE Page
    BY <1>3, <1>6 DEF Page
<1>7. ASSUME NEW t \in live, TokenExpires(t)
      PROVE  call' \in [Calls -> CallsOver(T)] /\ Kept
    BY <1>3, <1>7 DEF TokenExpires
<1>8. ASSUME NEW p \in Procs, NEW c \in Calls, NEW job \in Jobs, Ask(p, c, job)
      PROVE  call' \in [Calls -> CallsOver(T)] /\ AskedFor(c)
    <2>0. PICK b : b = (proc[p].pc = "gateway")
        OBVIOUS
    <2>1. PICK k : k = [NoCall EXCEPT !.pc = "sign", !.proc = p, !.job = job, !.relayed = b, !.todo = Requests(p, job)]
        OBVIOUS
    <2>2. Requests(p, job) \in Seq(Reqs) /\ b \in BOOLEAN
        BY <2>0, RequestsFacts
    <2>3. /\ k \in CallsOver(T) /\ k.pc = "sign" /\ k.job = job /\ k.todo = Requests(p, job)
          /\ k.answer = NoCall.answer /\ k.late = NoCall.late
        BY <1>0, <2>1, <2>2 DEF CallsOver, Active, Reqs
    <2>4. call' = [call EXCEPT ![c] = k] /\ posted' = posted /\ call[c].pc = "idle"
        BY <1>8, <2>0, <2>1 DEF Ask, NextCall
    <2>5. NoCall.answer = "none" /\ NoCall.late = FALSE
        BY DEF NoCall
    <2>6. /\ k.todo # <<>> /\ OnePost(k.todo) /\ (Posts(k.todo) <=> Sends(k.job))
        BY <2>3, RequestsFacts
    <2> QED
        BY <1>4, <2>3, <2>4, <2>5, <2>6 DEF AskedFor
<1>9. ASSUME NEW p \in Procs, NEW c \in Calls, RunScript(p, c)
      PROVE  call' \in [Calls -> CallsOver(T)] /\ AskedFor(c)
    <2>0. PICK todo \in {DirectApi, DirectApiReply, DirectApiWithAttachment} :
              call' = [call EXCEPT ![c] = [NoCall EXCEPT !.pc = "sign", !.proc = p, !.todo = todo,
                                             !.job = [tool |-> "script", mode |-> "send", confirmed |-> TRUE]]]
        BY <1>9 DEF RunScript
    <2>1. PICK k : k = [NoCall EXCEPT !.pc = "sign", !.proc = p, !.todo = todo,
                                      !.job = [tool |-> "script", mode |-> "send", confirmed |-> TRUE]]
        OBVIOUS
    <2>2. todo \in Seq(Reqs) /\ todo # <<>> /\ OnePost(todo) /\ Posts(todo)
        BY ScriptFacts
    <2>3. /\ k \in CallsOver(T) /\ k.pc = "sign" /\ k.job = ScriptJob /\ k.todo = todo
          /\ k.answer = NoCall.answer /\ k.late = NoCall.late
        BY <1>0, <2>1, <2>2 DEF CallsOver, Active, Reqs, ScriptJob
    <2>4. call' = [call EXCEPT ![c] = k] /\ posted' = posted /\ call[c].pc = "idle"
        BY <1>9, <2>0, <2>1 DEF RunScript, NextCall
    <2>5. NoCall.answer = "none" /\ NoCall.late = FALSE /\ Sends(ScriptJob)
        BY DEF NoCall, Sends, ScriptJob
    <2> QED
        BY <1>4, <2>2, <2>3, <2>4, <2>5 DEF AskedFor
<1>10. ASSUME NEW c \in Calls, Sign(c)
       PROVE  call' \in [Calls -> CallsOver(T)] /\ Kept
    <2>0. call[c].pc = "sign" /\ call[c].pc \in Active /\ posted' = posted
        BY <1>10 DEF Sign, Active
    <2>1. PICK k : k = [call[c] EXCEPT !.pc = "fetch", !.proof = proc[call[c].proc].token]
        OBVIOUS
    <2>2. /\ k \in CallsOver(T) /\ k.pc = "fetch" /\ k.job = call[c].job /\ k.todo = call[c].todo
          /\ k.answer = call[c].answer /\ k.relayed = call[c].relayed /\ k.late = call[c].late
        BY <1>0, <1>1, <2>0, <2>1 DEF CallsOver, Active
    <2>3. call' = [call EXCEPT ![c] = k]
        BY <1>10, <2>1 DEF Sign
    <2> QED
        BY <1>4, <2>0, <2>2, <2>3 DEF Kept, Keeps, Active
<1>11. ASSUME NEW c \in Calls, Fetch(c) \/ Rpc(c)
       PROVE  call' \in [Calls -> CallsOver(T)] /\ (Kept \/ Served(c) \/ Ended(c))
    <2>0. call[c].pc \in Active
        BY <1>11 DEF Fetch, Rpc, Active
    <2>1. CASE posted' = Created(c) /\ call' = [call EXCEPT ![c] = Proceed(c, Tail(call[c].todo))]
        <3>1. Proceed(c, Tail(call[c].todo)) \in CallsOver(T)
            BY <1>1, <2>0, ProceedFacts
        <3> QED
            BY <1>4, <2>0, <2>1, <3>1 DEF Served
    <2>2. ASSUME NEW a \in {"error", "unauthorized"}, call' = [call EXCEPT ![c] = Reply(c, a)], posted' = posted
          PROVE  call' \in [Calls -> CallsOver(T)] /\ Ended(c)
        <3>1. PICK k : k = Reply(c, a)
            OBVIOUS
        <3>2. /\ k \in CallsOver(T) /\ k.pc = "done" /\ k.answer = a /\ k.job = call[c].job
              /\ k.relayed = call[c].relayed /\ k.late = FALSE
            <4>1. a \in Answers
                BY DEF Answers
            <4> QED
                BY <3>1, <4>1, ReplyFacts, Zenon
        <3>3. Failed(c, k)
            BY <3>2 DEF Failed
        <3> QED
            BY <1>4, <2>0, <2>2, <3>1, <3>2, <3>3 DEF Ended
    <2>3. CASE call' = [call EXCEPT ![c].pc = "refresh"] /\ posted' = posted
        <3>1. PICK k : k = [call[c] EXCEPT !.pc = "refresh"]
            OBVIOUS
        <3>2. /\ k \in CallsOver(T) /\ k.pc = "refresh" /\ k.job = call[c].job /\ k.todo = call[c].todo
              /\ k.answer = call[c].answer /\ k.relayed = call[c].relayed /\ k.late = call[c].late
            BY <1>0, <3>1 DEF CallsOver, Active
        <3>3. call' = [call EXCEPT ![c] = k]
            BY <2>3, <3>1
        <3> QED
            BY <1>4, <2>0, <2>3, <3>2, <3>3 DEF Kept, Keeps, Active
    <2> QED
        BY <1>11, <2>1, <2>2, <2>3 DEF Fetch, Rpc
<1>12. ASSUME NEW c \in Calls, Refresh(c)
       PROVE  call' \in [Calls -> CallsOver(T)] /\ (Kept \/ Ended(c))
    <2>0. call[c].pc = "refresh" /\ call[c].pc \in Active /\ posted' = posted
        BY <1>12 DEF Refresh, Active
    <2>1. CASE call' = [call EXCEPT ![c] = [Reply(c, "unauthorized") EXCEPT !.disturbed = TRUE]]
        <3>1. PICK k : k = [Reply(c, "unauthorized") EXCEPT !.disturbed = TRUE]
            OBVIOUS
        <3>2. k \in CallsOver(T) /\ Failed(c, k)
            BY <3>1, RefusedFacts DEF Failed
        <3> QED
            BY <1>4, <2>0, <2>1, <3>1, <3>2 DEF Ended
    <2>2. ASSUME NEW S, call' = Disturbed(S, [call EXCEPT ![c].pc = "sign", ![c].retried = TRUE])
          PROVE  call' \in [Calls -> CallsOver(T)] /\ Kept
        <3>1. PICK k : k = [call[c] EXCEPT !.pc = "sign", !.retried = TRUE]
            OBVIOUS
        <3>2. /\ k \in CallsOver(T) /\ k.pc = "sign" /\ k.job = call[c].job /\ k.todo = call[c].todo
              /\ k.answer = call[c].answer /\ k.relayed = call[c].relayed /\ k.late = call[c].late
            BY <1>0, <3>1 DEF CallsOver, Active
        <3>3. PICK f : f = [call EXCEPT ![c] = k]
            OBVIOUS
        <3>4. call' = Disturbed(S, f)
            BY <1>0, <2>2, <3>1, <3>3
        <3>5. f \in [Calls -> CallsOver(T)] /\ f[c] = k /\ \A d \in Calls \ {c} : f[d] = call[d]
            BY <1>0, <3>2, <3>3
        <3> QED
            BY <2>0, <3>2, <3>4, <3>5, DisturbedFacts DEF Kept, Keeps, Active
    <2> QED
        BY <1>12, <2>1, <2>2 DEF Refresh
<1>13. ASSUME NEW c \in Calls, RequestFails(c)
       PROVE  call' \in [Calls -> CallsOver(T)] /\ Ended(c)
    <2>1. GiveUp(c) \in CallsOver(T) /\ Failed(c, GiveUp(c))
        BY GiveUpFacts DEF Failed
    <2>2. call[c].pc \in Active /\ posted' = posted /\ call' = [call EXCEPT ![c] = GiveUp(c)]
        BY <1>13 DEF RequestFails, Active
    <2> QED
        BY <1>4, <2>1, <2>2 DEF Ended
<1>19. ASSUME NEW c \in Calls, RpcHangs(c)
       PROVE  call' \in [Calls -> CallsOver(T)] /\ Silenced(c)
    <2>1. PICK b : b = InFlight(c)
        OBVIOUS
    <2>2. b \in BOOLEAN
        BY <2>1 DEF InFlight
    <2>3. PICK k : k = [call[c] EXCEPT !.pc = "hung", !.late = b]
        OBVIOUS
    <2>4. /\ k \in CallsOver(T) /\ k.pc = "hung" /\ k.answer = call[c].answer /\ k.job = call[c].job
          /\ k.relayed = call[c].relayed /\ k.late = b
        BY <1>0, <2>2, <2>3 DEF CallsOver
    <2>5. call' = [call EXCEPT ![c] = k] /\ posted' = posted /\ call[c].pc \in Active /\ call[c].relayed
        BY <1>0, <1>19, <2>1, <2>3 DEF RpcHangs, Active
    <2>6. call' \in [Calls -> CallsOver(T)] /\ call'[c] = k /\ \A d \in Calls \ {c} : call'[d] = call[d]
        BY <1>4, <2>4, <2>5
    <2>7. k.late => InFlight(c)
        BY <2>1, <2>4
    <2> QED
        BY <2>4, <2>5, <2>6, <2>7 DEF Silenced
<1>20. ASSUME NEW c \in Calls, Lands(c)
       PROVE  call' \in [Calls -> CallsOver(T)] /\ Landed(c)
    <2>1. PICK k : k = [call[c] EXCEPT !.late = FALSE, !.proof = NoToken]
        OBVIOUS
    <2>2. /\ k \in CallsOver(T) /\ k.pc = call[c].pc /\ k.answer = call[c].answer /\ k.job = call[c].job
          /\ k.relayed = call[c].relayed /\ k.late = FALSE
        BY <1>0, <2>1 DEF CallsOver
    <2>3. call' = [call EXCEPT ![c] = k] /\ posted' = [posted EXCEPT ![c] = @ + 1] /\ call[c].late
        BY <1>0, <1>20, <2>1 DEF Lands
    <2> QED
        BY <1>4, <2>2, <2>3 DEF Landed
<1>14. ASSUME NEW p \in Procs, Crash(p) \/ Quit(p)
       PROVE  call' \in [Calls -> CallsOver(T)] /\ Stopped
    <2>1. /\ posted' = posted
          /\ call' = [c \in Calls |-> IF call[c].proc = p /\ call[c].pc \notin {"idle", "done"}
                                      THEN GiveUp(c) ELSE call[c]]
        BY <1>14 DEF Crash, Quit, Stop
    <2>2. \A c \in Calls : GiveUp(c) \in CallsOver(T) /\ Failed(c, GiveUp(c))
        BY GiveUpFacts DEF Failed
    <2> QED
        BY <1>0, <2>1, <2>2 DEF Stopped
<1>15. CASE Host
    BY <1>5, <1>8, <1>14, <1>15 DEF Host, ProcStep, OneMoves
<1>16. CASE Failing
    BY <1>7, <1>13, <1>14, <1>16, <1>19, <1>20 DEF Failing, OneMoves
<1>17. ASSUME NEW p \in Procs, Starting(p)
       PROVE  call' \in [Calls -> CallsOver(T)] /\ (Kept \/ \E c \in Calls : AskedFor(c))
    BY <1>5, <1>9, <1>17 DEF Starting, ProcStep
<1>18. ASSUME NEW c \in Calls, Handling(c)
       PROVE  call' \in [Calls -> CallsOver(T)] /\ (Kept \/ Served(c) \/ Ended(c))
    BY <1>10, <1>11, <1>12, <1>18 DEF Handling
<1> QED
    BY <1>6, <1>15, <1>16, <1>17, <1>18 DEF Next, OneMoves

-----------------------------------------------------------------------------
(* The refinement of ToolCall. *)

Intent(c) == IF call[c].pc = "idle" THEN "none" ELSE IF Sends(call[c].job) THEN "send" ELSE "read"
Said(c) == IF call[c].pc = "hung" THEN "silent"
           ELSE IF call[c].answer \in {"none", "read", "sent"} THEN call[c].answer ELSE "error"
Relayed == {c \in Calls : call[c].relayed}

\* A step no host could tell.
LEMMA Stutters ==
    ASSUME posted' = posted, Relayed' = Relayed, \A c \in Calls : Intent(c)' = Intent(c) /\ Said(c)' = Said(c)
    PROVE  UNCHANGED Tools!vars
BY DEF Tools!vars, Intent, Said, Relayed

\* Asked: the intent of one call appears.
LEMMA Asks ==
    ASSUME NEW c \in Calls, posted' = posted, Relayed' \in {Relayed, Relayed \union {c}},
           Intent(c) = "none", Intent(c)' \in {"read", "send"}, Said(c)' = Said(c),
           \A d \in Calls \ {c} : Intent(d)' = Intent(d) /\ Said(d)' = Said(d)
    PROVE  Tools!Next
<1>1. Tools!Ask(c)
    <2>1. PICK i \in {"read", "send"} : i = Intent(c)'
        OBVIOUS
    <2>2. [d \in Calls |-> Intent(d)]' = [[d \in Calls |-> Intent(d)] EXCEPT ![c] = i]
        BY <2>1
    <2>3. UNCHANGED [d \in Calls |-> Said(d)]
        OBVIOUS
    <2> QED
        BY <2>2, <2>3 DEF Tools!Ask, Intent, Said, Relayed
<1> QED
    BY <1>1 DEF Tools!Next

\* A message is created, and the call goes on, is answered at once, or was over
\* for its caller.
LEMMA Executes ==
    ASSUME NEW c \in Calls, posted \in [Calls -> {0, 1}], posted[c] = 0, posted' = [posted EXCEPT ![c] = 1],
           Relayed' = Relayed,
           Intent(c) = "send", Said(c) \in {"none", "silent", "error"},
           Said(c)' = Said(c) \/ (Said(c) = "none" /\ Said(c)' = "sent"),
           \A d \in Calls : Intent(d)' = Intent(d),
           \A d \in Calls \ {c} : Said(d)' = Said(d)
    PROVE  Tools!Next
<1>0. UNCHANGED [d \in Calls |-> Intent(d)]
    OBVIOUS
<1>1. CASE Said(c)' = Said(c)
    <2>1. UNCHANGED [d \in Calls |-> Said(d)]
        BY <1>1
    <2>2. Tools!Execute(c)
        BY <1>0, <2>1 DEF Tools!Execute, Intent, Said, Relayed
    <2> QED
        BY <2>2 DEF Tools!Next
<1>2. CASE Said(c) = "none" /\ Said(c)' = "sent"
    <2>2. [d \in Calls |-> Said(d)]' = [[d \in Calls |-> Said(d)] EXCEPT ![c] = "sent"]
        BY <1>2
    <2>3. Tools!ExecuteAndAnswer(c)
        BY <1>0, <1>2, <2>2 DEF Tools!ExecuteAndAnswer, Tools!Open, Intent, Said, Relayed
    <2> QED
        BY <2>3 DEF Tools!Next
<1> QED
    BY <1>1, <1>2

\* One call is answered.
LEMMA AnswersOne ==
    ASSUME NEW c \in Calls, posted' = posted, Relayed' = Relayed, Intent(c) # "none", Said(c) = "none",
           Said(c)' \in {"read", "sent", "error"},
           Said(c)' = "sent" => posted[c] = 1, Said(c)' = "read" => Intent(c) = "read",
           \A d \in Calls : Intent(d)' = Intent(d),
           \A d \in Calls \ {c} : Said(d)' = Said(d)
    PROVE  Tools!Next
<1>0. UNCHANGED [d \in Calls |-> Intent(d)]
    OBVIOUS
<1>1. PICK a \in {"read", "sent", "error"} : a = Said(c)'
    OBVIOUS
<1>2. [d \in Calls |-> Said(d)]' = [[d \in Calls |-> Said(d)] EXCEPT ![c] = a]
    BY <1>1
<1>3. Tools!Answer(c)
    <2>1. (a = "sent" => posted[c] = 1) /\ (a = "read" => Intent(c) = "read")
        BY <1>1
    <2> QED
        BY <1>0, <1>2, <2>1 DEF Tools!Answer, Tools!Open, Intent, Said, Relayed
<1> QED
    BY <1>3 DEF Tools!Next

\* A gateway falls silent.
LEMMA HangsOne ==
    ASSUME NEW c \in Calls, posted' = posted, Relayed' = Relayed, c \in Relayed,
           Intent(c) # "none", Said(c) = "none", Said(c)' = "silent",
           \A d \in Calls : Intent(d)' = Intent(d),
           \A d \in Calls \ {c} : Said(d)' = Said(d)
    PROVE  Tools!Next
<1>0. UNCHANGED [d \in Calls |-> Intent(d)]
    OBVIOUS
<1>1. [d \in Calls |-> Said(d)]' = [[d \in Calls |-> Said(d)] EXCEPT ![c] = "silent"]
    OBVIOUS
<1>2. Tools!Hang(c)
    BY <1>0, <1>1 DEF Tools!Hang, Tools!Open, Intent, Said, Relayed
<1> QED
    BY <1>2 DEF Tools!Next

\* The calls of a process are answered together.
LEMMA AnswersAll ==
    ASSUME NEW C \in SUBSET Calls, C # {}, posted' = posted, Relayed' = Relayed,
           \A c \in C : Intent(c) # "none" /\ Said(c) \in {"none", "silent"} /\ Said(c)' = "error",
           \A d \in Calls : Intent(d)' = Intent(d),
           \A d \in Calls \ C : Said(d)' = Said(d)
    PROVE  Tools!Next
<1>0. UNCHANGED [d \in Calls |-> Intent(d)]
    OBVIOUS
<1>1. [d \in Calls |-> Said(d)]' = [d \in Calls |-> IF d \in C THEN "error" ELSE Said(d)]
    OBVIOUS
<1>2. Tools!AnswerAll(C)
    BY <1>0, <1>1 DEF Tools!AnswerAll, Tools!Open, Intent, Said, Relayed
<1> QED
    BY <1>2 DEF Tools!Next

\* Who carries out a call is settled when it is asked.
LEMMA RelayedKept ==
    ASSUME \A c \in Calls : call'[c].relayed = call[c].relayed
    PROVE  Relayed' = Relayed
BY DEF Relayed

\* Every move of the calls keeps what they posted in order, and is a step of
\* ToolCall or one it does not see.
LEMMA MovesImplement ==
    ASSUME NEW T, TypedOver(T), posted \in [Calls -> {0, 1}], \A c \in Calls : PostInv(c),
           call' \in [Calls -> CallsOver(T)],
           Kept \/ (\E c \in Calls : OneMoves(c)) \/ Stopped
    PROVE  /\ posted' \in [Calls -> {0, 1}] /\ \A c \in Calls : PostInv(c)'
           /\ [Tools!Next]_(Tools!vars)
<1>0. call \in [Calls -> CallsOver(T)] /\ \A c \in Calls : call[c] \in CallsOver(T)
    BY DEF TypedOver
<1>1. ASSUME NEW c \in Calls, call[c].pc \in Active
      PROVE  /\ call[c].answer = "none" /\ call[c].pc # "idle" /\ Intent(c) \in {"read", "send"} /\ Said(c) = "none"
             /\ Intent(c) = "send" <=> Sends(call[c].job)
    BY <1>1 DEF PostInv, Intent, Said, Active
<1>2. ASSUME NEW d \in Calls, call'[d] = call[d]
      PROVE  Intent(d)' = Intent(d) /\ Said(d)' = Said(d) /\ (posted'[d] = posted[d] => PostInv(d)')
    BY <1>2 DEF Intent, Said, PostInv
<1>3. CASE Kept
    <2>1. ASSUME NEW d \in Calls
          PROVE  Intent(d)' = Intent(d) /\ Said(d)' = Said(d) /\ PostInv(d)'
        <3>1. Keeps(d) /\ posted' = posted
            BY <1>3 DEF Kept
        <3> QED
            BY <3>1 DEF Keeps, Intent, Said, PostInv, Active
    <2>2. UNCHANGED Tools!vars
        BY <1>3, <2>1, Stutters, RelayedKept DEF Kept, Keeps
    <2> QED
        BY <1>3, <2>1, <2>2 DEF Kept
<1>4. ASSUME NEW c \in Calls, AskedFor(c)
      PROVE  /\ posted' \in [Calls -> {0, 1}] /\ \A d \in Calls : PostInv(d)'
             /\ Tools!Next
    <2>1. posted' = posted /\ \A d \in Calls \ {c} : Intent(d)' = Intent(d) /\ Said(d)' = Said(d) /\ PostInv(d)'
        BY <1>2, <1>4 DEF AskedFor
    <2>2. call[c].answer = "none" /\ posted[c] = 0 /\ Intent(c) = "none"
        BY <1>4 DEF AskedFor, PostInv, Intent
    <2>3. Intent(c)' \in {"read", "send"} /\ Said(c)' = Said(c)
        BY <1>4, <2>2 DEF AskedFor, Intent, Said
    <2>4. PostInv(c)'
        BY <1>4, <2>1, <2>2 DEF AskedFor, PostInv, Active
    <2>5. Relayed' \in {Relayed, Relayed \union {c}}
        <3>1. ~call[c].relayed /\ \A d \in Calls \ {c} : call'[d] = call[d]
            BY <1>4 DEF AskedFor, PostInv
        <3>2. CASE call'[c].relayed
            <4>1. Relayed' = Relayed \union {c}
                BY <3>1, <3>2 DEF Relayed
            <4> QED
                BY <4>1
        <3>3. CASE ~call'[c].relayed
            <4>1. Relayed' = Relayed
                BY <3>1, <3>3 DEF Relayed
            <4> QED
                BY <4>1
        <3> QED
            BY <3>2, <3>3
    <2> QED
        BY <2>1, <2>2, <2>3, <2>4, <2>5, Asks
<1>5. ASSUME NEW c \in Calls, call[c].pc \in Active, posted' \in {posted, Created(c)},
             \A d \in Calls \ {c} : call'[d] = call[d]
      PROVE  /\ posted' \in [Calls -> {0, 1}] /\ (\A d \in Calls \ {c} : PostInv(d)')
             /\ \A d \in Calls \ {c} : Intent(d)' = Intent(d) /\ Said(d)' = Said(d)
             /\ posted' = posted \/ (posted' = [posted EXCEPT ![c] = 1] /\ posted[c] = 0)
             /\ Created(c) = posted <=> Head(call[c].todo) # "post"
             /\ Head(call[c].todo) = "post" => Sends(call[c].job) /\ posted[c] = 0 /\ Created(c)[c] = 1
    <2>1. call[c].todo \in Seq(Reqs) /\ call[c].todo # <<>> /\ OnePost(call[c].todo)
        BY <1>0, <1>5 DEF PostInv, CallsOver, Reqs
    <2>2. Head(call[c].todo) = "post" => Posts(call[c].todo)
        BY <2>1, TailPosts
    <2>3. Head(call[c].todo) = "post" => Sends(call[c].job) /\ posted[c] = 0
        BY <1>5, <2>2 DEF PostInv
    <2>4. Head(call[c].todo) = "post" => Created(c) = [posted EXCEPT ![c] = 1]
        <3> SUFFICES ASSUME Head(call[c].todo) = "post" PROVE Created(c) = [posted EXCEPT ![c] = 1]
            OBVIOUS
        <3>1. Created(c) = [posted EXCEPT ![c] = posted[c] + 1]
            BY DEF Created
        <3>2. posted[c] + 1 = 1
            BY <2>3
        <3> QED
            BY <3>1, <3>2
    <2>5. Head(call[c].todo) # "post" => Created(c) = posted
        BY DEF Created
    <2>6. \A d \in Calls \ {c} : posted'[d] = posted[d]
        BY <1>5, <2>4, <2>5
    <2>7. posted' \in [Calls -> {0, 1}]
        BY <1>5, <2>4, <2>5
    <2>8. Head(call[c].todo) = "post" => Created(c)[c] = 1 /\ Created(c) # posted
        BY <2>3, <2>4
    <2>9. posted' = posted \/ (posted' = [posted EXCEPT ![c] = 1] /\ posted[c] = 0)
        BY <1>5, <2>3, <2>4, <2>5
    <2> QED
        BY <1>2, <1>5, <2>3, <2>5, <2>6, <2>7, <2>8, <2>9
<1>6. ASSUME NEW c \in Calls, Served(c)
      PROVE  /\ posted' \in [Calls -> {0, 1}] /\ \A d \in Calls : PostInv(d)'
             /\ [Tools!Next]_(Tools!vars)
    <2> DEFINE todo == call[c].todo
               k == Proceed(c, Tail(todo))
    <2>0. call[c].pc \in Active /\ posted' = Created(c) /\ call' = [call EXCEPT ![c] = k]
        BY <1>6 DEF Served
    <2>1. todo \in Seq(Reqs) /\ todo # <<>> /\ OnePost(todo) /\ (Posts(todo) <=> (Sends(call[c].job) /\ posted[c] = 0))
        BY <1>0, <2>0 DEF PostInv, CallsOver, Reqs
    <2>2. /\ Tail(todo) \in Seq(Reqs) /\ OnePost(Tail(todo))
          /\ Posts(todo) <=> (Head(todo) = "post" \/ Posts(Tail(todo)))
          /\ Head(todo) = "post" => ~Posts(Tail(todo))
        BY <2>1, TailPosts
    <2>3. /\ k.job = call[c].job /\ k.relayed = call[c].relayed /\ (k.late => call[c].late)
          /\ Tail(todo) # <<>> => /\ k.pc = "sign" /\ k.todo = Tail(todo) /\ k.answer = call[c].answer
          /\ Tail(todo) = <<>> => /\ k.pc = "done" /\ k.answer = Outcome(call[c].job)
                                  /\ k.answer \in {"read", "sent", "error"}
        <3>1. PICK t \in Seq(Reqs) : t = Tail(todo)
            BY <2>2
        <3>2. PICK r : r = Proceed(c, t)
            OBVIOUS
        <3>3. /\ r.job = call[c].job /\ r.relayed = call[c].relayed /\ (r.late => call[c].late)
              /\ t # <<>> => /\ r.pc = "sign" /\ r.todo = t /\ r.answer = call[c].answer
              /\ t = <<>> => /\ r.pc = "done" /\ r.answer = Outcome(call[c].job)
                              /\ r.answer \in {"read", "sent", "error"}
            <4>1. /\ Proceed(c, t).job = call[c].job /\ Proceed(c, t).relayed = call[c].relayed
                  /\ Proceed(c, t).late => call[c].late
                  /\ t # <<>> => /\ Proceed(c, t).pc = "sign" /\ Proceed(c, t).todo = t
                                 /\ Proceed(c, t).answer = call[c].answer
                  /\ t = <<>> => /\ Proceed(c, t).pc = "done"
                                 /\ Proceed(c, t).answer = Outcome(call[c].job)
                                 /\ Proceed(c, t).answer \in {"read", "sent", "error"}
                BY ProceedFacts, Zenon
            <4> QED
                BY <3>2, <4>1, Zenon
        <3>4. k = r
            BY <3>1, <3>2
        <3> HIDE DEF k, todo
        <3> QED
            BY <3>1, <3>3, <3>4
    <2>4. call'[c] = k /\ \A d \in Calls \ {c} : call'[d] = call[d]
        BY <1>0, <2>0
    <2> HIDE DEF k
    <2>5. /\ posted' \in [Calls -> {0, 1}] /\ (\A d \in Calls \ {c} : PostInv(d)')
          /\ \A d \in Calls \ {c} : Intent(d)' = Intent(d) /\ Said(d)' = Said(d)
          /\ posted' = posted \/ (posted' = [posted EXCEPT ![c] = 1] /\ posted[c] = 0)
          /\ Created(c) = posted <=> Head(todo) # "post"
          /\ Head(todo) = "post" => Sends(call[c].job) /\ posted[c] = 0 /\ Created(c)[c] = 1
        BY <1>5, <2>0, <2>4
    <2>6. posted[c] \in {0, 1} /\ posted'[c] \in {0, 1}
          /\ (Head(todo) # "post" => posted'[c] = posted[c]) /\ (Head(todo) = "post" => posted'[c] = 1)
        BY <2>0, <2>5
    <2>7. Intent(c)' = Intent(c) /\ Intent(c) # "none" /\ Said(c) = "none" /\ (Intent(c) = "send" <=> Sends(call[c].job))
        BY <1>1, <2>0, <2>3, <2>4 DEF Intent
    <2>8. (posted'[c] = 1 => Sends(call[c].job)) /\ ~call'[c].late
        <3>1. ~call[c].late
            BY <2>0 DEF PostInv, Active
        <3> QED
            BY <2>3, <2>4, <2>5, <2>6, <3>1 DEF PostInv
    <2>11. Relayed' = Relayed
        BY <2>3, <2>4, RelayedKept
    <2>9. CASE Tail(todo) = <<>>
        <3>1. ~Posts(Tail(todo))
            BY <2>9 DEF Posts
        <3>2. Sends(call[c].job) => posted'[c] = 1
            BY <2>1, <2>2, <2>6, <3>1
        <3>3. Outcome(call[c].job) = "sent" => Sends(call[c].job)
            BY DEF Outcome
        <3>4. Outcome(call[c].job) = "read" => ~Sends(call[c].job)
            BY DEF Outcome, Sends
        <3>5. Head(todo) = "post" => Outcome(call[c].job) = "sent"
            <4>1. ASSUME Sends(call[c].job)
                  PROVE  Outcome(call[c].job) = "sent"
                BY <4>1 DEF Outcome, Sends
            <4> QED
                BY <2>5, <4>1
        <3>6. Said(c)' = Outcome(call[c].job) /\ Said(c)' \in {"read", "sent", "error"}
            BY <2>3, <2>4, <2>9 DEF Said
        <3>7. PostInv(c)'
            BY <2>3, <2>4, <2>6, <2>8, <2>9 DEF PostInv, Active
        <3>8. CASE Head(todo) = "post"
            <4>1. Tools!Next
                BY <2>5, <2>6, <2>7, <2>11, <3>5, <3>6, <3>8, Executes, <2>0
            <4> QED
                BY <2>5, <3>7, <4>1
        <3>9. CASE Head(todo) # "post"
            <4>0. posted' = posted
                BY <2>0, <2>5, <3>9
            <4>1. Said(c)' = "sent" => posted[c] = 1
                BY <2>6, <3>2, <3>3, <3>6, <3>9
            <4>2. Said(c)' = "read" => Intent(c) = "read"
                BY <1>1, <2>0, <2>7, <3>4, <3>6
            <4>3. Tools!Next
                BY <2>5, <2>7, <2>11, <3>6, <4>0, <4>1, <4>2, AnswersOne
            <4> QED
                BY <2>5, <3>7, <4>3
        <3> QED
            BY <3>8, <3>9
    <2>10. CASE Tail(todo) # <<>>
        <3>1. Said(c)' = "none"
            BY <1>1, <2>0, <2>3, <2>4, <2>10 DEF Said
        <3>2. PostInv(c)'
            <4>1. Posts(Tail(todo)) <=> (Sends(call[c].job) /\ posted'[c] = 0)
                BY <2>1, <2>2, <2>6
            <4>2. /\ call'[c].pc = "sign" /\ call'[c].todo = Tail(todo) /\ call'[c].answer = "none"
                  /\ call'[c].job = call[c].job
                BY <1>1, <2>0, <2>3, <2>4, <2>10
            <4> QED
                BY <2>2, <2>6, <2>8, <2>10, <4>1, <4>2 DEF PostInv, Active
        <3>3. CASE Head(todo) = "post"
            <4>1. Tools!Next
                BY <2>0, <2>5, <2>6, <2>7, <2>11, <3>1, <3>3, Executes
            <4> QED
                BY <2>5, <3>2, <4>1
        <3>4. CASE Head(todo) # "post"
            <4>1. UNCHANGED Tools!vars
                BY <2>0, <2>5, <2>7, <2>11, <3>1, <3>4, Stutters
            <4> QED
                BY <2>5, <3>2, <4>1
        <3> QED
            BY <3>3, <3>4
    <2> QED
        BY <2>9, <2>10
<1>9. ASSUME NEW c \in Calls, InFlight(c)
      PROVE  Sends(call[c].job) /\ posted[c] = 0
    <2>1. CASE call[c].pc = "hung" /\ call[c].late
        BY <2>1 DEF PostInv
    <2>2. CASE call[c].pc \in Active /\ Head(call[c].todo) = "post"
        <3>1. call[c].todo \in Seq(Reqs) /\ call[c].todo # <<>> /\ OnePost(call[c].todo)
            BY <1>0, <2>2 DEF PostInv, CallsOver, Reqs
        <3>2. Posts(call[c].todo)
            BY <2>2, <3>1, TailPosts
        <3> QED
            BY <2>2, <3>2 DEF PostInv
    <2> QED
        BY <1>9, <2>1, <2>2 DEF InFlight, Active
<1>10. ASSUME NEW c \in Calls, Failed(c, call'[c]), posted' = posted, call[c].pc \notin {"idle", "done"}
       PROVE  /\ PostInv(c)' /\ Intent(c)' = Intent(c) /\ Intent(c) # "none"
              /\ Said(c)' = "error" /\ Said(c) \in {"none", "silent"} /\ (call[c].pc # "hung" => Said(c) = "none")
              /\ call'[c].relayed = call[c].relayed
    <2>1. /\ call'[c].pc = "done" /\ call'[c].answer \in {"error", "unauthorized"} /\ call'[c].job = call[c].job
          /\ call'[c].relayed = call[c].relayed
          /\ call'[c].late => Sends(call[c].job) /\ posted[c] = 0 /\ call'[c].answer = "error"
        BY <1>9, <1>10 DEF Failed
    <2>2. PostInv(c)'
        BY <1>10, <2>1 DEF PostInv, Active
    <2>3. Said(c)' = "error" /\ Intent(c)' = Intent(c) /\ Intent(c) # "none"
        BY <1>10, <2>1 DEF Said, Intent
    <2>4. Said(c) \in {"none", "silent"} /\ (call[c].pc # "hung" => Said(c) = "none")
        <3>1. call[c].pc \in Active \/ call[c].pc = "hung"
            BY <1>0, <1>10 DEF CallsOver
        <3> QED
            BY <1>1, <3>1 DEF Said, PostInv
    <2> QED
        BY <2>1, <2>2, <2>3, <2>4
<1>7. ASSUME NEW c \in Calls, Ended(c)
      PROVE  /\ posted' \in [Calls -> {0, 1}] /\ \A d \in Calls : PostInv(d)'
             /\ Tools!Next
    <2>1. /\ call[c].pc \in Active /\ posted' = posted /\ Failed(c, call'[c])
          /\ \A d \in Calls \ {c} : call'[d] = call[d]
        BY <1>7 DEF Ended
    <2>2. call[c].pc \notin {"idle", "done", "hung"}
        BY <2>1 DEF Active
    <2>3. /\ PostInv(c)' /\ Intent(c)' = Intent(c) /\ Intent(c) # "none"
          /\ Said(c)' = "error" /\ Said(c) = "none" /\ call'[c].relayed = call[c].relayed
        BY <1>10, <2>1, <2>2
    <2>4. \A d \in Calls \ {c} : PostInv(d)' /\ Intent(d)' = Intent(d) /\ Said(d)' = Said(d)
        BY <1>2, <2>1
    <2>5. Relayed' = Relayed
        BY <2>1, <2>3, RelayedKept
    <2> QED
        BY <2>1, <2>3, <2>4, <2>5, AnswersOne
<1>11. ASSUME NEW c \in Calls, Silenced(c)
       PROVE  /\ posted' \in [Calls -> {0, 1}] /\ \A d \in Calls : PostInv(d)'
              /\ Tools!Next
    <2>1. /\ call[c].pc \in Active /\ call[c].relayed /\ posted' = posted
          /\ call'[c].pc = "hung" /\ call'[c].answer = call[c].answer /\ call'[c].job = call[c].job
          /\ call'[c].relayed = call[c].relayed /\ \A d \in Calls \ {c} : call'[d] = call[d]
        BY <1>11 DEF Silenced
    <2>2. call'[c].late => Sends(call[c].job) /\ posted[c] = 0
        BY <1>9, <1>11 DEF Silenced
    <2>3. \A d \in Calls \ {c} : PostInv(d)' /\ Intent(d)' = Intent(d) /\ Said(d)' = Said(d)
        BY <1>2, <2>1
    <2>4. Intent(c)' = Intent(c) /\ Intent(c) # "none" /\ Said(c) = "none" /\ Said(c)' = "silent"
        BY <1>1, <2>1 DEF Intent, Said, Active
    <2>5. PostInv(c)'
        BY <2>1, <2>2 DEF PostInv, Active
    <2>6. Relayed' = Relayed /\ c \in Relayed
        BY <2>1, RelayedKept DEF Relayed
    <2> QED
        BY <2>1, <2>3, <2>4, <2>5, <2>6, HangsOne
<1>12. ASSUME NEW c \in Calls, Landed(c)
       PROVE  /\ posted' \in [Calls -> {0, 1}] /\ \A d \in Calls : PostInv(d)'
              /\ Tools!Next
    <2>1. /\ call[c].late /\ call'[c].pc = call[c].pc /\ call'[c].answer = call[c].answer
          /\ call'[c].job = call[c].job /\ call'[c].relayed = call[c].relayed /\ call'[c].late = FALSE
          /\ \A d \in Calls \ {c} : call'[d] = call[d]
        BY <1>12 DEF Landed
    <2>2. /\ call[c].pc = "hung" \/ (call[c].pc = "done" /\ call[c].answer = "error")
          /\ Sends(call[c].job) /\ posted[c] = 0
        BY <2>1 DEF PostInv
    <2>3. posted' = [posted EXCEPT ![c] = 1] /\ posted' \in [Calls -> {0, 1}]
        <3>1. posted' = [posted EXCEPT ![c] = posted[c] + 1]
            BY <1>12 DEF Landed
        <3>2. posted[c] + 1 = 1
            BY <2>2
        <3> QED
            BY <3>1, <3>2
    <2>4. posted'[c] = 1 /\ \A d \in Calls \ {c} : posted'[d] = posted[d]
        BY <2>3
    <2>5. \A d \in Calls \ {c} : PostInv(d)' /\ Intent(d)' = Intent(d) /\ Said(d)' = Said(d)
        BY <1>2, <2>1, <2>4
    <2>6. PostInv(c)'
        BY <2>1, <2>2, <2>4 DEF PostInv, Active
    <2>7. Intent(c)' = Intent(c) /\ Intent(c) = "send" /\ Said(c)' = Said(c) /\ Said(c) \in {"silent", "error"}
        BY <2>1, <2>2 DEF Intent, Said
    <2>8. Relayed' = Relayed
        BY <2>1, RelayedKept
    <2> QED
        BY <2>2, <2>3, <2>5, <2>6, <2>7, <2>8, Executes
<1>8. CASE Stopped
    <2>1. PICK p \in Procs :
            /\ posted' = posted
            /\ \A c \in Calls : IF call[c].proc = p /\ call[c].pc \notin {"idle", "done"}
                                  THEN Failed(c, call'[c]) ELSE call'[c] = call[c]
        BY <1>8 DEF Stopped
    <2>2. PICK C \in SUBSET Calls :
              \A c \in Calls : c \in C <=> (call[c].proc = p /\ call[c].pc \notin {"idle", "done"})
        <3>1. {c \in Calls : call[c].proc = p /\ call[c].pc \notin {"idle", "done"}} \in SUBSET Calls
            OBVIOUS
        <3> QED
            BY <3>1
    <2>4. ASSUME NEW c \in C
          PROVE  /\ Intent(c)' = Intent(c) /\ Intent(c) # "none" /\ Said(c) \in {"none", "silent"}
                 /\ Said(c)' = "error" /\ PostInv(c)' /\ call'[c].relayed = call[c].relayed
        BY <1>10, <2>1, <2>2
    <2>5. ASSUME NEW c \in Calls \ C
          PROVE  Intent(c)' = Intent(c) /\ Said(c)' = Said(c) /\ PostInv(c)' /\ call'[c].relayed = call[c].relayed
        <3>1. call'[c] = call[c]
            BY <2>1, <2>2
        <3> QED
            BY <1>2, <2>1, <3>1
    <2>3. Relayed' = Relayed
        BY <2>4, <2>5, RelayedKept
    <2>6. CASE C = {}
        <3>1. UNCHANGED Tools!vars
            BY <2>1, <2>3, <2>5, <2>6, Stutters
        <3> QED
            BY <2>1, <2>5, <2>6, <3>1
    <2>7. CASE C # {}
        <3>1. Tools!Next
            BY <2>1, <2>3, <2>4, <2>5, <2>7, AnswersAll
        <3> QED
            BY <2>1, <2>4, <2>5, <3>1
    <2> QED
        BY <2>6, <2>7
<1> QED
    BY <1>3, <1>4, <1>6, <1>7, <1>8, <1>11, <1>12 DEF OneMoves

-----------------------------------------------------------------------------
(* Refused tokens. *)

\* A call that has had its new token, and was not disturbed since, still has it
\* and signs for it; so only a disturbed call is refused again.
TokenInv(c) ==
    /\ Attached(c)
    /\ call[c].pc = "refresh" => ~call[c].retried
    /\ call[c].retried /\ ~call[c].disturbed /\ call[c].pc \in Active =>
          /\ proc[call[c].proc].token \in live
          /\ call[c].pc = "fetch" => call[c].proof = proc[call[c].proc].token
    /\ call[c].answer = "unauthorized" => call[c].disturbed

\* A call that a step leaves alone, but for the flag, keeps this when its process
\* keeps its token and the token stays alive or the call is disturbed.
LEMMA TokenKept ==
    ASSUME NEW T, TypedOver(T), NEW d \in Calls, TokenInv(d),
           call'[d].pc = call[d].pc, call'[d].proc = call[d].proc, call'[d].proof = call[d].proof,
           call'[d].retried = call[d].retried, call'[d].answer = call[d].answer,
           call[d].disturbed => call'[d].disturbed,
           call[d].pc \in Active =>
               proc'[call[d].proc].pc \in Busy /\ proc'[call[d].proc].token = proc[call[d].proc].token,
           call[d].pc \in Active /\ call[d].retried =>
               call'[d].disturbed \/ proc[call[d].proc].token \notin live \/ proc[call[d].proc].token \in live'
    PROVE  TokenInv(d)'
BY DEF TokenInv, Attached

\* Every step keeps the types of the processes and what calls know of tokens.
LEMMA TokenMoves ==
    ASSUME NEW T, TypedOver(T), \A c \in Calls : TokenInv(c), \A c \in Calls : PostInv(c), Next
    PROVE  (\E U : T \subseteq U /\ proc' \in [Procs -> ProcsOver(U)]) /\ \A c \in Calls : TokenInv(c)'
<1>0. /\ call \in [Calls -> CallsOver(T)] /\ proc \in [Procs -> ProcsOver(T)] /\ NoToken \in T /\ 0 \in T
      /\ (\A c \in Calls : call[c] \in CallsOver(T)) /\ NoCall \in CallsOver(T)
      /\ \A p \in Procs : proc[p] \in ProcsOver(T)
    BY Values DEF TypedOver
<1>1. ASSUME NEW c \in Calls, call[c].pc \in Active
      PROVE  /\ call[c].proc \in Procs /\ proc[call[c].proc].pc \in Busy
             /\ call[c].todo \in Seq(Reqs) /\ Tail(call[c].todo) \in Seq(Reqs)
    <2>1. call[c].todo \in Seq(Reqs) /\ call[c].todo # <<>>
        BY <1>0, <1>1 DEF CallsOver, Reqs, PostInv
    <2> QED
        BY <1>1, <2>1 DEF TokenInv, Attached
<1>2. ASSUME proc' = proc
      PROVE  \E U : T \subseteq U /\ proc' \in [Procs -> ProcsOver(U)]
    BY <1>0, <1>2
<1>3. ASSUME NEW d \in Calls, call'[d] = call[d], UNCHANGED <<proc, live>>
      PROVE  TokenInv(d)'
    BY <1>3 DEF TokenInv, Attached
<1>4. ASSUME NEW p \in Procs, ProcStep(p)
      PROVE  (\E U : T \subseteq U /\ proc' \in [Procs -> ProcsOver(U)]) /\ \A c \in Calls : TokenInv(c)'
    <2>1. PICK U : U = T \union {Fresh, Token(p), file[proc[p].cred]} \union {file[i] : i \in Ids}
        OBVIOUS
    <2>2. /\ UNCHANGED <<call, posted>> /\ live \subseteq live' /\ (\E q \in ProcsOver(U) : Set(p, q))
          /\ proc[p].pc \notin {"serving", "gateway"} /\ (~ScriptEnds(p) => proc[p].pc # "running")
        BY <1>4, <2>1, ProcStepFacts
    <2>3. PICK q \in ProcsOver(U) : proc' = [proc EXCEPT ![p] = q]
        BY <2>2 DEF Set
    <2>4. T \subseteq U /\ proc' \in [Procs -> ProcsOver(U)] /\ \A r \in Procs \ {p} : proc'[r] = proc[r]
        BY <1>0, <2>1, <2>3, Wider
    <2>5. ASSUME NEW d \in Calls, call[d].pc \in Active
          PROVE  call[d].proc # p
        <3>1. call[d].pc # "done"
            BY <2>5 DEF Active
        <3>2. call[d].proc = p => proc[p].pc = "running" /\ ~ScriptEnds(p)
            BY <1>1, <2>2, <2>5, <3>1 DEF Busy, ScriptEnds
        <3> QED
            BY <2>2, <3>2
    <2>6. ASSUME NEW d \in Calls
          PROVE  TokenInv(d)'
        <3>1. call[d].pc \in Active => proc'[call[d].proc] = proc[call[d].proc]
            BY <1>1, <2>4, <2>5
        <3> QED
            BY <2>2, <3>1, <1>1, TokenKept
    <2> QED
        BY <2>4, <2>6
<1>5. ASSUME NEW S, call' = Disturbed(S, call), proc' = proc,
             \A d \in Calls : call[d].retried /\ call[d].pc \in Active =>
                 d \in S \/ proc[call[d].proc].token \notin live \/ proc[call[d].proc].token \in live'
      PROVE  (\E U : T \subseteq U /\ proc' \in [Procs -> ProcsOver(U)]) /\ \A c \in Calls : TokenInv(c)'
    <2>1. ASSUME NEW d \in Calls
          PROVE  TokenInv(d)'
        <3>1. /\ call'[d].pc = call[d].pc /\ call'[d].proc = call[d].proc /\ call'[d].proof = call[d].proof
              /\ call'[d].retried = call[d].retried /\ call'[d].answer = call[d].answer
              /\ call'[d].disturbed = (d \in S \/ call[d].disturbed)
            BY <1>0, <1>5, DisturbedFacts
        <3> QED
            BY <1>1, <1>5, <3>1, TokenKept
    <2> QED
        BY <1>2, <1>5, <2>1
<1>6. CASE Page
    <2>1. PICK S : S = {c \in Calls : /\ call[c].retried /\ call[c].pc # "done"
                                     /\ proc[call[c].proc].token \in live \ live'}
        OBVIOUS
    <2>2. call' = Disturbed(S, call) /\ proc' = proc
        BY <1>6, <2>1 DEF Page
    <2>3. \A d \in Calls : call[d].retried /\ call[d].pc \in Active =>
                 d \in S \/ proc[call[d].proc].token \notin live \/ proc[call[d].proc].token \in live'
        BY <2>1 DEF Active
    <2> QED
        BY <1>5, <2>2, <2>3
<1>7. ASSUME NEW t \in live, TokenExpires(t)
      PROVE  (\E U : T \subseteq U /\ proc' \in [Procs -> ProcsOver(U)]) /\ \A c \in Calls : TokenInv(c)'
    <2>1. PICK S : S = {c \in Calls : call[c].retried /\ call[c].pc # "done"}
        OBVIOUS
    <2>2. call' = Disturbed(S, call) /\ proc' = proc
        BY <1>7, <2>1 DEF TokenExpires
    <2>3. \A d \in Calls : call[d].retried /\ call[d].pc \in Active => d \in S
        BY <2>1 DEF Active
    <2> QED
        BY <1>5, <2>2, <2>3
<1>8. ASSUME NEW c \in Calls, NEW k, call' = [call EXCEPT ![c] = k], UNCHANGED <<proc, live>>,
             TokenInv(c)'
      PROVE  (\E U : T \subseteq U /\ proc' \in [Procs -> ProcsOver(U)]) /\ \A d \in Calls : TokenInv(d)'
    <2>1. \A d \in Calls \ {c} : call'[d] = call[d]
        BY <1>0, <1>8
    <2> QED
        BY <1>2, <1>3, <1>8, <2>1
<1>9. ASSUME NEW c \in Calls, NEW a \in {"error", "unauthorized"},
             call' = [call EXCEPT ![c] = Reply(c, a)], a = "unauthorized" => call[c].disturbed
      PROVE  TokenInv(c)'
    <2>1. /\ Reply(c, a).pc = "done" /\ Reply(c, a).answer = a
          /\ Reply(c, a).disturbed = (call[c].disturbed /\ a = "unauthorized")
        BY ReplyFacts DEF Answers
    <2>2. call'[c].pc = "done" /\ call'[c].answer = a /\ call'[c].disturbed = (call[c].disturbed /\ a = "unauthorized")
        BY <1>0, <1>9, <2>1
    <2> QED
        BY <1>9, <2>2 DEF TokenInv, Attached, Active
<1>22. ASSUME NEW c \in Calls, NEW k \in CallsOver(T), call' = [call EXCEPT ![c] = k], k.pc \notin Active,
              k.answer = "unauthorized" => k.disturbed
       PROVE  TokenInv(c)'
    <2>1. call'[c] = k
        BY <1>0, <1>22
    <2> QED
        BY <1>22, <2>1 DEF TokenInv, Attached, Active
<1>10. ASSUME NEW c \in Calls, call[c].pc \in Active, UNCHANGED proc,
              call' = [call EXCEPT ![c] = Proceed(c, Tail(call[c].todo))]
       PROVE  TokenInv(c)'
    <2> DEFINE k == Proceed(c, Tail(call[c].todo))
               todo == Tail(call[c].todo)
    <2>1. /\ k.retried = FALSE
          /\ todo # <<>> => /\ k.pc = "sign" /\ k.answer = call[c].answer /\ k.proc = call[c].proc
          /\ todo = <<>> => k.pc = "done" /\ k.answer \in {"read", "sent", "error"}
        BY <1>1, <1>10, ProceedFacts
    <2>2. call'[c] = k
        BY <1>0, <1>10
    <2>3. call[c].answer = "none"
        BY <1>10 DEF PostInv
    <2> HIDE DEF k, todo
    <2>4. CASE todo = <<>>
        BY <2>1, <2>2, <2>4 DEF TokenInv, Attached, Active
    <2>5. CASE todo # <<>>
        BY <1>1, <1>10, <2>1, <2>2, <2>3, <2>5 DEF TokenInv, Attached, Active
    <2> QED
        BY <2>4, <2>5
<1>11. ASSUME NEW p \in Procs, NEW c \in Calls, NEW job \in Jobs, Ask(p, c, job)
       PROVE  (\E U : T \subseteq U /\ proc' \in [Procs -> ProcsOver(U)]) /\ \A d \in Calls : TokenInv(d)'
    <2>0. PICK b : b = (proc[p].pc = "gateway")
        OBVIOUS
    <2>1. PICK k : k = [NoCall EXCEPT !.pc = "sign", !.proc = p, !.job = job, !.relayed = b, !.todo = Requests(p, job)]
        OBVIOUS
    <2>2. k.pc = "sign" /\ k.proc = p /\ k.retried = NoCall.retried /\ k.answer = NoCall.answer
        BY <1>0, <2>1 DEF CallsOver
    <2>3. NoCall.retried = FALSE /\ NoCall.answer = "none"
        BY DEF NoCall
    <2>4. call' = [call EXCEPT ![c] = k] /\ UNCHANGED <<proc, live>> /\ proc[p].pc \in Busy
        BY <1>11, <2>0, <2>1 DEF Ask, Quiet, console, Busy
    <2>5. call'[c] = k
        BY <1>0, <2>4
    <2>6. TokenInv(c)'
        BY <2>2, <2>3, <2>4, <2>5 DEF TokenInv, Attached
    <2> QED
        BY <1>8, <2>4, <2>6
<1>12. ASSUME NEW p \in Procs, NEW c \in Calls, RunScript(p, c)
       PROVE  (\E U : T \subseteq U /\ proc' \in [Procs -> ProcsOver(U)]) /\ \A d \in Calls : TokenInv(d)'
    <2>0. PICK todo :
              call' = [call EXCEPT ![c] = [NoCall EXCEPT !.pc = "sign", !.proc = p, !.todo = todo,
                                             !.job = [tool |-> "script", mode |-> "send", confirmed |-> TRUE]]]
        BY <1>12 DEF RunScript
    <2>1. PICK k : k = [NoCall EXCEPT !.pc = "sign", !.proc = p, !.todo = todo,
                                      !.job = [tool |-> "script", mode |-> "send", confirmed |-> TRUE]]
        OBVIOUS
    <2>2. k.pc = "sign" /\ k.proc = p /\ k.retried = NoCall.retried /\ k.answer = NoCall.answer
        BY <1>0, <2>1 DEF CallsOver
    <2>3. NoCall.retried = FALSE /\ NoCall.answer = "none"
        BY DEF NoCall
    <2>4. call' = [call EXCEPT ![c] = k] /\ UNCHANGED live /\ proc[p].pc = "script"
        BY <1>12, <2>0, <2>1 DEF RunScript, Quiet, console
    <2>5. call'[c] = k /\ \A d \in Calls \ {c} : call'[d] = call[d]
        BY <1>0, <2>4
    <2>6. PICK q : q = [proc[p] EXCEPT !.pc = "running"]
        OBVIOUS
    <2>7. q \in ProcsOver(T) /\ q.pc = "running"
        BY <1>0, <2>6 DEF ProcsOver, Busy
    <2>8. proc' = [proc EXCEPT ![p] = q]
        BY <1>12, <2>6 DEF RunScript, Set
    <2>9. proc' \in [Procs -> ProcsOver(T)] /\ proc'[p].pc = "running" /\ \A r \in Procs \ {p} : proc'[r] = proc[r]
        BY <1>0, <2>7, <2>8
    <2>10. TokenInv(c)'
        BY <2>2, <2>3, <2>5, <2>9 DEF TokenInv, Attached, Busy
    <2>11. ASSUME NEW d \in Calls \ {c}
           PROVE  TokenInv(d)'
        <3>1. call[d].pc \in Active => call[d].proc # p /\ proc'[call[d].proc] = proc[call[d].proc]
            BY <1>1, <2>4, <2>9 DEF Busy
        <3> QED
            BY <1>1, <2>4, <2>5, <3>1, TokenKept
    <2> QED
        BY <2>9, <2>10, <2>11
<1>13. ASSUME NEW c \in Calls, Sign(c)
       PROVE  (\E U : T \subseteq U /\ proc' \in [Procs -> ProcsOver(U)]) /\ \A d \in Calls : TokenInv(d)'
    <2>1. PICK k : k = [call[c] EXCEPT !.pc = "fetch", !.proof = proc[call[c].proc].token]
        OBVIOUS
    <2>2. /\ k.pc = "fetch" /\ k.proof = proc[call[c].proc].token /\ k.proc = call[c].proc
          /\ k.retried = call[c].retried /\ k.disturbed = call[c].disturbed /\ k.answer = call[c].answer
        BY <1>0, <2>1 DEF CallsOver
    <2>3. call' = [call EXCEPT ![c] = k] /\ UNCHANGED <<proc, live>> /\ call[c].pc = "sign"
        BY <1>13, <2>1 DEF Sign, Quiet, console
    <2>4. call'[c] = k
        BY <1>0, <2>3
    <2>5. TokenInv(c) /\ TokenInv(c)'
        BY <1>1, <2>2, <2>3, <2>4 DEF TokenInv, Attached, Active
    <2> QED
        BY <1>8, <2>3, <2>5
<1>14. ASSUME NEW c \in Calls, Fetch(c)
       PROVE  (\E U : T \subseteq U /\ proc' \in [Procs -> ProcsOver(U)]) /\ \A d \in Calls : TokenInv(d)'
    <2>0. call[c].pc = "fetch" /\ call[c].pc \in Active /\ UNCHANGED <<proc, live>> /\ TokenInv(c)
        BY <1>14 DEF Fetch, Active, Quiet, console
    <2>1. CASE call' = [call EXCEPT ![c] = Proceed(c, Tail(call[c].todo))]
        BY <1>8, <1>10, <2>0, <2>1
    <2>2. CASE call' = [call EXCEPT ![c] = Reply(c, "error")]
        BY <1>8, <1>9, <2>0, <2>2
    <2>3. CASE ~Accepted(c) /\ call[c].retried /\ call' = [call EXCEPT ![c] = Reply(c, "unauthorized")]
        <3>1. call[c].disturbed
            BY <1>0, <2>0, <2>3 DEF TokenInv, Accepted, CallsOver
        <3> QED
            BY <1>8, <1>9, <2>0, <2>3, <3>1
    <2>4. CASE ~call[c].retried /\ call' = [call EXCEPT ![c].pc = "refresh"]
        <3>1. PICK k : k = [call[c] EXCEPT !.pc = "refresh"]
            OBVIOUS
        <3>2. /\ k.pc = "refresh" /\ k.proc = call[c].proc /\ k.retried = call[c].retried
              /\ k.disturbed = call[c].disturbed /\ k.answer = call[c].answer
            BY <1>0, <3>1 DEF CallsOver
        <3>3. call' = [call EXCEPT ![c] = k] /\ call'[c] = k
            BY <1>0, <2>4, <3>1
        <3>4. TokenInv(c)'
            BY <2>0, <2>4, <3>2, <3>3 DEF TokenInv, Attached, Active
        <3> QED
            BY <1>8, <2>0, <3>3, <3>4
    <2> QED
        BY <1>14, <2>1, <2>2, <2>3, <2>4 DEF Fetch
<1>15. ASSUME NEW c \in Calls, Refresh(c)
       PROVE  (\E U : T \subseteq U /\ proc' \in [Procs -> ProcsOver(U)]) /\ \A d \in Calls : TokenInv(d)'
    <2>0. call[c].pc = "refresh" /\ call[c].pc \in Active /\ TokenInv(c)
        BY <1>15 DEF Refresh, Active
    <2>1. CASE call' = [call EXCEPT ![c] = [Reply(c, "unauthorized") EXCEPT !.disturbed = TRUE]] /\ UNCHANGED <<live, proc>>
        <3>1. PICK k : k = [Reply(c, "unauthorized") EXCEPT !.disturbed = TRUE]
            OBVIOUS
        <3>2. k \in CallsOver(T) /\ k.pc \notin Active /\ k.disturbed
            BY <3>1, RefusedFacts DEF Active
        <3>3. TokenInv(c)'
            BY <1>22, <2>1, <3>1, <3>2
        <3> QED
            BY <1>8, <2>1, <3>3
    <2>2. CASE /\ live' = live \union {Token(call[c].proc)}
               /\ Set(call[c].proc, [proc[call[c].proc] EXCEPT !.token = Token(call[c].proc)])
               /\ call' = Disturbed(Sharing(call[c].proc) \ {c},
                                    [call EXCEPT ![c].pc = "sign", ![c].retried = TRUE])
        <3>0. PICK p, tok : p \in Procs /\ p = call[c].proc /\ tok = Token(call[c].proc) /\ proc[p].pc \in Busy
            BY <1>1, <2>0
        <3>1. PICK k : k = [call[c] EXCEPT !.pc = "sign", !.retried = TRUE]
            OBVIOUS
        <3>2. /\ k \in CallsOver(T) /\ k.pc = "sign" /\ k.proc = call[c].proc /\ k.retried = TRUE
              /\ k.answer = call[c].answer
            BY <1>0, <3>1 DEF CallsOver, Active
        <3>3. PICK f, S : f = [call EXCEPT ![c] = k] /\ S = Sharing(p) \ {c}
            OBVIOUS
        <3>4. call' = Disturbed(S, f)
            BY <1>0, <2>2, <3>0, <3>1, <3>3
        <3>5. f \in [Calls -> CallsOver(T)] /\ f[c] = k /\ \A d \in Calls \ {c} : f[d] = call[d]
            BY <1>0, <3>2, <3>3
        <3>6. PICK q : q = [proc[p] EXCEPT !.token = tok]
            OBVIOUS
        <3>7. PICK U : U = T \union {tok}
            OBVIOUS
        <3>8. proc[p] \in ProcsOver(U) /\ tok \in U /\ T \subseteq U
            BY <3>0, <1>0, <3>7, Wider
        <3>9. q \in ProcsOver(U) /\ q.pc = proc[p].pc /\ q.token = tok
            BY <3>6, <3>8 DEF ProcsOver
        <3>10. proc' = [proc EXCEPT ![p] = q] /\ live' = live \union {tok}
            BY <2>2, <3>0, <3>6 DEF Set
        <3>11. /\ proc' \in [Procs -> ProcsOver(U)] /\ proc'[p] = q /\ \A r \in Procs \ {p} : proc'[r] = proc[r]
            BY <3>0, <1>0, <3>8, <3>9, <3>10, Wider
        <3>12. TokenInv(c)'
            <4>1. call'[c].pc = "sign" /\ call'[c].proc = p /\ call'[c].answer = call[c].answer
                BY <3>0, <3>2, <3>4, <3>5, DisturbedFacts
            <4>2. call[c].answer = "none"
                BY <2>0 DEF PostInv
            <4>3. proc'[p].pc \in Busy /\ proc'[p].token \in live'
                BY <3>0, <3>9, <3>10, <3>11
            <4> QED
                BY <3>0, <4>1, <4>2, <4>3 DEF TokenInv, Attached
        <3>13. ASSUME NEW d \in Calls \ {c}
               PROVE  TokenInv(d)'
            <4>1. /\ call'[d].pc = call[d].pc /\ call'[d].proc = call[d].proc /\ call'[d].proof = call[d].proof
                  /\ call'[d].retried = call[d].retried /\ call'[d].answer = call[d].answer
                  /\ call'[d].disturbed = (d \in S \/ call[d].disturbed)
                BY <3>4, <3>5, DisturbedFacts
            <4>2. CASE call[d].pc \in Active /\ call[d].proc = p
                <5>1. d \in S
                    BY <3>3, <4>2 DEF Sharing, Active
                <5>2. proc'[call[d].proc].pc \in Busy
                    BY <3>0, <3>9, <3>11, <4>2
                <5>3. call[d].answer = "none"
                    BY <4>2 DEF PostInv
                <5>4. TokenInv(d)
                    OBVIOUS
                <5> QED
                    BY <1>1, <4>1, <4>2, <5>1, <5>2, <5>3, <5>4 DEF TokenInv, Attached
            <4>3. CASE ~(call[d].pc \in Active /\ call[d].proc = p)
                <5>1. call[d].pc \in Active => proc'[call[d].proc] = proc[call[d].proc]
                    BY <1>1, <3>11, <4>3
                <5> QED
                    BY <1>1, <3>10, <4>1, <5>1, TokenKept
            <4> QED
                BY <4>2, <4>3
        <3> QED
            BY <3>8, <3>11, <3>12, <3>13
    <2> QED
        BY <1>15, <2>1, <2>2 DEF Refresh
<1>16. ASSUME NEW c \in Calls, Rpc(c) \/ RequestFails(c)
       PROVE  (\E U : T \subseteq U /\ proc' \in [Procs -> ProcsOver(U)]) /\ \A d \in Calls : TokenInv(d)'
    <2>0. call[c].pc \in Active /\ UNCHANGED <<proc, live>>
        BY <1>16 DEF Rpc, RequestFails, Active, Quiet, console
    <2>1. CASE Rpc(c)
        BY <1>8, <1>10, <2>0, <2>1 DEF Rpc
    <2>2. CASE RequestFails(c)
        <3>1. GiveUp(c) \in CallsOver(T) /\ GiveUp(c).pc \notin Active /\ GiveUp(c).answer = "error"
            BY GiveUpFacts DEF Active
        <3>2. TokenInv(c)'
            BY <1>22, <2>2, <3>1 DEF RequestFails
        <3> QED
            BY <1>8, <2>0, <2>2, <3>2 DEF RequestFails
    <2> QED
        BY <1>16, <2>1, <2>2
<1>23. ASSUME NEW c \in Calls, RpcHangs(c)
       PROVE  (\E U : T \subseteq U /\ proc' \in [Procs -> ProcsOver(U)]) /\ \A d \in Calls : TokenInv(d)'
    <2>1. PICK b : b = InFlight(c)
        OBVIOUS
    <2>2. b \in BOOLEAN
        BY <2>1 DEF InFlight
    <2>3. PICK k : k = [call[c] EXCEPT !.pc = "hung", !.late = b]
        OBVIOUS
    <2>4. k \in CallsOver(T) /\ k.pc = "hung" /\ k.answer = call[c].answer
        BY <1>0, <2>2, <2>3 DEF CallsOver
    <2>5. call' = [call EXCEPT ![c] = k] /\ UNCHANGED <<proc, live>> /\ call[c].pc \in Active
        BY <1>0, <1>23, <2>1, <2>3 DEF RpcHangs, Active, Quiet, console
    <2>6. k.pc \notin Active /\ k.answer = "none"
        BY <2>4, <2>5 DEF PostInv, Active
    <2>7. TokenInv(c)'
        BY <1>22, <2>4, <2>5, <2>6
    <2> QED
        BY <1>8, <2>5, <2>7
<1>24. ASSUME NEW c \in Calls, Lands(c)
       PROVE  (\E U : T \subseteq U /\ proc' \in [Procs -> ProcsOver(U)]) /\ \A d \in Calls : TokenInv(d)'
    <2>1. PICK k : k = [call[c] EXCEPT !.late = FALSE, !.proof = NoToken]
        OBVIOUS
    <2>2. k \in CallsOver(T) /\ k.pc = call[c].pc /\ k.answer = call[c].answer /\ k.disturbed = call[c].disturbed
        BY <1>0, <2>1 DEF CallsOver
    <2>3. call' = [call EXCEPT ![c] = k] /\ UNCHANGED <<proc, live>> /\ call[c].late
        BY <1>0, <1>24, <2>1 DEF Lands, Quiet, console
    <2>4. k.pc \notin Active /\ (k.answer = "unauthorized" => k.disturbed)
        BY <2>2, <2>3 DEF PostInv, Active, TokenInv
    <2>5. TokenInv(c)'
        BY <1>22, <2>2, <2>3, <2>4
    <2> QED
        BY <1>8, <2>3, <2>5
<1>17. ASSUME NEW p \in Procs, Crash(p) \/ Quit(p)
       PROVE  (\E U : T \subseteq U /\ proc' \in [Procs -> ProcsOver(U)]) /\ \A d \in Calls : TokenInv(d)'
    <2>1. /\ proc' = [proc EXCEPT ![p] = Off] /\ UNCHANGED live
          /\ call' = [c \in Calls |-> IF call[c].proc = p /\ call[c].pc \notin {"idle", "done"}
                                      THEN GiveUp(c) ELSE call[c]]
        BY <1>17 DEF Crash, Quit, Stop, Set, Quiet, console
    <2>2. proc' \in [Procs -> ProcsOver(T)] /\ \A r \in Procs \ {p} : proc'[r] = proc[r]
        BY <1>0, <2>1, Values
    <2>3. ASSUME NEW d \in Calls
          PROVE  TokenInv(d)'
        <3>1. CASE call[d].proc = p /\ call[d].pc \notin {"idle", "done"}
            <4>1. call'[d] = GiveUp(d)
                BY <2>1, <3>1
            <4>2. GiveUp(d).pc = "done" /\ GiveUp(d).answer = "error"
                BY GiveUpFacts
            <4> QED
                BY <4>1, <4>2 DEF TokenInv, Attached, Active
        <3>2. CASE ~(call[d].proc = p /\ call[d].pc \notin {"idle", "done"})
            <4>2. call'[d] = call[d]
                BY <2>1, <3>2
            <4>3. call[d].pc \in Active => proc'[call[d].proc] = proc[call[d].proc]
                BY <1>1, <2>2, <3>2 DEF Active
            <4> QED
                BY <1>1, <2>1, <4>2, <4>3, TokenKept
        <3> QED
            BY <3>1, <3>2
    <2> QED
        BY <2>2, <2>3
<1>18. CASE Host
    BY <1>4, <1>11, <1>17, <1>18 DEF Host, ProcStep
<1>19. CASE Failing
    BY <1>7, <1>16, <1>17, <1>19, <1>23, <1>24 DEF Failing
<1>20. CASE \E p \in Procs : Starting(p)
    BY <1>4, <1>12, <1>20 DEF Starting, ProcStep
<1>21. CASE \E c \in Calls : Handling(c)
    BY <1>13, <1>14, <1>15, <1>16, <1>21 DEF Handling
<1> QED
    BY <1>6, <1>18, <1>19, <1>20, <1>21 DEF Next

-----------------------------------------------------------------------------
(* The theorems. *)

\* The inductive invariant of calls and tokens.
RInv ==
    /\ Types /\ posted \in [Calls -> {0, 1}]
    /\ \A c \in Calls : PostInv(c)
    /\ \A c \in Calls : TokenInv(c)

\* No call was asked for yet.
LEMMA InitRuntime == Init => RInv /\ Tools!Init
<1> SUFFICES ASSUME Init PROVE RInv /\ Tools!Init
    OBVIOUS
<1>1. call = [c \in Calls |-> NoCall] /\ posted = [c \in Calls |-> 0]
    BY DEF Init
<1>2. NoCall.pc = "idle" /\ NoCall.answer = "none" /\ NoCall.relayed = FALSE /\ NoCall.late = FALSE
    BY DEF NoCall
<1>3. \A c \in Calls : /\ call[c].pc = "idle" /\ call[c].answer = "none" /\ posted[c] = 0
                        /\ call[c].relayed = FALSE /\ call[c].late = FALSE
    BY <1>1, <1>2
<1>4. \A c \in Calls : PostInv(c) /\ TokenInv(c)
    BY <1>3 DEF PostInv, TokenInv, Attached, Active
<1>5. Types
    <2> DEFINE token == [id |-> 2, cred |-> 1]
               q == [Off EXCEPT !.pc = "serving", !.cred = 1, !.key = 1, !.token = token]
    <2>1. PICK T : T = {NoToken, 0, 1, token}
        OBVIOUS
    <2>2. NoToken \in T /\ 0 \in T /\ 1 \in T /\ token \in T /\ Off \in ProcsOver(T) /\ NoCall \in CallsOver(T)
        BY <2>1, Values
    <2>3. call \in [Calls -> CallsOver(T)]
        BY <1>1, <2>2
    <2>4. CASE proc = [p \in Procs |-> Off]
        BY <2>2, <2>3, <2>4 DEF Types, TypedOver
    <2>5. CASE proc = [[p \in Procs |-> Off] EXCEPT ![1] = q]
        <3>1. 1 \in Ids
            BY RuntimeAssumption DEF Ids
        <3>2. q \in ProcsOver(T)
            <4> HIDE DEF token
            <4> QED
                BY <2>2, <3>1 DEF ProcsOver, Busy
        <3> HIDE DEF q
        <3>3. proc \in [Procs -> ProcsOver(T)]
            BY <2>2, <2>5, <3>2
        <3> QED
            BY <2>2, <2>3, <3>3 DEF Types, TypedOver
    <2> QED
        BY <2>4, <2>5 DEF Init
<1>6. Tools!Init
    BY <1>1, <1>3 DEF Tools!Init
<1> QED
    BY <1>1, <1>4, <1>5, <1>6 DEF RInv

\* Every step keeps the invariant and is one of ToolCall, or one it does not see.
LEMMA NextRuntime == RInv /\ [Next]_vars => RInv' /\ [Tools!Next]_(Tools!vars)
<1> SUFFICES ASSUME RInv, [Next]_vars PROVE RInv' /\ [Tools!Next]_(Tools!vars)
    OBVIOUS
<1>1. CASE UNCHANGED vars
    <2>1. UNCHANGED <<call, proc, posted, live>>
        BY <1>1 DEF vars, runtime, console
    <2>2. UNCHANGED Tools!vars
        BY <2>1 DEF Tools!vars
    <2>3. RInv'
        BY <2>1 DEF RInv, Types, TypedOver, PostInv, TokenInv, Attached
    <2> QED
        BY <2>2, <2>3
<1>2. CASE Next
    <2>1. PICK T : TypedOver(T)
        BY DEF RInv, Types
    <2>2. /\ call' \in [Calls -> CallsOver(T)]
          /\ Kept \/ (\E c \in Calls : OneMoves(c)) \/ Stopped
        BY <1>2, <2>1, CallMoves DEF RInv, TokenInv
    <2>3. /\ posted' \in [Calls -> {0, 1}] /\ \A c \in Calls : PostInv(c)'
          /\ [Tools!Next]_(Tools!vars)
        BY <2>1, <2>2, MovesImplement DEF RInv
    <2>4. (\E U : T \subseteq U /\ proc' \in [Procs -> ProcsOver(U)]) /\ \A c \in Calls : TokenInv(c)'
        BY <1>2, <2>1, TokenMoves DEF RInv
    <2>5. PICK U : T \subseteq U /\ proc' \in [Procs -> ProcsOver(U)]
        BY <2>4
    <2>6. TypedOver(U)'
        <3>1. call' \in [Calls -> CallsOver(U)]
            BY <2>2, <2>5, Wider
        <3>2. NoToken \in U /\ 0 \in U
            BY <2>1, <2>5 DEF TypedOver
        <3> QED
            BY <2>5, <3>1, <3>2 DEF TypedOver
    <2>7. Types'
        BY <2>6 DEF Types
    <2> QED
        BY <2>3, <2>4, <2>7 DEF RInv
<1> QED
    BY <1>1, <1>2

\* Whatever is lost, refused, retried or crashed, each step of the runtimes is a
\* step of ToolCall or invisible to the host: a call posts at most one message,
\* only when it was confirmed, also when its request lands after the caller gave
\* up; "sent" is said only of a message that exists, and only a gateway may fall
\* silent (the safety half of ImplementsToolCall).
THEOREM RuntimeImplementsToolCall == Spec => Tools!Init /\ [][Tools!Next]_(Tools!vars)
<1>1. Init => RInv /\ Tools!Init
    BY InitRuntime
<1>2. RInv /\ [Next]_vars => RInv' /\ [Tools!Next]_(Tools!vars)
    BY NextRuntime
<1> QED
    BY <1>1, <1>2, PTL DEF Spec

\* A call fails with a 401 only when another call replaced the token of the shared
\* client meanwhile, the new token died as well, or the server refused the credential.
THEOREM RefreshStaysTransparent == Spec => []RefreshIsTransparent
<1>1. RInv => RefreshIsTransparent
    BY DEF RInv, TokenInv, RefreshIsTransparent
<1>2. Init => RInv
    BY InitRuntime
<1>3. RInv /\ [Next]_vars => RInv'
    BY NextRuntime
<1> QED
    BY <1>1, <1>2, <1>3, PTL DEF Spec

-----------------------------------------------------------------------------
(* Keys and secrets: where the means to use a credential are. *)

CredsOver(T) == [status : {"none", "pending", "active", "revoked", "gone"}, agent : T, key : T,
                 secret : BOOLEAN, old : BOOLEAN]
OpsOver(T) == [kind : {"create", "rename", "shutdown", "delete", "revoke", "purge"}, agent : T,
               id : Ids \union {0}, pc : {"sent", "done", "failed"}]
PagesOver(T) == [agent : T, notice : Ids \union {0}, list : T, relabelled : SUBSET T]
KeysOver(T) == [cred : Ids \union {0}, key : T]

ConsoleOver(T) ==
    /\ cred \in [Ids -> CredsOver(T)] /\ op \subseteq OpsOver(T) /\ page \in PagesOver(T) /\ env \subseteq Ids
FilesOver(T) ==
    file \in [Ids -> T] /\ daemon \in [signing : KeysOver(T), encryption : KeysOver(T)]

\* The user has the secret, or it is on its way to the page.
Known(i) ==
    i \in env \/ i = page.notice \/ \E o \in op : o.kind = "create" /\ o.pc = "done" /\ o.id = i

\* The key is where a process that starts looks for it.
Filed(i) ==
    \/ file[i] = cred[i].key
    \/ \A f \in DOMAIN daemon : daemon[f] = [cred |-> i, key |-> cred[i].key]

\* A process is about to write it there.
Carries(p, i) ==
    /\ proc[p].cred = i /\ proc[p].key = cred[i].key
    /\ \/ proc[p].pc = "store"
       \/ proc[p].pc = "half" /\ daemon.signing = [cred |-> i, key |-> cred[i].key]

KeyInv(i) ==
    Live(i) => \/ i \in lost
               \/ cred[i].status = "pending" /\ Known(i)
               \/ cred[i].status = "active" /\ (Filed(i) \/ \E p \in Procs : Carries(p, i))

SecretInv(i) == Known(i) => cred[i].status # "none"

\* A process between activation and the end of its writes holds the server's key.
BootInv(p) ==
    /\ proc[p].pc \notin {"off", "gateway"} => proc[p].cred \in Ids /\ cred[proc[p].cred].status # "none"
    /\ proc[p].pc \in {"store", "half"} =>
          /\ cred[proc[p].cred].status # "pending"
          /\ proc[p].cred \in lost \/ ~Live(proc[p].cred) \/ cred[proc[p].cred].key = proc[p].key
    /\ proc[p].pc = "half" =>
          proc[p].cred \in lost \/ daemon.signing = [cred |-> proc[p].cred, key |-> proc[p].key]

\* What any step of the console does to a credential: it goes down, or stays as it
\* is, or is new and its secret known; a secret goes unread only into lost.
Moved(i) ==
    /\ cred'[i].status = "none" => cred[i].status = "none"
    /\ cred'[i].status \in {"pending", "active"} =>
          \/ cred'[i].status = cred[i].status /\ cred'[i].key = cred[i].key
          \/ cred[i].status = "none" /\ cred'[i].status = "pending" /\ Known(i)'
    /\ Known(i) => Known(i)' \/ i \in lost'
    /\ Known(i)' => Known(i) \/ cred'[i].status # "none"

\* Credentials are numbered from one.
LEMMA ZeroIsNoId == 0 \notin Ids /\ 1 \in Ids
BY RuntimeAssumption DEF Ids

\* A notice that is replaced leaves an unread secret in lost.
LEMMA NoticeMoves ==
    ASSUME NEW i \in Ids, cred' = cred, op' = op, env' = env,
           page'.notice \in {0, page.notice}, lost \subseteq lost',
           page'.notice # page.notice => lost' = lost \union Unread
    PROVE  Moved(i)
BY ZeroIsNoId DEF Moved, Known, Unread

\* What the page itself does.
LEMMA PageMoves ==
    ASSUME NEW T, ConsoleOver(T), Agents \subseteq T, FirstOf(agents) \in T, Statuses \in T,
           ConsoleUser \/ Refetch
    PROVE  ConsoleOver(T)' /\ lost \subseteq lost' /\ \A i \in Ids : Moved(i)
<1>0. page \in PagesOver(T) /\ page.notice \in Ids \union {0} /\ page.agent \in T /\ page.relabelled \subseteq T
    BY DEF ConsoleOver, PagesOver
<1>6. ASSUME NEW a \in Agents, RenameElsewhere(a)
      PROVE  ConsoleOver(T)' /\ lost \subseteq lost' /\ \A i \in Ids : Moved(i)
    <2>0. PICK R : R = page.relabelled \union {a}
        OBVIOUS
    <2>1. PICK g : g = [page EXCEPT !.relabelled = R]
        OBVIOUS
    <2>2. g \in PagesOver(T) /\ g.notice = page.notice
        BY <1>0, <2>0, <2>1 DEF PagesOver
    <2>3. page' = g /\ UNCHANGED <<cred, op, env, lost>>
        BY <1>6, <2>0, <2>1 DEF RenameElsewhere
    <2> QED
        BY <2>2, <2>3, NoticeMoves DEF ConsoleOver
<1>1. ASSUME NEW a \in Agents, SelectAgent(a)
      PROVE  ConsoleOver(T)' /\ lost \subseteq lost' /\ \A i \in Ids : Moved(i)
    <2>1. PICK g : g = [page EXCEPT !.agent = a, !.notice = 0]
        OBVIOUS
    <2>2. g \in PagesOver(T) /\ g.notice = 0
        BY <1>0, <2>1 DEF PagesOver
    <2>3. page' = g /\ lost' = lost \union Unread /\ UNCHANGED <<cred, op, env>>
        BY <1>1, <2>1 DEF SelectAgent
    <2> QED
        BY <2>2, <2>3, NoticeMoves DEF ConsoleOver
<1>2. CASE CloseNotice
    <2>1. PICK g : g = [page EXCEPT !.notice = 0]
        OBVIOUS
    <2>2. g \in PagesOver(T) /\ g.notice = 0
        BY <1>0, <2>1 DEF PagesOver
    <2>3. page' = g /\ lost' = lost \union Unread /\ UNCHANGED <<cred, op, env>>
        BY <1>2, <2>1 DEF CloseNotice
    <2> QED
        BY <2>2, <2>3, NoticeMoves DEF ConsoleOver
<1>3. CASE CopySecret
    <2>1. page.notice \in Ids /\ env' = env \union {page.notice} /\ UNCHANGED <<cred, page, op, lost>>
        BY <1>0, <1>3 DEF CopySecret
    <2>2. \A i \in Ids : Known(i)' <=> Known(i)
        BY <2>1 DEF Known
    <2>3. \A i \in Ids : Moved(i)
        BY <2>1, <2>2 DEF Moved
    <2> QED
        BY <2>1, <2>3 DEF ConsoleOver
<1>4. ASSUME NEW kind \in {"create", "rename", "shutdown", "delete", "revoke", "purge"},
             NEW j \in Ids \union {0}, Start(kind, j)
      PROVE  ConsoleOver(T)' /\ lost \subseteq lost' /\ \A i \in Ids : Moved(i)
    <2>1. PICK n : n = [kind |-> kind, agent |-> page.agent, id |-> j, pc |-> "sent"]
        OBVIOUS
    <2>2. n \in OpsOver(T) /\ n.pc = "sent"
        BY <1>0, <2>1 DEF OpsOver
    <2>3. op' = op \union {n} /\ UNCHANGED <<cred, page, env, lost>>
        BY <1>4, <2>1 DEF Start
    <2>4. \A i \in Ids : Known(i)' <=> Known(i)
        BY <2>2, <2>3 DEF Known
    <2>5. \A i \in Ids : Moved(i)
        BY <2>3, <2>4 DEF Moved
    <2> QED
        BY <2>2, <2>3, <2>5 DEF ConsoleOver
<1>5. CASE Refetch
    <2> DEFINE shown == ShownAfter("none")
               n == NoticeAfter(shown)
    <2>1. shown \in T
        BY <1>0 DEF ShownAfter
    <2>2. PICK g : g = [agent |-> shown, notice |-> n, list |-> Statuses, relabelled |-> {}]
        OBVIOUS
    <2>3. /\ page' = g /\ UNCHANGED <<cred, op, env>>
          /\ lost' = IF n # page.notice THEN lost \union Unread ELSE lost
        BY <1>5, <2>2 DEF Refetch
    <2>4. n \in Ids \union {0} /\ n \in {0, page.notice}
        BY <1>0 DEF NoticeAfter
    <2> HIDE DEF n, shown
    <2>5. g \in PagesOver(T) /\ g.notice = n
        BY <2>1, <2>2, <2>4 DEF PagesOver
    <2> QED
        BY <2>3, <2>4, <2>5, NoticeMoves DEF ConsoleOver
<1> QED
    BY <1>1, <1>2, <1>3, <1>4, <1>5, <1>6
       DEF ConsoleUser, Create, Rename, EmergencyShutdown, Delete, Revoke, Purge

\* The answer to one mutation takes the place of its request.
LEMMA AnswerMoves ==
    ASSUME NEW T, ConsoleOver(T), NEW o \in op, o.pc = "sent", NEW pc \in {"done", "failed"},
           NEW j \in Ids \union {0}, Answered(o, pc, j), env' = env, page'.notice = page.notice
    PROVE  /\ op' \subseteq OpsOver(T)
           /\ \A i \in Ids : Known(i) => Known(i)'
           /\ \A i \in Ids : Known(i)' => Known(i) \/ (o.kind = "create" /\ pc = "done" /\ i = j)
           /\ o.kind = "create" /\ pc = "done" => Known(j)'
<1>1. PICK n : n = [o EXCEPT !.pc = pc, !.id = j]
    OBVIOUS
<1>2. o \in OpsOver(T) /\ op \subseteq OpsOver(T)
    BY DEF ConsoleOver
<1>3. n \in OpsOver(T) /\ n.pc = pc /\ n.id = j /\ n.kind = o.kind
    BY <1>1, <1>2 DEF OpsOver
<1>4. op' = (op \ {o}) \union {n}
    BY <1>1 DEF Answered
<1> QED
    BY <1>2, <1>3, <1>4 DEF Known

\* Credentials that go down are no longer live, the others stay.
LEMMA DownMoves ==
    ASSUME NEW T, ConsoleOver(T), NEW C, NEW s \in {"revoked", "gone"}, Down(C, s)
    PROVE  /\ cred' \in [Ids -> CredsOver(T)]
           /\ \A i \in Ids : cred'[i] = cred[i] \/ cred'[i].status = s
<1>1. ASSUME NEW i \in Ids
      PROVE  [cred[i] EXCEPT !.status = s] \in CredsOver(T) /\ [cred[i] EXCEPT !.status = s].status = s
             /\ cred[i] \in CredsOver(T)
    <2>1. cred[i] \in CredsOver(T)
        BY DEF ConsoleOver
    <2> QED
        BY <2>1 DEF CredsOver
<1>2. cred' = [i \in Ids |-> IF i \in C THEN [cred[i] EXCEPT !.status = s] ELSE cred[i]]
    BY DEF Down
<1> QED
    BY <1>1, <1>2

\* What the server's handlers do.
LEMMA ServeMoves ==
    ASSUME NEW T, ConsoleOver(T), 0 \in T, Serve
    PROVE  ConsoleOver(T)' /\ lost \subseteq lost' /\ \A i \in Ids : Moved(i)
<1>1. PICK o \in op :
        /\ o.pc = "sent"
        /\ \/ CreateServed(o) \/ RevokeServed(o) \/ PurgeServed(o)
           \/ ShutdownServed(o) \/ DeleteServed(o) \/ RenameServed(o)
        /\ page' = [page EXCEPT !.relabelled = @ \union {a \in {o.agent} \cap agents : o.kind = "rename"}]
    BY DEF Serve
<1>2. o \in OpsOver(T) /\ o.id \in Ids \union {0} /\ o.agent \in T /\ 0 \in Ids \union {0}
    BY DEF ConsoleOver, OpsOver
<1>0. page' \in PagesOver(T) /\ page'.notice = page.notice /\ UNCHANGED <<env, lost>>
    <2>1. page \in PagesOver(T) /\ page.relabelled \subseteq T
        BY DEF ConsoleOver, PagesOver
    <2>2. PICK R : R = page.relabelled \union {a \in {o.agent} \cap agents : o.kind = "rename"}
        OBVIOUS
    <2>3. R \subseteq T
        BY <1>2, <2>1, <2>2
    <2>4. page' = [page EXCEPT !.relabelled = R]
        BY <1>1, <2>2
    <2>5. page' \in PagesOver(T) /\ page'.notice = page.notice
        BY <2>1, <2>3, <2>4 DEF PagesOver
    <2> QED
        BY <2>5 DEF Serve
\* Everything but a creation.
<1>3. ASSUME NEW pc \in {"done", "failed"}, NEW j \in Ids \union {0}, Answered(o, pc, j),
             o.kind # "create" \/ pc = "failed",
             cred' \in [Ids -> CredsOver(T)],
             \A i \in Ids : cred'[i] = cred[i] \/ cred'[i].status \in {"revoked", "gone"}
      PROVE  ConsoleOver(T)' /\ \A i \in Ids : Moved(i)
    <2>1. op' \subseteq OpsOver(T) /\ \A i \in Ids : Known(i)' <=> Known(i)
        BY <1>0, <1>1, <1>3, AnswerMoves
    <2>2. \A i \in Ids : Moved(i)
        BY <1>3, <2>1 DEF Moved
    <2> QED
        BY <1>0, <1>3, <2>1, <2>2 DEF ConsoleOver
<1>4. CASE Refused(o)
    <2>1. Answered(o, "failed", o.id) /\ UNCHANGED cred
        BY <1>4 DEF Refused
    <2>2. cred' \in [Ids -> CredsOver(T)]
        BY <2>1 DEF ConsoleOver
    <2> QED
        BY <1>0, <1>2, <1>3, <2>1, <2>2
<1>5. ASSUME NEW C, NEW s \in {"revoked", "gone"}, Down(C, s), o.kind # "create",
             NEW j \in Ids \union {0}, Answered(o, "done", j)
      PROVE  ConsoleOver(T)' /\ \A i \in Ids : Moved(i)
    <2>1. cred' \in [Ids -> CredsOver(T)] /\ \A i \in Ids : cred'[i] = cred[i] \/ cred'[i].status = s
        BY <1>5, DownMoves
    <2> QED
        BY <1>3, <1>5, <2>1
<1>6. CASE CreateServed(o)
    <2>1. CASE /\ o.agent \in agents
               /\ \E i \in NewIds :
                    /\ cred' = [cred EXCEPT ![i] = [NoCred EXCEPT !.status = "pending", !.agent = o.agent,
                                                                  !.secret = TRUE]]
                    /\ Answered(o, "done", i)
        <3>0. PICK k : k = [NoCred EXCEPT !.status = "pending", !.agent = o.agent, !.secret = TRUE]
            OBVIOUS
        <3>1. PICK j \in Ids : cred[j].status = "none" /\ cred' = [cred EXCEPT ![j] = k] /\ Answered(o, "done", j)
            BY <2>1, <3>0 DEF NewIds
        <3>2. k \in CredsOver(T) /\ k.status = "pending"
            BY <1>2, <3>0 DEF NoCred, CredsOver
        <3>3. /\ cred' \in [Ids -> CredsOver(T)] /\ cred'[j] = k /\ \A i \in Ids \ {j} : cred'[i] = cred[i]
            BY <3>1, <3>2 DEF ConsoleOver
        <3>4. /\ op' \subseteq OpsOver(T) /\ Known(j)' /\ \A i \in Ids : Known(i) => Known(i)'
              /\ \A i \in Ids : Known(i)' => Known(i) \/ i = j
            BY <1>0, <1>1, <1>6, <3>1, AnswerMoves DEF CreateServed
        <3>5. \A i \in Ids : Moved(i)
            BY <3>1, <3>2, <3>3, <3>4 DEF Moved
        <3> QED
            BY <1>0, <3>3, <3>4, <3>5 DEF ConsoleOver
    <2> QED
        BY <1>0, <1>4, <1>6, <2>1 DEF CreateServed
<1>7. CASE RevokeServed(o) \/ PurgeServed(o)
    BY <1>0, <1>2, <1>4, <1>5, <1>7 DEF RevokeServed, PurgeServed
<1>8. CASE ShutdownServed(o) \/ DeleteServed(o)
    BY <1>0, <1>2, <1>4, <1>5, <1>8 DEF ShutdownServed, DeleteServed
<1>9. CASE RenameServed(o)
    <2>1. CASE Answered(o, "done", 0) /\ UNCHANGED cred
        <3>1. cred' \in [Ids -> CredsOver(T)]
            BY <2>1 DEF ConsoleOver
        <3>2. o.kind # "create"
            BY <1>9 DEF RenameServed
        <3> QED
            BY <1>0, <1>2, <1>3, <2>1, <3>1, <3>2
    <2> QED
        BY <1>0, <1>4, <1>9, <2>1 DEF RenameServed
<1> QED
    BY <1>0, <1>1, <1>6, <1>7, <1>8, <1>9

\* How a mutation ends on the page.
LEMMA SettleMoves ==
    ASSUME NEW T, ConsoleOver(T), FirstOf(agents) \in T, Statuses \in T, Settle \/ MutationFails
    PROVE  ConsoleOver(T)' /\ lost \subseteq lost' /\ \A i \in Ids : Moved(i)
<1>0. /\ page \in PagesOver(T) /\ page.notice \in Ids \union {0} /\ page.agent \in T /\ page.list \in T
      /\ page.relabelled \subseteq T
    BY DEF ConsoleOver, PagesOver
<1>1. UNCHANGED <<cred, env>>
    BY DEF Settle, MutationFails
<1>2. ASSUME NEW o \in op, op' = op \ {o}, page' \in PagesOver(T), lost \subseteq lost',
             \A i \in Ids : Known(i) => Known(i)' \/ i \in lost',
             \A i \in Ids : Known(i)' => Known(i)
      PROVE  ConsoleOver(T)' /\ lost \subseteq lost' /\ \A i \in Ids : Moved(i)
    <2>1. \A i \in Ids : Moved(i)
        BY <1>1, <1>2 DEF Moved
    <2> QED
        BY <1>1, <1>2, <2>1 DEF ConsoleOver
<1>3. CASE MutationFails
    <2>1. PICK o \in op : op' = op \ {o} /\ lost' = lost \union {i \in {o.id} \ {0} : o.kind = "create"}
        BY <1>3 DEF MutationFails
    <2>2. page' = page
        BY <1>3 DEF MutationFails
    <2>3. \A i \in Ids : /\ Known(i) => Known(i)' \/ i \in lost'
                         /\ Known(i)' => Known(i)
        BY <1>1, <2>1, <2>2, ZeroIsNoId DEF Known
    <2> QED
        BY <1>0, <1>2, <2>1, <2>2, <2>3
<1>4. CASE Settle
    <2>1. PICK o \in op : /\ op' = op \ {o}
                          /\ \/ o.pc = "done" /\ SettleDone(o)
                             \/ o.pc = "failed" /\ UNCHANGED <<page, lost>>
        BY <1>4 DEF Settle
    <2>2. CASE o.pc = "failed" /\ UNCHANGED <<page, lost>>
        <3>1. \A i \in Ids : Known(i)' <=> Known(i)
            BY <1>1, <2>1, <2>2 DEF Known
        <3> QED
            BY <1>0, <1>2, <2>1, <2>2, <3>1
    <2>3. CASE o.pc = "done" /\ SettleDone(o)
        <3> DEFINE too == o.kind \in {"rename", "shutdown", "delete"}
                   shown == IF too THEN ShownAfter(o.kind) ELSE page.agent
                   n == IF o.kind = "create" THEN o.id
                        ELSE IF too THEN NoticeAfter(shown) ELSE page.notice
                   l == IF o.kind \in {"rename", "delete"} THEN page.list ELSE Statuses
                   R == IF too THEN {} ELSE page.relabelled
        <3>1. /\ page' = [agent |-> shown, notice |-> n, list |-> l, relabelled |-> R]
              /\ lost' = IF n # page.notice THEN lost \union Unread ELSE lost
            BY <2>3 DEF SettleDone
        <3>2. shown \in T /\ l \in T /\ R \subseteq T
            BY <1>0 DEF ShownAfter
        <3>3. o.id \in Ids \union {0}
            BY DEF ConsoleOver, OpsOver
        <3>4. /\ n \in Ids \union {0} /\ (o.kind = "create" => n = o.id)
              /\ o.kind # "create" => n \in {0, page.notice}
            BY <1>0, <3>3 DEF NoticeAfter
        <3> HIDE DEF shown, n, l, R
        <3>5. page' \in PagesOver(T) /\ page'.notice = n
            BY <3>1, <3>2, <3>4 DEF PagesOver
        <3>6. ASSUME NEW i \in Ids, Known(i)
              PROVE  Known(i)' \/ i \in lost'
            <4>1. CASE i \in env
                BY <1>1, <4>1 DEF Known
            <4>2. CASE i = page.notice
                BY <1>1, <3>1, <3>5, <4>2, ZeroIsNoId DEF Known, Unread
            <4>3. ASSUME NEW r \in op, r.kind = "create", r.pc = "done", r.id = i
                  PROVE  Known(i)'
                <5>1. CASE r = o
                    BY <3>4, <3>5, <4>3, <5>1 DEF Known
                <5>2. CASE r # o
                    BY <2>1, <4>3, <5>2 DEF Known
                <5> QED
                    BY <5>1, <5>2
            <4> QED
                BY <3>6, <4>1, <4>2, <4>3 DEF Known
        <3>7. \A i \in Ids : Known(i)' => Known(i)
            BY <1>1, <2>1, <2>3, <3>4, <3>5, ZeroIsNoId DEF Known
        <3>8. lost \subseteq lost'
            BY <3>1
        <3> QED
            BY <1>2, <2>1, <3>5, <3>6, <3>7, <3>8
    <2> QED
        BY <2>1, <2>2, <2>3
<1> QED
    BY <1>3, <1>4

\* What any step of the console does.
LEMMA ConsoleMoves ==
    ASSUME NEW T, ConsoleOver(T), 0 \in T, Agents \subseteq T, FirstOf(agents) \in T, Statuses \in T, ConsoleNext
    PROVE  ConsoleOver(T)' /\ lost \subseteq lost' /\ \A i \in Ids : Moved(i)
<1>1. ASSUME NEW j \in Ids, EnrollmentExpires(j) \/ GracePasses(j)
      PROVE  ConsoleOver(T)' /\ lost \subseteq lost' /\ \A i \in Ids : Moved(i)
    <2>0. cred[j] \in CredsOver(T) /\ cred \in [Ids -> CredsOver(T)]
        BY DEF ConsoleOver
    <2>1. PICK k : /\ k \in CredsOver(T) /\ k.status = cred[j].status /\ k.key = cred[j].key
                   /\ cred' = [cred EXCEPT ![j] = k]
        <3>1. PICK k : k = [cred[j] EXCEPT !.secret = FALSE]
            OBVIOUS
        <3>2. PICK h : h = [cred[j] EXCEPT !.old = TRUE]
            OBVIOUS
        <3>3. /\ k \in CredsOver(T) /\ k.status = cred[j].status /\ k.key = cred[j].key
              /\ h \in CredsOver(T) /\ h.status = cred[j].status /\ h.key = cred[j].key
            BY <2>0, <3>1, <3>2 DEF CredsOver
        <3>4. cred' = [cred EXCEPT ![j] = k] \/ cred' = [cred EXCEPT ![j] = h]
            BY <1>1, <3>1, <3>2 DEF EnrollmentExpires, GracePasses
        <3> QED
            BY <3>3, <3>4
    <2>2. UNCHANGED <<page, op, env, lost>>
        BY <1>1 DEF EnrollmentExpires, GracePasses
    <2>3. /\ cred' \in [Ids -> CredsOver(T)]
          /\ \A i \in Ids : cred'[i].status = cred[i].status /\ cred'[i].key = cred[i].key
        BY <2>0, <2>1
    <2>4. \A i \in Ids : Known(i)' <=> Known(i)
        BY <2>2 DEF Known
    <2>5. \A i \in Ids : Moved(i)
        BY <2>3, <2>4 DEF Moved
    <2> QED
        BY <2>2, <2>3, <2>5 DEF ConsoleOver
<1> QED
    BY <1>1, PageMoves, ServeMoves, SettleMoves DEF ConsoleNext

KInv ==
    /\ \A i \in Ids : KeyInv(i) /\ SecretInv(i)
    /\ \A p \in Procs : BootInv(p)

\* Steps of the console leave the files and the processes alone.
LEMMA KeysThroughConsole ==
    ASSUME KInv, lost \subseteq lost', \A i \in Ids : Moved(i), UNCHANGED <<file, daemon, proc>>
    PROVE  KInv'
<1>1. ASSUME NEW i \in Ids
      PROVE  KeyInv(i)' /\ SecretInv(i)'
    <2>1. Moved(i) /\ KeyInv(i) /\ SecretInv(i)
        BY DEF KInv
    <2>2. SecretInv(i)'
        BY <2>1 DEF Moved, SecretInv
    <2>3. cred'[i].key = cred[i].key => (Filed(i) => Filed(i)') /\ \A p \in Procs : Carries(p, i) => Carries(p, i)'
        BY DEF Filed, Carries
    <2>4. KeyInv(i)'
        BY <2>1, <2>3 DEF KeyInv, Moved, Live
    <2> QED
        BY <2>2, <2>4
<1>2. ASSUME NEW p \in Procs
      PROVE  BootInv(p)'
    <2>1. BootInv(p)
        BY DEF KInv
    <2> QED
        BY <2>1 DEF BootInv, Moved, Live
<1> QED
    BY <1>1, <1>2 DEF KInv

\* Steps of processes that neither are nor come between activation and the end of
\* the writes.
Elsewhere ==
    /\ UNCHANGED <<cred, page, op, env, lost, file, daemon>>
    /\ \A p \in Procs :
          \/ proc'[p].pc = proc[p].pc /\ proc'[p].cred = proc[p].cred /\ proc'[p].key = proc[p].key
          \/ /\ proc[p].pc \notin {"store", "half"} /\ proc'[p].pc \notin {"store", "half"}
             /\ proc'[p].pc \notin {"off", "gateway"} =>
                   proc'[p].cred \in Ids /\ cred[proc'[p].cred].status # "none"

\* They do not touch what the invariant is about.
LEMMA KeysElsewhere ==
    ASSUME KInv, Elsewhere
    PROVE  KInv'
<1>1. ASSUME NEW i \in Ids
      PROVE  KeyInv(i)' /\ SecretInv(i)'
    <2>1. KeyInv(i) /\ SecretInv(i) /\ UNCHANGED <<cred, page, op, env, lost, file, daemon>>
        BY DEF KInv, Elsewhere
    <2>2. SecretInv(i)' /\ (Known(i)' <=> Known(i)) /\ (Filed(i)' <=> Filed(i)) /\ (Live(i)' <=> Live(i))
        BY <2>1 DEF SecretInv, Known, Filed, Live
    <2>3. \A p \in Procs : Carries(p, i) => Carries(p, i)'
        BY <2>1 DEF Carries, Elsewhere
    <2> QED
        BY <2>1, <2>2, <2>3 DEF KeyInv
<1>2. ASSUME NEW p \in Procs
      PROVE  BootInv(p)'
    <2>1. BootInv(p)
        BY DEF KInv
    <2> QED
        BY <2>1 DEF BootInv, Elsewhere, Live
<1> QED
    BY <1>1, <1>2 DEF KInv

\* Which steps those are.
LEMMA ElsewhereSteps ==
    ASSUME NEW T, TypedOver(T), KInv, \A c \in Calls : TokenInv(c),
           \/ Host
           \/ \E p \in Procs : \/ ActivateChecked(p) \/ Exchange(p) \/ ScriptEnds(p)
                               \/ \E c \in Calls : RunScript(p, c)
           \/ \E c \in Calls : Handling(c) \/ RequestFails(c) \/ RpcHangs(c) \/ Lands(c)
           \/ \E t \in live : TokenExpires(t)
    PROVE  Elsewhere
<1> DEFINE Still == UNCHANGED <<cred, page, op, env, lost, file, daemon>>
<1>0. proc \in [Procs -> ProcsOver(T)]
    BY DEF TypedOver
<1>1. ASSUME NEW p \in Procs, NEW q, Set(p, q), Still,
             \/ q.pc = proc[p].pc /\ q.cred = proc[p].cred /\ q.key = proc[p].key
             \/ /\ proc[p].pc \notin {"store", "half"} /\ q.pc \notin {"store", "half"}
                /\ q.pc \notin {"off", "gateway"} => q.cred \in Ids /\ cred[q.cred].status # "none"
      PROVE  Elsewhere
    <2>1. proc'[p] = q /\ \A r \in Procs \ {p} : proc'[r] = proc[r]
        BY <1>0, <1>1 DEF Set
    <2> QED
        BY <1>1, <2>1 DEF Elsewhere
<1>2. ASSUME Still, UNCHANGED proc
      PROVE  Elsewhere
    BY <1>2 DEF Elsewhere
<1>3. Off \in ProcsOver(T) /\ Off.pc = "off"
    BY Values DEF TypedOver, Off
<1>4. ASSUME NEW i \in Ids, NEW p \in Procs, NEW kind, LoadOrActivate(p, i, kind)
      PROVE  Elsewhere
    <2>1. proc[p].pc = "off" /\ cred[i].status # "none" /\ Still
        BY <1>4 DEF LoadOrActivate, FreeProc, Quiet, console
    <2>2. PICK q, r : /\ q = [Off EXCEPT !.pc = "exchange", !.kind = kind, !.cred = i, !.key = file[i]]
                      /\ r = [Off EXCEPT !.pc = "activate", !.kind = kind, !.cred = i, !.key = Fresh]
        OBVIOUS
    <2>3. q.pc = "exchange" /\ q.cred = i /\ r.pc = "activate" /\ r.cred = i
        BY <2>2 DEF Off
    <2>4. Set(p, q) \/ Set(p, r)
        BY <1>4, <2>2 DEF LoadOrActivate
    <2> QED
        BY <1>1, <2>1, <2>3, <2>4
<1>5. ASSUME NEW i \in Ids, NEW p \in Procs, Bootstrap(p, i)
      PROVE  Elsewhere
    <2>1. proc[p].pc = "off" /\ i \in env /\ Still
        BY <1>5 DEF Bootstrap, FreeProc, Quiet, console
    <2>2. cred[i].status # "none"
        BY <2>1 DEF KInv, SecretInv, Known
    <2>3. PICK r : r = [Off EXCEPT !.pc = "activate", !.kind = "bootstrap", !.cred = i, !.key = Fresh]
        OBVIOUS
    <2>4. r.pc = "activate" /\ r.cred = i
        BY <2>3 DEF Off
    <2>5. Set(p, r)
        BY <1>5, <2>3 DEF Bootstrap
    <2> QED
        BY <1>1, <2>1, <2>2, <2>4, <2>5
<1>6. ASSUME NEW p \in Procs, BootGateway(p)
      PROVE  Elsewhere
    <2>1. proc[p].pc = "off" /\ Still /\ Set(p, [Off EXCEPT !.pc = "gateway"])
        BY <1>6 DEF BootGateway, FreeProc, Quiet, console
    <2>2. [Off EXCEPT !.pc = "gateway"].pc = "gateway"
        BY DEF Off
    <2> QED
        BY <1>1, <2>1, <2>2
<1>7. ASSUME NEW p \in Procs, Quit(p) \/ ScriptEnds(p)
      PROVE  Elsewhere
    <2>1. proc[p].pc \in {"serving", "gateway", "running"} /\ Still /\ Set(p, Off)
        BY <1>7 DEF Quit, ScriptEnds, Stop, Quiet, console
    <2> QED
        BY <1>1, <1>3, <2>1
<1>8. ASSUME NEW p \in Procs, NEW c \in Calls, NEW job, Ask(p, c, job)
      PROVE  Elsewhere
    BY <1>2, <1>8 DEF Ask, Quiet, console
<1>9. ASSUME NEW p \in Procs
      PROVE  /\ proc[p] \in ProcsOver(T) /\ proc[p].cred \in Ids \union {0}
             /\ proc[p].pc \notin {"off", "gateway"} => proc[p].cred \in Ids /\ cred[proc[p].cred].status # "none"
    <2>1. proc[p] \in ProcsOver(T) /\ BootInv(p)
        BY <1>0 DEF KInv
    <2> QED
        BY <2>1 DEF ProcsOver, BootInv
<1>10. ASSUME NEW p \in Procs, ActivateChecked(p)
       PROVE  Elsewhere
    <2>1. proc[p].pc = "activate" /\ Still
        BY <1>10 DEF ActivateChecked, Quiet, console
    <2>2. PICK q : q = [proc[p] EXCEPT !.pc = "checked"]
        OBVIOUS
    <2>3. q.pc = "checked" /\ q.cred = proc[p].cred
        BY <1>9, <2>2 DEF ProcsOver
    <2>4. Set(p, q) \/ Set(p, Off)
        BY <1>10, <2>2 DEF ActivateChecked
    <2> QED
        BY <1>1, <1>3, <1>9, <2>1, <2>3, <2>4
<1>11. ASSUME NEW p \in Procs, Exchange(p)
       PROVE  Elsewhere
    <2>1. proc[p].pc = "exchange" /\ Still
        BY <1>11 DEF Exchange
    <2>2. PICK s, q : /\ s = (IF proc[p].kind = "script" THEN "script" ELSE "serving")
                      /\ q = [proc[p] EXCEPT !.pc = s, !.token = Token(p)]
        OBVIOUS
    <2>3. q.pc = s /\ q.cred = proc[p].cred /\ s \in {"script", "serving"}
        BY <1>9, <2>2 DEF ProcsOver
    <2>4. Set(p, q) \/ Set(p, Off)
        BY <1>11, <2>2 DEF Exchange
    <2> QED
        BY <1>1, <1>3, <1>9, <2>1, <2>3, <2>4
<1>12. ASSUME NEW p \in Procs, NEW c \in Calls, RunScript(p, c)
       PROVE  Elsewhere
    <2>1. proc[p].pc = "script" /\ Still
        BY <1>12 DEF RunScript, Quiet, console
    <2>2. PICK q : q = [proc[p] EXCEPT !.pc = "running"]
        OBVIOUS
    <2>3. q.pc = "running" /\ q.cred = proc[p].cred /\ Set(p, q)
        BY <1>9, <1>12, <2>2 DEF ProcsOver, RunScript
    <2> QED
        BY <1>1, <1>9, <2>1, <2>3
<1>13. ASSUME NEW c \in Calls, Sign(c) \/ Fetch(c) \/ Rpc(c) \/ RequestFails(c) \/ RpcHangs(c) \/ Lands(c)
       PROVE  Elsewhere
    BY <1>2, <1>13 DEF Sign, Fetch, Rpc, RequestFails, RpcHangs, Lands, Quiet, console
<1>14. ASSUME NEW c \in Calls, Refresh(c)
       PROVE  Elsewhere
    <2>1. Still
        BY <1>14 DEF Refresh
    <2>2. PICK p : p = call[c].proc
        OBVIOUS
    <2>3. p \in Procs
        BY <1>14, <2>2 DEF Refresh, TokenInv, Attached, Active
    <2>4. PICK q : q = [proc[p] EXCEPT !.token = Token(p)]
        OBVIOUS
    <2>5. q.pc = proc[p].pc /\ q.cred = proc[p].cred /\ q.key = proc[p].key
        BY <1>9, <2>3, <2>4 DEF ProcsOver
    <2>6. Set(p, q) \/ UNCHANGED proc
        BY <1>14, <2>2, <2>4 DEF Refresh
    <2> QED
        BY <1>1, <1>2, <2>1, <2>3, <2>5, <2>6
<1>15. ASSUME NEW t, TokenExpires(t)
       PROVE  Elsewhere
    BY <1>2, <1>15 DEF TokenExpires
<1>16. CASE Host
    BY <1>4, <1>5, <1>6, <1>7, <1>8, <1>16 DEF Host, Boot, BootScript
<1> QED
    BY <1>7, <1>10, <1>11, <1>12, <1>13, <1>14, <1>15, <1>16 DEF Handling

\* The server takes the key of the process, which is about to write it.
LEMMA KeysActivated ==
    ASSUME NEW T, TypedOver(T), ConsoleOver(T), KInv, NEW p \in Procs, ActivateWritten(p)
    PROVE  ConsoleOver(T)' /\ KInv'
<1>1. PICK i, key : i = proc[p].cred /\ key = proc[p].key
    OBVIOUS
<1>2. /\ proc[p] \in ProcsOver(T) /\ proc \in [Procs -> ProcsOver(T)] /\ key \in T /\ proc[p].pc = "checked"
      /\ i \in Ids /\ cred[i].status # "none" /\ cred[i] \in CredsOver(T)
    <2>1. proc[p] \in ProcsOver(T) /\ proc \in [Procs -> ProcsOver(T)] /\ proc[p].pc = "checked" /\ BootInv(p)
        BY DEF TypedOver, KInv, ActivateWritten
    <2> QED
        BY <1>1, <2>1 DEF ProcsOver, BootInv, ConsoleOver
<1>3. PICK q, k : /\ q = [proc[p] EXCEPT !.pc = "store"]
                  /\ k = [cred[i] EXCEPT !.status = "active", !.key = key, !.secret = FALSE]
    OBVIOUS
<1>4. q.pc = "store" /\ q.cred = i /\ q.key = key
    BY <1>1, <1>2, <1>3 DEF ProcsOver
<1>5. k \in CredsOver(T) /\ k.status = "active" /\ k.key = key
    BY <1>2, <1>3 DEF CredsOver
<1>6. /\ cred' = IF cred[i].status = "gone" THEN cred ELSE [cred EXCEPT ![i] = k]
      /\ lost' = (IF cred[i].status = "pending" THEN lost ELSE lost \union {i})
      /\ proc' = [proc EXCEPT ![p] = q] /\ UNCHANGED <<page, op, env, file, daemon>>
    <2>1. [cred EXCEPT ![i].status = "active", ![i].key = proc[p].key, ![i].secret = FALSE] = [cred EXCEPT ![i] = k]
        BY <1>1, <1>2, <1>3 DEF ConsoleOver
    <2> QED
        BY <1>1, <1>3, <2>1 DEF ActivateWritten, Set
<1>7. /\ cred' \in [Ids -> CredsOver(T)] /\ \A j \in Ids \ {i} : cred'[j] = cred[j]
      /\ cred'[i] = IF cred[i].status = "gone" THEN cred[i] ELSE k
    BY <1>2, <1>5, <1>6 DEF ConsoleOver
<1>8. proc'[p] = q /\ \A r \in Procs \ {p} : proc'[r] = proc[r]
    BY <1>2, <1>6
<1>9. ConsoleOver(T)'
    BY <1>6, <1>7 DEF ConsoleOver
<1>10. ASSUME NEW j \in Ids
       PROVE  KeyInv(j)' /\ SecretInv(j)'
    <2>1. KeyInv(j) /\ SecretInv(j)
        BY DEF KInv
    <2>2. Known(j)' <=> Known(j)
        BY <1>6 DEF Known
    <2>3. SecretInv(j)'
        BY <1>2, <1>5, <1>7, <2>1, <2>2 DEF SecretInv
    <2>4. CASE j # i
        <3>1. cred'[j] = cred[j] /\ (j \in lost => j \in lost')
            BY <1>6, <1>7, <2>4
        <3>2. Filed(j)' <=> Filed(j)
            BY <1>6, <3>1 DEF Filed
        <3>3. \A r \in Procs : Carries(r, j) => Carries(r, j)'
            BY <1>2, <1>6, <1>8, <3>1 DEF Carries
        <3> QED
            BY <2>1, <2>2, <2>3, <3>1, <3>2, <3>3 DEF KeyInv, Live
    <2>5. CASE j = i /\ cred[i].status # "pending"
        BY <1>6, <2>3, <2>5 DEF KeyInv
    <2>6. CASE j = i /\ cred[i].status = "pending"
        <3>1. Carries(p, i)' /\ cred'[i].status = "active"
            BY <1>4, <1>5, <1>7, <1>8, <2>6 DEF Carries
        <3> QED
            BY <2>3, <2>6, <3>1 DEF KeyInv
    <2> QED
        BY <2>4, <2>5, <2>6
<1>11. ASSUME NEW r \in Procs
       PROVE  BootInv(r)'
    <2>1. BootInv(r)
        BY DEF KInv
    <2>2. CASE r = p
        <3>1. cred'[i].status = "gone" \/ (cred'[i].status = "active" /\ cred'[i].key = key)
            BY <1>5, <1>7
        <3> QED
            BY <1>2, <1>4, <1>8, <2>2, <3>1 DEF BootInv, Live
    <2>3. CASE r # p /\ proc[r].cred # i
        <3>1. proc'[r] = proc[r] /\ (proc[r].cred \in Ids => cred'[proc[r].cred] = cred[proc[r].cred])
            BY <1>7, <1>8, <2>3
        <3> QED
            BY <1>6, <2>1, <3>1 DEF BootInv, Live
    <2>4. CASE r # p /\ proc[r].cred = i
        <3>1. proc'[r] = proc[r] /\ cred'[i].status \in {"gone", "active"}
            BY <1>5, <1>7, <1>8, <2>4
        <3>2. proc[r].pc \in {"store", "half"} => i \in lost'
            BY <1>6, <2>1, <2>4 DEF BootInv
        <3> QED
            BY <1>2, <2>1, <2>4, <3>1, <3>2 DEF BootInv
    <2> QED
        BY <2>2, <2>3, <2>4
<1> QED
    BY <1>9, <1>10, <1>11 DEF KInv

\* The keystore file takes the key a process carries.
LEMMA KeysStored ==
    ASSUME NEW T, TypedOver(T), FilesOver(T), KInv, NEW p \in Procs, Store(p)
    PROVE  FilesOver(T)' /\ KInv'
<1>1. PICK i, key, q : i = proc[p].cred /\ key = proc[p].key /\ q = [proc[p] EXCEPT !.pc = "exchange"]
    OBVIOUS
<1>2. /\ proc[p] \in ProcsOver(T) /\ proc \in [Procs -> ProcsOver(T)] /\ key \in T /\ i \in Ids
      /\ cred[i].status \notin {"none", "pending"} /\ (i \in lost \/ ~Live(i) \/ cred[i].key = key)
    <2>1. proc[p] \in ProcsOver(T) /\ proc \in [Procs -> ProcsOver(T)] /\ proc[p].pc = "store" /\ BootInv(p)
        BY DEF TypedOver, KInv, Store
    <2> QED
        BY <1>1, <2>1 DEF ProcsOver, BootInv
<1>3. q.pc = "exchange" /\ q.cred = i /\ q.key = key
    BY <1>1, <1>2 DEF ProcsOver
<1>4. /\ file' = [file EXCEPT ![i] = key] /\ proc' = [proc EXCEPT ![p] = q]
      /\ UNCHANGED <<cred, page, op, env, lost, daemon>>
    BY <1>1 DEF Store, Set, Quiet, console
<1>5. /\ file' \in [Ids -> T] /\ file'[i] = key /\ \A j \in Ids \ {i} : file'[j] = file[j]
      /\ proc'[p] = q /\ \A r \in Procs \ {p} : proc'[r] = proc[r]
    BY <1>2, <1>4 DEF FilesOver
<1>6. FilesOver(T)'
    BY <1>4, <1>5 DEF FilesOver
<1>7. ASSUME NEW j \in Ids
      PROVE  KeyInv(j)' /\ SecretInv(j)'
    <2>1. KeyInv(j) /\ SecretInv(j)
        BY DEF KInv
    <2>2. (Known(j)' <=> Known(j)) /\ (Live(j)' <=> Live(j)) /\ SecretInv(j)'
        BY <1>4, <2>1 DEF Known, Live, SecretInv
    <2>3. CASE j # i
        <3>1. Filed(j)' <=> Filed(j)
            BY <1>4, <1>5, <2>3 DEF Filed
        <3>2. \A r \in Procs : Carries(r, j) => Carries(r, j)'
            BY <1>1, <1>4, <1>5, <2>3 DEF Carries
        <3> QED
            BY <1>4, <2>1, <2>2, <3>1, <3>2 DEF KeyInv
    <2>4. CASE j = i
        <3>1. i \in lost' \/ ~Live(i)' \/ (cred'[i].status = "active" /\ Filed(i)')
            BY <1>2, <1>4, <1>5 DEF Filed, Live
        <3> QED
            BY <2>2, <2>4, <3>1 DEF KeyInv
    <2> QED
        BY <2>3, <2>4
<1>8. ASSUME NEW r \in Procs
      PROVE  BootInv(r)'
    <2>1. BootInv(r)
        BY DEF KInv
    <2>2. CASE r = p
        BY <1>2, <1>3, <1>4, <1>5, <2>2 DEF BootInv
    <2>3. CASE r # p
        BY <1>4, <1>5, <2>1, <2>3 DEF BootInv, Live
    <2> QED
        BY <2>2, <2>3
<1> QED
    BY <1>6, <1>7, <1>8 DEF KInv

\* The files of the daemon directory, one after the other; what was there is lost.
LEMMA KeysDaemon ==
    ASSUME NEW T, TypedOver(T), FilesOver(T), KInv, NEW p \in Procs, StoreSigningKey(p) \/ StoreEncryptionKey(p)
    PROVE  FilesOver(T)' /\ KInv'
<1>1. PICK i, key, d : i = proc[p].cred /\ key = proc[p].key /\ d = [cred |-> i, key |-> key]
    OBVIOUS
<1>2. /\ proc[p] \in ProcsOver(T) /\ proc \in [Procs -> ProcsOver(T)] /\ key \in T /\ i \in Ids
      /\ cred[i].status \notin {"none", "pending"} /\ (i \in lost \/ ~Live(i) \/ cred[i].key = key)
      /\ proc[p].pc = "half" => i \in lost \/ daemon.signing = d
    <2>1. /\ proc[p] \in ProcsOver(T) /\ proc \in [Procs -> ProcsOver(T)] /\ proc[p].pc \in {"store", "half"}
          /\ BootInv(p)
        BY DEF TypedOver, KInv, StoreSigningKey, StoreEncryptionKey
    <2> QED
        BY <1>1, <2>1 DEF ProcsOver, BootInv
<1>3. d \in KeysOver(T) /\ d.cred = i
    BY <1>1, <1>2 DEF KeysOver
<1>4. /\ daemon \in [signing : KeysOver(T), encryption : KeysOver(T)]
      /\ daemon.signing.cred \in Ids \union {0} /\ daemon.encryption.cred \in Ids \union {0}
      /\ DOMAIN daemon = {"signing", "encryption"}
    BY DEF FilesOver, KeysOver
<1>5. ASSUME NEW name \in {"signing", "encryption"}, StoreDaemonKey(p, name)
      PROVE  /\ FilesOver(T)' /\ daemon'[name] = d /\ DOMAIN daemon' = {"signing", "encryption"}
             /\ lost' = lost \union ({daemon[name].cred} \ {0})
             /\ UNCHANGED <<cred, page, op, env, file>>
             /\ \A other \in {"signing", "encryption"} \ {name} : daemon'[other] = daemon[other]
    <2>1. daemon' = [daemon EXCEPT ![name] = d] /\ lost' = lost \union ({daemon[name].cred} \ {0})
        BY <1>1, <1>5 DEF StoreDaemonKey
    <2>2. UNCHANGED <<cred, page, op, env, file>>
        BY <1>5 DEF StoreDaemonKey
    <2> QED
        BY <1>3, <1>4, <2>1, <2>2 DEF FilesOver
\* Whoever's file is overwritten is in lost.
<1>6. ASSUME NEW name \in {"signing", "encryption"}, StoreDaemonKey(p, name), NEW j \in Ids
      PROVE  /\ Filed(j) => Filed(j)' \/ j \in lost'
             /\ SecretInv(j)' /\ (Known(j)' <=> Known(j)) /\ (Live(j)' <=> Live(j))
    <2>1. SecretInv(j)
        BY DEF KInv
    <2>2. SecretInv(j)' /\ (Known(j)' <=> Known(j)) /\ (Live(j)' <=> Live(j))
        BY <1>5, <1>6, <2>1 DEF SecretInv, Known, Live
    <2>3. CASE file[j] = cred[j].key
        BY <1>5, <1>6, <2>2, <2>3 DEF Filed
    <2>4. CASE \A f \in DOMAIN daemon : daemon[f] = [cred |-> j, key |-> cred[j].key]
        <3>1. daemon[name] = [cred |-> j, key |-> cred[j].key]
            BY <1>4, <2>4
        <3>2. daemon[name].cred = j
            BY <3>1
        <3> QED
            BY <1>5, <1>6, <2>2, <3>2, ZeroIsNoId
    <2> QED
        BY <2>2, <2>3, <2>4 DEF Filed
<1>7. CASE StoreSigningKey(p)
    <2>1. PICK q : q = [proc[p] EXCEPT !.pc = "half"]
        OBVIOUS
    <2>2. q.pc = "half" /\ q.cred = i /\ q.key = key
        BY <1>1, <1>2, <2>1 DEF ProcsOver
    <2>3. StoreDaemonKey(p, "signing") /\ proc' = [proc EXCEPT ![p] = q] /\ proc[p].pc = "store"
        BY <1>7, <2>1 DEF StoreSigningKey, Set
    <2>4. proc'[p] = q /\ \A r \in Procs \ {p} : proc'[r] = proc[r]
        BY <1>2, <2>3
    <2>5. /\ FilesOver(T)' /\ daemon'.signing = d /\ lost' = lost \union ({daemon.signing.cred} \ {0})
          /\ UNCHANGED <<cred, page, op, env, file>>
        BY <1>5, <2>3
    <2>6. ASSUME NEW j \in Ids
          PROVE  KeyInv(j)' /\ SecretInv(j)'
        <3>1. KeyInv(j)
            BY DEF KInv
        <3>2. ASSUME NEW r \in Procs, Carries(r, j)
              PROVE  Carries(r, j)' \/ j \in lost'
            <4>1. CASE r = p
                <5>1. j = i /\ key = cred[i].key
                    BY <1>1, <3>2, <4>1 DEF Carries
                <5> QED
                    BY <1>1, <2>2, <2>4, <2>5, <4>1, <5>1 DEF Carries
            <4>2. CASE r # p /\ proc[r].pc = "store"
                BY <2>4, <2>5, <3>2, <4>2 DEF Carries
            <4>3. CASE proc[r].pc = "half"
                <5>1. daemon.signing.cred = j
                    BY <3>2, <4>3 DEF Carries
                <5> QED
                    BY <2>5, <5>1, ZeroIsNoId
            <4> QED
                BY <3>2, <4>1, <4>2, <4>3 DEF Carries
        <3>3. /\ Filed(j) => Filed(j)' \/ j \in lost'
              /\ SecretInv(j)' /\ (Known(j)' <=> Known(j)) /\ (Live(j)' <=> Live(j))
            BY <1>6, <2>3
        <3> QED
            BY <2>5, <3>1, <3>2, <3>3 DEF KeyInv
    <2>7. ASSUME NEW r \in Procs
          PROVE  BootInv(r)'
        <3>1. BootInv(r)
            BY DEF KInv
        <3>2. CASE r = p
            BY <1>1, <1>2, <2>2, <2>4, <2>5, <3>2 DEF BootInv, Live
        <3>3. CASE r # p
            <4>1. proc[r].pc = "half" => proc[r].cred \in lost'
                <5>1. proc[r].pc = "half" => proc[r].cred \in Ids /\ (proc[r].cred \in lost \/ daemon.signing.cred = proc[r].cred)
                    BY <3>1 DEF BootInv
                <5> QED
                    BY <2>5, <5>1, ZeroIsNoId
            <4> QED
                BY <2>4, <2>5, <3>1, <3>3, <4>1 DEF BootInv, Live
        <3> QED
            BY <3>2, <3>3
    <2> QED
        BY <2>5, <2>6, <2>7 DEF KInv
<1>8. CASE StoreEncryptionKey(p)
    <2>1. StoreDaemonKey(p, "encryption") /\ proc' = [proc EXCEPT ![p] = Off] /\ proc[p].pc = "half"
        BY <1>8 DEF StoreEncryptionKey, Set
    <2>2. proc'[p] = Off /\ Off.pc = "off" /\ \A r \in Procs \ {p} : proc'[r] = proc[r]
        BY <1>2, <2>1 DEF Off
    <2>3. /\ FilesOver(T)' /\ daemon'.encryption = d /\ lost' = lost \union ({daemon.encryption.cred} \ {0})
          /\ UNCHANGED <<cred, page, op, env, file>> /\ daemon'.signing = daemon.signing
          /\ DOMAIN daemon' = {"signing", "encryption"}
        BY <1>5, <2>1
    <2>4. ASSUME NEW j \in Ids
          PROVE  KeyInv(j)' /\ SecretInv(j)'
        <3>1. KeyInv(j)
            BY DEF KInv
        <3>2. ASSUME NEW r \in Procs, Carries(r, j)
              PROVE  Carries(r, j)' \/ Filed(j)'
            <4>1. CASE r = p
                <5>1. j = i /\ key = cred[i].key /\ daemon.signing = d
                    BY <1>1, <2>1, <3>2, <4>1 DEF Carries
                <5>2. \A f \in DOMAIN daemon' : daemon'[f] = d
                    BY <2>3, <5>1
                <5> QED
                    BY <1>1, <2>3, <5>1, <5>2 DEF Filed
            <4>2. CASE r # p
                BY <2>2, <2>3, <3>2, <4>2 DEF Carries
            <4> QED
                BY <4>1, <4>2
        <3>3. /\ Filed(j) => Filed(j)' \/ j \in lost'
              /\ SecretInv(j)' /\ (Known(j)' <=> Known(j)) /\ (Live(j)' <=> Live(j))
            BY <1>6, <2>1
        <3> QED
            BY <2>3, <3>1, <3>2, <3>3 DEF KeyInv
    <2>5. ASSUME NEW r \in Procs
          PROVE  BootInv(r)'
        <3>1. BootInv(r)
            BY DEF KInv
        <3>2. CASE r = p
            BY <2>2, <3>2 DEF BootInv
        <3>3. CASE r # p
            BY <2>2, <2>3, <3>1, <3>3 DEF BootInv, Live
        <3> QED
            BY <3>2, <3>3
    <2> QED
        BY <2>3, <2>4, <2>5 DEF KInv
<1> QED
    BY <1>7, <1>8

\* A process that dies takes the key along.
LEMMA KeysCrash ==
    ASSUME NEW T, TypedOver(T), KInv, NEW p \in Procs, Crash(p)
    PROVE  KInv'
<1>1. /\ proc' = [proc EXCEPT ![p] = Off] /\ UNCHANGED <<cred, page, op, env, file, daemon>>
      /\ lost' = lost \union ({proc[p].cred} \cap {i \in Ids : proc[p].pc \in {"store", "half"}})
    BY DEF Crash, Stop, Set
<1>2. proc'[p] = Off /\ Off.pc = "off" /\ \A r \in Procs \ {p} : proc'[r] = proc[r]
    BY <1>1 DEF TypedOver, Off
<1>3. ASSUME NEW j \in Ids
      PROVE  KeyInv(j)' /\ SecretInv(j)'
    <2>1. KeyInv(j) /\ SecretInv(j)
        BY DEF KInv
    <2>2. /\ SecretInv(j)' /\ (Known(j)' <=> Known(j)) /\ (Live(j)' <=> Live(j)) /\ (Filed(j)' <=> Filed(j))
        BY <1>1, <2>1 DEF SecretInv, Known, Live, Filed
    <2>3. \A r \in Procs : Carries(r, j) => Carries(r, j)' \/ j \in lost'
        BY <1>1, <1>2 DEF Carries
    <2> QED
        BY <1>1, <2>1, <2>2, <2>3 DEF KeyInv
<1>4. ASSUME NEW r \in Procs
      PROVE  BootInv(r)'
    <2>1. BootInv(r)
        BY DEF KInv
    <2>2. CASE r = p
        BY <1>2, <2>2 DEF BootInv
    <2>3. CASE r # p
        BY <1>1, <1>2, <2>1, <2>3 DEF BootInv, Live
    <2> QED
        BY <2>2, <2>3
<1> QED
    BY <1>3, <1>4 DEF KInv

\* More values may be around.
LEMMA ConsoleUp ==
    ASSUME NEW T, NEW U, T \subseteq U, ConsoleOver(T), FilesOver(T)
    PROVE  ConsoleOver(U) /\ FilesOver(U)
<1>1. /\ \A k \in CredsOver(T) : k \in CredsOver(U)
      /\ \A k \in OpsOver(T) : k \in OpsOver(U)
      /\ \A k \in PagesOver(T) : k \in PagesOver(U)
    BY DEF CredsOver, OpsOver, PagesOver
<1>2. ConsoleOver(U)
    BY <1>1 DEF ConsoleOver
<1>3. \A k \in KeysOver(T) : k \in KeysOver(U)
    BY DEF KeysOver
<1>4. FilesOver(U)
    BY <1>3 DEF FilesOver
<1> QED
    BY <1>2, <1>4

\* Every step accounts for the keys.
LEMMA NextKeys ==
    ASSUME NEW T, TypedOver(T), ConsoleOver(T), FilesOver(T), KInv, \A c \in Calls : TokenInv(c),
           Agents \subseteq T, FirstOf(agents) \in T, Statuses \in T, Next
    PROVE  ConsoleOver(T)' /\ FilesOver(T)' /\ KInv'
<1>0. 0 \in T
    BY DEF TypedOver
<1>1. CASE Page
    <2>1. ConsoleNext /\ UNCHANGED <<file, daemon, proc>>
        BY <1>1 DEF Page
    <2>2. ConsoleOver(T)' /\ lost \subseteq lost' /\ \A i \in Ids : Moved(i)
        BY <1>0, <2>1, ConsoleMoves
    <2>3. KInv'
        BY <2>1, <2>2, KeysThroughConsole
    <2>4. FilesOver(T)'
        BY <2>1 DEF FilesOver
    <2> QED
        BY <2>2, <2>3, <2>4
<1>2. CASE Elsewhere
    <2>1. KInv'
        BY <1>2, KeysElsewhere
    <2>2. ConsoleOver(T)' /\ FilesOver(T)'
        BY <1>2 DEF Elsewhere, ConsoleOver, FilesOver
    <2> QED
        BY <2>1, <2>2
<1>3. ASSUME NEW p \in Procs, ActivateWritten(p)
      PROVE  ConsoleOver(T)' /\ FilesOver(T)' /\ KInv'
    <2>1. FilesOver(T)'
        BY <1>3 DEF ActivateWritten, FilesOver
    <2> QED
        BY <1>3, <2>1, KeysActivated
<1>4. ASSUME NEW p \in Procs, Store(p)
      PROVE  ConsoleOver(T)' /\ FilesOver(T)' /\ KInv'
    <2>1. ConsoleOver(T)'
        BY <1>4 DEF Store, Quiet, console, ConsoleOver
    <2> QED
        BY <1>4, <2>1, KeysStored
<1>5. ASSUME NEW p \in Procs, StoreSigningKey(p) \/ StoreEncryptionKey(p)
      PROVE  ConsoleOver(T)' /\ FilesOver(T)' /\ KInv'
    <2>1. ConsoleOver(T)'
        BY <1>5 DEF StoreSigningKey, StoreEncryptionKey, StoreDaemonKey, ConsoleOver
    <2> QED
        BY <1>5, <2>1, KeysDaemon
<1>6. ASSUME NEW p \in Procs, Crash(p)
      PROVE  ConsoleOver(T)' /\ FilesOver(T)' /\ KInv'
    <2>1. ConsoleOver(T)' /\ FilesOver(T)'
        BY <1>6 DEF Crash, ConsoleOver, FilesOver
    <2> QED
        BY <1>6, <2>1, KeysCrash
<1>7. CASE Host
    BY <1>2, <1>7, ElsewhereSteps
<1>8. CASE Failing
    BY <1>2, <1>6, <1>8, ElsewhereSteps DEF Failing
<1>9. CASE \E p \in Procs : Starting(p)
    BY <1>2, <1>3, <1>4, <1>5, <1>9, ElsewhereSteps DEF Starting
<1>10. CASE \E c \in Calls : Handling(c)
    BY <1>2, <1>10, ElsewhereSteps
<1> QED
    BY <1>1, <1>7, <1>8, <1>9, <1>10 DEF Next

AccountInv == RInv /\ KInv /\ \E T : ConsoleOver(T) /\ FilesOver(T)

\* The first credential's secret is copied, or its key is in a file.
LEMMA InitKeys == Init => KInv /\ \E T : ConsoleOver(T) /\ FilesOver(T)
<1> SUFFICES ASSUME Init PROVE KInv /\ \E T : ConsoleOver(T) /\ FilesOver(T)
    OBVIOUS
<1> DEFINE first(status, key) == [NoCred EXCEPT !.status = status, !.agent = FirstOf(Agents),
                                                !.key = key, !.secret = status = "pending"]
           q == [Off EXCEPT !.pc = "serving", !.cred = 1, !.key = 1, !.token = [id |-> 2, cred |-> 1]]
<1>1. PICK T : T = {0, 1, "none", FirstOf(Agents), Statuses}
    OBVIOUS
<1>2. 0 \in T /\ 1 \in T /\ "none" \in T /\ FirstOf(Agents) \in T /\ Statuses \in T
    BY <1>1
<1>3. PICK s, key, k : k = first(s, key) /\ s \in {"pending", "active"} /\ key \in {0, 1}
                       /\ cred = [[i \in Ids |-> NoCred] EXCEPT ![1] = k]
                       /\ \/ /\ s = "pending" /\ key = 0 /\ daemon = NoDaemon
                             /\ file = [i \in Ids |-> 0] /\ proc = [p \in Procs |-> Off]
                          \/ /\ s = "active" /\ key = 1 /\ daemon = NoDaemon
                             /\ file = [[i \in Ids |-> 0] EXCEPT ![1] = 1]
                             /\ proc = [[p \in Procs |-> Off] EXCEPT ![1] = q]
                          \/ /\ s = "active" /\ key = 1
                             /\ daemon = [f \in DOMAIN NoDaemon |-> [cred |-> 1, key |-> 1]]
                             /\ file = [i \in Ids |-> 0] /\ proc = [p \in Procs |-> Off]
    BY DEF Init
<1>4. k \in CredsOver(T) /\ k.status = s /\ k.key = key
    <2>1. (s = "pending") \in BOOLEAN /\ key \in T
        BY <1>2, <1>3
    <2> DEFINE b == s = "pending"
    <2>2. k = [NoCred EXCEPT !.status = s, !.agent = FirstOf(Agents), !.key = key, !.secret = b] /\ b \in BOOLEAN
        BY <1>3
    <2> HIDE DEF b
    <2> QED
        BY <1>2, <1>3, <2>1, <2>2 DEF NoCred, CredsOver
<1>5. NoCred \in CredsOver(T) /\ NoCred.status = "none"
    BY <1>2 DEF NoCred, CredsOver
<1>6. q.pc = "serving" /\ q.cred = 1 /\ Off.pc = "off"
    BY DEF Off
<1> HIDE DEF first, q
<1>7. 1 \in Ids /\ 0 \notin Ids
    BY ZeroIsNoId
<1>8. cred \in [Ids -> CredsOver(T)] /\ cred[1] = k /\ \A i \in Ids \ {1} : cred[i] = NoCred
    BY <1>3, <1>4, <1>5, <1>7
<1>9. op = {} /\ env = {1} /\ page \in PagesOver(T) /\ page.notice = 0
    <2>1. /\ page = [agent |-> FirstOf(Agents), notice |-> 0, list |-> Statuses, relabelled |-> {}]
          /\ op = {} /\ env = {1}
        BY DEF Init
    <2> QED
        BY <1>2, <2>1 DEF PagesOver
<1>10. ConsoleOver(T)
    BY <1>7, <1>8, <1>9 DEF ConsoleOver
<1>11. FilesOver(T)
    <2>1. file \in [Ids -> T]
        BY <1>2, <1>3, <1>7
    <2>2. [cred |-> 1, key |-> 1] \in KeysOver(T) /\ NoKeys \in KeysOver(T)
        BY <1>2, <1>7 DEF KeysOver, NoKeys
    <2>3. NoDaemon \in [signing : KeysOver(T), encryption : KeysOver(T)]
        BY <2>2 DEF NoDaemon
    <2>4. [f \in DOMAIN NoDaemon |-> [cred |-> 1, key |-> 1]] \in [signing : KeysOver(T), encryption : KeysOver(T)]
        <3>1. PICK d : d = [cred |-> 1, key |-> 1]
            OBVIOUS
        <3>2. [f \in DOMAIN NoDaemon |-> d] = [signing |-> d, encryption |-> d]
            BY DEF NoDaemon
        <3> QED
            BY <2>2, <3>1, <3>2
    <2> QED
        BY <1>3, <2>1, <2>3, <2>4 DEF FilesOver
<1>12. ASSUME NEW i \in Ids
       PROVE  KeyInv(i) /\ SecretInv(i)
    <2>1. Known(i) <=> i = 1
        BY <1>7, <1>9 DEF Known
    <2>2. CASE i # 1
        BY <1>5, <1>8, <2>1, <2>2 DEF KeyInv, SecretInv, Live
    <2>3. CASE i = 1
        <3>1. s = "active" => Filed(1)
            BY <1>3, <1>4, <1>7, <1>8 DEF Filed
        <3> QED
            BY <1>3, <1>4, <1>8, <2>1, <2>3, <3>1 DEF KeyInv, SecretInv
    <2> QED
        BY <2>2, <2>3
<1>13. ASSUME NEW p \in Procs
       PROVE  BootInv(p)
    <2>1. proc[p] = Off \/ proc[p] = q
        BY <1>3
    <2> QED
        BY <1>3, <1>4, <1>6, <1>7, <1>8, <2>1 DEF BootInv
<1> QED
    BY <1>10, <1>11, <1>12, <1>13 DEF KInv

\* A live credential can be used by somebody, unless an answer was lost, a notice
\* went unread, a process died before it wrote the key, two activations of one
\* secret crossed, or a second bootstrap overwrote the key files of the first.
THEOREM KeysAreAccounted == Spec => []KeysAccounted
<1>1. Init => AccountInv
    BY InitKeys, InitRuntime DEF AccountInv
<1>2. AccountInv /\ [Next]_vars => AccountInv'
    <2> SUFFICES ASSUME AccountInv, [Next]_vars PROVE AccountInv'
        OBVIOUS
    <2>1. RInv'
        BY NextRuntime DEF AccountInv
    <2>2. PICK S : TypedOver(S)
        BY DEF AccountInv, RInv, Types
    <2>3. PICK T : ConsoleOver(T) /\ FilesOver(T)
        BY DEF AccountInv
    <2>4. PICK U : U = S \union T \union Agents \union {FirstOf(agents), Statuses}
        OBVIOUS
    <2>5. S \subseteq U /\ T \subseteq U /\ Agents \subseteq U /\ FirstOf(agents) \in U /\ Statuses \in U
        BY <2>4
    <2>6. TypedOver(U) /\ ConsoleOver(U) /\ FilesOver(U)
        BY <2>2, <2>3, <2>5, TypesUp, ConsoleUp
    <2>7. CASE Next
        <3>1. ConsoleOver(U)' /\ FilesOver(U)' /\ KInv'
            BY <2>5, <2>6, <2>7, NextKeys DEF AccountInv, RInv
        <3> QED
            BY <2>1, <3>1 DEF AccountInv
    <2>8. CASE UNCHANGED vars
        <3>1. UNCHANGED <<cred, page, op, env, lost, file, daemon, proc>>
            BY <2>8 DEF vars, runtime, console
        <3>2. Elsewhere
            BY <3>1 DEF Elsewhere
        <3>3. KInv'
            BY <3>2, KeysElsewhere DEF AccountInv
        <3>4. ConsoleOver(U)' /\ FilesOver(U)'
            BY <2>6, <3>1 DEF ConsoleOver, FilesOver
        <3> QED
            BY <2>1, <3>3, <3>4 DEF AccountInv
    <2> QED
        BY <2>7, <2>8
<1>3. AccountInv => KeysAccounted
    <2> SUFFICES ASSUME AccountInv, NEW i \in Ids, Live(i), i \notin lost PROVE Reachable(i)
        BY DEF KeysAccounted
    <2>1. KeyInv(i)
        BY DEF AccountInv, KInv
    <2>2. CASE cred[i].status = "pending" /\ Known(i)
        BY <2>2 DEF Reachable, Known
    <2>3. CASE cred[i].status = "active" /\ Filed(i)
        BY <2>3 DEF Reachable, Filed
    <2>4. CASE cred[i].status = "active" /\ \E p \in Procs : Carries(p, i)
        BY <2>4 DEF Reachable, Carries
    <2> QED
        BY <2>1, <2>2, <2>3, <2>4 DEF KeyInv
<1> QED
    BY <1>1, <1>2, <1>3, PTL DEF Spec
=============================================================================
