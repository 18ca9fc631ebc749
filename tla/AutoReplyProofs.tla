---------------------------- MODULE AutoReplyProofs ----------------------------
(***************************************************************************)
(* Proofs about AutoReply, for any messages, tabs, mounts, policies and    *)
(* bounds: no message is stamped without an answer or a decision to leave  *)
(* it to the human, and a calm inbox answers a message at most once.       *)
(***************************************************************************)
EXTENDS AutoReply, TLAPS

-----------------------------------------------------------------------------
(* The shapes of the records, and what the executor knows of a message. *)

RunShape(r) ==
    /\ r = [pc |-> r.pc, todo |-> r.todo, cur |-> r.cur, rows |-> r.rows, policy |-> r.policy,
            master |-> r.master, contacts |-> r.contacts, calendar |-> r.calendar,
            cancelled |-> r.cancelled, reply |-> r.reply, posted |-> r.posted]
    /\ r.cancelled \in BOOLEAN /\ r.posted \in BOOLEAN
MountShape(md) ==
    /\ md = [open |-> md.open, run |-> md.run]
    /\ RunShape(md.run) /\ md.open \in BOOLEAN
CacheShape(c) ==
    c = [data |-> c.data, fetch |-> c.fetch, loaded |-> c.loaded, policy |-> c.policy,
         master |-> c.master]

\* Messages whose evaluation is over: their decision is final.
Evaluated == {m \in Msgs : row[m] # Undefined /\ m \notin evaluating}

AtMessage == {"calendar", "send", "mark", "hand"}

\* A pass deals with evaluated messages only, each once, and reaches the mark
\* behind a reply.
RunInv(r) ==
    /\ r.todo \subseteq Evaluated
    /\ r.pc \in AtMessage => r.cur \in Evaluated /\ r.cur \notin r.todo
    /\ r.pc = "mark" => replies[r.cur] > 0 /\ r.posted

MountInv(md) == MountShape(md) /\ RunInv(md.run)

\* What a list response names as eligible has been evaluated.
Known(rows) == EligibleMessages(rows) \subseteq Evaluated

Lists == [Msgs -> Entries \union {Undefined}]

CacheInv(c) ==
    /\ CacheShape(c)
    /\ c.fetch.state = "answered" => Known(c.fetch.rows) /\ c.fetch.rows \in Lists
    /\ c.data # Undefined => Known(c.data)

Tables ==
    /\ row \in Lists
    /\ evaluating \subseteq Msgs /\ \A m \in evaluating : row[m] = Unevaluated
    /\ replies \in [Msgs -> 0..2]
    /\ policy # Undefined => policy.default \in Actions
    /\ mount = [i \in Mounts |-> mount[i]] /\ cache = [t \in Tabs |-> cache[t]]

\* The inductive invariant of the executor.
ExecInv ==
    /\ Tables /\ StampedMeansAnswered
    /\ \A i \in Mounts : MountInv(mount[i])
    /\ \A t \in Tabs : CacheInv(cache[t])

\* A row that is eligible has been evaluated.
LEMMA CurrentRowsKnown == ASSUME Tables PROVE Known(row)
<1>1. ASSUME NEW m \in Msgs, EligibleEntry(row[m])
      PROVE  m \in Evaluated
    <2>1. row[m] # Unevaluated
        BY <1>1, AutoReplyAssumption DEF EligibleEntry, Unevaluated, Actions
    <2> QED
        BY <1>1, <2>1 DEF Evaluated, Tables, EligibleEntry
<1> QED
    BY <1>1 DEF Known, EligibleMessages

\* Evaluated messages stay so, and a posted reply stays posted: then what a mount
\* and a cache know stays true.
LEMMA KnowledgeKeeps ==
    ASSUME Evaluated \subseteq Evaluated', \A m \in Msgs : replies[m] > 0 => replies'[m] > 0
    PROVE  /\ \A md : MountInv(md) => MountInv(md)'
           /\ \A c : CacheInv(c) => CacheInv(c)'
<1>1. Evaluated \subseteq Msgs
    BY DEF Evaluated
<1>2. \A md : RunInv(md.run) => RunInv(md.run)'
    BY <1>1 DEF RunInv, AtMessage
<1>3. \A rows : Known(rows) => Known(rows)'
    BY DEF Known, EligibleMessages, EligibleEntry
<1> QED
    BY <1>2, <1>3 DEF MountInv, CacheInv

\* A step that gives mounts and caches values that know the truth, or leaves them.
LEMMA StepKeeps ==
    ASSUME ExecInv, Evaluated \subseteq Evaluated',
           \A m \in Msgs : replies[m] > 0 => replies'[m] > 0, Tables', StampedMeansAnswered',
           \A i \in Mounts : mount'[i] = mount[i] \/ \E md : mount'[i] = md /\ MountInv(md)',
           \A t \in Tabs : cache'[t] = cache[t] \/ \E c : cache'[t] = c /\ CacheInv(c)'
    PROVE  ExecInv'
<1>1. ASSUME NEW i \in Mounts PROVE MountInv(mount[i])'
    <2> PICK x : x = mount[i]
        OBVIOUS
    <2>1. MountInv(x)'
        BY KnowledgeKeeps DEF ExecInv
    <2>2. \E md : mount'[i] = md /\ MountInv(md)'
        BY <2>1
    <2> QED
        BY <2>2 DEF MountInv, MountShape, RunInv
<1>2. ASSUME NEW t \in Tabs PROVE CacheInv(cache[t])'
    <2> PICK x : x = cache[t]
        OBVIOUS
    <2>1. CacheInv(x)'
        BY KnowledgeKeeps DEF ExecInv
    <2>2. \E c : cache'[t] = c /\ CacheInv(c)'
        BY <2>1
    <2> QED
        BY <2>2 DEF CacheInv, CacheShape, Known
<1> QED
    BY <1>1, <1>2 DEF ExecInv

\* A step of the page, which leaves the server alone.
LEMMA PageMoves ==
    ASSUME ExecInv, UNCHANGED <<row, replies, handed, policy, evaluating>>,
           mount' = [i \in Mounts |-> mount'[i]], cache' = [t \in Tabs |-> cache'[t]],
           \A i \in Mounts : mount'[i] = mount[i] \/ \E md : mount'[i] = md /\ MountInv(md),
           \A t \in Tabs : cache'[t] = cache[t] \/ \E c : cache'[t] = c /\ CacheInv(c)
    PROVE  ExecInv'
<1>1. Evaluated' = Evaluated
    BY DEF Evaluated
<1>2. Tables' /\ StampedMeansAnswered'
    BY DEF ExecInv, Tables, StampedMeansAnswered, Lists
<1>3. /\ \A md : MountInv(md) => MountInv(md)'
      /\ \A c : CacheInv(c) => CacheInv(c)'
    BY <1>1, KnowledgeKeeps
<1>4. /\ \A i \in Mounts : mount'[i] = mount[i] \/ \E md : mount'[i] = md /\ MountInv(md)'
      /\ \A t \in Tabs : cache'[t] = cache[t] \/ \E c : cache'[t] = c /\ CacheInv(c)'
    BY <1>3
<1> QED
    BY <1>1, <1>2, <1>4, StepKeeps

\* A step of the server: mounts and caches stay as they are.
LEMMA ServerKeeps ==
    ASSUME ExecInv, UNCHANGED <<mount, cache>>, Evaluated \subseteq Evaluated',
           \A m \in Msgs : replies[m] > 0 => replies'[m] > 0, Tables', StampedMeansAnswered'
    PROVE  ExecInv'
BY StepKeeps

\* No pass, no mount and nothing cached.
LEMMA Blank ==
    /\ RunShape(NoRun) /\ RunInv(NoRun) /\ MountInv(Unmounted)
    /\ NoRun.pc = "none" /\ NoRun.todo = {} /\ ~NoRun.cancelled /\ ~NoRun.posted
    /\ Unmounted.run = NoRun /\ ~Unmounted.open
    /\ EmptyCache.fetch = NoFetch /\ EmptyCache.data = Undefined /\ CacheInv(EmptyCache)
    /\ NoFetch.state = "none" /\ Asked.state = "asked" /\ Asked # NoFetch
<1>1. /\ RunShape(NoRun) /\ RunInv(NoRun) /\ NoRun.pc = "none" /\ NoRun.todo = {}
      /\ ~NoRun.cancelled /\ ~NoRun.posted
    BY DEF NoRun, RunShape, RunInv, AtMessage
<1>2. Unmounted.run = NoRun /\ ~Unmounted.open /\ MountShape(Unmounted)
    BY <1>1 DEF Unmounted, MountShape
<1>3. EmptyCache.fetch = NoFetch /\ EmptyCache.data = Undefined /\ CacheShape(EmptyCache)
    BY DEF EmptyCache, CacheShape
<1>4. NoFetch.state = "none" /\ Asked.state = "asked"
    BY DEF NoFetch, Asked
<1> QED
    BY <1>1, <1>2, <1>3, <1>4 DEF MountInv, CacheInv

\* The pass an effect starts.
LEMMA NewRunFacts ==
    ASSUME NEW c
    PROVE  /\ RunShape(NewRun(c)) /\ NewRun(c).pc = "key"
           /\ NewRun(c).todo = EligibleMessages(c.data)
           /\ ~NewRun(c).cancelled /\ ~NewRun(c).posted /\ NewRun(c) # NoRun
<1>1. PICK b : b = ("contacts" \in c.loaded)
    OBVIOUS
<1>2. PICK e : e = EligibleMessages(c.data)
    OBVIOUS
<1>3. PICK r : r = [NoRun EXCEPT !.pc = "key", !.todo = e, !.rows = c.data,
                       !.policy = c.policy, !.master = c.master, !.contacts = b]
    OBVIOUS
<1>4. NewRun(c) = r
    BY <1>1, <1>2, <1>3, Zenon DEF NewRun
<1>5. RunShape(r) /\ r.pc = "key" /\ r.todo = e /\ ~r.cancelled /\ ~r.posted /\ r # NoRun
    BY <1>3 DEF NoRun, RunShape
<1> QED
    BY <1>2, <1>4, <1>5, Zenon

\* A mount with another pass.
LEMMA RunOf ==
    ASSUME NEW md, MountShape(md), NEW r, RunShape(r)
    PROVE  /\ MountShape([md EXCEPT !.run = r]) /\ [md EXCEPT !.run = r].run = r
           /\ [md EXCEPT !.run = r].open = md.open
BY DEF MountShape

\* A pass that is cancelled.
LEMMA CancelFacts ==
    ASSUME NEW r, RunShape(r), NEW k, k = [r EXCEPT !.cancelled = TRUE]
    PROVE  /\ RunShape(k) /\ k.cancelled /\ k.pc = r.pc /\ k.todo = r.todo
           /\ k.cur = r.cur /\ k.posted = r.posted
<1>1. /\ k = [pc |-> r.pc, todo |-> r.todo, cur |-> r.cur, rows |-> r.rows, policy |-> r.policy,
             master |-> r.master, contacts |-> r.contacts, calendar |-> r.calendar,
             cancelled |-> TRUE, reply |-> r.reply, posted |-> r.posted]
    BY DEF RunShape
<1> QED
    BY <1>1 DEF RunShape

\* What the effect does to a mount: nothing, it cancels the pass, or it starts one.
Affected(x, y, c) ==
    \/ y = x
    \/ y.open = x.open /\ x.run # NoRun /\ y.run = [x.run EXCEPT !.cancelled = TRUE] /\ MountShape(y)
    \/ /\ x.run = NoRun /\ x.open /\ y.open /\ y.run = NewRun(c) /\ c.data # Undefined
       /\ MountShape(y)

LEMMA EffectDoes ==
    ASSUME NEW md, MountShape(md), NEW c
    PROVE  Affected(md, AfterEffect(md, c), c)
<1>1. CASE ~md.open
    BY <1>1 DEF AfterEffect, Affected
<1>2. CASE md.open /\ md.run # NoRun
    <2> PICK r : r = [md.run EXCEPT !.cancelled = TRUE]
        OBVIOUS
    <2>1. RunShape(r)
        BY CancelFacts DEF MountShape
    <2>2. [md EXCEPT !.run.cancelled = TRUE] = [md EXCEPT !.run = r]
        OBVIOUS
    <2>3. AfterEffect(md, c) = [md EXCEPT !.run = r]
        BY <1>2, <2>2 DEF AfterEffect
    <2>4. MountShape([md EXCEPT !.run = r]) /\ [md EXCEPT !.run = r].run = r /\ [md EXCEPT !.run = r].open = md.open
        BY <2>1, RunOf
    <2> QED
        BY <1>2, <2>3, <2>4 DEF Affected
<1>3. CASE /\ md.open /\ md.run = NoRun /\ ~("agents" \notin c.loaded \/ c.data = Undefined)
           /\ EligibleMessages(c.data) # {}
    <2> PICK r : r = NewRun(c)
        OBVIOUS
    <2>1. RunShape(r)
        BY NewRunFacts
    <2>2. AfterEffect(md, c) = [md EXCEPT !.run = r]
        BY <1>3 DEF AfterEffect
    <2>3. MountShape([md EXCEPT !.run = r]) /\ [md EXCEPT !.run = r].run = r /\ [md EXCEPT !.run = r].open = md.open
        BY <2>1, RunOf
    <2> QED
        BY <1>3, <2>2, <2>3 DEF Affected
<1>4. CASE /\ md.open /\ md.run = NoRun
           /\ ("agents" \notin c.loaded \/ c.data = Undefined) \/ EligibleMessages(c.data) = {}
    BY <1>4 DEF AfterEffect, Affected
<1> QED
    BY <1>1, <1>2, <1>3, <1>4

\* Whatever it does, the mount knows the truth.
LEMMA AffectedKeeps ==
    ASSUME NEW x, MountInv(x), NEW y, NEW c, CacheInv(c), Affected(x, y, c)
    PROVE  MountInv(y)
<1>1. CASE y = x
    BY <1>1
<1>2. CASE y.run = [x.run EXCEPT !.cancelled = TRUE] /\ MountShape(y)
    BY <1>2, CancelFacts DEF MountInv, MountShape, RunInv
<1>3. CASE y.run = NewRun(c) /\ c.data # Undefined /\ MountShape(y)
    BY <1>3, NewRunFacts DEF MountInv, RunInv, AtMessage, CacheInv, Known
<1> QED
    BY <1>1, <1>2, <1>3 DEF Affected
-----------------------------------------------------------------------------
(* The steps of the page. *)

\* What a step of the page makes of the cache of its tab.
CacheTo(x, c) ==
    \/ c.data = x.data /\ (c.fetch = x.fetch \/ c.fetch = Asked)
    \/ c.data = x.data /\ x.fetch = Asked /\ c.fetch.state = "answered" /\ c.fetch.rows = row
       /\ c.fetch # NoFetch
    \/ x.fetch.state = "answered" /\ c.data = x.fetch.rows /\ c.fetch = NoFetch
    \/ c = EmptyCache
    \/ c.data = x.data /\ c.fetch = NoFetch /\ Fault

\* ... and of the mounts in it: the effect runs, as in a mount just opened, or the
\* mount is left, or it dies with its tab.
MountTo(x, y, c) ==
    \/ Affected(x, y, c)
    \/ x.run = NoRun /\ Affected([open |-> TRUE, run |-> NoRun], y, c)
    \/ ~y.open /\ y.run = Cancelled(x.run) /\ MountShape(y)
    \/ y = Unmounted /\ (x.run = NoRun \/ Fault)

\* A tab shows the page once.
OneOpen == \A i, j \in Mounts : TabOf[i] = TabOf[j] /\ mount[i].open /\ mount[j].open => i = j

\* ... and where the list is dropped, the passes of the tab are over.
PageTo(t, c) ==
    /\ cache' = [cache EXCEPT ![t] = c] /\ CacheShape(c) /\ CacheTo(cache[t], c)
    /\ mount' = [i \in Mounts |-> mount'[i]]
    /\ \A i \in Mounts : \/ mount'[i] = mount[i]
                         \/ TabOf[i] = t /\ MountTo(mount[i], mount'[i], c)
    /\ \/ c.data # Undefined \/ cache[t].data = Undefined
       \/ \A i \in Mounts : TabOf[i] = t => mount'[i].run = NoRun
    /\ OneOpen => OneOpen'
    /\ Leave

\* A cache with another request.
LEMMA FetchOf ==
    ASSUME NEW x, CacheShape(x), NEW f, NEW c, c = [x EXCEPT !.fetch = f]
    PROVE  CacheShape(c) /\ c.fetch = f /\ c.data = x.data /\ NewRun(c) = NewRun(x)
<1>1. /\ CacheShape(c) /\ c.fetch = f /\ c.data = x.data /\ c.loaded = x.loaded
      /\ c.policy = x.policy /\ c.master = x.master
    BY DEF CacheShape
<1>2. NewRun(c) = NewRun(x)
    BY <1>1, Zenon DEF NewRun
<1> QED
    BY <1>1, <1>2

\* A step that renders the tab again.
LEMMA RenderIsPage ==
    ASSUME ExecInv, NEW t \in Tabs, NEW c, CacheShape(c), CacheTo(cache[t], c), Render(t, c), Leave,
           c.data # Undefined \/ cache[t].data = Undefined
    PROVE  PageTo(t, c)
<1>1. ASSUME NEW i \in Mounts, TabOf[i] = t
      PROVE  MountTo(mount[i], mount'[i], c) /\ (mount'[i].open => mount[i].open)
    <2> PICK x : x = mount[i]
        OBVIOUS
    <2>1. MountShape(x) /\ mount'[i] = AfterEffect(x, c)
        BY <1>1 DEF ExecInv, MountInv, Render
    <2>2. Affected(x, mount'[i], c)
        BY <2>1, EffectDoes
    <2>3. mount'[i].open => x.open
        BY <2>2 DEF Affected
    <2> QED
        BY <2>2, <2>3 DEF MountTo
<1>2. \A i \in Mounts : TabOf[i] # t => mount'[i] = mount[i]
    BY DEF Render
<1>3. OneOpen => OneOpen'
    BY <1>1, <1>2 DEF OneOpen
<1> QED
    BY <1>1, <1>2, <1>3 DEF PageTo, Render

\* A step that changes the request only.
LEMMA RequestIsPage ==
    ASSUME ExecInv, NEW t \in Tabs, NEW f, cache' = [cache EXCEPT ![t].fetch = f], Leave,
           UNCHANGED mount,
           \/ f = cache[t].fetch
           \/ f = Asked
           \/ f = NoFetch /\ Fault
           \/ cache[t].fetch = Asked /\ f = [state |-> "answered", rows |-> row]
    PROVE  \E c : PageTo(t, c)
<1> PICK x : x = cache[t]
    OBVIOUS
<1> PICK c : c = [x EXCEPT !.fetch = f]
    OBVIOUS
<1>1. CacheShape(x)
    BY DEF ExecInv, CacheInv
<1>2. CacheShape(c) /\ c.fetch = f /\ c.data = x.data
    BY <1>1, FetchOf
<1>3. cache' = [cache EXCEPT ![t] = c]
    OBVIOUS
<1>4. [state |-> "answered", rows |-> row] # NoFetch
    BY DEF NoFetch
<1>5. CacheTo(x, c)
    BY <1>2, <1>4 DEF CacheTo
<1>6. mount' = [i \in Mounts |-> mount'[i]]
    BY DEF ExecInv, Tables
<1> QED
    BY <1>2, <1>3, <1>5, <1>6 DEF PageTo, OneOpen

LEMMA OpenIsPage ==
    ASSUME ExecInv, NEW i \in Mounts, Open(i)
    PROVE  \E t \in Tabs : \E c : PageTo(t, c)
<1> PICK t : t = TabOf[i]
    OBVIOUS
<1>0. t \in Tabs
    BY AutoReplyAssumption
<1> PICK x : x = cache[t]
    OBVIOUS
<1> PICK f : f = IF x.fetch = NoFetch THEN Asked ELSE x.fetch
    OBVIOUS
<1> PICK o : o = [open |-> TRUE, run |-> NoRun]
    OBVIOUS
<1>1. MountShape(o) /\ CacheShape(x)
    BY <1>0, Blank DEF MountShape, ExecInv, CacheInv
<1>2. /\ mount' = [mount EXCEPT ![i] = AfterEffect(o, x)] /\ mount[i].run = NoRun /\ Leave
      /\ cache' = [cache EXCEPT ![t].fetch = f] \/ cache' = cache
    BY DEF Open
<1>3. Affected(o, AfterEffect(o, x), x)
    BY <1>1, EffectDoes
<1>4. \A j \in Mounts : mount'[j] = IF j = i THEN AfterEffect(o, x) ELSE mount[j]
    BY <1>2 DEF ExecInv, Tables
<1>5. mount' = [j \in Mounts |-> mount'[j]]
    BY <1>2 DEF ExecInv, Tables
<1>6. ASSUME NEW c, c.data = x.data, NewRun(c) = NewRun(x), CacheShape(c), CacheTo(x, c),
             cache' = [cache EXCEPT ![t] = c]
      PROVE  PageTo(t, c)
    <2>1. Affected(o, AfterEffect(o, x), c)
        BY <1>3, <1>6, Zenon DEF Affected
    <2>2. OneOpen => OneOpen'
        BY <1>4 DEF Open, MountsOf, OneOpen
    <2> QED
        BY <1>2, <1>4, <1>5, <1>6, <2>1, <2>2 DEF PageTo, MountTo
<1>7. CASE cache' = cache
    <2>1. cache' = [cache EXCEPT ![t] = x] /\ CacheTo(x, x)
        BY <1>0, <1>7 DEF CacheTo, ExecInv, Tables
    <2> QED
        BY <1>0, <1>1, <1>6, <2>1
<1>8. CASE cache' = [cache EXCEPT ![t].fetch = f]
    <2> PICK c : c = [x EXCEPT !.fetch = f]
        OBVIOUS
    <2>1. CacheShape(c) /\ c.fetch = f /\ c.data = x.data /\ NewRun(c) = NewRun(x)
        BY <1>1, FetchOf
    <2>2. cache' = [cache EXCEPT ![t] = c] /\ CacheTo(x, c)
        BY <1>8, <2>1 DEF CacheTo
    <2> QED
        BY <1>0, <1>6, <2>1, <2>2
<1> QED
    BY <1>2, <1>7, <1>8

LEMMA CloseIsPage ==
    ASSUME ExecInv, NEW i \in Mounts, Close(i)
    PROVE  \E t \in Tabs : \E c : PageTo(t, c)
<1> PICK t : t = TabOf[i]
    OBVIOUS
<1> PICK x : x = cache[t]
    OBVIOUS
<1> PICK r : r = Cancelled(mount[i].run)
    OBVIOUS
<1> PICK y : y = [open |-> FALSE, run |-> r]
    OBVIOUS
<1>0. t \in Tabs
    BY AutoReplyAssumption
<1>1. RunShape(r)
    BY Blank, CancelFacts DEF Cancelled, ExecInv, MountInv, MountShape
<1>2. ~y.open /\ y.run = r /\ MountShape(y)
    BY <1>1 DEF MountShape
<1>3. mount' = [mount EXCEPT ![i] = y] /\ cache' = cache /\ Leave
    BY DEF Close
<1>4. \A j \in Mounts : mount'[j] = IF j = i THEN y ELSE mount[j]
    BY <1>3 DEF ExecInv, Tables
<1>5. mount' = [j \in Mounts |-> mount'[j]] /\ cache' = [cache EXCEPT ![t] = x]
    BY <1>0, <1>3 DEF ExecInv, Tables
<1>6. CacheShape(x) /\ CacheTo(x, x)
    BY <1>0 DEF CacheTo, ExecInv, CacheInv
<1>7. OneOpen => OneOpen'
    BY <1>2, <1>4 DEF OneOpen
<1>8. PageTo(t, x)
    BY <1>2, <1>3, <1>4, <1>5, <1>6, <1>7 DEF PageTo, MountTo
<1> QED
    BY <1>0, <1>8

LEMMA ReloadIsPage ==
    ASSUME ExecInv, NEW t \in Tabs, Reload(t)
    PROVE  \E c : PageTo(t, c)
<1>1. CacheShape(EmptyCache) /\ CacheTo(cache[t], EmptyCache)
    BY Blank DEF CacheInv, CacheTo
<1>2. ASSUME NEW i \in Mounts, TabOf[i] = t
      PROVE  MountTo(mount[i], mount'[i], EmptyCache)
    <2>1. mount'[i] = Unmounted /\ (mount[i].run = NoRun \/ Fault)
        BY <1>2 DEF Reload, MountsOf
    <2> QED
        BY <2>1 DEF MountTo
<1>3. \A i \in Mounts : mount'[i] = IF TabOf[i] = t THEN Unmounted ELSE mount[i]
    BY DEF Reload
<1>4. (OneOpen => OneOpen') /\ \A i \in Mounts : TabOf[i] = t => mount'[i].run = NoRun
    BY <1>3, Blank DEF OneOpen
<1>5. PageTo(t, EmptyCache)
    BY <1>1, <1>2, <1>4 DEF PageTo, Reload
<1> QED
    BY <1>5

LEMMA ArrivalIsPage ==
    ASSUME ExecInv, NEW t \in Tabs,
           ListArrives(t) \/ AgentsArrive(t) \/ PolicyArrives(t) \/ ContactsArrive(t)
    PROVE  \E c : PageTo(t, c)
<1> PICK x : x = cache[t]
    OBVIOUS
<1>1. CacheShape(x)
    BY DEF ExecInv, CacheInv
<1>2. CASE ListArrives(t)
    <2> PICK c : c = [x EXCEPT !.fetch = NoFetch, !.data = x.fetch.rows]
        OBVIOUS
    <2> PICK d : d = x.fetch.rows
        OBVIOUS
    <2>0. c = [x EXCEPT !.fetch = NoFetch, !.data = d]
        OBVIOUS
    <2>1. CacheShape(c) /\ c.fetch = NoFetch /\ c.data = x.fetch.rows
        BY <1>1, <2>0 DEF CacheShape
    <2>2. x.fetch.state = "answered" /\ Leave /\ CacheTo(x, c)
        BY <1>2, <2>1 DEF ListArrives, CacheTo
    <2>3. c.data # Undefined
        BY <2>1, <2>2, AutoReplyAssumption DEF ExecInv, CacheInv, Lists
    <2>4. CASE Render(t, c)
        BY <2>1, <2>2, <2>3, <2>4, RenderIsPage
    <2>5. CASE cache' = [cache EXCEPT ![t] = c] /\ UNCHANGED mount
        BY <2>1, <2>2, <2>3, <2>5 DEF PageTo, ExecInv, Tables, OneOpen
    <2> QED
        BY <1>2, <2>4, <2>5 DEF ListArrives
<1>3. ASSUME NEW c, CacheShape(c), c.fetch = x.fetch, c.data = x.data, Render(t, c), Leave
      PROVE  \E d : PageTo(t, d)
    <2>1. CacheTo(x, c)
        BY <1>3 DEF CacheTo
    <2> QED
        BY <1>3, <2>1, RenderIsPage
<1>4. CASE AgentsArrive(t)
    <2> PICK c : c = [x EXCEPT !.loaded = @ \cup {"agents"}, !.master = master]
        OBVIOUS
    <2>1. CacheShape(c) /\ c.fetch = x.fetch /\ c.data = x.data
        BY <1>1 DEF CacheShape
    <2> QED
        BY <1>3, <1>4, <2>1 DEF AgentsArrive
<1>5. CASE PolicyArrives(t)
    <2> PICK c : c = [x EXCEPT !.loaded = @ \cup {"policy"}, !.policy = policy]
        OBVIOUS
    <2>1. CacheShape(c) /\ c.fetch = x.fetch /\ c.data = x.data
        BY <1>1 DEF CacheShape
    <2> QED
        BY <1>3, <1>5, <2>1 DEF PolicyArrives
<1>6. CASE ContactsArrive(t)
    <2> PICK c : c = [x EXCEPT !.loaded = @ \cup {"contacts"}]
        OBVIOUS
    <2>1. CacheShape(c) /\ c.fetch = x.fetch /\ c.data = x.data
        BY <1>1 DEF CacheShape
    <2> QED
        BY <1>3, <1>6, <2>1 DEF ContactsArrive
<1> QED
    BY <1>2, <1>4, <1>5, <1>6

\* The steps of the page, all of them.
PageAction(t) ==
    \/ Reload(t) \/ Refresh(t) \/ ListServed(t) \/ ListFails(t) \/ ListArrives(t)
    \/ AgentsArrive(t) \/ PolicyArrives(t) \/ ContactsArrive(t)

LEMMA PageActions ==
    ASSUME ExecInv, \/ \E i \in Mounts : Open(i) \/ Close(i)
                    \/ \E t \in Tabs : PageAction(t)
    PROVE  \E t \in Tabs : \E c : PageTo(t, c)
<1>1. ASSUME NEW t \in Tabs, PageAction(t) PROVE \E c : PageTo(t, c)
    <2>1. CASE Refresh(t)
        BY <2>1, RequestIsPage DEF Refresh
    <2>2. CASE ListServed(t)
        BY <2>2, RequestIsPage DEF ListServed
    <2>3. CASE ListFails(t)
        BY <2>3, RequestIsPage DEF ListFails
    <2> QED
        BY <1>1, <2>1, <2>2, <2>3, ReloadIsPage, ArrivalIsPage DEF PageAction
<1> QED
    BY <1>1, OpenIsPage, CloseIsPage

\* They leave mounts and caches with the truth.
LEMMA PageKeeps ==
    ASSUME ExecInv, NEW t \in Tabs, NEW c, PageTo(t, c)
    PROVE  ExecInv'
<1> PICK x : x = cache[t]
    OBVIOUS
<1>1. CacheInv(x) /\ CacheShape(c) /\ CacheTo(x, c) /\ row \in Lists
    BY DEF ExecInv, PageTo, Tables
<1>2. CacheInv(c)
    <2>1. CASE c = EmptyCache
        BY <2>1, Blank
    <2>2. CASE c # EmptyCache
        BY <1>1, <2>2, Blank, CurrentRowsKnown DEF CacheTo, CacheInv, ExecInv
    <2> QED
        BY <2>1, <2>2
<1>3. ASSUME NEW i \in Mounts, MountTo(mount[i], mount'[i], c)
      PROVE  \E md : mount'[i] = md /\ MountInv(md)
    <2> PICK u : u = mount[i]
        OBVIOUS
    <2> PICK y : y = mount'[i]
        OBVIOUS
    <2> PICK o : o = [open |-> TRUE, run |-> NoRun]
        OBVIOUS
    <2>1. MountInv(u) /\ MountInv(o)
        BY Blank DEF ExecInv, MountInv, MountShape
    <2>2. CASE Affected(u, y, c)
        BY <1>2, <2>1, <2>2, AffectedKeeps
    <2>3. CASE Affected(o, y, c)
        BY <1>2, <2>1, <2>3, AffectedKeeps
    <2>4. CASE y.run = Cancelled(u.run) /\ MountShape(y)
        <3>1. RunInv(Cancelled(u.run))
            BY <2>1, Blank, CancelFacts DEF Cancelled, MountInv, MountShape, RunInv
        <3> QED
            BY <2>4, <3>1 DEF MountInv
    <2>5. CASE y = Unmounted
        BY <2>5, Blank
    <2> QED
        BY <1>3, <2>2, <2>3, <2>4, <2>5 DEF MountTo
<1>4. \A u \in Tabs : cache'[u] = IF u = t THEN c ELSE cache[u]
    BY DEF PageTo, ExecInv, Tables
<1>5. cache' = [u \in Tabs |-> cache'[u]] /\ mount' = [i \in Mounts |-> mount'[i]]
    BY DEF PageTo, ExecInv, Tables
<1>6. UNCHANGED <<row, replies, handed, policy, evaluating>>
    BY DEF PageTo, Leave
<1>7. \A i \in Mounts : mount'[i] = mount[i] \/ \E md : mount'[i] = md /\ MountInv(md)
    BY <1>3 DEF PageTo
<1>8. \A u \in Tabs : cache'[u] = cache[u] \/ \E d : cache'[u] = d /\ CacheInv(d)
    BY <1>2, <1>4
<1> QED
    BY <1>5, <1>6, <1>7, <1>8, PageMoves
-----------------------------------------------------------------------------
(* The steps of a pass. *)

\* What a step leaves of the pass it continues.
Continues(i, r) == SetRun(i, r) /\ RunShape(r) /\ r.cancelled = Run(i).cancelled

\* Reading the key, choosing a message, asking the calendar: a pass that goes on
\* without telling the server has the same messages before it, or one less,
\* which it then is at.
Thinks(i, r) ==
    /\ Continues(i, r) /\ Run(i).pc \in {"key", "next", "calendar"}
    /\ r.posted = Run(i).posted
    /\ \/ r.todo = Run(i).todo /\ r.pc = "next"
       \/ r.todo = Run(i).todo /\ r.pc \in {"send", "hand"} /\ r.cur = Run(i).cur
          /\ Run(i).pc = "calendar"
       \/ \E m \in Run(i).todo :
             /\ r.todo = Run(i).todo \ {m}
             /\ r.pc = "next" \/ (r.pc \in {"calendar", "send", "hand"} /\ r.cur = m)

\* The next message is looked at.
LEMMA EvaluateThinks ==
    ASSUME NEW i, RunShape(Run(i)), NEW m, RunEvaluate(i, m)
    PROVE  \E r : Thinks(i, r)
<1> PICK x : x = Run(i)
    OBVIOUS
<1> PICK y : y = [x EXCEPT !.todo = @ \ {m}]
    OBVIOUS
<1>0. x.pc = "next" /\ m \in x.todo
    BY DEF RunEvaluate
<1>1. /\ RunShape(y) /\ y.todo = x.todo \ {m} /\ y.pc = "next" /\ y.cancelled = x.cancelled /\ y.posted = x.posted
    BY <1>0 DEF RunShape
<1>2. ASSUME NEW pc \in {"calendar", "send", "hand"}, SetRun(i, [y EXCEPT !.pc = pc, !.cur = m])
      PROVE  \E r : Thinks(i, r)
    <2> PICK r : r = [y EXCEPT !.pc = pc, !.cur = m]
        OBVIOUS
    <2>1. RunShape(r) /\ r.pc = pc /\ r.cur = m /\ r.todo = y.todo /\ r.cancelled = y.cancelled /\ r.posted = y.posted
        BY <1>1 DEF RunShape
    <2>2. Thinks(i, r)
        BY <2>1, <1>0, <1>1, <1>2 DEF Thinks, Continues
    <2> QED
        BY <2>2
<1>3. ASSUME NEW p, SetRun(i, [y EXCEPT !.pc = "send", !.cur = m, !.reply = p])
      PROVE  \E r : Thinks(i, r)
    <2> PICK r : r = [y EXCEPT !.pc = "send", !.cur = m, !.reply = p]
        OBVIOUS
    <2>1. RunShape(r) /\ r.pc = "send" /\ r.cur = m /\ r.todo = y.todo /\ r.cancelled = y.cancelled /\ r.posted = y.posted
        BY <1>1 DEF RunShape
    <2>2. Thinks(i, r)
        BY <2>1, <1>0, <1>1, <1>3 DEF Thinks, Continues
    <2> QED
        BY <2>2
<1>4. ASSUME SetRun(i, y)
      PROVE  \E r : Thinks(i, r)
    BY <1>0, <1>1, <1>4 DEF Thinks, Continues
<1>5. \/ SetRun(i, y)
      \/ \E pc \in {"calendar", "hand"} : SetRun(i, [y EXCEPT !.pc = pc, !.cur = m])
      \/ \E p : SetRun(i, [y EXCEPT !.pc = "send", !.cur = m, !.reply = p])
    BY Zenon DEF RunEvaluate
<1> QED
    BY <1>2, <1>3, <1>4, <1>5

\* The other steps that only think: the key is found, the calendar answers, a
\* content or the calendar cannot be fetched.
LEMMA OthersThink ==
    ASSUME NEW i, RunShape(Run(i)),
           \/ RunKey(i) /\ ~Run(i).cancelled
           \/ RunCalendar(i) \/ RunCalendarFails(i) \/ \E m \in Msgs : RunFetchFails(i, m)
    PROVE  \E r : Thinks(i, r)
<1> PICK x : x = Run(i)
    OBVIOUS
<1>1. CASE RunKey(i) /\ ~Run(i).cancelled
    <2> PICK b : SetRun(i, [x EXCEPT !.pc = "next", !.calendar = b])
        BY <1>1 DEF RunKey
    <2> PICK r : r = [x EXCEPT !.pc = "next", !.calendar = b]
        OBVIOUS
    <2>1. RunShape(r) /\ r.pc = "next" /\ r.todo = x.todo /\ r.cancelled = x.cancelled /\ r.posted = x.posted
        BY DEF RunShape
    <2>2. x.pc = "key"
        BY <1>1 DEF RunKey
    <2> QED
        BY <2>1, <2>2 DEF Thinks, Continues
<1>2. CASE RunCalendar(i)
    <2>0. x.pc = "calendar"
        BY <1>2 DEF RunCalendar
    <2>1. \/ SetRun(i, [x EXCEPT !.pc = "hand"])
          \/ \E p : SetRun(i, [x EXCEPT !.pc = "send", !.reply = p])
        BY <1>2 DEF RunCalendar
    <2>2. CASE SetRun(i, [x EXCEPT !.pc = "hand"])
        <3> PICK r : r = [x EXCEPT !.pc = "hand"]
            OBVIOUS
        <3>1. /\ RunShape(r) /\ r.pc = "hand" /\ r.todo = x.todo /\ r.cancelled = x.cancelled /\ r.posted = x.posted
              /\ r.cur = x.cur
            BY DEF RunShape
        <3> QED
            BY <2>0, <2>2, <3>1 DEF Thinks, Continues
    <2>3. CASE \E p : SetRun(i, [x EXCEPT !.pc = "send", !.reply = p])
        <3> PICK p : SetRun(i, [x EXCEPT !.pc = "send", !.reply = p])
            BY <2>3
        <3> PICK r : r = [x EXCEPT !.pc = "send", !.reply = p]
            OBVIOUS
        <3>1. /\ RunShape(r) /\ r.pc = "send" /\ r.todo = x.todo /\ r.cancelled = x.cancelled /\ r.posted = x.posted
              /\ r.cur = x.cur
            BY DEF RunShape
        <3> QED
            BY <2>0, <3>1 DEF Thinks, Continues
    <2> QED
        BY <2>1, <2>2, <2>3
<1>3. CASE RunCalendarFails(i)
    <2> PICK r : r = [x EXCEPT !.pc = "next", !.cur = Undefined, !.reply = Undefined]
        OBVIOUS
    <2>1. RunShape(r) /\ r.pc = "next" /\ r.todo = x.todo /\ r.cancelled = x.cancelled /\ r.posted = x.posted
        BY DEF RunShape
    <2>2. SetRun(i, r) /\ x.pc = "calendar"
        BY <1>3 DEF RunCalendarFails, Advance
    <2> QED
        BY <2>1, <2>2 DEF Thinks, Continues
<1>4. CASE \E m \in Msgs : RunFetchFails(i, m)
    <2> PICK m \in Msgs : RunFetchFails(i, m)
        BY <1>4
    <2> PICK r : r = [x EXCEPT !.todo = @ \ {m}]
        OBVIOUS
    <2>0. x.pc = "next" /\ m \in x.todo /\ SetRun(i, r)
        BY DEF RunFetchFails
    <2>1. RunShape(r) /\ r.pc = "next" /\ r.todo = x.todo \ {m} /\ r.cancelled = x.cancelled /\ r.posted = x.posted
        BY <2>0 DEF RunShape
    <2> QED
        BY <2>0, <2>1 DEF Thinks, Continues
<1> QED
    BY <1>1, <1>2, <1>3, <1>4
\* The mount whose pass continues, and the rest of the page.
LEMMA ContinueFacts ==
    ASSUME ExecInv, NEW i \in Mounts, NEW r, SetRun(i, r), RunShape(r)
    PROVE  \E md : /\ \A j \in Mounts : mount'[j] = IF j = i THEN md ELSE mount[j]
                   /\ mount' = [j \in Mounts |-> mount'[j]]
                   /\ MountShape(md) /\ md.run = r /\ md.open = mount[i].open
                   /\ UNCHANGED <<master, policy, evaluating, edits, cache>>
<1> PICK x : x = mount[i]
    OBVIOUS
<1> PICK md : md = [x EXCEPT !.run = r]
    OBVIOUS
<1>1. MountShape(x)
    BY DEF ExecInv, MountInv
<1>2. MountShape(md) /\ md.run = r /\ md.open = x.open
    BY <1>1, RunOf
<1>3. mount' = [mount EXCEPT ![i] = md] /\ UNCHANGED <<master, policy, evaluating, edits, cache>>
    BY DEF SetRun
<1>4. /\ mount' = [j \in Mounts |-> mount'[j]]
      /\ \A j \in Mounts : mount'[j] = IF j = i THEN md ELSE mount[j]
    BY <1>3 DEF ExecInv, Tables
<1> QED
    BY <1>2, <1>3, <1>4

\* A pass was given r, and the server what the step tells it.
LEMMA ContinueKeeps ==
    ASSUME ExecInv, NEW i \in Mounts, NEW r, SetRun(i, r), RunShape(r), RunInv(r)',
           Evaluated \subseteq Evaluated', \A m \in Msgs : replies[m] > 0 => replies'[m] > 0,
           Tables', StampedMeansAnswered'
    PROVE  ExecInv'
<1> PICK md : /\ \A j \in Mounts : mount'[j] = IF j = i THEN md ELSE mount[j]
              /\ MountShape(md) /\ md.run = r /\ UNCHANGED cache
    BY ContinueFacts
<1>1. MountInv(md)'
    BY DEF MountInv, RunInv
<1> QED
    BY <1>1, StepKeeps

\* A pass that thinks keeps what it knows.
LEMMA ThinkingKeeps ==
    ASSUME ExecInv, NEW i \in Mounts, NEW r, Thinks(i, r), UNCHANGED <<row, replies, handed>>
    PROVE  ExecInv'
<1>0. RunInv(Run(i)) /\ SetRun(i, r) /\ RunShape(r)
    BY DEF ExecInv, MountInv, Run, Thinks, Continues
<1>1. mount' = [j \in Mounts |-> mount'[j]] /\ UNCHANGED <<policy, evaluating, cache>>
    BY <1>0, ContinueFacts
<1>2. Tables' /\ StampedMeansAnswered' /\ Evaluated' = Evaluated
    BY <1>1 DEF ExecInv, Tables, StampedMeansAnswered, Evaluated, Lists
<1>3. RunInv(r)
    BY <1>0 DEF RunInv, Thinks, AtMessage
<1>4. RunInv(r)'
    BY <1>2, <1>3 DEF RunInv
<1> QED
    BY <1>0, <1>2, <1>4, ContinueKeeps

\* The end of a pass.
LEMMA FinishFacts ==
    ASSUME ExecInv, NEW i \in Mounts, Finish(i)
    PROVE  /\ UNCHANGED <<master, policy, evaluating, edits>> /\ TabOf[i] \in Tabs
           /\ mount' = [j \in Mounts |-> mount'[j]]
           /\ \A j \in Mounts \ {i} : mount'[j] = mount[j]
           /\ mount'[i].run = NoRun /\ mount'[i].open = mount[i].open /\ MountShape(mount'[i])
           /\ Run(i).cancelled => cache' = cache
           /\ ~Run(i).cancelled =>
                 \E c : /\ cache' = [cache EXCEPT ![TabOf[i]] = c] /\ CacheShape(c)
                        /\ c.data = cache[TabOf[i]].data /\ c.fetch = Asked
<1> PICK x : x = mount[i]
    OBVIOUS
<1> PICK md : md = [x EXCEPT !.run = NoRun]
    OBVIOUS
<1>0. TabOf[i] \in Tabs
    BY AutoReplyAssumption
<1>1. MountShape(x)
    BY DEF ExecInv, MountInv
<1>2. MountShape(md) /\ md.run = NoRun /\ md.open = x.open
    BY <1>1, Blank, RunOf
<1>3. mount' = [mount EXCEPT ![i] = md] /\ UNCHANGED <<master, policy, evaluating, edits>>
    BY DEF Finish
<1>4. /\ mount' = [j \in Mounts |-> mount'[j]] /\ mount'[i] = md
      /\ \A j \in Mounts \ {i} : mount'[j] = mount[j]
    BY <1>3 DEF ExecInv, Tables
<1>5. Run(i).cancelled => cache' = cache
    BY DEF Finish
<1>6. ASSUME ~Run(i).cancelled
      PROVE  \E c : /\ cache' = [cache EXCEPT ![TabOf[i]] = c] /\ CacheShape(c)
                    /\ c.data = cache[TabOf[i]].data /\ c.fetch = Asked
    <2> PICK y : y = cache[TabOf[i]]
        OBVIOUS
    <2> PICK c : c = [y EXCEPT !.fetch = Asked]
        OBVIOUS
    <2>1. CacheShape(y)
        BY <1>0 DEF ExecInv, CacheInv
    <2>2. CacheShape(c) /\ c.data = y.data /\ c.fetch = Asked
        BY <2>1, FetchOf
    <2>3. cache' = [cache EXCEPT ![TabOf[i]] = c]
        BY <1>6 DEF Finish
    <2> QED
        BY <2>2, <2>3
<1> QED
    BY <1>0, <1>2, <1>3, <1>4, <1>5, <1>6

LEMMA FinishKeeps ==
    ASSUME ExecInv, NEW i \in Mounts, Finish(i), UNCHANGED <<row, replies, handed>>
    PROVE  ExecInv'
<1> PICK t : t = TabOf[i]
    OBVIOUS
<1> PICK md : md = mount'[i]
    OBVIOUS
<1>0. /\ UNCHANGED <<policy, evaluating>> /\ t \in Tabs /\ mount' = [j \in Mounts |-> mount'[j]]
      /\ \A j \in Mounts \ {i} : mount'[j] = mount[j]
      /\ md.run = NoRun /\ MountShape(md)
    BY FinishFacts
<1>1. MountInv(md)
    BY <1>0, Blank DEF MountInv
<1>2. \A j \in Mounts : mount'[j] = mount[j] \/ \E d : mount'[j] = d /\ MountInv(d)
    BY <1>0, <1>1
<1>3. CASE cache' = cache
    <2>1. cache' = [u \in Tabs |-> cache'[u]]
        BY <1>3 DEF ExecInv, Tables
    <2> QED
        BY <1>0, <1>2, <1>3, <2>1, PageMoves
<1>4. ASSUME NEW c, cache' = [cache EXCEPT ![t] = c], CacheShape(c), c.data = cache[t].data,
             c.fetch = Asked
      PROVE  ExecInv'
    <2>1. CacheInv(c)
        BY <1>0, <1>4, Blank DEF CacheInv, ExecInv
    <2>2. /\ cache' = [u \in Tabs |-> cache'[u]]
          /\ \A u \in Tabs : cache'[u] = IF u = t THEN c ELSE cache[u]
        BY <1>4 DEF ExecInv, Tables
    <2> QED
        BY <1>0, <1>2, <2>1, <2>2, PageMoves
<1>5. Run(i).cancelled => cache' = cache
    BY FinishFacts
<1>6. ~Run(i).cancelled =>
         \E c : cache' = [cache EXCEPT ![t] = c] /\ CacheShape(c) /\ c.data = cache[t].data /\ c.fetch = Asked
    BY FinishFacts
<1> QED
    BY <1>3, <1>4, <1>5, <1>6

\* Stamping an evaluated message that was answered or handed over.
LEMMA StampKeeps ==
    ASSUME ExecInv, NEW m \in Evaluated, Stamp(m), UNCHANGED <<policy, evaluating, cache>>,
           replies' = replies, handed \subseteq handed', replies[m] > 0 \/ m \in handed',
           mount' = [i \in Mounts |-> mount'[i]]
    PROVE  /\ Tables' /\ StampedMeansAnswered' /\ Evaluated \subseteq Evaluated'
           /\ row[m] \in Entries /\ row'[m] \in Entries /\ row'[m].sentAt
           /\ \A n \in Msgs \ {m} : row'[n] = row[n]
<1> PICK e : e = [row[m] EXCEPT !.sentAt = TRUE]
    OBVIOUS
<1>0. m \in Msgs /\ m \notin evaluating /\ row \in [Msgs -> Entries \union {Undefined}] /\ row[m] \in Entries
    BY DEF Evaluated, ExecInv, Tables, Lists
<1>1. e \in Entries /\ e.sentAt
    BY <1>0 DEF Entries
<1>2. row' = [row EXCEPT ![m] = e]
    BY DEF Stamp
<1>3. row' \in [Msgs -> Entries \union {Undefined}] /\ row'[m] = e /\ \A n \in Msgs \ {m} : row'[n] = row[n]
    BY <1>0, <1>1, <1>2
<1>4. Tables'
    BY <1>0, <1>3 DEF ExecInv, Tables, Lists
<1>5. StampedMeansAnswered'
    BY <1>0, <1>3 DEF ExecInv, StampedMeansAnswered
<1>6. e # Undefined
    BY <1>1, AutoReplyAssumption
<1>7. Evaluated \subseteq Evaluated'
    BY <1>3, <1>6 DEF Evaluated
<1> QED
    BY <1>0, <1>1, <1>3, <1>4, <1>5, <1>7

\* The pass turns to the next message.
LEMMA AdvanceContinues ==
    ASSUME NEW i, RunShape(Run(i)), Advance(i)
    PROVE  \E r : /\ Continues(i, r) /\ r.pc = "next" /\ r.todo = Run(i).todo
                  /\ r.posted = Run(i).posted
<1> PICK x : x = Run(i)
    OBVIOUS
<1> PICK r : r = [x EXCEPT !.pc = "next", !.cur = Undefined, !.reply = Undefined]
    OBVIOUS
<1>1. RunShape(r) /\ r.pc = "next" /\ r.todo = x.todo /\ r.cancelled = x.cancelled /\ r.posted = x.posted
    BY DEF RunShape
<1> QED
    BY <1>1 DEF Continues, Advance

\* The pass reports: it hands the message over, or marks it behind a reply.  The
\* mark is set, or lost.
LEMMA ReportKeeps ==
    ASSUME ExecInv, NEW i \in Mounts, RunHandOver(i) \/ RunMark(i)
    PROVE  ExecInv'
<1> PICK m : m = Run(i).cur
    OBVIOUS
<1>0. /\ RunShape(Run(i)) /\ RunInv(Run(i)) /\ Run(i).pc \in {"hand", "mark"} /\ Advance(i)
      /\ replies' = replies /\ handed \subseteq handed' /\ (Run(i).pc = "hand" => m \in handed')
    BY DEF ExecInv, MountInv, MountShape, Run, RunHandOver, RunMark
<1>1. m \in Evaluated /\ (replies[m] > 0 \/ m \in handed')
    BY <1>0 DEF RunInv, AtMessage
<1> PICK r : Continues(i, r) /\ r.pc = "next" /\ r.todo = Run(i).todo
    BY <1>0, AdvanceContinues
<1>2. /\ mount' = [j \in Mounts |-> mount'[j]] /\ UNCHANGED <<policy, evaluating, cache>>
      /\ SetRun(i, r) /\ RunShape(r)
    BY ContinueFacts DEF Continues
<1>3. Tables' /\ StampedMeansAnswered' /\ Evaluated \subseteq Evaluated'
    <2>1. CASE Stamp(m)
        BY <1>0, <1>1, <1>2, <2>1, StampKeeps
    <2>2. CASE UNCHANGED row
        BY <1>0, <1>2, <2>2 DEF ExecInv, Tables, StampedMeansAnswered, Evaluated, Lists
    <2> QED
        BY <2>1, <2>2 DEF RunHandOver, RunMark
<1>4. RunInv(r)'
    BY <1>0, <1>3 DEF RunInv, AtMessage
<1> QED
    BY <1>0, <1>2, <1>3, <1>4, ContinueKeeps

\* The pass that has sent and comes to the mark.
LEMMA SentRun ==
    ASSUME NEW x, RunShape(x), NEW r, r = [x EXCEPT !.pc = "mark", !.posted = TRUE]
    PROVE  /\ RunShape(r) /\ r.pc = "mark" /\ r.cur = x.cur /\ r.todo = x.todo
           /\ r.cancelled = x.cancelled /\ r.posted
<1>1. /\ r = [pc |-> "mark", todo |-> x.todo, cur |-> x.cur, rows |-> x.rows, policy |-> x.policy,
             master |-> x.master, contacts |-> x.contacts, calendar |-> x.calendar,
             cancelled |-> x.cancelled, reply |-> x.reply, posted |-> TRUE]
    BY DEF RunShape
<1> QED
    BY <1>1 DEF RunShape

\* Sending: the mark comes next when the server confirmed, the next message
\* otherwise.
LEMMA SendKeeps ==
    ASSUME ExecInv, NEW i \in Mounts, RunSend(i)
    PROVE  ExecInv'
<1> PICK x : x = Run(i)
    OBVIOUS
<1> PICK m : m = x.cur
    OBVIOUS
<1> PICK posted : posted = [replies EXCEPT ![m] = IF @ = 2 THEN 2 ELSE @ + 1]
    OBVIOUS
<1>0. /\ RunShape(x) /\ RunInv(x) /\ x.pc = "send" /\ row' = row /\ handed' = handed
    BY DEF ExecInv, MountInv, MountShape, Run, RunSend
<1>1. m \in Evaluated /\ m \notin x.todo /\ m \in Msgs /\ replies \in [Msgs -> 0..2]
    BY <1>0 DEF RunInv, AtMessage, Evaluated, ExecInv, Tables
<1>2. /\ posted \in [Msgs -> 0..2] /\ posted[m] > 0
      /\ \A n \in Msgs : replies[n] > 0 => posted[n] > 0
    BY <1>1
<1>3. replies' \in {replies, posted}
    BY DEF RunSend
<1>4. ASSUME NEW r, SetRun(i, r), RunShape(r), r.todo = x.todo,
             \/ r.pc = "next"
             \/ r.pc = "mark" /\ r.cur = m /\ replies' = posted /\ r.posted
      PROVE  ExecInv'
    <2>1. mount' = [j \in Mounts |-> mount'[j]] /\ UNCHANGED <<policy, evaluating, cache>>
        BY <1>4, ContinueFacts
    <2>2. Tables' /\ StampedMeansAnswered' /\ Evaluated' = Evaluated
        BY <1>0, <1>1, <1>2, <1>3, <2>1 DEF ExecInv, Tables, StampedMeansAnswered, Evaluated, Lists
    <2>3. RunInv(r)'
        BY <1>0, <1>1, <1>2, <1>4, <2>2 DEF RunInv, AtMessage
    <2> QED
        BY <1>2, <1>3, <1>4, <2>2, <2>3, ContinueKeeps
<1>5. CASE replies' = posted /\ SetRun(i, [x EXCEPT !.pc = "mark", !.posted = TRUE])
    <2> PICK r : r = [x EXCEPT !.pc = "mark", !.posted = TRUE]
        OBVIOUS
    <2>1. RunShape(r) /\ r.pc = "mark" /\ r.cur = m /\ r.todo = x.todo /\ r.posted
        BY <1>0, SentRun
    <2> QED
        BY <1>4, <1>5, <2>1
<1>6. CASE Advance(i)
    <2> PICK r : Continues(i, r) /\ r.pc = "next" /\ r.todo = x.todo
        BY <1>0, <1>6, AdvanceContinues
    <2> QED
        BY <1>4 DEF Continues
<1> QED
    BY <1>5, <1>6 DEF RunSend
-----------------------------------------------------------------------------
(* The steps of the server and of the settings page. *)

\* What the server's evaluation stores is an entry of the list.
LEMMA EvaluationTyped ==
    ASSUME Tables, NEW ctx
    PROVE  RowOf(EvaluateServer(policy, master, ctx)) \in Entries
<1> PICK v : v = ResolveConditionViolation(policy.conds, ctx)
    OBVIOUS
<1>0. v \in {"priority_exceeds_policy", "trust_below_threshold", "not_a_contact",
             "sender_not_in_allowlist", Undefined}
    BY DEF ResolveConditionViolation
<1>1. ASSUME NEW a \in Actions, NEW w \in Reasons
      PROVE  RowOf(Decision(a, w)) \in Entries
    BY DEF RowOf, Decision, Entries
<1>2. ASSUME NEW w \in Reasons
      PROVE  RowOf(Queue(w)) \in Entries
    <2>1. "queue_for_human" \in Actions
        BY DEF Actions
    <2> QED
        BY <1>1, <2>1 DEF Queue
<1>3. \/ \E w \in Reasons : EvaluateServer(policy, master, ctx) = Queue(w)
      \/ EvaluateServer(policy, master, ctx) = Decision(policy.default, "default_match") /\ policy # Undefined
    BY <1>0 DEF EvaluateServer, Reasons
<1>4. policy # Undefined => policy.default \in Actions
    BY DEF Tables
<1>5. "default_match" \in Reasons
    BY DEF Reasons
<1> QED
    BY <1>1, <1>2, <1>3, <1>4, <1>5

\* A message is stored.
LEMMA DeliverKeeps ==
    ASSUME ExecInv, NEW m \in Msgs, Deliver(m)
    PROVE  ExecInv'
<1>0. Unevaluated \in Entries /\ ~Unevaluated.sentAt
    BY DEF Unevaluated, Entries
<1>1. Tables'
    BY <1>0 DEF ExecInv, Tables, Deliver, Lists
<1>2. StampedMeansAnswered'
    BY <1>0 DEF ExecInv, Tables, StampedMeansAnswered, Deliver, Lists
<1>3. Evaluated \subseteq Evaluated'
    BY DEF ExecInv, Tables, Evaluated, Deliver, Lists
<1> QED
    BY <1>1, <1>2, <1>3, ServerKeeps DEF Deliver

\* The spawned evaluation ends: only its own row may change, and its sent mark
\* is not set.
LEMMA EvaluateKeeps ==
    ASSUME ExecInv, NEW m \in Msgs, Evaluate(m)
    PROVE  ExecInv'
<1> PICK e : e = RowOf(EvaluateServer(policy, master, Context(m)))
    OBVIOUS
<1>0. e \in Entries /\ ~e.sentAt
    BY EvaluationTyped DEF ExecInv, RowOf
<1>1. /\ m \in evaluating /\ evaluating' = evaluating \ {m} /\ UNCHANGED <<policy, replies, handed, cache, mount>>
      /\ row' = row \/ row' = [row EXCEPT ![m] = e]
    BY DEF Evaluate
<1>2. Tables'
    BY <1>0, <1>1 DEF ExecInv, Tables, Lists
<1>3. StampedMeansAnswered'
    BY <1>0, <1>1 DEF ExecInv, Tables, StampedMeansAnswered, Lists
<1>4. Evaluated \subseteq Evaluated'
    BY <1>1 DEF ExecInv, Tables, Evaluated, Lists
<1> QED
    BY <1>1, <1>2, <1>3, <1>4, ServerKeeps

\* The settings change.
LEMMA EditKeeps ==
    ASSUME ExecInv, EditSettings
    PROVE  ExecInv'
<1>1. policy' # Undefined => policy'.default \in Actions
    <2>1. ASSUME NEW d \in Drafts PROVE PolicyFromDraft(d).default \in Actions
        BY AutoReplyAssumption DEF PolicyFromDraft
    <2> QED
        BY <2>1 DEF ExecInv, Tables, EditSettings, SavePolicy, ResetPolicy, ToggleAutoReply
<1>2. Tables' /\ StampedMeansAnswered' /\ Evaluated' = Evaluated
    BY <1>1 DEF ExecInv, Tables, StampedMeansAnswered, Evaluated, EditSettings, Lists
<1> QED
    BY <1>2, ServerKeeps DEF EditSettings

-----------------------------------------------------------------------------
(* Stamped means answered. *)

\* The first states.
LEMMA ExecInit == ASSUME Init PROVE ExecInv
<1>1. Tables
    BY AutoReplyAssumption DEF Init, Tables, Lists
<1>2. StampedMeansAnswered
    BY DEF Init, StampedMeansAnswered
<1>3. \A i \in Mounts : MountInv(mount[i])
    BY Blank DEF Init
<1>4. \A t \in Tabs : CacheInv(cache[t])
    BY Blank DEF Init
<1> QED
    BY <1>1, <1>2, <1>3, <1>4 DEF ExecInv

\* Every step of a pass.
LEMMA RunStepKeeps ==
    ASSUME ExecInv, NEW i \in Mounts, RunStep(i)
    PROVE  ExecInv'
<1>0. RunShape(Run(i))
    BY DEF ExecInv, MountInv, MountShape, Run
<1>1. CASE RunKey(i)
    <2>1. CASE Run(i).cancelled
        BY <1>1, <2>1, FinishKeeps DEF RunKey
    <2>2. CASE ~Run(i).cancelled
        BY <1>0, <1>1, <2>2, OthersThink, ThinkingKeeps DEF RunKey
    <2> QED
        BY <2>1, <2>2
<1>2. CASE RunNoKey(i) \/ RunDone(i)
    BY <1>2, FinishKeeps DEF RunNoKey, RunDone
<1>3. CASE RunCalendar(i)
    BY <1>0, <1>3, OthersThink, ThinkingKeeps DEF RunCalendar
<1>4. CASE RunCalendarFails(i)
    BY <1>0, <1>4, OthersThink, ThinkingKeeps DEF RunCalendarFails
<1>5. ASSUME NEW m \in Msgs, RunEvaluate(i, m) PROVE ExecInv'
    BY <1>0, <1>5, EvaluateThinks, ThinkingKeeps DEF RunEvaluate
<1>6. ASSUME NEW m \in Msgs, RunFetchFails(i, m) PROVE ExecInv'
    BY <1>0, <1>6, OthersThink, ThinkingKeeps DEF RunFetchFails
<1> QED
    BY <1>1, <1>2, <1>3, <1>4, <1>5, <1>6, ReportKeeps, SendKeeps DEF RunStep

\* Every step.
LEMMA ExecStep == ASSUME ExecInv, [Next]_vars PROVE ExecInv'
<1>1. CASE UNCHANGED vars
    <2>1. Tables' /\ StampedMeansAnswered' /\ Evaluated' = Evaluated
        BY <1>1 DEF vars, ExecInv, Tables, StampedMeansAnswered, Evaluated, Lists
    <2> QED
        BY <1>1, <2>1, ServerKeeps DEF vars
<1>2. CASE Step
    <2>1. ASSUME NEW i \in Mounts, Open(i) \/ Close(i) PROVE ExecInv'
        BY <2>1, OpenIsPage, CloseIsPage, PageKeeps
    <2>2. ASSUME NEW t \in Tabs, PageAction(t) PROVE ExecInv'
        BY <2>2, PageActions, PageKeeps
    <2> QED
        BY <1>2, <2>1, <2>2, DeliverKeeps, EvaluateKeeps, EditKeeps, RunStepKeeps
        DEF Step, PageAction
<1> QED
    BY <1>1, <1>2 DEF Next

\* No order of sends, marks, failures and restarts of the inbox stamps a message
\* that was neither answered nor left to the human: a stamp would hide it from
\* every later pass of autoReplyExecutor.ts.
THEOREM StampsAreEarned == Spec => []StampedMeansAnswered
<1>1. ExecInv => StampedMeansAnswered
    BY DEF ExecInv
<1>2. Init => ExecInv
    BY ExecInit
<1>3. ExecInv /\ [Next]_vars => ExecInv'
    BY ExecStep
<1> QED
    BY <1>1, <1>2, <1>3, PTL DEF Spec

-----------------------------------------------------------------------------
(* A calm inbox answers once. *)

\* The list is in one tab at a time.
OneList == \A t, u \in Tabs : HasList(cache[t]) /\ HasList(cache[u]) => t = u

\* A reply that was sent is behind a stamp, or its pass is about to set it.
Accounted ==
    \A m \in Msgs :
        /\ replies[m] <= 1
        /\ replies[m] = 1 => \/ m \in Evaluated /\ row[m].sentAt
                             \/ \E i \in Mounts : Run(i).pc = "mark" /\ Run(i).cur = m

\* A pass of the tab has sent a reply and not told the page yet.
Untold(t) == \E i \in MountsOf(t) : Run(i).posted

\* A pass that was not cancelled belongs to the page that is shown, and the
\* messages before it are unanswered.
CalmRun(i) ==
    /\ Run(i).posted => ~Run(i).cancelled
    /\ Run(i) # NoRun /\ ~Run(i).cancelled =>
          /\ mount[i].open /\ cache[TabOf[i]].data # Undefined
          /\ \A m \in Run(i).todo : replies[m] = 0
          /\ Run(i).pc \in {"calendar", "send"} => replies[Run(i).cur] = 0

\* The list of a tab offers an answered message only while the pass that answered
\* it goes on, or the list it asked for at its end is not back; the response on
\* its way, only while that pass goes on.
CalmCache(t) ==
    /\ t \in owed => cache[t].fetch # NoFetch
    /\ cache[t].data # Undefined =>
          \A m \in EligibleMessages(cache[t].data) : replies[m] = 0 \/ t \in owed \/ Untold(t)
    /\ cache[t].fetch.state = "answered" =>
          \A m \in EligibleMessages(cache[t].fetch.rows) : replies[m] = 0 \/ Untold(t)

\* The inductive invariant of the calm inbox.
CalmInv ==
    /\ OneOpen
    /\ calm => /\ faults = 0 /\ OneList /\ Accounted
               /\ \A i \in Mounts : CalmRun(i)
               /\ \A t \in Tabs : CalmCache(t)

\* What a step that keeps the inbox calm has not done.
LEMMA WatchFacts ==
    ASSUME Watch, calm'
    PROVE  /\ calm /\ faults' = 0 /\ OneList'
           /\ \A i \in Mounts : /\ ~(Run(i)'.cancelled /\ Run(i)'.posted)
                                /\ Run(i) = NoRun /\ Run(i)' # NoRun => TabOf[i] \notin owed'
BY DEF Watch, OneList, HasList, Started, Run

\* A tab stays owed a list until its request is over, and becomes so at the end of
\* a pass that had sent a reply.
LEMMA OwedFacts ==
    ASSUME Watch, NEW t \in Tabs
    PROVE  /\ t \in owed' => cache'[t].fetch # NoFetch
           /\ t \in owed /\ cache'[t].fetch # NoFetch => t \in owed'
           /\ \A i \in MountsOf(t) : (/\ Run(i) # NoRun /\ Run(i)' = NoRun /\ Run(i).posted
                                      /\ cache'[t].fetch # NoFetch) => t \in owed'
<1>1. \A i \in MountsOf(t) : Run(i) # NoRun /\ Run(i)' = NoRun => Ended(i)
    BY DEF Ended, Run
<1>2. t \in owed' <=> /\ cache'[t].fetch # NoFetch
                      /\ t \in owed \/ \E i \in MountsOf(t) : Ended(i) /\ Run(i).posted
    BY DEF Watch
<1> QED
    BY <1>1, <1>2

\* A failed request ends the calm.
LEMMA CalmFaults ==
    ASSUME CalmInv, Watch, calm' PROVE ~Fault
<1>1. faults = 0 /\ faults' = 0
    BY WatchFacts DEF CalmInv
<1> QED
    BY <1>1 DEF Fault

\* A step of the server or of the settings page.
LEMMA ServerCalm ==
    ASSUME CalmInv, Watch, UNCHANGED <<mount, cache, replies>>,
           \A m \in Evaluated : m \in Evaluated' /\ row'[m] = row[m]
    PROVE  CalmInv'
<1>1. OneOpen'
    BY DEF CalmInv, OneOpen
<1> SUFFICES ASSUME calm'
             PROVE  /\ faults' = 0 /\ OneList' /\ Accounted'
                    /\ \A i \in Mounts : CalmRun(i)'
                    /\ \A t \in Tabs : CalmCache(t)'
    BY <1>1 DEF CalmInv
<1>2. calm /\ faults' = 0 /\ OneList'
    BY WatchFacts
<1>3. Accounted /\ \A i \in Mounts : CalmRun(i)
    BY <1>2 DEF CalmInv
<1>4. Accounted'
    BY <1>3 DEF Accounted, Run
<1>5. ASSUME NEW i \in Mounts PROVE CalmRun(i)'
    BY <1>3 DEF CalmRun, Run
<1>6. ASSUME NEW t \in Tabs PROVE CalmCache(t)'
    <2>1. CalmCache(t)
        BY <1>2 DEF CalmInv
    <2>2. (t \in owed => t \in owed') /\ (t \in owed' => cache'[t].fetch # NoFetch)
        BY <2>1, OwedFacts DEF CalmCache
    <2>3. Untold(t)' <=> Untold(t)
        BY DEF Untold, Run
    <2> QED
        BY <2>1, <2>2, <2>3 DEF CalmCache
<1> QED
    BY <1>2, <1>4, <1>5, <1>6

\* What a step of the page does to a pass while nothing fails: nothing, it cancels
\* the pass, or it starts one on the list of the tab.
PageRun(i, t, c) ==
    \/ mount'[i] = mount[i]
    \/ Run(i) = NoRun /\ Run(i)' = NoRun
    \/ /\ Run(i)'.cancelled /\ Run(i)'.pc = Run(i).pc /\ Run(i)'.cur = Run(i).cur
       /\ Run(i)'.posted = Run(i).posted
    \/ /\ Run(i) = NoRun /\ Run(i)' = NewRun(c) /\ mount'[i].open /\ c.data # Undefined
       /\ TabOf[i] = t

LEMMA PageRuns ==
    ASSUME ExecInv, NEW t \in Tabs, NEW c, PageTo(t, c), ~Fault, NEW i \in Mounts
    PROVE  PageRun(i, t, c)
<1> PICK x : x = mount[i]
    OBVIOUS
<1> PICK y : y = mount'[i]
    OBVIOUS
<1> PICK o : o = [open |-> TRUE, run |-> NoRun]
    OBVIOUS
<1>0. MountShape(x) /\ o.run = NoRun
    BY DEF ExecInv, MountInv
<1>1. x.run = Run(i) /\ y.run = Run(i)'
    BY DEF Run
<1>2. CASE y = x
    BY <1>2 DEF PageRun
<1>3. ASSUME y.run = [x.run EXCEPT !.cancelled = TRUE]
      PROVE  PageRun(i, t, c)
    <2> PICK u : u = x.run
        OBVIOUS
    <2> PICK k : k = y.run
        OBVIOUS
    <2>1. k.cancelled /\ k.pc = u.pc /\ k.cur = u.cur /\ k.posted = u.posted
        BY <1>0, <1>3, CancelFacts DEF MountShape
    <2> QED
        BY <1>1, <2>1 DEF PageRun
<1>4. ASSUME TabOf[i] = t, MountTo(x, y, c)
      PROVE  PageRun(i, t, c)
    <2>1. CASE Affected(x, y, c)
        BY <1>1, <1>2, <1>3, <1>4, <2>1 DEF Affected, PageRun
    <2>2. CASE x.run = NoRun /\ Affected(o, y, c)
        <3>1. y = o \/ (y.open /\ y.run = NewRun(c) /\ c.data # Undefined)
            BY <1>0, <2>2 DEF Affected
        <3> QED
            BY <1>0, <1>1, <1>4, <2>2, <3>1 DEF PageRun
    <2>3. CASE y.run = Cancelled(x.run)
        BY <1>1, <1>3, <2>3 DEF Cancelled, PageRun
    <2>4. CASE y = Unmounted /\ x.run = NoRun
        BY <1>1, <2>4, Blank DEF PageRun
    <2> QED
        BY <1>4, <2>1, <2>2, <2>3, <2>4 DEF MountTo
<1> QED
    BY <1>2, <1>4 DEF PageTo

\* It neither hides a reply nor moves a pass off its mark.
LEMMA PageRunFacts ==
    ASSUME NEW i, NEW t, NEW c, PageRun(i, t, c)
    PROVE  /\ Run(i)'.posted = Run(i).posted
           /\ Run(i).pc = "mark" => Run(i)'.pc = "mark" /\ Run(i)'.cur = Run(i).cur
<1>1. CASE mount'[i] = mount[i] \/ (Run(i) = NoRun /\ Run(i)' = NoRun)
    BY <1>1, Blank DEF Run
<1>2. CASE Run(i) = NoRun /\ Run(i)' = NewRun(c)
    <2>1. NoRun.posted \in BOOLEAN /\ NewRun(c).posted \in BOOLEAN
        BY Blank, NewRunFacts DEF RunShape
    <2> QED
        BY <1>2, <2>1, Blank, NewRunFacts
<1> QED
    BY <1>1, <1>2 DEF PageRun

\* A step of the page changes nothing the list is measured against: a response on
\* its way or just arrived names no message that was answered by an earlier pass.
LEMMA PageCacheCalm ==
    ASSUME ExecInv, CalmInv, calm, Watch, NEW t \in Tabs, NEW c, PageTo(t, c), ~Fault,
           NEW u \in Tabs
    PROVE  CalmCache(u)'
<1> PICK x : x = cache[t]
    OBVIOUS
<1>1. \A i \in Mounts : Run(i)'.posted = Run(i).posted
    BY PageRuns, PageRunFacts
<1>2. Untold(u)' <=> Untold(u)
    BY <1>1 DEF Untold, MountsOf
<1>3. /\ UNCHANGED <<row, replies, evaluating>> /\ CacheTo(x, c)
      /\ cache'[u] = IF u = t THEN c ELSE cache[u]
    BY DEF PageTo, Leave, ExecInv, Tables
<1>4. CalmCache(u) /\ OneList /\ Accounted /\ \A i \in Mounts : CalmRun(i)
    BY DEF CalmInv
<1>5. /\ u \in owed' => cache'[u].fetch # NoFetch
      /\ u \in owed /\ cache'[u].fetch # NoFetch => u \in owed'
    BY OwedFacts
<1>6. CASE u # t
    BY <1>2, <1>3, <1>4, <1>5, <1>6 DEF CalmCache
<1>7. ASSUME u = t, c.data = x.data, c.fetch = x.fetch \/ c.fetch = Asked
      PROVE  CalmCache(u)'
    <2>1. u \in owed => u \in owed'
        BY <1>3, <1>4, <1>5, <1>7, Blank DEF CalmCache
    <2> QED
        BY <1>2, <1>3, <1>4, <1>5, <1>7, <2>1, Blank DEF CalmCache
<1>8. ASSUME u = t, c.data = x.data, x.fetch = Asked, c.fetch.state = "answered",
             c.fetch.rows = row, c.fetch # NoFetch
      PROVE  CalmCache(u)'
    <2>1. u \in owed => u \in owed'
        BY <1>3, <1>5, <1>8
    <2>2. ASSUME NEW m \in EligibleMessages(row), replies[m] # 0
          PROVE  Untold(u)
        <3>0. m \in Msgs /\ ~row[m].sentAt
            BY <2>2 DEF EligibleMessages, EligibleEntry
        <3>1. replies[m] = 1
            BY <1>4, <2>2, <3>0 DEF Accounted, ExecInv, Tables
        <3> PICK i \in Mounts : Run(i).pc = "mark" /\ Run(i).cur = m
            BY <1>4, <3>0, <3>1 DEF Accounted
        <3>2. Run(i).posted /\ Run(i) # NoRun
            BY Blank DEF ExecInv, MountInv, RunInv, Run
        <3>3. cache[TabOf[i]].data # Undefined /\ TabOf[i] \in Tabs
            BY <1>4, <3>2, AutoReplyAssumption DEF CalmRun
        <3>4. TabOf[i] = u
            BY <1>4, <1>8, <3>3, Blank DEF OneList, HasList
        <3> QED
            BY <3>2, <3>4 DEF Untold, MountsOf
    <2> QED
        BY <1>2, <1>3, <1>4, <1>5, <1>8, <2>1, <2>2 DEF CalmCache
<1>9. ASSUME u = t, x.fetch.state = "answered", c.data = x.fetch.rows, c.fetch = NoFetch
      PROVE  CalmCache(u)'
    BY <1>2, <1>3, <1>4, <1>5, <1>9, Blank DEF CalmCache
<1>10. CASE u = t /\ c = EmptyCache
    BY <1>3, <1>5, <1>10, Blank DEF CalmCache
<1> QED
    BY <1>3, <1>6, <1>7, <1>8, <1>9, <1>10 DEF CacheTo

\* A step of the page in a calm inbox: a pass it starts has unanswered messages
\* before it, for the tab is owed no list and shows no other pass.
LEMMA PageCalm ==
    ASSUME ExecInv, ExecInv', CalmInv, Watch, NEW t \in Tabs, NEW c, PageTo(t, c)
    PROVE  CalmInv'
<1>1. OneOpen'
    BY DEF CalmInv, PageTo
<1> SUFFICES ASSUME calm'
             PROVE  /\ faults' = 0 /\ OneList' /\ Accounted'
                    /\ \A i \in Mounts : CalmRun(i)'
                    /\ \A u \in Tabs : CalmCache(u)'
    BY <1>1 DEF CalmInv
<1>2. calm /\ faults' = 0 /\ OneList' /\ ~Fault
    BY WatchFacts, CalmFaults
<1>3. Accounted /\ \A i \in Mounts : CalmRun(i)
    BY <1>2 DEF CalmInv
<1>4. /\ UNCHANGED <<row, replies, evaluating>> /\ CacheTo(cache[t], c)
      /\ \A u \in Tabs : cache'[u] = IF u = t THEN c ELSE cache[u]
    BY DEF PageTo, Leave, ExecInv, Tables
<1>5. \A i \in Mounts : PageRun(i, t, c)
    BY <1>2, PageRuns
<1>6. \A u \in Tabs : CalmCache(u)'
    BY <1>2, PageCacheCalm
<1>7. Accounted'
    <2>1. Evaluated' = Evaluated
        BY <1>4 DEF Evaluated
    <2>2. \A i \in Mounts : Run(i).pc = "mark" => Run(i)'.pc = "mark" /\ Run(i)'.cur = Run(i).cur
        BY <1>5, PageRunFacts
    <2> QED
        BY <1>3, <1>4, <2>1, <2>2 DEF Accounted
<1>8. \A i \in Mounts : Run(i)'.posted => ~Run(i)'.cancelled
    BY WatchFacts
<1>9. ASSUME NEW i \in Mounts, Run(i) = NoRun, Run(i)' = NewRun(c), mount'[i].open,
             c.data # Undefined, TabOf[i] = t
      PROVE  CalmRun(i)'
    <2>1. t \notin owed'
        BY <1>9, WatchFacts, NewRunFacts
    <2>2. ~Untold(t)'
        <3> SUFFICES ASSUME NEW j \in Mounts, TabOf[j] = t, Run(j)'.posted
                     PROVE  FALSE
            BY DEF Untold, MountsOf
        <3>1. Run(j).posted /\ Run(j) # NoRun
            BY <1>5, PageRunFacts, Blank
        <3>2. mount'[j] = mount[j]
            BY <1>5, <1>8, <3>1 DEF PageRun
        <3>3. mount[j].open
            BY <1>3, <3>1 DEF CalmRun
        <3>4. i = j
            BY <1>1, <1>9, <3>2, <3>3 DEF OneOpen
        <3> QED
            BY <1>9, <3>1, <3>4
    <2>3. \A m \in EligibleMessages(c.data) : replies'[m] = 0
        BY <1>4, <1>6, <1>9, <2>1, <2>2 DEF CalmCache
    <2> QED
        BY <1>4, <1>8, <1>9, <2>3, NewRunFacts DEF CalmRun
<1>10. ASSUME NEW i \in Mounts, mount'[i] = mount[i]
       PROVE  CalmRun(i)'
    <2>1. Run(i)' = Run(i) /\ TabOf[i] \in Tabs
        BY <1>10, AutoReplyAssumption DEF Run
    <2>2. ASSUME Run(i) # NoRun, ~Run(i).cancelled
          PROVE  cache'[TabOf[i]].data # Undefined
        <3>1. cache[TabOf[i]].data # Undefined
            BY <1>3, <2>2 DEF CalmRun
        <3> QED
            BY <1>4, <2>1, <2>2, <3>1 DEF PageTo, Run
    <2> QED
        BY <1>3, <1>4, <1>10, <2>1, <2>2 DEF CalmRun
<1>11. ASSUME NEW i \in Mounts, Run(i)' = NoRun \/ Run(i)'.cancelled
       PROVE  CalmRun(i)'
    BY <1>8, <1>11 DEF CalmRun
<1>12. \A i \in Mounts : CalmRun(i)'
    BY <1>5, <1>9, <1>10, <1>11 DEF PageRun
<1> QED
    BY <1>2, <1>6, <1>7, <1>12

\* A step of a pass leaves the page and the other passes alone.
LEMMA PassFacts ==
    ASSUME ExecInv, CalmInv, Watch, calm, NEW i \in Mounts, NEW r, Continues(i, r),
           Run(i).posted => r.posted
    PROVE  /\ OneOpen' /\ cache' = cache /\ evaluating' = evaluating
           /\ Run(i)' = r /\ \A j \in Mounts : mount'[j].open = mount[j].open
           /\ \A j \in Mounts \ {i} : Run(j)' = Run(j)
           /\ \A t \in Tabs : /\ Untold(t) => Untold(t)'
                              /\ t \in owed => t \in owed'
                              /\ t \in owed' => cache'[t].fetch # NoFetch
<1> PICK md : /\ \A j \in Mounts : mount'[j] = IF j = i THEN md ELSE mount[j]
              /\ md.run = r /\ md.open = mount[i].open
              /\ UNCHANGED <<evaluating, cache>>
    BY ContinueFacts DEF Continues
<1>1. \A j \in Mounts : mount'[j].open = mount[j].open
    OBVIOUS
<1>2. OneOpen'
    BY <1>1 DEF CalmInv, OneOpen
<1>3. Run(i)' = r /\ \A j \in Mounts \ {i} : Run(j)' = Run(j)
    BY DEF Run
<1>4. ASSUME NEW t \in Tabs
      PROVE  /\ Untold(t) => Untold(t)'
             /\ t \in owed => t \in owed'
             /\ t \in owed' => cache'[t].fetch # NoFetch
    <2>1. CalmCache(t)
        BY DEF CalmInv
    <2>2. Untold(t) => Untold(t)'
        BY <1>3 DEF Untold, MountsOf
    <2> QED
        BY <2>1, <2>2, OwedFacts DEF CalmCache
<1> QED
    BY <1>1, <1>2, <1>3, <1>4

\* ... and keeps the inbox calm when it posts nothing.
LEMMA PassCalm ==
    ASSUME ExecInv, CalmInv, Watch, NEW i \in Mounts, NEW r, Continues(i, r), Run(i).posted = r.posted,
           Run(i) # NoRun, replies' = replies,
           \A m \in Evaluated : m \in Evaluated' /\ (row[m].sentAt => row'[m].sentAt),
           Run(i).pc = "mark" => Fault \/ (Run(i).cur \in Evaluated' /\ row'[Run(i).cur].sentAt),
           r.todo \subseteq Run(i).todo,
           r.pc \in {"calendar", "send"} =>
              r.cur \in Run(i).todo \/ (Run(i).pc \in {"calendar", "send"} /\ r.cur = Run(i).cur)
    PROVE  CalmInv'
<1>1. OneOpen'
    <2> PICK md : /\ \A j \in Mounts : mount'[j] = IF j = i THEN md ELSE mount[j]
                  /\ md.open = mount[i].open
        BY ContinueFacts DEF Continues
    <2> QED
        BY DEF CalmInv, OneOpen
<1> SUFFICES ASSUME calm'
             PROVE  /\ faults' = 0 /\ OneList' /\ Accounted'
                    /\ \A j \in Mounts : CalmRun(j)'
                    /\ \A t \in Tabs : CalmCache(t)'
    BY <1>1 DEF CalmInv
<1>2. calm /\ faults' = 0 /\ OneList' /\ ~Fault
    BY WatchFacts, CalmFaults
<1>3. Accounted /\ \A j \in Mounts : CalmRun(j)
    BY <1>2 DEF CalmInv
<1>4. /\ cache' = cache /\ Run(i)' = r /\ \A j \in Mounts : mount'[j].open = mount[j].open
      /\ \A j \in Mounts \ {i} : Run(j)' = Run(j)
    BY <1>2, PassFacts
<1>5. Accounted'
    BY <1>2, <1>3, <1>4 DEF Accounted
<1>6. ASSUME NEW j \in Mounts PROVE CalmRun(j)'
    <2>1. CASE j # i
        BY <1>3, <1>4, <2>1 DEF CalmRun
    <2>2. CASE j = i
        <3>1. CalmRun(i) /\ r.cancelled = Run(i).cancelled
            BY <1>3 DEF Continues
        <3> QED
            BY <1>4, <2>2, <3>1 DEF CalmRun
    <2> QED
        BY <2>1, <2>2
<1>7. ASSUME NEW t \in Tabs PROVE CalmCache(t)'
    <2>1. /\ Untold(t) => Untold(t)'
          /\ t \in owed => t \in owed'
          /\ t \in owed' => cache'[t].fetch # NoFetch
        BY <1>2, PassFacts
    <2>2. CalmCache(t)
        BY <1>2 DEF CalmInv
    <2> QED
        BY <1>4, <2>1, <2>2 DEF CalmCache
<1> QED
    BY <1>2, <1>5, <1>6, <1>7

\* A pass that thinks.
LEMMA ThinkingCalm ==
    ASSUME ExecInv, CalmInv, Watch, NEW i \in Mounts, NEW r, Thinks(i, r), UNCHANGED <<row, replies>>
    PROVE  CalmInv'
<1>0. Continues(i, r) /\ SetRun(i, r) /\ RunShape(r)
    BY DEF Thinks, Continues
<1>1. Evaluated' = Evaluated
    BY <1>0, ContinueFacts DEF Evaluated
<1>2. Run(i) # NoRun /\ Run(i).pc # "mark"
    BY Blank DEF Thinks
<1>3. /\ Run(i).posted = r.posted /\ r.todo \subseteq Run(i).todo
      /\ r.pc \in {"calendar", "send"} =>
            r.cur \in Run(i).todo \/ (Run(i).pc \in {"calendar", "send"} /\ r.cur = Run(i).cur)
    BY DEF Thinks
<1> QED
    BY <1>0, <1>1, <1>2, <1>3, PassCalm

\* A pass that marks a message or hands it over.
LEMMA ReportCalm ==
    ASSUME ExecInv, CalmInv, Watch, NEW i \in Mounts, RunHandOver(i) \/ RunMark(i)
    PROVE  CalmInv'
<1> PICK m : m = Run(i).cur
    OBVIOUS
<1>0. /\ RunShape(Run(i)) /\ RunInv(Run(i)) /\ Run(i).pc \in {"hand", "mark"} /\ Advance(i)
      /\ replies' = replies /\ handed \subseteq handed' /\ (Run(i).pc = "hand" => m \in handed')
      /\ Stamp(m) \/ (Fault /\ UNCHANGED row)
    BY DEF ExecInv, MountInv, MountShape, Run, RunHandOver, RunMark
<1>1. m \in Evaluated /\ (replies[m] > 0 \/ m \in handed') /\ Run(i) # NoRun
    BY <1>0, Blank DEF RunInv, AtMessage
<1> PICK r : Continues(i, r) /\ r.pc = "next" /\ r.todo = Run(i).todo /\ r.posted = Run(i).posted
    BY <1>0, AdvanceContinues
<1>2. mount' = [j \in Mounts |-> mount'[j]] /\ UNCHANGED <<policy, evaluating, cache>>
    BY ContinueFacts DEF Continues
<1>3. CASE Stamp(m)
    <2>1. /\ Evaluated \subseteq Evaluated' /\ row'[m].sentAt
          /\ \A n \in Msgs \ {m} : row'[n] = row[n]
        BY <1>0, <1>1, <1>2, <1>3, StampKeeps
    <2>2. \A n \in Evaluated : n \in Evaluated' /\ (row[n].sentAt => row'[n].sentAt)
        BY <2>1 DEF Evaluated
    <2> QED
        BY <1>0, <1>1, <2>1, <2>2, PassCalm
<1>4. CASE Fault /\ UNCHANGED row
    <2>1. Evaluated' = Evaluated
        BY <1>2, <1>4 DEF Evaluated
    <2> QED
        BY <1>0, <1>1, <1>4, <2>1, PassCalm
<1> QED
    BY <1>0, <1>3, <1>4

\* A pass that sends: in a calm inbox it is the only one that was not cancelled, and
\* the message is unanswered.
LEMMA SendCalm ==
    ASSUME ExecInv, CalmInv, Watch, NEW i \in Mounts, RunSend(i)
    PROVE  CalmInv'
<1> PICK x : x = Run(i)
    OBVIOUS
<1> PICK m : m = x.cur
    OBVIOUS
<1>0. /\ RunShape(x) /\ RunInv(x) /\ x.pc = "send" /\ row' = row /\ x # NoRun
    BY Blank DEF ExecInv, MountInv, MountShape, Run, RunSend
<1>1. m \in Msgs /\ m \notin x.todo /\ x.todo \subseteq Msgs /\ replies \in [Msgs -> 0..2]
    BY <1>0 DEF RunInv, AtMessage, Evaluated, ExecInv, Tables
<1>2. \E r : Continues(i, r) /\ (x.posted => r.posted)
    <2>1. CASE SetRun(i, [x EXCEPT !.pc = "mark", !.posted = TRUE])
        BY <1>0, <2>1, SentRun DEF Continues
    <2>2. CASE Advance(i)
        BY <1>0, <2>2, AdvanceContinues
    <2> QED
        BY <2>1, <2>2 DEF RunSend
<1>3. OneOpen'
    <2> PICK r : Continues(i, r)
        BY <1>2
    <2> PICK md : /\ \A j \in Mounts : mount'[j] = IF j = i THEN md ELSE mount[j]
                  /\ md.open = mount[i].open
        BY ContinueFacts DEF Continues
    <2> QED
        BY DEF CalmInv, OneOpen
<1> SUFFICES ASSUME calm'
             PROVE  /\ faults' = 0 /\ OneList' /\ Accounted'
                    /\ \A j \in Mounts : CalmRun(j)'
                    /\ \A t \in Tabs : CalmCache(t)'
    BY <1>3 DEF CalmInv
<1>4. calm /\ faults' = 0 /\ OneList' /\ ~Fault
    BY WatchFacts, CalmFaults
<1>5. Accounted /\ OneOpen /\ OneList /\ \A j \in Mounts : CalmRun(j)
    BY <1>4 DEF CalmInv
<1>6. /\ replies' = [replies EXCEPT ![m] = IF @ = 2 THEN 2 ELSE @ + 1]
      /\ SetRun(i, [x EXCEPT !.pc = "mark", !.posted = TRUE])
    BY <1>4 DEF RunSend
<1> PICK r : r = [x EXCEPT !.pc = "mark", !.posted = TRUE]
    OBVIOUS
<1>7. /\ RunShape(r) /\ r.pc = "mark" /\ r.cur = m /\ r.todo = x.todo
      /\ r.cancelled = x.cancelled /\ r.posted /\ Continues(i, r)
    BY <1>0, <1>6, SentRun DEF Continues
<1>8. /\ cache' = cache /\ evaluating' = evaluating /\ Run(i)' = r
      /\ \A j \in Mounts : mount'[j].open = mount[j].open
      /\ \A j \in Mounts \ {i} : Run(j)' = Run(j)
    BY <1>4, <1>7, PassFacts
<1>9. ~x.cancelled /\ \A j \in Mounts : Run(j)'.posted => ~Run(j)'.cancelled
    BY <1>7, <1>8, WatchFacts
<1>10. /\ mount[i].open /\ cache[TabOf[i]].data # Undefined /\ TabOf[i] \in Tabs
       /\ replies[m] = 0 /\ \A n \in x.todo : replies[n] = 0
    BY <1>0, <1>5, <1>9, AutoReplyAssumption DEF CalmRun
<1>11. replies'[m] = 1 /\ \A n \in Msgs \ {m} : replies'[n] = replies[n]
    BY <1>1, <1>6, <1>10
<1>12. Accounted'
    <2>1. Evaluated' = Evaluated
        BY <1>0, <1>8 DEF Evaluated
    <2>2. ASSUME NEW j \in Mounts, Run(j).pc = "mark"
          PROVE  Run(j)' = Run(j)
        BY <1>0, <1>8, <2>2
    <2>3. replies'[m] <= 1 /\ \E j \in Mounts : Run(j)'.pc = "mark" /\ Run(j)'.cur = m
        <3>1. Run(i)'.pc = "mark" /\ Run(i)'.cur = m
            BY <1>7, <1>8
        <3>2. replies'[m] <= 1
            BY <1>11
        <3> QED
            BY <3>1, <3>2, Zenon
    <2>4. ASSUME NEW n \in Msgs \ {m}
          PROVE  /\ replies'[n] <= 1
                 /\ replies'[n] = 1 => \/ n \in Evaluated' /\ row'[n].sentAt
                                       \/ \E j \in Mounts : Run(j)'.pc = "mark" /\ Run(j)'.cur = n
        BY <1>0, <1>5, <1>11, <2>1, <2>2 DEF Accounted
    <2> QED
        BY <2>3, <2>4 DEF Accounted
<1>13. ASSUME NEW j \in Mounts PROVE CalmRun(j)'
    <2>1. CASE j = i
        BY <1>1, <1>7, <1>8, <1>9, <1>10, <1>11, <2>1 DEF CalmRun
    <2>2. CASE j # i
        <3>1. ASSUME Run(j) # NoRun, ~Run(j).cancelled PROVE FALSE
            <4>1. mount[j].open /\ cache[TabOf[j]].data # Undefined /\ TabOf[j] \in Tabs
                BY <1>5, <3>1, AutoReplyAssumption DEF CalmRun
            <4>2. TabOf[j] = TabOf[i]
                BY <1>5, <1>10, <4>1 DEF OneList, HasList
            <4> QED
                BY <1>5, <1>10, <2>2, <4>1, <4>2 DEF OneOpen
        <3> QED
            BY <1>8, <1>9, <2>2, <3>1 DEF CalmRun
    <2> QED
        BY <2>1, <2>2
<1>14. ASSUME NEW t \in Tabs PROVE CalmCache(t)'
    <2>1. t \in owed' => cache'[t].fetch # NoFetch
        BY OwedFacts
    <2>2. CASE HasList(cache[t])
        <3>1. t = TabOf[i]
            BY <1>5, <1>10, <2>2 DEF OneList, HasList
        <3>2. Untold(t)'
            BY <1>7, <1>8, <3>1 DEF Untold, MountsOf
        <3> QED
            BY <2>1, <3>2 DEF CalmCache
    <2>3. CASE ~HasList(cache[t])
        BY <1>8, <2>1, <2>3, Blank DEF CalmCache, HasList
    <2> QED
        BY <2>2, <2>3
<1> QED
    BY <1>4, <1>12, <1>13, <1>14

\* The end of a pass: one that has sent a reply leaves the tab owed the list it
\* asks for.
LEMMA FinishCalm ==
    ASSUME ExecInv, CalmInv, Watch, NEW i \in Mounts, Finish(i), UNCHANGED <<row, replies>>,
           Run(i).pc \in {"key", "next"}
    PROVE  CalmInv'
<1>0. /\ UNCHANGED evaluating /\ TabOf[i] \in Tabs
      /\ \A j \in Mounts \ {i} : mount'[j] = mount[j]
      /\ mount'[i].run = NoRun /\ mount'[i].open = mount[i].open
    BY FinishFacts
<1>1. OneOpen'
    BY <1>0 DEF CalmInv, OneOpen
<1> SUFFICES ASSUME calm'
             PROVE  /\ faults' = 0 /\ OneList' /\ Accounted'
                    /\ \A j \in Mounts : CalmRun(j)'
                    /\ \A t \in Tabs : CalmCache(t)'
    BY <1>1 DEF CalmInv
<1>2. calm /\ faults' = 0 /\ OneList'
    BY WatchFacts
<1>3. Accounted /\ \A j \in Mounts : CalmRun(j)
    BY <1>2 DEF CalmInv
<1>4. Run(i)' = NoRun /\ Run(i) # NoRun /\ \A j \in Mounts \ {i} : Run(j)' = Run(j)
    BY <1>0, Blank DEF Run
<1>5. \A t \in Tabs : /\ cache'[t].data = cache[t].data
                      /\ cache'[t].fetch = cache[t].fetch \/ cache'[t].fetch = Asked
    <2>1. CASE Run(i).cancelled
        BY <2>1, FinishFacts
    <2>2. CASE ~Run(i).cancelled
        <3> PICK c : /\ cache' = [cache EXCEPT ![TabOf[i]] = c]
                     /\ c.data = cache[TabOf[i]].data /\ c.fetch = Asked
            BY <2>2, FinishFacts
        <3> QED
            BY DEF ExecInv, Tables
    <2> QED
        BY <2>1, <2>2
<1>6. ~Run(i).cancelled => cache'[TabOf[i]].fetch = Asked
    <2>1. ASSUME ~Run(i).cancelled PROVE cache'[TabOf[i]].fetch = Asked
        <3> PICK c : cache' = [cache EXCEPT ![TabOf[i]] = c] /\ c.fetch = Asked
            BY <2>1, FinishFacts
        <3> QED
            BY <1>0 DEF ExecInv, Tables
    <2> QED
        BY <2>1
<1>7. Accounted'
    <2>1. Evaluated' = Evaluated
        BY <1>0 DEF Evaluated
    <2>2. \A j \in Mounts : Run(j).pc = "mark" => Run(j)' = Run(j)
        BY <1>4
    <2> QED
        BY <1>3, <2>1, <2>2 DEF Accounted
<1>8. ASSUME NEW j \in Mounts PROVE CalmRun(j)'
    <2>1. CASE j = i
        BY <1>4, <2>1, Blank DEF CalmRun
    <2>2. CASE j # i
        <3>1. TabOf[j] \in Tabs
            BY AutoReplyAssumption
        <3> QED
            BY <1>0, <1>3, <1>4, <1>5, <2>2, <3>1 DEF CalmRun
    <2> QED
        BY <2>1, <2>2
<1>9. ASSUME NEW t \in Tabs PROVE CalmCache(t)'
    <2>0. CalmCache(t)
        BY <1>2 DEF CalmInv
    <2>1. (t \in owed => t \in owed') /\ (t \in owed' => cache'[t].fetch # NoFetch)
        BY <1>5, <2>0, OwedFacts, Blank DEF CalmCache
    <2>2. CASE TabOf[i] = t /\ Run(i).posted
        <3>1. cache'[t].fetch = Asked
            BY <1>3, <1>6, <2>2 DEF CalmRun
        <3>2. i \in MountsOf(t)
            BY <2>2 DEF MountsOf
        <3>3. t \in owed'
            BY <1>4, <2>2, <3>1, <3>2, OwedFacts, Blank
        <3> QED
            BY <2>1, <3>1, <3>3, Blank DEF CalmCache
    <2>3. CASE ~(TabOf[i] = t /\ Run(i).posted)
        <3>1. Untold(t) => Untold(t)'
            BY <1>4, <2>3 DEF Untold, MountsOf
        <3> QED
            BY <1>5, <2>0, <2>1, <3>1, Blank DEF CalmCache
    <2> QED
        BY <2>2, <2>3
<1> QED
    BY <1>2, <1>7, <1>8, <1>9

\* The first states are calm.
LEMMA CalmInit == ASSUME Init PROVE CalmInv
<1>1. /\ \A i \in Mounts : mount[i] = Unmounted
      /\ \A t \in Tabs : cache[t] = EmptyCache
      /\ faults = 0 /\ owed = {} /\ \A m \in Msgs : replies[m] = 0
    BY DEF Init
<1>2. OneOpen
    BY <1>1, Blank DEF OneOpen
<1>3. OneList /\ Accounted
    BY <1>1, Blank DEF OneList, HasList, Accounted
<1>4. \A i \in Mounts : CalmRun(i)
    BY <1>1, Blank DEF CalmRun, Run
<1>5. \A t \in Tabs : CalmCache(t)
    BY <1>1, Blank DEF CalmCache
<1> QED
    BY <1>1, <1>2, <1>3, <1>4, <1>5 DEF CalmInv

\* Every step of a pass.
LEMMA RunStepCalm ==
    ASSUME ExecInv, CalmInv, Watch, NEW i \in Mounts, RunStep(i)
    PROVE  CalmInv'
<1>0. RunShape(Run(i))
    BY DEF ExecInv, MountInv, MountShape, Run
<1>1. CASE RunKey(i)
    <2>1. CASE Run(i).cancelled
        BY <1>1, <2>1, FinishCalm DEF RunKey
    <2>2. CASE ~Run(i).cancelled
        BY <1>0, <1>1, <2>2, OthersThink, ThinkingCalm DEF RunKey
    <2> QED
        BY <2>1, <2>2
<1>2. CASE RunNoKey(i) \/ RunDone(i)
    BY <1>2, FinishCalm DEF RunNoKey, RunDone
<1>3. CASE RunCalendar(i)
    BY <1>0, <1>3, OthersThink, ThinkingCalm DEF RunCalendar
<1>4. CASE RunCalendarFails(i)
    BY <1>0, <1>4, OthersThink, ThinkingCalm DEF RunCalendarFails
<1>5. ASSUME NEW m \in Msgs, RunEvaluate(i, m) PROVE CalmInv'
    BY <1>0, <1>5, EvaluateThinks, ThinkingCalm DEF RunEvaluate
<1>6. ASSUME NEW m \in Msgs, RunFetchFails(i, m) PROVE CalmInv'
    BY <1>0, <1>6, OthersThink, ThinkingCalm DEF RunFetchFails
<1> QED
    BY <1>1, <1>2, <1>3, <1>4, <1>5, <1>6, ReportCalm, SendCalm DEF RunStep

\* The steps of the server leave the evaluated rows alone.
LEMMA ServerStepCalm ==
    ASSUME ExecInv, CalmInv, Watch, EditSettings \/ \E m \in Msgs : Deliver(m) \/ Evaluate(m)
    PROVE  CalmInv'
<1>1. UNCHANGED <<mount, cache, replies>>
    BY DEF EditSettings, Deliver, Evaluate
<1>2. CASE EditSettings
    <2>1. \A m \in Evaluated : m \in Evaluated' /\ row'[m] = row[m]
        BY <1>2 DEF EditSettings, Evaluated
    <2> QED
        BY <1>1, <2>1, ServerCalm
<1>3. ASSUME NEW m \in Msgs, Deliver(m) \/ Evaluate(m) PROVE CalmInv'
    <2>1. \A n \in Msgs \ {m} : row'[n] = row[n]
        BY <1>3 DEF Deliver, Evaluate, ExecInv, Tables, Lists
    <2>2. m \notin Evaluated /\ evaluating' \subseteq evaluating \cup {m}
        BY <1>3 DEF Deliver, Evaluate, Evaluated
    <2>3. \A n \in Evaluated : n \in Evaluated' /\ row'[n] = row[n]
        BY <2>1, <2>2 DEF Evaluated
    <2> QED
        BY <1>1, <2>3, ServerCalm
<1> QED
    BY <1>2, <1>3

\* Every step.
LEMMA CalmStep == ASSUME ExecInv, CalmInv, [Next]_vars PROVE CalmInv'
<1>0. ExecInv'
    BY ExecStep
<1>1. CASE UNCHANGED vars
    BY <1>1 DEF vars, CalmInv, OneOpen, OneList, Accounted, Evaluated, CalmRun, CalmCache, Untold, Run
<1>2. CASE Step /\ Watch
    <2>1. ASSUME NEW i \in Mounts, Open(i) \/ Close(i) PROVE CalmInv'
        BY <1>0, <1>2, <2>1, OpenIsPage, CloseIsPage, PageCalm
    <2>2. ASSUME NEW t \in Tabs, PageAction(t) PROVE CalmInv'
        BY <1>0, <1>2, <2>2, PageActions, PageCalm
    <2> QED
        BY <1>2, <2>1, <2>2, ServerStepCalm, RunStepCalm DEF Step, PageAction
<1> QED
    BY <1>1, <1>2 DEF Next

\* A message is answered at most once by an inbox in which no request failed, that
\* is held in one tab at a time, where no pass was cancelled around a reply it sent
\* and none started while the list that shows such a reply was still on its way:
\* however often the settings change, passes without a reply are cancelled and the
\* page is left and reopened on the cached list (NexusInboxClient.tsx 201-303).
THEOREM CalmInboxAnswersOnce == Spec => []OnceWhenCalm
<1>1. CalmInv => OnceWhenCalm
    BY DEF CalmInv, OnceWhenCalm, Accounted
<1>2. Init => ExecInv /\ CalmInv
    BY ExecInit, CalmInit
<1>3. ExecInv /\ CalmInv /\ [Next]_vars => ExecInv' /\ CalmInv'
    BY ExecStep, CalmStep
<1> QED
    BY <1>1, <1>2, <1>3, PTL DEF Spec
=============================================================================
