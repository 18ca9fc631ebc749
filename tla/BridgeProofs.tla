----------------------------- MODULE BridgeProofs -----------------------------
(***************************************************************************)
(* Proofs about Bridge, for any number of tabs and agents, any quotas and  *)
(* windows: the daemon's rate limit, and that no paired session is         *)
(* forgotten by the browser without a reason.                              *)
(***************************************************************************)
EXTENDS Bridge, FiniteSetTheorems, TLAPS

-----------------------------------------------------------------------------
(* The rate limit. *)

\* The unwraps of a window that starts at tick "from".
Window(s, from, w) == {i \in DOMAIN s : from <= s[i] /\ s[i] < from + w}

\* No window of length w holds more than max unwraps, whatever its start.
Limited(s, w, max) == \A from \in Nat : Cardinality(Window(s, from, w)) <= max

\* The inductive invariant of the limit.
QuotaInv ==
    /\ now \in Nat /\ served \in Seq(Nat)
    /\ \A i \in DOMAIN served : served[i] <= now
    /\ Limited(served, Minute, PerMinute) /\ Limited(served, Day, PerDay)

\* A window is a finite set of positions.
LEMMA WindowFinite ==
    ASSUME NEW s \in Seq(Nat), NEW S \in SUBSET DOMAIN s
    PROVE  IsFiniteSet(S) /\ Cardinality(S) \in Nat
<1>1. DOMAIN s = 1..Len(s) /\ Len(s) \in Nat
    OBVIOUS
<1>2. IsFiniteSet(1..Len(s))
    BY <1>1, FS_Interval
<1> QED
    BY <1>1, <1>2, FS_Subset, FS_CardinalityType

\* An unwrap recorded while its bucket has room keeps every window within the
\* limit: one that holds it holds nothing the bucket does not.
LEMMA AppendKeepsLimit ==
    ASSUME QuotaInv, NEW w \in Nat, NEW max \in Nat, Limited(served, w, max),
           Cardinality(Within(w)) < max
    PROVE  Limited(Append(served, now), w, max)
<1> DEFINE s == Append(served, now)
           n == Len(served) + 1
<1>0. now \in Nat /\ served \in Seq(Nat) /\ \A i \in DOMAIN served : served[i] <= now /\ served[i] \in Nat
    BY DEF QuotaInv
<1>1. /\ s \in Seq(Nat) /\ DOMAIN s = DOMAIN served \union {n} /\ n \notin DOMAIN served
      /\ s[n] = now /\ \A i \in DOMAIN served : s[i] = served[i]
    BY <1>0
<1> HIDE DEF s, n
<1> SUFFICES ASSUME NEW from \in Nat PROVE Cardinality(Window(s, from, w)) <= max
    BY DEF Limited, s
<1>2. Cardinality(Window(served, from, w)) <= max
    BY DEF Limited
<1>3. CASE n \notin Window(s, from, w)
    <2>1. Window(s, from, w) = Window(served, from, w)
        BY <1>1, <1>3 DEF Window
    <2> QED
        BY <1>2, <2>1
<1>4. CASE n \in Window(s, from, w)
    <2>1. from <= now /\ now < from + w
        BY <1>1, <1>4 DEF Window
    <2>2. Window(s, from, w) = Window(served, from, w) \union {n} /\ n \notin Window(served, from, w)
        BY <1>1, <1>4 DEF Window
    <2>3. Window(served, from, w) \subseteq Within(w)
        BY <1>0, <2>1 DEF Window, Within
    <2>4. /\ IsFiniteSet(Within(w)) /\ Cardinality(Within(w)) \in Nat
          /\ IsFiniteSet(Window(served, from, w)) /\ Cardinality(Window(served, from, w)) \in Nat
        BY <1>0, WindowFinite DEF Window, Within
    <2>5. Cardinality(Window(served, from, w)) <= Cardinality(Within(w))
        BY <2>3, <2>4, FS_Subset
    <2>6. Cardinality(Window(s, from, w)) = Cardinality(Window(served, from, w)) + 1
        BY <2>2, <2>4, FS_AddElement
    <2> QED
        BY <2>4, <2>5, <2>6
<1> QED
    BY <1>3, <1>4

\* The empty log.
LEMMA InitQuota == Init => QuotaInv
<1> SUFFICES ASSUME Init PROVE QuotaInv
    OBVIOUS
<1>1. served = <<>> /\ now = 0
    BY DEF Init
<1>2. ASSUME NEW w \in Nat, NEW max \in Nat
      PROVE  Limited(served, w, max)
    <2> SUFFICES ASSUME NEW from \in Nat PROVE Cardinality(Window(served, from, w)) <= max
        BY DEF Limited
    <2>1. Window(served, from, w) = {}
        BY <1>1 DEF Window
    <2> QED
        BY <2>1, FS_EmptySet
<1> QED
    BY <1>1, <1>2, BridgeAssumption DEF QuotaInv

\* Only an unwrap appends to the log, only a restart empties it, and only time
\* moves the clock.
LEMMA ServedStep ==
    ASSUME Next
    PROVE  \/ UNCHANGED <<served, now>>
           \/ /\ Cardinality(Within(Minute)) < PerMinute /\ Cardinality(Within(Day)) < PerDay
              /\ served' = Append(served, now) /\ now' = now
           \/ served' = <<>> /\ now' = now
           \/ served' = served /\ now' = now + 1
<1>1. ASSUME NEW t \in Tabs, User(t)
      PROVE  UNCHANGED <<served, now>>
    BY <1>1 DEF User, SelectAgent, CloseTab, Logout, SubmitPair, SubmitAdvanced, Begin, daemon
<1>2. ASSUME NEW t \in Tabs, Failure(t)
      PROVE  UNCHANGED <<served, now>>
    BY <1>2 DEF Failure, PairLost, StorageUnavailable, StorageThrows, SaveSkipped, RevokeLost, daemon
<1>3. ASSUME NEW t \in Tabs, Step(t), ~RestoreServed(t)
      PROVE  UNCHANGED <<served, now>>
    BY <1>3 DEF Step, EffectLoaded, EffectProbes, EffectProbed, PairServed, KekRead, KekCreated, Saved,
                UserProbed, TokenLoaded, RevokeServed, Revoked, daemon
<1>4. ASSUME NEW t \in Tabs, RestoreServed(t)
      PROVE  \/ UNCHANGED <<served, now>>
             \/ /\ Cardinality(Within(Minute)) < PerMinute /\ Cardinality(Within(Day)) < PerDay
                /\ served' = Append(served, now) /\ now' = now
    BY <1>4 DEF RestoreServed
<1>5. CASE Restart
    BY <1>5 DEF Restart
<1>6. CASE CodeExpires \/ KekLost
    BY <1>6 DEF CodeExpires, KekLost, daemon
<1>7. CASE Tick
    BY <1>7 DEF Tick, daemon
<1> QED
    BY <1>1, <1>2, <1>3, <1>4, <1>5, <1>6, <1>7 DEF Next

\* Every step keeps the limit.
LEMMA NextQuota == QuotaInv /\ [Next]_vars => QuotaInv'
<1> SUFFICES ASSUME QuotaInv, [Next]_vars PROVE QuotaInv'
    OBVIOUS
<1>0. /\ now \in Nat /\ served \in Seq(Nat) /\ \A i \in DOMAIN served : served[i] <= now /\ served[i] \in Nat
      /\ PerMinute \in Nat /\ PerDay \in Nat /\ Minute \in Nat /\ Day \in Nat
    BY BridgeAssumption DEF QuotaInv
<1>1. CASE UNCHANGED <<served, now>>
    BY <1>1 DEF QuotaInv
<1>2. CASE /\ Cardinality(Within(Minute)) < PerMinute /\ Cardinality(Within(Day)) < PerDay
           /\ served' = Append(served, now) /\ now' = now
    <2>1. Limited(served', Minute, PerMinute) /\ Limited(served', Day, PerDay)
        BY <1>0, <1>2, AppendKeepsLimit DEF QuotaInv
    <2>2. served' \in Seq(Nat) /\ \A i \in DOMAIN served' : served'[i] <= now
        BY <1>0, <1>2
    <2> QED
        BY <1>0, <1>2, <2>1, <2>2 DEF QuotaInv
<1>3. CASE served' = <<>> /\ now' = now
    <2>1. ASSUME NEW w \in Nat, NEW max \in Nat
          PROVE  Limited(served', w, max)
        <3> SUFFICES ASSUME NEW from \in Nat PROVE Cardinality(Window(served', from, w)) <= max
            BY DEF Limited
        <3>1. Window(served', from, w) = {}
            BY <1>3 DEF Window
        <3> QED
            BY <3>1, FS_EmptySet
    <2> QED
        BY <1>0, <1>3, <2>1 DEF QuotaInv
<1>4. CASE served' = served /\ now' = now + 1
    <2>1. Limited(served', Minute, PerMinute) /\ Limited(served', Day, PerDay)
        BY <1>4 DEF QuotaInv
    <2> QED
        BY <1>0, <1>4, <2>1 DEF QuotaInv
<1> QED
    BY <1>1, <1>2, <1>3, <1>4, ServedStep DEF vars, daemon

\* In no stretch of Minute or Day ticks does the daemon unwrap more keys than
\* its bucket allows (check_and_record in bridge.rs), restarts included.
THEOREM QuotaHolds == Spec => []QuotaInEveryWindow
<1>1. QuotaInv => QuotaInEveryWindow
    <2> SUFFICES ASSUME QuotaInv, NEW from \in 0..MaxTime
                 PROVE  /\ Cardinality(Window(served, from, Minute)) <= PerMinute
                        /\ Cardinality(Window(served, from, Day)) <= PerDay
        BY DEF QuotaInEveryWindow, Window
    <2>1. from \in Nat
        BY BridgeAssumption
    <2> QED
        BY <2>1 DEF QuotaInv, Limited
<1> QED
    BY <1>1, InitQuota, NextQuota, PTL DEF Spec

-----------------------------------------------------------------------------
(* Orphaned sessions. *)

Records == [tok : Nat, kek : Nat]
Pcs == {"idle", "unwrap", "remake", "status", "pair", "minted", "create", "wrap", "call", "revoked"}
Kinds == {"none", "load", "probe", "pair", "paste", "revoke", "revokeAll", "restore"}
Ops == [pc : Pcs, kind : Kinds, aid : Aids \union {"none"}, raw : Records,
        tok : Nat, nonce : Nat, code : Nat, key : Nat, mounted : BOOLEAN]
LiveOps == {o \in Ops : o.pc # "idle" => o.aid \in Aids}
Panels == [aid : Aids \union {"none"}, hash : Nat, thrown : BOOLEAN,
           status : {"idle", "probing", "pairing", "paired", "error", "offline"}]

\* The types of what the tabs, the browser's storage and the daemon hold.  An
\* operation that is under way is about an agent; its panel is open unless the
\* user logged out meanwhile.
BridgeTypes ==
    /\ code \in Nat /\ kek \in Nat /\ issued \in Nat
    /\ sessions \subseteq [tok : Nat, nonce : Nat]
    /\ local \in [Aids -> Records] /\ nonce \in [Tabs -> [Aids -> Nat]]
    /\ panel \in [Tabs -> Panels]
    /\ load \in [Tabs -> LiveOps] /\ probe \in [Tabs -> LiveOps] /\ user \in [Tabs -> LiveOps]
    /\ \A t \in Tabs :
          load[t].pc # "idle" \/ (user[t].pc # "idle" /\ user[t].mounted) => panel[t].aid \in Aids

\* The daemon knows no session of token x, or the browser's storage has the
\* token, or it was lost for a reason.
Paired(x) == \E s \in sessions : s.tok = x
Stored(x) == \E a \in Aids : local[a].tok = x
Covered(x) == Paired(x) => Stored(x) \/ x \in excused

\* What a tab's operation may rely on, by what it waits for.
UserInv(t) ==
    /\ user[t].tok <= issued /\ user[t].raw.tok <= issued
    /\ user[t].pc \in {"idle", "pair", "unwrap", "remake"} => user[t].tok = None
    /\ user[t].pc = "unwrap" => Covered(user[t].raw.tok)
    /\ user[t].pc \in {"call", "status"} => Covered(user[t].tok)
    /\ user[t].pc = "revoked" /\ Paired(user[t].tok) => user[t].tok \in excused

\* Tokens are numbered as they are issued.
TokenInv ==
    /\ Shared <= issued
    /\ \A a \in Aids : local[a].tok <= issued
    /\ \A s \in sessions : 0 < s.tok /\ s.tok <= issued

\* A session's token is somewhere, or lost for a reason.
SessionInv == \A s \in sessions : Covered(s.tok) \/ \E t \in Tabs : user[t].tok = s.tok

\* The inductive invariant.
OInv == BridgeTypes /\ TokenInv /\ SessionInv /\ \A t \in Tabs : UserInv(t)

\* The values operations and panels start from.
LEMMA Values ==
    /\ NoRecord \in Records /\ NoRecord.tok = 0
    /\ Idle \in LiveOps /\ Idle.pc = "idle" /\ Idle.tok = 0 /\ Idle.raw.tok = 0
    /\ Closed \in Panels /\ Closed.aid = "none"
    /\ \A a \in Aids : /\ [Closed EXCEPT !.aid = a] \in Panels
                       /\ [Closed EXCEPT !.aid = a].aid = a
    /\ \A kind \in Kinds, a \in Aids, rec \in Records :
          /\ Start(kind, a, rec) \in LiveOps /\ Start(kind, a, rec).pc = "unwrap"
          /\ Start(kind, a, rec).tok = 0 /\ Start(kind, a, rec).raw = rec
<1>1. NoRecord \in Records /\ NoRecord.tok = 0
    BY DEF NoRecord, Records, None
<1>2. Idle \in LiveOps /\ Idle.pc = "idle" /\ Idle.tok = 0 /\ Idle.raw.tok = 0
    BY <1>1 DEF Idle, LiveOps, Ops, Pcs, Kinds, None
<1>3. /\ Closed \in Panels /\ Closed.aid = "none"
      /\ \A a \in Aids : /\ [Closed EXCEPT !.aid = a] \in Panels
                         /\ [Closed EXCEPT !.aid = a].aid = a
    BY DEF Closed, Panels, None
<1>4. ASSUME NEW kind \in Kinds, NEW a \in Aids, NEW rec \in Records
      PROVE  /\ Start(kind, a, rec) \in LiveOps /\ Start(kind, a, rec).pc = "unwrap"
             /\ Start(kind, a, rec).tok = 0 /\ Start(kind, a, rec).raw = rec
    <2>1. Idle \in Ops
        BY <1>2 DEF LiveOps
    <2>2. /\ Start(kind, a, rec) \in Ops /\ Start(kind, a, rec).pc = "unwrap"
          /\ Start(kind, a, rec).tok = Idle.tok /\ Start(kind, a, rec).raw = rec /\ Start(kind, a, rec).aid = a
        BY <2>1 DEF Start, Ops, Pcs
    <2> QED
        BY <1>2, <2>2 DEF LiveOps
<1> QED
    BY <1>1, <1>2, <1>3, <1>4

\* The user's operation of a tab is replaced.
LEMMA GoStep ==
    ASSUME user \in [Tabs -> LiveOps], NEW t \in Tabs, NEW op \in LiveOps, Go(t, op)
    PROVE  user' \in [Tabs -> LiveOps] /\ user'[t] = op /\ \A u \in Tabs \ {t} : user'[u] = user[u]
BY DEF Go

\* The panel's state of a tab changes.
LEMMA StatusStep ==
    ASSUME panel \in [Tabs -> Panels], NEW t \in Tabs,
           NEW st \in {"idle", "probing", "pairing", "paired", "error", "offline"},
           panel' = [panel EXCEPT ![t].status = st]
    PROVE  panel' \in [Tabs -> Panels] /\ \A u \in Tabs : panel'[u].aid = panel[u].aid
<1>1. [panel[t] EXCEPT !.status = st] \in Panels /\ [panel[t] EXCEPT !.status = st].aid = panel[t].aid
    BY DEF Panels
<1> QED
    BY <1>1

\* The panel of an open tab learns of a token, and probes it.
LEMMA StampStep ==
    ASSUME BridgeTypes, NEW t \in Tabs, NEW hash \in Nat,
           NEW st \in {"idle", "probing", "pairing", "paired", "error", "offline"},
           local' \in [Aids -> Records], panel[t].aid \in Aids, Stamp(t, hash, st)
    PROVE  /\ panel' \in [Tabs -> Panels] /\ \A u \in Tabs : panel'[u].aid = panel[u].aid
           /\ probe' \in [Tabs -> LiveOps]
<1> DEFINE w == [panel[t] EXCEPT !.hash = hash, !.status = st]
           a == panel[t].aid
           o == IF local'[a] = NoRecord THEN Idle ELSE Start("probe", a, local'[a])
<1>0. panel \in [Tabs -> Panels] /\ panel[t] \in Panels /\ probe \in [Tabs -> LiveOps]
    BY DEF BridgeTypes
<1>1. w \in Panels /\ w.aid = panel[t].aid
    BY <1>0 DEF Panels
<1>2. panel' = [panel EXCEPT ![t] = w]
    BY <1>0 DEF Stamp, Panels
<1>3. o \in LiveOps
    BY Values DEF Kinds
<1>4. probe' = probe \/ probe' = [probe EXCEPT ![t] = o]
    BY DEF Stamp
<1> HIDE DEF w, a, o
<1> QED
    BY <1>0, <1>1, <1>2, <1>3, <1>4

\* What an operation says reaches its panel, or nobody.
LEMMA TellStep ==
    ASSUME BridgeTypes, NEW t \in Tabs, NEW hash \in Nat, user[t].pc # "idle",
           NEW st \in {"idle", "probing", "pairing", "paired", "error", "offline"},
           local' \in [Aids -> Records], Tell(t, Stamp(t, hash, st))
    PROVE  /\ panel' \in [Tabs -> Panels] /\ \A u \in Tabs : panel'[u].aid = panel[u].aid
           /\ probe' \in [Tabs -> LiveOps]
<1>1. CASE user[t].mounted
    <2>1. panel[t].aid \in Aids /\ Stamp(t, hash, st)
        BY <1>1 DEF BridgeTypes, Tell
    <2> QED
        BY <2>1, StampStep
<1>2. CASE ~user[t].mounted
    BY <1>2 DEF BridgeTypes, Tell
<1> QED
    BY <1>1, <1>2

\* A record that cannot be opened is removed, and accounted for.
LEMMA EvictStep ==
    ASSUME BridgeTypes, NEW op, Evict(op)
    PROVE  /\ local' \in [Aids -> Records] /\ kek' \in Nat /\ issued' \in Nat /\ nonce' = nonce
           /\ issued <= issued' /\ excused \subseteq excused'
           /\ \A b \in Aids : local'[b] = local[b] \/ (local'[b].tok = 0 /\ local[b].tok \in excused')
<1>1. NoRecord \in Records /\ NoRecord.tok = 0
    BY Values
<1>2. kek' \in Nat /\ issued' \in Nat /\ nonce' = nonce /\ issued <= issued'
    BY DEF BridgeTypes, Evict, Unreadable, Fresh, Mint
<1>3. local \in [Aids -> Records] /\ local' = [local EXCEPT ![op.aid] = NoRecord]
      /\ excused' = excused \union {local[op.aid].tok}
    BY DEF BridgeTypes, Evict
<1>4. ASSUME NEW b \in Aids
      PROVE  local'[b] = local[b] \/ (local'[b].tok = 0 /\ local[b].tok \in excused')
    BY <1>1, <1>3
<1>5. local' \in [Aids -> Records] /\ excused \subseteq excused'
    BY <1>1, <1>3
<1> QED
    BY <1>2, <1>4, <1>5

\* A step that takes nothing from the tabs outside T, adds no session, and
\* removes tokens from storage only for a reason or after their session.
LEMMA TabsStep ==
    ASSUME OInv, BridgeTypes', NEW T \in SUBSET Tabs,
           \A u \in Tabs \ T : user'[u] = user[u],
           issued <= issued', sessions' \subseteq sessions, excused \subseteq excused',
           \A a \in Aids : \/ local'[a].tok = local[a].tok
                           \/ local[a].tok \in excused'
                           \/ \A s \in sessions' : s.tok # local[a].tok,
           \A a \in Aids : local'[a].tok <= issued',
           \A u \in T : UserInv(u)',
           \A u \in T, x \in Nat : x = user[u].tok => user'[u].tok = x \/ Covered(x)'
    PROVE  OInv'
<1>0. /\ BridgeTypes /\ TokenInv /\ SessionInv /\ (\A t \in Tabs : UserInv(t))
      /\ issued \in Nat /\ issued' \in Nat
      /\ (\A t \in Tabs : user[t].tok \in Nat /\ user[t].raw.tok \in Nat)
      /\ \A s \in sessions : s.tok \in Nat
    BY DEF OInv, BridgeTypes, LiveOps, Ops, Records
<1>1. ASSUME NEW x, Covered(x)
      PROVE  Covered(x)'
    <2> SUFFICES ASSUME NEW s \in sessions', s.tok = x
                 PROVE  Stored(x)' \/ x \in excused'
        BY DEF Covered, Paired
    <2>1. Stored(x) \/ x \in excused
        BY <1>1 DEF Covered, Paired
    <2>2. ASSUME Stored(x)
          PROVE  Stored(x)' \/ x \in excused'
        <3>1. PICK a \in Aids : local[a].tok = x
            BY <2>2 DEF Stored
        <3> QED
            BY <3>1 DEF Stored
    <2> QED
        BY <2>1, <2>2
<1>2. \A x : Paired(x)' => Paired(x)
    BY DEF Paired
<1>3. ASSUME NEW u \in Tabs
      PROVE  UserInv(u)'
    <2>1. CASE u \in T
        BY <2>1
    <2>2. CASE u \notin T
        <3>1. UserInv(u) /\ user'[u] = user[u] /\ user[u].tok <= issued' /\ user[u].raw.tok <= issued'
            BY <1>0, <2>2 DEF UserInv
        <3> QED
            BY <1>1, <1>2, <3>1 DEF UserInv
    <2> QED
        BY <2>1, <2>2
<1>4. TokenInv'
    BY <1>0 DEF TokenInv, Shared
<1>5. SessionInv'
    <2> SUFFICES ASSUME NEW s \in sessions'
                 PROVE  Covered(s.tok)' \/ \E t \in Tabs : user'[t].tok = s.tok
        BY DEF SessionInv
    <2>1. Covered(s.tok) \/ \E t \in Tabs : user[t].tok = s.tok
        BY <1>0 DEF SessionInv
    <2>2. ASSUME NEW t \in Tabs, user[t].tok = s.tok
          PROVE  Covered(s.tok)' \/ \E u \in Tabs : user'[u].tok = s.tok
        BY <1>0, <2>2
    <2> QED
        BY <1>1, <2>1, <2>2
<1> QED
    BY <1>3, <1>4, <1>5 DEF OInv

\* What every step of a tab starts from.
LEMMA Facts ==
    ASSUME OInv, NEW t \in Tabs
    PROVE  /\ BridgeTypes /\ UserInv(t) /\ user[t] \in LiveOps
           /\ user[t].tok \in Nat /\ user[t].raw \in Records /\ user[t].raw.tok \in Nat
           /\ user[t].pc # "idle" => user[t].aid \in Aids
           /\ user[t].pc # "idle" /\ user[t].mounted => panel[t].aid \in Aids
           /\ load[t].pc # "idle" => load[t].aid \in Aids /\ panel[t].aid \in Aids
           /\ panel[t].aid # "none" => panel[t].aid \in Aids
           /\ \A a \in Aids : local[a] \in Records /\ local[a].tok \in Nat /\ local[a].tok <= issued
BY DEF OInv, BridgeTypes, LiveOps, Ops, Records, Panels, TokenInv

\* The effects of the panel and the environment: no operation of the user moves.
LEMMA EffectsPreserve ==
    ASSUME OInv,
           \/ \E t \in Tabs : EffectLoaded(t) \/ EffectProbes(t) \/ EffectProbed(t)
           \/ \E t \in Tabs, a \in Aids : SelectAgent(t, a)
           \/ Restart \/ CodeExpires \/ KekLost \/ Tick
    PROVE  OInv'
<1>0. /\ BridgeTypes /\ \A a \in Aids : local[a].tok \in Nat /\ local[a].tok <= issued
      /\ issued \in Nat
    BY DEF OInv, BridgeTypes, Records, TokenInv
<1>1. UNCHANGED user
    BY DEF EffectLoaded, EffectProbes, EffectProbed, SelectAgent, Restart, CodeExpires, KekLost, Tick, tabs
<1>2. ASSUME BridgeTypes', issued <= issued', sessions' \subseteq sessions, excused \subseteq excused',
             \A b \in Aids : local'[b] = local[b] \/ (local'[b].tok = 0 /\ local[b].tok \in excused')
      PROVE  OInv'
    <2>1. \A b \in Aids : local'[b].tok <= issued'
        <3>1. issued' \in Nat
            BY <1>2 DEF BridgeTypes
        <3> QED
            BY <1>0, <1>2, <3>1
    <2>2. \A b \in Aids : local'[b].tok = local[b].tok \/ local[b].tok \in excused'
        BY <1>2
    <2> DEFINE T == {}
    <2>3. T \in SUBSET Tabs /\ (\A u \in Tabs \ T : user'[u] = user[u]) /\ \A u \in T : FALSE
        BY <1>1
    <2> HIDE DEF T
    <2> QED
        BY <1>2, <2>1, <2>2, <2>3, TabsStep
<1>3. ASSUME NEW t \in Tabs, EffectLoaded(t)
      PROVE  OInv'
    <2>0. /\ load[t].pc \in {"unwrap", "remake"} /\ UNCHANGED <<code, sessions>>
          /\ load[t] \in LiveOps /\ load[t].aid \in Aids /\ panel[t].aid \in Aids /\ load[t].raw.tok \in Nat
        <3>1. load[t].pc \in {"unwrap", "remake"} /\ UNCHANGED <<code, sessions>>
            BY <1>3 DEF EffectLoaded, NoKey, Evict, Unreadable, daemon
        <3> QED
            BY <1>0, <3>1 DEF BridgeTypes, LiveOps, Ops, Records
    <2>1. ASSUME load' = [load EXCEPT ![t] = Idle]
          PROVE  load' \in [Tabs -> LiveOps] /\ \A u \in Tabs : load'[u].pc # "idle" => load[u].pc # "idle"
        BY <1>0, <2>1, Values DEF BridgeTypes
    <2>2. CASE /\ load' = [load EXCEPT ![t] = Idle] /\ UNCHANGED <<store, issued, excused>>
               /\ Stamp(t, load[t].raw.tok, panel[t].status)
        <3>1. panel[t].status \in {"idle", "probing", "pairing", "paired", "error", "offline"}
            BY <1>0 DEF BridgeTypes, Panels
        <3>2. local' \in [Aids -> Records]
            BY <1>0, <2>2 DEF BridgeTypes, store
        <3>3. /\ panel' \in [Tabs -> Panels] /\ \A u \in Tabs : panel'[u].aid = panel[u].aid
              /\ probe' \in [Tabs -> LiveOps]
            BY <1>0, <2>0, <2>2, <3>1, <3>2, StampStep
        <3>4. BridgeTypes'
            BY <1>0, <1>1, <2>0, <2>1, <2>2, <3>3 DEF BridgeTypes, store
        <3> QED
            BY <1>0, <1>2, <2>0, <2>2, <3>4 DEF store
    <2>3. CASE Evict(load[t]) /\ load' = [load EXCEPT ![t] = Idle] /\ UNCHANGED <<panel, probe>>
        <3>1. BridgeTypes'
            BY <1>0, <1>1, <2>0, <2>1, <2>3, EvictStep DEF BridgeTypes
        <3> QED
            BY <1>0, <1>2, <2>0, <2>3, <3>1, EvictStep
    <2>4. CASE load' = [load EXCEPT ![t].pc = "remake"] /\ UNCHANGED <<store, issued, excused, panel, probe>>
        <3>1. PICK o : o = [load[t] EXCEPT !.pc = "remake"]
            OBVIOUS
        <3>2. o \in LiveOps /\ load' = [load EXCEPT ![t] = o]
            BY <1>0, <2>0, <2>4, <3>1 DEF LiveOps, Ops, Pcs, BridgeTypes
        <3>3. load' \in [Tabs -> LiveOps] /\ \A u \in Tabs : load'[u].pc # "idle" => load[u].pc # "idle"
            BY <1>0, <2>0, <3>2 DEF BridgeTypes
        <3>4. BridgeTypes'
            BY <1>0, <1>1, <2>0, <2>4, <3>3 DEF BridgeTypes, store
        <3> QED
            BY <1>0, <1>2, <2>0, <2>4, <3>4 DEF store
    <2> QED
        BY <1>3, <2>2, <2>3, <2>4 DEF EffectLoaded
<1>4. ASSUME NEW t \in Tabs, EffectProbes(t)
      PROVE  OInv'
    <2>0. probe[t].pc \in {"unwrap", "remake"} /\ UNCHANGED <<code, sessions, panel, load>>
        BY <1>4 DEF EffectProbes, NoKey, Evict, Unreadable, daemon
    <2>1. /\ probe[t] \in LiveOps /\ probe[t].aid \in Aids /\ probe[t].raw.tok \in Nat
          /\ nonce[t][probe[t].aid] \in Nat
        BY <1>0, <2>0 DEF BridgeTypes, LiveOps, Ops, Records
    <2>2. ASSUME NEW o \in LiveOps, probe' = [probe EXCEPT ![t] = o], UNCHANGED <<store, issued, excused>>
          PROVE  OInv'
        <3>1. BridgeTypes'
            BY <1>0, <1>1, <2>0, <2>2 DEF BridgeTypes, store
        <3> QED
            BY <1>0, <1>2, <2>0, <2>2, <3>1 DEF store
    <2>3. CASE /\ probe' = [probe EXCEPT ![t] = [probe[t] EXCEPT !.pc = "status", !.tok = probe[t].raw.tok,
                                                                !.nonce = nonce[t][probe[t].aid]]]
               /\ UNCHANGED <<store, issued, excused>>
        <3>1. PICK o : o = [probe[t] EXCEPT !.pc = "status", !.tok = probe[t].raw.tok,
                                            !.nonce = nonce[t][probe[t].aid]]
            OBVIOUS
        <3>2. o \in LiveOps
            BY <2>1, <3>1 DEF LiveOps, Ops, Pcs
        <3> QED
            BY <2>2, <2>3, <3>1, <3>2
    <2>4. CASE Evict(probe[t]) /\ probe' = [probe EXCEPT ![t] = Idle]
        <3>1. BridgeTypes'
            BY <1>0, <1>1, <2>0, <2>4, EvictStep, Values DEF BridgeTypes
        <3> QED
            BY <1>0, <1>2, <2>0, <2>4, <3>1, EvictStep
    <2>5. CASE probe' = [probe EXCEPT ![t].pc = "remake"] /\ UNCHANGED <<store, issued, excused>>
        <3>1. PICK o : o = [probe[t] EXCEPT !.pc = "remake"]
            OBVIOUS
        <3>2. o \in LiveOps /\ probe' = [probe EXCEPT ![t] = o]
            BY <1>0, <2>1, <2>5, <3>1 DEF LiveOps, Ops, Pcs, BridgeTypes
        <3> QED
            BY <2>2, <2>5, <3>2
    <2> QED
        BY <1>4, <2>3, <2>4, <2>5 DEF EffectProbes
<1>5. ASSUME NEW t \in Tabs, EffectProbed(t)
      PROVE  OInv'
    <2>1. PICK st \in {"paired", "error", "offline"} : panel' = [panel EXCEPT ![t].status = st]
        BY <1>5 DEF EffectProbed
    <2>2. panel' \in [Tabs -> Panels] /\ \A u \in Tabs : panel'[u].aid = panel[u].aid
        BY <1>0, <2>1, StatusStep DEF BridgeTypes
    <2>3. probe' = [probe EXCEPT ![t] = Idle] /\ UNCHANGED <<daemon, store, load, issued, excused>>
        BY <1>5 DEF EffectProbed
    <2>4. BridgeTypes'
        BY <1>0, <1>1, <2>2, <2>3, Values DEF BridgeTypes, store, daemon
    <2> QED
        BY <1>0, <1>2, <2>3, <2>4 DEF store, daemon
<1>6. ASSUME NEW t \in Tabs, NEW a \in Aids, SelectAgent(t, a)
      PROVE  OInv'
    <2>1. /\ UNCHANGED <<daemon, store, issued, excused>>
          /\ panel' = [panel EXCEPT ![t] = [Closed EXCEPT !.aid = a]]
          /\ load' = [load EXCEPT ![t] = Effect("load", a)]
          /\ probe' = [probe EXCEPT ![t] = Effect("probe", a)]
        BY <1>6 DEF SelectAgent, Show
    <2>2. Effect("load", a) \in LiveOps /\ Effect("probe", a) \in LiveOps
        BY <1>0, Values DEF Effect, BridgeTypes, Kinds
    <2>3. [Closed EXCEPT !.aid = a] \in Panels /\ [Closed EXCEPT !.aid = a].aid = a
        BY Values
    <2>4. BridgeTypes'
        BY <1>0, <1>1, <2>1, <2>2, <2>3 DEF BridgeTypes, store, daemon
    <2> QED
        BY <1>0, <1>2, <2>1, <2>4 DEF store, daemon
<1>7. CASE Restart
    <2>1. BridgeTypes'
        BY <1>0, <1>7 DEF Restart, BridgeTypes, store, tabs, Fresh, Mint
    <2> QED
        BY <1>0, <1>2, <1>7, <2>1 DEF Restart, store, Fresh, Mint
<1>8. CASE CodeExpires \/ KekLost \/ Tick
    <2>1. BridgeTypes' /\ UNCHANGED <<sessions, local, issued, excused>>
        BY <1>0, <1>8 DEF CodeExpires, KekLost, Tick, BridgeTypes, store, tabs, daemon, None
    <2> QED
        BY <1>0, <1>2, <2>1
<1> QED
    BY <1>3, <1>4, <1>5, <1>6, <1>7, <1>8

\* A step of the user's operation in tab t, which becomes op: it adds no session,
\* and its old token is kept or covered.
LEMMA UserStep ==
    ASSUME OInv, NEW t \in Tabs, NEW op \in LiveOps, Go(t, op),
           op.pc # "idle" /\ op.mounted => panel[t].aid \in Aids,
           code' \in Nat, kek' \in Nat, issued' \in Nat, issued <= issued',
           sessions' \subseteq sessions, excused \subseteq excused',
           local' \in [Aids -> Records], nonce' \in [Tabs -> [Aids -> Nat]],
           panel' \in [Tabs -> Panels], \A u \in Tabs : panel'[u].aid = panel[u].aid,
           probe' \in [Tabs -> LiveOps], load' = load,
           \A a \in Aids : \/ local'[a].tok = local[a].tok
                           \/ local[a].tok \in excused'
                           \/ \A s \in sessions' : s.tok # local[a].tok,
           \A a \in Aids : local'[a].tok <= issued',
           op.tok <= issued', op.raw.tok <= issued',
           op.pc \in {"idle", "pair", "unwrap", "remake"} => op.tok = None,
           op.pc = "unwrap" => Covered(op.raw.tok)',
           op.pc \in {"call", "status"} => Covered(op.tok)',
           op.pc = "revoked" /\ Paired(op.tok)' => op.tok \in excused',
           \A x \in Nat : x = user[t].tok => op.tok = x \/ Covered(x)'
    PROVE  OInv'
<1>0. BridgeTypes
    BY DEF OInv
<1>1. user' \in [Tabs -> LiveOps] /\ user'[t] = op /\ \A u \in Tabs \ {t} : user'[u] = user[u]
    BY <1>0, GoStep DEF BridgeTypes
<1>2. BridgeTypes'
    <2>1. sessions' \subseteq [tok : Nat, nonce : Nat]
        BY <1>0 DEF BridgeTypes
    <2>2. ASSUME NEW u \in Tabs, load'[u].pc # "idle" \/ (user'[u].pc # "idle" /\ user'[u].mounted)
          PROVE  panel'[u].aid \in Aids
        BY <1>0, <1>1, <2>2 DEF BridgeTypes
    <2>3. load' \in [Tabs -> LiveOps]
        BY <1>0 DEF BridgeTypes
    <2> QED
        BY <1>1, <2>1, <2>2, <2>3 DEF BridgeTypes
<1>3. UserInv(t)'
    BY <1>1 DEF UserInv
<1> DEFINE T == {t}
<1>4. /\ T \in SUBSET Tabs /\ (\A u \in Tabs \ T : user'[u] = user[u]) /\ (\A u \in T : UserInv(u)')
      /\ \A u \in T, x \in Nat : x = user[u].tok => user'[u].tok = x \/ Covered(x)'
    BY <1>1, <1>3
<1> HIDE DEF T
<1> QED
    BY <1>2, <1>4, TabsStep

\* What an operation's token is covered by stays while the storage, the history
\* and the daemon's sessions lose nothing.
LEMMA CoveredKept ==
    ASSUME NEW x, Covered(x), local' = local, sessions' \subseteq sessions, excused \subseteq excused'
    PROVE  Covered(x)'
BY DEF Covered, Paired, Stored

\* The operation ends and its token is dropped for a reason.
LEMMA FailPreserves ==
    ASSUME OInv, NEW t \in Tabs,
           Go(t, Idle), excused' = excused \union {user[t].tok},
           \/ \E st \in {"error"} : Status(t, st)
           \/ panel' = [panel EXCEPT ![t].thrown = TRUE] /\ probe' = probe
           \/ UNCHANGED <<panel, probe>>,
           UNCHANGED <<daemon, store, load, issued>>
    PROVE  OInv'
<1>0. /\ BridgeTypes /\ UserInv(t) /\ user[t].tok \in Nat
      /\ \A a \in Aids : local[a] \in Records /\ local[a].tok \in Nat /\ local[a].tok <= issued
    BY Facts
<1>1. /\ UNCHANGED <<code, sessions, kek, local, nonce, load, issued, probe>>
    BY DEF daemon, store, Status
<1>2. panel' \in [Tabs -> Panels] /\ \A u \in Tabs : panel'[u].aid = panel[u].aid
    <2>1. CASE \E st \in {"error"} : Status(t, st)
        BY <1>0, <2>1, StatusStep DEF Status, BridgeTypes
    <2>2. CASE panel' = [panel EXCEPT ![t].thrown = TRUE]
        <3>1. panel[t] \in Panels /\ panel \in [Tabs -> Panels]
            BY <1>0 DEF BridgeTypes
        <3>2. [panel[t] EXCEPT !.thrown = TRUE] \in Panels
              /\ [panel[t] EXCEPT !.thrown = TRUE].aid = panel[t].aid
            BY <3>1 DEF Panels
        <3> QED
            BY <2>2, <3>1, <3>2
    <2>3. CASE UNCHANGED <<panel, probe>>
        BY <1>0, <2>3 DEF BridgeTypes
    <2> QED
        BY <2>1, <2>2, <2>3
<1>3. PICK op \in LiveOps : op = Idle
    BY Values
<1>4. op.pc = "idle" /\ op.tok = 0 /\ op.raw.tok = 0 /\ Go(t, op)
    BY <1>3, Values
<1>5. \A x \in Nat : x = user[t].tok => Covered(x)'
    BY DEF Covered
<1>6. /\ code' \in Nat /\ kek' \in Nat /\ issued' \in Nat /\ issued <= issued' /\ sessions' \subseteq sessions
      /\ local' \in [Aids -> Records] /\ nonce' \in [Tabs -> [Aids -> Nat]]
      /\ probe' \in [Tabs -> LiveOps] /\ load' = load /\ 0 <= issued'
    BY <1>0, <1>1 DEF BridgeTypes
<1>7. \A a \in Aids : local'[a].tok = local[a].tok /\ local'[a].tok <= issued'
    BY <1>0, <1>1
<1> QED
    BY <1>2, <1>4, <1>5, <1>6, <1>7, UserStep DEF None

\* A step of the user's operation that touches neither the stored tokens nor the
\* panel's agent.
LEMMA QuietStep ==
    ASSUME OInv, NEW t \in Tabs, NEW op \in LiveOps, Go(t, op),
           op.pc # "idle" /\ op.mounted => panel[t].aid \in Aids,
           UNCHANGED <<code, local, nonce, load, probe>>,
           sessions' \subseteq sessions, excused \subseteq excused',
           panel' = panel \/ \E st \in {"pairing", "paired", "error", "offline"} : Status(t, st),
           kek' \in Nat, issued' \in Nat, issued <= issued',
           op.tok <= issued, op.raw.tok <= issued,
           op.pc \in {"idle", "pair", "unwrap", "remake"} => op.tok = None,
           op.pc = "unwrap" => Covered(op.raw.tok),
           op.pc \in {"call", "status"} => Covered(op.tok),
           op.pc = "revoked" /\ Paired(op.tok)' => op.tok \in excused',
           \A x \in Nat : x = user[t].tok => op.tok = x \/ x = 0 \/ Covered(x)
    PROVE  OInv'
<1>0. /\ BridgeTypes /\ TokenInv /\ UserInv(t) /\ user[t].tok \in Nat /\ issued \in Nat
      /\ \A a \in Aids : local[a] \in Records /\ local[a].tok \in Nat /\ local[a].tok <= issued
    BY Facts DEF OInv, BridgeTypes
<1>1. panel' \in [Tabs -> Panels] /\ \A u \in Tabs : panel'[u].aid = panel[u].aid
    <2>1. CASE panel' = panel
        BY <1>0, <2>1 DEF BridgeTypes
    <2>2. CASE \E st \in {"pairing", "paired", "error", "offline"} : Status(t, st)
        BY <1>0, <2>2, StatusStep DEF Status, BridgeTypes
    <2> QED
        BY <2>1, <2>2
<1>2. Covered(0)'
    BY <1>0 DEF Covered, Paired, TokenInv
<1>3. \A x \in Nat : x = user[t].tok => op.tok = x \/ Covered(x)'
    BY <1>2, CoveredKept
<1>4. /\ op.pc = "unwrap" => Covered(op.raw.tok)'
      /\ op.pc \in {"call", "status"} => Covered(op.tok)'
    BY CoveredKept
<1>5. op.tok \in Nat /\ op.raw.tok \in Nat
    BY DEF LiveOps, Ops, Records
<1>6. op.tok <= issued' /\ op.raw.tok <= issued' /\ \A a \in Aids : local'[a].tok <= issued'
    BY <1>0, <1>5
<1>7. /\ code' \in Nat /\ local' \in [Aids -> Records] /\ nonce' \in [Tabs -> [Aids -> Nat]]
      /\ probe' \in [Tabs -> LiveOps] /\ load' = load
    BY <1>0 DEF BridgeTypes
<1> QED
    BY <1>1, <1>3, <1>4, <1>6, <1>7, UserStep

\* The user asks for something: the operation starts without a token, with the
\* shared secret, or with what is stored.
LEMMA BeginPreserves ==
    ASSUME OInv, NEW t \in Tabs,
           \/ SubmitPair(t) \/ SubmitAdvanced(t)
           \/ \E kind \in {"revoke", "revokeAll", "restore"} : Begin(t, kind)
    PROVE  OInv'
<1>0. /\ BridgeTypes /\ TokenInv /\ UserInv(t) /\ user[t].tok \in Nat /\ issued \in Nat /\ code \in Nat
      /\ (panel[t].aid # "none" => panel[t].aid \in Aids) /\ 1 <= issued /\ kek \in Nat
      /\ \A a \in Aids : local[a] \in Records /\ local[a].tok \in Nat /\ local[a].tok <= issued
    BY Facts DEF OInv, BridgeTypes, TokenInv, Shared
<1>1. panel[t].aid \in Aids /\ user[t].tok = 0
    BY <1>0 DEF SubmitPair, SubmitAdvanced, Begin, Open, Free, UserInv, None
<1>2. /\ Idle \in Ops /\ Idle.tok = 0 /\ Idle.raw.tok = 0
    BY Values DEF LiveOps
<1>3. CASE SubmitPair(t)
    <2>1. PICK op : op = [Idle EXCEPT !.pc = "pair", !.kind = "pair", !.aid = panel[t].aid,
                                      !.nonce = Fresh, !.code = code]
        OBVIOUS
    <2>2. op \in LiveOps /\ op.pc = "pair" /\ op.tok = 0 /\ op.raw.tok = 0
        <3>1. Fresh \in Nat
            BY <1>0 DEF Fresh
        <3> QED
            BY <1>0, <1>1, <1>2, <2>1, <3>1 DEF LiveOps, Ops, Pcs, Kinds
    <2>3. /\ Go(t, op) /\ Status(t, "pairing") /\ issued' = issued + 1
          /\ UNCHANGED <<code, sessions, kek, local, nonce, load, probe, excused>>
        BY <1>3, <2>1 DEF SubmitPair, daemon, store, Status, Mint, Fresh
    <2> QED
        BY <1>0, <1>1, <2>2, <2>3, QuietStep DEF None
<1>4. CASE SubmitAdvanced(t)
    <2>1. PICK op : op = [Idle EXCEPT !.pc = "minted", !.kind = "paste", !.aid = panel[t].aid, !.tok = Shared]
        OBVIOUS
    <2>2. op \in LiveOps /\ op.pc = "minted" /\ op.tok = 1 /\ op.raw.tok = 0
        BY <1>0, <1>1, <1>2, <2>1 DEF LiveOps, Ops, Pcs, Kinds, Shared
    <2>3. /\ Go(t, op) /\ UNCHANGED <<code, sessions, kek, local, nonce, load, probe, excused, panel, issued>>
        BY <1>4, <2>1 DEF SubmitAdvanced, daemon, store
    <2> QED
        BY <1>0, <1>1, <2>2, <2>3, QuietStep DEF None
<1>5. ASSUME NEW kind \in {"revoke", "revokeAll", "restore"}, Begin(t, kind)
      PROVE  OInv'
    <2>1. PICK op : op = Start(kind, panel[t].aid, local[panel[t].aid])
        OBVIOUS
    <2>2. op \in LiveOps /\ op.pc = "unwrap" /\ op.tok = 0 /\ op.raw = local[panel[t].aid]
        BY <1>0, <1>1, <2>1, Values DEF Kinds
    <2>3. /\ Go(t, op) /\ UNCHANGED <<code, sessions, kek, local, nonce, load, probe, excused, panel, issued>>
        BY <1>5, <2>1 DEF Begin, daemon, store
    <2>4. Covered(op.raw.tok) /\ op.raw.tok <= issued
        BY <1>0, <1>1, <2>2 DEF Covered, Stored
    <2> QED
        BY <1>0, <1>1, <2>2, <2>3, <2>4, QuietStep DEF None
<1> QED
    BY <1>3, <1>4, <1>5

\* Saving a token reads the wrapping key or makes one; a probe or a restore ends
\* with the token stored.
LEMMA QuietPreserve ==
    ASSUME OInv, NEW t \in Tabs, KekRead(t) \/ KekCreated(t) \/ UserProbed(t) \/ RestoreServed(t)
    PROVE  OInv'
<1>0. /\ BridgeTypes /\ TokenInv /\ UserInv(t) /\ user[t].tok \in Nat /\ issued \in Nat /\ code \in Nat
      /\ user[t] \in LiveOps /\ kek \in Nat /\ user[t].raw.tok \in Nat
    BY Facts DEF OInv, BridgeTypes
<1>1. user[t].pc # "idle" /\ user[t].aid \in Aids /\ (user[t].mounted => panel[t].aid \in Aids)
    BY Facts DEF KekRead, KekCreated, UserProbed, RestoreServed
<1>2. user[t].tok <= issued /\ user[t].raw.tok <= issued
    BY <1>0 DEF UserInv
<1>3. CASE KekRead(t)
    <2>1. PICK op : op = [user[t] EXCEPT !.pc = IF kek = None THEN "create" ELSE "wrap", !.key = kek]
        OBVIOUS
    <2>2. op \in LiveOps /\ op.pc \in {"create", "wrap"} /\ op.tok = user[t].tok /\ op.raw = user[t].raw
          /\ op.mounted = user[t].mounted
        BY <1>0, <1>1, <2>1 DEF LiveOps, Ops, Pcs
    <2>3. /\ Go(t, op) /\ UNCHANGED <<code, sessions, kek, local, nonce, load, probe, excused, panel, issued>>
        BY <1>3, <2>1 DEF KekRead, daemon, store
    <2> QED
        BY <1>0, <1>1, <1>2, <2>2, <2>3, QuietStep
<1>4. CASE KekCreated(t)
    <2>1. PICK op : op = [user[t] EXCEPT !.pc = "wrap", !.key = Fresh]
        OBVIOUS
    <2>2. op \in LiveOps /\ op.pc = "wrap" /\ op.tok = user[t].tok /\ op.raw = user[t].raw
          /\ op.mounted = user[t].mounted
        <3>1. Fresh \in Nat
            BY <1>0 DEF Fresh
        <3> QED
            BY <1>0, <1>1, <2>1, <3>1 DEF LiveOps, Ops, Pcs
    <2>3. /\ Go(t, op) /\ UNCHANGED <<code, sessions, local, nonce, load, probe, excused, panel>>
          /\ issued' = issued + 1 /\ kek' = issued + 1
        BY <1>4, <2>1 DEF KekCreated, daemon, Mint, Fresh
    <2> QED
        BY <1>0, <1>1, <1>2, <2>2, <2>3, QuietStep
<1>5. CASE UserProbed(t) \/ RestoreServed(t)
    <2>1. PICK op \in LiveOps : op = Idle
        BY Values
    <2>2. op.pc = "idle" /\ op.tok = 0 /\ op.raw.tok = 0
        BY <2>1, Values
    <2>3. user[t].pc \in {"call", "status"}
        BY <1>5 DEF UserProbed, RestoreServed
    <2>4. \A x \in Nat : x = user[t].tok => Covered(x)
        BY <1>0, <2>3 DEF UserInv
    <2>5. /\ Go(t, op) /\ UNCHANGED <<code, sessions, kek, local, nonce, load, probe, excused, issued>>
          /\ panel' = panel \/ \E st \in {"pairing", "paired", "error", "offline"} : Status(t, st)
        BY <1>5, <2>1 DEF UserProbed, RestoreServed, daemon, store, Status, Tell
    <2> QED
        BY <1>0, <1>1, <2>2, <2>4, <2>5, QuietStep DEF None
<1> QED
    BY <1>3, <1>4, <1>5

\* A stored token is opened, or evicted when its key is gone or cannot be had.
LEMMA TokenLoadedPreserves ==
    ASSUME OInv, NEW t \in Tabs, TokenLoaded(t)
    PROVE  OInv'
<1>0. /\ BridgeTypes /\ TokenInv /\ UserInv(t) /\ user[t].tok \in Nat /\ issued \in Nat /\ code \in Nat
      /\ user[t] \in LiveOps /\ kek \in Nat /\ user[t].raw.tok \in Nat
      /\ \A a \in Aids : local[a].tok \in Nat /\ local[a].tok <= issued
    BY Facts DEF OInv, BridgeTypes
<1>1. user[t].pc \in {"unwrap", "remake"} /\ user[t].aid \in Aids /\ (user[t].mounted => panel[t].aid \in Aids)
      /\ UNCHANGED <<code, sessions, panel, load, probe>>
    <2>1. user[t].pc \in {"unwrap", "remake"} /\ UNCHANGED <<code, sessions, panel, load, probe>>
        BY DEF TokenLoaded, NoKey, Evict, Unreadable, daemon
    <2> QED
        BY <2>1, Facts
<1>2. user[t].tok = 0 /\ user[t].raw.tok <= issued /\ (user[t].pc = "unwrap" => Covered(user[t].raw.tok))
    BY <1>0, <1>1 DEF UserInv, None
<1>3. CASE /\ user[t].pc = "unwrap"
           /\ Go(t, [user[t] EXCEPT !.pc = "call", !.tok = user[t].raw.tok,
                                    !.nonce = nonce[t][user[t].aid]])
           /\ UNCHANGED <<store, issued, excused>>
    <2>0. nonce[t][user[t].aid] \in Nat
        BY <1>0, <1>1 DEF BridgeTypes
    <2>1. PICK op : op = [user[t] EXCEPT !.pc = "call", !.tok = user[t].raw.tok,
                                         !.nonce = nonce[t][user[t].aid]]
        OBVIOUS
    <2>2. op \in LiveOps /\ op.pc = "call" /\ op.tok = user[t].raw.tok /\ op.raw = user[t].raw
          /\ op.mounted = user[t].mounted
        BY <1>0, <1>1, <2>0, <2>1 DEF LiveOps, Ops, Pcs
    <2>3. Go(t, op) /\ UNCHANGED <<kek, local, nonce, issued, excused>>
        BY <1>3, <2>1 DEF store
    <2> QED
        BY <1>0, <1>1, <1>2, <1>3, <2>2, <2>3, QuietStep
<1>5. CASE Go(t, [user[t] EXCEPT !.pc = "remake"]) /\ UNCHANGED <<store, issued, excused>>
    <2>1. PICK op : op = [user[t] EXCEPT !.pc = "remake"]
        OBVIOUS
    <2>2. /\ op \in LiveOps /\ op.pc = "remake" /\ op.tok = user[t].tok /\ op.raw = user[t].raw
          /\ op.mounted = user[t].mounted
        BY <1>0, <1>1, <2>1 DEF LiveOps, Ops, Pcs
    <2>3. Go(t, op) /\ UNCHANGED <<kek, local, nonce, issued, excused>>
        BY <1>5, <2>1 DEF store
    <2> QED
        BY <1>0, <1>1, <1>2, <2>2, <2>3, QuietStep DEF None
<1>4. CASE Evict(user[t]) /\ Go(t, Idle)
    <2>1. PICK op \in LiveOps : op = Idle
        BY Values
    <2>2. op.pc = "idle" /\ op.tok = 0 /\ op.raw.tok = 0 /\ Go(t, op)
        BY <1>4, <2>1, Values
    <2>3. /\ local' \in [Aids -> Records] /\ kek' \in Nat /\ issued' \in Nat /\ nonce' = nonce
          /\ issued <= issued' /\ excused \subseteq excused'
          /\ \A b \in Aids : local'[b] = local[b] \/ (local'[b].tok = 0 /\ local[b].tok \in excused')
        BY <1>0, <1>4, EvictStep
    <2>4. /\ \A b \in Aids : local'[b].tok = local[b].tok \/ local[b].tok \in excused'
          /\ (\A b \in Aids : local'[b].tok <= issued') /\ 0 <= issued'
        BY <1>0, <2>3
    <2>5. /\ code' \in Nat /\ sessions' \subseteq sessions /\ nonce' \in [Tabs -> [Aids -> Nat]]
          /\ panel' \in [Tabs -> Panels] /\ (\A u \in Tabs : panel'[u].aid = panel[u].aid)
          /\ probe' \in [Tabs -> LiveOps] /\ load' = load
        BY <1>0, <1>1, <2>3 DEF BridgeTypes
    <2> QED
        BY <1>0, <1>2, <2>2, <2>3, <2>4, <2>5, UserStep DEF None
<1> QED
    BY <1>3, <1>4, <1>5 DEF TokenLoaded

\* A revocation removes the session, is refused, or is lost; refused and lost
\* ones are reasons to lose the token.
LEMMA RevokePreserves ==
    ASSUME OInv, NEW t \in Tabs, RevokeServed(t) \/ RevokeLost(t)
    PROVE  OInv'
<1>0. /\ BridgeTypes /\ TokenInv /\ UserInv(t) /\ user[t].tok \in Nat /\ issued \in Nat /\ code \in Nat
      /\ user[t] \in LiveOps /\ kek \in Nat /\ user[t].raw.tok \in Nat
    BY Facts DEF OInv, BridgeTypes
<1>1. /\ user[t].pc = "call" /\ user[t].aid \in Aids /\ (user[t].mounted => panel[t].aid \in Aids)
      /\ UNCHANGED <<code, panel, load, probe, kek, local, nonce, issued>>
    BY Facts DEF RevokeServed, RevokeLost, daemon, store
<1>2. user[t].tok <= issued /\ user[t].raw.tok <= issued
    BY <1>0 DEF UserInv
<1>3. PICK op : op = [user[t] EXCEPT !.pc = "revoked"]
    OBVIOUS
<1>4. op \in LiveOps /\ op.pc = "revoked" /\ op.tok = user[t].tok /\ op.raw = user[t].raw
      /\ op.mounted = user[t].mounted
    BY <1>0, <1>1, <1>3 DEF LiveOps, Ops, Pcs
<1>5. Go(t, op) /\ sessions' \subseteq sessions /\ excused \subseteq excused'
    BY <1>3 DEF RevokeServed, RevokeLost, daemon
<1>6. op.tok \in excused' \/ \A s \in sessions' : s.tok # op.tok
    BY <1>4 DEF RevokeServed, RevokeLost
<1>7. Paired(op.tok)' => op.tok \in excused'
    BY <1>6 DEF Paired
<1> QED
    BY <1>0, <1>1, <1>2, <1>4, <1>5, <1>7, QuietStep

\* The browser forgets what it revoked, and whatever was stored in its place.
LEMMA RevokedPreserves ==
    ASSUME OInv, NEW t \in Tabs, Revoked(t)
    PROVE  OInv'
<1>0. /\ BridgeTypes /\ TokenInv /\ UserInv(t) /\ user[t].tok \in Nat /\ issued \in Nat /\ code \in Nat
      /\ user[t] \in LiveOps /\ kek \in Nat /\ local \in [Aids -> Records]
      /\ \A a \in Aids : local[a].tok \in Nat /\ local[a].tok <= issued
    BY Facts DEF OInv, BridgeTypes
<1>1. /\ user[t].pc = "revoked" /\ user[t].aid \in Aids
      /\ UNCHANGED <<code, sessions, load, kek, issued>>
    BY Facts DEF Revoked, daemon
<1>2. PICK op \in LiveOps : op = Idle
    BY Values
<1>3. op.pc = "idle" /\ op.tok = 0 /\ op.raw.tok = 0 /\ Go(t, op)
    BY <1>2, Values DEF Revoked
<1>4. /\ local' = [local EXCEPT ![user[t].aid] = NoRecord] /\ nonce' = [nonce EXCEPT ![t][user[t].aid] = None]
      /\ Tell(t, Stamp(t, None, "idle"))
      /\ excused' = excused \union ({local[user[t].aid].tok} \ {user[t].tok})
    BY DEF Revoked
<1>5. local' \in [Aids -> Records] /\ nonce' \in [Tabs -> [Aids -> Nat]]
    <2>1. nonce \in [Tabs -> [Aids -> Nat]] /\ nonce[t] \in [Aids -> Nat] /\ [nonce[t] EXCEPT ![user[t].aid] = 0] \in [Aids -> Nat]
        BY <1>0 DEF BridgeTypes
    <2>2. nonce' = [nonce EXCEPT ![t] = [nonce[t] EXCEPT ![user[t].aid] = 0]]
        BY <1>4, <2>1 DEF None
    <2> QED
        BY <1>0, <1>4, <2>1, <2>2, Values
<1>6. /\ panel' \in [Tabs -> Panels] /\ \A u \in Tabs : panel'[u].aid = panel[u].aid
      /\ probe' \in [Tabs -> LiveOps]
    BY <1>0, <1>1, <1>4, <1>5, TellStep DEF None
<1>7. user[t].tok \in excused \/ \A s \in sessions : s.tok # user[t].tok
    BY <1>0, <1>1 DEF UserInv, Paired
<1>8. \A a \in Aids : \/ local'[a].tok = local[a].tok
                      \/ local[a].tok \in excused'
                      \/ \A s \in sessions' : s.tok # local[a].tok
    BY <1>0, <1>1, <1>4, <1>7
<1>9. \A a \in Aids : local'[a].tok <= issued'
    BY <1>0, <1>1, <1>4, Values
<1>10. \A x \in Nat : x = user[t].tok => Covered(x)'
    BY <1>1, <1>4, <1>7 DEF Covered, Paired
<1> QED
    BY <1>0, <1>1, <1>3, <1>4, <1>5, <1>6, <1>8, <1>9, <1>10, UserStep DEF None

\* The minted token is written, and what it overwrites is accounted for; or it
\* is not written, and accounted for itself.
LEMMA SavedPreserves ==
    ASSUME OInv, NEW t \in Tabs, Saved(t) \/ SaveSkipped(t)
    PROVE  OInv'
<1>0. /\ BridgeTypes /\ TokenInv /\ UserInv(t) /\ user[t].tok \in Nat /\ issued \in Nat /\ code \in Nat
      /\ user[t] \in LiveOps /\ kek \in Nat /\ local \in [Aids -> Records] /\ user[t].raw.tok \in Nat
      /\ \A a \in Aids : local[a].tok \in Nat /\ local[a].tok <= issued
    BY Facts DEF OInv, BridgeTypes
<1>1. /\ user[t].pc \in {"wrap", "minted"} /\ user[t].aid \in Aids /\ (user[t].mounted => panel[t].aid \in Aids)
      /\ UNCHANGED <<code, sessions, load, kek, issued>>
    BY Facts DEF Saved, SaveSkipped, daemon
<1>2. PICK op : op = [user[t] EXCEPT !.pc = "status"]
    OBVIOUS
<1>3. op \in LiveOps /\ op.pc = "status" /\ op.tok = user[t].tok /\ op.raw = user[t].raw
      /\ op.mounted = user[t].mounted
    BY <1>0, <1>1, <1>2 DEF LiveOps, Ops, Pcs
<1>4. user[t].tok <= issued /\ user[t].raw.tok <= issued /\ user[t].nonce \in Nat /\ user[t].key \in Nat
    BY <1>0 DEF UserInv, LiveOps, Ops
<1>5. /\ nonce' = [nonce EXCEPT ![t][user[t].aid] = user[t].nonce]
      /\ Tell(t, Stamp(t, user[t].tok, "probing")) /\ Go(t, op)
      /\ \/ /\ local' = [local EXCEPT ![user[t].aid] = [tok |-> user[t].tok, kek |-> user[t].key]]
            /\ excused' = excused \union {local[user[t].aid].tok}
         \/ /\ local' = local /\ excused' = excused \union {user[t].tok}
    BY <1>2 DEF Saved, SaveSkipped
<1>6. local' \in [Aids -> Records] /\ nonce' \in [Tabs -> [Aids -> Nat]]
    <2>1. /\ nonce \in [Tabs -> [Aids -> Nat]] /\ nonce[t] \in [Aids -> Nat]
          /\ [nonce[t] EXCEPT ![user[t].aid] = user[t].nonce] \in [Aids -> Nat]
        BY <1>0, <1>4 DEF BridgeTypes
    <2>2. nonce' = [nonce EXCEPT ![t] = [nonce[t] EXCEPT ![user[t].aid] = user[t].nonce]]
        BY <1>5, <2>1
    <2>3. [tok |-> user[t].tok, kek |-> user[t].key] \in Records
        BY <1>0, <1>4 DEF Records
    <2> QED
        BY <1>0, <1>5, <2>1, <2>2, <2>3
<1>7. /\ panel' \in [Tabs -> Panels] /\ \A u \in Tabs : panel'[u].aid = panel[u].aid
      /\ probe' \in [Tabs -> LiveOps]
    BY <1>0, <1>1, <1>5, <1>6, TellStep
<1>8. \A a \in Aids : local'[a].tok = local[a].tok \/ local[a].tok \in excused'
    BY <1>0, <1>5
<1>9. /\ \A a \in Aids : local'[a].tok <= issued'
      /\ local'[user[t].aid].tok = user[t].tok \/ user[t].tok \in excused'
    BY <1>0, <1>1, <1>4, <1>5
<1>10. Covered(op.tok)'
    BY <1>1, <1>3, <1>9 DEF Covered, Stored
<1> QED
    BY <1>0, <1>1, <1>3, <1>4, <1>5, <1>6, <1>7, <1>8, <1>9, <1>10, UserStep

\* A closed tab takes its operation along, and its token is accounted for; after
\* a logout the operation goes on, detached, and the stored tokens are accounted
\* for.
LEMMA DropPreserves ==
    ASSUME OInv, NEW t \in Tabs, CloseTab(t) \/ Logout(t)
    PROVE  OInv'
<1>0. /\ BridgeTypes /\ TokenInv /\ UserInv(t) /\ user[t].tok \in Nat /\ issued \in Nat
      /\ user[t] \in LiveOps
      /\ \A a \in Aids : local[a] \in Records /\ local[a].tok \in Nat /\ local[a].tok <= issued
    BY Facts DEF OInv, BridgeTypes
<1>1. /\ panel' = [panel EXCEPT ![t] = Closed]
      /\ load' = [load EXCEPT ![t] = Idle] /\ probe' = [probe EXCEPT ![t] = Idle]
      /\ nonce' = [nonce EXCEPT ![t] = [a \in Aids |-> None]]
      /\ UNCHANGED <<code, sessions, kek, issued>> /\ excused \subseteq excused'
    BY DEF CloseTab, Logout, Drop, daemon
<1>2. /\ local' \in [Aids -> Records]
      /\ \A a \in Aids : local'[a] = local[a] \/ (local'[a].tok = 0 /\ local[a].tok \in excused')
    <2>1. CASE CloseTab(t)
        BY <1>0, <2>1 DEF CloseTab, BridgeTypes
    <2>2. CASE Logout(t)
        BY <2>2, Values DEF Logout
    <2> QED
        BY <2>1, <2>2
<1>3. PICK op \in LiveOps :
          /\ user' = [user EXCEPT ![t] = op] /\ (op.pc # "idle" => ~op.mounted)
          /\ \/ op.pc = "idle" /\ op.tok = 0 /\ op.raw.tok = 0 /\ user[t].tok \in excused'
             \/ op.pc = user[t].pc /\ op.tok = user[t].tok /\ op.raw = user[t].raw
    <2>1. CASE CloseTab(t)
        BY <2>1, Values DEF CloseTab
    <2>2. CASE Logout(t) /\ Free(t)
        <3>1. user' = [user EXCEPT ![t] = user[t]] /\ user[t].pc = "idle"
            BY <1>0, <2>2 DEF Logout, Free, BridgeTypes
        <3> QED
            BY <1>0, <3>1
    <2>3. CASE Logout(t) /\ ~Free(t)
        <3>1. PICK op : op = [user[t] EXCEPT !.mounted = FALSE]
            OBVIOUS
        <3>2. /\ op \in LiveOps /\ op.pc = user[t].pc /\ op.tok = user[t].tok /\ op.raw = user[t].raw
              /\ ~op.mounted
            BY <1>0, <3>1 DEF LiveOps, Ops
        <3>3. user' = [user EXCEPT ![t] = op]
            BY <1>0, <2>3, <3>1 DEF Logout, BridgeTypes
        <3> QED
            BY <3>2, <3>3
    <2> QED
        BY <2>1, <2>2, <2>3
<1>4. /\ panel' \in [Tabs -> Panels] /\ load' \in [Tabs -> LiveOps] /\ probe' \in [Tabs -> LiveOps]
      /\ user' \in [Tabs -> LiveOps] /\ user'[t] = op /\ load'[t] = Idle
      /\ \A u \in Tabs \ {t} : user'[u] = user[u] /\ load'[u] = load[u] /\ panel'[u] = panel[u]
    BY <1>0, <1>1, <1>3, Values DEF BridgeTypes
<1>5. nonce' \in [Tabs -> [Aids -> Nat]] /\ code' \in Nat /\ kek' \in Nat /\ issued' \in Nat
      /\ sessions' \subseteq [tok : Nat, nonce : Nat]
    <2>1. [a \in Aids |-> None] \in [Aids -> Nat]
        BY DEF None
    <2> QED
        BY <1>0, <1>1, <2>1 DEF BridgeTypes
<1>6. ASSUME NEW u \in Tabs, load'[u].pc # "idle" \/ (user'[u].pc # "idle" /\ user'[u].mounted)
      PROVE  panel'[u].aid \in Aids
    <2>1. u # t
        BY <1>3, <1>4, <1>6, Values
    <2> QED
        BY <1>0, <1>4, <1>6, <2>1 DEF BridgeTypes
<1>7. BridgeTypes'
    BY <1>2, <1>4, <1>5, <1>6 DEF BridgeTypes
<1>8. ASSUME NEW x, Covered(x)
      PROVE  Covered(x)'
    BY <1>1, <1>2, <1>8 DEF Covered, Paired, Stored
<1>9. UserInv(t)'
    <2>1. \A x : Paired(x)' => Paired(x)
        BY <1>1 DEF Paired
    <2>2. CASE op.pc = "idle" /\ op.tok = 0 /\ op.raw.tok = 0
        BY <1>0, <1>1, <1>4, <2>2 DEF UserInv, None
    <2>3. CASE op.pc = user[t].pc /\ op.tok = user[t].tok /\ op.raw = user[t].raw
        BY <1>0, <1>1, <1>4, <1>8, <2>1, <2>3 DEF UserInv
    <2> QED
        BY <1>3, <2>2, <2>3
<1> DEFINE T == {t}
<1>10. /\ T \in SUBSET Tabs /\ (\A u \in Tabs \ T : user'[u] = user[u]) /\ (\A u \in T : UserInv(u)')
    BY <1>4, <1>9
<1>11. \A u \in T, x \in Nat : x = user[u].tok => user'[u].tok = x \/ Covered(x)'
    BY <1>3, <1>4 DEF Covered
<1> HIDE DEF T
<1>12. /\ \A a \in Aids : local'[a].tok = local[a].tok \/ local[a].tok \in excused'
       /\ \A a \in Aids : local'[a].tok <= issued'
    BY <1>0, <1>1, <1>2
<1>13. issued <= issued' /\ sessions' \subseteq sessions /\ excused \subseteq excused'
    BY <1>0, <1>1
<1> QED
    BY <1>7, <1>10, <1>11, <1>12, <1>13, TabsStep

\* The daemon refuses the code, or mints a token no one had before.
LEMMA PairServedPreserves ==
    ASSUME OInv, NEW t \in Tabs, PairServed(t)
    PROVE  OInv'
<1>0. /\ BridgeTypes /\ TokenInv /\ SessionInv /\ UserInv(t) /\ issued \in Nat /\ code \in Nat
      /\ user[t] \in LiveOps /\ user[t].raw.tok \in Nat /\ kek \in Nat
      /\ \A u \in Tabs : UserInv(u) /\ user[u].tok \in Nat /\ user[u].raw.tok \in Nat
    BY Facts DEF OInv, BridgeTypes
<1>1. /\ user[t].pc = "pair" /\ user[t].aid \in Aids /\ (user[t].mounted => panel[t].aid \in Aids)
      /\ user[t].tok = 0 /\ UNCHANGED <<kek, local, nonce, load, probe, excused>>
    BY <1>0, Facts DEF PairServed, store, UserInv, None, Status, Tell
<1>2. CASE Go(t, Idle) /\ Tell(t, Status(t, "error")) /\ UNCHANGED <<code, sessions, issued>>
    <2>1. PICK op \in LiveOps : op = Idle
        BY Values
    <2>2. op.pc = "idle" /\ op.tok = 0 /\ op.raw.tok = 0 /\ Go(t, op)
        BY <1>2, <2>1, Values
    <2>3. panel' = panel \/ Status(t, "error")
        BY <1>2 DEF Tell
    <2> QED
        BY <1>0, <1>1, <1>2, <2>2, <2>3, QuietStep DEF None
<1>3. CASE /\ code' = None /\ Mint /\ sessions' = sessions \union {[tok |-> Fresh, nonce |-> user[t].nonce]}
           /\ Go(t, [user[t] EXCEPT !.pc = "minted", !.tok = Fresh]) /\ UNCHANGED <<panel, probe>>
    <2>0. PICK new \in Nat : new = issued + 1 /\ new = Fresh
        BY <1>0 DEF Fresh
    <2>1. PICK op : op = [user[t] EXCEPT !.pc = "minted", !.tok = new]
        OBVIOUS
    <2>2. op \in LiveOps /\ op.pc = "minted" /\ op.tok = new /\ op.raw = user[t].raw
          /\ op.mounted = user[t].mounted
        BY <1>0, <1>1, <2>1 DEF LiveOps, Ops, Pcs
    <2>3. user' \in [Tabs -> LiveOps] /\ user'[t] = op /\ \A u \in Tabs \ {t} : user'[u] = user[u]
        BY <1>0, <1>3, <2>0, <2>1, <2>2, GoStep DEF BridgeTypes
    <2>4. PICK s0 \in [tok : Nat, nonce : Nat] : sessions' = sessions \union {s0} /\ s0.tok = new
        <3>1. user[t].nonce \in Nat
            BY <1>0 DEF LiveOps, Ops
        <3>2. PICK s \in [tok : Nat, nonce : Nat] : s = [tok |-> new, nonce |-> user[t].nonce]
            BY <2>0, <3>1
        <3>3. s.tok = new /\ sessions' = sessions \union {s}
            BY <1>3, <2>0, <3>2
        <3> QED
            BY <3>3
    <2>5. issued' = new /\ code' = 0
        BY <1>3, <2>0 DEF Mint, None
    <2>6. BridgeTypes'
        <3>1. sessions' \subseteq [tok : Nat, nonce : Nat]
            BY <1>0, <2>4 DEF BridgeTypes
        <3>2. ASSUME NEW u \in Tabs, load'[u].pc # "idle" \/ (user'[u].pc # "idle" /\ user'[u].mounted)
              PROVE  panel'[u].aid \in Aids
            BY <1>0, <1>1, <1>3, <2>2, <2>3, <3>2 DEF BridgeTypes
        <3> QED
            BY <1>0, <1>1, <1>3, <2>0, <2>3, <2>5, <3>1, <3>2 DEF BridgeTypes
    <2>7. ASSUME NEW x \in Nat, x <= issued
          PROVE  (Covered(x) => Covered(x)') /\ (Paired(x)' => Paired(x))
        <3>1. x # new
            BY <1>0, <2>0, <2>7
        <3>2. Paired(x)' => Paired(x)
            BY <2>4, <3>1 DEF Paired
        <3> QED
            BY <1>1, <3>2 DEF Covered, Stored
    <2>8. TokenInv'
        <3>1. ASSUME NEW s \in sessions'
              PROVE  0 < s.tok /\ s.tok <= new
            <4>1. \A x \in sessions : x.tok \in Nat /\ 0 < x.tok /\ x.tok <= issued
                BY <1>0 DEF TokenInv, BridgeTypes
            <4> QED
                BY <1>0, <2>0, <2>4, <4>1
        <3>2. \A a \in Aids : local[a].tok \in Nat /\ local[a].tok <= issued
            BY <1>0, Facts
        <3> QED
            BY <1>0, <1>1, <2>0, <2>5, <3>1, <3>2 DEF TokenInv, Shared
    <2>9. ASSUME NEW u \in Tabs
          PROVE  UserInv(u)'
        <3>1. CASE u = t
            <4>1. user[t].raw.tok <= new
                BY <1>0, <2>0 DEF UserInv
            <4> QED
                BY <2>2, <2>3, <2>5, <3>1, <4>1 DEF UserInv
        <3>2. CASE u # t
            <4>1. PICK o \in LiveOps : o = user[u] /\ o = user'[u] /\ o.tok \in Nat /\ o.raw.tok \in Nat
                BY <1>0, <2>3, <3>2 DEF BridgeTypes
            <4>2. o.tok <= issued /\ o.raw.tok <= issued
                BY <1>0, <4>1 DEF UserInv
            <4>3. o.tok <= new /\ o.raw.tok <= new
                BY <1>0, <2>0, <4>1, <4>2
            <4>4. /\ Covered(o.tok) => Covered(o.tok)'
                  /\ Covered(o.raw.tok) => Covered(o.raw.tok)'
                  /\ Paired(o.tok)' => Paired(o.tok)
                BY <2>7, <4>1, <4>2
            <4>5. UserInv(u)
                BY <1>0
            <4> QED
                BY <1>1, <2>5, <4>1, <4>3, <4>4, <4>5 DEF UserInv
        <3> QED
            BY <3>1, <3>2
    <2>10. SessionInv'
        <3> SUFFICES ASSUME NEW s \in sessions'
                     PROVE  Covered(s.tok)' \/ \E u \in Tabs : user'[u].tok = s.tok
            BY DEF SessionInv
        <3>1. CASE s = s0
            BY <2>2, <2>3, <2>4, <3>1
        <3>2. CASE s \in sessions
            <4>1. s.tok \in Nat /\ 0 < s.tok /\ s.tok <= issued
                BY <1>0, <3>2 DEF TokenInv, BridgeTypes
            <4>2. CASE Covered(s.tok)
                BY <2>7, <4>1, <4>2
            <4>3. ASSUME NEW u \in Tabs, user[u].tok = s.tok
                  PROVE  user'[u].tok = s.tok
                BY <1>1, <2>3, <4>1, <4>3
            <4> QED
                BY <1>0, <3>2, <4>2, <4>3 DEF SessionInv
        <3> QED
            BY <2>4, <3>1, <3>2
    <2> QED
        BY <2>6, <2>8, <2>9, <2>10 DEF OInv
<1> QED
    BY <1>2, <1>3 DEF PairServed

\* A new browser, or one that keeps the shared secret; no session yet.
LEMMA InitOrphans == Init => OInv
<1> SUFFICES ASSUME Init PROVE OInv
    OBVIOUS
<1>1. /\ code = 2 /\ issued = 3 /\ sessions = {} /\ excused = {}
      /\ nonce = [t \in Tabs |-> [a \in Aids |-> 0]]
      /\ load = [t \in Tabs |-> Idle] /\ probe = [t \in Tabs |-> Idle] /\ user = [t \in Tabs |-> Idle]
    BY DEF Init, None
<1>2. PICK r \in Records, w \in Panels :
          /\ r.tok <= 1 /\ w.aid = FirstAid /\ kek \in Nat
          /\ local = [[a \in Aids |-> NoRecord] EXCEPT ![FirstAid] = r]
          /\ panel = [t \in Tabs |-> w]
    <2>1. CASE /\ kek = None /\ local = [a \in Aids |-> NoRecord]
               /\ panel = [t \in Tabs |-> [Closed EXCEPT !.aid = FirstAid]]
        <3>1. local = [[a \in Aids |-> NoRecord] EXCEPT ![FirstAid] = NoRecord]
            BY <2>1
        <3>2. NoRecord \in Records /\ NoRecord.tok <= 1
            BY Values
        <3>3. PICK w \in Panels : w = [Closed EXCEPT !.aid = FirstAid] /\ w.aid = FirstAid
            BY Values, BridgeAssumption
        <3> QED
            BY <2>1, <3>1, <3>2, <3>3 DEF None
    <2>2. CASE /\ kek = 3
               /\ local = [[a \in Aids |-> NoRecord] EXCEPT ![FirstAid] = [tok |-> Shared, kek |-> 3]]
               /\ panel = [t \in Tabs |-> [Closed EXCEPT !.aid = FirstAid, !.hash = Shared,
                                                         !.status = "paired"]]
        <3>1. [tok |-> Shared, kek |-> 3] \in Records /\ [tok |-> Shared, kek |-> 3].tok <= 1
            BY DEF Shared, Records
        <3>2. PICK w : w = [Closed EXCEPT !.aid = FirstAid, !.hash = Shared, !.status = "paired"]
            OBVIOUS
        <3>3. w \in Panels /\ w.aid = FirstAid
            <4>1. Closed \in Panels
                BY Values
            <4> QED
                BY <3>2, <4>1, BridgeAssumption DEF Panels, Shared
        <3> QED
            BY <2>2, <3>1, <3>2, <3>3
    <2> QED
        BY <2>1, <2>2 DEF Init
<1>3. \A a \in Aids : local[a] \in Records /\ local[a].tok <= 1 /\ local[a].tok \in Nat
    BY <1>2, Values DEF Records
<1>4. BridgeTypes
    <2>1. panel \in [Tabs -> Panels] /\ \A t \in Tabs : panel[t].aid \in Aids
        BY <1>2, BridgeAssumption
    <2>3. local \in [Aids -> Records]
        BY <1>2, Values
    <2>4. nonce \in [Tabs -> [Aids -> Nat]]
        BY <1>1
    <2>5. load \in [Tabs -> LiveOps] /\ probe \in [Tabs -> LiveOps] /\ user \in [Tabs -> LiveOps]
        BY <1>1, Values
    <2> QED
        BY <1>1, <1>2, <2>1, <2>3, <2>4, <2>5 DEF BridgeTypes
<1>5. TokenInv /\ SessionInv
    BY <1>1, <1>3 DEF TokenInv, SessionInv, Shared
<1>6. \A t \in Tabs : UserInv(t)
    BY <1>1, Values DEF UserInv, None
<1> QED
    BY <1>4, <1>5, <1>6 DEF OInv

\* Every step keeps the invariant.
LEMMA NextOrphans == OInv /\ [Next]_vars => OInv'
<1> SUFFICES ASSUME OInv, [Next]_vars PROVE OInv'
    OBVIOUS
<1>1. CASE UNCHANGED vars
    BY <1>1 DEF vars, daemon, store, tabs, OInv, BridgeTypes, TokenInv, SessionInv, UserInv, Covered, Paired, Stored
<1>2. ASSUME NEW t \in Tabs, User(t)
      PROVE  OInv'
    BY <1>2, EffectsPreserve, DropPreserves, BeginPreserves DEF User
<1>3. ASSUME NEW t \in Tabs, Step(t)
      PROVE  OInv'
    BY <1>3, EffectsPreserve, PairServedPreserves, QuietPreserve, SavedPreserves, TokenLoadedPreserves,
       RevokePreserves, RevokedPreserves DEF Step
<1>4. ASSUME NEW t \in Tabs, Failure(t)
      PROVE  OInv'
    <2>1. CASE RevokeLost(t) \/ SaveSkipped(t)
        BY <2>1, RevokePreserves, SavedPreserves
    <2>2. CASE PairLost(t) \/ StorageUnavailable(t) \/ StorageThrows(t)
        <3>1. /\ Go(t, Idle) /\ excused' = excused \union {user[t].tok}
              /\ UNCHANGED <<daemon, store, load, issued>>
              /\ \/ \E st \in {"error"} : Status(t, st)
                 \/ panel' = [panel EXCEPT ![t].thrown = TRUE] /\ probe' = probe
                 \/ UNCHANGED <<panel, probe>>
            BY <2>2 DEF PairLost, StorageUnavailable, StorageThrows, Tell
        <3> QED
            BY <3>1, FailPreserves
    <2> QED
        BY <1>4, <2>1, <2>2 DEF Failure
<1>5. CASE Restart \/ CodeExpires \/ KekLost \/ Tick
    BY <1>5, EffectsPreserve
<1> QED
    BY <1>1, <1>2, <1>3, <1>4, <1>5 DEF Next

\* A session the daemon remembers is one the browser can still reach, or one it
\* lost for a listed reason: a failed call or storage, an overwritten, evicted or
\* unwritten record, a closed tab, a logout, or a revocation refused for want of
\* the nonce.
THEOREM OrphansAreAccounted == Spec => []OrphansAccounted
<1>1. OInv => OrphansAccounted
    <2> SUFFICES ASSUME OInv, NEW s \in sessions
                 PROVE  s.tok \in Held \union excused
        BY DEF OrphansAccounted
    <2>1. Covered(s.tok) \/ \E t \in Tabs : user[t].tok = s.tok
        BY DEF OInv, SessionInv
    <2>2. Covered(s.tok) => Stored(s.tok) \/ s.tok \in excused
        BY DEF Covered, Paired
    <2> QED
        BY <2>1, <2>2 DEF Held, Stored
<1> QED
    BY <1>1, InitOrphans, NextOrphans, PTL DEF Spec
=============================================================================
