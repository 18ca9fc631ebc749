------------------------------- MODULE MailProofs -------------------------------
(***************************************************************************)
(* Proofs about a message on the server and in the reader pane: Messages,  *)
(* for any number of sends and handlers and every deployment, and Reader,  *)
(* for any messages, threads, contents and bounds.                         *)
(***************************************************************************)
EXTENDS Messages, Reader, TLAPS

-----------------------------------------------------------------------------
(***************************************************************************)
(* Messages.  While a send is being stored its handler has the send for    *)
(* itself; after that its references only go, so that a handler that once  *)
(* counted none is right about it for ever, although gc_message_storage    *)
(* does not look again.                                                    *)
(***************************************************************************)

\* The rows of a send: none was ever inserted; none holds its storage_ref.
Fresh(m) == \A s \in Sides : row[m][s].status = "none"
NoRef(m) == \A s \in Sides : ~row[m][s].ref

\* No other handler works on the send of handler r.
Alone(r) ==
  \A q \in Reqs \ {r} :
    req[q].m # req[r].m /\ \A s \in Sides : <<req[r].m, s>> \notin req[q].todo

\* What a handler may rely on at its next statement.
HandlerInv(r) ==
  /\ req[r].pc \notin {"idle", "purge"} => req[r].m \in Sends
  /\ req[r].pc \in {"store", "index"} => Fresh(req[r].m) /\ Alone(r)
  /\ req[r].pc = "index" => payload[req[r].m]
  /\ req[r].pc = "cleanup" => req[r].m \in faulty
  /\ req[r].pc = "gc" => NoRef(req[r].m)
  /\ req[r].pc = "purge_object" => req[r].m \in old
  /\ \A t \in req[r].todo : t[1] \in old
  /\ req[r].pc = "purge_row" /\ ~config.local => ~payload[req[r].m]

\* A row that refers to a payload has it, unless the send is old or was in doubt.
KeepInv == \A m \in Sends : m \notin old /\ m \notin faulty /\ ~NoRef(m) => payload[m]

\* In shared storage an unreferenced payload is some handler's to refer to or
\* to collect, unless a step of the send failed.
OrphanInv ==
  ~config.local =>
    \A m \in Sends : m \notin faulty /\ payload[m] /\ NoRef(m) =>
      \E r \in Reqs : req[r].m = m /\ req[r].pc \in {"index", "count", "gc"}

\* The inductive invariant.
MInv == TypeOK /\ (\A r \in Reqs : HandlerInv(r)) /\ KeepInv /\ OrphanInv
-----------------------------------------------------------------------------
(* Steps by what they change. *)

\* Rows change in ways that neither insert a row nor touch a reference.
LEMMA QuietStep ==
  ASSUME MInv, UNCHANGED <<config, payload, req, faulty>>,
         old \subseteq old', old' \subseteq Sends,
         row' \in [Sends -> [Sides -> RowType]],
         \A m \in Sends, s \in Sides : /\ row'[m][s].ref = row[m][s].ref
                                       /\ row'[m][s].status = "none" <=> row[m][s].status = "none"
  PROVE  MInv'
<1>1. \A m \in Sends : (Fresh(m) <=> Fresh(m)') /\ (NoRef(m) <=> NoRef(m)')
  <2> SUFFICES ASSUME NEW m \in Sends
               PROVE  (Fresh(m) <=> Fresh(m)') /\ (NoRef(m) <=> NoRef(m)')
    OBVIOUS
  <2>1. \A s \in Sides : /\ row'[m][s].ref = row[m][s].ref
                         /\ row'[m][s].status = "none" <=> row[m][s].status = "none"
    OBVIOUS
  <2> QED
    BY <2>1 DEF Fresh, NoRef
<1>2. TypeOK'
  BY DEF MInv, TypeOK
<1>3. ASSUME NEW r \in Reqs
      PROVE  HandlerInv(r)'
  BY <1>1 DEF MInv, HandlerInv, Alone
<1>4. KeepInv'
  BY <1>1 DEF MInv, KeepInv
<1>5. OrphanInv'
  BY <1>1 DEF MInv, OrphanInv
<1> QED
  BY <1>2, <1>3, <1>4, <1>5 DEF MInv

\* One handler moves on; what it relies on next holds, no handler that is
\* storing its send is disturbed, and a payload it was to collect is referred
\* to, is still its own, or its send failed.
LEMMA MoveStep ==
  ASSUME MInv, NEW r \in Reqs,
         UNCHANGED <<config, row, payload, old>>,
         faulty \subseteq faulty', faulty' \subseteq Sends,
         req' \in [Reqs -> Handler], \A q \in Reqs \ {r} : req'[q] = req[q],
         HandlerInv(r)',
         \A q \in Reqs \ {r} : req[q].pc \in {"store", "index"} =>
           req'[r].m # req[q].m /\ \A s \in Sides : <<req[q].m, s>> \notin req'[r].todo,
         req[r].pc \in {"index", "count", "gc"} =>
           \/ req[r].m \in faulty'
           \/ req'[r].m = req[r].m /\ req'[r].pc \in {"index", "count", "gc"}
           \/ ~NoRef(req[r].m)
  PROVE  MInv'
<1>1. \A m : (Fresh(m) <=> Fresh(m)') /\ (NoRef(m) <=> NoRef(m)')
  BY DEF Fresh, NoRef
<1>2. TypeOK'
  BY DEF MInv, TypeOK
<1>3. ASSUME NEW q \in Reqs \ {r}
      PROVE  HandlerInv(q)'
  <2>1. HandlerInv(q) /\ req'[q] = req[q]
    BY DEF MInv
  <2>2. ASSUME req[q].pc \in {"store", "index"}
        PROVE  Alone(q)'
    <3>1. Alone(q)
      BY <2>1, <2>2 DEF HandlerInv
    <3> QED
      BY <2>1, <2>2, <3>1 DEF Alone
  <2> QED
    BY <1>1, <2>1, <2>2 DEF HandlerInv
<1>4. KeepInv'
  BY <1>1 DEF MInv, KeepInv
<1>5. OrphanInv'
  <2> SUFFICES ASSUME ~config.local, NEW m \in Sends, m \notin faulty', payload[m], NoRef(m)
               PROVE  \E q \in Reqs : req'[q].m = m /\ req'[q].pc \in {"index", "count", "gc"}
    BY <1>1 DEF OrphanInv
  <2>1. PICK q \in Reqs : req[q].m = m /\ req[q].pc \in {"index", "count", "gc"}
    BY DEF MInv, OrphanInv
  <2> QED
    BY <2>1
<1> QED
  BY <1>2, <1>3, <1>4, <1>5 DEF MInv

\* The types the steps start from.
LEMMA Types ==
  ASSUME MInv
  PROVE  /\ TypeOK
         /\ \A r \in Reqs : /\ req[r] \in Handler /\ HandlerInv(r)
                            /\ req[r].m \in Sends \cup {None} /\ req[r].side \in Sides \cup {None}
                            /\ req[r].todo \in SUBSET (Sends \X Sides)
         /\ \A m \in Sends, s \in Sides : row[m][s] \in RowType
         /\ None \notin Sends
         /\ Idle \in Handler /\ Idle.pc = "idle" /\ Idle.m = None /\ Idle.todo = {}
BY NoneAssumption DEF MInv, TypeOK, Handler, Idle

\* A handler moves to another statement of the same request.
LEMMA GotoStep ==
  ASSUME TypeOK, NEW r \in Reqs, NEW pc \in {"index", "cleanup", "gc", "purge_row"}, Goto(r, pc)
  PROVE  /\ req' \in [Reqs -> Handler] /\ \A q \in Reqs \ {r} : req'[q] = req[q]
         /\ req'[r].pc = pc /\ req'[r].m = req[r].m /\ req'[r].todo = req[r].todo
<1>1. [req[r] EXCEPT !.pc = pc] \in Handler
  BY DEF Handler, TypeOK
<1> QED
  BY <1>1 DEF Goto, TypeOK, Handler

\* A handler ends.
LEMMA FinishStep ==
  ASSUME TypeOK, NEW r \in Reqs, Finish(r)
  PROVE  req' \in [Reqs -> Handler] /\ req'[r] = Idle /\ \A q \in Reqs \ {r} : req'[q] = req[q]
<1>1. Idle \in Handler
  BY DEF Handler, Idle
<1> QED
  BY <1>1 DEF Finish, TypeOK

\* An auto-purge run goes on to its next row, or ends.
LEMMA PurgeContinueStep ==
  ASSUME TypeOK, NEW r \in Reqs, PurgeContinue(r)
  PROVE  /\ req' \in [Reqs -> Handler] /\ \A q \in Reqs \ {r} : req'[q] = req[q]
         /\ req'[r].pc \in {"idle", "purge"} /\ req'[r].m = None /\ req'[r].todo = req[r].todo
<1> DEFINE h == IF req[r].todo = {} THEN Idle ELSE [Idle EXCEPT !.pc = "purge", !.todo = req[r].todo]
<1>1. req[r].todo \in SUBSET (Sends \X Sides)
  BY DEF TypeOK, Handler
<1>2. h \in Handler /\ h.pc \in {"idle", "purge"} /\ h.m = None /\ h.todo = req[r].todo
  BY <1>1 DEF Handler, Idle
<1>3. req' = [req EXCEPT ![r] = h]
  BY DEF PurgeContinue
<1> HIDE DEF h
<1> QED
  BY <1>2, <1>3 DEF TypeOK

\* A payload is removed, or not, from the directory of the side that asks.
LEMMA RemovePayloadStep ==
  ASSUME TypeOK, NEW m \in Sends, NEW s, RemovePayload(m, s)
  PROVE  /\ payload' \in [Sends -> BOOLEAN]
         /\ \A n \in Sends \ {m} : payload'[n] = payload[n]
         /\ payload'[m] => payload[m]
         /\ ~config.local => ~payload'[m]
BY DEF TypeOK, RemovePayload, Configs
-----------------------------------------------------------------------------
(* Each action preserves the invariant. *)

\* Archiving, folders and the passing of time.
LEMMA QuietPreserves ==
  ASSUME MInv, NEW m \in Sends,
         \/ MessageAges(m)
         \/ \E s \in Sides :
              \/ \E status \in {"read", "archived"} : UpdateMessageStatus(m, s, status)
              \/ \E folder \in {"inbox", "archive", "other"} : UpdateMessageFlags(m, s, folder)
  PROVE  MInv'
<1>0. TypeOK /\ old \subseteq Sends /\ \A n \in Sends, t \in Sides : row[n][t] \in RowType
  BY DEF MInv, TypeOK
<1>1. CASE MessageAges(m)
  BY <1>0, <1>1, QuietStep DEF MessageAges, TypeOK
<1>2. ASSUME NEW s \in Sides, NEW w \in RowType, Exists(m, s),
             row' = [row EXCEPT ![m] = [row[m] EXCEPT ![s] = w]],
             w.ref = row[m][s].ref, w.status # "none",
             UNCHANGED <<config, payload, old, req, faulty>>
      PROVE  MInv'
  <2>1. row' \in [Sends -> [Sides -> RowType]]
    BY <1>0, <1>2 DEF TypeOK
  <2>2. ASSUME NEW n \in Sends, NEW t \in Sides
        PROVE  row'[n][t] = IF n = m /\ t = s THEN w ELSE row[n][t]
    BY <1>0, <1>2 DEF TypeOK
  <2>3. row[m][s].status # "none"
    BY <1>2 DEF Exists
  <2> QED
    BY <1>0, <1>2, <2>1, <2>2, <2>3, QuietStep
<1>3. ASSUME NEW s \in Sides, NEW status \in {"read", "archived"}, UpdateMessageStatus(m, s, status)
      PROVE  MInv'
  <2> DEFINE f == IF status = "archived" /\ row[m][s].folder = "inbox" THEN "archive" ELSE row[m][s].folder
             w == [row[m][s] EXCEPT !.status = status, !.folder = f]
  <2>1. w \in RowType /\ w.ref = row[m][s].ref /\ w.status # "none"
    BY <1>0 DEF RowType
  <2>2. row' = [row EXCEPT ![m] = [row[m] EXCEPT ![s] = w]]
    BY <1>0, <1>3 DEF UpdateMessageStatus, TypeOK, RowType
  <2> HIDE DEF f, w
  <2> QED
    BY <1>2, <1>3, <2>1, <2>2 DEF UpdateMessageStatus
<1>4. ASSUME NEW s \in Sides, NEW folder \in {"inbox", "archive", "other"}, UpdateMessageFlags(m, s, folder)
      PROVE  MInv'
  <2> DEFINE st == IF folder = "inbox" /\ row[m][s].status = "archived" THEN "read" ELSE row[m][s].status
             w == [row[m][s] EXCEPT !.folder = folder, !.status = st]
  <2>1. Exists(m, s) /\ row' = [row EXCEPT ![m][s].folder = folder, ![m][s].status = st]
    BY <1>4 DEF UpdateMessageFlags
  <2>2. st \in {"sent", "unread", "read", "archived", "auto_purged"}
    BY <1>0, <2>1 DEF RowType, Exists
  <2> HIDE DEF st
  <2>3. w \in RowType /\ w.ref = row[m][s].ref /\ w.status = st
    BY <1>0, <2>2 DEF RowType
  <2>4. row' = [row EXCEPT ![m] = [row[m] EXCEPT ![s] = w]]
    BY <1>0, <2>1 DEF TypeOK, RowType
  <2> HIDE DEF w
  <2>5. w.status # "none"
    BY <2>2, <2>3
  <2> QED
    BY <1>2, <1>4, <2>3, <2>4, <2>5 DEF UpdateMessageFlags
<1> QED
  BY <1>1, <1>3, <1>4

\* A send begins: nothing else works on it.
LEMMA SendPreserves ==
  ASSUME MInv, NEW r \in Reqs, NEW m \in Sends, SendMessage(r, m)
  PROVE  MInv'
<1> DEFINE h == [Idle EXCEPT !.pc = "store", !.m = m]
<1>0. TypeOK
  BY DEF MInv
<1>1. h \in Handler /\ h.pc = "store" /\ h.m = m /\ h.todo = {}
  BY DEF Handler, Idle
<1>2. req[r] = Idle /\ Fresh(m) /\ ~Busy(m) /\ UNCHANGED <<config, row, payload, old, faulty>>
      /\ req' = [req EXCEPT ![r] = h]
  BY DEF SendMessage, Fresh
<1> HIDE DEF h
<1>3. req' \in [Reqs -> Handler] /\ req'[r] = h /\ \A q \in Reqs \ {r} : req'[q] = req[q]
  BY <1>0, <1>1, <1>2 DEF TypeOK
<1>4. \A q \in Reqs : req[q].m # m /\ \A s \in Sides : <<m, s>> \notin req[q].todo
  BY <1>2 DEF Busy
<1>5. HandlerInv(r)'
  BY <1>1, <1>2, <1>3, <1>4 DEF HandlerInv, Alone, Fresh
<1> QED
  BY <1>0, <1>1, <1>2, <1>3, <1>4, <1>5, MoveStep DEF TypeOK, Idle

\* Handlers that give up, a send whose transaction fails, the count of the
\* references, and the steps of an auto-purge run that change no data.
LEMMA MovesPreserve ==
  ASSUME MInv, NEW r \in Reqs,
         \/ SendTxFails(r)
         \/ CountRefs(r)
         \/ PurgeObjectFails(r)
         \/ PurgeRowFails(r)
         \/ Cancel(r)
  PROVE  MInv'
<1>0. /\ TypeOK /\ HandlerInv(r) /\ None \notin Sends /\ faulty \subseteq Sends
      /\ \A q \in Reqs : HandlerInv(q) /\ req[q].m \in Sends \cup {None}
      /\ Idle.pc = "idle" /\ Idle.m = None /\ Idle.todo = {}
  BY Types DEF TypeOK
<1>1. \A q \in Reqs \ {r} : req[q].pc \in {"store", "index"} =>
        /\ req[q].m \in Sends /\ req[r].m # req[q].m
        /\ \A s \in Sides : <<req[q].m, s>> \notin req[r].todo
  BY <1>0 DEF HandlerInv, Alone
<1>2. CASE SendTxFails(r)
  <2>1. /\ req' \in [Reqs -> Handler] /\ \A q \in Reqs \ {r} : req'[q] = req[q]
        /\ req'[r].pc = "cleanup" /\ req'[r].m = req[r].m /\ req'[r].todo = req[r].todo
    BY <1>0, <1>2, GotoStep DEF SendTxFails
  <2>2. req[r].m \in Sends /\ faulty' = faulty \cup {req[r].m} /\ UNCHANGED <<config, row, payload, old>>
    BY <1>0, <1>2 DEF SendTxFails, HandlerInv
  <2>3. HandlerInv(r)'
    BY <1>0, <2>1, <2>2 DEF HandlerInv
  <2> QED
    BY <1>0, <1>1, <2>1, <2>2, <2>3, MoveStep
<1>3. CASE CountRefs(r)
  <2>1. req[r].pc = "count" /\ UNCHANGED <<config, row, payload, old, faulty>>
    BY <1>3 DEF CountRefs
  <2>2. CASE Refs(req[r].m) = {}
    <3>1. /\ req' \in [Reqs -> Handler] /\ \A q \in Reqs \ {r} : req'[q] = req[q]
          /\ req'[r].pc = "gc" /\ req'[r].m = req[r].m /\ req'[r].todo = req[r].todo
      BY <1>0, <1>3, <2>2, GotoStep DEF CountRefs
    <3>2. NoRef(req[r].m)
      BY <2>2 DEF Refs, NoRef
    <3>3. HandlerInv(r)'
      BY <1>0, <2>1, <3>1, <3>2 DEF HandlerInv, NoRef
    <3> QED
      BY <1>0, <1>1, <2>1, <3>1, <3>2, <3>3, MoveStep
  <2>3. CASE Refs(req[r].m) # {}
    <3>1. req' \in [Reqs -> Handler] /\ req'[r] = Idle /\ \A q \in Reqs \ {r} : req'[q] = req[q]
      BY <1>0, <1>3, <2>3, FinishStep DEF CountRefs
    <3>2. ~NoRef(req[r].m)
      BY <2>3 DEF Refs, NoRef
    <3>3. HandlerInv(r)'
      BY <1>0, <3>1 DEF HandlerInv
    <3> QED
      BY <1>0, <1>1, <2>1, <3>1, <3>2, <3>3, MoveStep
  <2> QED
    BY <2>2, <2>3
<1>4. CASE PurgeObjectFails(r) \/ PurgeRowFails(r)
  <2>1. /\ req' \in [Reqs -> Handler] /\ \A q \in Reqs \ {r} : req'[q] = req[q]
        /\ req'[r].pc \in {"idle", "purge"} /\ req'[r].m = None /\ req'[r].todo = req[r].todo
    BY <1>0, <1>4, PurgeContinueStep DEF PurgeObjectFails, PurgeRowFails
  <2>2. /\ req[r].pc \in {"purge_object", "purge_row"} /\ req[r].m \in Sends
        /\ UNCHANGED <<config, row, payload, old>>
        /\ faulty' = faulty \/ faulty' = faulty \cup {req[r].m}
    BY <1>0, <1>4 DEF PurgeObjectFails, PurgeRowFails, HandlerInv
  <2>3. HandlerInv(r)'
    BY <1>0, <2>1, <2>2 DEF HandlerInv
  <2> QED
    BY <1>0, <1>1, <2>1, <2>2, <2>3, MoveStep
<1>5. CASE Cancel(r)
  <2>1. req' \in [Reqs -> Handler] /\ req'[r] = Idle /\ \A q \in Reqs \ {r} : req'[q] = req[q]
    BY <1>0, <1>5, FinishStep DEF Cancel
  <2>2. /\ UNCHANGED <<config, row, payload, old>>
        /\ faulty' = faulty \cup ({req[r].m} \ {None})
    BY <1>5 DEF Cancel
  <2>3. HandlerInv(r)'
    BY <1>0, <2>1 DEF HandlerInv
  <2>4. req[r].pc \in {"index", "count", "gc"} => req[r].m \in faulty'
    BY <1>0, <2>2 DEF HandlerInv
  <2> QED
    BY <1>0, <1>1, <2>1, <2>2, <2>3, <2>4, MoveStep
<1> QED
  BY <1>2, <1>3, <1>4, <1>5

\* The scan of an auto-purge run, and the row it takes next.
LEMMA ScanPreserves ==
  ASSUME MInv, NEW r \in Reqs,
         RunAutoPurge(r) \/ \E m \in Sends, s \in Sides : PurgeNext(r, m, s)
  PROVE  MInv'
<1>0. /\ TypeOK /\ HandlerInv(r) /\ None \notin Sends /\ faulty \subseteq Sends
      /\ \A q \in Reqs : /\ HandlerInv(q) /\ req[q].m \in Sends \cup {None}
                         /\ req[q].todo \in SUBSET (Sends \X Sides)
  BY Types DEF TypeOK
<1>1. CASE RunAutoPurge(r)
  <2> DEFINE T == {t \in Sends \X Sides : PurgeDecision(t[1], t[2])}
             h == [Idle EXCEPT !.pc = "purge", !.todo = T]
  <2>1. /\ T \in SUBSET (Sends \X Sides)
        /\ \A t \in T : t[1] \in old /\ t[1] \in Sends /\ t[2] \in Sides /\ ~Fresh(t[1])
    BY DEF PurgeDecision, Fresh
  <2>2. h \in Handler /\ h.pc = "purge" /\ h.m = None /\ h.todo = T
    BY DEF Handler, Idle
  <2>3. /\ req[r] = Idle /\ req' = [req EXCEPT ![r] = h]
        /\ UNCHANGED <<config, row, payload, old, faulty>>
    BY <1>1 DEF RunAutoPurge
  <2> HIDE DEF T, h
  <2>4. req' \in [Reqs -> Handler] /\ req'[r] = h /\ \A q \in Reqs \ {r} : req'[q] = req[q]
    BY <1>0, <2>2, <2>3 DEF TypeOK
  <2>5. HandlerInv(r)'
    BY <2>1, <2>2, <2>3, <2>4 DEF HandlerInv
  <2>6. ASSUME NEW q \in Reqs \ {r}, req[q].pc \in {"store", "index"}
        PROVE  h.m # req[q].m /\ \A s \in Sides : <<req[q].m, s>> \notin T
    <3>1. req[q].m \in Sends /\ Fresh(req[q].m)
      BY <1>0, <2>6 DEF HandlerInv
    <3> QED
      BY <1>0, <2>1, <2>2, <3>1
  <2> QED
    BY <1>0, <2>2, <2>3, <2>4, <2>5, <2>6, MoveStep DEF Idle
<1>2. ASSUME NEW m \in Sends, NEW s \in Sides, PurgeNext(r, m, s)
      PROVE  MInv'
  <2> DEFINE h == [pc |-> "purge_object", m |-> m, side |-> s, todo |-> req[r].todo \ {<<m, s>>}]
  <2>1. h \in Handler /\ h.pc = "purge_object" /\ h.m = m /\ h.todo \subseteq req[r].todo
    BY <1>0 DEF Handler
  <2>2. /\ req[r].pc = "purge" /\ <<m, s>> \in req[r].todo /\ req' = [req EXCEPT ![r] = h]
        /\ UNCHANGED <<config, row, payload, old, faulty>>
    BY <1>2 DEF PurgeNext
  <2> HIDE DEF h
  <2>3. req' \in [Reqs -> Handler] /\ req'[r] = h /\ \A q \in Reqs \ {r} : req'[q] = req[q]
    BY <1>0, <2>1, <2>2 DEF TypeOK
  <2>4. m \in old
    BY <1>0, <2>2 DEF HandlerInv
  <2>5. HandlerInv(r)'
    BY <1>0, <2>1, <2>2, <2>3, <2>4 DEF HandlerInv
  <2>6. ASSUME NEW q \in Reqs \ {r}, req[q].pc \in {"store", "index"}
        PROVE  h.m # req[q].m /\ \A t \in Sides : <<req[q].m, t>> \notin h.todo
    <3>1. Alone(q)
      BY <1>0, <2>6 DEF HandlerInv
    <3> QED
      BY <2>1, <2>2, <3>1 DEF Alone
  <2> QED
    BY <1>0, <2>2, <2>3, <2>5, <2>6, MoveStep
<1> QED
  BY <1>1, <1>2

\* The payload is written; nothing else works on the send.
LEMMA StorePreserves ==
  ASSUME MInv, NEW r \in Reqs, StorePayload(r)
  PROVE  MInv'
<1> DEFINE m == req[r].m
<1>0. /\ TypeOK /\ payload \in [Sends -> BOOLEAN] /\ \A q \in Reqs : HandlerInv(q)
      /\ \A q \in Reqs : req[q].m \in Sends \cup {None}
  BY Types DEF TypeOK
<1>1. /\ m \in Sends /\ Fresh(m) /\ Alone(r) /\ payload' = [payload EXCEPT ![m] = TRUE]
      /\ req[r].pc = "store" /\ UNCHANGED <<config, row, old, faulty>>
  BY <1>0 DEF StorePayload, HandlerInv
<1>2. /\ req' \in [Reqs -> Handler] /\ \A q \in Reqs \ {r} : req'[q] = req[q]
      /\ req'[r].pc = "index" /\ req'[r].m = m /\ req'[r].todo = req[r].todo
  BY <1>0, GotoStep DEF StorePayload
<1> HIDE DEF m
<1>3. /\ payload' \in [Sends -> BOOLEAN] /\ payload'[m]
      /\ \A n \in Sends \ {m} : payload'[n] = payload[n]
  BY <1>0, <1>1
<1>4. \A n : (Fresh(n) <=> Fresh(n)') /\ (NoRef(n) <=> NoRef(n)')
  BY <1>1 DEF Fresh, NoRef
<1>5. \A q \in Reqs \ {r} : req[q].m # m
  BY <1>1 DEF Alone, m
<1>6. \A q \in Reqs : req[q].pc \in {"store", "index"} => Alone(q)'
  BY <1>0, <1>1, <1>2 DEF HandlerInv, Alone, m
<1>7. TypeOK'
  BY <1>0, <1>1, <1>2, <1>3 DEF TypeOK
<1>8. HandlerInv(r)'
  BY <1>0, <1>1, <1>2, <1>3, <1>4, <1>6 DEF HandlerInv
<1>9. ASSUME NEW q \in Reqs \ {r}
      PROVE  HandlerInv(q)'
  <2>1. HandlerInv(q) /\ req'[q] = req[q] /\ req[q].m # m
    BY <1>0, <1>2, <1>5
  <2> QED
    BY <1>1, <1>3, <1>4, <1>6, <2>1 DEF HandlerInv
<1>10. KeepInv'
  BY <1>1, <1>3, <1>4 DEF MInv, KeepInv
<1>11. OrphanInv'
  <2> SUFFICES ASSUME ~config.local, NEW n \in Sends, n \notin faulty, payload'[n], NoRef(n)
               PROVE  \E q \in Reqs : req'[q].m = n /\ req'[q].pc \in {"index", "count", "gc"}
    BY <1>1, <1>4 DEF OrphanInv
  <2>1. CASE n = m
    BY <1>2, <2>1
  <2>2. CASE n # m
    <3>1. PICK q \in Reqs : req[q].m = n /\ req[q].pc \in {"index", "count", "gc"}
      BY <1>3, <2>2 DEF MInv, OrphanInv
    <3> QED
      BY <1>1, <1>2, <3>1
  <2> QED
    BY <2>1, <2>2
<1> QED
  BY <1>7, <1>8, <1>9, <1>10, <1>11 DEF MInv

\* A handler removes a payload that nobody will miss: the send was in doubt, is
\* old, or has no reference.
LEMMA RemovalsPreserve ==
  ASSUME MInv, NEW r \in Reqs,
         SendRollbackCleanup(r) \/ GcMessageStorage(r) \/ PurgeObject(r)
  PROVE  MInv'
<1> DEFINE m == req[r].m
<1>0. /\ TypeOK /\ \A q \in Reqs : HandlerInv(q)
      /\ Idle.pc = "idle" /\ Idle.m = None /\ Idle.todo = {} /\ None \notin Sends
  BY Types
<1>1. /\ m \in Sends /\ (m \in faulty \/ m \in old \/ NoRef(m))
      /\ UNCHANGED <<config, row, old, faulty>>
      /\ req[r].pc \in {"cleanup", "gc", "purge_object"}
  BY <1>0 DEF SendRollbackCleanup, GcMessageStorage, PurgeObject, HandlerInv
<1>2. /\ payload' \in [Sends -> BOOLEAN]
      /\ \A n \in Sends \ {m} : payload'[n] = payload[n]
      /\ payload'[m] => payload[m]
      /\ ~config.local => ~payload'[m]
  BY <1>0, <1>1, RemovePayloadStep DEF SendRollbackCleanup, GcMessageStorage, PurgeObject
<1>3. /\ req' \in [Reqs -> Handler] /\ \A q \in Reqs \ {r} : req'[q] = req[q]
      /\ \/ req'[r].pc = "idle" /\ req'[r].m = None /\ req'[r].todo = {}
         \/ req'[r].pc = "purge_row" /\ req'[r].m = m /\ req'[r].todo = req[r].todo
  <2>1. CASE SendRollbackCleanup(r) \/ GcMessageStorage(r)
    BY <1>0, <2>1, FinishStep DEF SendRollbackCleanup, GcMessageStorage
  <2>2. CASE PurgeObject(r)
    BY <1>0, <2>2, GotoStep DEF PurgeObject
  <2> QED
    BY <2>1, <2>2
<1>4. \A n : (Fresh(n) <=> Fresh(n)') /\ (NoRef(n) <=> NoRef(n)')
  BY <1>1 DEF Fresh, NoRef
<1> HIDE DEF m
<1>5. ASSUME NEW q \in Reqs \ {r}, req[q].pc \in {"store", "index"}
      PROVE  req[q].m # m /\ Alone(q)'
  <2>1. Alone(q) /\ req[q].m \in Sends
    BY <1>0, <1>5 DEF HandlerInv
  <2> QED
    BY <1>0, <1>1, <1>3, <2>1 DEF Alone, m
<1>6. TypeOK'
  BY <1>0, <1>1, <1>2, <1>3 DEF TypeOK
<1>7. HandlerInv(r)'
  <2>1. HandlerInv(r)
    BY <1>0
  <2> QED
    BY <1>1, <1>2, <1>3, <2>1 DEF HandlerInv
<1>8. ASSUME NEW q \in Reqs \ {r}
      PROVE  HandlerInv(q)'
  <2>1. HandlerInv(q) /\ req'[q] = req[q]
    BY <1>0, <1>3
  <2>2. \A n \in Sends : payload'[n] => payload[n]
    BY <1>2
  <2> QED
    BY <1>1, <1>2, <1>4, <1>5, <2>1, <2>2 DEF HandlerInv
<1>9. KeepInv'
  BY <1>1, <1>2, <1>4 DEF MInv, KeepInv
<1>10. OrphanInv'
  <2> SUFFICES ASSUME ~config.local, NEW n \in Sends, n \notin faulty, payload'[n], NoRef(n)
               PROVE  \E q \in Reqs : req'[q].m = n /\ req'[q].pc \in {"index", "count", "gc"}
    BY <1>1, <1>4 DEF OrphanInv
  <2>1. n # m /\ payload[n]
    BY <1>2
  <2>2. PICK q \in Reqs : req[q].m = n /\ req[q].pc \in {"index", "count", "gc"}
    BY <2>1 DEF MInv, OrphanInv
  <2> QED
    BY <1>3, <2>1, <2>2 DEF m
<1> QED
  BY <1>6, <1>7, <1>8, <1>9, <1>10 DEF MInv

\* The rows of a send are inserted, its payload being there.
LEMMA IndexPreserves ==
  ASSUME MInv, NEW r \in Reqs, NEW cross \in BOOLEAN, NEW folder \in {"inbox", "other"},
         IndexMessage(r, cross, folder) \/ CommitAnswerLost(r, cross, folder)
  PROVE  MInv'
<1> DEFINE w == [sender    |-> IF cross THEN [status |-> "sent", folder |-> "other", ref |-> TRUE]
                               ELSE [status |-> "unread", folder |-> folder, ref |-> TRUE],
                 recipient |-> IF cross THEN [status |-> "unread", folder |-> folder, ref |-> TRUE]
                               ELSE NoRow("none")]
<1>0. /\ TypeOK /\ \A q \in Reqs : HandlerInv(q)
      /\ Idle.pc = "idle" /\ Idle.m = None /\ Idle.todo = {} /\ None \notin Sends
  BY Types
<1>a. PICK m \in Sends : m = req[r].m
  BY <1>0 DEF IndexMessage, CommitAnswerLost, HandlerInv
<1>1. /\ Alone(r) /\ payload[m] /\ row' = [row EXCEPT ![m] = w]
      /\ UNCHANGED <<config, payload, old>>
  BY <1>0, <1>a DEF IndexMessage, CommitAnswerLost, InsertRows, HandlerInv
<1>2. /\ req' \in [Reqs -> Handler] /\ \A q \in Reqs \ {r} : req'[q] = req[q]
      /\ req'[r].todo = {} \/ req'[r].todo = req[r].todo
      /\ \/ req'[r].pc = "idle" /\ req'[r].m = None /\ faulty' = faulty
         \/ req'[r].pc = "cleanup" /\ req'[r].m = m /\ faulty' = faulty \cup {m}
  <2>1. CASE IndexMessage(r, cross, folder)
    BY <1>0, <1>a, <2>1, FinishStep DEF IndexMessage
  <2>2. CASE CommitAnswerLost(r, cross, folder)
    BY <1>0, <1>a, <2>2, GotoStep DEF CommitAnswerLost
  <2> QED
    BY <2>1, <2>2
<1>3. w \in [Sides -> RowType] /\ w["sender"].ref
  <2>1. /\ [status |-> "sent", folder |-> "other", ref |-> TRUE] \in RowType
        /\ [status |-> "unread", folder |-> folder, ref |-> TRUE] \in RowType
        /\ NoRow("none") \in RowType
    BY DEF RowType, NoRow
  <2>2. w = [s \in Sides |-> IF s = "sender" THEN w.sender ELSE w.recipient]
    BY DEF Sides
  <2> QED
    BY <2>1, <2>2 DEF Sides
<1> HIDE DEF w
<1>4. /\ row' \in [Sends -> [Sides -> RowType]] /\ row'[m] = w
      /\ \A n \in Sends \ {m} : row'[n] = row[n]
  BY <1>0, <1>1, <1>3 DEF TypeOK
<1>5. \A n \in Sends \ {m} : (Fresh(n) <=> Fresh(n)') /\ (NoRef(n) <=> NoRef(n)')
  BY <1>4 DEF Fresh, NoRef
<1>6. ~NoRef(m)'
  BY <1>3, <1>4 DEF NoRef, Sides
<1>7. ASSUME NEW q \in Reqs \ {r}
      PROVE  req[q].m # m /\ (req[q].pc \in {"store", "index"} => Alone(q)')
  <2>1. req[q].m # m
    BY <1>1, <1>a DEF Alone
  <2>2. ASSUME req[q].pc \in {"store", "index"}
        PROVE  Alone(q)'
    <3>1. Alone(q) /\ req[q].m \in Sends
      BY <1>0, <2>2 DEF HandlerInv
    <3> QED
      BY <1>0, <1>2, <2>1, <3>1 DEF Alone
  <2> QED
    BY <2>1, <2>2
<1>8. TypeOK'
  BY <1>0, <1>1, <1>2, <1>4 DEF TypeOK
<1>9. HandlerInv(r)'
  <2>1. HandlerInv(r)
    BY <1>0
  <2> QED
    BY <1>1, <1>2, <1>a, <2>1 DEF HandlerInv
<1>10. ASSUME NEW q \in Reqs \ {r}
       PROVE  HandlerInv(q)'
  <2>1. HandlerInv(q) /\ req'[q] = req[q] /\ req[q].m # m /\ faulty \subseteq faulty'
    BY <1>0, <1>2, <1>7
  <2> QED
    BY <1>1, <1>5, <1>7, <2>1 DEF HandlerInv
<1>11. KeepInv'
  BY <1>1, <1>2, <1>5 DEF MInv, KeepInv
<1>12. OrphanInv'
  <2> SUFFICES ASSUME ~config.local, NEW n \in Sends, n \notin faulty', payload[n], NoRef(n)'
               PROVE  \E q \in Reqs : req'[q].m = n /\ req'[q].pc \in {"index", "count", "gc"}
    BY <1>1 DEF OrphanInv
  <2>1. n # m
    BY <1>6
  <2>2. NoRef(n) /\ n \notin faulty
    BY <1>2, <1>5, <2>1
  <2>3. PICK q \in Reqs : req[q].m = n /\ req[q].pc \in {"index", "count", "gc"}
    BY <2>2 DEF MInv, OrphanInv
  <2> QED
    BY <1>2, <1>a, <2>1, <2>3
<1> QED
  BY <1>8, <1>9, <1>10, <1>11, <1>12 DEF MInv

\* Handler r gives row s of send m a new content w that refers to no payload,
\* and begins to count the references that are left if there may be a payload.
Unreferences(r, m, s, w) ==
  /\ row[m][s].status # "none" /\ w.status # "none" /\ ~w.ref
  /\ row' = [row EXCEPT ![m] = [row[m] EXCEPT ![s] = w]]
  /\ UNCHANGED <<config, payload, old, faulty>>
  /\ req' \in [Reqs -> Handler] /\ \A q \in Reqs \ {r} : req'[q] = req[q]
  /\ req[r].pc \notin {"store", "index", "count", "gc"}
  /\ \/ /\ req'[r].pc \in {"idle", "purge"} /\ req'[r].m = None
        /\ ~row[m][s].ref \/ config.local \/ ~payload[m]
     \/ req'[r].pc = "count" /\ req'[r].m = m
  /\ req'[r].todo \subseteq req[r].todo

\* A reference goes: with a row that is deleted, in which case its handler
\* counts the ones left, or with a row that becomes a tombstone, whose payload
\* the run has removed.
LEMMA ReferenceGoes ==
  ASSUME MInv, NEW r \in Reqs, NEW m \in Sends, NEW s \in Sides, NEW w \in RowType,
         Unreferences(r, m, s, w)
  PROVE  MInv'
<1> USE DEF Unreferences
<1>0. /\ TypeOK /\ (\A q \in Reqs : HandlerInv(q)) /\ None \notin Sends
  BY Types
<1>1. /\ row' \in [Sends -> [Sides -> RowType]]
      /\ \A n \in Sends, t \in Sides : row'[n][t] = IF n = m /\ t = s THEN w ELSE row[n][t]
  BY <1>0 DEF TypeOK
<1>2. /\ ~Fresh(m)
      /\ \A n \in Sends : NoRef(n) => NoRef(n)'
      /\ \A n \in Sends \ {m} : (Fresh(n) <=> Fresh(n)') /\ (NoRef(n) <=> NoRef(n)')
  BY <1>1 DEF Fresh, NoRef
<1>3. TypeOK'
  BY <1>0, <1>1 DEF TypeOK
<1>4. HandlerInv(r)'
  <2>1. HandlerInv(r)
    BY <1>0
  <2> QED
    BY <2>1 DEF HandlerInv
<1>5. ASSUME NEW q \in Reqs \ {r}
      PROVE  HandlerInv(q)'
  <2>1. HandlerInv(q) /\ req'[q] = req[q]
    BY <1>0
  <2>2. ASSUME req[q].pc \in {"store", "index"}
        PROVE  Alone(q)' /\ Fresh(req[q].m)'
    <3>1. Alone(q) /\ req[q].m \in Sends /\ Fresh(req[q].m) /\ req[q].m # m
      BY <1>2, <2>1, <2>2 DEF HandlerInv
    <3>2. Alone(q)'
      BY <1>0, <2>1, <3>1 DEF Alone
    <3> QED
      BY <1>2, <2>1, <3>1, <3>2
  <2> QED
    BY <1>2, <2>1, <2>2 DEF HandlerInv
<1>6. KeepInv'
  <2>1. ASSUME NEW n \in Sends, ~NoRef(n)'
        PROVE  ~NoRef(n)
    BY <1>2, <2>1
  <2> QED
    BY <2>1 DEF MInv, KeepInv
<1>7. OrphanInv'
  <2> SUFFICES ASSUME ~config.local, NEW n \in Sends, n \notin faulty, payload[n], NoRef(n)'
               PROVE  \E q \in Reqs : req'[q].m = n /\ req'[q].pc \in {"index", "count", "gc"}
    BY DEF OrphanInv
  <2>1. CASE NoRef(n)
    <3>1. PICK q \in Reqs : req[q].m = n /\ req[q].pc \in {"index", "count", "gc"}
      BY <2>1 DEF MInv, OrphanInv
    <3> QED
      BY <3>1
  <2>2. CASE ~NoRef(n)
    <3>1. n = m /\ row[m][s].ref
      BY <1>1, <1>2, <2>2 DEF NoRef
    <3> QED
      BY <3>1
  <2> QED
    BY <2>1, <2>2
<1> QED
  BY <1>3, <1>4, <1>5, <1>6, <1>7 DEF MInv

\* DELETE ... RETURNING, and a tombstone.
LEMMA RowsGoPreserve ==
  ASSUME MInv, NEW r \in Reqs,
         (\E m \in Sends, s \in Sides : DeleteMessage(r, m, s)) \/ PurgeRow(r)
  PROVE  MInv'
<1>0. /\ TypeOK /\ HandlerInv(r) /\ None \notin Sends
      /\ req[r].side \in Sides \cup {None}
      /\ \A n \in Sends, t \in Sides : row[n][t] \in RowType
      /\ Idle.pc = "idle" /\ Idle.m = None /\ Idle.todo = {}
  BY Types
<1>1. ASSUME NEW m \in Sends, NEW s \in Sides, DeleteMessage(r, m, s)
      PROVE  MInv'
  <2> DEFINE w == NoRow("gone")
             h == [Idle EXCEPT !.pc = "count", !.m = m, !.side = s]
  <2>1. w \in RowType /\ w.status # "none" /\ ~w.ref
    BY DEF NoRow, RowType
  <2>2. h \in Handler /\ h.pc = "count" /\ h.m = m /\ h.todo = {}
    BY DEF Handler, Idle
  <2>3. /\ row[m][s].status # "none" /\ req[r] = Idle /\ UNCHANGED <<config, payload, old, faulty>>
        /\ row' = [row EXCEPT ![m][s] = w]
        /\ req' = IF row[m][s].ref THEN [req EXCEPT ![r] = h] ELSE req
    BY <1>1 DEF DeleteMessage, Exists
  <2> HIDE DEF w, h
  <2>4. row' = [row EXCEPT ![m] = [row[m] EXCEPT ![s] = w]]
    BY <2>3
  <2>5. /\ req' \in [Reqs -> Handler] /\ \A q \in Reqs \ {r} : req'[q] = req[q]
        /\ req'[r] = IF row[m][s].ref THEN h ELSE Idle
    BY <1>0, <2>2, <2>3 DEF TypeOK
  <2>6. Unreferences(r, m, s, w)
    BY <1>0, <2>1, <2>2, <2>3, <2>4, <2>5 DEF Unreferences
  <2> QED
    BY <2>1, <2>6, ReferenceGoes
<1>2. CASE PurgeRow(r)
  <2> DEFINE m == req[r].m
             s == req[r].side
  <2>1. /\ req' \in [Reqs -> Handler] /\ \A q \in Reqs \ {r} : req'[q] = req[q]
        /\ req'[r].pc \in {"idle", "purge"} /\ req'[r].m = None /\ req'[r].todo = req[r].todo
    BY <1>0, <1>2, PurgeContinueStep DEF PurgeRow
  <2>2. /\ req[r].pc = "purge_row" /\ m \in Sends /\ (~config.local => ~payload[m])
        /\ UNCHANGED <<config, payload, old, faulty>>
    BY <1>0, <1>2 DEF PurgeRow, HandlerInv
  <2>3. CASE s \in Sides /\ Exists(m, s)
    <3>1. PICK n \in Sends, t \in Sides : n = m /\ t = s
      BY <2>2, <2>3
    <3>2. row[n][t] \in RowType /\ row[n][t].status # "none" /\ (~config.local => ~payload[n])
      BY <1>0, <2>2, <2>3, <3>1 DEF Exists
    <3>3. row' = [row EXCEPT ![n][t].status = "auto_purged", ![n][t].ref = FALSE]
      BY <1>2, <2>3, <3>1 DEF PurgeRow
    <3> DEFINE w == [row[n][t] EXCEPT !.status = "auto_purged", !.ref = FALSE]
    <3>4. w \in RowType /\ w.status # "none" /\ ~w.ref
      BY <3>2 DEF RowType
    <3>5. row' = [row EXCEPT ![n] = [row[n] EXCEPT ![t] = w]]
      BY <1>0, <3>2, <3>3 DEF TypeOK, RowType
    <3> HIDE DEF w, m, s
    <3>6. Unreferences(r, n, t, w)
      BY <1>0, <2>1, <2>2, <3>2, <3>4, <3>5 DEF Unreferences
    <3> QED
      BY <3>4, <3>6, ReferenceGoes
  <2>4. CASE ~(s \in Sides /\ Exists(m, s))
    <3>1. UNCHANGED row
      BY <1>0, <1>2, <2>2, <2>4 DEF PurgeRow, TypeOK
    <3>2. HandlerInv(r)'
      BY <1>0, <2>1, <2>2 DEF HandlerInv
    <3>3. \A q \in Reqs \ {r} : req[q].pc \in {"store", "index"} =>
            req[q].m \in Sends /\ \A t \in Sides : <<req[q].m, t>> \notin req[r].todo
      BY Types DEF HandlerInv, Alone
    <3> QED
      BY <1>0, <2>1, <2>2, <3>1, <3>2, <3>3, MoveStep DEF TypeOK
  <2> QED
    BY <2>3, <2>4
<1> QED
  BY <1>1, <1>2

-----------------------------------------------------------------------------
(* The theorems. *)

\* No rows, no payloads, no requests.
LEMMA InitMInv == Init => MInv
<1> SUFFICES ASSUME Init PROVE MInv
  OBVIOUS
<1>1. TypeOK
  <2>1. NoRow("none") \in RowType /\ Idle \in Handler
    BY DEF NoRow, RowType, Idle, Handler
  <2> QED
    BY <2>1 DEF Init, TypeOK
<1>2. \A m \in Sends : NoRef(m) /\ ~payload[m]
  BY DEF Init, NoRef, NoRow
<1>3. \A r \in Reqs : HandlerInv(r)
  BY DEF Init, Idle, HandlerInv
<1> QED
  BY <1>1, <1>2, <1>3 DEF MInv, KeepInv, OrphanInv

\* Every step of every handler.
LEMMA NextMInv == MInv /\ [Next]_vars => MInv'
<1> SUFFICES ASSUME MInv, [Next]_vars PROVE MInv'
  OBVIOUS
<1>1. CASE UNCHANGED vars
  <2>1. old \subseteq Sends /\ row \in [Sends -> [Sides -> RowType]]
    BY DEF MInv, TypeOK
  <2> QED
    BY <1>1, <2>1, QuietStep DEF vars
<1>2. ASSUME NEW r \in Reqs, NEW m \in Sends,
             SendMessage(r, m) \/ \E s \in Sides : DeleteMessage(r, m, s) \/ PurgeNext(r, m, s)
      PROVE  MInv'
  BY <1>2, SendPreserves, RowsGoPreserve, ScanPreserves
<1> QED
  BY <1>1, <1>2, QuietPreserves, IndexPreserves, StorePreserves, RemovalsPreserve, MovesPreserve,
     ScanPreserves, RowsGoPreserve DEF Next

\* The inductive invariant holds throughout.
LEMMA Invariance == Spec => []MInv
BY InitMInv, NextMInv, PTL DEF Spec

\* Rows, payloads and handlers have their types.
THEOREM TypeCorrect == Spec => []TypeOK
<1>1. MInv => TypeOK
  BY DEF MInv
<1> QED
  BY <1>1, Invariance, PTL

\* The deletions of the two sides never take the payload away from a remaining
\* row (delete_message, gc_message_storage), however they interleave.
THEOREM DeletionsKeepThePayload == Spec => []DeletionsKeepPeerPayload
<1>1. MInv => DeletionsKeepPeerPayload
  BY DEF MInv, KeepInv, DeletionsKeepPeerPayload, NoRef, Refs
<1> QED
  BY <1>1, Invariance, PTL

\* In shared storage the last deletion collects the payload: one that no row
\* refers to and no handler works on is left only after a failure.
THEOREM OrphansComeFromFailures == Spec => []OrphanOnlyAfterFailure
<1>1. MInv => OrphanOnlyAfterFailure
  <2> SUFFICES ASSUME MInv, NEW m \in Sends, payload[m], Refs(m) = {}, ~Busy(m), ~config.local, m \notin faulty
               PROVE  FALSE
    BY DEF OrphanOnlyAfterFailure
  <2>1. NoRef(m)
    BY DEF NoRef, Refs
  <2> QED
    BY <2>1 DEF MInv, OrphanInv, Busy
<1> QED
  BY <1>1, Invariance, PTL

-----------------------------------------------------------------------------
(***************************************************************************)
(* Reader: what is on screen once the passes are done, and how often a     *)
(* card that is shown can be answered.                                     *)
(***************************************************************************)

-----------------------------------------------------------------------------
(* The thread lists. *)

States == {"none", "loading", "ready", "failed"}

\* A list query holds members of its thread, if anything.
ListShape(t, q) ==
    /\ q = [data |-> q.data, fresh |-> q.fresh, fetch |-> q.fetch] /\ q.fresh \in BOOLEAN
    /\ q.data = Undefined \/ \A m \in q.data : Thread[m] = t
    /\ \/ q.fetch = NoFetch \/ q.fetch = Asked
       \/ q.fetch = [state |-> "answered", data |-> q.fetch.data] /\ \A m \in q.fetch.data : Thread[m] = t

\* A list that is not behind has the server's members, or will: its request is
\* still to be answered, or the answer on its way is current.  A list nobody
\* looks at may also be marked stale.
ListNow(t) ==
    \/ t \in behind \/ list[t].fetch = Asked
    \/ list[t].fetch.state = "answered" /\ list[t].fetch.data = ListThread(t)
    \/ /\ list[t].fetch = NoFetch
       /\ \/ list[t].data = ListThread(t)
          \/ t # ShownList /\ (~list[t].fresh \/ list[t].data = Undefined)

\* The inductive invariant of the thread lists.
ThreadsInv ==
    /\ root \in Msgs \union {Undefined} /\ content \in [Msgs -> States]
    /\ list = [t \in Threads |-> list[t]]
    /\ \A t \in Threads : ListShape(t, list[t]) /\ ListNow(t)

\* The states of a request differ, and an answer holds members of the thread.
LEMMA ListFetches ==
    /\ NoFetch.state = "none" /\ Asked.state = "asked" /\ NoFetch # Asked
    /\ \A t : \A m \in ListThread(t) : Thread[m] = t
BY DEF NoFetch, Asked, ListThread

\* The server's list of a thread depends on the thread's messages only.
LEMMA SameThreadList ==
    ASSUME NEW t, {m \in stored' : Thread[m] = t} = {m \in stored : Thread[m] = t}
    PROVE  ListThread(t)' = ListThread(t)
BY DEF ListThread

\* The shown list is that of a thread, or none.
LEMMA ShownIsThread == ASSUME ThreadsInv PROVE ShownList \in Threads \union {Undefined}
BY DEF ThreadsInv, ShownList, Threads

\* Once every list has its shape and is current, so is the whole.
LEMMA AllThreads ==
    ASSUME root' \in Msgs \union {Undefined}, content' \in [Msgs -> States],
           list' = [t \in Threads |-> list'[t]],
           \A t \in Threads : ListShape(t, list'[t]) /\ ListNow(t)'
    PROVE  ThreadsInv'
BY DEF ThreadsInv, ListShape, NoFetch, Asked

\* A list that is left alone while its thread and the pane stay.
LEMMA ThreadAlone ==
    ASSUME NEW t \in Threads, ListNow(t), list'[t] = list[t], t \in behind => t \in behind',
           ListThread(t)' = ListThread(t), ShownList' = ShownList \/ t # ShownList'
    PROVE  ListNow(t)'
BY DEF ListNow, NoFetch, Asked

\* A step that changes neither the lists nor what they are asked about.
LEMMA ThreadsAlone ==
    ASSUME ThreadsInv, UNCHANGED <<stored, list, behind, root>>, content' \in [Msgs -> States],
           root # Undefined => (content'[root] = "ready" <=> content[root] = "ready")
    PROVE  ThreadsInv'
<1>1. ShownList' = ShownList
    BY DEF ShownList
<1>2. ASSUME NEW t \in Threads PROVE ListShape(t, list'[t]) /\ ListNow(t)'
    <2>1. ListShape(t, list[t]) /\ ListNow(t) /\ ListThread(t)' = ListThread(t)
        BY SameThreadList DEF ThreadsInv
    <2> QED
        BY <1>1, <2>1, ThreadAlone
<1> QED
    BY <1>2, AllThreads DEF ThreadsInv

\* Another thread is looked at.
LEMMA LookKeepsThreads ==
    ASSUME ThreadsInv, NEW o, LookAt(o), UNCHANGED stored,
           root' \in Msgs \union {Undefined}, content' \in [Msgs -> States]
    PROVE  ThreadsInv'
<1>0. list' = [t \in Threads |->
         IF /\ t = ShownList' /\ t # ShownList /\ list[t].fetch = NoFetch
            /\ list[t].data = Undefined \/ ~list[t].fresh \/ o
         THEN [list[t] EXCEPT !.fetch = Asked] ELSE list[t]]
    BY DEF LookAt
<1>1. ASSUME NEW t \in Threads PROVE ListShape(t, list'[t]) /\ ListNow(t)'
    <2> PICK q : q = list[t]
        OBVIOUS
    <2> PICK p : p = [q EXCEPT !.fetch = Asked]
        OBVIOUS
    <2>1. ListShape(t, q) /\ ListNow(t) /\ ListThread(t)' = ListThread(t)
        BY SameThreadList DEF ThreadsInv
    <2>2. ListShape(t, p) /\ p.fetch = Asked
        BY <2>1 DEF ListShape
    <2>3. list'[t] = p \/ list'[t] = q
        BY <1>0
    <2>4. CASE list'[t].fetch = Asked
        BY <2>1, <2>2, <2>3, <2>4 DEF ListNow, Asked
    <2>5. CASE list'[t].fetch # Asked
        <3>1. list'[t] = q /\ (t \in behind => t \in behind')
            BY <2>2, <2>3, <2>5 DEF LookAt
        <3>2. \/ t # ShownList' \/ t = ShownList
              \/ q.fetch # NoFetch \/ (q.data # Undefined /\ q.fresh)
            BY <1>0, <2>2, <2>5
        <3>3. CASE t # ShownList'
            BY <2>1, <3>1, <3>3, ThreadAlone
        <3>4. CASE t = ShownList' /\ t = ShownList
            BY <2>1, <3>1, <3>4, ThreadAlone
        <3>5. CASE t # ShownList /\ (q.fetch # NoFetch \/ (q.data # Undefined /\ q.fresh))
            <4>1. \/ t \in behind
                  \/ q.fetch.state = "answered" /\ q.fetch.data = ListThread(t)
                  \/ q.fetch = NoFetch /\ q.data = ListThread(t)
                BY <2>1, <2>5, <3>1, <3>5 DEF ListNow
            <4> QED
                BY <2>1, <3>1, <4>1 DEF ListNow, NoFetch
        <3> QED
            BY <2>1, <3>1, <3>2, <3>3, <3>4, <3>5
    <2> QED
        BY <2>4, <2>5
<1> QED
    BY <1>0, <1>1, AllThreads

\* The lists are invalidated, with a new message or without.
LEMMA InvalidationKeepsThreads ==
    ASSUME ThreadsInv, InvalidateLists, UNCHANGED <<root, content>>
    PROVE  ThreadsInv'
<1>0. /\ list' = [t \in Threads |-> [IF t = ShownList THEN Restart(list[t]) ELSE list[t]
                                       EXCEPT !.fresh = FALSE]]
      /\ ShownList' = ShownList
    BY DEF InvalidateLists, ShownList
<1>1. ASSUME NEW t \in Threads PROVE ListShape(t, list'[t]) /\ ListNow(t)'
    <2> PICK q : q = list[t]
        OBVIOUS
    <2> PICK p : p = IF t = ShownList THEN Restart(q) ELSE q
        OBVIOUS
    <2> PICK n : n = [p EXCEPT !.fresh = FALSE]
        OBVIOUS
    <2>1. ListShape(t, q)
        BY DEF ThreadsInv
    <2>2. ListShape(t, p) /\ (t = ShownList => p.fetch # NoFetch)
        BY <2>1, ListFetches DEF ListShape, Restart
    <2>3. ListShape(t, n) /\ n.fetch = p.fetch /\ ~n.fresh
        BY <2>2 DEF ListShape
    <2>4. list'[t] = n
        BY <1>0
    <2>5. CASE n.fetch = Asked
        BY <2>3, <2>4, <2>5 DEF ListNow, Asked
    <2>6. CASE n.fetch = NoFetch
        BY <1>0, <2>2, <2>3, <2>4, <2>6 DEF ListNow, NoFetch
    <2>7. CASE n.fetch.state = "answered"
        <3>1. t \in behind' \/ n.fetch.data = ListThread(t)'
            BY <2>4, <2>7 DEF InvalidateLists
        <3> QED
            BY <2>3, <2>4, <2>7, <3>1 DEF ListNow
    <2>8. n.fetch = Asked \/ n.fetch = NoFetch \/ n.fetch.state = "answered"
        BY <2>3 DEF ListShape
    <2> QED
        BY <2>5, <2>6, <2>7, <2>8
<1> QED
    BY <1>0, <1>1, AllThreads DEF ThreadsInv

\* One list changes.
LEMMA OneThread ==
    ASSUME ThreadsInv, NEW t \in Threads, NEW p, list' = [list EXCEPT ![t] = p],
           UNCHANGED <<stored, root, content>>, behind \subseteq behind', ListShape(t, p), ListNow(t)'
    PROVE  ThreadsInv'
<1>1. list' = [u \in Threads |-> list'[u]] /\ list'[t] = p /\ ShownList' = ShownList
    BY DEF ThreadsInv, ShownList
<1>2. ASSUME NEW u \in Threads PROVE ListShape(u, list'[u]) /\ ListNow(u)'
    <2>1. ListShape(u, list[u]) /\ ListNow(u) /\ ListThread(u)' = ListThread(u)
        BY SameThreadList DEF ThreadsInv
    <2>2. CASE u = t
        BY <1>1, <2>2
    <2>3. CASE u # t
        <3>1. list'[u] = list[u]
            BY <2>3 DEF ThreadsInv
        <3> QED
            BY <1>1, <2>1, <3>1, ThreadAlone
    <2> QED
        BY <2>2, <2>3
<1> QED
    BY <1>1, <1>2, AllThreads DEF ThreadsInv

\* A list request is answered, its answer lands, or it fails.
LEMMA AnswersKeepThreads ==
    ASSUME ThreadsInv, NEW t \in Threads, ListServed(t) \/ ListArrives(t) \/ ListFails(t)
    PROVE  ThreadsInv'
<1> PICK q : q = list[t]
    OBVIOUS
<1>0. ListShape(t, q) /\ ListNow(t) /\ list = [u \in Threads |-> list[u]]
    BY DEF ThreadsInv
<1>1. CASE ListServed(t)
    <2> PICK d : d = ListThread(t)
        OBVIOUS
    <2> PICK p : p = [q EXCEPT !.fetch = [state |-> "answered", data |-> d]]
        OBVIOUS
    <2>1. ListShape(t, p) /\ p.fetch.state = "answered" /\ p.fetch.data = d
        BY <1>0, ListFetches DEF ListShape
    <2>2. list' = [list EXCEPT ![t] = p] /\ UNCHANGED <<stored, root, content, behind>>
        BY <1>1 DEF ListServed
    <2>3. list'[t] = p /\ ListThread(t)' = d
        BY <1>0, <2>2, SameThreadList
    <2>4. ListNow(t)'
        BY <2>1, <2>3 DEF ListNow
    <2> QED
        BY <2>1, <2>2, <2>4, OneThread
<1>2. CASE ListArrives(t)
    <2> PICK p : p = [data |-> q.fetch.data, fresh |-> TRUE, fetch |-> NoFetch]
        OBVIOUS
    <2>1. list' = [list EXCEPT ![t] = p] /\ UNCHANGED <<stored, root, content, behind>>
        BY <1>2 DEF ListArrives
    <2>2. /\ q.fetch.state = "answered" /\ q.fetch # Asked /\ q.fetch # NoFetch
          /\ \A m \in q.fetch.data : Thread[m] = t
        BY <1>0, <1>2, ListFetches DEF ListArrives, ListShape
    <2>3. ListShape(t, p) /\ p.fetch = NoFetch /\ p.data = q.fetch.data
        BY <2>2 DEF ListShape
    <2>4. list'[t] = p /\ ListThread(t)' = ListThread(t)
        BY <1>0, <2>1, SameThreadList
    <2>5. t \in behind \/ q.fetch.data = ListThread(t)
        BY <1>0, <2>2 DEF ListNow
    <2>6. ListNow(t)'
        BY <2>1, <2>3, <2>4, <2>5 DEF ListNow, NoFetch
    <2> QED
        BY <2>1, <2>3, <2>6, OneThread
<1>3. CASE ListFails(t)
    <2> PICK p : p = [[q EXCEPT !.fetch = NoFetch] EXCEPT !.fresh = FALSE]
        OBVIOUS
    <2>1. list' = [list EXCEPT ![t] = p]
        BY <1>0, <1>3 DEF ListFails, ListShape
    <2>2. UNCHANGED <<stored, root, content>> /\ behind \subseteq behind' /\ t \in behind'
        BY <1>3 DEF ListFails
    <2>3. ListShape(t, p)
        BY <1>0 DEF ListShape
    <2>4. ListNow(t)'
        BY <2>2 DEF ListNow
    <2> QED
        BY <2>1, <2>2, <2>3, <2>4, OneThread
<1> QED
    BY <1>1, <1>2, <1>3

\* A message comes, with a push or without.
LEMMA MailKeepsThreads ==
    ASSUME ThreadsInv, NEW m \in Msgs, NEW told, Arrive(m, told)
    PROVE  ThreadsInv'
<1>0. UNCHANGED <<root, content>> /\ stored' = stored \union {m}
    BY DEF Arrive
<1>1. CASE told
    BY <1>0, <1>1, InvalidationKeepsThreads DEF Arrive
<1>2. CASE ~told
    <2>1. /\ behind' = behind \union {t \in Threads : t = Thread[m] /\ list[t].fetch # Asked}
          /\ list' = list /\ ShownList' = ShownList
        BY <1>0, <1>2 DEF Arrive, ShownList
    <2>2. ASSUME NEW t \in Threads PROVE ListShape(t, list'[t]) /\ ListNow(t)'
        <3>1. ListShape(t, list[t]) /\ ListNow(t)
            BY DEF ThreadsInv
        <3>2. CASE t = Thread[m]
            <4>1. list'[t].fetch = Asked \/ t \in behind'
                BY <2>1, <3>2
            <4> QED
                BY <2>1, <3>1, <4>1 DEF ListNow, Asked
        <3>3. CASE t # Thread[m]
            <4>1. ListThread(t)' = ListThread(t)
                BY <1>0, <3>3, SameThreadList
            <4> QED
                BY <2>1, <3>1, <4>1, ThreadAlone
        <3> QED
            BY <3>2, <3>3
    <2> QED
        BY <1>0, <2>1, <2>2, AllThreads DEF ThreadsInv
<1> QED
    BY <1>1, <1>2

-----------------------------------------------------------------------------
(* The screen. *)

\* What is drawn is what there is to draw.
Drawn == root # Undefined /\ content[root] = "ready" => DOMAIN rendered = Drawable

\* The inductive invariant of the screen: the decrypt pass that is under way
\* draws what the thread has now, and without one it is drawn.
ScreenInv == ThreadsInv /\ (decrypting = Pass(Drawable) \/ (decrypting = NoPass /\ Drawn))

\* The queries of other messages and threads do not change what is drawn.
LEMMA DrawableSame ==
    ASSUME UNCHANGED <<root, contents>>,
           root # Undefined => (content'[root] = "ready" <=> content[root] = "ready"),
           ShownList # Undefined => list'[ShownList].data = list[ShownList].data
    PROVE  Drawable' = Drawable
<1>1. ShownList' = ShownList
    BY DEF ShownList
<1>2. Members' = Members
    BY <1>1 DEF Members
<1> QED
    BY <1>2 DEF Drawable

\* A step that is none of the effects' business.
LEMMA ScreenSame ==
    ASSUME ScreenInv, ThreadsInv', UNCHANGED <<root, contents, decrypting, rendered>>,
           root # Undefined => (content'[root] = "ready" <=> content[root] = "ready"),
           ShownList # Undefined => list'[ShownList].data = list[ShownList].data
    PROVE  ScreenInv'
<1>1. Drawable' = Drawable
    BY DrawableSame
<1>2. Drawn => Drawn'
    BY <1>1 DEF Drawn
<1> QED
    BY <1>1, <1>2 DEF ScreenInv, Pass, NoPass

\* A step that runs the effects.
LEMMA ScreenRestarts == ASSUME ThreadsInv', Effects PROVE ScreenInv'
BY DEF ScreenInv, Effects, Pass

\* Opening a row, and the answers of the content queries.
LEMMA ContentKeepsScreen ==
    ASSUME ScreenInv,
           \/ \E m \in Msgs, o \in BOOLEAN : Open(m, o) \/ ContentArrives(m, o)
           \/ \E m \in Msgs : ContentFails(m) \/ PreviewAsks(m)
           \/ \E lost : ContentsArrive(lost)
    PROVE  ScreenInv'
<1>0. /\ ThreadsInv /\ root \in Msgs \union {Undefined} /\ content \in [Msgs -> States]
      /\ {"none", "loading", "ready", "failed"} = States
    BY DEF ScreenInv, ThreadsInv, States
<1>2. ASSUME NEW m \in Msgs, NEW o \in BOOLEAN, Open(m, o) PROVE ScreenInv'
    <2>1. content' \in [Msgs -> States] /\ root' = m
        BY <1>0, <1>2 DEF Open
    <2>2. ThreadsInv'
        BY <1>0, <1>2, <2>1, LookKeepsThreads DEF Open
    <2> QED
        BY <1>2, <2>2, ScreenRestarts DEF Open
<1>3. ASSUME NEW m \in Msgs, NEW o \in BOOLEAN, ContentArrives(m, o) PROVE ScreenInv'
    <2>1. /\ content' \in [Msgs -> States] /\ LookAt(o)
          /\ UNCHANGED <<root, stored, contents, rendered>>
          /\ m # root => UNCHANGED decrypting
        BY <1>0, <1>3 DEF ContentArrives
    <2>2. ThreadsInv'
        BY <1>0, <2>1, LookKeepsThreads
    <2>3. CASE m = root
        BY <1>3, <2>2, <2>3, ScreenRestarts DEF ContentArrives
    <2>4. CASE m # root
        <3>1. root # Undefined => content'[root] = content[root]
            BY <1>0, <1>3, <2>4 DEF ContentArrives
        <3>2. ASSUME ShownList # Undefined PROVE list'[ShownList].data = list[ShownList].data
            <4>1. ShownList \in Threads
                BY <1>0, <3>2, ShownIsThread
            <4>2. ShownList' = ShownList
                BY <2>1, <3>1 DEF ShownList
            <4> QED
                BY <2>1, <4>1, <4>2 DEF LookAt
        <3> QED
            BY <2>1, <2>2, <2>4, <3>1, <3>2, ScreenSame
    <2> QED
        BY <2>3, <2>4
<1>4. ASSUME NEW m \in Msgs, ContentFails(m) \/ PreviewAsks(m) PROVE ScreenInv'
    <2>1. /\ content' \in [Msgs -> States]
          /\ UNCHANGED <<root, stored, list, behind, contents, decrypting, rendered>>
          /\ root # Undefined => (content'[root] = "ready" <=> content[root] = "ready")
        BY <1>0, <1>4 DEF ContentFails, PreviewAsks
    <2>2. ThreadsInv'
        BY <1>0, <2>1, ThreadsAlone
    <2> QED
        BY <2>1, <2>2, ScreenSame
<1>7. ASSUME NEW lost, ContentsArrive(lost) PROVE ScreenInv'
    <2>1. ThreadsInv'
        BY <1>0, <1>7, ThreadsAlone DEF ContentsArrive
    <2> QED
        BY <1>7, <2>1, ScreenRestarts DEF ContentsArrive
<1> QED
    BY <1>2, <1>3, <1>4, <1>7

\* An invalidation changes no data.
LEMMA InvalidationKeepsData ==
    ASSUME ThreadsInv, InvalidateLists, NEW u \in Threads
    PROVE  list'[u].data = list[u].data
<1> PICK q : q = list[u]
    OBVIOUS
<1> PICK p : p = IF u = ShownList THEN Restart(q) ELSE q
    OBVIOUS
<1>1. list'[u] = [p EXCEPT !.fresh = FALSE]
    BY DEF InvalidateLists
<1>2. q = [data |-> q.data, fresh |-> q.fresh, fetch |-> q.fetch]
    BY DEF ThreadsInv, ListShape
<1>3. p.data = q.data /\ p = [data |-> p.data, fresh |-> p.fresh, fetch |-> p.fetch]
    BY <1>2 DEF Restart
<1> QED
    BY <1>1, <1>3

\* New messages, invalidations and the answers of the list queries.
LEMMA ListsKeepScreen ==
    ASSUME ScreenInv,
           \/ \E t \in Threads : ListServed(t) \/ ListArrives(t) \/ ListFails(t)
           \/ \E m \in Msgs, told \in BOOLEAN : Arrive(m, told)
           \/ RefreshLists \/ \E s : ReplySent(s)
    PROVE  ScreenInv'
<1>0. ThreadsInv /\ (ShownList # Undefined => ShownList \in Threads)
    BY ShownIsThread DEF ScreenInv
<1>1. ASSUME NEW t \in Threads, ListServed(t) \/ ListFails(t) PROVE ScreenInv'
    <2>1. ThreadsInv'
        BY <1>0, <1>1, AnswersKeepThreads
    <2>2. UNCHANGED <<root, content, contents, decrypting, rendered>>
        BY <1>1 DEF ListServed, ListFails
    <2>3. ASSUME NEW u \in Threads PROVE list'[u].data = list[u].data
        <3> PICK q : q = list[u]
            OBVIOUS
        <3>1. q = [data |-> q.data, fresh |-> q.fresh, fetch |-> q.fetch]
            BY <1>0 DEF ThreadsInv, ListShape
        <3>2. list = [v \in Threads |-> list[v]]
            BY <1>0 DEF ThreadsInv
        <3>3. CASE ListServed(t)
            BY <3>1, <3>2, <3>3 DEF ListServed
        <3>4. CASE ListFails(t)
            <4> PICK w : w = list[t]
                OBVIOUS
            <4> PICK p : p = [[w EXCEPT !.fetch = NoFetch] EXCEPT !.fresh = FALSE]
                OBVIOUS
            <4>1. w = [data |-> w.data, fresh |-> w.fresh, fetch |-> w.fetch]
                BY <1>0 DEF ThreadsInv, ListShape
            <4>2. list' = [list EXCEPT ![t] = p]
                BY <3>2, <3>4, <4>1 DEF ListFails
            <4>3. p.data = w.data
                BY <4>1
            <4> QED
                BY <3>2, <4>2, <4>3
        <3> QED
            BY <1>1, <3>3, <3>4
    <2> QED
        BY <1>0, <2>1, <2>2, <2>3, ScreenSame
<1>2. ASSUME NEW t \in Threads, ListArrives(t) PROVE ScreenInv'
    <2>1. ThreadsInv'
        BY <1>0, <1>2, AnswersKeepThreads
    <2>2. CASE Effects
        BY <2>1, <2>2, ScreenRestarts
    <2>3. CASE ~Effects
        <3>1. /\ UNCHANGED <<root, content, contents, decrypting, rendered>>
              /\ t = ShownList => list'[t].data = list[t].data
              /\ \A u \in Threads : u # t => list'[u] = list[u]
            BY <1>0, <1>2, <2>3 DEF ListArrives, ThreadsInv
        <3> QED
            BY <1>0, <2>1, <3>1, ScreenSame
    <2> QED
        BY <2>2, <2>3
<1>3. ASSUME NEW m \in Msgs, NEW told \in BOOLEAN, Arrive(m, told)
      PROVE  ScreenInv'
    <2>1. UNCHANGED <<root, content, contents, decrypting, rendered>>
        BY <1>3 DEF Arrive
    <2>2. ThreadsInv'
        BY <1>0, <1>3, MailKeepsThreads
    <2>3. CASE list' = list
        BY <2>1, <2>2, <2>3, ScreenSame
    <2>4. CASE InvalidateLists
        <3>1. \A u \in Threads : list'[u].data = list[u].data
            BY <1>0, <2>4, InvalidationKeepsData
        <3> QED
            BY <1>0, <2>1, <2>2, <3>1, ScreenSame
    <2> QED
        BY <1>3, <2>3, <2>4 DEF Arrive
<1>4. ASSUME RefreshLists \/ \E s : ReplySent(s) PROVE ScreenInv'
    <2>1. UNCHANGED <<root, content, contents, decrypting, rendered>> /\ InvalidateLists
        BY <1>4 DEF RefreshLists, ReplySent
    <2>2. ThreadsInv'
        BY <1>0, <2>1, InvalidationKeepsThreads
    <2>3. \A u \in Threads : list'[u].data = list[u].data
        BY <1>0, <2>1, InvalidationKeepsData
    <2> QED
        BY <1>0, <2>1, <2>2, <2>3, ScreenSame
<1> QED
    BY <1>1, <1>2, <1>3, <1>4

\* The decrypt pass ends: it has drawn the thread.
LEMMA DrawingKeepsScreen == ASSUME ScreenInv, DecryptDone PROVE ScreenInv'
<1>1. decrypting.set = Drawable
    BY DEF ScreenInv, DecryptDone, Pass, NoPass
<1>2. /\ UNCHANGED <<root, stored, content, list, behind, contents>> /\ decrypting' = NoPass
      /\ DOMAIN rendered' = Drawable
    BY <1>1 DEF DecryptDone
<1>3. Drawable' = Drawable
    BY <1>2, DrawableSame
<1>4. ThreadsInv'
    BY <1>2, ThreadsAlone DEF ScreenInv, ThreadsInv
<1> QED
    BY <1>2, <1>3, <1>4 DEF ScreenInv, Drawn

\* Every other step leaves the thread and the screen alone.
LEMMA RestKeepsScreen == ASSUME ScreenInv, UNCHANGED <<root, thread, rendered>> PROVE ScreenInv'
<1>1. ThreadsInv'
    BY ThreadsAlone DEF ScreenInv, ThreadsInv, thread
<1> QED
    BY <1>1, ScreenSame DEF thread

\* Every step.
LEMMA ScreenStep == ASSUME ScreenInv, [ReaderNext]_readerVars PROVE ScreenInv'
<1>1. CASE UNCHANGED readerVars
    BY <1>1, RestKeepsScreen DEF readerVars
<1>2. CASE User
    <2>1. \/ \E m \in Msgs, o \in BOOLEAN : Open(m, o)
          \/ RefreshLists
          \/ UNCHANGED <<root, thread, rendered>>
        BY <1>2 DEF User, Restore, ToggleBlockPanel, Respond, ConfirmAndBlock, Visibility, thread
    <2> QED
        BY <2>1, ContentKeepsScreen, ListsKeepScreen, RestKeepsScreen
<1>3. CASE Machine
    <2>1. \/ \E m \in Msgs, o \in BOOLEAN : ContentArrives(m, o)
          \/ \E m \in Msgs : PreviewAsks(m)
          \/ \E t \in Threads : ListServed(t) \/ ListArrives(t)
          \/ \E m \in Msgs, told \in BOOLEAN : Arrive(m, told)
          \/ ContentsArrive({}) \/ DecryptDone \/ \E s : ReplySent(s)
          \/ UNCHANGED <<root, thread, rendered>>
        BY <1>3 DEF Machine, PreviewDone, RestoreDone, PlaintextExpires, BlockEnds, Tick,
           thread
    <2> QED
        BY <2>1, ContentKeepsScreen, ListsKeepScreen, DrawingKeepsScreen, RestKeepsScreen
<1>4. CASE Failures
    <2>1. \/ \E m \in Msgs : ContentFails(m)
          \/ \E t \in Threads : ListFails(t)
          \/ \E lost : ContentsArrive(lost)
          \/ UNCHANGED <<root, thread, rendered>>
        BY <1>4 DEF Failures, RestoreFails, ReplyFails, ReplyAnswerLost, thread
    <2> QED
        BY <2>1, ContentKeepsScreen, ListsKeepScreen, RestKeepsScreen
<1> QED
    BY <1>1, <1>2, <1>3, <1>4 DEF ReaderNext

\* The first states.
LEMMA ScreenInit == ASSUME ReaderInit PROVE ScreenInv
<1>1. /\ root = Undefined /\ content = [m \in Msgs |-> "none"] /\ decrypting = NoPass
      /\ list = [t \in Threads |-> NoList] /\ ShownList = Undefined
    BY DEF ReaderInit, ShownList
<1>2. ASSUME NEW t \in Threads PROVE ListShape(t, list[t]) /\ ListNow(t)
    <2>1. list[t] = NoList /\ t # Undefined
        BY <1>1 DEF Threads
    <2> QED
        BY <1>1, <2>1 DEF ListShape, ListNow, NoList
<1> QED
    BY <1>1, <1>2 DEF ScreenInv, ThreadsInv, Drawn, States

\* In whatever order rows are opened, messages and answers come and passes are
\* cancelled, the pane that is done shows its own thread and never another one,
\* and with it the opened message, unless the thread's list is under way, missed
\* a change or is full.
THEOREM ReaderShowsRoot == ReaderSpec => []SettledShowsRoot
<1>1. ScreenInv => SettledShowsRoot
    <2> SUFFICES ASSUME ScreenInv, root # Undefined, content[root] = "ready", ~decrypting.on
                 PROVE  /\ \A m \in DOMAIN rendered : SameThread(m, root)
                        /\ \/ root \in DOMAIN rendered
                           \/ /\ ShownList # Undefined
                              /\ \/ list[ShownList].fetch # NoFetch \/ ShownList \in behind
                                 \/ root \notin ListThread(ShownList)
        BY DEF SettledShowsRoot
    <2>1. DOMAIN rendered = Drawable /\ ShownList = Thread[root] /\ root \in Msgs
        BY DEF ScreenInv, Drawn, Pass, ShownList, ThreadsInv
    <2>2. CASE Members = {}
        BY <2>1, <2>2 DEF Drawable, SameThread
    <2>3. CASE Members # {}
        <3>1. ShownList # Undefined /\ Members = list[ShownList].data /\ ShownList \in Threads
            BY <2>3, ShownIsThread DEF Members, ScreenInv
        <3>2. ListShape(ShownList, list[ShownList]) /\ ListNow(ShownList)
            BY <3>1 DEF ScreenInv, ThreadsInv
        <3>3. Drawable = Members \cap (contents \union {root})
            BY <2>3 DEF Drawable
        <3>4. \A m \in Drawable : SameThread(m, root)
            BY <2>1, <2>3, <3>1, <3>2, <3>3 DEF ListShape, SameThread, Members
        <3>5. \/ list[ShownList].fetch # NoFetch \/ ShownList \in behind
              \/ list[ShownList].data = ListThread(ShownList)
            BY <3>2, ListFetches DEF ListNow
        <3> QED
            BY <2>1, <3>1, <3>3, <3>4, <3>5
    <2> QED
        BY <2>2, <2>3
<1>2. ReaderInit => ScreenInv
    BY ScreenInit
<1>3. ScreenInv /\ [ReaderNext]_readerVars => ScreenInv'
    BY ScreenStep
<1> QED
    BY <1>1, <1>2, <1>3, PTL DEF ReaderSpec

-----------------------------------------------------------------------------
(* The replies. *)

\* A reply, whatever it says.
ReplyShape(s) ==
    /\ s = [to |-> s.to, thread |-> s.thread, block |-> s.block, mount |-> s.mount,
            id |-> s.id, lost |-> s.lost]
    /\ s.to \in Msgs /\ s.mount \in Nat /\ s.lost \in BOOLEAN

\* Replies the page has not lost track of.
Counted == sends \union {s \in replies : ~s.lost}

\* The card a reply was sent from is still on screen.
Shown(s) == s.mount = showing[s.to] /\ s.to \in OnScreen

\* The screen depends on what is open, loaded and drawn.
LEMMA ScreenStays == ASSUME UNCHANGED <<root, content, rendered>> PROVE OnScreen' = OnScreen
BY DEF OnScreen

\* The inductive invariant of the cards: a reply counts for the showing it was
\* sent from, which is not a later one than now; as long as that showing lasts
\* its card is not idle.
CardInv ==
    /\ card \in [Msgs -> {"idle", "sending", "done"}] /\ showing \in [Msgs -> Nat]
    /\ \A s \in sends \union replies : ReplyShape(s) /\ s.mount <= showing[s.to]
    /\ \A s \in sends : ~s.lost /\ s \notin replies
    /\ \A s \in Counted : Shown(s) => card[s.to] # "idle"
    /\ \A r, s \in Counted : r.to = s.to /\ r.mount = s.mount => r = s

\* What is on screen changes: a card that appears is a new showing, one that
\* stays keeps its state.
LEMMA RemountKeepsCards ==
    ASSUME CardInv, Remount, UNCHANGED <<sends, replies>> PROVE CardInv'
<1> PICK S : S = OnScreen'
    OBVIOUS
<1> PICK D : D = OnScreen
    OBVIOUS
<1>0. /\ card' = [m \in Msgs |-> IF m \in D \cap S THEN card[m] ELSE "idle"]
      /\ showing' = [m \in Msgs |-> IF m \in S \ D THEN showing[m] + 1 ELSE showing[m]]
    BY DEF Remount
<1>1. /\ card' \in [Msgs -> {"idle", "sending", "done"}] /\ showing' \in [Msgs -> Nat]
      /\ \A m \in Msgs : showing[m] <= showing'[m]
    BY <1>0 DEF CardInv
<1>2. Counted' = Counted /\ Counted \subseteq sends \union replies
    BY <1>0 DEF Counted
<1>3. ASSUME NEW s \in Counted, Shown(s)' PROVE card'[s.to] # "idle"
    <2>1. s.to \in Msgs /\ s.mount \in Nat /\ s.mount <= showing[s.to] /\ showing[s.to] \in Nat
        BY <1>2 DEF CardInv, ReplyShape
    <2>2. s.mount = showing'[s.to] /\ s.to \in S
        BY <1>0, <1>3 DEF Shown
    <2>3. s.to \in D
        BY <1>0, <2>1, <2>2
    <2>4. Shown(s)
        BY <1>0, <2>1, <2>2, <2>3 DEF Shown
    <2>5. card[s.to] # "idle"
        BY <2>4 DEF CardInv
    <2> QED
        BY <1>0, <2>1, <2>2, <2>3, <2>5
<1>4. \A s \in sends' \union replies' : ReplyShape(s)' /\ s.mount <= showing'[s.to]
    <2>1. ASSUME NEW s \in sends \union replies
          PROVE  ReplyShape(s) /\ s.mount <= showing'[s.to]
        <3>1. ReplyShape(s) /\ s.mount <= showing[s.to] /\ showing[s.to] \in Nat /\ s.to \in Msgs
            BY DEF CardInv, ReplyShape
        <3> QED
            BY <1>1, <3>1 DEF ReplyShape
    <2> QED
        BY <1>0, <2>1 DEF ReplyShape
<1> QED
    BY <1>0, <1>1, <1>2, <1>3, <1>4 DEF CardInv

\* A reply is sent from a card that is idle: none of this showing is counted yet.
LEMMA NewReply ==
    ASSUME CardInv, NEW s, ReplyShape(s), s.mount = showing[s.to], ~s.lost,
           UNCHANGED <<OnScreen, showing, replies>>, sends' = sends \union {s},
           card' = [card EXCEPT ![s.to] = "sending"], card[s.to] = "idle",
           s.to \in OnScreen
    PROVE  CardInv'
<1>0. /\ s.to \in Msgs /\ s.mount \in Nat /\ card \in [Msgs -> {"idle", "sending", "done"}]
      /\ showing \in [Msgs -> Nat]
    BY DEF CardInv, ReplyShape
<1>1. ASSUME NEW r \in Counted, r.to = s.to, r.mount = s.mount PROVE FALSE
    BY <1>1 DEF CardInv, Shown
<1>2. Counted' = Counted \union {s} /\ s \notin replies
    BY <1>1 DEF Counted
<1>3. ASSUME NEW r \in Counted', NEW t \in Counted', r.to = t.to, r.mount = t.mount
      PROVE  r = t
    <2>1. CASE r \in Counted /\ t \in Counted
        BY <1>3, <2>1 DEF CardInv
    <2>2. CASE r = s /\ t = s
        BY <2>2
    <2>3. CASE (r = s /\ t \in Counted) \/ (r \in Counted /\ t = s)
        BY <1>1, <1>3, <2>3
    <2> QED
        BY <1>2, <2>1, <2>2, <2>3
<1>4. ASSUME NEW r \in Counted', Shown(r)' PROVE card'[r.to] # "idle"
    <2>1. CASE r = s
        BY <1>0, <2>1
    <2>2. CASE r \in Counted
        <3>1. r.to \in Msgs
            BY <2>2 DEF CardInv, ReplyShape, Counted
        <3>2. Shown(r)
            BY <1>4 DEF Shown
        <3>3. card[r.to] # "idle"
            BY <2>2, <3>2 DEF CardInv
        <3> QED
            BY <1>0, <3>1, <3>3
    <2> QED
        BY <1>2, <2>1, <2>2
<1>5. card' \in [Msgs -> {"idle", "sending", "done"}]
    BY <1>0
<1>6. ASSUME NEW r \in sends' \union replies' PROVE ReplyShape(r) /\ r.mount <= showing[r.to]
    BY <1>0 DEF CardInv
<1>7. \A r \in sends' : ~r.lost /\ r \notin replies'
    BY <1>2 DEF CardInv
<1>8. \A r \in sends' \union replies' : ReplyShape(r)' /\ r.mount <= showing'[r.to]
    BY <1>6 DEF ReplyShape
<1> QED
    BY <1>0, <1>3, <1>4, <1>5, <1>7, <1>8 DEF CardInv

\* A click on an enabled card.
LEMMA RespondKeepsCards ==
    ASSUME CardInv, NEW m \in Msgs, NEW a, Respond(m, a)
    PROVE  CardInv'
<1> PICK th, b, n, id : /\ th = IF Thread[m] # Undefined THEN Thread[m] ELSE root
                        /\ b = BuildReplyPayload(Content[m].block.type, a)
                        /\ n = showing[m] /\ id = ops
    OBVIOUS
<1> PICK s : s = [to |-> m, thread |-> th, block |-> b, mount |-> n, id |-> id, lost |-> FALSE]
    OBVIOUS
<1>0. /\ UNCHANGED <<OnScreen, showing, replies>> /\ sends' = sends \union {s}
      /\ card' = [card EXCEPT ![m] = "sending"] /\ card[m] = "idle" /\ m \in OnScreen
    BY ScreenStays DEF Respond, CardEnabled, thread
<1>1. n \in Nat
    BY DEF CardInv
<1>2. ReplyShape(s) /\ s.to = m /\ s.mount = showing[m] /\ ~s.lost
    BY <1>1 DEF ReplyShape
<1> QED
    BY <1>0, <1>2, NewReply

\* The sent reply s is over: its card, if it is still shown, takes this state.
LEMMA EndedCard ==
    ASSUME CardInv, NEW s \in sends, NEW v \in {"idle", "sending", "done"}, Ended(s, v)
    PROVE  /\ card' \in [Msgs -> {"idle", "sending", "done"}] /\ sends' = sends \ {s}
           /\ ReplyShape(s) /\ ~s.lost /\ s \in Counted /\ s \notin replies
           /\ \A m \in Msgs : m # s.to => card'[m] = card[m]
           /\ Shown(s) => card'[s.to] = v
           /\ ~Shown(s) => card' = card
<1>1. /\ ReplyShape(s) /\ ~s.lost /\ s \in Counted /\ s \notin replies /\ s.to \in Msgs
      /\ card \in [Msgs -> {"idle", "sending", "done"}]
    BY DEF CardInv, Counted, ReplyShape
<1> QED
    BY <1>1 DEF Ended, Shown

\* The reply ends and is not counted any more, or it is stored and its card is done.
LEMMA EndingKeepsCards ==
    ASSUME CardInv, NEW s \in sends, NEW v \in {"idle", "done"}, Ended(s, v),
           UNCHANGED <<OnScreen, showing>>,
           \A r \in replies' : r \in replies \/ (ReplyShape(r) /\ r.to = s.to /\ r.mount = s.mount
                                                 /\ (r = s \/ r.lost)),
           s \in replies' => v = "done"
    PROVE  CardInv'
<1>0. /\ card' \in [Msgs -> {"idle", "sending", "done"}] /\ sends' = sends \ {s}
      /\ ReplyShape(s) /\ ~s.lost /\ s \in Counted /\ s \notin replies
      /\ \A m \in Msgs : m # s.to => card'[m] = card[m]
      /\ Shown(s) => card'[s.to] = v
      /\ ~Shown(s) => card' = card
    BY EndedCard
<1>1. Counted' \subseteq Counted /\ (s \in Counted' => v = "done")
    BY <1>0 DEF Counted
<1>2. ASSUME NEW r \in Counted', Shown(r)' PROVE card'[r.to] # "idle"
    <2>0. r \in Counted /\ Shown(r) /\ r.to \in Msgs /\ card[r.to] # "idle"
        BY <1>1, <1>2 DEF Shown, CardInv, Counted, ReplyShape
    <2>1. CASE r = s
        BY <1>0, <1>1, <1>2, <2>0, <2>1
    <2>2. CASE r # s /\ r.to = s.to
        <3>1. r.mount # s.mount
            BY <1>0, <2>0, <2>2 DEF CardInv
        <3>2. ~Shown(s)
            BY <2>0, <2>2, <3>1 DEF Shown
        <3> QED
            BY <1>0, <2>0, <3>2
    <2>3. CASE r.to # s.to
        BY <1>0, <2>0, <2>3
    <2> QED
        BY <2>1, <2>2, <2>3
<1>3. \A r \in sends' \union replies' : ReplyShape(r) /\ r.mount <= showing[r.to]
    BY <1>0 DEF CardInv
<1>4. \A r \in sends' \union replies' : ReplyShape(r)' /\ r.mount <= showing'[r.to]
    BY <1>3 DEF ReplyShape
<1>5. \A r \in sends' : ~r.lost /\ r \notin replies'
    BY <1>0 DEF CardInv
<1>6. \A r, t \in Counted' : r.to = t.to /\ r.mount = t.mount => r = t
    BY <1>1 DEF CardInv
<1>7. showing' \in [Msgs -> Nat]
    BY DEF CardInv
<1> QED
    BY <1>0, <1>2, <1>4, <1>5, <1>6, <1>7 DEF CardInv

\* The reply went through, failed, or went through with its answer lost.
LEMMA AnswersKeepCards ==
    ASSUME CardInv, NEW s \in sends, ReplySent(s) \/ ReplyFails(s) \/ ReplyAnswerLost(s)
    PROVE  CardInv'
<1>0. ReplyShape(s) /\ ~s.lost /\ s \notin replies
    BY DEF CardInv
<1>1. CASE ReplySent(s)
    BY <1>0, <1>1, ScreenStays, EndingKeepsCards DEF ReplySent, thread
<1>2. CASE ReplyFails(s)
    BY <1>0, <1>2, ScreenStays, EndingKeepsCards DEF ReplyFails, thread
<1>3. CASE ReplyAnswerLost(s)
    <2> PICK r : r = [s EXCEPT !.lost = TRUE]
        OBVIOUS
    <2>1. ReplyShape(r) /\ r.to = s.to /\ r.mount = s.mount /\ r.lost
        BY <1>0 DEF ReplyShape
    <2>2. Ended(s, "idle") /\ UNCHANGED <<OnScreen, showing>> /\ replies' = replies \union {r}
        BY <1>3, ScreenStays DEF ReplyAnswerLost, thread
    <2>3. s \notin replies'
        BY <1>0, <2>1, <2>2
    <2> QED
        BY <2>1, <2>2, <2>3, EndingKeepsCards
<1> QED
    BY <1>1, <1>2, <1>3

\* Every other step leaves the cards and the screen alone.
LEMMA RestKeepsCards == ASSUME CardInv, UNCHANGED <<root, content, rendered, cards>> PROVE CardInv'
BY ScreenStays DEF CardInv, cards, ReplyShape, Counted, Shown

\* Every step.
LEMMA CardStep == ASSUME CardInv, [ReaderNext]_readerVars PROVE CardInv'
<1>1. CASE UNCHANGED readerVars
    BY <1>1, RestKeepsCards DEF readerVars, thread
<1>2. CASE User
    <2>1. \/ \E m \in Msgs : \E a : Respond(m, a)
          \/ Remount /\ UNCHANGED <<sends, replies>>
          \/ UNCHANGED <<root, content, rendered, cards>>
        BY <1>2 DEF User, Open, RefreshLists, Restore, ToggleBlockPanel, ConfirmAndBlock, Visibility,
           thread
    <2> QED
        BY <2>1, RespondKeepsCards, RemountKeepsCards, RestKeepsCards
<1>3. CASE Machine
    <2>1. \/ \E s \in sends : ReplySent(s)
          \/ Remount /\ UNCHANGED <<sends, replies>>
          \/ UNCHANGED <<root, content, rendered, cards>>
        BY <1>3 DEF Machine, DecryptDone, ContentArrives, PreviewAsks, PreviewDone, ListServed,
           ListArrives, Arrive, ContentsArrive, RestoreDone, PlaintextExpires, BlockEnds, Tick, thread
    <2> QED
        BY <2>1, RemountKeepsCards, AnswersKeepCards, RestKeepsCards
<1>4. CASE Failures
    <2>1. \/ \E s \in sends : ReplyFails(s) \/ ReplyAnswerLost(s)
          \/ Remount /\ UNCHANGED <<sends, replies>>
          \/ UNCHANGED <<root, content, rendered, cards>>
        BY <1>4 DEF Failures, ContentFails, ListFails, RestoreFails, ContentsArrive, thread
    <2> QED
        BY <2>1, RemountKeepsCards, AnswersKeepCards, RestKeepsCards
<1> QED
    BY <1>1, <1>2, <1>3, <1>4 DEF ReaderNext

\* The first states.
LEMMA CardInit == ASSUME ReaderInit PROVE CardInv
BY DEF ReaderInit, CardInv, Counted

\* However often a card is drawn again while its reply is under way, one showing
\* of it sends one reply, unless the server's answer to it was lost.
THEOREM ShowingRepliesOnce == ReaderSpec => []OneReplyPerShowing
<1>1. CardInv => OneReplyPerShowing
    BY DEF CardInv, Counted, OneReplyPerShowing
<1>2. ReaderInit => CardInv
    BY CardInit
<1>3. CardInv /\ [ReaderNext]_readerVars => CardInv'
    BY CardStep
<1> QED
    BY <1>1, <1>2, <1>3, PTL DEF ReaderSpec
=============================================================================
