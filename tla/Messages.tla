-------------------------------- MODULE Messages --------------------------------
(***************************************************************************)
(* The life of a message: its encrypted payload in storage, the index row  *)
(* of each side, archiving and folders, deletion with garbage collection   *)
(* of the shared payload, and the auto-purge run                           *)
(* (services/api/src/lib.rs, docs/04 and docs/05).                         *)
(*                                                                         *)
(* The index is Postgres or, without a database, a map behind a mutex.     *)
(* Each storage call and each statement of a handler is a step; only the   *)
(* transaction of a send is atomic.  Whether the send was allowed (blocks, *)
(* trust, spam) is decided before the first step here.                     *)
(***************************************************************************)
EXTENDS Naturals, FiniteSets

CONSTANTS
  Sends,       \* accepted POST /messages requests, each with its own storage_ref
  Reqs,        \* in-flight handlers of the API server
  None         \* "no value"

ASSUME NoneAssumption == None \notin Sends

VARIABLES
  config,      \* the deployment
  row,         \* message_index: the row of a send on each side
  payload,     \* is the payload in storage
  old,         \* sends past the purge age of their (unprotected) sender
  req,         \* in-flight handlers
  faulty       \* history: sends one of whose steps failed, was cut short or timed out

vars == <<config, row, payload, old, req, faulty>>

-----------------------------------------------------------------------------
\* A send to oneself has a "sender" row only.
Sides == {"sender", "recipient"}

\* folder "other" stands for sent, spam, trash, drafts and pending_approval.  ref: is
\* storage_ref the send's reference (a tombstone's is '').
RowType == [status : {"none", "sent", "unread", "read", "archived", "auto_purged", "gone"},
            folder : {"inbox", "archive", "other"},
            ref    : BOOLEAN]

\* db: a database is configured.  local: payloads are files in a directory per
\* user (LocalFs, GoogleDriveMock), not objects of one namespace (S3, Drive,
\* IPFS).  parses: created_at as the index returns it is RFC 3339 (always in
\* memory; from Postgres only if the session's UTC offset has minutes).
Configs == {c \in [db : BOOLEAN, local : BOOLEAN, parses : BOOLEAN] : c.db \/ c.parses}

\* todo: the rows an auto-purge run decided to tombstone and has not reached.
Handler == [pc   : {"idle", "store", "index", "cleanup", "count", "gc",
                    "purge", "purge_object", "purge_row"},
            m    : Sends \cup {None},
            side : Sides \cup {None},
            todo : SUBSET (Sends \X Sides)]

Idle == [pc |-> "idle", m |-> None, side |-> None, todo |-> {}]

TypeOK ==
  /\ config \in Configs
  /\ row \in [Sends -> [Sides -> RowType]]
  /\ payload \in [Sends -> BOOLEAN]
  /\ old \subseteq Sends
  /\ req \in [Reqs -> Handler]
  /\ faulty \subseteq Sends

NoRow(status) == [status |-> status, folder |-> "other", ref |-> FALSE]

Init ==
  /\ config \in Configs
  /\ row = [m \in Sends |-> [s \in Sides |-> NoRow("none")]]
  /\ payload = [m \in Sends |-> FALSE]
  /\ old = {}
  /\ req = [r \in Reqs |-> Idle]
  /\ faulty = {}

-----------------------------------------------------------------------------
Goto(r, pc) == req' = [req EXCEPT ![r].pc = pc]

Finish(r) == req' = [req EXCEPT ![r] = Idle]

Exists(m, s) == row[m][s].status \notin {"none", "gone"}

\* WHERE storage_ref = <the send's>
Refs(m) == {s \in Sides : row[m][s].ref}

\* Deleting the payload on behalf of one side: a local path is built from that
\* user's directory, where only the sender's payloads are; a path that does not
\* resolve is not an error.
RemovePayload(m, s) ==
  payload' = [payload EXCEPT ![m] = @ /\ config.local /\ s # "sender"]

\* The send is in one of its handlers' hands.
Busy(m) == \E r \in Reqs : req[r].m = m \/ \E s \in Sides : <<m, s>> \in req[r].todo

-----------------------------------------------------------------------------
(* POST /messages *)

\* The request passed every check that comes before the payload is stored.
SendMessage(r, m) ==
  /\ req[r] = Idle
  /\ \A s \in Sides : row[m][s].status = "none"
  /\ ~payload[m] /\ ~Busy(m) /\ m \notin faulty
  /\ req' = [req EXCEPT ![r] = [Idle EXCEPT !.pc = "store", !.m = m]]
  /\ UNCHANGED <<config, row, payload, old, faulty>>

\* The payload is written; an error ends the request (see Cancel).
StorePayload(r) ==
  /\ req[r].pc = "store"
  /\ payload' = [payload EXCEPT ![req[r].m] = TRUE]
  /\ Goto(r, "index")
  /\ UNCHANGED <<config, row, old, faulty>>

\* The rows of a send: one per side, or one if the recipient is the sender.
InsertRows(m, cross, folder) ==
  row' = [row EXCEPT ![m] =
            [sender    |-> IF cross THEN [status |-> "sent", folder |-> "other", ref |-> TRUE]
                           ELSE [status |-> "unread", folder |-> folder, ref |-> TRUE],
             recipient |-> IF cross THEN [status |-> "unread", folder |-> folder, ref |-> TRUE]
                           ELSE NoRow("none")]]

\* The transaction commits, or the rows are pushed to the in-memory index.
IndexMessage(r, cross, folder) ==
  /\ req[r].pc = "index"
  /\ InsertRows(req[r].m, cross, folder)
  /\ Finish(r)
  /\ UNCHANGED <<config, payload, old, faulty>>

\* The transaction fails and the payload is to be cleaned up.
SendTxFails(r) ==
  /\ req[r].pc = "index"
  /\ config.db
  /\ Goto(r, "cleanup")
  /\ faulty' = faulty \cup {req[r].m}
  /\ UNCHANGED <<config, row, payload, old>>

\* The COMMIT took effect but its answer was lost: sqlx reports an error.
CommitAnswerLost(r, cross, folder) ==
  /\ req[r].pc = "index"
  /\ config.db
  /\ InsertRows(req[r].m, cross, folder)
  /\ Goto(r, "cleanup")
  /\ faulty' = faulty \cup {req[r].m}
  /\ UNCHANGED <<config, payload, old>>

\* After an error of the transaction the payload is deleted; a failure to do so
\* is only logged (see Cancel).
SendRollbackCleanup(r) ==
  /\ req[r].pc = "cleanup"
  /\ RemovePayload(req[r].m, "sender")
  /\ Finish(r)
  /\ UNCHANGED <<config, row, old, faulty>>

-----------------------------------------------------------------------------
(* Archiving and folders. *)

\* PATCH /messages/:id/status: archiving also leaves the inbox.
UpdateMessageStatus(m, s, status) ==
  /\ Exists(m, s)
  /\ row' = [row EXCEPT ![m][s].status = status,
                        ![m][s].folder = IF status = "archived" /\ @ = "inbox" THEN "archive" ELSE @]
  /\ UNCHANGED <<config, payload, old, req, faulty>>

\* PATCH /messages/:id/flags: restoring to the inbox clears 'archived'.
UpdateMessageFlags(m, s, folder) ==
  /\ Exists(m, s)
  /\ row' = [row EXCEPT ![m][s].folder = folder,
                        ![m][s].status = IF folder = "inbox" /\ @ = "archived" THEN "read" ELSE @]
  /\ UNCHANGED <<config, payload, old, req, faulty>>

-----------------------------------------------------------------------------
(* DELETE /messages/:id *)

\* DELETE ... RETURNING storage_ref.  The references of a tombstone's '' are of
\* no interest: there is no payload to collect.
DeleteMessage(r, m, s) ==
  /\ Exists(m, s)
  /\ req[r] = Idle
  /\ row' = [row EXCEPT ![m][s] = NoRow("gone")]
  /\ req' = IF row[m][s].ref
              THEN [req EXCEPT ![r] = [Idle EXCEPT !.pc = "count", !.m = m, !.side = s]]
              ELSE req
  /\ UNCHANGED <<config, payload, old, faulty>>

\* Mutant: the row just deleted is thought to be among the references.
CountRefsWithOwn(r) ==
  /\ req[r].pc = "count"
  /\ IF Cardinality(Refs(req[r].m)) = 1 THEN Goto(r, "gc") ELSE Finish(r)
  /\ UNCHANGED <<config, row, payload, old, faulty>>

\* Does another row still hold the storage_ref?
CountRefs(r) ==
  /\ req[r].pc = "count"
  /\ IF Refs(req[r].m) = {} THEN Goto(r, "gc") ELSE Finish(r)
  /\ UNCHANGED <<config, row, payload, old, faulty>>

\* gc_message_storage, which does not look again; an error ends the request.
GcMessageStorage(r) ==
  /\ req[r].pc = "gc"
  /\ RemovePayload(req[r].m, req[r].side)
  /\ Finish(r)
  /\ UNCHANGED <<config, row, old, faulty>>

-----------------------------------------------------------------------------
(* POST /admin/purge/run *)

\* evaluate_purge_decision: an old archived row becomes a tombstone.  (No code
\* assigns the ai_category of the two rules that delete a row.)
PurgeDecision(m, s) ==
  config.parses /\ m \in old /\ row[m][s].status = "archived"

\* The scan of all rows ...
RunAutoPurge(r) ==
  /\ req[r] = Idle
  /\ LET T == {t \in Sends \X Sides : PurgeDecision(t[1], t[2])}
     IN  T # {} /\ req' = [req EXCEPT ![r] = [Idle EXCEPT !.pc = "purge", !.todo = T]]
  /\ UNCHANGED <<config, row, payload, old, faulty>>

\* ... then row by row ...
PurgeNext(r, m, s) ==
  /\ req[r].pc = "purge"
  /\ <<m, s>> \in req[r].todo
  /\ req' = [req EXCEPT ![r] = [pc |-> "purge_object", m |-> m, side |-> s,
                                todo |-> req[r].todo \ {<<m, s>>}]]
  /\ UNCHANGED <<config, row, payload, old, faulty>>

PurgeContinue(r) ==
  req' = [req EXCEPT ![r] = IF req[r].todo = {} THEN Idle
                            ELSE [Idle EXCEPT !.pc = "purge", !.todo = req[r].todo]]

\* ... the payload, whoever else refers to it ...
PurgeObject(r) ==
  /\ req[r].pc = "purge_object"
  /\ RemovePayload(req[r].m, req[r].side)
  /\ Goto(r, "purge_row")
  /\ UNCHANGED <<config, row, old, faulty>>

PurgeObjectFails(r) ==
  /\ req[r].pc = "purge_object"
  /\ PurgeContinue(r)
  /\ UNCHANGED <<config, row, payload, old, faulty>>

\* ... and UPDATE ... SET status = 'auto_purged', storage_ref = '' WHERE id.
PurgeRow(r) ==
  /\ req[r].pc = "purge_row"
  /\ LET m == req[r].m
         s == req[r].side
     IN  row' = IF Exists(m, s)
                  THEN [row EXCEPT ![m][s].status = "auto_purged", ![m][s].ref = FALSE]
                  ELSE row
  /\ PurgeContinue(r)
  /\ UNCHANGED <<config, payload, old, faulty>>

PurgeRowFails(r) ==
  /\ req[r].pc = "purge_row"
  /\ config.db
  /\ PurgeContinue(r)
  /\ faulty' = faulty \cup {req[r].m}
  /\ UNCHANGED <<config, row, payload, old>>

-----------------------------------------------------------------------------
\* A handler fails, times out or dies between two steps; also BEGIN's error,
\* which ends a send before its rollback clean-up.
Cancel(r) ==
  /\ req[r] # Idle
  /\ faulty' = faulty \cup ({req[r].m} \ {None})
  /\ Finish(r)
  /\ UNCHANGED <<config, row, payload, old>>

MessageAges(m) ==
  /\ \E s \in Sides : Exists(m, s)
  /\ m \notin old
  /\ old' = old \cup {m}
  /\ UNCHANGED <<config, row, payload, req, faulty>>

Next ==
  \/ \E m \in Sends :
       \/ MessageAges(m)
       \/ \E s \in Sides :
            \/ \E status \in {"read", "archived"} : UpdateMessageStatus(m, s, status)
            \/ \E folder \in {"inbox", "archive", "other"} : UpdateMessageFlags(m, s, folder)
  \/ \E r \in Reqs :
       \/ \E m \in Sends : \/ SendMessage(r, m)
                           \/ \E s \in Sides : DeleteMessage(r, m, s) \/ PurgeNext(r, m, s)
       \/ \E cross \in BOOLEAN, folder \in {"inbox", "other"} :
            IndexMessage(r, cross, folder) \/ CommitAnswerLost(r, cross, folder)
       \/ StorePayload(r)
       \/ SendTxFails(r)
       \/ SendRollbackCleanup(r)
       \/ CountRefs(r)
       \/ GcMessageStorage(r)
       \/ RunAutoPurge(r)
       \/ PurgeObject(r)
       \/ PurgeObjectFails(r)
       \/ PurgeRow(r)
       \/ PurgeRowFails(r)
       \/ Cancel(r)

Spec == Init /\ [][Next]_vars

-----------------------------------------------------------------------------
(* Properties. *)

\* A payload is deleted under a row that refers to it only by an auto-purge run
\* (a tombstone of the send exists, or existed, so it is old) or by the clean-up
\* of a send whose COMMIT was in doubt: the deletions of the two sides, however
\* they interleave, never take the payload away from a remaining row.
DeletionsKeepPeerPayload ==
  \A m \in Sends : Refs(m) # {} /\ m \notin old \cup faulty => payload[m]

\* The last deletion collects the payload: in shared storage a payload that no
\* row refers to and no handler works on is left only after a failure.
OrphanOnlyAfterFailure ==
  \A m \in Sends :
    payload[m] /\ Refs(m) = {} /\ ~Busy(m) => config.local \/ m \in faulty

=============================================================================
